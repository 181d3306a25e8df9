--------------------------- MODULE MetaPorterProofs ---------------------------
(***************************************************************************)
(* Safety theorems about MetaPorter, for every set of contacts, handlers   *)
(* and connections and any number of calls, holds and acts: the records    *)
(* count the holds exactly, and a contact has one stream in use, with the  *)
(* handlers it should have.                                                *)
(***************************************************************************)
EXTENDS MetaPorter, FiniteSetTheorems, TLAPS

Tables == [Contacts -> PorterData \cup {None}]

\* The porter table t has for c
PorterOf(t, c) == IF t[c] = None THEN None ELSE t[c].porter

\* Calls and connections that may still need a stream porter of their own
NewStates == {"connecting", "opening", "features"}
Making == {k \in Calls : k \in DOMAIN calls => calls[k].at \in NewStates}
Coming == {i \in Arrivals : incoming[i][1] # "done"}

\* There is always a stream porter left for them.
PortersSuffice ==
  Cardinality(Alive) + Cardinality(Making) + Cardinality(Coming)
    + (IF loopback = "done" THEN 0 ELSE 1) <= Cardinality(Porters)

\* What can be said of a call by itself
CallOK(x) ==
  /\ x.at \in NewStates \cup {"porter"} =>
       x.contact \in Contacts /\ x.kind \in Held \cup {"send"} /\ x.remaining = 0
  /\ x.at = "porter" => x.kind # "open"
  /\ x.at = "closing" => x.kind = "close"
  /\ x.at = "done" => x = Done

CallsInv == \A k \in DOMAIN calls : CallOK(calls[k])

\* The porter in the records is an open one of that contact; the converse is
\* OneStreamWithItsHandlers.
Recorded ==
  \A c \in Contacts : PorterOf(table, c) # None =>
    LET p == PorterOf(table, c)
    IN p \in Alive /\ children[p].state = "open" /\ children[p].contact = c

\* Nobody waits for the close of a porter that is not closing.
Closers ==
  \A p \in Alive : /\ children[p].closer \in DOMAIN calls \cup {None}
                   /\ children[p].state = "open" => children[p].closer = None

RemainingIsExact ==
  \A k \in DOMAIN calls :
    calls[k].remaining = Cardinality({p \in Alive : children[p].closer = k})

\* Table t has n holds of c.
Counted(t, c, n) == IF t[c] = None THEN n = 0 ELSE t[c].holds = n /\ (t[c].timer <=> n = 0)

HoldsAreExact == ~disposed => \A c \in Contacts : Counted(table, c, Holders(c))

\* Whatever is under way keeps the meta-porter from being disposed of.
DisposedIsQuiet ==
  disposed => /\ \A k \in DOMAIN calls : calls[k].at = "done"
              /\ \A i \in Arrivals : incoming[i][1] \in {"new", "done"}
              /\ loopback # "opening"

\* The inductive invariant
IInv ==
  /\ TypeOK /\ PortersSuffice /\ CallsInv /\ Recorded /\ OneStreamWithItsHandlers
  /\ Closers /\ RemainingIsExact /\ HoldsAreExact /\ DisposedIsQuiet

LEMMA IInvMeans == IInv => HoldsAreCounted /\ OneStreamWithItsHandlers
BY DEF IInv, HoldsAreCounted, CountsAreExact, HoldsAreExact, RemainingIsExact, Counted

-----------------------------------------------------------------------------
(* Constants and counting *)

LEMMA Constants ==
  /\ IsFiniteSet(Porters) /\ Porters \subseteq Nat /\ None \notin Porters
  /\ Calls \subseteq Nat /\ None \notin Calls /\ IsFiniteSet(Calls) /\ IsFiniteSet(Arrivals)
  /\ Cardinality(Calls) = MaxCalls /\ Cardinality(Porters) = MaxCalls + Cardinality(Arrivals) + 1
  /\ Cardinality(Arrivals) \in Nat /\ MaxCalls \in Nat
<1>1. MaxCalls \in Nat /\ IsFiniteSet(Arrivals) /\ None \notin Nat
  BY MetaPorterAssumption
<1>2. Cardinality(Arrivals) \in Nat
  BY <1>1, FS_CardinalityType
<1>3. IsFiniteSet(Calls) /\ Cardinality(Calls) = MaxCalls
  BY <1>1, FS_Interval DEF Calls
<1>4. IsFiniteSet(Porters) /\ Cardinality(Porters) = MaxCalls + Cardinality(Arrivals) + 1
  <2>1. PICK n \in Nat : n = MaxCalls + Cardinality(Arrivals) + 1
    BY <1>1, <1>2
  <2>2. IsFiniteSet(1 .. n) /\ Cardinality(1 .. n) = n
    <3>1. Cardinality(1 .. n) = IF 1 > n THEN 0 ELSE n - 1 + 1
      BY FS_Interval
    <3> QED
      BY <3>1, FS_Interval
  <2> QED
    BY <2>1, <2>2 DEF Porters
<1>5. Porters \subseteq Nat /\ Calls \subseteq Nat
  BY <1>1, <1>2 DEF Porters, Calls
<1> QED
  BY <1>1, <1>2, <1>3, <1>4, <1>5

LEMMA OneMore ==
  ASSUME NEW S, NEW T, NEW x, IsFiniteSet(S), T \subseteq S \cup {x}
  PROVE  /\ IsFiniteSet(T) /\ Cardinality(T) \in Nat /\ Cardinality(S) \in Nat
         /\ Cardinality(T) <= Cardinality(S) + 1
<1>0. Cardinality(S) \in Nat
  BY FS_CardinalityType
<1>1. IsFiniteSet(S \cup {x}) /\ Cardinality(S \cup {x}) <= Cardinality(S) + 1
  BY <1>0, FS_AddElement
<1>2. Cardinality(S) \in Nat /\ Cardinality(S \cup {x}) \in Nat
  BY <1>1, FS_CardinalityType
<1>3. IsFiniteSet(T) /\ Cardinality(T) <= Cardinality(S \cup {x})
  BY <1>1, FS_Subset
<1>4. Cardinality(T) \in Nat
  BY <1>3, FS_CardinalityType
<1> QED
  BY <1>1, <1>2, <1>3, <1>4

LEMMA OneLess ==
  ASSUME NEW S, NEW T, NEW x \in S, IsFiniteSet(S), T \subseteq S \ {x}
  PROVE  /\ Cardinality(T) \in Nat /\ Cardinality(S) \in Nat
         /\ Cardinality(T) + 1 <= Cardinality(S)
<1>1. IsFiniteSet(S \ {x}) /\ Cardinality(S \ {x}) = Cardinality(S) - 1
  BY FS_RemoveElement
<1>2. IsFiniteSet(T) /\ Cardinality(T) <= Cardinality(S \ {x})
  BY <1>1, FS_Subset
<1>3. Cardinality(T) \in Nat /\ Cardinality(S) \in Nat
  BY <1>2, FS_CardinalityType
<1> QED
  BY <1>1, <1>2, <1>3

LEMMA NoMore ==
  ASSUME NEW S, NEW T, IsFiniteSet(S), T \subseteq S
  PROVE  /\ Cardinality(T) \in Nat /\ Cardinality(S) \in Nat
         /\ Cardinality(T) <= Cardinality(S)
BY FS_Subset, FS_CardinalityType

\* What the stream porters are counted for is finite.
LEMMA FiniteSets == IsFiniteSet(Alive) /\ IsFiniteSet(Making) /\ IsFiniteSet(Coming)
<1>1. Alive \subseteq Porters /\ Making \subseteq Calls /\ Coming \subseteq Arrivals
  BY DEF Alive, Making, Coming
<1> QED
  BY <1>1, Constants, FS_Subset

\* Whoever needs a stream porter finds one.
LEMMA FreePorterExists ==
  ASSUME PortersSuffice, Making # {} \/ Coming # {} \/ loopback # "done"
  PROVE  FreePorter \in Porters /\ FreePorter \notin Alive
<1>1. Alive \subseteq Porters
  BY DEF Alive
<1>2. Cardinality(Alive) \in Nat /\ Cardinality(Making) \in Nat /\ Cardinality(Coming) \in Nat
      /\ Cardinality(Porters) \in Nat
  BY FiniteSets, Constants, FS_CardinalityType
<1>3. Making # {} => Cardinality(Making) # 0
  BY FiniteSets, FS_EmptySet
<1>4. Coming # {} => Cardinality(Coming) # 0
  BY FiniteSets, FS_EmptySet
<1>5. Cardinality(Alive) < Cardinality(Porters)
  BY <1>2, <1>3, <1>4 DEF PortersSuffice
<1>6. \E p \in Porters : p \notin Alive
  BY <1>1, <1>2, <1>5
<1> QED
  BY <1>6 DEF FreePorter

\* The number of calls, connections and porters does not grow.
LEMMA PortersStillSuffice ==
  ASSUME PortersSuffice, Alive' \subseteq Alive, Making' \subseteq Making, Coming' \subseteq Coming,
         loopback = "done" => loopback' = "done"
  PROVE  PortersSuffice'
<1>1. /\ Cardinality(Alive') <= Cardinality(Alive) /\ Cardinality(Making') <= Cardinality(Making)
      /\ Cardinality(Coming') <= Cardinality(Coming)
  BY FiniteSets, NoMore
<1>2. /\ Cardinality(Alive') \in Nat /\ Cardinality(Alive) \in Nat
      /\ Cardinality(Making') \in Nat /\ Cardinality(Making) \in Nat
      /\ Cardinality(Coming') \in Nat /\ Cardinality(Coming) \in Nat
  BY FiniteSets, NoMore
<1>3. Porters' = Porters /\ Cardinality(Porters) \in Nat
  BY Constants, FS_CardinalityType DEF Porters
<1>4. (IF loopback' = "done" THEN 0 ELSE 1) <= (IF loopback = "done" THEN 0 ELSE 1)
  OBVIOUS
<1>5. /\ (IF loopback' = "done" THEN 0 ELSE 1) \in Nat
      /\ (IF loopback = "done" THEN 0 ELSE 1) \in Nat
  OBVIOUS
<1>6. \A a, b, c, d, e, f, g, h, n \in Nat :
        a + b + c + d <= n /\ e <= a /\ f <= b /\ g <= c /\ h <= d => e + f + g + h <= n
  OBVIOUS
<1> HIDE DEF Porters, Alive, Making, Coming
<1>7. /\ PortersSuffice <=> Cardinality(Alive) + Cardinality(Making) + Cardinality(Coming)
                  + (IF loopback = "done" THEN 0 ELSE 1) <= Cardinality(Porters)
      /\ PortersSuffice' <=> Cardinality(Alive') + Cardinality(Making') + Cardinality(Coming')
                  + (IF loopback' = "done" THEN 0 ELSE 1) <= Cardinality(Porters)
  BY <1>3 DEF PortersSuffice
<1> QED
  BY <1>1, <1>2, <1>3, <1>4, <1>5, <1>6, <1>7

\* One more porter, for a call, a connection or the loopback, which needs none after that
LEMMA PorterIsTaken ==
  ASSUME PortersSuffice, NEW p, Alive' \subseteq Alive \cup {p},
         Making' \subseteq Making, Coming' \subseteq Coming, loopback = "done" => loopback' = "done",
         \/ \E k \in Making : k \notin Making'
         \/ \E i \in Coming : i \notin Coming'
         \/ loopback # "done" /\ loopback' = "done"
  PROVE  PortersSuffice'
<1>1. /\ Cardinality(Alive') <= Cardinality(Alive) + 1
      /\ Cardinality(Making') <= Cardinality(Making)
      /\ Cardinality(Coming') <= Cardinality(Coming)
  BY FiniteSets, NoMore, OneMore
<1>2. /\ Cardinality(Alive') \in Nat /\ Cardinality(Alive) \in Nat
      /\ Cardinality(Making') \in Nat /\ Cardinality(Making) \in Nat
      /\ Cardinality(Coming') \in Nat /\ Cardinality(Coming) \in Nat
  BY FiniteSets, NoMore, OneMore
<1>3. Porters' = Porters /\ Cardinality(Porters) \in Nat
  BY Constants, FS_CardinalityType DEF Porters
<1> DEFINE before == IF loopback = "done" THEN 0 ELSE 1
           after == IF loopback' = "done" THEN 0 ELSE 1
<1>4. after <= before /\ after \in Nat /\ before \in Nat
  OBVIOUS
<1>5. \/ Cardinality(Making') + 1 <= Cardinality(Making)
      \/ Cardinality(Coming') + 1 <= Cardinality(Coming)
      \/ after + 1 <= before
  <2>1. CASE \E k \in Making : k \notin Making'
    BY <2>1, FiniteSets, OneLess
  <2>2. CASE \E i \in Coming : i \notin Coming'
    BY <2>2, FiniteSets, OneLess
  <2>3. CASE loopback # "done" /\ loopback' = "done"
    BY <2>3
  <2> QED
    BY <2>1, <2>2, <2>3
<1>6. \A a, b, c, d, e, f, g, h, n \in Nat :
        /\ a + b + c + d <= n /\ e <= a + 1 /\ f <= b /\ g <= c /\ h <= d
        /\ f + 1 <= b \/ g + 1 <= c \/ h + 1 <= d
        => e + f + g + h <= n
  OBVIOUS
<1>7. /\ PortersSuffice <=> Cardinality(Alive) + Cardinality(Making) + Cardinality(Coming)
                  + before <= Cardinality(Porters)
      /\ PortersSuffice' <=> Cardinality(Alive') + Cardinality(Making') + Cardinality(Coming')
                  + after <= Cardinality(Porters)
  BY <1>3 DEF PortersSuffice
<1> HIDE DEF before, after
<1> QED
  BY <1>1, <1>2, <1>3, <1>4, <1>5, <1>6, <1>7

-----------------------------------------------------------------------------
(* Holds, in the table and by calls *)

LEMMA HoldInCounts ==
  ASSUME NEW t \in Tables, NEW c \in Contacts, NEW n \in Nat, Counted(t, c, n)
  PROVE  /\ HoldIn(t, c) \in Tables /\ Counted(HoldIn(t, c), c, n + 1)
         /\ \A d \in Contacts \ {c} : HoldIn(t, c)[d] = t[d]
         /\ \A d \in Contacts : PorterOf(HoldIn(t, c), d) = PorterOf(t, d)
         /\ HoldIn(t, c)[c] # None
<1> DEFINE r == [porter |-> PorterOf(t, c), holds |-> n + 1, timer |-> FALSE]
<1>1. t[c] # None => t[c] \in PorterData
  BY DEF Tables
<1>2. PorterOf(t, c) \in Nat \cup {None}
  BY <1>1 DEF PorterData, PorterOf
<1>3. r \in PorterData
  BY <1>2 DEF PorterData
<1>4. r # None
  BY <1>3, NoneAssumption
<1>5. HoldIn(t, c)[c] = r
  <2>1. CASE t[c] = None
    <3>1. n = 0 /\ PorterOf(t, c) = None
      BY <2>1 DEF Counted, PorterOf
    <3> QED
      BY <2>1, <3>1 DEF HoldIn, Tables
  <2>2. CASE t[c] # None
    <3>1. HoldIn(t, c)[c] = [t[c] EXCEPT !.holds = @ + 1, !.timer = FALSE]
      BY <2>2 DEF HoldIn, Tables
    <3>2. t[c].holds = n /\ PorterOf(t, c) = t[c].porter
      BY <2>2 DEF Counted, PorterOf
    <3> QED
      BY <1>1, <2>2, <3>1, <3>2 DEF PorterData
  <2> QED
    BY <2>1, <2>2
<1>6. HoldIn(t, c) = [t EXCEPT ![c] = r]
  BY <1>5 DEF HoldIn, Tables
<1>7. r.holds = n + 1 /\ r.timer = FALSE /\ r.porter = PorterOf(t, c)
  OBVIOUS
<1> HIDE DEF r
<1>8. HoldIn(t, c)[c] = r /\ (\A d \in Contacts \ {c} : HoldIn(t, c)[d] = t[d])
      /\ HoldIn(t, c) \in Tables
  BY <1>3, <1>6 DEF Tables
<1> QED
  BY <1>4, <1>7, <1>8 DEF Counted, PorterOf

LEMMA UnholdInCounts ==
  ASSUME NEW t \in Tables, NEW c \in Contacts, NEW n \in Nat \ {0}, Counted(t, c, n)
  PROVE  /\ UnholdIn(t, c) \in Tables /\ Counted(UnholdIn(t, c), c, n - 1)
         /\ \A d \in Contacts \ {c} : UnholdIn(t, c)[d] = t[d]
         /\ \A d \in Contacts : PorterOf(UnholdIn(t, c), d) = PorterOf(t, d)
         /\ UnholdIn(t, c)[c] # None
<1> DEFINE r == [porter |-> PorterOf(t, c), holds |-> n - 1, timer |-> n = 1]
<1>1. t[c] # None /\ t[c] \in PorterData /\ t[c].holds = n /\ ~t[c].timer
  BY DEF Tables, Counted
<1>2. PorterOf(t, c) = t[c].porter /\ t[c].porter \in Nat \cup {None} /\ t[c].timer \in BOOLEAN
  BY <1>1 DEF PorterData, PorterOf
<1>3. r \in PorterData
  BY <1>2 DEF PorterData
<1>4. r # None
  BY <1>3, NoneAssumption
<1>5. UnholdIn(t, c)[c] = r
  <2>1. UnholdIn(t, c)[c] = [t[c] EXCEPT !.holds = @ - 1, !.timer = @ \/ t[c].holds = 1]
    BY <1>1 DEF UnholdIn, Tables, PorterData
  <2>2. t[c].timer = FALSE
    BY <1>1, <1>2
  <2> QED
    BY <1>1, <1>2, <2>1, <2>2 DEF PorterData
<1>6. UnholdIn(t, c) = [t EXCEPT ![c] = r]
  BY <1>1, <1>5 DEF UnholdIn, Tables
<1>7. r.holds = n - 1 /\ (r.timer <=> n - 1 = 0) /\ r.porter = PorterOf(t, c)
  <2>1. r.timer = (n = 1) /\ r.holds = n - 1 /\ r.porter = PorterOf(t, c)
    OBVIOUS
  <2>2. n = 1 <=> n - 1 = 0
    OBVIOUS
  <2> HIDE DEF r
  <2> QED
    BY <2>1, <2>2, Zenon
<1> HIDE DEF r
<1>8. UnholdIn(t, c)[c] = r /\ (\A d \in Contacts \ {c} : UnholdIn(t, c)[d] = t[d])
      /\ UnholdIn(t, c) \in Tables
  BY <1>3, <1>6 DEF Tables
<1> QED
  BY <1>4, <1>7, <1>8 DEF Counted, PorterOf

\* The calls of cs that hold the porter to c
HoldingIn(cs, c) == {k \in DOMAIN cs : cs[k].contact = c /\ cs[k].kind \in Held}

LEMMA HoldingCount ==
  ASSUME NEW cs \in Seq(CallStates), NEW c
  PROVE  IsFiniteSet(HoldingIn(cs, c)) /\ Cardinality(HoldingIn(cs, c)) \in Nat
<1>1. IsFiniteSet(1 .. Len(cs))
  BY FS_Interval
<1>2. HoldingIn(cs, c) \subseteq 1 .. Len(cs)
  BY DEF HoldingIn
<1> QED
  BY <1>1, <1>2, FS_Subset, FS_CardinalityType

\* Who else holds the porter to c
Loopback(c) == IF c = Self /\ loopback = "done" THEN 1 ELSE 0

LEMMA HoldersAre ==
  ASSUME NEW c
  PROVE  /\ Holders(c) = Cardinality(HoldingIn(calls, c)) + owned[c] + Loopback(c)
         /\ Loopback(c) \in {0, 1}
BY DEF Holders, HoldingCalls, HoldingIn, Loopback

LEMMA HoldersNat ==
  ASSUME TypeOK, NEW c \in Contacts
  PROVE  Holders(c) \in Nat
<1>1. Cardinality(HoldingIn(calls, c)) \in Nat /\ owned[c] \in Nat
  BY HoldingCount DEF TypeOK
<1> QED
  BY <1>1, HoldersAre

\* Call k of cs becomes x.
LEMMA CallMoves ==
  ASSUME NEW cs \in Seq(CallStates), NEW k \in DOMAIN cs, NEW x \in CallStates,
         NEW ds, ds = [cs EXCEPT ![k] = x]
  PROVE  /\ ds \in Seq(CallStates) /\ Len(ds) = Len(cs) /\ DOMAIN ds = DOMAIN cs
         /\ ds[k] = x /\ \A j \in DOMAIN cs : j # k => ds[j] = cs[j]
         /\ \A c : HoldingIn(ds, c) = IF x.contact = c /\ x.kind \in Held
                                      THEN HoldingIn(cs, c) \cup {k} ELSE HoldingIn(cs, c) \ {k}
<1>1. /\ ds \in Seq(CallStates) /\ Len(ds) = Len(cs) /\ DOMAIN ds = DOMAIN cs
      /\ ds[k] = x /\ \A j \in DOMAIN cs : j # k => ds[j] = cs[j]
  OBVIOUS
<1>2. ASSUME NEW c
      PROVE  HoldingIn(ds, c) = IF x.contact = c /\ x.kind \in Held
                                THEN HoldingIn(cs, c) \cup {k} ELSE HoldingIn(cs, c) \ {k}
  BY <1>1 DEF HoldingIn
<1> QED
  BY <1>1, <1>2

LEMMA CallIsAdded ==
  ASSUME NEW cs \in Seq(CallStates), NEW x \in CallStates, NEW ds, ds = Append(cs, x)
  PROVE  /\ ds \in Seq(CallStates) /\ Len(ds) = Len(cs) + 1
         /\ DOMAIN ds = DOMAIN cs \cup {Len(cs) + 1} /\ Len(cs) + 1 \notin DOMAIN cs
         /\ ds[Len(cs) + 1] = x /\ \A j \in DOMAIN cs : ds[j] = cs[j]
         /\ \A c : HoldingIn(ds, c) = IF x.contact = c /\ x.kind \in Held
                                      THEN HoldingIn(cs, c) \cup {Len(cs) + 1}
                                      ELSE HoldingIn(cs, c)
         /\ \A c : Len(cs) + 1 \notin HoldingIn(cs, c)
<1>1. /\ ds \in Seq(CallStates) /\ Len(ds) = Len(cs) + 1 /\ Len(cs) \in Nat
      /\ DOMAIN ds = 1 .. (Len(cs) + 1) /\ DOMAIN cs = 1 .. Len(cs)
      /\ ds[Len(cs) + 1] = x /\ \A j \in DOMAIN cs : ds[j] = cs[j]
  OBVIOUS
<1>2. DOMAIN ds = DOMAIN cs \cup {Len(cs) + 1} /\ Len(cs) + 1 \notin DOMAIN cs
  BY <1>1
<1>3. ASSUME NEW c
      PROVE  HoldingIn(ds, c) = IF x.contact = c /\ x.kind \in Held
                                THEN HoldingIn(cs, c) \cup {Len(cs) + 1}
                                ELSE HoldingIn(cs, c)
  BY <1>1, <1>2 DEF HoldingIn
<1>4. \A c : Len(cs) + 1 \notin HoldingIn(cs, c)
  BY <1>2 DEF HoldingIn
<1> QED
  BY <1>1, <1>2, <1>3, <1>4

-----------------------------------------------------------------------------
(* What steps of one kind leave alone *)

\* The porters that call k, a close, waits for
ClosedFor(k) == {p \in Alive : children[p].closer = k}

\* Calls may be added, but none changes how many porters it waits for.
CallsKept ==
  /\ DOMAIN calls \subseteq DOMAIN calls'
  /\ \A k \in DOMAIN calls : calls'[k].remaining = calls[k].remaining
  /\ \A k \in DOMAIN calls' \ DOMAIN calls : calls'[k].remaining = 0

LEMMA CallIndices ==
  ASSUME TypeOK
  PROVE  DOMAIN calls \subseteq Calls /\ None \notin DOMAIN calls
<1>1. calls \in Seq(CallStates) /\ Len(calls) <= MaxCalls /\ MaxCalls \in Nat
  BY Constants DEF TypeOK
<1>2. DOMAIN calls = 1 .. Len(calls) /\ Len(calls) \in Nat
  BY <1>1
<1>3. DOMAIN calls \subseteq Calls
  BY <1>1, <1>2 DEF Calls
<1> QED
  BY <1>3, Constants

LEMMA RemainingKept ==
  ASSUME Closers, RemainingIsExact, CallsKept, \A k \in DOMAIN calls' : ClosedFor(k)' = ClosedFor(k),
         None \notin DOMAIN calls'
  PROVE  RemainingIsExact'
<1>1. ASSUME NEW k \in DOMAIN calls'
      PROVE  calls'[k].remaining = Cardinality(ClosedFor(k))
  <2>1. CASE k \in DOMAIN calls
    BY <2>1 DEF RemainingIsExact, CallsKept, ClosedFor
  <2>2. CASE k \notin DOMAIN calls
    <3>1. ClosedFor(k) = {}
      BY <2>2 DEF Closers, ClosedFor
    <3> QED
      BY <2>2, <3>1, FS_EmptySet DEF CallsKept
  <2> QED
    BY <2>1, <2>2
<1>2. ASSUME NEW k \in DOMAIN calls'
      PROVE  calls'[k].remaining = Cardinality(ClosedFor(k)')
  BY <1>1
<1> QED
  BY <1>2 DEF RemainingIsExact, ClosedFor

LEMMA StreamsKept ==
  ASSUME Recorded, OneStreamWithItsHandlers, UNCHANGED <<children, registered>>,
         \A c \in Contacts : PorterOf(table', c) = PorterOf(table, c)
  PROVE  Recorded'
<1>1. Alive' = Alive
  BY DEF Alive
<1> QED
  BY <1>1 DEF Recorded

\* The stream in use of a contact and its handlers, in terms of PorterOf
LEMMA StreamInUse ==
  ASSUME TypeOK
  PROVE  OneStreamWithItsHandlers <=>
           \A p \in Alive : children[p].state = "open" =>
             /\ PorterOf(table, children[p].contact) = p
             /\ children[p].handlers = Wanting(children[p].contact)
<1>1. \A p \in Alive : p # None
  BY Constants DEF Alive
<1>2. \A p \in Alive : \A c : table[c] # None /\ table[c].porter = p <=> PorterOf(table, c) = p
  BY <1>1 DEF PorterOf
<1> QED
  BY <1>2 DEF OneStreamWithItsHandlers

LEMMA UsesKept ==
  ASSUME TypeOK, OneStreamWithItsHandlers, UNCHANGED <<children, registered>>,
         \A c \in Contacts : PorterOf(table', c) = PorterOf(table, c)
  PROVE  OneStreamWithItsHandlers'
<1>1. /\ Alive' = Alive /\ \A c : Wanting(c)' = Wanting(c)
  BY DEF Alive, Wanting
<1>2. \A p \in Alive : p # None /\ children[p] \in Children
  BY Constants DEF Alive, TypeOK
<1>3. ASSUME NEW p \in Alive, children[p].state = "open"
      PROVE  /\ table'[children[p].contact] # None
             /\ table'[children[p].contact].porter = p
             /\ children[p].handlers = Wanting(children[p].contact)
  <2>1. children[p].contact \in Contacts
    BY <1>2 DEF Children
  <2>2. PorterOf(table, children[p].contact) = p
    BY <1>3, StreamInUse
  <2>3. PorterOf(table', children[p].contact) = p
    BY <2>1, <2>2
  <2>4. children[p].handlers = Wanting(children[p].contact)
    BY <1>3, StreamInUse
  <2> QED
    BY <1>2, <2>3, <2>4 DEF PorterOf
<1> QED
  BY <1>1, <1>3 DEF OneStreamWithItsHandlers

\* No stream changes, nor the handlers, nor which porter is in use.
LEMMA NoStreamChanges ==
  ASSUME IInv, TypeOK', CallsInv', HoldsAreExact', DisposedIsQuiet',
         UNCHANGED <<children, registered>>,
         \A c \in Contacts : PorterOf(table', c) = PorterOf(table, c),
         CallsKept, Making' \subseteq Making, Coming' \subseteq Coming,
         loopback = "done" => loopback' = "done", None \notin DOMAIN calls'
  PROVE  IInv'
<1>1. Alive' = Alive /\ \A k : ClosedFor(k)' = ClosedFor(k)
  BY DEF Alive, ClosedFor
<1>2. PortersSuffice'
  BY <1>1, PortersStillSuffice DEF IInv
<1>3. Recorded' /\ OneStreamWithItsHandlers'
  BY StreamsKept, UsesKept DEF IInv
<1>4. Closers'
  BY <1>1 DEF Closers, CallsKept, IInv
<1>5. RemainingIsExact'
  BY <1>1, RemainingKept DEF IInv
<1> QED
  BY <1>2, <1>3, <1>4, <1>5 DEF IInv

\* The holds of at most one contact change.
LEMMA HoldsOfOne ==
  ASSUME HoldsAreExact, disposed' = disposed, NEW c \in Contacts,
         \A d \in Contacts \ {c} : table'[d] = table[d] /\ Holders(d)' = Holders(d),
         ~disposed => Counted(table', c, Holders(c)')
  PROVE  HoldsAreExact'
<1> SUFFICES ASSUME ~disposed, NEW d \in Contacts
             PROVE  Counted(table', d, Holders(d)')
  BY DEF HoldsAreExact
<1>1. CASE d = c
  BY <1>1
<1>2. CASE d # c
  <2>1. Counted(table, d, Holders(d))
    BY DEF HoldsAreExact
  <2> QED
    BY <1>2, <2>1 DEF Counted
<1> QED
  BY <1>1, <1>2

LEMMA HoldsOfNone ==
  ASSUME HoldsAreExact, disposed' = disposed,
         \A d \in Contacts : table'[d] = table[d] /\ Holders(d)' = Holders(d)
  PROVE  HoldsAreExact'
BY DEF HoldsAreExact, Counted

\* Who holds a contact depends on calls, owned and the loopback.
LEMMA HoldersSame ==
  ASSUME NEW c, HoldingIn(calls', c) = HoldingIn(calls, c), owned'[c] = owned[c],
         loopback' = "done" <=> loopback = "done"
  PROVE  Holders(c)' = Holders(c)
BY DEF Holders, HoldingCalls, HoldingIn

-----------------------------------------------------------------------------
(* A call goes on *)

LEMMA CallGoesOn ==
  ASSUME IInv, NEW k \in DOMAIN calls, NEW x \in CallStates, calls' = [calls EXCEPT ![k] = x],
         CallOK(x), x.remaining = calls[k].remaining,
         x.at \in NewStates => calls[k].at \in NewStates, calls[k].at # "done",
         UNCHANGED <<known, children, registered, incoming, loopback, disposed>>,
         acts' \in 0 .. MaxActs, owned' \in [Contacts -> Nat], table' \in Tables,
         \A c \in Contacts : PorterOf(table', c) = PorterOf(table, c), HoldsAreExact'
  PROVE  IInv'
<1>1. calls \in Seq(CallStates) /\ Len(calls) <= MaxCalls
  BY DEF IInv, TypeOK
<1>2. /\ calls' \in Seq(CallStates) /\ Len(calls') = Len(calls) /\ DOMAIN calls' = DOMAIN calls
      /\ calls'[k] = x /\ \A j \in DOMAIN calls : j # k => calls'[j] = calls[j]
  BY <1>1, CallMoves
<1>3. TypeOK'
  BY <1>1, <1>2 DEF IInv, TypeOK, Tables
<1>4. CallsInv'
  BY <1>2 DEF CallsInv, IInv
<1>5. CallsKept
  BY <1>2 DEF CallsKept
<1>6. Making' \subseteq Making
  BY <1>2 DEF Making, Calls
<1>7. Coming' = Coming
  BY DEF Coming
<1>8. DisposedIsQuiet'
  BY <1>2 DEF DisposedIsQuiet, IInv
<1>9. None \notin DOMAIN calls'
  BY <1>2, CallIndices DEF IInv
<1> QED
  BY <1>3, <1>4, <1>5, <1>6, <1>7, <1>8, <1>9, NoStreamChanges

\* What is known of a call that has not been answered
LEMMA CallType ==
  ASSUME IInv, NEW k \in DOMAIN calls
  PROVE  /\ calls[k] \in CallStates /\ CallOK(calls[k])
         /\ calls[k].at \in NewStates \cup {"porter"} => ~disposed /\ calls[k].contact \in Contacts
         /\ calls[k].at # "done" => ~disposed
<1>0. calls \in Seq(CallStates) /\ CallsInv
  BY DEF IInv, TypeOK
<1>1. calls[k] \in CallStates /\ CallOK(calls[k])
  BY <1>0 DEF CallsInv
<1>2. calls[k].at # "done" => ~disposed
  BY DEF IInv, DisposedIsQuiet
<1>3. calls[k].at \in NewStates \cup {"porter"} => calls[k].at # "done"
  BY DEF NewStates
<1> QED
  BY <1>1, <1>2, <1>3 DEF CallOK

\* The call goes on without a change to who holds what.
LEMMA CallProceeds ==
  ASSUME IInv, NEW k \in DOMAIN calls, NEW x \in CallStates, calls' = [calls EXCEPT ![k] = x],
         CallOK(x), x.remaining = calls[k].remaining,
         x.contact = calls[k].contact, x.kind = calls[k].kind,
         x.at \in NewStates => calls[k].at \in NewStates, calls[k].at # "done",
         UNCHANGED <<known, table, children, registered, incoming, loopback, owned, disposed>>,
         acts' \in 0 .. MaxActs
  PROVE  IInv'
<1>1. calls \in Seq(CallStates)
  BY DEF IInv, TypeOK
<1>2. \A c : HoldingIn(calls', c) = HoldingIn(calls, c)
  BY <1>1, CallMoves DEF HoldingIn
<1>3. \A c : Holders(c)' = Holders(c)
  BY <1>2, HoldersSame
<1>4. HoldsAreExact'
  BY <1>3, HoldsOfNone DEF IInv
<1>5. table' \in Tables /\ owned' \in [Contacts -> Nat]
  BY DEF IInv, TypeOK, Tables
<1> QED
  BY <1>4, <1>5, CallGoesOn

LEMMA DoneType == Done \in CallStates /\ CallOK(Done)
<1>1. MaxAddresses \in Nat \ {0}
  BY MetaPorterAssumption
<1> QED
  BY <1>1 DEF Done, CallStates, CallOK, NewStates

\* A holding call loses its hold as it is answered; other calls have none to lose.
LEMMA CallIsAnswered ==
  ASSUME IInv, NEW k \in DOMAIN calls, calls[k].at \in NewStates \cup {"porter"},
         calls' = [calls EXCEPT ![k] = Done],
         table' = IF calls[k].kind \in Held THEN UnholdIn(table, calls[k].contact) ELSE table,
         UNCHANGED <<known, children, registered, incoming, loopback, owned, disposed, acts>>
  PROVE  IInv'
<1>0. PICK c \in Contacts : c = calls[k].contact
  BY CallType
<1>1. /\ calls[k] \in CallStates /\ CallOK(calls[k]) /\ ~disposed
      /\ calls[k].at # "done" /\ calls[k].remaining = 0
  BY CallType DEF CallOK, NewStates
<1>2. calls \in Seq(CallStates) /\ table \in Tables /\ owned \in [Contacts -> Nat]
      /\ acts \in 0 .. MaxActs
  BY DEF IInv, TypeOK, Tables
<1>3. Done.contact \notin Contacts /\ Done.kind \notin Held /\ Done.at = "done" /\ Done.remaining = 0
  BY MetaPorterAssumption, NoneAssumption DEF Done
<1>4. \A d : HoldingIn(calls', d) = HoldingIn(calls, d) \ {k}
  <2>1. /\ DOMAIN calls' = DOMAIN calls /\ calls'[k] = Done
        /\ \A j \in DOMAIN calls : j # k => calls'[j] = calls[j]
    BY <1>2, DoneType, CallMoves
  <2> QED
    BY <1>3, <2>1 DEF HoldingIn
<1>5. k \in HoldingIn(calls, c) <=> calls[k].kind \in Held
  BY <1>0 DEF HoldingIn
<1>6. \A d \in Contacts \ {c} : k \notin HoldingIn(calls, d)
  BY <1>0 DEF HoldingIn
<1>7. \A d \in Contacts \ {c} : Holders(d)' = Holders(d)
  <2>1. \A d \in Contacts \ {c} : HoldingIn(calls', d) = HoldingIn(calls, d)
    BY <1>4, <1>6
  <2> QED
    BY <2>1, HoldersSame
<1> DEFINE n == Holders(c)
<1>8. n \in Nat /\ Counted(table, c, n)
  BY <1>1, HoldersNat DEF IInv, HoldsAreExact
<1>9. CASE calls[k].kind \in Held
  <2>1. Cardinality(HoldingIn(calls', c)) = Cardinality(HoldingIn(calls, c)) - 1
    <3>1. IsFiniteSet(HoldingIn(calls, c))
      BY <1>2, HoldingCount
    <3>2. PICK S : S = HoldingIn(calls, c)
      OBVIOUS
    <3>3. k \in S /\ HoldingIn(calls', c) = S \ {k}
      BY <1>4, <1>5, <1>9, <3>2
    <3> QED
      BY <3>1, <3>2, <3>3, FS_RemoveElement
  <2>2. Cardinality(HoldingIn(calls, c)) \in Nat \ {0}
    <3>1. IsFiniteSet(HoldingIn(calls, c)) /\ HoldingIn(calls, c) # {}
      BY <1>2, <1>5, <1>9, HoldingCount
    <3> QED
      BY <3>1, FS_EmptySet, FS_CardinalityType
  <2>3. Holders(c)' = n - 1 /\ n \in Nat \ {0}
    <3>1. Holders(c)' = Cardinality(HoldingIn(calls', c)) + owned[c] + Loopback(c)
      BY DEF Holders, HoldingCalls, HoldingIn, Loopback
    <3>2. n = Cardinality(HoldingIn(calls, c)) + owned[c] + Loopback(c) /\ Loopback(c) \in {0, 1}
      BY HoldersAre
    <3>3. owned[c] \in Nat
      BY <1>1, <1>2
    <3> HIDE DEF n
    <3> QED
      BY <2>1, <2>2, <3>1, <3>2, <3>3
  <2> HIDE DEF n
  <2>4. table' = UnholdIn(table, c)
    BY <1>0, <1>9
  <2>5. /\ table' \in Tables /\ Counted(table', c, n - 1)
        /\ \A d \in Contacts \ {c} : table'[d] = table[d]
        /\ \A d \in Contacts : PorterOf(table', d) = PorterOf(table, d)
    BY <1>1, <1>2, <1>8, <2>3, <2>4, UnholdInCounts
  <2>6. HoldsAreExact'
    BY <1>1, <1>7, <2>3, <2>5, HoldsOfOne DEF IInv
  <2> QED
    BY <1>1, <1>2, <1>3, <2>5, <2>6, DoneType, CallGoesOn DEF NewStates
<1>10. CASE calls[k].kind \notin Held
  <2>1. HoldingIn(calls', c) = HoldingIn(calls, c)
    BY <1>4, <1>5, <1>10
  <2>2. Holders(c)' = Holders(c)
    BY <2>1, HoldersSame
  <2>3. \A d \in Contacts : table'[d] = table[d] /\ Holders(d)' = Holders(d)
    BY <1>7, <1>10, <2>2
  <2>4. HoldsAreExact'
    BY <2>3, HoldsOfNone DEF IInv
  <2>5. table' = table
    BY <1>10
  <2> QED
    BY <1>1, <1>2, <1>3, <2>4, <2>5, DoneType, CallGoesOn DEF NewStates
<1> QED
  BY <1>9, <1>10

LEMMA CallSteps ==
  ASSUME IInv, NEW k \in Calls,
         CancelCall(k) \/ HostConnected(k) \/ HostFailed(k) \/ OpensExchanged(k)
           \/ ConnectorFails(k) \/ PorterAnswers(k)
  PROVE  IInv'
<1>1. acts \in 0 .. MaxActs /\ MaxActs \in Nat /\ MaxAddresses \in Nat \ {0}
  BY MetaPorterAssumption DEF IInv, TypeOK
<1>2. CASE CancelCall(k)
  <2> DEFINE x == [calls[k] EXCEPT !.cancelled = TRUE]
  <2>1. k \in DOMAIN calls /\ calls[k].at = "connecting"
    BY <1>2 DEF CancelCall, At
  <2>2. calls[k] \in CallStates /\ CallOK(calls[k])
    BY <2>1, CallType
  <2>3. /\ x \in CallStates /\ x.at = calls[k].at /\ x.remaining = calls[k].remaining
        /\ x.contact = calls[k].contact /\ x.kind = calls[k].kind
    BY <2>2 DEF CallStates
  <2>4. CallOK(x)
    BY <2>1, <2>2, <2>3 DEF CallOK, NewStates
  <2>5. /\ calls' = [calls EXCEPT ![k] = x]
        /\ UNCHANGED <<known, table, children, registered, incoming, loopback, owned, disposed>>
    BY <1>2, <2>1 DEF CancelCall, At
  <2>6. acts' \in 0 .. MaxActs
    BY <1>1, <1>2 DEF CancelCall, Act
  <2> HIDE DEF x
  <2> QED
    BY <2>1, <2>3, <2>4, <2>5, <2>6, CallProceeds DEF NewStates
<1>3. CASE HostConnected(k)
  <2> DEFINE x == [calls[k] EXCEPT !.at = "opening", !.cancelled = FALSE, !.left = 0]
  <2>1. k \in DOMAIN calls /\ calls[k].at = "connecting"
    BY <1>3 DEF HostConnected, At
  <2>2. calls[k] \in CallStates /\ CallOK(calls[k])
    BY <2>1, CallType
  <2>3. /\ x \in CallStates /\ x.at = "opening" /\ x.remaining = calls[k].remaining
        /\ x.contact = calls[k].contact /\ x.kind = calls[k].kind
    <3>1. 0 \in 0 .. MaxAddresses
      BY <1>1
    <3> QED
      BY <2>2, <3>1 DEF CallStates
  <2>4. CallOK(x)
    BY <2>1, <2>2, <2>3 DEF CallOK, NewStates
  <2>5. /\ calls' = [calls EXCEPT ![k] = x] /\ acts' \in 0 .. MaxActs
        /\ UNCHANGED <<known, table, children, registered, incoming, loopback, owned, disposed>>
    BY <1>1, <1>3, <2>1, <2>2 DEF HostConnected, At, CallStates
  <2> HIDE DEF x
  <2> QED
    BY <2>1, <2>3, <2>4, <2>5, CallProceeds DEF NewStates
<1>4. ASSUME k \in DOMAIN calls, calls[k].at \in NewStates, NoPorter(k),
             UNCHANGED <<known, children, registered, incoming, loopback, owned, disposed, acts>>
      PROVE  IInv'
  BY <1>4, CallIsAnswered DEF NoPorter
<1>5. CASE HostFailed(k)
  <2>1. k \in DOMAIN calls /\ calls[k].at = "connecting"
    BY <1>5 DEF HostFailed, At
  <2>2. calls[k] \in CallStates /\ CallOK(calls[k])
    BY <2>1, CallType
  <2>3. CASE calls[k].cancelled \/ calls[k].left = 0
    BY <1>4, <1>5, <2>1, <2>3 DEF HostFailed, NewStates
  <2>4. CASE ~(calls[k].cancelled \/ calls[k].left = 0)
    <3> DEFINE x == [calls[k] EXCEPT !.left = @ - 1]
    <3>1. calls[k].left \in 1 .. MaxAddresses
      BY <1>1, <2>2, <2>4 DEF CallStates
    <3>2. calls[k].left - 1 \in 0 .. MaxAddresses
      BY <1>1, <3>1
    <3>3. /\ x \in CallStates /\ x.at = "connecting" /\ x.remaining = calls[k].remaining
          /\ x.contact = calls[k].contact /\ x.kind = calls[k].kind
      BY <2>1, <2>2, <3>2 DEF CallStates
    <3>4. CallOK(x)
      BY <2>1, <2>2, <3>3 DEF CallOK, NewStates
    <3>5. /\ calls' = [calls EXCEPT ![k] = x] /\ acts' \in 0 .. MaxActs
          /\ UNCHANGED <<known, table, children, registered, incoming, loopback, owned, disposed>>
      BY <1>1, <1>5, <2>1, <2>4 DEF HostFailed, At
    <3> HIDE DEF x
    <3> QED
      BY <2>1, <3>3, <3>4, <3>5, CallProceeds DEF NewStates
  <2> QED
    BY <2>3, <2>4
<1>6. CASE OpensExchanged(k)
  <2> DEFINE x == [calls[k] EXCEPT !.at = "features"]
  <2>1. k \in DOMAIN calls /\ calls[k].at = "opening"
    BY <1>6 DEF OpensExchanged, At
  <2>2. calls[k] \in CallStates /\ CallOK(calls[k])
    BY <2>1, CallType
  <2>3. /\ x \in CallStates /\ x.at = "features" /\ x.remaining = calls[k].remaining
        /\ x.contact = calls[k].contact /\ x.kind = calls[k].kind
    BY <2>2 DEF CallStates
  <2>4. CallOK(x)
    BY <2>1, <2>2, <2>3 DEF CallOK, NewStates
  <2>5. /\ calls' = [calls EXCEPT ![k] = x] /\ acts' \in 0 .. MaxActs
        /\ UNCHANGED <<known, table, children, registered, incoming, loopback, owned, disposed>>
    BY <1>1, <1>6, <2>1 DEF OpensExchanged, At
  <2> HIDE DEF x
  <2> QED
    BY <2>1, <2>3, <2>4, <2>5, CallProceeds DEF NewStates
<1>7. CASE ConnectorFails(k)
  BY <1>4, <1>7 DEF ConnectorFails, At, NewStates
<1>8. CASE PorterAnswers(k)
  <2>1. k \in DOMAIN calls /\ calls[k].at = "porter"
    BY <1>8 DEF PorterAnswers, At
  <2>2. CallOK(calls[k])
    BY <2>1, CallType
  <2>3. table' = IF calls[k].kind \in Held THEN UnholdIn(table, calls[k].contact) ELSE table
    <3>1. calls[k].kind \in {"iq", "open", "send"}
      BY <2>1, <2>2 DEF CallOK, Held
    <3>2. calls[k].kind # "open"
      BY <2>1, <2>2 DEF CallOK
    <3>3. calls[k].kind = "iq" <=> calls[k].kind \in Held
      BY <3>1, <3>2 DEF Held
    <3> QED
      BY <1>8, <3>3 DEF PorterAnswers
  <2> QED
    BY <1>8, <2>1, <2>3, CallIsAnswered DEF PorterAnswers
<1> QED
  BY <1>2, <1>3, <1>5, <1>6, <1>7, <1>8

-----------------------------------------------------------------------------
(* Contacts, connections that come in, and holds *)

LEMMA Aside ==
  ASSUME IInv, TypeOK', UNCHANGED <<table, children, calls, registered, owned, disposed>>,
         Coming' \subseteq Coming, loopback' = "done" <=> loopback = "done", DisposedIsQuiet'
  PROVE  IInv'
<1>1. \A c \in Contacts : Holders(c)' = Holders(c)
  BY HoldersSame
<1>2. HoldsAreExact'
  BY <1>1, HoldsOfNone DEF IInv
<1>3. CallsInv'
  BY DEF CallsInv, IInv
<1>4. CallsKept /\ Making' = Making
  BY DEF CallsKept, Making
<1>5. None \notin DOMAIN calls'
  BY CallIndices DEF IInv
<1> QED
  BY <1>2, <1>3, <1>4, <1>5, NoStreamChanges

LEMMA Acts ==
  ASSUME TypeOK
  PROVE  acts \in 0 .. MaxActs /\ (Act => acts' \in 0 .. MaxActs)
<1>1. MaxActs \in Nat /\ acts \in 0 .. MaxActs
  BY MetaPorterAssumption DEF TypeOK
<1>2. ASSUME Act
      PROVE  acts' \in 0 .. MaxActs
  BY <1>1, <1>2 DEF Act
<1> QED
  BY <1>1, <1>2

LEMMA ContactSteps ==
  ASSUME IInv,
         \/ \E c \in Contacts : AddContact(c) \/ ContactDisposed(c)
         \/ \E p \in Porters, from \in Contacts \cup {None} : PorterHandlerCb(p, from)
         \/ SetJid \/ LoopbackOpened(FALSE)
  PROVE  IInv'
<1>1. acts' \in 0 .. MaxActs /\ UNCHANGED <<table, children, calls, registered, incoming, owned, disposed>>
  BY Acts DEF AddContact, ContactDisposed, PorterHandlerCb, SetJid, LoopbackOpened, IInv
<1>2. known' \subseteq Contacts
  <2>1. \A p \in Alive : children[p].contact \in Contacts
    BY DEF IInv, TypeOK, Alive, Children
  <2>2. known \subseteq Contacts
    BY DEF IInv, TypeOK
  <2>3. ASSUME NEW c \in Contacts, AddContact(c) \/ ContactDisposed(c)
        PROVE  known' \subseteq Contacts
    BY <2>2, <2>3 DEF AddContact, ContactDisposed
  <2>4. ASSUME NEW p \in Porters, NEW from \in Contacts \cup {None}, PorterHandlerCb(p, from)
        PROVE  known' \subseteq Contacts
    BY <2>1, <2>2, <2>4 DEF PorterHandlerCb, EnsureContact
  <2>5. ASSUME SetJid \/ LoopbackOpened(FALSE)
        PROVE  known' \subseteq Contacts
    BY <2>2, <2>5 DEF SetJid, LoopbackOpened
  <2> QED
    BY <2>3, <2>4, <2>5
<1>3. /\ loopback' \in {"no jid", "opening", "done", "failed"}
      /\ loopback' = "done" <=> loopback = "done"
      /\ disposed => loopback' # "opening"
  BY DEF AddContact, ContactDisposed, PorterHandlerCb, SetJid, LoopbackOpened, IInv, TypeOK,
         DisposedIsQuiet
<1>4. TypeOK'
  BY <1>1, <1>2, <1>3 DEF IInv, TypeOK
<1>5. Coming' = Coming /\ DisposedIsQuiet'
  BY <1>1, <1>3 DEF Coming, IInv, DisposedIsQuiet
<1> QED
  BY <1>1, <1>3, <1>4, <1>5, Aside

LEMMA ConnectionSteps ==
  ASSUME IInv, NEW i \in Arrivals,
         \/ \E c \in Contacts \cup {None} : NewConnection(i, c) \/ IncomingOpened(i, c)
         \/ IncomingFails(i)
  PROVE  IInv'
<1>1. acts' \in 0 .. MaxActs /\ UNCHANGED <<table, children, calls, registered, loopback, owned, disposed>>
  BY Acts DEF NewConnection, IncomingOpened, IncomingFails, IInv
<1>2. known' \subseteq Contacts
  <2>1. known \subseteq Contacts
    BY DEF IInv, TypeOK
  <2>2. ASSUME NEW c \in Contacts \cup {None}, NewConnection(i, c)
        PROVE  known' = known
    BY <2>2 DEF NewConnection
  <2>3. ASSUME NEW c \in Contacts \cup {None}, IncomingOpened(i, c)
        PROVE  known' = IF c # None THEN known \cup {c} ELSE known
    BY <2>3 DEF IncomingOpened, EnsureContact
  <2>4. ASSUME IncomingFails(i)
        PROVE  known' = known
    BY <2>4 DEF IncomingFails
  <2> QED
    BY <2>1, <2>2, <2>3, <2>4
<1>3. incoming \in [Arrivals -> {"new", "opening", "features", "done"} \X (Contacts \cup {None})]
  BY DEF IInv, TypeOK
<1>4. PICK x \in {"new", "opening", "features", "done"} \X (Contacts \cup {None}) :
        /\ incoming' = [incoming EXCEPT ![i] = x] /\ incoming[i][1] # "done"
        /\ disposed => x[1] = "done"
  <2>1. incoming[i][1] \in {"new", "opening", "features", "done"} /\ incoming[i][2] \in Contacts \cup {None}
    BY <1>3
  <2>2. ASSUME NEW c \in Contacts \cup {None}, NewConnection(i, c)
        PROVE  /\ incoming' = [incoming EXCEPT ![i] = <<"opening", c>>] /\ incoming[i][1] # "done"
               /\ ~disposed
    BY <2>2 DEF NewConnection
  <2>3. ASSUME NEW c \in Contacts \cup {None}, IncomingOpened(i, c)
        PROVE  /\ incoming' = [incoming EXCEPT ![i] = <<"features", IF c # None THEN c ELSE incoming[i][2]>>]
               /\ incoming[i][1] # "done" /\ ~disposed
    BY <1>3, <2>3 DEF IncomingOpened, IInv, DisposedIsQuiet
  <2>4. ASSUME IncomingFails(i)
        PROVE  /\ incoming' = [incoming EXCEPT ![i] = <<"done", None>>] /\ incoming[i][1] # "done"
    BY <2>4 DEF IncomingFails
  <2>5. ASSUME NEW c \in Contacts \cup {None}
        PROVE  /\ <<"opening", c>> \in {"new", "opening", "features", "done"} \X (Contacts \cup {None})
               /\ <<"features", IF c # None THEN c ELSE incoming[i][2]>>
                    \in {"new", "opening", "features", "done"} \X (Contacts \cup {None})
               /\ <<"done", None>> \in {"new", "opening", "features", "done"} \X (Contacts \cup {None})
               /\ <<"done", None>>[1] = "done"
    BY <2>1
  <2>6. CASE \E c \in Contacts \cup {None} : NewConnection(i, c)
    BY <2>2, <2>5, <2>6
  <2>7. CASE \E c \in Contacts \cup {None} : IncomingOpened(i, c)
    BY <2>3, <2>5, <2>7
  <2>8. CASE IncomingFails(i)
    BY <2>4, <2>5, <2>8
  <2> QED
    BY <2>6, <2>7, <2>8
<1>5. TypeOK'
  BY <1>1, <1>2, <1>3, <1>4 DEF IInv, TypeOK
<1>6. Coming' \subseteq Coming
  BY <1>3, <1>4 DEF Coming
<1>7. DisposedIsQuiet'
  BY <1>1, <1>3, <1>4 DEF IInv, DisposedIsQuiet
<1> QED
  BY <1>1, <1>5, <1>6, <1>7, Aside

\* Nothing but the holds of the application changes.
LEMMA OwnedHolds ==
  ASSUME IInv, NEW c \in Contacts, NEW n \in Nat, owned' = [owned EXCEPT ![c] = n],
         acts' \in 0 .. MaxActs, ~disposed,
         UNCHANGED <<known, children, calls, registered, incoming, loopback, disposed>>,
         table' \in Tables, Counted(table', c, Holders(c) + n - owned[c]),
         \A d \in Contacts \ {c} : table'[d] = table[d],
         \A d \in Contacts : PorterOf(table', d) = PorterOf(table, d)
  PROVE  IInv'
<1>1. owned \in [Contacts -> Nat] /\ calls \in Seq(CallStates)
  BY DEF IInv, TypeOK
<1>2. owned' \in [Contacts -> Nat] /\ owned'[c] = n /\ \A d \in Contacts \ {c} : owned'[d] = owned[d]
  BY <1>1
<1>3. \A d \in Contacts \ {c} : Holders(d)' = Holders(d)
  BY <1>2, HoldersSame
<1>4. Holders(c)' = Holders(c) + n - owned[c]
  <2>1. Holders(c)' = Cardinality(HoldingIn(calls, c)) + owned'[c] + Loopback(c)
    BY DEF Holders, HoldingCalls, HoldingIn, Loopback
  <2>2. Holders(c) = Cardinality(HoldingIn(calls, c)) + owned[c] + Loopback(c) /\ Loopback(c) \in {0, 1}
    BY HoldersAre
  <2>3. Cardinality(HoldingIn(calls, c)) \in Nat /\ owned[c] \in Nat
    BY <1>1, HoldingCount
  <2> QED
    BY <1>2, <2>1, <2>2, <2>3
<1>5. HoldsAreExact'
  BY <1>3, <1>4, HoldsOfOne DEF IInv
<1>6. TypeOK'
  BY <1>2 DEF IInv, TypeOK, Tables
<1>7. CallsInv' /\ CallsKept /\ Making' = Making /\ Coming' = Coming /\ DisposedIsQuiet'
  BY DEF IInv, CallsInv, CallsKept, Making, Coming, DisposedIsQuiet
<1>8. None \notin DOMAIN calls'
  BY CallIndices DEF IInv
<1> QED
  BY <1>5, <1>6, <1>7, <1>8, NoStreamChanges

LEMMA HoldSteps ==
  ASSUME IInv, NEW c \in Contacts, Hold(c) \/ Unhold(c)
  PROVE  IInv'
<1>1. table \in Tables /\ owned[c] \in Nat /\ Holders(c) \in Nat
  BY HoldersNat DEF IInv, TypeOK, Tables
<1>2. ~disposed /\ Counted(table, c, Holders(c))
  BY DEF Hold, Unhold, IInv, HoldsAreExact
<1>3. CASE Hold(c)
  <2>1. /\ table' = HoldIn(table, c) /\ owned' = [owned EXCEPT ![c] = owned[c] + 1]
        /\ acts' \in 0 .. MaxActs
        /\ UNCHANGED <<known, children, calls, registered, incoming, loopback, disposed>>
    BY <1>3, Acts DEF Hold, IInv
  <2>2. Holders(c) + (owned[c] + 1) - owned[c] = Holders(c) + 1 /\ owned[c] + 1 \in Nat
    BY <1>1
  <2>3. /\ table' \in Tables /\ Counted(table', c, Holders(c) + 1)
        /\ \A d \in Contacts \ {c} : table'[d] = table[d]
        /\ \A d \in Contacts : PorterOf(table', d) = PorterOf(table, d)
    BY <1>1, <1>2, <2>1, HoldInCounts
  <2> QED
    BY <1>1, <1>2, <2>1, <2>2, <2>3, OwnedHolds
<1>4. CASE Unhold(c)
  <2>1. /\ table' = UnholdIn(table, c) /\ owned' = [owned EXCEPT ![c] = owned[c] - 1]
        /\ acts' \in 0 .. MaxActs /\ owned[c] > 0
        /\ UNCHANGED <<known, children, calls, registered, incoming, loopback, disposed>>
    BY <1>4, Acts DEF Unhold, IInv
  <2>2. Holders(c) + (owned[c] - 1) - owned[c] = Holders(c) - 1 /\ owned[c] - 1 \in Nat
    BY <1>1, <2>1
  <2>3. Holders(c) \in Nat \ {0}
    <3>1. Holders(c) = Cardinality(HoldingIn(calls, c)) + owned[c] + Loopback(c) /\ Loopback(c) \in {0, 1}
      BY HoldersAre
    <3>2. Cardinality(HoldingIn(calls, c)) \in Nat
      BY HoldingCount DEF IInv, TypeOK
    <3> QED
      BY <1>1, <2>1, <3>1, <3>2
  <2>4. /\ table' \in Tables /\ Counted(table', c, Holders(c) - 1)
        /\ \A d \in Contacts \ {c} : table'[d] = table[d]
        /\ \A d \in Contacts : PorterOf(table', d) = PorterOf(table, d)
    BY <1>1, <1>2, <2>1, <2>3, UnholdInCounts
  <2> QED
    BY <1>1, <1>2, <2>1, <2>2, <2>4, OwnedHolds
<1> QED
  BY <1>3, <1>4

-----------------------------------------------------------------------------
(* Calls are made *)

LEMMA CallIsMade ==
  ASSUME IInv, NEW x \in CallStates, calls' = Append(calls, x), CallOK(x), x.remaining = 0,
         Len(calls) < MaxCalls, ~disposed,
         UNCHANGED <<known, children, registered, incoming, loopback, disposed>>,
         acts' \in 0 .. MaxActs, owned' \in [Contacts -> Nat], table' \in Tables,
         \A c \in Contacts : PorterOf(table', c) = PorterOf(table, c), HoldsAreExact'
  PROVE  IInv'
<1>1. calls \in Seq(CallStates) /\ MaxCalls \in Nat
  BY Constants DEF IInv, TypeOK
<1>2. /\ calls' \in Seq(CallStates) /\ Len(calls') = Len(calls) + 1
      /\ DOMAIN calls' = DOMAIN calls \cup {Len(calls) + 1} /\ Len(calls) + 1 \notin DOMAIN calls
      /\ calls'[Len(calls) + 1] = x /\ \A j \in DOMAIN calls : calls'[j] = calls[j]
  BY <1>1, CallIsAdded
<1>3. Len(calls') <= MaxCalls
  BY <1>1, <1>2
<1>4. TypeOK'
  BY <1>2, <1>3 DEF IInv, TypeOK, Tables
<1>5. CallsInv'
  BY <1>2 DEF CallsInv, IInv
<1>6. CallsKept
  BY <1>2 DEF CallsKept
<1>7. Making' \subseteq Making
  BY <1>2 DEF Making, Calls
<1>8. Coming' = Coming /\ DisposedIsQuiet'
  BY DEF Coming, DisposedIsQuiet
<1>9. None \notin DOMAIN calls'
  <2>1. Len(calls) + 1 \in Nat
    BY <1>1
  <2> QED
    BY <1>2, <2>1, CallIndices, MetaPorterAssumption DEF IInv
<1> QED
  BY <1>4, <1>5, <1>6, <1>7, <1>8, <1>9, NoStreamChanges

\* Who holds c after a call to c has been made, and which contacts nothing changes for
LEMMA HoldsAfterCall ==
  ASSUME IInv, NEW x \in CallStates, calls' = Append(calls, x), NEW c \in Contacts,
         x.contact \in {c, None}, UNCHANGED loopback, owned' \in [Contacts -> Nat],
         \A d \in Contacts \ {c} : owned'[d] = owned[d]
  PROVE  /\ Holders(c)' = Holders(c) + (IF x.contact = c /\ x.kind \in Held THEN 1 ELSE 0)
                            + owned'[c] - owned[c]
         /\ \A d \in Contacts \ {c} : Holders(d)' = Holders(d)
<1>1. calls \in Seq(CallStates) /\ owned \in [Contacts -> Nat]
  BY DEF IInv, TypeOK
<1>2. \A d \in Contacts \ {c} : x.contact # d
  BY MetaPorterAssumption
<1> DEFINE k == Len(calls) + 1
<1>0. /\ DOMAIN calls' = DOMAIN calls \cup {k} /\ k \notin DOMAIN calls
      /\ calls'[k] = x /\ \A j \in DOMAIN calls : calls'[j] = calls[j]
  BY <1>1, CallIsAdded
<1> HIDE DEF k
<1>3. \A d \in Contacts \ {c} : HoldingIn(calls', d) = HoldingIn(calls, d)
  BY <1>0, <1>2 DEF HoldingIn
<1>4. \A d \in Contacts \ {c} : Holders(d)' = Holders(d)
  BY <1>3, HoldersSame
<1>5. /\ HoldingIn(calls', c) = IF x.contact = c /\ x.kind \in Held
                                THEN HoldingIn(calls, c) \cup {k}
                                ELSE HoldingIn(calls, c)
      /\ k \notin HoldingIn(calls, c)
  BY <1>0 DEF HoldingIn
<1>6. IsFiniteSet(HoldingIn(calls, c)) /\ Cardinality(HoldingIn(calls, c)) \in Nat
  BY <1>1, HoldingCount
<1>7. Cardinality(HoldingIn(calls', c)) = Cardinality(HoldingIn(calls, c))
        + (IF x.contact = c /\ x.kind \in Held THEN 1 ELSE 0)
  <2>1. CASE x.contact = c /\ x.kind \in Held
    <3>1. Cardinality(HoldingIn(calls, c) \cup {k}) = Cardinality(HoldingIn(calls, c)) + 1
      BY <1>5, <1>6, FS_AddElement
    <3> QED
      BY <1>5, <2>1, <3>1
  <2>2. CASE ~(x.contact = c /\ x.kind \in Held)
    BY <1>5, <1>6, <2>2
  <2> QED
    BY <2>1, <2>2
<1>8. Holders(c)' = Cardinality(HoldingIn(calls', c)) + owned'[c] + Loopback(c)
  BY DEF Holders, HoldingCalls, HoldingIn, Loopback
<1>9. Holders(c) = Cardinality(HoldingIn(calls, c)) + owned[c] + Loopback(c) /\ Loopback(c) \in {0, 1}
  BY HoldersAre
<1>10. owned[c] \in Nat /\ owned'[c] \in Nat
  BY <1>1
<1> QED
  BY <1>4, <1>6, <1>7, <1>8, <1>9, <1>10

\* Calls of the kinds that send something
LEMMA UseStep ==
  ASSUME IInv, NEW c \in Contacts, NEW kind \in {"send", "iq", "open"}, Use(kind, c)
  PROVE  IInv'
<1>1. /\ calls \in Seq(CallStates) /\ owned \in [Contacts -> Nat] /\ owned[c] \in Nat
      /\ table \in Tables /\ Holders(c) \in Nat
  BY HoldersNat DEF IInv, TypeOK, Tables
<1>2. /\ ~disposed /\ Len(calls) < MaxCalls /\ acts' \in 0 .. MaxActs
      /\ UNCHANGED <<known, children, registered, incoming, loopback, disposed>>
  BY Acts DEF Use, IInv
<1>3. Counted(table, c, Holders(c))
  BY <1>2 DEF IInv, HoldsAreExact
<1> DEFINE held == IF kind \in Held THEN HoldIn(table, c) ELSE table
           extra == IF kind \in Held THEN 1 ELSE 0
           new == [Done EXCEPT !.kind = kind, !.contact = c]
<1>4. /\ held \in Tables /\ Counted(held, c, Holders(c) + extra) /\ extra \in Nat
      /\ \A d \in Contacts \ {c} : held[d] = table[d]
      /\ \A d \in Contacts : PorterOf(held, d) = PorterOf(table, d)
  <2>1. CASE kind \in Held
    BY <1>1, <1>3, <2>1, HoldInCounts
  <2>2. CASE kind \notin Held
    BY <1>1, <1>3, <2>2
  <2> QED
    BY <2>1, <2>2
<1>5. kind = "send" <=> kind \notin Held
  BY DEF Held
<1>6. Done.contact = None /\ Done.kind = None /\ Done.remaining = 0 /\ Done \in CallStates /\ CallOK(Done)
  BY DoneType DEF Done
<1>7. ASSUME NEW x \in CallStates, calls' = Append(calls, x), CallOK(x), x.remaining = 0,
             x.contact \in {c, None}, owned' \in [Contacts -> Nat],
             \A d \in Contacts \ {c} : owned'[d] = owned[d],
             table' \in Tables, \A d \in Contacts \ {c} : table'[d] = table[d],
             \A d \in Contacts : PorterOf(table', d) = PorterOf(table, d),
             Counted(table', c, Holders(c)')
      PROVE  IInv'
  <2>1. \A d \in Contacts \ {c} : Holders(d)' = Holders(d)
    BY <1>2, <1>7, HoldsAfterCall
  <2>2. HoldsAreExact'
    BY <1>2, <1>7, <2>1, HoldsOfOne DEF IInv
  <2> QED
    BY <1>2, <1>7, <2>2, CallIsMade
<1>8. new \in CallStates /\ new.contact = c /\ new.kind = kind /\ new.remaining = 0 /\ new.at = "done"
      /\ new = [Done EXCEPT !.kind = kind, !.contact = c]
  BY <1>6 DEF CallStates, Held, Done
<1> HIDE DEF new, held
<1>9. CASE HasPorter(c)
  <2>1. table' = held /\ calls' = Append(calls, IF kind = "open" THEN Done
                                       ELSE [new EXCEPT !.at = "porter", !.via = table[c].porter])
        /\ owned' = IF kind = "open" THEN [owned EXCEPT ![c] = owned[c] + 1] ELSE owned
    BY <1>1, <1>9 DEF Use, new, held
  <2>2. CASE kind = "open"
    <3>1. /\ owned' \in [Contacts -> Nat] /\ owned'[c] = owned[c] + 1
          /\ \A d \in Contacts \ {c} : owned'[d] = owned[d]
      BY <1>1, <2>1, <2>2
    <3>2. Holders(c)' = Holders(c) + 0 + owned'[c] - owned[c]
      <4>1. Done.contact # c
        BY <1>6, MetaPorterAssumption
      <4>2. calls' = Append(calls, Done)
        BY <2>1, <2>2
      <4> QED
        BY <1>2, <1>6, <3>1, <4>1, <4>2, HoldsAfterCall
    <3>3. Holders(c)' = Holders(c) + extra
      BY <1>1, <2>2, <3>1, <3>2 DEF Held
    <3> QED
      BY <1>4, <1>6, <1>7, <2>1, <2>2, <3>1, <3>3
  <2>3. CASE kind # "open"
    <3> DEFINE x == [new EXCEPT !.at = "porter", !.via = table[c].porter]
    <3>1. table[c].porter \in Nat
      BY <1>1, <1>9 DEF HasPorter, Tables, PorterData
    <3>2. /\ x \in CallStates /\ x.at = "porter" /\ x.contact = c /\ x.kind = kind /\ x.remaining = 0
      BY <1>8, <3>1 DEF CallStates
    <3>3. CallOK(x)
      BY <2>3, <3>2 DEF CallOK, NewStates, Held
    <3>4. calls' = Append(calls, x) /\ owned' = owned
      BY <2>1, <2>3
    <3> HIDE DEF x
    <3>5. Holders(c)' = Holders(c) + extra + owned[c] - owned[c]
      BY <1>1, <1>2, <3>2, <3>4, HoldsAfterCall
    <3>6. Holders(c)' = Holders(c) + extra
      BY <1>1, <1>4, <3>5
    <3> QED
      BY <1>1, <1>4, <1>7, <2>1, <3>2, <3>3, <3>4, <3>6
  <2> QED
    BY <2>2, <2>3
<1>10. CASE ~HasPorter(c) /\ c \in Unreachable
  <2>1. /\ table' = IF kind \in Held THEN UnholdIn(held, c) ELSE table
        /\ calls' = Append(calls, Done) /\ owned' = owned
    BY <1>10 DEF Use, held
  <2>2. Holders(c)' = Holders(c)
    <3>1. Done.contact # c
      BY <1>6, MetaPorterAssumption
    <3>2. Holders(c)' = Holders(c) + 0 + owned[c] - owned[c]
      BY <1>1, <1>2, <1>6, <2>1, <3>1, HoldsAfterCall
    <3> QED
      BY <1>1, <3>2
  <2>3. CASE kind \in Held
    <3>1. extra = 1 /\ Holders(c) + extra \in Nat \ {0} /\ Holders(c) + extra - 1 = Holders(c)
      BY <1>1, <2>3
    <3>0. PICK n \in Nat \ {0} : n = Holders(c) + extra
      BY <3>1
    <3>4. held \in Tables /\ Counted(held, c, n)
      BY <1>4, <3>0
    <3>2. /\ table' \in Tables /\ Counted(table', c, n - 1)
          /\ \A d \in Contacts \ {c} : table'[d] = held[d]
          /\ \A d \in Contacts : PorterOf(table', d) = PorterOf(held, d)
      BY <2>1, <2>3, <3>4, UnholdInCounts
    <3>3. Counted(table', c, Holders(c)')
      <4>1. n - 1 = Holders(c)'
        <5>1. n = Holders(c) + 1
          BY <3>0, <3>1
        <5> QED
          BY <1>1, <2>2, <5>1
      <4> QED
        BY <3>2, <4>1
    <3> QED
      BY <1>1, <1>4, <1>6, <1>7, <2>1, <3>2, <3>3
  <2>4. CASE kind \notin Held
    <3>1. table' = table
      BY <2>1, <2>4
    <3>2. Counted(table', c, Holders(c)')
      BY <1>3, <2>2, <3>1
    <3> QED
      BY <1>1, <1>6, <1>7, <2>1, <3>1, <3>2
  <2> QED
    BY <2>3, <2>4
<1>11. CASE ~HasPorter(c) /\ c \notin Unreachable
  <2> DEFINE x == [new EXCEPT !.at = "connecting", !.left = MaxAddresses - 1]
  <2>1. table' = held /\ calls' = Append(calls, x) /\ owned' = owned
    BY <1>11 DEF Use, held, new
  <2>2. MaxAddresses - 1 \in 0 .. MaxAddresses
    BY MetaPorterAssumption
  <2>3. /\ x \in CallStates /\ x.at = "connecting" /\ x.contact = c /\ x.kind = kind /\ x.remaining = 0
    BY <1>8, <2>2 DEF CallStates
  <2>4. CallOK(x)
    BY <2>3 DEF CallOK, NewStates, Held
  <2> HIDE DEF x
  <2>5. Holders(c)' = Holders(c) + extra + owned[c] - owned[c]
    BY <1>1, <1>2, <2>1, <2>3, HoldsAfterCall
  <2>6. Holders(c)' = Holders(c) + extra
    BY <1>1, <1>4, <2>5
  <2> QED
    BY <1>1, <1>4, <1>7, <2>1, <2>3, <2>4, <2>6
<1> QED
  BY <1>9, <1>10, <1>11

-----------------------------------------------------------------------------
(* Streams become ready *)

\* The contact has a porter already.
LEMMA SecondStream ==
  ASSUME NEW c \in Contacts, HasPorter(c)
  PROVE  /\ CreatePorter(c).porter = table[c].porter
         /\ CreatePorter(c).table = table /\ CreatePorter(c).children = children
BY DEF CreatePorter

LEMMA FirstStream ==
  ASSUME table \in Tables, NEW c \in Contacts, ~HasPorter(c), FreePorter \in Porters,
         NEW n \in Nat, Counted(table, c, n)
  PROVE  LET t == CreatePorter(c).table
         IN /\ CreatePorter(c).porter = FreePorter
            /\ CreatePorter(c).children = [children EXCEPT ![FreePorter] = NewChild(c)]
            /\ t \in Tables /\ t[c] # None /\ Counted(t, c, n) /\ PorterOf(t, c) = FreePorter
            /\ \A d \in Contacts \ {c} : t[d] = table[d]
<1> DEFINE p == FreePorter
           t == CreatePorter(c).table
           r == [porter |-> p, holds |-> n, timer |-> n = 0]
<1>1. p \in Nat
  BY Constants
<1>2. /\ CreatePorter(c).porter = p /\ CreatePorter(c).children = [children EXCEPT ![p] = NewChild(c)]
      /\ t = [table EXCEPT ![c] =
                IF table[c] = None THEN [porter |-> p, holds |-> 0, timer |-> TRUE]
                ELSE [table[c] EXCEPT !.porter = p, !.timer = @ \/ table[c].holds = 0]]
  BY DEF CreatePorter
<1> HIDE DEF p
<1>3. r \in PorterData
  BY <1>1 DEF PorterData
<1>4. r # None
  BY <1>3, NoneAssumption
<1>5. t[c] = r
  <2>1. CASE table[c] = None
    <3>1. n = 0
      BY <2>1 DEF Counted
    <3>2. t[c] = [porter |-> p, holds |-> 0, timer |-> TRUE]
      BY <1>2, <2>1 DEF Tables
    <3>3. (n = 0) = TRUE
      BY <3>1
    <3> QED
      BY <3>1, <3>2, <3>3
  <2>2. CASE table[c] # None
    <3>1. table[c].holds = n /\ (table[c].timer <=> n = 0) /\ table[c] \in PorterData
      BY <2>2 DEF Counted, Tables
    <3>2. t[c] = [table[c] EXCEPT !.porter = p, !.timer = @ \/ table[c].holds = 0]
      BY <1>2, <2>2 DEF Tables
    <3>3. t[c] = [porter |-> p, holds |-> n, timer |-> table[c].timer \/ n = 0]
      BY <3>1, <3>2 DEF PorterData
    <3>4. (table[c].timer \/ n = 0) = (n = 0)
      BY <3>1
    <3> QED
      BY <3>3, <3>4
  <2> QED
    BY <2>1, <2>2
<1>6. t = [table EXCEPT ![c] = r]
  BY <1>2, <1>5 DEF Tables
<1>7. r.porter = p /\ r.holds = n /\ r.timer = (n = 0)
  OBVIOUS
<1> HIDE DEF r, t
<1>8. t \in Tables /\ t[c] = r /\ \A d \in Contacts \ {c} : t[d] = table[d]
  BY <1>3, <1>6 DEF Tables
<1>9. t[c] # None /\ PorterOf(t, c) = p
  BY <1>4, <1>7, <1>8 DEF PorterOf
<1>10. Counted(t, c, n)
  <2>1. t[c].holds = n /\ (t[c].timer <=> n = 0)
    BY <1>7, <1>8, Zenon
  <2> QED
    BY <1>9, <2>1 DEF Counted
<1> QED
  BY <1>2, <1>8, <1>9, <1>10 DEF p, t

\* One more stream and what has led to it: everything else follows.
LEMMA NewStream ==
  ASSUME IInv, TypeOK', CallsInv', HoldsAreExact', DisposedIsQuiet', CallsKept,
         NEW c \in Contacts, ~HasPorter(c), FreePorter \in Porters, FreePorter \notin Alive,
         children' = [children EXCEPT ![FreePorter] = NewChild(c)],
         PorterOf(table', c) = FreePorter,
         \A d \in Contacts \ {c} : PorterOf(table', d) = PorterOf(table, d),
         UNCHANGED registered, None \notin DOMAIN calls',
         Making' \subseteq Making, Coming' \subseteq Coming, loopback = "done" => loopback' = "done",
         \/ \E k \in Making : k \notin Making'
         \/ \E i \in Coming : i \notin Coming'
         \/ loopback # "done" /\ loopback' = "done"
  PROVE  IInv'
<1> DEFINE p == FreePorter
<1>1. children \in [Porters -> Children \cup {None}]
  BY DEF IInv, TypeOK
<1>2. /\ children' \in [Porters -> Children \cup {None}] /\ children'[p] = NewChild(c)
      /\ \A q \in Porters : q # p => children'[q] = children[q]
  BY <1>1 DEF IInv, TypeOK
<1> HIDE DEF p
<1>3. NewChild(c) \in Children /\ NewChild(c) # None
  <2>1. Wanting(c) \subseteq Handlers
    BY DEF Wanting
  <2>2. NewChild(c) \in Children
    BY <2>1 DEF NewChild, Children
  <2> QED
    BY <2>2, NoneAssumption
<1>4. p \in Porters /\ p \notin Alive
  BY DEF p
<1>5. Alive' = Alive \cup {p}
  BY <1>2, <1>3, <1>4 DEF Alive
<1>6. PortersSuffice'
  BY <1>5, PorterIsTaken DEF IInv
<1>7. /\ NewChild(c).state = "open" /\ NewChild(c).contact = c /\ NewChild(c).closer = None
      /\ NewChild(c).handlers = Wanting(c)
  BY DEF NewChild
<1>8. Alive \subseteq Porters /\ \A q \in Alive : q # p /\ children'[q] = children[q]
  BY <1>2, <1>4 DEF Alive
<1>9. Recorded'
  <2> SUFFICES ASSUME NEW d \in Contacts, PorterOf(table', d) # None
               PROVE  /\ PorterOf(table', d) \in Alive'
                      /\ children'[PorterOf(table', d)].state = "open"
                      /\ children'[PorterOf(table', d)].contact = d
    BY DEF Recorded
  <2>1. CASE d = c
    BY <1>2, <1>5, <1>7, <2>1 DEF p
  <2>2. CASE d # c
    <3>1. PorterOf(table', d) = PorterOf(table, d)
      BY <2>2
    <3>2. LET q == PorterOf(table, d)
          IN q \in Alive /\ children[q].state = "open" /\ children[q].contact = d
      BY <3>1 DEF IInv, Recorded
    <3> QED
      BY <1>5, <1>8, <3>1, <3>2
  <2> QED
    BY <2>1, <2>2
<1>10. OneStreamWithItsHandlers'
  <2>1. PorterOf(table, c) = None
    BY DEF HasPorter, PorterOf
  <2> SUFFICES ASSUME NEW q \in Alive', children'[q].state = "open"
               PROVE  /\ table'[children'[q].contact] # None
                      /\ table'[children'[q].contact].porter = q
                      /\ children'[q].handlers = Wanting(children'[q].contact)
    BY DEF OneStreamWithItsHandlers, Wanting
  <2>3. q # None
    BY <1>4, <1>5, <1>8, Constants
  <2>4. PorterOf(table', children'[q].contact) = q
        /\ children'[q].handlers = Wanting(children'[q].contact)
    <3>1. CASE q = p
      BY <1>2, <1>7, <3>1 DEF p
    <3>2. CASE q # p
      <4>1. q \in Alive /\ children'[q] = children[q]
        BY <1>5, <1>8, <3>2
      <4>2. /\ PorterOf(table, children[q].contact) = q
            /\ children[q].handlers = Wanting(children[q].contact)
        BY <4>1, StreamInUse DEF IInv
      <4>3. children[q].contact \in Contacts
        BY <1>1, <4>1 DEF Alive, Children
      <4>4. children[q].contact # c
        BY <2>1, <2>3, <4>2
      <4> QED
        BY <4>1, <4>2, <4>3, <4>4
    <3> QED
      BY <3>1, <3>2
  <2> QED
    BY <2>3, <2>4 DEF PorterOf
<1>11. Closers'
  <2> SUFFICES ASSUME NEW q \in Alive'
               PROVE  /\ children'[q].closer \in DOMAIN calls' \cup {None}
                      /\ children'[q].state = "open" => children'[q].closer = None
    BY DEF Closers
  <2>1. CASE q = p
    BY <1>2, <1>7, <2>1
  <2>2. CASE q # p
    <3>1. q \in Alive /\ children'[q] = children[q]
      BY <1>5, <1>8, <2>2
    <3> QED
      BY <3>1 DEF IInv, Closers, CallsKept
  <2> QED
    BY <2>1, <2>2
<1>12. RemainingIsExact'
  <2>1. ASSUME NEW k \in DOMAIN calls'
        PROVE  ClosedFor(k)' = ClosedFor(k)
    BY <1>2, <1>5, <1>7, <1>8 DEF ClosedFor
  <2> QED
    BY <2>1, RemainingKept DEF IInv
<1> QED
  BY <1>6, <1>9, <1>10, <1>11, <1>12 DEF IInv

\* An open is answered and keeps its hold; a send and an IQ are handed to the porter.
LEMMA MadeConnectionStep ==
  ASSUME IInv, NEW k \in Calls, MadeConnection(k)
  PROVE  IInv'
<1>1. /\ k \in DOMAIN calls /\ calls[k].at = "features"
      /\ UNCHANGED <<known, registered, incoming, loopback, disposed, acts>>
  BY DEF MadeConnection, At
<1>2. /\ calls \in Seq(CallStates) /\ owned \in [Contacts -> Nat] /\ table \in Tables
      /\ acts \in 0 .. MaxActs /\ children \in [Porters -> Children \cup {None}]
  BY DEF IInv, TypeOK, Tables
<1>3. calls[k] \in CallStates /\ CallOK(calls[k]) /\ ~disposed /\ calls[k].contact \in Contacts
      /\ calls[k].remaining = 0 /\ calls[k].kind \in Held \cup {"send"}
  BY <1>1, CallType DEF CallOK, NewStates
<1>4. PICK c \in Contacts : c = calls[k].contact
  BY <1>3
<1>5. Counted(table, c, Holders(c)) /\ Holders(c) \in Nat
  BY <1>3, HoldersNat DEF IInv, HoldsAreExact
<1>6. FreePorter \in Porters /\ FreePorter \notin Alive /\ k \in Making
  <2>1. k \in Making
    BY <1>1 DEF Making, NewStates
  <2> QED
    BY <2>1, FreePorterExists DEF IInv
<1> DEFINE x == IF calls[k].kind = "open" THEN Done
                ELSE [calls[k] EXCEPT !.at = "porter", !.via = CreatePorter(c).porter]
<1>7. CreatePorter(c).porter \in Nat
  <2>1. CASE HasPorter(c)
    BY <1>2, <2>1, SecondStream DEF HasPorter, Tables, PorterData
  <2>2. CASE ~HasPorter(c)
    BY <1>2, <1>5, <1>6, <2>2, FirstStream, Constants
  <2> QED
    BY <2>1, <2>2
<1>8. /\ calls' = [calls EXCEPT ![k] = x]
      /\ table' = CreatePorter(c).table /\ children' = CreatePorter(c).children
      /\ owned' = IF calls[k].kind = "open" THEN [owned EXCEPT ![c] = owned[c] + 1] ELSE owned
  <2>1. /\ table' = CreatePorter(c).table /\ children' = CreatePorter(c).children
        /\ owned' = IF calls[k].kind = "open" THEN [owned EXCEPT ![c] = owned[c] + 1] ELSE owned
    BY <1>2, <1>4 DEF MadeConnection
  <2>2. CASE calls[k].kind = "open"
    BY <1>4, <2>2, <2>1 DEF MadeConnection
  <2>3. CASE calls[k].kind # "open"
    BY <1>1, <1>2, <1>4, <2>3, <2>1 DEF MadeConnection
  <2> QED
    BY <2>1, <2>2, <2>3
<1>9. /\ x \in CallStates /\ CallOK(x) /\ x.remaining = 0 /\ x.at \notin NewStates
      /\ calls[k].kind = "open" => x = Done
      /\ calls[k].kind # "open" => x.contact = c /\ x.kind = calls[k].kind
  <2>1. CASE calls[k].kind = "open"
    <3>1. Done.remaining = 0 /\ Done.at = "done"
      BY DEF Done
    <3> QED
      BY <2>1, <3>1, DoneType DEF NewStates
  <2>2. CASE calls[k].kind # "open"
    <3>1. x = [calls[k] EXCEPT !.at = "porter", !.via = CreatePorter(c).porter]
      BY <2>2
    <3> HIDE DEF x
    <3>2. /\ x \in CallStates /\ x.remaining = 0 /\ x.at = "porter" /\ x.contact = c
          /\ x.kind = calls[k].kind
      BY <1>3, <1>4, <1>7, <3>1 DEF CallStates
    <3>3. CallOK(x)
      BY <1>3, <2>2, <3>2 DEF CallOK, NewStates
    <3> QED
      BY <2>2, <3>2, <3>3 DEF NewStates
  <2> QED
    BY <2>1, <2>2
<1> HIDE DEF x
<1>10. /\ owned' \in [Contacts -> Nat] /\ \A d \in Contacts \ {c} : owned'[d] = owned[d]
       /\ owned'[c] = owned[c] + (IF calls[k].kind = "open" THEN 1 ELSE 0)
  BY <1>2, <1>8
<1>11. /\ calls' \in Seq(CallStates) /\ Len(calls') = Len(calls) /\ DOMAIN calls' = DOMAIN calls
       /\ calls'[k] = x /\ \A j \in DOMAIN calls : j # k => calls'[j] = calls[j]
  BY <1>1, <1>2, <1>8, <1>9, CallMoves
<1>12. \A d \in Contacts : Holders(d)' = Holders(d)
  <2>1. \A d \in Contacts \ {c} : Done.contact # d
    BY MetaPorterAssumption DEF Done
  <2>2. \A d \in Contacts \ {c} : HoldingIn(calls', d) = HoldingIn(calls, d)
    BY <1>1, <1>4, <1>9, <1>11, <2>1 DEF HoldingIn
  <2>3. \A d \in Contacts \ {c} : Holders(d)' = Holders(d)
    BY <1>1, <1>10, <2>2, HoldersSame
  <2>4. Holders(c)' = Holders(c)
    <3>1. CASE calls[k].kind = "open"
      <4>1. Done.contact # c
        BY MetaPorterAssumption DEF Done
      <4>2. HoldingIn(calls', c) = HoldingIn(calls, c) \ {k}
        BY <1>9, <1>11, <3>1, <4>1 DEF HoldingIn
      <4>3. k \in HoldingIn(calls, c)
        BY <1>1, <1>4, <3>1 DEF HoldingIn, Held
      <4>4. IsFiniteSet(HoldingIn(calls, c)) /\ Cardinality(HoldingIn(calls, c)) \in Nat
        BY <1>2, HoldingCount
      <4>5. Cardinality(HoldingIn(calls', c)) = Cardinality(HoldingIn(calls, c)) - 1
        BY <4>2, <4>3, <4>4, FS_RemoveElement
      <4>6. Holders(c)' = Cardinality(HoldingIn(calls', c)) + owned'[c] + Loopback(c)
        BY <1>1 DEF Holders, HoldingCalls, HoldingIn, Loopback
      <4>7. /\ Holders(c) = Cardinality(HoldingIn(calls, c)) + owned[c] + Loopback(c)
            /\ Loopback(c) \in {0, 1} /\ owned[c] \in Nat
        BY <1>2, HoldersAre
      <4>8. owned'[c] = owned[c] + 1
        BY <1>10, <3>1
      <4> QED
        BY <4>4, <4>5, <4>6, <4>7, <4>8
    <3>2. CASE calls[k].kind # "open"
      <4>1. HoldingIn(calls', c) = HoldingIn(calls, c)
        BY <1>1, <1>4, <1>9, <1>11, <3>2 DEF HoldingIn
      <4>2. owned'[c] = owned[c]
        BY <1>8, <3>2
      <4> QED
        BY <1>1, <4>1, <4>2, HoldersSame
    <3> QED
      BY <3>1, <3>2
  <2> QED
    BY <2>3, <2>4
<1>13. CASE HasPorter(c)
  <2>1. table' = table /\ children' = children
    BY <1>8, <1>13, SecondStream
  <2>2. HoldsAreExact'
    BY <1>1, <1>12, <2>1, HoldsOfNone DEF IInv
  <2> QED
    BY <1>1, <1>2, <1>3, <1>8, <1>9, <1>10, <2>1, <2>2, CallGoesOn DEF NewStates
<1>14. CASE ~HasPorter(c)
  <2>1. /\ children' = [children EXCEPT ![FreePorter] = NewChild(c)]
        /\ table' \in Tables /\ Counted(table', c, Holders(c)) /\ PorterOf(table', c) = FreePorter
        /\ \A d \in Contacts \ {c} : table'[d] = table[d]
    BY <1>2, <1>5, <1>6, <1>8, <1>14, FirstStream
  <2>2. HoldsAreExact'
    BY <1>1, <1>12, <2>1, HoldsOfOne DEF IInv
  <2>3. NewChild(c) \in Children
    BY DEF NewChild, Children, Wanting
  <2>4. children' \in [Porters -> Children \cup {None}]
    BY <1>2, <2>1, <2>3
  <2>5. TypeOK'
    BY <1>1, <1>10, <1>11, <2>1, <2>4 DEF IInv, TypeOK, Tables
  <2>6. CallsInv'
    BY <1>9, <1>11 DEF IInv, CallsInv
  <2>7. CallsKept
    BY <1>3, <1>9, <1>11 DEF CallsKept
  <2>8. DisposedIsQuiet'
    BY <1>1, <1>3 DEF DisposedIsQuiet
  <2>9. Making' \subseteq Making /\ k \notin Making'
    BY <1>1, <1>9, <1>11 DEF Making, Calls
  <2>10. Coming' = Coming /\ None \notin DOMAIN calls'
    BY <1>1, <1>11, CallIndices DEF Coming, IInv
  <2>11. \A d \in Contacts \ {c} : PorterOf(table', d) = PorterOf(table, d)
    BY <2>1 DEF PorterOf
  <2> QED
    BY <1>1, <1>6, <1>14, <2>1, <2>2, <2>5, <2>6, <2>7, <2>8, <2>9, <2>10, <2>11, NewStream
<1> QED
  BY <1>13, <1>14

LEMMA IncomingStep ==
  ASSUME IInv, NEW i \in Arrivals, IncomingConnected(i)
  PROVE  IInv'
<1>1. /\ incoming[i][1] = "features" /\ incoming' = [incoming EXCEPT ![i] = <<"done", None>>]
      /\ UNCHANGED <<known, calls, registered, loopback, owned, disposed, acts>>
  BY DEF IncomingConnected
<1>2. incoming \in [Arrivals -> {"new", "opening", "features", "done"} \X (Contacts \cup {None})]
      /\ table \in Tables /\ children \in [Porters -> Children \cup {None}]
  BY DEF IInv, TypeOK, Tables
<1>3. ~disposed
  BY <1>1 DEF IInv, DisposedIsQuiet
<1>4. /\ incoming' \in [Arrivals -> {"new", "opening", "features", "done"} \X (Contacts \cup {None})]
      /\ Coming' \subseteq Coming /\ i \in Coming /\ i \notin Coming'
  <2>1. <<"done", None>> \in {"new", "opening", "features", "done"} \X (Contacts \cup {None})
        /\ <<"done", None>>[1] = "done"
    OBVIOUS
  <2> QED
    BY <1>1, <1>2, <2>1 DEF Coming
<1>5. DisposedIsQuiet' /\ CallsInv' /\ CallsKept /\ Making' = Making
  BY <1>1, <1>3 DEF DisposedIsQuiet, CallsInv, CallsKept, Making, IInv
<1>6. \A d \in Contacts : Holders(d)' = Holders(d)
  BY <1>1, HoldersSame
<1>7. CASE UNCHANGED <<table, children>>
  <2>1. TypeOK'
    BY <1>1, <1>4, <1>7 DEF IInv, TypeOK
  <2> QED
    BY <1>1, <1>4, <1>5, <1>7, <2>1, Aside
<1>8. CASE ~UNCHANGED <<table, children>>
  <2>1. PICK c \in Contacts : children' = CreatePorter(c).children /\ table' = CreatePorter(c).table
    <3>1. known \subseteq Contacts
      BY DEF IInv, TypeOK
    <3> QED
      BY <1>8, <3>1 DEF IncomingConnected
  <2>2. ~HasPorter(c)
    BY <1>8, <2>1, SecondStream
  <2>3. Counted(table, c, Holders(c)) /\ Holders(c) \in Nat
    BY <1>3, HoldersNat DEF IInv, HoldsAreExact
  <2>4. FreePorter \in Porters /\ FreePorter \notin Alive
    BY <1>4, FreePorterExists DEF IInv
  <2>5. /\ children' = [children EXCEPT ![FreePorter] = NewChild(c)]
        /\ table' \in Tables /\ Counted(table', c, Holders(c)) /\ PorterOf(table', c) = FreePorter
        /\ \A d \in Contacts \ {c} : table'[d] = table[d]
    BY <1>2, <2>1, <2>2, <2>3, <2>4, FirstStream
  <2>6. HoldsAreExact'
    BY <1>1, <1>6, <2>5, HoldsOfOne DEF IInv
  <2>7. NewChild(c) \in Children
    BY DEF NewChild, Children, Wanting
  <2>8. children' \in [Porters -> Children \cup {None}]
    BY <1>2, <2>5, <2>7
  <2>9. TypeOK'
    BY <1>1, <1>4, <2>5, <2>8 DEF IInv, TypeOK, Tables
  <2>10. None \notin DOMAIN calls'
    BY <1>1, CallIndices DEF IInv
  <2>11. \A d \in Contacts \ {c} : PorterOf(table', d) = PorterOf(table, d)
    BY <2>5 DEF PorterOf
  <2> QED
    BY <1>1, <1>4, <1>5, <2>2, <2>4, <2>5, <2>6, <2>9, <2>10, <2>11, NewStream
<1> QED
  BY <1>7, <1>8

\* The stream to oneself is held by the meta-porter, whether it is the first or not.
LEMMA LoopbackStep ==
  ASSUME IInv, LoopbackOpened(TRUE)
  PROVE  IInv'
<1>1. /\ loopback = "opening" /\ loopback' = "done" /\ known' = known \cup {Self}
      /\ children' = CreatePorter(Self).children
      /\ table' = HoldIn(CreatePorter(Self).table, Self)
      /\ UNCHANGED <<calls, registered, incoming, owned, disposed, acts>>
  BY DEF LoopbackOpened, EnsureContact
<1>2. /\ table \in Tables /\ children \in [Porters -> Children \cup {None}] /\ known' \subseteq Contacts
      /\ Self \in Contacts /\ owned \in [Contacts -> Nat] /\ calls \in Seq(CallStates)
  BY <1>1, MetaPorterAssumption DEF IInv, TypeOK, Tables
<1>3. ~disposed
  BY <1>1 DEF IInv, DisposedIsQuiet
<1>4. DisposedIsQuiet' /\ CallsInv' /\ CallsKept /\ Making' = Making /\ Coming' = Coming
      /\ None \notin DOMAIN calls'
  BY <1>1, <1>3, CallIndices DEF DisposedIsQuiet, CallsInv, CallsKept, Making, Coming, IInv
<1>5. \A d \in Contacts \ {Self} : Holders(d)' = Holders(d)
  BY <1>1 DEF Holders, HoldingCalls
<1>6. Counted(table, Self, Holders(Self)) /\ Holders(Self) \in Nat
  BY <1>2, <1>3, HoldersNat DEF IInv, HoldsAreExact
<1>7. Holders(Self)' = Holders(Self) + 1
  <2>1. Holders(Self)' = Cardinality(HoldingIn(calls, Self)) + owned[Self] + 1
    BY <1>1 DEF Holders, HoldingCalls, HoldingIn
  <2>2. Holders(Self) = Cardinality(HoldingIn(calls, Self)) + owned[Self] + 0
    BY <1>1 DEF Holders, HoldingCalls, HoldingIn
  <2>3. Cardinality(HoldingIn(calls, Self)) \in Nat /\ owned[Self] \in Nat
    BY <1>2, HoldingCount
  <2> QED
    BY <2>1, <2>2, <2>3
<1>8. FreePorter \in Porters /\ FreePorter \notin Alive
  BY <1>1, FreePorterExists DEF IInv
<1> DEFINE t == CreatePorter(Self).table
<1>9. /\ t \in Tables /\ Counted(t, Self, Holders(Self))
      /\ \A d \in Contacts \ {Self} : t[d] = table[d]
  <2>1. CASE HasPorter(Self)
    BY <1>2, <1>6, <2>1, SecondStream
  <2>2. CASE ~HasPorter(Self)
    BY <1>2, <1>6, <1>8, <2>2, FirstStream
  <2> QED
    BY <2>1, <2>2
<1>10. table' = HoldIn(t, Self)
  BY <1>1
<1> HIDE DEF t
<1>11. /\ table' \in Tables /\ Counted(table', Self, Holders(Self) + 1)
       /\ \A d \in Contacts \ {Self} : table'[d] = t[d]
       /\ \A d \in Contacts : PorterOf(table', d) = PorterOf(t, d)
  BY <1>2, <1>6, <1>9, <1>10, HoldInCounts
<1>12. Counted(table', Self, Holders(Self)')
  BY <1>7, <1>11
<1>13. HoldsAreExact'
  BY <1>1, <1>2, <1>5, <1>9, <1>11, <1>12, HoldsOfOne DEF IInv
<1>14. CASE HasPorter(Self)
  <2>1. children' = children /\ t = table
    BY <1>1, <1>2, <1>14, SecondStream DEF t
  <2>2. TypeOK'
    BY <1>1, <1>2, <1>11, <2>1 DEF IInv, TypeOK, Tables
  <2>3. \A d \in Contacts : PorterOf(table', d) = PorterOf(table, d)
    BY <1>11, <2>1
  <2> QED
    BY <1>1, <1>4, <1>13, <2>1, <2>2, <2>3, NoStreamChanges
<1>15. CASE ~HasPorter(Self)
  <2>1. children' = [children EXCEPT ![FreePorter] = NewChild(Self)] /\ PorterOf(t, Self) = FreePorter
    BY <1>1, <1>2, <1>6, <1>8, <1>15, FirstStream DEF t
  <2>2. PorterOf(table', Self) = FreePorter
        /\ \A d \in Contacts \ {Self} : PorterOf(table', d) = PorterOf(table, d)
    BY <1>2, <1>9, <1>11, <2>1 DEF PorterOf
  <2>3. NewChild(Self) \in Children
    BY <1>2 DEF NewChild, Children, Wanting
  <2>4. children' \in [Porters -> Children \cup {None}]
    BY <1>2, <2>1, <2>3
  <2>5. TypeOK'
    BY <1>1, <1>2, <1>11, <2>4 DEF IInv, TypeOK, Tables
  <2> QED
    BY <1>1, <1>2, <1>4, <1>8, <1>13, <1>15, <2>1, <2>2, <2>5, NewStream
<1> QED
  BY <1>14, <1>15

-----------------------------------------------------------------------------
(* Streams end *)

LEMMA ForgottenIs ==
  ASSUME NEW t \in Tables, NEW ps \in SUBSET Porters
  PROVE  /\ Forgotten(t, ps) \in Tables
         /\ \A c \in Contacts : PorterOf(Forgotten(t, ps), c) = IF PorterOf(t, c) \in ps THEN None
                                                               ELSE PorterOf(t, c)
         /\ \A c \in Contacts : \A n : Counted(t, c, n) => Counted(Forgotten(t, ps), c, n)
<1>1. None \notin ps
  BY Constants
<1>2. ASSUME NEW c \in Contacts
      PROVE  /\ Forgotten(t, ps)[c] \in PorterData \cup {None}
             /\ PorterOf(Forgotten(t, ps), c) = IF PorterOf(t, c) \in ps THEN None ELSE PorterOf(t, c)
             /\ \A n : Counted(t, c, n) => Counted(Forgotten(t, ps), c, n)
  <2>1. CASE t[c] # None /\ t[c].porter \in ps
    <3> DEFINE r == [t[c] EXCEPT !.porter = None]
    <3>1. Forgotten(t, ps)[c] = r
      BY <2>1 DEF Forgotten
    <3>2. t[c] \in PorterData
      BY <2>1 DEF Tables
    <3>3. r \in PorterData /\ r.porter = None /\ r.holds = t[c].holds /\ r.timer = t[c].timer
      BY <3>2 DEF PorterData
    <3> HIDE DEF r
    <3>4. r # None
      BY <3>3, NoneAssumption
    <3>5. PorterOf(t, c) \in ps
      BY <2>1 DEF PorterOf
    <3>6. PorterOf(Forgotten(t, ps), c) = None
      BY <3>1, <3>3 DEF PorterOf
    <3>7. \A n : Counted(t, c, n) => Counted(Forgotten(t, ps), c, n)
      BY <2>1, <3>1, <3>3, <3>4 DEF Counted
    <3> QED
      BY <3>1, <3>3, <3>5, <3>6, <3>7
  <2>2. CASE ~(t[c] # None /\ t[c].porter \in ps)
    <3>1. Forgotten(t, ps)[c] = t[c]
      BY <2>2 DEF Forgotten
    <3>2. PorterOf(t, c) \notin ps
      BY <1>1, <2>2 DEF PorterOf
    <3>3. t[c] \in PorterData \cup {None}
      BY DEF Tables
    <3> QED
      BY <3>1, <3>2, <3>3 DEF PorterOf, Counted
  <2> QED
    BY <2>1, <2>2
<1>3. Forgotten(t, ps) = [c \in Contacts |-> Forgotten(t, ps)[c]]
  BY DEF Forgotten
<1>4. Forgotten(t, ps) \in Tables
  BY <1>2, <1>3 DEF Tables
<1> QED
  BY <1>2, <1>4

LEMMA ClosingIs ==
  ASSUME NEW cs \in [Porters -> Children \cup {None}], NEW ps,
         \A p \in ps \cap Porters : cs[p] # None, NEW k \in Calls \cup {None}
  PROVE  LET ds == Closing(cs, ps, k)
         IN /\ ds \in [Porters -> Children \cup {None}]
            /\ \A p \in Porters \ ps : ds[p] = cs[p]
            /\ \A p \in ps \cap Porters :
                 /\ ds[p] # None /\ ds[p].state = "closing" /\ ds[p].closer = k
                 /\ ds[p].contact = cs[p].contact
<1> DEFINE ds == Closing(cs, ps, k)
<1>1. ASSUME NEW p \in ps \cap Porters
      PROVE  /\ ds[p] \in Children /\ ds[p].state = "closing" /\ ds[p].closer = k
             /\ ds[p].contact = cs[p].contact
  <2>1. ds[p] = [cs[p] EXCEPT !.state = "closing", !.closer = k] /\ cs[p] \in Children
    BY <1>1 DEF Closing
  <2> QED
    BY <2>1 DEF Children
<1>2. ASSUME NEW p \in Porters \ ps
      PROVE  ds[p] = cs[p]
  BY <1>2 DEF Closing
<1>3. \A p \in Porters : ds[p] \in Children \cup {None}
  BY <1>1, <1>2
<1>4. ds = [p \in Porters |-> ds[p]]
  BY DEF Closing
<1> HIDE DEF ds
<1>5. ds \in [Porters -> Children \cup {None}]
  BY <1>3, <1>4
<1> QED
  BY <1>1, <1>2, <1>5, NoneAssumption DEF ds

\* The porters in ps, which are open ones, close or are dropped.
LEMMA StreamsEnd ==
  ASSUME IInv, NEW ps \in SUBSET Alive, \A p \in ps : children[p].state = "open",
         \A p \in Porters \ ps : children'[p] = children[p],
         \A p \in ps : children'[p] # None /\ children'[p].state # "open",
         \A c \in Contacts : PorterOf(table', c) = IF PorterOf(table, c) \in ps THEN None
                                                   ELSE PorterOf(table, c),
         UNCHANGED registered
  PROVE  Alive' = Alive /\ Recorded' /\ OneStreamWithItsHandlers'
<1>1. Alive' = Alive /\ Alive \subseteq Porters
  BY DEF Alive
<1>2. None \notin Alive
  BY <1>1, Constants
<1>3. Recorded'
  <2> SUFFICES ASSUME NEW c \in Contacts, PorterOf(table', c) # None
               PROVE  /\ PorterOf(table', c) \in Alive'
                      /\ children'[PorterOf(table', c)].state = "open"
                      /\ children'[PorterOf(table', c)].contact = c
    BY DEF Recorded
  <2>1. PorterOf(table', c) = PorterOf(table, c) /\ PorterOf(table, c) \notin ps
    OBVIOUS
  <2>2. LET q == PorterOf(table, c)
        IN q \in Alive /\ children[q].state = "open" /\ children[q].contact = c
    BY <2>1 DEF IInv, Recorded
  <2> QED
    BY <1>1, <2>1, <2>2
<1>4. OneStreamWithItsHandlers'
  <2> SUFFICES ASSUME NEW q \in Alive', children'[q].state = "open"
               PROVE  /\ table'[children'[q].contact] # None
                      /\ table'[children'[q].contact].porter = q
                      /\ children'[q].handlers = Wanting(children'[q].contact)
    BY DEF OneStreamWithItsHandlers, Wanting
  <2>1. q \in Alive /\ q \notin ps /\ children'[q] = children[q]
    BY <1>1
  <2>2. /\ PorterOf(table, children[q].contact) = q
        /\ children[q].handlers = Wanting(children[q].contact)
    BY <2>1, StreamInUse DEF IInv
  <2>3. children[q].contact \in Contacts
    BY <2>1 DEF IInv, TypeOK, Alive, Children
  <2>4. PorterOf(table', children[q].contact) = q /\ q # None
    BY <1>2, <2>1, <2>2, <2>3
  <2> QED
    BY <2>1, <2>2, <2>4 DEF PorterOf
<1> QED
  BY <1>1, <1>3, <1>4

\* Nobody waits for these ends.
LEMMA StreamsAreLost ==
  ASSUME IInv, NEW ps \in SUBSET Alive, \A p \in ps : children[p].state = "open",
         children' \in [Porters -> Children \cup {None}],
         \A p \in Porters \ ps : children'[p] = children[p],
         \A p \in ps : children'[p] # None /\ children'[p].state # "open" /\ children'[p].closer = None,
         table' \in Tables,
         \A c \in Contacts : PorterOf(table', c) = IF PorterOf(table, c) \in ps THEN None
                                                   ELSE PorterOf(table, c),
         HoldsAreExact',
         UNCHANGED <<known, calls, registered, incoming, loopback, owned, disposed, acts>>
  PROVE  IInv'
<1>1. Alive' = Alive /\ Recorded' /\ OneStreamWithItsHandlers'
  BY StreamsEnd
<1>2. TypeOK'
  BY DEF IInv, TypeOK, Tables
<1>3. CallsInv' /\ CallsKept /\ Making' = Making /\ Coming' = Coming /\ DisposedIsQuiet'
  BY DEF IInv, CallsInv, CallsKept, Making, Coming, DisposedIsQuiet
<1>4. PortersSuffice'
  BY <1>1, <1>3, PortersStillSuffice DEF IInv
<1>5. \A p \in Alive : \/ p \notin ps /\ children'[p] = children[p]
                       \/ /\ children'[p].closer = None /\ children[p].closer = None
                          /\ children'[p].state # "open"
  BY DEF IInv, Closers, Alive
<1>6. Closers'
  BY <1>1, <1>5 DEF IInv, Closers
<1>7. None \notin DOMAIN calls'
  BY CallIndices DEF IInv
<1>8. ASSUME NEW k \in DOMAIN calls'
      PROVE  ClosedFor(k)' = ClosedFor(k)
  <2>1. k # None
    BY <1>7
  <2> QED
    BY <1>1, <1>5, <2>1 DEF ClosedFor
<1>9. RemainingIsExact'
  BY <1>3, <1>7, <1>8, RemainingKept DEF IInv
<1> QED
  BY <1>1, <1>2, <1>3, <1>4, <1>6, <1>9 DEF IInv

LEMMA TimeoutStep ==
  ASSUME IInv, NEW c \in Contacts, PorterTimeout(c)
  PROVE  IInv'
<1>1. /\ ~disposed /\ table[c] # None /\ table[c].timer /\ table' = [table EXCEPT ![c] = None]
      /\ children' = Closing(children, {table[c].porter}, None)
      /\ UNCHANGED <<known, calls, registered, incoming, loopback, owned, disposed, acts>>
  BY DEF PorterTimeout
<1>2. table \in Tables /\ children \in [Porters -> Children \cup {None}]
  BY DEF IInv, TypeOK, Tables
<1> DEFINE ps == {PorterOf(table, c)} \cap Porters
<1>3. PorterOf(table, c) = table[c].porter
  BY <1>1 DEF PorterOf
<1>4. None \notin Porters
  BY Constants
<1>5. \A d \in Contacts : PorterOf(table, d) # None =>
        LET p == PorterOf(table, d)
        IN p \in Alive /\ children[p].state = "open" /\ children[p].contact = d
  BY DEF IInv, Recorded
<1>6. ps \in SUBSET Alive /\ \A p \in ps : children[p].state = "open"
  BY <1>4, <1>5
<1>7. \A p \in {table[c].porter} \cap Porters : children[p] # None
  BY <1>3, <1>6 DEF Alive
<1>8. /\ children' \in [Porters -> Children \cup {None}]
      /\ \A p \in Porters \ ps : children'[p] = children[p]
      /\ \A p \in ps : children'[p] # None /\ children'[p].state # "open" /\ children'[p].closer = None
  <2>1. /\ children' \in [Porters -> Children \cup {None}]
        /\ \A p \in Porters \ {table[c].porter} : children'[p] = children[p]
        /\ \A p \in {table[c].porter} \cap Porters :
             children'[p] # None /\ children'[p].state = "closing" /\ children'[p].closer = None
    <3>1. PICK q : q = table[c].porter
      OBVIOUS
    <3>2. children' = Closing(children, {q}, None) /\ \A p \in {q} \cap Porters : children[p] # None
      BY <1>1, <1>7, <3>1
    <3>3. /\ children' \in [Porters -> Children \cup {None}]
          /\ \A p \in Porters \ {q} : children'[p] = children[p]
          /\ \A p \in {q} \cap Porters :
               children'[p] # None /\ children'[p].state = "closing" /\ children'[p].closer = None
      BY <1>2, <3>2, ClosingIs
    <3> QED
      BY <3>1, <3>3
  <2> QED
    BY <1>3, <2>1
<1>9. table' \in Tables /\ table'[c] = None /\ \A d \in Contacts \ {c} : table'[d] = table[d]
  BY <1>1, <1>2 DEF Tables
<1>10. \A d \in Contacts : PorterOf(table', d) = IF PorterOf(table, d) \in ps THEN None
                                                 ELSE PorterOf(table, d)
  <2>1. PorterOf(table', c) = None
    BY <1>9 DEF PorterOf
  <2>2. \A d \in Contacts \ {c} : PorterOf(table', d) = PorterOf(table, d)
    BY <1>9 DEF PorterOf
  <2>3. \A d \in Contacts \ {c} : PorterOf(table, d) \notin ps
    BY <1>4, <1>5
  <2>4. PorterOf(table, c) \notin ps => PorterOf(table, c) = None
    BY <1>5 DEF Alive
  <2> QED
    BY <2>1, <2>2, <2>3, <2>4
<1>11. HoldsAreExact'
  <2>1. \A d : Holders(d)' = Holders(d)
    BY <1>1 DEF Holders, HoldingCalls
  <2>2. Holders(c) = 0
    BY <1>1 DEF IInv, HoldsAreExact, Counted
  <2>3. Counted(table', c, Holders(c)')
    BY <1>9, <2>1, <2>2 DEF Counted
  <2> QED
    BY <1>1, <1>9, <2>1, <2>3, HoldsOfOne DEF IInv
<1> HIDE DEF ps
<1> QED
  BY <1>1, <1>6, <1>8, <1>9, <1>10, <1>11, StreamsAreLost

\* Forgetting a porter changes no hold.
LEMMA HoldsAreNotForgotten ==
  ASSUME IInv, NEW ps \in SUBSET Porters, table' = Forgotten(table, ps), disposed' = disposed,
         \A d \in Contacts : Holders(d)' = Holders(d)
  PROVE  HoldsAreExact'
<1>1. table \in Tables
  BY DEF IInv, TypeOK, Tables
<1>2. \A c \in Contacts : \A n : Counted(table, c, n) => Counted(table', c, n)
  BY <1>1, ForgottenIs
<1> QED
  BY <1>2 DEF IInv, HoldsAreExact

LEMMA RemoteStep ==
  ASSUME IInv, NEW p \in Porters, PorterRemoteClosed(p) \/ PorterRemoteError(p)
  PROVE  IInv'
<1>1. /\ p \in Alive /\ children[p].state = "open" /\ table' = Forgotten(table, {p})
      /\ UNCHANGED <<known, calls, registered, incoming, loopback, owned, disposed, acts>>
  BY DEF PorterRemoteClosed, PorterRemoteError
<1>2. table \in Tables /\ children \in [Porters -> Children \cup {None}]
  BY DEF IInv, TypeOK, Tables
<1>3. children[p] \in Children /\ children[p].closer = None
  BY <1>1, <1>2 DEF Alive, IInv, Closers
<1>4. /\ children' \in [Porters -> Children \cup {None}]
      /\ \A q \in Porters \ {p} : children'[q] = children[q]
      /\ children'[p] # None /\ children'[p].state # "open" /\ children'[p].closer = None
  <2>1. CASE PorterRemoteClosed(p)
    <3> DEFINE r == [children[p] EXCEPT !.state = "dropped"]
    <3>1. children' = [children EXCEPT ![p] = r]
      BY <2>1 DEF PorterRemoteClosed
    <3>2. r \in Children /\ r.state # "open" /\ r.closer = None
      BY <1>3 DEF Children
    <3> HIDE DEF r
    <3>3. \A q \in Porters : children'[q] = IF q = p THEN r ELSE children[q]
      BY <1>2, <3>1
    <3>4. children' \in [Porters -> Children \cup {None}]
      BY <1>2, <3>1, <3>2
    <3>5. r # None
      BY <3>2, NoneAssumption
    <3>6. children'[p] = r /\ \A q \in Porters \ {p} : children'[q] = children[q]
      BY <3>3
    <3> QED
      BY <3>2, <3>4, <3>5, <3>6
  <2>2. CASE PorterRemoteError(p)
    <3>1. children' = Closing(children, {p}, None)
      BY <2>2 DEF PorterRemoteError
    <3>2. \A q \in {p} \cap Porters : children[q] # None
      BY <1>1 DEF Alive
    <3> QED
      BY <1>2, <3>1, <3>2, ClosingIs
  <2> QED
    BY <2>1, <2>2
<1>5. \A d \in Contacts : Holders(d)' = Holders(d)
  BY <1>1 DEF Holders, HoldingCalls
<1>6. HoldsAreExact'
  BY <1>1, <1>5, HoldsAreNotForgotten
<1>7. /\ table' \in Tables
      /\ \A c \in Contacts : PorterOf(table', c) = IF PorterOf(table, c) \in {p} THEN None
                                                   ELSE PorterOf(table, c)
  BY <1>1, <1>2, ForgottenIs
<1>8. {p} \in SUBSET Alive /\ \A q \in {p} : children[q].state = "open"
  BY <1>1
<1>9. \A q \in {p} : children'[q] # None /\ children'[q].state # "open" /\ children'[q].closer = None
  BY <1>4
<1> QED
  BY <1>1, <1>4, <1>6, <1>7, <1>8, <1>9, StreamsAreLost

\* The close waits for exactly the porters that are closed for it.
LEMMA CloseAllStep ==
  ASSUME IInv, CloseAllPorters
  PROVE  IInv'
<1> DEFINE ps == {table[c].porter : c \in {c \in Contacts : HasPorter(c)}}
           k == Len(calls) + 1
           x == IF ps = {} THEN Done
                ELSE [Done EXCEPT !.kind = "close", !.at = "closing", !.remaining = Cardinality(ps)]
<1>1. /\ ~disposed /\ Len(calls) < MaxCalls /\ acts' \in 0 .. MaxActs
      /\ children' = Closing(children, ps, k) /\ table' = Forgotten(table, ps)
      /\ calls' = Append(calls, x)
      /\ UNCHANGED <<known, registered, incoming, loopback, owned, disposed>>
  BY Acts DEF CloseAllPorters, IInv
<1>2. /\ table \in Tables /\ children \in [Porters -> Children \cup {None}]
      /\ calls \in Seq(CallStates) /\ MaxCalls \in Nat
  BY Constants DEF IInv, TypeOK, Tables
<1>3. ps \in SUBSET Alive /\ \A p \in ps : children[p].state = "open"
  BY DEF HasPorter, PorterOf, IInv, Recorded
<1>4. Alive \subseteq Porters
  BY DEF Alive
<1>5. IsFiniteSet(ps) /\ Cardinality(ps) \in Nat
  BY <1>3, FiniteSets, FS_Subset, FS_CardinalityType
<1>6. k \in Calls /\ k \notin DOMAIN calls /\ k # None
  <2>1. k \in Calls /\ k \notin DOMAIN calls
    BY <1>1, <1>2 DEF Calls
  <2> QED
    BY <2>1, Constants
<1>7. /\ x \in CallStates /\ CallOK(x) /\ x.remaining = Cardinality(ps) /\ x.kind \notin Held
      /\ x.at \notin NewStates /\ x.contact = None
  <2>1. CASE ps = {}
    <3>1. Cardinality(ps) = 0
      BY <2>1, FS_EmptySet
    <3> QED
      BY <2>1, <3>1, DoneType, NoneAssumption DEF Done, NewStates
  <2>2. CASE ps # {}
    <3> HIDE DEF ps
    <3>1. x = [Done EXCEPT !.kind = "close", !.at = "closing", !.remaining = Cardinality(ps)]
      BY <2>2
    <3> HIDE DEF x
    <3>2. x \in CallStates /\ x.at = "closing" /\ x.kind = "close" /\ x.contact = None
          /\ x.remaining = Cardinality(ps)
      BY <1>5, <3>1, DoneType DEF CallStates, Done
    <3> QED
      BY <3>2 DEF CallOK, NewStates, Held
  <2> QED
    BY <2>1, <2>2
<1> HIDE DEF ps, x
<1>8. /\ calls' \in Seq(CallStates) /\ Len(calls') = k
      /\ DOMAIN calls' = DOMAIN calls \cup {k} /\ calls'[k] = x
      /\ \A j \in DOMAIN calls : calls'[j] = calls[j]
  BY <1>1, <1>2, <1>7, CallIsAdded
<1>9. Len(calls') <= MaxCalls
  BY <1>1, <1>2, <1>8
<1> HIDE DEF k
<1>10. /\ children' \in [Porters -> Children \cup {None}]
       /\ \A p \in Porters \ ps : children'[p] = children[p]
       /\ \A p \in ps : children'[p] # None /\ children'[p].state = "closing" /\ children'[p].closer = k
  <2>1. \A p \in ps \cap Porters : children[p] # None
    BY <1>3 DEF Alive
  <2>2. PICK q : q = ps
    OBVIOUS
  <2>3. PICK j \in Calls : j = k
    BY <1>6
  <2>4. children' = Closing(children, q, j) /\ \A p \in q \cap Porters : children[p] # None
    BY <1>1, <2>1, <2>2, <2>3
  <2>5. /\ children' \in [Porters -> Children \cup {None}]
        /\ \A p \in Porters \ q : children'[p] = children[p]
        /\ \A p \in q \cap Porters :
             children'[p] # None /\ children'[p].state = "closing" /\ children'[p].closer = j
    <3>1. j \in Calls \cup {None}
      BY <2>3
    <3> HIDE DEF Calls, Children, Porters
    <3> QED
      BY <1>2, <2>4, <3>1, ClosingIs
  <2> QED
    BY <1>3, <1>4, <2>2, <2>3, <2>5
<1>11. /\ table' \in Tables
       /\ \A c \in Contacts : PorterOf(table', c) = IF PorterOf(table, c) \in ps THEN None
                                                    ELSE PorterOf(table, c)
  BY <1>1, <1>2, <1>3, <1>4, ForgottenIs
<1>12. Alive' = Alive /\ Recorded' /\ OneStreamWithItsHandlers'
  BY <1>1, <1>3, <1>10, <1>11, StreamsEnd
<1>13. TypeOK'
  BY <1>1, <1>8, <1>9, <1>10, <1>11 DEF IInv, TypeOK, Tables
<1>14. CallsInv'
  BY <1>7, <1>8 DEF IInv, CallsInv
<1>15. Making' \subseteq Making /\ Coming' = Coming /\ DisposedIsQuiet'
  BY <1>1, <1>8 DEF Making, Coming, DisposedIsQuiet
<1>16. PortersSuffice'
  BY <1>1, <1>12, <1>15, PortersStillSuffice DEF IInv
<1>17. HoldsAreExact'
  <2>1. \A d : HoldingIn(calls', d) = HoldingIn(calls, d)
    BY <1>6, <1>7, <1>8 DEF HoldingIn
  <2>2. \A d \in Contacts : Holders(d)' = Holders(d)
    BY <1>1, <2>1, HoldersSame
  <2> QED
    BY <1>1, <1>3, <1>4, <2>2, HoldsAreNotForgotten
<1>18. \A p \in Alive : \/ p \notin ps /\ children'[p] = children[p]
                        \/ /\ p \in ps /\ children'[p].closer = k /\ children[p].closer = None
                           /\ children'[p].state = "closing"
  BY <1>3, <1>4, <1>10 DEF IInv, Closers
<1>19. Closers'
  BY <1>8, <1>12, <1>18 DEF IInv, Closers
<1>20. RemainingIsExact'
  <2>1. ASSUME NEW j \in DOMAIN calls
        PROVE  calls'[j].remaining = Cardinality(ClosedFor(j)')
    <3>1. j # None /\ j # k
      BY <1>6, CallIndices DEF IInv
    <3>2. ClosedFor(j)' = ClosedFor(j)
      BY <1>12, <1>18, <3>1 DEF ClosedFor
    <3> QED
      BY <1>8, <3>2 DEF IInv, RemainingIsExact, ClosedFor
  <2>2. {p \in Alive' : children'[p].closer = k} = ps
    <3>1. \A p \in Alive : children[p].closer # k
      BY <1>6 DEF IInv, Closers
    <3> QED
      BY <1>3, <1>12, <1>18, <3>1
  <2>3. calls'[k].remaining = Cardinality({p \in Alive' : children'[p].closer = k})
    BY <1>7, <1>8, <2>2
  <2> QED
    BY <1>8, <2>1, <2>3 DEF RemainingIsExact, ClosedFor
<1> QED
  BY <1>12, <1>13, <1>14, <1>15, <1>16, <1>17, <1>19, <1>20 DEF IInv

\* A porter that has ended is one the close need not wait for any more.
LEMMA GoneStep ==
  ASSUME IInv, NEW p \in Porters, PorterGone(p)
  PROVE  IInv'
<1>1. /\ p \in Alive /\ children[p].state \in {"closing", "dropped"}
      /\ children' = [children EXCEPT ![p] = None]
      /\ calls' = IF children[p].closer \in Calls
                  THEN [calls EXCEPT ![children[p].closer] = PorterCloseCb(children[p].closer)]
                  ELSE calls
      /\ UNCHANGED <<known, table, registered, incoming, loopback, owned, disposed, acts>>
  BY DEF PorterGone
<1>2. /\ table \in Tables /\ children \in [Porters -> Children \cup {None}]
      /\ calls \in Seq(CallStates) /\ None \notin Calls
  BY Constants DEF IInv, TypeOK, Tables
<1>3. /\ children' \in [Porters -> Children \cup {None}] /\ children'[p] = None
      /\ \A q \in Porters \ {p} : children'[q] = children[q]
  BY <1>1, <1>2
<1>4. Alive' = Alive \ {p} /\ Alive \subseteq Porters
  BY <1>3 DEF Alive
<1>5. children[p].closer \in DOMAIN calls \cup {None} /\ DOMAIN calls \subseteq Calls
  BY <1>1, CallIndices DEF IInv, Closers
<1>6. Recorded'
  <2>1. \A c \in Contacts : PorterOf(table, c) # p
    <3>1. p # None
      BY <1>1, <1>4, Constants
    <3> QED
      BY <1>1, <3>1 DEF IInv, Recorded
  <2> QED
    BY <1>1, <1>3, <1>4, <2>1 DEF IInv, Recorded
<1>7. OneStreamWithItsHandlers'
  <2>1. \A c : Wanting(c)' = Wanting(c)
    BY <1>1 DEF Wanting
  <2>2. \A q \in Alive' : children'[q] = children[q] /\ q \in Alive
    BY <1>3, <1>4
  <2> QED
    BY <1>1, <2>1, <2>2 DEF IInv, OneStreamWithItsHandlers
<1>8. CASE children[p].closer = None
  <2>1. calls' = calls
    BY <1>1, <1>2, <1>8
  <2>2. TypeOK'
    BY <1>1, <1>3, <2>1 DEF IInv, TypeOK
  <2>3. CallsInv' /\ CallsKept /\ Making' = Making /\ Coming' = Coming /\ DisposedIsQuiet'
    BY <1>1, <2>1 DEF IInv, CallsInv, CallsKept, Making, Coming, DisposedIsQuiet
  <2>4. PortersSuffice'
    BY <1>1, <1>4, <2>3, PortersStillSuffice DEF IInv
  <2>5. \A c \in Contacts : Holders(c)' = Holders(c)
    BY <1>1, <2>1 DEF Holders, HoldingCalls
  <2>6. HoldsAreExact'
    BY <1>1, <2>5, HoldsOfNone DEF IInv
  <2>7. Closers'
    BY <1>3, <1>4, <2>1 DEF IInv, Closers
  <2>8. None \notin DOMAIN calls'
    BY <2>1, CallIndices DEF IInv
  <2>9. \A k \in DOMAIN calls' : ClosedFor(k)' = ClosedFor(k)
    BY <1>3, <1>4, <1>8, <2>8 DEF ClosedFor
  <2>10. RemainingIsExact'
    BY <2>3, <2>8, <2>9, RemainingKept DEF IInv
  <2> QED
    BY <1>6, <1>7, <2>2, <2>3, <2>4, <2>6, <2>7, <2>10 DEF IInv
<1>9. CASE children[p].closer # None
  <2>1. PICK k \in DOMAIN calls : k = children[p].closer
    BY <1>5, <1>9
  <2>2. /\ calls[k] \in CallStates /\ CallOK(calls[k]) /\ k \in Calls /\ k # None
    BY <1>2, <1>5, <2>1, CallType
  <2>3. /\ IsFiniteSet(ClosedFor(k)) /\ p \in ClosedFor(k) /\ Cardinality(ClosedFor(k)) \in Nat \ {0}
        /\ calls[k].remaining = Cardinality(ClosedFor(k))
    <3>1. p \in ClosedFor(k) /\ ClosedFor(k) \subseteq Alive
      BY <1>1, <2>1 DEF ClosedFor
    <3>2. IsFiniteSet(ClosedFor(k))
      BY <3>1, FiniteSets, FS_Subset
    <3>3. Cardinality(ClosedFor(k)) \in Nat /\ Cardinality(ClosedFor(k)) # 0
      BY <3>1, <3>2, FS_EmptySet, FS_CardinalityType
    <3> QED
      BY <3>1, <3>2, <3>3 DEF IInv, RemainingIsExact, ClosedFor
  <2>4. calls[k].at = "closing" /\ calls[k].kind = "close"
    <3>1. calls[k].remaining # 0
      BY <2>3
    <3>2. Done.remaining = 0
      BY DEF Done
    <3>3. calls[k].at \in NewStates \cup {"porter", "closing", "done"}
      BY <2>2 DEF CallStates, NewStates
    <3> QED
      BY <2>2, <3>1, <3>2, <3>3 DEF CallOK
  <2> DEFINE x == PorterCloseCb(k)
  <2>5. /\ x \in CallStates /\ CallOK(x) /\ x.remaining = calls[k].remaining - 1
        /\ x.kind \notin Held /\ x.at \notin NewStates
    <3>1. CASE calls[k].remaining = 1
      BY <3>1, DoneType, NoneAssumption DEF PorterCloseCb, Done, NewStates
    <3>2. CASE calls[k].remaining # 1
      <4>1. x = [calls[k] EXCEPT !.remaining = @ - 1]
        BY <3>2 DEF PorterCloseCb
      <4>2. calls[k].remaining - 1 \in Nat
        BY <2>3
      <4> HIDE DEF x
      <4>3. /\ x \in CallStates /\ x.at = "closing" /\ x.kind = "close"
            /\ x.remaining = calls[k].remaining - 1
        BY <2>2, <2>4, <4>1, <4>2 DEF CallStates
      <4> QED
        BY <4>3 DEF CallOK, NewStates, Held
    <3> QED
      BY <3>1, <3>2
  <2>6. calls' = [calls EXCEPT ![k] = x]
    BY <1>1, <2>1, <2>2
  <2> HIDE DEF x
  <2>7. /\ calls' \in Seq(CallStates) /\ Len(calls') = Len(calls) /\ DOMAIN calls' = DOMAIN calls
        /\ calls'[k] = x /\ \A j \in DOMAIN calls : j # k => calls'[j] = calls[j]
    BY <1>2, <2>5, <2>6, CallMoves
  <2>8. TypeOK'
    BY <1>1, <1>3, <2>7 DEF IInv, TypeOK
  <2>9. CallsInv'
    BY <2>5, <2>7 DEF IInv, CallsInv
  <2>10. Making' \subseteq Making /\ Coming' = Coming
    BY <1>1, <2>5, <2>7 DEF Making, Coming
  <2>11. DisposedIsQuiet'
    BY <1>1, <2>4 DEF IInv, DisposedIsQuiet
  <2>12. PortersSuffice'
    BY <1>1, <1>4, <2>10, PortersStillSuffice DEF IInv
  <2>13. \A c \in Contacts : Holders(c)' = Holders(c)
    <3>1. calls[k].kind \notin Held
      BY <2>4 DEF Held
    <3>2. \A c : HoldingIn(calls', c) = HoldingIn(calls, c)
      BY <2>5, <2>7, <3>1 DEF HoldingIn
    <3> QED
      BY <1>1, <3>2, HoldersSame
  <2>14. HoldsAreExact'
    BY <1>1, <2>13, HoldsOfNone DEF IInv
  <2>15. Closers'
    BY <1>3, <1>4, <2>7 DEF IInv, Closers
  <2>16. RemainingIsExact'
    <3>1. ASSUME NEW j \in DOMAIN calls, j # k
          PROVE  calls'[j].remaining = Cardinality(ClosedFor(j)')
      <4>1. ClosedFor(j)' = ClosedFor(j)
        BY <1>3, <1>4, <2>1, <3>1 DEF ClosedFor
      <4> QED
        BY <2>7, <3>1, <4>1 DEF IInv, RemainingIsExact, ClosedFor
    <3>2. ClosedFor(k)' = ClosedFor(k) \ {p}
      BY <1>3, <1>4 DEF ClosedFor
    <3>3. Cardinality(ClosedFor(k) \ {p}) = Cardinality(ClosedFor(k)) - 1
      BY <2>3, FS_RemoveElement
    <3>4. calls'[k].remaining = Cardinality(ClosedFor(k)')
      BY <2>3, <2>5, <2>7, <3>2, <3>3
    <3> QED
      BY <2>7, <3>1, <3>4 DEF RemainingIsExact, ClosedFor
  <2> QED
    BY <1>6, <1>7, <2>8, <2>9, <2>11, <2>12, <2>14, <2>15, <2>16 DEF IInv
<1> QED
  BY <1>8, <1>9

\* Nothing is left of the records; who waits for the end of a porter does not change.
LEMMA DisposeStep ==
  ASSUME IInv, Dispose
  PROVE  IInv'
<1>1. /\ ~disposed /\ disposed' = TRUE
      /\ \A k \in DOMAIN calls : calls[k].at = "done"
      /\ \A i \in Arrivals : incoming[i][1] \in {"new", "done"}
      /\ loopback # "opening"
      /\ table' = [c \in Contacts |-> None] /\ registered' = [h \in Handlers |-> None]
      /\ owned' = [c \in Contacts |-> 0]
      /\ UNCHANGED <<known, calls, incoming, loopback, acts>>
  BY DEF Dispose
<1>2. children' = [p \in Porters |->
        IF p \in Alive
        THEN [children[p] EXCEPT !.state = IF @ = "open" THEN "closing" ELSE @, !.handlers = {}]
        ELSE None]
  BY DEF Dispose
<1>3. children \in [Porters -> Children \cup {None}] /\ Alive \subseteq Porters
  BY DEF IInv, TypeOK, Alive
<1>4. ASSUME NEW p \in Alive
      PROVE  /\ children'[p] \in Children /\ children'[p] # None
             /\ children'[p].state # "open" /\ children'[p].closer = children[p].closer
  <2>1. children[p] \in Children
    BY <1>3 DEF Alive
  <2> DEFINE y == [children[p] EXCEPT !.state = IF @ = "open" THEN "closing" ELSE @,
                                      !.handlers = {}]
  <2>2. children'[p] = y
    BY <1>2, <1>3
  <2>3. y \in Children /\ y.state # "open" /\ y.closer = children[p].closer
    BY <2>1 DEF Children
  <2> HIDE DEF y
  <2> QED
    BY <2>2, <2>3, NoneAssumption
<1>5. \A p \in Porters \ Alive : children'[p] = None
  BY <1>2
<1>6. children' \in [Porters -> Children \cup {None}]
  <2>1. \A p \in Porters : children'[p] \in Children \cup {None}
    BY <1>4, <1>5
  <2>2. children' = [p \in Porters |-> children'[p]]
    BY <1>2
  <2> QED
    BY <2>1, <2>2
<1>7. Alive' = Alive
  BY <1>3, <1>4, <1>5 DEF Alive
<1>8. table' \in [Contacts -> PorterData \cup {None}] /\ \A c \in Contacts : PorterOf(table', c) = None
  BY <1>1 DEF PorterOf
<1>9. TypeOK'
  <2>1. registered' \in [Handlers -> Contacts \cup {Anyone, None}] /\ owned' \in [Contacts -> Nat]
    BY <1>1
  <2>2. disposed' \in BOOLEAN
    BY <1>1
  <2> QED
    BY <1>1, <1>6, <1>8, <2>1, <2>2 DEF IInv, TypeOK
<1>10. Making' = Making /\ Coming' = Coming
  BY <1>1 DEF Making, Coming
<1>11. PortersSuffice'
  BY <1>1, <1>7, <1>10, PortersStillSuffice DEF IInv
<1>12. CallsInv' /\ CallsKept
  BY <1>1 DEF IInv, CallsInv, CallsKept
<1>13. Recorded'
  BY <1>8 DEF Recorded
<1>14. OneStreamWithItsHandlers'
  BY <1>4, <1>7 DEF OneStreamWithItsHandlers
<1>15. Closers'
  BY <1>1, <1>4, <1>7 DEF IInv, Closers
<1>16. RemainingIsExact'
  <2>1. \A k : ClosedFor(k)' = ClosedFor(k)
    BY <1>4, <1>7 DEF ClosedFor
  <2>2. None \notin DOMAIN calls'
    BY <1>1, CallIndices DEF IInv
  <2> QED
    BY <1>12, <2>1, <2>2, RemainingKept DEF IInv
<1>17. HoldsAreExact'
  BY <1>1 DEF HoldsAreExact
<1>18. DisposedIsQuiet'
  BY <1>1 DEF DisposedIsQuiet
<1> QED
  BY <1>9, <1>11, <1>12, <1>13, <1>14, <1>15, <1>16, <1>17, <1>18 DEF IInv

-----------------------------------------------------------------------------
(* Handlers *)

WantingIn(r, c) == {h \in Handlers : r[h] \in {c, Anyone}}

\* Only the handlers of porters change, and each open one has those it should have.
LEMMA HandlersChange ==
  ASSUME IInv, NEW r \in [Handlers -> Contacts \cup {Anyone, None}], registered' = r,
         acts' \in 0 .. MaxActs, children' \in [Porters -> Children \cup {None}],
         Alive' = Alive,
         \A p \in Alive : /\ children'[p].state = children[p].state
                          /\ children'[p].closer = children[p].closer
                          /\ children'[p].contact = children[p].contact
                          /\ children[p].state = "open" =>
                               children'[p].handlers = WantingIn(r, children[p].contact),
         UNCHANGED <<known, table, calls, incoming, loopback, owned, disposed>>
  PROVE  IInv'
<1>1. TypeOK'
  BY DEF IInv, TypeOK
<1>2. Making' = Making /\ Coming' = Coming
  BY DEF Making, Coming
<1>3. PortersSuffice'
  BY <1>2, PortersStillSuffice DEF IInv
<1>4. CallsInv' /\ CallsKept
  BY DEF IInv, CallsInv, CallsKept
<1>5. Recorded'
  <2>1. \A c \in Contacts : PorterOf(table', c) = PorterOf(table, c)
    BY DEF PorterOf
  <2> QED
    BY <2>1 DEF IInv, Recorded
<1>6. OneStreamWithItsHandlers'
  <2>1. ASSUME NEW p \in Alive', children'[p].state = "open"
        PROVE  \E c : /\ c = children'[p].contact /\ table'[c] # None /\ table'[c].porter = p
                      /\ children'[p].handlers = WantingIn(r, c)
    <3>1. PICK c : c = children[p].contact
      OBVIOUS
    <3>2. p \in Alive /\ children[p].state = "open" /\ children'[p].contact = c
      BY <2>1, <3>1
    <3>3. table[c] # None /\ table[c].porter = p
      BY <3>1, <3>2 DEF IInv, OneStreamWithItsHandlers
    <3>4. children'[p].handlers = WantingIn(r, c)
      BY <3>1, <3>2
    <3> QED
      BY <3>2, <3>3, <3>4
  <2> QED
    BY <2>1 DEF OneStreamWithItsHandlers, Wanting, WantingIn
<1>7. Closers'
  BY DEF IInv, Closers
<1>8. RemainingIsExact'
  <2>1. \A k : ClosedFor(k)' = ClosedFor(k)
    BY DEF ClosedFor
  <2>2. None \notin DOMAIN calls'
    BY CallIndices DEF IInv
  <2> QED
    BY <1>4, <2>1, <2>2, RemainingKept DEF IInv
<1>9. HoldsAreExact'
  <2>1. \A d \in Contacts : Holders(d)' = Holders(d)
    BY DEF Holders, HoldingCalls
  <2> QED
    BY <2>1, HoldsOfNone DEF IInv
<1>10. DisposedIsQuiet'
  BY DEF IInv, DisposedIsQuiet
<1> QED
  BY <1>1, <1>3, <1>4, <1>5, <1>6, <1>7, <1>8, <1>9, <1>10 DEF IInv

\* What a porter with other handlers has in common with what it was
LEMMA OtherHandlers ==
  ASSUME NEW x \in Children, NEW hs \in SUBSET Handlers
  PROVE  LET y == [x EXCEPT !.handlers = hs]
         IN /\ y \in Children /\ y # None /\ y.handlers = hs
            /\ y.state = x.state /\ y.closer = x.closer /\ y.contact = x.contact
<1> DEFINE y == [x EXCEPT !.handlers = hs]
<1>1. y \in Children /\ y.handlers = hs /\ y.state = x.state /\ y.closer = x.closer
      /\ y.contact = x.contact
  BY DEF Children
<1> HIDE DEF y
<1>2. y # None
  BY <1>1, NoneAssumption
<1> QED
  BY <1>1, <1>2 DEF y

LEMMA RegisterStep ==
  ASSUME IInv, NEW h \in Handlers, NEW from \in Contacts \cup {Anyone}, RegisterHandler(h, from)
  PROVE  IInv'
<1> DEFINE r == [registered EXCEPT ![h] = from]
           ps == {table[c].porter : c \in {c \in Contacts : HasPorter(c) /\ from \in {c, Anyone}}}
<1>1. /\ registered[h] = None /\ registered' = r
      /\ children' = [p \in Porters |-> IF p \in ps THEN [children[p] EXCEPT !.handlers = @ \cup {h}]
                                        ELSE children[p]]
      /\ acts' \in 0 .. MaxActs
      /\ UNCHANGED <<known, table, calls, incoming, loopback, owned, disposed>>
  BY Acts DEF RegisterHandler, RegisterPorterHandler, IInv
<1>2. /\ children \in [Porters -> Children \cup {None}] /\ Alive \subseteq Porters
      /\ registered \in [Handlers -> Contacts \cup {Anyone, None}]
  BY DEF IInv, TypeOK, Alive
<1>3. r \in [Handlers -> Contacts \cup {Anyone, None}]
  BY <1>2
<1>4. \A c \in Contacts :
        WantingIn(r, c) = IF from \in {c, Anyone} THEN WantingIn(registered, c) \cup {h}
                          ELSE WantingIn(registered, c)
  <2>1. \A g \in Handlers : r[g] = IF g = h THEN from ELSE registered[g]
    BY <1>2
  <2>2. \A c \in Contacts : h \notin WantingIn(registered, c)
    BY <1>1, MetaPorterAssumption DEF WantingIn
  <2> QED
    BY <1>1, <2>1, <2>2 DEF WantingIn
<1> HIDE DEF r
<1>5. ASSUME NEW p \in ps
      PROVE  p \in Alive
    BY DEF HasPorter, IInv, Recorded, PorterOf
<1>6. ASSUME NEW p \in Alive, children[p].state = "open"
      PROVE  p \in ps <=> from \in {children[p].contact, Anyone}
  <2>1. PICK d \in Contacts : d = children[p].contact
    BY <1>2 DEF Alive, Children
  <2>2. table[d] # None /\ table[d].porter = p /\ p # None
    BY <1>2, <1>6, <2>1, Constants DEF IInv, OneStreamWithItsHandlers
  <2>3. ASSUME NEW c \in Contacts, HasPorter(c), table[c].porter = p
        PROVE  c = d
    BY <2>1, <2>3 DEF HasPorter, IInv, Recorded, PorterOf
  <2>4. HasPorter(d)
    BY <2>2 DEF HasPorter
  <2> QED
    BY <2>1, <2>2, <2>3, <2>4
<1> HIDE DEF ps
<1>7. ASSUME NEW p \in Alive
      PROVE  /\ children'[p] \in Children /\ children'[p] # None
             /\ children'[p].state = children[p].state /\ children'[p].closer = children[p].closer
             /\ children'[p].contact = children[p].contact
             /\ children'[p].handlers = IF p \in ps THEN children[p].handlers \cup {h}
                                        ELSE children[p].handlers
  <2>1. children[p] \in Children /\ children[p] # None /\ p \in Porters
    BY <1>2 DEF Alive
  <2>2. CASE p \in ps
    <3>1. children[p].handlers \cup {h} \in SUBSET Handlers
      BY <2>1 DEF Children
    <3>2. PICK x \in Children, hs \in SUBSET Handlers :
            x = children[p] /\ hs = children[p].handlers \cup {h}
      BY <2>1, <3>1
    <3>3. children'[p] = [x EXCEPT !.handlers = hs]
      BY <1>1, <2>1, <2>2, <3>2
    <3> QED
      BY <2>2, <3>2, <3>3, OtherHandlers
  <2>3. CASE p \notin ps
    BY <1>1, <2>1, <2>3
  <2> QED
    BY <2>2, <2>3
<1>8. \A p \in Porters \ Alive : children'[p] = None
  BY <1>1, <1>5 DEF Alive
<1>9. children' \in [Porters -> Children \cup {None}]
  <2>1. \A p \in Porters : children'[p] \in Children \cup {None}
    BY <1>7, <1>8
  <2>2. children' = [p \in Porters |-> children'[p]]
    BY <1>1
  <2> QED
    BY <2>1, <2>2
<1>10. Alive' = Alive
  BY <1>2, <1>7, <1>8 DEF Alive
<1>11. ASSUME NEW p \in Alive, children[p].state = "open"
       PROVE  children'[p].handlers = WantingIn(r, children[p].contact)
  <2>1. children[p].handlers = WantingIn(registered, children[p].contact)
    BY <1>11 DEF IInv, OneStreamWithItsHandlers, Wanting, WantingIn
  <2>2. children[p].contact \in Contacts
    BY <1>2 DEF Alive, Children
  <2> QED
    BY <1>4, <1>6, <1>7, <1>11, <2>1, <2>2
<1> QED
  BY <1>1, <1>3, <1>7, <1>9, <1>10, <1>11, HandlersChange

LEMMA UnregisterStep ==
  ASSUME IInv, NEW h \in Handlers, UnregisterHandler(h)
  PROVE  IInv'
<1> DEFINE r == [registered EXCEPT ![h] = None]
<1>1. /\ registered' = r
      /\ children' = [p \in Porters |->
           IF p \in Alive THEN [children[p] EXCEPT !.handlers = @ \ {h}] ELSE None]
      /\ acts' \in 0 .. MaxActs
      /\ UNCHANGED <<known, table, calls, incoming, loopback, owned, disposed>>
  BY Acts DEF UnregisterHandler, IInv
<1>2. /\ children \in [Porters -> Children \cup {None}] /\ Alive \subseteq Porters
      /\ registered \in [Handlers -> Contacts \cup {Anyone, None}]
  BY DEF IInv, TypeOK, Alive
<1>3. r \in [Handlers -> Contacts \cup {Anyone, None}]
  BY <1>2
<1>4. \A c \in Contacts : WantingIn(r, c) = WantingIn(registered, c) \ {h}
  <2>1. \A g \in Handlers : r[g] = IF g = h THEN None ELSE registered[g]
    BY <1>2
  <2>2. None \notin Contacts /\ Anyone # None
    BY MetaPorterAssumption
  <2> QED
    BY <2>1, <2>2 DEF WantingIn
<1> HIDE DEF r
<1>5. ASSUME NEW p \in Alive
      PROVE  /\ children'[p] \in Children /\ children'[p] # None
             /\ children'[p].state = children[p].state /\ children'[p].closer = children[p].closer
             /\ children'[p].contact = children[p].contact
             /\ children'[p].handlers = children[p].handlers \ {h}
  <2>1. children[p] \in Children /\ p \in Porters
    BY <1>2 DEF Alive
  <2>2. children[p].handlers \ {h} \in SUBSET Handlers
    BY <2>1 DEF Children
  <2>3. PICK x \in Children, hs \in SUBSET Handlers :
          x = children[p] /\ hs = children[p].handlers \ {h}
    BY <2>1, <2>2
  <2>4. children'[p] = [x EXCEPT !.handlers = hs]
    BY <1>1, <2>1, <2>3
  <2> QED
    BY <2>3, <2>4, OtherHandlers
<1>6. \A p \in Porters \ Alive : children'[p] = None
  BY <1>1
<1>7. children' \in [Porters -> Children \cup {None}]
  <2>1. \A p \in Porters : children'[p] \in Children \cup {None}
    BY <1>5, <1>6
  <2>2. children' = [p \in Porters |-> children'[p]]
    BY <1>1
  <2> QED
    BY <2>1, <2>2
<1>8. Alive' = Alive
  BY <1>2, <1>5, <1>6 DEF Alive
<1>9. ASSUME NEW p \in Alive, children[p].state = "open"
      PROVE  children'[p].handlers = WantingIn(r, children[p].contact)
  <2>1. children[p].handlers = WantingIn(registered, children[p].contact)
    BY <1>9 DEF IInv, OneStreamWithItsHandlers, Wanting, WantingIn
  <2>2. children[p].contact \in Contacts
    BY <1>2 DEF Alive, Children
  <2> QED
    BY <1>4, <1>5, <2>1, <2>2
<1> QED
  BY <1>1, <1>3, <1>5, <1>7, <1>8, <1>9, HandlersChange

-----------------------------------------------------------------------------
(* The theorems *)

LEMMA InitIsSound == Init => IInv
<1> SUFFICES ASSUME Init
             PROVE  IInv
  OBVIOUS
<1>0. calls = <<>> /\ acts = 0 /\ children = [p \in Porters |-> None]
      /\ loopback # "done" /\ owned = [c \in Contacts |-> 0]
  BY DEF Init
<1>1. TypeOK
  <2>1. calls \in Seq(CallStates) /\ Len(calls) <= MaxCalls
    BY <1>0, Constants
  <2>2. acts \in 0 .. MaxActs
    BY <1>0, MetaPorterAssumption
  <2>3. incoming \in [Arrivals -> {"new", "opening", "features", "done"} \X (Contacts \cup {None})]
    <3>1. <<"new", None>> \in {"new", "opening", "features", "done"} \X (Contacts \cup {None})
      OBVIOUS
    <3> QED
      BY <3>1 DEF Init
  <2>4. table \in [Contacts -> PorterData \cup {None}] /\ children \in [Porters -> Children \cup {None}]
    BY DEF Init
  <2>5. owned \in [Contacts -> Nat] /\ registered \in [Handlers -> Contacts \cup {Anyone, None}]
    BY DEF Init
  <2>6. known \subseteq Contacts /\ loopback \in {"no jid", "opening", "done", "failed"}
        /\ disposed \in BOOLEAN
    BY DEF Init
  <2> QED
    BY <2>1, <2>2, <2>3, <2>4, <2>5, <2>6 DEF TypeOK
<1>2. Alive = {} /\ DOMAIN calls = {}
  BY <1>0 DEF Alive
<1>3. PortersSuffice
  <2>1. Making = Calls
    BY <1>2 DEF Making
  <2>2. Coming = Arrivals
    <3>1. \A i \in Arrivals : incoming[i][1] = "new"
      BY DEF Init
    <3> QED
      BY <3>1 DEF Coming
  <2>3. Cardinality(Alive) = 0
    BY <1>2, FS_EmptySet
  <2>4. loopback # "done"
    BY DEF Init
  <2> QED
    BY <2>1, <2>2, <2>3, <2>4, Constants DEF PortersSuffice
<1>4. CallsInv /\ RemainingIsExact /\ Closers /\ OneStreamWithItsHandlers
  BY <1>2 DEF CallsInv, RemainingIsExact, Closers, OneStreamWithItsHandlers
<1>5. Recorded
  BY DEF Init, Recorded, PorterOf
<1>6. HoldsAreExact
  <2>1. ASSUME NEW c \in Contacts
        PROVE  Counted(table, c, Holders(c))
    <3>1. HoldingCalls(c) = {}
      BY <1>2 DEF HoldingCalls
    <3>2. Holders(c) = 0
      BY <1>0, <3>1, FS_EmptySet DEF Holders
    <3> QED
      BY <3>2 DEF Counted, Init
  <2> QED
    BY <2>1 DEF HoldsAreExact
<1>7. DisposedIsQuiet
  BY DEF Init, DisposedIsQuiet
<1> QED
  BY <1>1, <1>3, <1>4, <1>5, <1>6, <1>7 DEF IInv

LEMMA StutteringIsSound ==
  ASSUME IInv, UNCHANGED vars
  PROVE  IInv'
<1>1. UNCHANGED <<known, table, children, calls, registered, incoming, loopback, owned, disposed, acts>>
  BY DEF vars
<1>2. TypeOK'
  BY <1>1 DEF IInv, TypeOK
<1>3. Coming' = Coming /\ DisposedIsQuiet'
  BY <1>1 DEF IInv, Coming, DisposedIsQuiet
<1> QED
  BY <1>1, <1>2, <1>3, Aside

LEMMA NextIsSound == IInv /\ [Next]_vars => IInv'
<1> SUFFICES ASSUME IInv, [Next]_vars
             PROVE  IInv'
  OBVIOUS
<1>1. ASSUME NEW c \in Contacts, Hold(c) \/ Unhold(c)
      PROVE  IInv'
  BY <1>1, HoldSteps
<1>2. ASSUME NEW c \in Contacts, PorterTimeout(c)
      PROVE  IInv'
  BY <1>2, TimeoutStep
<1>3. ASSUME NEW c \in Contacts, AddContact(c) \/ ContactDisposed(c)
      PROVE  IInv'
  BY <1>3, ContactSteps
<1>4. ASSUME NEW c \in Contacts, SendAsync(c) \/ SendIqAsync(c) \/ OpenAsync(c)
      PROVE  IInv'
  <2>1. PICK kind \in {"send", "iq", "open"} : Use(kind, c)
    BY <1>4 DEF SendAsync, SendIqAsync, OpenAsync
  <2> QED
    BY <2>1, UseStep
<1>5. ASSUME NEW k \in Calls,
             CancelCall(k) \/ HostConnected(k) \/ HostFailed(k) \/ OpensExchanged(k)
               \/ ConnectorFails(k) \/ PorterAnswers(k)
      PROVE  IInv'
  BY <1>5, CallSteps
<1>6. ASSUME NEW k \in Calls, MadeConnection(k)
      PROVE  IInv'
  BY <1>6, MadeConnectionStep
<1>7. ASSUME CloseAsync \/ ForceCloseAsync
      PROVE  IInv'
  BY <1>7, CloseAllStep DEF CloseAsync, ForceCloseAsync
<1>8. ASSUME SetJid
      PROVE  IInv'
  BY <1>8, ContactSteps
<1>9. ASSUME Dispose
      PROVE  IInv'
  BY <1>9, DisposeStep
<1>10. ASSUME NEW i \in Arrivals, NEW c \in Contacts \cup {None},
              NewConnection(i, c) \/ IncomingOpened(i, c)
       PROVE  IInv'
  BY <1>10, ConnectionSteps
<1>11. ASSUME NEW i \in Arrivals, IncomingFails(i)
       PROVE  IInv'
  BY <1>11, ConnectionSteps
<1>12. ASSUME NEW i \in Arrivals, IncomingConnected(i)
       PROVE  IInv'
  BY <1>12, IncomingStep
<1>13. ASSUME NEW ok \in BOOLEAN, LoopbackOpened(ok)
       PROVE  IInv'
  <2>1. LoopbackOpened(TRUE) \/ LoopbackOpened(FALSE)
    BY <1>13
  <2> QED
    BY <2>1, LoopbackStep, ContactSteps
<1>14. ASSUME NEW p \in Porters, PorterRemoteClosed(p) \/ PorterRemoteError(p)
       PROVE  IInv'
  BY <1>14, RemoteStep
<1>15. ASSUME NEW p \in Porters, PorterGone(p)
       PROVE  IInv'
  BY <1>15, GoneStep
<1>16. ASSUME NEW h \in Handlers, NEW from \in Contacts \cup {Anyone}, RegisterHandler(h, from)
       PROVE  IInv'
  BY <1>16, RegisterStep
<1>17. ASSUME NEW h \in Handlers, UnregisterHandler(h)
       PROVE  IInv'
  BY <1>17, UnregisterStep
<1>18. ASSUME NEW p \in Porters, NEW from \in Contacts \cup {None}, PorterHandlerCb(p, from)
       PROVE  IInv'
  BY <1>18, ContactSteps
<1>19. CASE UNCHANGED vars
  BY <1>19, StutteringIsSound
<1> QED
  BY <1>1, <1>2, <1>3, <1>4, <1>5, <1>6, <1>7, <1>8, <1>9, <1>10, <1>11, <1>12, <1>13, <1>14,
     <1>15, <1>16, <1>17, <1>18, <1>19 DEF Next

\* The hold count of a contact is the number of those who hold it, its timeout runs exactly while
\* nobody does, and a close counts the porters it still waits for
\* (wocky_meta_porter_hold, wocky_meta_porter_unhold, porter_close_cb).
THEOREM HoldsAreNeverMiscounted == Spec => []HoldsAreCounted
<1>1. Spec => []IInv
  BY InitIsSound, NextIsSound, PTL DEF Spec
<1> QED
  BY <1>1, IInvMeans, PTL

\* A contact has at most one stream in use, the one in the records, with exactly the handlers
\* registered for it, whichever of two streams was there first (create_porter).
THEOREM StreamsHaveTheirHandlers == Spec => []OneStreamWithItsHandlers
<1>1. Spec => []IInv
  BY InitIsSound, NextIsSound, PTL DEF Spec
<1> QED
  BY <1>1, IInvMeans, PTL
=============================================================================
