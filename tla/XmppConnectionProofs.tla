------------------------ MODULE XmppConnectionProofs ------------------------
(***************************************************************************)
(* The connection, for any stanzas of either side, any number of pieces,   *)
(* of chunks, of resets and of calls.                                      *)
(***************************************************************************)
EXTENDS XmppConnection, SequenceTheorems, WellFoundedInduction, TLAPS

-----------------------------------------------------------------------------
(* Sequences *)

LEMMA AppendFacts ==
  ASSUME NEW S, NEW s \in Seq(S), NEW x \in S
  PROVE  /\ Append(s, x) \in Seq(S) /\ Len(Append(s, x)) = Len(s) + 1
         /\ \A k \in 1 .. Len(s) : Append(s, x)[k] = s[k]
         /\ Append(s, x)[Len(s) + 1] = x
BY AppendProperties

LEMMA TailFacts ==
  ASSUME NEW S, NEW s \in Seq(S), s # <<>>
  PROVE  /\ Tail(s) \in Seq(S) /\ Len(s) \in Nat \ {0} /\ Len(Tail(s)) = Len(s) - 1
         /\ Head(s) = s[1] /\ Head(s) \in S
         /\ \A k \in 1 .. Len(s) - 1 : Tail(s)[k] = s[k + 1]
         /\ \A k \in 1 .. Len(s) : s[k] \in S
<1>1. Len(s) \in Nat \ {0} /\ \A k \in 1 .. Len(s) : s[k] \in S  OBVIOUS
<1>2. Head(s) = s[1] /\ Tail(s) \in Seq(S) /\ Len(Tail(s)) = Len(s) - 1  BY <1>1
<1>3. \A k \in 1 .. Len(s) - 1 : Tail(s)[k] = s[k + 1]  BY <1>1
<1> QED  BY <1>1, <1>2, <1>3

LEMMA ElementFacts ==
  ASSUME NEW S, NEW s \in Seq(S)
  PROVE  /\ Len(s) \in Nat /\ \A k \in 1 .. Len(s) : s[k] \in S
         /\ s = <<>> <=> Len(s) = 0
OBVIOUS

LEMMA Least ==
  ASSUME NEW T, T \subseteq Nat, T # {}
  PROVE  \E x \in T : \A y \in T : x <= y
<1>1. PICK x \in T : \A y \in T : ~(<<y, x>> \in OpToRel(<, Nat))
  BY NatLessThanWellFounded, WFMin
<1>2. \A y \in T : ~(y < x)  BY <1>1 DEF OpToRel
<1> QED  BY <1>2

\* A set of numbers up to N that has 0 and the next of each has them all.
LEMMA UpTo ==
  ASSUME NEW N \in Nat, NEW T, 0 \in T, \A k \in 1 .. N : k - 1 \in T => k \in T
  PROVE  \A k \in 0 .. N : k \in T
<1> DEFINE U == {k \in 0 .. N : k \notin T}
<1> SUFFICES ASSUME U # {} PROVE FALSE  OBVIOUS
<1>1. U \subseteq Nat  OBVIOUS
<1>2. PICK m \in U : \A n \in U : m <= n
  <2> HIDE DEF U
  <2> QED  BY <1>1, Least
<1>3. m \in 1 .. N /\ m - 1 \in 0 .. N /\ ~(m <= m - 1)  OBVIOUS
<1>4. m - 1 \notin U
  <2> HIDE DEF U
  <2> QED  BY <1>2, <1>3
<1> QED  BY <1>3, <1>4

\* A recursive function on 0 .. N exists.
Exists(N, D, d, step) ==
  \E f \in [0 .. N -> D] : f[0] = d /\ \A k \in 1 .. N : f[k] = step[<<f[k - 1], k>>]

LEMMA Recursion ==
  ASSUME NEW N \in Nat, NEW D, NEW d \in D, NEW step \in [D \X (1 .. N) -> D]
  PROVE  Exists(N, D, d, step)
<1> DEFINE Upto(f, n) == f[0] = d /\ \A k \in 1 .. n : f[k] = step[<<f[k - 1], k>>]
           T == {n \in 0 .. N : \E f \in [0 .. n -> D] : Upto(f, n)}
<1>1. 0 \in T
  <2> DEFINE f == [k \in 0 .. 0 |-> d]
  <2>1. f \in [0 .. 0 -> D] /\ Upto(f, 0) /\ 0 \in 0 .. N  OBVIOUS
  <2> HIDE DEF f, Upto
  <2> QED  BY <2>1
<1>2. ASSUME NEW n \in 1 .. N, n - 1 \in T PROVE n \in T
  <2>1. PICK g \in [0 .. n - 1 -> D] : Upto(g, n - 1)  BY <1>2
  <2> DEFINE f == [k \in 0 .. n |-> IF k = n THEN step[<<g[n - 1], n>>] ELSE g[k]]
  <2>2. g[n - 1] \in D /\ <<g[n - 1], n>> \in D \X (1 .. N)  OBVIOUS
  <2>3. f[n] = step[<<g[n - 1], n>>] /\ \A k \in 0 .. n - 1 : f[k] = g[k]  OBVIOUS
  <2>4. f \in [0 .. n -> D]  BY <2>2
  <2> HIDE DEF f
  <2>5. f[0] = d  BY <2>1, <2>3
  <2>6. ASSUME NEW k \in 1 .. n PROVE f[k] = step[<<f[k - 1], k>>]
    <3>1. f[k - 1] = g[k - 1]  BY <2>3
    <3>2. CASE k = n  BY <2>3, <3>1, <3>2
    <3>3. CASE k # n
      <4>1. k \in 1 .. n - 1  BY <3>3
      <4> QED  BY <2>1, <2>3, <3>1, <4>1
    <3> QED  BY <3>2, <3>3
  <2>7. Upto(f, n)  BY <2>5, <2>6
  <2> HIDE DEF Upto
  <2> QED  BY <2>4, <2>7
<1>3. \A k \in 0 .. N : k \in T
  <2> HIDE DEF T
  <2> QED  BY <1>1, <1>2, UpTo
<1>4. N \in T  BY <1>3
<1> QED  BY <1>4 DEF Exists

-----------------------------------------------------------------------------
(* The elements of a sequence that are in a set *)

\* The recursion that defines Those
Keeps(f, s, S) ==
  /\ f[0] = <<>>
  /\ \A k \in 1 .. Len(s) : f[k] = IF s[k] \in S THEN Append(f[k - 1], s[k]) ELSE f[k - 1]

Kept(E, s, S) ==
  \E f \in [0 .. Len(s) -> Seq(E)] : Keeps(f, s, S) /\ Those(s, S) = f[Len(s)]

LEMMA ThoseKept ==
  ASSUME NEW E, NEW s \in Seq(E), NEW S
  PROVE  Kept(E, s, S)
<1> DEFINE N == Len(s)
           Body(f) == [k \in 0 .. N |->
             IF k = 0 THEN <<>> ELSE IF s[k] \in S THEN Append(f[k - 1], s[k]) ELSE f[k - 1]]
           kept == CHOOSE f : f = Body(f)
           step == [x \in Seq(E) \X (1 .. N) |->
                      IF s[x[2]] \in S THEN Append(x[1], s[x[2]]) ELSE x[1]]
<1>0. N \in Nat /\ <<>> \in Seq(E) /\ \A k \in 1 .. N : s[k] \in E  OBVIOUS
<1>1. step \in [Seq(E) \X (1 .. N) -> Seq(E)]
  <2>1. ASSUME NEW x \in Seq(E) \X (1 .. N)
        PROVE (IF s[x[2]] \in S THEN Append(x[1], s[x[2]]) ELSE x[1]) \in Seq(E)
    <3>1. x[1] \in Seq(E) /\ s[x[2]] \in E  BY <1>0
    <3> QED  BY <3>1
  <2> QED  BY <2>1
<1>2. PICK f \in [0 .. N -> Seq(E)] : f[0] = <<>> /\ \A k \in 1 .. N : f[k] = step[<<f[k - 1], k>>]
  <2> DEFINE D == Seq(E)
             d == <<>>
  <2>1. N \in Nat /\ d \in D /\ step \in [D \X (1 .. N) -> D]  BY <1>0, <1>1
  <2> HIDE DEF step, N, D, d
  <2>2. Exists(N, D, d, step)  BY <2>1, Recursion
  <2> QED  BY <2>2 DEF Exists, D, d
<1>3. ASSUME NEW k \in 1 .. N
      PROVE f[k] = IF s[k] \in S THEN Append(f[k - 1], s[k]) ELSE f[k - 1]
  <2>1. f[k - 1] \in Seq(E)  BY <1>0
  <2>2. <<f[k - 1], k>> \in Seq(E) \X (1 .. N)  BY <2>1
  <2> QED  BY <1>2, <2>2
<1>4. f = Body(f)
  <2>1. ASSUME NEW k \in 0 .. N
        PROVE f[k] = IF k = 0 THEN <<>> ELSE IF s[k] \in S THEN Append(f[k - 1], s[k]) ELSE f[k - 1]
    <3>1. CASE k = 0  BY <1>2, <3>1
    <3>2. CASE k # 0
      <4>1. k \in 1 .. N  BY <3>2
      <4> QED  BY <1>3, <4>1, <3>2
    <3> QED  BY <3>1, <3>2
  <2> QED  BY <2>1
<1>5. kept = Body(kept)
  <2>1. \E g : g = Body(g)  BY <1>4
  <2> QED  BY <2>1
<1>6. Those(s, S) = kept[N]  BY DEF Those
<1> HIDE DEF kept
<1>7. kept[0] = <<>> /\ \A k \in 1 .. N :
        kept[k] = IF s[k] \in S THEN Append(kept[k - 1], s[k]) ELSE kept[k - 1]
  <2>1. \A k \in 0 .. N : kept[k] =
          IF k = 0 THEN <<>> ELSE IF s[k] \in S THEN Append(kept[k - 1], s[k]) ELSE kept[k - 1]
    BY <1>5
  <2> QED  BY <1>0, <2>1
<1>8. Keeps(kept, s, S)  BY <1>7 DEF Keeps
<1>9. kept \in [0 .. N -> Seq(E)]
  <2>1. kept = [k \in 0 .. N |-> kept[k]]  BY <1>5
  <2> DEFINE T == {k \in 0 .. N : kept[k] \in Seq(E)}
  <2>2. 0 \in T
    <3>1. kept[0] \in Seq(E) /\ 0 \in 0 .. N  BY <1>0, <1>7
    <3> QED  BY <3>1
  <2>3. ASSUME NEW k \in 1 .. N, k - 1 \in T PROVE k \in T
    <3>1. kept[k - 1] \in Seq(E) /\ s[k] \in E /\ k \in 0 .. N  BY <1>0, <2>3
    <3>2. kept[k] = IF s[k] \in S THEN Append(kept[k - 1], s[k]) ELSE kept[k - 1]  BY <1>7
    <3> HIDE DEF N
    <3>3. kept[k] \in Seq(E)  BY <3>1, <3>2
    <3> QED  BY <3>1, <3>3
  <2>4. \A k \in 0 .. N : k \in T
    <3> HIDE DEF T, N
    <3> QED  BY <1>0, <2>2, <2>3, UpTo
  <2>5. \A k \in 0 .. N : kept[k] \in Seq(E)  BY <2>4
  <2> QED  BY <2>1, <2>5
<1> QED  BY <1>6, <1>8, <1>9 DEF Kept

LEMMA ThoseIs ==
  ASSUME NEW E, NEW s \in Seq(E), NEW S, NEW f, Keeps(f, s, S)
  PROVE  Those(s, S) = f[Len(s)]
<1>1. PICK g \in [0 .. Len(s) -> Seq(E)] : Keeps(g, s, S) /\ Those(s, S) = g[Len(s)]
  BY ThoseKept DEF Kept
<1> DEFINE T == {k \in 0 .. Len(s) : f[k] = g[k]}
<1>0. Len(s) \in Nat  OBVIOUS
<1>2. 0 \in T  BY <1>0, <1>1 DEF Keeps
<1>3. ASSUME NEW k \in 1 .. Len(s), k - 1 \in T PROVE k \in T  BY <1>1, <1>3 DEF Keeps
<1>4. \A k \in 0 .. Len(s) : k \in T
  <2> HIDE DEF T
  <2> QED  BY <1>0, <1>2, <1>3, UpTo
<1> QED  BY <1>0, <1>1, <1>4

LEMMA ThoseType ==
  ASSUME NEW E, NEW s \in Seq(E), NEW S
  PROVE  Those(s, S) \in Seq(E) /\ Those(s, S) \in Seq(S)
<1>1. PICK f \in [0 .. Len(s) -> Seq(E)] : Keeps(f, s, S) /\ Those(s, S) = f[Len(s)]
  BY ThoseKept DEF Kept
<1> DEFINE T == {k \in 0 .. Len(s) : f[k] \in Seq(S)}
<1>0. Len(s) \in Nat /\ <<>> \in Seq(S)  OBVIOUS
<1>2. 0 \in T  BY <1>0, <1>1 DEF Keeps
<1>3. ASSUME NEW k \in 1 .. Len(s), k - 1 \in T PROVE k \in T
  <2>1. f[k - 1] \in Seq(S)  BY <1>3
  <2>2. f[k] = IF s[k] \in S THEN Append(f[k - 1], s[k]) ELSE f[k - 1]  BY <1>1 DEF Keeps
  <2>3. f[k] \in Seq(S)  BY <2>1, <2>2
  <2> QED  BY <2>3
<1>4. \A k \in 0 .. Len(s) : k \in T
  <2> HIDE DEF T
  <2> QED  BY <1>0, <1>2, <1>3, UpTo
<1> QED  BY <1>0, <1>1, <1>4

LEMMA ThoseEmpty ==
  ASSUME NEW S
  PROVE  Those(<<>>, S) = <<>>
<1> DEFINE f == [k \in 0 .. 0 |-> <<>>]
<1>1. Keeps(f, <<>>, S) /\ f[Len(<<>>)] = <<>>  BY DEF Keeps
<1>2. <<>> \in Seq({})  OBVIOUS
<1> HIDE DEF f
<1> QED  BY <1>1, <1>2, ThoseIs

LEMMA ThoseAppend ==
  ASSUME NEW E, NEW s \in Seq(E), NEW S, NEW x \in E
  PROVE  Those(Append(s, x), S) = IF x \in S THEN Append(Those(s, S), x) ELSE Those(s, S)
<1> DEFINE t == Append(s, x)
<1>1. t \in Seq(E) /\ Len(t) = Len(s) + 1 /\ (\A k \in 1 .. Len(s) : t[k] = s[k])
      /\ t[Len(s) + 1] = x /\ Len(s) \in Nat
  BY AppendFacts
<1> HIDE DEF t
<1>2. PICK f \in [0 .. Len(t) -> Seq(E)] : Keeps(f, t, S) /\ Those(t, S) = f[Len(t)]
  BY <1>1, ThoseKept DEF Kept
<1>3. Keeps(f, s, S)  BY <1>1, <1>2 DEF Keeps
<1>4. Those(s, S) = f[Len(s)]  BY <1>3, ThoseIs
<1>5. Len(t) \in 1 .. Len(t) /\ Len(t) - 1 = Len(s)  BY <1>1
<1>6. f[Len(t)] = IF x \in S THEN Append(f[Len(s)], x) ELSE f[Len(s)]
  BY <1>1, <1>2, <1>5 DEF Keeps
<1> QED  BY <1>2, <1>4, <1>6 DEF t

LEMMA ThoseTail ==
  ASSUME NEW E, NEW s \in Seq(E), NEW S, s # <<>>
  PROVE  Those(s, S) = IF Head(s) \in S THEN <<Head(s)>> \o Those(Tail(s), S)
                                        ELSE Those(Tail(s), S)
<1> DEFINE t == Tail(s)
           first == IF Head(s) \in S THEN <<Head(s)>> ELSE <<>>
<1>1. t \in Seq(E) /\ Len(s) \in Nat \ {0} /\ Len(t) = Len(s) - 1 /\ Head(s) = s[1]
      /\ Head(s) \in E /\ \A k \in 1 .. Len(s) - 1 : t[k] = s[k + 1]
  BY TailFacts
<1>2. first \in Seq(E) /\ <<>> \in Seq(E)  BY <1>1
<1> HIDE DEF t
<1>3. PICK f \in [0 .. Len(s) -> Seq(E)] : Keeps(f, s, S) /\ Those(s, S) = f[Len(s)]
  BY ThoseKept DEF Kept
<1>4. PICK g \in [0 .. Len(t) -> Seq(E)] : Keeps(g, t, S) /\ Those(t, S) = g[Len(t)]
  <2> HIDE DEF first
  <2>1. Kept(E, t, S)  BY <1>1, ThoseKept
  <2> QED  BY <2>1 DEF Kept
<1> DEFINE T == {k \in 0 .. Len(t) : f[k + 1] = first \o g[k]}
<1>5. 0 \in T
  <2>a. 1 \in 1 .. Len(s) /\ 1 - 1 = 0 /\ f[0] = <<>>  BY <1>1, <1>3 DEF Keeps
  <2>b. f[1] = IF s[1] \in S THEN Append(f[1 - 1], s[1]) ELSE f[1 - 1]  BY <2>a, <1>3 DEF Keeps
  <2>1. f[1] = IF s[1] \in S THEN Append(<<>>, s[1]) ELSE <<>>  BY <2>a, <2>b
  <2>2. g[0] = <<>>  BY <1>4 DEF Keeps
  <2>3. f[1] = first  BY <1>1, <2>1
  <2>4. first \o <<>> = first  BY <1>2
  <2>5. 0 \in 0 .. Len(t) /\ 0 + 1 = 1  BY <1>1
  <2> HIDE DEF first
  <2>6. f[0 + 1] = first \o g[0]  BY <2>2, <2>3, <2>4, <2>5
  <2> QED  BY <2>5, <2>6
<1>6. ASSUME NEW k \in 1 .. Len(t), k - 1 \in T PROVE k \in T
  <2>0. k + 1 \in 1 .. Len(s) /\ (k + 1) - 1 = k /\ k - 1 \in 0 .. Len(t) /\ (k - 1) + 1 = k
        /\ k \in 1 .. Len(s) - 1
    BY <1>1
  <2>1. f[k] = first \o g[k - 1]  BY <1>6, <2>0
  <2>2. t[k] = s[k + 1]  BY <1>1, <2>0
  <2>3. f[k + 1] = IF t[k] \in S THEN Append(f[k], t[k]) ELSE f[k]  BY <1>3, <2>0, <2>2 DEF Keeps
  <2>4. g[k] = IF t[k] \in S THEN Append(g[k - 1], t[k]) ELSE g[k - 1]  BY <1>4 DEF Keeps
  <2>5. g[k - 1] \in Seq(E) /\ t[k] \in E
    <3>1. g[k - 1] \in Seq(E)  BY <2>0
    <3> QED  BY <1>1, <3>1
  <2> HIDE DEF first
  <2>6. Append(first \o g[k - 1], t[k]) = first \o Append(g[k - 1], t[k])
    <3> DEFINE a == g[k - 1]
               e == t[k]
    <3>1. a \in Seq(E) /\ e \in E  BY <2>5
    <3> HIDE DEF a, e
    <3>2. <<e>> \in Seq(E) /\ first \o a \in Seq(E)  BY <1>2, <3>1
    <3>3. Append(first \o a, e) = (first \o a) \o <<e>> /\ Append(a, e) = a \o <<e>>
      BY <3>1, <3>2, AppendIsConcat
    <3>4. (first \o a) \o <<e>> = first \o (a \o <<e>>)  BY <1>2, <3>1, <3>2, ConcatAssociative
    <3>5. Append(first \o a, e) = first \o Append(a, e)  BY <3>3, <3>4
    <3> QED  BY <3>5 DEF a, e
  <2>7. f[k + 1] = first \o g[k]  BY <2>1, <2>3, <2>4, <2>6
  <2> QED  BY <2>7
<1>7. \A k \in 0 .. Len(t) : k \in T
  <2>1. Len(t) \in Nat  BY <1>1
  <2> HIDE DEF T
  <2> QED  BY <1>5, <1>6, <2>1, UpTo
<1>8. Len(t) \in 0 .. Len(t) /\ Len(t) + 1 = Len(s)  BY <1>1
<1>9. Those(s, S) = first \o Those(t, S)
  <2> HIDE DEF first
  <2>1. f[Len(t) + 1] = first \o g[Len(t)]  BY <1>7, <1>8
  <2> QED  BY <2>1, <1>3, <1>4, <1>8
<1>10. Those(t, S) \in Seq(E)  BY <1>1, ThoseType
<1>11. <<>> \o Those(t, S) = Those(t, S)  BY <1>10
<1> QED  BY <1>9, <1>11 DEF t

-----------------------------------------------------------------------------
(* The output: what is on the wire *)

Wholes == {w \in WireItems : Whole(w)}
Items(seq) == [n \in DOMAIN seq |-> seq[n].item]
Done(w) == Whole(w) \/ w.cut

OutTypes ==
  /\ writing \in Outputs \cup {None} /\ offset \in 0 .. Size
  /\ outOpen \in BOOLEAN /\ outClosed \in BOOLEAN
  /\ wire \in Seq(WireItems)
  /\ written \in Seq(Outputs)
\* The last item is done unless it is the one in progress, which is out up to offset.
LastIsCurrent ==
  /\ writing = None => offset = 0
  /\ writing # None => offset < Length(writing)
  /\ offset = 0 /\ wire # <<>> => Done(wire[Len(wire)])
  /\ offset > 0 => wire # <<>> /\ wire[Len(wire)].item = writing
                   /\ wire[Len(wire)].units = offset /\ wire[Len(wire)].cut = FALSE
WireInv ==
  /\ OutTypes /\ LastIsCurrent
  /\ \A n \in 1 .. Len(wire) : n < Len(wire) => Done(wire[n])
  /\ written = Items(Those(wire, Wholes))

LEMMA ItemFacts ==
  /\ Size \in Nat /\ Size >= 1
  /\ \A x : Length(x) \in 1 .. Size
  /\ \A x \in Outputs : CallbackOf(x) \in {"stanza", "ping", "close", "open"}
<1>1. Size \in Nat /\ Size >= 1  BY SizeAssumption DEF SizeAssumption
<1> QED  BY <1>1 DEF Length, CallbackOf, Outputs

LEMMA ItemsAppend ==
  ASSUME NEW s \in Seq(WireItems), NEW w \in WireItems
  PROVE  Items(Append(s, w)) = Append(Items(s), w.item) /\ Items(s) \in Seq(Outputs)
<1> DEFINE t == Append(s, w)
           a == Items(s)
           b == Append(a, w.item)
<1>1. t \in Seq(WireItems) /\ Len(t) = Len(s) + 1 /\ (\A k \in 1 .. Len(s) : t[k] = s[k])
      /\ t[Len(s) + 1] = w /\ Len(s) \in Nat
  BY AppendFacts
<1>2. \A k \in 1 .. Len(s) : s[k] \in WireItems /\ s[k].item \in Outputs
  <2>1. \A k \in 1 .. Len(s) : s[k] \in WireItems  BY ElementFacts
  <2> QED  BY <2>1 DEF WireItems
<1>3. DOMAIN s = 1 .. Len(s)  BY <1>1
<1>4. a = [k \in 1 .. Len(s) |-> s[k].item]  BY <1>3 DEF Items
<1>5. a \in Seq(Outputs) /\ Len(a) = Len(s) /\ \A k \in 1 .. Len(s) : a[k] = s[k].item
  <2>1. \A k \in 1 .. Len(s) : a[k] = s[k].item /\ a[k] \in Outputs  BY <1>2, <1>4
  <2> HIDE DEF a
  <2>2. a \in Seq(Outputs)  BY <1>1, <1>2, <1>4, IsASeq
  <2>3. Len(a) = Len(s)  BY <1>1, <1>4, <2>2
  <2> QED  BY <2>1, <2>2, <2>3
<1>6. w.item \in Outputs  BY DEF WireItems
<1> HIDE DEF a, t
<1>7. b \in Seq(Outputs) /\ Len(b) = Len(s) + 1 /\ (\A k \in 1 .. Len(s) : b[k] = a[k])
      /\ b[Len(s) + 1] = w.item
  BY <1>5, <1>6, AppendFacts
<1> HIDE DEF b
<1>8. DOMAIN t = 1 .. Len(s) + 1  BY <1>1
<1>9. Items(t) = [k \in 1 .. Len(s) + 1 |-> t[k].item]  BY <1>8 DEF Items
<1>10. ASSUME NEW k \in 1 .. Len(s) + 1 PROVE b[k] = t[k].item
  <2>1. CASE k \in 1 .. Len(s)  BY <1>1, <1>5, <1>7, <2>1
  <2>2. CASE k \notin 1 .. Len(s)
    <3>1. k = Len(s) + 1  BY <1>1, <2>2
    <3> QED  BY <1>1, <1>7, <3>1
  <2> QED  BY <2>1, <2>2
<1>11. DOMAIN b = 1 .. Len(s) + 1 /\ b = [k \in DOMAIN b |-> b[k]]  BY <1>7
<1>12. Items(t) = b  BY <1>9, <1>10, <1>11
<1> QED  BY <1>5, <1>12 DEF a, b, t

\* A sequence is its front and its last element.
AllButLast(t, s) ==
  /\ s = Append(t, s[Len(s)])
  /\ Len(t) = Len(s) - 1 /\ \A k \in 1 .. Len(t) : t[k] = s[k]

LEMMA SplitLast ==
  ASSUME NEW S, NEW s \in Seq(S), s # <<>>
  PROVE  \E t \in Seq(S) :
           AllButLast(t, s) /\ \A y \in S : [s EXCEPT ![Len(s)] = y] = Append(t, y)
<1> DEFINE N == Len(s)
           t == [k \in 1 .. N - 1 |-> s[k]]
<1>1. N \in Nat /\ N >= 1 /\ N - 1 \in Nat /\ DOMAIN s = 1 .. N /\ \A k \in 1 .. N : s[k] \in S
  OBVIOUS
<1>2. t \in Seq(S) /\ Len(t) = N - 1 /\ \A k \in 1 .. N - 1 : t[k] = s[k]
  <2>1. \A k \in 1 .. N - 1 : s[k] \in S  BY <1>1
  <2>2. t \in Seq(S)  BY <1>1, <2>1, IsASeq
  <2> HIDE DEF N
  <2>3. Len(t) = N - 1  BY <1>1, <2>2
  <2> QED  BY <2>2, <2>3
<1> HIDE DEF t
<1>3. ASSUME NEW z \in S PROVE [s EXCEPT ![N] = z] = Append(t, z)
  <2> DEFINE u == [s EXCEPT ![N] = z]
             v == Append(t, z)
  <2>1. v \in Seq(S) /\ Len(v) = N - 1 + 1 /\ (\A k \in 1 .. N - 1 : v[k] = t[k])
        /\ v[N - 1 + 1] = z
    BY <1>2, <1>3, AppendFacts
  <2>2. u \in Seq(S) /\ Len(u) = N /\ \A k \in 1 .. N : u[k] = IF k = N THEN z ELSE s[k]
    BY <1>1, <1>3, ExceptSeq
  <2> HIDE DEF u, v, N
  <2>3. N - 1 + 1 = N  BY <1>1
  <2>4. ASSUME NEW k \in 1 .. N PROVE u[k] = v[k]
    <3>1. CASE k = N  BY <2>1, <2>2, <2>3, <3>1
    <3>2. CASE k # N
      <4>1. k \in 1 .. N - 1  BY <1>1, <3>2
      <4> QED  BY <1>2, <2>1, <2>2, <3>2, <4>1
    <3> QED  BY <3>1, <3>2
  <2>5. u = v
    <3>1. Len(u) = Len(v)  BY <2>1, <2>2, <2>3
    <3> QED  BY <2>1, <2>2, <2>4, <3>1, SeqEqual
  <2> QED  BY <2>5 DEF u, v
<1>4. s[N] \in S  BY <1>1
<1>5. [s EXCEPT ![N] = s[N]] = s  BY <1>1
<1>6. s = Append(t, s[N])
  <2> DEFINE z == s[N]
  <2>1. z \in S /\ [s EXCEPT ![N] = z] = s  BY <1>4, <1>5
  <2> HIDE DEF z
  <2>2. s = Append(t, z)  BY <1>3, <2>1
  <2> QED  BY <2>2 DEF z
<1>7. AllButLast(t, s)  BY <1>2, <1>6 DEF AllButLast
<1> HIDE DEF t
<1> QED  BY <1>2, <1>3, <1>7

\* More pieces go onto a wire whose items are done, and that has the same whole ones.
Longer(front, n) ==
  /\ Extend(n) = Append(front, [item |-> writing, units |-> offset + n, cut |-> FALSE])
  /\ \A k \in 1 .. Len(front) : Done(front[k])
  /\ Those(front, Wholes) = Those(wire, Wholes)

LEMMA ExtendIs ==
  ASSUME WireInv, writing # None, NEW n \in 1 .. Length(writing) - offset
  PROVE  \E front \in Seq(WireItems) : Longer(front, n)
<1> DEFINE w == [item |-> writing, units |-> offset + n, cut |-> FALSE]
<1>0. writing \in Outputs /\ offset \in Nat /\ wire \in Seq(WireItems) /\ n \in Nat
      /\ Length(writing) \in 1 .. Size
  BY ItemFacts DEF WireInv, OutTypes
<1>1. w \in WireItems
  <2>1. offset + n \in 1 .. Size  BY <1>0, ItemFacts
  <2> QED  BY <1>0, <2>1 DEF WireItems
<1>2. CASE offset = 0
  <2>a. offset + n = n  BY <1>0, <1>2
  <2>1. Extend(n) = Append(wire, w)  BY <1>2, <2>a DEF Extend
  <2>2. ASSUME NEW k \in 1 .. Len(wire) PROVE Done(wire[k])
    <3>1. wire # <<>> /\ Len(wire) \in Nat  BY <1>0
    <3>2. CASE k < Len(wire)  BY <3>2 DEF WireInv
    <3>3. CASE k = Len(wire)  BY <1>2, <3>1, <3>3 DEF WireInv, LastIsCurrent
    <3> QED  BY <3>1, <3>2, <3>3
  <2> QED  BY <1>0, <2>1, <2>2 DEF Longer
<1>3. CASE offset > 0
  <2> DEFINE last == wire[Len(wire)]
  <2>1. wire # <<>> /\ last.item = writing /\ last.units = offset /\ last.cut = FALSE
        /\ offset < Length(writing)
    BY <1>3 DEF WireInv, LastIsCurrent
  <2>2. PICK front \in Seq(WireItems) :
          AllButLast(front, wire) /\ \A y \in WireItems : [wire EXCEPT ![Len(wire)] = y] = Append(front, y)
    BY <1>0, <2>1, SplitLast
  <2>3. Len(wire) \in 1 .. Len(wire) /\ last \in WireItems
    BY <1>0, <2>1, ElementFacts
  <2>4. Extend(n) = [wire EXCEPT ![Len(wire)] = w]
    <3>1. Extend(n) = [wire EXCEPT ![Len(wire)].units = @ + n]
      <4>1. ~(offset = 0)  BY <1>0, <1>3
      <4> QED  BY <4>1, Zenon DEF Extend
    <3>2. [wire EXCEPT ![Len(wire)].units = @ + n] =
            [wire EXCEPT ![Len(wire)] = [last EXCEPT !.units = @ + n]]
      BY Zenon
    <3> HIDE DEF last
    <3>3. [last EXCEPT !.units = @ + n] = w
      <4>1. [last EXCEPT !.units = @ + n] =
              [item |-> last.item, units |-> last.units + n, cut |-> last.cut]
        BY <2>3 DEF WireItems
      <4> QED  BY <2>1, <4>1
    <3> QED  BY <3>1, <3>2, <3>3 DEF last
  <2>6. Extend(n) = Append(front, w)
    <3> HIDE DEF w
    <3> QED  BY <1>1, <2>2, <2>4
  <2>7. ASSUME NEW k \in 1 .. Len(front) PROVE Done(front[k])
    <3>1. k \in 1 .. Len(wire) /\ k < Len(wire)  BY <1>0, <2>2 DEF AllButLast
    <3>2. Done(wire[k])  BY <3>1 DEF WireInv
    <3> QED  BY <2>2, <3>2 DEF AllButLast
  <2>8. last \notin Wholes
    <3>1. offset # Length(writing)  BY <1>0, <2>1
    <3> QED  BY <2>1, <3>1 DEF Wholes, Whole
  <2>9. Those(wire, Wholes) = Those(front, Wholes)
    <3>0. wire = Append(front, last)  BY <2>2 DEF AllButLast
    <3> HIDE DEF last
    <3>1. Those(Append(front, last), Wholes) = Those(front, Wholes)  BY <2>3, <2>8, ThoseAppend
    <3> QED  BY <3>0, <3>1
  <2> QED  BY <2>6, <2>7, <2>9 DEF Longer
<1> QED  BY <1>0, <1>2, <1>3
LEMMA WireInit == Init => WireInv
<1> SUFFICES ASSUME Init PROVE WireInv  OBVIOUS
<1>0. writing = None /\ offset = 0 /\ outOpen = FALSE /\ outClosed = FALSE /\ wire = <<>>
      /\ written = <<>> /\ Len(<<>>) = 0 /\ 0 \in 0 .. Size
  BY ItemFacts DEF Init
<1>a. <<>> \in Seq(WireItems) /\ <<>> \in Seq(Outputs)  OBVIOUS
<1>b. OutTypes  BY <1>0, <1>a DEF OutTypes
<1>c. LastIsCurrent  BY <1>0 DEF LastIsCurrent
<1>1. OutTypes /\ LastIsCurrent /\ Len(wire) = 0 /\ wire = <<>> /\ written = <<>>
  BY <1>0, <1>b, <1>c
<1>2. Items(Those(wire, Wholes)) = <<>>
  <2>1. Those(wire, Wholes) = <<>>  BY <1>1, ThoseEmpty
  <2>2. DOMAIN <<>> = {}  OBVIOUS
  <2> QED  BY <2>1, <2>2 DEF Items
<1> QED  BY <1>1, <1>2 DEF WireInv

LEMMA WireKept ==
  ASSUME WireInv, UNCHANGED outVars
  PROVE  WireInv'
<1>1. OutTypes' /\ LastIsCurrent'  BY DEF WireInv, OutTypes, LastIsCurrent, outVars, Done, Whole
<1>2. wire' = wire /\ written' = written  BY DEF outVars
<1> QED  BY <1>1, <1>2 DEF WireInv, Done, Whole, Wholes

LEMMA WireSubmit ==
  ASSUME WireInv, NEW x \in Outputs, NEW why, why = "ok" => writing = None, Submit(x, why)
  PROVE  WireInv'
<1>1. wire' = wire /\ written' = written /\ outOpen' = outOpen /\ outClosed' = outClosed
  BY DEF Submit
<1>2. CASE why = "ok"
  <2>1. writing' = x /\ offset' = 0 /\ offset = 0
    BY <1>2 DEF Submit, SendAnswer, WireInv, LastIsCurrent
  <2>2. Length(x) > 0 /\ 0 \in 0 .. Size  BY ItemFacts
  <2>3. OutTypes'  BY <1>1, <2>1, <2>2 DEF WireInv, OutTypes
  <2>4. LastIsCurrent'  BY <1>1, <2>1, <2>2 DEF WireInv, LastIsCurrent, Done, Whole
  <2> QED  BY <1>1, <2>3, <2>4 DEF WireInv, Done, Whole, Wholes
<1>3. CASE why # "ok"
  <2>1. UNCHANGED outVars  BY <1>1, <1>3 DEF Submit, SendAnswer, outVars
  <2> QED  BY <2>1, WireKept
<1> QED  BY <1>2, <1>3

\* Where the wire is some done items and one more.
LEMMA WireAfter ==
  ASSUME NEW front \in Seq(WireItems), NEW w \in WireItems,
         \A k \in 1 .. Len(front) : Done(front[k]),
         written = Items(Those(front, Wholes))
  PROVE  LET s == Append(front, w) IN
         /\ s \in Seq(WireItems) /\ s # <<>> /\ s[Len(s)] = w
         /\ \A n \in 1 .. Len(s) : n < Len(s) => Done(s[n])
         /\ Items(Those(s, Wholes)) = IF Whole(w) THEN Append(written, w.item) ELSE written
<1> DEFINE s == Append(front, w)
<1>1. s \in Seq(WireItems) /\ Len(s) = Len(front) + 1 /\ (\A k \in 1 .. Len(front) : s[k] = front[k])
      /\ s[Len(front) + 1] = w /\ Len(front) \in Nat
  BY AppendFacts
<1>2. Those(s, Wholes) = IF w \in Wholes THEN Append(Those(front, Wholes), w) ELSE Those(front, Wholes)
  BY ThoseAppend
<1>3. Those(front, Wholes) \in Seq(WireItems)  BY ThoseType
<1>4. Items(Append(Those(front, Wholes), w)) = Append(written, w.item)  BY <1>3, ItemsAppend
<1>5. w \in Wholes <=> Whole(w)  BY DEF Wholes
<1> HIDE DEF s
<1>6. s # <<>> /\ s[Len(s)] = w  BY <1>1
<1>7. ASSUME NEW n \in 1 .. Len(s), n < Len(s) PROVE Done(s[n])
  <2>1. n \in 1 .. Len(front)  BY <1>1, <1>7
  <2> QED  BY <1>1, <2>1
<1>8. Items(Those(s, Wholes)) = IF Whole(w) THEN Append(written, w.item) ELSE written
  BY <1>2, <1>4, <1>5
<1> QED  BY <1>1, <1>6, <1>7, <1>8 DEF s

LEMMA WireWriteCb ==
  ASSUME WireInv, NEW n, WriteCb(n)
  PROVE  WireInv'
<1>0. writing # None /\ n \in 1 .. Length(writing) - offset /\ wire' = Extend(n)
  BY DEF WriteCb
<1>1. PICK front \in Seq(WireItems) : Longer(front, n)  BY <1>0, ExtendIs
<1> DEFINE w == [item |-> writing, units |-> offset + n, cut |-> FALSE]
<1>2. writing \in Outputs /\ offset \in Nat /\ n \in Nat \ {0} /\ Length(writing) \in 1 .. Size
      /\ offset + n <= Length(writing) /\ Size \in Nat
  BY <1>0, ItemFacts DEF WireInv, OutTypes
<1>3. w \in WireItems /\ w.item = writing /\ w.units = offset + n /\ w.cut = FALSE
  <2>1. offset + n \in 1 .. Size  BY <1>2
  <2> QED  BY <1>2, <2>1 DEF WireItems
<1>4. wire' = Append(front, w)  BY <1>0, <1>1 DEF Longer
<1>5. written \in Seq(Outputs) /\ written = Items(Those(front, Wholes))
  BY <1>1 DEF Longer, WireInv, OutTypes
<1> HIDE DEF w
<1>6. /\ wire' \in Seq(WireItems) /\ wire' # <<>> /\ wire'[Len(wire')] = w
      /\ \A k \in 1 .. Len(wire') : k < Len(wire') => Done(wire'[k])
      /\ Items(Those(wire', Wholes)) = IF Whole(w) THEN Append(written, w.item) ELSE written
  <2>1. \A k \in 1 .. Len(front) : Done(front[k])  BY <1>1 DEF Longer
  <2> QED  BY <1>3, <1>4, <1>5, <2>1, WireAfter
<1>7. Whole(w) <=> LastPiece(n)  BY <1>3 DEF Whole, LastPiece
<1>8. (\A k \in 1 .. Len(wire) : k < Len(wire) => Done(wire[k]))'  BY <1>6 DEF Done, Whole
<1>9. CASE LastPiece(n)
  <2>1. writing' = None /\ offset' = 0 /\ written' = Append(written, writing)
        /\ outOpen' \in BOOLEAN /\ outClosed' \in BOOLEAN
    BY <1>9 DEF WriteCb, SendOpenFinish, SendCloseFinish, WireInv, OutTypes
  <2>2. written' \in Seq(Outputs)  BY <1>2, <1>5, <2>1
  <2>3. OutTypes'  BY <1>2, <1>6, <2>1, <2>2 DEF OutTypes
  <2>4. Done(w)  BY <1>7, <1>9 DEF Done
  <2>5. LastIsCurrent'  BY <1>6, <2>1, <2>4 DEF LastIsCurrent, Done, Whole
  <2>6. (written = Items(Those(wire, Wholes)))'
    BY <1>3, <1>6, <1>7, <1>9, <2>1 DEF Wholes, Whole
  <2> QED  BY <1>8, <2>3, <2>5, <2>6 DEF WireInv
<1>10. CASE ~LastPiece(n)
  <2>1. writing' = writing /\ offset' = offset + n /\ written' = written
        /\ outOpen' = outOpen /\ outClosed' = outClosed
    BY <1>10 DEF WriteCb
  <2>2. offset + n < Length(writing) /\ offset + n \in 1 .. Size
    BY <1>2, <1>10 DEF LastPiece
  <2>3. OutTypes'  BY <1>6, <2>1, <2>2 DEF WireInv, OutTypes
  <2>5. LastIsCurrent'  BY <1>0, <1>3, <1>6, <2>1, <2>2 DEF LastIsCurrent
  <2>6. (written = Items(Those(wire, Wholes)))'
    BY <1>6, <1>7, <1>10, <2>1 DEF Wholes, Whole
  <2> QED  BY <1>8, <2>3, <2>5, <2>6 DEF WireInv
<1> QED  BY <1>9, <1>10

LEMMA WireWriteFailed ==
  ASSUME WireInv, WriteFailed
  PROVE  WireInv'
<1>1. writing' = None /\ offset' = 0 /\ written' = written /\ outOpen' = outOpen
      /\ outClosed' = outClosed /\ 0 \in 0 .. Size
  BY ItemFacts DEF WriteFailed
<1>2. wire \in Seq(WireItems) /\ offset \in Nat /\ writing \in Outputs
  BY DEF WireInv, OutTypes, WriteFailed
<1>3. CASE offset = 0
  <2>1. wire' = wire  BY <1>3 DEF WriteFailed
  <2>2. OutTypes'  BY <1>1, <2>1 DEF WireInv, OutTypes
  <2>3. LastIsCurrent'  BY <1>1, <1>3, <2>1 DEF WireInv, LastIsCurrent, Done, Whole
  <2> QED  BY <1>1, <2>1, <2>2, <2>3 DEF WireInv, Done, Whole, Wholes
<1>4. CASE offset > 0
  <2> DEFINE last == wire[Len(wire)]
             w == [item |-> last.item, units |-> last.units, cut |-> TRUE]
  <2>1. wire # <<>> /\ last.item = writing /\ last.units = offset /\ last.cut = FALSE
        /\ offset < Length(writing)
    BY <1>4 DEF WireInv, LastIsCurrent, WriteFailed
  <2>2. PICK front \in Seq(WireItems) :
          AllButLast(front, wire) /\ \A y \in WireItems : [wire EXCEPT ![Len(wire)] = y] = Append(front, y)
    BY <1>2, <2>1, SplitLast
  <2>3. last \in WireItems  BY <1>2, <2>1, ElementFacts
  <2>4. wire' = [wire EXCEPT ![Len(wire)] = w]
    <3>1. wire' = [wire EXCEPT ![Len(wire)].cut = TRUE]
      <4>1. ~(offset = 0)  BY <1>2, <1>4
      <4> QED  BY <4>1, Zenon DEF WriteFailed
    <3>2. [wire EXCEPT ![Len(wire)].cut = TRUE] = [wire EXCEPT ![Len(wire)] = [last EXCEPT !.cut = TRUE]]
      BY Zenon
    <3> HIDE DEF last
    <3>3. [last EXCEPT !.cut = TRUE] = w
      <4> DEFINE b == TRUE
      <4> HIDE DEF b
      <4>1. [last EXCEPT !.cut = b] = [item |-> last.item, units |-> last.units, cut |-> b]
        BY <2>3 DEF WireItems
      <4> QED  BY <4>1 DEF b
    <3> QED  BY <3>1, <3>2, <3>3 DEF last
  <2>5. w \in WireItems /\ w.item = writing /\ w.units = offset /\ w.cut = TRUE
    <3>1. w = [item |-> writing, units |-> offset, cut |-> TRUE]  BY <2>1
    <3>2. offset \in 1 .. Size  BY <1>4 DEF WireInv, OutTypes
    <3> HIDE DEF w
    <3> QED  BY <1>2, <3>1, <3>2 DEF WireItems
  <2>6. ~Whole(w) /\ ~Whole(last) /\ Done(w)
    <3>1. offset # Length(writing)  BY <1>2, <2>1, ItemFacts
    <3> HIDE DEF last, w
    <3> QED  BY <2>1, <2>5, <3>1 DEF Whole, Done
  <2>7. written = Items(Those(front, Wholes))
    <3>1. wire = Append(front, last)  BY <2>2 DEF AllButLast
    <3>2. last \notin Wholes  BY <2>6 DEF Wholes
    <3> HIDE DEF last
    <3>3. Those(Append(front, last), Wholes) = Those(front, Wholes)  BY <2>3, <3>2, ThoseAppend
    <3> QED  BY <3>1, <3>3 DEF WireInv
  <2>8. ASSUME NEW k \in 1 .. Len(front) PROVE Done(front[k])
    <3>1. k \in 1 .. Len(wire) /\ k < Len(wire)  BY <1>2, <2>2 DEF AllButLast
    <3>2. Done(wire[k])  BY <3>1 DEF WireInv
    <3> QED  BY <2>2, <3>2 DEF AllButLast
  <2> HIDE DEF last, w
  <2>9. wire' = Append(front, w)  BY <2>2, <2>4, <2>5
  <2>10. /\ wire' \in Seq(WireItems) /\ wire' # <<>> /\ wire'[Len(wire')] = w
         /\ \A k \in 1 .. Len(wire') : k < Len(wire') => Done(wire'[k])
         /\ Items(Those(wire', Wholes)) = written
    BY <2>5, <2>6, <2>7, <2>8, <2>9, WireAfter
  <2>11. OutTypes'  BY <1>1, <2>10 DEF WireInv, OutTypes
  <2>12. LastIsCurrent'  BY <1>1, <2>6, <2>10 DEF LastIsCurrent, Done, Whole
  <2> QED  BY <1>1, <2>10, <2>11, <2>12 DEF WireInv, Done, Whole, Wholes
<1> QED  BY <1>2, <1>3, <1>4

LEMMA WireAfresh ==
  ASSUME WireInv, writing = None, writing' = None, offset' = offset, wire' = <<>>, written' = <<>>,
         outOpen' \in BOOLEAN, outClosed' \in BOOLEAN
  PROVE  WireInv'
<1>1. offset' = 0 /\ 0 \in 0 .. Size /\ Len(<<>>) = 0  BY ItemFacts DEF WireInv, LastIsCurrent
<1>2. OutTypes' /\ LastIsCurrent'  BY <1>1 DEF OutTypes, LastIsCurrent
<1>3. Items(Those(wire', Wholes)) = <<>>
  <2>1. Those(wire', Wholes) = <<>>  BY ThoseEmpty
  <2>2. DOMAIN <<>> = {}  OBVIOUS
  <2> QED  BY <2>1, <2>2 DEF Items
<1> QED  BY <1>1, <1>2, <1>3 DEF WireInv, Wholes, Whole

LEMMA WireStep == WireInv /\ [Next]_vars => WireInv'
<1> SUFFICES ASSUME WireInv, [Next]_vars PROVE WireInv'  OBVIOUS
<1>1. CASE UNCHANGED vars
  <2>1. UNCHANGED outVars  BY <1>1 DEF vars
  <2> QED  BY <2>1, WireKept
<1>2. CASE SendOpenAsync  BY <1>2, WireSubmit DEF SendOpenAsync, Outputs
<1>3. ASSUME NEW stanza \in Stanzas, SendStanzaAsync(stanza) PROVE WireInv'
  BY <1>3, WireSubmit DEF SendStanzaAsync, Outputs
<1>4. CASE SendWhitespacePingAsync  BY <1>4, WireSubmit DEF SendWhitespacePingAsync, Outputs
<1>5. CASE SendCloseAsync  BY <1>5, WireSubmit DEF SendCloseAsync, Outputs
<1>6. ASSUME NEW opening \in BOOLEAN, RecvAsync(opening) PROVE WireInv'
  BY <1>6, WireKept DEF RecvAsync
<1>7. CASE ResetConnection  BY <1>7, WireAfresh DEF ResetConnection
<1>8. CASE HandOver
  <2>1. outOpen' = outOpen /\ outClosed' = outClosed  BY <1>8 DEF HandOver
  <2>2. outOpen' \in BOOLEAN /\ outClosed' \in BOOLEAN  BY <2>1 DEF WireInv, OutTypes
  <2> QED  BY <1>8, <2>2, WireAfresh DEF HandOver
<1>9. CASE ForceCloseAsync  BY <1>9, WireKept DEF ForceCloseAsync
<1>10. ASSUME NEW n, WriteCb(n) PROVE WireInv'  BY <1>10, WireWriteCb
<1>11. CASE WriteFailed  BY <1>11, WireWriteFailed
<1>12. ASSUME NEW n, ReceivedData(n) PROVE WireInv'
  <2>1. UNCHANGED outVars  BY <1>12 DEF ReceivedData
  <2> QED  BY <2>1, WireKept
<1>13. ASSUME NEW a, ReadEnded(a) PROVE WireInv'  BY <1>13, WireKept DEF ReadEnded
<1>14. ASSUME NEW ok, StreamCloseCb(ok) PROVE WireInv'  BY <1>14, WireKept DEF StreamCloseCb
<1>15. CASE IdleCompletion  BY <1>15, WireKept DEF IdleCompletion
<1>16. ASSUME NEW t, PeerSends(t) PROVE WireInv'  BY <1>16, WireKept DEF PeerSends
<1>17. CASE PeerShuts  BY <1>17, WireKept DEF PeerShuts
<1> QED
  BY <1>1, <1>2, <1>3, <1>4, <1>5, <1>6, <1>7, <1>8, <1>9, <1>10, <1>11, <1>12, <1>13, <1>14,
     <1>15, <1>16, <1>17 DEF Next, Connect, Use, Stream

LEMMA WireInvImplies == WireInv => WrittenIsOnWire
<1> SUFFICES ASSUME WireInv PROVE WrittenIsOnWire  OBVIOUS
<1>1. wire \in Seq(WireItems)  BY DEF WireInv, OutTypes
<1>2. DOMAIN wire = 1 .. Len(wire)  BY <1>1
<1> QED  BY <1>2 DEF WireInv, WrittenIsOnWire, Items, Wholes, Done

\* An output operation is answered without an error exactly when all of it is on the wire
\* (write_cb, and the finish functions of wocky-xmpp-connection.c), in the order of the wire,
\* and no item starts on the wire before the last one is out or its operation has failed.
THEOREM WritesAreAnswered == Spec => []WrittenIsOnWire
BY WireInit, WireStep, WireInvImplies, PTL DEF Spec
-----------------------------------------------------------------------------
(* The input: what has been read, what waits in the reader, what was received *)

Got == Len(sent) - Len(net)
\* Entry i of the queue is the stanza after those received that i says.
Holds(q, i, d, s) == q[i] # None /\ q[i].stanza = s[d + 1 + i]
\* The first marker of a queue is at m, behind what came before the thing that ended the stream.
Marked(r, c, d, m, s) ==
  /\ m \in 1 .. Len(r.queue)
  /\ \A i \in 1 .. m - 1 : Holds(r.queue, i, d, s)
  /\ \A i \in m .. Len(r.queue) : r.queue[i] = None
  /\ \/ /\ s[1] = "open" /\ d + 1 + m <= c /\ s[d + 1 + m] \notin Incoming
        /\ \A k \in 2 .. d + m : s[k] \in Incoming
        /\ r.parser = "ended" => s[d + 1 + m] = "close"
     \/ s[1] # "open" /\ m = 1 /\ d = 0 /\ c >= 1 /\ r.parser = "dead"
InStream(r, c, d, s) ==
  /\ c >= 1 /\ s[1] = "open" /\ \A k \in 2 .. c : s[k] \in Incoming
  /\ d + Len(r.queue) = c - 1 /\ \A i \in 1 .. Len(r.queue) : Holds(r.queue, i, d, s)
CountsInv(q, count) ==
  \A n \in 1 .. Len(q) : q[n] # None =>
    q[n].count + Len(Those(SubSeq(q, n + 1, Len(q)), CountingEntries)) = count
\* The reader after c tokens, of whose stanzas d have been received
Core(r, c, d, s) ==
  /\ r \in Readers /\ c \in 0 .. Len(s) /\ d \in Nat
  /\ r.error = (r.parser = "dead")
  /\ r.parser = "prolog" => c = 0 /\ d = 0 /\ r.queue = <<>> /\ r.state = "initial"
  /\ r.parser = "stream" => InStream(r, c, d, s) /\ r.state = "opened"
  /\ r.parser \in {"ended", "dead"} => \E m \in Nat : Marked(r, c, d, m, s)
  /\ CountsInv(r.queue, r.count)
Settled(r) ==
  /\ Over(r) <=> r.queue # <<>> /\ r.queue[1] = None
  /\ r.state = "closed" => r.parser = "ended"

InTypes ==
  /\ reading \in {"no", "open", "stanza"} /\ inOpen \in BOOLEAN
  /\ received \in Seq(Incoming) /\ answer \in Answers
  /\ net \in Seq(Tokens) /\ netEnd \in BOOLEAN /\ sent \in Seq(Tokens)
  /\ tearing \in BOOLEAN /\ torn \in BOOLEAN
  /\ idle \in Seq(IdleCalls)
  /\ resets \in 0 .. MaxResets
  /\ owner \in {"connector", "porter"}
NetInv ==
  /\ Len(net) <= Len(sent) /\ \A k \in 1 .. Len(net) : net[k] = sent[Got + k]
  /\ \A k \in 1 .. Len(received) : received[k] = sent[k + 1]
\* One receive at a time: it is pending, or its answer waits in the idle queue.
Receives == {"recv", "ready"}
CallsInv ==
  /\ ~inOpen => reader.parser = "prolog"
  /\ reading = "open" => ~inOpen
  /\ reading = "stanza" => inOpen
  /\ reading # "no" => reader.queue = <<>> /\ \A n \in 1 .. Len(idle) : idle[n].cb \notin Receives
  /\ \A i, j \in 1 .. Len(idle) : idle[i].cb \in Receives /\ idle[j].cb \in Receives => i = j
  /\ \A n \in 1 .. Len(idle) :
       /\ idle[n].cb = "ready" => Peek(reader) # None
       /\ idle[n].cb = "recv" => idle[n].why \in {"is_closed", "is_open", "not_open"}
       /\ idle[n].cb = "recv" /\ idle[n].why = "is_closed" => Over(reader)
AnswersInv ==
  /\ answer \in {"closed", "error", "is_closed"} => Over(reader)
  /\ answer = "closed" => reader.state = "closed"
  /\ answer = "eos" => netEnd /\ received = Expected
  /\ answer # "empty"
InInv ==
  /\ InTypes /\ NetInv /\ Core(reader, Got, Len(received), sent) /\ Settled(reader)
  /\ CallsInv /\ AnswersInv
-----------------------------------------------------------------------------
(* What is done to the reader *)

LEMMA ReaderFacts ==
  ASSUME NEW r \in Readers
  PROVE  /\ r.state \in {"initial", "opened", "closed", "error"}
         /\ r.queue \in Seq(Entries \cup {None}) /\ r.error \in BOOLEAN
         /\ r.parser \in {"prolog", "stream", "ended", "dead"} /\ r.count \in Nat
BY DEF Readers

LEMMA NewReaderFacts ==
  ASSUME NEW r \in Readers
  PROVE  /\ NewReader \in Readers /\ NewReader.state = "initial" /\ NewReader.queue = <<>>
         /\ NewReader.error = FALSE /\ NewReader.parser = "prolog"
         /\ Reset(r) = [NewReader EXCEPT !.count = r.count] /\ Reset(r) \in Readers
         /\ Reset(r).state = "initial" /\ Reset(r).queue = <<>> /\ Reset(r).error = FALSE
         /\ Reset(r).parser = "prolog"
<1>1. <<>> \in Seq(Entries \cup {None})  OBVIOUS
<1>2. NewReader \in Readers  BY <1>1 DEF NewReader, Readers
<1>3. r.count \in Nat  BY DEF Readers
<1>4. Reset(r) \in Readers  BY <1>2, <1>3 DEF Reset, Readers
<1>5. Reset(r).state = "initial" /\ Reset(r).queue = <<>> /\ Reset(r).error = FALSE
      /\ Reset(r).parser = "prolog"
  BY <1>3 DEF Reset, NewReader, Readers
<1> QED  BY <1>2, <1>4, <1>5 DEF NewReader, Reset

LEMMA AfterOpen ==
  ASSUME NEW r \in Readers
  PROVE  LET u == StreamOpen(r) IN
         /\ u \in Readers /\ u.state = "opened" /\ u.queue = r.queue /\ u.error = r.error
         /\ u.parser = "stream" /\ u.count = r.count
BY DEF StreamOpen, Readers

LEMMA AfterStanza ==
  ASSUME NEW r \in Readers, NEW s \in Incoming
  PROVE  LET u == EndStanza(r, s)
             n == IF s \in Acks THEN r.count ELSE r.count + 1
         IN
         /\ u \in Readers /\ u.state = r.state /\ u.error = r.error /\ u.parser = r.parser
         /\ u.count = n /\ u.queue = Append(r.queue, [stanza |-> s, count |-> n])
         /\ [stanza |-> s, count |-> n] \in Entries
<1> DEFINE n == IF s \in Acks THEN r.count ELSE r.count + 1
           e == [stanza |-> s, count |-> n]
           q == Append(r.queue, e)
           u == [r EXCEPT !.count = n, !.queue = q]
<1>1. n \in Nat  BY DEF Readers
<1> HIDE DEF n
<1>2. e \in Entries  BY <1>1 DEF Entries
<1>3. q \in Seq(Entries \cup {None})  BY <1>2, ReaderFacts
<1>4. EndStanza(r, s) = u  BY Zenon DEF EndStanza, n
<1> HIDE DEF e, q
<1>6. u \in Readers  BY <1>1, <1>3 DEF Readers
<1>7. u.state = r.state /\ u.error = r.error /\ u.parser = r.parser /\ u.count = n /\ u.queue = q
  BY <1>1, <1>3 DEF Readers
<1> HIDE DEF u
<1> QED  BY <1>2, <1>4, <1>6, <1>7 DEF e, q, n

LEMMA AfterEnd ==
  ASSUME NEW r \in Readers
  PROVE  LET u == EndStream(r) IN
         /\ u \in Readers /\ u.state = r.state /\ u.error = r.error /\ u.parser = "ended"
         /\ u.count = r.count /\ u.queue = Append(r.queue, None)
<1> DEFINE q == Append(r.queue, None)
           u == [r EXCEPT !.parser = "ended", !.queue = q]
<1>1. q \in Seq(Entries \cup {None})  BY ReaderFacts
<1>2. EndStream(r) = u  BY Zenon DEF EndStream
<1> HIDE DEF q
<1>4. u \in Readers  BY <1>1 DEF Readers
<1>5. u.state = r.state /\ u.error = r.error /\ u.parser = "ended" /\ u.count = r.count
      /\ u.queue = q
  BY <1>1 DEF Readers
<1> HIDE DEF u
<1> QED  BY <1>2, <1>4, <1>5 DEF q

LEMMA AfterError ==
  ASSUME NEW r \in Readers
  PROVE  LET u == ParseError(r) IN
         /\ u \in Readers /\ u.state = r.state /\ u.error = TRUE /\ u.parser = "dead"
         /\ u.count = r.count /\ u.queue = Append(r.queue, None)
<1> DEFINE q == Append(r.queue, None)
           b == TRUE
           u == [r EXCEPT !.parser = "dead", !.error = b, !.queue = q]
<1>1. q \in Seq(Entries \cup {None})  BY ReaderFacts
<1>2. ParseError(r) = u  BY Zenon DEF ParseError
<1>b. b \in BOOLEAN  OBVIOUS
<1> HIDE DEF q, b
<1>4. u \in Readers  BY <1>1, <1>b DEF Readers
<1>5. u.state = r.state /\ u.error = b /\ u.parser = "dead" /\ u.count = r.count
      /\ u.queue = q
  BY <1>1, <1>b DEF Readers
<1> HIDE DEF u
<1> QED  BY <1>2, <1>4, <1>5 DEF q, b

LEMMA AfterCheck ==
  ASSUME NEW r \in Readers
  PROVE  LET u == CheckEos(r) IN
         /\ u \in Readers /\ u.error = r.error /\ u.parser = r.parser
         /\ u.count = r.count /\ u.queue = r.queue
         /\ IF r.queue # <<>> /\ r.queue[1] = None
              THEN u.state = IF r.error THEN "error" ELSE "closed"
              ELSE u = r
<1>0. r.queue # <<>> => Head(r.queue) = r.queue[1]  BY ReaderFacts, TailFacts
<1>1. CASE r.queue # <<>> /\ r.queue[1] = None
  <2> DEFINE t == IF r.error THEN "error" ELSE "closed"
             u == [r EXCEPT !.state = t]
  <2>1. CheckEos(r) = u  BY <1>0, <1>1 DEF CheckEos
  <2>2. t \in {"closed", "error"}  OBVIOUS
  <2> HIDE DEF t
  <2>3. u = [state |-> t, queue |-> r.queue, error |-> r.error, parser |-> r.parser, count |-> r.count]
    BY DEF Readers
  <2>4. u \in Readers  BY <2>2, <2>3 DEF Readers
  <2>5. u.state = t /\ u.error = r.error /\ u.parser = r.parser /\ u.count = r.count
        /\ u.queue = r.queue
    BY <2>3
  <2> HIDE DEF u
  <2> QED  BY <1>1, <2>1, <2>4, <2>5 DEF t
<1>2. CASE ~(r.queue # <<>> /\ r.queue[1] = None)  BY <1>0, <1>2 DEF CheckEos
<1> QED  BY <1>1, <1>2

LEMMA AfterTail ==
  ASSUME NEW r \in Readers, r.queue # <<>>
  PROVE  LET u == [r EXCEPT !.queue = Tail(@)] IN
         /\ u \in Readers /\ u.state = r.state /\ u.error = r.error /\ u.parser = r.parser
         /\ u.count = r.count /\ u.queue = Tail(r.queue) /\ Pop(r) = CheckEos(u)
<1> DEFINE q == Tail(r.queue)
           u == [r EXCEPT !.queue = q]
<1>1. q \in Seq(Entries \cup {None})  BY ReaderFacts, TailFacts
<1>2. [r EXCEPT !.queue = Tail(@)] = u  BY Zenon
<1> HIDE DEF q
<1>3. u = [state |-> r.state, queue |-> q, error |-> r.error, parser |-> r.parser, count |-> r.count]
  BY DEF Readers
<1>4. u \in Readers  BY <1>1, <1>3 DEF Readers
<1>5. u.state = r.state /\ u.error = r.error /\ u.parser = r.parser /\ u.count = r.count
      /\ u.queue = q
  BY <1>3
<1>6. Pop(r) = CheckEos(u)  BY <1>2 DEF Pop
<1> HIDE DEF u
<1> QED  BY <1>2, <1>4, <1>5, <1>6 DEF q

\* What is behind element n of a sequence
LEMMA Behind ==
  ASSUME NEW S, NEW s \in Seq(S), NEW n \in 1 .. Len(s)
  PROVE  LET a == SubSeq(s, n + 1, Len(s)) IN
         /\ a \in Seq(S) /\ Len(a) = Len(s) - n
         /\ \A k \in 1 .. Len(s) - n : a[k] = s[n + k]
<1> DEFINE N == Len(s)
           m == n + 1
           a == SubSeq(s, m, N)
<1>1. N \in Nat /\ n \in Nat /\ n <= N /\ m \in Int /\ N \in Int /\ \A k \in m .. N : s[k] \in S
  OBVIOUS
<1> HIDE DEF N, m
<1>2. /\ a \in Seq(S) /\ Len(a) = IF m <= N THEN N - m + 1 ELSE 0
      /\ \A k \in 1 .. N - m + 1 : a[k] = s[m + k - 1]
  BY <1>1, SubSeqProperties
<1> HIDE DEF a
<1>3. Len(a) = N - n  BY <1>1, <1>2 DEF m
<1>4. ASSUME NEW k \in 1 .. N - n PROVE a[k] = s[n + k]
  <2>1. k \in 1 .. N - m + 1 /\ m + k - 1 = n + k  BY <1>1 DEF m
  <2> QED  BY <1>2, <2>1
<1> QED  BY <1>2, <1>3, <1>4 DEF a, m, N

\* The counts of the stanzas that wait
LEMMA CountsAppend ==
  ASSUME NEW q \in Seq(Entries \cup {None}), NEW e \in Entries \cup {None}, NEW c \in Nat, NEW d,
         CountsInv(q, c), d = IF e \in CountingEntries THEN c + 1 ELSE c,
         e # None => e.count = d
  PROVE  CountsInv(Append(q, e), d)
<1> DEFINE E == Entries \cup {None}
           t == Append(q, e)
<1>1. t \in Seq(E) /\ Len(t) = Len(q) + 1 /\ (\A k \in 1 .. Len(q) : t[k] = q[k])
      /\ t[Len(q) + 1] = e /\ Len(q) \in Nat /\ q \in Seq(E) /\ e \in E
  BY AppendFacts
<1> HIDE DEF t, E
<1>2. ASSUME NEW n \in 1 .. Len(t), t[n] # None
      PROVE  t[n].count + Len(Those(SubSeq(t, n + 1, Len(t)), CountingEntries)) = d
  <2>1. CASE n = Len(q) + 1
    <3>1. SubSeq(t, n + 1, Len(t)) = <<>>  BY <1>1, <2>1, SubSeqEmpty
    <3>2. Those(<<>>, CountingEntries) = <<>> /\ Len(<<>>) = 0  BY ThoseEmpty
    <3>3. t[n].count = d /\ d \in Nat  BY <1>1, <1>2, <2>1
    <3>4. Len(Those(SubSeq(t, n + 1, Len(t)), CountingEntries)) = 0  BY <3>1, <3>2
    <3> QED  BY <3>3, <3>4
  <2>2. CASE n # Len(q) + 1
    <3> DEFINE a == SubSeq(q, n + 1, Len(q))
               b == SubSeq(t, n + 1, Len(t))
               u == Append(a, e)
    <3>0. n \in 1 .. Len(q) /\ t[n] = q[n] /\ Len(t) \in Nat  BY <1>1, <2>2
    <3>1. a \in Seq(E) /\ Len(a) = Len(q) - n /\ \A k \in 1 .. Len(q) - n : a[k] = q[n + k]
      BY <1>1, <3>0, Behind
    <3>2. b \in Seq(E) /\ Len(b) = Len(t) - n /\ \A k \in 1 .. Len(t) - n : b[k] = t[n + k]
      BY <1>1, Behind
    <3> HIDE DEF a, b
    <3>3. u \in Seq(E) /\ Len(u) = Len(a) + 1 /\ (\A k \in 1 .. Len(a) : u[k] = a[k])
          /\ u[Len(a) + 1] = e
      BY <1>1, <3>1, AppendFacts
    <3> HIDE DEF u
    <3>4. Len(u) = Len(b) /\ Len(a) \in Nat  BY <1>1, <3>0, <3>1, <3>2, <3>3
    <3>5. ASSUME NEW k \in 1 .. Len(b) PROVE b[k] = u[k]
      <4>1. b[k] = t[n + k] /\ k \in Nat  BY <1>1, <3>0, <3>2, <3>5
      <4>2. CASE k = Len(a) + 1
        <5>1. n + k = Len(q) + 1  BY <1>1, <3>0, <3>1, <4>2
        <5> QED  BY <1>1, <3>3, <4>1, <4>2, <5>1
      <4>3. CASE k # Len(a) + 1
        <5>0. k \in 1 .. Len(a) + 1  BY <3>3, <3>4
        <5>a. Len(a) \in Nat /\ Len(a) = Len(q) - n /\ Len(q) \in Nat /\ n \in 1 .. Len(q)
          BY <1>1, <3>0, <3>1, <3>4
        <5>1. k \in 1 .. Len(a) /\ k \in 1 .. Len(q) - n /\ n + k \in 1 .. Len(q)
          BY <4>3, <5>0, <5>a
        <5> QED  BY <1>1, <3>1, <3>3, <4>1, <5>1
      <4> QED  BY <4>2, <4>3
    <3>6. b = u  BY <3>2, <3>3, <3>4, <3>5, SeqEqual
    <3> DEFINE x == Those(a, CountingEntries)
               y == Those(b, CountingEntries)
    <3>7. x \in Seq(E)  BY <3>1, ThoseType
    <3>8. y = IF e \in CountingEntries THEN Append(x, e) ELSE x
      BY <1>1, <3>1, <3>6, ThoseAppend DEF u
    <3> HIDE DEF x, y
    <3>9. Len(x) \in Nat /\ Len(y) = IF e \in CountingEntries THEN Len(x) + 1 ELSE Len(x)
      BY <1>1, <3>7, <3>8
    <3>10. q[n].count + Len(x) = c  BY <1>2, <3>0 DEF CountsInv, x, a
    <3>11. q[n].count \in Nat
      <4>1. q[n] \in E  BY <1>1, <3>0
      <4>2. q[n] \in Entries  BY <1>2, <3>0, <4>1 DEF E
      <4> QED  BY <4>2 DEF Entries
    <3>12. q[n].count + Len(y) = d
      <4> DEFINE g == q[n].count
      <4> HIDE DEF g
      <4>1. g \in Nat /\ g + Len(x) = c  BY <3>10, <3>11 DEF g
      <4>2. g + Len(y) = d  BY <3>9, <4>1
      <4> QED  BY <4>2 DEF g
    <3> QED  BY <3>0, <3>12 DEF y, b
  <2> QED  BY <2>1, <2>2
<1> QED  BY <1>2 DEF CountsInv, t

LEMMA CountsTail ==
  ASSUME NEW q \in Seq(Entries \cup {None}), NEW c, CountsInv(q, c), q # <<>>
  PROVE  CountsInv(Tail(q), c)
<1> DEFINE E == Entries \cup {None}
           t == Tail(q)
<1>1. t \in Seq(E) /\ Len(q) \in Nat \ {0} /\ Len(t) = Len(q) - 1 /\ q \in Seq(E)
      /\ (\A k \in 1 .. Len(q) - 1 : t[k] = q[k + 1]) /\ \A k \in 1 .. Len(q) : q[k] \in E
  BY TailFacts
<1> HIDE DEF t, E
<1>2. ASSUME NEW n \in 1 .. Len(t), t[n] # None
      PROVE  t[n].count + Len(Those(SubSeq(t, n + 1, Len(t)), CountingEntries)) = c
  <2> DEFINE a == SubSeq(q, n + 1 + 1, Len(q))
             b == SubSeq(t, n + 1, Len(t))
  <2>0. n \in Nat /\ n + 1 \in 1 .. Len(q) /\ t[n] = q[n + 1] /\ Len(t) \in Nat
    BY <1>1
  <2>1. a \in Seq(E) /\ Len(a) = Len(q) - (n + 1)
        /\ \A k \in 1 .. Len(q) - (n + 1) : a[k] = q[n + 1 + k]
    BY <1>1, <2>0, Behind
  <2>2. b \in Seq(E) /\ Len(b) = Len(t) - n /\ \A k \in 1 .. Len(t) - n : b[k] = t[n + k]
    BY <1>1, Behind
  <2> HIDE DEF a, b
  <2>3. ASSUME NEW k \in 1 .. Len(b) PROVE b[k] = a[k]
    <3>1. k \in 1 .. Len(q) - (n + 1) /\ k \in 1 .. Len(t) - n /\ n + k \in 1 .. Len(q) - 1
          /\ n + k + 1 = n + 1 + k
      BY <1>1, <2>0, <2>2
    <3>2. b[k] = t[n + k] /\ a[k] = q[n + 1 + k]  BY <2>1, <2>2, <3>1
    <3> QED  BY <1>1, <3>1, <3>2
  <2>a. Len(b) = Len(a)  BY <1>1, <2>0, <2>1, <2>2
  <2>4. b = a  BY <2>a, <2>1, <2>2, <2>3, SeqEqual
  <2>5. q[n + 1].count + Len(Those(SubSeq(q, n + 1 + 1, Len(q)), CountingEntries)) = c
    BY <1>2, <2>0 DEF CountsInv
  <2> QED  BY <2>0, <2>4, <2>5 DEF a, b
<1> QED  BY <1>2 DEF CountsInv, t
-----------------------------------------------------------------------------
(* Parsing *)

LEMMA EntryFacts ==
  /\ None \notin Entries /\ CountingEntries \subseteq Entries
  /\ \A s \in Incoming, n \in Nat :
       [stanza |-> s, count |-> n] \in CountingEntries <=> s \notin Acks
  /\ "open" \notin Incoming /\ "close" \notin Incoming /\ "junk" \notin Incoming
<1>1. None \notin Entries /\ CountingEntries \subseteq Entries
  BY ReaderAssumption DEF ReaderAssumption, Entries, CountingEntries
<1>2. \A s \in Incoming, n \in Nat :
        [stanza |-> s, count |-> n] \in CountingEntries <=> s \notin Acks
  BY DEF CountingEntries
<1> QED  BY <1>1, <1>2, ReaderAssumption DEF ReaderAssumption

LEMMA CountsMarker ==
  ASSUME NEW r \in Readers, CountsInv(r.queue, r.count)
  PROVE  CountsInv(Append(r.queue, None), r.count)
<1> DEFINE q == r.queue
           c == r.count
<1>1. q \in Seq(Entries \cup {None}) /\ c \in Nat  BY ReaderFacts
<1>2. None \notin CountingEntries /\ None \in Entries \cup {None} /\ CountsInv(q, c)
  BY EntryFacts
<1> HIDE DEF q, c
<1>3. CountsInv(Append(q, None), c)  BY <1>1, <1>2, CountsAppend
<1> QED  BY <1>3 DEF q, c

LEMMA CountsStanza ==
  ASSUME NEW r \in Readers, CountsInv(r.queue, r.count), NEW s \in Incoming
  PROVE  CountsInv(EndStanza(r, s).queue, EndStanza(r, s).count)
<1> DEFINE q == r.queue
           c == r.count
           n == IF s \in Acks THEN r.count ELSE r.count + 1
           e == [stanza |-> s, count |-> n]
<1>1. q \in Seq(Entries \cup {None}) /\ c \in Nat /\ n \in Nat  BY ReaderFacts
<1>2. e \in Entries /\ EndStanza(r, s).queue = Append(q, e) /\ EndStanza(r, s).count = n
  BY AfterStanza
<1>3. n = (IF e \in CountingEntries THEN c + 1 ELSE c) /\ e.count = n
  <2>1. e \in CountingEntries <=> s \notin Acks
    <3> HIDE DEF n
    <3> QED  BY <1>1, EntryFacts
  <2> QED  BY <2>1
<1>4. e \in Entries \cup {None} /\ CountsInv(q, c)  BY <1>2
<1> HIDE DEF q, c, n, e
<1>5. CountsInv(Append(q, e), n)  BY <1>1, <1>3, <1>4, CountsAppend
<1> QED  BY <1>2, <1>5

\* One more token changes nothing behind a marker.
LEMMA MarkedStays ==
  ASSUME NEW r \in Readers, NEW u \in Readers, NEW c \in Nat, NEW d \in Nat, NEW m \in Nat,
         Marked(r, c, d, m, sent), u.parser \in {r.parser, "dead"},
         u.queue \in {r.queue, Append(r.queue, None)}
  PROVE  Marked(u, c + 1, d, m, sent)
<1> DEFINE E == Entries \cup {None}
<1>1. r.queue \in Seq(E) /\ None \in E /\ Len(r.queue) \in Nat  BY ReaderFacts
<1>2. Append(r.queue, None) \in Seq(E) /\ Len(Append(r.queue, None)) = Len(r.queue) + 1
      /\ (\A k \in 1 .. Len(r.queue) : Append(r.queue, None)[k] = r.queue[k])
      /\ Append(r.queue, None)[Len(r.queue) + 1] = None
  BY <1>1, AppendFacts
<1> DEFINE q == r.queue
           p == u.queue
<1>3. /\ Len(q) \in Nat /\ Len(p) \in {Len(q), Len(q) + 1}
      /\ \A k \in 1 .. Len(q) : p[k] = q[k]
      /\ \A k \in Len(q) + 1 .. Len(p) : p[k] = None
  <2>1. CASE u.queue = r.queue
    <3>1. Len(p) = Len(q) /\ p = q /\ Len(q) \in Nat  BY <1>1, <2>1
    <3> HIDE DEF p, q
    <3> QED  BY <3>1
  <2>2. CASE u.queue = Append(r.queue, None)
    <3>1. Len(p) = Len(q) + 1 /\ Len(q) \in Nat /\ (\A k \in 1 .. Len(q) : p[k] = q[k])
          /\ p[Len(q) + 1] = None
      BY <1>1, <1>2, <2>2
    <3> HIDE DEF p, q
    <3> QED  BY <3>1
  <2> QED  BY <2>1, <2>2
<1>4. m \in 1 .. Len(q) /\ (\A i \in 1 .. m - 1 : Holds(q, i, d, sent)) /\ \A i \in m .. Len(q) : q[i] = None
  BY DEF Marked
<1> HIDE DEF p, q
<1>5. m \in 1 .. Len(p)  BY <1>3, <1>4
<1>6. ASSUME NEW i \in 1 .. m - 1 PROVE Holds(p, i, d, sent)
  <2>1. i \in 1 .. Len(q)  BY <1>3, <1>4
  <2> QED  BY <1>3, <1>4, <2>1 DEF Holds
<1>7. ASSUME NEW i \in m .. Len(p) PROVE p[i] = None
  <2>1. CASE i \in 1 .. Len(q)
    <3>1. i \in m .. Len(q)  BY <1>3, <1>4, <2>1
    <3> QED  BY <1>3, <1>4, <2>1, <3>1
  <2>2. CASE i \notin 1 .. Len(q)
    <3>1. i \in Len(q) + 1 .. Len(p)  BY <1>3, <1>4, <2>2
    <3> QED  BY <1>3, <3>1
  <2> QED  BY <2>1, <2>2
<1>8. \/ /\ sent[1] = "open" /\ d + 1 + m <= c + 1 /\ sent[d + 1 + m] \notin Incoming
         /\ \A k \in 2 .. d + m : sent[k] \in Incoming
         /\ u.parser = "ended" => sent[d + 1 + m] = "close"
      \/ sent[1] # "open" /\ m = 1 /\ d = 0 /\ c + 1 >= 1 /\ u.parser = "dead"
  <2>1. CASE /\ sent[1] = "open" /\ d + 1 + m <= c /\ sent[d + 1 + m] \notin Incoming
             /\ \A k \in 2 .. d + m : sent[k] \in Incoming
             /\ r.parser = "ended" => sent[d + 1 + m] = "close"
    <3>1. d + 1 + m <= c + 1  BY <2>1
    <3>2. u.parser = "ended" => sent[d + 1 + m] = "close"  BY <2>1
    <3> QED  BY <2>1, <3>1, <3>2
  <2>2. CASE sent[1] # "open" /\ m = 1 /\ d = 0 /\ c >= 1 /\ r.parser = "dead"  BY <2>2
  <2> QED  BY <2>1, <2>2 DEF Marked
<1> QED  BY <1>5, <1>6, <1>7, <1>8 DEF Marked, p

\* The marker that ends the stream, after token c + 1
LEMMA MarkedNow ==
  ASSUME NEW r \in Readers, NEW u \in Readers, NEW c \in Nat, NEW d \in Nat,
         InStream(r, c, d, sent), u.queue = Append(r.queue, None), sent[c + 1] \notin Incoming,
         u.parser = "ended" => sent[c + 1] = "close"
  PROVE  \E m \in Nat : Marked(u, c + 1, d, m, sent)
<1> DEFINE E == Entries \cup {None}
           q == r.queue
           p == u.queue
           m == Len(q) + 1
<1>1. q \in Seq(E) /\ None \in E /\ Len(q) \in Nat  BY ReaderFacts
<1>2. p \in Seq(E) /\ Len(p) = Len(q) + 1 /\ (\A k \in 1 .. Len(q) : p[k] = q[k])
      /\ p[Len(q) + 1] = None
  <2> HIDE DEF q
  <2>1. p = Append(q, None)  BY DEF q
  <2> HIDE DEF p
  <2> QED  BY <1>1, <2>1, AppendFacts
<1>3. c >= 1 /\ sent[1] = "open" /\ (\A k \in 2 .. c : sent[k] \in Incoming)
      /\ d + Len(q) = c - 1 /\ \A i \in 1 .. Len(q) : Holds(q, i, d, sent)
  BY DEF InStream
<1> HIDE DEF q, p
<1>a. Len(q) \in Nat /\ Len(p) = Len(q) + 1 /\ d + Len(q) = c - 1  BY <1>1, <1>2, <1>3
<1>4. m \in 1 .. Len(p) /\ m \in Nat /\ d + 1 + m = c + 1 /\ d + m = c  BY <1>a
<1>5. \A i \in 1 .. m - 1 : Holds(p, i, d, sent)  BY <1>1, <1>2, <1>3 DEF Holds
<1>6. \A i \in m .. Len(p) : p[i] = None
  <2> TAKE i \in m .. Len(p)
  <2>1. i = m  BY <1>1, <1>2
  <2> QED  BY <1>2, <2>1
<1>7. /\ sent[1] = "open" /\ d + 1 + m <= c + 1 /\ sent[d + 1 + m] \notin Incoming
      /\ \A k \in 2 .. d + m : sent[k] \in Incoming
      /\ u.parser = "ended" => sent[d + 1 + m] = "close"
  BY <1>3, <1>4
<1> HIDE DEF m
<1>8. Marked(u, c + 1, d, m, sent)  BY <1>4, <1>5, <1>6, <1>7 DEF Marked, p
<1> QED  BY <1>4, <1>8

LEMMA ParseKeeps ==
  ASSUME NEW r, NEW c, NEW d, Core(r, c, d, sent), ~Over(r), c + 1 <= Len(sent), sent \in Seq(Tokens)
  PROVE  Core(Parse(r, sent[c + 1]), c + 1, d, sent) /\ ~Over(Parse(r, sent[c + 1]))
<1> DEFINE t == sent[c + 1]
           u == Parse(r, t)
<1>0. r \in Readers /\ c \in Nat /\ d \in Nat /\ c + 1 \in 0 .. Len(sent) /\ t \in Tokens
      /\ CountsInv(r.queue, r.count) /\ r.error = (r.parser = "dead")
  <2>1. c \in Nat /\ Len(sent) \in Nat  BY DEF Core
  <2>2. c + 1 \in 1 .. Len(sent)  BY <2>1
  <2>3. t \in Tokens  BY <2>2, ElementFacts
  <2> QED  BY <2>1, <2>2, <2>3 DEF Core
<1> HIDE DEF t
<1>1. CASE r.parser = "dead"
  <2>1. u = r  BY <1>1 DEF Parse
  <2>2. PICK m \in Nat : Marked(r, c, d, m, sent)  BY <1>1 DEF Core
  <2>3. Marked(r, c + 1, d, m, sent)  BY <1>0, <2>2, MarkedStays
  <2> QED  BY <1>0, <1>1, <2>1, <2>3 DEF Core, t
<1>2. CASE r.parser = "prolog" /\ t = "open"
  <2>1. u = StreamOpen(r)  BY <1>2 DEF Parse
  <2>2. c = 0 /\ d = 0 /\ r.queue = <<>>  BY <1>2 DEF Core
  <2>3. /\ u \in Readers /\ u.state = "opened" /\ u.queue = r.queue /\ u.error = r.error
        /\ u.parser = "stream" /\ u.count = r.count
    BY <1>0, <2>1, AfterOpen
  <2> HIDE DEF u
  <2>4. InStream(u, 1, 0, sent)
    <3>1. Len(u.queue) = 0 /\ sent[1] = "open" /\ (\A k \in 2 .. 1 : FALSE) /\ \A k \in 1 .. 0 : FALSE
      BY <1>2, <2>2, <2>3 DEF t
    <3> QED  BY <3>1 DEF InStream
  <2>5. u.error = (u.parser = "dead")  BY <1>0, <1>2, <2>3
  <2>6. CountsInv(u.queue, u.count)  BY <1>0, <2>3
  <2>7. Core(u, c + 1, d, sent)  BY <1>0, <2>2, <2>3, <2>4, <2>5, <2>6 DEF Core
  <2> QED  BY <2>3, <2>7 DEF Over, u, t
<1>3. CASE r.parser = "stream" /\ t = "close"
  <2>1. u = EndStream(r)  BY <1>3, EntryFacts DEF Parse
  <2>2. /\ u \in Readers /\ u.state = r.state /\ u.error = r.error /\ u.parser = "ended"
        /\ u.count = r.count /\ u.queue = Append(r.queue, None)
    BY <1>0, <2>1, AfterEnd
  <2> HIDE DEF u
  <2>3. InStream(r, c, d, sent) /\ sent[c + 1] \notin Incoming /\ sent[c + 1] = "close"
    BY <1>3, EntryFacts DEF Core, t
  <2>4. \E m \in Nat : Marked(u, c + 1, d, m, sent)  BY <1>0, <2>2, <2>3, MarkedNow
  <2>5. u.error = (u.parser = "dead")  BY <1>0, <1>3, <2>2
  <2>6. CountsInv(u.queue, u.count)  BY <1>0, <2>2, CountsMarker
  <2>7. Core(u, c + 1, d, sent)  BY <1>0, <2>2, <2>4, <2>5, <2>6 DEF Core
  <2> QED  BY <2>2, <2>7 DEF Over, u, t
<1>4. CASE r.parser = "stream" /\ t \in Incoming
  <2>1. u = EndStanza(r, t)  BY <1>4, EntryFacts DEF Parse
  <2> DEFINE n == IF t \in Acks THEN r.count ELSE r.count + 1
             e == [stanza |-> t, count |-> n]
             q == r.queue
             p == u.queue
  <2>2. /\ u \in Readers /\ u.state = r.state /\ u.error = r.error /\ u.parser = r.parser
        /\ p = Append(q, e) /\ e \in Entries /\ e.stanza = t
    BY <1>0, <1>4, <2>1, AfterStanza
  <2>3. CountsInv(u.queue, u.count)  BY <1>0, <1>4, <2>1, CountsStanza
  <2> HIDE DEF u, e
  <2>4. InStream(r, c, d, sent) /\ r.state = "opened"  BY <1>4 DEF Core
  <2>5. c >= 1 /\ sent[1] = "open" /\ (\A k \in 2 .. c : sent[k] \in Incoming)
        /\ d + Len(q) = c - 1 /\ \A i \in 1 .. Len(q) : Holds(q, i, d, sent)
    BY <2>4 DEF InStream
  <2>6. q \in Seq(Entries \cup {None}) /\ Len(q) \in Nat /\ e \in Entries \cup {None}
    BY <1>0, <2>2, ReaderFacts
  <2> HIDE DEF p, q
  <2>7. Len(p) = Len(q) + 1 /\ (\A k \in 1 .. Len(q) : p[k] = q[k]) /\ p[Len(q) + 1] = e
    BY <2>2, <2>6, AppendFacts
  <2>8. ASSUME NEW i \in 1 .. Len(p) PROVE Holds(p, i, d, sent)
    <3>1. CASE i = Len(q) + 1
      <4>1. d + 1 + i = c + 1  BY <1>0, <2>5, <2>6, <3>1
      <4>2. p[i] = e /\ e # None /\ e.stanza = sent[c + 1]
        BY <2>2, <2>7, <3>1, EntryFacts DEF t
      <4> QED  BY <4>1, <4>2 DEF Holds
    <3>2. CASE i # Len(q) + 1
      <4>1. i \in 1 .. Len(q)  BY <2>6, <2>7, <3>2
      <4> QED  BY <2>5, <2>7, <4>1 DEF Holds
    <3> QED  BY <3>1, <3>2
  <2>9. \A k \in 2 .. c + 1 : sent[k] \in Incoming
    <3> TAKE k \in 2 .. c + 1
    <3>1. k \in 2 .. c \/ k = c + 1  BY <1>0
    <3> QED  BY <1>4, <2>5, <3>1 DEF t
  <2>10. c + 1 >= 1 /\ d + Len(p) = (c + 1) - 1  BY <1>0, <2>5, <2>6, <2>7
  <2>11. InStream(u, c + 1, d, sent)  BY <2>5, <2>8, <2>9, <2>10 DEF InStream, p
  <2>12. u.error = (u.parser = "dead")  BY <1>0, <2>2
  <2>13. Core(u, c + 1, d, sent)  BY <1>0, <1>4, <2>2, <2>3, <2>4, <2>11, <2>12 DEF Core
  <2>14. ~Over(u)  BY <2>2, <2>4 DEF Over
  <2> QED  BY <2>13, <2>14 DEF u, t
<1>5. CASE /\ r.parser # "dead" /\ ~(r.parser = "prolog" /\ t = "open")
           /\ ~(r.parser = "stream" /\ t = "close") /\ ~(r.parser = "stream" /\ t \in Incoming)
  <2>1. u = ParseError(r)  BY <1>5 DEF Parse
  <2>2. /\ u \in Readers /\ u.state = r.state /\ u.error = TRUE /\ u.parser = "dead"
        /\ u.count = r.count /\ u.queue = Append(r.queue, None)
    BY <1>0, <2>1, AfterError
  <2> HIDE DEF u
  <2>3. \E m \in Nat : Marked(u, c + 1, d, m, sent)
    <3>1. CASE r.parser = "prolog"
      <4>1. c = 0 /\ d = 0 /\ r.queue = <<>>  BY <3>1 DEF Core
      <4>2. sent[1] # "open"  BY <1>5, <3>1, <4>1 DEF t
      <4>3. u.queue = <<None>>  BY <2>2, <4>1
      <4>4. Marked(u, 1, 0, 1, sent)
        <5>1. Len(u.queue) = 1 /\ (\A i \in 1 .. 1 - 1 : FALSE) /\ \A i \in 1 .. 1 : u.queue[i] = None
          BY <4>3
        <5> QED  BY <2>2, <4>2, <5>1 DEF Marked
      <4> QED  BY <4>1, <4>4
    <3>2. CASE r.parser = "stream"
      <4>1. InStream(r, c, d, sent) /\ sent[c + 1] \notin Incoming  BY <1>5, <3>2 DEF Core, t
      <4> QED  BY <1>0, <2>2, <4>1, MarkedNow
    <3>3. CASE r.parser = "ended"
      <4>1. PICK m \in Nat : Marked(r, c, d, m, sent)  BY <3>3 DEF Core
      <4>2. Marked(u, c + 1, d, m, sent)  BY <1>0, <2>2, <4>1, MarkedStays
      <4> QED  BY <4>2
    <3> QED  BY <1>0, <1>5, <3>1, <3>2, <3>3, ReaderFacts
  <2>5. u.error = (u.parser = "dead")  BY <2>2
  <2>6. CountsInv(u.queue, u.count)  BY <1>0, <2>2, CountsMarker
  <2>7. Core(u, c + 1, d, sent)  BY <1>0, <2>2, <2>3, <2>5, <2>6 DEF Core
  <2>8. ~Over(u)  BY <2>2 DEF Over
  <2> QED  BY <2>7, <2>8 DEF u, t
<1> QED  BY <1>1, <1>2, <1>3, <1>4, <1>5
LEMMA ParseType ==
  ASSUME NEW r \in Readers, NEW t
  PROVE  Parse(r, t) \in Readers
<1>1. CASE r.parser = "dead"  BY <1>1 DEF Parse
<1>2. CASE r.parser = "prolog" /\ t = "open"  BY <1>2, AfterOpen DEF Parse
<1>3. CASE r.parser = "stream" /\ t = "close"  BY <1>3, AfterEnd, EntryFacts DEF Parse
<1>4. CASE r.parser = "stream" /\ t \in Incoming  BY <1>4, AfterStanza, EntryFacts DEF Parse
<1>5. CASE /\ r.parser # "dead" /\ ~(r.parser = "prolog" /\ t = "open")
           /\ ~(r.parser = "stream" /\ t = "close") /\ ~(r.parser = "stream" /\ t \in Incoming)
  BY <1>5, AfterError DEF Parse
<1> QED  BY <1>1, <1>2, <1>3, <1>4, <1>5

\* The readers that the tokens of a chunk lead to, one after the other
Steps(f, r, chunk) ==
  /\ f[0] = r /\ \A k \in 1 .. Len(chunk) : f[k] = Parse(f[k - 1], chunk[k])
  /\ Parsed(r, chunk) = f[Len(chunk)]

LEMMA ParsedSteps ==
  ASSUME NEW r \in Readers, NEW chunk \in Seq(Tokens)
  PROVE  \E f : Steps(f, r, chunk)
<1> DEFINE N == Len(chunk)
           Body(f) == [k \in 0 .. N |-> IF k = 0 THEN r ELSE Parse(f[k - 1], chunk[k])]
           after == CHOOSE f : f = Body(f)
           step == [x \in Readers \X (1 .. N) |-> Parse(x[1], chunk[x[2]])]
<1>0. N \in Nat  OBVIOUS
<1>1. step \in [Readers \X (1 .. N) -> Readers]
  <2>1. ASSUME NEW x \in Readers \X (1 .. N) PROVE Parse(x[1], chunk[x[2]]) \in Readers
    <3>1. x[1] \in Readers  OBVIOUS
    <3> QED  BY <3>1, ParseType
  <2> QED  BY <2>1
<1>2. PICK f \in [0 .. N -> Readers] : f[0] = r /\ \A k \in 1 .. N : f[k] = step[<<f[k - 1], k>>]
  <2> HIDE DEF step, N
  <2>1. Exists(N, Readers, r, step)  BY <1>0, <1>1, Recursion
  <2> QED  BY <2>1 DEF Exists
<1>3. ASSUME NEW k \in 1 .. N PROVE f[k] = Parse(f[k - 1], chunk[k])
  <2>1. f[k - 1] \in Readers  BY <1>0
  <2>2. <<f[k - 1], k>> \in Readers \X (1 .. N)  BY <2>1
  <2>3. f[k] = step[<<f[k - 1], k>>]
    <3> HIDE DEF step
    <3> QED  BY <1>2
  <2>4. step[<<f[k - 1], k>>] = Parse(f[k - 1], chunk[k])
    <3> DEFINE x == <<f[k - 1], k>>
    <3>1. x \in Readers \X (1 .. N) /\ x[1] = f[k - 1] /\ x[2] = k  BY <2>2
    <3> HIDE DEF x
    <3>2. step[x] = Parse(x[1], chunk[x[2]])  BY <3>1
    <3>3. step[x] = Parse(f[k - 1], chunk[k])
      <4> HIDE DEF step
      <4> QED  BY <3>1, <3>2
    <3> QED  BY <3>3 DEF x
  <2> HIDE DEF step
  <2> QED  BY <2>3, <2>4
<1>4. f = Body(f)
  <2>1. ASSUME NEW k \in 0 .. N PROVE f[k] = IF k = 0 THEN r ELSE Parse(f[k - 1], chunk[k])
    <3>1. CASE k = 0
      <4>1. f[0] = r
        <5> HIDE DEF step
        <5> QED  BY <1>2
      <4> QED  BY <3>1, <4>1
    <3>2. CASE k # 0
      <4>1. k \in 1 .. N  BY <3>2
      <4> QED  BY <1>3, <4>1, <3>2
    <3> QED  BY <3>1, <3>2
  <2> QED  BY <2>1
<1>5. after = Body(after)
  <2>1. \E g : g = Body(g)  BY <1>4
  <2> QED  BY <2>1
<1>6. Parsed(r, chunk) = after[N]  BY DEF Parsed
<1> HIDE DEF after
<1>7. after[0] = r /\ \A k \in 1 .. N : after[k] = Parse(after[k - 1], chunk[k])
  <2>1. \A k \in 0 .. N : after[k] = IF k = 0 THEN r ELSE Parse(after[k - 1], chunk[k])
    BY <1>5
  <2> QED  BY <1>0, <2>1
<1> QED  BY <1>6, <1>7 DEF Steps

LEMMA ParsedKeeps ==
  ASSUME NEW r, NEW c, NEW d, Core(r, c, d, sent), ~Over(r), sent \in Seq(Tokens),
         NEW chunk \in Seq(Tokens), c + Len(chunk) <= Len(sent),
         \A k \in 1 .. Len(chunk) : chunk[k] = sent[c + k]
  PROVE  Core(Parsed(r, chunk), c + Len(chunk), d, sent) /\ ~Over(Parsed(r, chunk))
<1> DEFINE N == Len(chunk)
<1>0. N \in Nat /\ c \in Nat /\ r \in Readers /\ Len(sent) \in Nat  BY DEF Core
<1>1. PICK f : Steps(f, r, chunk)  BY <1>0, ParsedSteps
<1> DEFINE T == {k \in 0 .. N : Core(f[k], c + k, d, sent) /\ ~Over(f[k])}
<1>2. 0 \in T
  <2>1. f[0] = r /\ c + 0 = c /\ 0 \in 0 .. N  BY <1>0, <1>1 DEF Steps
  <2>2. Core(f[0], c + 0, d, sent) /\ ~Over(f[0])  BY <2>1
  <2> QED  BY <2>1, <2>2
<1>3. ASSUME NEW k \in 1 .. N, k - 1 \in T PROVE k \in T
  <2>1. Core(f[k - 1], c + (k - 1), d, sent) /\ ~Over(f[k - 1])  BY <1>3
  <2>2. (c + (k - 1)) + 1 = c + k /\ c + k <= Len(sent) /\ k \in 0 .. N  BY <1>0
  <2>3. f[k] = Parse(f[k - 1], chunk[k]) /\ chunk[k] = sent[c + k]  BY <1>1 DEF Steps
  <2> DEFINE g == f[k - 1]
             b == c + (k - 1)
  <2>4. Core(g, b, d, sent) /\ ~Over(g) /\ b + 1 = c + k /\ b + 1 <= Len(sent)  BY <2>1, <2>2
  <2> HIDE DEF b, g
  <2>5. Core(Parse(g, sent[b + 1]), b + 1, d, sent) /\ ~Over(Parse(g, sent[b + 1]))
    BY <2>4, ParseKeeps
  <2>6. f[k] = Parse(g, sent[b + 1])  BY <2>3, <2>4 DEF g
  <2>7. Core(f[k], c + k, d, sent) /\ ~Over(f[k])  BY <2>4, <2>5, <2>6
  <2> QED  BY <2>2, <2>7
<1>4. \A k \in 0 .. N : k \in T
  <2> HIDE DEF T, N
  <2> QED  BY <1>0, <1>2, <1>3, UpTo
<1>5. Core(f[N], c + N, d, sent) /\ ~Over(f[N])  BY <1>0, <1>4
<1> QED  BY <1>1, <1>5 DEF Steps

LEMMA CheckKeeps ==
  ASSUME NEW r, NEW c, NEW d, Core(r, c, d, sent), ~Over(r)
  PROVE  Core(CheckEos(r), c, d, sent) /\ Settled(CheckEos(r))
<1> DEFINE u == CheckEos(r)
<1>0. r \in Readers /\ r.error = (r.parser = "dead")  BY DEF Core
<1>1. /\ u \in Readers /\ u.error = r.error /\ u.parser = r.parser
      /\ u.count = r.count /\ u.queue = r.queue
      /\ IF r.queue # <<>> /\ r.queue[1] = None
           THEN u.state = IF r.error THEN "error" ELSE "closed"
           ELSE u = r
  BY <1>0, AfterCheck
<1> HIDE DEF u
<1>2. CASE r.queue # <<>> /\ r.queue[1] = None
  <2>1. r.parser # "prolog"  BY <1>2 DEF Core
  <2>2. r.parser # "stream"
    <3> SUFFICES ASSUME r.parser = "stream" PROVE FALSE  OBVIOUS
    <3>1. InStream(r, c, d, sent)  BY DEF Core
    <3>2. 1 \in 1 .. Len(r.queue)  BY <1>0, <1>2, ReaderFacts, ElementFacts
    <3>3. Holds(r.queue, 1, d, sent)  BY <3>1, <3>2 DEF InStream
    <3> QED  BY <1>2, <3>3 DEF Holds
  <2>3. r.parser \in {"ended", "dead"}  BY <1>0, <2>1, <2>2, ReaderFacts
  <2>4. PICK m \in Nat : Marked(r, c, d, m, sent)  BY <2>3 DEF Core
  <2>5. Marked(u, c, d, m, sent)  BY <1>1, <2>4 DEF Marked, Holds
  <2>6. u.error = (u.parser = "dead") /\ CountsInv(u.queue, u.count) /\ c \in 0 .. Len(sent) /\ d \in Nat
    BY <1>0, <1>1 DEF Core
  <2>7. u.parser # "prolog" /\ u.parser # "stream"  BY <1>1, <2>1, <2>2
  <2>8. Core(u, c, d, sent)  BY <1>1, <2>5, <2>6, <2>7 DEF Core
  <2>9. u.state = IF r.error THEN "error" ELSE "closed"  BY <1>1, <1>2
  <2>10. u.state = "closed" => u.parser = "ended"
    <3>1. CASE r.error = TRUE  BY <2>9, <3>1
    <3>2. CASE r.error = FALSE  BY <1>0, <1>1, <2>3, <3>2
    <3> QED  BY <1>0, <3>1, <3>2, ReaderFacts
  <2>11. Over(u)  BY <2>9 DEF Over
  <2>12. Settled(u)  BY <1>1, <1>2, <2>10, <2>11 DEF Settled
  <2> QED  BY <2>8, <2>12 DEF u
<1>3. CASE ~(r.queue # <<>> /\ r.queue[1] = None)
  <2>1. u = r  BY <1>1, <1>3
  <2>2. r.state # "closed"  BY DEF Over
  <2> QED  BY <1>3, <2>1, <2>2 DEF Settled, u
<1> QED  BY <1>2, <1>3

\* What a chunk makes of a reader that has not come to the end of the stream
LEMMA PushKeeps ==
  ASSUME NEW r, NEW c, NEW d, Core(r, c, d, sent), ~Over(r), sent \in Seq(Tokens),
         NEW chunk \in Seq(Tokens), c + Len(chunk) <= Len(sent),
         \A k \in 1 .. Len(chunk) : chunk[k] = sent[c + k]
  PROVE  Core(Push(r, chunk), c + Len(chunk), d, sent) /\ Settled(Push(r, chunk))
<1>1. Core(Parsed(r, chunk), c + Len(chunk), d, sent) /\ ~Over(Parsed(r, chunk))  BY ParsedKeeps
<1>2. Push(r, chunk) = CheckEos(Parsed(r, chunk))  BY DEF Push
<1> QED  BY <1>1, <1>2, CheckKeeps

\* The first stanza of the queue is the next that the peer has sent.
LEMMA PopKeeps ==
  ASSUME NEW r, NEW c, NEW d, Core(r, c, d, sent), ~Over(r), Peek(r) # None
  PROVE  /\ Core(Pop(r), c, d + 1, sent) /\ Settled(Pop(r))
         /\ Peek(r).stanza = sent[d + 2] /\ Peek(r).stanza \in Incoming
<1> DEFINE q == r.queue
           v == [r EXCEPT !.queue = Tail(@)]
           p == v.queue
           E == Entries \cup {None}
<1>0. r \in Readers /\ c \in 0 .. Len(sent) /\ d \in Nat /\ r.error = (r.parser = "dead")
      /\ CountsInv(q, r.count)
  BY DEF Core
<1>1. q # <<>> /\ Peek(r) = Head(q)  BY DEF Peek
<1>2. /\ v \in Readers /\ v.state = r.state /\ v.error = r.error /\ v.parser = r.parser
      /\ v.count = r.count /\ p = Tail(q) /\ Pop(r) = CheckEos(v)
  BY <1>0, <1>1, AfterTail
<1> HIDE DEF v
<1>3. q \in Seq(E)  BY <1>0, ReaderFacts
<1>4. Len(q) \in Nat \ {0} /\ Len(p) = Len(q) - 1 /\ Head(q) = q[1]
      /\ (\A k \in 1 .. Len(q) - 1 : p[k] = q[k + 1]) /\ q[1] \in E /\ 1 \in 1 .. Len(q)
  <2> HIDE DEF q, p
  <2> QED  BY <1>1, <1>2, <1>3, TailFacts
<1>5. CountsInv(p, v.count)
  <2> HIDE DEF q, p
  <2> QED  BY <1>0, <1>1, <1>2, <1>3, CountsTail
<1>6. q[1] \in Entries /\ q[1] # None  BY <1>1, <1>4
<1>7. q[1].stanza \in Incoming  BY <1>6 DEF Entries
<1>8. r.parser # "prolog"  BY <1>1 DEF Core
<1>9. CASE r.parser = "stream"
  <2>1. InStream(r, c, d, sent) /\ r.state = "opened"  BY <1>9 DEF Core
  <2>2. c >= 1 /\ sent[1] = "open" /\ (\A k \in 2 .. c : sent[k] \in Incoming)
        /\ d + Len(q) = c - 1 /\ \A i \in 1 .. Len(q) : Holds(q, i, d, sent)
    BY <2>1 DEF InStream
  <2> HIDE DEF p, q
  <2>3. q[1].stanza = sent[d + 2]
    <3>1. Holds(q, 1, d, sent) /\ d + 1 + 1 = d + 2  BY <1>0, <1>4, <2>2
    <3> QED  BY <3>1 DEF Holds
  <2>4. ASSUME NEW i \in 1 .. Len(p) PROVE Holds(p, i, d + 1, sent)
    <3>1. i + 1 \in 1 .. Len(q) /\ i \in 1 .. Len(q) - 1 /\ d + 1 + (i + 1) = d + 1 + 1 + i
      BY <1>0, <1>4
    <3>2. Holds(q, i + 1, d, sent)  BY <2>2, <3>1
    <3> QED  BY <1>4, <3>1, <3>2 DEF Holds
  <2>5. d + 1 + Len(p) = c - 1  BY <1>0, <1>4, <2>2
  <2>6. InStream(v, c, d + 1, sent)  BY <2>2, <2>4, <2>5 DEF InStream, p
  <2>7. Core(v, c, d + 1, sent) /\ ~Over(v)
    <3>1. v.error = (v.parser = "dead") /\ d + 1 \in Nat  BY <1>0, <1>2
    <3>2. v.parser = "stream" /\ v.state = "opened"  BY <1>2, <1>9, <2>1
    <3>3. CountsInv(v.queue, v.count)  BY <1>5 DEF p
    <3> QED  BY <1>0, <1>2, <2>6, <3>1, <3>2, <3>3 DEF Core, Over
  <2> QED  BY <1>1, <1>2, <1>4, <1>7, <2>3, <2>7, CheckKeeps
<1>10. CASE r.parser \in {"ended", "dead"}
  <2>1. PICK m \in Nat : Marked(r, c, d, m, sent)  BY <1>10 DEF Core
  <2>2. m \in 1 .. Len(q) /\ (\A i \in 1 .. m - 1 : Holds(q, i, d, sent))
        /\ \A i \in m .. Len(q) : q[i] = None
    BY <2>1 DEF Marked
  <2>3. m # 1
    <3> SUFFICES ASSUME m = 1 PROVE FALSE  OBVIOUS
    <3> QED  BY <1>4, <1>6, <2>2
  <2>4. sent[1] = "open" /\ d + 1 + m <= c /\ sent[d + 1 + m] \notin Incoming
        /\ (\A k \in 2 .. d + m : sent[k] \in Incoming)
        /\ (r.parser = "ended" => sent[d + 1 + m] = "close")
    BY <2>1, <2>3 DEF Marked
  <2> HIDE DEF p, q
  <2>5. q[1].stanza = sent[d + 2]
    <3>0. m >= 1  BY <2>2
    <3>1. 1 \in 1 .. m - 1 /\ d + 1 + 1 = d + 2  BY <1>0, <2>3, <3>0
    <3>2. Holds(q, 1, d, sent)  BY <2>2, <3>1
    <3> QED  BY <3>1, <3>2 DEF Holds
  <2>6. m - 1 \in 1 .. Len(p) /\ m - 1 \in Nat  BY <1>4, <2>2, <2>3
  <2>7. ASSUME NEW i \in 1 .. (m - 1) - 1 PROVE Holds(p, i, d + 1, sent)
    <3>1. i + 1 \in 1 .. m - 1 /\ i \in 1 .. Len(q) - 1 /\ d + 1 + (i + 1) = d + 1 + 1 + i
      BY <1>0, <1>4, <2>2
    <3>2. Holds(q, i + 1, d, sent)  BY <2>2, <3>1
    <3> QED  BY <1>4, <3>1, <3>2 DEF Holds
  <2>8. ASSUME NEW i \in m - 1 .. Len(p) PROVE p[i] = None
    <3>1. i + 1 \in m .. Len(q) /\ i \in 1 .. Len(q) - 1  BY <1>4, <2>2, <2>6
    <3> QED  BY <1>4, <2>2, <3>1
  <2>9. d + 1 + 1 + (m - 1) = d + 1 + m /\ d + 1 + (m - 1) = d + m  BY <1>0
  <2>10. Marked(v, c, d + 1, m - 1, sent)
    <3> DEFINE n == m - 1
               b == d + 1
    <3>1. n \in 1 .. Len(p) /\ (\A i \in 1 .. n - 1 : Holds(p, i, b, sent)) /\ \A i \in n .. Len(p) : p[i] = None
      BY <2>6, <2>7, <2>8
    <3>2. sent[1] = "open" /\ b + 1 + n <= c /\ sent[b + 1 + n] \notin Incoming
          /\ (\A k \in 2 .. b + n : sent[k] \in Incoming)
          /\ (v.parser = "ended" => sent[b + 1 + n] = "close")
      BY <1>2, <2>4, <2>9
    <3> HIDE DEF n, b
    <3>3. Marked(v, c, b, n, sent)  BY <3>1, <3>2 DEF Marked, p
    <3> QED  BY <3>3 DEF n, b
  <2>11. Core(v, c, d + 1, sent) /\ ~Over(v)
    <3>1. v.error = (v.parser = "dead") /\ d + 1 \in Nat  BY <1>0, <1>2
    <3>2. v.parser \in {"ended", "dead"}  BY <1>2, <1>10
    <3>3. CountsInv(v.queue, v.count)  BY <1>5 DEF p
    <3>4. \E n \in Nat : Marked(v, c, d + 1, n, sent)  BY <2>6, <2>10
    <3> QED  BY <1>0, <1>2, <3>1, <3>2, <3>3, <3>4 DEF Core, Over
  <2> QED  BY <1>1, <1>2, <1>4, <1>7, <2>5, <2>11, CheckKeeps
<1> QED  BY <1>0, <1>8, <1>9, <1>10, ReaderFacts
-----------------------------------------------------------------------------
(* What the peer's stream amounts to *)

LEMMA StopFacts ==
  ASSUME sent \in Seq(Tokens)
  PROVE  /\ StopAt \in 1 .. Len(sent) + 1
         /\ StopAt <= Len(sent) => Stops(StopAt)
         /\ \A k \in 1 .. StopAt - 1 : ~Stops(k)
<1> DEFINE N == Len(sent)
           P(n) == (n <= N => Stops(n)) /\ \A k \in 1 .. n - 1 : ~Stops(k)
           T == {n \in 1 .. N + 1 : n = N + 1 \/ Stops(n)}
<1>0. N \in Nat  OBVIOUS
<1> HIDE DEF N
<1>1. PICK p \in T : \A y \in T : p <= y
  <2>1. T \subseteq Nat /\ N + 1 \in T  BY <1>0
  <2> HIDE DEF T
  <2> QED  BY <2>1, Least
<1>2. ASSUME NEW k \in 1 .. p - 1 PROVE ~Stops(k)
  <2>1. k \in 1 .. N + 1 /\ ~(p <= k)  BY <1>0
  <2>2. k \notin T
    <3> HIDE DEF T
    <3> QED  BY <1>1, <2>1
  <2> QED  BY <2>1, <2>2
<1>3. p \in 1 .. N + 1 /\ P(p)  BY <1>0, <1>2
<1>4. \E n \in 1 .. N + 1 : P(n)  BY <1>3
<1>5. StopAt = CHOOSE n \in 1 .. N + 1 : P(n)  BY DEF StopAt, N
<1> HIDE DEF P
<1>6. StopAt \in 1 .. N + 1 /\ P(StopAt)  BY <1>4, <1>5
<1> QED  BY <1>6 DEF P, N

LEMMA StopIs ==
  ASSUME sent \in Seq(Tokens), NEW p \in 1 .. Len(sent), Stops(p), \A k \in 1 .. p - 1 : ~Stops(k)
  PROVE  StopAt = p
<1>1. /\ StopAt \in 1 .. Len(sent) + 1
      /\ StopAt <= Len(sent) => Stops(StopAt)
      /\ \A k \in 1 .. StopAt - 1 : ~Stops(k)
  BY StopFacts
<1>2. StopAt \in Int /\ StopAt >= 1 /\ Len(sent) \in Nat /\ p \in Int /\ p >= 1 /\ p <= Len(sent)
  <2>1. Len(sent) \in Nat  OBVIOUS
  <2>2. StopAt \in 1 .. Len(sent) + 1  BY <1>1
  <2> QED  BY <2>1, <2>2
<1>3. ~(StopAt < p)
  <2> SUFFICES ASSUME StopAt < p PROVE FALSE  OBVIOUS
  <2>1. StopAt \in 1 .. p - 1 /\ StopAt <= Len(sent)  BY <1>2
  <2> QED  BY <1>1, <2>1
<1>4. ~(p < StopAt)
  <2> SUFFICES ASSUME p < StopAt PROVE FALSE  OBVIOUS
  <2>1. p \in 1 .. StopAt - 1  BY <1>2
  <2> QED  BY <1>1, <2>1
<1> QED  BY <1>2, <1>3, <1>4

LEMMA ExpectedFacts ==
  ASSUME sent \in Seq(Tokens), sent # <<>>
  PROVE  /\ Expected \in Seq(Tokens)
         /\ Len(Expected) = IF StopAt >= 2 THEN StopAt - 2 ELSE 0
         /\ \A k \in 1 .. StopAt - 2 : Expected[k] = sent[k + 1]
<1> DEFINE n == StopAt - 1
           e == SubSeq(sent, 2, n)
<1>1. StopAt \in Int /\ StopAt >= 1 /\ StopAt <= Len(sent) + 1 /\ Len(sent) \in Nat  BY StopFacts
<1>2. n \in Int /\ 2 \in Int /\ n = StopAt - 1  BY <1>1
<1>3. \A k \in 2 .. n : sent[k] \in Tokens
  <2>1. \A k \in 1 .. Len(sent) : sent[k] \in Tokens  BY ElementFacts
  <2> QED  BY <1>1, <2>1
<1>4. Expected = e  BY DEF Expected
<1> HIDE DEF n
<1>5. /\ e \in Seq(Tokens) /\ Len(e) = IF 2 <= n THEN n - 2 + 1 ELSE 0
      /\ \A k \in 1 .. n - 2 + 1 : e[k] = sent[2 + k - 1]
  BY <1>2, <1>3, SubSeqProperties
<1> HIDE DEF e
<1>6. Len(e) = IF StopAt >= 2 THEN StopAt - 2 ELSE 0  BY <1>1, <1>2, <1>5
<1>7. ASSUME NEW k \in 1 .. StopAt - 2 PROVE e[k] = sent[k + 1]
  <2>1. k \in 1 .. n - 2 + 1 /\ 2 + k - 1 = k + 1  BY <1>1, <1>2
  <2> QED  BY <1>5, <2>1
<1> QED  BY <1>4, <1>5, <1>6, <1>7

LEMMA PrefixIs ==
  ASSUME NEW S, NEW s \in Seq(S), NEW R, NEW t \in Seq(R), Len(s) <= Len(t),
         \A k \in 1 .. Len(s) : s[k] = t[k]
  PROVE  IsPrefix(s, t)
<1> DEFINE n == Len(s)
<1>1. n \in Nat /\ n <= Len(t) /\ Len(t) \in Nat  OBVIOUS
<1>2. \A k \in 1 .. n : t[k] \in R /\ s[k] \in S  BY <1>1
<1>3. SubSeq(s, 1, n) = s  BY SubSeqFull
<1>4. SubSeq(t, 1, n) = s
  <2> DEFINE u == SubSeq(t, 1, n)
  <2> HIDE DEF n
  <2>1. /\ u \in Seq(R) /\ Len(u) = IF 1 <= n THEN n - 1 + 1 ELSE 0
        /\ \A k \in 1 .. n - 1 + 1 : u[k] = t[1 + k - 1]
    BY <1>1, <1>2, SubSeqProperties
  <2> HIDE DEF u
  <2>2. Len(u) = n  BY <1>1, <2>1
  <2>3. ASSUME NEW k \in 1 .. n PROVE u[k] = s[k]
    <3>1. k \in 1 .. n - 1 + 1 /\ 1 + k - 1 = k  BY <1>1
    <3> QED  BY <2>1, <3>1 DEF n
  <2>4. u = s  BY <2>1, <2>2, <2>3, SeqEqual DEF n
  <2> QED  BY <2>4 DEF u
<1> QED  BY <1>1, <1>3, <1>4 DEF IsPrefix

LEMMA SameAs ==
  ASSUME NEW S, NEW s \in Seq(S), NEW R, NEW t \in Seq(R), Len(s) = Len(t),
         \A k \in 1 .. Len(s) : s[k] = t[k]
  PROVE  s = t
BY SeqEqual

\* What has been received is a part of the peer's stream, and all of it when the reader
\* is at the end of it, or of what the peer has sent.
LEMMA ReceivedIs ==
  ASSUME InTypes, NetInv, Settled(reader), NEW c, Core(reader, c, Len(received), sent)
  PROVE  /\ DeliveredInOrder
         /\ Over(reader) => received = Expected
         /\ reader.state = "closed" => StopAt <= Len(sent) /\ sent[StopAt] = "close"
         /\ reader.queue = <<>> /\ c = Len(sent) => received = Expected
<1> DEFINE d == Len(received)
           q == reader.queue
<1>0. sent \in Seq(Tokens) /\ received \in Seq(Incoming) /\ d \in Nat /\ c \in 0 .. Len(sent)
      /\ Len(sent) \in Nat /\ reader \in Readers /\ (\A k \in 1 .. d : received[k] = sent[k + 1])
  BY DEF InTypes, Core, NetInv
<1>q. Len(q) \in Nat /\ (q = <<>> <=> Len(q) = 0)
  <2>1. q \in Seq(Entries \cup {None})  BY <1>0, ReaderFacts
  <2> HIDE DEF q
  <2> QED  BY <2>1
<1>1. CASE reader.parser = "prolog"
  <2>1. c = 0 /\ d = 0 /\ ~Over(reader) /\ reader.state # "closed" /\ received = <<>>
    BY <1>0, <1>1 DEF Core, Over
  <2>2. DeliveredInOrder
    <3>1. Expected \in Seq(Tokens)
      <4>1. CASE sent = <<>>  BY <4>1 DEF Expected
      <4>2. CASE sent # <<>>  BY <1>0, <4>2, ExpectedFacts
      <4> QED  BY <4>1, <4>2
    <3>2. Len(received) <= Len(Expected) /\ \A k \in 1 .. Len(received) : received[k] = Expected[k]
      <4>1. Len(received) = 0 /\ Len(Expected) \in Nat  BY <2>1, <3>1
      <4> QED  BY <4>1
    <3> QED  BY <1>0, <3>1, <3>2, PrefixIs DEF DeliveredInOrder
  <2>3. c = Len(sent) => received = Expected
    <3> SUFFICES ASSUME c = Len(sent) PROVE received = Expected  OBVIOUS
    <3>1. sent = <<>>
      <4>1. Len(sent) = 0  BY <2>1
      <4> QED  BY <1>0, <4>1
    <3> QED  BY <2>1, <3>1 DEF Expected
  <2> QED  BY <2>1, <2>2, <2>3
<1>2. CASE reader.parser = "stream"
  <2>1. c >= 1 /\ sent[1] = "open" /\ (\A k \in 2 .. c : sent[k] \in Incoming)
        /\ d + Len(q) = c - 1 /\ reader.state = "opened"
    BY <1>2 DEF Core, InStream
  <2>2. ~Over(reader) /\ reader.state # "closed"  BY <2>1 DEF Over
  <2>3. \A k \in 1 .. c : ~Stops(k)
    <3> TAKE k \in 1 .. c
    <3>1. k = 1 \/ k \in 2 .. c  BY <1>0
    <3> QED  BY <2>1, <3>1 DEF Stops
  <2>4. StopAt \in Int /\ StopAt >= c + 1 /\ StopAt <= Len(sent) + 1
    <3>1. StopAt \in 1 .. Len(sent) + 1 /\ (StopAt <= Len(sent) => Stops(StopAt))  BY <1>0, StopFacts
    <3>2. ~(StopAt <= c)
      <4> SUFFICES ASSUME StopAt <= c PROVE FALSE  OBVIOUS
      <4>1. StopAt \in 1 .. c /\ StopAt <= Len(sent)  BY <1>0, <3>1
      <4> QED  BY <2>3, <3>1, <4>1
    <3> QED  BY <1>0, <3>1, <3>2
  <2>5. sent # <<>>  BY <1>0, <2>1
  <2>6. /\ Expected \in Seq(Tokens) /\ Len(Expected) = StopAt - 2
        /\ \A k \in 1 .. StopAt - 2 : Expected[k] = sent[k + 1]
    <3>1. StopAt >= 2  BY <1>0, <2>1, <2>4
    <3> QED  BY <1>0, <2>5, <3>1, ExpectedFacts
  <2>7. d <= Len(Expected) /\ d <= StopAt - 2  BY <1>0, <1>q, <2>1, <2>4, <2>6
  <2>8. \A k \in 1 .. d : received[k] = Expected[k]
    <3> TAKE k \in 1 .. d
    <3>1. k \in 1 .. StopAt - 2  BY <1>0, <2>4, <2>7
    <3> QED  BY <1>0, <2>6, <3>1
  <2>9. DeliveredInOrder  BY <1>0, <2>6, <2>7, <2>8, PrefixIs DEF DeliveredInOrder
  <2>10. ASSUME q = <<>>, c = Len(sent) PROVE received = Expected
    <3>1. d = Len(Expected)  BY <1>0, <1>q, <2>1, <2>4, <2>6, <2>10
    <3> QED  BY <1>0, <2>6, <2>8, <3>1, SameAs
  <2> QED  BY <2>2, <2>9, <2>10
<1>3. CASE reader.parser \in {"ended", "dead"}
  <2>1. PICK m \in Nat : Marked(reader, c, d, m, sent)  BY <1>3 DEF Core
  <2>2. m \in 1 .. Len(q) /\ (\A i \in 1 .. m - 1 : Holds(q, i, d, sent)) /\ q[m] = None
    <3>1. m \in 1 .. Len(q) /\ m \in m .. Len(q)  BY <1>q, <2>1 DEF Marked
    <3> QED  BY <2>1, <3>1 DEF Marked
  <2>3. Over(reader) => m = 1
    <3> SUFFICES ASSUME Over(reader), m # 1 PROVE FALSE  OBVIOUS
    <3>1. q[1] = None  BY DEF Settled
    <3>2. 1 \in 1 .. m - 1  BY <2>2
    <3> QED  BY <2>2, <3>1, <3>2 DEF Holds
  <2>4. q # <<>>  BY <1>q, <2>2
  <2>5. CASE sent[1] = "open"
    <3> DEFINE p == d + 1 + m
    <3>1. p <= c /\ sent[p] \notin Incoming /\ (\A k \in 2 .. d + m : sent[k] \in Incoming)
          /\ (reader.parser = "ended" => sent[p] = "close")
      BY <2>1, <2>5 DEF Marked
    <3>2. p \in 1 .. Len(sent) /\ p >= 2 /\ p - 1 = d + m /\ p \in Int  BY <1>0, <2>2, <3>1
    <3> HIDE DEF p
    <3>3. Stops(p)  BY <3>1, <3>2 DEF Stops
    <3>4. \A k \in 1 .. p - 1 : ~Stops(k)
      <4> TAKE k \in 1 .. p - 1
      <4>1. k = 1 \/ k \in 2 .. d + m  BY <1>0, <3>2
      <4> QED  BY <2>5, <3>1, <4>1 DEF Stops
    <3>5. StopAt = p  BY <1>0, <3>2, <3>3, <3>4, StopIs
    <3>6. sent # <<>>  BY <1>0, <3>2
    <3>7. /\ Expected \in Seq(Tokens) /\ Len(Expected) = p - 2
          /\ \A k \in 1 .. p - 2 : Expected[k] = sent[k + 1]
      BY <1>0, <3>2, <3>5, <3>6, ExpectedFacts
    <3>8. p - 2 = d + m - 1 /\ d <= p - 2  BY <1>0, <2>2, <3>2
    <3>9. \A k \in 1 .. d : received[k] = Expected[k]
      <4> TAKE k \in 1 .. d
      <4>1. k \in 1 .. p - 2  BY <1>0, <3>2, <3>8
      <4> QED  BY <1>0, <3>7, <4>1
    <3>10. DeliveredInOrder  BY <1>0, <3>7, <3>8, <3>9, PrefixIs DEF DeliveredInOrder
    <3>11. Over(reader) => received = Expected
      <4> SUFFICES ASSUME Over(reader) PROVE received = Expected  OBVIOUS
      <4>1. d = Len(Expected)  BY <1>0, <2>3, <3>2, <3>7, <3>8
      <4> QED  BY <1>0, <3>7, <3>9, <4>1, SameAs
    <3>12. reader.state = "closed" => StopAt <= Len(sent) /\ sent[StopAt] = "close"
      BY <3>1, <3>2, <3>5 DEF Settled
    <3> QED  BY <2>4, <3>10, <3>11, <3>12
  <2>6. CASE sent[1] # "open"
    <3>1. m = 1 /\ d = 0 /\ c >= 1 /\ reader.parser = "dead"  BY <2>1, <2>6 DEF Marked
    <3>2. 1 \in 1 .. Len(sent) /\ Stops(1) /\ sent # <<>>  BY <1>0, <2>6, <3>1 DEF Stops
    <3>3. StopAt = 1  BY <1>0, <3>2, StopIs
    <3>4. Expected \in Seq(Tokens) /\ Len(Expected) = 0  BY <1>0, <3>2, <3>3, ExpectedFacts
    <3>5. received = Expected  BY <1>0, <3>1, <3>4
    <3>a. Len(received) <= Len(Expected) /\ \A k \in 1 .. Len(received) : received[k] = Expected[k]
      BY <1>0, <3>5
    <3>6. DeliveredInOrder  BY <1>0, <3>4, <3>a, PrefixIs DEF DeliveredInOrder
    <3>7. reader.state # "closed"  BY <3>1 DEF Settled
    <3> QED  BY <3>5, <3>6, <3>7
  <2> QED  BY <2>5, <2>6
<1> QED  BY <1>0, <1>1, <1>2, <1>3, ReaderFacts
-----------------------------------------------------------------------------
(* The steps of the input *)

LEMMA InFacts ==
  ASSUME InInv
  PROVE  /\ reader \in Readers /\ Got \in Nat /\ Got <= Len(sent) /\ Len(sent) \in Nat
         /\ Len(net) \in Nat /\ Len(received) \in Nat /\ Got + Len(net) = Len(sent)
         /\ reading # "no" => ~Over(reader)
         /\ ~Over(reader) /\ Peek(reader) = None => reader.queue = <<>>
<1>1. Len(sent) \in Nat /\ Len(net) \in Nat /\ Len(received) \in Nat /\ Len(net) <= Len(sent)
  BY DEF InInv, InTypes, NetInv
<1>2. Got \in Nat /\ Got <= Len(sent) /\ Got + Len(net) = Len(sent)  BY <1>1 DEF Got
<1>3. reader \in Readers  BY DEF InInv, Core
<1>4. reading # "no" => ~Over(reader)  BY DEF InInv, CallsInv, Settled
<1>5. ASSUME ~Over(reader), Peek(reader) = None, reader.queue # <<>> PROVE FALSE
  <2>1. Head(reader.queue) = reader.queue[1]  BY <1>3, <1>5, ReaderFacts, TailFacts
  <2>2. reader.queue[1] = None  BY <1>5, <2>1 DEF Peek
  <2> QED  BY <1>5, <2>2 DEF InInv, Settled
<1> QED  BY <1>1, <1>2, <1>3, <1>4, <1>5

LEMMA InKept ==
  ASSUME InInv, UNCHANGED <<inVars, netVars, idle>>, tearing' \in BOOLEAN, torn' \in BOOLEAN,
         resets' \in 0 .. MaxResets, owner' \in {"connector", "porter"}
  PROVE  InInv'
<1>1. reading' = reading /\ inOpen' = inOpen /\ reader' = reader /\ received' = received
      /\ answer' = answer /\ net' = net /\ netEnd' = netEnd /\ sent' = sent /\ idle' = idle
  BY DEF inVars, netVars
<1>2. InTypes'  BY <1>1 DEF InInv, InTypes
<1>3. NetInv' /\ Got' = Got  BY <1>1 DEF InInv, NetInv, Got
<1>4. CallsInv'  BY <1>1 DEF InInv, CallsInv, Peek, Over
<1>5. Expected' = Expected  BY <1>1 DEF Expected, StopAt, Stops
<1>6. AnswersInv'  BY <1>1, <1>5 DEF InInv, AnswersInv, Over
<1> QED  BY <1>1, <1>2, <1>3, <1>4, <1>6 DEF InInv, Settled, Over

\* An answer that is not to a receive is queued.
LEMMA InQueued ==
  ASSUME InInv, UNCHANGED <<inVars, netVars>>, tearing' \in BOOLEAN, torn' \in BOOLEAN,
         resets' \in 0 .. MaxResets, owner' \in {"connector", "porter"},
         NEW x \in IdleCalls, x.cb \notin Receives, idle' = Append(idle, x)
  PROVE  InInv'
<1>1. reading' = reading /\ inOpen' = inOpen /\ reader' = reader /\ received' = received
      /\ answer' = answer /\ net' = net /\ netEnd' = netEnd /\ sent' = sent
  BY DEF inVars, netVars
<1>i. idle \in Seq(IdleCalls)  BY DEF InInv, InTypes
<1>a. idle' \in Seq(IdleCalls) /\ Len(idle') = Len(idle) + 1 /\ Len(idle) \in Nat
      /\ (\A k \in 1 .. Len(idle) : idle'[k] = idle[k]) /\ idle'[Len(idle) + 1] = x
  BY <1>i, AppendFacts
<1>b. ASSUME NEW n \in 1 .. Len(idle') PROVE n = Len(idle) + 1 \/ n \in 1 .. Len(idle)  BY <1>a
<1>c. ASSUME NEW n \in 1 .. Len(idle'), idle'[n].cb \in Receives
      PROVE  n \in 1 .. Len(idle) /\ idle'[n] = idle[n]
  BY <1>a, <1>b, <1>c
<1>2. InTypes'  BY <1>1, <1>a DEF InInv, InTypes
<1>3. NetInv' /\ Got' = Got  BY <1>1 DEF InInv, NetInv, Got
<1>4. CallsInv'
  <2>1. (~inOpen => reader.parser = "prolog")' /\ (reading = "open" => ~inOpen)'
        /\ (reading = "stanza" => inOpen)' /\ (reading # "no" => reader.queue = <<>>)'
    BY <1>1 DEF InInv, CallsInv
  <2>2. ASSUME reading' # "no", NEW n \in 1 .. Len(idle'), idle'[n].cb \in Receives PROVE FALSE
    BY <1>1, <1>c, <2>2 DEF InInv, CallsInv
  <2>3. ASSUME NEW i \in 1 .. Len(idle'), NEW j \in 1 .. Len(idle'),
               idle'[i].cb \in Receives, idle'[j].cb \in Receives
        PROVE  i = j
    BY <1>c, <2>3 DEF InInv, CallsInv
  <2>4. ASSUME NEW n \in 1 .. Len(idle')
        PROVE  /\ idle'[n].cb = "ready" => Peek(reader') # None
               /\ idle'[n].cb = "recv" => idle'[n].why \in {"is_closed", "is_open", "not_open"}
               /\ idle'[n].cb = "recv" /\ idle'[n].why = "is_closed" => Over(reader')
    <3>1. CASE idle'[n].cb \in Receives
      <4>1. n \in 1 .. Len(idle) /\ idle'[n] = idle[n]  BY <1>c, <3>1
      <4> QED  BY <1>1, <4>1 DEF InInv, CallsInv
    <3>2. CASE idle'[n].cb \notin Receives  BY <3>2 DEF Receives
    <3> QED  BY <3>1, <3>2
  <2> QED  BY <2>1, <2>2, <2>3, <2>4 DEF CallsInv, Peek, Over
<1>5. Expected' = Expected  BY <1>1 DEF Expected, StopAt, Stops
<1>6. AnswersInv'  BY <1>1, <1>5 DEF InInv, AnswersInv, Over
<1> QED  BY <1>1, <1>2, <1>3, <1>4, <1>6 DEF InInv, Settled, Over

\* Where no answer to a receive is waiting, one may come to wait.
LEMMA InRefused ==
  ASSUME InInv, UNCHANGED <<inVars, netVars, shutVars, resets, owner>>, MayReceive,
         NEW x \in IdleCalls, x.cb \in Receives, idle' = Append(idle, x),
         x.cb = "ready" => Peek(reader) # None,
         x.cb = "recv" => x.why \in {"is_closed", "is_open", "not_open"},
         x.cb = "recv" /\ x.why = "is_closed" => Over(reader)
  PROVE  InInv'
<1>1. reading' = reading /\ inOpen' = inOpen /\ reader' = reader /\ received' = received
      /\ answer' = answer /\ net' = net /\ netEnd' = netEnd /\ sent' = sent
      /\ tearing' = tearing /\ torn' = torn /\ resets' = resets /\ owner' = owner
  BY DEF inVars, netVars, shutVars
<1>i. idle \in Seq(IdleCalls)  BY DEF InInv, InTypes
<1>a. idle' \in Seq(IdleCalls) /\ Len(idle') = Len(idle) + 1 /\ Len(idle) \in Nat
      /\ (\A k \in 1 .. Len(idle) : idle'[k] = idle[k]) /\ idle'[Len(idle) + 1] = x
  BY <1>i, AppendFacts
<1>m. reading = "no" /\ \A n \in 1 .. Len(idle) : idle[n].cb \notin Receives
  <2>1. DOMAIN idle = 1 .. Len(idle)  BY <1>i
  <2> QED  BY <2>1 DEF MayReceive, Receives
<1>b. ASSUME NEW n \in 1 .. Len(idle'), idle'[n].cb \in Receives
      PROVE  n = Len(idle) + 1 /\ idle'[n] = x
  <2>1. n = Len(idle) + 1 \/ n \in 1 .. Len(idle)  BY <1>a
  <2> QED  BY <1>a, <1>b, <1>m, <2>1
<1>2. InTypes'  BY <1>1, <1>a DEF InInv, InTypes
<1>3. NetInv' /\ Got' = Got  BY <1>1 DEF InInv, NetInv, Got
<1>4. CallsInv'
  <2>1. (~inOpen => reader.parser = "prolog")' /\ (reading = "open" => ~inOpen)'
        /\ (reading = "stanza" => inOpen)'
    BY <1>1 DEF InInv, CallsInv
  <2>2. reading' = "no"  BY <1>1, <1>m
  <2>3. ASSUME NEW i \in 1 .. Len(idle'), NEW j \in 1 .. Len(idle'),
               idle'[i].cb \in Receives, idle'[j].cb \in Receives
        PROVE  i = j
    BY <1>b, <2>3
  <2>4. ASSUME NEW n \in 1 .. Len(idle')
        PROVE  /\ idle'[n].cb = "ready" => Peek(reader') # None
               /\ idle'[n].cb = "recv" => idle'[n].why \in {"is_closed", "is_open", "not_open"}
               /\ idle'[n].cb = "recv" /\ idle'[n].why = "is_closed" => Over(reader')
    <3>1. CASE idle'[n].cb \in Receives
      <4>1. idle'[n] = x  BY <1>b, <3>1
      <4> QED  BY <1>1, <4>1
    <3>2. CASE idle'[n].cb \notin Receives  BY <3>2 DEF Receives
    <3> QED  BY <3>1, <3>2
  <2> QED  BY <2>1, <2>2, <2>3, <2>4 DEF CallsInv, Peek, Over
<1>5. Expected' = Expected  BY <1>1 DEF Expected, StopAt, Stops
<1>6. AnswersInv'  BY <1>1, <1>5 DEF InInv, AnswersInv, Over
<1> QED  BY <1>1, <1>2, <1>3, <1>4, <1>6 DEF InInv, Settled, Over

LEMMA InRecvAsync ==
  ASSUME InInv, NEW opening \in BOOLEAN, RecvAsync(opening)
  PROVE  InInv'
<1>0. UNCHANGED <<netVars, shutVars, resets, owner>> /\ MayReceive /\ inOpen' = inOpen
      /\ reader' = reader /\ received' = received /\ answer' = answer
  BY DEF RecvAsync
<1>1. CASE RecvRefusal(opening) # "ok"
  <2> DEFINE x == IdleCall("recv", RecvRefusal(opening))
  <2>1. idle' = Append(idle, x) /\ reading' = reading  BY <1>1 DEF RecvAsync
  <2>2. RecvRefusal(opening) \in {"is_closed", "is_open", "not_open"}
        /\ (RecvRefusal(opening) = "is_closed" => Over(reader))
    BY <1>1 DEF RecvRefusal, InputIsClosed
  <2>3. x.cb = "recv" /\ x.why = RecvRefusal(opening)  BY DEF IdleCall
  <2>4. x \in IdleCalls  BY <2>2 DEF IdleCall, IdleCalls, Answers
  <2>5. UNCHANGED <<inVars, netVars, shutVars, resets, owner>>  BY <1>0, <2>1 DEF inVars
  <2> HIDE DEF x
  <2>6. x.cb \in Receives /\ x.cb # "ready"  BY <2>3 DEF Receives
  <2> QED  BY <1>0, <2>1, <2>2, <2>3, <2>4, <2>5, <2>6, InRefused
<1>2. CASE RecvRefusal(opening) = "ok" /\ ~opening /\ Peek(reader) # None
  <2> DEFINE x == IdleCall("ready", "ok")
  <2>1. idle' = Append(idle, x) /\ reading' = reading  BY <1>2 DEF RecvAsync
  <2>3. x.cb = "ready"  BY DEF IdleCall
  <2>4. x \in IdleCalls  BY DEF IdleCall, IdleCalls
  <2>5. UNCHANGED <<inVars, netVars, shutVars, resets, owner>>  BY <1>0, <2>1 DEF inVars
  <2> HIDE DEF x
  <2>6. x.cb \in Receives /\ x.cb # "recv"  BY <2>3 DEF Receives
  <2> QED  BY <1>0, <1>2, <2>1, <2>3, <2>4, <2>5, <2>6, InRefused
<1>3. CASE RecvRefusal(opening) = "ok" /\ ~(~opening /\ Peek(reader) # None)
  <2>1. reading' = (IF opening THEN "open" ELSE "stanza") /\ idle' = idle
    BY <1>3 DEF RecvAsync
  <2>2. ~Over(reader) /\ (opening => ~inOpen) /\ (~opening => inOpen)
    BY <1>3 DEF RecvRefusal, InputIsClosed
  <2>3. reader.queue = <<>>
    <3>1. CASE opening
      <4>1. reader.parser = "prolog"  BY <2>2, <3>1 DEF InInv, CallsInv
      <4> QED  BY <4>1 DEF InInv, Core
    <3>2. CASE ~opening  BY <1>3, <2>2, <3>2, InFacts
    <3> QED  BY <3>1, <3>2
  <2>4. net' = net /\ netEnd' = netEnd /\ sent' = sent /\ tearing' = tearing /\ torn' = torn
        /\ resets' = resets /\ owner' = owner
    BY <1>0 DEF netVars, shutVars
  <2>5. InTypes'  BY <1>0, <2>1, <2>4 DEF InInv, InTypes
  <2>6. NetInv' /\ Got' = Got  BY <1>0, <2>4 DEF InInv, NetInv, Got
  <2>7. idle \in Seq(IdleCalls) /\ DOMAIN idle = 1 .. Len(idle)  BY DEF InInv, InTypes
  <2>8. \A n \in 1 .. Len(idle) : idle[n].cb \notin Receives
    BY <1>0, <2>7 DEF MayReceive, Receives
  <2>9. CallsInv'
    <3>1. (~inOpen => reader.parser = "prolog")' /\ (reading = "open" => ~inOpen)'
          /\ (reading = "stanza" => inOpen)' /\ reader'.queue = <<>>
      BY <1>0, <2>1, <2>2, <2>3 DEF InInv, CallsInv
    <3>2. \A n \in 1 .. Len(idle') : idle'[n].cb \notin Receives  BY <2>1, <2>8
    <3> QED  BY <3>1, <3>2 DEF CallsInv, Receives
  <2>10. Expected' = Expected  BY <2>4 DEF Expected, StopAt, Stops
  <2>11. AnswersInv'  BY <1>0, <2>4, <2>10 DEF InInv, AnswersInv, Over
  <2> QED  BY <1>0, <2>4, <2>5, <2>6, <2>9, <2>11 DEF InInv, Settled, Over
<1> QED  BY <1>1, <1>2, <1>3
\* recv_stanza_finish on a reader that has a stanza or is at the end of the stream
LEMMA FinishKeeps ==
  ASSUME InTypes, NetInv, NEW r, NEW c, Core(r, c, Len(received), sent), Settled(r),
         Over(r) \/ Peek(r) # None, FinishStanza(r)
  PROVE  /\ Core(reader', c, Len(received'), sent) /\ Settled(reader')
         /\ received' \in Seq(Incoming) /\ \A k \in 1 .. Len(received') : received'[k] = sent[k + 1]
         /\ answer' \in {"stanza", "closed", "error"} /\ (answer' # "stanza" => Over(reader'))
         /\ answer' = "closed" => reader'.state = "closed"
<1>0. received \in Seq(Incoming) /\ Len(received) \in Nat /\ r \in Readers
      /\ \A k \in 1 .. Len(received) : received[k] = sent[k + 1]
  BY DEF InTypes, NetInv, Core
<1>1. CASE Over(r)
  <2>1. reader' = r /\ answer' = r.state /\ received' = received  BY <1>1 DEF FinishStanza
  <2>2. r.state \in {"closed", "error"}  BY <1>1 DEF Over
  <2> QED  BY <1>0, <1>1, <2>1, <2>2
<1>2. CASE ~Over(r)
  <2>1. reader' = Pop(r) /\ answer' = "stanza" /\ received' = Append(received, Peek(r).stanza)
    BY <1>2 DEF FinishStanza
  <2> DEFINE d == Len(received)
             x == Peek(r).stanza
  <2>2. Core(Pop(r), c, d + 1, sent) /\ Settled(Pop(r)) /\ x = sent[d + 2] /\ x \in Incoming
    BY <1>2, PopKeeps
  <2> HIDE DEF x
  <2>3. received' \in Seq(Incoming) /\ Len(received') = d + 1 /\ received'[d + 1] = x
        /\ \A k \in 1 .. d : received'[k] = received[k]
    BY <1>0, <2>1, <2>2, AppendFacts DEF x
  <2>4. ASSUME NEW k \in 1 .. Len(received') PROVE received'[k] = sent[k + 1]
    <3>1. k = d + 1 \/ k \in 1 .. d  BY <1>0, <2>3
    <3>2. (d + 1) + 1 = d + 2  BY <1>0
    <3> QED  BY <1>0, <2>2, <2>3, <3>1, <3>2
  <2>5. Core(reader', c, Len(received'), sent)
    <3>1. Len(received') = d + 1  BY <2>3
    <3> QED  BY <2>1, <2>2, <3>1
  <2> QED  BY <2>1, <2>2, <2>3, <2>4, <2>5
<1> QED  BY <1>1, <1>2

LEMMA InReceivedData ==
  ASSUME InInv, NEW n, ReceivedData(n)
  PROVE  InInv'
<1> DEFINE chunk == SubSeq(net, 1, n)
           r == Push(reader, chunk)
           c == Got + n
           d == Len(received)
<1>0. reading # "no" /\ n \in 0 .. Len(net) /\ net' = SubSeq(net, n + 1, Len(net))
      /\ netEnd' = netEnd /\ sent' = sent /\ tearing' = tearing /\ torn' = torn /\ idle' = idle
      /\ resets' = resets /\ owner' = owner
  BY DEF ReceivedData, shutVars
<1>1. net \in Seq(Tokens) /\ sent \in Seq(Tokens) /\ Len(net) \in Nat /\ n \in Nat /\ n <= Len(net)
      /\ Got \in Nat /\ Got + Len(net) = Len(sent) /\ ~Over(reader) /\ Len(sent) \in Nat
  BY <1>0, InFacts DEF InInv, InTypes
<1>2. chunk \in Seq(Tokens) /\ Len(chunk) = n /\ \A k \in 1 .. n : chunk[k] = net[k]
  <2>1. \A k \in 1 .. n : net[k] \in Tokens
    <3>1. \A k \in 1 .. Len(net) : net[k] \in Tokens  BY <1>1, ElementFacts
    <3> QED  BY <1>1, <3>1
  <2>2. /\ chunk \in Seq(Tokens) /\ Len(chunk) = IF 1 <= n THEN n - 1 + 1 ELSE 0
        /\ \A k \in 1 .. n - 1 + 1 : chunk[k] = net[1 + k - 1]
    BY <1>1, <2>1, SubSeqProperties
  <2> HIDE DEF chunk
  <2>3. Len(chunk) = n  BY <1>1, <2>2
  <2>4. ASSUME NEW k \in 1 .. n PROVE chunk[k] = net[k]
    <3>1. k \in 1 .. n - 1 + 1 /\ 1 + k - 1 = k  BY <1>1
    <3> QED  BY <2>2, <3>1
  <2> QED  BY <2>2, <2>3, <2>4
<1> HIDE DEF chunk
<1>3. net' \in Seq(Tokens) /\ Len(net') = Len(net) - n
      /\ \A k \in 1 .. Len(net) - n : net'[k] = net[n + k]
  <2> DEFINE N == Len(net)
             m == n + 1
             b == SubSeq(net, m, N)
  <2>1. N \in Int /\ m \in Int /\ N \in Nat /\ n <= N  BY <1>1
  <2>2. \A k \in m .. N : net[k] \in Tokens
    <3>1. \A k \in 1 .. Len(net) : net[k] \in Tokens  BY <1>1, ElementFacts
    <3> QED  BY <1>1, <3>1
  <2> HIDE DEF N, m
  <2>3. /\ b \in Seq(Tokens) /\ Len(b) = IF m <= N THEN N - m + 1 ELSE 0
        /\ \A k \in 1 .. N - m + 1 : b[k] = net[m + k - 1]
    BY <2>1, <2>2, SubSeqProperties
  <2> HIDE DEF b
  <2>4. Len(b) = N - n  BY <1>1, <2>1, <2>3 DEF m
  <2>5. ASSUME NEW k \in 1 .. N - n PROVE b[k] = net[n + k]
    <3>1. k \in 1 .. N - m + 1 /\ m + k - 1 = n + k  BY <1>1, <2>1 DEF m
    <3> QED  BY <2>3, <3>1
  <2> QED  BY <1>0, <2>3, <2>4, <2>5 DEF b, m, N
<1>4. Core(r, c, d, sent) /\ Settled(r)
  <2>1. Core(reader, Got, d, sent)  BY DEF InInv
  <2>2. Got + Len(chunk) <= Len(sent)  BY <1>1, <1>2
  <2>3. \A k \in 1 .. Len(chunk) : chunk[k] = sent[Got + k]
    <3> TAKE k \in 1 .. Len(chunk)
    <3>1. k \in 1 .. n /\ k \in 1 .. Len(net)  BY <1>1, <1>2
    <3> QED  BY <1>2, <3>1 DEF InInv, NetInv
  <2>4. Core(r, Got + Len(chunk), d, sent) /\ Settled(r)
    BY <1>1, <1>2, <2>1, <2>2, <2>3, PushKeeps
  <2>5. Got + Len(chunk) = c  BY <1>2
  <2> QED  BY <2>4, <2>5
<1> HIDE DEF r
<1>5. Got' = c
  <2>1. Got = Len(sent) - Len(net)  BY DEF Got
  <2>2. Got' = Len(sent) - (Len(net) - n)  BY <1>0, <1>3 DEF Got
  <2> QED  BY <1>1, <2>1, <2>2
<1>6. Len(net') <= Len(sent') /\ \A k \in 1 .. Len(net') : net'[k] = sent'[Got' + k]
  <2>1. Len(net') <= Len(sent')  BY <1>0, <1>1, <1>3
  <2>2. ASSUME NEW k \in 1 .. Len(net') PROVE net'[k] = sent'[Got' + k]
    <3>1. k \in 1 .. Len(net) - n /\ n + k \in 1 .. Len(net) /\ Got + (n + k) = c + k
      BY <1>1, <1>3
    <3>2. net[n + k] = sent[Got + (n + k)]  BY <3>1 DEF InInv, NetInv
    <3> QED  BY <1>0, <1>3, <1>5, <3>1, <3>2
  <2> QED  BY <2>1, <2>2
<1>7. InTypes /\ NetInv /\ CallsInv /\ AnswersInv  BY DEF InInv
<1>8. \A k \in 1 .. Len(idle) : idle[k].cb \notin Receives  BY <1>0, <1>7 DEF CallsInv
<1>9. Expected' = Expected  BY <1>0 DEF Expected, StopAt, Stops
<1>10. CASE ~HasEnough(r)
  <2>1. reader' = r /\ reading' = reading /\ inOpen' = inOpen /\ received' = received
        /\ answer' = answer
    BY <1>10 DEF ReceivedData, r, chunk
  <2>2. Peek(r) = None /\ ~Over(r) /\ (~inOpen => r.state # "opened")
    BY <1>10 DEF HasEnough
  <2>3. r.queue = <<>>
    <3> SUFFICES ASSUME r.queue # <<>> PROVE FALSE  OBVIOUS
    <3>1. r \in Readers  BY <1>4 DEF Core
    <3>2. Head(r.queue) = r.queue[1]  BY <3>1, ReaderFacts, TailFacts
    <3> QED  BY <1>4, <2>2, <3>2 DEF Peek, Settled
  <2>4. ~inOpen => r.parser = "prolog"
    <3> SUFFICES ASSUME ~inOpen, r.parser # "prolog" PROVE FALSE  OBVIOUS
    <3>1. r.parser # "stream"  BY <1>4, <2>2 DEF Core
    <3>2. r \in Readers  BY <1>4 DEF Core
    <3>3. r.parser \in {"ended", "dead"}  BY <3>1, <3>2, ReaderFacts
    <3>4. PICK m \in Nat : Marked(r, c, d, m, sent)  BY <1>4, <3>3 DEF Core
    <3>5. m \in 1 .. 0  BY <2>3, <3>4 DEF Marked
    <3> QED  BY <3>5
  <2>5. InTypes'  BY <1>0, <1>3, <1>7, <2>1 DEF InTypes
  <2>6. NetInv'  BY <1>0, <1>6, <1>7, <2>1 DEF NetInv
  <2>7. CallsInv'
    <3>1. (~inOpen => reader.parser = "prolog")' /\ (reading = "open" => ~inOpen)'
          /\ (reading = "stanza" => inOpen)' /\ reader'.queue = <<>>
      BY <1>7, <2>1, <2>3, <2>4 DEF CallsInv
    <3>2. \A k \in 1 .. Len(idle') : idle'[k].cb \notin Receives  BY <1>0, <1>8
    <3> QED  BY <3>1, <3>2 DEF CallsInv, Receives
  <2>8. AnswersInv'  BY <1>0, <1>1, <1>7, <1>9, <2>1 DEF AnswersInv
  <2>9. Core(reader', Got', Len(received'), sent') /\ Settled(reader')
    BY <1>0, <1>4, <1>5, <2>1
  <2> QED  BY <2>5, <2>6, <2>7, <2>8, <2>9 DEF InInv, Settled, Over
<1>11. CASE HasEnough(r)
  <2>0. reading' = "no"  BY <1>11 DEF ReceivedData, r, chunk
  <2>1. /\ Core(reader', c, Len(received'), sent) /\ Settled(reader')
        /\ received' \in Seq(Incoming) /\ (\A k \in 1 .. Len(received') : received'[k] = sent[k + 1])
        /\ answer' \in {"opened", "stanza", "closed", "error"}
        /\ (answer' \in {"closed", "error"} => Over(reader'))
        /\ (answer' = "closed" => reader'.state = "closed")
        /\ inOpen' = TRUE
    <3>1. CASE reading = "open"
      <4>1. FinishOpen(r)  BY <1>11, <3>1 DEF ReceivedData, r, chunk
      <4> QED  BY <1>4, <1>7, <4>1 DEF FinishOpen, NetInv, InTypes
    <3>2. CASE reading # "open"
      <4>1. FinishStanza(r) /\ inOpen' = inOpen  BY <1>11, <3>2 DEF ReceivedData, r, chunk
      <4>2. inOpen = TRUE  BY <1>0, <1>7, <3>2 DEF CallsInv, InTypes
      <4>3. Over(r) \/ Peek(r) # None  BY <1>11, <4>2 DEF HasEnough
      <4>4. /\ Core(reader', c, Len(received'), sent) /\ Settled(reader')
            /\ received' \in Seq(Incoming) /\ (\A k \in 1 .. Len(received') : received'[k] = sent[k + 1])
            /\ answer' \in {"stanza", "closed", "error"} /\ (answer' # "stanza" => Over(reader'))
            /\ (answer' = "closed" => reader'.state = "closed")
        BY <1>4, <1>7, <4>1, <4>3, FinishKeeps
      <4> QED  BY <4>1, <4>2, <4>4
    <3> QED  BY <3>1, <3>2
  <2>2. InTypes'  BY <1>0, <1>3, <1>7, <2>0, <2>1 DEF InTypes, Answers
  <2>3. NetInv'  BY <1>0, <1>6, <2>1 DEF NetInv
  <2>4. CallsInv'
    <3>1. (~inOpen => reader.parser = "prolog")' /\ (reading = "open" => ~inOpen)'
          /\ (reading = "stanza" => inOpen)' /\ reading' = "no"
      BY <2>0, <2>1
    <3>2. \A k \in 1 .. Len(idle') : idle'[k].cb \notin Receives  BY <1>0, <1>8
    <3> QED  BY <3>1, <3>2 DEF CallsInv, Receives
  <2>5. AnswersInv'  BY <2>1 DEF AnswersInv, Over
  <2>6. Core(reader', Got', Len(received'), sent') /\ Settled(reader')
    BY <1>0, <1>5, <2>1
  <2> QED  BY <2>2, <2>3, <2>4, <2>5, <2>6 DEF InInv, Settled, Over
<1> QED  BY <1>10, <1>11

LEMMA InReadEnded ==
  ASSUME InInv, NEW a \in {"eos", "failed"}, ReadEnded(a)
  PROVE  InInv'
<1>0. reading # "no" /\ reading' = "no" /\ answer' = a /\ (a = "eos" => net = <<>> /\ netEnd)
      /\ inOpen' = inOpen /\ reader' = reader /\ received' = received
      /\ net' = net /\ netEnd' = netEnd /\ sent' = sent /\ tearing' = tearing /\ torn' = torn
      /\ idle' = idle /\ resets' = resets /\ owner' = owner
  BY DEF ReadEnded, netVars, shutVars
<1>1. InTypes'  BY <1>0 DEF InInv, InTypes, Answers
<1>2. NetInv' /\ Got' = Got  BY <1>0 DEF InInv, NetInv, Got
<1>3. CallsInv'  BY <1>0 DEF InInv, CallsInv, Peek, Over
<1>4. Expected' = Expected  BY <1>0 DEF Expected, StopAt, Stops
<1>5. a = "eos" => netEnd /\ received = Expected
  <2> SUFFICES ASSUME a = "eos" PROVE received = Expected  BY <1>0
  <2>1. Got = Len(sent)  BY <1>0, InFacts
  <2>2. reader.queue = <<>>  BY <1>0 DEF InInv, CallsInv
  <2> QED  BY <2>1, <2>2, ReceivedIs DEF InInv
<1>6. AnswersInv'  BY <1>0, <1>4, <1>5 DEF AnswersInv
<1> QED  BY <1>0, <1>1, <1>2, <1>3, <1>6 DEF InInv, Settled, Over

LEMMA InIdleCompletion ==
  ASSUME InInv, IdleCompletion
  PROVE  InInv'
<1>0. idle # <<>> /\ idle' = Tail(idle) /\ reading' = reading /\ inOpen' = inOpen
      /\ net' = net /\ netEnd' = netEnd /\ sent' = sent /\ tearing' = tearing /\ torn' = torn
      /\ resets' = resets /\ owner' = owner
  BY DEF IdleCompletion, netVars, shutVars
<1>1. idle \in Seq(IdleCalls) /\ InTypes /\ NetInv /\ CallsInv /\ AnswersInv
      /\ Core(reader, Got, Len(received), sent) /\ Settled(reader)
  BY DEF InInv, InTypes
<1> DEFINE x == Head(idle)
<1>2. idle' \in Seq(IdleCalls) /\ Len(idle) \in Nat \ {0} /\ Len(idle') = Len(idle) - 1
      /\ x = idle[1] /\ x \in IdleCalls /\ \A k \in 1 .. Len(idle) - 1 : idle'[k] = idle[k + 1]
  BY <1>0, <1>1, TailFacts
<1> HIDE DEF x
<1>3. ASSUME NEW k \in 1 .. Len(idle') PROVE k + 1 \in 1 .. Len(idle) /\ idle'[k] = idle[k + 1] /\ k + 1 # 1
  BY <1>2
<1>n. Got' = Got /\ Expected' = Expected  BY <1>0 DEF Got, Expected, StopAt, Stops
<1>4. CASE x.cb \in Receives
  <2>1. ASSUME NEW k \in 1 .. Len(idle') PROVE idle'[k].cb \notin Receives
    <3>1. 1 \in 1 .. Len(idle)  BY <1>2
    <3> QED  BY <1>1, <1>2, <1>3, <1>4, <3>1 DEF CallsInv
  <2>2. reading = "no"
    <3>1. 1 \in 1 .. Len(idle)  BY <1>2
    <3> QED  BY <1>1, <1>2, <1>4, <3>1 DEF CallsInv
  <2>3. /\ Core(reader', Got, Len(received'), sent) /\ Settled(reader')
        /\ received' \in Seq(Incoming) /\ (\A k \in 1 .. Len(received') : received'[k] = sent[k + 1])
        /\ answer' \in {"stanza", "closed", "error", "is_closed", "is_open", "not_open"}
        /\ (answer' \in {"closed", "error", "is_closed"} => Over(reader'))
        /\ (answer' = "closed" => reader'.state = "closed")
        /\ (~inOpen => reader'.parser = "prolog")
    <3>1. CASE x.cb = "ready"
      <4>1. FinishStanza(reader)  BY <3>1 DEF IdleCompletion, x
      <4>2. Peek(reader) # None
        <5>1. 1 \in 1 .. Len(idle)  BY <1>2
        <5> QED  BY <1>1, <1>2, <3>1, <5>1 DEF CallsInv
      <4>3. /\ Core(reader', Got, Len(received'), sent) /\ Settled(reader')
            /\ received' \in Seq(Incoming) /\ (\A k \in 1 .. Len(received') : received'[k] = sent[k + 1])
            /\ answer' \in {"stanza", "closed", "error"} /\ (answer' # "stanza" => Over(reader'))
            /\ (answer' = "closed" => reader'.state = "closed")
        BY <1>1, <4>1, <4>2, FinishKeeps
      <4>4. inOpen
        <5> SUFFICES ASSUME ~inOpen PROVE FALSE  OBVIOUS
        <5>1. reader.queue = <<>>  BY <1>1 DEF CallsInv, Core
        <5> QED  BY <4>2, <5>1 DEF Peek
      <4> QED  BY <4>3, <4>4
    <3>2. CASE x.cb = "recv"
      <4>1. answer' = x.why /\ reader' = reader /\ received' = received
        BY <3>2 DEF IdleCompletion, x
      <4>2. x.why \in {"is_closed", "is_open", "not_open"} /\ (x.why = "is_closed" => Over(reader))
        <5>1. 1 \in 1 .. Len(idle)  BY <1>2
        <5> QED  BY <1>1, <1>2, <3>2, <5>1 DEF CallsInv
      <4> QED  BY <1>1, <4>1, <4>2 DEF InTypes, NetInv, CallsInv
    <3> QED  BY <1>4, <3>1, <3>2 DEF Receives
  <2>4. InTypes'  BY <1>0, <1>1, <1>2, <2>3 DEF InTypes, Answers
  <2>5. NetInv'  BY <1>0, <1>1, <1>n, <2>3 DEF NetInv
  <2>6. CallsInv'
    <3>1. (~inOpen => reader.parser = "prolog")' /\ (reading = "open" => ~inOpen)'
          /\ (reading = "stanza" => inOpen)' /\ reading' = "no"
      BY <1>0, <2>2, <2>3
    <3> QED  BY <2>1, <3>1 DEF CallsInv, Receives
  <2>7. AnswersInv'  BY <2>3 DEF AnswersInv, Over
  <2> QED  BY <1>0, <1>n, <2>3, <2>4, <2>5, <2>6, <2>7 DEF InInv, Settled, Over
<1>5. CASE x.cb \notin Receives
  <2>1. reader' = reader /\ received' = received /\ answer' = answer
    BY <1>5 DEF IdleCompletion, Receives, x
  <2>2. InTypes'  BY <1>0, <1>1, <1>2, <2>1 DEF InTypes
  <2>3. NetInv'  BY <1>0, <1>1, <1>n, <2>1 DEF NetInv
  <2>4. CallsInv'
    <3>1. (~inOpen => reader.parser = "prolog")' /\ (reading = "open" => ~inOpen)'
          /\ (reading = "stanza" => inOpen)' /\ (reading # "no" => reader.queue = <<>>)'
      BY <1>0, <1>1, <2>1 DEF CallsInv
    <3>2. ASSUME reading' # "no", NEW k \in 1 .. Len(idle') PROVE idle'[k].cb \notin Receives
      BY <1>0, <1>1, <1>3, <3>2 DEF CallsInv
    <3>3. ASSUME NEW i \in 1 .. Len(idle'), NEW j \in 1 .. Len(idle'),
                 idle'[i].cb \in Receives, idle'[j].cb \in Receives
          PROVE  i = j
      <4>1. i + 1 = j + 1  BY <1>1, <1>3, <3>3 DEF CallsInv
      <4> QED  BY <4>1
    <3>4. ASSUME NEW n \in 1 .. Len(idle')
          PROVE  /\ idle'[n].cb = "ready" => Peek(reader') # None
                 /\ idle'[n].cb = "recv" => idle'[n].why \in {"is_closed", "is_open", "not_open"}
                 /\ idle'[n].cb = "recv" /\ idle'[n].why = "is_closed" => Over(reader')
      <4>1. n + 1 \in 1 .. Len(idle) /\ idle'[n] = idle[n + 1]  BY <1>3
      <4> QED  BY <1>1, <2>1, <4>1 DEF CallsInv
    <3> QED  BY <3>1, <3>2, <3>3, <3>4 DEF CallsInv, Peek, Over
  <2>5. AnswersInv'  BY <1>0, <1>1, <1>n, <2>1 DEF AnswersInv, Over
  <2> QED  BY <1>0, <1>1, <1>n, <2>1, <2>2, <2>3, <2>4, <2>5 DEF InInv, Settled, Over
<1> QED  BY <1>4, <1>5

LEMMA InReset ==
  ASSUME InInv, ResetConnection
  PROVE  InInv'
<1>0. reading = "no" /\ idle = <<>> /\ inOpen' = FALSE /\ reader' = Reset(reader) /\ sent' = net
      /\ received' = <<>> /\ answer' = "none" /\ resets' = resets + 1 /\ resets < MaxResets
      /\ reading' = reading /\ net' = net /\ netEnd' = netEnd /\ tearing' = tearing
      /\ torn' = torn /\ idle' = idle /\ owner' = owner
  BY DEF ResetConnection, MayReceive, shutVars
<1>1. reader \in Readers  BY InFacts
<1>2. /\ reader' \in Readers /\ reader'.state = "initial" /\ reader'.queue = <<>>
      /\ reader'.error = FALSE /\ reader'.parser = "prolog"
  BY <1>0, <1>1, NewReaderFacts
<1>3. resets' \in 0 .. MaxResets
  <2>1. MaxResets \in Nat /\ resets \in 0 .. MaxResets
    BY SizeAssumption DEF SizeAssumption, InInv, InTypes
  <2> QED  BY <1>0, <2>1
<1>4. InTypes'
  <2>1. <<>> \in Seq(Incoming)  OBVIOUS
  <2> QED  BY <1>0, <1>3, <2>1 DEF InInv, InTypes, Answers
<1>5. net \in Seq(Tokens) /\ Len(net) \in Nat  BY DEF InInv, InTypes
<1>6. Got' = 0  BY <1>0, <1>5 DEF Got
<1>7. NetInv'
  <2>1. Len(<<>>) = 0 /\ \A k \in 1 .. 0 : FALSE  OBVIOUS
  <2>2. \A k \in 1 .. Len(net) : 0 + k = k  BY <1>5
  <2> QED  BY <1>0, <1>5, <1>6, <2>1, <2>2 DEF NetInv
<1>8. CallsInv'
  <2>1. Len(idle') = 0  BY <1>0
  <2> QED  BY <1>0, <1>2, <2>1 DEF CallsInv, Receives
<1>9. AnswersInv'  BY <1>0 DEF AnswersInv
<1>10. Core(reader', Got', Len(received'), sent')
  <2>1. Len(received') = 0 /\ 0 \in 0 .. Len(sent')  BY <1>0, <1>5
  <2>2. CountsInv(reader'.queue, reader'.count)
    <3>1. Len(reader'.queue) = 0  BY <1>2
    <3> QED  BY <3>1 DEF CountsInv
  <2> DEFINE r == reader'
             d == Len(received')
             c == Got'
             s == sent'
  <2>3. r \in Readers /\ r.state = "initial" /\ r.queue = <<>> /\ r.error = FALSE
        /\ r.parser = "prolog" /\ d = 0 /\ c = 0 /\ 0 \in 0 .. Len(s) /\ CountsInv(r.queue, r.count)
    BY <1>2, <1>6, <2>1, <2>2
  <2> HIDE DEF r, d, c, s
  <2>4. (r.error = (r.parser = "dead"))  BY <2>3
  <2>5. Core(r, c, d, s)  BY <2>3, <2>4 DEF Core
  <2> QED  BY <2>5 DEF r, c, d, s
<1>11. Settled(reader')  BY <1>2 DEF Settled, Over
<1> QED  BY <1>4, <1>7, <1>8, <1>9, <1>10, <1>11 DEF InInv, Settled, Over

\* What the peer sends later does not change what has been read.
LEMMA CoreLonger ==
  ASSUME NEW r, NEW c, NEW d, NEW s \in Seq(Tokens), NEW t \in Tokens, Core(r, c, d, s)
  PROVE  Core(r, c, d, Append(s, t))
<1> DEFINE u == Append(s, t)
<1>1. Len(u) = Len(s) + 1 /\ Len(s) \in Nat /\ (\A k \in 1 .. Len(s) : u[k] = s[k])
  BY AppendFacts
<1> HIDE DEF u
<1>2. r \in Readers /\ c \in 0 .. Len(u) /\ d \in Nat /\ c \in 0 .. Len(s)
      /\ (r.error = (r.parser = "dead")) /\ CountsInv(r.queue, r.count)
      /\ (r.parser = "prolog" => c = 0 /\ d = 0 /\ r.queue = <<>> /\ r.state = "initial")
  BY <1>1 DEF Core
<1>3. Len(r.queue) \in Nat  BY <1>2, ReaderFacts
<1>4. ASSUME r.parser = "stream" PROVE InStream(r, c, d, u) /\ r.state = "opened"
  <2>1. c >= 1 /\ s[1] = "open" /\ (\A k \in 2 .. c : s[k] \in Incoming) /\ r.state = "opened"
        /\ d + Len(r.queue) = c - 1 /\ \A i \in 1 .. Len(r.queue) : Holds(r.queue, i, d, s)
    BY <1>4 DEF Core, InStream
  <2>2. u[1] = "open" /\ \A k \in 2 .. c : u[k] \in Incoming  BY <1>1, <1>2, <2>1
  <2>3. ASSUME NEW i \in 1 .. Len(r.queue) PROVE Holds(r.queue, i, d, u)
    <3>1. d + 1 + i \in 1 .. Len(s)  BY <1>1, <1>2, <1>3, <2>1
    <3> QED  BY <1>1, <2>1, <3>1 DEF Holds
  <2> QED  BY <2>1, <2>2, <2>3 DEF InStream
<1>5. ASSUME r.parser \in {"ended", "dead"} PROVE \E m \in Nat : Marked(r, c, d, m, u)
  <2>1. PICK m \in Nat : Marked(r, c, d, m, s)  BY <1>5 DEF Core
  <2>2. m \in 1 .. Len(r.queue) /\ (\A i \in 1 .. m - 1 : Holds(r.queue, i, d, s))
        /\ \A i \in m .. Len(r.queue) : r.queue[i] = None
    BY <2>1 DEF Marked
  <2>3. CASE s[1] = "open"
    <3>1. d + 1 + m <= c /\ s[d + 1 + m] \notin Incoming /\ (\A k \in 2 .. d + m : s[k] \in Incoming)
          /\ (r.parser = "ended" => s[d + 1 + m] = "close")
      BY <2>1, <2>3 DEF Marked
    <3>2. d + 1 + m \in 1 .. Len(s) /\ 1 \in 1 .. Len(s)  BY <1>1, <1>2, <3>1
    <3>3. u[1] = "open" /\ u[d + 1 + m] = s[d + 1 + m]  BY <1>1, <2>3, <3>2
    <3>4. \A k \in 2 .. d + m : u[k] \in Incoming
      <4> TAKE k \in 2 .. d + m
      <4>1. k \in 1 .. Len(s)  BY <1>1, <1>2, <3>1
      <4> QED  BY <1>1, <3>1, <4>1
    <3>5. ASSUME NEW i \in 1 .. m - 1 PROVE Holds(r.queue, i, d, u)
      <4>1. d + 1 + i \in 1 .. Len(s)  BY <1>1, <1>2, <3>1
      <4> QED  BY <1>1, <2>2, <4>1 DEF Holds
    <3>6. Marked(r, c, d, m, u)  BY <2>2, <3>1, <3>3, <3>4, <3>5 DEF Marked
    <3> QED  BY <3>6
  <2>4. CASE s[1] # "open"
    <3>1. m = 1 /\ d = 0 /\ c >= 1 /\ r.parser = "dead"  BY <2>1, <2>4 DEF Marked
    <3>2. u[1] # "open"
      <4>1. 1 \in 1 .. Len(s)  BY <1>1, <1>2, <3>1
      <4> QED  BY <1>1, <2>4, <4>1
    <3>3. \A i \in 1 .. m - 1 : FALSE  BY <3>1
    <3>4. Marked(r, c, d, m, u)  BY <2>2, <3>1, <3>2, <3>3 DEF Marked
    <3> QED  BY <3>4
  <2> QED  BY <2>3, <2>4
<1>6. Core(r, c, d, u)  BY <1>2, <1>4, <1>5 DEF Core
<1> QED  BY <1>6 DEF u

LEMMA InPeerSends ==
  ASSUME InInv, NEW t \in Tokens, PeerSends(t)
  PROVE  InInv'
<1>0. ~netEnd /\ net' = Append(net, t) /\ sent' = Append(sent, t) /\ netEnd' = netEnd
      /\ reading' = reading /\ inOpen' = inOpen /\ reader' = reader /\ received' = received
      /\ answer' = answer /\ tearing' = tearing /\ torn' = torn /\ idle' = idle
      /\ resets' = resets /\ owner' = owner
  BY DEF PeerSends, inVars, shutVars
<1>1. InTypes /\ NetInv /\ CallsInv /\ AnswersInv /\ Core(reader, Got, Len(received), sent)
      /\ Settled(reader)
  BY DEF InInv
<1>2. net \in Seq(Tokens) /\ sent \in Seq(Tokens) /\ Len(net) \in Nat /\ Len(sent) \in Nat
      /\ Got + Len(net) = Len(sent) /\ Got \in Nat /\ Len(net) <= Len(sent)
  BY <1>1, InFacts DEF InTypes, NetInv
<1>3. net' \in Seq(Tokens) /\ Len(net') = Len(net) + 1 /\ (\A k \in 1 .. Len(net) : net'[k] = net[k])
      /\ net'[Len(net) + 1] = t
  BY <1>0, <1>2, AppendFacts
<1>4. sent' \in Seq(Tokens) /\ Len(sent') = Len(sent) + 1
      /\ (\A k \in 1 .. Len(sent) : sent'[k] = sent[k]) /\ sent'[Len(sent) + 1] = t
  BY <1>0, <1>2, AppendFacts
<1>5. Got' = Got
  <2>1. Len(sent) \in Nat /\ Len(net) \in Nat  BY <1>2
  <2>2. Len(sent) + 1 - (Len(net) + 1) = Len(sent) - Len(net)  BY <2>1
  <2>3. Got' = Len(sent') - Len(net') /\ Got = Len(sent) - Len(net)  BY DEF Got
  <2>4. Len(sent') = Len(sent) + 1 /\ Len(net') = Len(net) + 1  BY <1>3, <1>4
  <2> QED  BY <2>2, <2>3, <2>4
<1>6. InTypes'  BY <1>0, <1>1, <1>3, <1>4 DEF InTypes
<1>7. NetInv'
  <2>1. Len(net') <= Len(sent')  BY <1>2, <1>3, <1>4
  <2>2. ASSUME NEW k \in 1 .. Len(net') PROVE net'[k] = sent'[Got' + k]
    <3>1. CASE k = Len(net) + 1
      <4>1. Got + k = Len(sent) + 1  BY <1>2, <3>1
      <4> QED  BY <1>3, <1>4, <1>5, <3>1, <4>1
    <3>2. CASE k # Len(net) + 1
      <4>1. k \in 1 .. Len(net) /\ Got + k \in 1 .. Len(sent)  BY <1>2, <1>3, <3>2
      <4> QED  BY <1>1, <1>3, <1>4, <1>5, <4>1 DEF NetInv
    <3> QED  BY <3>1, <3>2
  <2>3. ASSUME NEW k \in 1 .. Len(received) PROVE received[k] = sent'[k + 1]
    <3>1. Len(received) \in Nat /\ received[k] = sent[k + 1]  BY <1>1 DEF NetInv, InTypes
    <3>2. Len(received) = 0 \/ Len(received) + 1 <= Len(sent)
      <4> DEFINE d == Len(received)
                 q == reader.queue
      <4>0. reader \in Readers /\ Got <= Len(sent) /\ d \in Nat  BY <1>2, <3>1, InFacts
      <4>q. Len(q) \in Nat  BY <4>0, ReaderFacts
      <4>1. CASE reader.parser = "prolog"  BY <1>1, <4>1 DEF Core
      <4>2. CASE reader.parser = "stream"
        <5>1. d + Len(q) = Got - 1  BY <1>1, <4>2 DEF Core, InStream
        <5> HIDE DEF d, q
        <5>2. d + 1 <= Len(sent)  BY <1>2, <4>0, <4>q, <5>1
        <5> QED  BY <5>2 DEF d
      <4>3. CASE reader.parser \in {"ended", "dead"}
        <5>1. PICK m \in Nat : Marked(reader, Got, d, m, sent)  BY <1>1, <4>3 DEF Core
        <5>2. d = 0 \/ d + 1 + m <= Got  BY <5>1 DEF Marked
        <5> HIDE DEF d
        <5>3. d = 0 \/ d + 1 <= Len(sent)  BY <1>2, <4>0, <5>2
        <5> QED  BY <5>3 DEF d
      <4> QED  BY <4>0, <4>1, <4>2, <4>3, ReaderFacts
    <3>3. k + 1 \in 1 .. Len(sent)  BY <1>2, <3>1, <3>2
    <3> QED  BY <1>4, <3>1, <3>3
  <2> QED  BY <1>0, <2>1, <2>2, <2>3 DEF NetInv
<1>8. CallsInv'  BY <1>0, <1>1 DEF CallsInv, Peek, Over
<1>9. AnswersInv'  BY <1>0, <1>1 DEF AnswersInv, Over
<1>10. Core(reader', Got', Len(received'), sent')
  BY <1>0, <1>1, <1>2, <1>5, CoreLonger
<1> QED  BY <1>0, <1>1, <1>6, <1>7, <1>8, <1>9, <1>10 DEF InInv, Settled, Over

LEMMA InPeerShuts ==
  ASSUME InInv, PeerShuts
  PROVE  InInv'
<1>1. netEnd' = TRUE /\ reading' = reading /\ inOpen' = inOpen /\ reader' = reader
      /\ received' = received /\ answer' = answer /\ net' = net /\ sent' = sent /\ idle' = idle
      /\ tearing' = tearing /\ torn' = torn /\ resets' = resets /\ owner' = owner
  BY DEF PeerShuts, inVars, shutVars
<1>2. InTypes'  BY <1>1 DEF InInv, InTypes
<1>3. NetInv' /\ Got' = Got  BY <1>1 DEF InInv, NetInv, Got
<1>4. CallsInv'  BY <1>1 DEF InInv, CallsInv, Peek, Over
<1>5. Expected' = Expected  BY <1>1 DEF Expected, StopAt, Stops
<1>6. AnswersInv'  BY <1>1, <1>5 DEF InInv, AnswersInv, Over
<1> QED  BY <1>1, <1>2, <1>3, <1>4, <1>6 DEF InInv, Settled, Over

LEMMA InInit == Init => InInv
<1> SUFFICES ASSUME Init PROVE InInv  OBVIOUS
<1>0. reading = "no" /\ inOpen = FALSE /\ reader = NewReader /\ received = <<>> /\ answer = "none"
      /\ net = <<>> /\ netEnd = FALSE /\ sent = <<>> /\ tearing = FALSE /\ torn = FALSE
      /\ idle = <<>> /\ resets = 0 /\ owner = "connector" /\ Len(<<>>) = 0
  BY DEF Init
<1>1. 0 \in 0 .. MaxResets /\ MaxResets \in Nat  BY SizeAssumption DEF SizeAssumption
<1>2. <<>> \in Seq(Incoming) /\ <<>> \in Seq(Tokens) /\ <<>> \in Seq(IdleCalls)  OBVIOUS
<1>3. InTypes  BY <1>0, <1>1, <1>2 DEF InTypes, Answers
<1>4. Got = 0 /\ Len(net) = 0 /\ Len(sent) = 0 /\ Len(received) = 0 /\ Len(idle) = 0
  BY <1>0 DEF Got
<1>5. NetInv  BY <1>4 DEF NetInv
<1>6. /\ reader \in Readers /\ reader.state = "initial" /\ reader.queue = <<>>
      /\ reader.error = FALSE /\ reader.parser = "prolog"
  <2>1. NewReader \in Readers  BY DEF NewReader, Readers
  <2> QED  BY <1>0, <2>1 DEF NewReader
<1>7. CallsInv  BY <1>0, <1>4, <1>6 DEF CallsInv
<1>8. AnswersInv  BY <1>0 DEF AnswersInv
<1>9. Core(reader, Got, Len(received), sent)
  <2>1. CountsInv(reader.queue, reader.count)  BY <1>0, <1>6 DEF CountsInv
  <2>2. (reader.error = (reader.parser = "dead"))  BY <1>6
  <2> DEFINE r == reader
  <2> HIDE DEF r
  <2>3. Core(r, 0, 0, sent)  BY <1>4, <1>6, <2>1, <2>2 DEF Core, r
  <2> QED  BY <1>4, <2>3 DEF r
<1>10. Settled(reader)  BY <1>6 DEF Settled, Over
<1> QED  BY <1>3, <1>5, <1>7, <1>8, <1>9, <1>10 DEF InInv

LEMMA InSubmit ==
  ASSUME InInv, NEW x \in Outputs, NEW why \in Answers \cup {"ok"}, Submit(x, why)
  PROVE  InInv'
<1>0. UNCHANGED <<inVars, netVars>> /\ tearing' = tearing /\ torn' = torn /\ resets' = resets
      /\ owner' = owner
  BY DEF Submit, shutVars
<1>1. tearing' \in BOOLEAN /\ torn' \in BOOLEAN /\ resets' \in 0 .. MaxResets
      /\ owner' \in {"connector", "porter"}
  BY <1>0 DEF InInv, InTypes
<1>2. CASE why = "ok"
  <2>1. idle' = idle  BY <1>2 DEF Submit, SendAnswer
  <2> QED  BY <1>0, <1>1, <2>1, InKept
<1>3. CASE why # "ok"
  <2> DEFINE cb == CallbackOf(x)
             e == IdleCall(cb, why)
  <2>1. cb \in {"stanza", "ping", "close", "open"}  BY ItemFacts
  <2>2. idle' = Append(idle, e)  BY <1>3 DEF Submit, SendAnswer
  <2> HIDE DEF cb
  <2>3. e \in IdleCalls /\ e.cb = cb  BY <1>3, <2>1 DEF IdleCall, IdleCalls
  <2>4. e.cb \notin Receives  BY <2>1, <2>3 DEF Receives
  <2> HIDE DEF e
  <2> QED  BY <1>0, <1>1, <2>2, <2>3, <2>4, InQueued
<1> QED  BY <1>2, <1>3

LEMMA InForceClose ==
  ASSUME InInv, ForceCloseAsync
  PROVE  InInv'
<1>0. UNCHANGED <<inVars, netVars>> /\ torn' = torn /\ resets' = resets /\ owner' = owner
  BY DEF ForceCloseAsync
<1>1. tearing' \in BOOLEAN /\ torn' \in BOOLEAN /\ resets' \in 0 .. MaxResets
      /\ owner' \in {"connector", "porter"}
  BY <1>0 DEF ForceCloseAsync, InInv, InTypes
<1>2. CASE tearing
  <2> DEFINE e == IdleCall("force", "pending")
  <2>1. idle' = Append(idle, e)  BY <1>2 DEF ForceCloseAsync
  <2>2. e \in IdleCalls /\ e.cb \notin Receives  BY DEF IdleCall, IdleCalls, Answers, Receives
  <2> HIDE DEF e
  <2> QED  BY <1>0, <1>1, <2>1, <2>2, InQueued
<1>3. CASE ~tearing
  <2>1. idle' = idle  BY <1>3 DEF ForceCloseAsync
  <2> QED  BY <1>0, <1>1, <2>1, InKept
<1> QED  BY <1>2, <1>3

LEMMA InStep == InInv /\ [Next]_vars => InInv'
<1> SUFFICES ASSUME InInv, [Next]_vars PROVE InInv'  OBVIOUS
<1>0. tearing \in BOOLEAN /\ torn \in BOOLEAN /\ resets \in 0 .. MaxResets
      /\ owner \in {"connector", "porter"}
  BY DEF InInv, InTypes
<1>1. CASE UNCHANGED vars  BY <1>0, <1>1, InKept DEF vars, shutVars
<1>2. CASE SendOpenAsync  BY <1>2, InSubmit DEF SendOpenAsync, Outputs, Answers
<1>3. ASSUME NEW stanza \in Stanzas, SendStanzaAsync(stanza) PROVE InInv'
  BY <1>3, InSubmit DEF SendStanzaAsync, Outputs, Answers
<1>4. CASE SendWhitespacePingAsync
  BY <1>4, InSubmit DEF SendWhitespacePingAsync, Outputs, Answers
<1>5. CASE SendCloseAsync  BY <1>5, InSubmit DEF SendCloseAsync, Outputs, Answers
<1>6. ASSUME NEW opening \in BOOLEAN, RecvAsync(opening) PROVE InInv'  BY <1>6, InRecvAsync
<1>7. CASE ResetConnection  BY <1>7, InReset
<1>8. CASE HandOver  BY <1>0, <1>8, InKept DEF HandOver, shutVars
<1>9. CASE ForceCloseAsync  BY <1>9, InForceClose
<1>10. ASSUME NEW n, WriteCb(n) PROVE InInv'  BY <1>0, <1>10, InKept DEF WriteCb, shutVars
<1>11. CASE WriteFailed  BY <1>0, <1>11, InKept DEF WriteFailed, shutVars
<1>12. ASSUME NEW n, ReceivedData(n) PROVE InInv'  BY <1>12, InReceivedData
<1>13. ASSUME NEW a \in {"eos", "failed"}, ReadEnded(a) PROVE InInv'  BY <1>13, InReadEnded
<1>14. ASSUME NEW ok \in BOOLEAN, StreamCloseCb(ok) PROVE InInv'
  <2>1. UNCHANGED <<inVars, netVars, idle>> /\ tearing' = FALSE /\ torn' = (torn \/ ok)
        /\ resets' = resets /\ owner' = owner
    BY <1>14 DEF StreamCloseCb
  <2>2. torn' \in BOOLEAN  BY <1>0, <2>1
  <2> QED  BY <1>0, <2>1, <2>2, InKept
<1>15. CASE IdleCompletion  BY <1>15, InIdleCompletion
<1>16. ASSUME NEW t \in Tokens, PeerSends(t) PROVE InInv'  BY <1>16, InPeerSends
<1>17. CASE PeerShuts  BY <1>17, InPeerShuts
<1> QED
  BY <1>1, <1>2, <1>3, <1>4, <1>5, <1>6, <1>7, <1>8, <1>9, <1>10, <1>11, <1>12, <1>13, <1>14,
     <1>15, <1>16, <1>17 DEF Next, Connect, Use, Stream

LEMMA InInvImplies == WireInv /\ InInv => StreamIsDelivered
<1> SUFFICES ASSUME WireInv, InInv PROVE StreamIsDelivered  OBVIOUS
<1>1. InTypes /\ NetInv /\ AnswersInv /\ Core(reader, Got, Len(received), sent)
      /\ Settled(reader)
  BY DEF InInv
<1>2. /\ DeliveredInOrder
      /\ Over(reader) => received = Expected
      /\ reader.state = "closed" => StopAt <= Len(sent) /\ sent[StopAt] = "close"
  BY <1>1, ReceivedIs
<1>3. TypeOK  BY <1>1 DEF WireInv, OutTypes, InTypes, TypeOK, Core
<1>4. ReportsAreTrue  BY <1>1, <1>2 DEF AnswersInv, ReportsAreTrue
<1>5. CountsAreExact
  <2>1. reader \in Readers /\ CountsInv(reader.queue, reader.count)  BY <1>1 DEF Core
  <2>2. DOMAIN reader.queue = 1 .. Len(reader.queue)  BY <2>1, ReaderFacts
  <2> QED  BY <2>1, <2>2 DEF CountsInv, CountsAreExact
<1> QED  BY <1>2, <1>3, <1>4, <1>5 DEF StreamIsDelivered

\* Whatever the chunks the peer's stream arrives in (received_data), wherever it is started
\* afresh and however it ends, the stanzas are delivered in order and none twice; its end is
\* reported when all of them were received, as closed only after </stream>; a receive that ends
\* without an error has a stanza; and the stanzas that wait carry exact counts.
THEOREM StreamsAreDelivered == Spec => []StreamIsDelivered
BY WireInit, WireStep, InInit, InStep, InInvImplies, PTL DEF Spec
-----------------------------------------------------------------------------
(* The pipe: what a porter sees of the connection *)

Told(c) == [cb |-> c.cb, op |-> None, why |-> IF c.why = "pending" THEN "busy" ELSE "failed"]
Replies == {c \in IdleCalls : c.cb # "ready"}
Tolds(seq) == [n \in DOMAIN seq |-> Told(seq[n])]
Ready == \E n \in DOMAIN idle : idle[n].cb = "ready"

\* What the connector leaves to the porter stays so.
UsedInv ==
  Used => /\ outOpen /\ inOpen
          /\ writing \in Stanzas \cup {"ping", "close", None}
          /\ \A n \in 1 .. Len(idle) : idle[n].cb # "open"

LEMMA ToldsType ==
  ASSUME NEW s \in Seq(IdleCalls)
  PROVE  /\ Tolds(s) \in Seq({Told(c) : c \in IdleCalls}) /\ Len(Tolds(s)) = Len(s)
         /\ \A k \in 1 .. Len(s) : Tolds(s)[k] = Told(s[k])
         /\ DOMAIN Tolds(s) = 1 .. Len(s)
<1> DEFINE T == {Told(c) : c \in IdleCalls}
           a == Tolds(s)
<1>1. Len(s) \in Nat /\ DOMAIN s = 1 .. Len(s) /\ \A k \in 1 .. Len(s) : s[k] \in IdleCalls
  BY ElementFacts
<1>2. a = [k \in 1 .. Len(s) |-> Told(s[k])]  BY <1>1 DEF Tolds
<1>3. \A k \in 1 .. Len(s) : Told(s[k]) \in T  BY <1>1
<1> HIDE DEF a, T
<1>4. \A k \in 1 .. Len(s) : a[k] = Told(s[k])  BY <1>2
<1>5. a \in Seq(T)  BY <1>1, <1>2, <1>3, IsASeq
<1>6. Len(a) = Len(s) /\ DOMAIN a = 1 .. Len(s)  BY <1>1, <1>2, <1>5
<1> QED  BY <1>4, <1>5, <1>6 DEF a, T

\* A callback that is to be told of an error is told of it last.
LEMMA ToldsAppend ==
  ASSUME NEW s \in Seq(IdleCalls), NEW c \in IdleCalls
  PROVE  /\ c.cb # "ready" => Tolds(Those(Append(s, c), Replies))
                                = Append(Tolds(Those(s, Replies)), Told(c))
         /\ c.cb = "ready" => Tolds(Those(Append(s, c), Replies)) = Tolds(Those(s, Replies))
<1> DEFINE t == Those(s, Replies)
           u == Append(t, c)
           T == {Told(e) : e \in IdleCalls}
           a == Tolds(t)
           x == Told(c)
           b == Append(a, x)
<1>1. Those(Append(s, c), Replies) = IF c \in Replies THEN u ELSE t
  BY ThoseAppend
<1>2. c \in Replies <=> c.cb # "ready"  BY DEF Replies
<1>3. t \in Seq(IdleCalls)  BY ThoseType
<1> HIDE DEF t
<1>4. u \in Seq(IdleCalls) /\ Len(u) = Len(t) + 1 /\ (\A k \in 1 .. Len(t) : u[k] = t[k])
      /\ u[Len(t) + 1] = c /\ Len(t) \in Nat
  BY <1>3, AppendFacts
<1> HIDE DEF u
<1>5. a \in Seq(T) /\ Len(a) = Len(t) /\ \A k \in 1 .. Len(t) : a[k] = Told(t[k])
  BY <1>3, ToldsType
<1>6. x \in T  OBVIOUS
<1>x. x = Told(c)  OBVIOUS
<1> HIDE DEF a, T, x
<1>7. b \in Seq(T) /\ Len(b) = Len(t) + 1 /\ (\A k \in 1 .. Len(t) : b[k] = a[k])
      /\ b[Len(t) + 1] = x
  BY <1>5, <1>6, AppendFacts
<1> HIDE DEF b
<1>8. Tolds(u) \in Seq(T) /\ Len(Tolds(u)) = Len(t) + 1
      /\ \A k \in 1 .. Len(t) + 1 : Tolds(u)[k] = Told(u[k])
  BY <1>4, ToldsType DEF T
<1>9. ASSUME NEW k \in 1 .. Len(t) + 1 PROVE Tolds(u)[k] = b[k]
  <2>1. CASE k \in 1 .. Len(t)  BY <1>4, <1>5, <1>7, <1>8, <2>1
  <2>2. CASE k \notin 1 .. Len(t)
    <3>1. k = Len(t) + 1  BY <1>4, <2>2
    <3> QED  BY <1>x, <1>4, <1>7, <1>8, <3>1
  <2> QED  BY <2>1, <2>2
<1>10. Tolds(u) = b  BY <1>7, <1>8, <1>9, SameAs
<1> QED  BY <1>1, <1>2, <1>10 DEF a, b, x, t, u

\* The first of them is told first.
LEMMA ToldsTail ==
  ASSUME NEW s \in Seq(IdleCalls), s # <<>>
  PROVE  LET h == Head(s) IN
         /\ h.cb = "ready" => Tolds(Those(s, Replies)) = Tolds(Those(Tail(s), Replies))
         /\ h.cb # "ready" => /\ Tolds(Those(s, Replies)) # <<>>
                              /\ Head(Tolds(Those(s, Replies))) = Told(h)
                              /\ Tail(Tolds(Those(s, Replies))) = Tolds(Those(Tail(s), Replies))
<1> DEFINE h == Head(s)
           t == Those(Tail(s), Replies)
           u == <<h>> \o t
           T == {Told(e) : e \in IdleCalls}
           a == Tolds(t)
           b == Tolds(u)
<1>1. Those(s, Replies) = IF h \in Replies THEN u ELSE t  BY ThoseTail
<1>2. h \in IdleCalls /\ Tail(s) \in Seq(IdleCalls)  BY TailFacts
<1>3. h \in Replies <=> h.cb # "ready"  BY <1>2 DEF Replies
<1>4. t \in Seq(IdleCalls)  BY <1>2, ThoseType
<1> HIDE DEF t, h
<1>5. u \in Seq(IdleCalls) /\ Len(u) = Len(t) + 1 /\ u[1] = h /\ Len(t) \in Nat
      /\ \A k \in 1 .. Len(t) : u[k + 1] = t[k]
  BY <1>2, <1>4
<1> HIDE DEF u
<1>6. a \in Seq(T) /\ Len(a) = Len(t) /\ \A k \in 1 .. Len(t) : a[k] = Told(t[k])
  BY <1>4, ToldsType
<1>7. b \in Seq(T) /\ Len(b) = Len(t) + 1 /\ \A k \in 1 .. Len(t) + 1 : b[k] = Told(u[k])
  BY <1>5, ToldsType
<1> HIDE DEF a, b, T
<1>8. b # <<>>  BY <1>5, <1>7
<1>9. Tail(b) \in Seq(T) /\ Len(Tail(b)) = Len(t) /\ Head(b) = b[1]
      /\ \A k \in 1 .. Len(t) : Tail(b)[k] = b[k + 1]
  <2>1. Tail(b) \in Seq(T) /\ Len(Tail(b)) = Len(b) - 1 /\ Head(b) = b[1]
        /\ \A k \in 1 .. Len(b) - 1 : Tail(b)[k] = b[k + 1]
    BY <1>7, <1>8, TailFacts
  <2>2. Len(b) - 1 = Len(t)  BY <1>5, <1>7
  <2> QED  BY <2>1, <2>2
<1>10. Head(b) = Told(h)
  <2>1. 1 \in 1 .. Len(t) + 1  BY <1>5
  <2> QED  BY <1>5, <1>7, <1>9, <2>1
<1>11. ASSUME NEW k \in 1 .. Len(t) PROVE Tail(b)[k] = a[k]
  <2>1. k + 1 \in 1 .. Len(t) + 1  BY <1>5
  <2> QED  BY <1>5, <1>6, <1>7, <1>9, <2>1
<1>12. Tail(b) = a
  <2>1. Len(Tail(b)) = Len(a)  BY <1>6, <1>9
  <2>2. \A k \in 1 .. Len(Tail(b)) : Tail(b)[k] = a[k]  BY <1>9, <1>11
  <2>3. a \in Seq(T) /\ Tail(b) \in Seq(T)  BY <1>6, <1>9
  <2> DEFINE v == Tail(b)
  <2> HIDE DEF v
  <2>4. v = a  BY <2>1, <2>2, <2>3, SameAs DEF v
  <2> QED  BY <2>4 DEF v
<1> QED  BY <1>1, <1>3, <1>8, <1>10, <1>12 DEF a, b, t, u, h

\* When a callback comes to wait, or the first one has run, which of them have a stanza?
LEMMA ReadyAppend ==
  ASSUME idle \in Seq(IdleCalls), NEW c \in IdleCalls, idle' = Append(idle, c)
  PROVE  Ready' = (Ready \/ c.cb = "ready")
<1>1. idle' \in Seq(IdleCalls) /\ Len(idle') = Len(idle) + 1 /\ Len(idle) \in Nat
      /\ (\A k \in 1 .. Len(idle) : idle'[k] = idle[k]) /\ idle'[Len(idle) + 1] = c
  BY AppendFacts
<1>2. DOMAIN idle = 1 .. Len(idle) /\ DOMAIN idle' = 1 .. Len(idle) + 1  BY <1>1
<1>3. ASSUME Ready \/ c.cb = "ready" PROVE Ready'
  <2>1. CASE Ready
    <3>1. PICK n \in 1 .. Len(idle) : idle[n].cb = "ready"  BY <1>2, <2>1 DEF Ready
    <3>2. n \in 1 .. Len(idle) + 1  BY <1>1
    <3> QED  BY <1>1, <1>2, <3>1, <3>2 DEF Ready
  <2>2. CASE c.cb = "ready"
    <3>1. Len(idle) + 1 \in 1 .. Len(idle) + 1  BY <1>1
    <3> QED  BY <1>1, <1>2, <2>2, <3>1 DEF Ready
  <2> QED  BY <1>3, <2>1, <2>2
<1>4. ASSUME Ready' PROVE Ready \/ c.cb = "ready"
  <2>1. PICK n \in 1 .. Len(idle) + 1 : idle'[n].cb = "ready"  BY <1>2, <1>4 DEF Ready
  <2>2. n = Len(idle) + 1 \/ n \in 1 .. Len(idle)  BY <1>1
  <2> QED  BY <1>1, <1>2, <2>1, <2>2 DEF Ready
<1>5. (c.cb = "ready") \in BOOLEAN /\ Ready \in BOOLEAN /\ Ready' \in BOOLEAN  BY DEF Ready
<1> QED  BY <1>3, <1>4, <1>5

LEMMA ReadyTail ==
  ASSUME idle \in Seq(IdleCalls), idle # <<>>, idle' = Tail(idle)
  PROVE  Ready = (Ready' \/ Head(idle).cb = "ready")
<1>1. idle' \in Seq(IdleCalls) /\ Len(idle) \in Nat \ {0} /\ Len(idle') = Len(idle) - 1
      /\ Head(idle) = idle[1] /\ \A k \in 1 .. Len(idle) - 1 : idle'[k] = idle[k + 1]
  BY TailFacts
<1>2. DOMAIN idle = 1 .. Len(idle) /\ DOMAIN idle' = 1 .. Len(idle) - 1  BY <1>1
<1>3. ASSUME Ready' \/ Head(idle).cb = "ready" PROVE Ready
  <2>1. CASE Ready'
    <3>1. PICK n \in 1 .. Len(idle) - 1 : idle'[n].cb = "ready"  BY <1>2, <2>1 DEF Ready
    <3>2. n + 1 \in 1 .. Len(idle)  BY <1>1
    <3> QED  BY <1>1, <1>2, <3>1, <3>2 DEF Ready
  <2>2. CASE Head(idle).cb = "ready"
    <3>1. 1 \in 1 .. Len(idle)  BY <1>1
    <3> QED  BY <1>1, <1>2, <2>2, <3>1 DEF Ready
  <2> QED  BY <1>3, <2>1, <2>2
<1>4. ASSUME Ready PROVE Ready' \/ Head(idle).cb = "ready"
  <2>1. PICK n \in 1 .. Len(idle) : idle[n].cb = "ready"  BY <1>2, <1>4 DEF Ready
  <2>2. CASE n = 1  BY <1>1, <2>1, <2>2
  <2>3. CASE n # 1
    <3>1. n - 1 \in 1 .. Len(idle) - 1 /\ (n - 1) + 1 = n  BY <1>1, <2>3
    <3>2. idle'[n - 1] = idle[n]  BY <1>1, <3>1
    <3> QED  BY <1>2, <2>1, <3>1, <3>2 DEF Ready
  <2> QED  BY <2>2, <2>3
<1>5. (Head(idle).cb = "ready") \in BOOLEAN /\ Ready \in BOOLEAN /\ Ready' \in BOOLEAN
  BY DEF Ready
<1> QED  BY <1>3, <1>4, <1>5

\* A step of the connection that the porter cannot see, before and after the hand-over
LEMMA PipeSame ==
  ASSUME owner = "porter", owner' = "porter", writing' = writing, outClosed' = outClosed,
         Those(written, Stanzas)' = Those(written, Stanzas),
         (reading # "no" \/ Ready)' = (reading # "no" \/ Ready),
         InputIsClosed' = InputIsClosed, tearing' = tearing, torn' = torn,
         Tolds(Those(idle, Replies))' = Tolds(Those(idle, Replies))
  PROVE  UNCHANGED Pipe!connVars
BY DEF Pipe!connVars, Used, Mapped, Ready, Tolds, Told, Replies

LEMMA PipeWaits ==
  ASSUME owner # "porter", owner' # "porter"
  PROVE  UNCHANGED Pipe!connVars
BY DEF Pipe!connVars, Used, Mapped

LEMMA PipeInit ==
  ASSUME Init
  PROVE  Pipe!ConnInit
BY DEF Pipe!ConnInit, Init, Used, Mapped

LEMMA PipeHandOver ==
  ASSUME owner = "connector", HandOver, InInv
  PROVE  UNCHANGED Pipe!connVars /\ UsedInv'
<1>0. owner' = "porter" /\ writing = None /\ outOpen /\ inOpen /\ ~outClosed /\ ~InputIsClosed
      /\ ~tearing /\ ~torn /\ reading = "no" /\ idle = <<>> /\ written' = <<>>
      /\ writing' = writing /\ outOpen' = outOpen /\ outClosed' = outClosed /\ reading' = reading
      /\ inOpen' = inOpen /\ reader' = reader /\ tearing' = tearing /\ torn' = torn /\ idle' = idle
  BY DEF HandOver, inVars, shutVars, MayReceive
<1>1. Those(<<>>, Stanzas) = <<>> /\ Those(<<>>, Replies) = <<>>  BY ThoseEmpty
<1>2. Len(<<>>) = 0  OBVIOUS
<1>3. Tolds(<<>>) = <<>>  BY DEF Tolds
<1>4. ~Ready'  BY <1>0 DEF Ready
<1>5. UsedInv'  BY <1>0, <1>2 DEF UsedInv
<1>6. Those(written, Stanzas)' = <<>> /\ Tolds(Those(idle, Replies))' = <<>>
  BY <1>0, <1>1, <1>3
<1>7. UNCHANGED Pipe!connVars
  BY <1>0, <1>4, <1>6
  DEF Pipe!connVars, Used, Mapped, Ready, Tolds, Told, Replies, InputIsClosed, Over
<1> QED  BY <1>5, <1>7

LEMMA PipeSubmit ==
  ASSUME UsedInv, InInv, owner = "porter", NEW x \in Stanzas \cup {"ping", "close"}, NEW why,
         why = IF writing # None THEN "pending" ELSE IF outClosed THEN "is_closed" ELSE "ok",
         Submit(x, why)
  PROVE  Pipe!ConnSend(x) /\ UsedInv'
<1> DEFINE e == IdleCall(CallbackOf(x), why)
<1>0. owner' = "porter" /\ outOpen' = outOpen /\ inOpen' = inOpen /\ outClosed' = outClosed
      /\ written' = written /\ reading' = reading /\ reader' = reader /\ tearing' = tearing
      /\ torn' = torn
  BY DEF Submit, inVars, netVars, shutVars
<1>1. /\ outOpen /\ inOpen /\ writing \in Stanzas \cup {"ping", "close", None}
      /\ idle \in Seq(IdleCalls) /\ \A n \in 1 .. Len(idle) : idle[n].cb # "open"
  BY DEF UsedInv, Used, InInv, InTypes
<1>2. CASE why = "ok"
  <2>1. writing' = x /\ idle' = idle /\ writing = None /\ ~outClosed
    BY <1>2 DEF Submit, SendAnswer
  <2>2. UsedInv'  BY <1>0, <1>1, <2>1 DEF UsedInv
  <2>3. Pipe!ConnSend(x)  BY <1>0, <2>1 DEF Pipe!ConnSend, Used, Mapped, InputIsClosed
  <2> QED  BY <2>2, <2>3
<1>3. CASE why # "ok"
  <2>1. writing' = writing /\ idle' = Append(idle, e) /\ (writing # None \/ outClosed)
        /\ why \in {"pending", "is_closed"}
    BY <1>3 DEF Submit, SendAnswer
  <2>2. e \in IdleCalls /\ e.cb = CallbackOf(x) /\ e.why = why
        /\ CallbackOf(x) \in {"stanza", "ping", "close"}
    BY <2>1 DEF IdleCall, IdleCalls, Answers, CallbackOf
  <2>3. Told(e) = Pipe!IdleCall(Pipe!CallbackOf(x), None,
                                IF writing # None THEN "busy" ELSE "failed")
    BY <1>3 DEF Told, Pipe!IdleCall, Pipe!CallbackOf, IdleCall, CallbackOf
  <2> HIDE DEF e
  <2>4. Tolds(Those(idle, Replies))' = Append(Tolds(Those(idle, Replies)), Told(e))
    BY <1>1, <2>1, <2>2, ToldsAppend
  <2>5. Ready' = Ready  BY <1>1, <2>1, <2>2, ReadyAppend DEF Ready
  <2>6. \A n \in 1 .. Len(idle') : idle'[n].cb # "open"
    BY <1>1, <2>1, <2>2, AppendFacts
  <2>7. UsedInv'  BY <1>0, <1>1, <2>1, <2>6 DEF UsedInv
  <2>8. Pipe!ConnSend(x)
    BY <1>0, <2>1, <2>3, <2>4, <2>5
    DEF Pipe!ConnSend, Used, Mapped, InputIsClosed, Ready, Tolds, Told, Replies
  <2> QED  BY <2>7, <2>8
<1> QED  BY <1>2, <1>3

LEMMA PipeRecv ==
  ASSUME UsedInv, InInv, owner = "porter", RecvAsync(FALSE)
  PROVE  Pipe!ConnRecv /\ UsedInv'
<1>0. owner' = "porter" /\ writing' = writing /\ outOpen' = outOpen /\ inOpen' = inOpen
      /\ outClosed' = outClosed /\ written' = written /\ reader' = reader /\ tearing' = tearing
      /\ torn' = torn /\ MayReceive
  BY DEF RecvAsync, outVars, netVars, shutVars
<1>1. /\ outOpen /\ inOpen /\ writing \in Stanzas \cup {"ping", "close", None}
      /\ idle \in Seq(IdleCalls) /\ \A n \in 1 .. Len(idle) : idle[n].cb # "open"
  BY DEF UsedInv, Used, InInv, InTypes
<1>2. reading = "no" /\ ~Ready  BY <1>0 DEF MayReceive, Ready
<1>3. RecvRefusal(FALSE) = IF InputIsClosed THEN "is_closed" ELSE "ok"
  BY <1>1 DEF RecvRefusal
<1>c. ASSUME NEW c \in IdleCalls, c.cb # "open", idle' = Append(idle, c)
      PROVE  /\ \A n \in 1 .. Len(idle') : idle'[n].cb # "open"
             /\ Ready' = (c.cb = "ready")
             /\ c.cb # "ready" => Tolds(Those(idle, Replies))'
                                    = Append(Tolds(Those(idle, Replies)), Told(c))
             /\ c.cb = "ready" => Tolds(Those(idle, Replies))' = Tolds(Those(idle, Replies))
  <2>1. \A n \in 1 .. Len(idle') : idle'[n].cb # "open"  BY <1>1, <1>c, AppendFacts
  <2>2. Ready' = (c.cb = "ready")  BY <1>1, <1>2, <1>c, ReadyAppend
  <2>3. /\ c.cb # "ready" => Tolds(Those(idle', Replies))
                               = Append(Tolds(Those(idle, Replies)), Told(c))
        /\ c.cb = "ready" => Tolds(Those(idle', Replies)) = Tolds(Those(idle, Replies))
    BY <1>1, <1>c, ToldsAppend
  <2>4. Tolds(Those(idle, Replies))' = Tolds(Those(idle', Replies))  BY DEF Tolds, Replies
  <2> QED  BY <2>1, <2>2, <2>3, <2>4
<1>4. CASE InputIsClosed
  <2> DEFINE e == IdleCall("recv", "is_closed")
  <2>1. idle' = Append(idle, e) /\ reading' = reading  BY <1>3, <1>4 DEF RecvAsync
  <2>2. e \in IdleCalls /\ e.cb = "recv"  BY DEF IdleCall, IdleCalls, Answers
  <2>3. Told(e) = Pipe!IdleCall("recv", None, "failed")  BY DEF Told, Pipe!IdleCall, IdleCall
  <2> HIDE DEF e
  <2>4. (\A n \in 1 .. Len(idle') : idle'[n].cb # "open") /\ ~Ready'
        /\ Tolds(Those(idle, Replies))' = Append(Tolds(Those(idle, Replies)), Told(e))
    BY <1>c, <2>1, <2>2
  <2>5. UsedInv'  BY <1>0, <1>1, <2>4 DEF UsedInv
  <2>6. Pipe!ConnRecv
    BY <1>0, <1>2, <1>4, <2>1, <2>3, <2>4
    DEF Pipe!ConnRecv, Used, Mapped, InputIsClosed, Ready, Tolds, Told, Replies
  <2> QED  BY <2>5, <2>6
<1>5. CASE ~InputIsClosed /\ Peek(reader) # None
  <2> DEFINE e == IdleCall("ready", "ok")
  <2>1. idle' = Append(idle, e) /\ reading' = reading  BY <1>3, <1>5 DEF RecvAsync
  <2>2. e \in IdleCalls /\ e.cb = "ready"  BY DEF IdleCall, IdleCalls
  <2> HIDE DEF e
  <2>4. (\A n \in 1 .. Len(idle') : idle'[n].cb # "open") /\ Ready'
        /\ Tolds(Those(idle, Replies))' = Tolds(Those(idle, Replies))
    BY <1>c, <2>1, <2>2
  <2>5. UsedInv'  BY <1>0, <1>1, <2>4 DEF UsedInv
  <2>6. Pipe!ConnRecv
    BY <1>0, <1>2, <1>5, <2>1, <2>4
    DEF Pipe!ConnRecv, Used, Mapped, InputIsClosed, Ready, Tolds, Told, Replies
  <2> QED  BY <2>5, <2>6
<1>6. CASE ~InputIsClosed /\ Peek(reader) = None
  <2>1. idle' = idle /\ reading' = "stanza"  BY <1>3, <1>6 DEF RecvAsync
  <2>2. UsedInv'  BY <1>0, <1>1, <2>1 DEF UsedInv
  <2>3. Ready' = Ready /\ Tolds(Those(idle, Replies))' = Tolds(Those(idle, Replies))
    BY <2>1 DEF Ready
  <2>4. Pipe!ConnRecv
    BY <1>0, <1>2, <1>6, <2>1, <2>3
    DEF Pipe!ConnRecv, Used, Mapped, InputIsClosed, Ready, Tolds, Told, Replies
  <2> QED  BY <2>2, <2>4
<1> QED  BY <1>4, <1>5, <1>6

LEMMA PipeForceClose ==
  ASSUME UsedInv, InInv, owner = "porter", ForceCloseAsync
  PROVE  Pipe!ConnForceClose /\ UsedInv'
<1> DEFINE e == IdleCall("force", "pending")
<1>0. owner' = "porter" /\ writing' = writing /\ outOpen' = outOpen /\ inOpen' = inOpen
      /\ outClosed' = outClosed /\ written' = written /\ reading' = reading /\ reader' = reader
      /\ torn' = torn
  BY DEF ForceCloseAsync, outVars, inVars, netVars
<1>1. /\ outOpen /\ inOpen /\ writing \in Stanzas \cup {"ping", "close", None}
      /\ idle \in Seq(IdleCalls) /\ \A n \in 1 .. Len(idle) : idle[n].cb # "open"
  BY DEF UsedInv, Used, InInv, InTypes
<1>2. CASE ~tearing
  <2>1. tearing' = TRUE /\ idle' = idle  BY <1>2 DEF ForceCloseAsync
  <2>2. UsedInv'  BY <1>0, <1>1, <2>1 DEF UsedInv
  <2>3. Pipe!ConnForceClose
    BY <1>0, <1>2, <2>1 DEF Pipe!ConnForceClose, Used, Mapped, InputIsClosed
  <2> QED  BY <2>2, <2>3
<1>3. CASE tearing
  <2>1. tearing' = tearing /\ idle' = Append(idle, e)  BY <1>3 DEF ForceCloseAsync
  <2>2. e \in IdleCalls /\ e.cb = "force"  BY DEF IdleCall, IdleCalls, Answers
  <2>3. Told(e) = Pipe!IdleCall("force", None, "busy")  BY DEF Told, Pipe!IdleCall, IdleCall
  <2> HIDE DEF e
  <2>4. Tolds(Those(idle, Replies))' = Append(Tolds(Those(idle, Replies)), Told(e))
    BY <1>1, <2>1, <2>2, ToldsAppend
  <2>5. Ready' = Ready  BY <1>1, <2>1, <2>2, ReadyAppend DEF Ready
  <2>6. \A n \in 1 .. Len(idle') : idle'[n].cb # "open"  BY <1>1, <2>1, <2>2, AppendFacts
  <2>7. UsedInv'  BY <1>0, <1>1, <2>6 DEF UsedInv
  <2>8. Pipe!ConnForceClose
    BY <1>0, <1>3, <2>1, <2>3, <2>4, <2>5
    DEF Pipe!ConnForceClose, Used, Mapped, InputIsClosed, Ready, Tolds, Told, Replies
  <2> QED  BY <2>7, <2>8
<1> QED  BY <1>2, <1>3

LEMMA PipeWriteCb ==
  ASSUME UsedInv, WireInv, InInv, owner = "porter", NEW n, WriteCb(n)
  PROVE  (Pipe!ConnWritten \/ UNCHANGED Pipe!connVars) /\ UsedInv'
<1>0. owner' = "porter" /\ inOpen' = inOpen /\ reading' = reading /\ reader' = reader
      /\ tearing' = tearing /\ torn' = torn /\ idle' = idle /\ writing # None /\ ~torn
  BY DEF WriteCb, inVars, shutVars
<1>1. /\ outOpen /\ inOpen /\ writing \in Stanzas \cup {"ping", "close"} /\ writing \in Outputs
      /\ written \in Seq(Outputs) /\ outClosed \in BOOLEAN
      /\ \A k \in 1 .. Len(idle) : idle[k].cb # "open"
  BY <1>0 DEF UsedInv, Used, Outputs, WireInv, OutTypes
<1>2. Ready' = Ready /\ Tolds(Those(idle, Replies))' = Tolds(Those(idle, Replies))
  BY <1>0 DEF Ready
<1>3. CASE LastPiece(n)
  <2>1. writing' = None /\ written' = Append(written, writing)
        /\ outOpen' = (outOpen \/ writing = "open") /\ outClosed' = (outClosed \/ writing = "close")
    BY <1>3 DEF WriteCb, SendOpenFinish, SendCloseFinish
  <2>2. Those(written', Stanzas) = IF writing \in Stanzas THEN Append(Those(written, Stanzas), writing)
                                                          ELSE Those(written, Stanzas)
    BY <1>1, <2>1, ThoseAppend
  <2>3. UsedInv'  BY <1>0, <1>1, <2>1 DEF UsedInv
  <2>4. Pipe!ConnWritten
    BY <1>0, <1>1, <1>2, <2>1, <2>2
    DEF Pipe!ConnWritten, Pipe!Close, Used, Mapped, InputIsClosed, Ready, Tolds, Told, Replies
  <2> QED  BY <2>3, <2>4
<1>4. CASE ~LastPiece(n)
  <2>1. writing' = writing /\ written' = written /\ outOpen' = outOpen /\ outClosed' = outClosed
    BY <1>4 DEF WriteCb
  <2>2. UsedInv'  BY <1>0, <1>1, <2>1 DEF UsedInv
  <2>3. UNCHANGED Pipe!connVars  BY <1>0, <1>2, <2>1, PipeSame DEF InputIsClosed
  <2> QED  BY <2>2, <2>3
<1> QED  BY <1>3, <1>4

LEMMA PipeWriteFailed ==
  ASSUME UsedInv, owner = "porter", WriteFailed
  PROVE  Pipe!ConnWriteFailed /\ UsedInv'
<1>0. owner' = "porter" /\ inOpen' = inOpen /\ reading' = reading /\ reader' = reader
      /\ tearing' = tearing /\ torn' = torn /\ idle' = idle /\ writing # None /\ writing' = None
      /\ outOpen' = outOpen /\ outClosed' = outClosed /\ written' = written
  BY DEF WriteFailed, inVars, shutVars
<1>1. UsedInv'  BY <1>0 DEF UsedInv, Used
<1>2. Pipe!ConnWriteFailed  BY <1>0 DEF Pipe!ConnWriteFailed, Used, Mapped, InputIsClosed
<1> QED  BY <1>1, <1>2

LEMMA PipeReceivedData ==
  ASSUME UsedInv, InInv, InInv', owner = "porter", NEW n, ReceivedData(n)
  PROVE  ((\E ends \in BOOLEAN : Pipe!ConnReceived(ends)) \/ UNCHANGED Pipe!connVars) /\ UsedInv'
<1>0. owner' = "porter" /\ tearing' = tearing /\ torn' = torn /\ idle' = idle
      /\ writing' = writing /\ outOpen' = outOpen /\ outClosed' = outClosed /\ written' = written
      /\ reading # "no"
  BY DEF ReceivedData, outVars, shutVars
<1>1. inOpen /\ reading = "stanza" /\ ~Over(reader)
      /\ \A k \in 1 .. Len(idle) : idle[k].cb \notin Receives
  BY <1>0, InFacts DEF UsedInv, Used, InInv, InTypes, CallsInv
<1>2. ~Ready /\ ~Ready'
  <2>1. DOMAIN idle = 1 .. Len(idle)
    <3>1. idle \in Seq(IdleCalls)  BY DEF InInv, InTypes
    <3> QED  BY <3>1
  <2> QED  BY <1>0, <1>1, <2>1 DEF Ready, Receives
<1>3. Tolds(Those(idle, Replies))' = Tolds(Those(idle, Replies))  BY <1>0
<1> DEFINE r == Push(reader, SubSeq(net, 1, n))
<1>4. CASE HasEnough(r)
  <2>1. reading' = "no" /\ inOpen' = inOpen  BY <1>1, <1>4 DEF ReceivedData
  <2>2. UsedInv'  BY <1>0, <2>1 DEF UsedInv, Used
  <2>i. Over(reader') \in BOOLEAN  BY DEF Over
  <2>3. PICK over \in BOOLEAN : over = Over(reader')  BY <2>i
  <2>4. InputIsClosed' = over /\ ~InputIsClosed  BY <1>1, <2>3 DEF InputIsClosed, Over
  <2>5. Pipe!ConnReceived(over)
    BY <1>0, <1>1, <1>2, <1>3, <2>1, <2>4
    DEF Pipe!ConnReceived, Used, Mapped, Ready, Tolds, Told, Replies
  <2> QED  BY <2>2, <2>5
<1>5. CASE ~HasEnough(r)
  <2>1. reading' = reading /\ inOpen' = inOpen /\ reader' = r  BY <1>5 DEF ReceivedData
  <2>2. UsedInv'  BY <1>0, <2>1 DEF UsedInv, Used
  <2>3. ~Over(r)  BY <1>5 DEF HasEnough
  <2>4. InputIsClosed' = InputIsClosed  BY <1>1, <2>1, <2>3 DEF InputIsClosed, Over
  <2>5. UNCHANGED Pipe!connVars  BY <1>0, <1>2, <1>3, <2>1, <2>4, PipeSame
  <2> QED  BY <2>2, <2>5
<1> QED  BY <1>4, <1>5

LEMMA PipeReadEnded ==
  ASSUME UsedInv, InInv, owner = "porter", NEW a, ReadEnded(a)
  PROVE  Pipe!ConnReceived(FALSE) /\ UsedInv'
<1>0. owner' = "porter" /\ tearing' = tearing /\ torn' = torn /\ idle' = idle
      /\ writing' = writing /\ outOpen' = outOpen /\ outClosed' = outClosed /\ written' = written
      /\ reading # "no" /\ reading' = "no" /\ inOpen' = inOpen /\ reader' = reader
  BY DEF ReadEnded, outVars, shutVars
<1>1. \A k \in 1 .. Len(idle) : idle[k].cb \notin Receives
  BY <1>0 DEF InInv, CallsInv
<1>2. ~Ready /\ ~Ready'
  <2>1. DOMAIN idle = 1 .. Len(idle)
    <3>1. idle \in Seq(IdleCalls)  BY DEF InInv, InTypes
    <3> QED  BY <3>1
  <2> QED  BY <1>0, <1>1, <2>1 DEF Ready, Receives
<1>3. Tolds(Those(idle, Replies))' = Tolds(Those(idle, Replies))  BY <1>0
<1>4. UsedInv'  BY <1>0 DEF UsedInv, Used
<1>5. Pipe!ConnReceived(FALSE)
  BY <1>0, <1>2, <1>3
  DEF Pipe!ConnReceived, Used, Mapped, InputIsClosed, Over, Ready, Tolds, Told, Replies
<1> QED  BY <1>4, <1>5

LEMMA PipeStreamCloseCb ==
  ASSUME UsedInv, owner = "porter", NEW ok \in BOOLEAN, StreamCloseCb(ok)
  PROVE  Pipe!ConnTorn(ok) /\ UsedInv'
<1>0. owner' = "porter" /\ inOpen' = inOpen /\ reading' = reading /\ reader' = reader
      /\ idle' = idle /\ writing' = writing /\ outOpen' = outOpen /\ outClosed' = outClosed
      /\ written' = written /\ tearing /\ tearing' = FALSE /\ torn' = (torn \/ ok)
  BY DEF StreamCloseCb, outVars, inVars
<1>1. UsedInv'  BY <1>0 DEF UsedInv, Used
<1>2. Pipe!ConnTorn(ok)  BY <1>0 DEF Pipe!ConnTorn, Used, Mapped, InputIsClosed
<1> QED  BY <1>1, <1>2

LEMMA PipeIdle ==
  ASSUME UsedInv, InInv, owner = "porter", IdleCompletion
  PROVE  /\ \/ \E ends \in BOOLEAN : Pipe!ConnReceived(ends)
            \/ \E c \in Pipe!IdleCalls : Pipe!ConnIdle(c)
         /\ UsedInv'
<1> DEFINE h == Head(idle)
<1>0. owner' = "porter" /\ inOpen' = inOpen /\ reading' = reading /\ tearing' = tearing
      /\ torn' = torn /\ writing' = writing /\ outOpen' = outOpen /\ outClosed' = outClosed
      /\ written' = written /\ idle # <<>> /\ idle' = Tail(idle)
  BY DEF IdleCompletion, outVars, shutVars
<1>1. /\ outOpen /\ inOpen /\ writing \in Stanzas \cup {"ping", "close", None}
      /\ idle \in Seq(IdleCalls) /\ \A n \in 1 .. Len(idle) : idle[n].cb # "open"
  BY DEF UsedInv, Used, InInv, InTypes
<1>2. idle' \in Seq(IdleCalls) /\ Len(idle) \in Nat \ {0} /\ Len(idle') = Len(idle) - 1
      /\ h = idle[1] /\ h \in IdleCalls /\ (\A k \in 1 .. Len(idle) - 1 : idle'[k] = idle[k + 1])
      /\ 1 \in 1 .. Len(idle)
  BY <1>0, <1>1, TailFacts
<1>3. \A n \in 1 .. Len(idle') : idle'[n].cb # "open"
  <2> TAKE n \in 1 .. Len(idle')
  <2>1. n + 1 \in 1 .. Len(idle) /\ idle'[n] = idle[n + 1]  BY <1>2
  <2> QED  BY <1>1, <2>1
<1>4. UsedInv'  BY <1>0, <1>1, <1>3 DEF UsedInv
<1>5. Ready = (Ready' \/ h.cb = "ready")  BY <1>0, <1>1, ReadyTail
<1>6. /\ h.cb = "ready" => Tolds(Those(idle, Replies)) = Tolds(Those(idle', Replies))
      /\ h.cb # "ready" => /\ Tolds(Those(idle, Replies)) # <<>>
                           /\ Head(Tolds(Those(idle, Replies))) = Told(h)
                           /\ Tail(Tolds(Those(idle, Replies))) = Tolds(Those(idle', Replies))
  BY <1>0, <1>1, ToldsTail
<1>7. Tolds(Those(idle, Replies))' = Tolds(Those(idle', Replies))  BY DEF Tolds, Replies
<1>8. CASE h.cb = "ready"
  <2>1. FinishStanza(reader)  BY <1>8 DEF IdleCompletion
  <2>2. reading = "no" /\ Ready
    <3>1. h.cb \in Receives  BY <1>8 DEF Receives
    <3>2. reading = "no"  BY <1>2, <3>1 DEF InInv, CallsInv
    <3> QED  BY <1>5, <1>8, <3>2
  <2>3. ~Ready'
    <3> SUFFICES ASSUME Ready' PROVE FALSE  OBVIOUS
    <3>1. DOMAIN idle' = 1 .. Len(idle')  BY <1>2
    <3>2. PICK n \in 1 .. Len(idle') : idle'[n].cb = "ready"  BY <3>1 DEF Ready
    <3>3. n + 1 \in 1 .. Len(idle) /\ idle'[n] = idle[n + 1] /\ n + 1 # 1  BY <1>2
    <3>4. idle[n + 1].cb \in Receives /\ idle[1].cb \in Receives
      BY <1>2, <1>8, <3>2, <3>3 DEF Receives
    <3> QED  BY <1>2, <3>3, <3>4 DEF InInv, CallsInv
  <2>i. Over(reader') \in BOOLEAN  BY DEF Over
  <2>4. PICK over \in BOOLEAN : over = Over(reader')  BY <2>i
  <2>5. Over(reader) => reader' = reader  BY <2>1 DEF FinishStanza
  <2>6. InputIsClosed' = (InputIsClosed \/ over)  BY <2>4, <2>5 DEF InputIsClosed, Over
  <2>7. Pipe!ConnReceived(over)
    BY <1>0, <1>6, <1>7, <1>8, <2>2, <2>3, <2>6
    DEF Pipe!ConnReceived, Used, Mapped, Ready, Tolds, Told, Replies
  <2> QED  BY <1>4, <2>7
<1>9. CASE h.cb # "ready"
  <2>1. reader' = reader  BY <1>9 DEF IdleCompletion
  <2>2. Ready' = Ready  BY <1>5, <1>9 DEF Ready
  <2>3. h.cb \in {"stanza", "ping", "close", "recv", "force"}
    <3>1. h.cb \in {"stanza", "ping", "close", "open", "recv", "force", "ready"}
      BY <1>2 DEF IdleCalls
    <3>2. h.cb # "open"  BY <1>1, <1>2
    <3> QED  BY <1>9, <3>1, <3>2
  <2>4. Told(h) \in Pipe!IdleCalls  BY <2>3 DEF Told, Pipe!IdleCalls
  <2>5. PICK c \in Pipe!IdleCalls : c = Told(h)  BY <2>4
  <2>6. Tolds(Those(idle, Replies)) # <<>> /\ c = Head(Tolds(Those(idle, Replies)))
        /\ Tolds(Those(idle, Replies))' = Tail(Tolds(Those(idle, Replies)))
    BY <1>6, <1>7, <1>9, <2>5
  <2>7. Pipe!ConnIdle(c)
    BY <1>0, <2>1, <2>2, <2>6
    DEF Pipe!ConnIdle, Used, Mapped, InputIsClosed, Over, Ready, Tolds, Told, Replies
  <2> QED  BY <1>4, <2>7
<1> QED  BY <1>8, <1>9

LEMMA PipeStep == UsedInv /\ WireInv /\ InInv /\ InInv' /\ [Next]_vars
                    => UsedInv' /\ [Pipe!Next]_(Pipe!connVars)
<1> SUFFICES ASSUME UsedInv, WireInv, InInv, InInv', [Next]_vars
             PROVE  UsedInv' /\ [Pipe!Next]_(Pipe!connVars)
  OBVIOUS
<1>1. CASE UNCHANGED vars
  <2>0. UNCHANGED <<outVars, inVars, shutVars, idle, owner>>  BY <1>1 DEF vars
  <2>1. UsedInv'  BY <2>0 DEF UsedInv, Used, outVars, inVars
  <2>2. UNCHANGED Pipe!connVars
    BY <2>0 DEF Pipe!connVars, Used, Mapped, outVars, inVars, shutVars, InputIsClosed
  <2> QED  BY <2>1, <2>2
<1>2. CASE owner # "porter" /\ owner' # "porter"
  <2>1. UsedInv'  BY <1>2 DEF UsedInv, Used
  <2> QED  BY <1>2, <2>1, PipeWaits
<1>3. CASE owner # "porter" /\ owner' = "porter" /\ Next
  <2>1. owner' = owner \/ (owner = "connector" /\ HandOver)
    BY <1>3
    DEF Next, Connect, Use, Stream, SendOpenAsync, SendStanzaAsync, SendWhitespacePingAsync,
        SendCloseAsync, Submit, RecvAsync, ResetConnection, ForceCloseAsync, WriteCb, WriteFailed,
        ReceivedData, ReadEnded, StreamCloseCb, IdleCompletion, PeerSends, PeerShuts
  <2> QED  BY <1>3, <2>1, PipeHandOver
<1>4. CASE owner = "porter" /\ Next
  <2>0. outOpen = TRUE /\ owner = "porter"  BY <1>4 DEF UsedInv, Used, WireInv, OutTypes
  <2>1. CASE Use
    <3>1. ASSUME NEW x \in Stanzas \cup {"ping", "close"}, NEW why,
                 why = IF writing # None THEN "pending"
                       ELSE IF outClosed THEN "is_closed" ELSE "ok", Submit(x, why)
          PROVE  UsedInv' /\ Pipe!Next
      <4>1. Pipe!ConnSend(x) /\ UsedInv'  BY <2>0, <3>1, PipeSubmit
      <4>2. x \in Pipe!Outputs  BY DEF Pipe!Outputs, Pipe!Ping, Pipe!Close
      <4> QED  BY <4>1, <4>2 DEF Pipe!Next
    <3>2. ASSUME NEW stanza \in Stanzas, SendStanzaAsync(stanza) PROVE UsedInv' /\ Pipe!Next
      BY <2>0, <3>1, <3>2 DEF SendStanzaAsync
    <3>3. ASSUME SendWhitespacePingAsync PROVE UsedInv' /\ Pipe!Next
      BY <2>0, <3>1, <3>3 DEF SendWhitespacePingAsync
    <3>4. ASSUME SendCloseAsync PROVE UsedInv' /\ Pipe!Next
      BY <2>0, <3>1, <3>4 DEF SendCloseAsync
    <3>5. ASSUME RecvAsync(FALSE) PROVE UsedInv' /\ Pipe!Next
      BY <2>0, <3>5, PipeRecv DEF Pipe!Next
    <3>6. ASSUME ForceCloseAsync PROVE UsedInv' /\ Pipe!Next
      BY <2>0, <3>6, PipeForceClose DEF Pipe!Next
    <3> QED  BY <2>1, <3>2, <3>3, <3>4, <3>5, <3>6 DEF Use
  <2>2. CASE Stream
    <3>1. ASSUME NEW n, WriteCb(n) PROVE UsedInv' /\ [Pipe!Next]_(Pipe!connVars)
      BY <2>0, <3>1, PipeWriteCb DEF Pipe!Next
    <3>2. ASSUME WriteFailed PROVE UsedInv' /\ [Pipe!Next]_(Pipe!connVars)
      BY <2>0, <3>2, PipeWriteFailed DEF Pipe!Next
    <3>3. ASSUME NEW n, ReceivedData(n) PROVE UsedInv' /\ [Pipe!Next]_(Pipe!connVars)
      BY <2>0, <3>3, PipeReceivedData DEF Pipe!Next
    <3>4. ASSUME NEW a, ReadEnded(a) PROVE UsedInv' /\ [Pipe!Next]_(Pipe!connVars)
      <4>1. Pipe!ConnReceived(FALSE) /\ UsedInv'  BY <2>0, <3>4, PipeReadEnded
      <4> QED  BY <4>1 DEF Pipe!Next
    <3>5. ASSUME NEW ok \in BOOLEAN, StreamCloseCb(ok)
          PROVE  UsedInv' /\ [Pipe!Next]_(Pipe!connVars)
      <4>1. Pipe!ConnTorn(ok) /\ UsedInv'  BY <2>0, <3>5, PipeStreamCloseCb
      <4> QED  BY <4>1 DEF Pipe!Next
    <3>6. ASSUME IdleCompletion PROVE UsedInv' /\ [Pipe!Next]_(Pipe!connVars)
      BY <2>0, <3>6, PipeIdle DEF Pipe!Next
    <3>7. ASSUME PeerShuts \/ \E t \in Tokens : PeerSends(t)
          PROVE  UsedInv' /\ [Pipe!Next]_(Pipe!connVars)
      <4>0. UNCHANGED <<outVars, inVars, shutVars, idle, owner>>
        BY <3>7 DEF PeerShuts, PeerSends
      <4>1. UsedInv'  BY <4>0 DEF UsedInv, Used, outVars, inVars
      <4>2. UNCHANGED Pipe!connVars
        BY <4>0 DEF Pipe!connVars, Used, Mapped, outVars, inVars, shutVars, InputIsClosed
      <4> QED  BY <4>1, <4>2
    <3> QED  BY <2>2, <3>1, <3>2, <3>3, <3>4, <3>5, <3>6, <3>7 DEF Stream
  <2>3. ~Connect  BY <2>0 DEF Connect
  <2> QED  BY <1>4, <2>1, <2>2, <2>3 DEF Next
<1> QED  BY <1>1, <1>2, <1>3, <1>4

\* From the hand-over on, the connection is the pipe that the porter is built on: one operation
\* of each direction at a time, refusals told from idle sources in their order, a stanza sent when
\* all of it is written, whatever the bytes do (wocky_session_constructed hands it over).
THEOREM ConnectionIsAPipe == Spec => ImplementsPipe
<1>1. Init => UsedInv /\ Pipe!ConnInit
  <2>1. Init => UsedInv  BY DEF Init, UsedInv, Used
  <2> QED  BY <2>1, PipeInit
<1> QED
  BY <1>1, WireInit, WireStep, InInit, InStep, PipeStep, PTL DEF Spec, ImplementsPipe, Pipe!Spec
=============================================================================
