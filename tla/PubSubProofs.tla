---------------------------- MODULE PubSubProofs ----------------------------
(***************************************************************************)
(* Safety theorems about PubSub, for every set of names and calls and any  *)
(* number of events: the table of nodes is exact as long as there is the   *)
(* service, the application ends up knowing what the server has, and no    *)
(* call is forgotten.                                                      *)
(***************************************************************************)
EXTENDS PubSub, FiniteSetTheorems, TLAPS

\* What is sent between the client and the server
Requests == [call : Calls, op : Ops, name : Names \cup {None}]
Bodies ==
  {None} \cup Names \cup (SUBSET Names) \cup [Names -> States] \cup [name : Names, state : States]
Replies == [type : {"reply"}, call : Calls, error : BOOLEAN, body : Bodies]
EventMessages ==
  [type : {"items"}, name : Names, body : 1 .. MaxEvents]
    \cup [type : {"subscription"}, name : Names, body : States]
    \cup [type : {"delete"}, name : Names, body : {None}]
Messages == Replies \cup EventMessages
Records ==
  [op : Ops \cup {None}, obj : Objs \cup {None}, name : Names \cup {None},
   stage : {"idle", "asked", "done"}, result : Results \cup {None}]

-----------------------------------------------------------------------------
(* The table of nodes *)

NodesOK ==
  /\ kept \subseteq Objs
  /\ table \in [Names -> Objs \cup {None}] /\ nameOf \in [Objs -> Names \cup {None}]
  /\ NodesAreUnique
  /\ \A o \in Objs : nameOf[o] # None <=> Alive(o)

LEMMA InjectionExists ==
  ASSUME NEW S, NEW T, IsFiniteSet(S), IsFiniteSet(T), Cardinality(S) <= Cardinality(T)
  PROVE  \E f \in [S -> T] : IsInjective(f)
<1> DEFINE m == Cardinality(S)
           n == Cardinality(T)
<1>1. m \in Nat /\ n \in Nat /\ m <= n
  BY FS_CardinalityType
<1>2. PICK b \in [1 .. m -> S] : \A s \in S : \E i \in 1 .. m : b[i] = s
  BY FS_CardinalityType DEF ExistsBijection, Bijection, Surjection
<1>3. PICK c \in [1 .. n -> T] : \A i, j \in 1 .. n : c[i] = c[j] => i = j
  BY FS_CardinalityType DEF ExistsBijection, Bijection, Injection, IsInjective
<1> HIDE DEF m, n
<1> DEFINE g == [s \in S |-> CHOOSE i \in 1 .. m : b[i] = s]
           f == [s \in S |-> c[g[s]]]
<1>4. \A s \in S : g[s] \in 1 .. m /\ b[g[s]] = s
  BY <1>2
<1>5. \A s \in S : g[s] \in 1 .. n
  BY <1>1, <1>4
<1> HIDE DEF g
<1>6. f \in [S -> T]
  BY <1>3, <1>5
<1>7. ASSUME NEW s \in S, NEW t \in S, f[s] = f[t]
      PROVE  s = t
  <2>1. g[s] = g[t]
    BY <1>3, <1>5, <1>7
  <2> QED
    BY <1>4, <2>1
<1>8. IsInjective(f)
  BY <1>7 DEF IsInjective
<1> QED
  BY <1>6, <1>8

\* There are fewer names than addresses, so a name that has no object finds one.
LEMMA MadeIs ==
  ASSUME NodesOK, ServiceAlive, NEW names \in SUBSET Names
  PROVE  /\ Made(names) \in [{n \in names : table[n] = None} -> {o \in Objs : nameOf[o] = None}]
         /\ IsInjective(Made(names))
<1> DEFINE need == {n \in names : table[n] = None}
           free == {o \in Objs : nameOf[o] = None}
           used == Objs \ free
           named == {n \in Names : table[n] # None}
           h == [o \in used |-> nameOf[o]]
<1>1. /\ IsFiniteSet(Names) /\ IsFiniteSet(Objs) /\ Cardinality(Names) < Cardinality(Objs)
      /\ None \notin Names /\ None \notin Objs
  BY PubSubAssumption
<1>2. h \in [used -> named] /\ \A a, b \in used : h[a] = h[b] => a = b
  <2>1. ASSUME NEW o \in used
        PROVE  nameOf[o] \in Names /\ table[nameOf[o]] = o
    BY DEF NodesOK, NodesAreUnique
  <2>2. \A o \in used : nameOf[o] \in named
    BY <1>1, <2>1
  <2>3. h \in [used -> named]
    BY <2>2
  <2>4. \A a, b \in used : h[a] = h[b] => a = b
    BY <2>1
  <2> QED
    BY <2>3, <2>4
<1> HIDE DEF h
<1>3. h \in Injection(used, named)
  BY <1>2 DEF Injection, IsInjective
<1>4. IsFiniteSet(named) /\ IsFiniteSet(free) /\ IsFiniteSet(need) /\ IsFiniteSet(Names \ named)
  BY <1>1, FS_Subset
<1>5. Cardinality(used) <= Cardinality(named)
  BY <1>3, <1>4, FS_Injection
<1>6. Cardinality(used) = Cardinality(Objs) - Cardinality(free)
  <2>1. Objs \cap free = free
    OBVIOUS
  <2> QED
    BY <1>1, <2>1, FS_Difference
<1>7. Cardinality(Names \ named) = Cardinality(Names) - Cardinality(named)
  <2>1. Names \cap named = named
    OBVIOUS
  <2> QED
    BY <1>1, <2>1, FS_Difference
<1>8. Cardinality(need) <= Cardinality(Names \ named)
  <2>1. need \subseteq Names \ named
    OBVIOUS
  <2> QED
    BY <1>4, <2>1, FS_Subset
<1>9. /\ Cardinality(need) \in Nat /\ Cardinality(free) \in Nat /\ Cardinality(named) \in Nat
      /\ Cardinality(Names) \in Nat /\ Cardinality(Objs) \in Nat
  BY <1>1, <1>4, FS_CardinalityType
<1> HIDE DEF need, free, used, named
<1>10. Cardinality(need) <= Cardinality(free)
  BY <1>1, <1>5, <1>6, <1>7, <1>8, <1>9
<1>11. \E f \in [need -> free] : IsInjective(f)
  BY <1>4, <1>10, InjectionExists
<1> QED
  BY <1>11 DEF Made, need, free

\* Every name that is asked for has an object, its own.
LEMMA EnsuredIs ==
  ASSUME NodesOK, ServiceAlive, NEW names \in SUBSET Names, NEW e, e = EnsureNode(names)
  PROVE  /\ e \in [Names -> Objs \cup {None}]
         /\ \A n \in names : e[n] \in Objs
         /\ \A n \in Names : table[n] # None => e[n] = table[n]
         /\ \A m, n \in Names : e[m] = e[n] /\ e[m] # None => m = n
<1> DEFINE made == Made(names)
           need == {n \in names : table[n] = None}
           free == {o \in Objs : nameOf[o] = None}
<1>1. made \in [need -> free] /\ \A m, n \in need : made[m] = made[n] => m = n
  BY MadeIs DEF IsInjective
<1>2. e = [n \in Names |-> IF n \in need THEN made[n] ELSE table[n]]
  BY DEF EnsureNode
<1> HIDE DEF made
<1>3. \A n \in need : made[n] \in Objs /\ nameOf[made[n]] = None
  BY <1>1
<1>4. \A n \in Names : table[n] \in Objs \cup {None}
  BY DEF NodesOK
<1>5. \A n \in Names : table[n] # None => table[n] \in Objs /\ nameOf[table[n]] = n
  BY <1>4 DEF NodesOK, NodesAreUnique
<1>6. None \notin Names /\ None \notin Objs
  BY PubSubAssumption
<1>7. \A n \in Names : e[n] = IF n \in need THEN made[n] ELSE table[n]
  BY <1>2
<1>8. e \in [Names -> Objs \cup {None}]
  BY <1>2, <1>3, <1>4
<1>9. ASSUME NEW m \in Names, NEW n \in Names, e[m] = e[n], e[m] # None
      PROVE  m = n
  <2>1. CASE m \in need /\ n \in need
    BY <1>1, <1>7, <1>9, <2>1
  <2>2. CASE m \in need /\ n \notin need
    BY <1>3, <1>5, <1>6, <1>7, <1>9, <2>2
  <2>3. CASE m \notin need /\ n \in need
    BY <1>3, <1>5, <1>6, <1>7, <1>9, <2>3
  <2>4. CASE m \notin need /\ n \notin need
    BY <1>5, <1>7, <1>9, <2>4
  <2> QED
    BY <2>1, <2>2, <2>3, <2>4
<1>10. \A n \in names : e[n] \in Objs
  BY <1>3, <1>4, <1>7
<1> QED
  BY <1>7, <1>8, <1>9, <1>10

\* What the table may become, and a name for whoever lives
LEMMA NodeDisposedIs ==
  ASSUME NEW e \in [Names -> Objs \cup {None}], NEW living, NEW t, t \in NodeDisposed(e, living)
  PROVE  /\ t \in [Names -> Objs \cup {None}]
         /\ ServiceAlive' => \A n \in Names : t[n] = IF e[n] \in living THEN e[n] ELSE None
BY DEF NodeDisposed

\* Objects that come, of the names asked for, and objects that go, while there is the service
LEMMA UsingAlive ==
  ASSUME NodesOK, ServiceAlive, NEW names \in SUBSET Names, Using(names), kept' \subseteq Objs,
         Living' \subseteq Living \cup {EnsureNode(names)[n] : n \in names}
  PROVE  NodesOK' /\ \A o \in Objs : Alive(o) /\ Alive(o)' => nameOf'[o] = nameOf[o]
<1>1. PICK e : e = EnsureNode(names)
  OBVIOUS
<1>2. PICK living \in SUBSET Objs : living = Living'
  BY DEF Living
<1> DEFINE name(o) == IF \E n \in names : e[n] = o THEN CHOOSE n \in names : e[n] = o ELSE nameOf[o]
<1>3. /\ table' \in NodeDisposed(e, living)
      /\ nameOf' = [o \in Objs |-> IF o \in living THEN name(o) ELSE None]
  BY <1>1, <1>2 DEF Using
<1>4. /\ e \in [Names -> Objs \cup {None}]
      /\ \A n \in names : e[n] \in Objs
      /\ \A n \in Names : table[n] # None => e[n] = table[n]
      /\ \A m, n \in Names : e[m] = e[n] /\ e[m] # None => m = n
  BY <1>1, EnsuredIs
<1>5. None \notin Names /\ None \notin Objs
  BY PubSubAssumption
<1>6. \A o \in Objs : o \in living <=> Alive(o)'
  BY <1>2 DEF Living
<1>7. ASSUME NEW o \in Objs, Alive(o)
      PROVE  nameOf[o] \in Names /\ e[nameOf[o]] = o /\ name(o) = nameOf[o]
  <2>1. nameOf[o] \in Names /\ table[nameOf[o]] = o
    BY <1>7 DEF NodesOK, NodesAreUnique
  <2>2. e[nameOf[o]] = o
    BY <1>4, <1>5, <2>1
  <2>3. \A n \in names : e[n] = o => n = nameOf[o]
    BY <1>4, <1>5, <2>1, <2>2
  <2> QED
    BY <2>1, <2>2, <2>3
<1>8. ASSUME NEW o \in living
      PROVE  name(o) \in Names /\ e[name(o)] = o
  <2>1. CASE Alive(o)
    BY <1>7, <2>1
  <2>2. CASE ~Alive(o)
    <3>1. \E n \in names : e[n] = o
      BY <1>1, <1>2, <2>2 DEF Living
    <3> QED
      BY <3>1
  <2> QED
    BY <2>1, <2>2
<1>9. \A o \in Objs : nameOf'[o] = IF o \in living THEN name(o) ELSE None
  BY <1>3
<1> HIDE DEF name
<1>10. \A o \in Objs : Alive(o) /\ Alive(o)' => nameOf'[o] = nameOf[o]
  BY <1>6, <1>7, <1>9
<1>11. /\ table' \in [Names -> Objs \cup {None}]
       /\ ServiceAlive' => \A n \in Names : table'[n] = IF e[n] \in living THEN e[n] ELSE None
  BY <1>3, <1>4, NodeDisposedIs
<1>12. nameOf' \in [Objs -> Names \cup {None}]
  BY <1>3, <1>8
<1>13. NodesAreUnique'
  <2> SUFFICES ASSUME ServiceAlive'
               PROVE  \A o \in Objs, n \in Names : table'[n] = o <=> Alive(o)' /\ nameOf'[o] = n
    BY DEF NodesAreUnique
  <2>1. ASSUME NEW o \in Objs, NEW n \in Names, table'[n] = o
        PROVE  Alive(o)' /\ nameOf'[o] = n
    <3>1. e[n] = o /\ o \in living
      BY <1>5, <1>11, <2>1
    <3>2. nameOf'[o] = name(o) /\ name(o) \in Names /\ e[name(o)] = o
      BY <1>8, <1>9, <3>1
    <3> QED
      BY <1>4, <1>5, <1>6, <3>1, <3>2
  <2>2. ASSUME NEW o \in Objs, NEW n \in Names, Alive(o)', nameOf'[o] = n
        PROVE  table'[n] = o
    <3>1. o \in living
      BY <1>6, <2>2
    <3>2. e[n] = o
      BY <1>8, <1>9, <2>2, <3>1
    <3> QED
      BY <1>11, <3>1, <3>2
  <2> QED
    BY <2>1, <2>2
<1>14. \A o \in Objs : nameOf'[o] # None <=> Alive(o)'
  BY <1>5, <1>6, <1>8, <1>9
<1> QED
  BY <1>10, <1>11, <1>12, <1>13, <1>14 DEF NodesOK

\* And while there is none: nobody asks for a name, and no object is left.
LEMMA UsingGone ==
  ASSUME NodesOK, ~ServiceAlive, ~ServiceAlive', Using({}), kept' \subseteq Objs, Living' \subseteq Living
  PROVE  NodesOK' /\ \A o \in Objs : ~Alive(o) /\ ~Alive(o)'
<1>1. Living = {} /\ Living' = {}
  BY DEF ServiceAlive
<1>2. \A o \in Objs : ~Alive(o) /\ ~Alive(o)'
  BY <1>1 DEF Living
<1>3. PICK e : e = EnsureNode({})
  OBVIOUS
<1>4. e = [n \in Names |-> table[n]]
  BY <1>3 DEF EnsureNode
<1>5. e \in [Names -> Objs \cup {None}]
  BY <1>4 DEF NodesOK
<1>6. /\ table' \in NodeDisposed(e, Living')
      /\ nameOf' = [o \in Objs |-> None]
  BY <1>1, <1>3 DEF Using
<1>7. table' \in [Names -> Objs \cup {None}]
  BY <1>5, <1>6, NodeDisposedIs
<1>8. NodesAreUnique'
  BY DEF NodesAreUnique
<1> QED
  BY <1>2, <1>6, <1>7, <1>8 DEF NodesOK

LEMMA UsingStep ==
  ASSUME NodesOK, NEW names \in SUBSET Names, Using(names), kept' \subseteq Objs,
         Living' \subseteq Living \cup {EnsureNode(names)[n] : n \in names},
         names # {} => ServiceAlive, ServiceAlive' => ServiceAlive
  PROVE  NodesOK' /\ \A o \in Objs : Alive(o) /\ Alive(o)' => nameOf'[o] = nameOf[o]
<1>1. CASE ServiceAlive
  BY <1>1, UsingAlive
<1>2. CASE ~ServiceAlive
  <2>1. names = {} /\ Using({}) /\ Living' \subseteq Living /\ ~ServiceAlive'
    BY <1>2
  <2> QED
    BY <1>2, <2>1, UsingGone
<1> QED
  BY <1>1, <1>2

-----------------------------------------------------------------------------
(* Messages and the calls they belong to: ts and tc are the two channels, cl the calls and kn what
   the client knows. *)

IsReply(m) == m.type = "reply"

\* A call has at most one message under way.
OneMessage(ts, tc) ==
  /\ \A i, j \in 1 .. Len(ts) : ts[i].call = ts[j].call => i = j
  /\ \A i, j \in 1 .. Len(tc) :
       IsReply(tc[i]) /\ IsReply(tc[j]) /\ tc[i].call = tc[j].call => i = j
  /\ \A i \in 1 .. Len(ts), j \in 1 .. Len(tc) : IsReply(tc[j]) => ts[i].call # tc[j].call

Began(ts, tc, cl) ==
  /\ \A i \in 1 .. Len(ts) : cl[ts[i].call].stage # "idle"
  /\ \A i \in 1 .. Len(tc) : IsReply(tc[i]) => cl[tc[i].call].stage # "idle"

\* A request is the one its call made; only one that was cancelled is not waited for, and then
\* nothing is known of the subscription.
Theirs(r, x, kn) ==
  /\ x.stage = "asked" => r.op = x.op /\ r.name = x.name
  /\ x.stage = "done" /\ r.op \in {"subscribe", "unsubscribe"} => kn[r.name] = "unknown"
  /\ x.stage = "done" => r.op # "delete"
  /\ r.op \in NodeOps \cup {"get"} => r.name # None
RequestsAreTheirs(ts, cl, kn) == \A i \in 1 .. Len(ts) : Theirs(ts[i], cl[ts[i].call], kn)

\* What can be answered to a call
Answers(op, n) ==
  CASE op = "subscribe" -> {None} \cup [name : {n}, state : {"pending", "subscribed"}]
    [] op \in {"subscribers", "affiliates", "modify", "configuration", "get"} -> {None, {n}}
    [] op = "create" -> Names \cup (IF n = None THEN {} ELSE {None})
    [] op = "subscriptions" -> [Names -> States]
    [] op = "default" -> {None, {}}
    [] OTHER -> {None}
Fits(m, x) == x.stage = "asked" => IF m.error THEN m.body = None ELSE m.body \in Answers(x.op, x.name)
RepliesFit(tc, cl) == \A i \in 1 .. Len(tc) : IsReply(tc[i]) => Fits(tc[i], cl[tc[i].call])

OnTheirWay(ts, tc, cl) ==
  \A c \in Calls : cl[c].stage = "asked" =>
    \/ \E i \in 1 .. Len(ts) : ts[i].call = c
    \/ \E i \in 1 .. Len(tc) : IsReply(tc[i]) /\ tc[i].call = c

Channels(ts, tc, cl, kn) ==
  /\ ts \in Seq(Requests) /\ tc \in Seq(Messages)
  /\ OneMessage(ts, tc) /\ Began(ts, tc, cl)
  /\ RequestsAreTheirs(ts, cl, kn) /\ RepliesFit(tc, cl) /\ OnTheirWay(ts, tc, cl)

LEMMA TailIs ==
  ASSUME NEW S, NEW q \in Seq(S), q # <<>>
  PROVE  /\ Tail(q) \in Seq(S) /\ Len(q) \in Nat \ {0} /\ Len(Tail(q)) = Len(q) - 1
         /\ \A i \in 1 .. Len(Tail(q)) : Tail(q)[i] = q[i + 1] /\ i + 1 \in 1 .. Len(q)
         /\ \A i \in 1 .. Len(q) : i = 1 \/ (i - 1 \in 1 .. Len(Tail(q)) /\ Tail(q)[i - 1] = q[i])
         /\ Head(q) = q[1] /\ 1 \in 1 .. Len(q) /\ Head(q) \in S
<1>1. Len(q) \in Nat \ {0} /\ Len(Tail(q)) = Len(q) - 1 /\ Tail(q) \in Seq(S)
  OBVIOUS
<1>2. \A i \in 1 .. Len(Tail(q)) : Tail(q)[i] = q[i + 1] /\ i + 1 \in 1 .. Len(q)
  BY <1>1
<1>3. ASSUME NEW i \in 1 .. Len(q), i # 1
      PROVE  i - 1 \in 1 .. Len(Tail(q)) /\ Tail(q)[i - 1] = q[i]
  <2>1. i - 1 \in 1 .. Len(Tail(q)) /\ (i - 1) + 1 = i
    BY <1>1, <1>3
  <2> QED
    BY <1>2, <2>1
<1>4. Head(q) = q[1] /\ 1 \in 1 .. Len(q) /\ Head(q) \in S
  BY <1>1
<1> QED
  BY <1>1, <1>2, <1>3, <1>4

LEMMA AppendIs ==
  ASSUME NEW S, NEW q \in Seq(S), NEW m \in S
  PROVE  /\ Append(q, m) \in Seq(S) /\ Len(q) \in Nat /\ Len(Append(q, m)) = Len(q) + 1
         /\ \A i \in 1 .. Len(q) : Append(q, m)[i] = q[i] /\ i \in 1 .. Len(Append(q, m))
         /\ \A i \in 1 .. Len(Append(q, m)) : i = Len(q) + 1 \/ i \in 1 .. Len(q)
         /\ Append(q, m)[Len(q) + 1] = m /\ Len(q) + 1 \in 1 .. Len(Append(q, m))
  OBVIOUS

LEMMA RequestsAre ==
  ASSUME NEW ts \in Seq(Requests)
  PROVE  \A i \in 1 .. Len(ts) :
           ts[i].call \in Calls /\ ts[i].op \in Ops /\ ts[i].name \in Names \cup {None}
<1>1. ASSUME NEW i \in 1 .. Len(ts)
      PROVE  ts[i] \in Requests
  OBVIOUS
<1>2. \A r \in Requests : r.call \in Calls /\ r.op \in Ops /\ r.name \in Names \cup {None}
  BY DEF Requests
<1> QED
  BY <1>1, <1>2

LEMMA MessagesAre ==
  ASSUME NEW tc \in Seq(Messages)
  PROVE  \A i \in 1 .. Len(tc) : tc[i] \in Messages /\ (IsReply(tc[i]) => tc[i].call \in Calls)
<1>1. ASSUME NEW i \in 1 .. Len(tc)
      PROVE  tc[i] \in Messages
  OBVIOUS
<1>2. \A m \in Messages : IsReply(m) => m.call \in Calls
  BY DEF Messages, Replies, EventMessages, IsReply
<1> QED
  BY <1>1, <1>2

\* A call asks.
LEMMA AskedChannels ==
  ASSUME NEW ts, NEW tc, NEW cl, NEW kn, NEW c \in Calls, NEW r \in Requests, NEW cl2,
         Channels(ts, tc, cl, kn), cl[c].stage = "idle",
         \A d \in Calls : d # c => cl2[d] = cl[d],
         r.call = c, cl2[c].stage = "asked", r.op = cl2[c].op, r.name = cl2[c].name,
         r.op \in NodeOps \cup {"get"} => r.name # None
  PROVE  Channels(Append(ts, r), tc, cl2, kn)
<1> DEFINE t2 == Append(ts, r)
<1>1. ts \in Seq(Requests) /\ tc \in Seq(Messages)
  BY DEF Channels
<1>2. /\ t2 \in Seq(Requests) /\ Len(ts) \in Nat /\ Len(t2) = Len(ts) + 1
      /\ \A i \in 1 .. Len(ts) : t2[i] = ts[i] /\ i \in 1 .. Len(t2)
      /\ \A i \in 1 .. Len(t2) : i = Len(ts) + 1 \/ i \in 1 .. Len(ts)
      /\ t2[Len(ts) + 1] = r /\ Len(ts) + 1 \in 1 .. Len(t2)
  BY <1>1, AppendIs
<1> HIDE DEF t2
<1>3. \A i \in 1 .. Len(ts) : ts[i].call # c /\ ts[i].call \in Calls
  BY <1>1, RequestsAre DEF Channels, Began
<1>4. \A i \in 1 .. Len(tc) : IsReply(tc[i]) => tc[i].call # c /\ tc[i].call \in Calls
  BY <1>1, MessagesAre DEF Channels, Began
<1>5. OneMessage(t2, tc)
  <2>1. \A i, j \in 1 .. Len(t2) : t2[i].call = t2[j].call => i = j
    BY <1>2, <1>3 DEF Channels, OneMessage
  <2>2. \A i \in 1 .. Len(t2), j \in 1 .. Len(tc) : IsReply(tc[j]) => t2[i].call # tc[j].call
    BY <1>2, <1>4 DEF Channels, OneMessage
  <2> QED
    BY <2>1, <2>2 DEF Channels, OneMessage
<1>6. Began(t2, tc, cl2)
  <2>1. \A i \in 1 .. Len(t2) : cl2[t2[i].call].stage # "idle"
    BY <1>2, <1>3 DEF Channels, Began
  <2>2. \A i \in 1 .. Len(tc) : IsReply(tc[i]) => cl2[tc[i].call].stage # "idle"
    BY <1>4 DEF Channels, Began
  <2> QED
    BY <2>1, <2>2 DEF Began
<1>7. RequestsAreTheirs(t2, cl2, kn)
  <2>1. Theirs(r, cl2[c], kn)
    BY DEF Theirs
  <2>2. \A i \in 1 .. Len(ts) : Theirs(ts[i], cl2[ts[i].call], kn)
    BY <1>3 DEF Channels, RequestsAreTheirs
  <2>3. ASSUME NEW i \in 1 .. Len(t2)
        PROVE  Theirs(t2[i], cl2[t2[i].call], kn)
    BY <1>2, <2>1, <2>2
  <2> QED
    BY <2>3 DEF RequestsAreTheirs
<1>8. RepliesFit(tc, cl2)
  BY <1>4 DEF Channels, RepliesFit
<1>9. OnTheirWay(t2, tc, cl2)
  <2>1. ASSUME NEW d \in Calls, cl2[d].stage = "asked"
        PROVE  \/ \E i \in 1 .. Len(t2) : t2[i].call = d
               \/ \E i \in 1 .. Len(tc) : IsReply(tc[i]) /\ tc[i].call = d
    <3>1. CASE d = c
      BY <1>2, <3>1
    <3>2. CASE d # c
      <4>1. \/ \E i \in 1 .. Len(ts) : ts[i].call = d
            \/ \E i \in 1 .. Len(tc) : IsReply(tc[i]) /\ tc[i].call = d
        BY <2>1, <3>2 DEF Channels, OnTheirWay
      <4> QED
        BY <1>2, <4>1
    <3> QED
      BY <3>1, <3>2
  <2> QED
    BY <2>1 DEF OnTheirWay
<1> QED
  BY <1>1, <1>2, <1>5, <1>6, <1>7, <1>8, <1>9 DEF Channels, t2

\* A call is over without its answer, which may still come: it was cancelled, or not made at all.
LEMMA LeftChannels ==
  ASSUME NEW ts, NEW tc, NEW cl, NEW kn, NEW c \in Calls, NEW cl2, NEW kn2,
         Channels(ts, tc, cl, kn),
         \A d \in Calls : d # c => cl2[d] = cl[d],
         cl2[c].stage = "done",
         \/ cl[c].stage = "idle"
         \/ /\ cl[c].stage = "asked"
            /\ cl[c].op # "delete"
            /\ cl[c].op \in {"subscribe", "unsubscribe"} => kn2[cl[c].name] = "unknown",
         \A n \in Names : kn[n] = "unknown" => kn2[n] = "unknown"
  PROVE  Channels(ts, tc, cl2, kn2)
<1>1. ts \in Seq(Requests) /\ tc \in Seq(Messages)
  BY DEF Channels
<1>2. \A i \in 1 .. Len(ts) : ts[i].call \in Calls /\ ts[i].name \in Names \cup {None}
  BY <1>1, RequestsAre
<1>3. \A i \in 1 .. Len(tc) : IsReply(tc[i]) => tc[i].call \in Calls
  BY <1>1, MessagesAre
<1>4. Began(ts, tc, cl2)
  BY <1>2, <1>3 DEF Channels, Began
<1>5. RequestsAreTheirs(ts, cl2, kn2)
  <2>1. ASSUME NEW i \in 1 .. Len(ts)
        PROVE  Theirs(ts[i], cl2[ts[i].call], kn2)
    <3>1. Theirs(ts[i], cl[ts[i].call], kn) /\ cl[ts[i].call].stage # "idle"
      BY DEF Channels, RequestsAreTheirs, Began
    <3>2. ts[i].op \in {"subscribe", "unsubscribe"} => ts[i].name \in Names
      BY <1>2, <3>1 DEF Theirs, NodeOps
    <3>3. CASE ts[i].call = c
      BY <3>1, <3>2, <3>3 DEF Theirs
    <3>4. CASE ts[i].call # c
      BY <1>2, <3>1, <3>2, <3>4 DEF Theirs
    <3> QED
      BY <3>3, <3>4
  <2> QED
    BY <2>1 DEF RequestsAreTheirs
<1>6. RepliesFit(tc, cl2)
  <2>1. ASSUME NEW i \in 1 .. Len(tc), IsReply(tc[i])
        PROVE  Fits(tc[i], cl2[tc[i].call])
    <3>1. Fits(tc[i], cl[tc[i].call])
      BY <2>1 DEF Channels, RepliesFit
    <3> QED
      BY <1>3, <2>1, <3>1 DEF Fits
  <2> QED
    BY <2>1 DEF RepliesFit
<1>7. OnTheirWay(ts, tc, cl2)
  <2>1. \A d \in Calls : cl2[d].stage = "asked" => cl[d].stage = "asked"
    OBVIOUS
  <2> QED
    BY <2>1 DEF Channels, OnTheirWay
<1> QED
  BY <1>1, <1>4, <1>5, <1>6, <1>7 DEF Channels

\* The first message has been handled: its call, if it was one's that waited, is over.
LEMMA HeardChannels ==
  ASSUME NEW ts, NEW tc, NEW cl, NEW kn, NEW cl2, NEW kn2,
         Channels(ts, tc, cl, kn), tc # <<>>,
         \A d \in Calls : \/ cl2[d] = cl[d]
                          \/ IsReply(Head(tc)) /\ d = Head(tc).call /\ cl2[d].stage = "done",
         IsReply(Head(tc)) => cl2[Head(tc).call].stage = "done",
         \A n \in Names : kn[n] = "unknown" => kn2[n] = "unknown"
  PROVE  Channels(ts, Tail(tc), cl2, kn2)
<1> DEFINE t2 == Tail(tc)
<1>1. ts \in Seq(Requests) /\ tc \in Seq(Messages)
  BY DEF Channels
<1>2. /\ t2 \in Seq(Messages) /\ Len(tc) \in Nat \ {0} /\ Len(t2) = Len(tc) - 1
      /\ \A i \in 1 .. Len(t2) : t2[i] = tc[i + 1] /\ i + 1 \in 1 .. Len(tc)
      /\ \A i \in 1 .. Len(tc) : i = 1 \/ (i - 1 \in 1 .. Len(t2) /\ t2[i - 1] = tc[i])
      /\ Head(tc) = tc[1] /\ 1 \in 1 .. Len(tc)
  BY <1>1, TailIs
<1> HIDE DEF t2
<1>3. \A i \in 1 .. Len(ts) : ts[i].call \in Calls /\ ts[i].name \in Names \cup {None}
  BY <1>1, RequestsAre
<1>4. \A i \in 1 .. Len(tc) : IsReply(tc[i]) => tc[i].call \in Calls
  BY <1>1, MessagesAre
<1>5. \A i \in 1 .. Len(t2) : IsReply(t2[i]) =>
        t2[i].call \in Calls /\ cl2[t2[i].call] = cl[t2[i].call]
  BY <1>2, <1>4 DEF Channels, OneMessage
<1>6. \A i \in 1 .. Len(ts) : cl2[ts[i].call] = cl[ts[i].call]
  BY <1>2, <1>3 DEF Channels, OneMessage
<1>7. OneMessage(ts, t2)
  <2>1. ASSUME NEW i \in 1 .. Len(t2), NEW j \in 1 .. Len(t2),
               IsReply(t2[i]), IsReply(t2[j]), t2[i].call = t2[j].call
        PROVE  i = j
    <3>1. i + 1 = j + 1
      BY <1>2, <2>1 DEF Channels, OneMessage
    <3> QED
      BY <3>1
  <2>2. \A i \in 1 .. Len(ts), j \in 1 .. Len(t2) : IsReply(t2[j]) => ts[i].call # t2[j].call
    BY <1>2 DEF Channels, OneMessage
  <2> QED
    BY <2>1, <2>2 DEF Channels, OneMessage
<1>8. Began(ts, t2, cl2)
  <2>1. \A i \in 1 .. Len(ts) : cl2[ts[i].call].stage # "idle"
    BY <1>6 DEF Channels, Began
  <2>2. \A i \in 1 .. Len(t2) : IsReply(t2[i]) => cl2[t2[i].call].stage # "idle"
    BY <1>2, <1>5 DEF Channels, Began
  <2> QED
    BY <2>1, <2>2 DEF Began
<1>9. RequestsAreTheirs(ts, cl2, kn2)
  <2>1. ASSUME NEW i \in 1 .. Len(ts)
        PROVE  Theirs(ts[i], cl2[ts[i].call], kn2)
    <3>1. Theirs(ts[i], cl[ts[i].call], kn)
      BY DEF Channels, RequestsAreTheirs
    <3>2. ts[i].op \in {"subscribe", "unsubscribe"} => ts[i].name \in Names
      BY <1>3, <3>1 DEF Theirs, NodeOps
    <3> QED
      BY <1>6, <3>1, <3>2 DEF Theirs
  <2> QED
    BY <2>1 DEF RequestsAreTheirs
<1>10. RepliesFit(t2, cl2)
  BY <1>2, <1>5 DEF Channels, RepliesFit
<1>11. OnTheirWay(ts, t2, cl2)
  <2>1. ASSUME NEW d \in Calls, cl2[d].stage = "asked"
        PROVE  \/ \E i \in 1 .. Len(ts) : ts[i].call = d
               \/ \E i \in 1 .. Len(t2) : IsReply(t2[i]) /\ t2[i].call = d
    <3>1. cl[d].stage = "asked" /\ (IsReply(tc[1]) => tc[1].call # d)
      BY <1>2, <2>1
    <3>2. \/ \E i \in 1 .. Len(ts) : ts[i].call = d
          \/ \E i \in 1 .. Len(tc) : IsReply(tc[i]) /\ tc[i].call = d
      BY <3>1 DEF Channels, OnTheirWay
    <3>3. ASSUME NEW i \in 1 .. Len(tc), IsReply(tc[i]), tc[i].call = d
          PROVE  \E k \in 1 .. Len(t2) : IsReply(t2[k]) /\ t2[k].call = d
      BY <1>2, <3>1, <3>3
    <3> QED
      BY <3>2, <3>3
  <2> QED
    BY <2>1 DEF OnTheirWay
<1> QED
  BY <1>1, <1>2, <1>7, <1>8, <1>9, <1>10, <1>11 DEF Channels, t2

\* The server answers the first request.
LEMMA ServedChannels ==
  ASSUME NEW ts, NEW tc, NEW cl, NEW kn, NEW m \in Replies,
         Channels(ts, tc, cl, kn), ts # <<>>, m.call = Head(ts).call, Fits(m, cl[m.call])
  PROVE  Channels(Tail(ts), Append(tc, m), cl, kn)
<1> DEFINE t1 == Tail(ts)
           t2 == Append(tc, m)
<1>1. ts \in Seq(Requests) /\ tc \in Seq(Messages) /\ m \in Messages /\ IsReply(m)
  BY DEF Channels, Messages, Replies, IsReply
<1>2. /\ t1 \in Seq(Requests) /\ Len(ts) \in Nat \ {0} /\ Len(t1) = Len(ts) - 1
      /\ \A i \in 1 .. Len(t1) : t1[i] = ts[i + 1] /\ i + 1 \in 1 .. Len(ts)
      /\ \A i \in 1 .. Len(ts) : i = 1 \/ (i - 1 \in 1 .. Len(t1) /\ t1[i - 1] = ts[i])
      /\ Head(ts) = ts[1] /\ 1 \in 1 .. Len(ts)
  BY <1>1, TailIs
<1>3. /\ t2 \in Seq(Messages) /\ Len(tc) \in Nat /\ Len(t2) = Len(tc) + 1
      /\ \A i \in 1 .. Len(tc) : t2[i] = tc[i] /\ i \in 1 .. Len(t2)
      /\ \A i \in 1 .. Len(t2) : i = Len(tc) + 1 \/ i \in 1 .. Len(tc)
      /\ t2[Len(tc) + 1] = m /\ Len(tc) + 1 \in 1 .. Len(t2)
  BY <1>1, AppendIs
<1> HIDE DEF t1, t2
<1>4. \A i \in 1 .. Len(tc) : IsReply(tc[i]) => tc[i].call # m.call
  BY <1>2 DEF Channels, OneMessage
<1>5. \A i \in 1 .. Len(t1) : t1[i].call # m.call
  <2>1. ASSUME NEW i \in 1 .. Len(t1), t1[i].call = m.call
        PROVE  FALSE
    <3>1. i + 1 = 1
      BY <1>2, <2>1 DEF Channels, OneMessage
    <3> QED
      BY <3>1
  <2> QED
    BY <2>1
<1>6. OneMessage(t1, t2)
  <2>1. ASSUME NEW i \in 1 .. Len(t1), NEW j \in 1 .. Len(t1), t1[i].call = t1[j].call
        PROVE  i = j
    <3>1. i + 1 = j + 1
      BY <1>2, <2>1 DEF Channels, OneMessage
    <3> QED
      BY <3>1
  <2>2. ASSUME NEW i \in 1 .. Len(t2), NEW j \in 1 .. Len(t2),
               IsReply(t2[i]), IsReply(t2[j]), t2[i].call = t2[j].call
        PROVE  i = j
    BY <1>3, <1>4, <2>2 DEF Channels, OneMessage
  <2>3. ASSUME NEW i \in 1 .. Len(t1), NEW j \in 1 .. Len(t2), IsReply(t2[j])
        PROVE  t1[i].call # t2[j].call
    <3>1. CASE j = Len(tc) + 1
      BY <1>3, <1>5, <3>1
    <3>2. CASE j \in 1 .. Len(tc)
      <4>1. IsReply(tc[j]) /\ t2[j] = tc[j]
        BY <1>3, <2>3, <3>2
      <4>2. ts[i + 1].call # tc[j].call
        BY <1>2, <3>2, <4>1 DEF Channels, OneMessage
      <4> QED
        BY <1>2, <4>1, <4>2
    <3> QED
      BY <1>3, <3>1, <3>2
  <2> QED
    BY <2>1, <2>2, <2>3 DEF OneMessage
<1>7. Began(t1, t2, cl)
  <2>0. \A i \in 1 .. Len(ts) : cl[ts[i].call].stage # "idle"
    BY DEF Channels, Began
  <2>1. \A i \in 1 .. Len(t1) : cl[t1[i].call].stage # "idle"
    BY <1>2, <2>0
  <2>2. cl[m.call].stage # "idle"
    BY <1>2, <2>0
  <2>3. \A i \in 1 .. Len(tc) : IsReply(tc[i]) => cl[tc[i].call].stage # "idle"
    BY DEF Channels, Began
  <2>4. \A i \in 1 .. Len(t2) : IsReply(t2[i]) => cl[t2[i].call].stage # "idle"
    BY <1>3, <2>2, <2>3
  <2> QED
    BY <2>1, <2>4 DEF Began
<1>8. RequestsAreTheirs(t1, cl, kn)
  BY <1>2 DEF Channels, RequestsAreTheirs
<1>9. RepliesFit(t2, cl)
  BY <1>3 DEF Channels, RepliesFit
<1>10. OnTheirWay(t1, t2, cl)
  <2>1. ASSUME NEW d \in Calls, cl[d].stage = "asked"
        PROVE  \/ \E i \in 1 .. Len(t1) : t1[i].call = d
               \/ \E i \in 1 .. Len(t2) : IsReply(t2[i]) /\ t2[i].call = d
    <3>1. CASE d = m.call
      BY <1>1, <1>3, <3>1
    <3>2. CASE d # m.call
      <4>1. CASE \E i \in 1 .. Len(ts) : ts[i].call = d
        BY <1>2, <3>2, <4>1
      <4>2. CASE \E i \in 1 .. Len(tc) : IsReply(tc[i]) /\ tc[i].call = d
        BY <1>3, <4>2
      <4> QED
        BY <2>1, <4>1, <4>2 DEF Channels, OnTheirWay
    <3> QED
      BY <3>1, <3>2
  <2> QED
    BY <2>1 DEF OnTheirWay
<1> QED
  BY <1>2, <1>3, <1>6, <1>7, <1>8, <1>9, <1>10 DEF Channels, t1, t2

\* The server tells of something.
LEMMA ToldChannels ==
  ASSUME NEW ts, NEW tc, NEW cl, NEW kn, NEW m \in EventMessages, Channels(ts, tc, cl, kn)
  PROVE  Channels(ts, Append(tc, m), cl, kn)
<1> DEFINE t2 == Append(tc, m)
<1>1. ts \in Seq(Requests) /\ tc \in Seq(Messages) /\ m \in Messages /\ ~IsReply(m)
  BY DEF Channels, Messages, EventMessages, IsReply
<1>2. /\ t2 \in Seq(Messages) /\ Len(tc) \in Nat /\ Len(t2) = Len(tc) + 1
      /\ \A i \in 1 .. Len(tc) : t2[i] = tc[i] /\ i \in 1 .. Len(t2)
      /\ \A i \in 1 .. Len(t2) : i = Len(tc) + 1 \/ i \in 1 .. Len(tc)
      /\ t2[Len(tc) + 1] = m /\ Len(tc) + 1 \in 1 .. Len(t2)
  BY <1>1, AppendIs
<1> HIDE DEF t2
<1>3. \A i \in 1 .. Len(t2) : IsReply(t2[i]) => i \in 1 .. Len(tc) /\ t2[i] = tc[i]
  BY <1>1, <1>2
<1>4. OneMessage(ts, t2)
  BY <1>3 DEF Channels, OneMessage
<1>5. Began(ts, t2, cl)
  BY <1>3 DEF Channels, Began
<1>6. RepliesFit(t2, cl)
  BY <1>3 DEF Channels, RepliesFit
<1>7. OnTheirWay(ts, t2, cl)
  BY <1>2 DEF Channels, OnTheirWay
<1> QED
  BY <1>1, <1>2, <1>4, <1>5, <1>6, <1>7 DEF Channels, t2

-----------------------------------------------------------------------------
(* What the client knows *)

\* A message tells of a change of the subscription to n: it is the event, or the answer to the call
\* that brought it about.
Tells(m, n, cl) ==
  \/ m.type \in {"subscription", "delete"} /\ m.name = n
  \/ /\ IsReply(m) /\ ~m.error
     /\ cl[m.call].stage = "asked" /\ cl[m.call].op \in {"subscribe", "unsubscribe", "delete"}
     /\ cl[m.call].name = n

\* What the client takes the subscription to be then
Says(m, cl) ==
  IF m.type = "subscription" THEN m.body
  ELSE IF IsReply(m) /\ cl[m.call].op = "subscribe"
       THEN IF m.body = None THEN "unknown" ELSE m.body.state
  ELSE "none"

\* The answer to a request for all the subscriptions
Snapshot(m, cl) ==
  IsReply(m) /\ ~m.error /\ cl[m.call].stage = "asked" /\ cl[m.call].op = "subscriptions"

\* The last message that tells of a change of n tells the truth, as does everything after it; if
\* there is none then k is the truth s already.
Current(n, k, s, tc, cl) ==
  k = "unknown" \/
    /\ (\A i \in 1 .. Len(tc) : ~Tells(tc[i], n, cl)) => k = s
    /\ \A i \in 1 .. Len(tc) :
         \/ \E j \in 1 .. Len(tc) : i < j /\ Tells(tc[j], n, cl)
         \/ /\ Tells(tc[i], n, cl) => Says(tc[i], cl) \in {"unknown", s}
            /\ Snapshot(tc[i], cl) => tc[i].body[n] = s

LEMMA CurrentStill ==
  ASSUME NEW n, NEW k, NEW s, NEW tc, NEW cl, NEW cl2, Current(n, k, s, tc, cl),
         \A i \in 1 .. Len(tc) :
           /\ Tells(tc[i], n, cl2) <=> Tells(tc[i], n, cl)
           /\ Tells(tc[i], n, cl2) => Says(tc[i], cl2) = Says(tc[i], cl)
           /\ Snapshot(tc[i], cl2) => Snapshot(tc[i], cl)
  PROVE  Current(n, k, s, tc, cl2)
<1>1. CASE k = "unknown"
  BY <1>1 DEF Current
<1>2. CASE k # "unknown"
  <2>1. (\A i \in 1 .. Len(tc) : ~Tells(tc[i], n, cl2)) => k = s
    BY <1>2 DEF Current
  <2>2. ASSUME NEW i \in 1 .. Len(tc)
        PROVE  \/ \E j \in 1 .. Len(tc) : i < j /\ Tells(tc[j], n, cl2)
               \/ /\ Tells(tc[i], n, cl2) => Says(tc[i], cl2) \in {"unknown", s}
                  /\ Snapshot(tc[i], cl2) => tc[i].body[n] = s
    <3>1. CASE \E j \in 1 .. Len(tc) : i < j /\ Tells(tc[j], n, cl)
      BY <3>1
    <3>2. CASE /\ Tells(tc[i], n, cl) => Says(tc[i], cl) \in {"unknown", s}
               /\ Snapshot(tc[i], cl) => tc[i].body[n] = s
      BY <3>2
    <3> QED
      BY <1>2, <3>1, <3>2 DEF Current
  <2> QED
    BY <2>1, <2>2 DEF Current
<1> QED
  BY <1>1, <1>2

\* The first message is heard: k becomes what it says.
LEMMA CurrentHeard ==
  ASSUME NEW n, NEW k, NEW s, NEW tc \in Seq(Messages), NEW cl, NEW k2, Current(n, k, s, tc, cl), tc # <<>>,
         \/ k2 = "unknown"
         \/ /\ k # "unknown"
            /\ IF Tells(Head(tc), n, cl) THEN k2 = Says(Head(tc), cl)
               ELSE k2 = k \/ (Snapshot(Head(tc), cl) /\ k2 = Head(tc).body[n])
  PROVE  Current(n, k2, s, Tail(tc), cl)
<1> DEFINE t2 == Tail(tc)
<1>1. CASE k2 = "unknown"
  BY <1>1 DEF Current
<1>2. CASE k2 # "unknown"
  <2>1. /\ t2 \in Seq(Messages) /\ Len(tc) \in Nat \ {0} /\ Len(t2) = Len(tc) - 1
        /\ \A i \in 1 .. Len(t2) : t2[i] = tc[i + 1] /\ i + 1 \in 1 .. Len(tc)
        /\ \A i \in 1 .. Len(tc) : i = 1 \/ (i - 1 \in 1 .. Len(t2) /\ t2[i - 1] = tc[i])
        /\ Head(tc) = tc[1] /\ 1 \in 1 .. Len(tc)
    BY TailIs
  <2> HIDE DEF t2
  <2>2. ASSUME \A i \in 1 .. Len(t2) : ~Tells(t2[i], n, cl)
        PROVE  k2 = s
    <3>1. \A i \in 1 .. Len(tc) : i = 1 \/ ~Tells(tc[i], n, cl)
      BY <2>1, <2>2
    <3>2. ~ \E j \in 1 .. Len(tc) : 1 < j /\ Tells(tc[j], n, cl)
      BY <3>1
    <3>3. /\ Tells(tc[1], n, cl) => Says(tc[1], cl) \in {"unknown", s}
          /\ Snapshot(tc[1], cl) => tc[1].body[n] = s
      BY <1>2, <2>1, <3>2 DEF Current
    <3>4. CASE Tells(tc[1], n, cl)
      BY <1>2, <2>1, <3>3, <3>4
    <3>5. CASE ~Tells(tc[1], n, cl)
      <4>1. k = s
        BY <1>2, <3>1, <3>5 DEF Current
      <4> QED
        BY <1>2, <2>1, <3>3, <3>5, <4>1
    <3> QED
      BY <3>4, <3>5
  <2>3. ASSUME NEW i \in 1 .. Len(t2)
        PROVE  \/ \E j \in 1 .. Len(t2) : i < j /\ Tells(t2[j], n, cl)
               \/ /\ Tells(t2[i], n, cl) => Says(t2[i], cl) \in {"unknown", s}
                  /\ Snapshot(t2[i], cl) => t2[i].body[n] = s
    <3>1. CASE \E j \in 1 .. Len(tc) : i + 1 < j /\ Tells(tc[j], n, cl)
      <4>1. PICK j \in 1 .. Len(tc) : i + 1 < j /\ Tells(tc[j], n, cl)
        BY <3>1
      <4>2. j - 1 \in 1 .. Len(t2) /\ t2[j - 1] = tc[j] /\ i < j - 1
        BY <2>1, <4>1
      <4> QED
        BY <4>1, <4>2
    <3>2. CASE ~ \E j \in 1 .. Len(tc) : i + 1 < j /\ Tells(tc[j], n, cl)
      BY <1>2, <2>1, <3>2 DEF Current
    <3> QED
      BY <3>1, <3>2
  <2> QED
    BY <2>2, <2>3 DEF Current, t2
<1> QED
  BY <1>1, <1>2

\* A message that tells of no change of n and, if it tells of n at all, tells the truth
LEMMA CurrentOther ==
  ASSUME NEW n, NEW k, NEW s, NEW tc \in Seq(Messages), NEW cl, NEW m \in Messages, Current(n, k, s, tc, cl),
         ~Tells(m, n, cl), Snapshot(m, cl) => m.body[n] = s
  PROVE  Current(n, k, s, Append(tc, m), cl)
<1> DEFINE t2 == Append(tc, m)
<1>1. /\ t2 \in Seq(Messages) /\ Len(tc) \in Nat /\ Len(t2) = Len(tc) + 1
      /\ \A i \in 1 .. Len(tc) : t2[i] = tc[i] /\ i \in 1 .. Len(t2)
      /\ \A i \in 1 .. Len(t2) : i = Len(tc) + 1 \/ i \in 1 .. Len(tc)
      /\ t2[Len(tc) + 1] = m /\ Len(tc) + 1 \in 1 .. Len(t2)
  BY AppendIs
<1> HIDE DEF t2
<1>2. CASE k = "unknown"
  BY <1>2 DEF Current, t2
<1>3. CASE k # "unknown"
  <2>1. (\A i \in 1 .. Len(t2) : ~Tells(t2[i], n, cl)) => k = s
    BY <1>1, <1>3 DEF Current
  <2>2. ASSUME NEW i \in 1 .. Len(tc)
        PROVE  \/ \E j \in 1 .. Len(t2) : i < j /\ Tells(t2[j], n, cl)
               \/ /\ Tells(t2[i], n, cl) => Says(t2[i], cl) \in {"unknown", s}
                  /\ Snapshot(t2[i], cl) => t2[i].body[n] = s
    BY <1>1, <1>3 DEF Current
  <2>3. ASSUME NEW i \in 1 .. Len(t2)
        PROVE  \/ \E j \in 1 .. Len(t2) : i < j /\ Tells(t2[j], n, cl)
               \/ /\ Tells(t2[i], n, cl) => Says(t2[i], cl) \in {"unknown", s}
                  /\ Snapshot(t2[i], cl) => t2[i].body[n] = s
    BY <1>1, <2>2
  <2> QED
    BY <2>1, <2>3 DEF Current, t2
<1> QED
  BY <1>2, <1>3

\* A message that tells of the change of n to s2
LEMMA CurrentChanged ==
  ASSUME NEW n, NEW k, NEW s2, NEW tc \in Seq(Messages), NEW cl, NEW m \in Messages,
         Tells(m, n, cl), Says(m, cl) \in {"unknown", s2}
  PROVE  Current(n, k, s2, Append(tc, m), cl)
<1> DEFINE t2 == Append(tc, m)
<1>1. /\ t2 \in Seq(Messages) /\ Len(tc) \in Nat /\ Len(t2) = Len(tc) + 1
      /\ \A i \in 1 .. Len(t2) : i = Len(tc) + 1 \/ i \in 1 .. Len(tc)
      /\ t2[Len(tc) + 1] = m /\ Len(tc) + 1 \in 1 .. Len(t2)
  BY AppendIs
<1> HIDE DEF t2
<1>2. ~Snapshot(m, cl)
  BY DEF Tells, Snapshot, IsReply
<1>3. ASSUME NEW i \in 1 .. Len(tc)
      PROVE  \E j \in 1 .. Len(t2) : i < j /\ Tells(t2[j], n, cl)
  BY <1>1
<1>4. ASSUME NEW i \in 1 .. Len(t2)
      PROVE  \/ \E j \in 1 .. Len(t2) : i < j /\ Tells(t2[j], n, cl)
             \/ /\ Tells(t2[i], n, cl) => Says(t2[i], cl) \in {"unknown", s2}
                /\ Snapshot(t2[i], cl) => t2[i].body[n] = s2
  BY <1>1, <1>2, <1>3
<1>5. ~ \A i \in 1 .. Len(t2) : ~Tells(t2[i], n, cl)
  BY <1>1
<1> QED
  BY <1>4, <1>5 DEF Current, t2

\* The same of the items of n
Items(m, n) == m.type = "items" /\ m.name = n
Fresh(n, k, s, tc) ==
  /\ (\A i \in 1 .. Len(tc) : ~Items(tc[i], n)) => k = s
  /\ \A i \in 1 .. Len(tc) :
       Items(tc[i], n) => tc[i].body = s \/ \E j \in 1 .. Len(tc) : i < j /\ Items(tc[j], n)

LEMMA FreshHeard ==
  ASSUME NEW n, NEW k, NEW s, NEW tc \in Seq(Messages), NEW k2, Fresh(n, k, s, tc), tc # <<>>,
         k2 = IF Items(Head(tc), n) THEN Head(tc).body ELSE k
  PROVE  Fresh(n, k2, s, Tail(tc))
<1> DEFINE t2 == Tail(tc)
<1>1. /\ t2 \in Seq(Messages) /\ Len(tc) \in Nat \ {0} /\ Len(t2) = Len(tc) - 1
      /\ \A i \in 1 .. Len(t2) : t2[i] = tc[i + 1] /\ i + 1 \in 1 .. Len(tc)
      /\ \A i \in 1 .. Len(tc) : i = 1 \/ (i - 1 \in 1 .. Len(t2) /\ t2[i - 1] = tc[i])
      /\ Head(tc) = tc[1] /\ 1 \in 1 .. Len(tc)
  BY TailIs
<1> HIDE DEF t2
<1>2. ASSUME \A i \in 1 .. Len(t2) : ~Items(t2[i], n)
      PROVE  k2 = s
  <2>1. \A i \in 1 .. Len(tc) : i = 1 \/ ~Items(tc[i], n)
    BY <1>1, <1>2
  <2>2. CASE Items(tc[1], n)
    <3>1. ~ \E j \in 1 .. Len(tc) : 1 < j /\ Items(tc[j], n)
      BY <2>1
    <3> QED
      BY <1>1, <2>2, <3>1 DEF Fresh
  <2>3. CASE ~Items(tc[1], n)
    BY <1>1, <2>1, <2>3 DEF Fresh
  <2> QED
    BY <2>2, <2>3
<1>3. ASSUME NEW i \in 1 .. Len(t2), Items(t2[i], n), t2[i].body # s
      PROVE  \E j \in 1 .. Len(t2) : i < j /\ Items(t2[j], n)
  <2>1. PICK j \in 1 .. Len(tc) : i + 1 < j /\ Items(tc[j], n)
    BY <1>1, <1>3 DEF Fresh
  <2>2. j - 1 \in 1 .. Len(t2) /\ t2[j - 1] = tc[j] /\ i < j - 1
    BY <1>1, <2>1
  <2> QED
    BY <2>1, <2>2
<1> QED
  BY <1>2, <1>3 DEF Fresh, t2

LEMMA FreshAppended ==
  ASSUME NEW n, NEW k, NEW s, NEW tc \in Seq(Messages), NEW m \in Messages, NEW s2, Fresh(n, k, s, tc),
         s2 = IF Items(m, n) THEN m.body ELSE s
  PROVE  Fresh(n, k, s2, Append(tc, m))
<1> DEFINE t2 == Append(tc, m)
<1>1. /\ t2 \in Seq(Messages) /\ Len(tc) \in Nat /\ Len(t2) = Len(tc) + 1
      /\ \A i \in 1 .. Len(tc) : t2[i] = tc[i] /\ i \in 1 .. Len(t2)
      /\ \A i \in 1 .. Len(t2) : i = Len(tc) + 1 \/ i \in 1 .. Len(tc)
      /\ t2[Len(tc) + 1] = m /\ Len(tc) + 1 \in 1 .. Len(t2)
  BY AppendIs
<1> HIDE DEF t2
<1>2. CASE Items(m, n)
  BY <1>1, <1>2 DEF Fresh, t2
<1>3. CASE ~Items(m, n)
  <2>1. (\A i \in 1 .. Len(t2) : ~Items(t2[i], n)) => k = s2
    BY <1>1, <1>3 DEF Fresh
  <2>2. ASSUME NEW i \in 1 .. Len(t2), Items(t2[i], n), t2[i].body # s2
        PROVE  \E j \in 1 .. Len(t2) : i < j /\ Items(t2[j], n)
    <3>1. i \in 1 .. Len(tc) /\ t2[i] = tc[i]
      BY <1>1, <1>3, <2>2
    <3>2. PICK j \in 1 .. Len(tc) : i < j /\ Items(tc[j], n)
      BY <1>3, <2>2, <3>1 DEF Fresh
    <3> QED
      BY <1>1, <3>2
  <2> QED
    BY <2>1, <2>2 DEF Fresh, t2
<1> QED
  BY <1>2, <1>3

-----------------------------------------------------------------------------
(* The invariant *)

Sorts ==
  /\ held \in BOOLEAN /\ pep \in {"new", "started", "disposed"}
  /\ known \in [Names -> States \cup {"unknown"}] /\ shown \in [Names -> 0 .. MaxEvents]
  /\ exists \subseteq Names /\ sub \in [Names -> States] /\ item \in [Names -> 0 .. MaxEvents]
  /\ events \in 0 .. MaxEvents

CallsOK ==
  /\ call \in [Calls -> Records]
  /\ \A c \in Calls : call[c].stage = "asked" =>
       /\ call[c].op \in NodeOps <=> call[c].obj # None
       /\ call[c].op \in NodeOps => call[c].name = nameOf[call[c].obj]
       /\ call[c].result = None

KnownIsCurrent == held => \A n \in Names : Current(n, known[n], sub[n], toClient, call)
ShownIsFresh == held => \A n \in Names : Fresh(n, shown[n], item[n], toClient)

PInv ==
  /\ Sorts /\ NodesOK /\ CallsOK
  /\ Channels(toServer, toClient, call, known)
  /\ KnownIsCurrent /\ ShownIsFresh

LEMMA InvMeansCalls == PInv => CallsAreOnTheirWay
<1> SUFFICES ASSUME PInv PROVE CallsAreOnTheirWay
  OBVIOUS
<1>1. /\ toServer \in Seq(Requests) /\ toClient \in Seq(Messages)
      /\ OnTheirWay(toServer, toClient, call)
  BY DEF PInv, Channels
<1>2. DOMAIN toServer = 1 .. Len(toServer) /\ DOMAIN toClient = 1 .. Len(toClient)
  BY <1>1
<1> QED
  BY <1>1, <1>2 DEF OnTheirWay, IsReply, CallsAreOnTheirWay

LEMMA InvMeansMirrored == PInv => ServiceIsMirrored
<1> SUFFICES ASSUME PInv PROVE ServiceIsMirrored
  OBVIOUS
<1>1. TypeOK
  BY DEF PInv, Sorts, NodesOK, CallsOK, Records, TypeOK
<1>2. NodesAreUnique
  BY DEF PInv, NodesOK
<1>3. ASSUME held, toClient = <<>>
      PROVE  (\A n \in Names : known[n] \in {"unknown", sub[n]}) /\ shown = item
  <2>1. Len(toClient) = 0
    BY <1>3
  <2>2. ASSUME NEW n \in Names
        PROVE  known[n] \in {"unknown", sub[n]}
    BY <1>3, <2>1 DEF PInv, KnownIsCurrent, Current
  <2>3. ASSUME NEW n \in Names
        PROVE  shown[n] = item[n]
    BY <1>3, <2>1 DEF PInv, ShownIsFresh, Fresh
  <2>4. shown = item
    BY <2>3 DEF PInv, Sorts
  <2> QED
    BY <2>2, <2>4
<1> QED
  BY <1>1, <1>2, <1>3 DEF ServiceIsMirrored, MirrorsServer

-----------------------------------------------------------------------------
(* What the steps have in common *)

LEMMA SameNodes ==
  ASSUME NodesOK, UNCHANGED <<table, nameOf, kept>>, \A o \in Objs : Alive(o)' <=> Alive(o),
         ServiceAlive' => ServiceAlive
  PROVE  NodesOK'
BY DEF NodesOK, NodesAreUnique

\* Nobody takes a reference to a service that is gone.
LEMMA GoneStaysGone ==
  ASSUME held' => held, \A o \in Objs : Alive(o)' => Alive(o) \/ ServiceAlive,
         \A c \in Calls : call'[c].stage = "asked" /\ call'[c].op \in ServiceOps =>
           ServiceAlive \/ (call[c].stage = "asked" /\ call[c].op \in ServiceOps)
  PROVE  ServiceAlive' => ServiceAlive
<1> SUFFICES ASSUME ServiceAlive', ~ServiceAlive PROVE FALSE
  OBVIOUS
<1>1. ~held' /\ Living' = {}
  <2>1. ~held /\ Living = {}
    BY DEF ServiceAlive
  <2> QED
    BY <2>1 DEF Living
<1>2. PICK c \in Calls : call'[c].stage = "asked" /\ call'[c].op \in ServiceOps
  BY <1>1 DEF ServiceAlive
<1>3. call[c].stage = "asked" /\ call[c].op \in ServiceOps
  BY <1>2
<1> QED
  BY <1>3 DEF ServiceAlive

\* A step of others leaves the nodes as they are.
LEMMA SameClient ==
  ASSUME NodesOK, UNCHANGED <<table, nameOf, kept, call>>, held' => held
  PROVE  NodesOK'
<1>1. \A o \in Objs : Alive(o)' <=> Alive(o)
  BY DEF Alive, Pending
<1>2. ServiceAlive' => ServiceAlive
  BY <1>1, GoneStaysGone
<1> QED
  BY <1>1, <1>2, SameNodes

\* Objects come and go while calls end.
LEMMA UsingCalls ==
  ASSUME NodesOK, CallsOK, NEW names \in SUBSET Names, Using(names),
         kept' \subseteq kept \cup {EnsureNode(names)[n] : n \in names},
         names # {} => ServiceAlive, held' => held,
         call' \in [Calls -> Records],
         \A c \in Calls : call'[c] = call[c] \/ call'[c].stage = "done"
  PROVE  NodesOK' /\ CallsOK'
<1>1. PICK e : e = EnsureNode(names)
  OBVIOUS
<1>2. \A n \in names : e[n] \in Objs
  BY <1>1, EnsuredIs
<1>3. kept' \subseteq Objs
  BY <1>1, <1>2 DEF NodesOK
<1>4. \A o \in Objs : Alive(o)' => Alive(o) \/ \E n \in names : e[n] = o
  BY <1>1 DEF Alive, Pending
<1>5. Living' \subseteq Living \cup {EnsureNode(names)[n] : n \in names}
  BY <1>1, <1>4 DEF Living
<1>0. ServiceAlive' => ServiceAlive
  BY <1>1, <1>4, GoneStaysGone
<1>6. NodesOK' /\ \A o \in Objs : Alive(o) /\ Alive(o)' => nameOf'[o] = nameOf[o]
  BY <1>0, <1>3, <1>5, UsingStep
<1>7. ASSUME NEW c \in Calls, call'[c].stage = "asked"
      PROVE  /\ call'[c].op \in NodeOps <=> call'[c].obj # None
             /\ call'[c].op \in NodeOps => call'[c].name = nameOf'[call'[c].obj]
             /\ call'[c].result = None
  <2>1. call'[c] = call[c]
    BY <1>7
  <2>2. /\ call[c].op \in NodeOps <=> call[c].obj # None
        /\ call[c].op \in NodeOps => call[c].name = nameOf[call[c].obj]
        /\ call[c].result = None
    BY <1>7, <2>1 DEF CallsOK
  <2>3. call[c].obj # None => call[c].obj \in Objs
    BY DEF CallsOK, Records
  <2>4. call[c].obj # None => Alive(call[c].obj) /\ Alive(call[c].obj)'
    BY <1>7, <2>1 DEF Alive, Pending
  <2> QED
    BY <1>6, <2>1, <2>2, <2>3, <2>4
<1> QED
  BY <1>6, <1>7 DEF CallsOK

\* What the client makes of n when it has heard the first message
Heard(n, kn2) ==
  \/ kn2[n] = "unknown"
  \/ /\ known[n] # "unknown"
     /\ IF Tells(Head(toClient), n, call) THEN kn2[n] = Says(Head(toClient), call)
        ELSE \/ kn2[n] = known[n]
             \/ Snapshot(Head(toClient), call) /\ kn2[n] = Head(toClient).body[n]

LEMMA FirstGone ==
  ASSUME PInv, toClient # <<>>, toClient' = Tail(toClient), NodesOK', CallsOK',
         UNCHANGED <<held, pep, server, toServer, events>>,
         \A c \in Calls : \/ call'[c] = call[c]
                          \/ /\ IsReply(Head(toClient)) /\ c = Head(toClient).call
                             /\ call'[c].stage = "done",
         IsReply(Head(toClient)) => call'[Head(toClient).call].stage = "done",
         known' \in [Names -> States \cup {"unknown"}], shown' \in [Names -> 0 .. MaxEvents],
         \A n \in Names : known[n] = "unknown" => known'[n] = "unknown",
         held => \A n \in Names :
           /\ Heard(n, known')
           /\ shown'[n] = IF Items(Head(toClient), n) THEN Head(toClient).body ELSE shown[n]
  PROVE  PInv'
<1>1. PICK tc, t2, cl, cl2, kn, kn2 :
        tc = toClient /\ t2 = toClient' /\ cl = call /\ cl2 = call' /\ kn = known /\ kn2 = known'
  OBVIOUS
<1>2. Channels(toServer, tc, cl, kn) /\ t2 = Tail(tc)
  BY <1>1 DEF PInv
<1>3. Channels(toServer, t2, cl2, kn2)
  BY <1>1, <1>2, HeardChannels
<1>4. Channels(toServer, toClient, call, known)'
  BY <1>1, <1>3
<1>5. tc \in Seq(Messages)
  BY <1>2 DEF Channels
<1>6. Sorts'
  BY DEF PInv, Sorts, server
<1>7. ShownIsFresh'
  <2>1. ASSUME held, NEW n \in Names
        PROVE  Fresh(n, shown'[n], item[n], t2)
    <3>1. Fresh(n, shown[n], item[n], tc)
      BY <1>1, <2>1 DEF PInv, ShownIsFresh
    <3> QED
      BY <1>1, <1>2, <1>5, <2>1, <3>1, FreshHeard
  <2> QED
    BY <1>1, <2>1 DEF ShownIsFresh, server
<1>8. KnownIsCurrent'
  <2>1. ASSUME held, NEW n \in Names
        PROVE  Current(n, kn2[n], sub[n], t2, cl2)
    <3>1. Current(n, kn[n], sub[n], tc, cl)
      BY <1>1, <2>1 DEF PInv, KnownIsCurrent
    <3>2. \/ kn2[n] = "unknown"
          \/ /\ kn[n] # "unknown"
             /\ IF Tells(Head(tc), n, cl) THEN kn2[n] = Says(Head(tc), cl)
                ELSE kn2[n] = kn[n] \/ (Snapshot(Head(tc), cl) /\ kn2[n] = Head(tc).body[n])
      <4>1. Heard(n, known')
        BY <2>1
      <4> QED
        BY <1>1, <4>1 DEF Heard
    <3>3. PICK k2 : k2 = kn2[n]
      OBVIOUS
    <3>4. Current(n, k2, sub[n], t2, cl)
      BY <1>1, <1>2, <1>5, <3>1, <3>2, <3>3, CurrentHeard
    <3>5. \A i \in 1 .. Len(t2) : IsReply(t2[i]) => cl2[t2[i].call] = cl[t2[i].call]
      <4>1. /\ \A i \in 1 .. Len(t2) : t2[i] = tc[i + 1] /\ i + 1 \in 1 .. Len(tc) /\ i + 1 # 1
            /\ Head(tc) = tc[1] /\ 1 \in 1 .. Len(tc)
        BY <1>1, <1>2, <1>5, TailIs
      <4>2. \A i \in 1 .. Len(t2) : IsReply(t2[i]) /\ IsReply(tc[1]) => t2[i].call # tc[1].call
        <5>1. \A i, j \in 1 .. Len(tc) :
                IsReply(tc[i]) /\ IsReply(tc[j]) /\ tc[i].call = tc[j].call => i = j
          BY <1>2 DEF Channels, OneMessage
        <5> QED
          BY <4>1, <5>1
      <4>3. \A i \in 1 .. Len(t2) : IsReply(t2[i]) => t2[i].call \in Calls
        BY <1>5, <4>1, MessagesAre
      <4>4. \A c \in Calls : cl2[c] = cl[c] \/ (IsReply(tc[1]) /\ c = tc[1].call)
        BY <1>1, <4>1
      <4> QED
        BY <4>2, <4>3, <4>4
    <3>6. \A i \in 1 .. Len(t2) :
            /\ Tells(t2[i], n, cl2) <=> Tells(t2[i], n, cl)
            /\ Tells(t2[i], n, cl2) => Says(t2[i], cl2) = Says(t2[i], cl)
            /\ Snapshot(t2[i], cl2) => Snapshot(t2[i], cl)
      BY <3>5 DEF Tells, Says, Snapshot
    <3> QED
      BY <3>3, <3>4, <3>6, CurrentStill
  <2> QED
    BY <1>1, <2>1 DEF KnownIsCurrent, server
<1> QED
  BY <1>4, <1>6, <1>7, <1>8 DEF PInv

-----------------------------------------------------------------------------
(* The replies *)

LEMMA ReplyIs ==
  ASSUME PInv, NEW ops, Replied(ops)
  PROVE  /\ toClient # <<>> /\ IsReply(Reply) /\ Reply \in Replies
         /\ Reply.call \in Calls /\ Asked \in Records /\ Asked.stage = "asked" /\ Asked.op \in ops
         /\ Fits(Reply, Asked)
         /\ Asked.op \in NodeOps => Asked.name \in Names
         /\ Asked.op \in NodeOps \cup ServiceOps => ServiceAlive
<1>1. toClient \in Seq(Messages) /\ RepliesFit(toClient, call)
  BY DEF PInv, Channels
<1>2. toClient # <<>> /\ IsReply(Reply) /\ Asked.stage = "asked" /\ Asked.op \in ops
  BY DEF Replied, Asked, IsReply
<1>3. Reply = toClient[1] /\ 1 \in 1 .. Len(toClient) /\ Reply \in Messages
  BY <1>1, <1>2, TailIs DEF Reply
<1>4. Reply \in Replies
  BY <1>2, <1>3 DEF Messages, Replies, EventMessages, IsReply
<1>5. Reply.call \in Calls
  BY <1>4 DEF Replies
<1>6. Asked \in Records
  BY <1>5 DEF PInv, CallsOK, Asked
<1>7. Fits(Reply, Asked)
  BY <1>1, <1>2, <1>3 DEF RepliesFit, Asked
<1>8. ASSUME Asked.op \in NodeOps
      PROVE  Asked.name \in Names
  <2>1. Asked.obj # None /\ Asked.name = nameOf[Asked.obj]
    BY <1>2, <1>5, <1>8 DEF PInv, CallsOK, Asked
  <2>2. Asked.obj \in Objs
    BY <1>6, <2>1 DEF Records
  <2>3. Alive(Asked.obj)
    BY <1>2, <1>5 DEF Alive, Pending, Asked
  <2> QED
    BY <2>1, <2>2, <2>3 DEF PInv, NodesOK
<1>9. ASSUME Asked.op \in NodeOps \cup ServiceOps
      PROVE  ServiceAlive
  <2>1. CASE Asked.op \in ServiceOps
    BY <1>2, <1>5, <2>1 DEF ServiceAlive, Asked
  <2>2. CASE Asked.op \in NodeOps
    <3>1. Asked.obj # None
      BY <1>2, <1>5, <2>2 DEF PInv, CallsOK, Asked
    <3>2. Asked.obj \in Objs
      BY <1>6, <3>1 DEF Records
    <3>3. PICK o \in Objs : o = Asked.obj
      BY <3>2
    <3>4. Alive(o)
      BY <1>2, <1>5, <3>3 DEF Alive, Pending, Asked
    <3>5. o \in Living
      BY <3>4 DEF Living
    <3> QED
      BY <3>5 DEF ServiceAlive
  <2> QED
    BY <1>9, <2>1, <2>2
<1> QED
  BY <1>2, <1>4, <1>5, <1>6, <1>7, <1>8, <1>9

LEMMA CompletedKeeps ==
  ASSUME PInv, NEW ops, Replied(ops), NEW result \in Results, NEW names \in SUBSET Names,
         Complete(result, names), names # {} => Asked.op \in NodeOps \cup ServiceOps,
         known' \in [Names -> States \cup {"unknown"}],
         \A n \in Names : known[n] = "unknown" => known'[n] = "unknown",
         held => \A n \in Names : Heard(n, known')
  PROVE  PInv'
<1>1. /\ toClient # <<>> /\ IsReply(Reply) /\ Reply.call \in Calls
      /\ toClient \in Seq(Messages)
  BY ReplyIs DEF PInv, Channels
<1>2. PICK c \in Calls : c = Reply.call
  BY <1>1
<1>3. PICK x : x = [Idle EXCEPT !.stage = "done", !.result = result]
  OBVIOUS
<1>4. x \in Records /\ x.stage = "done"
  BY <1>3 DEF Idle, Records
<1>5. call' = [call EXCEPT ![c] = x]
  BY <1>2, <1>3 DEF Complete
<1>6. call \in [Calls -> Records]
  BY DEF PInv, CallsOK
<1>7. /\ call' \in [Calls -> Records] /\ call'[c].stage = "done"
      /\ \A d \in Calls : call'[d] = call[d] \/ (d = c /\ call'[d].stage = "done")
  BY <1>4, <1>5, <1>6
<1>8. NodesOK' /\ CallsOK'
  <2>1. names # {} => ServiceAlive
    BY ReplyIs
  <2> QED
    BY <1>7, <2>1, UsingCalls DEF PInv, Complete
<1>9. ASSUME NEW n \in Names
      PROVE  shown'[n] = IF Items(Head(toClient), n) THEN Head(toClient).body ELSE shown[n]
  BY <1>1 DEF Items, IsReply, Reply, Complete
<1>10. /\ toClient' = Tail(toClient) /\ UNCHANGED <<held, pep, server, toServer, events>>
       /\ shown' \in [Names -> 0 .. MaxEvents]
  BY DEF Complete, PInv, Sorts
<1>11. \A d \in Calls : \/ call'[d] = call[d]
                        \/ /\ IsReply(Head(toClient)) /\ d = Head(toClient).call
                           /\ call'[d].stage = "done"
  BY <1>1, <1>2, <1>7 DEF Reply
<1>12. call'[Head(toClient).call].stage = "done"
  BY <1>2, <1>7 DEF Reply
<1> QED
  BY <1>1, <1>8, <1>9, <1>10, <1>11, <1>12, FirstGone

\* Which subscription an answer tells of
LEMMA AnswerTells ==
  ASSUME PInv, NEW ops, Replied(ops), NEW n \in Names
  PROVE  /\ Tells(Head(toClient), n, call) <=>
              ~Reply.error /\ Asked.op \in {"subscribe", "unsubscribe", "delete"} /\ Asked.name = n
         /\ Says(Head(toClient), call) =
              IF Asked.op # "subscribe" THEN "none"
              ELSE IF Reply.body = None THEN "unknown" ELSE Reply.body.state
         /\ Snapshot(Head(toClient), call) <=> ~Reply.error /\ Asked.op = "subscriptions"
<1>1. Reply.type = "reply" /\ IsReply(Reply) /\ Asked.stage = "asked"
  BY ReplyIs DEF IsReply
<1> QED
  BY <1>1 DEF Tells, Says, Snapshot, Asked, Reply

\* An answer that tells of no subscription
LEMMA OtherAnswers ==
  ASSUME PInv, NEW ops, Replied(ops), UNCHANGED known, NEW n \in Names,
         Reply.error \/ Asked.op \notin {"subscribe", "unsubscribe", "delete"}
  PROVE  Heard(n, known')
<1>1. ~Tells(Head(toClient), n, call)
  BY AnswerTells
<1> QED
  BY <1>1 DEF Heard

LEMMA OtherKeeps ==
  ASSUME PInv, NEW ops, Replied(ops), NEW result \in Results, NEW names \in SUBSET Names,
         Complete(result, names), UNCHANGED known,
         names # {} => Asked.op \in NodeOps \cup ServiceOps,
         Reply.error \/ Asked.op \notin {"subscribe", "unsubscribe", "delete"}
  PROVE  PInv'
<1>1. known' \in [Names -> States \cup {"unknown"}]
  BY DEF PInv, Sorts
<1>2. \A n \in Names : Heard(n, known')
  BY OtherAnswers
<1> QED
  BY <1>1, <1>2, CompletedKeeps

LEMMA LearnIs ==
  ASSUME PInv, NEW n \in Names, NEW s \in States \cup {"unknown"}, Learn(n, s)
  PROVE  /\ known' \in [Names -> States \cup {"unknown"}]
         /\ \A m \in Names : known[m] = "unknown" => known'[m] = "unknown"
         /\ \A m \in Names \ {n} : known'[m] = known[m]
         /\ known[n] # "unknown" => known'[n] = s
<1>1. known \in [Names -> States \cup {"unknown"}]
  BY DEF PInv, Sorts
<1>2. known' = [known EXCEPT ![n] = IF known[n] = "unknown" THEN known[n] ELSE s]
  BY DEF Learn
<1> QED
  BY <1>1, <1>2

\* The answer that tells of a change
LEMMA LearnKeeps ==
  ASSUME PInv, NEW ops, Replied(ops), NEW result \in Results, NEW names \in SUBSET Names,
         Complete(result, names), ~Reply.error,
         NEW n \in Names, n = Asked.name, Asked.op \in {"subscribe", "unsubscribe", "delete"},
         NEW s \in States \cup {"unknown"}, s = Says(Head(toClient), call), Learn(n, s)
  PROVE  PInv'
<1>1. /\ known' \in [Names -> States \cup {"unknown"}]
      /\ \A m \in Names : known[m] = "unknown" => known'[m] = "unknown"
      /\ \A m \in Names \ {n} : known'[m] = known[m]
      /\ known[n] # "unknown" => known'[n] = s
  BY LearnIs
<1>2. \A m \in Names : Tells(Head(toClient), m, call) <=> m = n
  BY AnswerTells
<1>3. ASSUME NEW m \in Names
      PROVE  Heard(m, known')
  <2>1. CASE m = n
    BY <1>1, <1>2, <2>1 DEF Heard
  <2>2. CASE m # n
    BY <1>1, <1>2, <2>2 DEF Heard
  <2> QED
    BY <2>1, <2>2
<1> QED
  BY <1>1, <1>3, CompletedKeeps DEF NodeOps

LEMMA SubscribeCbKeeps ==
  ASSUME PInv, SubscribeCb
  PROVE  PInv'
<1>1. Replied({"subscribe"})
  BY DEF SubscribeCb
<1>2. /\ Reply \in Replies /\ Asked.op = "subscribe" /\ Asked.name \in Names
      /\ Fits(Reply, Asked) /\ Asked.stage = "asked"
  BY <1>1, ReplyIs DEF NodeOps
<1>3. PICK n \in Names : n = Asked.name
  BY <1>2
<1>4. PICK r : r = Distilled(Reply, FALSE)
  OBVIOUS
<1>5. /\ Complete(r, IF r = "ok" THEN {Reply.body.name} ELSE {})
      /\ CASE r = "ok" -> Learn(Reply.body.name, Reply.body.state)
           [] r = "wrong reply" -> Learn(Asked.name, "unknown")
           [] OTHER -> UNCHANGED known
  BY <1>4 DEF SubscribeCb
<1>6. r = IF Reply.error THEN "refused" ELSE IF Reply.body = None THEN "wrong reply" ELSE "ok"
  BY <1>4 DEF Distilled
<1>7. Says(Head(toClient), call) = IF Reply.body = None THEN "unknown" ELSE Reply.body.state
  BY <1>1, <1>2, AnswerTells, <1>3
<1>8. CASE Reply.error
  <2>1. r = "refused" /\ Complete(r, {}) /\ UNCHANGED known /\ r \in Results /\ {} \in SUBSET Names
    BY <1>5, <1>6, <1>8 DEF Results
  <2> QED
    BY <1>1, <1>8, <2>1, OtherKeeps
<1>9. CASE ~Reply.error /\ Reply.body = None
  <2>1. r = "wrong reply" /\ Complete(r, {}) /\ Learn(n, "unknown") /\ r \in Results
    BY <1>3, <1>5, <1>6, <1>9 DEF Results
  <2>2. PICK s \in States \cup {"unknown"} : s = "unknown"
    OBVIOUS
  <2>3. s = Says(Head(toClient), call) /\ Learn(n, s) /\ {} \in SUBSET Names
    BY <1>7, <1>9, <2>1, <2>2
  <2> QED
    BY <1>1, <1>2, <1>3, <1>9, <2>1, <2>3, LearnKeeps
<1>10. CASE ~Reply.error /\ Reply.body # None
  <2>1. Reply.body \in [name : {n}, state : {"pending", "subscribed"}]
    BY <1>2, <1>3, <1>10 DEF Fits, Answers
  <2>2. Reply.body.name = n /\ Reply.body.state \in States \cup {"unknown"}
    BY <2>1 DEF States
  <2>3. r = "ok" /\ Complete(r, {n}) /\ Learn(n, Reply.body.state) /\ r \in Results
    BY <1>5, <1>6, <1>10, <2>2 DEF Results
  <2>4. PICK s \in States \cup {"unknown"} : s = Reply.body.state
    BY <2>2
  <2>5. s = Says(Head(toClient), call) /\ Learn(n, s) /\ {n} \in SUBSET Names
    BY <1>7, <1>10, <2>3, <2>4
  <2> QED
    BY <1>1, <1>2, <1>3, <1>10, <2>3, <2>5, LearnKeeps
<1> QED
  BY <1>8, <1>9, <1>10

LEMMA VoidIqCbKeeps ==
  ASSUME PInv, VoidIqCb
  PROVE  PInv'
<1>1. Replied({"unsubscribe", "delete", "modify"})
  BY DEF VoidIqCb
<1>2. /\ Reply \in Replies /\ Asked.op \in {"unsubscribe", "delete", "modify"}
      /\ Asked.name \in Names
  BY <1>1, ReplyIs DEF NodeOps
<1>3. PICK n \in Names : n = Asked.name
  BY <1>2
<1>4. PICK r : r = Distilled([Reply EXCEPT !.body = None], TRUE)
  OBVIOUS
<1>5. /\ Complete(r, {})
      /\ IF r = "ok" /\ Asked.op # "modify" THEN Learn(n, "none") ELSE UNCHANGED known
  BY <1>3, <1>4 DEF VoidIqCb
<1>6. r = (IF Reply.error THEN "refused" ELSE "ok") /\ r \in Results /\ {} \in SUBSET Names
  BY <1>2, <1>4 DEF Distilled, Replies, Results
<1>7. CASE r = "ok" /\ Asked.op # "modify"
  <2>1. PICK s \in States \cup {"unknown"} : s = "none"
    BY DEF States
  <2>2. s = Says(Head(toClient), call)
    BY <1>1, <1>2, <1>3, <2>1, AnswerTells
  <2>3. ~Reply.error /\ Learn(n, s) /\ Asked.op \in {"subscribe", "unsubscribe", "delete"}
    BY <1>2, <1>5, <1>6, <1>7, <2>1
  <2> QED
    BY <1>1, <1>3, <1>5, <1>6, <2>2, <2>3, LearnKeeps
<1>8. CASE ~(r = "ok" /\ Asked.op # "modify")
  <2>1. /\ UNCHANGED known
        /\ Reply.error \/ Asked.op \notin {"subscribe", "unsubscribe", "delete"}
    BY <1>2, <1>5, <1>6, <1>8
  <2> QED
    BY <1>1, <1>5, <1>6, <2>1, OtherKeeps
<1> QED
  BY <1>7, <1>8

LEMMA ListCbKeeps ==
  ASSUME PInv, NEW op \in {"subscribers", "affiliates"}, ListCb(op)
  PROVE  PInv'
<1>1. Replied({op})
  BY DEF ListCb
<1>2. /\ Reply \in Replies /\ Asked.op = op /\ Asked.name \in Names /\ Fits(Reply, Asked)
      /\ Asked.stage = "asked"
  BY <1>1, ReplyIs DEF NodeOps
<1>3. PICK r : r = Distilled(Reply, FALSE)
  OBVIOUS
<1>4. Complete(r, IF r = "ok" THEN Reply.body ELSE {}) /\ UNCHANGED known
  BY <1>3 DEF ListCb
<1>5. r = IF Reply.error THEN "refused" ELSE IF Reply.body = None THEN "wrong reply" ELSE "ok"
  BY <1>3 DEF Distilled
<1>6. r \in Results /\ Asked.op \notin {"subscribe", "unsubscribe", "delete"}
  BY <1>2, <1>5 DEF Results
<1>7. r = "ok" => Reply.body = {Asked.name}
  BY <1>2, <1>5 DEF Fits, Answers
<1>8. PICK names \in SUBSET Names : names = IF r = "ok" THEN Reply.body ELSE {}
  BY <1>2, <1>7
<1>9. Complete(r, names) /\ Asked.op \in NodeOps
  BY <1>2, <1>4, <1>8 DEF NodeOps
<1> QED
  BY <1>1, <1>4, <1>6, <1>9, OtherKeeps

LEMMA FormCbKeeps ==
  ASSUME PInv, NEW op \in {"configuration", "default"}, FormCb(op)
  PROVE  PInv'
<1>1. Replied({op})
  BY DEF FormCb
<1>2. PICK r : r = Distilled(Reply, FALSE)
  OBVIOUS
<1>3. Complete(r, {}) /\ UNCHANGED known /\ r \in Results /\ {} \in SUBSET Names
  BY <1>2 DEF FormCb, Distilled, Results
<1>4. Asked.op \notin {"subscribe", "unsubscribe", "delete"}
  BY <1>1, ReplyIs
<1> QED
  BY <1>1, <1>3, <1>4, OtherKeeps

LEMMA SendQueryCbKeeps ==
  ASSUME PInv, SendQueryCb
  PROVE  PInv'
<1>1. Replied({"get"})
  BY DEF SendQueryCb
<1>2. PICK r : r = IF Reply.error THEN "refused" ELSE "ok"
  OBVIOUS
<1>3. Complete(r, {}) /\ UNCHANGED known /\ r \in Results /\ {} \in SUBSET Names
  BY <1>2 DEF SendQueryCb, Results
<1>4. Asked.op \notin {"subscribe", "unsubscribe", "delete"}
  BY <1>1, ReplyIs
<1> QED
  BY <1>1, <1>3, <1>4, OtherKeeps

\* The list of all the subscriptions is what they were when it was made.
LEMMA ReceiveSubscriptionsCbKeeps ==
  ASSUME PInv, ReceiveSubscriptionsCb
  PROVE  PInv'
<1>1. Replied({"subscriptions"})
  BY DEF ReceiveSubscriptionsCb
<1>2. Reply \in Replies /\ Asked.op = "subscriptions" /\ Fits(Reply, Asked) /\ Asked.stage = "asked"
  BY <1>1, ReplyIs
<1>3. PICK r : r = Distilled(Reply, FALSE)
  OBVIOUS
<1>4. PICK body : body = Reply.body
  OBVIOUS
<1>5. PICK names \in SUBSET Names : names = IF r = "ok" THEN {n \in Names : body[n] # "none"} ELSE {}
  OBVIOUS
<1>6. /\ Complete(r, names)
      /\ known' = IF r = "ok" THEN [n \in Names |-> IF known[n] = "unknown" THEN known[n] ELSE body[n]]
                  ELSE known
  BY <1>3, <1>4, <1>5 DEF ReceiveSubscriptionsCb
<1>7. r = IF Reply.error THEN "refused" ELSE IF Reply.body = None THEN "wrong reply" ELSE "ok"
  BY <1>3 DEF Distilled
<1>8. r \in Results /\ Asked.op \in ServiceOps
  BY <1>2, <1>7 DEF Results, ServiceOps
<1>9. known \in [Names -> States \cup {"unknown"}]
  BY DEF PInv, Sorts
<1>10. CASE r = "ok"
  <2>1. ~Reply.error /\ body \in [Names -> States]
    BY <1>2, <1>4, <1>7, <1>10 DEF Fits, Answers
  <2>2. /\ known' \in [Names -> States \cup {"unknown"}]
        /\ \A n \in Names : known'[n] = IF known[n] = "unknown" THEN known[n] ELSE body[n]
    BY <1>6, <1>9, <1>10, <2>1
  <2>3. ASSUME NEW n \in Names
        PROVE  Heard(n, known')
    <3>1. ~Tells(Head(toClient), n, call) /\ Snapshot(Head(toClient), call)
      BY <1>1, <1>2, <2>1, AnswerTells
    <3>2. Head(toClient).body = body
      BY <1>4 DEF Reply
    <3> QED
      BY <2>2, <3>1, <3>2 DEF Heard
  <2> QED
    BY <1>1, <1>6, <1>8, <2>2, <2>3, CompletedKeeps
<1>11. CASE r # "ok"
  BY <1>1, <1>2, <1>6, <1>8, <1>11, OtherKeeps
<1> QED
  BY <1>10, <1>11

LEMMA CreateNodeIqCbKeeps ==
  ASSUME PInv, CreateNodeIqCb
  PROVE  PInv'
<1>1. Replied({"create"})
  BY DEF CreateNodeIqCb
<1>2. /\ Reply \in Replies /\ Asked.op = "create" /\ Fits(Reply, Asked) /\ Asked.stage = "asked"
      /\ Asked.name \in Names \cup {None}
  BY <1>1, ReplyIs DEF Records
<1>3. PICK made : made = HandleCreateNodeReply(Reply, Asked.name)
  OBVIOUS
<1>4. made.result \in Results /\ made.name \in Names \cup {None}
  <2>1. ~Reply.error => Reply.body \in Names \cup {None}
    BY <1>2 DEF Fits, Answers
  <2>2. CASE Reply.error
    BY <1>3, <2>2 DEF HandleCreateNodeReply, Distilled, Results
  <2>3. CASE ~Reply.error
    BY <1>2, <1>3, <2>1, <2>3 DEF HandleCreateNodeReply, Distilled, Results
  <2> QED
    BY <2>2, <2>3
<1>5. PICK r \in Results, names \in SUBSET Names : r = made.result /\ names = {made.name} \ {None}
  BY <1>4
<1>6. Complete(r, names) /\ UNCHANGED known /\ Asked.op \in ServiceOps
  BY <1>2, <1>3, <1>5 DEF CreateNodeIqCb, ServiceOps
<1> QED
  BY <1>1, <1>2, <1>6, OtherKeeps

-----------------------------------------------------------------------------
(* The other messages *)

LEMMA FirstIs ==
  ASSUME PInv, toClient # <<>>
  PROVE  /\ Reply \in Messages /\ toClient \in Seq(Messages)
         /\ Reply \notin Replies => Reply \in EventMessages /\ ~IsReply(Reply) /\ Reply.name \in Names
         /\ Reply.type = "items" => Reply.body \in 0 .. MaxEvents
         /\ Reply.type = "subscription" => Reply.body \in States
         /\ IsReply(Reply) => Reply.call \in Calls
<1>1. toClient \in Seq(Messages)
  BY DEF PInv, Channels
<1>2. Reply \in Messages
  BY <1>1, TailIs DEF Reply
<1>3. MaxEvents \in Nat
  BY PubSubAssumption
<1>4. Reply \notin Replies => Reply \in EventMessages /\ ~IsReply(Reply) /\ Reply.name \in Names
  BY <1>2 DEF Messages, EventMessages, IsReply
<1>5. Reply.type = "items" => Reply.body \in 0 .. MaxEvents
  <2> SUFFICES ASSUME Reply.type = "items" PROVE Reply.body \in 0 .. MaxEvents
    OBVIOUS
  <2>1. Reply \in [type : {"items"}, name : Names, body : 1 .. MaxEvents]
    BY <1>2 DEF Messages, Replies, EventMessages
  <2>2. Reply.body \in 1 .. MaxEvents
    BY <2>1
  <2> QED
    BY <1>3, <2>2
<1>6. Reply.type = "subscription" => Reply.body \in States
  BY <1>2 DEF Messages, Replies, EventMessages
<1>7. IsReply(Reply) => Reply.call \in Calls
  BY <1>2 DEF Messages, Replies, EventMessages, IsReply
<1> QED
  BY <1>1, <1>2, <1>4, <1>5, <1>6, <1>7

LEMMA LateReplyKeeps ==
  ASSUME PInv, LateReply
  PROVE  PInv'
<1>1. /\ toClient # <<>> /\ IsReply(Reply) /\ call[Reply.call].stage = "done"
      /\ toClient' = Tail(toClient)
      /\ UNCHANGED <<held, table, nameOf, kept, call, known, shown, pep>>
      /\ UNCHANGED <<server, toServer, events>>
  BY DEF LateReply, IsReply, client
<1>2. NodesOK'
  BY <1>1, SameClient DEF PInv
<1>3. CallsOK'
  BY <1>1 DEF PInv, CallsOK
<1>4. ASSUME NEW n \in Names
      PROVE  Heard(n, known') /\ ~Items(Head(toClient), n)
  <2>1. ~Tells(Head(toClient), n, call) /\ ~Items(Head(toClient), n)
    BY <1>1 DEF Tells, Items, IsReply, Reply
  <2> QED
    BY <1>1, <2>1 DEF Heard
<1>5. /\ known' \in [Names -> States \cup {"unknown"}] /\ shown' \in [Names -> 0 .. MaxEvents]
  BY <1>1 DEF PInv, Sorts
<1>6. call'[Head(toClient).call].stage = "done"
  BY <1>1 DEF Reply
<1>7. \A n \in Names : shown'[n] = IF Items(Head(toClient), n) THEN Head(toClient).body ELSE shown[n]
  BY <1>1, <1>4
<1> QED
  BY <1>1, <1>2, <1>3, <1>4, <1>5, <1>6, <1>7, FirstGone

\* An event has reached the client.
LEMMA EventHeard ==
  ASSUME PInv, toClient # <<>>, toClient' = Tail(toClient), ~IsReply(Reply), NodesOK', CallsOK',
         UNCHANGED <<held, call, pep, server, toServer, events>>,
         known' \in [Names -> States \cup {"unknown"}], shown' \in [Names -> 0 .. MaxEvents],
         \A n \in Names : known[n] = "unknown" => known'[n] = "unknown",
         held => \A n \in Names :
           /\ Heard(n, known')
           /\ shown'[n] = IF Items(Reply, n) THEN Reply.body ELSE shown[n]
  PROVE  PInv'
BY FirstGone DEF Reply

LEMMA PropagateIs ==
  ASSUME PInv, NEW type \in {"items", "subscription", "delete"}, PropagateEvent(type)
  PROVE  /\ toClient # <<>> /\ toClient' = Tail(toClient) /\ ~IsReply(Reply) /\ Reply.type = type
         /\ Reply.name \in Names /\ NodesOK' /\ CallsOK'
         /\ UNCHANGED <<held, call, pep, server, toServer, events>>
         /\ held => ServiceAlive
<1>1. toClient # <<>> /\ toClient' = Tail(toClient) /\ Reply.type = type
  BY DEF PropagateEvent, Event
<1>2. ~IsReply(Reply) /\ Reply.name \in Names
  <2>1. ~IsReply(Reply)
    BY <1>1 DEF IsReply
  <2>2. Reply \notin Replies
    BY <2>1 DEF Replies, IsReply
  <2> QED
    BY <1>1, <2>1, <2>2, FirstIs
<1>3. PICK names \in SUBSET Names : names = IF type \in EventMappings /\ ServiceAlive THEN {Reply.name} ELSE {}
  BY <1>2
<1>4. Using(names)
  BY <1>3 DEF PropagateEvent
<1>5. kept' \subseteq kept \cup {EnsureNode(names)[n] : n \in names}
  BY <1>3 DEF PropagateEvent
<1>6. UNCHANGED <<held, call, pep, server, toServer, events>>
  BY DEF PropagateEvent
<1>7. NodesOK' /\ CallsOK'
  <2>1. call' \in [Calls -> Records] /\ \A c \in Calls : call'[c] = call[c]
    BY <1>6 DEF PInv, CallsOK
  <2>2. (names # {} => ServiceAlive) /\ held' = held
    BY <1>3, <1>6
  <2> QED
    BY <1>4, <1>5, <2>1, <2>2, UsingCalls DEF PInv
<1>8. held => ServiceAlive
  BY DEF ServiceAlive
<1> QED
  BY <1>1, <1>2, <1>6, <1>7, <1>8

LEMMA HandleItemsEventKeeps ==
  ASSUME PInv, HandleItemsEvent
  PROVE  PInv'
<1>1. PropagateEvent("items") /\ UNCHANGED known
      /\ shown' = IF ServiceAlive THEN [shown EXCEPT ![Reply.name] = Reply.body] ELSE shown
  BY DEF HandleItemsEvent
<1>2. PICK type \in {"items", "subscription", "delete"} : type = "items"
  OBVIOUS
<1>3. /\ toClient # <<>> /\ toClient' = Tail(toClient) /\ ~IsReply(Reply) /\ Reply.type = "items"
      /\ Reply.name \in Names /\ NodesOK' /\ CallsOK'
      /\ UNCHANGED <<held, call, pep, server, toServer, events>>
      /\ held => ServiceAlive
  BY <1>1, <1>2, PropagateIs
<1>4. Reply.body \in 0 .. MaxEvents
  BY <1>3, FirstIs
<1>5. shown \in [Names -> 0 .. MaxEvents] /\ known' \in [Names -> States \cup {"unknown"}]
  BY <1>1 DEF PInv, Sorts
<1>6. shown' \in [Names -> 0 .. MaxEvents]
  BY <1>1, <1>4, <1>5
<1>7. ASSUME held, NEW n \in Names
      PROVE  Heard(n, known') /\ shown'[n] = IF Items(Reply, n) THEN Reply.body ELSE shown[n]
  <2>1. ~Tells(Head(toClient), n, call)
    BY <1>3 DEF Tells, Reply
  <2>2. Heard(n, known')
    BY <1>1, <2>1 DEF Heard
  <2>3. Items(Reply, n) <=> Reply.name = n
    BY <1>3 DEF Items
  <2>4. shown' = [shown EXCEPT ![Reply.name] = Reply.body]
    BY <1>1, <1>3, <1>7
  <2>5. shown'[n] = IF Reply.name = n THEN Reply.body ELSE shown[n]
    BY <1>5, <2>4
  <2> QED
    BY <2>2, <2>3, <2>5
<1>8. \A n \in Names : known[n] = "unknown" => known'[n] = "unknown"
  BY <1>1
<1> QED
  BY <1>3, <1>5, <1>6, <1>7, <1>8, EventHeard

\* A change of the subscription to the node the first message is about
LEMMA HearKeeps ==
  ASSUME PInv, NEW type \in {"subscription", "delete"}, PropagateEvent(type),
         NEW s \in States, s = IF type = "delete" THEN "none" ELSE Reply.body,
         Hear(type, Reply.name, s), UNCHANGED shown
  PROVE  PInv'
<1>1. /\ toClient # <<>> /\ toClient' = Tail(toClient) /\ ~IsReply(Reply) /\ Reply.type = type
      /\ Reply.name \in Names /\ NodesOK' /\ CallsOK'
      /\ UNCHANGED <<held, call, pep, server, toServer, events>>
      /\ held => ServiceAlive
  BY PropagateIs
<1>2. PICK n \in Names : n = Reply.name
  BY <1>1
<1>3. IF ServiceAlive THEN Learn(n, s) ELSE UNCHANGED known
  BY <1>2 DEF Hear, EventMappings
<1>4. /\ known' \in [Names -> States \cup {"unknown"}]
      /\ \A m \in Names : known[m] = "unknown" => known'[m] = "unknown"
      /\ ServiceAlive => /\ \A m \in Names \ {n} : known'[m] = known[m]
                         /\ known[n] # "unknown" => known'[n] = s
  <2>1. CASE ServiceAlive
    <3>1. Learn(n, s) /\ s \in States \cup {"unknown"}
      BY <1>3, <2>1
    <3> QED
      BY <3>1, LearnIs
  <2>2. CASE ~ServiceAlive
    BY <1>3, <2>2 DEF PInv, Sorts
  <2> QED
    BY <2>1, <2>2
<1>5. ASSUME held, NEW m \in Names
      PROVE  Heard(m, known') /\ shown'[m] = IF Items(Reply, m) THEN Reply.body ELSE shown[m]
  <2>1. Tells(Head(toClient), m, call) <=> m = n
    BY <1>1, <1>2 DEF Tells, Reply
  <2>2. Says(Head(toClient), call) = s
    BY <1>1 DEF Says, Reply
  <2>3. Heard(m, known')
    <3>1. CASE m = n
      BY <1>1, <1>4, <1>5, <2>1, <2>2, <3>1 DEF Heard
    <3>2. CASE m # n
      BY <1>1, <1>4, <1>5, <2>1, <3>2 DEF Heard
    <3> QED
      BY <3>1, <3>2
  <2>4. ~Items(Reply, m)
    BY <1>1 DEF Items
  <2> QED
    BY <2>3, <2>4
<1>6. shown' \in [Names -> 0 .. MaxEvents]
  BY DEF PInv, Sorts
<1> QED
  BY <1>1, <1>4, <1>5, <1>6, EventHeard

LEMMA HandleSubscriptionEventKeeps ==
  ASSUME PInv, HandleSubscriptionEvent
  PROVE  PInv'
<1>1. /\ PropagateEvent("subscription") /\ Hear("subscription", Reply.name, Reply.body)
      /\ UNCHANGED shown
  BY DEF HandleSubscriptionEvent
<1>2. toClient # <<>> /\ Reply.type = "subscription"
  BY <1>1 DEF PropagateEvent, Event
<1>3. PICK s \in States : s = Reply.body
  BY <1>2, FirstIs
<1>4. PICK type \in {"subscription", "delete"} : type = "subscription"
  OBVIOUS
<1>5. PropagateEvent(type) /\ Hear(type, Reply.name, s)
  BY <1>1, <1>3, <1>4
<1> QED
  BY <1>1, <1>3, <1>4, <1>5, HearKeeps

LEMMA EmitDeletedKeeps ==
  ASSUME PInv, EmitDeleted
  PROVE  PInv'
<1>1. PropagateEvent("delete") /\ Hear("delete", Reply.name, "none") /\ UNCHANGED shown
  BY DEF EmitDeleted
<1>2. PICK s \in States : s = "none"
  BY DEF States
<1>3. PICK type \in {"subscription", "delete"} : type = "delete"
  OBVIOUS
<1>4. PropagateEvent(type) /\ Hear(type, Reply.name, s)
  BY <1>1, <1>2, <1>3
<1> QED
  BY <1>1, <1>2, <1>3, <1>4, HearKeeps

LEMMA MsgEventCbKeeps ==
  ASSUME PInv, MsgEventCb
  PROVE  PInv'
<1>1. /\ toClient # <<>> /\ Reply.type = "items" /\ toClient' = Tail(toClient)
      /\ Reply.name = PepNode
      /\ shown' = [shown EXCEPT ![Reply.name] = Reply.body]
      /\ UNCHANGED <<held, table, nameOf, kept, call, known, pep, server, toServer, events>>
  BY DEF MsgEventCb, Event, Unclaimed, ItemChanged
<1>2. ~IsReply(Reply)
  BY <1>1 DEF IsReply
<1>3. NodesOK'
  BY <1>1, SameClient DEF PInv
<1>4. CallsOK'
  BY <1>1 DEF PInv, CallsOK
<1>5. Reply.body \in 0 .. MaxEvents /\ Reply.name \in Names
  BY <1>1, FirstIs, PubSubAssumption
<1>6. shown \in [Names -> 0 .. MaxEvents] /\ known' \in [Names -> States \cup {"unknown"}]
  BY <1>1 DEF PInv, Sorts
<1>7. shown' \in [Names -> 0 .. MaxEvents]
  BY <1>1, <1>5, <1>6
<1>8. ASSUME NEW n \in Names
      PROVE  Heard(n, known') /\ shown'[n] = IF Items(Reply, n) THEN Reply.body ELSE shown[n]
  <2>1. ~Tells(Head(toClient), n, call)
    BY <1>1, <1>2 DEF Tells, Reply
  <2>2. Heard(n, known')
    BY <1>1, <2>1 DEF Heard
  <2>3. Items(Reply, n) <=> Reply.name = n
    BY <1>1 DEF Items
  <2>4. shown'[n] = IF Reply.name = n THEN Reply.body ELSE shown[n]
    BY <1>1, <1>6
  <2> QED
    BY <2>2, <2>3, <2>4
<1>9. \A n \in Names : known[n] = "unknown" => known'[n] = "unknown"
  BY <1>1
<1> QED
  BY <1>1, <1>2, <1>3, <1>4, <1>6, <1>7, <1>8, <1>9, EventHeard

-----------------------------------------------------------------------------
(* The application *)

LEMMA NodesKeep ==
  ASSUME PInv, NEW names \in SUBSET Names, Using(names),
         kept' \subseteq kept \cup {EnsureNode(names)[n] : n \in names}, names # {} => ServiceAlive,
         UNCHANGED <<held, call, known, shown, pep, server, toServer, toClient, events>>
  PROVE  PInv'
<1>1. call' \in [Calls -> Records] /\ \A c \in Calls : call'[c] = call[c]
  BY DEF PInv, CallsOK
<1>2. NodesOK' /\ CallsOK'
  BY <1>1, UsingCalls DEF PInv
<1>3. Sorts'
  BY DEF PInv, Sorts, server
<1>4. Channels(toServer, toClient, call, known)'
  <2>1. PICK ts, tc, cl, kn : ts = toServer /\ tc = toClient /\ cl = call /\ kn = known
    OBVIOUS
  <2>2. Channels(ts, tc, cl, kn)
    BY <2>1 DEF PInv
  <2> QED
    BY <2>1, <2>2
<1>5. KnownIsCurrent' /\ ShownIsFresh'
  BY DEF PInv, KnownIsCurrent, ShownIsFresh, server
<1> QED
  BY <1>2, <1>3, <1>4, <1>5 DEF PInv

LEMMA TakeNodeKeeps ==
  ASSUME PInv, NEW n \in Names, TakeNode(n)
  PROVE  PInv'
<1>1. PICK names \in SUBSET Names : names = {n}
  OBVIOUS
<1>2. Using(names) /\ kept' \subseteq kept \cup {EnsureNode(names)[m] : m \in names}
  BY <1>1 DEF TakeNode
<1> QED
  BY <1>2, NodesKeep DEF TakeNode

LEMMA ReleaseNodeKeeps ==
  ASSUME PInv, NEW o \in Objs, ReleaseNode(o)
  PROVE  PInv'
<1>1. PICK names \in SUBSET Names : names = {}
  OBVIOUS
<1>2. Using(names) /\ kept' \subseteq kept \cup {EnsureNode(names)[m] : m \in names}
  BY <1>1 DEF ReleaseNode
<1> QED
  BY <1>2, NodesKeep DEF ReleaseNode

\* The service or the WockyPepService goes, or this starts.
LEMMA OthersKeep ==
  ASSUME PInv, UNCHANGED <<table, nameOf, kept, call, known, shown, server, toServer, toClient, events>>,
         held' \in BOOLEAN, held' => held, pep' \in {"new", "started", "disposed"}
  PROVE  PInv'
<1>1. NodesOK' /\ CallsOK'
  <2>1. NodesOK'
    BY SameClient DEF PInv
  <2>2. CallsOK'
    BY DEF PInv, CallsOK
  <2> QED
    BY <2>1, <2>2
<1>2. Sorts'
  BY DEF PInv, Sorts, server
<1>3. Channels(toServer, toClient, call, known)'
  <2>1. PICK ts, tc, cl, kn : ts = toServer /\ tc = toClient /\ cl = call /\ kn = known
    OBVIOUS
  <2>2. Channels(ts, tc, cl, kn)
    BY <2>1 DEF PInv
  <2> QED
    BY <2>1, <2>2
<1>4. KnownIsCurrent' /\ ShownIsFresh'
  BY DEF PInv, KnownIsCurrent, ShownIsFresh, server
<1> QED
  BY <1>1, <1>2, <1>3, <1>4 DEF PInv

LEMMA AskKeeps ==
  ASSUME PInv, NEW c \in Calls, NEW op \in Ops, NEW o \in Objs \cup {None}, NEW n \in Names \cup {None},
         Ask(c, op, o, n),
         op \in NodeOps <=> o # None,
         op \in NodeOps => o \in kept /\ n = nameOf[o],
         op \in ServiceOps => held, op = "get" => n # None
  PROVE  PInv'
<1>1. PICK x, r : x = [Idle EXCEPT !.op = op, !.obj = o, !.name = n, !.stage = "asked"]
                  /\ r = MakeStanza(c, op, n)
  OBVIOUS
<1>2. /\ call[c].stage = "idle"
      /\ call' = [call EXCEPT ![c] = x] /\ toServer' = Append(toServer, r)
      /\ UNCHANGED <<held, table, nameOf, kept, known, shown, pep, server, toClient, events>>
  BY <1>1 DEF Ask, Turn
<1>3. /\ x \in Records /\ x.stage = "asked" /\ x.op = op /\ x.obj = o /\ x.name = n /\ x.result = None
      /\ r \in Requests /\ r.call = c /\ r.op = op /\ r.name = n
  BY <1>1 DEF Idle, Records, MakeStanza, Requests
<1>4. call \in [Calls -> Records]
  BY DEF PInv, CallsOK
<1>5. /\ call' \in [Calls -> Records] /\ call'[c] = x
      /\ \A d \in Calls : d # c => call'[d] = call[d]
  BY <1>2, <1>3, <1>4
<1>6. o # None => o \in kept /\ n # None
  BY DEF PInv, NodesOK, Alive
<1>7. NodesOK'
  <2>1. ASSUME NEW p \in Objs
        PROVE  Alive(p)' <=> Alive(p)
    <3>1. CASE p \in kept
      BY <1>2, <3>1 DEF Alive
    <3>2. CASE p \notin kept
      <4>1. p # o
        BY <1>6, <3>2, PubSubAssumption
      <4>2. \A d \in Calls : call'[d].stage = "asked" /\ call'[d].obj = p
                             <=> call[d].stage = "asked" /\ call[d].obj = p
        BY <1>2, <1>3, <1>5, <4>1
      <4> QED
        BY <1>2, <4>2 DEF Alive, Pending
    <3> QED
      BY <3>1, <3>2
  <2>2. \A d \in Calls : call'[d].stage = "asked" /\ call'[d].op \in ServiceOps =>
          ServiceAlive \/ (call[d].stage = "asked" /\ call[d].op \in ServiceOps)
    <3>1. op \in ServiceOps => ServiceAlive
      BY DEF ServiceAlive
    <3> QED
      BY <1>3, <1>5, <3>1
  <2>3. ServiceAlive' => ServiceAlive
    BY <1>2, <2>1, <2>2, GoneStaysGone
  <2> QED
    BY <1>2, <2>1, <2>3, SameNodes DEF PInv
<1>8. CallsOK'
  <2>1. ASSUME NEW d \in Calls, call'[d].stage = "asked"
        PROVE  /\ call'[d].op \in NodeOps <=> call'[d].obj # None
               /\ call'[d].op \in NodeOps => call'[d].name = nameOf'[call'[d].obj]
               /\ call'[d].result = None
    <3>1. CASE d = c
      BY <1>2, <1>3, <1>5, <3>1
    <3>2. CASE d # c
      BY <1>2, <1>5, <2>1, <3>2 DEF PInv, CallsOK
    <3> QED
      BY <3>1, <3>2
  <2> QED
    BY <1>5, <2>1 DEF CallsOK
<1>9. PICK ts, tc, cl, cl2, kn : /\ ts = toServer /\ tc = toClient /\ cl = call /\ cl2 = call'
                                 /\ kn = known
  OBVIOUS
<1>10. Channels(ts, tc, cl, kn)
  BY <1>9 DEF PInv
<1>11. Channels(Append(ts, r), tc, cl2, kn)
  <2>1. r.op \in NodeOps \cup {"get"} => r.name # None
    BY <1>3, <1>6
  <2>2. cl[c].stage = "idle" /\ (\A d \in Calls : d # c => cl2[d] = cl[d])
    BY <1>2, <1>5, <1>9
  <2>3. /\ r \in Requests /\ r.call = c /\ cl2[c].stage = "asked"
        /\ r.op = cl2[c].op /\ r.name = cl2[c].name
    BY <1>3, <1>5, <1>9
  <2> QED
    BY <1>10, <2>1, <2>2, <2>3, AskedChannels
<1>12. Channels(toServer, toClient, call, known)'
  BY <1>2, <1>9, <1>11
<1>13. KnownIsCurrent'
  <2>1. \A i \in 1 .. Len(tc) : IsReply(tc[i]) => cl2[tc[i].call] = cl[tc[i].call]
    <3>1. tc \in Seq(Messages) /\ Began(ts, tc, cl)
      BY <1>10 DEF Channels
    <3>2. \A i \in 1 .. Len(tc) : IsReply(tc[i]) => tc[i].call \in Calls /\ tc[i].call # c
      BY <1>2, <1>9, <3>1, MessagesAre DEF Began
    <3> QED
      BY <1>5, <1>9, <3>2
  <2>2. ASSUME held, NEW m \in Names
        PROVE  Current(m, kn[m], sub[m], tc, cl2)
    <3>1. Current(m, kn[m], sub[m], tc, cl)
      BY <1>9, <2>2 DEF PInv, KnownIsCurrent
    <3>2. \A i \in 1 .. Len(tc) :
            /\ Tells(tc[i], m, cl2) <=> Tells(tc[i], m, cl)
            /\ Tells(tc[i], m, cl2) => Says(tc[i], cl2) = Says(tc[i], cl)
            /\ Snapshot(tc[i], cl2) => Snapshot(tc[i], cl)
      BY <2>1 DEF Tells, Says, Snapshot
    <3> QED
      BY <3>1, <3>2, CurrentStill
  <2> QED
    BY <1>2, <1>9, <2>2 DEF KnownIsCurrent, server
<1>14. ShownIsFresh'
  BY <1>2 DEF PInv, ShownIsFresh, server
<1>15. Sorts'
  BY <1>2 DEF PInv, Sorts, server
<1> QED
  BY <1>7, <1>8, <1>12, <1>13, <1>14, <1>15 DEF PInv

LEMMA OnNodeKeeps ==
  ASSUME PInv, NEW c \in Calls, NEW op \in NodeOps, NEW o \in Objs, OnNode(c, op, o)
  PROVE  PInv'
<1>1. o \in kept /\ Ask(c, op, o, nameOf[o])
  BY DEF OnNode
<1>2. PICK n \in Names \cup {None} : n = nameOf[o]
  BY DEF PInv, NodesOK
<1>3. op \in Ops /\ op # "get" /\ op \notin ServiceOps /\ o # None
  BY PubSubAssumption DEF Ops, NodeOps, ServiceOps
<1>4. Ask(c, op, o, n)
  BY <1>1, <1>2
<1> QED
  BY <1>1, <1>2, <1>3, <1>4, AskKeeps

LEMMA OnServiceKeeps ==
  ASSUME PInv, NEW c \in Calls, NEW op \in ServiceOps \cup {"get"}, NEW n \in Names \cup {None},
         Ask(c, op, None, n), op \in ServiceOps => held, op = "get" => n # None
  PROVE  PInv'
<1>1. op \in Ops /\ op \notin NodeOps
  BY DEF Ops, NodeOps, ServiceOps
<1>2. PICK o \in Objs \cup {None} : o = None
  OBVIOUS
<1>3. Ask(c, op, o, n)
  BY <1>2
<1> QED
  BY <1>1, <1>2, <1>3, AskKeeps

\* A call ends without its answer.
LEMMA LeftKeeps ==
  ASSUME PInv, NEW c \in Calls, NEW x \in Records, x.stage = "done", call' = [call EXCEPT ![c] = x],
         \/ call[c].stage = "idle"
         \/ /\ call[c].stage = "asked"
            /\ call[c].op # "delete"
            /\ call[c].op \in {"subscribe", "unsubscribe"} => known'[call[c].name] = "unknown",
         NodesOK', CallsOK',
         known' \in [Names -> States \cup {"unknown"}],
         \A n \in Names : known'[n] = known[n] \/ known'[n] = "unknown",
         UNCHANGED <<held, shown, pep, server, toServer, toClient, events>>
  PROVE  PInv'
<1>1. PICK ts, tc, cl, cl2, kn, kn2 :
        /\ ts = toServer /\ tc = toClient /\ cl = call /\ cl2 = call' /\ kn = known /\ kn2 = known'
  OBVIOUS
<1>2. /\ cl2[c] = x /\ \A d \in Calls : d # c => cl2[d] = cl[d]
  BY <1>1 DEF PInv, CallsOK
<1>3. Channels(ts, tc, cl, kn)
  BY <1>1 DEF PInv
<1>4. Channels(ts, tc, cl2, kn2)
  <2>1. cl2[c].stage = "done" /\ (\A n \in Names : kn[n] = "unknown" => kn2[n] = "unknown")
    BY <1>1, <1>2
  <2>2. \/ cl[c].stage = "idle"
        \/ /\ cl[c].stage = "asked"
           /\ cl[c].op # "delete"
           /\ cl[c].op \in {"subscribe", "unsubscribe"} => kn2[cl[c].name] = "unknown"
    BY <1>1
  <2> QED
    BY <1>2, <1>3, <2>1, <2>2, LeftChannels
<1>5. Channels(toServer, toClient, call, known)'
  BY <1>1, <1>4
<1>6. KnownIsCurrent'
  <2>1. tc \in Seq(Messages) /\ Began(ts, tc, cl)
    BY <1>3 DEF Channels
  <2>2. \A i \in 1 .. Len(tc) : IsReply(tc[i]) =>
          /\ tc[i].call \in Calls /\ cl[tc[i].call].stage # "idle"
          /\ tc[i].call = c \/ cl2[tc[i].call] = cl[tc[i].call]
    BY <1>2, <2>1, MessagesAre DEF Began
  <2>3. ASSUME held, NEW n \in Names
        PROVE  Current(n, kn2[n], sub[n], tc, cl2)
    <3>1. CASE kn2[n] = "unknown"
      BY <3>1 DEF Current
    <3>2. CASE kn2[n] # "unknown"
      <4>1. kn2[n] = kn[n] /\ Current(n, kn[n], sub[n], tc, cl)
        BY <1>1, <2>3, <3>2 DEF PInv, KnownIsCurrent
      <4>2. ASSUME NEW i \in 1 .. Len(tc)
            PROVE  /\ Tells(tc[i], n, cl2) <=> Tells(tc[i], n, cl)
                   /\ Tells(tc[i], n, cl2) => Says(tc[i], cl2) = Says(tc[i], cl)
                   /\ Snapshot(tc[i], cl2) => Snapshot(tc[i], cl)
        <5>1. CASE ~IsReply(tc[i])
          BY <5>1 DEF Tells, Says, Snapshot
        <5>2. CASE IsReply(tc[i]) /\ tc[i].call # c
          BY <2>2, <5>2 DEF Tells, Says, Snapshot
        <5>3. CASE IsReply(tc[i]) /\ tc[i].call = c
          <6>1. /\ cl[c].stage = "asked" /\ cl[c].op # "delete"
                /\ cl[c].op \in {"subscribe", "unsubscribe"} => cl[c].name # n
            BY <1>1, <2>2, <3>2, <5>3
          <6>2. tc[i].type = "reply" /\ cl2[c].stage = "done"
            BY <1>2, <5>3 DEF IsReply
          <6>3. ~Tells(tc[i], n, cl)
            BY <5>3, <6>1, <6>2 DEF Tells
          <6>4. ~Tells(tc[i], n, cl2) /\ ~Snapshot(tc[i], cl2)
            BY <5>3, <6>2 DEF Tells, Snapshot
          <6> QED
            BY <6>3, <6>4
        <5> QED
          BY <5>1, <5>2, <5>3
      <4>3. PICK k : k = kn2[n]
        OBVIOUS
      <4>4. Current(n, k, sub[n], tc, cl2)
        BY <4>1, <4>2, <4>3, CurrentStill
      <4> QED
        BY <4>3, <4>4
    <3> QED
      BY <3>1, <3>2
  <2> QED
    BY <1>1, <2>3 DEF KnownIsCurrent, server
<1>7. ShownIsFresh'
  BY DEF PInv, ShownIsFresh, server
<1>8. Sorts'
  BY DEF PInv, Sorts, server
<1> QED
  BY <1>5, <1>6, <1>7, <1>8 DEF PInv

LEMMA CancelCallKeeps ==
  ASSUME PInv, NEW c \in Calls, CancelCall(c)
  PROVE  PInv'
<1>1. PICK x : x = [Idle EXCEPT !.stage = "done", !.result = "cancelled"]
  OBVIOUS
<1>2. x \in Records /\ x.stage = "done"
  BY <1>1 DEF Idle, Records, Results
<1>3. /\ call[c].stage = "asked" /\ call[c].op # "delete" /\ call' = [call EXCEPT ![c] = x]
      /\ known' = IF call[c].op \in {"subscribe", "unsubscribe"}
                  THEN [known EXCEPT ![call[c].name] = "unknown"] ELSE known
      /\ UNCHANGED <<held, kept, shown, pep, server, toServer, toClient, events>>
      /\ Using({})
  BY <1>1 DEF CancelCall, Cancellable
<1>4. call \in [Calls -> Records] /\ known \in [Names -> States \cup {"unknown"}]
  BY DEF PInv, CallsOK, Sorts
<1>5. /\ call' \in [Calls -> Records]
      /\ \A d \in Calls : call'[d] = call[d] \/ call'[d].stage = "done"
  BY <1>2, <1>3, <1>4
<1>6. NodesOK' /\ CallsOK'
  <2>1. PICK names \in SUBSET Names : names = {}
    OBVIOUS
  <2>2. Using(names) /\ kept' \subseteq kept \cup {EnsureNode(names)[m] : m \in names}
    BY <1>3, <2>1
  <2> QED
    BY <1>3, <1>5, <2>1, <2>2, UsingCalls DEF PInv
<1>7. call[c].op \in NodeOps => call[c].name \in Names
  <2> SUFFICES ASSUME call[c].op \in NodeOps PROVE call[c].name \in Names
    OBVIOUS
  <2>1. call[c].obj # None /\ call[c].name = nameOf[call[c].obj]
    BY <1>3 DEF PInv, CallsOK
  <2>2. call[c].obj \in Objs
    BY <1>4, <2>1 DEF Records
  <2>3. Alive(call[c].obj)
    BY <1>3 DEF Alive, Pending
  <2> QED
    BY <2>1, <2>2, <2>3 DEF PInv, NodesOK
<1>8. /\ known' \in [Names -> States \cup {"unknown"}]
      /\ \A n \in Names : known'[n] = known[n] \/ known'[n] = "unknown"
      /\ call[c].op \in {"subscribe", "unsubscribe"} => known'[call[c].name] = "unknown"
  BY <1>3, <1>4, <1>7 DEF NodeOps
<1> QED
  BY <1>2, <1>3, <1>6, <1>8, LeftKeeps

LEMMA PepGetAsyncKeeps ==
  ASSUME PInv, NEW c \in Calls, PepGetAsync(c)
  PROVE  PInv'
<1>1. CASE pep = "started"
  <2>1. Ask(c, "get", None, PepNode)
    BY <1>1 DEF PepGetAsync
  <2>2. PICK op \in ServiceOps \cup {"get"}, n \in Names \cup {None} : op = "get" /\ n = PepNode
    BY PubSubAssumption
  <2>3. Ask(c, op, None, n) /\ n # None /\ op \notin ServiceOps
    BY <2>1, <2>2, PubSubAssumption DEF ServiceOps
  <2> QED
    BY <2>3, OnServiceKeeps
<1>2. CASE pep # "started"
  <2>1. PICK x : x = [call[c] EXCEPT !.stage = "done", !.result = "not started"]
    OBVIOUS
  <2>2. call \in [Calls -> Records]
    BY DEF PInv, CallsOK
  <2>3. x \in Records /\ x.stage = "done"
    BY <2>1, <2>2 DEF Records, Results
  <2>4. /\ call[c].stage = "idle" /\ call' = [call EXCEPT ![c] = x]
        /\ UNCHANGED <<held, table, nameOf, kept, known, shown, pep, server, toServer, toClient, events>>
    BY <1>2, <2>1, <2>2 DEF PepGetAsync, Turn
  <2>5. call' \in [Calls -> Records] /\ call'[c] = x /\ (\A d \in Calls : d # c => call'[d] = call[d])
    BY <2>2, <2>3, <2>4
  <2>6. NodesOK'
    <3>1. \A d \in Calls : call'[d].stage = "asked" => call'[d] = call[d] /\ d # c
      BY <2>3, <2>5
    <3>2. \A d \in Calls : call[d].stage = "asked" => call'[d] = call[d]
      BY <2>4, <2>5
    <3>3. \A o \in Objs : Alive(o)' <=> Alive(o)
      BY <2>4, <3>1, <3>2 DEF Alive, Pending
    <3>4. ServiceAlive' => ServiceAlive
      BY <2>4, <3>1, <3>3, GoneStaysGone
    <3> QED
      BY <2>4, <3>3, <3>4, SameNodes DEF PInv
  <2>7. CallsOK'
    <3>1. \A d \in Calls : call'[d].stage = "asked" => call'[d] = call[d]
      BY <2>3, <2>5
    <3> QED
      BY <2>4, <2>5, <3>1 DEF PInv, CallsOK
  <2>8. /\ known' \in [Names -> States \cup {"unknown"}]
        /\ \A n \in Names : known'[n] = known[n] \/ known'[n] = "unknown"
    BY <2>4 DEF PInv, Sorts
  <2> QED
    BY <2>3, <2>4, <2>6, <2>7, <2>8, LeftKeeps
<1> QED
  BY <1>1, <1>2

-----------------------------------------------------------------------------
(* The server *)

\* The first request is answered, after what tc has; n is the node it is about.
LEMMA ServedKeeps ==
  ASSUME PInv, NEW op, Served(op), NEW tc, NEW m \in Replies,
         Channels(toServer, tc, call, known),
         toClient' = Append(tc, m), m.call = Request.call, Fits(m, call[m.call]),
         exists' \subseteq Names, sub' \in [Names -> States], item' = item,
         held => \A n \in Names :
           /\ \/ known[n] = "unknown"
              \/ Tells(m, n, call) /\ Says(m, call) \in {"unknown", sub'[n]}
              \/ /\ ~Tells(m, n, call)
                 /\ Snapshot(m, call) => m.body[n] = sub'[n]
                 /\ Current(n, known[n], sub'[n], tc, call)
           /\ Fresh(n, shown[n], item[n], tc)
  PROVE  PInv'
<1>1. /\ toServer # <<>> /\ toServer' = Tail(toServer) /\ UNCHANGED <<client, events>>
      /\ m.call = Head(toServer).call
  BY DEF Served, Request
<1>2. PICK ts, ts2, tc2, cl, kn, s2 :
        /\ ts = toServer /\ ts2 = toServer' /\ tc2 = toClient' /\ cl = call /\ kn = known /\ s2 = sub'
  OBVIOUS
<1>3. Channels(Tail(ts), Append(tc, m), cl, kn)
  <2>1. Channels(ts, tc, cl, kn) /\ ts # <<>> /\ m.call = Head(ts).call /\ Fits(m, cl[m.call])
    BY <1>1, <1>2
  <2> QED
    BY <2>1, ServedChannels
<1>4. Channels(toServer, toClient, call, known)'
  BY <1>1, <1>2, <1>3 DEF client
<1>5. tc \in Seq(Messages) /\ m \in Messages /\ m.type = "reply"
  BY DEF Channels, Messages, Replies
<1>6. NodesOK' /\ CallsOK'
  <2>1. UNCHANGED <<held, table, nameOf, kept, call, known, shown, pep>>
    BY <1>1 DEF client
  <2>2. NodesOK'
    BY <2>1, SameClient DEF PInv
  <2>3. CallsOK'
    BY <2>1 DEF PInv, CallsOK
  <2> QED
    BY <2>2, <2>3
<1>7. Sorts'
  BY <1>1 DEF PInv, Sorts, client
<1>8. KnownIsCurrent'
  <2>1. ASSUME held, NEW n \in Names
        PROVE  Current(n, kn[n], s2[n], tc2, cl)
    <3>1. CASE known[n] = "unknown"
      BY <1>2, <3>1 DEF Current
    <3>2. CASE Tells(m, n, call) /\ Says(m, call) \in {"unknown", sub'[n]}
      <4>1. PICK k, s : k = kn[n] /\ s = s2[n]
        OBVIOUS
      <4>2. Tells(m, n, cl) /\ Says(m, cl) \in {"unknown", s}
        BY <1>2, <3>2, <4>1
      <4>3. Current(n, k, s, Append(tc, m), cl)
        BY <1>5, <4>2, CurrentChanged
      <4> QED
        BY <1>2, <4>1, <4>3
    <3>3. CASE /\ ~Tells(m, n, call)
               /\ Snapshot(m, call) => m.body[n] = sub'[n]
               /\ Current(n, known[n], sub'[n], tc, call)
      <4>1. PICK k, s : k = kn[n] /\ s = s2[n]
        OBVIOUS
      <4>2. ~Tells(m, n, cl) /\ (Snapshot(m, cl) => m.body[n] = s) /\ Current(n, k, s, tc, cl)
        BY <1>2, <3>3, <4>1
      <4>3. Current(n, k, s, Append(tc, m), cl)
        BY <1>5, <4>2, CurrentOther
      <4> QED
        BY <1>2, <4>1, <4>3
    <3> QED
      BY <2>1, <3>1, <3>2, <3>3
  <2> QED
    BY <1>1, <1>2, <2>1 DEF KnownIsCurrent, client
<1>9. ShownIsFresh'
  <2>1. ASSUME held, NEW n \in Names
        PROVE  Fresh(n, shown[n], item[n], tc2)
    <3>1. ~Items(m, n)
      BY <1>5 DEF Items
    <3>2. PICK k, s : k = shown[n] /\ s = item[n]
      OBVIOUS
    <3>3. Fresh(n, k, s, tc)
      BY <2>1, <3>2
    <3>4. Fresh(n, k, s, Append(tc, m))
      BY <1>5, <3>1, <3>3, FreshAppended
    <3> QED
      BY <1>2, <3>2, <3>4
  <2> QED
    BY <1>1, <1>2, <2>1 DEF ShownIsFresh, client
<1> QED
  BY <1>4, <1>6, <1>7, <1>8, <1>9 DEF PInv

LEMMA RequestIs ==
  ASSUME PInv, NEW op, Served(op)
  PROVE  /\ Request \in Requests /\ Request.op = op /\ Request.call \in Calls
         /\ Request.name \in Names \cup {None}
         /\ Theirs(Request, call[Request.call], known) /\ call[Request.call].stage \in {"asked", "done"}
<1>1. /\ toServer \in Seq(Requests) /\ RequestsAreTheirs(toServer, call, known)
      /\ Began(toServer, toClient, call)
  BY DEF PInv, Channels
<1>2. toServer # <<>> /\ Request.op = op
  BY DEF Served
<1>3. Request = toServer[1] /\ 1 \in 1 .. Len(toServer) /\ Request \in Requests
  BY <1>1, <1>2, TailIs DEF Request
<1>4. Request.call \in Calls /\ Request.name \in Names \cup {None}
  BY <1>3 DEF Requests
<1>5. Theirs(Request, call[Request.call], known) /\ call[Request.call].stage # "idle"
  BY <1>1, <1>3 DEF RequestsAreTheirs, Began
<1>6. call[Request.call] \in Records
  BY <1>4 DEF PInv, CallsOK
<1>7. call[Request.call].stage \in {"asked", "done"}
  BY <1>5, <1>6 DEF Records
<1> QED
  BY <1>2, <1>3, <1>4, <1>5, <1>7

\* Which subscription the answer to the first request tells of
LEMMA AnswerIs ==
  ASSUME PInv, NEW op, Served(op), NEW m \in Replies, m.call = Request.call, NEW n
  PROVE  /\ Tells(m, n, call) <=>
              /\ ~m.error /\ call[m.call].stage = "asked"
              /\ op \in {"subscribe", "unsubscribe", "delete"} /\ Request.name = n
         /\ call[m.call].stage = "asked" =>
              Says(m, call) = IF op # "subscribe" THEN "none"
                              ELSE IF m.body = None THEN "unknown" ELSE m.body.state
         /\ Snapshot(m, call) => op = "subscriptions" /\ ~m.error
<1>1. m.type = "reply" /\ IsReply(m)
  BY DEF Replies, IsReply
<1>2. call[m.call].stage = "asked" => op = call[m.call].op /\ Request.name = call[m.call].name
  BY RequestIs DEF Theirs
<1> QED
  BY <1>1, <1>2 DEF Tells, Says, Snapshot

\* An answer that changes no subscription
LEMMA PlainKeeps ==
  ASSUME PInv, NEW op, Served(op), NEW m \in Replies, m.call = Request.call,
         Fits(m, call[m.call]), toClient' = Append(toClient, m),
         m.error \/ op \notin {"subscribe", "unsubscribe", "delete"},
         op = "subscriptions" /\ ~m.error => m.body = sub,
         exists' \subseteq Names, UNCHANGED <<sub, item>>
  PROVE  PInv'
<1>1. ASSUME held, NEW n \in Names
      PROVE  /\ ~Tells(m, n, call) /\ (Snapshot(m, call) => m.body[n] = sub'[n])
             /\ Current(n, known[n], sub'[n], toClient, call)
             /\ Fresh(n, shown[n], item[n], toClient)
  <2>1. ~Tells(m, n, call) /\ (Snapshot(m, call) => m.body = sub)
    BY AnswerIs
  <2> QED
    BY <1>1, <2>1 DEF PInv, KnownIsCurrent, ShownIsFresh
<1>2. PICK tc : tc = toClient
  OBVIOUS
<1>3. Channels(toServer, tc, call, known) /\ toClient' = Append(tc, m)
  BY <1>2 DEF PInv
<1>4. held => \A n \in Names :
        /\ ~Tells(m, n, call) /\ (Snapshot(m, call) => m.body[n] = sub'[n])
        /\ Current(n, known[n], sub'[n], tc, call)
        /\ Fresh(n, shown[n], item[n], tc)
  BY <1>1, <1>2
<1>5. sub' \in [Names -> States] /\ item' = item
  BY DEF PInv, Sorts
<1> QED
  BY <1>3, <1>4, <1>5, ServedKeeps

\* An answer that comes with a change of the subscription to the node that was asked about
LEMMA ChangeKeeps ==
  ASSUME PInv, NEW op \in {"subscribe", "unsubscribe", "delete"}, Served(op), NEW tc,
         NEW m \in Replies, m.call = Request.call, ~m.error,
         Fits(m, call[m.call]), toClient' = Append(tc, m),
         NEW s \in States, sub' = [sub EXCEPT ![Request.name] = s],
         IF op # "subscribe" THEN s = "none" ELSE m.body = None \/ m.body.state = s,
         exists' \subseteq Names, item' = item,
         Channels(toServer, tc, call, known),
         held => \A n \in Names :
           /\ n # Request.name => Current(n, known[n], sub[n], tc, call)
           /\ Fresh(n, shown[n], item[n], tc)
  PROVE  PInv'
<1>1. sub \in [Names -> States] /\ sub' \in [Names -> States]
  BY DEF PInv, Sorts
<1>2. /\ Theirs(Request, call[m.call], known) /\ call[m.call].stage \in {"asked", "done"}
      /\ Request.op = op
  BY RequestIs
<1>3. ASSUME held, NEW n \in Names
      PROVE  /\ \/ known[n] = "unknown"
                \/ Tells(m, n, call) /\ Says(m, call) \in {"unknown", sub'[n]}
                \/ /\ ~Tells(m, n, call)
                   /\ Snapshot(m, call) => m.body[n] = sub'[n]
                   /\ Current(n, known[n], sub'[n], tc, call)
             /\ Fresh(n, shown[n], item[n], tc)
  <2>1. CASE n = Request.name /\ call[m.call].stage = "done"
    <3>1. known[n] = "unknown"
      BY <1>2, <2>1 DEF Theirs
    <3> QED
      BY <1>3, <3>1
  <2>2. CASE n = Request.name /\ call[m.call].stage = "asked"
    <3>1. sub'[n] = s
      BY <1>1, <2>2
    <3>2. Tells(m, n, call) /\ Says(m, call) \in {"unknown", s}
      BY <2>2, AnswerIs
    <3> QED
      BY <1>3, <3>1, <3>2
  <2>3. CASE n # Request.name
    <3>1. sub'[n] = sub[n]
      BY <1>1, <2>3
    <3>2. ~Tells(m, n, call) /\ ~Snapshot(m, call)
      BY <2>3, AnswerIs
    <3> QED
      BY <1>3, <2>3, <3>1, <3>2
  <2> QED
    BY <1>2, <2>1, <2>2, <2>3
<1> QED
  BY <1>1, <1>3, ServedKeeps

LEMMA AnswerFits ==
  ASSUME PInv, NEW op, Served(op), NEW body \in Bodies, NEW m, m = Answer(body),
         call[Request.call].stage = "asked" => body \in Answers(op, Request.name)
  PROVE  /\ m \in Replies /\ m.call = Request.call /\ ~m.error /\ m.body = body
         /\ Fits(m, call[m.call])
<1>1. m \in Replies /\ m.call = Request.call /\ ~m.error /\ m.body = body
  BY RequestIs DEF Answer, Replies
<1>2. call[m.call].stage = "asked" => op = call[m.call].op /\ Request.name = call[m.call].name
  BY <1>1, RequestIs DEF Theirs
<1> QED
  BY <1>1, <1>2 DEF Fits

LEMMA ServeRefusedKeeps ==
  ASSUME PInv, ServeRefused
  PROVE  PInv'
<1>1. PICK op \in Ops : Served(op)
  BY DEF ServeRefused
<1>2. PICK m : m = Refusal
  OBVIOUS
<1>3. m \in Replies /\ m.call = Request.call /\ m.error /\ m.body = None
  BY <1>1, <1>2, RequestIs DEF Refusal, Answer, Replies, Bodies
<1>4. Fits(m, call[m.call])
  BY <1>3 DEF Fits
<1>5. toClient' = Append(toClient, m) /\ UNCHANGED server
  BY <1>2 DEF ServeRefused
<1>6. exists' \subseteq Names /\ UNCHANGED <<sub, item>>
  BY <1>5 DEF PInv, Sorts, server
<1> QED
  BY <1>1, <1>3, <1>4, <1>5, <1>6, PlainKeeps

LEMMA ServeSubscribeKeeps ==
  ASSUME PInv, ServeSubscribe
  PROVE  PInv'
<1>1. PICK op \in {"subscribe", "unsubscribe", "delete"} : op = "subscribe"
  OBVIOUS
<1>2. Served(op) /\ Request.name \in Names /\ UNCHANGED <<exists, item>>
  BY <1>1 DEF ServeSubscribe, PInv, Sorts
<1>3. PICK s \in {"pending", "subscribed"} :
        /\ sub' = [sub EXCEPT ![Request.name] = s]
        /\ \E body \in {None, [name |-> Request.name, state |-> s]} :
             toClient' = Append(toClient, Answer(body))
  BY DEF ServeSubscribe
<1>4. PICK body \in {None, [name |-> Request.name, state |-> s]} :
        toClient' = Append(toClient, Answer(body))
  BY <1>3
<1>5. PICK m : m = Answer(body)
  OBVIOUS
<1>6. s \in States /\ body \in {None} \cup [name : {Request.name}, state : {"pending", "subscribed"}]
  BY DEF States
<1>7. body \in Bodies /\ body \in Answers(op, Request.name)
  <2>1. body \in Answers(op, Request.name)
    BY <1>1, <1>6 DEF Answers
  <2>2. body \in {None} \cup [name : Names, state : States]
    BY <1>2, <1>6
  <2> QED
    BY <2>1, <2>2 DEF Bodies
<1>8. m \in Replies /\ m.call = Request.call /\ ~m.error /\ m.body = body /\ Fits(m, call[m.call])
  BY <1>2, <1>5, <1>7, AnswerFits
<1>9. m.body = None \/ m.body.state = s
  BY <1>4, <1>8
<1>10. PICK tc : tc = toClient
  OBVIOUS
<1>11. toClient' = Append(tc, m) /\ Channels(toServer, tc, call, known)
  BY <1>4, <1>5, <1>10 DEF PInv
<1>12. held => \A n \in Names :
         /\ n # Request.name => Current(n, known[n], sub[n], tc, call)
         /\ Fresh(n, shown[n], item[n], tc)
  BY <1>10 DEF PInv, KnownIsCurrent, ShownIsFresh
<1>13. exists' \subseteq Names /\ item' = item
  BY <1>2 DEF PInv, Sorts
<1> QED
  BY <1>1, <1>2, <1>4, <1>6, <1>8, <1>9, <1>11, <1>12, <1>13, <1>3, ChangeKeeps

LEMMA ServeUnsubscribeKeeps ==
  ASSUME PInv, ServeUnsubscribe
  PROVE  PInv'
<1>1. PICK op \in {"subscribe", "unsubscribe", "delete"}, s \in States, body \in Bodies :
        op = "unsubscribe" /\ s = "none" /\ body = None
  BY DEF States, Bodies
<1>2. /\ Served(op) /\ Request.name \in Names /\ UNCHANGED <<exists, item>>
      /\ sub' = [sub EXCEPT ![Request.name] = s]
      /\ toClient' = Append(toClient, Answer(body))
  BY <1>1 DEF ServeUnsubscribe, PInv, Sorts
<1>3. PICK m : m = Answer(body)
  OBVIOUS
<1>4. body \in Answers(op, Request.name)
  BY <1>1 DEF Answers
<1>5. m \in Replies /\ m.call = Request.call /\ ~m.error /\ Fits(m, call[m.call])
  BY <1>2, <1>3, <1>4, AnswerFits
<1>6. PICK tc : tc = toClient
  OBVIOUS
<1>7. toClient' = Append(tc, m) /\ Channels(toServer, tc, call, known)
  BY <1>2, <1>3, <1>6 DEF PInv
<1>8. held => \A n \in Names :
         /\ n # Request.name => Current(n, known[n], sub[n], tc, call)
         /\ Fresh(n, shown[n], item[n], tc)
  BY <1>6 DEF PInv, KnownIsCurrent, ShownIsFresh
<1>9. exists' \subseteq Names /\ item' = item
  BY <1>2 DEF PInv, Sorts
<1> QED
  BY <1>1, <1>2, <1>5, <1>7, <1>8, <1>9, ChangeKeeps

\* The notice that n is gone comes after everything else.
LEMMA DeletedIs ==
  ASSUME PInv, NEW n \in Names
  PROVE  /\ sub[n] = "none" => toClient \o Deleted(n) = toClient
         /\ sub[n] # "none" => toClient \o Deleted(n) = Append(toClient, Tell("delete", n, None))
         /\ Tell("delete", n, None) \in EventMessages
<1>1. toClient \in Seq(Messages)
  BY DEF PInv, Channels
<1>2. toClient \o <<>> = toClient
  BY <1>1
<1>3. \A e : toClient \o <<e>> = Append(toClient, e)
  BY <1>1
<1> QED
  BY <1>2, <1>3 DEF Deleted, Tell, EventMessages

LEMMA NoticeTells ==
  ASSUME NEW n, NEW m, NEW type, NEW body, NEW e, e = Tell(type, n, body), type # "reply", NEW cl
  PROVE  /\ Tells(e, m, cl) <=> type \in {"subscription", "delete"} /\ m = n
         /\ Says(e, cl) = IF type = "subscription" THEN body ELSE "none"
         /\ ~Snapshot(e, cl)
         /\ Items(e, m) <=> type = "items" /\ m = n
         /\ e.body = body
BY DEF Tells, Says, Snapshot, Items, IsReply, Tell

LEMMA ServeDeleteKeeps ==
  ASSUME PInv, ServeDelete
  PROVE  PInv'
<1>1. PICK op \in {"subscribe", "unsubscribe", "delete"}, s \in States, body \in Bodies :
        op = "delete" /\ s = "none" /\ body = None
  BY DEF States, Bodies
<1>2. /\ Served(op) /\ Request.name \in Names
      /\ exists' = exists \ {Request.name} /\ UNCHANGED item
      /\ sub' = [sub EXCEPT ![Request.name] = s]
      /\ toClient' = Append(toClient \o Deleted(Request.name), Answer(body))
  BY <1>1 DEF ServeDelete, PInv, Sorts
<1>3. PICK m : m = Answer(body)
  OBVIOUS
<1>4. body \in Answers(op, Request.name)
  BY <1>1 DEF Answers
<1>5. m \in Replies /\ m.call = Request.call /\ ~m.error /\ Fits(m, call[m.call])
  BY <1>2, <1>3, <1>4, AnswerFits
<1>6. PICK n, tc, e :
        n \in Names /\ n = Request.name /\ tc = toClient \o Deleted(n) /\ e = Tell("delete", n, None)
  BY <1>2
<1>7. \/ tc = toClient
      \/ tc = Append(toClient, e) /\ e \in EventMessages
  BY <1>6, DeletedIs
<1>8. toClient' = Append(tc, m)
  BY <1>2, <1>3, <1>6
<1>9. PICK ts, q, cl, kn : ts = toServer /\ q = toClient /\ cl = call /\ kn = known
  OBVIOUS
<1>10. Channels(ts, q, cl, kn) /\ q \in Seq(Messages)
  BY <1>9 DEF PInv, Channels
<1>11. Channels(ts, tc, cl, kn)
  BY <1>7, <1>9, <1>10, ToldChannels
<1>12. ASSUME held, NEW k \in Names
       PROVE  /\ k # n => Current(k, kn[k], sub[k], tc, cl)
              /\ Fresh(k, shown[k], item[k], tc)
  <2>1. PICK x, y, z, w : x = kn[k] /\ y = sub[k] /\ z = shown[k] /\ w = item[k]
    OBVIOUS
  <2>2. Current(k, x, y, q, cl) /\ Fresh(k, z, w, q)
    BY <1>9, <1>12, <2>1 DEF PInv, KnownIsCurrent, ShownIsFresh
  <2>3. CASE tc = toClient
    BY <1>9, <2>1, <2>2, <2>3
  <2>4. CASE tc = Append(toClient, e) /\ e \in EventMessages
    <3>1. e \in Messages
      BY <2>4 DEF Messages
    <3>2. ~Snapshot(e, cl) /\ ~Items(e, k) /\ (k # n => ~Tells(e, k, cl))
      BY <1>6 DEF Tells, Snapshot, Items, IsReply, Tell
    <3>3. k # n => Current(k, x, y, Append(q, e), cl)
      BY <1>10, <2>2, <3>1, <3>2, CurrentOther
    <3>4. Fresh(k, z, w, Append(q, e))
      BY <1>10, <2>2, <3>1, <3>2, FreshAppended
    <3> QED
      BY <1>9, <2>1, <2>4, <3>3, <3>4
  <2> QED
    BY <1>7, <2>3, <2>4
<1>13. exists' \subseteq Names /\ item' = item
  BY <1>2 DEF PInv, Sorts
<1>14. Channels(toServer, tc, call, known)
  BY <1>9, <1>11
<1>15. held => \A k \in Names :
         /\ k # Request.name => Current(k, known[k], sub[k], tc, call)
         /\ Fresh(k, shown[k], item[k], tc)
  BY <1>6, <1>9, <1>12
<1> QED
  BY <1>1, <1>2, <1>5, <1>8, <1>13, <1>14, <1>15, ChangeKeeps

LEMMA ServeOwnerKeeps ==
  ASSUME PInv, ServeOwner
  PROVE  PInv'
<1>1. PICK op \in {"subscribers", "affiliates", "modify", "configuration", "get"} : Served(op)
  BY DEF ServeOwner
<1>2. PICK body \in {None, {Request.name}} : toClient' = Append(toClient, Answer(body))
  BY DEF ServeOwner
<1>3. Request.name \in Names /\ UNCHANGED server
  BY DEF ServeOwner, PInv, Sorts
<1>4. body \in Bodies
  <2>1. body \in {None} \cup (SUBSET Names)
    BY <1>3
  <2> QED
    BY <2>1 DEF Bodies
<1>5. body \in Answers(op, Request.name)
  BY <1>1 DEF Answers
<1>6. PICK m : m = Answer(body)
  OBVIOUS
<1>7. m \in Replies /\ m.call = Request.call /\ ~m.error /\ Fits(m, call[m.call])
  BY <1>1, <1>4, <1>5, <1>6, AnswerFits
<1>8. exists' \subseteq Names /\ UNCHANGED <<sub, item>>
  BY <1>3 DEF PInv, Sorts, server
<1> QED
  BY <1>1, <1>2, <1>6, <1>7, <1>8, PlainKeeps

LEMMA ServeCreateKeeps ==
  ASSUME PInv, ServeCreate
  PROVE  PInv'
<1>1. PICK op : op = "create"
  OBVIOUS
<1>2. Served(op) /\ UNCHANGED <<sub, item>>
  BY <1>1 DEF ServeCreate
<1>3. PICK n \in Names \ exists :
        /\ exists' = exists \cup {n}
        /\ \E body \in {n} \cup (IF n = Request.name THEN {None} ELSE {}) :
             toClient' = Append(toClient, Answer(body))
  BY DEF ServeCreate
<1>4. PICK body \in {n} \cup (IF n = Request.name THEN {None} ELSE {}) :
        toClient' = Append(toClient, Answer(body))
  BY <1>3
<1>5. body = n \/ (body = None /\ n = Request.name)
  OBVIOUS
<1>6. body \in Bodies
  <2>1. body \in {None} \cup Names
    BY <1>5
  <2> QED
    BY <2>1 DEF Bodies
<1>7. body \in Answers(op, Request.name)
  BY <1>1, <1>5, PubSubAssumption DEF Answers
<1>8. PICK m : m = Answer(body)
  OBVIOUS
<1>9. m \in Replies /\ m.call = Request.call /\ ~m.error /\ Fits(m, call[m.call])
  BY <1>2, <1>6, <1>7, <1>8, AnswerFits
<1>10. exists' \subseteq Names
  BY <1>3 DEF PInv, Sorts
<1> QED
  BY <1>1, <1>2, <1>4, <1>8, <1>9, <1>10, PlainKeeps

LEMMA ServeSubscriptionsKeeps ==
  ASSUME PInv, ServeSubscriptions
  PROVE  PInv'
<1>1. PICK op, body : op = "subscriptions" /\ body = sub
  OBVIOUS
<1>2. Served(op) /\ UNCHANGED server /\ toClient' = Append(toClient, Answer(body))
  BY <1>1 DEF ServeSubscriptions
<1>3. body \in [Names -> States]
  BY <1>1 DEF PInv, Sorts
<1>4. body \in Bodies
  BY <1>3 DEF Bodies
<1>5. body \in Answers(op, Request.name)
  BY <1>1, <1>3 DEF Answers
<1>6. PICK m : m = Answer(body)
  OBVIOUS
<1>7. /\ m \in Replies /\ m.call = Request.call /\ ~m.error /\ m.body = body
      /\ Fits(m, call[m.call])
  BY <1>2, <1>4, <1>5, <1>6, AnswerFits
<1>8. exists' \subseteq Names /\ UNCHANGED <<sub, item>>
  BY <1>2 DEF PInv, Sorts, server
<1> QED
  BY <1>1, <1>2, <1>6, <1>7, <1>8, PlainKeeps

LEMMA ServeDefaultKeeps ==
  ASSUME PInv, ServeDefault
  PROVE  PInv'
<1>1. PICK op : op = "default"
  OBVIOUS
<1>2. Served(op) /\ UNCHANGED server
  BY <1>1 DEF ServeDefault
<1>3. PICK body \in {None, {}} : toClient' = Append(toClient, Answer(body))
  BY DEF ServeDefault
<1>4. body \in Bodies
  <2>1. body \in {None} \cup (SUBSET Names)
    OBVIOUS
  <2> QED
    BY <2>1 DEF Bodies
<1>5. body \in Answers(op, Request.name)
  BY <1>1 DEF Answers
<1>6. PICK m : m = Answer(body)
  OBVIOUS
<1>7. m \in Replies /\ m.call = Request.call /\ ~m.error /\ Fits(m, call[m.call])
  BY <1>2, <1>4, <1>5, <1>6, AnswerFits
<1>8. exists' \subseteq Names /\ UNCHANGED <<sub, item>>
  BY <1>2 DEF PInv, Sorts, server
<1> QED
  BY <1>1, <1>2, <1>3, <1>6, <1>7, <1>8, PlainKeeps

\* The server tells of a change, and that only.
LEMMA HappensKeeps ==
  ASSUME PInv, Happens, NEW e \in EventMessages, toClient' = Append(toClient, e),
         exists' \subseteq Names, sub' \in [Names -> States], item' \in [Names -> 0 .. MaxEvents],
         \A n \in Names :
           /\ ~Snapshot(e, call)
           /\ IF Tells(e, n, call) THEN Says(e, call) = sub'[n] ELSE sub'[n] = sub[n]
           /\ item'[n] = IF Items(e, n) THEN e.body ELSE item[n]
  PROVE  PInv'
<1>1. /\ events < MaxEvents /\ events' = events + 1
      /\ UNCHANGED <<held, table, nameOf, kept, call, known, shown, pep, toServer>>
  BY DEF Happens, client
<1>2. PICK ts, tc, tc2, cl, kn, s2, i2 :
        /\ ts = toServer /\ tc = toClient /\ tc2 = toClient' /\ cl = call /\ kn = known /\ s2 = sub'
        /\ i2 = item'
  OBVIOUS
<1>3. Channels(ts, tc, cl, kn) /\ tc \in Seq(Messages) /\ e \in Messages
  BY <1>2 DEF PInv, Channels, Messages
<1>4. tc2 = Append(tc, e) /\ Channels(ts, tc2, cl, kn)
  BY <1>2, <1>3, ToldChannels
<1>5. Channels(toServer, toClient, call, known)'
  BY <1>1, <1>2, <1>4
<1>6. NodesOK' /\ CallsOK'
  <2>1. NodesOK'
    BY <1>1, SameClient DEF PInv
  <2>2. CallsOK'
    BY <1>1 DEF PInv, CallsOK
  <2> QED
    BY <2>1, <2>2
<1>7. Sorts'
  <2>1. MaxEvents \in Nat
    BY PubSubAssumption
  <2>2. events' \in 0 .. MaxEvents
    BY <1>1, <2>1 DEF PInv, Sorts
  <2> QED
    BY <1>1, <2>2 DEF PInv, Sorts
<1>8. KnownIsCurrent'
  <2>1. ASSUME held, NEW n \in Names
        PROVE  Current(n, kn[n], s2[n], tc2, cl)
    <3>1. PICK k, s, t : k = kn[n] /\ s = sub[n] /\ t = s2[n]
      OBVIOUS
    <3>2. Current(n, k, s, tc, cl)
      BY <1>2, <2>1, <3>1 DEF PInv, KnownIsCurrent
    <3>3. CASE Tells(e, n, cl)
      <4>1. Says(e, cl) \in {"unknown", t}
        BY <1>2, <3>1, <3>3
      <4>2. Current(n, k, t, Append(tc, e), cl)
        BY <1>3, <3>3, <4>1, CurrentChanged
      <4> QED
        BY <1>4, <3>1, <4>2
    <3>4. CASE ~Tells(e, n, cl)
      <4>1. ~Snapshot(e, cl) /\ t = s
        BY <1>2, <3>1, <3>4
      <4>2. Current(n, k, s, Append(tc, e), cl)
        BY <1>3, <3>2, <3>4, <4>1, CurrentOther
      <4> QED
        BY <1>4, <3>1, <4>1, <4>2
    <3> QED
      BY <3>3, <3>4
  <2> QED
    BY <1>1, <1>2, <2>1 DEF KnownIsCurrent
<1>9. ShownIsFresh'
  <2>1. ASSUME held, NEW n \in Names
        PROVE  Fresh(n, shown[n], i2[n], tc2)
    <3>1. PICK k, s, t : k = shown[n] /\ s = item[n] /\ t = i2[n]
      OBVIOUS
    <3>2. Fresh(n, k, s, tc)
      BY <1>2, <2>1, <3>1 DEF PInv, ShownIsFresh
    <3>3. t = IF Items(e, n) THEN e.body ELSE s
      BY <1>2, <3>1
    <3>4. Fresh(n, k, t, Append(tc, e))
      BY <1>3, <3>2, <3>3, FreshAppended
    <3> QED
      BY <1>4, <3>1, <3>4
  <2> QED
    BY <1>1, <1>2, <2>1 DEF ShownIsFresh
<1> QED
  BY <1>5, <1>6, <1>7, <1>8, <1>9 DEF PInv

LEMMA PublishKeeps ==
  ASSUME PInv, NEW n \in Names, Publish(n)
  PROVE  PInv'
<1>1. PICK i, e : i = events + 1 /\ e = Tell("items", n, i)
  OBVIOUS
<1>2. /\ Happens /\ item' = [item EXCEPT ![n] = i] /\ toClient' = Append(toClient, e)
      /\ UNCHANGED <<exists, sub>>
  BY <1>1 DEF Publish
<1>3. i \in 1 .. MaxEvents /\ i \in 0 .. MaxEvents
  <2>1. events \in 0 .. MaxEvents /\ events < MaxEvents /\ MaxEvents \in Nat
    BY <1>2, PubSubAssumption DEF PInv, Sorts, Happens
  <2> QED
    BY <1>1, <2>1
<1>4. e \in EventMessages
  BY <1>1, <1>3 DEF Tell, EventMessages
<1>5. exists' \subseteq Names /\ sub' \in [Names -> States] /\ item \in [Names -> 0 .. MaxEvents]
  BY <1>2 DEF PInv, Sorts
<1>6. item' \in [Names -> 0 .. MaxEvents]
  BY <1>2, <1>3, <1>5
<1>7. ASSUME NEW m \in Names
      PROVE  /\ ~Snapshot(e, call)
             /\ IF Tells(e, m, call) THEN Says(e, call) = sub'[m] ELSE sub'[m] = sub[m]
             /\ item'[m] = IF Items(e, m) THEN e.body ELSE item[m]
  <2>1. ~Snapshot(e, call) /\ ~Tells(e, m, call) /\ (Items(e, m) <=> m = n) /\ e.body = i
    BY <1>1 DEF Tells, Snapshot, Items, IsReply, Tell
  <2>2. item'[m] = IF m = n THEN i ELSE item[m]
    BY <1>2, <1>5
  <2> QED
    BY <1>2, <2>1, <2>2
<1> QED
  BY <1>2, <1>4, <1>5, <1>6, <1>7, HappensKeeps

\* The subscription to n becomes s, and the client is told.
LEMMA ChangesKeep ==
  ASSUME PInv, Happens, NEW n \in Names, NEW s \in States, sub' = [sub EXCEPT ![n] = s],
         NEW e, \/ e = Tell("subscription", n, s)
                \/ e = Tell("delete", n, None) /\ s = "none",
         toClient' = Append(toClient, e), exists' \subseteq Names, UNCHANGED item
  PROVE  PInv'
<1>1. e \in EventMessages
  BY DEF Tell, EventMessages
<1>2. sub \in [Names -> States] /\ item' \in [Names -> 0 .. MaxEvents]
  BY DEF PInv, Sorts
<1>3. ASSUME NEW m \in Names
      PROVE  /\ ~Snapshot(e, call)
             /\ IF Tells(e, m, call) THEN Says(e, call) = sub'[m] ELSE sub'[m] = sub[m]
             /\ item'[m] = IF Items(e, m) THEN e.body ELSE item[m]
  <2>1. ~Snapshot(e, call) /\ (Tells(e, m, call) <=> m = n) /\ ~Items(e, m) /\ Says(e, call) = s
    BY DEF Tells, Says, Snapshot, Items, IsReply, Tell
  <2>2. sub'[m] = IF m = n THEN s ELSE sub[m]
    BY <1>2
  <2> QED
    BY <2>1, <2>2
<1>4. sub' \in [Names -> States]
  BY <1>2
<1> QED
  BY <1>1, <1>2, <1>3, <1>4, HappensKeeps

LEMMA SubscriptionChangesKeeps ==
  ASSUME PInv, NEW n \in Names, NEW s \in States, SubscriptionChanges(n, s)
  PROVE  PInv'
<1>1. PICK e : e = Tell("subscription", n, s)
  OBVIOUS
<1>2. exists' \subseteq Names
  BY DEF SubscriptionChanges, PInv, Sorts
<1> QED
  BY <1>1, <1>2, ChangesKeep DEF SubscriptionChanges

LEMMA NodeDeletedKeeps ==
  ASSUME PInv, NEW n \in Names, NodeDeleted(n)
  PROVE  PInv'
<1>1. PICK s, e : s \in States /\ s = "none" /\ e = Tell("delete", n, None)
  BY DEF States
<1>2. /\ Happens /\ sub' = [sub EXCEPT ![n] = s] /\ toClient' = toClient \o Deleted(n)
      /\ exists' = exists \ {n} /\ UNCHANGED item
  BY <1>1 DEF NodeDeleted
<1>3. exists' \subseteq Names /\ sub \in [Names -> States]
  BY <1>2 DEF PInv, Sorts
<1>4. CASE sub[n] # "none"
  <2>1. toClient' = Append(toClient, e)
    BY <1>1, <1>2, <1>4, DeletedIs
  <2> QED
    BY <1>1, <1>2, <1>3, <2>1, ChangesKeep
<1>5. CASE sub[n] = "none"
  <2>1. toClient' = toClient /\ sub' = sub
    BY <1>1, <1>2, <1>3, <1>5, DeletedIs
  <2>2. /\ events < MaxEvents /\ events' = events + 1
        /\ UNCHANGED <<held, table, nameOf, kept, call, known, shown, pep, toServer>>
    BY <1>2 DEF Happens, client
  <2>3. NodesOK'
    BY <2>2, SameClient DEF PInv
  <2>4. CallsOK'
    BY <2>2 DEF PInv, CallsOK
  <2>5. events' \in 0 .. MaxEvents
    BY <2>2, PubSubAssumption DEF PInv, Sorts
  <2>6. Sorts'
    BY <1>2, <1>3, <2>1, <2>2, <2>5 DEF PInv, Sorts
  <2>7. Channels(toServer, toClient, call, known)'
    <3>1. PICK ts, tc, cl, kn : ts = toServer /\ tc = toClient /\ cl = call /\ kn = known
      OBVIOUS
    <3>2. Channels(ts, tc, cl, kn)
      BY <3>1 DEF PInv
    <3> QED
      BY <2>1, <2>2, <3>1, <3>2
  <2>8. KnownIsCurrent' /\ ShownIsFresh'
    BY <1>2, <2>1, <2>2 DEF PInv, KnownIsCurrent, ShownIsFresh
  <2> QED
    BY <2>3, <2>4, <2>6, <2>7, <2>8 DEF PInv
<1> QED
  BY <1>4, <1>5

-----------------------------------------------------------------------------
(* All together *)

LEMMA InitHolds == Init => PInv
<1> SUFFICES ASSUME Init PROVE PInv
  OBVIOUS
<1>1. Sorts
  BY PubSubAssumption DEF Init, Sorts, States
<1>2. \A c \in Calls : call[c] = Idle /\ call[c].stage = "idle"
  BY DEF Init, Idle
<1>3. CallsOK
  <2>1. Idle \in Records
    BY DEF Idle, Records
  <2>2. call \in [Calls -> Records]
    BY <2>1 DEF Init
  <2> QED
    BY <1>2, <2>2 DEF CallsOK
<1>4. NodesOK
  <2>1. \A o \in Objs : ~Alive(o)
    BY <1>2 DEF Alive, Pending, Init
  <2> QED
    BY <2>1, PubSubAssumption DEF Init, NodesOK, NodesAreUnique
<1>5. toServer = <<>> /\ toClient = <<>> /\ Len(toServer) = 0 /\ Len(toClient) = 0
  BY DEF Init
<1>6. Channels(toServer, toClient, call, known)
  <2>1. toServer \in Seq(Requests) /\ toClient \in Seq(Messages)
    BY <1>5
  <2>2. 1 .. Len(toServer) = {} /\ 1 .. Len(toClient) = {}
    BY <1>5
  <2> QED
    BY <1>2, <2>1, <2>2 DEF Channels, OneMessage, Began, RequestsAreTheirs, RepliesFit, OnTheirWay
<1>7. KnownIsCurrent
  BY <1>5 DEF Init, KnownIsCurrent, Current
<1>8. ShownIsFresh
  BY <1>5 DEF Init, ShownIsFresh, Fresh
<1> QED
  BY <1>1, <1>3, <1>4, <1>6, <1>7, <1>8 DEF PInv

LEMMA HandlersKeep ==
  ASSUME PInv, Handlers
  PROVE  PInv'
<1>1. CASE ListSubscribersCb \/ ListAffiliatesCb
  <2>1. \E op \in {"subscribers", "affiliates"} : ListCb(op)
    BY <1>1 DEF ListSubscribersCb, ListAffiliatesCb
  <2> QED
    BY <2>1, ListCbKeeps
<1>2. CASE GetConfigurationIqCb \/ DefaultConfigurationIqCb
  <2>1. \E op \in {"configuration", "default"} : FormCb(op)
    BY <1>2 DEF GetConfigurationIqCb, DefaultConfigurationIqCb
  <2> QED
    BY <2>1, FormCbKeeps
<1> QED
  BY <1>1, <1>2, SubscribeCbKeeps, VoidIqCbKeeps, SendQueryCbKeeps, ReceiveSubscriptionsCbKeeps,
     CreateNodeIqCbKeeps, LateReplyKeeps, HandleItemsEventKeeps, HandleSubscriptionEventKeeps,
     EmitDeletedKeeps, MsgEventCbKeeps DEF Handlers

LEMMA ServingKeeps ==
  ASSUME PInv, Serving
  PROVE  PInv'
BY ServeRefusedKeeps, ServeSubscribeKeeps, ServeUnsubscribeKeeps, ServeDeleteKeeps, ServeOwnerKeeps,
   ServeCreateKeeps, ServeSubscriptionsKeeps, ServeDefaultKeeps DEF Serving

LEMMA StepKeeps == PInv /\ [Next]_vars => PInv'
<1> SUFFICES ASSUME PInv, [Next]_vars PROVE PInv'
  OBVIOUS
<1>1. CASE UNCHANGED vars
  <2>1. /\ UNCHANGED <<table, nameOf, kept, call, known, shown, server, toServer, toClient, events>>
        /\ UNCHANGED <<held, pep>>
    BY <1>1 DEF vars, client
  <2>2. held' \in BOOLEAN /\ (held' => held) /\ pep' \in {"new", "started", "disposed"}
    BY <2>1 DEF PInv, Sorts
  <2> QED
    BY <2>1, <2>2, OthersKeep
<1>2. CASE ReleaseService \/ PepStart \/ PepDispose
  <2>1. /\ UNCHANGED <<table, nameOf, kept, call, known, shown, server, toServer, toClient, events>>
        /\ (held /\ held' = FALSE) \/ UNCHANGED held
        /\ UNCHANGED pep \/ pep' \in {"new", "started", "disposed"}
    BY <1>2 DEF ReleaseService, PepStart, PepDispose
  <2>2. held' \in BOOLEAN /\ (held' => held)
    <3>1. CASE held /\ held' = FALSE
      BY <3>1
    <3>2. CASE UNCHANGED held
      BY <3>2 DEF PInv, Sorts
    <3> QED
      BY <2>1, <3>1, <3>2
  <2>3. pep' \in {"new", "started", "disposed"}
    BY <2>1 DEF PInv, Sorts
  <2> QED
    BY <2>1, <2>2, <2>3, OthersKeep
<1>3. CASE \E n \in Names : TakeNode(n) \/ Publish(n) \/ NodeDeleted(n)
  BY <1>3, TakeNodeKeeps, PublishKeeps, NodeDeletedKeeps
<1>4. CASE \E o \in Objs : ReleaseNode(o)
  BY <1>4, ReleaseNodeKeeps
<1>5. CASE \E c \in Calls, o \in Objs :
             \/ SubscribeAsync(c, o) \/ UnsubscribeAsync(c, o) \/ DeleteAsync(c, o)
             \/ ListSubscribersAsync(c, o) \/ ListAffiliatesAsync(c, o) \/ ModifyAffiliatesAsync(c, o)
             \/ GetConfigurationAsync(c, o)
  <2>1. \E c \in Calls, op \in NodeOps, o \in Objs : OnNode(c, op, o)
    BY <1>5 DEF SubscribeAsync, UnsubscribeAsync, DeleteAsync, ListSubscribersAsync,
                ListAffiliatesAsync, ModifyAffiliatesAsync, GetConfigurationAsync, NodeOps
  <2> QED
    BY <2>1, OnNodeKeeps
<1>6. CASE \/ \E c \in Calls, n \in Names \cup {None} : CreateNodeAsync(c, n)
           \/ \E c \in Calls :
                RetrieveSubscriptionsAsync(c) \/ GetDefaultNodeConfigurationAsync(c)
  <2>1. held /\ \E c \in Calls, op \in ServiceOps, n \in Names \cup {None} : Ask(c, op, None, n)
    BY <1>6 DEF CreateNodeAsync, RetrieveSubscriptionsAsync, GetDefaultNodeConfigurationAsync,
                ServiceOps
  <2>2. PICK c \in Calls, op \in ServiceOps, n \in Names \cup {None} : Ask(c, op, None, n)
    BY <2>1
  <2>3. op \in ServiceOps \cup {"get"} /\ op # "get"
    BY DEF ServiceOps
  <2> QED
    BY <2>1, <2>2, <2>3, OnServiceKeeps
<1>7. CASE \E c \in Calls : PepGetAsync(c) \/ CancelCall(c)
  BY <1>7, PepGetAsyncKeeps, CancelCallKeeps
<1>8. CASE \E n \in Names, s \in States : SubscriptionChanges(n, s)
  BY <1>8, SubscriptionChangesKeeps
<1>9. CASE Handlers
  BY <1>9, HandlersKeep
<1>10. CASE Serving
  BY <1>10, ServingKeeps
<1> QED
  BY <1>1, <1>2, <1>3, <1>4, <1>5, <1>6, <1>7, <1>8, <1>9, <1>10 DEF Next

\* No call is forgotten: as long as it is not answered its request or its reply is on its way, whatever
\* becomes of its node, the node's object and the service (wocky_pubsub_distill_iq_reply).
THEOREM NoCallIsForgotten == Spec => []CallsAreOnTheirWay
<1>1. PInv => CallsAreOnTheirWay
  BY InvMeansCalls
<1> QED
  BY <1>1, InitHolds, StepKeeps, PTL DEF Spec

\* As long as somebody has the service its table has exactly the living objects, and when everything under
\* way has arrived an application that has it knows its subscriptions and has the last item of every node
\* (ensure_node, node_disposed_cb, pubsub_service_propagate_event, msg_event_cb, receive_subscriptions_cb).
\* Of the table of a service that went with its last node it says nothing: see ServiceOutlivesNodes.
THEOREM TheServiceIsMirrored == Spec => []ServiceIsMirrored
<1>1. PInv => ServiceIsMirrored
  BY InvMeansMirrored
<1> QED
  BY <1>1, InitHolds, StepKeeps, PTL DEF Spec

=============================================================================
