------------------------ MODULE PorterReceiveProofs ------------------------
(***************************************************************************)
(* The reception of the porter, stream management and the heartbeat, for   *)
(* any handlers and however they are registered, any stanzas and any       *)
(* number of them, whatever an application does from its handlers.         *)
(***************************************************************************)
EXTENDS KeepAlive, FiniteSetTheorems, SequenceTheorems, WellFoundedInduction, TLAPS

-----------------------------------------------------------------------------
(* What is under way *)

Heirs == Handlers \cup Library
Types == {s.type : s \in Stanzas} \cup {"iq", "r"}
Arrivals ==
  {s \in [type : Types, sub : {s.sub : s \in Stanzas} \cup {"result", "none"},
          from : {s.from : s \in Stanzas} \cup From \cup {"none"},
          what : {s.what : s \in Stanzas} \cup {"plain"},
          id : Iqs \cup {"none"}, n : 0 .. MaxArriving, h : Nat] :
     /\ s.n = 0 <=> s.type = "r"
     /\ s.id # "none" => s.type = "iq" /\ s.sub = "result" /\ s.from \in From}
AnswersIn == [type : {"a"}, h : Nat]
AnswersRead ==
  [type : {"a"}, sub : {"none"}, from : {"none"}, what : {"plain"}, n : {0}, h : Nat]
Incoming == Arrivals \cup AnswersIn \cup [type : {"closed"}]
Read == Arrivals \cup AnswersRead
Later == {s \in Arrivals : s.type # "r"}
Walks ==
  [fn : {"dispatch"}, stanza : Read, at : Heirs \cup {None}, freed : BOOLEAN,
   offered : Seq(Heirs), since : SUBSET Heirs]
Frames == [fn : {"user", "flush", "disable"}] \cup Walks
Replies == {<<"reply", n, a>> : n \in 1 .. MaxArriving, a \in {s.from : s \in Arrivals}}
Whats == {<<"message">>} \cup {<<i>> : i \in Iqs} \cup Replies
OutItems == {Request} \cup [kind : {"a", "last"}, h : Nat] \cup {Carrying(w) : w \in Whats}

Sorts ==
  /\ managed \in BOOLEAN /\ closing \in BOOLEAN /\ serverGone \in BOOLEAN
  /\ saving \in BOOLEAN /\ remoteClosed \in BOOLEAN
  /\ sent \in Nat /\ got \in Nat /\ counted \in Nat /\ serverSent \in 0 .. MaxArriving
  /\ unacked \in Seq(Nat) /\ fetched \subseteq Nat
  /\ out \in Seq(OutItems) /\ inbox \in Seq(Incoming) /\ held \in Seq(Later)
  /\ handlers \in Seq(Heirs)
  /\ iqs \in [Iqs -> {"new", "pending", "answered", "aborted"}]
  /\ begun \in Seq(Nat)
  /\ stack \in Seq(Frames)

\* Where a sequence has an element of T, and how often.
In(seq, T) == {k \in 1 .. Len(seq) : seq[k] \in T}
Count(seq, T) == Cardinality(In(seq, T))
One(b) == IF b THEN 1 ELSE 0

-----------------------------------------------------------------------------
(* The stack *)

Walk(f) == f.fn = "dispatch"
Fresh(f) == f.fn = "dispatch" /\ f.at = None
\* f may be right above g, which is the last frame or not.
Above(f, g, last) ==
  \/ f.fn = "user" /\ Walk(g) /\ g.at \in Handlers
  \/ f.fn = "flush" /\ g.fn = "disable"
  \/ f.fn = "flush" /\ Fresh(g) /\ last
  \/ f.fn = "disable" /\ g.fn = "user"
  \/ Walk(f) /\ g.fn = "flush"
Shape(st) ==
  /\ \A k \in 2 .. Len(st) : Above(st[k - 1], st[k], k = Len(st))
  /\ st # <<>> => st[Len(st)].fn \in {"dispatch", "disable"}
  /\ \A k \in 1 .. Len(st) - 1 : Walk(st[k]) => st[k].stanza.type \notin {"r", "a"}

\* What is held back waits for a flush.
Flushed(st, h) ==
  \A k \in 1 .. Len(st) : st[k].fn = "disable" \/ k = Len(st)
    => h = <<>> \/ (k > 1 /\ st[k - 1].fn = "flush")

-----------------------------------------------------------------------------
(* The order of the stanzas *)

TopIsNew(st) == Len(st) > 1 /\ Fresh(st[1])
LastIsNew(st) == Len(st) > 0 /\ Fresh(st[Len(st)]) /\ st[Len(st)].stanza.n # 0
\* Begun, just begun, held back and waiting for the flush: 1, 2, ... up to what is counted
Order(st, b, h, c) ==
  /\ Len(b) + One(TopIsNew(st)) + Len(h) + One(LastIsNew(st)) = c
  /\ \A k \in 1 .. Len(b) : b[k] = k
  /\ TopIsNew(st) => st[1].stanza.n = Len(b) + 1
  /\ \A k \in 1 .. Len(h) : h[k].n = Len(b) + One(TopIsNew(st)) + k
  /\ LastIsNew(st) => st[Len(st)].stanza.n = c

Counting(x) == x.type \notin {"r", "a", "closed"}
NoneIn(seq, i, j) == \A k \in i .. j : ~Counting(seq[k])
Numbered(seq, c, ss, gone) ==
  /\ c <= ss
  /\ \A k \in 1 .. Len(seq) :
       /\ seq[k].type = "closed" => gone
       /\ Counting(seq[k]) =>
            /\ seq[k].n <= ss
            /\ NoneIn(seq, 1, k - 1) => seq[k].n = c + 1
            /\ \A j \in 1 .. k - 1 :
                 Counting(seq[j]) /\ NoneIn(seq, j + 1, k - 1) => seq[k].n = seq[j].n + 1
            /\ ~gone /\ NoneIn(seq, k + 1, Len(seq)) => seq[k].n = ss
  /\ ~gone /\ NoneIn(seq, 1, Len(seq)) => c = ss

\* The answer to a request counts what had been read when it was read.
Stamped(st, c) ==
  \A k \in 1 .. Len(st) : Walk(st[k]) /\ st[k].stanza.type = "r" => st[k].stanza.h = c

-----------------------------------------------------------------------------
(* The replies of the library: at most one to each stanza *)

Walked(f) == f.fn = "dispatch" /\ f.at # None /\ f.stanza.n # 0
Underway == {f \in Frames : Walked(f)}
IsReply(x) == x.kind = "stanza" /\ x.what \in Replies
Unanswered(st, o, b) ==
  /\ \A k \in 1 .. Len(st) : Walked(st[k]) => st[k].stanza.n <= Len(b)
  /\ \A j, k \in 1 .. Len(st) :
       Walked(st[j]) /\ Walked(st[k]) /\ st[j].stanza.n = st[k].stanza.n => j = k
  /\ \A k \in 1 .. Len(o) : IsReply(o[k]) =>
       /\ o[k].what[2] <= Len(b)
       /\ \A j \in 1 .. Len(st) : Walked(st[j]) => st[j].stanza.n # o[k].what[2]
Fit(n, st, o, b) == n + Count(st, Underway) <= MaxSent + Len(b) /\ Unanswered(st, o, b)

StackInv ==
  /\ Shape(stack) /\ (~saving => held = <<>>) /\ Flushed(stack, held)
  /\ Order(stack, begun, held, counted) /\ Stamped(stack, counted)
OrderInv ==
  /\ Sorts /\ StackInv
  /\ Numbered(inbox, counted, serverSent, serverGone)
  /\ AcksAreHandled
  /\ Fit(sent, stack, out, begun)

-----------------------------------------------------------------------------
(* Sequences and frames *)

LEMMA ConsFacts ==
  ASSUME NEW S, NEW f \in S, NEW s \in Seq(S)
  PROVE  /\ <<f>> \o s \in Seq(S) /\ Len(<<f>> \o s) = Len(s) + 1
         /\ (<<f>> \o s)[1] = f /\ Head(<<f>> \o s) = f
         /\ \A k \in 1 .. Len(s) : (<<f>> \o s)[k + 1] = s[k]
         /\ \A k \in 2 .. Len(s) + 1 : (<<f>> \o s)[k] = s[k - 1]
         /\ <<f>> \o s # <<>>
<1>1. <<f>> \in Seq(S) /\ Len(<<f>>) = 1 /\ <<f>>[1] = f  OBVIOUS
<1>2. <<f>> \o s \in Seq(S) /\ Len(<<f>> \o s) = Len(s) + 1  BY <1>1, ConcatProperties
<1>3. \A k \in 1 .. Len(s) + 1 : (<<f>> \o s)[k] = IF k <= 1 THEN <<f>>[k] ELSE s[k - 1]
  BY <1>1, ConcatProperties
<1>4. Len(s) \in Nat  OBVIOUS
<1>5. (<<f>> \o s)[1] = f  BY <1>1, <1>3, <1>4
<1>6. \A k \in 2 .. Len(s) + 1 : (<<f>> \o s)[k] = s[k - 1]  BY <1>3, <1>4
<1>7. \A k \in 1 .. Len(s) : (<<f>> \o s)[k + 1] = s[k]
  <2> TAKE k \in 1 .. Len(s)
  <2>1. k + 1 \in 2 .. Len(s) + 1 /\ k + 1 - 1 = k  BY <1>4
  <2> QED  BY <2>1, <1>6
<1>8. <<f>> \o s # <<>>  BY <1>2, <1>4
<1>9. Head(<<f>> \o s) = f  BY <1>2, <1>5, <1>8
<1> QED  BY <1>2, <1>5, <1>6, <1>7, <1>8, <1>9

LEMMA TailFacts ==
  ASSUME NEW S, NEW s \in Seq(S), s # <<>>
  PROVE  /\ Tail(s) \in Seq(S) /\ Len(s) \in Nat \ {0} /\ Len(Tail(s)) = Len(s) - 1
         /\ Head(s) = s[1] /\ Head(s) \in S
         /\ \A k \in 1 .. Len(s) - 1 : Tail(s)[k] = s[k + 1]
         /\ \A k \in 1 .. Len(s) : s[k] \in S
<1>1. Len(s) \in Nat \ {0} /\ \A k \in 1 .. Len(s) : s[k] \in S  OBVIOUS
<1>2. Head(s) = s[1] /\ Tail(s) \in Seq(S) /\ Len(Tail(s)) = Len(s) - 1  BY <1>1
<1>3. \A k \in 1 .. Len(s) - 1 : Tail(s)[k] = s[k + 1]  BY <1>1
<1> QED  BY <1>1, <1>2, <1>3

LEMMA AppendFacts ==
  ASSUME NEW S, NEW s \in Seq(S), NEW x \in S
  PROVE  /\ Append(s, x) \in Seq(S) /\ Len(Append(s, x)) = Len(s) + 1
         /\ \A k \in 1 .. Len(s) : Append(s, x)[k] = s[k]
         /\ Append(s, x)[Len(s) + 1] = x
BY AppendProperties

LEMMA ReadFacts ==
  ASSUME NEW s \in Read
  PROVE  /\ s.n \in 0 .. MaxArriving /\ s.h \in Nat /\ s.type \in Types \cup {"a"}
         /\ s.n = 0 <=> s.type \in {"r", "a"}
         /\ s.type # "a" => s \in Arrivals
         /\ s.type = "a" => s \in AnswersRead
<1>0. MaxArriving \in Nat /\ "a" \notin Types  BY ReceiveAssumption DEF ReceiveAssumption, Types
<1>1. CASE s \in Arrivals  BY <1>0, <1>1 DEF Arrivals
<1>2. CASE s \in AnswersRead  BY <1>0, <1>2 DEF AnswersRead
<1> QED  BY <1>1, <1>2 DEF Read

LEMMA FrameFacts ==
  ASSUME NEW f \in Frames
  PROVE  /\ f.fn \in {"user", "flush", "disable", "dispatch"}
         /\ f.fn = "dispatch" =>
              /\ f \in Walks /\ f.stanza \in Read /\ f.at \in Heirs \cup {None}
              /\ f.freed \in BOOLEAN /\ f.offered \in Seq(Heirs) /\ f.since \subseteq Heirs
BY DEF Frames, Walks

LEMMA NewFrames ==
  /\ Frame("user") \in Frames /\ Frame("flush") \in Frames /\ Frame("disable") \in Frames
  /\ \A s \in Read : Dispatch(s) \in Frames /\ Fresh(Dispatch(s)) /\ Dispatch(s).stanza = s
                     /\ ~Walked(Dispatch(s))
<1>1. Frame("user") \in Frames /\ Frame("flush") \in Frames /\ Frame("disable") \in Frames
  BY DEF Frame, Frames
<1>2. ASSUME NEW s \in Read PROVE Dispatch(s) \in Walks /\ Fresh(Dispatch(s)) /\ Dispatch(s).stanza = s
  BY DEF Dispatch, Walks, Fresh
<1> QED  BY <1>1, <1>2 DEF Frames, Fresh, Walked

LEMMA NextFrame ==
  ASSUME NEW f \in Walks, NEW h \in Heirs, handlers \in Seq(Heirs)
  PROVE  LET g == AtNext(f, h) IN
         /\ g \in Frames /\ g.fn = "dispatch" /\ g.stanza = f.stanza /\ g.at = h /\ h # None
         /\ g.freed = f.freed /\ g.offered = Append(f.offered, h)
         /\ g.since = IF f.at = None THEN ToSet(handlers) ELSE f.since
<1>1. ToSet(handlers) \subseteq Heirs  BY DEF ToSet
<1>2. Append(f.offered, h) \in Seq(Heirs)  BY DEF Walks
<1>3. h # None  BY ReceiveAssumption DEF ReceiveAssumption, Heirs
<1> DEFINE o == Append(f.offered, h)
           t == IF f.at = None THEN ToSet(handlers) ELSE f.since
<1>4. o \in Seq(Heirs) /\ t \in SUBSET Heirs  BY <1>1, <1>2 DEF Walks
<1>5. AtNext(f, h) = [fn |-> f.fn, stanza |-> f.stanza, at |-> h, freed |-> f.freed,
                      offered |-> o, since |-> t]
  <2>1. AtNext(f, h) = [f EXCEPT !.at = h, !.offered = o, !.since = t]  BY Zenon DEF AtNext
  <2> HIDE DEF o, t
  <2> QED  BY <2>1 DEF Walks
<1>6. f.fn = "dispatch" /\ f.stanza \in Read /\ f.freed \in BOOLEAN  BY DEF Walks
<1> HIDE DEF o, t
<1>7. AtNext(f, h) \in Walks  BY <1>4, <1>5, <1>6 DEF Walks
<1> QED  BY <1>3, <1>5, <1>6, <1>7 DEF Frames, o, t

LEMMA FreedFrame ==
  ASSUME NEW f \in Frames, NEW h \in Heirs
  PROVE  LET g == Freed(f, h) IN
         /\ g \in Frames /\ g.fn = f.fn
         /\ f.fn # "dispatch" => g = f
         /\ f.fn = "dispatch" =>
              /\ g.stanza = f.stanza /\ g.at = f.at /\ g.offered = f.offered
              /\ g.freed = (f.freed \/ f.at = h) /\ g.since = f.since \ {h}
<1>1. CASE f.fn # "dispatch"  BY <1>1 DEF Freed
<1>2. CASE f.fn = "dispatch"
  <2>1. f \in Walks  BY <1>2, FrameFacts
  <2>2. Freed(f, h) = [fn |-> f.fn, stanza |-> f.stanza, at |-> f.at,
                       freed |-> (f.freed \/ f.at = h), offered |-> f.offered,
                       since |-> f.since \ {h}]
    BY <1>2, <2>1 DEF Freed, Walks
  <2>3. Freed(f, h) \in Walks  BY <2>1, <2>2 DEF Walks
  <2> QED  BY <1>2, <2>2, <2>3 DEF Frames
<1> QED  BY <1>1, <1>2

-----------------------------------------------------------------------------
(* Pushing and popping a frame *)

LEMMA PushShape ==
  ASSUME NEW f \in Frames, NEW st \in Seq(Frames), Shape(st),
         st = <<>> => f.fn \in {"dispatch", "disable"},
         st # <<>> => Above(f, st[1], Len(st) = 1) /\ (Walk(f) => f.stanza.type \notin {"r", "a"})
  PROVE  Shape(<<f>> \o st)
<1> DEFINE s == <<f>> \o st
<1>1. /\ Len(s) = Len(st) + 1 /\ s[1] = f
      /\ \A k \in 2 .. Len(st) + 1 : s[k] = st[k - 1]
      /\ Len(st) \in Nat /\ (st = <<>> <=> Len(st) = 0)
  BY ConsFacts
<1>a. Len(s) = Len(st) + 1 /\ Len(st) = Len(s) - 1 /\ Len(st) \in Nat  BY <1>1
<1> HIDE DEF s
<1>2. ASSUME NEW k \in 2 .. Len(s) PROVE Above(s[k - 1], s[k], k = Len(s))
  <2>1. CASE k = 2
    <3>0. k \in Int /\ 2 <= k /\ k <= Len(st) + 1  BY <1>a
    <3>1. Len(st) >= 1 /\ k \in 2 .. Len(st) + 1  BY <1>a, <2>1, <3>0
    <3>2. s[k] = st[k - 1] /\ st # <<>>  BY <1>1, <3>1
    <3>3. s[k - 1] = f /\ s[k] = st[1]  BY <1>1, <2>1, <3>2
    <3>4. Above(f, st[1], Len(st) = 1)  BY <3>2
    <3>5. k = Len(s) <=> Len(st) = 1
      <4>1. Len(s) = 2 <=> Len(st) = 1  BY <1>a
      <4> QED  BY <4>1, <2>1
    <3> QED  BY <3>3, <3>4, <3>5 DEF Above
  <2>2. CASE k > 2
    <3>1. k - 1 \in 2 .. Len(st) /\ k - 1 \in 2 .. Len(st) + 1 /\ k \in 2 .. Len(st) + 1  BY <1>1, <2>2
    <3>2. s[k - 1] = st[(k - 1) - 1] /\ s[k] = st[k - 1] /\ (k = Len(s)) = (k - 1 = Len(st))
      BY <1>1, <3>1
    <3> QED  BY <3>1, <3>2 DEF Shape
  <2> QED  BY <1>1, <2>1, <2>2
<1>3. s[Len(s)].fn \in {"dispatch", "disable"}
  <2>1. CASE st = <<>>  BY <1>1, <2>1
  <2>2. CASE st # <<>>
    <3>1. Len(s) \in 2 .. Len(st) + 1 /\ Len(s) - 1 = Len(st)  BY <1>1, <2>2
    <3> QED  BY <1>1, <2>2, <3>1 DEF Shape
  <2> QED  BY <2>1, <2>2
<1>4. ASSUME NEW k \in 1 .. Len(s) - 1, Walk(s[k]) PROVE s[k].stanza.type \notin {"r", "a"}
  <2>1. CASE k = 1  BY <1>1, <1>4, <2>1
  <2>2. CASE k > 1
    <3>1. k \in 2 .. Len(st) + 1 /\ k - 1 \in 1 .. Len(st) - 1  BY <1>1, <2>2
    <3> QED  BY <1>1, <1>4, <3>1 DEF Shape
  <2> QED  BY <1>1, <2>1, <2>2
<1> QED  BY <1>2, <1>3, <1>4 DEF Shape, s

LEMMA PopShape ==
  ASSUME NEW st \in Seq(Frames), Shape(st), st # <<>>
  PROVE  /\ Shape(Tail(st)) /\ (Tail(st) = <<>> <=> Len(st) = 1)
         /\ Len(st) > 1 => Above(st[1], st[2], Len(st) = 2) /\ Tail(st)[1] = st[2]
         /\ Len(st) > 1 /\ Walk(st[1]) => st[1].stanza.type \notin {"r", "a"}
<1> DEFINE s == Tail(st)
<1>0. s \in Seq(Frames) /\ (s = <<>> <=> Len(s) = 0)
  <2>1. s \in Seq(Frames)  BY TailFacts
  <2> HIDE DEF s
  <2> QED  BY <2>1
<1>1. /\ Len(s) = Len(st) - 1 /\ Len(st) \in Nat \ {0} /\ (s = <<>> <=> Len(s) = 0)
      /\ \A k \in 1 .. Len(st) - 1 : s[k] = st[k + 1]
  BY <1>0, TailFacts
<1> HIDE DEF s
<1>2. ASSUME NEW k \in 2 .. Len(s) PROVE Above(s[k - 1], s[k], k = Len(s))
  <2>1. k + 1 \in 2 .. Len(st) /\ k - 1 \in 1 .. Len(st) - 1 /\ k \in 1 .. Len(st) - 1  BY <1>1
  <2>2. s[k - 1] = st[(k + 1) - 1] /\ s[k] = st[k + 1] /\ (k = Len(s)) = (k + 1 = Len(st))
    BY <1>1, <2>1
  <2> QED  BY <2>1, <2>2 DEF Shape
<1>3. s # <<>> => s[Len(s)].fn \in {"dispatch", "disable"}
  <2> SUFFICES ASSUME s # <<>> PROVE s[Len(s)].fn \in {"dispatch", "disable"}  OBVIOUS
  <2>1. Len(s) \in 1 .. Len(st) - 1 /\ Len(s) + 1 = Len(st)  BY <1>1
  <2> QED  BY <1>1, <2>1 DEF Shape
<1>4. ASSUME NEW k \in 1 .. Len(s) - 1, Walk(s[k]) PROVE s[k].stanza.type \notin {"r", "a"}
  <2>1. k \in 1 .. Len(st) - 1 /\ k + 1 \in 1 .. Len(st) - 1  BY <1>1
  <2> QED  BY <1>1, <1>4, <2>1 DEF Shape
<1>5. Len(st) > 1 => Above(st[1], st[2], Len(st) = 2)
  <2> SUFFICES ASSUME Len(st) > 1 PROVE Above(st[1], st[2], Len(st) = 2)  OBVIOUS
  <2>1. 2 \in 2 .. Len(st) /\ 2 - 1 = 1 /\ (2 = Len(st)) = (Len(st) = 2)  BY <1>1
  <2> QED  BY <2>1 DEF Shape
<1>6. Len(st) > 1 /\ Walk(st[1]) => st[1].stanza.type \notin {"r", "a"}  BY <1>1 DEF Shape
<1>7. Len(st) > 1 => s[1] = st[2]  BY <1>1
<1>8. s = <<>> <=> Len(st) = 1  BY <1>1
<1>9. Shape(s)  BY <1>2, <1>3, <1>4 DEF Shape
<1> QED  BY <1>5, <1>6, <1>7, <1>8, <1>9 DEF s

\* A walk that moves on takes the place of the walk it was.
LEMMA SwapShape ==
  ASSUME NEW st \in Seq(Frames), Shape(st), st # <<>>, NEW g \in Frames,
         Walk(st[1]), Walk(g), g.stanza = st[1].stanza
  PROVE  Shape(<<g>> \o Tail(st))
<1>1. Shape(Tail(st)) /\ (Tail(st) = <<>> <=> Len(st) = 1) /\ Tail(st) \in Seq(Frames)
      /\ Len(st) \in Nat \ {0} /\ Len(Tail(st)) = Len(st) - 1
  BY PopShape, TailFacts
<1>2. ASSUME Tail(st) # <<>> PROVE Above(g, Tail(st)[1], Len(Tail(st)) = 1)
  <2>1. Len(st) > 1  BY <1>1, <1>2
  <2>2. st[2].fn = "flush" /\ Tail(st)[1] = st[2]  BY <2>1, PopShape DEF Above, Walk, Fresh
  <2> QED  BY <2>2 DEF Above
<1>3. Tail(st) # <<>> => g.stanza.type \notin {"r", "a"}  BY <1>1, PopShape
<1>4. g.fn = "dispatch"  BY DEF Walk
<1> QED  BY <1>1, <1>2, <1>3, <1>4, PushShape

LEMMA PushFlushed ==
  ASSUME NEW f \in Frames, NEW st \in Seq(Frames), NEW h, Flushed(st, h),
         f.fn # "disable", st # <<>>
  PROVE  Flushed(<<f>> \o st, h)
<1> DEFINE s == <<f>> \o st
<1>1. /\ Len(s) = Len(st) + 1 /\ s[1] = f
      /\ \A k \in 2 .. Len(st) + 1 : s[k] = st[k - 1]
      /\ Len(st) \in Nat /\ Len(st) > 0
  BY ConsFacts
<1> HIDE DEF s
<1> SUFFICES ASSUME NEW k \in 1 .. Len(s), s[k].fn = "disable" \/ k = Len(s)
             PROVE  h = <<>> \/ (k > 1 /\ s[k - 1].fn = "flush")
  BY DEF Flushed, s
<1>2. k \in 2 .. Len(st) + 1 /\ k - 1 \in 1 .. Len(st) /\ s[k] = st[k - 1]  BY <1>1
<1>3. st[k - 1].fn = "disable" \/ k - 1 = Len(st)  BY <1>1, <1>2
<1>4. h = <<>> \/ (k - 1 > 1 /\ st[k - 1 - 1].fn = "flush")  BY <1>2, <1>3 DEF Flushed
<1>5. CASE k - 1 > 1
  <2>1. k - 1 \in 2 .. Len(st) + 1  BY <1>2, <1>5
  <2>2. s[k - 1] = st[k - 1 - 1]  BY <1>1, <2>1
  <2> QED  BY <1>2, <1>4, <2>2
<1> QED  BY <1>4, <1>5

LEMMA PopFlushed ==
  ASSUME NEW st \in Seq(Frames), NEW h, Flushed(st, h), st # <<>>,
         st[1].fn # "flush" \/ h = <<>>
  PROVE  Flushed(Tail(st), h)
<1> DEFINE s == Tail(st)
<1>1. /\ Len(s) = Len(st) - 1 /\ Len(st) \in Nat \ {0}
      /\ \A k \in 1 .. Len(st) - 1 : s[k] = st[k + 1]
  BY TailFacts
<1> HIDE DEF s
<1> SUFFICES ASSUME NEW k \in 1 .. Len(s), s[k].fn = "disable" \/ k = Len(s), h # <<>>
             PROVE  k > 1 /\ s[k - 1].fn = "flush"
  BY DEF Flushed, s
<1>2. k + 1 \in 1 .. Len(st) /\ s[k] = st[k + 1] /\ (k = Len(s) => k + 1 = Len(st))  BY <1>1
<1>3. st[k + 1].fn = "disable" \/ k + 1 = Len(st)  BY <1>2
<1>4. st[k].fn = "flush"
  <2>1. st[(k + 1) - 1].fn = "flush"  BY <1>2, <1>3 DEF Flushed
  <2> QED  BY <2>1
<1>5. k > 1  BY <1>4
<1>6. k - 1 \in 1 .. Len(st) - 1 /\ s[k - 1] = st[k]  BY <1>1, <1>5
<1> QED  BY <1>4, <1>5, <1>6

LEMMA OtherFlushed ==
  ASSUME NEW st, NEW h, NEW g, Flushed(st, h), h # <<>>
  PROVE  Flushed(st, g)
BY DEF Flushed

\* The functions, the stanzas and the places of the walks are the same.
Alike(st, tt) ==
  /\ Len(tt) = Len(st)
  /\ \A k \in 1 .. Len(st) : tt[k].fn = st[k].fn /\ (Walk(st[k]) => tt[k].stanza = st[k].stanza /\ tt[k].at = st[k].at)

LEMMA AlikeKeeps ==
  ASSUME NEW st \in Seq(Frames), NEW tt \in Seq(Frames), Alike(st, tt),
         NEW h, NEW b, NEW c, NEW o
  PROVE  /\ Shape(st) => Shape(tt)
         /\ Flushed(st, h) => Flushed(tt, h)
         /\ TopIsNew(tt) = TopIsNew(st) /\ LastIsNew(tt) = LastIsNew(st)
         /\ Order(st, b, h, c) => Order(tt, b, h, c)
         /\ Stamped(st, c) => Stamped(tt, c)
         /\ Count(tt, Underway) = Count(st, Underway)
         /\ Unanswered(st, o, b) => Unanswered(tt, o, b)
<1>1. Len(tt) = Len(st) /\ Len(st) \in Nat /\ (st = <<>> <=> tt = <<>>) /\ (st = <<>> <=> Len(st) = 0)
  BY DEF Alike
<1>2. ASSUME NEW k \in 1 .. Len(st)
      PROVE  /\ tt[k].fn = st[k].fn /\ Walk(tt[k]) = Walk(st[k]) /\ Fresh(tt[k]) = Fresh(st[k])
             /\ Walk(st[k]) => tt[k].stanza = st[k].stanza /\ tt[k].at = st[k].at
             /\ Walked(tt[k]) = Walked(st[k])
  BY <1>2 DEF Alike, Walk, Fresh, Walked
<1>3. Shape(st) => Shape(tt)
  <2> SUFFICES ASSUME Shape(st) PROVE Shape(tt)  OBVIOUS
  <2>1. ASSUME NEW k \in 2 .. Len(tt) PROVE Above(tt[k - 1], tt[k], k = Len(tt))
    <3>1. k - 1 \in 1 .. Len(st) /\ k \in 1 .. Len(st) /\ k \in 2 .. Len(st)  BY <1>1
    <3>2. Above(st[k - 1], st[k], k = Len(st))  BY <3>1 DEF Shape
    <3> QED  BY <1>1, <1>2, <3>1, <3>2 DEF Above
  <2>2. tt # <<>> => tt[Len(tt)].fn \in {"dispatch", "disable"}
    <3> SUFFICES ASSUME tt # <<>> PROVE tt[Len(tt)].fn \in {"dispatch", "disable"}  OBVIOUS
    <3>1. Len(st) \in 1 .. Len(st)  BY <1>1
    <3> QED  BY <1>1, <1>2, <3>1 DEF Shape
  <2>3. ASSUME NEW k \in 1 .. Len(tt) - 1, Walk(tt[k]) PROVE tt[k].stanza.type \notin {"r", "a"}
    <3>1. k \in 1 .. Len(st) /\ k \in 1 .. Len(st) - 1  BY <1>1
    <3>2. Walk(st[k]) /\ tt[k].stanza = st[k].stanza  BY <1>2, <2>3, <3>1
    <3> QED  BY <3>1, <3>2 DEF Shape
  <2> QED  BY <2>1, <2>2, <2>3 DEF Shape
<1>4. Flushed(st, h) => Flushed(tt, h)
  <2> SUFFICES ASSUME Flushed(st, h), NEW k \in 1 .. Len(tt), tt[k].fn = "disable" \/ k = Len(tt), h # <<>>
               PROVE  k > 1 /\ tt[k - 1].fn = "flush"
    BY DEF Flushed
  <2>1. k > 1 /\ st[k - 1].fn = "flush"  BY <1>1, <1>2 DEF Flushed
  <2>2. k - 1 \in 1 .. Len(st)  BY <1>1, <2>1
  <2> QED  BY <1>2, <2>1, <2>2
<1>5. TopIsNew(tt) = TopIsNew(st)
  BY <1>1, <1>2 DEF TopIsNew
<1>6. LastIsNew(tt) = LastIsNew(st)
  BY <1>1, <1>2 DEF LastIsNew, Fresh, Walk
<1>7. Order(st, b, h, c) => Order(tt, b, h, c)
  <2>1. TopIsNew(st) => tt[1].stanza = st[1].stanza  BY <1>1, <1>2 DEF TopIsNew, Fresh, Walk
  <2>2. LastIsNew(st) => tt[Len(tt)].stanza = st[Len(st)].stanza  BY <1>1, <1>2 DEF LastIsNew, Fresh, Walk
  <2> QED  BY <1>5, <1>6, <2>1, <2>2 DEF Order
<1>8. Stamped(st, c) => Stamped(tt, c)
  BY <1>1, <1>2 DEF Stamped
<1>9. Count(tt, Underway) = Count(st, Underway)
  <2>1. \A k \in 1 .. Len(st) : st[k] \in Frames /\ tt[k] \in Frames  BY <1>1
  <2>2. In(tt, Underway) = In(st, Underway)  BY <1>1, <1>2, <2>1 DEF In, Underway
  <2> QED  BY <2>2 DEF Count
<1>10. Unanswered(st, o, b) => Unanswered(tt, o, b)
  <2>1. \A k \in 1 .. Len(st) : Walked(st[k]) => tt[k].stanza = st[k].stanza  BY <1>2 DEF Walked, Walk
  <2> QED  BY <1>1, <1>2, <2>1 DEF Unanswered
<1> QED  BY <1>3, <1>4, <1>5, <1>6, <1>7, <1>8, <1>9, <1>10

-----------------------------------------------------------------------------
(* What is new on the stack *)

LEMMA TwoCons ==
  ASSUME NEW S, NEW f \in S, NEW g \in S, NEW s \in Seq(S)
  PROVE  <<f, g>> \o s = <<f>> \o (<<g>> \o s)
<1>1. <<f>> \in Seq(S) /\ <<g>> \in Seq(S) /\ <<f, g>> = <<f>> \o <<g>>
  <2>1. <<f, g>> = Append(<<f>>, g) /\ <<f>> \in Seq(S)  OBVIOUS
  <2>2. <<f, g>> = <<f>> \o <<g>>  BY <2>1, AppendIsConcat
  <2> QED  BY <2>1, <2>2
<1> QED  BY <1>1, ConcatAssociative

LEMMA PushNew ==
  ASSUME NEW f \in Frames, NEW st \in Seq(Frames)
  PROVE  LET s == <<f>> \o st IN
         /\ TopIsNew(s) <=> st # <<>> /\ Fresh(f)
         /\ st = <<>> => (LastIsNew(s) <=> Fresh(f) /\ f.stanza.n # 0) /\ s[Len(s)] = f
         /\ st # <<>> => (LastIsNew(s) <=> LastIsNew(st)) /\ s[Len(s)] = st[Len(st)]
<1> DEFINE s == <<f>> \o st
<1>1. /\ Len(s) = Len(st) + 1 /\ s[1] = f
      /\ \A k \in 2 .. Len(st) + 1 : s[k] = st[k - 1]
  BY ConsFacts
<1>2. Len(st) \in Nat /\ (st = <<>> <=> Len(st) = 0)  OBVIOUS
<1>a. Len(s) = Len(st) + 1 /\ Len(st) = Len(s) - 1  BY <1>1, <1>2
<1> HIDE DEF s
<1>3. TopIsNew(s) <=> st # <<>> /\ Fresh(f)
  <2>1. Len(s) > 1 <=> st # <<>>  BY <1>a, <1>2
  <2> QED  BY <1>1, <2>1 DEF TopIsNew
<1>4. CASE st = <<>>
  <2>1. Len(s) = 1 /\ s[Len(s)] = f  BY <1>1, <1>2, <1>4
  <2> QED  BY <1>3, <1>4, <2>1 DEF LastIsNew, s
<1>5. CASE st # <<>>
  <2>1. Len(st) > 0 /\ Len(s) > 0 /\ Len(s) \in 2 .. Len(st) + 1 /\ Len(s) - 1 = Len(st)
    BY <1>a, <1>2, <1>5
  <2>2. s[Len(s)] = st[Len(st)]  BY <1>1, <2>1
  <2> QED  BY <1>3, <1>5, <2>1, <2>2 DEF LastIsNew, s
<1> QED  BY <1>4, <1>5

LEMMA PopNew ==
  ASSUME NEW st \in Seq(Frames), st # <<>>
  PROVE  LET s == Tail(st) IN
         /\ TopIsNew(s) <=> Len(st) > 2 /\ Fresh(st[2])
         /\ LastIsNew(s) <=> Len(st) > 1 /\ LastIsNew(st)
         /\ Len(st) > 1 => s[Len(s)] = st[Len(st)]
<1> DEFINE s == Tail(st)
<1>1. /\ Len(s) = Len(st) - 1 /\ Len(st) \in Nat \ {0}
      /\ \A k \in 1 .. Len(st) - 1 : s[k] = st[k + 1]
  BY TailFacts
<1>a. Len(s) = Len(st) - 1 /\ Len(st) = Len(s) + 1 /\ Len(st) \in Nat \ {0}  BY <1>1
<1> HIDE DEF s
<1>2. TopIsNew(s) <=> Len(st) > 2 /\ Fresh(st[2])
  <2>1. CASE Len(st) > 2
    <3>1. s[1] = st[2] /\ Len(s) > 1  BY <1>1, <2>1
    <3> QED  BY <2>1, <3>1 DEF TopIsNew
  <2>2. CASE ~(Len(st) > 2)
    <3>1. ~(Len(s) > 1)  BY <1>a, <2>2
    <3> QED  BY <2>2, <3>1 DEF TopIsNew
  <2> QED  BY <2>1, <2>2
<1>3. CASE Len(st) > 1
  <2>1. Len(s) \in 1 .. Len(st) - 1 /\ Len(s) + 1 = Len(st) /\ Len(s) > 0 /\ Len(st) > 0
    BY <1>a, <1>3
  <2>2. s[Len(s)] = st[Len(st)]  BY <1>1, <2>1
  <2> QED  BY <1>2, <1>3, <2>1, <2>2 DEF LastIsNew, s
<1>4. CASE ~(Len(st) > 1)
  <2>1. ~(Len(s) > 0)  BY <1>a, <1>4
  <2> QED  BY <1>2, <1>4, <2>1 DEF LastIsNew, s
<1> QED  BY <1>3, <1>4

\* What a walk leaves behind: nothing is new at the top, and below it nothing has changed.
Passed(st, tt) ==
  /\ ~TopIsNew(tt)
  /\ LastIsNew(tt) <=> Len(st) > 1 /\ LastIsNew(st)
  /\ LastIsNew(tt) => tt[Len(tt)].stanza = st[Len(st)].stanza

LEMMA WalkPasses ==
  ASSUME NEW st \in Seq(Frames), Shape(st), st # <<>>, Walk(st[1])
  PROVE  /\ Passed(st, Tail(st))
         /\ \A g \in Frames : Walk(g) /\ g.at # None =>
              Passed(st, <<g>> \o Tail(st)) /\ Passed(st, <<Frame("user"), g>> \o Tail(st))
<1> DEFINE s == Tail(st)
<1>1. s \in Seq(Frames) /\ (s = <<>> <=> Len(st) = 1) /\ Len(st) \in Nat \ {0}
  BY TailFacts, PopShape
<1>2. Len(st) > 1 => ~Fresh(st[2])
  BY PopShape DEF Above, Fresh, Walk
<1>3. ~TopIsNew(s)
  BY <1>2, <1>1, PopNew
<1>4. Passed(st, s)  BY <1>3, PopNew DEF Passed, LastIsNew
<1>5. ASSUME NEW g \in Frames, Walk(g), g.at # None
      PROVE  Passed(st, <<g>> \o s) /\ Passed(st, <<Frame("user"), g>> \o s)
  <2> DEFINE t == <<g>> \o s
             u == <<Frame("user")>> \o t
  <2>1. t \in Seq(Frames) /\ t # <<>>  BY <1>1, ConsFacts
  <2>2. ~Fresh(g) /\ ~Fresh(Frame("user")) /\ Frame("user") \in Frames  BY <1>5, NewFrames DEF Fresh, Frame
  <2>3. ~TopIsNew(t) /\ ~TopIsNew(u)  BY <1>1, <2>1, <2>2, PushNew
  <2>4. /\ LastIsNew(t) <=> s # <<>> /\ LastIsNew(s)
        /\ s # <<>> => t[Len(t)] = s[Len(s)]
    BY <1>1, <2>2, PushNew
  <2>5. (LastIsNew(u) <=> LastIsNew(t)) /\ u[Len(u)] = t[Len(t)]
    BY <2>1, <2>2, PushNew
  <2>6. <<Frame("user"), g>> \o s = u  BY <1>1, <2>2, TwoCons
  <2>7. /\ LastIsNew(s) <=> Len(st) > 1 /\ LastIsNew(st)
        /\ Len(st) > 1 => s[Len(s)] = st[Len(st)]
        /\ s # <<>> <=> Len(st) > 1
    BY <1>1, PopNew
  <2> HIDE DEF s, t, u
  <2>8. Passed(st, t)  BY <2>3, <2>4, <2>7 DEF Passed
  <2>9. Passed(st, u)  BY <2>3, <2>4, <2>5, <2>7 DEF Passed
  <2> QED  BY <2>6, <2>8, <2>9 DEF t
<1> QED  BY <1>4, <1>5

\* A stanza that is begun is the next one.
Beginning(f, b) == IF f.at # None \/ f.stanza.n = 0 THEN b ELSE Append(b, f.stanza.n)

LEMMA BeginKeepsOrder ==
  ASSUME NEW st \in Seq(Frames), st # <<>>, Walk(st[1]), Shape(st),
         NEW h \in Seq(Later), Flushed(st, h), NEW b \in Seq(Nat), NEW c \in Nat,
         Order(st, b, h, c), NEW tt, Passed(st, tt)
  PROVE  LET f == st[1]
             b2 == Beginning(f, b)
         IN /\ Order(tt, b2, h, c) /\ b2 \in Seq(Nat) /\ Len(b) <= Len(b2)
            /\ f.stanza.n = 0 => Len(st) = 1
            /\ f.at = None /\ f.stanza.n # 0 => b2 = Append(b, f.stanza.n) /\ f.stanza.n = Len(b) + 1
<1> DEFINE f == st[1]
           b2 == Beginning(f, b)
<1>1. Len(st) \in Nat \ {0} /\ f \in Frames  BY TailFacts
<1>2. f \in Walks /\ f.stanza \in Read  BY <1>1, FrameFacts DEF Walk
<1>3. f.stanza.n \in Nat /\ (f.stanza.n = 0 <=> f.stanza.type \in {"r", "a"})
  <2>1. MaxArriving \in Nat  BY ReceiveAssumption DEF ReceiveAssumption
  <2> QED  BY <1>2, <2>1, ReadFacts
<1>4. f.stanza.n = 0 => Len(st) = 1  BY <1>1, <1>3, PopShape
<1>5. Len(b) \in Nat /\ Len(h) \in Nat  OBVIOUS
<1>a. Len(st) > 1 \/ Len(st) = 1
  <2>1. Len(st) \in Nat \ {0}  BY <1>1
  <2>2. \A n \in Nat \ {0} : n > 1 \/ n = 1  OBVIOUS
  <2> QED  BY <2>1, <2>2
<1>6. CASE f.at # None \/ f.stanza.n = 0
  <2>1. b2 = b  BY <1>6 DEF Beginning
  <2>2. ~TopIsNew(st)
    <3>1. CASE f.at # None  BY <3>1 DEF TopIsNew, Fresh
    <3>2. CASE f.stanza.n = 0
      <4>1. Len(st) = 1  BY <1>4, <3>2
      <4> QED  BY <4>1 DEF TopIsNew
    <3> QED  BY <1>6, <3>1, <3>2
  <2>3. LastIsNew(tt) <=> LastIsNew(st)
    <3>1. CASE Len(st) > 1  BY <3>1 DEF Passed
    <3>2. CASE Len(st) = 1  BY <1>6, <3>2 DEF Passed, LastIsNew, Fresh
    <3> QED  BY <1>a, <3>1, <3>2
  <2>4. Order(tt, b, h, c)
    <3>1. One(TopIsNew(tt)) = One(TopIsNew(st)) /\ One(LastIsNew(tt)) = One(LastIsNew(st))
      BY <2>2, <2>3 DEF Passed, One
    <3>2. ~TopIsNew(tt) /\ (LastIsNew(tt) => tt[Len(tt)].stanza.n = st[Len(st)].stanza.n)
      BY DEF Passed
    <3> QED  BY <2>3, <3>1, <3>2 DEF Order
  <2> QED  BY <1>4, <1>5, <1>6, <2>1, <2>4
<1>7. CASE f.at = None /\ f.stanza.n # 0
  <2>1. b2 = Append(b, f.stanza.n)  BY <1>7 DEF Beginning
  <2>2. Fresh(f)  BY <1>7 DEF Fresh, Walk
  <2>3. b2 \in Seq(Nat) /\ Len(b2) = Len(b) + 1 /\ b2[Len(b) + 1] = f.stanza.n
        /\ \A k \in 1 .. Len(b) : b2[k] = b[k]
    BY <1>3, <2>1, AppendFacts
  <2> HIDE DEF b2
  <2>4. f.stanza.n = Len(b) + 1 /\ Len(b2) + One(FALSE) + Len(h) + One(LastIsNew(tt)) = c
        /\ \A k \in 1 .. Len(h) : h[k].n = Len(b2) + One(FALSE) + k
    <3>1. CASE Len(st) > 1
      <4>1. TopIsNew(st)  BY <2>2, <3>1 DEF TopIsNew
      <4>2. f.stanza.n = Len(b) + 1 /\ Len(b) + 1 + Len(h) + One(LastIsNew(st)) = c
        BY <4>1 DEF Order, One
      <4>3. \A k \in 1 .. Len(h) : h[k].n = Len(b) + 1 + k  BY <4>1 DEF Order, One
      <4>4. One(LastIsNew(st)) = One(LastIsNew(tt))  BY <3>1 DEF Passed, One
      <4>5. One(FALSE) = 0 /\ One(LastIsNew(tt)) \in Nat  BY DEF One
      <4>6. Len(b2) + 0 + Len(h) + One(LastIsNew(tt)) = c  BY <1>5, <2>3, <4>2, <4>4, <4>5
      <4>7. \A k \in 1 .. Len(h) : Len(b) + 1 + k = Len(b2) + 0 + k  BY <1>5, <2>3
      <4> QED  BY <4>2, <4>3, <4>5, <4>6, <4>7
    <3>2. CASE Len(st) = 1
      <4>1. ~TopIsNew(st) /\ LastIsNew(st)  BY <1>7, <2>2, <3>2 DEF TopIsNew, LastIsNew
      <4>2. h = <<>> /\ Len(h) = 0
        <5>1. 1 \in 1 .. Len(st) /\ 1 = Len(st) /\ ~(1 > 1)  BY <3>2
        <5> QED  BY <5>1 DEF Flushed
      <4>3. f.stanza.n = c  BY <3>2, <4>1 DEF Order
      <4>4. Len(b) + 0 + Len(h) + 1 = c  BY <4>1 DEF Order, One
      <4>5. ~LastIsNew(tt) /\ One(FALSE) = 0 /\ One(LastIsNew(tt)) = 0  BY <3>2 DEF Passed, One
      <4>6. f.stanza.n = Len(b) + 1 /\ Len(b2) = Len(b) + 1  BY <1>5, <2>3, <4>2, <4>3, <4>4
      <4>7. Len(b2) + One(FALSE) + Len(h) + One(LastIsNew(tt)) = c
        <5>1. \A n \in Nat, l \in Nat : n + 0 + l + 1 = c => (n + 1) + 0 + l + 0 = c  OBVIOUS
        <5>2. (Len(b) + 1) + 0 + Len(h) + 0 = c  BY <1>5, <4>4, <5>1
        <5> QED  BY <4>5, <4>6, <5>2
      <4>8. \A k \in 1 .. Len(h) : h[k].n = Len(b2) + One(FALSE) + k  BY <4>2
      <4> QED  BY <4>6, <4>7, <4>8
    <3> QED  BY <1>a, <3>1, <3>2
  <2>5. \A k \in 1 .. Len(b2) : b2[k] = k
    <3> TAKE k \in 1 .. Len(b2)
    <3>1. k \in 1 .. Len(b) \/ k = Len(b) + 1  BY <1>5, <2>3
    <3> QED  BY <2>3, <2>4, <3>1 DEF Order
  <2>6. LastIsNew(tt) => tt[Len(tt)].stanza.n = c
    BY DEF Passed, Order
  <2>7. Order(tt, b2, h, c)
    <3>1. ~TopIsNew(tt) /\ One(TopIsNew(tt)) = One(FALSE)  BY DEF Passed, One
    <3> QED  BY <2>4, <2>5, <2>6, <3>1 DEF Order
  <2>8. Len(b) <= Len(b2)  BY <1>5, <2>3
  <2> QED  BY <1>7, <1>4, <2>1, <2>3, <2>4, <2>7, <2>8 DEF b2
<1> QED  BY <1>6, <1>7

-----------------------------------------------------------------------------
(* Counting the elements of a sequence that are in a set *)

LEMMA CountType ==
  ASSUME NEW S, NEW s \in Seq(S), NEW T
  PROVE  IsFiniteSet(In(s, T)) /\ Count(s, T) \in Nat /\ (Len(s) = 0 => Count(s, T) = 0)
<1>1. IsFiniteSet(1 .. Len(s)) /\ Len(s) \in Nat
  BY FS_Interval
<1>2. IsFiniteSet(In(s, T))
  BY <1>1, FS_Subset DEF In
<1>3. Len(s) = 0 => In(s, T) = {}  BY DEF In
<1> QED  BY <1>2, <1>3, FS_CardinalityType, FS_EmptySet DEF Count

LEMMA CountCons ==
  ASSUME NEW S, NEW f \in S, NEW s \in Seq(S), NEW T
  PROVE  Count(<<f>> \o s, T) = Count(s, T) + One(f \in T)
<1> DEFINE t == <<f>> \o s
           A == In(s, T)
           B == {k \in 2 .. Len(t) : t[k] \in T}
           shift == [k \in A |-> k + 1]
<1>1. /\ t \in Seq(S) /\ Len(t) = Len(s) + 1 /\ t[1] = f
      /\ \A k \in 1 .. Len(s) : t[k + 1] = s[k]
      /\ \A k \in 2 .. Len(s) + 1 : t[k] = s[k - 1]
  BY ConsFacts
<1>2. IsFiniteSet(A) /\ Count(s, T) \in Nat  BY CountType
<1>0. Len(s) \in Nat  OBVIOUS
<1> HIDE DEF t
<1>3. ASSUME NEW k \in A PROVE k \in 1 .. Len(s) /\ k + 1 \in B /\ k \in Nat
  <2>1. k \in 1 .. Len(s) /\ s[k] \in T  BY DEF In
  <2>2. k + 1 \in 2 .. Len(t)  BY <1>0, <1>1, <2>1
  <2> QED  BY <1>0, <1>1, <2>1, <2>2
<1>4. ASSUME NEW k \in B PROVE k - 1 \in A /\ k \in 2 .. Len(s) + 1
  <2>1. k \in 2 .. Len(s) + 1 /\ k - 1 \in 1 .. Len(s)  BY <1>0, <1>1
  <2>2. s[k - 1] \in T  BY <1>1, <2>1
  <2> QED  BY <2>1, <2>2 DEF In
<1>5. shift \in [A -> B]  BY <1>3
<1>6. \A i, j \in A : shift[i] = shift[j] => i = j
  <2> TAKE i, j \in A
  <2>1. i \in Nat /\ j \in Nat /\ shift[i] = i + 1 /\ shift[j] = j + 1  BY <1>3
  <2> QED  BY <2>1
<1>7. \A k \in B : \E j \in A : shift[j] = k
  <2> TAKE k \in B
  <2>1. k - 1 \in A /\ shift[k - 1] = k - 1 + 1 /\ k \in 2 .. Len(s) + 1  BY <1>4
  <2>2. k - 1 + 1 = k  BY <1>0, <2>1
  <2> QED  BY <2>1, <2>2
<1>8. shift \in Bijection(A, B)
  BY <1>5, <1>6, <1>7 DEF Bijection, Injection, Surjection, IsInjective
<1>9. IsFiniteSet(B) /\ Cardinality(B) = Count(s, T)
  BY <1>2, <1>8, FS_Bijection DEF ExistsBijection, Count
<1>10. In(t, T) = IF f \in T THEN B \cup {1} ELSE B
  <2>1. 1 .. Len(t) = (2 .. Len(t)) \cup {1}  BY <1>0, <1>1
  <2> QED  BY <1>1, <2>1 DEF In
<1>11. 1 \notin B  BY <1>4
<1>12. f \in T => Cardinality(In(t, T)) = Cardinality(B) + 1
  <2> SUFFICES ASSUME f \in T PROVE Cardinality(In(t, T)) = Cardinality(B) + 1  OBVIOUS
  <2> HIDE DEF B
  <2>1. Cardinality(B \cup {1}) = Cardinality(B) + 1
    BY <1>9, <1>11, FS_AddElement
  <2> QED  BY <1>10, <2>1
<1>13. Count(t, T) = Count(s, T) + One(f \in T)
  BY <1>2, <1>9, <1>10, <1>12 DEF Count, One
<1> QED  BY <1>13 DEF t

LEMMA HeadAndTail ==
  ASSUME NEW S, NEW s \in Seq(S), s # <<>>
  PROVE  s = <<s[1]>> \o Tail(s) /\ s = <<Head(s)>> \o Tail(s) /\ Tail(s) \in Seq(S) /\ s[1] \in S
<1>1. Tail(s) \in Seq(S) /\ Head(s) = s[1] /\ s[1] \in S /\ Len(s) \in Nat \ {0}
      /\ Len(Tail(s)) = Len(s) - 1 /\ \A k \in 1 .. Len(s) - 1 : Tail(s)[k] = s[k + 1]
  BY TailFacts
<1> DEFINE t == <<s[1]>> \o Tail(s)
<1>2. t \in Seq(S) /\ Len(t) = Len(Tail(s)) + 1 /\ t[1] = s[1]
      /\ \A k \in 2 .. Len(Tail(s)) + 1 : t[k] = Tail(s)[k - 1]
  BY <1>1, ConsFacts
<1> HIDE DEF t
<1>3. Len(t) = Len(s)  BY <1>1, <1>2
<1>4. ASSUME NEW k \in 1 .. Len(s) PROVE t[k] = s[k]
  <2>1. CASE k = 1  BY <1>2, <2>1
  <2>2. CASE k > 1
    <3>1. k \in 2 .. Len(Tail(s)) + 1 /\ k - 1 \in 1 .. Len(s) - 1 /\ k - 1 + 1 = k  BY <1>1, <2>2
    <3> QED  BY <1>1, <1>2, <3>1
  <2> QED  BY <1>1, <2>1, <2>2
<1>5. t = s  BY <1>2, <1>3, <1>4, SeqEqual
<1> QED  BY <1>1, <1>5 DEF t

LEMMA CountTail ==
  ASSUME NEW S, NEW s \in Seq(S), s # <<>>, NEW T
  PROVE  Count(s, T) = Count(Tail(s), T) + One(s[1] \in T)
BY HeadAndTail, CountCons, Zenon

LEMMA CountAppend ==
  ASSUME NEW S, NEW x \in S, NEW s \in Seq(S), NEW T
  PROVE  Count(Append(s, x), T) = Count(s, T) + One(x \in T)
<1> DEFINE t == Append(s, x)
<1>1. /\ Len(t) = Len(s) + 1 /\ t[Len(s) + 1] = x
      /\ \A k \in 1 .. Len(s) : t[k] = s[k]
  BY AppendFacts
<1>0. Len(s) \in Nat  OBVIOUS
<1> HIDE DEF t
<1>2. 1 .. Len(t) = (1 .. Len(s)) \cup {Len(s) + 1} /\ Len(s) + 1 \notin 1 .. Len(s)
  BY <1>0, <1>1
<1>3. In(t, T) = IF x \in T THEN In(s, T) \cup {Len(s) + 1} ELSE In(s, T)
  BY <1>1, <1>2 DEF In
<1>4. Len(s) + 1 \notin In(s, T)  BY <1>2 DEF In
<1>5. IsFiniteSet(In(s, T)) /\ Count(s, T) \in Nat  BY CountType
<1>6. x \in T => Cardinality(In(t, T)) = Cardinality(In(s, T)) + 1
  <2> SUFFICES ASSUME x \in T PROVE Cardinality(In(t, T)) = Cardinality(In(s, T)) + 1  OBVIOUS
  <2>1. Cardinality(In(s, T) \cup {Len(s) + 1}) = Cardinality(In(s, T)) + 1
    BY <1>4, <1>5, FS_AddElement
  <2> QED  BY <1>3, <2>1
<1>7. Count(t, T) = Count(s, T) + One(x \in T)
  BY <1>3, <1>5, <1>6 DEF Count, One
<1> QED  BY <1>7 DEF t

LEMMA CountPrefix ==
  ASSUME NEW S, NEW s \in Seq(S), NEW k \in 0 .. Len(s), NEW T
  PROVE  /\ SubSeq(s, 1, k) \in Seq(S) /\ Len(SubSeq(s, 1, k)) = k
         /\ \A i \in 1 .. k : SubSeq(s, 1, k)[i] = s[i]
         /\ Count(SubSeq(s, 1, k), T) <= Count(s, T)
<1> DEFINE t == SubSeq(s, 1, k)
<1>0. Len(s) \in Nat /\ k \in Nat /\ \A i \in 1 .. k : i \in 1 .. Len(s) /\ s[i] \in S  OBVIOUS
<1>1. t \in Seq(S) /\ Len(t) = (IF 1 <= k THEN k - 1 + 1 ELSE 0) /\ \A i \in 1 .. k - 1 + 1 : t[i] = s[1 + i - 1]
  BY <1>0, SubSeqProperties
<1> HIDE DEF t
<1>2. Len(t) = k  BY <1>0, <1>1
<1>3. \A i \in 1 .. k : t[i] = s[i]
  <2> TAKE i \in 1 .. k
  <2>1. i \in 1 .. k - 1 + 1 /\ 1 + i - 1 = i  BY <1>0
  <2> QED  BY <1>1, <2>1
<1>4. In(t, T) \subseteq In(s, T)  BY <1>0, <1>2, <1>3 DEF In
<1>5. IsFiniteSet(In(s, T))  BY CountType
<1>6. Count(t, T) <= Count(s, T)  BY <1>4, <1>5, FS_Subset DEF Count
<1> QED  BY <1>1, <1>2, <1>3, <1>6 DEF t

-----------------------------------------------------------------------------
(* The replies and the answers on their way out *)

\* Nothing on the stack and nothing that is sent answers the stanza with this number.
Apart(n, st, o) ==
  /\ \A k \in 1 .. Len(st) : Walked(st[k]) => st[k].stanza.n # n
  /\ \A k \in 1 .. Len(o) : IsReply(o[k]) => o[k].what[2] # n

LEMMA PopUnanswered ==
  ASSUME NEW st \in Seq(Frames), st # <<>>, NEW o, NEW b, Unanswered(st, o, b)
  PROVE  /\ Unanswered(Tail(st), o, b)
         /\ Walked(st[1]) => st[1].stanza.n <= Len(b) /\ Apart(st[1].stanza.n, Tail(st), o)
<1> DEFINE s == Tail(st)
<1>1. /\ Len(s) = Len(st) - 1 /\ Len(st) \in Nat \ {0}
      /\ \A k \in 1 .. Len(st) - 1 : s[k] = st[k + 1]
  BY TailFacts
<1> HIDE DEF s
<1>2. ASSUME NEW k \in 1 .. Len(s) PROVE s[k] = st[k + 1] /\ k + 1 \in 1 .. Len(st) /\ k + 1 # 1 /\ k \in Nat
  BY <1>1
<1>3. 1 \in 1 .. Len(st)  BY <1>1
<1>4. ASSUME NEW j \in 1 .. Len(s), NEW k \in 1 .. Len(s), Walked(s[j]), Walked(s[k]),
             s[j].stanza.n = s[k].stanza.n
      PROVE  j = k
  <2>1. j + 1 = k + 1  BY <1>2, <1>4 DEF Unanswered
  <2> QED  BY <1>2, <2>1
<1>5. Unanswered(s, o, b)  BY <1>2, <1>4 DEF Unanswered
<1>6. Walked(st[1]) => st[1].stanza.n <= Len(b) /\ Apart(st[1].stanza.n, s, o)
  BY <1>2, <1>3 DEF Unanswered, Apart
<1> QED  BY <1>5, <1>6 DEF s

LEMMA PushUnanswered ==
  ASSUME NEW f \in Frames, NEW st \in Seq(Frames), NEW o, NEW b, Unanswered(st, o, b),
         Walked(f) => f.stanza.n <= Len(b) /\ Apart(f.stanza.n, st, o)
  PROVE  Unanswered(<<f>> \o st, o, b)
<1> DEFINE s == <<f>> \o st
<1>1. /\ Len(s) = Len(st) + 1 /\ s[1] = f
      /\ \A k \in 2 .. Len(st) + 1 : s[k] = st[k - 1]
      /\ Len(st) \in Nat
  BY ConsFacts
<1> HIDE DEF s
<1>2. ASSUME NEW k \in 1 .. Len(s) PROVE k = 1 \/ (s[k] = st[k - 1] /\ k - 1 \in 1 .. Len(st) /\ k \in Nat)
  BY <1>1
<1>3. \A k \in 1 .. Len(s) : Walked(s[k]) => s[k].stanza.n <= Len(b)
  BY <1>1, <1>2 DEF Unanswered
<1>4. ASSUME NEW j \in 1 .. Len(s), NEW k \in 1 .. Len(s), Walked(s[j]), Walked(s[k]),
             s[j].stanza.n = s[k].stanza.n
      PROVE  j = k
  <2>1. CASE j = 1 /\ k = 1  BY <2>1
  <2>2. CASE j = 1 /\ k # 1  BY <1>1, <1>2, <1>4, <2>2 DEF Apart
  <2>3. CASE j # 1 /\ k = 1  BY <1>1, <1>2, <1>4, <2>3 DEF Apart
  <2>4. CASE j # 1 /\ k # 1
    <3>1. s[j] = st[j - 1] /\ s[k] = st[k - 1] /\ j - 1 \in 1 .. Len(st) /\ k - 1 \in 1 .. Len(st)
          /\ j \in Nat /\ k \in Nat
      BY <1>2, <2>4
    <3>2. j - 1 = k - 1  BY <1>4, <3>1 DEF Unanswered
    <3> QED  BY <3>1, <3>2
  <2> QED  BY <2>1, <2>2, <2>3, <2>4
<1>5. ASSUME NEW i \in 1 .. Len(o), IsReply(o[i])
      PROVE  o[i].what[2] <= Len(b) /\ \A k \in 1 .. Len(s) : Walked(s[k]) => s[k].stanza.n # o[i].what[2]
  BY <1>1, <1>2, <1>5 DEF Unanswered, Apart
<1>6. Unanswered(s, o, b)  BY <1>3, <1>4, <1>5 DEF Unanswered
<1> QED  BY <1>6 DEF s

LEMMA MoreUnanswered ==
  ASSUME NEW st \in Seq(Frames), NEW o \in Seq(OutItems), NEW b \in Seq(Nat), NEW b2 \in Seq(Nat),
         Unanswered(st, o, b), Len(b) <= Len(b2)
  PROVE  Unanswered(st, o, b2) /\ Apart(Len(b) + 1, st, o)
<1>0. MaxArriving \in Nat  BY ReceiveAssumption DEF ReceiveAssumption
<1>1. ASSUME NEW k \in 1 .. Len(st), Walked(st[k])
      PROVE  st[k].stanza.n \in Nat /\ st[k].stanza.n <= Len(b)
  <2>1. st[k] \in Frames  OBVIOUS
  <2>2. st[k].stanza \in Read  BY <1>1, <2>1, FrameFacts DEF Walked
  <2>3. st[k].stanza.n \in Nat  BY <1>0, <2>2, ReadFacts
  <2> QED  BY <1>1, <2>3 DEF Unanswered
<1>2. ASSUME NEW k \in 1 .. Len(o), IsReply(o[k])
      PROVE  o[k].what[2] \in Nat /\ o[k].what[2] <= Len(b)
  <2>1. o[k].what \in Replies  BY <1>2 DEF IsReply
  <2>2. o[k].what[2] \in Nat  BY <1>0, <2>1 DEF Replies
  <2> QED  BY <1>2, <2>2 DEF Unanswered
<1>3. Len(b) \in Nat /\ Len(b2) \in Nat  OBVIOUS
<1>4. Unanswered(st, o, b2)
  <2>1. \A k \in 1 .. Len(st) : Walked(st[k]) => st[k].stanza.n <= Len(b2)  BY <1>1, <1>3
  <2>2. \A k \in 1 .. Len(o) : IsReply(o[k]) => o[k].what[2] <= Len(b2)  BY <1>2, <1>3
  <2> QED  BY <2>1, <2>2 DEF Unanswered
<1>5. Apart(Len(b) + 1, st, o)
  <2>1. \A n \in Nat : n <= Len(b) => n # Len(b) + 1  BY <1>3
  <2> QED  BY <1>1, <1>2, <2>1 DEF Apart
<1> QED  BY <1>4, <1>5

LEMMA AppendUnanswered ==
  ASSUME NEW st, NEW o \in Seq(OutItems), NEW b, NEW x \in OutItems, Unanswered(st, o, b),
         IsReply(x) => /\ x.what[2] <= Len(b)
                       /\ \A k \in 1 .. Len(st) : Walked(st[k]) => st[k].stanza.n # x.what[2]
  PROVE  Unanswered(st, Append(o, x), b)
<1> DEFINE p == Append(o, x)
<1>1. Len(p) = Len(o) + 1 /\ p[Len(o) + 1] = x /\ Len(o) \in Nat
      /\ \A k \in 1 .. Len(o) : p[k] = o[k]
  BY AppendFacts
<1> HIDE DEF p
<1>2. \A k \in 1 .. Len(p) : k \in 1 .. Len(o) \/ k = Len(o) + 1  BY <1>1
<1>3. ASSUME NEW i \in 1 .. Len(p), IsReply(p[i])
      PROVE  p[i].what[2] <= Len(b) /\ \A k \in 1 .. Len(st) : Walked(st[k]) => st[k].stanza.n # p[i].what[2]
  BY <1>1, <1>2, <1>3 DEF Unanswered
<1>4. Unanswered(st, p, b)  BY <1>3 DEF Unanswered
<1> QED  BY <1>4 DEF p

LEMMA TailUnanswered ==
  ASSUME NEW st, NEW o \in Seq(OutItems), o # <<>>, NEW b, Unanswered(st, o, b)
  PROVE  Unanswered(st, Tail(o), b)
<1> DEFINE p == Tail(o)
<1>1. /\ Len(p) = Len(o) - 1 /\ Len(o) \in Nat \ {0}
      /\ \A k \in 1 .. Len(o) - 1 : p[k] = o[k + 1]
  BY TailFacts
<1> HIDE DEF p
<1>2. \A k \in 1 .. Len(p) : p[k] = o[k + 1] /\ k + 1 \in 1 .. Len(o)  BY <1>1
<1>3. Unanswered(st, p, b)  BY <1>2 DEF Unanswered
<1> QED  BY <1>3 DEF p

LEMMA PlainItems ==
  /\ Request \in OutItems /\ ~IsReply(Request) /\ Request.kind = "r"
  /\ \A n \in Nat, k \in {"a", "last"} : [kind |-> k, h |-> n] \in OutItems /\ ~IsReply([kind |-> k, h |-> n])
  /\ \A w \in Whats : Carrying(w) \in OutItems /\ Carrying(w).kind = "stanza" /\ Carrying(w).what = w
  /\ \A i : ~IsReply(Carrying(<<i>>))
  /\ \A s \in Arrivals : s.n # 0 => ReplyTo(s) \in Replies /\ ReplyTo(s)[2] = s.n /\ Replies \subseteq Whats
<1>1. Request \in OutItems /\ ~IsReply(Request) /\ Request.kind = "r"
  BY DEF Request, OutItems, IsReply
<1>2. \A n \in Nat, k \in {"a", "last"} : [kind |-> k, h |-> n] \in OutItems /\ ~IsReply([kind |-> k, h |-> n])
  BY DEF OutItems, IsReply
<1>3. \A w \in Whats : Carrying(w) \in OutItems /\ Carrying(w).kind = "stanza" /\ Carrying(w).what = w
  BY DEF OutItems, Carrying
<1>4. ASSUME NEW i PROVE ~IsReply(Carrying(<<i>>))
  <2>1. <<i>> \notin Replies  BY DEF Replies
  <2> QED  BY <2>1 DEF IsReply, Carrying
<1>5. ASSUME NEW s \in Arrivals, s.n # 0
      PROVE  ReplyTo(s) \in Replies /\ ReplyTo(s)[2] = s.n /\ Replies \subseteq Whats
  <2>1. s.n \in 1 .. MaxArriving
    <3>1. s.n \in 0 .. MaxArriving /\ MaxArriving \in Nat  BY ReceiveAssumption DEF Arrivals, ReceiveAssumption
    <3> QED  BY <1>5, <3>1
  <2> QED  BY <2>1 DEF ReplyTo, Replies, Whats
<1> QED  BY <1>1, <1>2, <1>3, <1>4, <1>5

\* What an answer counts has been begun.
Acked(o, b) == \A k \in 1 .. Len(o) : o[k].kind = "a" => o[k].h <= Len(b)

LEMMA AckedFacts ==
  ASSUME NEW o \in Seq(OutItems), NEW b \in Seq(Nat), Acked(o, b)
  PROVE  /\ \A b2 \in Seq(Nat) : Len(b) <= Len(b2) => Acked(o, b2)
         /\ \A x \in OutItems : (x.kind = "a" => x.h <= Len(b)) => Acked(Append(o, x), b)
         /\ o # <<>> => Acked(Tail(o), b)
<1>1. ASSUME NEW b2 \in Seq(Nat), Len(b) <= Len(b2) PROVE Acked(o, b2)
  <2>1. ASSUME NEW k \in 1 .. Len(o), o[k].kind = "a" PROVE o[k].h <= Len(b2)
    <3>1. o[k] \in OutItems  OBVIOUS
    <3>2. o[k].h \in Nat  BY <2>1, <3>1 DEF OutItems, Request, Carrying
    <3>3. Len(b) \in Nat /\ Len(b2) \in Nat /\ o[k].h <= Len(b)  BY <2>1 DEF Acked
    <3> QED  BY <1>1, <3>2, <3>3
  <2> QED  BY <2>1 DEF Acked
<1>2. ASSUME NEW x \in OutItems, x.kind = "a" => x.h <= Len(b) PROVE Acked(Append(o, x), b)
  <2> DEFINE p == Append(o, x)
  <2>1. Len(p) = Len(o) + 1 /\ p[Len(o) + 1] = x /\ Len(o) \in Nat
        /\ \A k \in 1 .. Len(o) : p[k] = o[k]
    BY AppendFacts
  <2> HIDE DEF p
  <2>2. \A k \in 1 .. Len(p) : k \in 1 .. Len(o) \/ k = Len(o) + 1  BY <2>1
  <2>3. Acked(p, b)  BY <1>2, <2>1, <2>2 DEF Acked
  <2> QED  BY <2>3 DEF p
<1>3. ASSUME o # <<>> PROVE Acked(Tail(o), b)
  <2> DEFINE p == Tail(o)
  <2>1. /\ Len(p) = Len(o) - 1 /\ Len(o) \in Nat \ {0}
        /\ \A k \in 1 .. Len(o) - 1 : p[k] = o[k + 1]
    BY <1>3, TailFacts
  <2> HIDE DEF p
  <2>2. \A k \in 1 .. Len(p) : p[k] = o[k + 1] /\ k + 1 \in 1 .. Len(o)  BY <2>1
  <2>3. Acked(p, b)  BY <2>2 DEF Acked
  <2> QED  BY <2>3 DEF p
<1> QED  BY <1>1, <1>2, <1>3

LEMMA StampedFacts ==
  ASSUME NEW st \in Seq(Frames), NEW c, Stamped(st, c)
  PROVE  /\ \A f \in Frames : (Walk(f) /\ f.stanza.type = "r" => f.stanza.h = c) => Stamped(<<f>> \o st, c)
         /\ st # <<>> => Stamped(Tail(st), c)
<1>1. ASSUME NEW f \in Frames, Walk(f) /\ f.stanza.type = "r" => f.stanza.h = c PROVE Stamped(<<f>> \o st, c)
  <2> DEFINE s == <<f>> \o st
  <2>1. /\ Len(s) = Len(st) + 1 /\ s[1] = f
        /\ \A k \in 2 .. Len(st) + 1 : s[k] = st[k - 1]
        /\ Len(st) \in Nat
    BY ConsFacts
  <2> HIDE DEF s
  <2>2. \A k \in 1 .. Len(s) : k = 1 \/ (s[k] = st[k - 1] /\ k - 1 \in 1 .. Len(st))  BY <2>1
  <2>3. Stamped(s, c)  BY <1>1, <2>1, <2>2 DEF Stamped
  <2> QED  BY <2>3 DEF s
<1>2. ASSUME st # <<>> PROVE Stamped(Tail(st), c)
  <2> DEFINE s == Tail(st)
  <2>1. /\ Len(s) = Len(st) - 1 /\ Len(st) \in Nat \ {0}
        /\ \A k \in 1 .. Len(st) - 1 : s[k] = st[k + 1]
    BY <1>2, TailFacts
  <2> HIDE DEF s
  <2>2. \A k \in 1 .. Len(s) : s[k] = st[k + 1] /\ k + 1 \in 1 .. Len(st)  BY <2>1
  <2>3. Stamped(s, c)  BY <2>2 DEF Stamped
  <2> QED  BY <2>3 DEF s
<1> QED  BY <1>1, <1>2

-----------------------------------------------------------------------------
(* The stanzas on their way in *)

LEMMA ArrivingFacts ==
  ASSUME NEW x \in Incoming
  PROVE  /\ Counting(x) => x \in Arrivals /\ x \in Later /\ x.n \in 1 .. MaxArriving
         /\ x.type \notin {"a", "closed"} => x \in Arrivals
         /\ x \in Arrivals => x.type \notin {"a", "closed"} /\ (x.n = 0 <=> x.type = "r")
         /\ x.type = "a" => x \in AnswersIn
<1>0. MaxArriving \in Nat  BY ReceiveAssumption DEF ReceiveAssumption
<1>1. "a" \notin Types /\ "closed" \notin Types
  BY ReceiveAssumption DEF ReceiveAssumption, Types
<1>2. CASE x \in Arrivals
  <2>1. x.type \in Types /\ x.n \in 0 .. MaxArriving /\ (x.n = 0 <=> x.type = "r")  BY <1>2 DEF Arrivals
  <2>2. Counting(x) => x.n \in 1 .. MaxArriving /\ x \in Later
    <3> SUFFICES ASSUME Counting(x) PROVE x.n \in 1 .. MaxArriving /\ x \in Later  OBVIOUS
    <3>1. x.type # "r" /\ x.n # 0  BY <2>1 DEF Counting
    <3>2. x.n \in 1 .. MaxArriving  BY <1>0, <2>1, <3>1
    <3> QED  BY <1>2, <3>1, <3>2 DEF Later
  <2> QED  BY <1>1, <1>2, <2>1, <2>2
<1>3. CASE x \in AnswersIn
  <2>1. x.type = "a"  BY <1>3 DEF AnswersIn
  <2>2. x \notin Arrivals  BY <1>1, <2>1 DEF Arrivals
  <2> QED  BY <1>3, <2>1, <2>2 DEF Counting
<1>4. CASE x \in [type : {"closed"}]
  <2>1. x.type = "closed"  BY <1>4
  <2>2. x \notin Arrivals  BY <1>1, <2>1 DEF Arrivals
  <2> QED  BY <2>1, <2>2 DEF Counting
<1> QED  BY <1>2, <1>3, <1>4 DEF Incoming

LEMMA NumberedTail ==
  ASSUME NEW seq \in Seq(Incoming), seq # <<>>, NEW c \in Nat, NEW ss \in Nat, NEW gone,
         Numbered(seq, c, ss, gone)
  PROVE  /\ Numbered(Tail(seq), c + One(Counting(seq[1])), ss, gone)
         /\ Counting(seq[1]) => seq[1].n = c + 1
         /\ seq[1].type = "closed" => gone
<1> DEFINE p == Tail(seq)
           d == c + One(Counting(seq[1]))
<1>1. /\ Len(p) = Len(seq) - 1 /\ Len(seq) \in Nat \ {0}
      /\ \A k \in 1 .. Len(seq) - 1 : p[k] = seq[k + 1]
  BY TailFacts
<1>0. Len(p) = Len(seq) - 1 /\ Len(seq) = Len(p) + 1 /\ Len(p) \in Nat /\ Len(seq) \in Nat \ {0}  BY <1>1
<1> HIDE DEF p
<1>2. ASSUME NEW k \in 1 .. Len(p) PROVE p[k] = seq[k + 1] /\ k + 1 \in 1 .. Len(seq) /\ k \in Nat
  BY <1>1
<1>3. 1 \in 1 .. Len(seq)  BY <1>0
<1>4. Counting(seq[1]) => seq[1].n = c + 1 /\ seq[1].n <= ss
  <2>1. NoneIn(seq, 1, 1 - 1)  BY DEF NoneIn
  <2> QED  BY <1>3, <2>1 DEF Numbered
<1>5. d \in Nat /\ d <= ss
  <2>1. c <= ss  BY DEF Numbered
  <2> QED  BY <1>4, <2>1 DEF One
<1>6. ASSUME NEW i \in Nat, NEW j \in Nat, j <= Len(p), NoneIn(p, i, j), i >= 1
      PROVE  NoneIn(seq, i + 1, j + 1)
  <2> SUFFICES ASSUME NEW k \in i + 1 .. j + 1 PROVE ~Counting(seq[k])  BY DEF NoneIn
  <2>1. k - 1 \in i .. j /\ k - 1 \in 1 .. Len(p) /\ k - 1 + 1 = k  BY <1>0, <1>6
  <2>2. p[k - 1] = seq[k]  BY <1>2, <2>1
  <2> QED  BY <1>6, <2>1, <2>2 DEF NoneIn
<1>7. ASSUME NEW i \in Nat, NoneIn(seq, 2, i), ~Counting(seq[1]) PROVE NoneIn(seq, 1, i)
  <2> SUFFICES ASSUME NEW k \in 1 .. i PROVE ~Counting(seq[k])  BY DEF NoneIn
  <2>1. k = 1 \/ k \in 2 .. i  OBVIOUS
  <2> QED  BY <1>7, <2>1 DEF NoneIn
<1>8. ASSUME NEW k \in 1 .. Len(p)
      PROVE  /\ p[k].type = "closed" => gone
             /\ Counting(p[k]) =>
                  /\ p[k].n <= ss
                  /\ NoneIn(p, 1, k - 1) => p[k].n = d + 1
                  /\ \A j \in 1 .. k - 1 :
                       Counting(p[j]) /\ NoneIn(p, j + 1, k - 1) => p[k].n = p[j].n + 1
                  /\ ~gone /\ NoneIn(p, k + 1, Len(p)) => p[k].n = ss
  <2>0. p[k] = seq[k + 1] /\ k + 1 \in 1 .. Len(seq) /\ k \in Nat /\ k + 1 - 1 = k
        /\ k - 1 \in Nat /\ k - 1 <= Len(p) /\ k - 1 + 1 = k /\ k <= Len(p)
    BY <1>0, <1>2
  <2>1. p[k].type = "closed" => gone  BY <2>0 DEF Numbered
  <2> SUFFICES ASSUME Counting(p[k])
               PROVE  /\ p[k].n <= ss
                      /\ NoneIn(p, 1, k - 1) => p[k].n = d + 1
                      /\ \A j \in 1 .. k - 1 :
                           Counting(p[j]) /\ NoneIn(p, j + 1, k - 1) => p[k].n = p[j].n + 1
                      /\ ~gone /\ NoneIn(p, k + 1, Len(p)) => p[k].n = ss
    BY <2>1
  <2>2. p[k].n <= ss  BY <2>0 DEF Numbered
  <2>3. ASSUME NoneIn(p, 1, k - 1) PROVE p[k].n = d + 1
    <3>1. NoneIn(seq, 2, k)
      <4>1. NoneIn(seq, 1 + 1, k - 1 + 1)  BY <1>6, <2>0, <2>3
      <4> QED  BY <2>0, <4>1
    <3>2. CASE Counting(seq[1])
      <4>1. 1 \in 1 .. (k + 1) - 1 /\ NoneIn(seq, 1 + 1, (k + 1) - 1)  BY <2>0, <3>1
      <4>2. seq[k + 1].n = seq[1].n + 1  BY <2>0, <3>2, <4>1 DEF Numbered
      <4> QED  BY <1>4, <2>0, <3>2, <4>2 DEF One
    <3>3. CASE ~Counting(seq[1])
      <4>1. NoneIn(seq, 1, (k + 1) - 1)  BY <1>7, <2>0, <3>1, <3>3
      <4>2. seq[k + 1].n = c + 1  BY <2>0, <4>1 DEF Numbered
      <4> QED  BY <2>0, <3>3, <4>2 DEF One
    <3> QED  BY <3>2, <3>3
  <2>4. ASSUME NEW j \in 1 .. k - 1, Counting(p[j]), NoneIn(p, j + 1, k - 1) PROVE p[k].n = p[j].n + 1
    <3>1. j \in 1 .. Len(p) /\ j + 1 \in 1 .. (k + 1) - 1 /\ j + 1 \in Nat /\ j + 1 >= 1  BY <1>0, <2>0
    <3>2. NoneIn(seq, j + 1 + 1, k - 1 + 1)  BY <1>6, <2>0, <2>4, <3>1
    <3>3. NoneIn(seq, (j + 1) + 1, (k + 1) - 1)  BY <2>0, <3>2
    <3>4. p[j] = seq[j + 1]  BY <1>2, <3>1
    <3> QED  BY <2>0, <2>4, <3>1, <3>3, <3>4 DEF Numbered
  <2>5. ASSUME ~gone, NoneIn(p, k + 1, Len(p)) PROVE p[k].n = ss
    <3>1. NoneIn(seq, (k + 1) + 1, Len(p) + 1)
      <4>1. k + 1 \in Nat /\ k + 1 >= 1 /\ Len(p) <= Len(p)  BY <1>0, <2>0
      <4> QED  BY <1>0, <1>6, <2>5, <4>1
    <3> QED  BY <1>0, <2>0, <2>5, <3>1 DEF Numbered
  <2> QED  BY <2>2, <2>3, <2>4, <2>5
<1>9. ASSUME ~gone, NoneIn(p, 1, Len(p)) PROVE d = ss
  <2>1. NoneIn(seq, 1 + 1, Len(p) + 1)
    <3>1. 1 \in Nat /\ 1 >= 1 /\ Len(p) <= Len(p)  BY <1>0
    <3> QED  BY <1>0, <1>6, <1>9, <3>1
  <2>2. NoneIn(seq, 2, Len(seq))  BY <1>0, <2>1
  <2>3. CASE Counting(seq[1])
    <3>1. NoneIn(seq, 1 + 1, Len(seq))  BY <2>2
    <3>2. seq[1].n = ss  BY <1>3, <1>9, <2>3, <3>1 DEF Numbered
    <3> QED  BY <1>4, <2>3, <3>2 DEF One
  <2>4. CASE ~Counting(seq[1])
    <3>1. NoneIn(seq, 1, Len(seq))  BY <1>0, <1>7, <2>2, <2>4
    <3>2. c = ss  BY <1>9, <3>1 DEF Numbered
    <3> QED  BY <2>4, <3>2 DEF One
  <2> QED  BY <2>3, <2>4
<1>10. Numbered(p, d, ss, gone)  BY <1>5, <1>8, <1>9 DEF Numbered
<1>11. seq[1].type = "closed" => gone  BY <1>3 DEF Numbered
<1> QED  BY <1>4, <1>10, <1>11 DEF p

LEMMA NumberedAppend ==
  ASSUME NEW seq \in Seq(Incoming), NEW c \in Nat, NEW ss \in Nat, NEW gone \in BOOLEAN,
         Numbered(seq, c, ss, gone), NEW x \in Incoming, NEW ss2 \in Nat, NEW gone2 \in BOOLEAN,
         Counting(x) => ~gone /\ x.n = ss + 1 /\ ss2 = ss + 1,
         ~Counting(x) => ss2 = ss,
         x.type = "closed" => gone2, gone => gone2
  PROVE  Numbered(Append(seq, x), c, ss2, gone2)
<1> DEFINE p == Append(seq, x)
           L == Len(seq)
<1>1. Len(p) = L + 1 /\ p[L + 1] = x /\ L \in Nat
      /\ \A k \in 1 .. L : p[k] = seq[k]
  BY AppendFacts
<1> HIDE DEF p
<1>2. \A k \in 1 .. L + 1 : (k \in 1 .. L /\ p[k] = seq[k]) \/ (k = L + 1 /\ p[k] = x)  BY <1>1
<1>3. \A i \in Nat, j \in Nat : i >= 1 /\ j <= L /\ NoneIn(p, i, j) => NoneIn(seq, i, j)
  <2> SUFFICES ASSUME NEW i \in Nat, NEW j \in Nat, i >= 1, j <= L, NoneIn(p, i, j),
                      NEW k \in i .. j
               PROVE  ~Counting(seq[k])
    BY DEF NoneIn
  <2>1. k \in 1 .. L  BY <1>1
  <2> QED  BY <1>1, <2>1 DEF NoneIn
<1>4. \A i \in Nat : i >= 1 /\ i <= L + 1 /\ NoneIn(p, i, L + 1) => NoneIn(seq, i, L) /\ ~Counting(x)
  <2> SUFFICES ASSUME NEW i \in Nat, i >= 1, i <= L + 1, NoneIn(p, i, L + 1)
               PROVE  NoneIn(seq, i, L) /\ ~Counting(x)
    OBVIOUS
  <2>1. L + 1 \in i .. L + 1 /\ L <= L  BY <1>1
  <2>2. ~Counting(x)  BY <1>1, <2>1 DEF NoneIn
  <2>3. NoneIn(p, i, L)
    <3> SUFFICES ASSUME NEW k \in i .. L PROVE ~Counting(p[k])  BY DEF NoneIn
    <3>1. k \in i .. L + 1  BY <1>1
    <3> QED  BY <3>1 DEF NoneIn
  <2> QED  BY <1>1, <1>3, <2>1, <2>2, <2>3
<1>5. c <= ss /\ ss <= ss2  BY DEF Numbered
<1>6. c <= ss2  BY <1>5
<1>7. ASSUME NEW k \in 1 .. L
      PROVE  /\ seq[k].type = "closed" => gone2
             /\ Counting(seq[k]) =>
                  /\ seq[k].n <= ss2
                  /\ NoneIn(p, 1, k - 1) => seq[k].n = c + 1
                  /\ \A j \in 1 .. k - 1 :
                       Counting(p[j]) /\ NoneIn(p, j + 1, k - 1) => seq[k].n = p[j].n + 1
                  /\ ~gone2 /\ NoneIn(p, k + 1, L + 1) => seq[k].n = ss2
  <2>0. k \in Nat /\ k - 1 \in Nat /\ k - 1 <= L /\ k + 1 \in Nat /\ k + 1 <= L + 1 /\ k + 1 >= 1  BY <1>1
  <2>1. seq[k].type = "closed" => gone2  BY DEF Numbered
  <2> SUFFICES ASSUME Counting(seq[k])
               PROVE  /\ seq[k].n <= ss2
                      /\ NoneIn(p, 1, k - 1) => seq[k].n = c + 1
                      /\ \A j \in 1 .. k - 1 :
                           Counting(p[j]) /\ NoneIn(p, j + 1, k - 1) => seq[k].n = p[j].n + 1
                      /\ ~gone2 /\ NoneIn(p, k + 1, L + 1) => seq[k].n = ss2
    BY <2>1
  <2>2. seq[k].n <= ss2
    <3>1. seq[k] \in Incoming  BY <1>1
    <3>2. seq[k].n \in Nat  BY <3>1, ArrivingFacts
    <3>3. seq[k].n <= ss  BY DEF Numbered
    <3> QED  BY <1>5, <3>2, <3>3
  <2>3. NoneIn(p, 1, k - 1) => seq[k].n = c + 1  BY <1>3, <2>0 DEF Numbered
  <2>4. ASSUME NEW j \in 1 .. k - 1, Counting(p[j]), NoneIn(p, j + 1, k - 1) PROVE seq[k].n = p[j].n + 1
    <3>1. j \in 1 .. L /\ j + 1 \in Nat /\ j + 1 >= 1  BY <2>0
    <3>2. p[j] = seq[j] /\ NoneIn(seq, j + 1, k - 1)  BY <1>1, <1>3, <2>0, <2>4, <3>1
    <3> QED  BY <2>4, <3>2 DEF Numbered
  <2>5. ASSUME ~gone2, NoneIn(p, k + 1, L + 1) PROVE seq[k].n = ss2
    <3>1. NoneIn(seq, k + 1, L) /\ ~Counting(x)  BY <1>4, <2>0, <2>5
    <3> QED  BY <2>5, <3>1 DEF Numbered
  <2> QED  BY <2>2, <2>3, <2>4, <2>5
<1>8. ASSUME Counting(x)
      PROVE  /\ x.n <= ss2
             /\ NoneIn(p, 1, L) => x.n = c + 1
             /\ \A j \in 1 .. L : Counting(p[j]) /\ NoneIn(p, j + 1, L) => x.n = p[j].n + 1
             /\ x.n = ss2
  <2>1. ~gone /\ x.n = ss + 1 /\ ss2 = ss + 1  BY <1>8
  <2>2. x.n <= ss2 /\ x.n = ss2  BY <2>1
  <2>3. NoneIn(p, 1, L) => x.n = c + 1
    <3>1. NoneIn(p, 1, L) => NoneIn(seq, 1, L)  BY <1>1, <1>3
    <3> QED  BY <2>1, <3>1 DEF Numbered
  <2>4. ASSUME NEW j \in 1 .. L, Counting(p[j]), NoneIn(p, j + 1, L) PROVE x.n = p[j].n + 1
    <3>1. j + 1 \in Nat /\ j + 1 >= 1 /\ L <= L  BY <1>1
    <3>2. p[j] = seq[j] /\ NoneIn(seq, j + 1, L)  BY <1>1, <1>3, <2>4, <3>1
    <3> QED  BY <2>1, <2>4, <3>2 DEF Numbered
  <2> QED  BY <2>2, <2>3, <2>4
<1>9. ASSUME ~gone2, NoneIn(p, 1, L + 1) PROVE c = ss2
  <2>1. 1 \in Nat /\ 1 >= 1 /\ 1 <= L + 1  BY <1>1
  <2>2. NoneIn(seq, 1, L) /\ ~Counting(x)  BY <1>4, <1>9, <2>1
  <2> QED  BY <1>9, <2>2 DEF Numbered
<1>10. ASSUME NEW k \in 1 .. Len(p)
       PROVE  /\ p[k].type = "closed" => gone2
              /\ Counting(p[k]) =>
                   /\ p[k].n <= ss2
                   /\ NoneIn(p, 1, k - 1) => p[k].n = c + 1
                   /\ \A j \in 1 .. k - 1 :
                        Counting(p[j]) /\ NoneIn(p, j + 1, k - 1) => p[k].n = p[j].n + 1
                   /\ ~gone2 /\ NoneIn(p, k + 1, Len(p)) => p[k].n = ss2
  <2>1. CASE k \in 1 .. L
    <3>1. p[k] = seq[k] /\ Len(p) = L + 1  BY <1>1, <2>1
    <3> QED  BY <1>7, <2>1, <3>1
  <2>2. CASE k = L + 1
    <3>1. p[k] = x /\ k - 1 = L  BY <1>1, <2>2
    <3> QED  BY <1>8, <3>1
  <2> QED  BY <1>1, <1>2, <2>1, <2>2
<1>11. Numbered(p, c, ss2, gone2)
  <2>1. Len(p) = L + 1  BY <1>1
  <2> QED  BY <1>6, <1>9, <1>10, <2>1 DEF Numbered
<1> QED  BY <1>11 DEF p

LEMMA NumberedPrefix ==
  ASSUME NEW seq \in Seq(Incoming), NEW c \in Nat, NEW ss \in Nat, NEW gone,
         Numbered(seq, c, ss, gone), NEW m \in 0 .. Len(seq)
  PROVE  Numbered(SubSeq(seq, 1, m), c, ss, TRUE)
<1> DEFINE p == SubSeq(seq, 1, m)
<1>1. Len(p) = m /\ \A i \in 1 .. m : p[i] = seq[i]  BY CountPrefix
<1>0. m \in Nat /\ Len(seq) \in Nat /\ m <= Len(seq)  OBVIOUS
<1> HIDE DEF p
<1>2. ASSUME NEW k \in 1 .. Len(p), Counting(p[k])
      PROVE  /\ p[k].n <= ss
             /\ NoneIn(p, 1, k - 1) => p[k].n = c + 1
             /\ \A j \in 1 .. k - 1 :
                  Counting(p[j]) /\ NoneIn(p, j + 1, k - 1) => p[k].n = p[j].n + 1
  <2>0. k \in 1 .. Len(seq) /\ p[k] = seq[k]  BY <1>0, <1>1
  <2>1. \A i \in Nat : i >= 1 /\ NoneIn(p, i, k - 1) => NoneIn(seq, i, k - 1)
    <3> SUFFICES ASSUME NEW i \in Nat, i >= 1, NoneIn(p, i, k - 1), NEW n \in i .. k - 1
                 PROVE  ~Counting(seq[n])
      BY DEF NoneIn
    <3>1. n \in 1 .. m  BY <1>0, <1>1
    <3> QED  BY <1>1, <3>1 DEF NoneIn
  <2>2. p[k].n <= ss  BY <1>2, <2>0 DEF Numbered
  <2>3. NoneIn(p, 1, k - 1) => p[k].n = c + 1  BY <1>2, <2>0, <2>1 DEF Numbered
  <2>4. ASSUME NEW j \in 1 .. k - 1, Counting(p[j]), NoneIn(p, j + 1, k - 1) PROVE p[k].n = p[j].n + 1
    <3>1. j \in 1 .. m /\ j + 1 \in Nat /\ j + 1 >= 1  BY <1>0, <1>1
    <3>2. p[j] = seq[j] /\ NoneIn(seq, j + 1, k - 1)  BY <1>1, <2>1, <2>4, <3>1
    <3> QED  BY <1>2, <2>0, <2>4, <3>2 DEF Numbered
  <2> QED  BY <2>2, <2>3, <2>4
<1>3. c <= ss  BY DEF Numbered
<1>4. Numbered(p, c, ss, TRUE)  BY <1>2, <1>3 DEF Numbered
<1> QED  BY <1>4 DEF p

-----------------------------------------------------------------------------
(* The list of handlers *)

LEMMA Least ==
  ASSUME NEW T, T \subseteq Nat, T # {}
  PROVE  \E x \in T : \A y \in T : x <= y
<1>1. PICK x \in T : \A y \in T : ~(<<y, x>> \in OpToRel(<, Nat))
  BY NatLessThanWellFounded, WFMin
<1>2. \A y \in T : ~(y < x)  BY <1>1 DEF OpToRel
<1> QED  BY <1>2

LEMMA InsertedAt ==
  ASSUME NEW S, NEW s \in Seq(S), NEW i \in 1 .. Len(s) + 1, NEW e \in S
  PROVE  LET t == InsertAt(s, i, e) IN
         /\ t \in Seq(S) /\ Len(t) = Len(s) + 1 /\ t[i] = e
         /\ \A k \in 1 .. i - 1 : t[k] = s[k]
         /\ \A k \in i .. Len(s) : t[k + 1] = s[k]
<1> DEFINE a == SubSeq(s, 1, i - 1)
           b == SubSeq(s, i, Len(s))
           u == a \o <<e>>
           t == u \o b
<1>0. Len(s) \in Nat /\ i \in Nat /\ i >= 1 /\ i - 1 \in Nat /\ \A k \in 1 .. Len(s) : s[k] \in S  OBVIOUS
<1>1. \A k \in 1 .. i - 1 : s[k] \in S  BY <1>0
<1>2. \A k \in i .. Len(s) : s[k] \in S  BY <1>0
<1>3. a \in Seq(S) /\ Len(a) = (IF 1 <= i - 1 THEN i - 1 - 1 + 1 ELSE 0)
      /\ \A k \in 1 .. i - 1 - 1 + 1 : a[k] = s[1 + k - 1]
  BY <1>0, <1>1, SubSeqProperties
<1>4. b \in Seq(S) /\ Len(b) = (IF i <= Len(s) THEN Len(s) - i + 1 ELSE 0)
      /\ \A k \in 1 .. Len(s) - i + 1 : b[k] = s[i + k - 1]
  BY <1>0, <1>2, SubSeqProperties
<1>5. <<e>> \in Seq(S) /\ Len(<<e>>) = 1 /\ <<e>>[1] = e  OBVIOUS
<1> HIDE DEF a, b
<1>6. Len(a) = i - 1 /\ Len(b) = Len(s) - i + 1  BY <1>0, <1>3, <1>4
<1>7. u \in Seq(S) /\ Len(u) = i
      /\ \A k \in 1 .. i : u[k] = IF k <= i - 1 THEN a[k] ELSE <<e>>[k - (i - 1)]
  <2>1. u \in Seq(S) /\ Len(u) = Len(a) + Len(<<e>>)
        /\ \A k \in 1 .. Len(a) + Len(<<e>>) : u[k] = IF k <= Len(a) THEN a[k] ELSE <<e>>[k - Len(a)]
    BY <1>3, <1>5, ConcatProperties
  <2>2. Len(a) + Len(<<e>>) = i  BY <1>0, <1>5, <1>6
  <2> QED  BY <1>6, <2>1, <2>2
<1> HIDE DEF u
<1>8. t \in Seq(S) /\ Len(t) = Len(s) + 1
      /\ \A k \in 1 .. Len(s) + 1 : t[k] = IF k <= i THEN u[k] ELSE b[k - i]
  <2>1. t \in Seq(S) /\ Len(t) = Len(u) + Len(b)
        /\ \A k \in 1 .. Len(u) + Len(b) : t[k] = IF k <= Len(u) THEN u[k] ELSE b[k - Len(u)]
    BY <1>4, <1>7, ConcatProperties
  <2>2. Len(u) + Len(b) = Len(s) + 1  BY <1>0, <1>6, <1>7
  <2> QED  BY <1>7, <2>1, <2>2
<1>9. InsertAt(s, i, e) = t  BY DEF InsertAt, u, a, b
<1> HIDE DEF t
<1>10. t[i] = e
  <2>1. t[i] = u[i]  BY <1>0, <1>8
  <2>2. u[i] = <<e>>[i - (i - 1)]  BY <1>0, <1>7
  <2>3. i - (i - 1) = 1  BY <1>0
  <2> QED  BY <1>5, <2>1, <2>2, <2>3
<1>11. ASSUME NEW k \in 1 .. i - 1 PROVE t[k] = s[k]
  <2>1. k \in 1 .. Len(s) + 1 /\ k <= i /\ k \in 1 .. i /\ k <= i - 1 /\ k \in 1 .. i - 1 - 1 + 1 /\ 1 + k - 1 = k
    BY <1>0
  <2>2. t[k] = u[k] /\ u[k] = a[k]  BY <1>7, <1>8, <2>1
  <2>3. a[k] = s[1 + k - 1]  BY <1>3, <2>1
  <2> QED  BY <2>1, <2>2, <2>3
<1>12. ASSUME NEW k \in i .. Len(s) PROVE t[k + 1] = s[k]
  <2>1. k + 1 \in 1 .. Len(s) + 1 /\ ~(k + 1 <= i) /\ k + 1 - i \in 1 .. Len(s) - i + 1 /\ i + (k + 1 - i) - 1 = k
    BY <1>0
  <2>2. t[k + 1] = b[k + 1 - i]  BY <1>8, <2>1
  <2>3. b[k + 1 - i] = s[i + (k + 1 - i) - 1]  BY <1>4, <2>1
  <2> QED  BY <2>1, <2>2, <2>3
<1> QED  BY <1>8, <1>9, <1>10, <1>11, <1>12

LEMMA RemovedAt ==
  ASSUME NEW S, NEW s \in Seq(S), NEW i \in 1 .. Len(s)
  PROVE  LET t == RemoveAt(s, i) IN
         /\ t \in Seq(S) /\ Len(t) = Len(s) - 1
         /\ \A k \in 1 .. i - 1 : t[k] = s[k]
         /\ \A k \in i .. Len(s) - 1 : t[k] = s[k + 1]
<1> DEFINE a == SubSeq(s, 1, i - 1)
           b == SubSeq(s, i + 1, Len(s))
           t == a \o b
<1>0. Len(s) \in Nat /\ i \in Nat /\ i >= 1 /\ i <= Len(s) /\ i - 1 \in Nat /\ \A k \in 1 .. Len(s) : s[k] \in S
  OBVIOUS
<1>1. \A k \in 1 .. i - 1 : s[k] \in S  BY <1>0
<1>2. \A k \in i + 1 .. Len(s) : s[k] \in S  BY <1>0
<1>3. a \in Seq(S) /\ Len(a) = (IF 1 <= i - 1 THEN i - 1 - 1 + 1 ELSE 0)
      /\ \A k \in 1 .. i - 1 - 1 + 1 : a[k] = s[1 + k - 1]
  BY <1>0, <1>1, SubSeqProperties
<1>4. b \in Seq(S) /\ Len(b) = (IF i + 1 <= Len(s) THEN Len(s) - (i + 1) + 1 ELSE 0)
      /\ \A k \in 1 .. Len(s) - (i + 1) + 1 : b[k] = s[i + 1 + k - 1]
  BY <1>0, <1>2, SubSeqProperties
<1> HIDE DEF a, b
<1>6. Len(a) = i - 1 /\ Len(b) = Len(s) - i  BY <1>0, <1>3, <1>4
<1>7. t \in Seq(S) /\ Len(t) = Len(s) - 1
      /\ \A k \in 1 .. Len(s) - 1 : t[k] = IF k <= i - 1 THEN a[k] ELSE b[k - (i - 1)]
  <2>1. t \in Seq(S) /\ Len(t) = Len(a) + Len(b)
        /\ \A k \in 1 .. Len(a) + Len(b) : t[k] = IF k <= Len(a) THEN a[k] ELSE b[k - Len(a)]
    BY <1>3, <1>4, ConcatProperties
  <2>2. Len(a) + Len(b) = Len(s) - 1  BY <1>0, <1>6
  <2> QED  BY <1>6, <2>1, <2>2
<1>8. RemoveAt(s, i) = t  BY DEF RemoveAt, a, b
<1> HIDE DEF t
<1>9. ASSUME NEW k \in 1 .. i - 1 PROVE t[k] = s[k]
  <2>1. k \in 1 .. Len(s) - 1 /\ k <= i - 1 /\ k \in 1 .. i - 1 - 1 + 1 /\ 1 + k - 1 = k  BY <1>0
  <2>2. t[k] = a[k]  BY <1>7, <2>1
  <2>3. a[k] = s[1 + k - 1]  BY <1>3, <2>1
  <2> QED  BY <2>1, <2>2, <2>3
<1>10. ASSUME NEW k \in i .. Len(s) - 1 PROVE t[k] = s[k + 1]
  <2>1. k \in 1 .. Len(s) - 1 /\ ~(k <= i - 1) /\ k - (i - 1) \in 1 .. Len(s) - (i + 1) + 1
        /\ i + 1 + (k - (i - 1)) - 1 = k + 1
    BY <1>0
  <2>2. t[k] = b[k - (i - 1)]  BY <1>7, <2>1
  <2>3. b[k - (i - 1)] = s[i + 1 + (k - (i - 1)) - 1]  BY <1>4, <2>1
  <2> QED  BY <2>1, <2>2, <2>3
<1> QED  BY <1>7, <1>8, <1>9, <1>10

LEMMA PrioType == \A h \in Heirs : RuleOf(h).prio \in 0 .. 9
<1> TAKE h \in Heirs
<1>1. CASE h \in Library
  BY <1>1 DEF RuleOf, Library, LibraryRule, ReplyRule, SmRule, PingRule, ForAnyone, StanzaHandler
<1>2. CASE h \notin Library
  <2>1. h \in Handlers  BY <1>2 DEF Heirs
  <2>2. Rule[h].for \in {"jid", "anyone", "server"} /\ Rule[h].prio \in 0 .. 9
    BY <2>1, ReceiveAssumption DEF ReceiveAssumption
  <2> QED  BY <1>2, <2>2 DEF RuleOf, ClientRule, ForSender, ForAnyone, ForServer, StanzaHandler
<1> QED  BY <1>1, <1>2

LEMMA PlaceFacts ==
  ASSUME NEW h \in Heirs, NEW list \in Seq(Heirs)
  PROVE  LET i == Place(h, list) IN
         /\ i \in 1 .. Len(list) + 1
         /\ \A j \in 1 .. i - 1 : RuleOf(list[j]).prio > RuleOf(h).prio
         /\ i <= Len(list) => RuleOf(list[i]).prio <= RuleOf(h).prio
<1> DEFINE T == {i \in 1 .. Len(list) + 1 : i = Len(list) + 1 \/ RuleOf(list[i]).prio <= RuleOf(h).prio}
<1>0. Len(list) \in Nat  OBVIOUS
<1>1. T \subseteq Nat /\ Len(list) + 1 \in T  BY <1>0
<1>2. PICK i \in T : \A j \in T : i <= j  BY <1>1, Least
<1>3. ASSUME NEW j \in 1 .. i - 1 PROVE RuleOf(list[j]).prio > RuleOf(h).prio
  <2>1. j \in 1 .. Len(list) /\ j \in 1 .. Len(list) + 1 /\ ~(i <= j) /\ j # Len(list) + 1  BY <1>0, <1>2
  <2>2. ~(RuleOf(list[j]).prio <= RuleOf(h).prio)  BY <1>2, <2>1
  <2>3. list[j] \in Heirs  BY <2>1
  <2>4. RuleOf(list[j]).prio \in 0 .. 9 /\ RuleOf(h).prio \in 0 .. 9  BY <2>3, PrioType
  <2> QED  BY <2>2, <2>4
<1>4. i \in 1 .. Len(list) + 1 /\ (i <= Len(list) => RuleOf(list[i]).prio <= RuleOf(h).prio)
  BY <1>0
<1> QED  BY <1>3, <1>4 DEF Place

\* Each of the list, and none twice, by priority.
Listed(list) ==
  \A j, k \in 1 .. Len(list) : j < k =>
    RuleOf(list[j]).prio >= RuleOf(list[k]).prio /\ list[j] # list[k]

LEMMA InsertFacts ==
  ASSUME NEW h \in Heirs, NEW list \in Seq(Heirs)
  PROVE  LET t == Insert(h, list)
             i == Place(h, list)
         IN /\ t \in Seq(Heirs) /\ Len(t) = Len(list) + 1 /\ i \in 1 .. Len(list) + 1 /\ t[i] = h
            /\ \A k \in 1 .. i - 1 : t[k] = list[k]
            /\ \A k \in i .. Len(list) : t[k + 1] = list[k]
            /\ \A g : Contains(t, g) <=> g = h \/ Contains(list, g)
            /\ Listed(list) /\ ~Contains(list, h) => Listed(t)
<1> DEFINE t == Insert(h, list)
           i == Place(h, list)
           n == Len(list)
<1>1. i \in 1 .. n + 1 /\ \A j \in 1 .. i - 1 : RuleOf(list[j]).prio > RuleOf(h).prio
  BY PlaceFacts
<1>2. i <= n => RuleOf(list[i]).prio <= RuleOf(h).prio  BY PlaceFacts
<1>3. /\ t \in Seq(Heirs) /\ Len(t) = n + 1 /\ t[i] = h
      /\ \A k \in 1 .. i - 1 : t[k] = list[k]
      /\ \A k \in i .. n : t[k + 1] = list[k]
  BY <1>1, InsertedAt DEF Insert
<1>0. n \in Nat /\ \A k \in 1 .. n : list[k] \in Heirs  OBVIOUS
<1> HIDE DEF t, i
<1>4. \A k \in 1 .. n + 1 :
        \/ k \in 1 .. i - 1 /\ k \in 1 .. n /\ t[k] = list[k]
        \/ k = i /\ t[k] = h
        \/ k \in i + 1 .. n + 1 /\ k - 1 \in i .. n /\ k - 1 \in 1 .. n /\ t[k] = list[k - 1]
  <2> TAKE k \in 1 .. n + 1
  <2>1. CASE k \in 1 .. i - 1  BY <1>0, <1>1, <1>3, <2>1
  <2>2. CASE k = i  BY <1>3, <2>2
  <2>3. CASE k \in i + 1 .. n + 1
    <3>1. k - 1 \in i .. n /\ k - 1 \in 1 .. n /\ k - 1 + 1 = k  BY <1>0, <1>1, <2>3
    <3> QED  BY <1>3, <2>3, <3>1
  <2> QED  BY <1>0, <1>1, <2>1, <2>2, <2>3
<1>5. \A g : Contains(t, g) <=> g = h \/ Contains(list, g)
  <2> TAKE g
  <2>1. Contains(t, g) => g = h \/ Contains(list, g)  BY <1>3, <1>4 DEF Contains
  <2>2. g = h => Contains(t, g)  BY <1>0, <1>1, <1>3 DEF Contains
  <2>3. ASSUME NEW k \in 1 .. n, list[k] = g PROVE Contains(t, g)
    <3>1. CASE k \in 1 .. i - 1
      <4>1. t[k] = g /\ k \in 1 .. n + 1  BY <1>0, <1>3, <2>3, <3>1
      <4> QED  BY <1>3, <4>1 DEF Contains
    <3>2. CASE k \in i .. n
      <4>1. t[k + 1] = g /\ k + 1 \in 1 .. n + 1  BY <1>0, <1>3, <2>3, <3>2
      <4> QED  BY <1>3, <4>1 DEF Contains
    <3> QED  BY <1>0, <1>1, <3>1, <3>2
  <2> QED  BY <2>1, <2>2, <2>3 DEF Contains
<1>6. ASSUME Listed(list), ~Contains(list, h) PROVE Listed(t)
  <2> SUFFICES ASSUME NEW j \in 1 .. n + 1, NEW k \in 1 .. n + 1, j < k
               PROVE  RuleOf(t[j]).prio >= RuleOf(t[k]).prio /\ t[j] # t[k]
    BY <1>3 DEF Listed
  <2>0. /\ \A m \in 1 .. n : RuleOf(list[m]).prio \in 0 .. 9 /\ list[m] # h
        /\ RuleOf(h).prio \in 0 .. 9
    BY <1>0, <1>6, PrioType DEF Contains
  <2>1. CASE j \in 1 .. n /\ t[j] = list[j] /\ j \in 1 .. i - 1
    <3>1. CASE k \in 1 .. n /\ t[k] = list[k]  BY <1>6, <2>1, <3>1 DEF Listed
    <3>2. CASE k = i /\ t[k] = h  BY <1>1, <2>0, <2>1, <3>2
    <3>3. CASE k - 1 \in i .. n /\ k - 1 \in 1 .. n /\ t[k] = list[k - 1]
      <4>1. j < k - 1  BY <1>1, <2>1, <3>3
      <4> QED  BY <1>6, <2>1, <3>3, <4>1 DEF Listed
    <3> QED  BY <1>4, <3>1, <3>2, <3>3
  <2>2. CASE j = i /\ t[j] = h
    <3>1. k - 1 \in i .. n /\ k - 1 \in 1 .. n /\ t[k] = list[k - 1]  BY <1>1, <1>4, <2>2
    <3>2. i \in 1 .. n /\ i <= n  BY <1>0, <1>1, <3>1
    <3>3. RuleOf(list[i]).prio >= RuleOf(list[k - 1]).prio
      <4>1. i = k - 1 \/ i < k - 1  BY <1>1, <3>1
      <4> QED  BY <1>6, <2>0, <3>1, <3>2, <4>1 DEF Listed
    <3> QED  BY <1>2, <2>0, <2>2, <3>1, <3>2, <3>3
  <2>3. CASE j \in i + 1 .. n + 1 /\ j - 1 \in i .. n /\ j - 1 \in 1 .. n /\ t[j] = list[j - 1]
    <3>1. k - 1 \in 1 .. n /\ t[k] = list[k - 1] /\ j - 1 < k - 1  BY <1>1, <1>4, <2>3
    <3> QED  BY <1>6, <2>3, <3>1 DEF Listed
  <2> QED  BY <1>4, <2>1, <2>2, <2>3
<1> QED  BY <1>1, <1>3, <1>5, <1>6 DEF t, i

LEMMA WithoutFacts ==
  ASSUME NEW list \in Seq(Heirs), NEW h, Contains(list, h)
  PROVE  LET t == Without(h, list)
             i == Position(h, list)
         IN /\ i \in 1 .. Len(list) /\ list[i] = h
            /\ t \in Seq(Heirs) /\ Len(t) = Len(list) - 1
            /\ \A k \in 1 .. i - 1 : t[k] = list[k]
            /\ \A k \in i .. Len(list) - 1 : t[k] = list[k + 1]
            /\ \A g : g # h => (Contains(t, g) <=> Contains(list, g))
            /\ Listed(list) => Listed(t) /\ ~Contains(t, h)
<1> DEFINE t == Without(h, list)
           i == Position(h, list)
           n == Len(list)
<1>1. i \in 1 .. n /\ list[i] = h  BY DEF Position, Contains
<1>2. /\ t \in Seq(Heirs) /\ Len(t) = n - 1
      /\ \A k \in 1 .. i - 1 : t[k] = list[k]
      /\ \A k \in i .. n - 1 : t[k] = list[k + 1]
  BY <1>1, RemovedAt DEF Without
<1>0. n \in Nat /\ \A k \in 1 .. n : list[k] \in Heirs  OBVIOUS
<1> HIDE DEF t, i
<1>3. \A k \in 1 .. n - 1 :
        \/ k \in 1 .. i - 1 /\ k \in 1 .. n /\ t[k] = list[k]
        \/ k \in i .. n - 1 /\ k + 1 \in 1 .. n /\ t[k] = list[k + 1]
  <2> TAKE k \in 1 .. n - 1
  <2>1. (k \in 1 .. i - 1 /\ k \in 1 .. n) \/ (k \in i .. n - 1 /\ k + 1 \in 1 .. n)  BY <1>0, <1>1
  <2> QED  BY <1>2, <2>1
<1>4. ASSUME NEW g, g # h PROVE Contains(t, g) <=> Contains(list, g)
  <2>1. Contains(t, g) => Contains(list, g)  BY <1>2, <1>3 DEF Contains
  <2>2. ASSUME NEW k \in 1 .. n, list[k] = g PROVE Contains(t, g)
    <3>1. k # i  BY <1>1, <1>4, <2>2
    <3>2. CASE k \in 1 .. i - 1
      <4>1. t[k] = g /\ k \in 1 .. n - 1  BY <1>0, <1>1, <1>2, <2>2, <3>2
      <4> QED  BY <1>2, <4>1 DEF Contains
    <3>3. CASE k \in i + 1 .. n
      <4>1. k - 1 \in i .. n - 1 /\ k - 1 + 1 = k /\ k - 1 \in 1 .. n - 1  BY <1>0, <1>1, <3>3
      <4>2. t[k - 1] = g  BY <1>2, <2>2, <4>1
      <4> QED  BY <1>2, <4>1, <4>2 DEF Contains
    <3> QED  BY <1>0, <1>1, <3>1, <3>2, <3>3
  <2> QED  BY <2>1, <2>2 DEF Contains
<1>5. ASSUME Listed(list) PROVE Listed(t)
  <2> SUFFICES ASSUME NEW j \in 1 .. n - 1, NEW k \in 1 .. n - 1, j < k
               PROVE  RuleOf(t[j]).prio >= RuleOf(t[k]).prio /\ t[j] # t[k]
    BY <1>2 DEF Listed
  <2>1. \E a, b \in 1 .. n : a < b /\ t[j] = list[a] /\ t[k] = list[b]
    <3>1. CASE j \in 1 .. i - 1 /\ k \in 1 .. i - 1
      <4>1. j \in 1 .. n /\ k \in 1 .. n /\ t[j] = list[j] /\ t[k] = list[k]  BY <1>0, <1>1, <1>2, <3>1
      <4> QED  BY <4>1
    <3>2. CASE j \in 1 .. i - 1 /\ k \in i .. n - 1
      <4>1. j \in 1 .. n /\ k + 1 \in 1 .. n /\ j < k + 1 /\ t[j] = list[j] /\ t[k] = list[k + 1]
        BY <1>0, <1>1, <1>2, <3>2
      <4> QED  BY <4>1
    <3>3. CASE j \in i .. n - 1 /\ k \in i .. n - 1
      <4>1. j + 1 \in 1 .. n /\ k + 1 \in 1 .. n /\ j + 1 < k + 1 /\ t[j] = list[j + 1] /\ t[k] = list[k + 1]
        BY <1>0, <1>1, <1>2, <3>3
      <4> QED  BY <4>1
    <3> QED  BY <1>0, <1>1, <3>1, <3>2, <3>3
  <2> QED  BY <1>5, <2>1 DEF Listed
<1>6. ASSUME Listed(list) PROVE ~Contains(t, h)
  <2> SUFFICES ASSUME NEW k \in 1 .. n - 1, t[k] = h PROVE FALSE  BY <1>2 DEF Contains
  <2>1. CASE k \in 1 .. i - 1 /\ k \in 1 .. n /\ t[k] = list[k]
    <3>1. k < i  BY <1>1, <2>1
    <3> QED  BY <1>1, <1>6, <2>1, <3>1 DEF Listed
  <2>2. CASE k \in i .. n - 1 /\ k + 1 \in 1 .. n /\ t[k] = list[k + 1]
    <3>1. i < k + 1  BY <1>1, <2>2
    <3> QED  BY <1>1, <1>6, <2>2, <3>1 DEF Listed
  <2> QED  BY <1>3, <2>1, <2>2
<1> QED  BY <1>1, <1>2, <1>4, <1>5, <1>6 DEF t, i

LEMMA RegisteredFacts ==
  ASSUME NEW list \in Seq(Heirs), NEW order \in Seq(Handlers), IsInjective(order), Listed(list),
         \A h \in Handlers : ~Contains(list, h)
  PROVE  LET t == Registered(list, order) IN
         /\ t \in Seq(Heirs) /\ Listed(t)
         /\ \A g : Contains(list, g) => Contains(t, g)
<1> DEFINE Def(f, n) == [k \in 0 .. n |-> IF k = 0 THEN list ELSE Insert(order[k], f[k - 1])]
           N == Len(order)
           after == CHOOSE f : f = Def(f, N)
<1>0. N \in Nat /\ \A k \in 1 .. N : order[k] \in Handlers /\ order[k] \in Heirs
  BY DEF Heirs
<1>1. \A n \in 0 .. N : \E f : f = Def(f, n)
  <2> DEFINE T == {n \in 0 .. N : ~\E f : f = Def(f, n)}
  <2> SUFFICES ASSUME T # {} PROVE FALSE  OBVIOUS
  <2>1. T \subseteq Nat  BY <1>0
  <2>2. PICK m \in T : \A n \in T : m <= n
    <3> HIDE DEF T
    <3> QED  BY <2>1, Least
  <2>3. m \in 0 .. N /\ ~\E f : f = Def(f, m)  OBVIOUS
  <2>4. CASE m = 0
    <3> DEFINE g == [k \in 0 .. 0 |-> list]
    <3>1. g = Def(g, 0)  OBVIOUS
    <3> QED  BY <2>3, <2>4, <3>1
  <2>5. CASE m # 0
    <3>1. m - 1 \in 0 .. N /\ ~(m <= m - 1) /\ m \in Nat /\ m - 1 \in 0 .. m - 1 /\ m \in 0 .. m
      BY <1>0, <2>3, <2>5
    <3>2. m - 1 \notin T
      <4> HIDE DEF T
      <4> QED  BY <2>2, <3>1
    <3>3. PICK g : g = Def(g, m - 1)  BY <3>1, <3>2
    <3>4. \A k \in 0 .. m - 1 : g[k] = IF k = 0 THEN list ELSE Insert(order[k], g[k - 1])  BY <3>3
    <3> DEFINE f == [k \in 0 .. m |-> IF k = m THEN Insert(order[m], g[m - 1]) ELSE g[k]]
    <3>5. ASSUME NEW k \in 0 .. m PROVE f[k] = IF k = 0 THEN list ELSE Insert(order[k], f[k - 1])
      <4>1. CASE k = m
        <5>1. f[m - 1] = g[m - 1] /\ f[m] = Insert(order[m], g[m - 1])  BY <3>1
        <5> QED  BY <2>5, <4>1, <5>1
      <4>2. CASE k # m /\ k = 0  BY <3>4, <4>2, <3>1
      <4>3. CASE k # m /\ k # 0
        <5>1. k \in 0 .. m - 1 /\ k - 1 \in 0 .. m /\ k - 1 # m  BY <3>1, <4>3
        <5>2. f[k] = g[k] /\ f[k - 1] = g[k - 1]  BY <4>3, <5>1
        <5> QED  BY <3>4, <4>3, <5>1, <5>2
      <4> QED  BY <4>1, <4>2, <4>3
    <3>6. f = Def(f, m)  BY <3>5
    <3> HIDE DEF f
    <3> QED  BY <2>3, <3>6
  <2> QED  BY <2>4, <2>5
<1>2. after = Def(after, N)
  <2>1. \E f : f = Def(f, N)  BY <1>0, <1>1
  <2> QED  BY <2>1
<1>3. Registered(list, order) = after[N]  BY DEF Registered
<1> HIDE DEF after
<1>4. after[0] = list /\ \A k \in 1 .. N : after[k] = Insert(order[k], after[k - 1])
  <2>1. \A k \in 0 .. N : after[k] = IF k = 0 THEN list ELSE Insert(order[k], after[k - 1])  BY <1>2
  <2> QED  BY <1>0, <2>1
<1> HIDE DEF Def
<1> DEFINE Good(k) == /\ after[k] \in Seq(Heirs) /\ Listed(after[k])
                      /\ \A g : Contains(list, g) => Contains(after[k], g)
                      /\ \A j \in k + 1 .. N : ~Contains(after[k], order[j])
           U == {k \in 0 .. N : ~Good(k)}
<1>5. ASSUME U # {} PROVE FALSE
  <2>1. U \subseteq Nat  BY <1>0
  <2>2. PICK m \in U : \A n \in U : m <= n
    <3> HIDE DEF U
    <3> QED  BY <1>5, <2>1, Least
  <2>3. m \in 0 .. N /\ ~Good(m)  OBVIOUS
  <2>4. CASE m = 0
    <3>1. Good(0)  BY <1>0, <1>4
    <3> QED  BY <2>3, <2>4, <3>1
  <2>5. CASE m # 0
    <3>1. m - 1 \in 0 .. N /\ m \in 1 .. N /\ ~(m <= m - 1) /\ m - 1 + 1 = m  BY <1>0, <2>3, <2>5
    <3>2. m - 1 \notin U
      <4> HIDE DEF U
      <4> QED  BY <2>2, <3>1
    <3>3. Good(m - 1)  BY <3>1, <3>2
    <3> DEFINE a == after[m - 1]
               h == order[m]
    <3>4. a \in Seq(Heirs) /\ Listed(a) /\ (\A g : Contains(list, g) => Contains(a, g))
          /\ \A j \in m .. N : ~Contains(a, order[j])
      BY <3>1, <3>3
    <3>5. h \in Heirs /\ after[m] = Insert(h, a) /\ ~Contains(a, h)
      <4>1. m \in m .. N  BY <3>1
      <4> QED  BY <1>0, <1>4, <3>1, <3>4, <4>1
    <3>6. \A j \in m + 1 .. N : order[j] # h /\ j \in m .. N
      <4> TAKE j \in m + 1 .. N
      <4>1. j \in DOMAIN order /\ m \in DOMAIN order /\ j # m /\ j \in m .. N  BY <1>0, <3>1
      <4> QED  BY <4>1 DEF IsInjective
    <3> HIDE DEF a, h
    <3>7. Insert(h, a) \in Seq(Heirs) /\ Listed(Insert(h, a))
          /\ \A g : Contains(Insert(h, a), g) <=> g = h \/ Contains(a, g)
      BY <3>4, <3>5, InsertFacts
    <3>8. Good(m)  BY <3>4, <3>5, <3>6, <3>7
    <3> QED  BY <2>3, <3>8
  <2> QED  BY <2>4, <2>5
<1>6. Good(N)  BY <1>0, <1>5
<1> QED  BY <1>3, <1>6

-----------------------------------------------------------------------------
(* What the steps do *)

LEMMA SendFacts ==
  ASSUME Sorts, NEW w \in Whats, Send(w)
  PROVE  /\ out' \in Seq(OutItems) /\ unacked' \in Seq(Nat) /\ sent' \in Nat
         /\ \/ closing /\ sent' = sent /\ unacked' = unacked /\ out' = out
            \/ /\ ~closing /\ sent' = sent + 1 /\ Append(out, Carrying(w)) \in Seq(OutItems)
               /\ out' = IF managed THEN Append(Append(out, Carrying(w)), Request)
                         ELSE Append(out, Carrying(w))
               /\ unacked' = IF managed THEN Append(unacked, sent + 1) ELSE unacked
<1>1. out \in Seq(OutItems) /\ unacked \in Seq(Nat) /\ sent \in Nat /\ managed \in BOOLEAN  BY DEF Sorts
<1>2. Carrying(w) \in OutItems /\ Request \in OutItems  BY PlainItems
<1>3. CASE closing  BY <1>1, <1>3 DEF Send
<1>4. CASE ~closing
  <2> DEFINE c == Carrying(w)
             p == Append(out, c)
  <2>1. sent' = sent + 1 /\ unacked' = Keep /\ out' = out \o AndRequest(c)  BY <1>4 DEF Send
  <2> HIDE DEF c
  <2>2. c \in OutItems  BY <1>2 DEF c
  <2>3. p \in Seq(OutItems) /\ p = out \o <<c>> /\ <<c>> \in Seq(OutItems)
    BY <1>1, <2>2, AppendFacts, AppendIsConcat
  <2>4. out \o <<c, Request>> = Append(p, Request) /\ Append(p, Request) \in Seq(OutItems)
    <3>1. <<c, Request>> = <<c>> \o <<Request>> /\ <<Request>> \in Seq(OutItems)
      <4>1. <<c, Request>> = Append(<<c>>, Request) /\ <<Request>> \in Seq(OutItems)  BY <1>2
      <4> QED  BY <1>2, <2>3, <4>1, AppendIsConcat
    <3>2. Append(p, Request) = p \o <<Request>>
      <4> HIDE DEF p
      <4> QED  BY <1>2, <2>3, AppendIsConcat
    <3>3. out \o (<<c>> \o <<Request>>) = (out \o <<c>>) \o <<Request>>
      BY <1>1, <2>3, <3>1, ConcatAssociative
    <3>4. Append(p, Request) \in Seq(OutItems)
      <4> HIDE DEF p
      <4> QED  BY <1>2, <2>3, AppendFacts
    <3> QED  BY <2>3, <3>1, <3>2, <3>3, <3>4
  <2>5. out' = IF managed THEN Append(p, Request) ELSE p
    BY <2>1, <2>3, <2>4 DEF AndRequest
  <2>6. Keep = (IF managed THEN Append(unacked, sent + 1) ELSE unacked) /\ Keep \in Seq(Nat)
    BY <1>1 DEF Keep
  <2>7. out' \in Seq(OutItems)  BY <2>3, <2>4, <2>5
  <2> QED  BY <1>1, <1>4, <2>1, <2>3, <2>5, <2>6, <2>7 DEF c
<1> QED  BY <1>3, <1>4

LEMMA ReceiveStanzaFacts ==
  ASSUME Sorts, ReceiveStanza
  PROVE  \E s \in Read :
           LET x == inbox[1] IN
           /\ inbox # <<>> /\ inbox' = Tail(inbox) /\ x \in Incoming /\ stack = <<>> /\ x.type # "closed"
           /\ counted' = counted + One(Counting(x))
           /\ Counting(x) => s.n = x.n
           /\ ~Counting(x) => s.n = 0
           /\ s.type = x.type
           /\ s.type = "r" => s.h = counted'
           /\ \/ /\ saving /\ s \in Later /\ Counting(x) /\ held' = Append(held, s) /\ stack' = stack
              \/ /\ held' = held
                 /\ stack' = IF saving THEN <<Frame("flush"), Dispatch(s)>> ELSE <<Dispatch(s)>>
<1> DEFINE x == inbox[1]
           s == IF x.type = "a"
                  THEN [type |-> "a", sub |-> "none", from |-> "none", what |-> "plain",
                        n |-> 0, h |-> counted]
                  ELSE [x EXCEPT !.h = CountedAfter(x)]
<1>1. inbox \in Seq(Incoming) /\ inbox # <<>> /\ counted \in Nat /\ stack = <<>>
  BY DEF Sorts, ReceiveStanza, AtLoop
<1>2. Head(inbox) = x /\ x \in Incoming  BY <1>1, TailFacts
<1>3. x.type # "closed"  BY <1>2 DEF ReceiveStanza
<1>4. x.type = "a" \/ x \in Arrivals  BY <1>2, <1>3, ArrivingFacts
<1>5. CountedAfter(x) \in Nat  BY <1>1 DEF CountedAfter
<1>6. s \in Read /\ s.type = x.type /\ (x.type # "a" => s \in Arrivals /\ s.n = x.n /\ s.h = CountedAfter(x))
      /\ (x.type = "a" => s.n = 0)
  <2>1. CASE x.type = "a"
    <3> DEFINE r == [type |-> "a", sub |-> "none", from |-> "none", what |-> "plain",
                     n |-> 0, h |-> counted]
    <3>1. s = r  BY <2>1
    <3>2. r \in AnswersRead  BY <1>1 DEF AnswersRead
    <3> QED  BY <2>1, <3>1, <3>2 DEF Read
  <2>2. CASE x.type # "a"
    <3>1. x \in Arrivals  BY <1>4, <2>2
    <3>2. s = [x EXCEPT !.h = CountedAfter(x)]  BY <2>2
    <3>3. s \in Arrivals /\ s.n = x.n /\ s.h = CountedAfter(x) /\ s.type = x.type
      BY <1>5, <3>1, <3>2 DEF Arrivals
    <3> QED  BY <2>2, <3>3 DEF Read
  <2> QED  BY <2>1, <2>2
<1>7. /\ counted' = CountedAfter(s)
      /\ inbox' = Tail(inbox)
      /\ IF saving /\ ~Important(s) THEN held' = Append(held, s) /\ stack' = stack
         ELSE stack' = ToHandle(s) /\ held' = held
  BY <1>2 DEF ReceiveStanza
<1> HIDE DEF s
<1>8. CountedAfter(s) = counted + One(Counting(x)) /\ CountedAfter(x) = counted + One(Counting(x))
  BY <1>3, <1>6 DEF CountedAfter, Counts, Counting, One
<1>9. Counting(x) => s.n = x.n  BY <1>6 DEF Counting
<1>10. ~Counting(x) => s.n = 0
  <2> SUFFICES ASSUME ~Counting(x) PROVE s.n = 0  OBVIOUS
  <2>1. x.type = "a" \/ x.type = "r"  BY <1>3 DEF Counting
  <2> QED  BY <1>4, <1>2, <1>6, <2>1, ArrivingFacts
<1>11. s.type = "r" => s.h = counted'  BY <1>6, <1>7, <1>8
<1>12. \/ saving /\ s \in Later /\ Counting(x) /\ held' = Append(held, s) /\ stack' = stack
       \/ /\ held' = held
          /\ stack' = IF saving THEN <<Frame("flush"), Dispatch(s)>> ELSE <<Dispatch(s)>>
  <2>1. CASE saving /\ ~Important(s)
    <3>1. s.type \in {"presence", "message"}  BY <2>1 DEF Important
    <3>2. Counting(x) /\ s \in Later  BY <1>6, <3>1 DEF Counting, Later
    <3> QED  BY <1>7, <2>1, <3>2
  <2>2. CASE ~(saving /\ ~Important(s))  BY <1>7, <2>2 DEF ToHandle
  <2> QED  BY <2>1, <2>2
<1>13. /\ inbox # <<>> /\ inbox' = Tail(inbox) /\ x \in Incoming /\ stack = <<>> /\ x.type # "closed"
       /\ counted' = counted + One(Counting(x))
  BY <1>1, <1>2, <1>3, <1>7, <1>8
<1>14. s \in Read /\ s.type = x.type  BY <1>6
<1> HIDE DEF x
<1> QED  BY <1>9, <1>10, <1>11, <1>12, <1>13, <1>14, Zenon DEF x

Dispatching == DispatchEnds \/ DispatchCalls \/ DispatchToLibrary

\* The walk at the top of the stack moves on or ends, and may answer.
LEMMA DispatchFacts ==
  ASSUME Sorts, Dispatching
  PROVE  LET f == stack[1] IN
         /\ stack # <<>> /\ f \in Walks /\ Walk(f) /\ f.stanza \in Read
         /\ begun' = Beginning(f, begun)
         /\ UNCHANGED <<managed, closing, serverGone, saving, remoteClosed, got, counted,
                        serverSent, fetched, inbox, held, handlers, sentTo>>
         /\ iqs' \in [Iqs -> {"new", "pending", "answered", "aborted"}]
         /\ \/ /\ stack' = Tail(stack)
               /\ \/ f.stanza.type = "iq" /\ Reply(f.stanza)
                  \/ f.stanza.type = "r" /\ SendAnswer(f.stanza.h) /\ sent' = sent /\ unacked' = unacked
                  \/ f.stanza.type = "a" /\ unacked' = TakeAnswer /\ sent' = sent /\ out' = out
                  \/ sent' = sent /\ unacked' = unacked /\ out' = out
            \/ \E h \in Heirs :
                 /\ IsNext(h, f) /\ sent' = sent /\ unacked' = unacked /\ out' = out
                 /\ \/ h \in Handlers /\ stack' = <<Frame("user"), AtNext(f, h)>> \o Tail(stack)
                    \/ h \in Library /\ stack' = <<AtNext(f, h)>> \o Tail(stack)
<1> DEFINE f == stack[1]
<1>1. stack \in Seq(Frames) /\ iqs \in [Iqs -> {"new", "pending", "answered", "aborted"}]  BY DEF Sorts
<1>2. stack # <<>> /\ Head(stack).fn = "dispatch"
  BY DEF Dispatching, DispatchEnds, DispatchCalls, DispatchToLibrary, Running
<1>3. Head(stack) = f /\ f \in Frames  BY <1>1, <1>2, TailFacts
<1>4. f \in Walks /\ Walk(f) /\ f.stanza \in Read  BY <1>2, <1>3, FrameFacts DEF Walk
<1>5. begun' = Begin(f) /\ Begin(f) = Beginning(f, begun)
  <2>1. begun' = Begin(f)  BY <1>3 DEF Dispatching, DispatchEnds, DispatchCalls, DispatchToLibrary
  <2> QED  BY <2>1 DEF Begin, Beginning
<1>6. UNCHANGED <<managed, closing, serverGone, saving, remoteClosed, got, counted,
                  serverSent, fetched, inbox, held, handlers, sentTo>>
  BY DEF Dispatching, DispatchEnds, DispatchCalls, DispatchToLibrary, serverVars, recvVars, iqVars, smVars
<1> HIDE DEF f
<1>7. CASE DispatchEnds
  <2>1. stack' = Tail(stack) /\ NotHandled(f.stanza) /\ iqs' = iqs  BY <1>3, <1>7 DEF DispatchEnds, iqVars
  <2>2. (f.stanza.type = "iq" /\ Reply(f.stanza)) \/ (sent' = sent /\ unacked' = unacked /\ out' = out)
    BY <2>1 DEF NotHandled, Answerable
  <2> QED  BY <1>1, <1>2, <1>4, <1>5, <1>6, <2>1, <2>2 DEF f
<1>8. CASE DispatchCalls
  <2>1. PICK h \in Handlers : IsNext(h, f) /\ stack' = <<Frame("user"), AtNext(f, h)>> \o Tail(stack)
    BY <1>3, <1>8 DEF DispatchCalls
  <2>2. sent' = sent /\ unacked' = unacked /\ out' = out /\ iqs' = iqs
    BY <1>8 DEF DispatchCalls, smVars, iqVars
  <2>3. h \in Heirs  BY DEF Heirs
  <2> QED  BY <1>1, <1>2, <1>4, <1>5, <1>6, <2>1, <2>2, <2>3 DEF f
<1>9. CASE DispatchToLibrary
  <2> DEFINE s == f.stanza
  <2>1. PICK h \in Library :
          /\ IsNext(h, f)
          /\ IF Declines(h, s)
               THEN /\ stack' = <<AtNext(f, h)>> \o Tail(stack)
                    /\ UNCHANGED <<sent, unacked, out, iqs, answeredBy>>
               ELSE LibraryHandles(h, s) /\ stack' = Tail(stack)
    BY <1>3, <1>9 DEF DispatchToLibrary
  <2>2. h \in Heirs  BY DEF Heirs
  <2>3. CASE Declines(h, s)
    <3>1. stack' = <<AtNext(f, h)>> \o Tail(stack) /\ sent' = sent /\ unacked' = unacked /\ out' = out
          /\ iqs' = iqs
      BY <2>1, <2>3
    <3> QED  BY <1>1, <1>2, <1>4, <1>5, <1>6, <2>1, <2>2, <3>1 DEF f
  <2>4. CASE ~Declines(h, s)
    <3>1. LibraryHandles(h, s) /\ stack' = Tail(stack)  BY <2>1, <2>4
    <3>2. Matches(h, s)  BY <2>1 DEF IsNext
    <3>3. CASE h = "sm_r" /\ AnswersRequest(s)
      <4>1. RuleOf(h).type = "r"
        BY <3>3 DEF RuleOf, Library, LibraryRule, SmRule, ForAnyone, StanzaHandler
      <4>2. s.type = "r"  BY <3>2, <4>1 DEF Matches
      <4> QED  BY <1>1, <1>2, <1>4, <1>5, <1>6, <3>1, <3>3, <4>2 DEF AnswersRequest, f
    <3>4. CASE h = "sm_a" /\ TakesAnswer
      <4>1. RuleOf(h).type = "a"
        BY <3>4 DEF RuleOf, Library, LibraryRule, SmRule, ForAnyone, StanzaHandler
      <4>2. s.type = "a"  BY <3>2, <4>1 DEF Matches
      <4> QED  BY <1>1, <1>2, <1>4, <1>5, <1>6, <3>1, <3>4, <4>2 DEF TakesAnswer, f
    <3>5. CASE h = "ping" /\ AnswersPing(s)
      <4>1. RuleOf(h).type = "iq"
        BY <3>5 DEF RuleOf, Library, LibraryRule, PingRule, ForAnyone, StanzaHandler
      <4>2. s.type = "iq"  BY <3>2, <4>1 DEF Matches
      <4> QED  BY <1>1, <1>2, <1>4, <1>5, <1>6, <3>1, <3>5, <4>2 DEF AnswersPing, f
    <3>6. CASE h \in {"reply", "error"} /\ CompletesIq(s)
      <4>1. iqs' = [iqs EXCEPT ![s.id] = "answered"] /\ sent' = sent /\ unacked' = unacked /\ out' = out
        BY <3>6 DEF CompletesIq
      <4>2. iqs' \in [Iqs -> {"new", "pending", "answered", "aborted"}]  BY <1>1, <4>1
      <4> QED  BY <1>1, <1>2, <1>4, <1>5, <1>6, <3>1, <4>1, <4>2 DEF f
    <3> QED  BY <3>1, <3>3, <3>4, <3>5, <3>6 DEF LibraryHandles
  <2> QED  BY <2>3, <2>4
<1> QED  BY <1>7, <1>8, <1>9 DEF Dispatching

\* The steps of the application and of the network outside the walks.
Sending == SendStanza \/ \E i \in Iqs, to \in To : SendIq(i, to)
Delivering == (\E s \in Stanzas : ServerSends(s)) \/ (\E i \in Iqs, f \in From : ServerReplies(i, f))
Serving ==
  (ServerReads \/ ServerCloses \/ StreamBreaks) /\ AtLoop /\ UNCHANGED Others
Listing == (\E h \in Handlers : Register(h)) \/ PingDisposed

LEMMA Cases ==
  ASSUME [Next]_vars
  PROVE  \/ UNCHANGED porterVars
         \/ ReceiveClosed \/ ReceiveStanza \/ FlushStep \/ Dispatching
         \/ (\E handled \in BOOLEAN : HandlerReturns(handled))
         \/ Listing \/ (\E h \in Handlers : Unregister(h))
         \/ EnableSaving \/ DisableSaving \/ SavingEnds
         \/ Sending \/ CloseAsync \/ PopUnacked
         \/ Delivering \/ ServerRequests \/ Serving
<1>1. CASE UNCHANGED vars  BY <1>1 DEF vars
<1>2. CASE Tick  BY <1>2 DEF Tick
<1>3. CASE HeartbeatFires  BY <1>3 DEF HeartbeatFires
<1>4. CASE \E new \in Intervals : UpdateInterval(new)  BY <1>4 DEF UpdateInterval
<1>5. CASE ReceiveNext
  BY <1>5 DEF ReceiveNext, Dispatching, Listing, Sending, Delivering, Serving
<1>6. CASE PingDisposed  BY <1>6 DEF Listing
<1> QED  BY <1>1, <1>2, <1>3, <1>4, <1>5, <1>6 DEF Next

\* The server's stanzas.
LEMMA DeliveringFacts ==
  ASSUME Sorts, Delivering
  PROVE  /\ stack = <<>> /\ ~serverGone /\ serverSent' = serverSent + 1 /\ serverSent' \in 0 .. MaxArriving
         /\ \E x \in Arrivals : /\ Counting(x) /\ x.n = serverSent + 1 /\ inbox' = Append(inbox, x)
                                /\ x \in Incoming
         /\ UNCHANGED <<smVars, closing, got, serverGone, recvVars, iqVars, begun, stack>>
<1>0. MaxArriving \in Nat /\ \A s \in Stanzas : s.type \notin {"r", "a", "closed"}
  BY ReceiveAssumption DEF ReceiveAssumption
<1>1. serverSent \in 0 .. MaxArriving /\ inbox \in Seq(Incoming)  BY DEF Sorts
<1>2. CASE \E s \in Stanzas : ServerSends(s)
  <2>1. PICK s \in Stanzas : ServerSends(s)  BY <1>2
  <2> DEFINE x == Arriving(s, "none", serverSent + 1)
  <2>2. /\ stack = <<>> /\ ~serverGone /\ serverSent < MaxArriving /\ serverSent' = serverSent + 1
        /\ inbox' = Append(inbox, x)
    BY <2>1 DEF ServerSends, AtLoop
  <2>3. UNCHANGED <<smVars, closing, got, serverGone, recvVars, iqVars, begun, stack>>
    BY <2>1 DEF ServerSends
  <2>4. serverSent + 1 \in 1 .. MaxArriving  BY <1>0, <1>1, <2>2
  <2>5. x \in Arrivals
    <3>1. s.type \in Types /\ s.type \notin {"r", "a", "closed"}  BY <1>0 DEF Types
    <3>2. x.n # 0 /\ x.type # "r" /\ x.id = "none"  BY <2>4, <3>1 DEF Arriving
    <3> QED  BY <2>4, <3>1, <3>2 DEF Arriving, Arrivals
  <2>6. Counting(x) /\ x.n = serverSent + 1 /\ x \in Incoming
    BY <1>0, <2>5 DEF Arriving, Counting, Incoming
  <2> HIDE DEF x
  <2> QED  BY <2>2, <2>3, <2>4, <2>5, <2>6
<1>3. CASE \E i \in Iqs, f \in From : ServerReplies(i, f)
  <2>1. PICK i \in Iqs, f \in From : ServerReplies(i, f)  BY <1>3
  <2> DEFINE x == Arriving([type |-> "iq", sub |-> "result", from |-> f, what |-> "plain"], i, serverSent + 1)
  <2>2. /\ stack = <<>> /\ ~serverGone /\ serverSent < MaxArriving /\ serverSent' = serverSent + 1
        /\ inbox' = Append(inbox, x)
    BY <2>1 DEF ServerReplies, AtLoop
  <2>3. UNCHANGED <<smVars, closing, got, serverGone, recvVars, iqVars, begun, stack>>
    BY <2>1 DEF ServerReplies
  <2>4. serverSent + 1 \in 1 .. MaxArriving  BY <1>0, <1>1, <2>2
  <2>5. x \in Arrivals  BY <2>4 DEF Arriving, Arrivals, Types
  <2>6. Counting(x) /\ x.n = serverSent + 1 /\ x \in Incoming
    BY <2>5 DEF Arriving, Counting, Incoming
  <2> HIDE DEF x
  <2> QED  BY <2>2, <2>3, <2>4, <2>5, <2>6
<1> QED  BY <1>2, <1>3 DEF Delivering

LEMMA RequestsFacts ==
  ASSUME Sorts, ServerRequests
  PROVE  /\ stack = <<>> /\ managed /\ ~serverGone
         /\ \E x \in Incoming :
              /\ inbox' = Append(inbox, x) /\ ~Counting(x) /\ x.type # "closed"
              /\ x.type = "a" => "unasked" \in Liberties
         /\ UNCHANGED <<smVars, closing, serverVars, recvVars, iqVars, begun, stack>>
<1>0. got \in Nat  BY DEF Sorts
<1> DEFINE r == Arriving([type |-> "r", sub |-> "none", from |-> "none", what |-> "plain"], "none", 0)
           a == [type |-> "a", h |-> got]
<1>1. r \in Incoming /\ ~Counting(r) /\ r.type = "r"
  <2>1. 0 \in 0 .. MaxArriving  BY ReceiveAssumption DEF ReceiveAssumption
  <2>2. r \in Arrivals  BY <2>1 DEF Arriving, Arrivals, Types
  <2> QED  BY <2>2 DEF Arriving, Incoming, Counting
<1>2. a \in Incoming /\ ~Counting(a) /\ a.type = "a"  BY <1>0 DEF Incoming, AnswersIn, Counting
<1> HIDE DEF r, a
<1>3. inbox' = Append(inbox, r) \/ (inbox' = Append(inbox, a) /\ "unasked" \in Liberties)
  BY DEF ServerRequests, r, a
<1>4. stack = <<>> /\ managed /\ ~serverGone
      /\ UNCHANGED <<smVars, closing, serverVars, recvVars, iqVars, begun, stack>>
  BY DEF ServerRequests, AtLoop
<1> QED  BY <1>1, <1>2, <1>3, <1>4

LEMMA WalkSorts ==
  ASSUME Sorts, Dispatching
  PROVE  Sorts'
<1> DEFINE f == stack[1]
<1>1. /\ stack # <<>> /\ f \in Walks /\ Walk(f) /\ f.stanza \in Read
      /\ begun' = Beginning(f, begun)
      /\ UNCHANGED <<managed, closing, serverGone, saving, remoteClosed, got, counted,
                     serverSent, fetched, inbox, held, handlers, sentTo>>
      /\ iqs' \in [Iqs -> {"new", "pending", "answered", "aborted"}]
  BY DispatchFacts
<1>2. Tail(stack) \in Seq(Frames) /\ stack \in Seq(Frames) /\ begun \in Seq(Nat)
  <2>1. stack \in Seq(Frames) /\ begun \in Seq(Nat)  BY DEF Sorts
  <2> QED  BY <1>1, <2>1, TailFacts
<1>3. begun' \in Seq(Nat)
  <2>1. f.stanza.n \in Nat
    <3>1. MaxArriving \in Nat  BY ReceiveAssumption DEF ReceiveAssumption
    <3> QED  BY <1>1, <3>1, ReadFacts
  <2> QED  BY <1>1, <1>2, <2>1 DEF Beginning
<1> HIDE DEF f
<1>4. \/ /\ stack' = Tail(stack)
         /\ \/ f.stanza.type = "iq" /\ Reply(f.stanza)
            \/ f.stanza.type = "r" /\ SendAnswer(f.stanza.h) /\ sent' = sent /\ unacked' = unacked
            \/ f.stanza.type = "a" /\ unacked' = TakeAnswer /\ sent' = sent /\ out' = out
            \/ sent' = sent /\ unacked' = unacked /\ out' = out
      \/ \E h \in Heirs :
           /\ IsNext(h, f) /\ sent' = sent /\ unacked' = unacked /\ out' = out
           /\ \/ h \in Handlers /\ stack' = <<Frame("user"), AtNext(f, h)>> \o Tail(stack)
              \/ h \in Library /\ stack' = <<AtNext(f, h)>> \o Tail(stack)
  BY DispatchFacts DEF f
<1>5. stack' \in Seq(Frames)
  <2>1. ASSUME NEW h \in Heirs, stack' = <<Frame("user"), AtNext(f, h)>> \o Tail(stack)
                                \/ stack' = <<AtNext(f, h)>> \o Tail(stack)
        PROVE  stack' \in Seq(Frames)
    <3>1. AtNext(f, h) \in Frames
      <4>1. handlers \in Seq(Heirs)  BY DEF Sorts
      <4> QED  BY <1>1, <4>1, NextFrame
    <3> DEFINE g == AtNext(f, h)
    <3> HIDE DEF g
    <3>2. <<g>> \o Tail(stack) \in Seq(Frames)  BY <1>2, <3>1, ConsFacts DEF g
    <3>3. <<Frame("user"), g>> \o Tail(stack) = <<Frame("user")>> \o (<<g>> \o Tail(stack))
      BY <1>2, <3>1, NewFrames, TwoCons DEF g
    <3>4. <<Frame("user")>> \o (<<g>> \o Tail(stack)) \in Seq(Frames)
      BY <3>2, NewFrames, ConsFacts
    <3> QED  BY <2>1, <3>2, <3>3, <3>4 DEF g
  <2> QED  BY <1>2, <1>4, <2>1
<1>6. sent' \in Nat /\ unacked' \in Seq(Nat) /\ out' \in Seq(OutItems)
  <2>0. sent \in Nat /\ unacked \in Seq(Nat) /\ out \in Seq(OutItems)  BY DEF Sorts
  <2>1. ASSUME f.stanza.type = "iq", Reply(f.stanza) PROVE sent' \in Nat /\ unacked' \in Seq(Nat) /\ out' \in Seq(OutItems)
    <3>1. f.stanza \in Arrivals /\ f.stanza.n # 0  BY <1>1, <2>1, ReadFacts
    <3>2. ReplyTo(f.stanza) \in Whats  BY <3>1, PlainItems
    <3> QED  BY <2>1, <3>2, SendFacts DEF Reply
  <2>2. ASSUME SendAnswer(f.stanza.h) PROVE out' \in Seq(OutItems)
    <3>1. f.stanza.h \in Nat  BY <1>1, ReadFacts
    <3>2. Answer(f.stanza.h) \in OutItems  BY <3>1, PlainItems DEF Answer
    <3> QED  BY <2>0, <2>2, <3>2, AppendFacts DEF SendAnswer
  <2>3. ASSUME unacked' = TakeAnswer PROVE unacked' \in Seq(Nat)
    BY <2>0, <2>3, TailFacts DEF TakeAnswer
  <2> QED  BY <1>4, <2>0, <2>1, <2>2, <2>3
<1> QED  BY <1>1, <1>3, <1>5, <1>6 DEF Sorts

LEMMA SortsStep ==
  ASSUME Sorts, [Next]_vars
  PROVE  Sorts'
<1>0. /\ managed \in BOOLEAN /\ closing \in BOOLEAN /\ serverGone \in BOOLEAN
      /\ saving \in BOOLEAN /\ remoteClosed \in BOOLEAN
      /\ sent \in Nat /\ got \in Nat /\ counted \in Nat /\ serverSent \in 0 .. MaxArriving
      /\ unacked \in Seq(Nat) /\ fetched \subseteq Nat
      /\ out \in Seq(OutItems) /\ inbox \in Seq(Incoming) /\ held \in Seq(Later)
      /\ handlers \in Seq(Heirs)
      /\ iqs \in [Iqs -> {"new", "pending", "answered", "aborted"}]
      /\ begun \in Seq(Nat)
      /\ stack \in Seq(Frames)
  BY DEF Sorts
<1>a. Frame("user") \in Frames /\ Frame("flush") \in Frames /\ Frame("disable") \in Frames
  BY NewFrames
<1>b. [type |-> "closed"] \in Incoming  BY DEF Incoming
<1>1. CASE UNCHANGED porterVars
  BY <1>0, <1>1 DEF porterVars, smVars, serverVars, recvVars, iqVars, Sorts
<1>2. CASE ReceiveClosed
  <2>1. inbox' \in Seq(Incoming)  BY <1>0, <1>2, TailFacts DEF ReceiveClosed
  <2>2. iqs' \in [Iqs -> {"new", "pending", "answered", "aborted"}]
    BY <1>0, <1>2 DEF ReceiveClosed, Aborted
  <2>3. remoteClosed' = TRUE  BY <1>2 DEF ReceiveClosed
  <2> QED  BY <1>0, <1>2, <2>1, <2>2, <2>3 DEF ReceiveClosed, smVars, serverVars, Sorts
<1>3. CASE ReceiveStanza
  <2>1. PICK s \in Read :
          /\ inbox' = Tail(inbox) /\ inbox # <<>>
          /\ counted' = counted + One(Counting(inbox[1]))
          /\ \/ s \in Later /\ held' = Append(held, s) /\ stack' = stack
             \/ /\ held' = held
                /\ stack' = IF saving THEN <<Frame("flush"), Dispatch(s)>> ELSE <<Dispatch(s)>>
    BY <1>3, ReceiveStanzaFacts
  <2>2. inbox' \in Seq(Incoming)  BY <1>0, <2>1, TailFacts
  <2>3. counted' \in Nat  BY <1>0, <2>1 DEF One
  <2>4. held' \in Seq(Later)  BY <1>0, <2>1, AppendFacts
  <2>5. stack' \in Seq(Frames)
    <3>1. Dispatch(s) \in Frames  BY NewFrames
    <3>2. \A f, g \in Frames : <<f>> \in Seq(Frames) /\ <<f, g>> \in Seq(Frames)  OBVIOUS
    <3>3. <<Dispatch(s)>> \in Seq(Frames) /\ <<Frame("flush"), Dispatch(s)>> \in Seq(Frames)
      BY <1>a, <3>1, <3>2
    <3> QED  BY <1>0, <2>1, <3>3
  <2> QED  BY <1>0, <1>3, <2>2, <2>3, <2>4, <2>5 DEF ReceiveStanza, smVars, serverVars, iqVars, Sorts
<1>4. CASE FlushStep
  <2>1. stack # <<>>  BY <1>4 DEF FlushStep, Running
  <2>2. held' \in Seq(Later) /\ stack' \in Seq(Frames)
    <3>1. CASE held = <<>>
      <4>1. Tail(stack) \in Seq(Frames)  BY <1>0, <2>1, TailFacts
      <4> QED  BY <1>0, <1>4, <3>1, <4>1 DEF FlushStep
    <3>2. CASE held # <<>>
      <4>1. Head(held) \in Later /\ Tail(held) \in Seq(Later)  BY <1>0, <3>2, TailFacts
      <4>2. Dispatch(Head(held)) \in Frames  BY <4>1, NewFrames DEF Later, Read
      <4>3. <<Dispatch(Head(held))>> \o stack \in Seq(Frames)  BY <1>0, <4>2, ConsFacts
      <4> QED  BY <1>4, <3>2, <4>1, <4>3 DEF FlushStep, StillFlushing
    <3> QED  BY <3>1, <3>2
  <2> QED  BY <1>0, <1>4, <2>2 DEF FlushStep, smVars, serverVars, iqVars, Sorts
<1>5. CASE Dispatching  BY <1>5, WalkSorts
<1>6. ASSUME NEW handled \in BOOLEAN, HandlerReturns(handled) PROVE Sorts'
  <2>1. stack' = SubSeq(stack, 3, Len(stack)) \/ stack' = Tail(stack)  BY <1>6 DEF HandlerReturns
  <2>2. stack # <<>>  BY <1>6 DEF HandlerReturns, InUser
  <2>3. SubSeq(stack, 3, Len(stack)) \in Seq(Frames)
    <3>1. 3 \in Int /\ Len(stack) \in Int /\ \A i \in 3 .. Len(stack) : stack[i] \in Frames  BY <1>0
    <3> QED  BY <3>1, SubSeqProperties
  <2>4. Tail(stack) \in Seq(Frames)  BY <1>0, <2>2, TailFacts
  <2>5. stack' \in Seq(Frames)  BY <2>1, <2>3, <2>4
  <2> QED  BY <1>0, <1>6, <2>5 DEF HandlerReturns, smVars, serverVars, recvVars, iqVars, Sorts
<1>7. CASE Listing
  <2>1. handlers' \in Seq(Heirs)
    <3>1. ASSUME NEW h \in Handlers, Register(h) PROVE handlers' \in Seq(Heirs)
      <4>1. h \in Heirs  BY DEF Heirs
      <4> QED  BY <1>0, <3>1, <4>1, InsertFacts DEF Register
    <3>2. CASE PingDisposed
      <4>1. Contains(handlers, "ping")  BY <3>2 DEF PingDisposed, Pinging
      <4> QED  BY <1>0, <3>2, <4>1, WithoutFacts DEF PingDisposed
    <3> QED  BY <1>7, <3>1, <3>2 DEF Listing
  <2>2. UNCHANGED <<smVars, closing, serverVars, inbox, saving, held, counted, remoteClosed, iqVars, begun, stack>>
    BY <1>7 DEF Listing, Register, PingDisposed
  <2> QED  BY <1>0, <2>1, <2>2 DEF smVars, serverVars, iqVars, Sorts
<1>8. ASSUME NEW h \in Handlers, Unregister(h) PROVE Sorts'
  <2>1. h \in Heirs /\ Contains(handlers, h)  BY <1>8 DEF Heirs, Unregister, ToSet, Contains
  <2>2. handlers' \in Seq(Heirs)  BY <1>0, <1>8, <2>1, WithoutFacts DEF Unregister
  <2>3. stack' = [k \in 1 .. Len(stack) |-> Freed(stack[k], h)]  BY <1>0, <1>8 DEF Unregister
  <2>4. \A k \in 1 .. Len(stack) : Freed(stack[k], h) \in Frames  BY <1>0, <2>1, FreedFrame
  <2>5. stack' \in Seq(Frames)
    <3>1. Len(stack) \in Nat  BY <1>0
    <3>2. \A n \in Nat : [1 .. n -> Frames] \subseteq Seq(Frames)  BY IsASeq
    <3> QED  BY <2>3, <2>4, <3>1, <3>2
  <2> QED  BY <1>0, <1>8, <2>2, <2>5 DEF Unregister, smVars, serverVars, iqVars, Sorts
<1>9. CASE EnableSaving
  <2>1. saving' = TRUE  BY <1>9 DEF EnableSaving
  <2> QED  BY <1>0, <1>9, <2>1 DEF EnableSaving, smVars, serverVars, iqVars, Sorts
<1>10. CASE DisableSaving
  <2>1. stack' = <<Frame("flush"), Frame("disable")>> \o stack  BY <1>10 DEF DisableSaving, FlushThenEnd
  <2>2. <<Frame("disable")>> \o stack \in Seq(Frames)  BY <1>0, <1>a, ConsFacts
  <2>3. <<Frame("flush")>> \o (<<Frame("disable")>> \o stack) \in Seq(Frames)  BY <1>a, <2>2, ConsFacts
  <2>4. stack' \in Seq(Frames)  BY <1>0, <1>a, <2>1, <2>3, TwoCons
  <2> QED  BY <1>0, <1>10, <2>4 DEF DisableSaving, smVars, serverVars, recvVars, iqVars, Sorts
<1>11. CASE SavingEnds
  <2>1. saving' = FALSE /\ stack # <<>> /\ stack' = Tail(stack)  BY <1>11 DEF SavingEnds, Running
  <2>2. stack' \in Seq(Frames)  BY <1>0, <2>1, TailFacts
  <2> QED  BY <1>0, <1>11, <2>1, <2>2 DEF SavingEnds, smVars, serverVars, iqVars, Sorts
<1>12. CASE Sending
  <2>1. CASE SendStanza
    <3>1. <<"message">> \in Whats /\ Send(<<"message">>)  BY <2>1 DEF Whats, SendStanza
    <3>2. out' \in Seq(OutItems) /\ unacked' \in Seq(Nat) /\ sent' \in Nat  BY <3>1, SendFacts
    <3> QED  BY <1>0, <2>1, <3>2 DEF SendStanza, serverVars, recvVars, iqVars, Sorts
  <2>2. ASSUME NEW i \in Iqs, NEW to \in To, SendIq(i, to) PROVE Sorts'
    <3>1. <<i>> \in Whats /\ Send(<<i>>)  BY <2>2 DEF Whats, SendIq
    <3>2. out' \in Seq(OutItems) /\ unacked' \in Seq(Nat) /\ sent' \in Nat  BY <3>1, SendFacts
    <3>3. iqs' \in [Iqs -> {"new", "pending", "answered", "aborted"}]  BY <1>0, <2>2 DEF SendIq
    <3> QED  BY <1>0, <2>2, <3>2, <3>3 DEF SendIq, serverVars, recvVars, Sorts
  <2> QED  BY <1>12, <2>1, <2>2 DEF Sending
<1>13. CASE CloseAsync
  <2>1. [kind |-> "last", h |-> counted] \in OutItems  BY <1>0, PlainItems
  <2>2. out' \in Seq(OutItems)  BY <1>0, <1>13, <2>1, AppendFacts DEF CloseAsync, LastAnswer
  <2>3. closing' = TRUE  BY <1>13 DEF CloseAsync
  <2> QED  BY <1>0, <1>13, <2>2, <2>3 DEF CloseAsync, serverVars, recvVars, iqVars, Sorts
<1>14. CASE PopUnacked
  <2>1. unacked # <<>> /\ unacked' = Tail(unacked) /\ fetched' = fetched \cup {Head(unacked)}
    BY <1>14 DEF PopUnacked, Fetch
  <2>2. Head(unacked) \in Nat /\ Tail(unacked) \in Seq(Nat)  BY <1>0, <2>1, TailFacts
  <2>3. unacked' \in Seq(Nat) /\ fetched' \subseteq Nat  BY <1>0, <2>1, <2>2
  <2> QED  BY <1>0, <1>14, <2>3 DEF PopUnacked, serverVars, recvVars, iqVars, Sorts
<1>15. CASE Delivering
  <2>1. serverSent' \in 0 .. MaxArriving /\ inbox' \in Seq(Incoming)
    <3>1. PICK x \in Arrivals : inbox' = Append(inbox, x) /\ x \in Incoming  BY <1>15, DeliveringFacts
    <3> QED  BY <1>0, <1>15, <3>1, AppendFacts, DeliveringFacts
  <2>2. UNCHANGED <<smVars, closing, got, serverGone, recvVars, iqVars, begun, stack>>  BY <1>15, DeliveringFacts
  <2> QED  BY <1>0, <2>1, <2>2 DEF smVars, recvVars, iqVars, Sorts
<1>16. CASE ServerRequests
  <2>1. PICK x \in Incoming : inbox' = Append(inbox, x)  BY <1>16, RequestsFacts
  <2>2. inbox' \in Seq(Incoming)  BY <1>0, <2>1, AppendFacts
  <2>3. UNCHANGED <<smVars, closing, serverVars, recvVars, iqVars, begun, stack>>  BY <1>16, RequestsFacts
  <2> QED  BY <1>0, <2>2, <2>3 DEF smVars, serverVars, recvVars, iqVars, Sorts
<1>17. CASE Serving
  <2>0. UNCHANGED Others  BY <1>17 DEF Serving
  <2>1. CASE ServerReads
    <3>1. out # <<>> /\ out' = Tail(out)  BY <2>1 DEF ServerReads
    <3>2. out' \in Seq(OutItems)  BY <1>0, <3>1, TailFacts
    <3>3. got' \in Nat  BY <1>0, <2>1 DEF ServerReads
    <3>4. [type |-> "a", h |-> got] \in Incoming  BY <1>0 DEF Incoming, AnswersIn
    <3>5. inbox' \in Seq(Incoming)  BY <1>0, <2>1, <3>4, AppendFacts DEF ServerReads
    <3> QED  BY <1>0, <2>0, <2>1, <3>2, <3>3, <3>5 DEF ServerReads, Others, recvVars, iqVars, Sorts
  <2>2. CASE ServerCloses
    <3>1. serverGone' = TRUE /\ inbox' = Append(inbox, [type |-> "closed"])  BY <2>2 DEF ServerCloses
    <3>2. inbox' \in Seq(Incoming)  BY <1>0, <1>b, <3>1, AppendFacts
    <3> QED  BY <1>0, <2>0, <2>2, <3>1, <3>2 DEF ServerCloses, smVars, Others, recvVars, iqVars, Sorts
  <2>3. CASE StreamBreaks
    <3>1. PICK k \in 0 .. Len(inbox) : inbox' = Append(SubSeq(inbox, 1, k), [type |-> "closed"])
      BY <2>3 DEF StreamBreaks
    <3>2. inbox' \in Seq(Incoming)
      <4>1. SubSeq(inbox, 1, k) \in Seq(Incoming)  BY <1>0, CountPrefix
      <4> QED  BY <1>b, <3>1, <4>1, AppendFacts
    <3>3. serverGone' = TRUE /\ out' = <<>>  BY <2>3 DEF StreamBreaks
    <3>4. out' \in Seq(OutItems)  BY <3>3
    <3> QED  BY <1>0, <2>0, <2>3, <3>2, <3>3, <3>4 DEF StreamBreaks, Others, recvVars, iqVars, Sorts
  <2> QED  BY <1>17, <2>1, <2>2, <2>3 DEF Serving
<1> QED  BY <1>1, <1>2, <1>3, <1>4, <1>5, <1>6, <1>7, <1>8, <1>9, <1>10, <1>11, <1>12, <1>13, <1>14,
            <1>15, <1>16, <1>17, Cases

-----------------------------------------------------------------------------
(* The stack keeps the order *)

LEMMA SameOrder ==
  ASSUME NEW st, NEW tt, NEW b, NEW h, NEW c, Order(st, b, h, c),
         TopIsNew(tt) <=> TopIsNew(st), LastIsNew(tt) <=> LastIsNew(st),
         TopIsNew(tt) => tt[1].stanza = st[1].stanza,
         LastIsNew(tt) => tt[Len(tt)].stanza = st[Len(st)].stanza
  PROVE  Order(tt, b, h, c)
BY DEF Order, One

LEMMA SwapFlushed ==
  ASSUME NEW st \in Seq(Frames), st # <<>>, NEW g \in Frames, st[1].fn # "flush", g.fn # "disable",
         NEW h, Flushed(st, h)
  PROVE  Flushed(<<g>> \o Tail(st), h)
<1> DEFINE t == <<g>> \o Tail(st)
<1>1. /\ Tail(st) \in Seq(Frames) /\ Len(Tail(st)) = Len(st) - 1 /\ Len(st) \in Nat \ {0}
      /\ \A k \in 1 .. Len(st) - 1 : Tail(st)[k] = st[k + 1]
  BY TailFacts
<1>2. /\ Len(t) = Len(Tail(st)) + 1 /\ t[1] = g
      /\ \A k \in 2 .. Len(Tail(st)) + 1 : t[k] = Tail(st)[k - 1]
  BY <1>1, ConsFacts
<1> HIDE DEF t
<1>3. Len(t) = Len(st)  BY <1>1, <1>2
<1>4. \A k \in 2 .. Len(st) : t[k] = st[k]
  <2> TAKE k \in 2 .. Len(st)
  <2>1. k \in 2 .. Len(Tail(st)) + 1 /\ k - 1 \in 1 .. Len(st) - 1 /\ k - 1 + 1 = k  BY <1>1
  <2> QED  BY <1>1, <1>2, <2>1
<1>5. ASSUME NEW k \in 1 .. Len(st), t[k].fn = "disable" \/ k = Len(st), h # <<>>
      PROVE  k > 1 /\ t[k - 1].fn = "flush"
  <2>1. k = 1 => Len(st) = 1  BY <1>2, <1>5
  <2>2. k # 1  BY <1>5, <2>1 DEF Flushed
  <2>3. k \in 2 .. Len(st) /\ k > 1  BY <1>1, <2>2
  <2>4. st[k - 1].fn = "flush"  BY <1>4, <1>5, <2>3 DEF Flushed
  <2>5. k - 1 # 1  BY <2>4
  <2>6. k - 1 \in 2 .. Len(st)  BY <1>1, <2>3, <2>5
  <2> QED  BY <1>4, <2>3, <2>4, <2>6
<1>6. Flushed(t, h)  BY <1>3, <1>5 DEF Flushed
<1> QED  BY <1>6 DEF t

LEMMA DisableFlushed ==
  ASSUME NEW st \in Seq(Frames), NEW h, Flushed(st, h)
  PROVE  Flushed(<<Frame("flush")>> \o (<<Frame("disable")>> \o st), h)
<1> DEFINE d == <<Frame("disable")>> \o st
           t == <<Frame("flush")>> \o d
<1>0. Frame("flush") \in Frames /\ Frame("disable") \in Frames  BY NewFrames
<1>1. /\ d \in Seq(Frames) /\ Len(d) = Len(st) + 1 /\ d[1] = Frame("disable")
      /\ \A k \in 2 .. Len(st) + 1 : d[k] = st[k - 1]
      /\ Len(st) \in Nat
  BY <1>0, ConsFacts
<1> HIDE DEF d
<1>2. /\ Len(t) = Len(d) + 1 /\ t[1] = Frame("flush")
      /\ \A k \in 2 .. Len(d) + 1 : t[k] = d[k - 1]
  BY <1>0, <1>1, ConsFacts
<1> HIDE DEF t
<1>3. Len(t) = Len(st) + 2  BY <1>1, <1>2
<1>4. t[1].fn = "flush"  BY <1>2 DEF Frame
<1>5. \A k \in 3 .. Len(t) : t[k] = st[k - 2] /\ k - 2 \in 1 .. Len(st)
  <2> TAKE k \in 3 .. Len(t)
  <2>1. k \in 2 .. Len(d) + 1 /\ k - 1 \in 2 .. Len(st) + 1 /\ k - 1 - 1 = k - 2 /\ k - 2 \in 1 .. Len(st)
    BY <1>1, <1>2
  <2> QED  BY <1>1, <1>2, <2>1
<1>6. ASSUME NEW k \in 1 .. Len(t), t[k].fn = "disable" \/ k = Len(t), h # <<>>
      PROVE  k > 1 /\ t[k - 1].fn = "flush"
  <2>1. k # 1  BY <1>3, <1>1, <1>4, <1>6
  <2>2. CASE k = 2  BY <1>4, <2>2
  <2>3. CASE k > 2
    <3>1. k \in 3 .. Len(t) /\ (k = Len(t) => k - 2 = Len(st))  BY <1>1, <1>3, <2>3
    <3>2. k - 2 > 1 /\ st[k - 2 - 1].fn = "flush"  BY <1>5, <1>6, <3>1 DEF Flushed
    <3>3. k - 1 \in 3 .. Len(t) /\ k - 1 - 2 = k - 2 - 1  BY <1>1, <1>3, <3>1, <3>2
    <3> QED  BY <1>5, <2>3, <3>2, <3>3
  <2> QED  BY <2>1, <2>2, <2>3
<1>7. Flushed(t, h)  BY <1>6 DEF Flushed
<1> QED  BY <1>7 DEF t, d

LEMMA NextButOne ==
  ASSUME NEW S, NEW s \in Seq(S), Len(s) > 1
  PROVE  SubSeq(s, 3, Len(s)) = Tail(Tail(s)) /\ Tail(s) # <<>>
<1>1. Len(s) \in Nat /\ s # <<>> /\ 2 \in 1 .. Len(s) /\ Len(s) \in 2 .. Len(s)  OBVIOUS
<1>2. Tail(s) = SubSeq(s, 2, Len(s))  BY <1>1, TailIsSubSeq
<1>3. Tail(SubSeq(s, 2, Len(s))) = SubSeq(s, 2 + 1, Len(s))  BY <1>1, HeadTailOfSubSeq
<1>4. Tail(s) # <<>>
  <2>1. Len(Tail(s)) = Len(s) - 1  BY <1>1, TailFacts
  <2>2. Len(Tail(s)) # 0  BY <1>1, <2>1
  <2>3. Len(<<>>) = 0  OBVIOUS
  <2> QED  BY <2>2, <2>3
<1> QED  BY <1>2, <1>3, <1>4

LEMMA WalkKeepsStack ==
  ASSUME Sorts, StackInv, Dispatching
  PROVE  StackInv'
<1> DEFINE f == stack[1]
<1>1. /\ stack # <<>> /\ f \in Walks /\ Walk(f) /\ f.stanza \in Read
      /\ begun' = Beginning(f, begun) /\ saving' = saving /\ counted' = counted /\ held' = held
  BY DispatchFacts
<1>2. stack' = Tail(stack) \/ \E h \in Heirs :
         \/ h \in Handlers /\ stack' = <<Frame("user"), AtNext(f, h)>> \o Tail(stack)
         \/ h \in Library /\ stack' = <<AtNext(f, h)>> \o Tail(stack)
  BY DispatchFacts
<1>0. stack \in Seq(Frames) /\ handlers \in Seq(Heirs) /\ held \in Seq(Later) /\ begun \in Seq(Nat)
      /\ counted \in Nat
  BY DEF Sorts
<1>a. /\ Shape(stack) /\ (~saving => held = <<>>) /\ Flushed(stack, held)
      /\ Order(stack, begun, held, counted) /\ Stamped(stack, counted)
  BY DEF StackInv
<1>b. Len(stack) \in Nat \ {0} /\ Tail(stack) \in Seq(Frames)  BY <1>0, <1>1, TailFacts
<1>3. Walk(f) /\ f.stanza.type = "r" => f.stanza.h = counted
  BY <1>a, <1>b DEF Stamped
<1>4. \A tt \in Seq(Frames) : Passed(stack, tt) => Order(tt, begun', held, counted)
  BY <1>0, <1>1, <1>a, BeginKeepsOrder
<1> HIDE DEF f
<1>5. CASE stack' = Tail(stack)
  <2>1. Shape(Tail(stack)) /\ Passed(stack, Tail(stack))  BY <1>0, <1>1, <1>a, PopShape, WalkPasses DEF f
  <2>2. Flushed(Tail(stack), held)  BY <1>0, <1>1, <1>a, PopFlushed DEF f, Walk
  <2>3. Stamped(Tail(stack), counted)  BY <1>0, <1>1, <1>a, StampedFacts
  <2> QED  BY <1>1, <1>4, <1>5, <1>a, <1>b, <2>1, <2>2, <2>3 DEF StackInv
<1>6. ASSUME NEW h \in Heirs, stack' = <<AtNext(f, h)>> \o Tail(stack)
                              \/ (h \in Handlers /\ stack' = <<Frame("user"), AtNext(f, h)>> \o Tail(stack))
      PROVE  StackInv'
  <2> DEFINE g == AtNext(f, h)
             t == <<g>> \o Tail(stack)
             u == <<Frame("user"), g>> \o Tail(stack)
  <2>1. /\ g \in Frames /\ g.fn = "dispatch" /\ g.stanza = f.stanza /\ g.at = h /\ h # None
    BY <1>0, <1>1, NextFrame
  <2> HIDE DEF g
  <2>2. Walk(g) /\ g.at # None  BY <2>1 DEF Walk
  <2>3. Passed(stack, t) /\ Passed(stack, u)  BY <1>0, <1>1, <1>a, <2>1, <2>2, WalkPasses DEF f
  <2>4. t \in Seq(Frames) /\ t # <<>> /\ t[1] = g  BY <1>b, <2>1, ConsFacts
  <2>5. Frame("user") \in Frames /\ u = <<Frame("user")>> \o t  BY <1>b, <2>1, NewFrames, TwoCons
  <2>6. u \in Seq(Frames)  BY <2>4, <2>5, ConsFacts
  <2>7. Shape(t)  BY <1>0, <1>1, <1>a, <2>1, <2>2, SwapShape DEF f
  <2>8. Flushed(t, held)  BY <1>0, <1>1, <1>a, <2>1, SwapFlushed DEF f, Walk
  <2>9. Stamped(t, counted)
    <3>1. Stamped(Tail(stack), counted)  BY <1>0, <1>1, <1>a, StampedFacts
    <3> QED  BY <1>1, <1>3, <1>b, <2>1, <3>1, StampedFacts
  <2>10. CASE stack' = t
    BY <1>1, <1>4, <1>a, <2>3, <2>4, <2>7, <2>8, <2>9, <2>10 DEF StackInv
  <2>11. CASE h \in Handlers /\ stack' = u
    <3>1. Frame("user").fn = "user"  BY DEF Frame
    <3> DEFINE v == Frame("user")
    <3> HIDE DEF t, v
    <3>2. v \in Frames /\ v.fn = "user" /\ u = <<v>> \o t  BY <2>5, <3>1 DEF v, t
    <3>3. Above(v, t[1], Len(t) = 1)  BY <2>1, <2>2, <2>4, <2>11, <3>2 DEF Above
    <3>4. Shape(<<v>> \o t)
      <4>1. ~Walk(v)  BY <3>2 DEF Walk
      <4> QED  BY <2>4, <2>7, <3>2, <3>3, <4>1, PushShape
    <3>5. Flushed(<<v>> \o t, held)  BY <2>4, <2>8, <3>2, PushFlushed
    <3>6. Stamped(<<v>> \o t, counted)
      <4>1. ~Walk(v)  BY <3>2 DEF Walk
      <4> QED  BY <2>4, <2>9, <3>2, <4>1, StampedFacts
    <3> HIDE DEF u
    <3>7. Order(u, begun', held, counted)  BY <1>4, <2>3, <2>6 DEF t, u
    <3> QED  BY <1>1, <1>a, <2>11, <3>2, <3>4, <3>5, <3>6, <3>7 DEF StackInv
  <2> QED  BY <1>6, <2>10, <2>11 DEF g
<1> QED  BY <1>2, <1>5, <1>6

LEMMA StackStep ==
  ASSUME Sorts, StackInv, Numbered(inbox, counted, serverSent, serverGone), [Next]_vars
  PROVE  StackInv'
<1>0. stack \in Seq(Frames) /\ handlers \in Seq(Heirs) /\ held \in Seq(Later) /\ begun \in Seq(Nat)
      /\ counted \in Nat /\ inbox \in Seq(Incoming) /\ saving \in BOOLEAN
  BY DEF Sorts
<1>s. /\ Shape(stack) /\ (~saving => held = <<>>) /\ Flushed(stack, held)
      /\ Order(stack, begun, held, counted) /\ Stamped(stack, counted)
  BY DEF StackInv
<1>f. /\ Frame("user") \in Frames /\ Frame("flush") \in Frames /\ Frame("disable") \in Frames
      /\ Frame("user").fn = "user" /\ Frame("flush").fn = "flush" /\ Frame("disable").fn = "disable"
  BY NewFrames DEF Frame
<1>1. CASE UNCHANGED <<stack, held, begun, counted>> /\ (saving' = saving \/ saving' = TRUE)
  BY <1>1, <1>s DEF StackInv
<1>2. CASE ReceiveStanza
  <2> DEFINE x == inbox[1]
             d(s) == Dispatch(s)
  <2>1. PICK s \in Read :
           /\ inbox # <<>> /\ stack = <<>>
           /\ counted' = counted + One(Counting(x))
           /\ Counting(x) => s.n = x.n
           /\ ~Counting(x) => s.n = 0
           /\ s.type = "r" => s.h = counted'
           /\ \/ /\ saving /\ s \in Later /\ Counting(x) /\ held' = Append(held, s) /\ stack' = stack
              \/ /\ held' = held
                 /\ stack' = IF saving THEN <<Frame("flush"), Dispatch(s)>> ELSE <<Dispatch(s)>>
    BY <1>2, ReceiveStanzaFacts
  <2>2. Counting(x) => s.n = counted + 1 /\ counted' = counted + 1 /\ s.n = counted'
    <3>1. serverSent \in Nat
      <4>1. MaxArriving \in Nat  BY ReceiveAssumption DEF ReceiveAssumption
      <4> QED  BY <4>1 DEF Sorts
    <3>2. Counting(x) => x.n = counted + 1  BY <1>0, <2>1, <3>1, NumberedTail
    <3> QED  BY <2>1, <3>2 DEF One
  <2>3. ~Counting(x) => counted' = counted /\ s.n = 0  BY <1>0, <2>1 DEF One
  <2>4. saving' = saving /\ begun' = begun  BY <1>2 DEF ReceiveStanza
  <2>5. ~TopIsNew(<<>>) /\ ~LastIsNew(<<>>)  BY DEF TopIsNew, LastIsNew
  <2>6. Len(begun) + 0 + Len(held) + 0 = counted /\ (\A k \in 1 .. Len(begun) : begun[k] = k)
        /\ \A k \in 1 .. Len(held) : held[k].n = Len(begun) + 0 + k
    BY <1>s, <2>1, <2>5 DEF Order, One
  <2>7. Len(begun) \in Nat /\ Len(held) \in Nat  BY <1>0
  <2> HIDE DEF x
  <2>8. CASE s \in Later /\ Counting(x) /\ held' = Append(held, s) /\ stack' = stack /\ saving
    <3>1. Len(held') = Len(held) + 1 /\ held'[Len(held) + 1] = s /\ \A k \in 1 .. Len(held) : held'[k] = held[k]
      BY <1>0, <2>8, AppendFacts
    <3>2. \A k \in 1 .. Len(held') : held'[k].n = Len(begun) + 0 + k
      <4> TAKE k \in 1 .. Len(held')
      <4>1. k \in 1 .. Len(held) \/ k = Len(held) + 1  BY <2>7, <3>1
      <4>2. s.n = Len(begun) + 0 + (Len(held) + 1)  BY <2>2, <2>6, <2>7, <2>8
      <4> QED  BY <2>6, <3>1, <4>1, <4>2
    <3>3. Len(begun) + 0 + Len(held') + 0 = counted'  BY <2>2, <2>6, <2>7, <2>8, <3>1
    <3>4. Order(<<>>, begun, held', counted')  BY <2>5, <2>6, <3>2, <3>3 DEF Order, One
    <3>5. Flushed(<<>>, held') /\ Stamped(<<>>, counted')  BY DEF Flushed, Stamped
    <3> QED  BY <1>s, <2>1, <2>4, <2>8, <3>4, <3>5 DEF StackInv
  <2>9. CASE held' = held /\ stack' = IF saving THEN <<Frame("flush"), Dispatch(s)>> ELSE <<Dispatch(s)>>
    <3> DEFINE f == Dispatch(s)
               g == Frame("flush")
               t == <<f>> \o <<>>
               u == <<g>> \o t
    <3>1. f \in Frames /\ Fresh(f) /\ f.stanza = s  BY NewFrames
    <3>2. g \in Frames /\ g.fn = "flush" /\ ~Fresh(g) /\ ~Walk(g)  BY <1>f DEF Fresh, Walk
    <3> HIDE DEF f, g
    <3>3. t = <<f>> /\ t \in Seq(Frames) /\ u = <<g, f>> /\ u \in Seq(Frames) /\ Len(t) = 1 /\ t[1] = f
      <4>1. <<f>> \in Seq(Frames) /\ t = <<f>>  BY <3>1, ConcatEmptySeq
      <4>2. <<g, f>> \o <<>> = <<g>> \o (<<f>> \o <<>>) /\ <<g, f>> \in Seq(Frames)
        BY <3>1, <3>2, TwoCons
      <4>3. <<g, f>> \o <<>> = <<g, f>>  BY <4>2, ConcatEmptySeq
      <4>4. t = <<f>> /\ u = <<g, f>>  BY <4>1, <4>2, <4>3
      <4>5. Len(<<f>>) = 1 /\ <<f>>[1] = f  OBVIOUS
      <4> QED  BY <4>1, <4>2, <4>4, <4>5
    <3>4. <<>> \in Seq(Frames) /\ Shape(<<>>) /\ Stamped(<<>>, counted')  BY DEF Shape, Stamped
    <3>5. f.fn = "dispatch"  BY <3>1 DEF Fresh
    <3>6. Shape(t)  BY <3>1, <3>4, <3>5, PushShape
    <3>7. Above(g, t[1], Len(t) = 1)  BY <3>1, <3>2, <3>3 DEF Above
    <3>8. Shape(u)
      <4> HIDE DEF t
      <4> QED  BY <3>2, <3>3, <3>6, <3>7, PushShape
    <3>9. Stamped(t, counted')  BY <2>1, <3>1, <3>4, StampedFacts
    <3>10. Stamped(u, counted')
      <4> HIDE DEF t
      <4> QED  BY <3>2, <3>3, <3>9, StampedFacts
    <3>11. ~TopIsNew(t) /\ (LastIsNew(t) <=> s.n # 0) /\ t[Len(t)] = f
      BY <3>1, <3>4, PushNew
    <3>12. ~TopIsNew(u) /\ (LastIsNew(u) <=> s.n # 0) /\ u[Len(u)] = f
      <4> HIDE DEF t
      <4>1. t # <<>>  BY <3>3
      <4> QED  BY <3>2, <3>3, <3>11, <4>1, PushNew
    <3>13. \A v : ~TopIsNew(v) /\ (LastIsNew(v) <=> s.n # 0) /\ v[Len(v)] = f => Order(v, begun, held, counted')
      <4> TAKE v
      <4> HAVE ~TopIsNew(v) /\ (LastIsNew(v) <=> s.n # 0) /\ v[Len(v)] = f
      <4>1. Len(begun) + 0 + Len(held) + One(LastIsNew(v)) = counted'
        <5>1. CASE s.n # 0
          <6>1. Counting(x) /\ One(LastIsNew(v)) = 1  BY <2>1, <5>1 DEF One
          <6>2. counted' = counted + 1  BY <2>2, <6>1
          <6> QED  BY <2>6, <2>7, <6>1, <6>2
        <5>2. CASE s.n = 0
          <6>1. ~Counting(x) /\ One(LastIsNew(v)) = 0
            <7>1. counted + 1 # 0  BY <1>0
            <7> QED  BY <2>2, <5>2, <7>1 DEF One
          <6> QED  BY <2>3, <2>6, <6>1
        <5> QED  BY <5>1, <5>2
      <4>2. LastIsNew(v) => v[Len(v)].stanza.n = counted'  BY <2>2, <2>3, <3>1
      <4>3. One(TopIsNew(v)) = 0  BY DEF One
      <4> QED  BY <2>6, <4>1, <4>2, <4>3 DEF Order
    <3>14. CASE saving
      <4>1. stack' = u  BY <2>9, <3>3, <3>14 DEF f, g
      <4>2. Flushed(u, held)
        <5>1. Len(u) = 2 /\ u[1] = g /\ u[2] = f  BY <3>3
        <5> QED  BY <3>2, <3>5, <5>1 DEF Flushed
      <4> HIDE DEF u
      <4> QED  BY <2>4, <2>9, <3>8, <3>10, <3>12, <3>13, <3>14, <4>1, <4>2 DEF StackInv
    <3>15. CASE ~saving
      <4>1. stack' = t /\ held = <<>>  BY <1>s, <2>9, <3>3, <3>15 DEF f
      <4>2. Flushed(t, held)  BY <4>1 DEF Flushed
      <4> HIDE DEF t
      <4> QED  BY <2>4, <2>9, <3>6, <3>9, <3>11, <3>13, <4>1, <4>2 DEF StackInv
    <3> QED  BY <3>14, <3>15
  <2> QED  BY <2>1, <2>8, <2>9
<1>3. CASE FlushStep
  <2>1. stack # <<>> /\ stack[1].fn = "flush" /\ Len(stack) \in Nat \ {0}
    <3>1. stack # <<>> /\ Head(stack).fn = "flush"  BY <1>3 DEF FlushStep, Running
    <3> QED  BY <1>0, <3>1, TailFacts
  <2>2. saving' = saving /\ begun' = begun /\ counted' = counted  BY <1>3 DEF FlushStep
  <2>3. Len(stack) > 1
    <3>1. Len(stack) # 1
      <4> SUFFICES ASSUME Len(stack) = 1 PROVE FALSE  OBVIOUS
      <4>1. 1 \in 1 .. Len(stack) /\ ~(1 > 1)  BY <2>1
      <4> QED  BY <1>s, <2>1, <4>1 DEF Shape
    <3>2. \A n \in Nat \ {0} : n > 1 \/ n = 1  OBVIOUS
    <3> QED  BY <2>1, <3>1, <3>2
  <2>4. ~TopIsNew(stack)  BY <2>1 DEF TopIsNew, Fresh
  <2>5. CASE held = <<>>
    <3>1. stack' = Tail(stack) /\ held' = held  BY <1>3, <2>5 DEF FlushStep
    <3>2. Shape(Tail(stack)) /\ Above(stack[1], stack[2], Len(stack) = 2)  BY <1>0, <1>s, <2>1, <2>3, PopShape
    <3>3. Flushed(Tail(stack), held)  BY <1>0, <1>s, <2>1, <2>5, PopFlushed
    <3>4. stack[2].fn = "disable" \/ (Fresh(stack[2]) /\ Len(stack) = 2)  BY <2>1, <3>2 DEF Above, Walk
    <3>5. ~TopIsNew(Tail(stack))
      <4>1. ~(Len(stack) > 2 /\ Fresh(stack[2]))
        <5>1. stack[2].fn = "disable" => ~Fresh(stack[2])  BY DEF Fresh
        <5>2. Len(stack) = 2 => ~(Len(stack) > 2)  OBVIOUS
        <5> QED  BY <3>4, <5>1, <5>2
      <4> QED  BY <1>0, <2>1, <4>1, PopNew
    <3>6. (LastIsNew(Tail(stack)) <=> LastIsNew(stack)) /\ Tail(stack)[Len(Tail(stack))] = stack[Len(stack)]
      BY <1>0, <2>1, <2>3, PopNew
    <3>7. Order(Tail(stack), begun, held, counted)  BY <1>s, <2>4, <3>5, <3>6, SameOrder
    <3>8. Stamped(Tail(stack), counted)  BY <1>0, <1>s, <2>1, StampedFacts
    <3> QED  BY <1>s, <2>2, <3>1, <3>2, <3>3, <3>7, <3>8 DEF StackInv
  <2>6. CASE held # <<>>
    <3> DEFINE s == Head(held)
               f == Dispatch(s)
               t == <<f>> \o stack
    <3>1. stack' = t /\ held' = Tail(held)  BY <1>3, <2>6 DEF FlushStep, StillFlushing
    <3>2. s = held[1] /\ s \in Later /\ Tail(held) \in Seq(Later) /\ Len(Tail(held)) = Len(held) - 1
          /\ Len(held) \in Nat \ {0} /\ \A k \in 1 .. Len(held) - 1 : Tail(held)[k] = held[k + 1]
      BY <1>0, <2>6, TailFacts
    <3>3. s \in Read /\ s.type # "r" /\ s.type # "a"
      <4>1. "a" \notin Types  BY ReceiveAssumption DEF ReceiveAssumption, Types
      <4> QED  BY <3>2, <4>1 DEF Later, Read, Arrivals
    <3>4. f \in Frames /\ Fresh(f) /\ f.stanza = s /\ Walk(f) /\ f.fn # "disable"
      BY <3>3, NewFrames DEF Fresh, Walk
    <3> HIDE DEF s, f
    <3>5. Above(f, stack[1], Len(stack) = 1)  BY <2>1, <3>4 DEF Above
    <3>6. Shape(t)  BY <1>0, <1>s, <2>1, <3>3, <3>4, <3>5, PushShape
    <3>7. Flushed(stack, Tail(held))  BY <1>s, <2>6, OtherFlushed
    <3>8. Flushed(t, Tail(held))  BY <1>0, <2>1, <3>4, <3>7, PushFlushed
    <3>9. Stamped(t, counted)  BY <1>0, <1>s, <3>3, <3>4, StampedFacts
    <3>10. TopIsNew(t) /\ (LastIsNew(t) <=> LastIsNew(stack)) /\ t[Len(t)] = stack[Len(stack)] /\ t[1] = f
      <4>1. t[1] = f  BY <1>0, <3>4, ConsFacts
      <4> QED  BY <1>0, <2>1, <3>4, <4>1, PushNew
    <3>11. Len(begun) + 0 + Len(held) + One(LastIsNew(stack)) = counted
           /\ \A k \in 1 .. Len(held) : held[k].n = Len(begun) + 0 + k
      BY <1>s, <2>4 DEF Order, One
    <3>12. Len(begun) \in Nat  BY <1>0
    <3>13. s.n = Len(begun) + 1
      <4>1. 1 \in 1 .. Len(held)  BY <3>2
      <4>2. s.n = Len(begun) + 0 + 1  BY <3>2, <3>11, <4>1
      <4> QED  BY <3>12, <4>2
    <3>14. \A k \in 1 .. Len(Tail(held)) : Tail(held)[k].n = Len(begun) + 1 + k
      <4> TAKE k \in 1 .. Len(Tail(held))
      <4>1. k \in 1 .. Len(held) - 1 /\ k + 1 \in 1 .. Len(held)  BY <3>2
      <4>2. Tail(held)[k].n = Len(begun) + 0 + (k + 1)  BY <3>2, <3>11, <4>1
      <4> QED  BY <3>12, <4>1, <4>2
    <3>15. Len(begun) + 1 + Len(Tail(held)) + One(LastIsNew(t)) = counted
      <4>1. One(LastIsNew(t)) = One(LastIsNew(stack)) /\ One(LastIsNew(stack)) \in Nat  BY <3>10 DEF One
      <4> QED  BY <3>2, <3>11, <3>12, <4>1
    <3> HIDE DEF t
    <3>16. Order(t, begun, Tail(held), counted)
      <4>1. One(TopIsNew(t)) = 1  BY <3>10 DEF One
      <4> QED  BY <1>s, <3>4, <3>10, <3>13, <3>14, <3>15, <4>1 DEF Order
    <3>17. ~saving' => held' = <<>>
      <4>1. saving  BY <1>s, <2>6
      <4> QED  BY <2>2, <4>1
    <3> QED  BY <2>2, <3>1, <3>6, <3>8, <3>9, <3>16, <3>17 DEF StackInv
  <2> QED  BY <2>5, <2>6
<1>4. CASE Dispatching  BY <1>4, WalkKeepsStack
<1>5. ASSUME NEW handled \in BOOLEAN, HandlerReturns(handled) PROVE StackInv'
  <2>1. stack # <<>> /\ stack[1].fn = "user" /\ Len(stack) \in Nat \ {0}
    <3>1. stack # <<>> /\ Head(stack).fn = "user"  BY <1>5 DEF HandlerReturns, InUser
    <3> QED  BY <1>0, <3>1, TailFacts
  <2>2. UNCHANGED <<saving, begun, counted, held>>  BY <1>5 DEF HandlerReturns, recvVars
  <2>3. Len(stack) > 1
    <3>1. Len(stack) # 1
      <4> SUFFICES ASSUME Len(stack) = 1 PROVE FALSE  OBVIOUS
      <4>1. 1 \in 1 .. Len(stack) /\ ~(1 > 1)  BY <2>1
      <4> QED  BY <1>s, <2>1, <4>1 DEF Shape
    <3>2. \A n \in Nat \ {0} : n > 1 \/ n = 1  OBVIOUS
    <3> QED  BY <2>1, <3>1, <3>2
  <2> DEFINE t == Tail(stack)
  <2>4. Above(stack[1], stack[2], Len(stack) = 2) /\ t[1] = stack[2] /\ Shape(t) /\ t \in Seq(Frames)
    BY <1>0, <1>s, <2>1, <2>3, PopShape, TailFacts
  <2>5. Walk(t[1]) /\ t[1].at \in Handlers  BY <2>1, <2>4 DEF Above, Walk
  <2>6. ~Fresh(t[1])
    <3>1. None \notin Handlers  BY ReceiveAssumption DEF ReceiveAssumption
    <3> QED  BY <2>5, <3>1 DEF Fresh
  <2>7. ~TopIsNew(stack) /\ ~TopIsNew(t)
    BY <2>1, <2>6 DEF TopIsNew, Fresh
  <2>8. (LastIsNew(t) <=> LastIsNew(stack)) /\ t[Len(t)] = stack[Len(stack)]  BY <1>0, <2>1, <2>3, PopNew
  <2>9. Order(t, begun, held, counted)  BY <1>s, <2>7, <2>8, SameOrder
  <2>10. Flushed(t, held) /\ Stamped(t, counted)  BY <1>0, <1>s, <2>1, PopFlushed, StampedFacts
  <2>11. SubSeq(stack, 3, Len(stack)) = Tail(t) /\ t # <<>>  BY <1>0, <2>3, NextButOne
  <2> HIDE DEF t
  <2>12. CASE stack' = t
    BY <1>s, <2>2, <2>4, <2>9, <2>10, <2>12 DEF StackInv
  <2>13. CASE stack' = Tail(t)
    <3>1. Shape(Tail(t)) /\ Passed(t, Tail(t))  BY <2>4, <2>5, <2>11, PopShape, WalkPasses
    <3>2. Flushed(Tail(t), held) /\ Stamped(Tail(t), counted)
      BY <2>4, <2>5, <2>10, <2>11, PopFlushed, StampedFacts DEF Walk
    <3>3. LastIsNew(Tail(t)) <=> LastIsNew(t)
      <4>1. Len(t) \in Nat \ {0}  BY <2>4, <2>11, TailFacts
      <4>2. CASE Len(t) > 1  BY <3>1, <4>2 DEF Passed
      <4>3. CASE Len(t) = 1  BY <2>6, <3>1, <4>3 DEF Passed, LastIsNew
      <4>4. \A n \in Nat \ {0} : n > 1 \/ n = 1  OBVIOUS
      <4>5. Len(t) > 1 \/ Len(t) = 1  BY <4>1, <4>4
      <4> QED  BY <4>2, <4>3, <4>5
    <3>4. Order(Tail(t), begun, held, counted)
      BY <2>7, <2>9, <3>1, <3>3, SameOrder DEF Passed
    <3> QED  BY <1>s, <2>2, <2>13, <3>1, <3>2, <3>4 DEF StackInv
  <2>14. stack' = t \/ stack' = Tail(t)  BY <1>5, <2>11 DEF HandlerReturns, t
  <2> QED  BY <2>12, <2>13, <2>14
<1>6. ASSUME NEW h \in Handlers, Unregister(h) PROVE StackInv'
  <2>1. h \in Heirs  BY DEF Heirs
  <2>2. stack' = [k \in 1 .. Len(stack) |-> Freed(stack[k], h)]  BY <1>0, <1>6 DEF Unregister
  <2>3. stack' \in Seq(Frames)
    <3>1. Sorts'  BY <1>6, SortsStep DEF Next, ReceiveNext
    <3> QED  BY <3>1 DEF Sorts
  <2>4. Len(stack') = Len(stack)
    <3>1. Len(stack) \in Nat /\ DOMAIN stack' = 1 .. Len(stack)  BY <1>0, <2>2
    <3> QED  BY <2>3, <3>1
  <2>5. Alike(stack, stack')
    <3>1. ASSUME NEW k \in 1 .. Len(stack)
          PROVE  stack'[k].fn = stack[k].fn
                 /\ (Walk(stack[k]) => stack'[k].stanza = stack[k].stanza /\ stack'[k].at = stack[k].at)
      <4>1. stack[k] \in Frames /\ stack'[k] = Freed(stack[k], h)  BY <1>0, <2>2
      <4> QED  BY <2>1, <4>1, FreedFrame DEF Walk
    <3> QED  BY <2>4, <3>1 DEF Alike
  <2>6. UNCHANGED <<saving, begun, counted, held>>  BY <1>6 DEF Unregister
  <2>7. Shape(stack') /\ Flushed(stack', held) /\ Order(stack', begun, held, counted) /\ Stamped(stack', counted)
    BY <1>0, <1>s, <2>3, <2>5, AlikeKeeps
  <2> QED  BY <1>s, <2>6, <2>7 DEF StackInv
<1>7. CASE DisableSaving
  <2> DEFINE d == Frame("disable")
             g == Frame("flush")
             t == <<d>> \o stack
             u == <<g>> \o t
  <2>1. stack' = u
    <3>1. stack' = <<g, d>> \o stack  BY <1>7 DEF DisableSaving, FlushThenEnd
    <3>2. g \in Frames /\ d \in Frames  BY <1>f
    <3> HIDE DEF g, d
    <3>3. <<g, d>> \o stack = <<g>> \o (<<d>> \o stack)
      <4>1. stack \in Seq(Frames)  BY <1>0
      <4> QED  BY <3>2, <4>1, TwoCons
    <3> QED  BY <3>1, <3>3
  <2>2. UNCHANGED <<saving, begun, counted, held>>  BY <1>7 DEF DisableSaving, recvVars
  <2>3. stack # <<>> => stack[1].fn = "user"
    <3>1. stack # <<>> => Head(stack).fn = "user"  BY <1>7 DEF DisableSaving, CanCall, AtLoop, InUser
    <3> QED  BY <1>0, <3>1, TailFacts
  <2>4. Flushed(u, held)  BY <1>0, <1>s, DisableFlushed
  <2>5. d \in Frames /\ g \in Frames /\ d.fn = "disable" /\ g.fn = "flush"  BY <1>f
  <2> HIDE DEF d, g
  <2>6. ~Walk(d) /\ ~Walk(g) /\ ~Fresh(d) /\ ~Fresh(g)  BY <2>5 DEF Walk, Fresh
  <2>7. t \in Seq(Frames) /\ t # <<>> /\ t[1] = d  BY <1>0, <2>5, ConsFacts
  <2>8. Shape(t)
    <3>1. stack # <<>> => Above(d, stack[1], Len(stack) = 1)  BY <2>3, <2>5 DEF Above
    <3> QED  BY <1>0, <1>s, <2>5, <2>6, <3>1, PushShape
  <2>9. Stamped(t, counted)  BY <1>0, <1>s, <2>5, <2>6, StampedFacts
  <2>10. ~TopIsNew(t) /\ (LastIsNew(t) <=> LastIsNew(stack)) /\ (LastIsNew(stack) => t[Len(t)] = stack[Len(stack)])
    <3>1. stack = <<>> => ~LastIsNew(stack)  BY DEF LastIsNew
    <3> QED  BY <1>0, <2>5, <2>6, <3>1, PushNew
  <2> HIDE DEF t
  <2>11. Shape(u)
    <3>1. Above(g, t[1], Len(t) = 1)  BY <2>5, <2>7 DEF Above
    <3> QED  BY <2>5, <2>6, <2>7, <2>8, <3>1, PushShape
  <2>12. Stamped(u, counted)  BY <2>5, <2>6, <2>7, <2>9, StampedFacts
  <2>13. ~TopIsNew(u) /\ (LastIsNew(u) <=> LastIsNew(t)) /\ u[Len(u)] = t[Len(t)]
    BY <2>5, <2>6, <2>7, PushNew
  <2> HIDE DEF u
  <2>14. ~TopIsNew(stack)
    <3>1. Len(stack) > 1 => stack # <<>>  BY <1>0
    <3> QED  BY <2>3, <3>1 DEF TopIsNew, Fresh
  <2>15. Order(u, begun, held, counted)
    BY <1>s, <2>10, <2>13, <2>14, SameOrder
  <2> QED  BY <1>s, <2>1, <2>2, <2>4, <2>11, <2>12, <2>15 DEF StackInv, u, t, d, g
<1>8. CASE SavingEnds
  <2>1. stack # <<>> /\ stack[1].fn = "disable" /\ Len(stack) \in Nat \ {0}
    <3>1. stack # <<>> /\ Head(stack).fn = "disable"  BY <1>8 DEF SavingEnds, Running
    <3> QED  BY <1>0, <3>1, TailFacts
  <2>2. UNCHANGED <<begun, counted, held>> /\ stack' = Tail(stack)  BY <1>8 DEF SavingEnds
  <2>3. held = <<>>
    <3>1. 1 \in 1 .. Len(stack) /\ ~(1 > 1)  BY <2>1
    <3> QED  BY <1>s, <2>1, <3>1 DEF Flushed
  <2>4. Shape(Tail(stack)) /\ Flushed(Tail(stack), held) /\ Stamped(Tail(stack), counted)
    BY <1>0, <1>s, <2>1, PopShape, PopFlushed, StampedFacts
  <2>5. ~TopIsNew(stack)  BY <2>1 DEF TopIsNew, Fresh
  <2>6. ~TopIsNew(Tail(stack))
    <3>1. Len(stack) > 2 => ~Fresh(stack[2])
      <4> SUFFICES ASSUME Len(stack) > 2 PROVE ~Fresh(stack[2])  OBVIOUS
      <4>0. Len(stack) > 1  BY <2>1
      <4>1. Above(stack[1], stack[2], Len(stack) = 2)  BY <1>0, <1>s, <2>1, <4>0, PopShape
      <4> QED  BY <2>1, <4>1 DEF Above, Walk, Fresh
    <3> QED  BY <1>0, <2>1, <3>1, PopNew
  <2>7. /\ LastIsNew(Tail(stack)) <=> Len(stack) > 1 /\ LastIsNew(stack)
        /\ Len(stack) > 1 => Tail(stack)[Len(Tail(stack))] = stack[Len(stack)]
    BY <1>0, <2>1, PopNew
  <2>8. LastIsNew(stack) => Len(stack) > 1
    <3>1. Len(stack) = 1 => ~LastIsNew(stack)  BY <2>1 DEF LastIsNew, Fresh
    <3>2. Len(stack) = 1 \/ Len(stack) > 1  BY <2>1
    <3> QED  BY <3>1, <3>2
  <2>9. Order(Tail(stack), begun, held, counted)  BY <1>s, <2>5, <2>6, <2>7, <2>8, SameOrder
  <2> QED  BY <2>2, <2>3, <2>4, <2>9 DEF StackInv
<1>9. UNCHANGED <<stack, held, begun, counted, saving>>
      \/ EnableSaving \/ ReceiveStanza \/ FlushStep \/ Dispatching
      \/ (\E handled \in BOOLEAN : HandlerReturns(handled)) \/ (\E h \in Handlers : Unregister(h))
      \/ DisableSaving \/ SavingEnds
  <2>1. UNCHANGED porterVars => UNCHANGED <<stack, held, begun, counted, saving>>  BY DEF porterVars, recvVars
  <2>2. ReceiveClosed => UNCHANGED <<stack, held, begun, counted, saving>>  BY DEF ReceiveClosed
  <2>3. Listing => UNCHANGED <<stack, held, begun, counted, saving>>  BY DEF Listing, Register, PingDisposed
  <2>4. Sending => UNCHANGED <<stack, held, begun, counted, saving>>
    BY DEF Sending, SendStanza, SendIq, recvVars
  <2>5. CloseAsync \/ PopUnacked => UNCHANGED <<stack, held, begun, counted, saving>>
    BY DEF CloseAsync, PopUnacked, recvVars
  <2>6. Delivering \/ ServerRequests => UNCHANGED <<stack, held, begun, counted, saving>>
    BY DeliveringFacts, RequestsFacts DEF recvVars
  <2>7. Serving => UNCHANGED <<stack, held, begun, counted, saving>>  BY DEF Serving, Others, recvVars
  <2> QED  BY <2>1, <2>2, <2>3, <2>4, <2>5, <2>6, <2>7, Cases
<1>10. EnableSaving => UNCHANGED <<stack, held, begun, counted>> /\ saving' = TRUE  BY DEF EnableSaving
<1> QED  BY <1>1, <1>2, <1>3, <1>4, <1>5, <1>6, <1>7, <1>8, <1>9, <1>10

-----------------------------------------------------------------------------
(* The invariant of the order, step by step *)

LEMMA NumberedStep ==
  ASSUME Sorts, Numbered(inbox, counted, serverSent, serverGone), [Next]_vars
  PROVE  Numbered(inbox', counted', serverSent', serverGone')
<1>0. inbox \in Seq(Incoming) /\ counted \in Nat /\ serverSent \in Nat /\ serverGone \in BOOLEAN
  <2>1. MaxArriving \in Nat  BY ReceiveAssumption DEF ReceiveAssumption
  <2> QED  BY <2>1 DEF Sorts
<1>1. CASE UNCHANGED <<inbox, counted, serverSent, serverGone>>  BY <1>1
<1>2. CASE ReceiveClosed
  <2>1. inbox # <<>> /\ Head(inbox).type = "closed" /\ inbox' = Tail(inbox)
        /\ UNCHANGED <<counted, serverSent, serverGone>>
    BY <1>2 DEF ReceiveClosed, serverVars
  <2>2. inbox[1].type = "closed"  BY <1>0, <2>1, TailFacts
  <2>3. counted + One(Counting(inbox[1])) = counted  BY <1>0, <2>2 DEF Counting, One
  <2>4. Numbered(Tail(inbox), counted + One(Counting(inbox[1])), serverSent, serverGone)
    BY <1>0, <2>1, NumberedTail
  <2> QED  BY <2>1, <2>3, <2>4
<1>3. CASE ReceiveStanza
  <2>1. inbox # <<>> /\ inbox' = Tail(inbox) /\ counted' = counted + One(Counting(inbox[1]))
    BY <1>3, ReceiveStanzaFacts
  <2>2. UNCHANGED <<serverSent, serverGone>>  BY <1>3 DEF ReceiveStanza, serverVars
  <2>3. Numbered(Tail(inbox), counted + One(Counting(inbox[1])), serverSent, serverGone)
    BY <1>0, <2>1, NumberedTail
  <2> QED  BY <2>1, <2>2, <2>3
<1>4. CASE Delivering
  <2>1. ~serverGone /\ serverSent' = serverSent + 1 /\ UNCHANGED <<counted, serverGone>>
    BY <1>4, DeliveringFacts DEF recvVars
  <2>2. PICK x \in Arrivals : Counting(x) /\ x.n = serverSent + 1 /\ inbox' = Append(inbox, x)
                              /\ x \in Incoming
    BY <1>4, DeliveringFacts
  <2>3. x.type # "closed" /\ serverSent' \in Nat  BY <1>0, <2>1, <2>2 DEF Counting
  <2>4. Numbered(Append(inbox, x), counted, serverSent', serverGone)
    BY <1>0, <2>1, <2>2, <2>3, NumberedAppend
  <2> QED  BY <2>1, <2>2, <2>4
<1>5. CASE ServerRequests
  <2>1. UNCHANGED <<counted, serverSent, serverGone>>  BY <1>5, RequestsFacts DEF recvVars, serverVars
  <2>2. PICK x \in Incoming : inbox' = Append(inbox, x) /\ ~Counting(x) /\ x.type # "closed"
    BY <1>5, RequestsFacts
  <2>3. Numbered(Append(inbox, x), counted, serverSent, serverGone)
    BY <1>0, <2>2, NumberedAppend
  <2> QED  BY <2>1, <2>2, <2>3
<1>6. CASE Serving
  <2>1. counted' = counted /\ serverSent' = serverSent
    BY <1>6 DEF Serving, Others, recvVars, ServerReads, ServerCloses, StreamBreaks
  <2> DEFINE c == [type |-> "closed"]
             a == [type |-> "a", h |-> got]
  <2>2. c \in Incoming /\ ~Counting(c) /\ c.type = "closed"  BY DEF Incoming, Counting
  <2>3. a \in Incoming /\ ~Counting(a) /\ a.type = "a"
    <3>1. got \in Nat  BY DEF Sorts
    <3> QED  BY <3>1 DEF Incoming, AnswersIn, Counting
  <2> HIDE DEF c, a
  <2>4. CASE ServerReads
    <3>1. serverGone' = serverGone  BY <2>4 DEF ServerReads
    <3>2. inbox' = Append(inbox, a) \/ inbox' = inbox  BY <2>4 DEF ServerReads, a
    <3>3. Numbered(Append(inbox, a), counted, serverSent, serverGone)
      BY <1>0, <2>3, NumberedAppend
    <3> QED  BY <2>1, <3>1, <3>2, <3>3
  <2>5. CASE ServerCloses
    <3>1. serverGone' = TRUE /\ inbox' = Append(inbox, c)  BY <2>5 DEF ServerCloses, c
    <3>2. Numbered(Append(inbox, c), counted, serverSent, TRUE)
      BY <1>0, <2>2, NumberedAppend
    <3> QED  BY <2>1, <3>1, <3>2
  <2>6. CASE StreamBreaks
    <3>1. PICK k \in 0 .. Len(inbox) : inbox' = Append(SubSeq(inbox, 1, k), c)
      BY <2>6 DEF StreamBreaks, c
    <3>2. serverGone' = TRUE  BY <2>6 DEF StreamBreaks
    <3> DEFINE p == SubSeq(inbox, 1, k)
    <3>3. p \in Seq(Incoming)  BY <1>0
    <3>4. Numbered(p, counted, serverSent, TRUE)  BY <1>0, NumberedPrefix
    <3> HIDE DEF p
    <3>5. Numbered(Append(p, c), counted, serverSent, TRUE)
      BY <1>0, <2>2, <3>3, <3>4, NumberedAppend
    <3> QED  BY <2>1, <3>1, <3>2, <3>5 DEF p
  <2> QED  BY <1>6, <2>4, <2>5, <2>6 DEF Serving
<1>7. \/ UNCHANGED <<inbox, counted, serverSent, serverGone>>
      \/ ReceiveClosed \/ ReceiveStanza \/ Delivering \/ ServerRequests \/ Serving
  <2>1. UNCHANGED porterVars => UNCHANGED <<inbox, counted, serverSent, serverGone>>
    BY DEF porterVars, recvVars, serverVars
  <2>2. FlushStep => UNCHANGED <<inbox, counted, serverSent, serverGone>>
    BY DEF FlushStep, serverVars
  <2>3. Dispatching => UNCHANGED <<inbox, counted, serverSent, serverGone>>  BY DispatchFacts
  <2>4. (\E handled \in BOOLEAN : HandlerReturns(handled)) => UNCHANGED <<inbox, counted, serverSent, serverGone>>
    BY DEF HandlerReturns, recvVars, serverVars
  <2>5. Listing => UNCHANGED <<inbox, counted, serverSent, serverGone>>
    BY DEF Listing, Register, PingDisposed, serverVars
  <2>6. (\E h \in Handlers : Unregister(h)) => UNCHANGED <<inbox, counted, serverSent, serverGone>>
    BY DEF Unregister, serverVars
  <2>7. EnableSaving \/ DisableSaving \/ SavingEnds => UNCHANGED <<inbox, counted, serverSent, serverGone>>
    BY DEF EnableSaving, DisableSaving, SavingEnds, serverVars, recvVars
  <2>8. Sending => UNCHANGED <<inbox, counted, serverSent, serverGone>>
    BY DEF Sending, SendStanza, SendIq, recvVars, serverVars
  <2>9. CloseAsync \/ PopUnacked => UNCHANGED <<inbox, counted, serverSent, serverGone>>
    BY DEF CloseAsync, PopUnacked, recvVars, serverVars
  <2> QED  BY <2>1, <2>2, <2>3, <2>4, <2>5, <2>6, <2>7, <2>8, <2>9, Cases
<1> QED  BY <1>1, <1>2, <1>3, <1>4, <1>5, <1>6, <1>7

\* The part of the invariant that says what a dispatch begins.
LEMMA BeginsNext ==
  ASSUME Sorts, StackInv, Dispatching
  PROVE  LET f == stack[1] IN
         /\ begun' \in Seq(Nat) /\ Len(begun) <= Len(begun')
         /\ f.stanza.n = 0 => Len(stack) = 1
         /\ f.at # None \/ f.stanza.n = 0 => begun' = begun
         /\ f.at = None /\ f.stanza.n # 0 =>
              begun' = Append(begun, f.stanza.n) /\ f.stanza.n = Len(begun) + 1
<1> DEFINE f == stack[1]
<1>1. stack # <<>> /\ Walk(f) /\ begun' = Beginning(f, begun)  BY DispatchFacts
<1>2. stack \in Seq(Frames) /\ held \in Seq(Later) /\ begun \in Seq(Nat) /\ counted \in Nat
  BY DEF Sorts
<1>3. Shape(stack) /\ Flushed(stack, held) /\ Order(stack, begun, held, counted)  BY DEF StackInv
<1>4. Passed(stack, Tail(stack))  BY <1>1, <1>2, <1>3, WalkPasses
<1>5. LET b2 == Beginning(f, begun)
      IN /\ b2 \in Seq(Nat) /\ Len(begun) <= Len(b2)
         /\ f.stanza.n = 0 => Len(stack) = 1
         /\ f.at = None /\ f.stanza.n # 0 => b2 = Append(begun, f.stanza.n) /\ f.stanza.n = Len(begun) + 1
  BY <1>1, <1>2, <1>3, <1>4, BeginKeepsOrder
<1>6. f.at # None \/ f.stanza.n = 0 => Beginning(f, begun) = begun  BY DEF Beginning
<1> QED  BY <1>1, <1>5, <1>6

LEMMA AcksStep ==
  ASSUME Sorts, StackInv, Acked(out, begun), [Next]_vars
  PROVE  Acked(out', begun')
<1>0. out \in Seq(OutItems) /\ begun \in Seq(Nat) /\ stack \in Seq(Frames) /\ counted \in Nat
      /\ held \in Seq(Later)
  BY DEF Sorts
<1>1. CASE UNCHANGED <<out, begun>>  BY <1>1
<1>2. CASE Dispatching
  <2> DEFINE f == stack[1]
             s == f.stanza
  <2>1. begun' \in Seq(Nat) /\ Len(begun) <= Len(begun')  BY <1>2, BeginsNext
  <2>2. Acked(out, begun')  BY <1>0, <2>1, AckedFacts
  <2>3. stack # <<>> /\ Walk(f) /\ s \in Read  BY <1>2, DispatchFacts
  <2>4. \/ s.type = "iq" /\ Reply(s)
        \/ s.type = "r" /\ SendAnswer(s.h)
        \/ out' = out
    BY <1>2, DispatchFacts
  <2> HIDE DEF s
  <2>5. CASE s.type = "iq" /\ Reply(s)
    <3>1. s \in Arrivals /\ s.n # 0  BY <2>3, <2>5, ReadFacts
    <3> DEFINE w == ReplyTo(s)
    <3>2. w \in Whats /\ Carrying(w) \in OutItems /\ Carrying(w).kind = "stanza"
      BY <3>1, PlainItems
    <3>3. Send(w)  BY <2>5 DEF Reply
    <3> HIDE DEF w
    <3>4. \/ out' = out
          \/ out' = Append(Append(out, Carrying(w)), Request)
          \/ out' = Append(out, Carrying(w))
      BY <3>2, <3>3, SendFacts
    <3>5. Append(out, Carrying(w)) \in Seq(OutItems)  BY <1>0, <3>2
    <3>6. Acked(Append(out, Carrying(w)), begun')  BY <1>0, <2>1, <2>2, <3>2, AckedFacts
    <3>7. Request \in OutItems /\ Request.kind # "a"  BY PlainItems
    <3>8. Acked(Append(Append(out, Carrying(w)), Request), begun')
      BY <2>1, <3>5, <3>6, <3>7, AckedFacts
    <3> QED  BY <2>2, <3>4, <3>6, <3>8
  <2>6. CASE s.type = "r" /\ SendAnswer(s.h)
    <3>1. s.n = 0 /\ s.h \in Nat  BY <2>3, <2>6, ReadFacts
    <3>2. Len(stack) = 1 /\ begun' = begun  BY <1>2, <3>1, BeginsNext DEF s
    <3>3. s.h = counted
      <4>1. 1 \in 1 .. Len(stack) /\ stack[1].stanza.type = "r"  BY <2>6, <3>2 DEF s
      <4> QED  BY <2>3, <4>1 DEF StackInv, Stamped, s
    <3>4. held = <<>>
      <4>1. 1 \in 1 .. Len(stack) /\ ~(1 > 1)  BY <3>2
      <4> QED  BY <3>2, <4>1 DEF StackInv, Flushed
    <3>5. counted = Len(begun)
      <4>1. ~TopIsNew(stack)  BY <3>2 DEF TopIsNew
      <4>2. ~LastIsNew(stack)  BY <3>1, <3>2 DEF LastIsNew, s
      <4>3. Len(begun) + 0 + Len(held) + 0 = counted  BY <4>1, <4>2 DEF StackInv, Order, One
      <4>4. Len(held) = 0 /\ Len(begun) \in Nat  BY <1>0, <3>4
      <4> QED  BY <4>3, <4>4
    <3>6. out' = out \/ out' = Append(out, Answer(s.h))  BY <2>6 DEF SendAnswer
    <3> DEFINE a == Answer(s.h)
    <3>7. a \in OutItems /\ a.h <= Len(begun)
      <4>1. a.h = s.h  BY DEF Answer
      <4>2. a \in OutItems  BY <3>1, PlainItems DEF Answer
      <4>3. Len(begun) \in Nat  BY <1>0
      <4> QED  BY <3>3, <3>5, <4>1, <4>2, <4>3
    <3> HIDE DEF a
    <3>8. Acked(Append(out, a), begun)  BY <1>0, <3>7, AckedFacts
    <3> QED  BY <3>2, <3>6, <3>8 DEF a
  <2> QED  BY <2>2, <2>4, <2>5, <2>6
<1>3. CASE Sending
  <2>1. PICK w \in Whats : Send(w)
    <3>1. SendStanza => Send(<<"message">>) /\ <<"message">> \in Whats  BY DEF SendStanza, Whats
    <3>2. \A i \in Iqs, to \in To : SendIq(i, to) => Send(<<i>>) /\ <<i>> \in Whats
      BY DEF SendIq, Whats
    <3> QED  BY <1>3, <3>1, <3>2 DEF Sending
  <2>2. begun' = begun  BY <1>3 DEF Sending, SendStanza, SendIq
  <2>3. Carrying(w) \in OutItems /\ Carrying(w).kind = "stanza"  BY PlainItems
  <2>4. \/ out' = out
        \/ out' = Append(Append(out, Carrying(w)), Request)
        \/ out' = Append(out, Carrying(w))
    BY <2>1, SendFacts
  <2>5. Append(out, Carrying(w)) \in Seq(OutItems)  BY <1>0, <2>3
  <2>6. Acked(Append(out, Carrying(w)), begun)  BY <1>0, <2>3, AckedFacts
  <2>7. Request \in OutItems /\ Request.kind # "a"  BY PlainItems
  <2>8. Acked(Append(Append(out, Carrying(w)), Request), begun)
    BY <1>0, <2>5, <2>6, <2>7, AckedFacts
  <2> QED  BY <2>2, <2>4, <2>6, <2>8
<1>4. CASE CloseAsync
  <2> DEFINE l == [kind |-> "last", h |-> counted]
  <2>1. (out' = out \/ out' = Append(out, l)) /\ begun' = begun  BY <1>4 DEF CloseAsync, LastAnswer
  <2>2. l \in OutItems /\ l.kind # "a"  BY <1>0, PlainItems
  <2> HIDE DEF l
  <2>3. Acked(Append(out, l), begun)  BY <1>0, <2>2, AckedFacts
  <2> QED  BY <2>1, <2>3
<1>5. CASE Serving
  <2>1. begun' = begun  BY <1>5 DEF Serving, Others
  <2>2. ServerReads => out # <<>> /\ out' = Tail(out)  BY DEF ServerReads
  <2>3. ServerCloses => out' = out  BY DEF ServerCloses, smVars
  <2>4. StreamBreaks => out' = <<>>  BY DEF StreamBreaks
  <2>5. Acked(<<>>, begun)  BY DEF Acked
  <2>6. out # <<>> => Acked(Tail(out), begun)  BY <1>0, AckedFacts
  <2> QED  BY <1>5, <2>1, <2>2, <2>3, <2>4, <2>5, <2>6 DEF Serving
<1>6. UNCHANGED <<out, begun>> \/ Dispatching \/ Sending \/ CloseAsync \/ Serving
  <2>1. UNCHANGED porterVars => UNCHANGED <<out, begun>>  BY DEF porterVars, smVars
  <2>2. ReceiveClosed \/ ReceiveStanza \/ FlushStep => UNCHANGED <<out, begun>>
    BY DEF ReceiveClosed, ReceiveStanza, FlushStep, smVars
  <2>3. (\E handled \in BOOLEAN : HandlerReturns(handled)) => UNCHANGED <<out, begun>>
    BY DEF HandlerReturns, smVars
  <2>4. Listing => UNCHANGED <<out, begun>>  BY DEF Listing, Register, PingDisposed, smVars
  <2>5. (\E h \in Handlers : Unregister(h)) => UNCHANGED <<out, begun>>  BY DEF Unregister, smVars
  <2>6. EnableSaving \/ DisableSaving \/ SavingEnds => UNCHANGED <<out, begun>>
    BY DEF EnableSaving, DisableSaving, SavingEnds, smVars
  <2>7. PopUnacked => UNCHANGED <<out, begun>>  BY DEF PopUnacked
  <2>8. Delivering \/ ServerRequests => UNCHANGED <<out, begun>>
    BY DeliveringFacts, RequestsFacts DEF smVars
  <2> QED  BY <2>1, <2>2, <2>3, <2>4, <2>5, <2>6, <2>7, <2>8, Cases
<1> QED  BY <1>1, <1>2, <1>3, <1>4, <1>5, <1>6

LEMMA MessagesAndIqs ==
  ASSUME Sending
  PROVE  /\ \E w \in Whats : Send(w) /\ ~IsReply(Carrying(w))
         /\ stack = <<>> /\ sent < MaxSent /\ ~closing
         /\ UNCHANGED <<managed, fetched, closing, serverVars, inbox, recvVars, begun, stack>>
<1>1. SendStanza => Send(<<"message">>) /\ <<"message">> \in Whats  BY DEF SendStanza, Whats
<1>2. \A i \in Iqs, to \in To : SendIq(i, to) => Send(<<i>>) /\ <<i>> \in Whats
  BY DEF SendIq, Whats
<1>3. \A i : ~IsReply(Carrying(<<i>>))  BY PlainItems
<1>4. \E w \in Whats : Send(w) /\ ~IsReply(Carrying(w))  BY <1>1, <1>2, <1>3 DEF Sending
<1> QED  BY <1>4 DEF Sending, SendStanza, SendIq, AtLoop

\* What is left of the walk that a dispatch ends or leaves at the next handler.
LEMMA WalkFits ==
  ASSUME Sorts, StackInv, Fit(sent, stack, out, begun), Dispatching
  PROVE  LET s == stack[1].stanza
             n == Count(Tail(stack), Underway)
         IN /\ n \in Nat /\ Unanswered(Tail(stack), out, begun')
            /\ s.n = 0 => sent + n <= MaxSent + Len(begun')
            /\ s.n # 0 => sent + 1 + n <= MaxSent + Len(begun')
                          /\ s.n <= Len(begun') /\ Apart(s.n, Tail(stack), out)
<1> DEFINE f == stack[1]
           s == f.stanza
           n == Count(Tail(stack), Underway)
<1>0. out \in Seq(OutItems) /\ begun \in Seq(Nat) /\ stack \in Seq(Frames) /\ sent \in Nat
  BY DEF Sorts
<1>1. stack # <<>> /\ Walk(f) /\ f \in Walks /\ s \in Read  BY <1>0, DispatchFacts
<1>2. f \in Frames /\ Tail(stack) \in Seq(Frames)  BY <1>0, <1>1, TailFacts
<1>3. n \in Nat  BY <1>2, CountType
<1>4. Count(stack, Underway) = n + One(f \in Underway)  BY <1>0, <1>1, CountTail
<1>5. sent + Count(stack, Underway) <= MaxSent + Len(begun) /\ Unanswered(stack, out, begun)  BY DEF Fit
<1>6. begun' \in Seq(Nat) /\ Len(begun) <= Len(begun')  BY BeginsNext
<1>7. Unanswered(stack, out, begun') /\ Apart(Len(begun) + 1, stack, out)
  BY <1>0, <1>5, <1>6, MoreUnanswered
<1>8. /\ Unanswered(Tail(stack), out, begun')
      /\ Walked(f) => s.n <= Len(begun') /\ Apart(s.n, Tail(stack), out)
  BY <1>0, <1>1, <1>7, PopUnanswered
<1>9. MaxSent \in Nat /\ Len(begun) \in Nat /\ Len(begun') \in Nat
  BY <1>0, <1>6, ReceiveAssumption DEF ReceiveAssumption
<1>10. f \in Underway <=> f.at # None /\ s.n # 0  BY <1>1, <1>2 DEF Underway, Walked, Walk
<1>11. sent + n + One(f \in Underway) <= MaxSent + Len(begun)  BY <1>0, <1>3, <1>4, <1>5 DEF One
<1>12. CASE s.n = 0
  <2>1. One(f \in Underway) = 0  BY <1>10, <1>12 DEF One
  <2>2. sent + n <= MaxSent + Len(begun')  BY <1>0, <1>3, <1>6, <1>9, <1>11, <2>1
  <2> QED  BY <1>3, <1>8, <1>12, <2>2
<1>13. CASE s.n # 0 /\ f.at # None
  <2>1. One(f \in Underway) = 1  BY <1>10, <1>13 DEF One
  <2>2. sent + 1 + n <= MaxSent + Len(begun')  BY <1>0, <1>3, <1>6, <1>9, <1>11, <2>1
  <2>3. Walked(f)  BY <1>1, <1>13 DEF Walked, Walk
  <2> QED  BY <1>3, <1>8, <1>13, <2>2, <2>3
<1>14. CASE s.n # 0 /\ f.at = None
  <2>1. One(f \in Underway) = 0  BY <1>10, <1>14 DEF One
  <2>2. begun' = Append(begun, s.n) /\ s.n = Len(begun) + 1  BY <1>14, BeginsNext
  <2>3. s.n \in Nat  BY <1>1, ReadFacts
  <2>4. Len(begun') = Len(begun) + 1  BY <1>0, <2>2, <2>3, AppendFacts
  <2>5. sent + 1 + n <= MaxSent + Len(begun')  BY <1>0, <1>3, <1>9, <1>11, <2>1, <2>4
  <2>6. s.n <= Len(begun')  BY <1>9, <2>2, <2>4
  <2>7. Apart(s.n, stack, out)  BY <1>7, <2>2
  <2>8. Apart(s.n, Tail(stack), out)
    <3>1. Len(Tail(stack)) = Len(stack) - 1 /\ Len(stack) \in Nat \ {0}
          /\ \A k \in 1 .. Len(stack) - 1 : Tail(stack)[k] = stack[k + 1]
      BY <1>0, <1>1, TailFacts
    <3>2. \A k \in 1 .. Len(Tail(stack)) : k + 1 \in 1 .. Len(stack) /\ Tail(stack)[k] = stack[k + 1]
      BY <3>1
    <3> QED  BY <2>7, <3>2 DEF Apart
  <2> QED  BY <1>3, <1>8, <1>14, <2>5, <2>6, <2>8
<1> QED  BY <1>12, <1>13, <1>14

\* A frame that is no walk, or one that has not begun, changes nothing.
LEMMA PushFits ==
  ASSUME NEW n \in Nat, NEW st \in Seq(Frames), NEW o, NEW b \in Seq(Nat), Fit(n, st, o, b),
         NEW f \in Frames, ~Walked(f)
  PROVE  Fit(n, <<f>> \o st, o, b)
<1>1. f \notin Underway  BY DEF Underway
<1>2. Count(<<f>> \o st, Underway) = Count(st, Underway) + One(f \in Underway)  BY CountCons
<1>3. Count(st, Underway) \in Nat /\ One(f \in Underway) = 0  BY <1>1, CountType DEF One
<1>4. Count(<<f>> \o st, Underway) = Count(st, Underway)  BY <1>2, <1>3
<1>5. Unanswered(<<f>> \o st, o, b)  BY PushUnanswered DEF Fit
<1> QED  BY <1>4, <1>5 DEF Fit

LEMMA PopFits ==
  ASSUME NEW n \in Nat, NEW st \in Seq(Frames), st # <<>>, NEW o, NEW b \in Seq(Nat), Fit(n, st, o, b)
  PROVE  Fit(n, Tail(st), o, b)
<1>1. Tail(st) \in Seq(Frames)  BY TailFacts
<1>2. Count(st, Underway) = Count(Tail(st), Underway) + One(st[1] \in Underway)  BY CountTail
<1>3. Count(Tail(st), Underway) \in Nat /\ One(st[1] \in Underway) \in Nat  BY <1>1, CountType DEF One
<1>4. MaxSent \in Nat /\ Len(b) \in Nat  BY ReceiveAssumption DEF ReceiveAssumption
<1>5. n + Count(st, Underway) <= MaxSent + Len(b)  BY DEF Fit
<1>6. n + Count(Tail(st), Underway) <= MaxSent + Len(b)  BY <1>2, <1>3, <1>4, <1>5
<1>7. Unanswered(Tail(st), o, b)  BY PopUnanswered DEF Fit
<1> QED  BY <1>6, <1>7 DEF Fit

LEMMA WalkKeepsFit ==
  ASSUME Sorts, StackInv, Fit(sent, stack, out, begun), Dispatching
  PROVE  Fit(sent', stack', out', begun')
<1> DEFINE f == stack[1]
           s == f.stanza
           t == Tail(stack)
           n == Count(t, Underway)
<1>0. out \in Seq(OutItems) /\ stack \in Seq(Frames) /\ sent \in Nat /\ handlers \in Seq(Heirs)
  BY DEF Sorts
<1>1. stack # <<>> /\ Walk(f) /\ f \in Walks /\ s \in Read  BY <1>0, DispatchFacts
<1>2. t \in Seq(Frames)  BY <1>0, <1>1, TailFacts
<1>3. /\ n \in Nat /\ Unanswered(t, out, begun')
      /\ s.n = 0 => sent + n <= MaxSent + Len(begun')
      /\ s.n # 0 => sent + 1 + n <= MaxSent + Len(begun') /\ s.n <= Len(begun') /\ Apart(s.n, t, out)
  BY WalkFits
<1>4. MaxSent \in Nat /\ Len(begun') \in Nat /\ begun' \in Seq(Nat)
  BY BeginsNext, ReceiveAssumption DEF ReceiveAssumption
<1>5. /\ \/ /\ stack' = t
            /\ \/ s.type = "iq" /\ Reply(s)
               \/ s.type = "r" /\ SendAnswer(s.h) /\ sent' = sent
               \/ sent' = sent /\ out' = out
         \/ \E h \in Heirs :
              /\ sent' = sent /\ out' = out
              /\ \/ h \in Handlers /\ stack' = <<Frame("user"), AtNext(f, h)>> \o t
                 \/ stack' = <<AtNext(f, h)>> \o t
  BY DispatchFacts
<1> HIDE DEF s, f, t, n
<1>6. sent + n <= MaxSent + Len(begun')  BY <1>0, <1>3, <1>4
<1>7. Fit(sent, t, out, begun')  BY <1>3, <1>6 DEF Fit, n
<1>8. CASE stack' = t /\ s.type = "iq" /\ Reply(s)
  <2>1. s \in Arrivals /\ s.n # 0 /\ s.n \in Nat  BY <1>1, <1>8, ReadFacts
  <2> DEFINE w == ReplyTo(s)
             c == Carrying(w)
  <2>2. w \in Whats /\ c \in OutItems /\ w[2] = s.n /\ c.what = w  BY <2>1, PlainItems
  <2>3. Send(w)  BY <1>8 DEF Reply
  <2> HIDE DEF w, c
  <2>4. \/ sent' = sent /\ out' = out
        \/ sent' = sent + 1 /\ out' = Append(out, c)
        \/ sent' = sent + 1 /\ out' = Append(Append(out, c), Request)
    BY <2>2, <2>3, SendFacts DEF c
  <2>5. Append(out, c) \in Seq(OutItems)  BY <1>0, <2>2
  <2>6. Unanswered(t, Append(out, c), begun')
    <3>1. s.n <= Len(begun') /\ \A k \in 1 .. Len(t) : Walked(t[k]) => t[k].stanza.n # s.n
      BY <1>3, <2>1 DEF Apart
    <3> QED  BY <1>0, <1>3, <2>2, <3>1, AppendUnanswered
  <2>7. Unanswered(t, Append(Append(out, c), Request), begun')
    <3>1. Request \in OutItems /\ ~IsReply(Request)  BY PlainItems
    <3> QED  BY <2>5, <2>6, <3>1, AppendUnanswered
  <2>8. sent + 1 + n <= MaxSent + Len(begun')  BY <1>3, <2>1
  <2>9. sent' = sent + 1 => sent' + n <= MaxSent + Len(begun')  BY <2>8
  <2> QED  BY <1>7, <1>8, <2>4, <2>6, <2>7, <2>9 DEF Fit, n
<1>9. CASE stack' = t /\ s.type = "r" /\ SendAnswer(s.h) /\ sent' = sent
  <2> DEFINE a == Answer(s.h)
  <2>1. a \in OutItems /\ ~IsReply(a)
    <3>1. s.h \in Nat  BY <1>1, ReadFacts
    <3> QED  BY <3>1, PlainItems DEF Answer
  <2>2. out' = out \/ out' = Append(out, a)  BY <1>9 DEF SendAnswer
  <2> HIDE DEF a
  <2>3. Unanswered(t, Append(out, a), begun')  BY <1>0, <1>3, <2>1, AppendUnanswered
  <2>4. Fit(sent, t, Append(out, a), begun')  BY <1>7, <2>3 DEF Fit
  <2> QED  BY <1>7, <1>9, <2>2, <2>4
<1>10. CASE stack' = t /\ sent' = sent /\ out' = out  BY <1>7, <1>10
<1>11. ASSUME NEW h \in Heirs, sent' = sent, out' = out,
              \/ stack' = <<Frame("user"), AtNext(f, h)>> \o t
              \/ stack' = <<AtNext(f, h)>> \o t
       PROVE  Fit(sent', stack', out', begun')
  <2> DEFINE g == AtNext(f, h)
             u == <<g>> \o t
             v == Frame("user")
  <2>1. g \in Frames /\ g.stanza = s /\ g.fn = "dispatch" /\ g.at # None  BY <1>0, <1>1, NextFrame DEF s
  <2> HIDE DEF g
  <2>2. Fit(sent, u, out, begun')
    <3>1. Walked(g) <=> s.n # 0  BY <2>1 DEF Walked
    <3>2. CASE s.n = 0  BY <1>0, <1>2, <1>4, <1>7, <2>1, <3>1, <3>2, PushFits
    <3>3. CASE s.n # 0
      <4>1. g \in Underway  BY <2>1, <3>1, <3>3 DEF Underway
      <4>2. Count(u, Underway) = n + One(g \in Underway)  BY <1>2, <2>1, CountCons DEF n
      <4>3. Count(u, Underway) = n + 1  BY <4>1, <4>2 DEF One
      <4>4. sent + Count(u, Underway) <= MaxSent + Len(begun')  BY <1>0, <1>3, <1>4, <3>3, <4>3
      <4>5. Unanswered(u, out, begun')  BY <1>2, <1>3, <2>1, <3>3, PushUnanswered
      <4> QED  BY <4>4, <4>5 DEF Fit
    <3> QED  BY <3>2, <3>3
  <2>3. u \in Seq(Frames)  BY <1>2, <2>1, ConsFacts
  <2>4. v \in Frames /\ ~Walked(v)  BY NewFrames DEF Frame, Walked
  <2>5. <<v, g>> \o t = <<v>> \o u  BY <1>2, <2>1, <2>4, TwoCons
  <2> HIDE DEF u, v
  <2>6. Fit(sent, <<v>> \o u, out, begun')  BY <1>0, <1>4, <2>2, <2>3, <2>4, PushFits
  <2>7. stack' = u \/ stack' = <<v>> \o u
    <3>1. stack' = u \/ stack' = <<v, g>> \o t  BY <1>11 DEF u, v, g
    <3> QED  BY <2>5, <3>1
  <2> QED  BY <1>11, <2>2, <2>6, <2>7
<1> QED  BY <1>5, <1>8, <1>9, <1>10, <1>11

LEMMA FitStep ==
  ASSUME Sorts, StackInv, Fit(sent, stack, out, begun), [Next]_vars
  PROVE  Fit(sent', stack', out', begun')
<1>0. out \in Seq(OutItems) /\ begun \in Seq(Nat) /\ stack \in Seq(Frames) /\ sent \in Nat
      /\ counted \in Nat /\ held \in Seq(Later)
  BY DEF Sorts
<1>f. \A fn \in {"user", "flush", "disable"} : Frame(fn) \in Frames /\ ~Walked(Frame(fn))
  BY NewFrames DEF Frame, Walked
<1>1. CASE UNCHANGED <<sent, stack, out, begun>>  BY <1>1
<1>2. CASE ReceiveStanza
  <2>1. PICK s \in Read :
           \/ stack' = stack
           \/ stack' = <<Frame("flush"), Dispatch(s)>>
           \/ stack' = <<Dispatch(s)>>
    BY <1>2, ReceiveStanzaFacts
  <2>2. UNCHANGED <<sent, out, begun>> /\ stack = <<>>  BY <1>2 DEF ReceiveStanza, smVars, AtLoop
  <2> DEFINE d == Dispatch(s)
             g == Frame("flush")
  <2>3. d \in Frames /\ ~Walked(d) /\ g \in Frames /\ ~Walked(g)  BY <1>f, NewFrames
  <2> HIDE DEF d, g
  <2>4. <<d>> = <<d>> \o <<>> /\ <<>> \in Seq(Frames)  BY <2>3, ConcatEmptySeq
  <2>5. <<g, d>> = <<g>> \o <<d>>  BY <2>3
  <2>6. Fit(sent, <<d>>, out, begun) /\ <<d>> \in Seq(Frames)
    <3>1. Fit(sent, <<d>> \o <<>>, out, begun)  BY <1>0, <2>2, <2>3, <2>4, PushFits
    <3> QED  BY <2>3, <2>4, <3>1
  <2>7. Fit(sent, <<g>> \o <<d>>, out, begun)  BY <1>0, <2>3, <2>6, PushFits
  <2>8. stack' = stack \/ stack' = <<g, d>> \/ stack' = <<d>>  BY <2>1 DEF g, d
  <2> QED  BY <2>2, <2>5, <2>6, <2>7, <2>8
<1>3. CASE FlushStep
  <2>1. stack # <<>> /\ UNCHANGED <<sent, out, begun>>  BY <1>3 DEF FlushStep, Running, smVars
  <2>2. CASE held = <<>>
    <3>1. stack' = Tail(stack)  BY <1>3, <2>2 DEF FlushStep
    <3> QED  BY <1>0, <2>1, <3>1, PopFits
  <2>3. CASE held # <<>>
    <3>1. stack' = <<Dispatch(Head(held))>> \o stack  BY <1>3, <2>3 DEF FlushStep, StillFlushing
    <3>2. Head(held) \in Read
      <4>1. Head(held) \in Later  BY <1>0, <2>3, TailFacts
      <4> QED  BY <4>1 DEF Later, Read
    <3> DEFINE d == Dispatch(Head(held))
    <3>3. d \in Frames /\ ~Walked(d)  BY <3>2, NewFrames
    <3> HIDE DEF d
    <3>4. Fit(sent, <<d>> \o stack, out, begun)  BY <1>0, <3>3, PushFits
    <3> QED  BY <2>1, <3>1, <3>4 DEF d
  <2> QED  BY <2>2, <2>3
<1>4. CASE Dispatching  BY <1>4, WalkKeepsFit
<1>5. CASE \E handled \in BOOLEAN : HandlerReturns(handled)
  <2>1. PICK handled \in BOOLEAN : HandlerReturns(handled)  BY <1>5
  <2>2. UNCHANGED <<sent, out, begun>> /\ stack # <<>> /\ Head(stack).fn = "user"
        /\ (stack' = Tail(stack) \/ stack' = SubSeq(stack, 3, Len(stack)))
    BY <2>1 DEF HandlerReturns, smVars, InUser
  <2>3. Fit(sent, Tail(stack), out, begun) /\ Tail(stack) \in Seq(Frames)
    BY <1>0, <2>2, PopFits, TailFacts
  <2>4. Len(stack) > 1
    <3>1. Len(stack) \in Nat \ {0} /\ stack[1].fn = "user"  BY <1>0, <2>2, TailFacts
    <3>2. Len(stack) # 1  BY <2>2, <3>1 DEF StackInv, Shape
    <3>3. \A n \in Nat \ {0} : n > 1 \/ n = 1  OBVIOUS
    <3> QED  BY <3>1, <3>2, <3>3
  <2>5. SubSeq(stack, 3, Len(stack)) = Tail(Tail(stack)) /\ Tail(stack) # <<>>
    BY <1>0, <2>4, NextButOne
  <2>6. Fit(sent, Tail(Tail(stack)), out, begun)  BY <1>0, <2>3, <2>5, PopFits
  <2> QED  BY <2>2, <2>3, <2>5, <2>6
<1>6. CASE \E h \in Handlers : Unregister(h)
  <2>1. PICK h \in Handlers : Unregister(h)  BY <1>6
  <2>2. h \in Heirs /\ UNCHANGED <<sent, out, begun>>  BY <2>1 DEF Heirs, Unregister, smVars
  <2>3. stack' = [k \in 1 .. Len(stack) |-> Freed(stack[k], h)]  BY <1>0, <2>1 DEF Unregister
  <2>4. stack' \in Seq(Frames)
    <3>1. Sorts'  BY SortsStep
    <3> QED  BY <3>1 DEF Sorts
  <2>5. Len(stack') = Len(stack)
    <3>1. Len(stack) \in Nat /\ DOMAIN stack' = 1 .. Len(stack)  BY <1>0, <2>3
    <3> QED  BY <2>4, <3>1
  <2>6. Alike(stack, stack')
    <3>1. ASSUME NEW k \in 1 .. Len(stack)
          PROVE  stack'[k].fn = stack[k].fn
                 /\ (Walk(stack[k]) => stack'[k].stanza = stack[k].stanza /\ stack'[k].at = stack[k].at)
      <4>1. stack[k] \in Frames /\ stack'[k] = Freed(stack[k], h)  BY <1>0, <2>3
      <4> QED  BY <2>2, <4>1, FreedFrame DEF Walk
    <3> QED  BY <2>5, <3>1 DEF Alike
  <2>7. Count(stack', Underway) = Count(stack, Underway) /\ Unanswered(stack', out, begun)
    BY <1>0, <2>4, <2>6, AlikeKeeps DEF Fit
  <2> QED  BY <2>2, <2>7 DEF Fit
<1>7. CASE DisableSaving
  <2> DEFINE d == Frame("disable")
             g == Frame("flush")
             t == <<d>> \o stack
  <2>1. stack' = <<g, d>> \o stack /\ UNCHANGED <<sent, out, begun>>
    BY <1>7 DEF DisableSaving, FlushThenEnd, smVars
  <2>2. d \in Frames /\ ~Walked(d) /\ g \in Frames /\ ~Walked(g)  BY <1>f
  <2> HIDE DEF d, g
  <2>3. <<g, d>> \o stack = <<g>> \o t
    <3>1. stack \in Seq(Frames)  BY <1>0
    <3> QED  BY <2>2, <3>1, TwoCons
  <2>4. Fit(sent, t, out, begun) /\ t \in Seq(Frames)  BY <1>0, <2>2, PushFits, ConsFacts
  <2> HIDE DEF t
  <2>5. Fit(sent, <<g>> \o t, out, begun)  BY <1>0, <2>2, <2>4, PushFits
  <2> QED  BY <2>1, <2>3, <2>5
<1>8. CASE SavingEnds
  <2>1. stack # <<>> /\ stack' = Tail(stack) /\ UNCHANGED <<sent, out, begun>>
    BY <1>8 DEF SavingEnds, Running, smVars
  <2> QED  BY <1>0, <2>1, PopFits
<1>9. CASE Sending
  <2>1. stack = <<>> /\ stack' = stack /\ begun' = begun /\ sent < MaxSent  BY <1>9, MessagesAndIqs
  <2>2. PICK w \in Whats : Send(w) /\ ~IsReply(Carrying(w))  BY <1>9, MessagesAndIqs
  <2> DEFINE c == Carrying(w)
  <2>3. c \in OutItems /\ ~IsReply(c)  BY <2>2, PlainItems
  <2>4. \/ sent' = sent /\ out' = out
        \/ sent' = sent + 1 /\ out' = Append(out, c)
        \/ sent' = sent + 1 /\ out' = Append(Append(out, c), Request)
    BY <2>2, SendFacts
  <2> HIDE DEF c
  <2>5. Append(out, c) \in Seq(OutItems) /\ Unanswered(stack, Append(out, c), begun)
    BY <1>0, <2>3, AppendUnanswered DEF Fit
  <2>6. Unanswered(stack, Append(Append(out, c), Request), begun)
    <3>1. Request \in OutItems /\ ~IsReply(Request)  BY PlainItems
    <3> QED  BY <2>5, <3>1, AppendUnanswered
  <2>7. Count(stack, Underway) = 0
    <3>1. Len(stack) = 0  BY <2>1
    <3> QED  BY <1>0, <3>1, CountType
  <2>8. sent + 1 + 0 <= MaxSent + Len(begun)
    <3>1. MaxSent \in Nat /\ Len(begun) \in Nat  BY <1>0, ReceiveAssumption DEF ReceiveAssumption
    <3> QED  BY <1>0, <2>1, <3>1
  <2>9. sent' = sent + 1 => sent' + Count(stack, Underway) <= MaxSent + Len(begun)  BY <2>7, <2>8
  <2> QED  BY <2>1, <2>4, <2>5, <2>6, <2>9 DEF Fit
<1>10. CASE CloseAsync
  <2> DEFINE l == [kind |-> "last", h |-> counted]
  <2>1. (out' = out \/ out' = Append(out, l)) /\ UNCHANGED <<sent, stack, begun>>
    BY <1>10 DEF CloseAsync, LastAnswer
  <2>2. l \in OutItems /\ ~IsReply(l)  BY <1>0, PlainItems
  <2> HIDE DEF l
  <2>3. Unanswered(stack, Append(out, l), begun)  BY <1>0, <2>2, AppendUnanswered DEF Fit
  <2> QED  BY <2>1, <2>3 DEF Fit
<1>11. CASE Serving
  <2>1. UNCHANGED <<stack, begun>>  BY <1>11 DEF Serving, Others
  <2>2. ServerReads => out # <<>> /\ out' = Tail(out) /\ sent' = sent  BY DEF ServerReads
  <2>3. ServerCloses => out' = out /\ sent' = sent  BY DEF ServerCloses, smVars
  <2>4. StreamBreaks => out' = <<>> /\ sent' = sent  BY DEF StreamBreaks
  <2>5. Unanswered(stack, <<>>, begun)
    <3>1. Len(<<>>) = 0  OBVIOUS
    <3> QED  BY <3>1 DEF Fit, Unanswered
  <2>6. out # <<>> => Unanswered(stack, Tail(out), begun)  BY <1>0, TailUnanswered DEF Fit
  <2> QED  BY <1>11, <2>1, <2>2, <2>3, <2>4, <2>5, <2>6 DEF Serving, Fit
<1>12. \/ UNCHANGED <<sent, stack, out, begun>>
       \/ ReceiveStanza \/ FlushStep \/ Dispatching
       \/ (\E handled \in BOOLEAN : HandlerReturns(handled)) \/ (\E h \in Handlers : Unregister(h))
       \/ DisableSaving \/ SavingEnds \/ Sending \/ CloseAsync \/ Serving
  <2>1. UNCHANGED porterVars => UNCHANGED <<sent, stack, out, begun>>  BY DEF porterVars, smVars
  <2>2. ReceiveClosed \/ EnableSaving => UNCHANGED <<sent, stack, out, begun>>
    BY DEF ReceiveClosed, EnableSaving, smVars
  <2>3. Listing => UNCHANGED <<sent, stack, out, begun>>
    BY DEF Listing, Register, PingDisposed, smVars
  <2>4. PopUnacked => UNCHANGED <<sent, stack, out, begun>>  BY DEF PopUnacked
  <2>5. Delivering \/ ServerRequests => UNCHANGED <<sent, stack, out, begun>>
    BY DeliveringFacts, RequestsFacts DEF smVars
  <2> QED  BY <2>1, <2>2, <2>3, <2>4, <2>5, Cases
<1> QED  BY <1>1, <1>2, <1>3, <1>4, <1>5, <1>6, <1>7, <1>8, <1>9, <1>10, <1>11, <1>12

-----------------------------------------------------------------------------
(* What was sent, kept and taken back *)

StanzasOut == {x \in OutItems : x.kind = "stanza"}
SentInv ==
  /\ got <= sent /\ fetched \subseteq 1 .. sent
  /\ ~serverGone => got + Count(out, StanzasOut) = sent
  /\ Len(unacked) <= sent
  /\ \A k \in 1 .. Len(unacked) : unacked[k] = sent - Len(unacked) + k
  /\ ~managed => unacked = <<>>
  /\ fetched # {} => remoteClosed
  /\ remoteClosed => serverGone

\* What SentInv says of the stanzas that are kept, n of them having been sent.
Kept(u, n) == Len(u) <= n /\ \A k \in 1 .. Len(u) : u[k] = n - Len(u) + k

LEMMA KeptFacts ==
  ASSUME NEW u \in Seq(Nat), NEW n \in Nat, Kept(u, n)
  PROVE  /\ Kept(Append(u, n + 1), n + 1) /\ Kept(<<>>, n)
         /\ u # <<>> => Kept(Tail(u), n) /\ Head(u) \in 1 .. n
<1>1. Kept(<<>>, n)  BY DEF Kept
<1>2. Kept(Append(u, n + 1), n + 1)
  <2> DEFINE v == Append(u, n + 1)
  <2>1. Len(v) = Len(u) + 1 /\ v[Len(u) + 1] = n + 1 /\ \A k \in 1 .. Len(u) : v[k] = u[k]
    BY AppendFacts
  <2> HIDE DEF v
  <2>2. Len(u) \in Nat  OBVIOUS
  <2>3. ASSUME NEW k \in 1 .. Len(v) PROVE v[k] = n + 1 - Len(v) + k
    <3>1. k \in 1 .. Len(u) \/ k = Len(u) + 1  BY <2>1, <2>2
    <3>2. k \in 1 .. Len(u) => u[k] = n - Len(u) + k  BY DEF Kept
    <3>3. k = Len(u) + 1 => n + 1 = n + 1 - Len(v) + k  BY <2>1, <2>2
    <3>4. n - Len(u) + k = n + 1 - Len(v) + k  BY <2>1, <2>2
    <3> QED  BY <2>1, <3>1, <3>2, <3>3, <3>4
  <2>4. Len(v) <= n + 1  BY <2>1, <2>2 DEF Kept
  <2> QED  BY <2>3, <2>4 DEF Kept, v
<1>3. ASSUME u # <<>> PROVE Kept(Tail(u), n) /\ Head(u) \in 1 .. n
  <2>1. /\ Len(u) \in Nat \ {0} /\ Len(Tail(u)) = Len(u) - 1 /\ Head(u) = u[1]
        /\ \A k \in 1 .. Len(u) - 1 : Tail(u)[k] = u[k + 1]
    BY <1>3, TailFacts
  <2>2. u[1] = n - Len(u) + 1  BY <2>1 DEF Kept
  <2>3. Len(u) <= n  BY DEF Kept
  <2>4. Head(u) \in 1 .. n  BY <2>1, <2>2, <2>3
  <2>5. ASSUME NEW k \in 1 .. Len(Tail(u)) PROVE Tail(u)[k] = n - Len(Tail(u)) + k
    <3>1. k \in 1 .. Len(u) - 1 /\ k + 1 \in 1 .. Len(u)  BY <2>1
    <3>2. u[k + 1] = n - Len(u) + (k + 1)  BY <3>1 DEF Kept
    <3>3. n - Len(u) + (k + 1) = n - Len(Tail(u)) + k  BY <2>1, <3>1
    <3> QED  BY <2>1, <3>1, <3>2, <3>3
  <2>6. Len(Tail(u)) <= n  BY <2>1, <2>3
  <2> QED  BY <2>4, <2>5, <2>6 DEF Kept
<1> QED  BY <1>1, <1>2, <1>3

\* A stanza is kept with stream management, and so is its request sent after it.
LEMMA SendKeeps ==
  ASSUME Sorts, SentInv, NEW w \in Whats, Send(w)
  PROVE  /\ sent <= sent' /\ sent' \in Nat
         /\ ~serverGone => got + Count(out', StanzasOut) = sent'
         /\ Kept(unacked', sent') /\ (~managed => unacked' = <<>>)
<1>0. out \in Seq(OutItems) /\ unacked \in Seq(Nat) /\ sent \in Nat /\ got \in Nat
  BY DEF Sorts
<1>1. Kept(unacked, sent)  BY DEF SentInv, Kept
<1> DEFINE c == Carrying(w)
<1>2. c \in OutItems /\ c \in StanzasOut  BY PlainItems DEF StanzasOut
<1>3. Request \in OutItems /\ Request \notin StanzasOut  BY PlainItems DEF StanzasOut
<1>4. \/ sent' = sent /\ unacked' = unacked /\ out' = out
      \/ /\ sent' = sent + 1
         /\ out' = IF managed THEN Append(Append(out, c), Request) ELSE Append(out, c)
         /\ unacked' = IF managed THEN Append(unacked, sent + 1) ELSE unacked
  BY SendFacts
<1> HIDE DEF c
<1>5. Append(out, c) \in Seq(OutItems) /\ Count(Append(out, c), StanzasOut) = Count(out, StanzasOut) + 1
  <2>1. Count(Append(out, c), StanzasOut) = Count(out, StanzasOut) + One(c \in StanzasOut)
    BY <1>0, <1>2, CountAppend
  <2> QED  BY <1>0, <1>2, <2>1 DEF One
<1>6. Count(Append(Append(out, c), Request), StanzasOut) = Count(out, StanzasOut) + 1
  <2>1. Count(Append(Append(out, c), Request), StanzasOut)
          = Count(Append(out, c), StanzasOut) + One(Request \in StanzasOut)
    BY <1>3, <1>5, CountAppend
  <2>2. Count(out, StanzasOut) \in Nat  BY <1>0, CountType
  <2> QED  BY <1>3, <1>5, <2>1, <2>2 DEF One
<1>7. Count(out, StanzasOut) \in Nat  BY <1>0, CountType
<1>8. ~serverGone => got + Count(out, StanzasOut) = sent  BY DEF SentInv
<1>9. ~managed => unacked = <<>>  BY DEF SentInv
<1>10. CASE sent' = sent /\ unacked' = unacked /\ out' = out  BY <1>0, <1>1, <1>8, <1>9, <1>10
<1>11. CASE /\ sent' = sent + 1
            /\ out' = IF managed THEN Append(Append(out, c), Request) ELSE Append(out, c)
            /\ unacked' = IF managed THEN Append(unacked, sent + 1) ELSE unacked
  <2>1. Count(out', StanzasOut) = Count(out, StanzasOut) + 1  BY <1>5, <1>6, <1>11
  <2>2. ~serverGone => got + Count(out', StanzasOut) = sent'  BY <1>0, <1>7, <1>8, <1>11, <2>1
  <2>3. Kept(unacked', sent') /\ (~managed => unacked' = <<>>)
    <3>1. sent + 1 \in Nat  BY <1>0
    <3>2. Kept(Append(unacked, sent + 1), sent + 1) /\ Kept(<<>>, sent + 1)
      <4>1. Kept(Append(unacked, sent + 1), sent + 1)  BY <1>0, <1>1, KeptFacts
      <4>2. Kept(<<>>, sent + 1)  BY <3>1 DEF Kept
      <4> QED  BY <4>1, <4>2
    <3> QED  BY <1>9, <1>11, <3>2
  <2> QED  BY <1>0, <1>11, <2>2, <2>3
<1> QED  BY <1>4, <1>10, <1>11

LEMMA AppendStanzas ==
  ASSUME Sorts, NEW x \in OutItems, x.kind # "stanza"
  PROVE  Count(Append(out, x), StanzasOut) = Count(out, StanzasOut)
<1>1. out \in Seq(OutItems)  BY DEF Sorts
<1>2. Count(Append(out, x), StanzasOut) = Count(out, StanzasOut) + One(x \in StanzasOut)
  BY <1>1, CountAppend
<1>3. Count(out, StanzasOut) \in Nat  BY <1>1, CountType
<1> QED  BY <1>2, <1>3 DEF One, StanzasOut

LEMMA SentStep ==
  ASSUME Sorts, SentInv, Numbered(inbox, counted, serverSent, serverGone), [Next]_vars
  PROVE  SentInv'
<1>0. /\ out \in Seq(OutItems) /\ unacked \in Seq(Nat) /\ sent \in Nat /\ got \in Nat
      /\ counted \in Nat /\ inbox \in Seq(Incoming) /\ serverSent \in Nat
  <2>1. MaxArriving \in Nat  BY ReceiveAssumption DEF ReceiveAssumption
  <2> QED  BY <2>1 DEF Sorts
<1>s. /\ got <= sent /\ fetched \subseteq 1 .. sent /\ Kept(unacked, sent)
      /\ ~serverGone => got + Count(out, StanzasOut) = sent
      /\ ~managed => unacked = <<>>
      /\ fetched # {} => remoteClosed
      /\ remoteClosed => serverGone
  BY DEF SentInv, Kept
<1>g. ASSUME NEW w \in Whats, Send(w),
             UNCHANGED <<managed, fetched, got, serverGone, remoteClosed>>
      PROVE  SentInv'
  <2>1. /\ sent <= sent' /\ sent' \in Nat /\ Kept(unacked', sent')
        /\ ~serverGone => got + Count(out', StanzasOut) = sent'
        /\ ~managed => unacked' = <<>>
    BY <1>g, SendKeeps
  <2>2. got <= sent' /\ fetched \subseteq 1 .. sent'  BY <1>0, <1>s, <2>1
  <2> QED  BY <1>g, <1>s, <2>1, <2>2 DEF SentInv, Kept
<1>1. CASE UNCHANGED <<managed, sent, unacked, fetched, got, serverGone, out, remoteClosed>>
  BY <1>1 DEF SentInv
<1>2. CASE ReceiveClosed
  <2>1. remoteClosed' = TRUE /\ inbox # <<>> /\ Head(inbox).type = "closed"
        /\ UNCHANGED <<managed, sent, unacked, fetched, got, serverGone, out>>
    BY <1>2 DEF ReceiveClosed, smVars, serverVars
  <2>2. serverGone
    <3>1. inbox[1].type = "closed"  BY <1>0, <2>1, TailFacts
    <3> QED  BY <1>0, <2>1, <3>1, NumberedTail
  <2> QED  BY <2>1, <2>2 DEF SentInv
<1>3. CASE Dispatching
  <2> DEFINE s == stack[1].stanza
  <2>1. UNCHANGED <<managed, fetched, got, serverGone, remoteClosed>> /\ s \in Read
    BY <1>3, DispatchFacts
  <2>2. \/ s.type = "iq" /\ Reply(s)
        \/ s.type = "r" /\ SendAnswer(s.h) /\ sent' = sent /\ unacked' = unacked
        \/ unacked' = TakeAnswer /\ sent' = sent /\ out' = out
        \/ sent' = sent /\ unacked' = unacked /\ out' = out
    BY <1>3, DispatchFacts
  <2> HIDE DEF s
  <2>3. CASE s.type = "iq" /\ Reply(s)
    <3>1. s \in Arrivals /\ s.n # 0  BY <2>1, <2>3, ReadFacts
    <3>2. ReplyTo(s) \in Whats /\ Send(ReplyTo(s))  BY <2>3, <3>1, PlainItems DEF Reply
    <3> QED  BY <1>g, <2>1, <3>2
  <2>4. CASE SendAnswer(s.h) /\ sent' = sent /\ unacked' = unacked
    <3> DEFINE a == Answer(s.h)
    <3>1. a \in OutItems /\ a.kind # "stanza"
      <4>1. s.h \in Nat  BY <2>1, ReadFacts
      <4> QED  BY <4>1, PlainItems DEF Answer
    <3>2. out' = out \/ out' = Append(out, a)  BY <2>4 DEF SendAnswer
    <3> HIDE DEF a
    <3>3. Count(Append(out, a), StanzasOut) = Count(out, StanzasOut)  BY <3>1, AppendStanzas
    <3> QED  BY <1>s, <2>1, <2>4, <3>2, <3>3 DEF SentInv, Kept
  <2>5. CASE unacked' = TakeAnswer /\ sent' = sent /\ out' = out
    <3>1. Kept(TakeAnswer, sent) /\ (~managed => TakeAnswer = <<>>)
      BY <1>0, <1>s, KeptFacts DEF TakeAnswer
    <3> QED  BY <1>s, <2>1, <2>5, <3>1 DEF SentInv, Kept
  <2>6. CASE sent' = sent /\ unacked' = unacked /\ out' = out
    BY <1>s, <2>1, <2>6 DEF SentInv, Kept
  <2> QED  BY <2>2, <2>3, <2>4, <2>5, <2>6
<1>4. CASE Sending
  <2>1. UNCHANGED <<managed, fetched, got, serverGone, remoteClosed>> /\ \E w \in Whats : Send(w)
    BY <1>4, MessagesAndIqs DEF serverVars, recvVars
  <2> QED  BY <1>g, <2>1
<1>5. CASE CloseAsync
  <2> DEFINE l == [kind |-> "last", h |-> counted]
  <2>1. (out' = out \/ out' = Append(out, l))
        /\ UNCHANGED <<managed, sent, unacked, fetched, got, serverGone, remoteClosed>>
    BY <1>5 DEF CloseAsync, LastAnswer, serverVars, recvVars
  <2>2. l \in OutItems /\ l.kind # "stanza"  BY <1>0, PlainItems
  <2> HIDE DEF l
  <2>3. Count(Append(out, l), StanzasOut) = Count(out, StanzasOut)  BY <2>2, AppendStanzas
  <2> QED  BY <1>s, <2>1, <2>3 DEF SentInv, Kept
<1>6. CASE PopUnacked
  <2>1. remoteClosed /\ unacked # <<>> /\ unacked' = Tail(unacked)
        /\ fetched' = fetched \cup {Head(unacked)}
        /\ UNCHANGED <<managed, sent, out, got, serverGone, remoteClosed>>
    BY <1>6 DEF PopUnacked, Fetch, serverVars, recvVars
  <2>2. Kept(Tail(unacked), sent) /\ Head(unacked) \in 1 .. sent  BY <1>0, <1>s, <2>1, KeptFacts
  <2>3. managed  BY <1>6 DEF PopUnacked
  <2> QED  BY <1>s, <2>1, <2>2, <2>3 DEF SentInv, Kept
<1>7. CASE Serving
  <2>1. remoteClosed' = remoteClosed  BY <1>7 DEF Serving, Others, recvVars
  <2>2. CASE ServerReads
    <3>1. ~serverGone /\ out # <<>> /\ out' = Tail(out)
          /\ got' = got + (IF Head(out).kind = "stanza" THEN 1 ELSE 0)
          /\ UNCHANGED <<managed, sent, unacked, fetched, serverGone>>
      BY <2>2 DEF ServerReads
    <3>2. out[1] \in OutItems /\ Head(out) = out[1] /\ Tail(out) \in Seq(OutItems)
      BY <1>0, <3>1, TailFacts
    <3>3. One(out[1] \in StanzasOut) = IF Head(out).kind = "stanza" THEN 1 ELSE 0
      BY <3>2 DEF One, StanzasOut
    <3>4. Count(out, StanzasOut) = Count(Tail(out), StanzasOut) + One(out[1] \in StanzasOut)
      BY <1>0, <3>1, CountTail
    <3>5. Count(Tail(out), StanzasOut) \in Nat /\ One(out[1] \in StanzasOut) \in Nat
      BY <3>2, CountType DEF One
    <3>6. got' = got + One(out[1] \in StanzasOut)  BY <3>1, <3>3
    <3>7. got' + Count(out', StanzasOut) = sent  BY <1>0, <1>s, <3>1, <3>4, <3>5, <3>6
    <3>8. got' <= sent  BY <1>0, <3>1, <3>5, <3>6, <3>7
    <3> QED  BY <1>s, <2>1, <3>1, <3>7, <3>8 DEF SentInv, Kept
  <2>3. CASE ServerCloses
    <3>1. serverGone' = TRUE /\ UNCHANGED <<managed, sent, unacked, fetched, got, out>>
      BY <2>3 DEF ServerCloses, smVars
    <3> QED  BY <1>s, <2>1, <3>1 DEF SentInv, Kept
  <2>4. CASE StreamBreaks
    <3>1. serverGone' = TRUE /\ UNCHANGED <<managed, sent, unacked, fetched, got>>
      BY <2>4 DEF StreamBreaks
    <3> QED  BY <1>s, <2>1, <3>1 DEF SentInv, Kept
  <2> QED  BY <1>7, <2>2, <2>3, <2>4 DEF Serving
<1>8. \/ UNCHANGED <<managed, sent, unacked, fetched, got, serverGone, out, remoteClosed>>
      \/ ReceiveClosed \/ Dispatching \/ Sending \/ CloseAsync \/ PopUnacked \/ Serving
  <2> DEFINE Same == UNCHANGED <<managed, sent, unacked, fetched, got, serverGone, out, remoteClosed>>
  <2>1. UNCHANGED porterVars => Same  BY DEF porterVars, smVars, serverVars, recvVars
  <2>2. ReceiveStanza \/ FlushStep => Same  BY DEF ReceiveStanza, FlushStep, smVars, serverVars
  <2>3. (\E handled \in BOOLEAN : HandlerReturns(handled)) => Same
    BY DEF HandlerReturns, smVars, serverVars, recvVars
  <2>4. Listing => Same  BY DEF Listing, Register, PingDisposed, smVars, serverVars
  <2>5. (\E h \in Handlers : Unregister(h)) => Same  BY DEF Unregister, smVars, serverVars
  <2>6. EnableSaving \/ DisableSaving \/ SavingEnds => Same
    BY DEF EnableSaving, DisableSaving, SavingEnds, smVars, serverVars, recvVars
  <2>7. Delivering \/ ServerRequests => Same
    BY DeliveringFacts, RequestsFacts DEF smVars, serverVars, recvVars
  <2> QED  BY <2>1, <2>2, <2>3, <2>4, <2>5, <2>6, <2>7, Cases
<1> QED  BY <1>1, <1>2, <1>3, <1>4, <1>5, <1>6, <1>7, <1>8

-----------------------------------------------------------------------------
(* The order of the stanzas, for any handlers *)

LEMMA StartingList ==
  ASSUME ReceiveInit
  PROVE  handlers \in Seq(Heirs) /\ Listed(handlers)
         /\ (managed => Contains(handlers, "sm_a") /\ Contains(handlers, "sm_r"))
<1> DEFINE base == IF managed THEN <<"error", "reply", "sm_a", "sm_r">> ELSE <<"error", "reply", "ping">>
<1>1. base \in Seq(Library) /\ base \in Seq(Heirs)
  <2>1. {"error", "reply", "sm_a", "sm_r", "ping"} \subseteq Library /\ Library \subseteq Heirs
    BY DEF Library, Heirs
  <2>2. \A S : {"error", "reply", "sm_a", "sm_r", "ping"} \subseteq S =>
          <<"error", "reply", "sm_a", "sm_r">> \in Seq(S) /\ <<"error", "reply", "ping">> \in Seq(S)
    OBVIOUS
  <2> QED  BY <2>1, <2>2
<1>2. base \in Seq(Heirs)  BY <1>1
<1>3. Listed(base)
  <2>1. RuleOf("error").prio = 9 /\ RuleOf("reply").prio = 9 /\ RuleOf("sm_a").prio = 5
        /\ RuleOf("sm_r").prio = 5 /\ RuleOf("ping").prio = 5
    BY DEF RuleOf, Library, LibraryRule, ReplyRule, SmRule, PingRule, ForAnyone, StanzaHandler
  <2> QED  BY <2>1 DEF Listed
<1>4. \A h \in Handlers : ~Contains(base, h)
  <2>1. Handlers \cap Library = {}  BY ReceiveAssumption DEF ReceiveAssumption
  <2> HIDE DEF base
  <2>2. \A k \in 1 .. Len(base) : base[k] \in Library  BY <1>1
  <2> QED  BY <2>1, <2>2 DEF Contains
<1>5. managed => Contains(base, "sm_a") /\ Contains(base, "sm_r")
  <2> SUFFICES ASSUME managed PROVE Contains(base, "sm_a") /\ Contains(base, "sm_r")  OBVIOUS
  <2>1. base = <<"error", "reply", "sm_a", "sm_r">>  OBVIOUS
  <2>2. Len(base) = 4 /\ base[3] = "sm_a" /\ base[4] = "sm_r" /\ 3 \in 1 .. 4 /\ 4 \in 1 .. 4  BY <2>1
  <2> QED  BY <2>2 DEF Contains
<1>6. handlers = Registered(base, AtStart)  BY DEF ReceiveInit
<1>7. AtStart \in Seq(Handlers) /\ IsInjective(AtStart)  BY ReceiveAssumption DEF ReceiveAssumption
<1> HIDE DEF base
<1> QED  BY <1>2, <1>3, <1>4, <1>5, <1>6, <1>7, RegisteredFacts

ReceiveInv == OrderInv /\ SentInv

LEMMA ReceiveInvHolds ==
  ASSUME Init
  PROVE  ReceiveInv
<1>1. ReceiveInit  BY DEF Init
<1>2. /\ managed \in BOOLEAN /\ closing = FALSE /\ serverGone = FALSE /\ saving = FALSE
      /\ remoteClosed = FALSE
      /\ sent = 0 /\ got = 0 /\ counted = 0 /\ serverSent = 0
      /\ unacked = <<>> /\ fetched = {} /\ out = <<>> /\ inbox = <<>> /\ held = <<>>
      /\ begun = <<>> /\ stack = <<>>
      /\ iqs = [i \in Iqs |-> "new"]
  BY <1>1 DEF ReceiveInit
<1>3. MaxSent \in Nat /\ MaxArriving \in Nat  BY ReceiveAssumption DEF ReceiveAssumption
<1>4. handlers \in Seq(Heirs)  BY <1>1, StartingList
<1>5. Sorts
  <2>1. 0 \in Nat /\ 0 \in 0 .. MaxArriving  BY <1>3
  <2>2. iqs \in [Iqs -> {"new", "pending", "answered", "aborted"}]  BY <1>2
  <2>3. \A S : <<>> \in Seq(S)  OBVIOUS
  <2> QED  BY <1>2, <1>4, <2>1, <2>2, <2>3 DEF Sorts
<1>6. Len(<<>>) = 0  OBVIOUS
<1>7. StackInv
  <2>1. Shape(<<>>) /\ Flushed(<<>>, held) /\ Stamped(<<>>, counted)  BY DEF Shape, Flushed, Stamped
  <2>2. Order(<<>>, <<>>, <<>>, 0)  BY DEF Order, TopIsNew, LastIsNew, One
  <2> QED  BY <1>2, <2>1, <2>2 DEF StackInv
<1>8. Numbered(<<>>, 0, 0, FALSE)  BY DEF Numbered
<1>9. AcksAreHandled  BY <1>2 DEF AcksAreHandled
<1>10. Fit(0, <<>>, <<>>, <<>>)
  <2>1. Unanswered(<<>>, <<>>, <<>>)  BY DEF Unanswered
  <2>2. <<>> \in Seq(Frames)  OBVIOUS
  <2>3. Count(<<>>, Underway) = 0  BY <1>6, <2>2, CountType
  <2>4. 0 + 0 <= MaxSent + Len(<<>>)  BY <1>3
  <2> QED  BY <2>1, <2>3, <2>4 DEF Fit
<1>11. SentInv
  <2>1. <<>> \in Seq(OutItems)  OBVIOUS
  <2>2. Count(<<>>, StanzasOut) = 0  BY <1>6, <2>1, CountType
  <2> QED  BY <1>2, <2>2 DEF SentInv
<1> QED  BY <1>2, <1>5, <1>7, <1>8, <1>9, <1>10, <1>11 DEF ReceiveInv, OrderInv

LEMMA ReceiveInvStep ==
  ASSUME ReceiveInv, [Next]_vars
  PROVE  ReceiveInv'
<1>1. /\ Sorts /\ StackInv /\ Numbered(inbox, counted, serverSent, serverGone)
      /\ AcksAreHandled /\ Fit(sent, stack, out, begun) /\ SentInv
  BY DEF ReceiveInv, OrderInv
<1>2. Sorts' /\ StackInv'  BY <1>1, SortsStep, StackStep
<1>3. Numbered(inbox', counted', serverSent', serverGone')  BY <1>1, NumberedStep
<1>4. AcksAreHandled'
  <2>1. DOMAIN out = 1 .. Len(out) /\ DOMAIN out' = 1 .. Len(out')  BY <1>1, <1>2 DEF Sorts
  <2>2. Acked(out, begun)  BY <1>1, <2>1 DEF Acked, AcksAreHandled
  <2>3. Acked(out', begun')  BY <1>1, <2>2, AcksStep
  <2> QED  BY <2>1, <2>3 DEF Acked, AcksAreHandled
<1>5. Fit(sent', stack', out', begun')  BY <1>1, FitStep
<1>6. SentInv'  BY <1>1, SentStep
<1> QED  BY <1>2, <1>3, <1>4, <1>5, <1>6 DEF ReceiveInv, OrderInv

LEMMA ReceiveInvMeans == ReceiveInv => OrderIsKept
<1> SUFFICES ASSUME ReceiveInv PROVE OrderIsKept  OBVIOUS
<1>1. /\ Sorts /\ StackInv /\ Numbered(inbox, counted, serverSent, serverGone)
      /\ AcksAreHandled /\ Fit(sent, stack, out, begun) /\ SentInv
  BY DEF ReceiveInv, OrderInv
<1>2. Shape(stack) /\ (~saving => held = <<>>) /\ Order(stack, begun, held, counted)
  BY <1>1 DEF StackInv
<1>3. /\ begun \in Seq(Nat) /\ held \in Seq(Later) /\ stack \in Seq(Frames) /\ sent \in Nat
      /\ got \in Nat /\ unacked \in Seq(Nat) /\ counted \in Nat /\ handlers \in Seq(Heirs)
      /\ serverSent \in 0 .. MaxArriving
  BY <1>1 DEF Sorts
<1>4. MaxSent \in Nat /\ MaxArriving \in Nat  BY ReceiveAssumption DEF ReceiveAssumption
<1>5. Len(begun) \in Nat /\ Len(held) \in Nat /\ DOMAIN begun = 1 .. Len(begun)  BY <1>3
<1>6. One(TopIsNew(stack)) \in Nat /\ One(LastIsNew(stack)) \in Nat  BY DEF One
<1>7. Len(begun) + One(TopIsNew(stack)) + Len(held) + One(LastIsNew(stack)) = counted
  BY <1>2 DEF Order
<1>8. counted <= serverSent  BY <1>1 DEF Numbered
<1>9. counted \in 0 .. serverSent /\ Len(begun) <= MaxArriving  BY <1>3, <1>4, <1>5, <1>6, <1>7, <1>8
<1>10. sent \in 0 .. MaxSent + MaxArriving
  <2>1. sent + Count(stack, Underway) <= MaxSent + Len(begun)  BY <1>1 DEF Fit
  <2>2. Count(stack, Underway) \in Nat  BY <1>3, CountType
  <2> QED  BY <1>3, <1>4, <1>5, <1>9, <2>1, <2>2
<1>11. got \in 0 .. sent /\ ToSet(unacked) \cup fetched \subseteq 1 .. sent
  <2>1. got <= sent /\ fetched \subseteq 1 .. sent /\ Len(unacked) <= sent
        /\ \A k \in 1 .. Len(unacked) : unacked[k] = sent - Len(unacked) + k
    BY <1>1 DEF SentInv
  <2>2. \A k \in 1 .. Len(unacked) : unacked[k] \in 1 .. sent
    <3> TAKE k \in 1 .. Len(unacked)
    <3>1. Len(unacked) \in Nat  BY <1>3
    <3>2. unacked[k] = sent - Len(unacked) + k  BY <2>1
    <3> QED  BY <1>3, <2>1, <3>1, <3>2
  <2>3. ToSet(unacked) \subseteq 1 .. sent  BY <1>3, <2>2 DEF ToSet
  <2>4. got \in 0 .. sent
    <3>1. got \in Nat /\ sent \in Nat /\ got <= sent  BY <1>3, <2>1
    <3> QED  BY <3>1
  <2> QED  BY <2>1, <2>3, <2>4
<1>12. ToSet(handlers) \subseteq Handlers \cup Library  BY <1>3 DEF ToSet, Heirs
<1>13. \A k \in 1 .. Len(begun) : begun[k] = k  BY <1>2 DEF Order
<1>14. ToSet(begun) \subseteq 1 .. MaxArriving
  <2>1. \A k \in 1 .. Len(begun) : begun[k] \in 1 .. MaxArriving  BY <1>4, <1>5, <1>9, <1>13
  <2> QED  BY <1>5, <2>1 DEF ToSet
<1>15. ReceiveTypeOK
  BY <1>1, <1>3, <1>9, <1>10, <1>11, <1>12, <1>14 DEF ReceiveTypeOK, Sorts
<1>16. AtLoop => Len(begun) + Len(held) = counted
  <2> SUFFICES ASSUME stack = <<>> PROVE Len(begun) + Len(held) = counted  BY DEF AtLoop
  <2>1. One(TopIsNew(stack)) = 0 /\ One(LastIsNew(stack)) = 0  BY DEF One, TopIsNew, LastIsNew
  <2> QED  BY <1>5, <1>7, <2>1
<1>17. PowerSavingKeepsOrder  BY <1>2, <1>5, <1>13, <1>16 DEF PowerSavingKeepsOrder
<1> QED  BY <1>1, <1>15, <1>17 DEF OrderIsKept

\* Stanzas reach the handlers in the order they arrived, whatever power saving puts off and
\* whatever the handlers do on the way, and no answer to the server counts one that still
\* waits (queue_or_handle_stanza, flush_unimportant_queue, sm_r_cb).
THEOREM StanzasKeepTheirOrder == Spec => []OrderIsKept
<1>1. Init => ReceiveInv  BY ReceiveInvHolds
<1>2. ReceiveInv /\ [Next]_vars => ReceiveInv'  BY ReceiveInvStep
<1>3. ReceiveInv => OrderIsKept  BY ReceiveInvMeans
<1> QED  BY <1>1, <1>2, <1>3, PTL DEF Spec

-----------------------------------------------------------------------------
(* The walks over the handlers *)

\* Those asked, in this order.
Turn(off) ==
  \A j, k \in 1 .. Len(off) : j < k =>
    RuleOf(off[j]).prio >= RuleOf(off[k]).prio /\ off[j] # off[k]
\* A walk that has come to place m of the list: who was asked is not behind it, and who has
\* waited since it began and matches is, unless it was asked.
Placed(off, since, s, list, m) ==
  /\ m # 0 => off # <<>> /\ off[Len(off)] = list[m]
  /\ m = 0 => off = <<>>
  /\ \A j \in 1 .. Len(off), n \in m + 1 .. Len(list) : list[n] # off[j]
  /\ \A h \in since : Matches(h, s) =>
       (\E j \in 1 .. Len(off) : off[j] = h) \/ \E n \in m + 1 .. Len(list) : list[n] = h
WalkInv(f, list) ==
  /\ Turn(f.offered)
  /\ f.at = None => f.offered = <<>> /\ ~f.freed
  /\ f.at # None => f.freed \/ \E m \in 1 .. Len(list) :
       list[m] = f.at /\ Placed(f.offered, f.since, f.stanza, list, m)
WalksOf(st, list) ==
  \A k \in 1 .. Len(st) : Walk(st[k]) =>
    WalkInv(st[k], list) /\ (st[k].freed => k > 1 /\ st[k - 1].fn = "user")
WalksInv == Listed(handlers) /\ WalksOf(stack, handlers)

LEMMA PushWalks ==
  ASSUME NEW f \in Frames, NEW st \in Seq(Frames), NEW list, WalksOf(st, list),
         Walk(f) => WalkInv(f, list) /\ ~f.freed
  PROVE  WalksOf(<<f>> \o st, list)
<1> DEFINE t == <<f>> \o st
<1>1. Len(t) = Len(st) + 1 /\ t[1] = f /\ Len(st) \in Nat
      /\ \A k \in 2 .. Len(st) + 1 : t[k] = st[k - 1]
  BY ConsFacts
<1> HIDE DEF t
<1>2. ASSUME NEW k \in 1 .. Len(t), Walk(t[k])
      PROVE  WalkInv(t[k], list) /\ (t[k].freed => k > 1 /\ t[k - 1].fn = "user")
  <2>1. CASE k = 1  BY <1>1, <1>2, <2>1
  <2>2. CASE k # 1
    <3>1. k \in 2 .. Len(st) + 1 /\ k - 1 \in 1 .. Len(st) /\ t[k] = st[k - 1]  BY <1>1, <2>2
    <3>2. WalkInv(st[k - 1], list) /\ (st[k - 1].freed => k - 1 > 1 /\ st[k - 2].fn = "user")
      BY <1>2, <3>1 DEF WalksOf
    <3>3. k - 1 > 1 => k - 1 \in 2 .. Len(st) + 1 /\ t[k - 1] = st[k - 2] /\ k > 1
      BY <1>1, <3>1
    <3> QED  BY <3>1, <3>2, <3>3
  <2> QED  BY <2>1, <2>2
<1> QED  BY <1>2 DEF WalksOf, t

LEMMA PopWalks ==
  ASSUME NEW st \in Seq(Frames), st # <<>>, NEW list, WalksOf(st, list),
         st[1].fn = "user" /\ Len(st) > 1 => ~st[2].freed
  PROVE  WalksOf(Tail(st), list) /\ (Walk(st[1]) => WalkInv(st[1], list) /\ ~st[1].freed)
<1> DEFINE t == Tail(st)
<1>1. Len(t) = Len(st) - 1 /\ Len(st) \in Nat \ {0} /\ \A k \in 1 .. Len(st) - 1 : t[k] = st[k + 1]
  BY TailFacts
<1> HIDE DEF t
<1>2. ASSUME NEW k \in 1 .. Len(t), Walk(t[k])
      PROVE  WalkInv(t[k], list) /\ (t[k].freed => k > 1 /\ t[k - 1].fn = "user")
  <2>1. k \in 1 .. Len(st) - 1 /\ k + 1 \in 1 .. Len(st) /\ t[k] = st[k + 1]  BY <1>1
  <2>2. WalkInv(st[k + 1], list) /\ (st[k + 1].freed => st[k + 1 - 1].fn = "user")
    BY <1>2, <2>1 DEF WalksOf
  <2>3. k + 1 - 1 = k  BY <2>1
  <2>4. CASE k = 1
    <3>1. Len(st) > 1  BY <1>1, <2>1
    <3>2. st[k].fn = "user" => ~st[k + 1].freed  BY <2>4, <3>1
    <3> QED  BY <2>1, <2>2, <2>3, <3>2
  <2>5. CASE k # 1
    <3>1. k > 1 /\ k - 1 \in 1 .. Len(st) - 1 /\ t[k - 1] = st[k - 1 + 1] /\ k - 1 + 1 = k
      BY <1>1, <2>1, <2>5
    <3> QED  BY <2>1, <2>2, <2>3, <3>1
  <2> QED  BY <2>4, <2>5
<1>3. Walk(st[1]) => WalkInv(st[1], list) /\ ~st[1].freed
  <2>1. 1 \in 1 .. Len(st) /\ ~(1 > 1)  BY <1>1
  <2> QED  BY <2>1 DEF WalksOf
<1> QED  BY <1>2, <1>3 DEF WalksOf, t

\* What is left of the walk, from place m of the list.
LEMMA RestFacts ==
  ASSUME NEW list \in Seq(Heirs), NEW m \in 0 .. Len(list), NEW r, r = SubSeq(list, m + 1, Len(list))
  PROVE  Len(r) = Len(list) - m /\ Len(r) \in Nat /\ \A j \in 1 .. Len(r) : r[j] = list[m + j]
<1>1. Len(list) \in Nat /\ m \in Nat /\ m <= Len(list)  OBVIOUS
<1>2. Len(r) = Len(list) - m /\ \A j \in 1 .. Len(list) - m : r[j] = list[m + 1 + j - 1]
  BY <1>1
<1>3. \A j \in 1 .. Len(list) - m : m + 1 + j - 1 = m + j  BY <1>1
<1> QED  BY <1>1, <1>2, <1>3

\* The place of the walk f in the list is what the code's link leads to.
LEMMA RestOfWalk ==
  ASSUME handlers \in Seq(Heirs), Listed(handlers), NEW f \in Walks, WalkInv(f, handlers), ~f.freed
  PROVE  \E m \in 0 .. Len(handlers) :
           /\ Rest(f) = SubSeq(handlers, m + 1, Len(handlers))
           /\ f.at = None <=> m = 0
           /\ f.at # None => handlers[m] = f.at
           /\ Placed(f.offered, IF f.at = None THEN ToSet(handlers) ELSE f.since, f.stanza, handlers, m)
<1>1. Len(handlers) \in Nat  OBVIOUS
<1>2. CASE f.at = None
  <2>1. f.offered = <<>> /\ Rest(f) = handlers  BY <1>2 DEF WalkInv, Rest
  <2>2. SubSeq(handlers, 0 + 1, Len(handlers)) = handlers
    <3> DEFINE r == SubSeq(handlers, 0 + 1, Len(handlers))
    <3>1. r \in Seq(Heirs)  BY <1>1
    <3>2. Len(r) = Len(handlers) - 0 /\ \A j \in 1 .. Len(r) : r[j] = handlers[0 + j]
      BY <1>1, RestFacts
    <3> HIDE DEF r
    <3>3. Len(r) = Len(handlers) /\ \A j \in 1 .. Len(r) : r[j] = handlers[j]  BY <1>1, <3>2
    <3>4. r = handlers  BY <3>1, <3>3, SeqEqual
    <3> QED  BY <3>4 DEF r
  <2>3. \A h \in ToSet(handlers) : \E n \in 0 + 1 .. Len(handlers) : handlers[n] = h  BY DEF ToSet
  <2>4. Placed(<<>>, ToSet(handlers), f.stanza, handlers, 0)  BY <2>3 DEF Placed
  <2>5. 0 \in 0 .. Len(handlers)  BY <1>1
  <2> QED  BY <1>2, <2>1, <2>2, <2>4, <2>5
<1>3. CASE f.at # None
  <2>1. PICK m \in 1 .. Len(handlers) :
           handlers[m] = f.at /\ Placed(f.offered, f.since, f.stanza, handlers, m)
    BY <1>3 DEF WalkInv
  <2>2. \A i \in 1 .. Len(handlers) : handlers[i] = f.at => i = m
    <3> SUFFICES ASSUME NEW i \in 1 .. Len(handlers), handlers[i] = f.at, i # m PROVE FALSE  OBVIOUS
    <3>1. i < m \/ m < i  BY <1>1
    <3> QED  BY <2>1, <3>1 DEF Listed
  <2>3. Position(f.at, handlers) = m  BY <2>1, <2>2 DEF Position
  <2>4. Rest(f) = SubSeq(handlers, m + 1, Len(handlers))  BY <1>3, <2>3 DEF Rest, After
  <2>5. m \in 0 .. Len(handlers) /\ m # 0  BY <1>1
  <2> QED  BY <1>3, <2>1, <2>4, <2>5
<1> QED  BY <1>2, <1>3

\* The next handler is asked.
LEMMA NextWalk ==
  ASSUME handlers \in Seq(Heirs), Listed(handlers), NEW f \in Walks, WalkInv(f, handlers), ~f.freed,
         NEW h \in Heirs, IsNext(h, f)
  PROVE  WalkInv(AtNext(f, h), handlers)
<1> DEFINE g == AtNext(f, h)
           since == IF f.at = None THEN ToSet(handlers) ELSE f.since
           off == f.offered
           s == f.stanza
<1>1. PICK m \in 0 .. Len(handlers) :
         /\ Rest(f) = SubSeq(handlers, m + 1, Len(handlers))
         /\ f.at = None <=> m = 0
         /\ Placed(off, since, s, handlers, m)
  BY RestOfWalk
<1>2. PICK j \in 1 .. Len(Rest(f)) :
         /\ Rest(f)[j] = h /\ Matches(h, s)
         /\ \A i \in 1 .. j - 1 : ~Matches(Rest(f)[i], s)
  BY DEF IsNext
<1>3. Len(Rest(f)) = Len(handlers) - m /\ \A i \in 1 .. Len(Rest(f)) : Rest(f)[i] = handlers[m + i]
  BY <1>1, RestFacts
<1>4. Len(handlers) \in Nat /\ m \in Nat /\ j \in Nat /\ j >= 1 /\ m + j <= Len(handlers)
  <2>1. Len(handlers) \in Nat /\ m \in Nat  OBVIOUS
  <2>2. j \in 1 .. Len(handlers) - m  BY <1>3
  <2> QED  BY <2>1, <2>2
<1> DEFINE k == m + j
<1>5. k \in 1 .. Len(handlers) /\ k > m /\ handlers[k] = h  BY <1>2, <1>3, <1>4
<1>6. \A n \in m + 1 .. k - 1 : ~Matches(handlers[n], s)
  <2> TAKE n \in m + 1 .. k - 1
  <2>1. n - m \in 1 .. j - 1 /\ n - m \in 1 .. Len(Rest(f)) /\ m + (n - m) = n  BY <1>3, <1>4
  <2>2. Rest(f)[n - m] = handlers[n]  BY <1>3, <2>1
  <2> QED  BY <1>2, <2>1, <2>2
<1>7. /\ g.stanza = s /\ g.at = h /\ h # None /\ g.freed = f.freed
      /\ g.offered = Append(off, h) /\ g.since = since
  BY NextFrame
<1>8. off \in Seq(Heirs)  BY DEF Walks
<1> DEFINE o == Append(off, h)
<1>9. Len(o) = Len(off) + 1 /\ o[Len(off) + 1] = h /\ Len(off) \in Nat
      /\ \A i \in 1 .. Len(off) : o[i] = off[i]
  BY <1>8, AppendFacts
<1>10. Turn(off)  BY DEF WalkInv
<1> HIDE DEF g, since, off, s, o, k
<1>11. \A i \in 1 .. Len(off) : off[i] # h
  <2>1. k \in m + 1 .. Len(handlers)  BY <1>4, <1>5
  <2> QED  BY <1>1, <1>5, <2>1 DEF Placed
<1>12. \A i \in 1 .. Len(off) : RuleOf(off[i]).prio >= RuleOf(h).prio
  <2> TAKE i \in 1 .. Len(off)
  <2>1. m # 0
    <3> SUFFICES ASSUME m = 0 PROVE FALSE  OBVIOUS
    <3>1. off = <<>>  BY <1>1 DEF Placed
    <3> QED  BY <3>1
  <2>2. m \in 1 .. Len(handlers) /\ off[Len(off)] = handlers[m]  BY <1>1, <1>4, <2>1 DEF Placed
  <2>3. RuleOf(handlers[m]).prio >= RuleOf(h).prio  BY <1>5, <2>2 DEF Listed
  <2>4. RuleOf(off[i]).prio >= RuleOf(off[Len(off)]).prio
    <3>1. i = Len(off) \/ i < Len(off)  BY <1>9
    <3>2. RuleOf(off[i]).prio \in 0 .. 9  BY <1>8, PrioType
    <3>3. i < Len(off) => Len(off) \in 1 .. Len(off)  BY <1>9
    <3> QED  BY <1>10, <3>1, <3>2, <3>3 DEF Turn
  <2>5. RuleOf(off[i]).prio \in Int /\ RuleOf(handlers[m]).prio \in Int /\ RuleOf(h).prio \in Int
    <3>1. off[i] \in Heirs /\ handlers[m] \in Heirs  BY <1>8, <2>2
    <3>2. \A e \in Heirs : RuleOf(e).prio \in Int  BY PrioType
    <3> QED  BY <3>1, <3>2
  <2> QED  BY <2>2, <2>3, <2>4, <2>5
<1>13. Turn(o)
  <2> SUFFICES ASSUME NEW i \in 1 .. Len(o), NEW n \in 1 .. Len(o), i < n
               PROVE  RuleOf(o[i]).prio >= RuleOf(o[n]).prio /\ o[i] # o[n]
    BY DEF Turn
  <2>1. i \in 1 .. Len(off) /\ o[i] = off[i]  BY <1>9
  <2>2. CASE n \in 1 .. Len(off)  BY <1>9, <1>10, <2>1, <2>2 DEF Turn
  <2>3. CASE n = Len(off) + 1  BY <1>9, <1>11, <1>12, <2>1, <2>3
  <2>4. n \in 1 .. Len(off) \/ n = Len(off) + 1  BY <1>9
  <2> QED  BY <2>2, <2>3, <2>4
<1>14. Placed(o, since, s, handlers, k)
  <2>1. k # 0 /\ o # <<>> /\ o[Len(o)] = handlers[k]  BY <1>5, <1>9
  <2>2. ASSUME NEW i \in 1 .. Len(o), NEW n \in k + 1 .. Len(handlers)
        PROVE  handlers[n] # o[i]
    <3>1. n \in m + 1 .. Len(handlers) /\ n \in 1 .. Len(handlers) /\ k < n  BY <1>4, <1>5
    <3>2. handlers[n] # h  BY <1>5, <3>1 DEF Listed
    <3>3. \A l \in 1 .. Len(off) : handlers[n] # off[l]  BY <1>1, <3>1 DEF Placed
    <3>4. i \in 1 .. Len(off) \/ i = Len(off) + 1  BY <1>9
    <3> QED  BY <1>9, <3>2, <3>3, <3>4
  <2>3. ASSUME NEW e \in since, Matches(e, s)
        PROVE  (\E i \in 1 .. Len(o) : o[i] = e) \/ \E n \in k + 1 .. Len(handlers) : handlers[n] = e
    <3>1. (\E i \in 1 .. Len(off) : off[i] = e) \/ \E n \in m + 1 .. Len(handlers) : handlers[n] = e
      BY <1>1, <2>3 DEF Placed
    <3>2. CASE \E i \in 1 .. Len(off) : off[i] = e
      <4>1. PICK i \in 1 .. Len(off) : off[i] = e  BY <3>2
      <4>2. i \in 1 .. Len(o) /\ o[i] = e  BY <1>9, <4>1
      <4> QED  BY <4>2
    <3>3. CASE \E n \in m + 1 .. Len(handlers) : handlers[n] = e
      <4>1. PICK n \in m + 1 .. Len(handlers) : handlers[n] = e  BY <3>3
      <4>2. n \in m + 1 .. k - 1 \/ n = k \/ n \in k + 1 .. Len(handlers)  BY <1>4, <1>5
      <4>3. n \notin m + 1 .. k - 1  BY <1>6, <2>3, <4>1
      <4>4. n = k => e = h /\ Len(off) + 1 \in 1 .. Len(o) /\ o[Len(off) + 1] = e  BY <1>5, <1>9, <4>1
      <4> QED  BY <4>1, <4>2, <4>3, <4>4
    <3> QED  BY <3>1, <3>2, <3>3
  <2> QED  BY <2>1, <2>2, <2>3 DEF Placed
<1> QED  BY <1>5, <1>7, <1>13, <1>14 DEF WalkInv, g, o

\* A handler that is registered again goes before the walks that have asked it.
LEMMA InsertKeepsWalk ==
  ASSUME NEW list \in Seq(Heirs), NEW h \in Heirs, ~Contains(list, h),
         NEW f \in Walks, WalkInv(f, list)
  PROVE  WalkInv(f, Insert(h, list))
<1> DEFINE t == Insert(h, list)
           i == Place(h, list)
           off == f.offered
           s == f.stanza
<1>0. Len(list) \in Nat  OBVIOUS
<1>1. /\ Len(t) = Len(list) + 1 /\ i \in 1 .. Len(list) + 1 /\ t[i] = h /\ Len(list) \in Nat
      /\ \A k \in 1 .. i - 1 : t[k] = list[k]
      /\ \A k \in i .. Len(list) : t[k + 1] = list[k]
  BY <1>0, InsertFacts, Zenon
<1>2. \A j \in 1 .. i - 1 : RuleOf(list[j]).prio > RuleOf(h).prio  BY PlaceFacts
<1>3. off \in Seq(Heirs)  BY DEF Walks
<1>4. Turn(off)  BY DEF WalkInv
<1> HIDE DEF t, i, off, s
<1>5. CASE f.at = None \/ f.freed  BY <1>4, <1>5 DEF WalkInv, off
<1>6. CASE f.at # None /\ ~f.freed
  <2>1. PICK m \in 1 .. Len(list) : list[m] = f.at /\ Placed(off, f.since, s, list, m)
    BY <1>6 DEF WalkInv, off, s
  <2>2. off # <<>> /\ off[Len(off)] = list[m]
    <3>1. m # 0  BY <1>1
    <3> QED  BY <2>1, <3>1 DEF Placed
  <2>3. m < i => \A j \in 1 .. Len(off) : off[j] # h
    <3> SUFFICES ASSUME m < i, NEW j \in 1 .. Len(off), off[j] = h PROVE FALSE  OBVIOUS
    <3>1. m \in 1 .. i - 1  BY <1>1
    <3>2. RuleOf(list[m]).prio > RuleOf(h).prio  BY <1>2, <3>1
    <3>3. j # Len(off)
      <4>1. list[m] # h  BY DEF Contains
      <4> QED  BY <2>2, <4>1
    <3>4. j < Len(off) /\ Len(off) \in 1 .. Len(off)
      <4>1. Len(off) \in Nat  BY <1>3
      <4> QED  BY <3>3, <4>1
    <3>5. RuleOf(h).prio >= RuleOf(list[m]).prio  BY <1>4, <2>2, <3>4 DEF Turn
    <3>6. RuleOf(h).prio \in 0 .. 9  BY PrioType
    <3>7. list[m] \in Heirs  OBVIOUS
    <3>8. RuleOf(list[m]).prio \in 0 .. 9  BY <3>7, PrioType
    <3> QED  BY <3>2, <3>5, <3>6, <3>8
  <2>4. PICK p \in 1 .. Len(t) :
           /\ p = IF m < i THEN m ELSE m + 1
           /\ t[p] = list[m]
    <3>1. CASE m < i
      <4>1. m \in 1 .. i - 1 /\ m \in 1 .. Len(t)  BY <1>1, <3>1
      <4> QED  BY <1>1, <3>1, <4>1
    <3>2. CASE ~(m < i)
      <4>1. m \in i .. Len(list) /\ m + 1 \in 1 .. Len(t)  BY <1>1, <3>2
      <4> QED  BY <1>1, <3>2, <4>1
    <3> QED  BY <3>1, <3>2
  <2>5. \A n \in p + 1 .. Len(t) :
          (n = i /\ m < i) \/ \E l \in m + 1 .. Len(list) : t[n] = list[l]
    <3> TAKE n \in p + 1 .. Len(t)
    <3>1. CASE n < i
      <4>1. n \in 1 .. i - 1 /\ n \in m + 1 .. Len(list)  BY <1>1, <2>4, <3>1
      <4> QED  BY <1>1, <4>1
    <3>2. CASE n = i
      <4>1. m < i  BY <1>1, <2>4, <3>2
      <4> QED  BY <3>2, <4>1
    <3>3. CASE n > i
      <4>1. n - 1 \in i .. Len(list) /\ n - 1 \in m + 1 .. Len(list) /\ n - 1 + 1 = n
        BY <1>1, <2>4, <3>3
      <4>2. t[n - 1 + 1] = list[n - 1]  BY <1>1, <4>1
      <4> QED  BY <4>1, <4>2
    <3>4. n \in Int /\ i \in Int  BY <1>1
    <3> QED  BY <3>1, <3>2, <3>3, <3>4
  <2>6. \A l \in m + 1 .. Len(list) : \E n \in p + 1 .. Len(t) : t[n] = list[l]
    <3> TAKE l \in m + 1 .. Len(list)
    <3>1. CASE l < i
      <4>1. l \in 1 .. i - 1 /\ l \in p + 1 .. Len(t)  BY <1>1, <2>4, <3>1
      <4> QED  BY <1>1, <4>1
    <3>2. CASE ~(l < i)
      <4>1. l \in i .. Len(list) /\ l + 1 \in p + 1 .. Len(t)  BY <1>1, <2>4, <3>2
      <4> QED  BY <1>1, <4>1
    <3> QED  BY <3>1, <3>2
  <2>7. Placed(off, f.since, s, t, p)
    <3>1. p # 0  BY <1>1
    <3>2. ASSUME NEW j \in 1 .. Len(off), NEW n \in p + 1 .. Len(t) PROVE t[n] # off[j]
      <4>1. CASE n = i /\ m < i  BY <1>1, <2>3, <4>1
      <4>2. CASE \E l \in m + 1 .. Len(list) : t[n] = list[l]  BY <2>1, <4>2 DEF Placed
      <4> QED  BY <2>5, <4>1, <4>2
    <3>3. ASSUME NEW e \in f.since, Matches(e, s)
          PROVE  (\E j \in 1 .. Len(off) : off[j] = e) \/ \E n \in p + 1 .. Len(t) : t[n] = e
      <4>1. (\E j \in 1 .. Len(off) : off[j] = e) \/ \E l \in m + 1 .. Len(list) : list[l] = e
        BY <2>1, <3>3 DEF Placed
      <4> QED  BY <2>6, <4>1
    <3> QED  BY <2>2, <2>4, <3>1, <3>2, <3>3 DEF Placed
  <2>8. t[p] = f.at  BY <2>1, <2>4
  <2>9. Turn(f.offered) /\ Placed(f.offered, f.since, f.stanza, t, p)  BY <1>4, <2>7 DEF off, s
  <2> QED  BY <1>6, <2>8, <2>9 DEF WalkInv, t
<1> QED  BY <1>5, <1>6 DEF t

\* A walk at a handler that is unregistered is left with nothing to look at.
LEMMA RemoveKeepsWalk ==
  ASSUME NEW list \in Seq(Heirs), NEW h \in Handlers, Contains(list, h),
         NEW f \in Walks, WalkInv(f, list)
  PROVE  WalkInv(Freed(f, h), Without(h, list))
<1> DEFINE t == Without(h, list)
           i == Position(h, list)
           g == Freed(f, h)
           off == f.offered
           s == f.stanza
<1>1. /\ i \in 1 .. Len(list) /\ list[i] = h
      /\ Len(t) = Len(list) - 1 /\ Len(list) \in Nat
      /\ \A k \in 1 .. i - 1 : t[k] = list[k]
      /\ \A k \in i .. Len(list) - 1 : t[k] = list[k + 1]
  BY WithoutFacts
<1>2. /\ g.offered = off /\ g.stanza = s /\ g.at = f.at /\ g.since = f.since \ {h}
      /\ g.freed <=> f.freed \/ f.at = h
  <2>1. f \in Frames /\ f.fn = "dispatch" /\ h \in Heirs  BY DEF Walks, Frames, Heirs
  <2>2. /\ g.stanza = f.stanza /\ g.at = f.at /\ g.offered = f.offered
        /\ g.freed = (f.freed \/ f.at = h) /\ g.since = f.since \ {h}
    BY <2>1, FreedFrame
  <2>3. f.freed \in BOOLEAN  BY DEF Walks
  <2> HIDE DEF g
  <2> QED  BY <2>2, <2>3
<1>3. h # None  BY ReceiveAssumption DEF ReceiveAssumption
<1>4. Turn(off)  BY DEF WalkInv
<1> HIDE DEF t, i, g, off, s
<1>5. CASE f.at = None
  <2>1. off = <<>> /\ ~f.freed  BY <1>5 DEF WalkInv, off
  <2> QED  BY <1>2, <1>3, <1>4, <1>5, <2>1 DEF WalkInv, g, t
<1>6. CASE f.freed \/ f.at = h  BY <1>2, <1>3, <1>4, <1>5, <1>6 DEF WalkInv, g, t
<1>7. CASE f.at # None /\ ~f.freed /\ f.at # h
  <2>1. PICK m \in 1 .. Len(list) : list[m] = f.at /\ Placed(off, f.since, s, list, m)
    BY <1>7 DEF WalkInv, off, s
  <2>2. off # <<>> /\ off[Len(off)] = list[m] /\ m # i
    <3>1. m # 0  BY <1>1
    <3> QED  BY <1>1, <1>7, <2>1, <3>1 DEF Placed
  <2>3. PICK p \in 1 .. Len(t) : p = (IF m < i THEN m ELSE m - 1) /\ t[p] = list[m]
    <3>1. CASE m < i
      <4>1. m \in 1 .. i - 1 /\ m \in 1 .. Len(t)  BY <1>1, <3>1
      <4> QED  BY <1>1, <3>1, <4>1
    <3>2. CASE ~(m < i)
      <4>1. m - 1 \in i .. Len(list) - 1 /\ m - 1 \in 1 .. Len(t) /\ m - 1 + 1 = m
        BY <1>1, <2>2, <3>2
      <4>2. t[m - 1] = list[m - 1 + 1]  BY <1>1, <4>1
      <4> QED  BY <3>2, <4>1, <4>2
    <3> QED  BY <3>1, <3>2
  <2>4. \A n \in p + 1 .. Len(t) : \E l \in m + 1 .. Len(list) : t[n] = list[l]
    <3> TAKE n \in p + 1 .. Len(t)
    <3>1. CASE n < i
      <4>1. n \in 1 .. i - 1 /\ n \in m + 1 .. Len(list)  BY <1>1, <2>2, <2>3, <3>1
      <4> QED  BY <1>1, <4>1
    <3>2. CASE ~(n < i)
      <4>1. n \in i .. Len(list) - 1 /\ n + 1 \in m + 1 .. Len(list)  BY <1>1, <2>3, <3>2
      <4> QED  BY <1>1, <4>1
    <3> QED  BY <3>1, <3>2
  <2>5. \A l \in m + 1 .. Len(list) : l # i => \E n \in p + 1 .. Len(t) : t[n] = list[l]
    <3> TAKE l \in m + 1 .. Len(list)
    <3> HAVE l # i
    <3>1. CASE l < i
      <4>1. l \in 1 .. i - 1 /\ l \in p + 1 .. Len(t)  BY <1>1, <2>3, <3>1
      <4> QED  BY <1>1, <4>1
    <3>2. CASE ~(l < i)
      <4>1. l - 1 \in i .. Len(list) - 1 /\ l - 1 \in p + 1 .. Len(t) /\ l - 1 + 1 = l
        BY <1>1, <2>2, <2>3, <3>2
      <4>2. t[l - 1] = list[l - 1 + 1]  BY <1>1, <4>1
      <4> QED  BY <4>1, <4>2
    <3> QED  BY <3>1, <3>2
  <2>6. Placed(off, f.since \ {h}, s, t, p)
    <3>1. p # 0  BY <1>1
    <3>2. ASSUME NEW j \in 1 .. Len(off), NEW n \in p + 1 .. Len(t) PROVE t[n] # off[j]
      BY <2>1, <2>4 DEF Placed
    <3>3. ASSUME NEW e \in f.since \ {h}, Matches(e, s)
          PROVE  (\E j \in 1 .. Len(off) : off[j] = e) \/ \E n \in p + 1 .. Len(t) : t[n] = e
      <4>1. e \in f.since /\ e # h  OBVIOUS
      <4>2. (\E j \in 1 .. Len(off) : off[j] = e) \/ \E l \in m + 1 .. Len(list) : list[l] = e
        BY <2>1, <3>3, <4>1 DEF Placed
      <4> QED  BY <1>1, <2>5, <4>1, <4>2
    <3> QED  BY <2>2, <2>3, <3>1, <3>2, <3>3 DEF Placed
  <2> QED  BY <1>2, <1>4, <1>7, <2>1, <2>3, <2>6 DEF WalkInv, g, t
<1> QED  BY <1>5, <1>6, <1>7

LEMMA PopTwoWalks ==
  ASSUME NEW st \in Seq(Frames), Len(st) > 1, st[2].fn # "user", NEW list, WalksOf(st, list)
  PROVE  WalksOf(Tail(Tail(st)), list)
<1> DEFINE u == Tail(st)
           t == Tail(u)
<1>1. Len(st) \in Nat /\ Len(u) = Len(st) - 1 /\ u \in Seq(Frames) /\ u # <<>>
      /\ \A k \in 1 .. Len(st) - 1 : u[k] = st[k + 1]
  <2>1. st # <<>>  OBVIOUS
  <2>2. /\ u \in Seq(Frames) /\ Len(st) \in Nat \ {0} /\ Len(u) = Len(st) - 1
        /\ \A k \in 1 .. Len(st) - 1 : u[k] = st[k + 1]
    BY <2>1, TailFacts
  <2> HIDE DEF u
  <2>3. u # <<>>  BY <2>2
  <2> QED  BY <2>2, <2>3
<1> HIDE DEF u
<1>2. Len(t) = Len(u) - 1 /\ \A k \in 1 .. Len(u) - 1 : t[k] = u[k + 1]  BY <1>1, TailFacts
<1> HIDE DEF t
<1>3. ASSUME NEW k \in 1 .. Len(t), Walk(t[k])
      PROVE  WalkInv(t[k], list) /\ (t[k].freed => k > 1 /\ t[k - 1].fn = "user")
  <2>1. k \in 1 .. Len(u) - 1 /\ k + 1 \in 1 .. Len(st) - 1 /\ k + 2 \in 1 .. Len(st)
        /\ t[k] = st[k + 2] /\ k + 2 - 1 = k + 1
    <3>1. k \in 1 .. Len(u) - 1 /\ k + 1 \in 1 .. Len(st) - 1 /\ k + 2 \in 1 .. Len(st)
          /\ k + 2 - 1 = k + 1 /\ k + 1 + 1 = k + 2
      BY <1>1, <1>2
    <3> QED  BY <1>1, <1>2, <3>1
  <2>2. WalkInv(st[k + 2], list) /\ (st[k + 2].freed => st[k + 1].fn = "user")
    BY <1>3, <2>1 DEF WalksOf
  <2>3. CASE k = 1  BY <2>1, <2>2, <2>3
  <2>4. CASE k # 1
    <3>1. k > 1 /\ k - 1 \in 1 .. Len(u) - 1 /\ k - 1 + 1 = k /\ k \in 1 .. Len(st) - 1
      BY <1>1, <1>2, <2>4
    <3>2. t[k - 1] = u[k] /\ u[k] = st[k + 1]  BY <1>1, <1>2, <3>1
    <3> QED  BY <2>1, <2>2, <3>1, <3>2
  <2> QED  BY <2>3, <2>4
<1> QED  BY <1>3 DEF WalksOf, t, u

LEMMA WalksStep ==
  ASSUME "vanish" \notin Liberties, Sorts, StackInv, WalksInv, [Next]_vars
  PROVE  WalksInv'
<1>0. stack \in Seq(Frames) /\ handlers \in Seq(Heirs) /\ held \in Seq(Later)  BY DEF Sorts
<1>w. Listed(handlers) /\ WalksOf(stack, handlers)  BY DEF WalksInv
<1>p. ASSUME NEW st \in Seq(Frames), NEW s \in Read, WalksOf(st, handlers)
      PROVE  <<Dispatch(s)>> \o st \in Seq(Frames) /\ WalksOf(<<Dispatch(s)>> \o st, handlers)
  <2> DEFINE d == Dispatch(s)
  <2>1. d \in Frames /\ WalkInv(d, handlers) /\ ~d.freed
    <3>1. d \in Frames /\ d.at = None /\ d.offered = <<>> /\ ~d.freed  BY NewFrames DEF Dispatch
    <3>2. Turn(<<>>)  BY DEF Turn
    <3> QED  BY <3>1, <3>2 DEF WalkInv
  <2> HIDE DEF d
  <2>2. <<d>> \o st \in Seq(Frames) /\ WalksOf(<<d>> \o st, handlers)
    BY <1>p, <2>1, PushWalks, ConsFacts
  <2> QED  BY <2>2 DEF d
<1>q. ASSUME NEW st \in Seq(Frames), NEW fn \in {"user", "flush", "disable"}, WalksOf(st, handlers)
      PROVE  <<Frame(fn)>> \o st \in Seq(Frames) /\ WalksOf(<<Frame(fn)>> \o st, handlers)
  <2> DEFINE d == Frame(fn)
  <2>1. d \in Frames /\ ~Walk(d)  BY NewFrames DEF Frame, Walk
  <2> HIDE DEF d
  <2>2. <<d>> \o st \in Seq(Frames) /\ WalksOf(<<d>> \o st, handlers)
    BY <1>q, <2>1, PushWalks, ConsFacts
  <2> QED  BY <2>2 DEF d
<1>1. CASE UNCHANGED <<stack, handlers>>  BY <1>1 DEF WalksInv
<1>2. CASE ReceiveStanza
  <2>1. handlers' = handlers /\ stack = <<>>  BY <1>2 DEF ReceiveStanza, AtLoop
  <2>2. PICK s \in Read :
           \/ stack' = stack
           \/ stack' = <<Frame("flush"), Dispatch(s)>>
           \/ stack' = <<Dispatch(s)>>
    BY <1>2, ReceiveStanzaFacts
  <2> DEFINE d == Dispatch(s)
             g == Frame("flush")
  <2>3. d \in Frames /\ g \in Frames  BY NewFrames
  <2>4. <<>> \in Seq(Frames) /\ <<d>> \o <<>> \in Seq(Frames) /\ WalksOf(<<d>> \o <<>>, handlers)
    <3>1. <<>> \in Seq(Frames) /\ WalksOf(<<>>, handlers)  BY <1>w, <2>1
    <3> QED  BY <1>p, <3>1
  <2>5. <<g>> \o (<<d>> \o <<>>) \in Seq(Frames) /\ WalksOf(<<g>> \o (<<d>> \o <<>>), handlers)
    BY <1>q, <2>4
  <2> HIDE DEF d, g
  <2>6. <<d>> \o <<>> = <<d>> /\ <<g>> \o <<d>> = <<g, d>>
    <3>1. <<d>> \in Seq(Frames)  BY <2>3
    <3>2. <<d>> \o <<>> = <<d>>  BY <3>1, ConcatEmptySeq
    <3>3. <<g, d>> = <<g>> \o <<d>>  BY <2>3
    <3> QED  BY <3>2, <3>3
  <2>7. stack' = stack \/ stack' = <<g, d>> \/ stack' = <<d>>  BY <2>2 DEF g, d
  <2> QED  BY <1>w, <2>1, <2>4, <2>5, <2>6, <2>7 DEF WalksInv
<1>3. CASE FlushStep
  <2>1. handlers' = handlers /\ stack # <<>> /\ Head(stack).fn = "flush"  BY <1>3 DEF FlushStep, Running
  <2>2. CASE held = <<>>
    <3>1. stack' = Tail(stack)  BY <1>3, <2>2 DEF FlushStep
    <3>2. stack[1].fn # "user"  BY <1>0, <2>1, TailFacts
    <3>3. WalksOf(Tail(stack), handlers)  BY <1>0, <1>w, <2>1, <3>2, PopWalks
    <3> QED  BY <1>w, <2>1, <3>1, <3>3 DEF WalksInv
  <2>3. CASE held # <<>>
    <3>1. stack' = <<Dispatch(Head(held))>> \o stack  BY <1>3, <2>3 DEF FlushStep, StillFlushing
    <3>2. Head(held) \in Read
      <4>1. Head(held) \in Later  BY <1>0, <2>3, TailFacts
      <4> QED  BY <4>1 DEF Later, Read
    <3>3. WalksOf(<<Dispatch(Head(held))>> \o stack, handlers)  BY <1>0, <1>p, <1>w, <3>2
    <3> QED  BY <1>w, <2>1, <3>1, <3>3 DEF WalksInv
  <2> QED  BY <2>2, <2>3
<1>4. CASE Dispatching
  <2> DEFINE f == stack[1]
             t == Tail(stack)
  <2>1. stack # <<>> /\ f \in Walks /\ Walk(f) /\ handlers' = handlers  BY <1>4, DispatchFacts
  <2>2. stack' = t \/ \E h \in Heirs : IsNext(h, f)
           /\ (stack' = <<Frame("user"), AtNext(f, h)>> \o t \/ stack' = <<AtNext(f, h)>> \o t)
    BY <1>4, DispatchFacts
  <2>3. WalksOf(t, handlers) /\ WalkInv(f, handlers) /\ ~f.freed /\ t \in Seq(Frames)
    <3>1. f.fn # "user"  BY <2>1 DEF Walk
    <3> QED  BY <1>0, <1>w, <2>1, <3>1, PopWalks, TailFacts
  <2> HIDE DEF f, t
  <2>4. CASE stack' = t  BY <1>w, <2>1, <2>3, <2>4 DEF WalksInv
  <2>5. ASSUME NEW h \in Heirs, IsNext(h, f),
               stack' = <<Frame("user"), AtNext(f, h)>> \o t \/ stack' = <<AtNext(f, h)>> \o t
        PROVE  WalksInv'
    <3> DEFINE g == AtNext(f, h)
               v == Frame("user")
    <3>1. g \in Frames /\ g.freed = f.freed  BY <1>0, <2>1, NextFrame
    <3>2. WalkInv(g, handlers)  BY <1>0, <1>w, <2>1, <2>3, <2>5, NextWalk
    <3>3. v \in Frames  BY NewFrames
    <3> HIDE DEF g
    <3>4. WalksOf(<<g>> \o t, handlers) /\ <<g>> \o t \in Seq(Frames)
      BY <2>3, <3>1, <3>2, PushWalks, ConsFacts
    <3>5. WalksOf(<<v>> \o (<<g>> \o t), handlers)  BY <1>q, <3>4
    <3> HIDE DEF v
    <3>6. <<v, g>> \o t = <<v>> \o (<<g>> \o t)  BY <2>3, <3>1, <3>3, TwoCons
    <3>7. stack' = <<v, g>> \o t \/ stack' = <<g>> \o t  BY <2>5 DEF v, g
    <3> QED  BY <1>w, <2>1, <3>4, <3>5, <3>6, <3>7 DEF WalksInv
  <2> QED  BY <2>2, <2>4, <2>5
<1>5. ASSUME NEW handled \in BOOLEAN, HandlerReturns(handled) PROVE WalksInv'
  <2>1. stack # <<>> /\ stack[1].fn = "user" /\ handlers' = handlers
    <3>1. stack # <<>> /\ Head(stack).fn = "user"  BY <1>5 DEF HandlerReturns, InUser
    <3>2. handlers' = handlers  BY <1>5 DEF HandlerReturns, recvVars
    <3> QED  BY <1>0, <3>1, <3>2, TailFacts
  <2>2. Len(stack) > 1
    <3>1. Len(stack) \in Nat \ {0}  BY <1>0, <2>1, TailFacts
    <3>2. Len(stack) # 1  BY <2>1 DEF StackInv, Shape
    <3>3. \A n \in Nat \ {0} : n > 1 \/ n = 1  OBVIOUS
    <3> QED  BY <3>1, <3>2, <3>3
  <2>3. Walk(stack[2])
    <3>1. Above(stack[1], stack[2], Len(stack) = 2)  BY <1>0, <2>1, <2>2, PopShape DEF StackInv
    <3> QED  BY <2>1, <3>1 DEF Above, Walk
  <2>4. CASE handled
    <3>1. stack' = Tail(Tail(stack))
      <4>1. stack' = SubSeq(stack, 3, Len(stack))  BY <1>5, <2>4 DEF HandlerReturns
      <4> QED  BY <1>0, <2>2, <4>1, NextButOne
    <3>2. stack[2].fn # "user"  BY <2>3 DEF Walk
    <3>3. WalksOf(Tail(Tail(stack)), handlers)  BY <1>0, <1>w, <2>2, <3>2, PopTwoWalks
    <3> QED  BY <1>w, <2>1, <3>1, <3>3 DEF WalksInv
  <2>5. CASE ~handled
    <3>1. stack' = Tail(stack) /\ ~stack[2].freed  BY <1>5, <2>5 DEF HandlerReturns
    <3>2. WalksOf(Tail(stack), handlers)  BY <1>0, <1>w, <2>1, <3>1, PopWalks
    <3> QED  BY <1>w, <2>1, <3>1, <3>2 DEF WalksInv
  <2> QED  BY <2>4, <2>5
<1>6. CASE Listing
  <2>1. stack' = stack  BY <1>6 DEF Listing, Register, PingDisposed
  <2>2. ASSUME NEW h \in Handlers, Register(h) PROVE WalksInv'
    <3>1. h \in Heirs /\ ~Contains(handlers, h)
      <4>1. h \notin ToSet(handlers)  BY <2>2 DEF Register
      <4> QED  BY <1>0, <4>1 DEF Heirs, ToSet, Contains
    <3>2. handlers' = Insert(h, handlers)  BY <2>2 DEF Register
    <3>3. Listed(handlers')  BY <1>0, <1>w, <3>1, <3>2, InsertFacts
    <3>4. \A f \in Walks : WalkInv(f, handlers) => WalkInv(f, handlers')
      BY <1>0, <3>1, <3>2, InsertKeepsWalk
    <3>5. \A k \in 1 .. Len(stack) : Walk(stack[k]) => stack[k] \in Walks
      BY <1>0, FrameFacts DEF Walk
    <3>6. WalksOf(stack, handlers')  BY <1>w, <3>4, <3>5 DEF WalksOf
    <3> QED  BY <2>1, <3>3, <3>6 DEF WalksInv
  <2>3. CASE PingDisposed
    <3>1. stack = <<>> /\ Contains(handlers, "ping") /\ handlers' = Without("ping", handlers)
      BY <2>3 DEF PingDisposed, AtLoop, Pinging
    <3>2. Listed(handlers')  BY <1>0, <1>w, <3>1, WithoutFacts
    <3>3. WalksOf(<<>>, handlers')  BY DEF WalksOf
    <3> QED  BY <2>1, <3>1, <3>2, <3>3 DEF WalksInv
  <2> QED  BY <1>6, <2>2, <2>3 DEF Listing
<1>7. ASSUME NEW h \in Handlers, Unregister(h) PROVE WalksInv'
  <2>1. Contains(handlers, h) /\ handlers' = Without(h, handlers)
    <3>1. h \in ToSet(handlers)  BY <1>7 DEF Unregister
    <3>2. handlers' = Without(h, handlers)  BY <1>7 DEF Unregister
    <3> QED  BY <1>0, <3>1, <3>2 DEF ToSet, Contains
  <2>2. stack' = [k \in 1 .. Len(stack) |-> Freed(stack[k], h)] /\ h \in Heirs
    BY <1>0, <1>7 DEF Unregister, Heirs
  <2>3. Listed(handlers')  BY <1>0, <1>w, <2>1, WithoutFacts
  <2>4. Len(stack') = Len(stack)
    <3>1. Sorts'  BY SortsStep
    <3>2. Len(stack) \in Nat /\ DOMAIN stack' = 1 .. Len(stack)  BY <1>0, <2>2
    <3> QED  BY <3>1, <3>2 DEF Sorts
  <2>5. ASSUME NEW k \in 1 .. Len(stack')
        PROVE  stack[k] \in Frames /\ stack'[k] = Freed(stack[k], h) /\ stack'[k].fn = stack[k].fn
    <3>1. stack[k] \in Frames /\ stack'[k] = Freed(stack[k], h)  BY <1>0, <2>2, <2>4
    <3> QED  BY <2>2, <3>1, FreedFrame
  <2>6. ASSUME NEW k \in 1 .. Len(stack'), Walk(stack'[k])
        PROVE  WalkInv(stack'[k], handlers') /\ (stack'[k].freed => k > 1 /\ stack'[k - 1].fn = "user")
    <3>1. k \in 1 .. Len(stack) /\ Walk(stack[k]) /\ stack[k] \in Walks
      BY <2>4, <2>5, <2>6, FrameFacts DEF Walk
    <3>2. WalkInv(stack[k], handlers)
          /\ (stack[k].freed => k > 1 /\ stack[k - 1].fn = "user")
      BY <1>w, <3>1 DEF WalksOf
    <3>3. WalkInv(Freed(stack[k], h), handlers')  BY <1>0, <2>1, <3>1, <3>2, RemoveKeepsWalk
    <3>4. stack'[k].freed => stack[k].freed \/ stack[k].at = h
      <4>1. stack[k].fn = "dispatch" /\ stack[k] \in Frames /\ stack'[k] = Freed(stack[k], h)
        BY <2>5, <3>1 DEF Walk
      <4>2. Freed(stack[k], h).freed = (stack[k].freed \/ stack[k].at = h)
        BY <2>2, <4>1, FreedFrame
      <4>3. stack[k].freed \in BOOLEAN  BY <3>1 DEF Walks
      <4> QED  BY <4>1, <4>2, <4>3
    <3>5. stack[k].at = h => k > 1 /\ stack[k - 1].fn = "user"
      <4> SUFFICES ASSUME stack[k].at = h PROVE k > 1 /\ stack[k - 1].fn = "user"  OBVIOUS
      <4>1. ~Fresh(stack[k])
        <5>1. h # None  BY ReceiveAssumption DEF ReceiveAssumption
        <5> QED  BY <5>1 DEF Fresh
      <4>2. k # 1
        <5>1. Head(stack).fn = "user" /\ stack # <<>>  BY <1>7 DEF Unregister, InUser
        <5>2. stack[1].fn = "user"  BY <1>0, <5>1, TailFacts
        <5> QED  BY <3>1, <5>2 DEF Walk
      <4>3. k \in 2 .. Len(stack)
        <5>1. Len(stack) \in Nat  BY <1>0
        <5> QED  BY <3>1, <4>2, <5>1
      <4>4. Above(stack[k - 1], stack[k], k = Len(stack))  BY <4>3 DEF StackInv, Shape
      <4>5. stack[k - 1].fn = "user"  BY <3>1, <4>1, <4>4 DEF Above, Walk
      <4>6. k > 1  BY <4>3
      <4> QED  BY <4>5, <4>6
    <3>6. k > 1 => k - 1 \in 1 .. Len(stack')  BY <2>4
    <3>7. k > 1 => stack'[k - 1].fn = stack[k - 1].fn  BY <2>5, <3>6
    <3> QED  BY <2>5, <3>2, <3>3, <3>4, <3>5, <3>7
  <2> QED  BY <2>3, <2>6 DEF WalksInv, WalksOf
<1>8. CASE DisableSaving
  <2>1. handlers' = handlers  BY <1>8 DEF DisableSaving, recvVars
  <2> DEFINE d == Frame("disable")
             g == Frame("flush")
  <2>2. stack' = <<g, d>> \o stack  BY <1>8 DEF DisableSaving, FlushThenEnd
  <2>3. d \in Frames /\ g \in Frames  BY NewFrames
  <2>4. <<d>> \o stack \in Seq(Frames) /\ WalksOf(<<d>> \o stack, handlers)  BY <1>0, <1>q, <1>w
  <2>5. WalksOf(<<g>> \o (<<d>> \o stack), handlers)  BY <1>q, <2>4
  <2> HIDE DEF d, g
  <2>6. <<g, d>> \o stack = <<g>> \o (<<d>> \o stack)
    <3>1. stack \in Seq(Frames)  BY <1>0
    <3> QED  BY <2>3, <3>1, TwoCons
  <2> QED  BY <1>w, <2>1, <2>2, <2>5, <2>6 DEF WalksInv
<1>9. CASE SavingEnds
  <2>1. stack # <<>> /\ Head(stack).fn = "disable" /\ stack' = Tail(stack) /\ handlers' = handlers
    BY <1>9 DEF SavingEnds, Running
  <2>2. stack[1].fn # "user"  BY <1>0, <2>1, TailFacts
  <2>3. WalksOf(Tail(stack), handlers)  BY <1>0, <1>w, <2>1, <2>2, PopWalks
  <2> QED  BY <1>w, <2>1, <2>3 DEF WalksInv
<1>10. \/ UNCHANGED <<stack, handlers>>
       \/ ReceiveStanza \/ FlushStep \/ Dispatching
       \/ (\E handled \in BOOLEAN : HandlerReturns(handled))
       \/ Listing \/ (\E h \in Handlers : Unregister(h)) \/ DisableSaving \/ SavingEnds
  <2>1. UNCHANGED porterVars => UNCHANGED <<stack, handlers>>  BY DEF porterVars, recvVars
  <2>2. ReceiveClosed \/ EnableSaving => UNCHANGED <<stack, handlers>>
    BY DEF ReceiveClosed, EnableSaving
  <2>3. Sending => UNCHANGED <<stack, handlers>>  BY MessagesAndIqs DEF recvVars
  <2>4. CloseAsync \/ PopUnacked => UNCHANGED <<stack, handlers>>
    BY DEF CloseAsync, PopUnacked, recvVars
  <2>5. Delivering \/ ServerRequests => UNCHANGED <<stack, handlers>>
    BY DeliveringFacts, RequestsFacts DEF recvVars
  <2>6. Serving => UNCHANGED <<stack, handlers>>  BY DEF Serving, Others, recvVars
  <2> QED  BY <2>1, <2>2, <2>3, <2>4, <2>5, <2>6, Cases
<1> QED  BY <1>1, <1>2, <1>3, <1>4, <1>5, <1>6, <1>7, <1>8, <1>9, <1>10

LEMMA WalksMean ==
  ASSUME Sorts, StackInv, WalksInv
  PROVE  EveryHandlerIsAsked
<1>0. stack \in Seq(Frames) /\ handlers \in Seq(Heirs)  BY DEF Sorts
<1>w. Listed(handlers) /\ WalksOf(stack, handlers)  BY DEF WalksInv
<1>1. ASSUME NEW k \in DOMAIN stack, stack[k].fn = "dispatch" PROVE InTurn(stack[k])
  <2>1. k \in 1 .. Len(stack) /\ stack[k] \in Frames  BY <1>0
  <2>2. stack[k].offered \in Seq(Heirs)  BY <1>1, <2>1, FrameFacts
  <2>3. Turn(stack[k].offered)  BY <1>1, <1>w, <2>1 DEF WalksOf, WalkInv, Walk
  <2>4. DOMAIN stack[k].offered = 1 .. Len(stack[k].offered)  BY <2>2
  <2> QED  BY <2>3, <2>4 DEF Turn, InTurn
<1>2. ASSUME InUser PROVE Asking(stack[2])
  <2>1. stack # <<>> /\ stack[1].fn = "user" /\ Len(stack) \in Nat \ {0}
    <3>1. stack # <<>> /\ Head(stack).fn = "user"  BY <1>2 DEF InUser
    <3> QED  BY <1>0, <3>1, TailFacts
  <2>2. Len(stack) > 1
    <3>1. Len(stack) # 1  BY <2>1 DEF StackInv, Shape
    <3>2. \A n \in Nat \ {0} : n > 1 \/ n = 1  OBVIOUS
    <3> QED  BY <2>1, <3>1, <3>2
  <2>3. Walk(stack[2]) /\ stack[2].at \in Handlers
    <3>1. Above(stack[1], stack[2], Len(stack) = 2)  BY <1>0, <2>1, <2>2, PopShape DEF StackInv
    <3> QED  BY <2>1, <3>1 DEF Above, Walk
  <2>4. stack[2].at # None  BY <2>3, ReceiveAssumption DEF ReceiveAssumption
  <2>5. 2 \in 1 .. Len(stack)  BY <2>1, <2>2
  <2>6. stack[2].freed \/ \E m \in 1 .. Len(handlers) : handlers[m] = stack[2].at
    BY <1>w, <2>3, <2>4, <2>5 DEF WalksOf, WalkInv
  <2> QED  BY <1>0, <2>6 DEF Asking, ToSet
<1>3. ASSUME Running("dispatch") PROVE NobodyIsSkipped(Head(stack))
  <2> DEFINE f == stack[1]
  <2>1. stack # <<>> /\ f.fn = "dispatch" /\ Head(stack) = f /\ f \in Frames
    <3>1. stack # <<>> /\ Head(stack).fn = "dispatch"  BY <1>3 DEF Running
    <3> QED  BY <1>0, <3>1, TailFacts
  <2>2. f \in Walks /\ Walk(f)  BY <2>1, FrameFacts DEF Walk
  <2>3. WalkInv(f, handlers) /\ ~f.freed
    <3>1. f.fn # "user"  BY <2>1
    <3> QED  BY <1>0, <1>w, <2>1, <2>2, <3>1, PopWalks
  <2> HIDE DEF f
  <2>4. ASSUME f.at # None, EndsUnhandled(f), NEW h \in f.since, Matches(h, f.stanza)
        PROVE  h \in ToSet(f.offered)
    <3>1. PICK m \in 0 .. Len(handlers) :
             /\ Rest(f) = SubSeq(handlers, m + 1, Len(handlers))
             /\ Placed(f.offered, f.since, f.stanza, handlers, m)
      BY <1>0, <1>w, <2>2, <2>3, <2>4, RestOfWalk
    <3>2. (\E j \in 1 .. Len(f.offered) : f.offered[j] = h)
          \/ \E n \in m + 1 .. Len(handlers) : handlers[n] = h
      BY <2>4, <3>1 DEF Placed
    <3>3. ASSUME NEW n \in m + 1 .. Len(handlers), handlers[n] = h PROVE FALSE
      <4>1. Len(Rest(f)) = Len(handlers) - m /\ \A j \in 1 .. Len(Rest(f)) : Rest(f)[j] = handlers[m + j]
        BY <1>0, <3>1, RestFacts
      <4>2. n - m \in 1 .. Len(Rest(f)) /\ m + (n - m) = n
        <5>1. Len(handlers) \in Nat  BY <1>0
        <5> QED  BY <4>1, <5>1
      <4>3. Rest(f)[n - m] = h  BY <3>3, <4>1, <4>2
      <4> QED  BY <2>4, <4>2, <4>3 DEF EndsUnhandled
    <3>4. f.offered \in Seq(Heirs)  BY <2>2 DEF Walks
    <3> QED  BY <3>2, <3>3, <3>4 DEF ToSet
  <2> QED  BY <2>1, <2>4 DEF NobodyIsSkipped
<1> QED  BY <1>1, <1>2, <1>3 DEF EveryHandlerIsAsked

\* The walk asks every handler that matches and stays registered, in the order of their
\* priorities and none twice, whatever the handlers register and unregister on the way; only
\* a handler that unregisters itself and then declines ends it early (handle_stanza).
THEOREM EveryHandlerIsAskedInTurn ==
  ASSUME "vanish" \notin Liberties
  PROVE  Spec => []EveryHandlerIsAsked
<1>1. Init => ReceiveInv /\ WalksInv
  <2> SUFFICES ASSUME Init PROVE ReceiveInv /\ WalksInv  OBVIOUS
  <2>1. ReceiveInit /\ stack = <<>>  BY DEF Init, ReceiveInit
  <2>2. Listed(handlers)  BY <2>1, StartingList
  <2>3. WalksOf(<<>>, handlers)  BY DEF WalksOf
  <2> QED  BY <2>1, <2>2, <2>3, ReceiveInvHolds DEF WalksInv
<1>2. ReceiveInv /\ WalksInv /\ [Next]_vars => (ReceiveInv /\ WalksInv)'
  BY ReceiveInvStep, WalksStep DEF ReceiveInv, OrderInv
<1>3. ReceiveInv /\ WalksInv => EveryHandlerIsAsked  BY WalksMean DEF ReceiveInv, OrderInv
<1> QED  BY <1>1, <1>2, <1>3, PTL DEF Spec

-----------------------------------------------------------------------------
(* Requests and answers *)

LEMMA LibraryRules ==
  ASSUME NEW s
  PROVE  /\ Matches("reply", s) => s.type = "iq" /\ s.sub = "result"
         /\ Matches("error", s) => s.type = "iq" /\ s.sub = "error"
         /\ Matches("sm_r", s) => s.type = "r"
         /\ Matches("sm_a", s) => s.type = "a"
         /\ Matches("ping", s) => s.type = "iq" /\ s.sub = "get"
<1>1. /\ RuleOf("reply").type = "iq" /\ RuleOf("reply").sub = "result"
      /\ RuleOf("error").type = "iq" /\ RuleOf("error").sub = "error"
      /\ RuleOf("sm_r").type = "r" /\ RuleOf("sm_a").type = "a"
      /\ RuleOf("ping").type = "iq" /\ RuleOf("ping").sub = "get"
  BY DEF RuleOf, Library, LibraryRule, ReplyRule, SmRule, PingRule, ForAnyone, StanzaHandler
<1> QED  BY <1>1 DEF Matches

\* How a dispatch ends, and what becomes of the IQs.
LEMMA DispatchOutcome ==
  ASSUME Sorts, Dispatching
  PROVE  LET s == stack[1].stanza IN
         /\ Len(stack') < Len(stack) =>
              (Answerable(s) /\ Reply(s)) \/ (~Answerable(s) /\ sent' = sent)
         /\ \/ iqs' = iqs /\ answeredBy' = answeredBy
            \/ /\ s.type = "iq" /\ Completes(s)
               /\ iqs' = [iqs EXCEPT ![s.id] = "answered"]
               /\ answeredBy' = [answeredBy EXCEPT ![s.id] = s.from]
<1> DEFINE f == stack[1]
           s == f.stanza
<1>0. stack \in Seq(Frames) /\ handlers \in Seq(Heirs)  BY DEF Sorts
<1>1. stack # <<>> /\ Head(stack) = f /\ f \in Walks /\ Len(stack) \in Nat \ {0}
      /\ Tail(stack) \in Seq(Frames) /\ Len(Tail(stack)) = Len(stack) - 1
  <2>1. stack # <<>> /\ f \in Walks  BY DispatchFacts
  <2> QED  BY <1>0, <2>1, TailFacts
<1>2. \A h \in Heirs : AtNext(f, h) \in Frames  BY <1>0, <1>1, NextFrame
<1> HIDE DEF f, s
<1>3. CASE DispatchEnds
  <2>1. NotHandled(s) /\ iqs' = iqs /\ answeredBy' = answeredBy
    BY <1>1, <1>3 DEF DispatchEnds, iqVars, s
  <2> QED  BY <2>1 DEF NotHandled, s, f
<1>4. CASE DispatchCalls
  <2>1. iqs' = iqs /\ answeredBy' = answeredBy  BY <1>4 DEF DispatchCalls, iqVars
  <2>2. PICK h \in Handlers : stack' = <<Frame("user"), AtNext(f, h)>> \o Tail(stack)
    BY <1>1, <1>4 DEF DispatchCalls
  <2> DEFINE g == AtNext(f, h)
             v == Frame("user")
  <2>3. g \in Frames /\ v \in Frames  BY <1>2, NewFrames DEF Heirs
  <2> HIDE DEF g, v
  <2>4. stack' = <<v>> \o (<<g>> \o Tail(stack))
    <3>1. <<v, g>> \o Tail(stack) = <<v>> \o (<<g>> \o Tail(stack))  BY <1>1, <2>3, TwoCons
    <3>2. stack' = <<v, g>> \o Tail(stack)  BY <2>2 DEF v, g
    <3> QED  BY <3>1, <3>2
  <2>5. <<g>> \o Tail(stack) \in Seq(Frames) /\ Len(<<g>> \o Tail(stack)) = Len(Tail(stack)) + 1
    BY <1>1, <2>3, ConsFacts
  <2>6. Len(stack') = Len(<<g>> \o Tail(stack)) + 1  BY <2>3, <2>4, <2>5, ConsFacts
  <2>7. ~(Len(stack') < Len(stack))  BY <1>1, <2>5, <2>6
  <2> QED  BY <2>1, <2>7
<1>5. CASE DispatchToLibrary
  <2>1. PICK h \in Library :
          /\ IsNext(h, f)
          /\ IF Declines(h, s)
               THEN /\ stack' = <<AtNext(f, h)>> \o Tail(stack)
                    /\ UNCHANGED <<sent, unacked, out, iqs, answeredBy>>
               ELSE LibraryHandles(h, s) /\ stack' = Tail(stack)
    BY <1>1, <1>5 DEF DispatchToLibrary, s
  <2>2. Matches(h, s)  BY <2>1 DEF IsNext, s
  <2>3. CASE Declines(h, s)
    <3>1. stack' = <<AtNext(f, h)>> \o Tail(stack) /\ iqs' = iqs /\ answeredBy' = answeredBy
      BY <2>1, <2>3
    <3> DEFINE g == AtNext(f, h)
    <3>2. g \in Frames  BY <1>2 DEF Heirs
    <3> HIDE DEF g
    <3>3. Len(<<g>> \o Tail(stack)) = Len(Tail(stack)) + 1  BY <1>1, <3>2, ConsFacts
    <3>4. ~(Len(stack') < Len(stack))
      <4>1. Len(stack') = Len(stack)  BY <1>1, <3>1, <3>3 DEF g
      <4> QED  BY <1>1, <4>1
    <3> QED  BY <3>1, <3>4
  <2>4. CASE ~Declines(h, s)
    <3>1. LibraryHandles(h, s)  BY <2>1, <2>4
    <3>2. CASE h = "sm_r"
      <4>1. s.type = "r"  BY <2>2, <3>2, LibraryRules
      <4>2. AnswersRequest(s)  BY <3>1, <3>2 DEF LibraryHandles
      <4> QED  BY <4>1, <4>2 DEF AnswersRequest, Answerable, s, f
    <3>3. CASE h = "sm_a"
      <4>1. s.type = "a"  BY <2>2, <3>3, LibraryRules
      <4>2. TakesAnswer  BY <3>1, <3>3 DEF LibraryHandles
      <4> QED  BY <4>1, <4>2 DEF TakesAnswer, Answerable, s, f
    <3>4. CASE h = "ping"
      <4>1. s.type = "iq" /\ s.sub = "get"  BY <2>2, <3>4, LibraryRules
      <4>2. AnswersPing(s)  BY <3>1, <3>4 DEF LibraryHandles
      <4> QED  BY <4>1, <4>2 DEF AnswersPing, Answerable, s, f
    <3>5. CASE h \in {"reply", "error"}
      <4>1. s.type = "iq" /\ s.sub \in {"result", "error"}  BY <2>2, <3>5, LibraryRules
      <4>2. CompletesIq(s) /\ Completes(s)
        BY <2>4, <3>1, <3>5 DEF LibraryHandles, Declines
      <4> QED  BY <4>1, <4>2 DEF CompletesIq, Answerable, s, f
    <3> QED  BY <3>2, <3>3, <3>4, <3>5 DEF Library
  <2> QED  BY <2>3, <2>4
<1> QED  BY <1>3, <1>4, <1>5 DEF Dispatching

\* The action of RequestsAreAnswered.
RequestAnswered ==
  LET s == Head(stack).stanza
      over == Running("dispatch") /\ Len(stack') < Len(stack)
      request == s.type = "iq" /\ s.sub \in {"get", "set"}
      answer == [kind |-> "stanza", what |-> <<"reply", s.n, s.from>>]
  IN /\ over /\ request /\ ~closing =>
          sent' = sent + 1 /\ Contains(out', answer) /\ ~Contains(out, answer)
     /\ over /\ ~request => sent' = sent
     /\ InUser => sent' = sent

LEMMA RequestsStep ==
  ASSUME ReceiveInv, [Next]_vars
  PROVE  RequestAnswered
<1>0. Sorts /\ StackInv /\ Fit(sent, stack, out, begun)  BY DEF ReceiveInv, OrderInv
<1>1. stack \in Seq(Frames) /\ out \in Seq(OutItems) /\ sent \in Nat  BY <1>0 DEF Sorts
<1>2. CASE Dispatching
  <2> DEFINE s == stack[1].stanza
             w == ReplyTo(s)
             c == Carrying(w)
  <2>1. stack # <<>> /\ Walk(stack[1]) /\ s \in Read  BY <1>0, <1>2, DispatchFacts
  <2>2. Head(stack) = stack[1]  BY <1>1, <2>1, TailFacts
  <2>3. ~InUser  BY <2>1, <2>2 DEF InUser, Walk
  <2>4. Len(stack') < Len(stack) => (Answerable(s) /\ Reply(s)) \/ (~Answerable(s) /\ sent' = sent)
    BY <1>0, <1>2, DispatchOutcome
  <2>5. c = [kind |-> "stanza", what |-> <<"reply", s.n, s.from>>]  BY DEF Carrying, ReplyTo
  <2>6. ASSUME Answerable(s), Reply(s), ~closing
        PROVE  sent' = sent + 1 /\ Contains(out', c) /\ ~Contains(out, c)
    <3>1. s.type = "iq"  BY <2>6 DEF Answerable
    <3>2. s \in Arrivals /\ s.n # 0  BY <2>1, <3>1, ReadFacts
    <3>3. w \in Whats /\ w \in Replies /\ w[2] = s.n /\ c \in OutItems /\ c.kind = "stanza" /\ c.what = w
      BY <3>2, PlainItems
    <3>4. Send(w)  BY <2>6 DEF Reply
    <3> HIDE DEF s, w, c
    <3>5. sent' = sent + 1
          /\ (out' = Append(out, c) \/ out' = Append(Append(out, c), Request))
      <4>1. sent' = sent + 1
            /\ out' = IF managed THEN Append(Append(out, c), Request) ELSE Append(out, c)
        BY <1>0, <2>6, <3>3, <3>4, SendFacts DEF c
      <4> QED  BY <4>1
    <3> DEFINE o == Append(out, c)
    <3>6. o \in Seq(OutItems) /\ Len(o) = Len(out) + 1 /\ o[Len(out) + 1] = c /\ Len(out) \in Nat
      BY <1>1, <3>3, AppendFacts
    <3> HIDE DEF o
    <3>7. Len(out) + 1 \in 1 .. Len(o)  BY <3>6
    <3>8. Request \in OutItems  BY PlainItems
    <3>9. Len(Append(o, Request)) = Len(o) + 1 /\ Append(o, Request)[Len(out) + 1] = c
      BY <3>6, <3>7, <3>8, AppendFacts
    <3>10. Len(out) + 1 \in 1 .. Len(Append(o, Request))  BY <3>6, <3>9
    <3>11. Contains(o, c) /\ Contains(Append(o, Request), c)
      BY <3>6, <3>7, <3>9, <3>10 DEF Contains
    <3>12. ~Contains(out, c)
      <4>1. Apart(s.n, Tail(stack), out)  BY <1>0, <1>2, <3>2, WalkFits DEF s
      <4>2. IsReply(c)  BY <3>3 DEF IsReply
      <4> QED  BY <3>3, <4>1, <4>2 DEF Apart, Contains
    <3> QED  BY <3>5, <3>11, <3>12 DEF o
  <2> HIDE DEF c
  <2> QED  BY <2>2, <2>3, <2>4, <2>5, <2>6 DEF RequestAnswered, Answerable
<1>3. CASE ~Dispatching /\ stack = <<>>
  BY <1>3 DEF RequestAnswered, Running, InUser
<1>4. CASE ~Dispatching /\ stack # <<>>
  <2>1. Running("dispatch") => stack' = stack
    <3> SUFFICES ASSUME Running("dispatch") PROVE stack' = stack  OBVIOUS
    <3>1. stack # <<>> /\ Head(stack).fn = "dispatch"  BY DEF Running
    <3>2. ~AtLoop /\ ~InUser /\ ~CanCall /\ ~Running("flush") /\ ~Running("disable")
      BY <3>1 DEF AtLoop, InUser, CanCall, Running
    <3>3. ~ReceiveClosed /\ ~ReceiveStanza /\ ~FlushStep /\ ~EnableSaving /\ ~DisableSaving
          /\ ~SavingEnds /\ ~CloseAsync /\ ~PopUnacked /\ ~ServerRequests
      BY <3>2 DEF ReceiveClosed, ReceiveStanza, FlushStep, EnableSaving, DisableSaving,
                  SavingEnds, CloseAsync, PopUnacked, ServerRequests
    <3>4. ~Serving /\ ~Sending /\ ~Delivering /\ ~Listing
      BY <3>2 DEF Serving, Sending, SendStanza, SendIq, Delivering, ServerSends, ServerReplies,
                  Listing, Register, PingDisposed
    <3>5. ~(\E handled \in BOOLEAN : HandlerReturns(handled)) /\ ~(\E h \in Handlers : Unregister(h))
      BY <3>2 DEF HandlerReturns, Unregister
    <3>6. UNCHANGED porterVars  BY <1>4, <3>3, <3>4, <3>5, Cases
    <3> QED  BY <3>6 DEF porterVars
  <2>2. InUser => sent' = sent
    <3>1. ~AtLoop  BY <1>4 DEF AtLoop
    <3>2. UNCHANGED porterVars => sent' = sent  BY DEF porterVars, smVars
    <3>3. ReceiveClosed \/ ReceiveStanza \/ FlushStep => sent' = sent
      BY DEF ReceiveClosed, ReceiveStanza, FlushStep, smVars
    <3>4. (\E handled \in BOOLEAN : HandlerReturns(handled)) => sent' = sent  BY DEF HandlerReturns, smVars
    <3>5. Listing => sent' = sent  BY DEF Listing, Register, PingDisposed, smVars
    <3>6. (\E h \in Handlers : Unregister(h)) => sent' = sent  BY DEF Unregister, smVars
    <3>7. EnableSaving \/ DisableSaving \/ SavingEnds => sent' = sent
      BY DEF EnableSaving, DisableSaving, SavingEnds, smVars
    <3>8. ~Sending  BY <3>1 DEF Sending, SendStanza, SendIq
    <3>9. CloseAsync \/ PopUnacked => sent' = sent  BY DEF CloseAsync, PopUnacked
    <3>10. Delivering \/ ServerRequests => sent' = sent
      BY <1>0, DeliveringFacts, RequestsFacts DEF smVars
    <3>11. ~Serving  BY <3>1 DEF Serving
    <3> QED  BY <1>4, <3>2, <3>3, <3>4, <3>5, <3>6, <3>7, <3>8, <3>9, <3>10, <3>11, Cases
  <2>3. Len(stack) \in Nat  BY <1>1
  <2> QED  BY <2>1, <2>2, <2>3 DEF RequestAnswered
<1> QED  BY <1>2, <1>3, <1>4

\* The addresses of the IQs and of those who completed them.
AddressInv ==
  /\ sentTo \in [Iqs -> {Normal(a) : a \in To} \cup {"none"}]
  /\ answeredBy \in [Iqs -> From \cup {None}]
  /\ AnsweredByAddressee

LEMMA SpeakersAgree ==
  ASSUME NEW from, from # "bad", NEW to, NotSpoofed(from, to)
  PROVE  Speaker(from) = Speaker(to)
<1>1. CASE Normal(from) = to
  <2>1. CASE from = "PEER"
    <3>1. to = "peer" /\ "PEER" \notin Own /\ "peer" \notin Own /\ Normal("peer") = "peer"
          /\ Normal("PEER") = "peer"
      BY <1>1, <2>1 DEF Normal, Own
    <3> QED  BY <2>1, <3>1 DEF Speaker
  <2>2. CASE from # "PEER"
    <3>1. to = from  BY <1>1, <2>2 DEF Normal
    <3> QED  BY <3>1
  <2> QED  BY <2>1, <2>2
<1>2. CASE to = "none" /\ OfServer(Normal(from))
  <2>1. from \in Own
    <3>1. Normal(from) \in Own  BY <1>2 DEF OfServer
    <3> QED  BY <3>1 DEF Normal, Own
  <2> QED  BY <1>2, <2>1 DEF Speaker, Own
<1>3. CASE from = "none" /\ to = "domain"  BY <1>3 DEF Speaker, Own
<1>4. CASE Normal(from) \in {"none", "full"} /\ to \in {"full", "bare"}
  <2>1. from \in Own  BY <1>4 DEF Normal, Own
  <2> QED  BY <1>4, <2>1 DEF Speaker, Own
<1> QED  BY <1>1, <1>2, <1>3, <1>4 DEF NotSpoofed

LEMMA AddressStep ==
  ASSUME "bad" \notin From, Sorts, AddressInv, [Next]_vars
  PROVE  AddressInv'
<1>1. CASE UNCHANGED <<iqs, sentTo, answeredBy>>
  BY <1>1 DEF AddressInv, AnsweredByAddressee
<1>2. CASE ReceiveClosed
  <2>1. iqs' = Aborted /\ UNCHANGED <<sentTo, answeredBy>>  BY <1>2 DEF ReceiveClosed
  <2>2. \A i \in Iqs : iqs'[i] = "answered" => iqs[i] = "answered"  BY <2>1 DEF Aborted
  <2> QED  BY <2>1, <2>2 DEF AddressInv, AnsweredByAddressee
<1>3. CASE Dispatching
  <2> DEFINE s == stack[1].stanza
  <2>1. sentTo' = sentTo /\ s \in Read  BY <1>3, DispatchFacts
  <2>2. \/ iqs' = iqs /\ answeredBy' = answeredBy
        \/ /\ s.type = "iq" /\ Completes(s)
           /\ iqs' = [iqs EXCEPT ![s.id] = "answered"]
           /\ answeredBy' = [answeredBy EXCEPT ![s.id] = s.from]
    BY <1>3, DispatchOutcome
  <2> HIDE DEF s
  <2>3. CASE iqs' = iqs /\ answeredBy' = answeredBy  BY <1>1, <2>1, <2>3
  <2>4. CASE /\ s.type = "iq" /\ Completes(s)
             /\ iqs' = [iqs EXCEPT ![s.id] = "answered"]
             /\ answeredBy' = [answeredBy EXCEPT ![s.id] = s.from]
    <3>1. s \in Arrivals /\ s.id \in Iqs /\ NotSpoofed(s.from, sentTo[s.id])
      BY <2>1, <2>4, ReadFacts DEF Completes
    <3>2. s.from \in From /\ s.from # "bad"
      <4>1. s.id # "none"  BY <3>1, ReceiveAssumption DEF ReceiveAssumption
      <4> QED  BY <3>1, <4>1 DEF Arrivals
    <3>3. Speaker(s.from) = Speaker(sentTo[s.id])  BY <3>1, <3>2, SpeakersAgree
    <3>4. answeredBy' \in [Iqs -> From \cup {None}]  BY <2>4, <3>2 DEF AddressInv
    <3>5. ASSUME NEW i \in Iqs, iqs'[i] = "answered"
          PROVE  Speaker(answeredBy'[i]) = Speaker(sentTo'[i])
      <4>1. iqs \in [Iqs -> {"new", "pending", "answered", "aborted"}]
            /\ answeredBy \in [Iqs -> From \cup {None}]
        BY DEF Sorts, AddressInv
      <4>2. CASE i = s.id
        <5>1. answeredBy'[i] = s.from  BY <2>4, <4>1, <4>2
        <5> QED  BY <2>1, <3>3, <4>2, <5>1
      <4>3. CASE i # s.id
        <5>1. iqs'[i] = iqs[i] /\ answeredBy'[i] = answeredBy[i]  BY <2>4, <4>1, <4>3
        <5> QED  BY <2>1, <3>5, <5>1 DEF AddressInv, AnsweredByAddressee
      <4> QED  BY <4>2, <4>3
    <3> QED  BY <2>1, <3>4, <3>5 DEF AddressInv, AnsweredByAddressee
  <2> QED  BY <2>2, <2>3, <2>4
<1>4. ASSUME NEW i \in Iqs, NEW to \in To, SendIq(i, to) PROVE AddressInv'
  <2>1. /\ iqs[i] = "new" /\ iqs' = [iqs EXCEPT ![i] = "pending"]
        /\ sentTo' = [sentTo EXCEPT ![i] = Normal(to)] /\ answeredBy' = answeredBy
    BY <1>4 DEF SendIq
  <2>2. /\ iqs \in [Iqs -> {"new", "pending", "answered", "aborted"}]
        /\ sentTo \in [Iqs -> {Normal(a) : a \in To} \cup {"none"}]
    BY DEF Sorts, AddressInv
  <2>3. sentTo' \in [Iqs -> {Normal(a) : a \in To} \cup {"none"}]  BY <2>1, <2>2
  <2>4. ASSUME NEW j \in Iqs, iqs'[j] = "answered" PROVE Speaker(answeredBy'[j]) = Speaker(sentTo'[j])
    <3>1. j # i /\ iqs'[j] = iqs[j] /\ sentTo'[j] = sentTo[j]  BY <2>1, <2>2, <2>4
    <3> QED  BY <2>1, <2>4, <3>1 DEF AddressInv, AnsweredByAddressee
  <2> QED  BY <2>1, <2>3, <2>4 DEF AddressInv, AnsweredByAddressee
<1>5. \/ UNCHANGED <<iqs, sentTo, answeredBy>>
      \/ ReceiveClosed \/ Dispatching \/ \E i \in Iqs, to \in To : SendIq(i, to)
  <2> DEFINE Same == UNCHANGED <<iqs, sentTo, answeredBy>>
  <2>1. UNCHANGED porterVars => Same  BY DEF porterVars, iqVars
  <2>2. ReceiveStanza \/ FlushStep => Same  BY DEF ReceiveStanza, FlushStep, iqVars
  <2>3. (\E handled \in BOOLEAN : HandlerReturns(handled)) => Same  BY DEF HandlerReturns, iqVars
  <2>4. Listing => Same  BY DEF Listing, Register, PingDisposed, iqVars
  <2>5. (\E h \in Handlers : Unregister(h)) => Same  BY DEF Unregister, iqVars
  <2>6. EnableSaving \/ DisableSaving \/ SavingEnds => Same
    BY DEF EnableSaving, DisableSaving, SavingEnds, iqVars
  <2>7. Delivering \/ ServerRequests => Same  BY DeliveringFacts, RequestsFacts DEF iqVars
  <2>8. CloseAsync \/ PopUnacked => Same  BY DEF CloseAsync, PopUnacked, iqVars
  <2>9. Serving => Same  BY DEF Serving, Others, iqVars
  <2>10. SendStanza => Same  BY DEF SendStanza, iqVars
  <2> QED  BY <2>1, <2>2, <2>3, <2>4, <2>5, <2>6, <2>7, <2>8, <2>9, <2>10, Cases DEF Sending
<1> QED  BY <1>1, <1>2, <1>3, <1>4, <1>5

\* A request is answered once, to the one who sent it, as long as the porter is not closing,
\* and nothing else is answered (handle_stanza, ping_iq_cb).
THEOREM RequestsAreAnsweredOnce == Spec => RequestsAreAnswered
<1>1. Init => ReceiveInv  BY ReceiveInvHolds
<1>2. ReceiveInv /\ [Next]_vars => ReceiveInv'  BY ReceiveInvStep
<1>3. ReceiveInv /\ [Next]_vars => [RequestAnswered]_porterVars  BY RequestsStep
<1>4. Spec => [][RequestAnswered]_porterVars  BY <1>1, <1>2, <1>3, PTL DEF Spec
<1>5. [][RequestAnswered]_porterVars => RequestsAreAnswered
  BY PTL DEF RequestsAreAnswered, RequestAnswered
<1> QED  BY <1>4, <1>5

\* With that, an IQ is only completed by the one it was sent to (check_spoofing), if no reply
\* comes from an address that cannot be decoded.
THEOREM AnswersFindTheirRequests ==
  ASSUME "bad" \notin From
  PROVE  Spec => AnswersAreRight
<1>1. Init => ReceiveInv /\ AddressInv
  <2> SUFFICES ASSUME Init PROVE ReceiveInv /\ AddressInv  OBVIOUS
  <2>1. /\ iqs = [i \in Iqs |-> "new"] /\ sentTo = [i \in Iqs |-> "none"]
        /\ answeredBy = [i \in Iqs |-> None]
    BY DEF Init, ReceiveInit
  <2>2. AddressInv  BY <2>1 DEF AddressInv, AnsweredByAddressee
  <2> QED  BY <2>2, ReceiveInvHolds
<1>2. ReceiveInv /\ AddressInv /\ [Next]_vars => (ReceiveInv /\ AddressInv)'
  BY ReceiveInvStep, AddressStep DEF ReceiveInv, OrderInv
<1>3. ReceiveInv /\ AddressInv => AnsweredByAddressee  BY DEF AddressInv
<1>4. Spec => []AnsweredByAddressee  BY <1>1, <1>2, <1>3, PTL DEF Spec
<1> QED  BY <1>4, RequestsAreAnsweredOnce DEF AnswersAreRight

-----------------------------------------------------------------------------
(* Stream management *)

RequestsOut == {x \in OutItems : x.kind = "r"}
AnswersBack == {x \in Incoming : x.type = "a"}
\* A request follows each stanza.
Paired(o) ==
  /\ \A k \in 1 .. Len(o) - 1 : o[k].kind = "stanza" <=> o[k + 1].kind = "r"
  /\ o # <<>> => o[Len(o)].kind # "stanza"
OutInv(o) ==
  Paired(o) /\ Count(o, RequestsOut) = Count(o, StanzasOut) + One(Len(o) > 0 /\ o[1].kind = "r")
\* The dispatch of an answer, which has not come to a handler yet.
Answering(st) == Len(st) > 0 /\ Walk(st[Len(st)]) /\ st[Len(st)].stanza.type = "a"
Untouched(st) == Answering(st) => st[Len(st)].at = None /\ ~st[Len(st)].freed
Account ==
  /\ ~serverGone => OutInv(out) /\ Len(unacked) = Count(out, RequestsOut) + Count(inbox, AnswersBack)
                                                  + One(Answering(stack))
  /\ ~remoteClosed => sent - Len(unacked) + Count(inbox, AnswersBack) + One(Answering(stack)) <= got
  /\ remoteClosed => ~Answering(stack) /\ \A n \in got + 1 .. sent - Len(unacked) : n \in fetched
ListInv == Listed(handlers) /\ Contains(handlers, "sm_a") /\ Untouched(stack)
AckInv == managed => ListInv /\ Account

LEMMA PushAnswering ==
  ASSUME NEW f \in Frames, NEW st \in Seq(Frames)
  PROVE  LET s == <<f>> \o st IN
         /\ st # <<>> => (Answering(s) <=> Answering(st)) /\ (Untouched(st) => Untouched(s))
         /\ st = <<>> => (Answering(s) <=> Walk(f) /\ f.stanza.type = "a") /\ s[Len(s)] = f
<1> DEFINE s == <<f>> \o st
<1>1. /\ st = <<>> => s[Len(s)] = f
      /\ st # <<>> => s[Len(s)] = st[Len(st)]
  BY PushNew
<1>2. Len(s) = Len(st) + 1 /\ Len(st) \in Nat  BY ConsFacts
<1>3. st # <<>> => Len(st) > 0  BY TailFacts
<1> HIDE DEF s
<1>4. Len(s) > 0  BY <1>2
<1>5. st # <<>> => (Answering(s) <=> Answering(st)) /\ (Untouched(st) => Untouched(s))
  BY <1>1, <1>3, <1>4 DEF Answering, Untouched
<1>6. st = <<>> => (Answering(s) <=> Walk(f) /\ f.stanza.type = "a") /\ s[Len(s)] = f
  BY <1>1, <1>4 DEF Answering
<1> QED  BY <1>5, <1>6 DEF s

LEMMA PopAnswering ==
  ASSUME NEW st \in Seq(Frames), st # <<>>
  PROVE  LET s == Tail(st) IN
         /\ Len(st) > 1 => (Answering(s) <=> Answering(st)) /\ (Untouched(st) => Untouched(s))
         /\ Len(st) = 1 => s = <<>> /\ ~Answering(s) /\ Untouched(s)
<1> DEFINE s == Tail(st)
<1>1. Len(st) > 1 => s[Len(s)] = st[Len(st)]  BY PopNew
<1>2. Len(s) = Len(st) - 1 /\ Len(st) \in Nat \ {0} /\ s \in Seq(Frames)  BY TailFacts
<1> HIDE DEF s
<1>3. Len(st) > 1 => Len(s) > 0 /\ Len(st) > 0  BY <1>2
<1>4. Len(st) = 1 => Len(s) = 0 /\ s = <<>>
  <2>1. Len(st) = 1 => Len(s) = 0  BY <1>2
  <2> QED  BY <1>2, <2>1
<1>5. Len(st) > 1 => (Answering(s) <=> Answering(st)) /\ (Untouched(st) => Untouched(s))
  BY <1>1, <1>3 DEF Answering, Untouched
<1>6. Len(st) = 1 => s = <<>> /\ ~Answering(s) /\ Untouched(s)  BY <1>4 DEF Answering, Untouched
<1> QED  BY <1>5, <1>6 DEF s

\* What is sent besides the stanzas: a request with each of them, or an answer.
LEMMA OutAppend ==
  ASSUME NEW o \in Seq(OutItems), OutInv(o)
  PROVE  /\ \A x \in OutItems : x.kind \in {"a", "last"} =>
              OutInv(Append(o, x)) /\ Count(Append(o, x), RequestsOut) = Count(o, RequestsOut)
         /\ \A c \in OutItems : c.kind = "stanza" =>
              /\ OutInv(Append(Append(o, c), Request))
              /\ Count(Append(Append(o, c), Request), RequestsOut) = Count(o, RequestsOut) + 1
<1>0. Len(o) \in Nat /\ Count(o, RequestsOut) \in Nat /\ Count(o, StanzasOut) \in Nat  BY CountType
<1>1. /\ \A k \in 1 .. Len(o) - 1 : o[k].kind = "stanza" <=> o[k + 1].kind = "r"
      /\ Len(o) # 0 => o[Len(o)].kind # "stanza"
      /\ Count(o, RequestsOut) = Count(o, StanzasOut) + One(Len(o) > 0 /\ o[1].kind = "r")
  <2>1. Len(o) # 0 => o # <<>>  OBVIOUS
  <2> QED  BY <2>1 DEF OutInv, Paired
<1>2. ASSUME NEW x \in OutItems, x.kind \in {"a", "last"}
      PROVE  OutInv(Append(o, x)) /\ Count(Append(o, x), RequestsOut) = Count(o, RequestsOut)
  <2> DEFINE t == Append(o, x)
  <2>1. Len(t) = Len(o) + 1 /\ t[Len(o) + 1] = x /\ \A k \in 1 .. Len(o) : t[k] = o[k]
    BY AppendFacts
  <2>2. Count(t, RequestsOut) = Count(o, RequestsOut) /\ Count(t, StanzasOut) = Count(o, StanzasOut)
    <3>1. One(x \in RequestsOut) = 0 /\ One(x \in StanzasOut) = 0
      BY <1>2 DEF One, RequestsOut, StanzasOut
    <3>2. /\ Count(t, RequestsOut) = Count(o, RequestsOut) + One(x \in RequestsOut)
          /\ Count(t, StanzasOut) = Count(o, StanzasOut) + One(x \in StanzasOut)
      BY CountAppend
    <3> QED  BY <1>0, <3>1, <3>2
  <2> HIDE DEF t
  <2>3. \A k \in 1 .. Len(t) - 1 : t[k].kind = "stanza" <=> t[k + 1].kind = "r"
    <3> TAKE k \in 1 .. Len(t) - 1
    <3>1. k \in 1 .. Len(o) /\ t[k] = o[k]  BY <1>0, <2>1
    <3>2. CASE k = Len(o)  BY <1>1, <1>2, <2>1, <3>1, <3>2
    <3>3. CASE k # Len(o)
      <4>1. k \in 1 .. Len(o) - 1 /\ k + 1 \in 1 .. Len(o)  BY <1>0, <3>1, <3>3
      <4> QED  BY <1>1, <2>1, <3>1, <4>1
    <3> QED  BY <3>2, <3>3
  <2>4. (Len(t) > 0 /\ t[1].kind = "r") <=> (Len(o) > 0 /\ o[1].kind = "r")
    <3>1. CASE Len(o) = 0  BY <1>2, <2>1, <3>1
    <3>2. CASE Len(o) # 0
      <4>1. 1 \in 1 .. Len(o) /\ Len(o) > 0 /\ Len(t) > 0  BY <1>0, <2>1, <3>2
      <4> QED  BY <2>1, <4>1
    <3> QED  BY <3>1, <3>2
  <2>5. t[Len(t)].kind # "stanza"  BY <1>2, <2>1
  <2>6. Count(t, RequestsOut) = Count(t, StanzasOut) + One(Len(t) > 0 /\ t[1].kind = "r")
    BY <1>1, <2>2, <2>4 DEF One
  <2> QED  BY <2>2, <2>3, <2>5, <2>6 DEF OutInv, Paired, t
<1>3. ASSUME NEW c \in OutItems, c.kind = "stanza"
      PROVE  /\ OutInv(Append(Append(o, c), Request))
             /\ Count(Append(Append(o, c), Request), RequestsOut) = Count(o, RequestsOut) + 1
  <2> DEFINE p == Append(o, c)
             t == Append(p, Request)
  <2>0. Request \in OutItems /\ Request.kind = "r"  BY PlainItems
  <2>1. p \in Seq(OutItems) /\ Len(p) = Len(o) + 1 /\ p[Len(o) + 1] = c /\ \A k \in 1 .. Len(o) : p[k] = o[k]
    BY AppendFacts
  <2>2. Count(p, RequestsOut) = Count(o, RequestsOut) /\ Count(p, StanzasOut) = Count(o, StanzasOut) + 1
    <3>1. One(c \in RequestsOut) = 0 /\ One(c \in StanzasOut) = 1
      BY <1>3 DEF One, RequestsOut, StanzasOut
    <3>2. /\ Count(p, RequestsOut) = Count(o, RequestsOut) + One(c \in RequestsOut)
          /\ Count(p, StanzasOut) = Count(o, StanzasOut) + One(c \in StanzasOut)
      BY CountAppend
    <3> QED  BY <1>0, <3>1, <3>2
  <2> HIDE DEF p
  <2>3. Len(t) = Len(p) + 1 /\ t[Len(p) + 1] = Request /\ \A k \in 1 .. Len(p) : t[k] = p[k]
    BY <2>0, <2>1, AppendFacts
  <2>4. Count(t, RequestsOut) = Count(o, RequestsOut) + 1 /\ Count(t, StanzasOut) = Count(o, StanzasOut) + 1
    <3>1. One(Request \in RequestsOut) = 1 /\ One(Request \in StanzasOut) = 0
      BY <2>0 DEF One, RequestsOut, StanzasOut
    <3>2. /\ Count(t, RequestsOut) = Count(p, RequestsOut) + One(Request \in RequestsOut)
          /\ Count(t, StanzasOut) = Count(p, StanzasOut) + One(Request \in StanzasOut)
      BY <2>0, <2>1, CountAppend
    <3> QED  BY <1>0, <2>2, <3>1, <3>2
  <2> HIDE DEF t
  <2>5. Len(t) = Len(o) + 2 /\ t[Len(o) + 1] = c /\ t[Len(o) + 2] = Request
        /\ \A k \in 1 .. Len(o) : t[k] = o[k]
    <3>1. Len(o) + 1 \in 1 .. Len(p) /\ \A k \in 1 .. Len(o) : k \in 1 .. Len(p)  BY <1>0, <2>1
    <3>2. Len(p) + 1 = Len(o) + 2  BY <1>0, <2>1
    <3> QED  BY <2>1, <2>3, <3>1, <3>2
  <2>6. \A k \in 1 .. Len(t) - 1 : t[k].kind = "stanza" <=> t[k + 1].kind = "r"
    <3> TAKE k \in 1 .. Len(t) - 1
    <3>1. k \in 1 .. Len(o) - 1 \/ k = Len(o) \/ k = Len(o) + 1  BY <1>0, <2>5
    <3>2. CASE k \in 1 .. Len(o) - 1
      <4>1. k \in 1 .. Len(o) /\ k + 1 \in 1 .. Len(o)  BY <1>0, <3>2
      <4> QED  BY <1>1, <2>5, <3>2, <4>1
    <3>3. CASE k = Len(o)
      <4>1. k \in 1 .. Len(o) /\ Len(o) # 0  BY <1>0, <3>3
      <4> QED  BY <1>1, <1>3, <2>5, <3>3, <4>1
    <3>4. CASE k = Len(o) + 1
      <4>1. k + 1 = Len(o) + 2  BY <1>0, <3>4
      <4> QED  BY <1>3, <2>0, <2>5, <3>4, <4>1
    <3> QED  BY <3>1, <3>2, <3>3, <3>4
  <2>7. (Len(t) > 0 /\ t[1].kind = "r") <=> (Len(o) > 0 /\ o[1].kind = "r")
    <3>1. CASE Len(o) = 0
      <4>1. t[1] = c  BY <2>5, <3>1
      <4> QED  BY <1>3, <3>1, <4>1
    <3>2. CASE Len(o) # 0
      <4>1. 1 \in 1 .. Len(o) /\ Len(o) > 0 /\ Len(t) > 0  BY <1>0, <2>5, <3>2
      <4> QED  BY <2>5, <4>1
    <3> QED  BY <3>1, <3>2
  <2>8. t[Len(t)].kind # "stanza"  BY <2>0, <2>5
  <2>9. Count(t, RequestsOut) = Count(t, StanzasOut) + One(Len(t) > 0 /\ t[1].kind = "r")
    <3>1. One(Len(o) > 0 /\ o[1].kind = "r") \in Nat  BY DEF One
    <3>2. Count(o, RequestsOut) + 1 = Count(o, StanzasOut) + 1 + One(Len(o) > 0 /\ o[1].kind = "r")
      BY <1>0, <1>1, <3>1
    <3> QED  BY <2>4, <2>7, <3>2 DEF One
  <2> QED  BY <2>4, <2>6, <2>8, <2>9 DEF OutInv, Paired, t, p
<1> QED  BY <1>2, <1>3

\* The server reads what comes first.
LEMMA OutTail ==
  ASSUME NEW o \in Seq(OutItems), o # <<>>, OutInv(o)
  PROVE  /\ OutInv(Tail(o))
         /\ Count(Tail(o), RequestsOut) + One(o[1].kind = "r") = Count(o, RequestsOut)
<1> DEFINE t == Tail(o)
<1>1. t \in Seq(OutItems) /\ Len(o) \in Nat \ {0} /\ Len(t) = Len(o) - 1
      /\ (\A k \in 1 .. Len(o) - 1 : t[k] = o[k + 1]) /\ o[1] \in OutItems
  BY TailFacts
<1>2. /\ Count(o, RequestsOut) = Count(t, RequestsOut) + One(o[1] \in RequestsOut)
      /\ Count(o, StanzasOut) = Count(t, StanzasOut) + One(o[1] \in StanzasOut)
  BY CountTail
<1>3. Count(t, RequestsOut) \in Nat /\ Count(t, StanzasOut) \in Nat  BY <1>1, CountType
<1> HIDE DEF t
<1>4. One(o[1] \in RequestsOut) = One(o[1].kind = "r") /\ One(o[1] \in StanzasOut) = One(o[1].kind = "stanza")
  BY <1>1 DEF One, RequestsOut, StanzasOut
<1>5. /\ \A k \in 1 .. Len(o) - 1 : o[k].kind = "stanza" <=> o[k + 1].kind = "r"
      /\ o[Len(o)].kind # "stanza"
      /\ Count(o, RequestsOut) = Count(o, StanzasOut) + One(Len(o) > 0 /\ o[1].kind = "r")
  BY DEF OutInv, Paired
<1>6. Paired(t)
  <2>1. \A k \in 1 .. Len(t) - 1 : t[k].kind = "stanza" <=> t[k + 1].kind = "r"
    <3> TAKE k \in 1 .. Len(t) - 1
    <3>1. k \in 1 .. Len(o) - 1 /\ k + 1 \in 1 .. Len(o) - 1  BY <1>1
    <3> QED  BY <1>1, <1>5, <3>1
  <2>2. t # <<>> => t[Len(t)].kind # "stanza"
    <3> SUFFICES ASSUME t # <<>> PROVE t[Len(t)].kind # "stanza"  OBVIOUS
    <3>1. Len(t) \in 1 .. Len(o) - 1 /\ Len(t) + 1 = Len(o)
      <4>1. Len(t) # 0  BY <1>1
      <4> QED  BY <1>1, <4>1
    <3> QED  BY <1>1, <1>5, <3>1
  <2> QED  BY <2>1, <2>2 DEF Paired
<1>7. (Len(t) > 0 /\ t[1].kind = "r") <=> o[1].kind = "stanza"
  <2>1. CASE Len(t) = 0
    <3>1. Len(o) = 1  BY <1>1, <2>1
    <3> QED  BY <1>5, <2>1, <3>1
  <2>2. CASE Len(t) # 0
    <3>1. 1 \in 1 .. Len(o) - 1 /\ Len(t) > 0  BY <1>1, <2>2
    <3>2. t[1] = o[1 + 1]  BY <1>1, <3>1
    <3> QED  BY <1>5, <3>1, <3>2
  <2> QED  BY <2>1, <2>2
<1>8. Len(o) > 0  BY <1>1
<1>9. Count(t, RequestsOut) + One(o[1].kind = "r")
        = Count(t, StanzasOut) + One(o[1].kind = "stanza") + One(o[1].kind = "r")
  BY <1>2, <1>4, <1>5, <1>8 DEF One
<1>10. One(o[1].kind = "r") \in Nat /\ One(o[1].kind = "stanza") \in Nat  BY DEF One
<1>11. Count(t, RequestsOut) = Count(t, StanzasOut) + One(o[1].kind = "stanza")
  BY <1>3, <1>9, <1>10
<1>12. Count(t, RequestsOut) = Count(t, StanzasOut) + One(Len(t) > 0 /\ t[1].kind = "r")
  BY <1>7, <1>11 DEF One
<1> QED  BY <1>2, <1>4, <1>6, <1>12 DEF OutInv, t

\* The library's handler stays registered, whatever the application does to the list.
LEMMA ListStep ==
  ASSUME Sorts, Listed(handlers), Contains(handlers, "sm_a"), [Next]_vars
  PROVE  Listed(handlers') /\ Contains(handlers', "sm_a")
<1>0. handlers \in Seq(Heirs)  BY DEF Sorts
<1>1. ASSUME NEW h \in Handlers, Register(h) PROVE Listed(handlers') /\ Contains(handlers', "sm_a")
  <2>1. h \in Heirs /\ ~Contains(handlers, h)
    <3>1. h \notin ToSet(handlers)  BY <1>1 DEF Register
    <3> QED  BY <1>0, <3>1 DEF Heirs, ToSet, Contains
  <2>2. handlers' = Insert(h, handlers)  BY <1>1 DEF Register
  <2> QED  BY <1>0, <2>1, <2>2, InsertFacts
<1>2. CASE PingDisposed
  <2>1. Contains(handlers, "ping") /\ handlers' = Without("ping", handlers)
    BY <1>2 DEF PingDisposed, Pinging
  <2>2. "sm_a" # "ping"  OBVIOUS
  <2> QED  BY <1>0, <2>1, <2>2, WithoutFacts
<1>3. ASSUME NEW h \in Handlers, Unregister(h) PROVE Listed(handlers') /\ Contains(handlers', "sm_a")
  <2>1. Contains(handlers, h) /\ handlers' = Without(h, handlers)
    <3>1. h \in ToSet(handlers) /\ handlers' = Without(h, handlers)  BY <1>3 DEF Unregister
    <3> QED  BY <1>0, <3>1 DEF ToSet, Contains
  <2>2. "sm_a" # h  BY ReceiveAssumption DEF ReceiveAssumption, Library
  <2> QED  BY <1>0, <2>1, <2>2, WithoutFacts
<1>4. \/ handlers' = handlers \/ Listing \/ \E h \in Handlers : Unregister(h)
  <2>1. UNCHANGED porterVars => handlers' = handlers  BY DEF porterVars, recvVars
  <2>2. ReceiveClosed \/ ReceiveStanza \/ FlushStep \/ EnableSaving => handlers' = handlers
    BY DEF ReceiveClosed, ReceiveStanza, FlushStep, EnableSaving
  <2>3. Dispatching => handlers' = handlers  BY DispatchFacts
  <2>4. (\E handled \in BOOLEAN : HandlerReturns(handled)) => handlers' = handlers
    BY DEF HandlerReturns, recvVars
  <2>5. DisableSaving \/ SavingEnds => handlers' = handlers  BY DEF DisableSaving, SavingEnds, recvVars
  <2>6. Sending => handlers' = handlers  BY MessagesAndIqs DEF recvVars
  <2>7. CloseAsync \/ PopUnacked => handlers' = handlers  BY DEF CloseAsync, PopUnacked, recvVars
  <2>8. Delivering \/ ServerRequests => handlers' = handlers
    BY DeliveringFacts, RequestsFacts DEF recvVars
  <2>9. Serving => handlers' = handlers  BY DEF Serving, Others, recvVars
  <2> QED  BY <2>1, <2>2, <2>3, <2>4, <2>5, <2>6, <2>7, <2>8, <2>9, Cases
<1> QED  BY <1>1, <1>2, <1>3, <1>4 DEF Listing

\* No handler of the application is asked about the server's answers before the library's.
AnswersAreTheLibrarys ==
  \A h \in Handlers : RuleOf(h).prio >= 5 => \A s \in AnswersRead : ~Matches(h, s)

\* An answer goes to the library's own handler, which takes a stanza off.
LEMMA AckTaken ==
  ASSUME AnswersAreTheLibrarys, Sorts, Listed(handlers), Contains(handlers, "sm_a"), Dispatching,
         stack[1].stanza.type = "a", stack[1].at = None, ~stack[1].freed
  PROVE  stack' = Tail(stack) /\ unacked' = TakeAnswer /\ sent' = sent /\ out' = out
<1> DEFINE f == stack[1]
<1>1. stack # <<>> /\ f \in Walks /\ f.stanza \in Read /\ Head(stack) = f
  BY DispatchFacts, TailFacts DEF Sorts
<1>2. f.stanza \in AnswersRead  BY <1>1, ReadFacts
<1>3. Rest(f) = handlers  BY DEF Rest
<1> HIDE DEF f
<1>4. handlers \in Seq(Heirs) /\ Len(handlers) \in Nat
  BY DEF Sorts
<1>5. PICK m \in 1 .. Len(handlers) : handlers[m] = "sm_a"  BY <1>4 DEF Contains
<1>6. Matches("sm_a", f.stanza) /\ RuleOf("sm_a").prio = 5
  <2>1. f.stanza.type = "a" /\ f.stanza.sub = "none"  BY <1>2 DEF AnswersRead
  <2>2. RuleOf("sm_a") = SmRule("sm_a")  BY DEF RuleOf, LibraryRule, Library
  <2> QED  BY <2>1, <2>2 DEF Matches, SmRule, ForAnyone, StanzaHandler
<1>7. ~EndsUnhandled(f)
  <2>1. Matches(handlers[m], f.stanza)  BY <1>5, <1>6
  <2> QED  BY <1>3, <1>5, <2>1 DEF EndsUnhandled
<1>8. ASSUME NEW h \in Heirs, IsNext(h, f) PROVE h = "sm_a"
  <2>1. PICK j \in 1 .. Len(handlers) :
           /\ handlers[j] = h /\ Matches(h, f.stanza)
           /\ \A i \in 1 .. j - 1 : ~Matches(handlers[i], f.stanza)
    BY <1>3, <1>8 DEF IsNext
  <2>2. m \notin 1 .. j - 1
    <3>1. Matches(handlers[m], f.stanza)  BY <1>5, <1>6
    <3> QED  BY <2>1, <3>1
  <2>3. j <= m  BY <1>4, <2>2
  <2>4. RuleOf(h).prio >= 5
    <3>1. j = m \/ j < m  BY <1>4, <2>3
    <3>2. CASE j = m  BY <1>5, <1>6, <2>1, <3>2
    <3>3. CASE j < m
      <4>1. RuleOf(handlers[j]).prio >= RuleOf(handlers[m]).prio  BY <3>3 DEF Listed
      <4> QED  BY <1>5, <1>6, <2>1, <4>1
    <3> QED  BY <3>1, <3>2, <3>3
  <2>5. h \notin Handlers  BY <1>2, <2>1, <2>4 DEF AnswersAreTheLibrarys
  <2>6. h \in Library  BY <2>5 DEF Heirs
  <2>7. f.stanza.type = "a" /\ "a" # "iq" /\ "a" # "r"  BY <1>2 DEF AnswersRead
  <2> QED  BY <2>1, <2>6, <2>7, LibraryRules DEF Library
<1>9. ~DispatchEnds  BY <1>1, <1>7 DEF DispatchEnds
<1>10. ~DispatchCalls
  <2> SUFFICES ASSUME DispatchCalls PROVE FALSE  OBVIOUS
  <2>1. PICK h \in Handlers : IsNext(h, f)  BY <1>1 DEF DispatchCalls
  <2>2. h = "sm_a"  BY <1>8, <2>1 DEF Heirs
  <2> QED  BY <2>2, ReceiveAssumption DEF ReceiveAssumption, Library
<1>11. DispatchToLibrary  BY <1>9, <1>10 DEF Dispatching
<1>12. PICK h \in Library :
         /\ IsNext(h, f)
         /\ IF Declines(h, f.stanza)
              THEN /\ stack' = <<AtNext(f, h)>> \o Tail(stack)
                   /\ UNCHANGED <<sent, unacked, out, iqs, answeredBy>>
              ELSE LibraryHandles(h, f.stanza) /\ stack' = Tail(stack)
  BY <1>1, <1>11 DEF DispatchToLibrary
<1>13. h = "sm_a"  BY <1>8, <1>12 DEF Heirs
<1>14. ~Declines(h, f.stanza)  BY <1>13 DEF Declines
<1>15. LibraryHandles(h, f.stanza) /\ stack' = Tail(stack)  BY <1>12, <1>14
<1>16. TakesAnswer
  <2>1. h # "sm_r" /\ h # "ping" /\ h \notin {"reply", "error"}  BY <1>13
  <2> QED  BY <1>15, <2>1 DEF LibraryHandles
<1> QED  BY <1>15, <1>16 DEF TakesAnswer

\* The dispatch of an answer comes with the answer, stays until it is taken, and nothing else
\* looks like it.
LEMMA AnswerArrives ==
  ASSUME Sorts, ReceiveStanza
  PROVE  (Answering(stack') <=> inbox[1].type = "a") /\ Untouched(stack') /\ ~Answering(stack)
<1>0. stack \in Seq(Frames)  BY DEF Sorts
<1>1. PICK s \in Read :
        /\ stack = <<>> /\ s.type = inbox[1].type
        /\ Counting(inbox[1]) => s.n = inbox[1].n
        /\ \/ saving /\ s \in Later /\ stack' = stack
           \/ stack' = IF saving THEN <<Frame("flush"), Dispatch(s)>> ELSE <<Dispatch(s)>>
  BY ReceiveStanzaFacts
<1> DEFINE d == Dispatch(s)
           g == Frame("flush")
<1>2. d \in Frames /\ g \in Frames /\ Walk(d) /\ d.stanza = s /\ d.at = None /\ ~d.freed
  BY NewFrames DEF Dispatch, Walk
<1> HIDE DEF d, g
<1>3. <<>> \in Seq(Frames)  OBVIOUS
<1>4. ~Answering(<<>>)  BY DEF Answering
<1>5. <<d>> \o <<>> \in Seq(Frames) /\ <<d>> \o <<>> # <<>>  BY <1>2, <1>3, ConsFacts
<1>6. (Answering(<<d>> \o <<>>) <=> s.type = "a") /\ Untouched(<<d>> \o <<>>)
  <2>1. (Answering(<<d>> \o <<>>) <=> Walk(d) /\ d.stanza.type = "a")
        /\ (<<d>> \o <<>>)[Len(<<d>> \o <<>>)] = d
    BY <1>2, <1>3, PushAnswering
  <2> QED  BY <1>2, <2>1 DEF Untouched
<1>7. (Answering(<<g>> \o (<<d>> \o <<>>)) <=> s.type = "a") /\ Untouched(<<g>> \o (<<d>> \o <<>>))
  BY <1>2, <1>5, <1>6, PushAnswering
<1>8. <<d>> \o <<>> = <<d>> /\ <<g>> \o <<d>> = <<g, d>>
  <2>1. <<d>> \in Seq(Frames)  BY <1>2
  <2>2. <<d>> \o <<>> = <<d>>  BY <2>1, ConcatEmptySeq
  <2>3. <<g, d>> = <<g>> \o <<d>>  BY <1>2
  <2> QED  BY <2>2, <2>3
<1>9. (saving /\ s \in Later /\ stack' = stack) \/ stack' = <<g, d>> \/ stack' = <<d>>
  BY <1>1 DEF g, d
<1>10. s \in Later => s.type # "a"
  <2>1. s \in Later => s \in Arrivals /\ s.type # "r"  BY DEF Later
  <2>2. s \in Arrivals => s.type \in Types  BY DEF Arrivals
  <2>3. "a" \notin Types  BY ReceiveAssumption DEF Types, ReceiveAssumption
  <2> QED  BY <2>1, <2>2, <2>3
<1>11. CASE s \in Later /\ stack' = stack
  BY <1>1, <1>4, <1>10, <1>11 DEF Untouched
<1>12. CASE stack' = <<g, d>> \/ stack' = <<d>>
  BY <1>1, <1>4, <1>6, <1>7, <1>8, <1>12
<1> QED  BY <1>9, <1>11, <1>12

LEMMA AnswerStays ==
  ASSUME Sorts, StackInv, Dispatching, stack[1].stanza.type # "a"
  PROVE  (Answering(stack') <=> Answering(stack)) /\ (Untouched(stack) => Untouched(stack'))
<1> DEFINE f == stack[1]
           t == Tail(stack)
<1>0. stack \in Seq(Frames) /\ handlers \in Seq(Heirs)  BY DEF Sorts
<1>1. stack # <<>> /\ f \in Walks /\ Walk(f)  BY DispatchFacts
<1>2. stack' = t \/ \E h \in Heirs :
           stack' = <<Frame("user"), AtNext(f, h)>> \o t \/ stack' = <<AtNext(f, h)>> \o t
  BY DispatchFacts
<1>3. t \in Seq(Frames) /\ Len(stack) \in Nat \ {0}  BY <1>0, <1>1, TailFacts
<1>4. Len(stack) = 1 => t = <<>> /\ ~Answering(t) /\ Untouched(t) /\ ~Answering(stack)
  BY <1>0, <1>1, PopAnswering DEF Answering
<1>5. Len(stack) > 1 => t # <<>> /\ (Answering(t) <=> Answering(stack))
                        /\ (Untouched(stack) => Untouched(t))
  <2>1. Len(t) = Len(stack) - 1  BY <1>0, <1>1, TailFacts
  <2>2. Len(stack) > 1 => Len(t) # 0  BY <1>3, <2>1
  <2>3. Len(stack) > 1 => t # <<>>
    <3>1. Len(<<>>) = 0  OBVIOUS
    <3> HIDE DEF t
    <3> QED  BY <2>2, <3>1
  <2> QED  BY <1>0, <1>1, <2>3, PopAnswering
<1>6. Len(stack) > 1 \/ Len(stack) = 1
  <2>1. \A n \in Nat \ {0} : n > 1 \/ n = 1  OBVIOUS
  <2> QED  BY <1>3, <2>1
<1>7. f.stanza.type # "a"  OBVIOUS
<1> HIDE DEF t, f
<1>8. (Answering(t) <=> Answering(stack)) /\ (Untouched(stack) => Untouched(t))
  BY <1>4, <1>5, <1>6
<1>9. ASSUME NEW h \in Heirs,
             stack' = <<Frame("user"), AtNext(f, h)>> \o t \/ stack' = <<AtNext(f, h)>> \o t
      PROVE  (Answering(stack') <=> Answering(stack)) /\ (Untouched(stack) => Untouched(stack'))
  <2> DEFINE g == AtNext(f, h)
             v == Frame("user")
  <2>1. g \in Frames /\ g.stanza = f.stanza  BY <1>0, <1>1, NextFrame
  <2>2. v \in Frames  BY NewFrames
  <2> HIDE DEF g, v
  <2> DEFINE s == <<g>> \o t
  <2>3. s \in Seq(Frames) /\ s # <<>>  BY <1>3, <2>1, ConsFacts
  <2>4. (Answering(s) <=> Answering(t)) /\ (Untouched(t) => Untouched(s))
    <3>1. CASE t = <<>>
      <4>1. Answering(s) <=> Walk(g) /\ g.stanza.type = "a"  BY <1>3, <2>1, <3>1, PushAnswering
      <4>2. ~Answering(s)  BY <1>7, <2>1, <4>1
      <4>3. ~Answering(t)  BY <3>1 DEF Answering
      <4> QED  BY <4>2, <4>3 DEF Untouched
    <3>2. CASE t # <<>>  BY <1>3, <2>1, <3>2, PushAnswering
    <3> QED  BY <3>1, <3>2
  <2> HIDE DEF s
  <2>5. (Answering(<<v>> \o s) <=> Answering(s)) /\ (Untouched(s) => Untouched(<<v>> \o s))
    BY <2>2, <2>3, PushAnswering
  <2>6. <<v, g>> \o t = <<v>> \o s  BY <1>3, <2>1, <2>2, TwoCons DEF s
  <2>7. stack' = <<v, g>> \o t \/ stack' = s  BY <1>9 DEF v, g, s
  <2> QED  BY <1>8, <2>4, <2>5, <2>6, <2>7
<1>10. stack' = t \/ \E h \in Heirs :
           stack' = <<Frame("user"), AtNext(f, h)>> \o t \/ stack' = <<AtNext(f, h)>> \o t
  BY <1>2 DEF f, t
<1> QED  BY <1>8, <1>9, <1>10

LEMMA StackAnswers ==
  ASSUME Sorts, StackInv, [Next]_vars, ~ReceiveStanza, ~Dispatching, Untouched(stack)
  PROVE  (Answering(stack') <=> Answering(stack)) /\ Untouched(stack')
<1>0. stack \in Seq(Frames) /\ held \in Seq(Later) /\ Len(stack) \in Nat  BY DEF Sorts
<1>l. ~Answering(<<>>) /\ Untouched(<<>>)  BY DEF Answering, Untouched
<1>1. CASE stack' = stack  BY <1>1
<1>2. CASE FlushStep
  <2>1. stack # <<>> /\ Head(stack).fn = "flush"  BY <1>2 DEF FlushStep, Running
  <2>2. stack[1].fn = "flush"  BY <1>0, <2>1, TailFacts
  <2>3. CASE held = <<>>
    <3>1. stack' = Tail(stack)  BY <1>2, <2>3 DEF FlushStep
    <3>2. Len(stack) > 1
      <4>1. Len(stack) # 1  BY <2>1, <2>2 DEF StackInv, Shape
      <4>2. Len(stack) \in Nat \ {0}  BY <1>0, <2>1, TailFacts
      <4>3. \A n \in Nat \ {0} : n = 1 \/ n > 1  OBVIOUS
      <4> QED  BY <4>1, <4>2, <4>3
    <3> QED  BY <1>0, <2>1, <3>1, <3>2, PopAnswering
  <2>4. CASE held # <<>>
    <3> DEFINE d == Dispatch(Head(held))
    <3>1. stack' = <<d>> \o stack  BY <1>2, <2>4 DEF FlushStep, StillFlushing
    <3>2. Head(held) \in Read
      <4>1. Head(held) \in Later  BY <1>0, <2>4, TailFacts
      <4> QED  BY <4>1 DEF Later, Read
    <3>3. d \in Frames  BY <3>2, NewFrames
    <3> HIDE DEF d
    <3> QED  BY <1>0, <2>1, <3>1, <3>3, PushAnswering
  <2> QED  BY <2>3, <2>4
<1>3. ASSUME NEW handled \in BOOLEAN, HandlerReturns(handled)
      PROVE  (Answering(stack') <=> Answering(stack)) /\ Untouched(stack')
  <2>1. stack # <<>> /\ stack[1].fn = "user"
    <3>1. stack # <<>> /\ Head(stack).fn = "user"  BY <1>3 DEF HandlerReturns, InUser
    <3> QED  BY <1>0, <3>1, TailFacts
  <2>2. Len(stack) > 1
    <3>1. Len(stack) \in Nat \ {0}  BY <1>0, <2>1, TailFacts
    <3>2. Len(stack) # 1  BY <2>1 DEF StackInv, Shape
    <3>3. \A n \in Nat \ {0} : n = 1 \/ n > 1  OBVIOUS
    <3> QED  BY <3>1, <3>2, <3>3
  <2>3. (Answering(Tail(stack)) <=> Answering(stack)) /\ Untouched(Tail(stack))
    BY <1>0, <2>1, <2>2, PopAnswering
  <2>4. CASE handled
    <3> DEFINE t == Tail(stack)
    <3>1. stack' = Tail(t) /\ t # <<>>
      <4>1. stack' = SubSeq(stack, 3, Len(stack))  BY <1>3, <2>4 DEF HandlerReturns
      <4> QED  BY <1>0, <2>2, <4>1, NextButOne
    <3>2. t \in Seq(Frames) /\ Len(t) = Len(stack) - 1 /\ t[1] = stack[2]
      BY <1>0, <2>1, <2>2, TailFacts
    <3>3. Len(t) = 1 => ~Answering(t)
      <4>1. Above(stack[1], stack[2], Len(stack) = 2)  BY <1>0, <2>1, <2>2, PopShape DEF StackInv
      <4>2. stack[2].at \in Handlers  BY <2>1, <4>1 DEF Above, Walk
      <4>3. stack[2].at # None  BY <4>2, ReceiveAssumption DEF ReceiveAssumption
      <4>4. Answering(t) => t[Len(t)].at = None  BY <2>3 DEF Untouched
      <4> HIDE DEF t
      <4> QED  BY <3>2, <4>3, <4>4
    <3>4. Len(t) > 1 \/ Len(t) = 1  BY <1>0, <2>2, <3>2
    <3>5. Untouched(t) /\ (Answering(t) <=> Answering(stack))  BY <2>3
    <3> HIDE DEF t
    <3> QED  BY <3>1, <3>2, <3>3, <3>4, <3>5, PopAnswering
  <2>5. CASE ~handled
    <3>1. stack' = Tail(stack)  BY <1>3, <2>5 DEF HandlerReturns
    <3> QED  BY <2>3, <3>1
  <2> QED  BY <2>4, <2>5
<1>4. ASSUME NEW h \in Handlers, Unregister(h)
      PROVE  (Answering(stack') <=> Answering(stack)) /\ Untouched(stack')
  <2>1. stack' = [k \in 1 .. Len(stack) |-> Freed(stack[k], h)] /\ h \in Heirs
    BY <1>0, <1>4 DEF Unregister, Heirs
  <2>2. Len(stack') = Len(stack)
    <3>1. Sorts'  BY SortsStep
    <3>2. DOMAIN stack' = 1 .. Len(stack)  BY <1>0, <2>1
    <3> QED  BY <1>0, <3>1, <3>2 DEF Sorts
  <2>3. CASE Len(stack) = 0  BY <2>2, <2>3 DEF Answering, Untouched
  <2>4. CASE Len(stack) # 0
    <3> DEFINE f == stack[Len(stack)]
               g == Freed(f, h)
    <3>1. Len(stack) \in 1 .. Len(stack) /\ Len(stack) > 0  BY <1>0, <2>4
    <3>2. f \in Frames /\ stack'[Len(stack)] = g  BY <1>0, <2>1, <3>1
    <3>3. /\ g.fn = f.fn
          /\ f.fn = "dispatch" => g.stanza = f.stanza /\ g.at = f.at /\ g.freed = (f.freed \/ f.at = h)
      BY <2>1, <3>2, FreedFrame
    <3>4. h # None  BY ReceiveAssumption DEF ReceiveAssumption
    <3>5. Answering(stack') <=> Walk(g) /\ g.stanza.type = "a"
      BY <2>2, <3>1, <3>2 DEF Answering
    <3>6. Answering(stack) <=> Walk(f) /\ f.stanza.type = "a"  BY <3>1 DEF Answering
    <3>7. Walk(g) /\ g.stanza.type = "a" <=> Walk(f) /\ f.stanza.type = "a"  BY <3>3 DEF Walk
    <3>8. Answering(stack) => f.at = None /\ ~f.freed  BY DEF Untouched
    <3>9. Answering(stack') => g.at = None /\ ~g.freed
      <4> SUFFICES ASSUME Answering(stack') PROVE g.at = None /\ ~g.freed  OBVIOUS
      <4>1. f.fn = "dispatch" /\ f.at = None /\ ~f.freed
        BY <3>5, <3>6, <3>7, <3>8 DEF Walk
      <4> HIDE DEF f, g
      <4> QED  BY <3>3, <3>4, <4>1
    <3> QED  BY <2>2, <3>2, <3>5, <3>6, <3>7, <3>9 DEF Untouched
  <2> QED  BY <2>3, <2>4
<1>5. CASE DisableSaving
  <2> DEFINE d == Frame("disable")
             g == Frame("flush")
             s == <<d>> \o stack
  <2>1. stack' = <<g, d>> \o stack  BY <1>5 DEF DisableSaving, FlushThenEnd
  <2>2. d \in Frames /\ g \in Frames /\ ~Walk(d)  BY NewFrames DEF Frame, Walk
  <2> HIDE DEF d, g
  <2>3. s \in Seq(Frames) /\ s # <<>>  BY <1>0, <2>2, ConsFacts
  <2>4. (Answering(s) <=> Answering(stack)) /\ Untouched(s)
    <3>1. CASE stack = <<>>
      <4>1. Answering(s) <=> Walk(d) /\ d.stanza.type = "a"  BY <1>0, <2>2, <3>1, PushAnswering
      <4>2. ~Answering(s)  BY <2>2, <4>1
      <4> HIDE DEF s
      <4> QED  BY <1>l, <3>1, <4>2 DEF Untouched
    <3>2. CASE stack # <<>>  BY <1>0, <2>2, <3>2, PushAnswering
    <3> QED  BY <3>1, <3>2
  <2>5. stack' = <<g>> \o s
    <3>1. stack \in Seq(Frames)  BY <1>0
    <3>2. <<g, d>> \o stack = <<g>> \o (<<d>> \o stack)  BY <2>2, <3>1, TwoCons
    <3> QED  BY <2>1, <3>2
  <2> HIDE DEF s
  <2> QED  BY <2>2, <2>3, <2>4, <2>5, PushAnswering
<1>6. CASE SavingEnds
  <2>1. stack # <<>> /\ Head(stack).fn = "disable" /\ stack' = Tail(stack)
    BY <1>6 DEF SavingEnds, Running
  <2>2. stack[1].fn = "disable"  BY <1>0, <2>1, TailFacts
  <2>3. Len(stack) = 1 \/ Len(stack) > 1
    <3>1. Len(stack) \in Nat \ {0}  BY <1>0, <2>1, TailFacts
    <3>2. \A n \in Nat \ {0} : n = 1 \/ n > 1  OBVIOUS
    <3> QED  BY <3>1, <3>2
  <2>4. Len(stack) = 1 => ~Answering(stack)  BY <2>2 DEF Answering, Walk
  <2> QED  BY <1>0, <2>1, <2>3, <2>4, PopAnswering
<1>7. \/ stack' = stack \/ FlushStep \/ (\E handled \in BOOLEAN : HandlerReturns(handled))
      \/ (\E h \in Handlers : Unregister(h)) \/ DisableSaving \/ SavingEnds
  <2>1. UNCHANGED porterVars => stack' = stack  BY DEF porterVars
  <2>2. ReceiveClosed \/ EnableSaving => stack' = stack  BY DEF ReceiveClosed, EnableSaving
  <2>3. Listing => stack' = stack  BY DEF Listing, Register, PingDisposed
  <2>4. Sending => stack' = stack  BY MessagesAndIqs
  <2>5. CloseAsync \/ PopUnacked => stack' = stack  BY DEF CloseAsync, PopUnacked
  <2>6. Delivering \/ ServerRequests => stack' = stack  BY DeliveringFacts, RequestsFacts
  <2>7. Serving => stack' = stack  BY DEF Serving, Others
  <2> QED  BY <2>1, <2>2, <2>3, <2>4, <2>5, <2>6, <2>7, Cases
<1> QED  BY <1>1, <1>2, <1>3, <1>4, <1>5, <1>6, <1>7

\* The steps that leave the server's answers where they are, or move one to its dispatch.
LEMMA AccountKept ==
  ASSUME Sorts, Sorts', managed, Account,
         UNCHANGED <<managed, got, fetched, remoteClosed, serverGone>>,
         Count(inbox', AnswersBack) + One(Answering(stack'))
           = Count(inbox, AnswersBack) + One(Answering(stack)),
         remoteClosed /\ Answering(stack') => Answering(stack),
         \/ sent' = sent /\ unacked' = unacked /\ out' = out
         \/ /\ sent' = sent /\ unacked' = unacked
            /\ \E x \in OutItems : x.kind \in {"a", "last"} /\ out' = Append(out, x)
         \/ \E w \in Whats : Send(w)
  PROVE  Account'
<1> DEFINE B == Count(inbox, AnswersBack)
           A == One(Answering(stack))
           R == Count(out, RequestsOut)
           B2 == Count(inbox', AnswersBack)
           A2 == One(Answering(stack'))
           R2 == Count(out', RequestsOut)
           U == Len(unacked)
           U2 == Len(unacked')
<1>0. /\ B \in Nat /\ A \in Nat /\ R \in Nat /\ B2 \in Nat /\ A2 \in Nat /\ R2 \in Nat
      /\ U \in Nat /\ U2 \in Nat /\ sent \in Nat /\ sent' \in Nat /\ got \in Nat
  <2>1. /\ inbox \in Seq(Incoming) /\ inbox' \in Seq(Incoming)
        /\ out \in Seq(OutItems) /\ out' \in Seq(OutItems)
        /\ unacked \in Seq(Nat) /\ unacked' \in Seq(Nat)
    BY DEF Sorts
  <2>2. A \in Nat /\ A2 \in Nat  BY DEF One
  <2>3. B \in Nat /\ B2 \in Nat /\ R \in Nat /\ R2 \in Nat  BY <2>1, CountType
  <2>4. U \in Nat /\ U2 \in Nat  BY <2>1
  <2>5. sent \in Nat /\ got \in Nat  BY DEF Sorts
  <2>6. sent' \in Nat  BY DEF Sorts
  <2> HIDE DEF B, A, R, B2, A2, R2, U, U2
  <2> QED  BY <2>2, <2>3, <2>4, <2>5, <2>6
<1>1. B2 + A2 = B + A  OBVIOUS
<1>2. /\ ~serverGone => OutInv(out) /\ U = R + B + A
      /\ ~remoteClosed => sent - U + B + A <= got
      /\ remoteClosed => ~Answering(stack) /\ \A n \in got + 1 .. sent - U : n \in fetched
  BY DEF Account
<1>3. \/ sent' = sent /\ U2 = U /\ (OutInv(out) => OutInv(out') /\ R2 = R)
      \/ sent' = sent + 1 /\ U2 = U + 1 /\ (OutInv(out) => OutInv(out') /\ R2 = R + 1)
  <2>0. out \in Seq(OutItems) /\ unacked \in Seq(Nat)  BY DEF Sorts
  <2>1. CASE sent' = sent /\ unacked' = unacked /\ out' = out  BY <2>1
  <2>2. CASE /\ sent' = sent /\ unacked' = unacked
             /\ \E x \in OutItems : x.kind \in {"a", "last"} /\ out' = Append(out, x)
    <3>1. PICK x \in OutItems : x.kind \in {"a", "last"} /\ out' = Append(out, x)  BY <2>2
    <3>2. OutInv(out) => OutInv(Append(out, x)) /\ Count(Append(out, x), RequestsOut) = R
      BY <2>0, <3>1, OutAppend
    <3> QED  BY <2>2, <3>1, <3>2
  <2>3. ASSUME NEW w \in Whats, Send(w)
        PROVE  \/ sent' = sent /\ U2 = U /\ (OutInv(out) => OutInv(out') /\ R2 = R)
               \/ sent' = sent + 1 /\ U2 = U + 1 /\ (OutInv(out) => OutInv(out') /\ R2 = R + 1)
    <3> DEFINE c == Carrying(w)
               o == Append(Append(out, c), Request)
    <3>1. \/ sent' = sent /\ unacked' = unacked /\ out' = out
          \/ sent' = sent + 1 /\ unacked' = Append(unacked, sent + 1) /\ out' = o
      BY <2>3, SendFacts
    <3>2. c \in OutItems /\ c.kind = "stanza"  BY PlainItems
    <3>3. OutInv(out) => OutInv(o) /\ Count(o, RequestsOut) = R + 1
      BY <2>0, <3>2, OutAppend
    <3> HIDE DEF o
    <3>4. CASE sent' = sent /\ unacked' = unacked /\ out' = out  BY <3>4
    <3>5. CASE sent' = sent + 1 /\ unacked' = Append(unacked, sent + 1) /\ out' = o
      <4>1. sent + 1 \in Nat  BY <1>0
      <4>2. U2 = U + 1  BY <2>0, <3>5, <4>1, AppendFacts
      <4> QED  BY <3>3, <3>5, <4>2
    <3> QED  BY <3>1, <3>4, <3>5
  <2> QED  BY <2>1, <2>2, <2>3
<1>4. remoteClosed /\ Answering(stack') => Answering(stack)  OBVIOUS
<1> HIDE DEF B, A, R, B2, A2, R2, U, U2
<1>5. ~serverGone => OutInv(out') /\ U2 = R2 + B2 + A2
  <2>1. CASE sent' = sent /\ U2 = U /\ (OutInv(out) => OutInv(out') /\ R2 = R)
    BY <1>0, <1>1, <1>2, <2>1
  <2>2. CASE sent' = sent + 1 /\ U2 = U + 1 /\ (OutInv(out) => OutInv(out') /\ R2 = R + 1)
    BY <1>0, <1>1, <1>2, <2>2
  <2> QED  BY <1>3, <2>1, <2>2
<1>6. sent' - U2 = sent - U
  <2>1. (sent' = sent /\ U2 = U) \/ (sent' = sent + 1 /\ U2 = U + 1)  BY <1>3
  <2>2. CASE sent' = sent /\ U2 = U  BY <2>2
  <2>3. CASE sent' = sent + 1 /\ U2 = U + 1
    <3>1. \A m, n \in Nat : (m + 1) - (n + 1) = m - n  OBVIOUS
    <3> QED  BY <1>0, <2>3, <3>1
  <2> QED  BY <2>1, <2>2, <2>3
<1>7. ~remoteClosed => sent' - U2 + B2 + A2 <= got
  <2>1. sent' - U2 + B2 + A2 = sent - U + B + A
    <3>1. sent - U \in Int  BY <1>0
    <3>2. \A z \in Int : z + B2 + A2 = z + B + A  BY <1>0, <1>1
    <3> QED  BY <1>6, <3>1, <3>2
  <2> QED  BY <1>2, <2>1
<1>8. remoteClosed => ~Answering(stack') /\ \A n \in got + 1 .. sent' - U2 : n \in fetched
  BY <1>2, <1>4, <1>6
<1> QED  BY <1>5, <1>7, <1>8 DEF Account, B2, A2, R2, U2

\* An answer takes off the oldest stanza: there is one.
LEMMA AccountTaken ==
  ASSUME Sorts, Sorts', SentInv, Account, Answering(stack), ~Answering(stack'), unacked' = TakeAnswer,
         UNCHANGED <<sent, out, inbox, got, fetched, remoteClosed, serverGone>>
  PROVE  Account'
<1> DEFINE B == Count(inbox, AnswersBack)
           R == Count(out, RequestsOut)
           U == Len(unacked)
           U2 == Len(unacked')
<1>0. B \in Nat /\ R \in Nat /\ U \in Nat /\ sent \in Nat /\ got \in Nat /\ got <= sent
  <2>1. inbox \in Seq(Incoming) /\ out \in Seq(OutItems) /\ unacked \in Seq(Nat)  BY DEF Sorts
  <2>2. B \in Nat /\ R \in Nat  BY <2>1, CountType
  <2> QED  BY <2>1, <2>2 DEF Sorts, SentInv
<1>1. /\ ~serverGone => OutInv(out) /\ U = R + B + 1
      /\ ~remoteClosed /\ sent - U + B + 1 <= got
  BY DEF Account, One
<1>2. U2 = U - 1
  <2>1. U # 0  BY <1>0, <1>1
  <2>2. unacked # <<>>
    <3>1. Len(<<>>) = 0  BY DEF Sorts
    <3> QED  BY <2>1, <3>1
  <2>3. unacked' = Tail(unacked) /\ unacked \in Seq(Nat)  BY <2>2 DEF TakeAnswer, Sorts
  <2> QED  BY <2>2, <2>3, TailFacts
<1>3. One(Answering(stack')) = 0  BY DEF One
<1> HIDE DEF B, R, U, U2
<1>4. ~serverGone => OutInv(out) /\ U2 = R + B + 0  BY <1>0, <1>1, <1>2
<1>5. sent - U2 + B + 0 <= got  BY <1>0, <1>1, <1>2
<1> QED  BY <1>1, <1>3, <1>4, <1>5 DEF Account, B, R, U, U2

\* As long as the server lives, it has read what its answers stand for.
LEMMA Behind ==
  ASSUME Sorts, SentInv, ~serverGone, OutInv(out),
         Len(unacked) = Count(out, RequestsOut) + Count(inbox, AnswersBack) + One(Answering(stack))
  PROVE  sent - Len(unacked) + Count(inbox, AnswersBack) + One(Answering(stack))
           + One(Len(out) > 0 /\ out[1].kind = "r") = got
<1> DEFINE B == Count(inbox, AnswersBack)
           A == One(Answering(stack))
           R == Count(out, RequestsOut)
           S == Count(out, StanzasOut)
           H == One(Len(out) > 0 /\ out[1].kind = "r")
           U == Len(unacked)
<1>0. /\ B \in Nat /\ R \in Nat /\ S \in Nat /\ A \in Nat /\ H \in Nat
      /\ U \in Nat /\ sent \in Nat /\ got \in Nat
  <2>1. inbox \in Seq(Incoming) /\ out \in Seq(OutItems) /\ unacked \in Seq(Nat)  BY DEF Sorts
  <2>2. B \in Nat /\ R \in Nat /\ S \in Nat  BY <2>1, CountType
  <2>3. A \in Nat /\ H \in Nat  BY DEF One
  <2> QED  BY <2>1, <2>2, <2>3 DEF Sorts
<1>1. R = S + H  BY DEF OutInv
<1>2. got + S = sent  BY DEF SentInv
<1>3. U = R + B + A  OBVIOUS
<1> HIDE DEF B, A, R, S, H, U
<1>4. sent - U + B + A + H = got  BY <1>0, <1>1, <1>2, <1>3
<1> QED  BY <1>4 DEF B, A, R, S, H, U

\* The server answers each request it reads; when it ends the stream, or it breaks, no more
\* answers come.
LEMMA AccountServes ==
  ASSUME Sorts, SentInv, managed, Account, Serving
  PROVE  Account'
<1> DEFINE B == Count(inbox, AnswersBack)
           A == One(Answering(stack))
           R == Count(out, RequestsOut)
           U == Len(unacked)
           B2 == Count(inbox', AnswersBack)
           c == [type |-> "closed"]
<1>0. /\ inbox \in Seq(Incoming) /\ out \in Seq(OutItems) /\ unacked \in Seq(Nat)
      /\ sent \in Nat /\ got \in Nat
  BY DEF Sorts
<1>1. B \in Nat /\ R \in Nat /\ A \in Nat /\ U \in Nat
  <2>1. B \in Nat /\ R \in Nat  BY <1>0, CountType
  <2> QED  BY <1>0, <2>1 DEF One
<1>2. stack' = stack /\ remoteClosed' = remoteClosed  BY DEF Serving, Others, recvVars
<1>3. ~serverGone /\ ~remoteClosed
  <2>1. ~serverGone  BY DEF Serving, ServerReads, ServerCloses, StreamBreaks
  <2> QED  BY <2>1 DEF SentInv
<1>4. OutInv(out) /\ U = R + B + A /\ sent - U + B + A <= got  BY <1>3 DEF Account
<1>c. c \in Incoming /\ One(c \in AnswersBack) = 0
  <2>1. c \in Incoming  BY DEF Incoming
  <2>2. c \notin AnswersBack  BY DEF AnswersBack
  <2> QED  BY <2>1, <2>2 DEF One
<1>5. CASE ServerReads
  <2> DEFINE H == One(out[1].kind = "r")
             x == [type |-> "a", h |-> got]
  <2>1. /\ out # <<>> /\ out' = Tail(out) /\ UNCHANGED <<sent, unacked, fetched, serverGone>>
        /\ got' = got + (IF Head(out).kind = "stanza" THEN 1 ELSE 0)
        /\ inbox' = IF Head(out).kind = "r" THEN Append(inbox, x) ELSE inbox
    BY <1>5 DEF ServerReads
  <2>2. Head(out) = out[1] /\ Len(out) \in Nat \ {0} /\ Tail(out) \in Seq(OutItems)
    BY <1>0, <2>1, TailFacts
  <2>3. OutInv(out') /\ Count(out', RequestsOut) + H = R  BY <1>0, <1>4, <2>1, OutTail
  <2>4. B2 = B + H
    <3>1. x \in Incoming /\ One(x \in AnswersBack) = 1
      <4>1. x \in Incoming  BY <1>0 DEF Incoming, AnswersIn
      <4>2. x \in AnswersBack  BY <4>1 DEF AnswersBack
      <4> QED  BY <4>1, <4>2 DEF One
    <3> HIDE DEF x
    <3>2. Count(Append(inbox, x), AnswersBack) = B + 1  BY <1>0, <3>1, CountAppend
    <3>3. CASE out[1].kind = "r"  BY <2>1, <2>2, <3>2, <3>3 DEF One
    <3>4. CASE out[1].kind # "r"  BY <1>1, <2>1, <2>2, <3>4 DEF One
    <3> QED  BY <3>3, <3>4
  <2>5. sent - U + B + A + H = got
    <3>1. Len(out) > 0  BY <2>2
    <3>2. sent - U + B + A + One(Len(out) > 0 /\ out[1].kind = "r") = got  BY <1>3, <1>4, Behind
    <3> QED  BY <3>1, <3>2 DEF One
  <2>6. got <= got' /\ got' \in Nat  BY <1>0, <2>1
  <2>7. H \in Nat /\ Count(out', RequestsOut) \in Nat
    <3>1. Count(Tail(out), RequestsOut) \in Nat  BY <2>2, CountType
    <3> QED  BY <2>1, <3>1 DEF One
  <2>8. Len(unacked') = U /\ One(Answering(stack')) = A  BY <1>2, <2>1
  <2> HIDE DEF H, x, B, A, R, U, B2
  <2>9. U = Count(out', RequestsOut) + B2 + A  BY <1>1, <1>4, <2>3, <2>4, <2>7
  <2>10. sent - U + B2 + A <= got'
    <3>1. sent - U + B + H + A = sent - U + B + A + H  BY <1>0, <1>1, <2>7
    <3>2. sent - U + B2 + A = got  BY <1>0, <1>1, <2>4, <2>5, <2>7, <3>1
    <3> QED  BY <2>6, <3>2
  <2> QED  BY <1>2, <1>3, <2>1, <2>3, <2>8, <2>9, <2>10 DEF Account, B2, U, A
<1>6. ASSUME serverGone', UNCHANGED <<sent, unacked, fetched, got>>, B2 \in Nat, B2 <= B
      PROVE  Account'
  <2>1. Len(unacked') = U /\ One(Answering(stack')) = A  BY <1>2, <1>6
  <2> HIDE DEF B, A, R, U, B2
  <2>2. sent - U + B2 + A <= got
    <3>1. sent - U \in Int  BY <1>0, <1>1
    <3>2. \A z \in Int : z + B2 + A <= z + B + A  BY <1>1, <1>6
    <3>3. sent - U + B2 + A <= sent - U + B + A  BY <3>1, <3>2
    <3> QED  BY <1>0, <1>1, <1>4, <1>6, <3>1, <3>3
  <2> QED  BY <1>2, <1>3, <1>6, <2>1, <2>2 DEF Account, B2, U, A
<1>7. CASE ServerCloses
  <2>1. serverGone' /\ inbox' = Append(inbox, c) /\ UNCHANGED <<sent, unacked, fetched, got>>
    BY <1>7 DEF ServerCloses, smVars
  <2> HIDE DEF c
  <2>2. Count(Append(inbox, c), AnswersBack) = B + 0  BY <1>0, <1>c, CountAppend
  <2> QED  BY <1>1, <1>6, <2>1, <2>2
<1>8. CASE StreamBreaks
  <2>1. serverGone' /\ UNCHANGED <<sent, unacked, fetched, got>>  BY <1>8 DEF StreamBreaks
  <2>2. PICK k \in 0 .. Len(inbox) : inbox' = Append(SubSeq(inbox, 1, k), c)
    BY <1>8 DEF StreamBreaks
  <2> DEFINE p == SubSeq(inbox, 1, k)
  <2>3. p \in Seq(Incoming) /\ Count(p, AnswersBack) <= B  BY <1>0, CountPrefix
  <2>4. Count(p, AnswersBack) \in Nat  BY <2>3, CountType
  <2> HIDE DEF p, c
  <2>5. Count(Append(p, c), AnswersBack) = Count(p, AnswersBack) + 0  BY <1>c, <2>3, CountAppend
  <2>6. B2 = Count(p, AnswersBack)  BY <2>2, <2>4, <2>5 DEF p
  <2> QED  BY <1>6, <2>1, <2>3, <2>4, <2>6
<1> QED  BY <1>5, <1>7, <1>8 DEF Serving

LEMMA AccountCloses ==
  ASSUME Sorts, Account, ReceiveClosed
  PROVE  Account'
<1>1. /\ ~remoteClosed /\ remoteClosed' = TRUE /\ stack = <<>> /\ stack' = stack
      /\ inbox # <<>> /\ Head(inbox).type = "closed" /\ inbox' = Tail(inbox)
      /\ UNCHANGED <<sent, unacked, fetched, out, got, serverGone>>
  BY DEF ReceiveClosed, AtLoop, smVars, serverVars
<1>2. ~Answering(stack)  BY <1>1 DEF Answering
<1>3. Count(inbox', AnswersBack) = Count(inbox, AnswersBack) /\ Count(inbox, AnswersBack) \in Nat
  <2>1. inbox \in Seq(Incoming)  BY DEF Sorts
  <2>2. Count(inbox, AnswersBack) = Count(Tail(inbox), AnswersBack) + One(inbox[1] \in AnswersBack)
    BY <1>1, <2>1, CountTail
  <2>3. inbox[1].type = "closed" /\ Tail(inbox) \in Seq(Incoming)  BY <1>1, <2>1, TailFacts
  <2>4. One(inbox[1] \in AnswersBack) = 0  BY <2>3 DEF One, AnswersBack
  <2>5. Count(Tail(inbox), AnswersBack) \in Nat  BY <2>3, CountType
  <2> QED  BY <1>1, <2>2, <2>4, <2>5
<1>4. sent - Len(unacked) <= got
  <2>1. sent - Len(unacked) + Count(inbox, AnswersBack) + 0 <= got  BY <1>1, <1>2 DEF Account, One
  <2>2. sent - Len(unacked) \in Int /\ got \in Nat  BY DEF Sorts
  <2>3. \A z \in Int, m \in Nat : z + m + 0 <= got => z <= got  BY <2>2
  <2> QED  BY <1>3, <2>1, <2>2, <2>3
<1>5. \A n \in got + 1 .. sent - Len(unacked) : n \in fetched
  <2>1. sent - Len(unacked) \in Int /\ got \in Nat  BY DEF Sorts
  <2>2. \A z \in Int : z <= got => got + 1 .. z = {}  BY <2>1
  <2>3. got + 1 .. sent - Len(unacked) = {}  BY <1>4, <2>1, <2>2
  <2> QED  BY <2>3
<1>6. ~serverGone' => OutInv(out') /\ Len(unacked') = Count(out', RequestsOut) + Count(inbox', AnswersBack)
                                                  + One(Answering(stack'))
  BY <1>1, <1>3 DEF Account
<1> QED  BY <1>1, <1>2, <1>5, <1>6 DEF Account

LEMMA AccountPops ==
  ASSUME Sorts, SentInv, Account, PopUnacked
  PROVE  Account'
<1>1. /\ remoteClosed /\ remoteClosed' = remoteClosed /\ stack' = stack /\ serverGone' = serverGone
      /\ unacked # <<>> /\ unacked' = Tail(unacked) /\ fetched' = fetched \cup {Head(unacked)}
      /\ sent' = sent /\ got' = got
  BY DEF PopUnacked, Fetch, serverVars, recvVars
<1>2. serverGone /\ ~Answering(stack) /\ \A n \in got + 1 .. sent - Len(unacked) : n \in fetched
  BY <1>1 DEF Account, SentInv
<1>3. /\ unacked \in Seq(Nat) /\ Len(unacked) \in Nat \ {0} /\ Head(unacked) = unacked[1]
      /\ Len(Tail(unacked)) = Len(unacked) - 1 /\ sent \in Nat /\ got \in Nat
  BY <1>1, TailFacts DEF Sorts
<1>4. Head(unacked) = sent - Len(unacked) + 1
  <2>1. 1 \in 1 .. Len(unacked)  BY <1>3
  <2>2. unacked[1] = sent - Len(unacked) + 1  BY <2>1 DEF SentInv
  <2> QED  BY <1>3, <2>2
<1>5. ASSUME NEW n \in got + 1 .. sent - Len(unacked') PROVE n \in fetched'
  <2>1. sent - Len(unacked') = sent - Len(unacked) + 1 /\ n \in Int  BY <1>1, <1>3
  <2>2. n \in got + 1 .. sent - Len(unacked) \/ n = sent - Len(unacked) + 1  BY <1>3, <2>1
  <2> QED  BY <1>1, <1>2, <1>4, <2>2
<1> QED  BY <1>1, <1>2, <1>5 DEF Account

LEMMA DispatchAccount ==
  ASSUME AnswersAreTheLibrarys, Sorts, Sorts', SentInv, StackInv, managed, ListInv, Account, Dispatching
  PROVE  Account' /\ Untouched(stack')
<1> DEFINE f == stack[1]
           s == f.stanza
<1>0. stack \in Seq(Frames)  BY DEF Sorts
<1>1. /\ stack # <<>> /\ Walk(f) /\ s \in Read
      /\ UNCHANGED <<managed, got, fetched, remoteClosed, serverGone, inbox>>
      /\ \/ /\ stack' = Tail(stack)
            /\ \/ s.type = "iq" /\ Reply(s)
               \/ s.type = "r" /\ SendAnswer(s.h) /\ sent' = sent /\ unacked' = unacked
               \/ s.type = "a" /\ unacked' = TakeAnswer /\ sent' = sent /\ out' = out
               \/ sent' = sent /\ unacked' = unacked /\ out' = out
         \/ sent' = sent /\ unacked' = unacked /\ out' = out
  BY DispatchFacts
<1>2. CASE s.type = "a"
  <2>1. Len(stack) = 1
    <3>1. s.n = 0  BY <1>1, <1>2, ReadFacts
    <3> QED  BY <3>1, BeginsNext
  <2>2. Answering(stack) /\ f.at = None /\ ~f.freed
    <3>1. Answering(stack)  BY <1>1, <1>2, <2>1 DEF Answering
    <3> QED  BY <2>1, <3>1 DEF ListInv, Untouched
  <2>3. stack' = Tail(stack) /\ unacked' = TakeAnswer /\ sent' = sent /\ out' = out
    BY <1>2, <2>2, AckTaken DEF ListInv
  <2>4. ~Answering(stack') /\ Untouched(stack')  BY <1>0, <1>1, <2>1, <2>3, PopAnswering
  <2>5. UNCHANGED <<sent, out, inbox, got, fetched, remoteClosed, serverGone>>  BY <1>1, <2>3
  <2>6. Account'  BY <2>2, <2>3, <2>4, <2>5, AccountTaken
  <2> QED  BY <2>4, <2>6
<1>3. CASE s.type # "a"
  <2>1. (Answering(stack') <=> Answering(stack)) /\ Untouched(stack')
    BY <1>3, AnswerStays DEF ListInv
  <2>2. Count(inbox', AnswersBack) + One(Answering(stack'))
          = Count(inbox, AnswersBack) + One(Answering(stack))
    BY <1>1, <2>1 DEF One
  <2>3. \/ sent' = sent /\ unacked' = unacked /\ out' = out
        \/ /\ sent' = sent /\ unacked' = unacked
           /\ \E x \in OutItems : x.kind \in {"a", "last"} /\ out' = Append(out, x)
        \/ \E w \in Whats : Send(w)
    <3> HIDE DEF s
    <3>1. CASE s.type = "iq" /\ Reply(s)
      <4>1. s \in Arrivals /\ s.n # 0  BY <1>1, <3>1, ReadFacts
      <4>2. ReplyTo(s) \in Whats /\ Send(ReplyTo(s))  BY <3>1, <4>1, PlainItems DEF Reply
      <4> QED  BY <4>2
    <3>2. CASE s.type = "r" /\ SendAnswer(s.h) /\ sent' = sent /\ unacked' = unacked
      <4> DEFINE a == Answer(s.h)
      <4>1. a \in OutItems /\ a.kind = "a"
        <5>1. s.h \in Nat  BY <1>1, ReadFacts
        <5> QED  BY <5>1, PlainItems DEF Answer
      <4>2. out' = out \/ out' = Append(out, a)  BY <3>2 DEF SendAnswer
      <4> HIDE DEF a
      <4> QED  BY <3>2, <4>1, <4>2
    <3> QED  BY <1>1, <1>3, <3>1, <3>2
  <2>4. Account'
    <3>1. UNCHANGED <<managed, got, fetched, remoteClosed, serverGone>>  BY <1>1
    <3>2. remoteClosed /\ Answering(stack') => Answering(stack)  BY <2>1
    <3> QED  BY <2>2, <2>3, <3>1, <3>2, AccountKept
  <2> QED  BY <2>1, <2>4
<1> QED  BY <1>2, <1>3

LEMMA AckStep ==
  ASSUME AnswersAreTheLibrarys, "unasked" \notin Liberties, Sorts, SentInv, StackInv, AckInv, [Next]_vars
  PROVE  AckInv'
<1>m. managed' = managed
  <2>1. UNCHANGED porterVars => managed' = managed  BY DEF porterVars, smVars
  <2>2. ReceiveClosed \/ ReceiveStanza \/ FlushStep => managed' = managed
    BY DEF ReceiveClosed, ReceiveStanza, FlushStep, smVars
  <2>3. Dispatching => managed' = managed  BY DispatchFacts
  <2>4. (\E handled \in BOOLEAN : HandlerReturns(handled)) => managed' = managed
    BY DEF HandlerReturns, smVars
  <2>5. Listing \/ (\E h \in Handlers : Unregister(h)) => managed' = managed
    BY DEF Listing, Register, PingDisposed, Unregister, smVars
  <2>6. EnableSaving \/ DisableSaving \/ SavingEnds => managed' = managed
    BY DEF EnableSaving, DisableSaving, SavingEnds, smVars
  <2>7. Sending => managed' = managed  BY MessagesAndIqs
  <2>8. CloseAsync \/ PopUnacked => managed' = managed  BY DEF CloseAsync, PopUnacked
  <2>9. Delivering \/ ServerRequests => managed' = managed
    BY DeliveringFacts, RequestsFacts DEF smVars
  <2>10. Serving => managed' = managed
    BY DEF Serving, ServerReads, ServerCloses, StreamBreaks, smVars
  <2> QED  BY <2>1, <2>2, <2>3, <2>4, <2>5, <2>6, <2>7, <2>8, <2>9, <2>10, Cases
<1> SUFFICES ASSUME managed PROVE ListInv' /\ Account'  BY <1>m DEF AckInv
<1>0. ListInv /\ Account /\ Sorts'  BY SortsStep DEF AckInv
<1>l. Listed(handlers') /\ Contains(handlers', "sm_a")  BY <1>0, ListStep DEF ListInv
<1>t. inbox \in Seq(Incoming) /\ counted \in Nat  BY DEF Sorts
<1>u. Untouched(stack') => ListInv'  BY <1>l DEF ListInv
<1> DEFINE B == Count(inbox, AnswersBack)
<1>1. CASE ReceiveStanza
  <2>1. /\ inbox # <<>> /\ inbox' = Tail(inbox) /\ ~remoteClosed
        /\ UNCHANGED <<smVars, got, remoteClosed, serverGone>>
    BY <1>1 DEF ReceiveStanza, serverVars
  <2>2. (Answering(stack') <=> inbox[1].type = "a") /\ Untouched(stack') /\ ~Answering(stack)
    BY <1>1, AnswerArrives
  <2>3. inbox[1] \in Incoming /\ Tail(inbox) \in Seq(Incoming)  BY <1>t, <2>1, TailFacts
  <2>4. B = Count(Tail(inbox), AnswersBack) + One(inbox[1] \in AnswersBack)
    BY <1>t, <2>1, CountTail
  <2>5. One(inbox[1] \in AnswersBack) = One(Answering(stack'))
    BY <2>2, <2>3 DEF One, AnswersBack
  <2>6. Count(Tail(inbox), AnswersBack) \in Nat /\ B \in Nat  BY <1>t, <2>3, CountType
  <2>7. Count(inbox', AnswersBack) + One(Answering(stack')) = B + One(Answering(stack))
    <3>1. One(Answering(stack)) = 0  BY <2>2 DEF One
    <3> HIDE DEF B
    <3>2. B = B + 0  BY <2>6
    <3> QED  BY <2>1, <2>4, <2>5, <3>1, <3>2
  <2>8. /\ UNCHANGED <<managed, got, fetched, remoteClosed, serverGone>>
        /\ sent' = sent /\ unacked' = unacked /\ out' = out
    BY <2>1 DEF smVars
  <2>9. Account'  BY <1>0, <2>1, <2>7, <2>8, AccountKept
  <2> QED  BY <1>u, <2>2, <2>9
<1>2. CASE Dispatching
  <2>1. Account' /\ Untouched(stack')  BY <1>0, <1>2, DispatchAccount
  <2> QED  BY <1>u, <2>1
<1>3. CASE ~ReceiveStanza /\ ~Dispatching
  <2>1. (Answering(stack') <=> Answering(stack)) /\ Untouched(stack')
    BY <1>0, <1>3, StackAnswers DEF ListInv
  <2> SUFFICES Account'  BY <1>u, <2>1
  <2>2. ASSUME UNCHANGED <<got, fetched, remoteClosed, serverGone>>,
               Count(inbox', AnswersBack) = B,
               \/ sent' = sent /\ unacked' = unacked /\ out' = out
               \/ /\ sent' = sent /\ unacked' = unacked
                  /\ \E x \in OutItems : x.kind \in {"a", "last"} /\ out' = Append(out, x)
               \/ \E w \in Whats : Send(w)
        PROVE  Account'
    <3>1. Count(inbox', AnswersBack) + One(Answering(stack')) = B + One(Answering(stack))
      BY <2>1, <2>2 DEF One
    <3>2. remoteClosed /\ Answering(stack') => Answering(stack)  BY <2>1
    <3>3. UNCHANGED <<managed, got, fetched, remoteClosed, serverGone>>  BY <1>m, <2>2
    <3> QED  BY <1>0, <2>2, <3>1, <3>2, <3>3, AccountKept
  <2>3. CASE UNCHANGED <<inbox, sent, unacked, out, got, fetched, remoteClosed, serverGone>>
    BY <2>2, <2>3
  <2>4. CASE ReceiveClosed  BY <1>0, <2>4, AccountCloses
  <2>5. CASE PopUnacked  BY <1>0, <2>5, AccountPops
  <2>6. CASE Serving  BY <1>0, <2>6, AccountServes
  <2>7. CASE Sending
    <3>1. /\ \E w \in Whats : Send(w)
          /\ UNCHANGED <<got, fetched, remoteClosed, serverGone, inbox>>
      BY <2>7, MessagesAndIqs DEF serverVars, recvVars
    <3> QED  BY <2>2, <3>1
  <2>8. CASE CloseAsync
    <3> DEFINE x == [kind |-> "last", h |-> counted]
    <3>1. UNCHANGED <<got, fetched, remoteClosed, serverGone, inbox, sent, unacked>>
          /\ out' = Append(out, x)
      BY <2>8 DEF CloseAsync, LastAnswer, serverVars, recvVars
    <3>2. x \in OutItems /\ x.kind = "last"  BY <1>t, PlainItems
    <3> HIDE DEF x
    <3> QED  BY <2>2, <3>1, <3>2
  <2>9. CASE Delivering \/ ServerRequests
    <3>1. UNCHANGED <<sent, unacked, out, got, fetched, remoteClosed, serverGone>>
      BY <2>9, DeliveringFacts, RequestsFacts DEF smVars, serverVars, recvVars
    <3>2. PICK x \in Incoming : inbox' = Append(inbox, x) /\ x.type # "a"
      <4>1. CASE Delivering  BY <4>1, DeliveringFacts DEF Counting
      <4>2. CASE ServerRequests  BY <4>2, RequestsFacts
      <4> QED  BY <2>9, <4>1, <4>2
    <3>3. Count(inbox', AnswersBack) = B
      <4>1. One(x \in AnswersBack) = 0  BY <3>2 DEF One, AnswersBack
      <4>2. Count(Append(inbox, x), AnswersBack) = B + One(x \in AnswersBack)
        BY <1>t, <3>2, CountAppend
      <4>3. B \in Nat  BY <1>t, CountType
      <4> QED  BY <3>2, <4>1, <4>2, <4>3
    <3> QED  BY <2>2, <3>1, <3>3
  <2>10. UNCHANGED <<inbox, sent, unacked, out, got, fetched, remoteClosed, serverGone>>
         \/ ReceiveClosed \/ PopUnacked \/ Serving \/ Sending \/ CloseAsync
         \/ Delivering \/ ServerRequests
    <3> DEFINE Same == UNCHANGED <<inbox, sent, unacked, out, got, fetched, remoteClosed, serverGone>>
    <3>1. UNCHANGED porterVars => Same  BY DEF porterVars, smVars, serverVars, recvVars
    <3>2. FlushStep => Same  BY DEF FlushStep, smVars, serverVars
    <3>3. (\E handled \in BOOLEAN : HandlerReturns(handled)) => Same
      BY DEF HandlerReturns, smVars, serverVars, recvVars
    <3>4. Listing => Same  BY DEF Listing, Register, PingDisposed, smVars, serverVars
    <3>5. (\E h \in Handlers : Unregister(h)) => Same  BY DEF Unregister, smVars, serverVars
    <3>6. EnableSaving \/ DisableSaving \/ SavingEnds => Same
      BY DEF EnableSaving, DisableSaving, SavingEnds, smVars, serverVars, recvVars
    <3> HIDE DEF Same
    <3>7. Same \/ ReceiveClosed \/ PopUnacked \/ Serving \/ Sending \/ CloseAsync
          \/ Delivering \/ ServerRequests
      BY <1>3, <3>1, <3>2, <3>3, <3>4, <3>5, <3>6, Cases
    <3> QED  BY <3>7 DEF Same
  <2> QED  BY <2>3, <2>4, <2>5, <2>6, <2>7, <2>8, <2>9, <2>10
<1> QED  BY <1>1, <1>2, <1>3

LEMMA AckHolds ==
  ASSUME Init
  PROVE  AckInv
<1>1. /\ sent = 0 /\ unacked = <<>> /\ out = <<>> /\ got = 0 /\ inbox = <<>> /\ stack = <<>>
      /\ remoteClosed = FALSE /\ ReceiveInit
  BY DEF Init, ReceiveInit
<1>2. Count(out, RequestsOut) = 0 /\ Count(out, StanzasOut) = 0 /\ Count(inbox, AnswersBack) = 0
  <2>1. out \in Seq(OutItems) /\ Len(out) = 0 /\ inbox \in Seq(Incoming) /\ Len(inbox) = 0  BY <1>1
  <2> QED  BY <2>1, CountType
<1>3. ~Answering(stack) /\ Untouched(stack)  BY <1>1 DEF Answering, Untouched
<1>4. OutInv(out)  BY <1>1, <1>2 DEF OutInv, Paired, One
<1>5. One(Answering(stack)) = 0 /\ Len(unacked) = 0  BY <1>1, <1>3 DEF One
<1>6. Account  BY <1>1, <1>2, <1>3, <1>4, <1>5 DEF Account
<1>7. managed => Listed(handlers) /\ Contains(handlers, "sm_a")  BY <1>1, StartingList
<1> QED  BY <1>3, <1>6, <1>7 DEF AckInv, ListInv

\* What AckInv says of the stanzas kept and of the answers under way.
LEMMA AckMeans ==
  ASSUME Sorts, SentInv, StackInv, AckInv
  PROVE  DeliveryIsAccounted
<1> DEFINE Answers == {k \in DOMAIN stack :
                stack[k].fn = "dispatch" /\ stack[k].stanza.type = "a" /\ stack[k].at # "sm_a"}
<1>0. /\ unacked \in Seq(Nat) /\ sent \in Nat /\ got \in Nat /\ stack \in Seq(Frames)
      /\ out \in Seq(OutItems) /\ inbox \in Seq(Incoming)
  BY DEF Sorts
<1>1. NothingIsLost
  <2> SUFFICES ASSUME managed, NEW n \in (got + 1) .. sent PROVE n \in ToSet(unacked) \cup fetched
    BY DEF NothingIsLost
  <2>1. Account  BY DEF AckInv
  <2>2. Len(unacked) \in Nat /\ Len(unacked) <= sent /\ n \in Nat  BY <1>0 DEF SentInv
  <2>3. CASE n > sent - Len(unacked)
    <3> DEFINE k == n - (sent - Len(unacked))
    <3>1. k \in 1 .. Len(unacked) /\ sent - Len(unacked) + k = n  BY <1>0, <2>2, <2>3
    <3>2. unacked[k] = sent - Len(unacked) + k  BY <3>1 DEF SentInv
    <3>3. unacked[k] = n  BY <3>1, <3>2
    <3> HIDE DEF k
    <3> QED  BY <1>0, <3>1, <3>3 DEF ToSet
  <2>4. CASE ~(n > sent - Len(unacked))
    <3>1. n \in got + 1 .. sent - Len(unacked)  BY <1>0, <2>2, <2>4
    <3>2. CASE remoteClosed  BY <2>1, <3>1, <3>2 DEF Account
    <3>3. CASE ~remoteClosed
      <4> DEFINE B == Count(inbox, AnswersBack)
                 A == One(Answering(stack))
      <4>1. B \in Nat /\ A \in Nat
        <5>1. A \in Nat  BY DEF One
        <5> QED  BY <1>0, <5>1, CountType
      <4>2. sent - Len(unacked) + B + A <= got  BY <2>1, <3>3 DEF Account
      <4> HIDE DEF B, A
      <4>3. sent - Len(unacked) \in Int  BY <1>0, <2>2
      <4>4. \A z \in Int : z + B + A <= got => ~(n \in got + 1 .. z)  BY <1>0, <4>1
      <4> QED  BY <3>1, <4>2, <4>3, <4>4
    <3> QED  BY <3>2, <3>3
  <2> QED  BY <2>3, <2>4
<1>2. Waiting(out, [k \in DOMAIN out |-> out[k].kind = "r"]) = Count(out, RequestsOut)
  <2>1. {k \in DOMAIN out : [j \in DOMAIN out |-> out[j].kind = "r"][k]} = In(out, RequestsOut)
    <3>1. DOMAIN out = 1 .. Len(out) /\ \A k \in 1 .. Len(out) : out[k] \in OutItems  BY <1>0
    <3>2. \A k \in DOMAIN out : [j \in DOMAIN out |-> out[j].kind = "r"][k] <=> out[k].kind = "r"
      OBVIOUS
    <3>3. \A k \in DOMAIN out : out[k].kind = "r" <=> out[k] \in RequestsOut
      BY <3>1 DEF RequestsOut
    <3> QED  BY <3>1, <3>2, <3>3 DEF In
  <2> QED  BY <2>1 DEF Waiting, Count
<1>3. Waiting(inbox, [k \in DOMAIN inbox |-> inbox[k].type = "a"]) = Count(inbox, AnswersBack)
  <2>1. {k \in DOMAIN inbox : [j \in DOMAIN inbox |-> inbox[j].type = "a"][k]} = In(inbox, AnswersBack)
    <3>1. DOMAIN inbox = 1 .. Len(inbox) /\ \A k \in 1 .. Len(inbox) : inbox[k] \in Incoming
      BY <1>0
    <3>2. \A k \in DOMAIN inbox :
             [j \in DOMAIN inbox |-> inbox[j].type = "a"][k] <=> inbox[k].type = "a"
      OBVIOUS
    <3>3. \A k \in DOMAIN inbox : inbox[k].type = "a" <=> inbox[k] \in AnswersBack
      BY <3>1 DEF AnswersBack
    <3> QED  BY <3>1, <3>2, <3>3 DEF In
  <2> QED  BY <2>1 DEF Waiting, Count
<1>4. managed => Cardinality(Answers) = One(Answering(stack))
  <2> SUFFICES ASSUME managed PROVE Cardinality(Answers) = One(Answering(stack))  OBVIOUS
  <2>1. Untouched(stack)  BY DEF AckInv, ListInv
  <2>2. \A k \in 1 .. Len(stack) - 1 : Walk(stack[k]) => stack[k].stanza.type # "a"
    BY DEF StackInv, Shape
  <2>3. DOMAIN stack = 1 .. Len(stack) /\ Len(stack) \in Nat  BY <1>0
  <2>4. None # "sm_a"  BY ReceiveAssumption DEF ReceiveAssumption, Library
  <2>5. \A k \in Answers : k = Len(stack) /\ Answering(stack)
    <3> TAKE k \in Answers
    <3>1. k \in 1 .. Len(stack) /\ Walk(stack[k]) /\ stack[k].stanza.type = "a"  BY <2>3 DEF Walk
    <3>2. k = Len(stack)
      <4>1. k \notin 1 .. Len(stack) - 1  BY <2>2, <3>1
      <4> QED  BY <2>3, <3>1, <4>1
    <3>3. Len(stack) > 0  BY <2>3, <3>1
    <3> QED  BY <3>1, <3>2, <3>3 DEF Answering
  <2>6. Answering(stack) => Len(stack) \in Answers
    <3> SUFFICES ASSUME Answering(stack) PROVE Len(stack) \in Answers  OBVIOUS
    <3>1. Len(stack) \in DOMAIN stack  BY <2>3 DEF Answering
    <3>2. stack[Len(stack)].at # "sm_a"  BY <2>1, <2>4 DEF Untouched
    <3>3. stack[Len(stack)].fn = "dispatch" /\ stack[Len(stack)].stanza.type = "a"
      BY DEF Answering, Walk
    <3> QED  BY <3>1, <3>2, <3>3
  <2> HIDE DEF Answers
  <2>7. CASE Answering(stack)
    <3>1. Answers = {Len(stack)}  BY <2>5, <2>6, <2>7
    <3>2. Cardinality({Len(stack)}) = 1  BY FS_Singleton
    <3> QED  BY <2>7, <3>1, <3>2 DEF One
  <2>8. CASE ~Answering(stack)
    <3>1. Answers = {}  BY <2>5, <2>8
    <3> QED  BY <2>8, <3>1, FS_EmptySet DEF One
  <2> QED  BY <2>7, <2>8
<1> HIDE DEF Answers
<1>5. AcksAreMatched(Cardinality(Answers))
  <2> SUFFICES ASSUME managed, ~serverGone
               PROVE  Len(unacked) = Waiting(out, [k \in DOMAIN out |-> out[k].kind = "r"])
                         + Waiting(inbox, [k \in DOMAIN inbox |-> inbox[k].type = "a"])
                         + Cardinality(Answers)
    BY DEF AcksAreMatched
  <2> QED  BY <1>2, <1>3, <1>4 DEF AckInv, Account
<1> QED  BY <1>1, <1>5 DEF DeliveryIsAccounted, Answers

\* No stanza sent with stream management is lost before the server has read it, and none is kept
\* once its answer has come (WockySM, handle_stanza), if the server answers what it was asked and
\* the application leaves its answers to the library.
THEOREM DeliveryStaysAccounted ==
  ASSUME "unasked" \notin Liberties, AnswersAreTheLibrarys
  PROVE  Spec => []DeliveryIsAccounted
<1>1. Init => ReceiveInv /\ AckInv  BY ReceiveInvHolds, AckHolds
<1>2. ReceiveInv /\ AckInv /\ [Next]_vars => (ReceiveInv /\ AckInv)'
  BY ReceiveInvStep, AckStep DEF ReceiveInv, OrderInv
<1>3. ReceiveInv /\ AckInv => DeliveryIsAccounted  BY AckMeans DEF ReceiveInv, OrderInv
<1> QED  BY <1>1, <1>2, <1>3, PTL DEF Spec

-----------------------------------------------------------------------------
(* The heartbeat: what the source computes modulo Word is the time that is  *)
(* left, however the interval is changed, unless it is shortened while it   *)
(* runs.                                                                    *)

\* The time since the last ping and the time to the next one make up the interval; the loop is at
\* most a tick late.
OnTime == interval > 0 => quiet + left <= interval * TicksPerSecond /\ left >= -1
KInv == TypeOK /\ OnTime

LEMMA KInvMeans == KInv => StreamIsKeptAlive
<1> SUFFICES ASSUME KInv, Pinging, interval > 0 PROVE quiet <= interval * TicksPerSecond + 1
  BY DEF KInv, StreamIsKeptAlive, PingsInTime
<1>1. interval \in Nat /\ left \in Int /\ quiet \in Nat /\ TicksPerSecond \in Nat
  BY KeepAliveAssumption DEF KInv, TypeOK, KeepAliveAssumption
<1>2. interval * TicksPerSecond \in Nat BY <1>1
<1> QED BY <1>1, <1>2 DEF KInv, OnTime

\* An interval fits into a word.
LEMMA MicroFits ==
  ASSUME NEW i \in Nat, NEW j \in Intervals, i <= j
  PROVE  Micro(i) = i * TicksPerSecond /\ i * TicksPerSecond \in Nat
<1>1. j \in Nat /\ TicksPerSecond \in Nat /\ Word \in Nat /\ j * TicksPerSecond < Word
  BY KeepAliveAssumption DEF KeepAliveAssumption
<1>2. i * TicksPerSecond \in Nat BY <1>1
<1>3. j * TicksPerSecond = i * TicksPerSecond + (j - i) * TicksPerSecond BY <1>1
<1>4. (j - i) * TicksPerSecond \in Nat
  <2>1. j - i \in Nat BY <1>1
  <2> QED BY <2>1, <1>1
<1>5. i * TicksPerSecond < Word /\ j * TicksPerSecond \in Int BY <1>1, <1>2, <1>3, <1>4
<1>6. \A n \in Nat : n < Word => n % Word = n BY <1>1
<1> QED BY <1>2, <1>5, <1>6 DEF Micro

LEMMA KeepAliveInit == Init => KInv
<1> SUFFICES ASSUME Init PROVE KInv OBVIOUS
<1>1. interval \in Intervals /\ interval \in Nat BY KeepAliveAssumption DEF Init, KeepAliveAssumption
<1>2. Micro(interval) = interval * TicksPerSecond /\ interval * TicksPerSecond \in Nat
  BY <1>1, MicroFits
<1> QED BY <1>1, <1>2 DEF Init, KInv, TypeOK, OnTime

LEMMA KeepAliveStep ==
  ASSUME "shorten" \notin Liberties, KInv, [Next]_vars
  PROVE  KInv'
<1>1. interval \in Nat /\ interval \in Intervals /\ left \in Int /\ quiet \in Nat
  BY KeepAliveAssumption DEF KInv, TypeOK, KeepAliveAssumption
<1>2. Micro(interval) = interval * TicksPerSecond /\ interval * TicksPerSecond \in Nat
  BY <1>1, MicroFits
<1>3. CASE UNCHANGED pingVars
  BY <1>3 DEF pingVars, KInv, TypeOK, OnTime
<1>4. CASE Tick
  BY <1>1, <1>2, <1>4 DEF Tick, Due, KInv, TypeOK, OnTime
<1>5. CASE HeartbeatFires
  BY <1>1, <1>2, <1>5 DEF HeartbeatFires, NextWakeup, KInv, TypeOK, OnTime
<1>6. CASE PingDisposed
  BY <1>6, KeepAliveAssumption DEF PingDisposed, KInv, TypeOK, OnTime, KeepAliveAssumption
<1>7. ASSUME NEW new \in Intervals, UpdateInterval(new) PROVE KInv'
  <2>1. new \in Nat /\ (new >= interval \/ new = 0) /\ new # interval
    BY <1>1, <1>7, KeepAliveAssumption DEF UpdateInterval, KeepAliveAssumption
  <2>2. interval' = new /\ left' = (IF new = 0 THEN 0 ELSE Moved(new))
          /\ quiet' = (IF interval = 0 THEN 0 ELSE quiet)
    BY <1>7 DEF UpdateInterval
  <2>3. CASE new = 0
    BY <1>1, <2>2, <2>3 DEF KInv, TypeOK, OnTime
  <2>4. CASE new # 0
    <3>1. new - interval \in Nat /\ new - interval <= new BY <1>1, <2>1, <2>4
    <3>2. Micro(new - interval) = (new - interval) * TicksPerSecond
            /\ (new - interval) * TicksPerSecond \in Nat
      BY <3>1, MicroFits
    <3>3. TicksPerSecond \in Nat BY KeepAliveAssumption DEF KeepAliveAssumption
    <3>4. (new - interval) * TicksPerSecond = new * TicksPerSecond - interval * TicksPerSecond
            /\ new * TicksPerSecond \in Nat
      BY <3>3, <1>1, <2>1
    <3>5. left' = (IF interval = 0 THEN 0 ELSE left) + new * TicksPerSecond - interval * TicksPerSecond
      BY <1>1, <1>2, <2>2, <2>4, <3>2, <3>4 DEF Moved
    <3>6. CASE interval = 0
      <4>1. interval * TicksPerSecond = 0 BY <3>3, <3>6
      <4> QED BY <4>1, <3>4, <3>5, <3>6, <2>2, <1>7 DEF KInv, TypeOK, OnTime
    <3>7. CASE interval # 0
      BY <1>1, <1>2, <2>1, <2>2, <3>2, <3>4, <3>5, <3>7 DEF KInv, TypeOK, OnTime
    <3> QED BY <3>6, <3>7
  <2> QED BY <2>3, <2>4
<1> QED BY <1>3, <1>4, <1>5, <1>6, <1>7 DEF Next, vars

\* A ping is sent at least every ping-interval seconds while pings are wanted, whenever the interval
\* is changed, turned off and on or made longer, by wocky_heartbeat_source_update_interval.
THEOREM PingsAreInTime ==
  ASSUME "shorten" \notin Liberties
  PROVE  Spec => []StreamIsKeptAlive
<1>1. KInv /\ [Next]_vars => KInv' BY KeepAliveStep
<1> QED BY <1>1, KeepAliveInit, KInvMeans, PTL DEF Spec
=============================================================================
