------------------------------ MODULE MucProofs ------------------------------
(***************************************************************************)
(* A client that waits for the answers to its joins mirrors the room it is *)
(* in, for any nicks, any number of calls and whatever the occupants do.   *)
(***************************************************************************)
EXTENDS Muc, FiniteSetTheorems, SequenceTheorems, TLAPS

\* The room and the application stay within what the code copes with.
Ordinary == Liberties = {}

-----------------------------------------------------------------------------
(* The channels *)

Requests == [ask : {"join", "leave", "disco"}, nick : Nicks]
\* An absence has no role, and the configuration is told in our own presence alone.
Announced(p) ==
  /\ p.type = "unavailable" => p.role = None
  /\ p.config # None => p.type = "available" /\ p.mark = "own"
Stanzas == {p \in Presences : Announced(p)} \cup Messages \cup Replies
Sorts == TypeOK /\ toRoom \in Seq(Requests) /\ toClient \in Seq(Stanzas)

Answers(tc) == \A n \in 1 .. Len(tc) : tc[n].type = "disco"

-----------------------------------------------------------------------------
(* What the room has said of its occupants *)

News(p, k) == p.type \in {"available", "unavailable"} /\ p.nick = k
\* Of those before place i, the last news of k are that its role is r; without any, what is known.
Says(tc, i, k, known, r) ==
  /\ (\A n \in 1 .. i - 1 : ~News(tc[n], k)) => known = r
  /\ \A n \in 1 .. i - 1 : News(tc[n], k) => tc[n].role = r \/ \E m \in n + 1 .. i - 1 : News(tc[m], k)

\* What we know of the occupants when we are me
View(me) == [k \in Nicks |-> IF k = me THEN role ELSE members[k]]
Spoken(p) == p.type = "groupchat" /\ ~p.delayed
\* From what is known, w, what is under way leads to what the room holds; and before something is
\* said comes who says it.
Current(tc, w, occ) == \A k \in Nicks : Says(tc, Len(tc) + 1, k, w[k], occ[k])
Heard(tc, w) ==
  \A n \in 1 .. Len(tc) : Spoken(tc[n]) => Says(tc, n, tc[n].nick, w[tc[n].nick], tc[n].role)

\* After place e we are the occupant me, until we are told to have left.
Leaves(p, me) == p.type = "unavailable" /\ p.nick = me
Marked(p) == p.type \in {"available", "unavailable"} /\ p.mark # None
Stays(me, e, tc, m) ==
  /\ m = None => \E n \in e + 1 .. Len(tc) : Leaves(tc[n], me)
  /\ \A n \in e + 1 .. Len(tc) :
       /\ tc[n].type # "error"
       /\ Marked(tc[n]) => tc[n].nick = me
       /\ Leaves(tc[n], me) => m = None /\ \A i \in n + 1 .. Len(tc) : tc[i].type = "disco"
\* Place e and what comes after it is said to us as the occupant me.
Inside(me, e, tc, m, w, occ) ==
  /\ Stays(me, e, tc, m)
  /\ m # None => m = me /\ Current(tc, w, occ)
  /\ Heard(tc, w)

-----------------------------------------------------------------------------
(* How far we are in: Entry(e) if place e has the presence that lets us in, after the others' *)

Precedes(p, e, tc) ==
  \/ p.type = "disco"
  \/ p.type = "available" /\ p.mark = None /\ p.nick \notin {nick, tc[e].nick}
Entry(e, tc) ==
  /\ tc[e].type = "available" /\ OwnPresence(tc[e])
  /\ \A n \in 1 .. e - 1 : Precedes(tc[n], e, tc)
Follows(me, e) ==
  members[me] = None /\ Inside(me, e, toClient, mine, View(me), occupants)
Enters(e) == Entry(e, toClient) /\ Follows(toClient[e].nick, e)
Entering == \E e \in 1 .. Len(toClient) : Enters(e)
Outside ==
  /\ mine = None /\ members = Nobody
  /\ \A n \in 1 .. Len(toClient) : toClient[n].type \in {"disco", "error"}
Stage ==
  /\ state = "created" => mine = None /\ members = Nobody /\ toClient = <<>> /\ toRoom = <<>>
  /\ state = "initiated" => Outside \/ Entering
  /\ state = "joined" => Follows(nick, 0)
  /\ state = "ended" => mine = None /\ Answers(toClient)
  /\ state # "created" => handlers

\* A join is asked, refused or accepted, one at a time.
OneJoin ==
  /\ \A m, n \in 1 .. Len(toRoom) : toRoom[m].ask = "join" /\ toRoom[n].ask = "join" => m = n
  /\ \A n \in 1 .. Len(toRoom) :
       /\ toRoom[n].ask = "join" =>
            /\ state = "initiated" /\ "join" \in asked /\ toRoom[n].nick = nick
            /\ Answers(toClient)
       /\ toRoom[n].ask = "leave" => state \in {"joined", "ended"}
  /\ \A m, n \in 1 .. Len(toClient) : toClient[m].type = "error" /\ toClient[n].type = "error" => m = n
  /\ state = "initiated" /\ ~Answers(toClient) => "join" \in asked

-----------------------------------------------------------------------------
(* The configuration: None is what is not told, and what no flag says *)

Describes(p) == p.type = "disco" \/ (p.type = "available" /\ p.config # None)
Fits(t, c) == t = None \/ t = Flags(c)
TypeIsCurrent(tc, t, c) ==
  /\ (\A n \in 1 .. Len(tc) : ~Describes(tc[n])) => Fits(t, c)
  /\ \A n \in 1 .. Len(tc) :
       Describes(tc[n]) => Fits(Flags(tc[n].config), c) \/ \E m \in n + 1 .. Len(tc) : Describes(tc[m])

UInv == Sorts /\ Stage /\ OneJoin /\ TypeIsCurrent(toClient, roomType, config) /\ SignalsTellAll

-----------------------------------------------------------------------------
(* The kinds of stanza, and sequences *)

LEMMA Kinds ==
  ASSUME NEW p \in Stanzas
  PROVE  /\ p.type \in {"available", "unavailable", "error", "groupchat", "chat", "disco"}
         /\ p.type \in {"available", "unavailable", "error"} =>
              /\ p \in Presences /\ Announced(p) /\ p.nick \in Nicks /\ p.role \in Roles \cup {None}
              /\ p.mark \in {None, "own", "forced"} /\ p.config \in RoomTypes \cup {None}
         /\ p.type \in {"groupchat", "chat"} =>
              p \in Messages /\ p.nick \in Nicks /\ p.role \in Roles /\ p.delayed \in BOOLEAN
         /\ p.type = "disco" => p.config \in RoomTypes \cup {None}
BY DEF Stanzas, Presences, Messages, Replies

LEMMA AppendFacts ==
  ASSUME NEW S, NEW s \in Seq(S), NEW x \in S
  PROVE  /\ Append(s, x) \in Seq(S) /\ Len(Append(s, x)) = Len(s) + 1
         /\ \A n \in 1 .. Len(s) : Append(s, x)[n] = s[n]
         /\ Append(s, x)[Len(s) + 1] = x
         /\ s \o <<x>> = Append(s, x)
BY AppendProperties, AppendIsConcat

LEMMA TailFacts ==
  ASSUME NEW S, NEW s \in Seq(S), s # <<>>
  PROVE  /\ Tail(s) \in Seq(S) /\ Len(s) \in Nat \ {0} /\ Len(Tail(s)) = Len(s) - 1
         /\ Head(s) = s[1] /\ Head(s) \in S
         /\ \A n \in 1 .. Len(s) - 1 : Tail(s)[n] = s[n + 1]
         /\ \A n \in 1 .. Len(s) : s[n] \in S
<1>1. Len(s) \in Nat \ {0} /\ \A n \in 1 .. Len(s) : s[n] \in S  OBVIOUS
<1>2. Head(s) = s[1] /\ Tail(s) \in Seq(S) /\ Len(Tail(s)) = Len(s) - 1  BY <1>1
<1>3. \A n \in 1 .. Len(s) - 1 : Tail(s)[n] = s[n + 1]  BY <1>1
<1> QED  BY <1>1, <1>2, <1>3

\* Added news come last.
LEMMA SaysSoFar ==
  ASSUME NEW tc \in Seq(Stanzas), NEW p \in Stanzas, NEW i \in 1 .. Len(tc) + 1, NEW k, NEW u, NEW r,
         Says(tc, i, k, u, r)
  PROVE  Says(Append(tc, p), i, k, u, r)
<1>1. \A n \in 1 .. Len(tc) : Append(tc, p)[n] = tc[n]  BY AppendFacts
<1>2. \A n \in 1 .. i - 1 : n \in 1 .. Len(tc)  OBVIOUS
<1>3. \A n \in 1 .. i - 1 : Append(tc, p)[n] = tc[n]  BY <1>1, <1>2
<1>4. \A n \in 1 .. i - 1 : \A m \in n + 1 .. i - 1 : m \in 1 .. i - 1  OBVIOUS
<1> QED  BY <1>3, <1>4 DEF Says, News

LEMMA SaysNow ==
  ASSUME NEW tc \in Seq(Stanzas), NEW p \in Stanzas, NEW k, NEW u, NEW r, NEW q,
         Says(tc, Len(tc) + 1, k, u, r), IF News(p, k) THEN q = p.role ELSE q = r
  PROVE  Says(Append(tc, p), Len(tc) + 2, k, u, q)
<1> DEFINE ac == Append(tc, p)
<1>1. \A n \in 1 .. Len(tc) : ac[n] = tc[n]  BY AppendFacts
<1>2. ac[Len(tc) + 1] = p  BY AppendFacts
<1>3. Len(tc) \in Nat  OBVIOUS
<1> HIDE DEF ac
<1>4. (\A n \in 1 .. Len(tc) + 1 : ~News(ac[n], k)) => u = q
  <2> SUFFICES ASSUME \A n \in 1 .. Len(tc) + 1 : ~News(ac[n], k) PROVE u = q  OBVIOUS
  <2>1. ~News(p, k) /\ \A n \in 1 .. Len(tc) : ~News(tc[n], k)  BY <1>1, <1>2, <1>3
  <2>2. Len(tc) + 1 - 1 = Len(tc)  BY <1>3
  <2> QED  BY <2>1, <2>2 DEF Says
<1>5. ASSUME NEW n \in 1 .. Len(tc) + 1, News(ac[n], k)
      PROVE  ac[n].role = q \/ \E m \in n + 1 .. Len(tc) + 1 : News(ac[m], k)
  <2>1. CASE n = Len(tc) + 1  BY <2>1, <1>2, <1>5
  <2>2. CASE n # Len(tc) + 1 /\ News(p, k)
    <3>1. Len(tc) + 1 \in n + 1 .. Len(tc) + 1  BY <2>2, <1>3
    <3> QED  BY <3>1, <2>2, <1>2
  <2>3. CASE n # Len(tc) + 1 /\ ~News(p, k)
    <3>1. n \in 1 .. Len(tc) /\ Len(tc) + 1 - 1 = Len(tc)  BY <2>3, <1>3
    <3>2. tc[n].role = r \/ \E m \in n + 1 .. Len(tc) : News(tc[m], k)  BY <3>1, <1>1, <1>5 DEF Says
    <3>3. \A m \in n + 1 .. Len(tc) : m \in 1 .. Len(tc) /\ m \in n + 1 .. Len(tc) + 1  BY <3>1, <1>3
    <3> QED  BY <3>1, <3>2, <3>3, <2>3, <1>1
  <2> QED  BY <2>1, <2>2, <2>3
<1>6. Len(tc) + 2 - 1 = Len(tc) + 1  BY <1>3
<1> QED  BY <1>4, <1>5, <1>6 DEF Says, ac

\* What is heard first becomes known.
LEMMA SaysNext ==
  ASSUME NEW tc \in Seq(Stanzas), tc # <<>>, NEW i \in 1 .. Len(tc), NEW k, NEW u, NEW r, NEW v,
         Says(tc, i + 1, k, u, r), IF News(Head(tc), k) THEN v = Head(tc).role ELSE v = u
  PROVE  Says(Tail(tc), i, k, v, r)
<1> DEFINE tl == Tail(tc)
<1>1. Len(tc) \in Nat \ {0} /\ Head(tc) = tc[1] /\ \A n \in 1 .. Len(tc) - 1 : tl[n] = tc[n + 1]
  BY TailFacts
<1> HIDE DEF tl
<1>2. \A n \in 1 .. i - 1 : n \in 1 .. Len(tc) - 1 /\ tl[n] = tc[n + 1] /\ n + 1 \in 1 .. i  BY <1>1
<1>3. i + 1 - 1 = i /\ 1 \in 1 .. i  BY <1>1
<1>4. (\A n \in 1 .. i - 1 : ~News(tl[n], k)) => v = r
  <2> SUFFICES ASSUME \A n \in 1 .. i - 1 : ~News(tl[n], k) PROVE v = r  OBVIOUS
  <2>1. \A n \in 2 .. i : ~News(tc[n], k)
    <3> TAKE n \in 2 .. i
    <3>1. n - 1 \in 1 .. i - 1 /\ (n - 1) + 1 = n  OBVIOUS
    <3> QED  BY <3>1, <1>2
  <2>2. CASE News(tc[1], k)
    <3>1. \A m \in 1 + 1 .. i : ~News(tc[m], k)  BY <2>1
    <3>2. tc[1].role = r  BY <3>1, <2>2, <1>3 DEF Says
    <3> QED  BY <3>2, <2>2, <1>1
  <2>3. CASE ~News(tc[1], k)
    <3>1. \A n \in 1 .. i : n = 1 \/ n \in 2 .. i  OBVIOUS
    <3>2. \A n \in 1 .. i : ~News(tc[n], k)  BY <3>1, <2>1, <2>3
    <3> QED  BY <3>2, <2>3, <1>1, <1>3 DEF Says
  <2> QED  BY <2>2, <2>3
<1>5. ASSUME NEW n \in 1 .. i - 1, News(tl[n], k)
      PROVE  tl[n].role = r \/ \E m \in n + 1 .. i - 1 : News(tl[m], k)
  <2>1. tc[n + 1].role = r \/ \E m \in (n + 1) + 1 .. i : News(tc[m], k)  BY <1>2, <1>3, <1>5 DEF Says
  <2>2. CASE tc[n + 1].role = r  BY <2>2, <1>2
  <2>3. ASSUME NEW m \in (n + 1) + 1 .. i, News(tc[m], k)
        PROVE  \E l \in n + 1 .. i - 1 : News(tl[l], k)
    <3>1. m - 1 \in n + 1 .. i - 1 /\ m - 1 \in 1 .. i - 1 /\ (m - 1) + 1 = m  OBVIOUS
    <3> QED  BY <3>1, <2>3, <1>2
  <2> QED  BY <2>1, <2>2, <2>3
<1> QED  BY <1>4, <1>5 DEF Says, tl

\* The occupants after a stanza of the room
Heeds(occ, p) == IF p.type \in {"available", "unavailable"} THEN [occ EXCEPT ![p.nick] = p.role] ELSE occ

LEMMA CurrentTold ==
  ASSUME NEW tc \in Seq(Stanzas), NEW p \in Stanzas, NEW w, NEW occ \in [Nicks -> Roles \cup {None}],
         Current(tc, w, occ)
  PROVE  Current(Append(tc, p), w, Heeds(occ, p))
<1>1. Len(Append(tc, p)) + 1 = Len(tc) + 2  BY AppendFacts
<1> SUFFICES ASSUME NEW k \in Nicks
             PROVE  Says(Append(tc, p), Len(tc) + 2, k, w[k], Heeds(occ, p)[k])
  BY <1>1 DEF Current
<1>2. Says(tc, Len(tc) + 1, k, w[k], occ[k])  BY DEF Current
<1>3. IF News(p, k) THEN Heeds(occ, p)[k] = p.role ELSE Heeds(occ, p)[k] = occ[k]
  BY Kinds DEF News, Heeds
<1> QED  BY <1>2, <1>3, SaysNow

LEMMA HeardTold ==
  ASSUME NEW tc \in Seq(Stanzas), NEW p \in Stanzas, NEW w, Heard(tc, w),
         Spoken(p) => Says(tc, Len(tc) + 1, p.nick, w[p.nick], p.role)
  PROVE  Heard(Append(tc, p), w)
<1> DEFINE ac == Append(tc, p)
<1>1. Len(ac) = Len(tc) + 1 /\ ac[Len(tc) + 1] = p /\ \A n \in 1 .. Len(tc) : ac[n] = tc[n]
  BY AppendFacts
<1>2. \A i \in 1 .. Len(tc) + 1 : \A k, u, r : Says(tc, i, k, u, r) => Says(ac, i, k, u, r)
  BY SaysSoFar
<1>3. Len(tc) \in Nat  OBVIOUS
<1> HIDE DEF ac
<1> SUFFICES ASSUME NEW n \in 1 .. Len(tc) + 1, Spoken(ac[n])
             PROVE  Says(ac, n, ac[n].nick, w[ac[n].nick], ac[n].role)
  BY <1>1 DEF Heard, ac
<1>4. CASE n = Len(tc) + 1
  BY <1>1, <1>2, <1>4
<1>5. CASE n # Len(tc) + 1
  <2>1. n \in 1 .. Len(tc)  BY <1>3, <1>5
  <2>2. Says(tc, n, tc[n].nick, w[tc[n].nick], tc[n].role)  BY <2>1, <1>1 DEF Heard
  <2> QED  BY <2>1, <2>2, <1>1, <1>2
<1> QED  BY <1>4, <1>5

\* What is known after stanza p has been heard
LEMMA CurrentHeard ==
  ASSUME NEW tc \in Seq(Stanzas), tc # <<>>, NEW w \in [Nicks -> Roles \cup {None}], NEW occ,
         Current(tc, w, occ)
  PROVE  Current(Tail(tc), Heeds(w, Head(tc)), occ)
<1>1. Len(tc) \in Nat \ {0} /\ Len(Tail(tc)) + 1 = Len(tc) /\ Head(tc) \in Stanzas  BY TailFacts
<1> SUFFICES ASSUME NEW k \in Nicks
             PROVE  Says(Tail(tc), Len(tc), k, Heeds(w, Head(tc))[k], occ[k])
  BY <1>1 DEF Current
<1>2. Says(tc, Len(tc) + 1, k, w[k], occ[k])  BY DEF Current
<1>3. IF News(Head(tc), k) THEN Heeds(w, Head(tc))[k] = Head(tc).role ELSE Heeds(w, Head(tc))[k] = w[k]
  BY <1>1, Kinds DEF News, Heeds
<1>4. Len(tc) \in 1 .. Len(tc)  BY <1>1
<1> QED  BY <1>2, <1>3, <1>4, SaysNext

LEMMA HeardHeard ==
  ASSUME NEW tc \in Seq(Stanzas), tc # <<>>, NEW w \in [Nicks -> Roles \cup {None}], Heard(tc, w)
  PROVE  Heard(Tail(tc), Heeds(w, Head(tc)))
<1> DEFINE tl == Tail(tc)
           v == Heeds(w, Head(tc))
<1>1. /\ Len(tc) \in Nat \ {0} /\ Len(tl) = Len(tc) - 1 /\ Head(tc) \in Stanzas
      /\ \A n \in 1 .. Len(tc) - 1 : tl[n] = tc[n + 1] /\ tl[n] \in Stanzas
  BY TailFacts
<1>2. \A i \in 1 .. Len(tc) : \A k, u, r, x :
        Says(tc, i + 1, k, u, r) /\ (IF News(Head(tc), k) THEN x = Head(tc).role ELSE x = u)
          => Says(tl, i, k, x, r)
  BY SaysNext
<1>3. \A k \in Nicks : IF News(Head(tc), k) THEN v[k] = Head(tc).role ELSE v[k] = w[k]
  BY <1>1, Kinds DEF News, Heeds
<1> HIDE DEF tl, v
<1> SUFFICES ASSUME NEW n \in 1 .. Len(tc) - 1, Spoken(tl[n])
             PROVE  Says(tl, n, tl[n].nick, v[tl[n].nick], tl[n].role)
  BY <1>1 DEF Heard, tl, v
<1>4. n + 1 \in 1 .. Len(tc) /\ n \in 1 .. Len(tc) /\ tl[n] = tc[n + 1]  BY <1>1
<1>5. Says(tc, n + 1, tl[n].nick, w[tl[n].nick], tl[n].role)  BY <1>4 DEF Heard
<1>6. tl[n].nick \in Nicks  BY <1>1, Kinds DEF Spoken
<1> QED  BY <1>2, <1>3, <1>4, <1>5, <1>6

-----------------------------------------------------------------------------
(* What is said to an occupant *)

\* Who is there is told what happens; the last that is told is that we are not.
LEMMA StaysTold ==
  ASSUME NEW tc \in Seq(Stanzas), NEW p \in Stanzas, NEW me \in Nicks, NEW e \in Nat, e <= Len(tc),
         Stays(me, e, tc, me), p.type # "error", Marked(p) => p.nick = me
  PROVE  Stays(me, e, Append(tc, p), IF Leaves(p, me) THEN None ELSE me)
<1> DEFINE ac == Append(tc, p)
           m == IF Leaves(p, me) THEN None ELSE me
<1>1. Len(ac) = Len(tc) + 1 /\ ac[Len(tc) + 1] = p /\ \A n \in 1 .. Len(tc) : ac[n] = tc[n]
  BY AppendFacts
<1>2. Len(tc) \in Nat /\ me # None
  <2>1. me # None  BY MucAssumption DEF MucAssumption
  <2> QED  BY <2>1
<1> HIDE DEF ac
<1>3. \A n \in e + 1 .. Len(tc) : n \in 1 .. Len(tc)  OBVIOUS
<1>4. \A n \in e + 1 .. Len(tc) : ~Leaves(ac[n], me) /\ ac[n].type # "error" /\ (Marked(ac[n]) => ac[n].nick = me)
  BY <1>1, <1>2, <1>3 DEF Stays
<1>5. m = None => \E n \in e + 1 .. Len(tc) + 1 : Leaves(ac[n], me)
  <2>1. Len(tc) + 1 \in e + 1 .. Len(tc) + 1  BY <1>2
  <2> QED  BY <2>1, <1>1, <1>2
<1>6. ASSUME NEW n \in e + 1 .. Len(tc) + 1
      PROVE  /\ ac[n].type # "error"
             /\ Marked(ac[n]) => ac[n].nick = me
             /\ Leaves(ac[n], me) => m = None /\ \A i \in n + 1 .. Len(tc) + 1 : ac[i].type = "disco"
  <2>1. CASE n = Len(tc) + 1
    <3>1. n + 1 .. Len(tc) + 1 = {}  BY <2>1, <1>2
    <3> QED  BY <3>1, <2>1, <1>1
  <2>2. CASE n # Len(tc) + 1
    <3>1. n \in e + 1 .. Len(tc)  BY <2>2, <1>2
    <3> QED  BY <3>1, <1>4
  <2> QED  BY <2>1, <2>2
<1> QED  BY <1>1, <1>5, <1>6 DEF Stays, ac

LEMMA InsideTold ==
  ASSUME NEW tc \in Seq(Stanzas), NEW p \in Stanzas, NEW me \in Nicks, NEW e \in Nat, e <= Len(tc),
         NEW w, NEW occ \in [Nicks -> Roles \cup {None}],
         Inside(me, e, tc, me, w, occ), p.type # "error", Marked(p) => p.nick = me,
         Spoken(p) => p.role = occ[p.nick]
  PROVE  Inside(me, e, Append(tc, p), IF Leaves(p, me) THEN None ELSE me, w, Heeds(occ, p))
<1>1. me # None  BY MucAssumption DEF MucAssumption
<1>2. Current(tc, w, occ) /\ Heard(tc, w) /\ Stays(me, e, tc, me)  BY <1>1 DEF Inside
<1>3. Spoken(p) => Says(tc, Len(tc) + 1, p.nick, w[p.nick], p.role)
  BY <1>2, Kinds DEF Spoken, Current
<1>4. Heard(Append(tc, p), w)  BY <1>2, <1>3, HeardTold
<1>5. Current(Append(tc, p), w, Heeds(occ, p))  BY <1>2, CurrentTold
<1>6. Stays(me, e, Append(tc, p), IF Leaves(p, me) THEN None ELSE me)  BY <1>2, StaysTold
<1> QED  BY <1>4, <1>5, <1>6 DEF Inside

\* The answer to a query says nothing of occupants.
LEMMA InsideAnswered ==
  ASSUME NEW tc \in Seq(Stanzas), NEW p \in Stanzas, NEW me \in Nicks, NEW e \in Nat, e <= Len(tc),
         NEW w, NEW occ \in [Nicks -> Roles \cup {None}], NEW m \in Nicks \cup {None},
         Inside(me, e, tc, m, w, occ), p.type = "disco"
  PROVE  Inside(me, e, Append(tc, p), m, w, occ)
<1>1. me # None /\ ~Leaves(p, me) /\ ~Marked(p) /\ ~Spoken(p) /\ Heeds(occ, p) = occ
  BY MucAssumption DEF MucAssumption, Leaves, Marked, Spoken, Heeds
<1>2. CASE m = me
  BY <1>1, <1>2, InsideTold
<1>3. CASE m = None
  <2>1. Heard(tc, w) /\ Stays(me, e, tc, None)  BY <1>3 DEF Inside
  <2>2. Heard(Append(tc, p), w)  BY <2>1, <1>1, HeardTold
  <2> DEFINE ac == Append(tc, p)
  <2>3. Len(ac) = Len(tc) + 1 /\ ac[Len(tc) + 1] = p /\ \A n \in 1 .. Len(tc) : ac[n] = tc[n]
    BY AppendFacts
  <2>4. Len(tc) \in Nat  OBVIOUS
  <2> HIDE DEF ac
  <2>5. \E n \in e + 1 .. Len(tc) + 1 : Leaves(ac[n], me)
    <3>1. PICK n \in e + 1 .. Len(tc) : Leaves(tc[n], me)  BY <2>1 DEF Stays
    <3>2. n \in 1 .. Len(tc) /\ n \in e + 1 .. Len(tc) + 1  BY <2>4
    <3> QED  BY <3>1, <3>2, <2>3
  <2>6. ASSUME NEW n \in e + 1 .. Len(tc) + 1
        PROVE  /\ ac[n].type # "error"
               /\ Marked(ac[n]) => ac[n].nick = me
               /\ Leaves(ac[n], me) => \A i \in n + 1 .. Len(tc) + 1 : ac[i].type = "disco"
    <3>1. CASE n = Len(tc) + 1
      BY <3>1, <1>1, <2>3
    <3>2. CASE n # Len(tc) + 1
      <4>1. n \in e + 1 .. Len(tc) /\ n \in 1 .. Len(tc)  BY <3>2, <2>4
      <4>2. \A i \in n + 1 .. Len(tc) + 1 : i = Len(tc) + 1 \/ (i \in n + 1 .. Len(tc) /\ i \in 1 .. Len(tc))
        BY <4>1, <2>4
      <4> QED  BY <4>1, <4>2, <2>1, <2>3 DEF Stays
    <3> QED  BY <3>1, <3>2
  <2>7. Stays(me, e, ac, None)  BY <2>3, <2>5, <2>6 DEF Stays
  <2> QED  BY <1>3, <2>2, <2>7 DEF Inside, ac
<1>4. m = me \/ m = None  BY DEF Inside
<1> QED  BY <1>2, <1>3, <1>4

\* What is heard before place e, or after it without telling us that we have left
LEMMA InsideHeard ==
  ASSUME NEW tc \in Seq(Stanzas), tc # <<>>, NEW me \in Nicks, NEW e \in Nat, e <= Len(tc),
         NEW w \in [Nicks -> Roles \cup {None}], NEW occ, NEW m,
         Inside(me, e, tc, m, w, occ), e = 0 => ~Leaves(Head(tc), me)
  PROVE  Inside(me, IF e = 0 THEN 0 ELSE e - 1, Tail(tc), m, Heeds(w, Head(tc)), occ)
<1> DEFINE tl == Tail(tc)
           f == IF e = 0 THEN 0 ELSE e - 1
<1>1. /\ Len(tc) \in Nat \ {0} /\ Len(tl) = Len(tc) - 1 /\ Head(tc) = tc[1]
      /\ \A n \in 1 .. Len(tc) - 1 : tl[n] = tc[n + 1]
  BY TailFacts
<1>2. Stays(me, e, tc, m) /\ Heard(tc, w) /\ (m # None => m = me /\ Current(tc, w, occ))
  BY DEF Inside
<1>3. Heard(tl, Heeds(w, Head(tc))) /\ (m # None => Current(tl, Heeds(w, Head(tc)), occ))
  BY <1>2, HeardHeard, CurrentHeard
<1>4. f \in Nat /\ f <= Len(tc) - 1  BY <1>1
<1>5. \A n \in f + 1 .. Len(tc) - 1 : n \in 1 .. Len(tc) - 1 /\ n + 1 \in e + 1 .. Len(tc)
  BY <1>1, <1>4
<1> HIDE DEF tl
<1>6. m = None => \E n \in f + 1 .. Len(tl) : Leaves(tl[n], me)
  <2> SUFFICES ASSUME m = None PROVE \E n \in f + 1 .. Len(tl) : Leaves(tl[n], me)  OBVIOUS
  <2>1. PICK n \in e + 1 .. Len(tc) : Leaves(tc[n], me)  BY <1>2 DEF Stays
  <2>2. n # 1  BY <2>1, <1>1
  <2>3. n - 1 \in f + 1 .. Len(tc) - 1 /\ (n - 1) + 1 = n /\ n - 1 \in 1 .. Len(tc) - 1
    BY <2>2, <1>1
  <2> QED  BY <2>1, <2>3, <1>1
<1>7. ASSUME NEW n \in f + 1 .. Len(tl)
      PROVE  /\ tl[n].type # "error"
             /\ Marked(tl[n]) => tl[n].nick = me
             /\ Leaves(tl[n], me) => m = None /\ \A i \in n + 1 .. Len(tl) : tl[i].type = "disco"
  <2>1. n \in 1 .. Len(tc) - 1 /\ n + 1 \in e + 1 .. Len(tc) /\ tl[n] = tc[n + 1]  BY <1>1, <1>5
  <2>2. \A i \in n + 1 .. Len(tl) : i \in 1 .. Len(tc) - 1 /\ i + 1 \in (n + 1) + 1 .. Len(tc)
    BY <2>1, <1>1
  <2> QED  BY <2>1, <2>2, <1>1, <1>2 DEF Stays
<1>8. Stays(me, f, tl, m)  BY <1>6, <1>7 DEF Stays
<1> QED  BY <1>2, <1>3, <1>8 DEF Inside, tl

\* Once told that we have left there is nothing more to hear.
LEMMA LeavesLast ==
  ASSUME NEW tc \in Seq(Stanzas), tc # <<>>, NEW me, NEW m, Stays(me, 0, tc, m), Leaves(Head(tc), me)
  PROVE  m = None /\ Answers(Tail(tc))
<1> DEFINE tl == Tail(tc)
<1>1. /\ Len(tc) \in Nat \ {0} /\ Len(tl) = Len(tc) - 1 /\ Head(tc) = tc[1]
      /\ \A n \in 1 .. Len(tc) - 1 : tl[n] = tc[n + 1]
  BY TailFacts
<1> HIDE DEF tl
<1>2. 1 \in 0 + 1 .. Len(tc)  BY <1>1
<1>3. m = None /\ \A i \in 1 + 1 .. Len(tc) : tc[i].type = "disco"  BY <1>1, <1>2 DEF Stays
<1>4. \A n \in 1 .. Len(tl) : n \in 1 .. Len(tc) - 1 /\ n + 1 \in 1 + 1 .. Len(tc)  BY <1>1
<1> QED  BY <1>1, <1>3, <1>4 DEF Answers, tl

-----------------------------------------------------------------------------
(* The configuration, and the presence that lets us in *)

LEMMA TypeTold ==
  ASSUME NEW tc \in Seq(Stanzas), NEW p \in Stanzas, NEW t, NEW c, NEW d,
         TypeIsCurrent(tc, t, c), IF Describes(p) THEN Fits(Flags(p.config), d) ELSE d = c
  PROVE  TypeIsCurrent(Append(tc, p), t, d)
<1> DEFINE ac == Append(tc, p)
<1>1. Len(ac) = Len(tc) + 1 /\ ac[Len(tc) + 1] = p /\ \A n \in 1 .. Len(tc) : ac[n] = tc[n]
  BY AppendFacts
<1>2. Len(tc) \in Nat /\ Len(tc) + 1 \in 1 .. Len(tc) + 1  OBVIOUS
<1> HIDE DEF ac
<1>3. (\A n \in 1 .. Len(ac) : ~Describes(ac[n])) => Fits(t, d)
  <2> SUFFICES ASSUME \A n \in 1 .. Len(ac) : ~Describes(ac[n]) PROVE Fits(t, d)  OBVIOUS
  <2>1. ~Describes(p)  BY <1>1, <1>2
  <2>2. \A n \in 1 .. Len(tc) : ~Describes(tc[n])  BY <1>1, <1>2
  <2> QED  BY <2>1, <2>2 DEF TypeIsCurrent
<1>4. ASSUME NEW n \in 1 .. Len(ac), Describes(ac[n])
      PROVE  Fits(Flags(ac[n].config), d) \/ \E m \in n + 1 .. Len(ac) : Describes(ac[m])
  <2>1. CASE n = Len(tc) + 1  BY <2>1, <1>1, <1>4
  <2>2. CASE n # Len(tc) + 1 /\ Describes(p)
    <3>1. Len(tc) + 1 \in n + 1 .. Len(ac)  BY <2>2, <1>1, <1>2
    <3> QED  BY <3>1, <2>2, <1>1
  <2>3. CASE n # Len(tc) + 1 /\ ~Describes(p)
    <3>1. n \in 1 .. Len(tc)  BY <2>3, <1>1, <1>2
    <3>2. Fits(Flags(tc[n].config), c) \/ \E m \in n + 1 .. Len(tc) : Describes(tc[m])
      BY <3>1, <1>1, <1>4 DEF TypeIsCurrent
    <3>3. \A m \in n + 1 .. Len(tc) : m \in 1 .. Len(tc) /\ m \in n + 1 .. Len(ac)  BY <3>1, <1>1, <1>2
    <3> QED  BY <3>1, <3>2, <3>3, <2>3, <1>1
  <2> QED  BY <2>1, <2>2, <2>3
<1> QED  BY <1>3, <1>4 DEF TypeIsCurrent, ac

LEMMA TypeHeard ==
  ASSUME NEW tc \in Seq(Stanzas), tc # <<>>, NEW t, NEW c, NEW u, TypeIsCurrent(tc, t, c),
         IF Describes(Head(tc)) THEN u = Flags(Head(tc).config) ELSE u = t
  PROVE  TypeIsCurrent(Tail(tc), u, c)
<1> DEFINE tl == Tail(tc)
<1>1. /\ Len(tc) \in Nat \ {0} /\ Len(tl) = Len(tc) - 1 /\ Head(tc) = tc[1]
      /\ \A n \in 1 .. Len(tc) - 1 : tl[n] = tc[n + 1]
  BY TailFacts
<1> HIDE DEF tl
<1>2. \A n \in 2 .. Len(tc) : n - 1 \in 1 .. Len(tl) /\ tc[n] = tl[n - 1]
  <2> TAKE n \in 2 .. Len(tc)
  <2>1. n - 1 \in 1 .. Len(tc) - 1 /\ (n - 1) + 1 = n  BY <1>1
  <2> QED  BY <2>1, <1>1
<1>3. (\A n \in 1 .. Len(tl) : ~Describes(tl[n])) => Fits(u, c)
  <2> SUFFICES ASSUME \A n \in 1 .. Len(tl) : ~Describes(tl[n]) PROVE Fits(u, c)  OBVIOUS
  <2>1. \A n \in 2 .. Len(tc) : ~Describes(tc[n])  BY <1>2
  <2>2. 1 \in 1 .. Len(tc) /\ \A n \in 1 .. Len(tc) : n = 1 \/ n \in 2 .. Len(tc)  BY <1>1
  <2>3. CASE Describes(tc[1])
    <3>1. \A m \in 1 + 1 .. Len(tc) : ~Describes(tc[m])  BY <2>1
    <3> QED  BY <3>1, <2>2, <2>3, <1>1 DEF TypeIsCurrent
  <2>4. CASE ~Describes(tc[1])
    BY <2>1, <2>2, <2>4, <1>1 DEF TypeIsCurrent
  <2> QED  BY <2>3, <2>4
<1>4. ASSUME NEW n \in 1 .. Len(tl), Describes(tl[n])
      PROVE  Fits(Flags(tl[n].config), c) \/ \E m \in n + 1 .. Len(tl) : Describes(tl[m])
  <2>1. n + 1 \in 1 .. Len(tc) /\ tl[n] = tc[n + 1]  BY <1>1
  <2>2. Fits(Flags(tc[n + 1].config), c) \/ \E m \in (n + 1) + 1 .. Len(tc) : Describes(tc[m])
    BY <2>1, <1>4 DEF TypeIsCurrent
  <2>3. ASSUME NEW m \in (n + 1) + 1 .. Len(tc), Describes(tc[m])
        PROVE  \E i \in n + 1 .. Len(tl) : Describes(tl[i])
    <3>1. m \in 2 .. Len(tc) /\ m - 1 \in n + 1 .. Len(tl)  BY <1>1, <2>1
    <3> QED  BY <3>1, <2>3, <1>2
  <2> QED  BY <2>1, <2>2, <2>3
<1> QED  BY <1>3, <1>4 DEF TypeIsCurrent, tl

LEMMA EntryTold ==
  ASSUME NEW tc \in Seq(Stanzas), NEW e \in 1 .. Len(tc), Entry(e, tc), NEW ac,
         \A n \in 1 .. Len(tc) : ac[n] = tc[n]
  PROVE  Entry(e, ac)
<1>1. \A n \in 1 .. e - 1 : n \in 1 .. Len(tc)  OBVIOUS
<1> QED  BY <1>1 DEF Entry, Precedes, OwnPresence

LEMMA EntryHeard ==
  ASSUME NEW tc \in Seq(Stanzas), NEW e \in 2 .. Len(tc), Entry(e, tc)
  PROVE  Entry(e - 1, Tail(tc)) /\ Precedes(Head(tc), e, tc) /\ Tail(tc)[e - 1] = tc[e]
<1> DEFINE tl == Tail(tc)
<1>0. Len(tc) \in Nat /\ tc # <<>>
  <2>1. Len(tc) \in Nat /\ Len(tc) # 0  OBVIOUS
  <2> QED  BY <2>1
<1>1. /\ Len(tc) \in Nat \ {0} /\ Head(tc) = tc[1]
      /\ \A n \in 1 .. Len(tc) - 1 : tl[n] = tc[n + 1]
  BY <1>0, TailFacts
<1> HIDE DEF tl
<1>2. e - 1 \in 1 .. Len(tc) - 1 /\ (e - 1) + 1 = e /\ 1 \in 1 .. e - 1  BY <1>1
<1>3. tl[e - 1] = tc[e]  BY <1>1, <1>2
<1>4. ASSUME NEW n \in 1 .. (e - 1) - 1 PROVE Precedes(tl[n], e - 1, tl)
  <2>1. n \in 1 .. Len(tc) - 1 /\ n + 1 \in 1 .. e - 1  BY <1>1
  <2>2. tl[n] = tc[n + 1]  BY <2>1, <1>1
  <2> QED  BY <2>1, <2>2, <1>3 DEF Entry, Precedes
<1>5. Precedes(tc[1], e, tc) /\ tc[e].type = "available" /\ OwnPresence(tc[e])  BY <1>2 DEF Entry
<1> QED  BY <1>1, <1>3, <1>4, <1>5 DEF Entry, tl

\* Neither an occupant nor one who is about to be one is refused.
LEMMA NoErrorWithin ==
  ASSUME NEW tc \in Seq(Stanzas), NEW e \in 0 .. Len(tc), NEW me, NEW m, Stays(me, e, tc, m),
         e # 0 => Entry(e, tc)
  PROVE  \A n \in 1 .. Len(tc) : tc[n].type # "error"
<1> TAKE n \in 1 .. Len(tc)
<1>1. n \in e + 1 .. Len(tc) \/ (e # 0 /\ n = e) \/ (e # 0 /\ n \in 1 .. e - 1)  OBVIOUS
<1>2. CASE n \in e + 1 .. Len(tc)  BY <1>2 DEF Stays
<1>3. CASE e # 0 /\ n = e  BY <1>3 DEF Entry
<1>4. CASE e # 0 /\ n \in 1 .. e - 1  BY <1>4 DEF Entry, Precedes
<1> QED  BY <1>1, <1>2, <1>3, <1>4

LEMMA Order ==
  ASSUME state \in Range(States)
  PROVE  /\ state \in {"created", "initiated", "joined", "ended"}
         /\ Before(state, "joined") <=> state \in {"created", "initiated"}
         /\ Before(state, "initiated") <=> state = "created"
<1>1. States = <<"created", "initiated", "joined", "ended">>  BY DEF States
<1>2. DOMAIN States = 1 .. 4 /\ 1 .. 4 = {1, 2, 3, 4}  BY <1>1
<1>3. States[1] = "created" /\ States[2] = "initiated" /\ States[3] = "joined" /\ States[4] = "ended"
  BY <1>1
<1>4. state \in {"created", "initiated", "joined", "ended"}
  BY <1>2, <1>3 DEF Range
<1>5. \A s : Before(s, "joined") <=> s \in {"created", "initiated"}
  BY <1>2, <1>3 DEF Before
<1>6. \A s : Before(s, "initiated") <=> s = "created"
  BY <1>2, <1>3 DEF Before
<1> QED  BY <1>4, <1>5, <1>6

\* SetToSeq lists all of a finite set.
LEMMA ListsAll ==
  ASSUME NEW S, IsFiniteSet(S)
  PROVE  /\ Cardinality(S) \in Nat
         /\ \A i \in 1 .. Cardinality(S) : SetToSeq(S)[i] \in S
         /\ \A x \in S : \E i \in 1 .. Cardinality(S) : SetToSeq(S)[i] = x
<1> DEFINE n == Cardinality(S)
           f == SetToSeq(S)
<1>1. n \in Nat /\ ExistsBijection(1 .. n, S)  BY FS_CardinalityType
<1>2. \E g \in [1 .. n -> S] : IsInjective(g)
  BY <1>1 DEF ExistsBijection, Bijection, Injection, IsInjective
<1>3. f \in [1 .. n -> S] /\ IsInjective(f)
  BY <1>2 DEF SetToSeq
<1>4. IsFiniteSet(1 .. n) /\ Cardinality(1 .. n) = n
  BY <1>1, FS_Interval
<1>5. f \in Injection(1 .. n, S)
  BY <1>3 DEF Injection, IsInjective
<1>6. f \in Surjection(1 .. n, S)
  BY <1>1, <1>4, <1>5, FS_Injection
<1> QED  BY <1>1, <1>3, <1>6 DEF Surjection

-----------------------------------------------------------------------------
(* The beginning, and what a step of the room must show *)

LEMMA MucInit == Init => UInv
<1> SUFFICES ASSUME Init PROVE UInv  OBVIOUS
<1>0. Someone \in Nicks /\ None \notin Nicks
  BY MucAssumption DEF MucAssumption, Someone
<1>1. toRoom = <<>> /\ toClient = <<>> /\ toRoom \in Seq(Requests) /\ toClient \in Seq(Stanzas)
  BY DEF Init
<1>2. Len(toRoom) = 0 /\ Len(toClient) = 0  BY <1>1
<1>3. state = "created" /\ mine = None /\ members = Nobody /\ shown = Nobody /\ heard = None /\ roomType = None
  BY DEF Init
<1>4. state \in Range(States)
  <2>1. 1 \in DOMAIN States /\ States[1] = "created"  BY DEF States
  <2> QED  BY <2>1, <1>3 DEF Range
<1>5. Nobody \in [Nicks -> Roles \cup {None}]  BY DEF Nobody
<1>6. occupants \in [Nicks -> Roles \cup {None}]  BY <1>5 DEF Init, Roles
<1>7. TypeOK
  <2>1. nick \in Nicks /\ role \in Roles \cup {None} /\ roomType \in RoomTypes \cup {None}
    BY <1>0 DEF Init
  <2>2. members \in [Nicks -> Roles \cup {None}] /\ shown \in [Nicks -> Roles \cup {None}]
    BY <1>3, <1>5
  <2>3. handlers \in BOOLEAN /\ asked = {} /\ config \in RoomTypes  BY DEF Init, RoomTypes
  <2>4. calls \in 0 .. MaxCalls /\ events \in 0 .. MaxEvents
    <3>1. MaxCalls \in Nat /\ MaxEvents \in Nat  BY MucAssumption DEF MucAssumption
    <3>2. calls = 0 /\ events = 0  BY DEF Init
    <3> QED  BY <3>1, <3>2
  <2> QED  BY <1>3, <1>4, <1>6, <2>1, <2>2, <2>3, <2>4 DEF TypeOK
<1>8. Stage  BY <1>1, <1>3 DEF Stage
<1>9. OneJoin
  <2>1. 1 .. Len(toRoom) = {} /\ 1 .. Len(toClient) = {}  BY <1>2
  <2> QED  BY <2>1, <1>3 DEF OneJoin
<1>10. TypeIsCurrent(toClient, roomType, config)
  <2>1. 1 .. Len(toClient) = {}  BY <1>2
  <2> QED  BY <2>1, <1>3 DEF TypeIsCurrent, Fits
<1>11. SignalsTellAll  BY <1>3 DEF SignalsTellAll
<1> QED  BY <1>1, <1>7, <1>8, <1>9, <1>10, <1>11 DEF UInv, Sorts

LEMMA ViewType ==
  ASSUME TypeOK, NEW me
  PROVE  View(me) \in [Nicks -> Roles \cup {None}]
BY DEF TypeOK, View

\* While we are an occupant the client is inside or has been let in.
LEMMA WhereInside ==
  ASSUME TypeOK, Stage, mine # None
  PROVE  \/ state = "joined" /\ mine = nick /\ Follows(nick, 0)
         \/ /\ state = "initiated"
            /\ \E e \in 1 .. Len(toClient) : Enters(e) /\ mine = toClient[e].nick
<1>1. state \in {"created", "initiated", "joined", "ended"}  BY Order DEF TypeOK
<1>2. CASE state = "joined"
  BY <1>2 DEF Stage, Follows, Inside
<1>3. CASE state = "initiated"
  <2>1. PICK e \in 1 .. Len(toClient) : Enters(e)  BY <1>3 DEF Stage, Outside, Entering
  <2>2. mine = toClient[e].nick  BY <2>1 DEF Enters, Follows, Inside
  <2> QED  BY <1>3, <2>1, <2>2
<1> QED  BY <1>1, <1>2, <1>3 DEF Stage

\* No join is under way once we are let in.
LEMMA NoJoinInside ==
  ASSUME Sorts, Stage, OneJoin, mine # None
  PROVE  /\ \A n \in 1 .. Len(toRoom) : toRoom[n].ask # "join"
         /\ \A n \in 1 .. Len(toClient) : toClient[n].type # "error"
         /\ state = "initiated" => "join" \in asked
         /\ state \in {"initiated", "joined"}
<1>1. toClient \in Seq(Stanzas) /\ Len(toClient) \in Nat /\ TypeOK  BY DEF Sorts
<1>2. CASE state = "joined" /\ mine = nick /\ Follows(nick, 0)
  <2>1. Stays(nick, 0, toClient, mine) /\ 0 \in 0 .. Len(toClient)  BY <1>1, <1>2 DEF Follows, Inside
  <2>2. \A n \in 1 .. Len(toClient) : toClient[n].type # "error"  BY <1>1, <2>1, NoErrorWithin
  <2> QED  BY <1>2, <2>2 DEF OneJoin
<1>3. ASSUME state = "initiated", NEW e \in 1 .. Len(toClient), Enters(e) 
      PROVE  /\ \A n \in 1 .. Len(toRoom) : toRoom[n].ask # "join"
             /\ \A n \in 1 .. Len(toClient) : toClient[n].type # "error"
             /\ state = "initiated" => "join" \in asked
             /\ state \in {"initiated", "joined"}
  <2>1. e \in 0 .. Len(toClient) /\ Entry(e, toClient) /\ toClient[e].type = "available"
    BY <1>3, <1>1 DEF Enters, Entry
  <2>2. Stays(toClient[e].nick, e, toClient, mine)  BY <1>3 DEF Enters, Follows, Inside
  <2>3. \A n \in 1 .. Len(toClient) : toClient[n].type # "error"  BY <1>1, <2>1, <2>2, NoErrorWithin
  <2>4. ~Answers(toClient)  BY <2>1 DEF Answers
  <2> QED  BY <1>3, <2>3, <2>4 DEF OneJoin
<1> QED  BY <1>1, <1>2, <1>3, WhereInside

\* What the room tells an occupant: tc2 is the channel with what is told.
LEMMA Tells ==
  ASSUME Sorts, Stage, OneJoin, mine # None, UNCHANGED <<client, asked>>,
         toRoom' = toRoom \/ (toRoom # <<>> /\ toRoom' = Tail(toRoom)),
         NEW tc2 \in Seq(Stanzas), toClient' = tc2, Len(tc2) >= Len(toClient),
         \A n \in 1 .. Len(toClient) : tc2[n] = toClient[n],
         \A n \in Len(toClient) + 1 .. Len(tc2) : tc2[n].type # "error",
         NEW m2, mine' = m2, NEW occ2, occupants' = occ2,
         \A e \in 0 .. Len(toClient) :
           Inside(mine, e, toClient, mine, View(mine), occupants)
             => Inside(mine, e, tc2, m2, View(mine), occ2)
  PROVE  Stage' /\ OneJoin'
<1>1. /\ toClient \in Seq(Stanzas) /\ Len(toClient) \in Nat /\ Len(tc2) \in Nat /\ TypeOK
      /\ toRoom \in Seq(Requests)
  BY DEF Sorts
<1>2. state' = state /\ nick' = nick /\ role' = role /\ members' = members /\ handlers' = handlers /\ asked' = asked
  BY DEF client
<1>3. handlers /\ state \in {"initiated", "joined"}  BY NoJoinInside DEF Stage
<1>4. \A me : View(me)' = View(me)
  BY <1>2 DEF View
<1>5. Stage'
  <2>1. CASE state = "joined" /\ mine = nick /\ Follows(nick, 0)
    <3>1. 0 \in 0 .. Len(toClient) /\ Inside(mine, 0, toClient, mine, View(mine), occupants)
      BY <1>1, <2>1 DEF Follows
    <3>2. Inside(nick, 0, tc2, m2, View(nick), occ2)  BY <3>1, <2>1
    <3>3. members[nick] = None  BY <2>1 DEF Follows
    <3>4. View(nick)' = View(nick)  BY <1>2 DEF View
    <3>5. Follows(nick, 0)'  BY <3>2, <3>3, <3>4, <1>2 DEF Follows
    <3> QED  BY <1>2, <1>3, <2>1, <3>5 DEF Stage
  <2>2. ASSUME state = "initiated", NEW e \in 1 .. Len(toClient), Enters(e), mine = toClient[e].nick PROVE Stage'
    <3>1. e \in 0 .. Len(toClient) /\ Inside(mine, e, toClient, mine, View(mine), occupants)
            /\ Entry(e, toClient) /\ members[mine] = None
      BY <1>1, <2>2 DEF Enters, Follows
    <3>2. Inside(mine, e, tc2, m2, View(mine), occ2)  BY <3>1
    <3>3. Entry(e, tc2)  BY <1>1, <3>1, EntryTold
    <3>4. Entry(e, toClient)'  BY <3>3, <1>2 DEF Entry, Precedes, OwnPresence
    <3>5. e \in 1 .. Len(tc2) /\ tc2[e].nick = mine  BY <1>1, <2>2
    <3>7. PICK me : me = mine  OBVIOUS
    <3>8. Follows(me, e)'  BY <3>1, <3>2, <3>7, <1>2, <1>4 DEF Follows
    <3>9. toClient'[e].nick = me  BY <3>5, <3>7
    <3>10. Follows(toClient[e].nick, e)'  BY <3>8, <3>9 DEF Follows, View
    <3>11. Enters(e)'  BY <3>4, <3>10 DEF Enters
    <3>12. Entering'  BY <3>5, <3>11 DEF Entering
    <3> QED  BY <1>2, <1>3, <2>2, <3>12 DEF Stage
  <2> QED  BY <1>1, <2>1, <2>2, WhereInside
<1>6. \A n \in 1 .. Len(tc2) : tc2[n].type # "error"
  <2> TAKE n \in 1 .. Len(tc2)
  <2>1. n \in 1 .. Len(toClient) \/ n \in Len(toClient) + 1 .. Len(tc2)  BY <1>1
  <2> QED  BY <2>1, NoJoinInside
<1>7. /\ Len(toRoom') \in Nat
      /\ \A n \in 1 .. Len(toRoom') : \E m \in 1 .. Len(toRoom) : toRoom'[n] = toRoom[m]
  <2>1. CASE toRoom' = toRoom  BY <1>1, <2>1
  <2>2. CASE toRoom # <<>> /\ toRoom' = Tail(toRoom)
    <3>0. /\ Len(toRoom) \in Nat \ {0} /\ Len(Tail(toRoom)) = Len(toRoom) - 1
          /\ \A n \in 1 .. Len(toRoom) - 1 : Tail(toRoom)[n] = toRoom[n + 1]
          /\ \A n \in 1 .. Len(toRoom) : toRoom[n] \in Requests
      BY <1>1, <2>2, TailFacts
    <3>1. /\ Len(toRoom) \in Nat \ {0} /\ Len(toRoom') = Len(toRoom) - 1
          /\ \A n \in 1 .. Len(toRoom) - 1 : toRoom'[n] = toRoom[n + 1]
      BY <3>0, <2>2
    <3>2. \A n \in 1 .. Len(toRoom') : n + 1 \in 1 .. Len(toRoom) /\ toRoom'[n] = toRoom[n + 1]
      BY <3>1
    <3>3. Len(toRoom') \in Nat  BY <3>1
    <3> QED  BY <3>2, <3>3
  <2> QED  BY <2>1, <2>2
<1>8. OneJoin'
  <2>1. \A n \in 1 .. Len(toRoom') : toRoom'[n].ask # "join"  BY <1>7, NoJoinInside
  <2>2. \A n \in 1 .. Len(toRoom') : toRoom'[n].ask = "leave" => state' \in {"joined", "ended"}
    BY <1>2, <1>7 DEF OneJoin
  <2>3. state' = "initiated" => "join" \in asked'  BY <1>2, NoJoinInside
  <2> QED  BY <1>6, <2>1, <2>2, <2>3 DEF OneJoin
<1> QED  BY <1>5, <1>8

\* What happens in a room that we are not in
LEMMA Unheard ==
  ASSUME Sorts, Stage, OneJoin, mine = None, UNCHANGED <<client, asked, mine, toClient>>,
         toRoom' = toRoom \/ (toRoom # <<>> /\ toRoom' = Tail(toRoom))
  PROVE  Stage' /\ OneJoin'
<1>1. toRoom \in Seq(Requests) /\ toClient \in Seq(Stanzas)  BY DEF Sorts
<1>2. /\ state' = state /\ nick' = nick /\ role' = role /\ members' = members /\ handlers' = handlers
      /\ asked' = asked /\ mine' = mine /\ toClient' = toClient
  BY DEF client
<1>3. \A me, e : Inside(me, e, toClient, mine, View(me), occupants)
                   => Inside(me, e, toClient, mine, View(me), occupants')
  BY DEF Inside
<1>4. \A me : View(me)' = View(me)  BY <1>2 DEF View
<1>5. \A me, e : Follows(me, e) => Follows(me, e)'
  <2> SUFFICES ASSUME NEW me, NEW e, Follows(me, e) PROVE Follows(me, e)'  OBVIOUS
  <2>1. Inside(me, e, toClient, mine, View(me), occupants')  BY <1>3 DEF Follows
  <2>2. View(me)' = View(me)  BY <1>4
  <2> QED  BY <1>2, <2>1, <2>2 DEF Follows
<1>6. Stage'
  <2>1. toRoom = <<>> => toRoom' = <<>>  OBVIOUS
  <2>2. Outside => Outside'  BY <1>2 DEF Outside
  <2>3. ASSUME NEW e \in 1 .. Len(toClient), Enters(e) PROVE Enters(e)'
    <3>1. Entry(e, toClient)'  BY <2>3, <1>2 DEF Enters, Entry, Precedes, OwnPresence
    <3>2. PICK me : me = toClient[e].nick  OBVIOUS
    <3>3. Follows(me, e)'  BY <1>5, <2>3, <3>2 DEF Enters
    <3>4. toClient'[e].nick = me  BY <1>2, <3>2
    <3>5. Follows(toClient[e].nick, e)'  BY <3>3, <3>4 DEF Follows, View
    <3> QED  BY <3>1, <3>5 DEF Enters
  <2>4. Entering => Entering'  BY <1>2, <2>3 DEF Entering
  <2>5. Follows(nick, 0) => Follows(nick, 0)'
    <3>1. PICK me : me = nick  OBVIOUS
    <3>2. Follows(me, 0) => Follows(me, 0)'  BY <1>5
    <3> QED  BY <3>1, <3>2, <1>2 DEF Follows, View
  <2> QED  BY <1>2, <2>1, <2>2, <2>4, <2>5 DEF Stage
<1>7. /\ Len(toRoom') \in Nat
      /\ \A n \in 1 .. Len(toRoom') : toRoom'[n] \in Requests
      /\ toRoom' = toRoom \/ \A n \in 1 .. Len(toRoom') : n + 1 \in 1 .. Len(toRoom) /\ toRoom'[n] = toRoom[n + 1]
  <2>1. CASE toRoom' = toRoom  BY <1>1, <2>1
  <2>2. CASE toRoom # <<>> /\ toRoom' = Tail(toRoom)
    <3>0. /\ Len(toRoom) \in Nat \ {0} /\ Len(Tail(toRoom)) = Len(toRoom) - 1
          /\ \A n \in 1 .. Len(toRoom) - 1 : Tail(toRoom)[n] = toRoom[n + 1]
          /\ \A n \in 1 .. Len(toRoom) : toRoom[n] \in Requests
      BY <1>1, <2>2, TailFacts
    <3>1. /\ Len(toRoom) \in Nat \ {0} /\ Len(toRoom') = Len(toRoom) - 1
          /\ \A n \in 1 .. Len(toRoom) - 1 : toRoom'[n] = toRoom[n + 1]
          /\ \A n \in 1 .. Len(toRoom) : toRoom[n] \in Requests
      BY <3>0, <2>2
    <3>2. \A n \in 1 .. Len(toRoom') : n + 1 \in 1 .. Len(toRoom) /\ toRoom'[n] = toRoom[n + 1]
      BY <3>1
    <3>3. \A n \in 1 .. Len(toRoom') : toRoom'[n] \in Requests  BY <3>1, <3>2
    <3>4. Len(toRoom') \in Nat  BY <3>1
    <3> QED  BY <3>2, <3>3, <3>4
  <2> QED  BY <2>1, <2>2
<1>8. OneJoin'
  <2>1. CASE toRoom' = toRoom  BY <2>1, <1>2 DEF OneJoin
  <2>2. CASE \A n \in 1 .. Len(toRoom') : n + 1 \in 1 .. Len(toRoom) /\ toRoom'[n] = toRoom[n + 1]
    <3>1. \A m, n \in 1 .. Len(toRoom') : toRoom'[m].ask = "join" /\ toRoom'[n].ask = "join" => m = n
      <4> TAKE m, n \in 1 .. Len(toRoom')
      <4>1. toRoom'[m].ask = "join" /\ toRoom'[n].ask = "join" => m + 1 = n + 1
        BY <2>2 DEF OneJoin
      <4> QED  BY <4>1
    <3>2. \A n \in 1 .. Len(toRoom') :
       /\ toRoom'[n].ask = "join" =>
            /\ state = "initiated" /\ "join" \in asked /\ toRoom'[n].nick = nick
            /\ Answers(toClient)
       /\ toRoom'[n].ask = "leave" => state \in {"joined", "ended"}
      BY <2>2 DEF OneJoin
    <3>3. /\ \A m, n \in 1 .. Len(toClient) : toClient[m].type = "error" /\ toClient[n].type = "error" => m = n
          /\ state = "initiated" /\ ~Answers(toClient) => "join" \in asked
      BY DEF OneJoin
    <3> QED  BY <3>1, <3>2, <3>3, <1>2 DEF OneJoin
  <2> QED  BY <1>7, <2>1, <2>2
<1> QED  BY <1>6, <1>8

-----------------------------------------------------------------------------
(* The steps of the room *)

LEMMA NoneIsNobody == None \notin Nicks
BY MucAssumption DEF MucAssumption

LEMMA TypeSame ==
  ASSUME TypeOK, UNCHANGED <<client, asked>>, calls' \in 0 .. MaxCalls, events' \in 0 .. MaxEvents,
         occupants' \in [Nicks -> Roles \cup {None}], mine' \in Nicks \cup {None}, config' \in RoomTypes,
         mine' # None => occupants'[mine'] # None
  PROVE  TypeOK'
BY DEF TypeOK, client

LEMMA OneTold ==
  ASSUME TypeOK, NEW p \in Stanzas, toClient \in Seq(Stanzas), handlers, toClient' = toClient \o <<p>>
  PROVE  toClient' = Append(toClient, p) /\ toClient' \in Seq(Stanzas)
BY AppendFacts

LEMMA EventCount ==
  ASSUME TypeOK, Event
  PROVE  /\ calls' \in 0 .. MaxCalls /\ events' \in 0 .. MaxEvents
         /\ UNCHANGED <<client, asked>> /\ toRoom' = toRoom
<1>1. MaxCalls \in Nat /\ MaxEvents \in Nat  BY MucAssumption DEF MucAssumption
<1>2. calls \in 0 .. MaxCalls /\ events \in 0 .. MaxEvents  BY DEF TypeOK
<1>3. events < MaxEvents /\ events' = events + 1 /\ calls' = calls  BY DEF Event
<1> QED  BY <1>1, <1>2, <1>3 DEF Event

LEMMA HandlersInside ==
  ASSUME Stage, mine # None
  PROVE  handlers
BY DEF Stage

\* The room does one thing and tells us of it, if we are there, with stanza p.
LEMMA TellsOne ==
  ASSUME UInv, UNCHANGED <<client, asked>>,
         toRoom' = toRoom \/ (toRoom # <<>> /\ toRoom' = Tail(toRoom)),
         NEW p, Tell(<<p>>), NEW m2, mine' = m2, NEW occ2, occupants' = occ2, NEW c2, config' = c2,
         mine = None => m2 = None /\ c2 = config,
         mine # None =>
           /\ p \in Stanzas /\ p.type # "error"
           /\ Marked(p) => p.nick = mine
           /\ Spoken(p) => p.role = occupants[p.nick]
           /\ m2 = IF Leaves(p, mine) THEN None ELSE mine
           /\ occ2 = Heeds(occupants, p)
           /\ IF Describes(p) THEN Fits(Flags(p.config), c2) ELSE c2 = config
  PROVE  /\ toClient' \in Seq(Stanzas)
         /\ Stage' /\ OneJoin' /\ TypeIsCurrent(toClient, roomType, config)' /\ SignalsTellAll'
<1>1. /\ Sorts /\ TypeOK /\ Stage /\ OneJoin /\ TypeIsCurrent(toClient, roomType, config)
      /\ SignalsTellAll /\ toClient \in Seq(Stanzas) /\ Len(toClient) \in Nat
      /\ occupants \in [Nicks -> Roles \cup {None}] /\ mine \in Nicks \cup {None}
  BY DEF UInv, Sorts, TypeOK
<1>2. SignalsTellAll' /\ roomType' = roomType
  BY <1>1 DEF SignalsTellAll, client
<1>3. CASE mine = None
  <2>1. toClient' = toClient /\ mine' = mine /\ config' = config  BY <1>3 DEF Tell
  <2>2. Stage' /\ OneJoin'  BY <1>1, <1>3, <2>1, Unheard
  <2> QED  BY <1>1, <1>2, <2>1, <2>2
<1>4. CASE mine # None
  <2>1. toClient' = toClient \o <<p>> /\ handlers
    BY <1>1, <1>4, HandlersInside DEF Tell, Send
  <2> DEFINE tc2 == Append(toClient, p)
  <2>2. toClient' = tc2 /\ tc2 \in Seq(Stanzas)  BY <1>1, <1>4, <2>1, OneTold
  <2>3. Len(tc2) = Len(toClient) + 1 /\ tc2[Len(toClient) + 1] = p
          /\ \A n \in 1 .. Len(toClient) : tc2[n] = toClient[n]
    BY <1>1, <1>4, AppendFacts
  <2>4. ASSUME NEW e \in 0 .. Len(toClient), Inside(mine, e, toClient, mine, View(mine), occupants)
        PROVE  Inside(mine, e, tc2, m2, View(mine), occ2)
    <3>1. e \in Nat /\ e <= Len(toClient) /\ mine \in Nicks  BY <1>1, <1>4
    <3> QED  BY <1>1, <1>4, <2>4, <3>1, InsideTold
  <2>5. TypeIsCurrent(tc2, roomType, c2)
    BY <1>1, <1>4, TypeTold
  <2> HIDE DEF tc2
  <2>6. \A n \in Len(toClient) + 1 .. Len(tc2) : tc2[n].type # "error"
    <3>1. \A n \in Len(toClient) + 1 .. Len(tc2) : n = Len(toClient) + 1  BY <1>1, <2>3
    <3> QED  BY <3>1, <2>3, <1>4
  <2>7. Len(tc2) >= Len(toClient)  BY <1>1, <2>3
  <2>8. Stage' /\ OneJoin'  BY <1>1, <1>4, <2>2, <2>3, <2>4, <2>6, <2>7, Tells
  <2>9. TypeIsCurrent(toClient, roomType, config)'  BY <2>5, <2>2, <1>2
  <2> QED  BY <1>2, <2>2, <2>8, <2>9
<1> QED  BY <1>3, <1>4

\* The presence of an occupant is a stanza.
LEMMA PresenceIsStanza ==
  ASSUME NEW type \in {"available", "unavailable"}, NEW n \in Nicks, NEW r \in Roles \cup {None},
         NEW mark \in {None, "own", "forced"}, type = "unavailable" => r = None
  PROVE  /\ Presence(type, n, r, mark) \in Stanzas
         /\ Presence(type, n, r, mark).type = type /\ Presence(type, n, r, mark).nick = n
         /\ Presence(type, n, r, mark).role = r /\ Presence(type, n, r, mark).mark = mark
         /\ Presence(type, n, r, mark).config = None
<1>1. Presence(type, n, r, mark) \in Presences  BY DEF Presence, Presences
<1>2. Announced(Presence(type, n, r, mark))  BY DEF Presence, Announced
<1> QED  BY <1>1, <1>2 DEF Stanzas, Presence

LEMMA OccupantJoinsKeeps == ASSUME UInv, NEW n \in Nicks, OccupantJoins(n) PROVE UInv'
<1> DEFINE p == Presence("available", n, "participant", None)
           occ2 == [occupants EXCEPT ![n] = "participant"]
<1>1. TypeOK /\ None \notin Nicks /\ toRoom \in Seq(Requests)
  BY MucAssumption DEF UInv, Sorts, MucAssumption
<1>2. Event /\ occupants[n] = None /\ occupants' = occ2 /\ Tell(<<p>>) /\ mine' = mine /\ config' = config
  BY DEF OccupantJoins, Free
<1>3. /\ p \in Stanzas /\ p.type = "available" /\ p.nick = n /\ p.role = "participant" /\ p.mark = None
      /\ p.config = None
  BY PresenceIsStanza DEF Roles
<1> HIDE DEF p
<1>4. ~Marked(p) /\ ~Spoken(p) /\ ~Describes(p) /\ Heeds(occupants, p) = occ2 /\ ~Leaves(p, mine)
  BY <1>3 DEF Marked, Spoken, Describes, Heeds, Leaves
<1>5. /\ toClient' \in Seq(Stanzas)
      /\ Stage' /\ OneJoin' /\ TypeIsCurrent(toClient, roomType, config)' /\ SignalsTellAll'
  BY <1>1, <1>2, <1>3, <1>4, EventCount, TellsOne
<1>6. TypeOK'
  <2>1. occ2 \in [Nicks -> Roles \cup {None}]  BY <1>1 DEF TypeOK, Roles
  <2>2. mine # None => occ2[mine] # None  BY <1>1, <1>2 DEF TypeOK
  <2>3. mine \in Nicks \cup {None} /\ config \in RoomTypes  BY <1>1 DEF TypeOK
  <2> QED  BY <1>1, <1>2, <2>1, <2>2, <2>3, EventCount, TypeSame
<1> QED  BY <1>1, <1>2, <1>5, <1>6, EventCount DEF UInv, Sorts

LEMMA OccupantLeavesKeeps == ASSUME UInv, NEW n \in Nicks, OccupantLeaves(n) PROVE UInv'
<1> DEFINE p == Presence("unavailable", n, None, None)
           occ2 == [occupants EXCEPT ![n] = None]
<1>1. TypeOK /\ None \notin Nicks /\ toRoom \in Seq(Requests)
  BY MucAssumption DEF UInv, Sorts, MucAssumption
<1>2. Event /\ n # mine /\ occupants' = occ2 /\ Tell(<<p>>) /\ mine' = mine /\ config' = config
  BY DEF OccupantLeaves, Others
<1>3. /\ p \in Stanzas /\ p.type = "unavailable" /\ p.nick = n /\ p.role = None /\ p.mark = None
      /\ p.config = None
  BY PresenceIsStanza DEF Roles
<1> HIDE DEF p
<1>4. ~Marked(p) /\ ~Spoken(p) /\ ~Describes(p) /\ Heeds(occupants, p) = occ2 /\ ~Leaves(p, mine)
  BY <1>2, <1>3 DEF Marked, Spoken, Describes, Heeds, Leaves
<1>5. /\ toClient' \in Seq(Stanzas)
      /\ Stage' /\ OneJoin' /\ TypeIsCurrent(toClient, roomType, config)' /\ SignalsTellAll'
  BY <1>1, <1>2, <1>3, <1>4, EventCount, TellsOne
<1>6. TypeOK'
  <2>1. occ2 \in [Nicks -> Roles \cup {None}]  BY <1>1 DEF TypeOK
  <2>2. mine # None => occ2[mine] # None  BY <1>1, <1>2 DEF TypeOK
  <2>3. mine \in Nicks \cup {None} /\ config \in RoomTypes  BY <1>1 DEF TypeOK
  <2> QED  BY <1>1, <1>2, <2>1, <2>2, <2>3, EventCount, TypeSame
<1> QED  BY <1>1, <1>2, <1>5, <1>6, EventCount DEF UInv, Sorts

LEMMA RoleChangesKeeps == ASSUME UInv, NEW n \in Nicks, NEW r \in Roles, RoleChanges(n, r) PROVE UInv'
<1> DEFINE mark == IF n = mine THEN "own" ELSE None
           p == Presence("available", n, r, mark)
           occ2 == [occupants EXCEPT ![n] = r]
<1>1. TypeOK /\ None \notin Nicks /\ toRoom \in Seq(Requests)
  BY MucAssumption DEF UInv, Sorts, MucAssumption
<1>2. Event /\ occupants[n] \notin {r, None} /\ occupants' = occ2 /\ Tell(<<p>>) /\ mine' = mine
        /\ config' = config
  BY DEF RoleChanges
<1>3. /\ p \in Stanzas /\ p.type = "available" /\ p.nick = n /\ p.role = r /\ p.mark = mark
      /\ p.config = None
  BY PresenceIsStanza
<1> HIDE DEF p
<1>4. (Marked(p) => p.nick = mine) /\ ~Spoken(p) /\ ~Describes(p) /\ Heeds(occupants, p) = occ2
        /\ ~Leaves(p, mine)
  BY <1>3 DEF Marked, Spoken, Describes, Heeds, Leaves
<1>5. /\ toClient' \in Seq(Stanzas)
      /\ Stage' /\ OneJoin' /\ TypeIsCurrent(toClient, roomType, config)' /\ SignalsTellAll'
  BY <1>1, <1>2, <1>3, <1>4, EventCount, TellsOne
<1>6. TypeOK'
  <2>1. occ2 \in [Nicks -> Roles \cup {None}]  BY <1>1 DEF TypeOK
  <2>2. mine # None => occ2[mine] # None
    <3>1. occupants[n] # None /\ occupants \in [Nicks -> Roles \cup {None}] /\ r # None
      BY <1>1, <1>2, MucAssumption DEF TypeOK, MucAssumption
    <3> QED  BY <3>1, <1>1 DEF TypeOK
  <2>3. mine \in Nicks \cup {None} /\ config \in RoomTypes  BY <1>1 DEF TypeOK
  <2> QED  BY <1>1, <1>2, <2>1, <2>2, <2>3, EventCount, TypeSame
<1> QED  BY <1>1, <1>2, <1>5, <1>6, EventCount DEF UInv, Sorts

\* We are made to leave, or leave.
LEMMA OutKeeps ==
  ASSUME UInv, mine # None, UNCHANGED <<client, asked>>, calls' \in 0 .. MaxCalls, events' \in 0 .. MaxEvents,
         toRoom' = toRoom \/ (toRoom # <<>> /\ toRoom' = Tail(toRoom)),
         occupants' = [occupants EXCEPT ![mine] = None], mine' = None, config' = config,
         Tell(<<Presence("unavailable", mine, None, "own")>>)
  PROVE  UInv'
<1>1. TypeOK /\ None \notin Nicks /\ toRoom \in Seq(Requests) /\ mine \in Nicks
  BY MucAssumption DEF UInv, Sorts, TypeOK, MucAssumption
<1> DEFINE p == Presence("unavailable", mine, None, "own")
           occ2 == [occupants EXCEPT ![mine] = None]
<1>3. /\ p \in Stanzas /\ p.type = "unavailable" /\ p.nick = mine /\ p.role = None /\ p.mark = "own"
      /\ p.config = None
  BY <1>1, PresenceIsStanza
<1>2. Tell(<<p>>)  OBVIOUS
<1> HIDE DEF p
<1>4. (Marked(p) => p.nick = mine) /\ ~Spoken(p) /\ ~Describes(p) /\ Heeds(occupants, p) = occ2
        /\ Leaves(p, mine)
  BY <1>3 DEF Marked, Spoken, Describes, Heeds, Leaves
<1>5. /\ toClient' \in Seq(Stanzas)
      /\ Stage' /\ OneJoin' /\ TypeIsCurrent(toClient, roomType, config)' /\ SignalsTellAll'
  BY <1>1, <1>2, <1>3, <1>4, TellsOne
<1>6. TypeOK'
  <2>1. occ2 \in [Nicks -> Roles \cup {None}]  BY <1>1 DEF TypeOK
  <2>3. config \in RoomTypes  BY <1>1 DEF TypeOK
  <2> QED  BY <1>1, <1>2, <2>1, <2>3, TypeSame
<1>7. toRoom' \in Seq(Requests)  BY <1>1
<1> QED  BY <1>5, <1>6, <1>7 DEF UInv, Sorts

LEMMA KickKeeps == ASSUME UInv, Kick PROVE UInv'
<1>1. TypeOK /\ Event  BY DEF UInv, Sorts, Kick
<1> QED  BY <1>1, EventCount, OutKeeps DEF Kick

LEMMA ServeLeaveKeeps == ASSUME UInv, ServeLeave PROVE UInv'
<1>1. /\ Sorts /\ TypeOK /\ Stage /\ OneJoin /\ toRoom \in Seq(Requests)
      /\ toRoom # <<>> /\ toRoom' = Tail(toRoom) /\ UNCHANGED <<client, asked>>
      /\ calls' = calls /\ events' = events /\ config' = config
  BY DEF UInv, Sorts, ServeLeave, Served
<1>2. calls' \in 0 .. MaxCalls /\ events' \in 0 .. MaxEvents  BY <1>1 DEF TypeOK
<1>3. CASE mine # None
  BY <1>1, <1>2, <1>3, OutKeeps DEF ServeLeave
<1>4. CASE mine = None
  <2>1. occupants' = occupants /\ mine' = mine /\ toClient' = toClient  BY <1>4 DEF ServeLeave
  <2>2. Stage' /\ OneJoin'  BY <1>1, <1>4, <2>1, Unheard
  <2>3. TypeOK'  BY <1>1, <1>2, <2>1, TypeSame DEF TypeOK
  <2>4. SignalsTellAll' /\ TypeIsCurrent(toClient, roomType, config)'
    BY <1>1, <2>1 DEF UInv, SignalsTellAll, client
  <2> QED  BY <1>1, <2>1, <2>2, <2>3, <2>4 DEF UInv, Sorts
<1> QED  BY <1>3, <1>4

LEMMA ReconfigureKeeps == ASSUME UInv, NEW c \in RoomTypes, Reconfigure(c) PROVE UInv'
<1> DEFINE p == [Present(mine, "own") EXCEPT !.config = c]
<1>1. TypeOK /\ None \notin Nicks /\ toRoom \in Seq(Requests) /\ mine # None /\ mine \in Nicks
  BY MucAssumption DEF UInv, Sorts, TypeOK, MucAssumption, Reconfigure
<1>2. Event /\ occupants' = occupants /\ Tell(<<p>>) /\ mine' = mine /\ config' = c
  BY DEF Reconfigure
<1>3. /\ p \in Stanzas /\ p.type = "available" /\ p.nick = mine /\ p.role = occupants[mine] /\ p.mark = "own"
      /\ p.config = c
  <2>1. occupants[mine] \in Roles \cup {None}  BY <1>1 DEF TypeOK
  <2>2. p = [type |-> "available", nick |-> mine, role |-> occupants[mine], mark |-> "own", config |-> c]
    BY DEF Present, Presence
  <2>3. p \in Presences  BY <1>1, <2>1, <2>2 DEF Presences
  <2>4. Announced(p)  BY <2>2 DEF Announced
  <2> QED  BY <2>2, <2>3, <2>4 DEF Stanzas
<1> HIDE DEF p
<1>4. (Marked(p) => p.nick = mine) /\ ~Spoken(p) /\ Fits(Flags(p.config), c) /\ ~Leaves(p, mine)
  BY <1>3 DEF Marked, Spoken, Fits, Leaves
<1>5. Heeds(occupants, p) = occupants
  <2>1. Heeds(occupants, p) = [occupants EXCEPT ![mine] = occupants[mine]]  BY <1>3 DEF Heeds
  <2> QED  BY <2>1, <1>1 DEF TypeOK
<1>6. Describes(p)
  <2>1. c # None
    BY MucAssumption DEF MucAssumption
  <2> QED  BY <2>1, <1>3 DEF Describes
<1>7. /\ toClient' \in Seq(Stanzas)
      /\ Stage' /\ OneJoin' /\ TypeIsCurrent(toClient, roomType, config)' /\ SignalsTellAll'
  BY <1>1, <1>2, <1>3, <1>4, <1>5, <1>6, EventCount, TellsOne
<1>8. TypeOK'
  <2>1. occupants[mine] # None /\ occupants \in [Nicks -> Roles \cup {None}]  BY <1>1 DEF TypeOK
  <2> QED  BY <1>1, <1>2, <2>1, EventCount, TypeSame
<1> QED  BY <1>1, <1>2, <1>7, <1>8, EventCount DEF UInv, Sorts

LEMMA SpeaksKeeps ==
  ASSUME UInv, NEW n \in Nicks, NEW to \in {"groupchat", "chat"}, Speaks(n, to) PROVE UInv'
<1> DEFINE p == [type |-> to, nick |-> n, role |-> occupants[n], delayed |-> FALSE]
<1>1. TypeOK /\ None \notin Nicks /\ toRoom \in Seq(Requests) /\ mine # None
  BY MucAssumption DEF UInv, Sorts, MucAssumption, Speaks
<1>2. /\ Event /\ occupants' = occupants /\ Tell(<<p>>) /\ mine' = mine /\ config' = config
      /\ occupants[n] # None
  BY DEF Speaks, room
<1>3. p \in Stanzas /\ p.type = to /\ p.nick = n /\ p.role = occupants[n]
  <2>1. occupants[n] \in Roles  BY <1>1, <1>2 DEF TypeOK
  <2> QED  BY <2>1 DEF Stanzas, Messages
<1> HIDE DEF p
<1>4. ~Marked(p) /\ (Spoken(p) => p.role = occupants[p.nick]) /\ ~Describes(p) /\ Heeds(occupants, p) = occupants
        /\ ~Leaves(p, mine) /\ p.type # "error"
  BY <1>3 DEF Marked, Spoken, Describes, Heeds, Leaves
<1>5. /\ toClient' \in Seq(Stanzas)
      /\ Stage' /\ OneJoin' /\ TypeIsCurrent(toClient, roomType, config)' /\ SignalsTellAll'
  BY <1>1, <1>2, <1>3, <1>4, EventCount, TellsOne
<1>6. TypeOK'
  <2>1. /\ occupants \in [Nicks -> Roles \cup {None}] /\ (mine # None => occupants[mine] # None)
        /\ mine \in Nicks \cup {None} /\ config \in RoomTypes
    BY <1>1 DEF TypeOK
  <2> QED  BY <1>1, <1>2, <2>1, EventCount, TypeSame
<1> QED  BY <1>1, <1>2, <1>5, <1>6, EventCount DEF UInv, Sorts

\* An occupant is announced to have left under the old name and to have come under the new one.
LEMMA OccupantRenamesKeeps ==
  ASSUME Ordinary, UInv, NEW n \in Nicks, NEW m \in Nicks, OccupantRenames(n, m) PROVE UInv'
<1> DEFINE p == Presence("unavailable", n, None, None)
           q == Presence("available", m, occupants[n], None)
           occ1 == [occupants EXCEPT ![n] = None]
           occ2 == [occupants EXCEPT ![n] = None, ![m] = occupants[n]]
<1>1. /\ Sorts /\ TypeOK /\ Stage /\ OneJoin /\ TypeIsCurrent(toClient, roomType, config)
      /\ SignalsTellAll /\ toClient \in Seq(Stanzas) /\ Len(toClient) \in Nat /\ toRoom \in Seq(Requests)
      /\ occupants \in [Nicks -> Roles \cup {None}] /\ mine \in Nicks \cup {None} /\ None \notin Nicks
      /\ config \in RoomTypes
  BY NoneIsNobody DEF UInv, Sorts, TypeOK
<1>2. Event /\ occupants[n] # None /\ occupants[m] = None /\ n # mine /\ n # m
  BY DEF OccupantRenames, Free, Ordinary
<1>3. occupants' = occ2 /\ Tell(<<p, q>>) /\ mine' = mine /\ config' = config
  BY <1>2 DEF OccupantRenames
<1>4. /\ p \in Stanzas /\ p.type = "unavailable" /\ p.nick = n /\ p.role = None /\ p.mark = None
      /\ p.config = None
  BY PresenceIsStanza DEF Roles
<1>5. /\ q \in Stanzas /\ q.type = "available" /\ q.nick = m /\ q.role = occupants[n] /\ q.mark = None
      /\ q.config = None
  <2>1. occupants[n] \in Roles \cup {None}  BY <1>1
  <2> QED  BY <2>1, PresenceIsStanza
<1> HIDE DEF p, q
<1>6. ~Marked(p) /\ ~Spoken(p) /\ ~Describes(p) /\ Heeds(occupants, p) = occ1 /\ ~Leaves(p, mine)
  BY <1>2, <1>4 DEF Marked, Spoken, Describes, Heeds, Leaves
<1>7. ~Marked(q) /\ ~Spoken(q) /\ ~Describes(q) /\ Heeds(occ1, q) = [occ1 EXCEPT ![m] = occupants[n]]
        /\ ~Leaves(q, mine)
  BY <1>5 DEF Marked, Spoken, Describes, Heeds, Leaves
<1>8. occ1 \in [Nicks -> Roles \cup {None}] /\ occ2 = [occ1 EXCEPT ![m] = occupants[n]]
        /\ occ2 \in [Nicks -> Roles \cup {None}]
  <2>1. occupants[n] \in Roles \cup {None}  BY <1>1
  <2> QED  BY <2>1, <1>1
<1>9. UNCHANGED <<client, asked>> /\ toRoom' = toRoom  BY <1>1, <1>2, EventCount
<1>10. TypeOK'
  <2>1. mine # None => occ2[mine] # None
    <3>1. mine # None => occupants[mine] # None /\ mine \in Nicks  BY <1>1 DEF TypeOK
    <3> QED  BY <3>1, <1>1, <1>2
  <2> QED  BY <1>1, <1>2, <1>3, <1>8, <2>1, EventCount, TypeSame
<1>11. SignalsTellAll' /\ roomType' = roomType  BY <1>1, <1>9 DEF SignalsTellAll, client
<1>12. CASE mine = None
  <2>1. toClient' = toClient  BY <1>3, <1>12 DEF Tell
  <2>2. Stage' /\ OneJoin'  BY <1>1, <1>3, <1>9, <1>12, <2>1, Unheard
  <2>3. TypeIsCurrent(toClient, roomType, config)'  BY <1>1, <1>3, <1>11, <2>1
  <2> QED  BY <1>1, <1>9, <1>10, <1>11, <2>1, <2>2, <2>3 DEF UInv, Sorts
<1>13. CASE mine # None
  <2> DEFINE tc1 == Append(toClient, p)
             tc2 == Append(tc1, q)
  <2>1. handlers  BY <1>1, <1>13, HandlersInside
  <2>2. toClient' = toClient \o <<p, q>>  BY <1>3, <1>13, <2>1 DEF Tell, Send
  <2>3. tc1 \in Seq(Stanzas) /\ Len(tc1) = Len(toClient) + 1 /\ tc1[Len(toClient) + 1] = p
          /\ \A i \in 1 .. Len(toClient) : tc1[i] = toClient[i]
    BY <1>1, <1>4, AppendFacts
  <2>4. toClient \o <<p, q>> = tc2  BY <1>1, <1>4, <1>5
  <2> HIDE DEF tc1
  <2>5. tc2 \in Seq(Stanzas) /\ Len(tc2) = Len(tc1) + 1 /\ tc2[Len(tc1) + 1] = q
          /\ \A i \in 1 .. Len(tc1) : tc2[i] = tc1[i]
    BY <2>3, <1>5, AppendFacts
  <2>6. ASSUME NEW e \in 0 .. Len(toClient), Inside(mine, e, toClient, mine, View(mine), occupants)
        PROVE  Inside(mine, e, tc2, mine, View(mine), occ2)
    <3>1. e \in Nat /\ e <= Len(toClient) /\ mine \in Nicks /\ e <= Len(tc1)  BY <1>1, <1>13, <2>3
    <3>2. Inside(mine, e, tc1, mine, View(mine), occ1)
      <4>1. Inside(mine, e, tc1, IF Leaves(p, mine) THEN None ELSE mine, View(mine), Heeds(occupants, p))
        BY <1>1, <1>4, <1>6, <2>6, <3>1, InsideTold DEF tc1
      <4> QED  BY <4>1, <1>6
    <3>3. Inside(mine, e, tc2, IF Leaves(q, mine) THEN None ELSE mine, View(mine), Heeds(occ1, q))
      <4> HIDE DEF occ1, occ2
      <4> QED  BY <1>5, <1>7, <1>8, <2>3, <3>1, <3>2, InsideTold
    <3> QED  BY <3>3, <1>7, <1>8
  <2>7. TypeIsCurrent(tc2, roomType, config)
    <3>1. TypeIsCurrent(tc1, roomType, config)  BY <1>1, <1>4, <1>6, TypeTold DEF tc1
    <3> QED  BY <3>1, <2>3, <1>5, <1>7, TypeTold
  <2>8. toClient' = tc2  BY <2>2, <2>4
  <2> HIDE DEF tc2, occ2
  <2>9. Len(tc2) >= Len(toClient) /\ \A i \in 1 .. Len(toClient) : tc2[i] = toClient[i]
    BY <1>1, <2>3, <2>5
  <2>10. \A i \in Len(toClient) + 1 .. Len(tc2) : tc2[i].type # "error"
    <3>1. \A i \in Len(toClient) + 1 .. Len(tc2) : i = Len(tc1) \/ i = Len(tc1) + 1  BY <1>1, <2>3, <2>5
    <3>2. Len(tc1) \in 1 .. Len(tc1) /\ tc2[Len(tc1)] = p  BY <1>1, <2>3, <2>5
    <3> QED  BY <3>1, <3>2, <2>5, <1>4, <1>5
  <2>11. Stage' /\ OneJoin'
    BY <1>1, <1>3, <1>9, <1>13, <2>5, <2>6, <2>8, <2>9, <2>10, Tells
  <2>12. TypeIsCurrent(toClient, roomType, config)'  BY <2>7, <2>8, <1>3, <1>11
  <2> QED  BY <1>1, <1>9, <1>10, <1>11, <2>5, <2>8, <2>11, <2>12 DEF UInv, Sorts
<1> QED  BY <1>12, <1>13

\* A query is answered wherever we are.
LEMMA ServeDiscoKeeps == ASSUME UInv, ServeDisco PROVE UInv'
<1>1. /\ Sorts /\ TypeOK /\ Stage /\ OneJoin /\ TypeIsCurrent(toClient, roomType, config)
      /\ SignalsTellAll /\ toClient \in Seq(Stanzas) /\ Len(toClient) \in Nat /\ toRoom \in Seq(Requests)
      /\ occupants \in [Nicks -> Roles \cup {None}] /\ mine \in Nicks \cup {None} /\ None \notin Nicks
      /\ config \in RoomTypes
  BY NoneIsNobody DEF UInv, Sorts, TypeOK
<1>2. /\ toRoom # <<>> /\ toRoom' = Tail(toRoom) /\ UNCHANGED <<client, asked>>
      /\ calls' = calls /\ events' = events /\ config' = config /\ occupants' = occupants /\ mine' = mine
  BY DEF ServeDisco, Served
<1>3. PICK answer \in {config, None} : toClient' = Append(toClient, [type |-> "disco", config |-> answer])
  BY DEF ServeDisco
<1> DEFINE p == [type |-> "disco", config |-> answer]
<1>4. p \in Stanzas /\ p.type = "disco" /\ p.config = answer
  <2>1. p \in Replies  BY <1>1 DEF Replies
  <2> QED  BY <2>1 DEF Stanzas
<1> DEFINE tc2 == Append(toClient, p)
<1>5. tc2 \in Seq(Stanzas) /\ Len(tc2) = Len(toClient) + 1 /\ tc2[Len(toClient) + 1] = p
        /\ \A i \in 1 .. Len(toClient) : tc2[i] = toClient[i]
  BY <1>1, <1>4, AppendFacts
<1>6. toClient' = tc2  BY <1>3
<1>7. calls' \in 0 .. MaxCalls /\ events' \in 0 .. MaxEvents  BY <1>1, <1>2 DEF TypeOK
<1>8. TypeOK'  BY <1>1, <1>2, <1>7, TypeSame DEF TypeOK
<1>9. SignalsTellAll' /\ roomType' = roomType  BY <1>1, <1>2 DEF SignalsTellAll, client
<1>10. TypeIsCurrent(tc2, roomType, config)
  <2>1. Fits(Flags(p.config), config)  BY <1>4 DEF Fits, Flags
  <2>2. Describes(p)  BY <1>4 DEF Describes
  <2> HIDE DEF p
  <2> QED  BY <1>1, <1>4, <2>1, <2>2, TypeTold
<1>11. ASSUME NEW me \in Nicks, NEW e \in 0 .. Len(toClient),
              Inside(me, e, toClient, mine, View(me), occupants)
       PROVE  Inside(me, e, tc2, mine, View(me), occupants)
  <2>1. e \in Nat /\ e <= Len(toClient)  BY <1>1
  <2> HIDE DEF p
  <2> QED  BY <1>1, <1>4, <1>11, <2>1, InsideAnswered
<1> HIDE DEF tc2, p
<1>12. \A i \in 1 .. Len(tc2) : i \in 1 .. Len(toClient) \/ tc2[i] = p
  <2>1. \A i \in 1 .. Len(tc2) : i \in 1 .. Len(toClient) \/ i = Len(toClient) + 1  BY <1>1, <1>5
  <2> QED  BY <2>1, <1>5
<1>13. CASE mine # None
  <2>1. Len(tc2) >= Len(toClient)  BY <1>1, <1>5
  <2>2. \A n \in Len(toClient) + 1 .. Len(tc2) : tc2[n].type # "error"
    <3>1. \A n \in Len(toClient) + 1 .. Len(tc2) : n = Len(toClient) + 1  BY <1>1, <1>5
    <3> QED  BY <3>1, <1>4, <1>5
  <2>3. mine \in Nicks  BY <1>1, <1>13
  <2>4. \A e \in 0 .. Len(toClient) :
          Inside(mine, e, toClient, mine, View(mine), occupants) => Inside(mine, e, tc2, mine, View(mine), occupants)
    BY <1>11, <2>3
  <2>5. Stage' /\ OneJoin'
    BY <1>1, <1>2, <1>5, <1>6, <1>13, <2>1, <2>2, <2>4, Tells
  <2> QED  BY <1>1, <1>2, <1>5, <1>6, <1>8, <1>9, <1>10, <2>5 DEF UInv, Sorts
<1>14. CASE mine = None
  <2>1. /\ state' = state /\ nick' = nick /\ role' = role /\ members' = members /\ handlers' = handlers
        /\ asked' = asked
    BY <1>2 DEF client
  <2>2. \A me : View(me)' = View(me)  BY <2>1 DEF View
  <2>3. Answers(toClient) => Answers(tc2)  BY <1>4, <1>5, <1>12 DEF Answers
  <2>4. Stage'
    <3>1. state # "created"  BY <1>1, <1>2 DEF Stage
    <3>2. Outside => Outside'  BY <2>1, <1>2, <1>4, <1>5, <1>6, <1>12 DEF Outside
    <3>3. ASSUME NEW me \in Nicks, NEW e \in 0 .. Len(toClient), Follows(me, e) PROVE Follows(me, e)'
      <4>1. Inside(me, e, tc2, mine, View(me), occupants)  BY <1>11, <3>3 DEF Follows
      <4>2. View(me)' = View(me)  BY <2>2
      <4> QED  BY <4>1, <4>2, <3>3, <2>1, <1>2, <1>6 DEF Follows
    <3>4. ASSUME NEW e \in 1 .. Len(toClient), Enters(e) PROVE e \in 1 .. Len(tc2) /\ Enters(e)'
      <4>1. Entry(e, tc2)  BY <1>1, <1>5, <3>4, EntryTold DEF Enters
      <4>2. Entry(e, toClient)'  BY <4>1, <1>6, <2>1 DEF Entry, Precedes, OwnPresence
      <4>3. PICK me : me = toClient[e].nick  OBVIOUS
      <4>4. me \in Nicks
        <5>1. toClient[e] \in Stanzas /\ toClient[e].type = "available"  BY <1>1, <3>4 DEF Enters, Entry
        <5> QED  BY <5>1, <4>3, Kinds
      <4>5. e \in 0 .. Len(toClient) /\ e \in 1 .. Len(tc2)  BY <1>1, <1>5
      <4>6. Follows(me, e)'  BY <3>3, <3>4, <4>3, <4>4, <4>5 DEF Enters
      <4>7. toClient'[e].nick = me  BY <4>3, <1>5, <1>6
      <4>8. Follows(toClient[e].nick, e)'  BY <4>6, <4>7 DEF Follows, View
      <4> QED  BY <4>2, <4>5, <4>8 DEF Enters
    <3>5. Entering => Entering'  BY <3>4, <1>6 DEF Entering
    <3>6. Follows(nick, 0) => Follows(nick, 0)'
      <4>1. PICK me : me = nick  OBVIOUS
      <4>2. 0 \in 0 .. Len(toClient) /\ me \in Nicks  BY <1>1, <4>1 DEF TypeOK
      <4>3. Follows(me, 0) => Follows(me, 0)'  BY <3>3, <4>2
      <4> QED  BY <4>1, <4>3, <2>1 DEF Follows, View
    <3>7. Answers(toClient) => Answers(toClient)'  BY <2>3, <1>6 DEF Answers
    <3>8. /\ state = "initiated" => Outside \/ Entering
          /\ state = "joined" => Follows(nick, 0)
          /\ state = "ended" => Answers(toClient)
          /\ handlers
      BY <1>1, <3>1 DEF Stage
    <3>9. mine' = None  BY <1>2, <1>14
    <3> QED  BY <3>1, <3>2, <3>5, <3>6, <3>7, <3>8, <3>9, <2>1 DEF Stage
  <2>5. OneJoin'
    <3>1. /\ Len(toRoom') \in Nat
          /\ \A n \in 1 .. Len(toRoom') : n + 1 \in 1 .. Len(toRoom) /\ toRoom'[n] = toRoom[n + 1]
      <4>1. /\ Len(toRoom) \in Nat \ {0} /\ Len(toRoom') = Len(toRoom) - 1
            /\ \A n \in 1 .. Len(toRoom) - 1 : toRoom'[n] = toRoom[n + 1]
        BY <1>1, <1>2, TailFacts
      <4> QED  BY <4>1
    <3>2. \A m, n \in 1 .. Len(toRoom') : toRoom'[m].ask = "join" /\ toRoom'[n].ask = "join" => m = n
      <4> TAKE m, n \in 1 .. Len(toRoom')
      <4>1. toRoom'[m].ask = "join" /\ toRoom'[n].ask = "join" => m + 1 = n + 1
        BY <1>1, <3>1 DEF OneJoin
      <4> QED  BY <4>1
    <3>3. \A n \in 1 .. Len(toRoom') :
            /\ toRoom'[n].ask = "join" =>
                 /\ state = "initiated" /\ "join" \in asked /\ toRoom'[n].nick = nick
                 /\ Answers(toClient)
            /\ toRoom'[n].ask = "leave" => state \in {"joined", "ended"}
      BY <1>1, <3>1 DEF OneJoin
    <3>4. \A m, n \in 1 .. Len(tc2) : tc2[m].type = "error" /\ tc2[n].type = "error" => m = n
      BY <1>1, <1>4, <1>5, <1>12 DEF OneJoin
    <3>5. state = "initiated" /\ ~Answers(tc2) => "join" \in asked  BY <1>1, <2>3 DEF OneJoin
    <3> QED  BY <3>2, <3>3, <3>4, <3>5, <2>1, <2>3, <1>6 DEF OneJoin
  <2> QED  BY <1>1, <1>2, <1>5, <1>6, <1>8, <1>9, <1>10, <2>4, <2>5 DEF UInv, Sorts
<1> QED  BY <1>13, <1>14

-----------------------------------------------------------------------------
(* The answer to a join *)

LEMMA ConcatFacts ==
  ASSUME NEW S, NEW s \in Seq(S), NEW t \in Seq(S)
  PROVE  /\ s \o t \in Seq(S) /\ Len(s) \in Nat /\ Len(t) \in Nat /\ Len(s \o t) = Len(s) + Len(t)
         /\ \A n \in 1 .. Len(s) : (s \o t)[n] = s[n]
         /\ \A n \in Len(s) + 1 .. Len(s) + Len(t) : (s \o t)[n] = t[n - Len(s)]
BY ConcatProperties

\* A join waits with nothing else about us under way.
LEMMA JoinWaits ==
  ASSUME UInv, Served("join")
  PROVE  /\ state = "initiated" /\ "join" \in asked /\ Head(toRoom).nick = nick
         /\ Answers(toClient) /\ Outside
         /\ toRoom' = Tail(toRoom) /\ toRoom' \in Seq(Requests) /\ Len(toRoom') \in Nat
         /\ \A n \in 1 .. Len(toRoom') : toRoom'[n].ask # "join" /\ toRoom'[n].ask # "leave"
<1>1. /\ Stage /\ OneJoin /\ toRoom \in Seq(Requests) /\ toRoom # <<>> /\ Head(toRoom).ask = "join"
      /\ toRoom' = Tail(toRoom)
  BY DEF UInv, Sorts, Served
<1>2. /\ Len(toRoom) \in Nat \ {0} /\ Len(toRoom') = Len(toRoom) - 1 /\ Head(toRoom) = toRoom[1]
      /\ \A n \in 1 .. Len(toRoom) - 1 : toRoom'[n] = toRoom[n + 1]
      /\ toRoom' \in Seq(Requests)
  BY <1>1, TailFacts
<1>3. 1 \in 1 .. Len(toRoom) /\ toRoom[1].ask = "join"  BY <1>1, <1>2
<1>4. state = "initiated" /\ "join" \in asked /\ toRoom[1].nick = nick /\ Answers(toClient)
  BY <1>1, <1>3 DEF OneJoin
<1>5. ~Entering  BY <1>4 DEF Entering, Enters, Entry, Answers
<1>6. Outside  BY <1>1, <1>4, <1>5 DEF Stage
<1>7. \A n \in 1 .. Len(toRoom') : toRoom'[n].ask # "join" /\ toRoom'[n].ask # "leave"
  <2> TAKE n \in 1 .. Len(toRoom')
  <2>1. n + 1 \in 1 .. Len(toRoom) /\ n + 1 # 1 /\ toRoom'[n] = toRoom[n + 1]  BY <1>2
  <2> QED  BY <2>1, <1>1, <1>3, <1>4 DEF OneJoin
<1>8. Len(toRoom') \in Nat  BY <1>2
<1> QED  BY <1>1, <1>2, <1>4, <1>6, <1>7, <1>8

LEMMA JoinRefused == ASSUME UInv, ServeJoin(None) PROVE UInv'
<1> DEFINE p == Presence("error", nick, None, None)
<1>1. /\ Sorts /\ TypeOK /\ Stage /\ OneJoin /\ TypeIsCurrent(toClient, roomType, config)
      /\ SignalsTellAll /\ toClient \in Seq(Stanzas) /\ Len(toClient) \in Nat
  BY DEF UInv, Sorts
<1>2. /\ Served("join") /\ UNCHANGED <<client, asked>>
      /\ calls' = calls /\ events' = events /\ config' = config /\ occupants' = occupants /\ mine' = mine
  BY DEF ServeJoin, Served
<1>3. handlers  BY <1>1, <1>2, JoinWaits DEF Stage
<1>4. p \in Stanzas /\ p.type = "error"
  <2>1. nick \in Nicks  BY <1>1 DEF TypeOK
  <2>2. p \in Presences  BY <2>1 DEF Presence, Presences
  <2>3. Announced(p)  BY DEF Presence, Announced
  <2> QED  BY <2>2, <2>3 DEF Stanzas, Presence
<1>5. toClient' = toClient \o <<p>>  BY <1>2, <1>3, JoinWaits DEF ServeJoin, Send
<1> DEFINE tc2 == Append(toClient, p)
<1>6. toClient' = tc2 /\ tc2 \in Seq(Stanzas)  BY <1>1, <1>3, <1>4, <1>5, OneTold
<1>7. Len(tc2) = Len(toClient) + 1 /\ tc2[Len(toClient) + 1] = p
        /\ \A i \in 1 .. Len(toClient) : tc2[i] = toClient[i]
  BY <1>1, <1>4, AppendFacts
<1>8. TypeIsCurrent(tc2, roomType, config)
  <2>1. ~Describes(p)  BY <1>4 DEF Describes
  <2> HIDE DEF p
  <2> QED  BY <1>1, <1>4, <2>1, TypeTold
<1> HIDE DEF p, tc2
<1>9. \A i \in 1 .. Len(tc2) : i \in 1 .. Len(toClient) \/ i = Len(toClient) + 1  BY <1>1, <1>7
<1>10. \A i \in 1 .. Len(toClient) : toClient[i].type = "disco"
  BY <1>2, JoinWaits DEF Answers
<1>11. /\ state' = state /\ nick' = nick /\ members' = members /\ handlers' = handlers
       /\ asked' = asked /\ roomType' = roomType
  BY <1>2 DEF client
<1>12. Stage'
  <2>1. Outside'
    <3>1. mine = None /\ members = Nobody  BY <1>2, JoinWaits DEF Outside
    <3>2. \A i \in 1 .. Len(tc2) : tc2[i].type \in {"disco", "error"}
      BY <1>4, <1>7, <1>9, <1>10
    <3> QED  BY <3>1, <3>2, <1>2, <1>6, <1>11 DEF Outside
  <2>2. state' = "initiated" /\ handlers'  BY <1>2, <1>3, <1>11, JoinWaits
  <2> QED  BY <2>1, <2>2 DEF Stage
<1>13. OneJoin'
  <2>1. \A m, n \in 1 .. Len(tc2) : tc2[m].type = "error" /\ tc2[n].type = "error" => m = n
    BY <1>7, <1>9, <1>10
  <2> QED  BY <2>1, <1>2, <1>6, <1>11, JoinWaits DEF OneJoin
<1>14. TypeOK'
  <2>1. calls' \in 0 .. MaxCalls /\ events' \in 0 .. MaxEvents  BY <1>1, <1>2 DEF TypeOK
  <2> QED  BY <2>1, <1>1, <1>2, TypeSame DEF TypeOK
<1>15. SignalsTellAll'  BY <1>1, <1>2 DEF SignalsTellAll, client
<1> QED  BY <1>2, <1>6, <1>8, <1>11, <1>12, <1>13, <1>14, <1>15, JoinWaits DEF UInv, Sorts

\* The room tells us of the others, then of us, and maybe what was said before.
LEMMA JoinAccepted == ASSUME Ordinary, UInv, NEW n \in Nicks, ServeJoin(n) PROVE UInv'
<1>1. /\ Sorts /\ TypeOK /\ Stage /\ OneJoin /\ TypeIsCurrent(toClient, roomType, config)
      /\ SignalsTellAll /\ toClient \in Seq(Stanzas) /\ Len(toClient) \in Nat
      /\ occupants \in [Nicks -> Roles \cup {None}] /\ None \notin Nicks
  BY NoneIsNobody DEF UInv, Sorts, TypeOK
<1>2. /\ Served("join") /\ UNCHANGED <<client, asked>>
      /\ calls' = calls /\ events' = events /\ config' = config
  BY DEF ServeJoin, Served
<1>3. mine = None /\ members = Nobody /\ handlers /\ Head(toRoom).nick = nick
  BY <1>1, <1>2, JoinWaits DEF Stage, Outside
<1> DEFINE K == Cardinality(Others)
           everybody == [i \in 1 .. K |-> Present(SetToSeq(Others)[i], None)]
           occ2 == [occupants EXCEPT ![n] = "participant"]
           Old(o) == [type |-> "groupchat", nick |-> o, role |-> "participant", delayed |-> TRUE]
<1>4. /\ n \in Free /\ nick \in Free /\ mine' = n /\ occupants' = occ2
      /\ \E m \in IF n = nick THEN {None, "own"} ELSE {"forced"}, old \in {<<>>} \cup {<<Old(o)>> : o \in Nicks} :
           Send(everybody \o <<Presence("available", n, "participant", m)>> \o old)
  BY <1>1, <1>3 DEF ServeJoin, Ordinary
<1>5. PICK m \in IF n = nick THEN {None, "own"} ELSE {"forced"}, old \in {<<>>} \cup {<<Old(o)>> : o \in Nicks} :
        toClient' = toClient \o (everybody \o <<Presence("available", n, "participant", m)>> \o old)
  BY <1>3, <1>4 DEF Send
<1> DEFINE p == Presence("available", n, "participant", m)
           tc2 == toClient \o (everybody \o <<p>> \o old)
           e == Len(toClient) + K + 1
<1>6. occupants[n] = None /\ occupants[nick] = None /\ nick \in Nicks  BY <1>4 DEF Free
<1>7. K \in Nat /\ (\A i \in 1 .. K : SetToSeq(Others)[i] \in Others)
        /\ (\A x \in Others : \E i \in 1 .. K : SetToSeq(Others)[i] = x)
  <2>1. IsFiniteSet(Nicks)  BY MucAssumption DEF MucAssumption
  <2>2. IsFiniteSet(Others)  BY <2>1, FS_Subset DEF Others
  <2> QED  BY <2>2, ListsAll
<1>8. \A x \in Others : x \in Nicks /\ occupants[x] # None /\ x # n /\ x # nick /\ occ2[x] = occupants[x]
  BY <1>1, <1>6 DEF Others
<1>9. \A x \in Others :
        /\ Present(x, None) \in Stanzas /\ Present(x, None).type = "available" /\ Present(x, None).nick = x
        /\ Present(x, None).role = occupants[x] /\ Present(x, None).mark = None /\ Present(x, None).config = None
  <2> TAKE x \in Others
  <2>1. x \in Nicks /\ occupants[x] \in Roles \cup {None}  BY <1>1, <1>8
  <2> QED  BY <2>1, PresenceIsStanza DEF Present
<1>10. /\ p \in Stanzas /\ p.type = "available" /\ p.nick = n /\ p.role = "participant" /\ p.mark = m
       /\ p.config = None
  BY PresenceIsStanza DEF Roles
<1>11. OwnPresence(p)
  <2>1. n # nick => m # None  BY MucAssumption DEF MucAssumption
  <2> QED  BY <2>1, <1>10 DEF OwnPresence
<1>12. /\ old \in Seq(Stanzas) /\ Len(old) \in {0, 1}
       /\ \A i \in 1 .. Len(old) : old[i].type = "groupchat" /\ old[i].delayed
  <2>1. CASE old = <<>>  BY <2>1
  <2>2. ASSUME NEW o \in Nicks, old = <<Old(o)>> 
        PROVE  /\ old \in Seq(Stanzas) /\ Len(old) \in {0, 1}
               /\ \A i \in 1 .. Len(old) : old[i].type = "groupchat" /\ old[i].delayed
    <3>1. Old(o) \in Stanzas /\ Old(o).type = "groupchat" /\ Old(o).delayed = TRUE
      BY DEF Stanzas, Messages, Roles
    <3> HIDE DEF Old
    <3>2. Len(old) = 1 /\ old[1] = Old(o)  BY <2>2
    <3>3. old \in Seq(Stanzas)  BY <2>2, <3>1
    <3>4. \A i \in 1 .. Len(old) : i = 1  BY <3>2
    <3> QED  BY <3>1, <3>2, <3>3, <3>4
  <2> QED  BY <2>1, <2>2
<1>13. /\ everybody \in Seq(Stanzas) /\ Len(everybody) = K
       /\ \A i \in 1 .. K : everybody[i] = Present(SetToSeq(Others)[i], None)
  BY <1>7, <1>9
<1> HIDE DEF everybody, p, K
<1> DEFINE new == everybody \o <<p>>
<1>14. /\ new \in Seq(Stanzas) /\ Len(new) = K + 1 /\ new[K + 1] = p
       /\ \A i \in 1 .. K : new[i] = everybody[i]
  BY <1>10, <1>13, AppendFacts
<1> HIDE DEF new
<1> DEFINE all == new \o old
<1>15. /\ all \in Seq(Stanzas) /\ Len(all) = K + 1 + Len(old)
       /\ \A i \in 1 .. K + 1 : all[i] = new[i]
       /\ \A i \in K + 2 .. K + 1 + Len(old) : all[i] = old[i - (K + 1)]
  BY <1>7, <1>12, <1>14, ConcatFacts
<1> HIDE DEF all
<1>16. /\ toClient \o all \in Seq(Stanzas) /\ Len(toClient \o all) = Len(toClient) + K + 1 + Len(old)
       /\ \A i \in 1 .. Len(toClient) : (toClient \o all)[i] = toClient[i]
       /\ \A i \in Len(toClient) + 1 .. Len(toClient) + K + 1 + Len(old) :
            (toClient \o all)[i] = all[i - Len(toClient)]
  <2>1. /\ toClient \o all \in Seq(Stanzas) /\ Len(toClient \o all) = Len(toClient) + Len(all)
        /\ \A i \in 1 .. Len(toClient) : (toClient \o all)[i] = toClient[i]
        /\ \A i \in Len(toClient) + 1 .. Len(toClient) + Len(all) :
             (toClient \o all)[i] = all[i - Len(toClient)]
    <3>1. toClient \in Seq(Stanzas) /\ all \in Seq(Stanzas)  BY <1>1, <1>15
    <3> QED  BY <3>1, ConcatFacts
  <2>2. Len(toClient) + Len(all) = Len(toClient) + K + 1 + Len(old)  BY <1>1, <1>7, <1>12, <1>15
  <2> QED  BY <2>1, <2>2
<1>17. tc2 = toClient \o all  BY DEF all, new
<1>18. toClient' = tc2  BY <1>5 DEF p
<1> HIDE DEF tc2
\* What is where
<1>19. /\ tc2 \in Seq(Stanzas) /\ Len(tc2) = e + Len(old) /\ e \in Nat \ {0} /\ e \in 1 .. Len(tc2)
       /\ tc2[e] = p
       /\ \A i \in 1 .. Len(toClient) : tc2[i] = toClient[i]
       /\ \A i \in 1 .. K : tc2[Len(toClient) + i] = Present(SetToSeq(Others)[i], None)
       /\ \A i \in e + 1 .. Len(tc2) : tc2[i].type = "groupchat" /\ tc2[i].delayed
  <2>1. tc2 \in Seq(Stanzas) /\ Len(tc2) = e + Len(old) /\ e \in Nat \ {0} /\ e \in 1 .. Len(tc2)
    BY <1>1, <1>7, <1>12, <1>16, <1>17
  <2>2. tc2[e] = p
    <3>1. e \in Len(toClient) + 1 .. Len(toClient) + K + 1 + Len(old) /\ e - Len(toClient) = K + 1
            /\ K + 1 \in 1 .. K + 1
      BY <1>1, <1>7, <1>12
    <3> QED  BY <3>1, <1>14, <1>15, <1>16, <1>17
  <2>3. ASSUME NEW i \in 1 .. K PROVE tc2[Len(toClient) + i] = Present(SetToSeq(Others)[i], None)
    <3>1. /\ Len(toClient) + i \in Len(toClient) + 1 .. Len(toClient) + K + 1 + Len(old)
          /\ (Len(toClient) + i) - Len(toClient) = i /\ i \in 1 .. K + 1
      BY <1>1, <1>7, <1>12
    <3> QED  BY <3>1, <1>13, <1>14, <1>15, <1>16, <1>17
  <2>4. ASSUME NEW i \in e + 1 .. Len(tc2) PROVE tc2[i].type = "groupchat" /\ tc2[i].delayed
    <3>1. /\ i \in Len(toClient) + 1 .. Len(toClient) + K + 1 + Len(old)
          /\ i - Len(toClient) \in K + 2 .. K + 1 + Len(old)
          /\ (i - Len(toClient)) - (K + 1) \in 1 .. Len(old)
      BY <1>1, <1>7, <1>12, <2>1
    <3>2. tc2[i] = old[(i - Len(toClient)) - (K + 1)]  BY <3>1, <1>15, <1>16, <1>17
    <3> QED  BY <3>1, <3>2, <1>12
  <2> QED  BY <2>1, <2>2, <2>3, <2>4, <1>16, <1>17
<1> HIDE DEF e
<1>20. \A i \in 1 .. Len(tc2) :
         \/ i \in 1 .. Len(toClient) /\ i < e /\ tc2[i].type = "disco"
         \/ /\ i < e
            /\ \E x \in Others : tc2[i] = Present(x, None)
         \/ i = e
         \/ i > e /\ tc2[i].type = "groupchat" /\ tc2[i].delayed
  <2> TAKE i \in 1 .. Len(tc2)
  <2>1. e = Len(toClient) + K + 1  BY DEF e
  <2>2. \/ i \in 1 .. Len(toClient) /\ i < e
        \/ i - Len(toClient) \in 1 .. K /\ Len(toClient) + (i - Len(toClient)) = i /\ i < e
        \/ i = e
        \/ i \in e + 1 .. Len(tc2) /\ i > e
    BY <2>1, <1>1, <1>7, <1>19
  <2>3. CASE i \in 1 .. Len(toClient) /\ i < e
    BY <2>3, <1>2, <1>19, JoinWaits DEF Answers
  <2>4. CASE i - Len(toClient) \in 1 .. K /\ Len(toClient) + (i - Len(toClient)) = i /\ i < e
    <3>1. tc2[i] = Present(SetToSeq(Others)[i - Len(toClient)], None)  BY <2>4, <1>19
    <3> QED  BY <3>1, <2>4, <1>7
  <2>5. CASE i \in e + 1 .. Len(tc2) /\ i > e  BY <2>5, <1>19
  <2> QED  BY <2>2, <2>3, <2>4, <2>5
<1>21. /\ state' = "initiated" /\ nick' = nick /\ members' = members /\ handlers' = handlers /\ role' = role
       /\ asked' = asked /\ roomType' = roomType /\ "join" \in asked
  BY <1>2, JoinWaits DEF client
<1>22. \A i \in 1 .. Len(tc2) : tc2[i].type # "error" /\ (i # e => ~Marked(tc2[i])) /\ ~Spoken(tc2[i])
          /\ tc2[i].type # "unavailable"
  BY <1>9, <1>10, <1>19, <1>20 DEF Marked, Spoken
<1>23. Entry(e, tc2)
  <2>1. ASSUME NEW i \in 1 .. e - 1 PROVE Precedes(tc2[i], e, tc2)
    <3>1. i \in 1 .. Len(tc2) /\ i < e  BY <1>19
    <3> QED  BY <3>1, <1>8, <1>9, <1>10, <1>19, <1>20 DEF Precedes
  <2> QED  BY <2>1, <1>10, <1>11, <1>19 DEF Entry
<1>24. Stays(n, e, tc2, n)
  <2>1. \A i \in e + 1 .. Len(tc2) : i \in 1 .. Len(tc2) /\ i # e  BY <1>19
  <2> QED  BY <2>1, <1>1, <1>22 DEF Stays, Leaves
<1>25. Heard(tc2, View(n))  BY <1>22 DEF Heard
<1>26. Current(tc2, View(n), occ2)
  <2> SUFFICES ASSUME NEW k \in Nicks PROVE Says(tc2, Len(tc2) + 1, k, View(n)[k], occ2[k])
    BY DEF Current
  <2>1. Len(tc2) + 1 - 1 = Len(tc2)  BY <1>19
  <2>2. ASSUME \A i \in 1 .. Len(tc2) : ~News(tc2[i], k) PROVE View(n)[k] = occ2[k]
    <3>1. k # n  BY <2>2, <1>10, <1>19 DEF News
    <3>2. k \notin Others
      <4> SUFFICES ASSUME k \in Others PROVE FALSE  OBVIOUS
      <4>1. PICK i \in 1 .. K : SetToSeq(Others)[i] = k  BY <1>7
      <4>2. Len(toClient) + i \in 1 .. Len(tc2)  BY <1>1, <1>7, <1>19, <1>12 DEF e
      <4>3. tc2[Len(toClient) + i] = Present(k, None)  BY <4>1, <1>19
      <4> QED  BY <4>2, <4>3, <2>2, <1>9 DEF News
    <3>3. occupants[k] = None  BY <3>2, <1>1, <1>3 DEF Others
    <3>4. occ2[k] = None  BY <3>1, <3>3, <1>1
    <3>5. View(n)[k] = None  BY <3>1, <1>3 DEF View, Nobody
    <3> QED  BY <3>4, <3>5
  <2>3. ASSUME NEW i \in 1 .. Len(tc2), News(tc2[i], k) PROVE tc2[i].role = occ2[k]
    <3>1. CASE i = e  BY <3>1, <2>3, <1>1, <1>10, <1>19 DEF News
    <3>2. ASSUME NEW x \in Others, tc2[i] = Present(x, None) PROVE tc2[i].role = occ2[k]
      BY <3>2, <2>3, <1>8, <1>9 DEF News
    <3> QED  BY <3>1, <3>2, <2>3, <1>20 DEF News
  <2> QED  BY <2>1, <2>2, <2>3 DEF Says
<1>27. View(n)' = View(n)  BY <1>21 DEF View
<1>28. members[n] = None  BY <1>3 DEF Nobody
<1>29. Entering'
  <2>0. PICK f : f = e  OBVIOUS
  <2>1. Inside(n, f, tc2, n, View(n), occ2)  BY <2>0, <1>24, <1>25, <1>26 DEF Inside
  <2>2. mine' = n /\ occupants' = occ2  BY <1>4
  <2> HIDE DEF occ2
  <2>3. Follows(n, f)'  BY <2>1, <2>2, <1>18, <1>21, <1>27, <1>28 DEF Follows
  <2>4. toClient'[f].nick = n  BY <2>0, <1>10, <1>18, <1>19
  <2>5. Follows(toClient[f].nick, f)'  BY <2>3, <2>4 DEF Follows, View
  <2>6. Entry(f, toClient)'  BY <2>0, <1>18, <1>21, <1>23 DEF Entry, Precedes, OwnPresence
  <2>7. Enters(f)'  BY <2>5, <2>6 DEF Enters
  <2> QED  BY <2>0, <2>7, <1>18, <1>19 DEF Entering
<1>30. Stage'  BY <1>3, <1>21, <1>29 DEF Stage
<1>31. OneJoin'
  BY <1>2, <1>18, <1>21, <1>22, JoinWaits DEF OneJoin
<1>32. TypeIsCurrent(tc2, roomType, config)
  <2>1. \A i \in 1 .. Len(tc2) : Describes(tc2[i]) => i \in 1 .. Len(toClient)
    <3> TAKE i \in 1 .. Len(tc2)
    <3>1. i = e => ~Describes(tc2[i])  BY <1>10, <1>19 DEF Describes
    <3>2. (\E x \in Others : tc2[i] = Present(x, None)) => ~Describes(tc2[i])  BY <1>9 DEF Describes
    <3>3. tc2[i].type = "groupchat" => ~Describes(tc2[i])  BY DEF Describes
    <3> QED  BY <3>1, <3>2, <3>3, <1>20
  <2>2. \A i \in 1 .. Len(toClient) : i \in 1 .. Len(tc2) /\ tc2[i] = toClient[i]
    BY <1>1, <1>7, <1>12, <1>19 DEF e
  <2>3. (\A i \in 1 .. Len(tc2) : ~Describes(tc2[i])) => Fits(roomType, config)
    BY <2>2, <1>1 DEF TypeIsCurrent
  <2>4. ASSUME NEW i \in 1 .. Len(tc2), Describes(tc2[i])
        PROVE  Fits(Flags(tc2[i].config), config) \/ \E j \in i + 1 .. Len(tc2) : Describes(tc2[j])
    <3>1. i \in 1 .. Len(toClient) /\ tc2[i] = toClient[i]  BY <2>1, <2>2, <2>4
    <3>2. Fits(Flags(toClient[i].config), config) \/ \E j \in i + 1 .. Len(toClient) : Describes(toClient[j])
      BY <3>1, <2>4, <1>1 DEF TypeIsCurrent
    <3>3. \A j \in i + 1 .. Len(toClient) : j \in 1 .. Len(toClient) /\ j \in i + 1 .. Len(tc2)
      BY <3>1, <1>1, <1>7, <1>12, <1>19 DEF e
    <3> QED  BY <3>1, <3>2, <3>3, <2>2
  <2> QED  BY <2>3, <2>4 DEF TypeIsCurrent
<1>33. TypeOK'
  <2>1. calls' \in 0 .. MaxCalls /\ events' \in 0 .. MaxEvents /\ config \in RoomTypes
    BY <1>1, <1>2 DEF TypeOK
  <2>2. occ2 \in [Nicks -> Roles \cup {None}]  BY <1>1 DEF Roles
  <2>3. occ2[n] # None
    <3>1. "participant" # None  BY MucAssumption DEF MucAssumption, Roles
    <3> QED  BY <3>1, <1>1
  <2>4. mine' = n /\ occupants' = occ2  BY <1>4
  <2> QED  BY <2>1, <2>2, <2>3, <2>4, <1>1, <1>2, TypeSame
<1>34. SignalsTellAll'  BY <1>1, <1>2 DEF SignalsTellAll, client
<1>35. TypeIsCurrent(toClient, roomType, config)'  BY <1>2, <1>18, <1>21, <1>32
<1> QED  BY <1>2, <1>18, <1>19, <1>30, <1>31, <1>33, <1>34, <1>35, JoinWaits DEF UInv, Sorts

-----------------------------------------------------------------------------
(* The application *)

LEMMA Asked ==
  ASSUME UInv, NEW what \in {"join", "leave", "disco"}, NEW k \in Nicks, Ask(what, [ask |-> what, nick |-> k])
  PROVE  /\ toRoom' \in Seq(Requests) /\ Len(toRoom) \in Nat /\ Len(toRoom') = Len(toRoom) + 1
         /\ toRoom'[Len(toRoom) + 1] = [ask |-> what, nick |-> k]
         /\ \A n \in 1 .. Len(toRoom) : toRoom'[n] = toRoom[n]
         /\ \A n \in 1 .. Len(toRoom') : n \in 1 .. Len(toRoom) \/ n = Len(toRoom) + 1
         /\ calls' \in 0 .. MaxCalls /\ events' = events /\ asked' = asked \cup {what}
         /\ UNCHANGED <<room, toClient>>
<1>1. toRoom \in Seq(Requests) /\ calls \in 0 .. MaxCalls /\ MaxCalls \in Nat
  BY MucAssumption DEF UInv, Sorts, TypeOK, MucAssumption
<1>2. [ask |-> what, nick |-> k] \in Requests  BY DEF Requests
<1>3. toRoom' = Append(toRoom, [ask |-> what, nick |-> k])  BY DEF Ask
<1>4. /\ toRoom' \in Seq(Requests) /\ Len(toRoom') = Len(toRoom) + 1
      /\ toRoom'[Len(toRoom) + 1] = [ask |-> what, nick |-> k]
      /\ \A n \in 1 .. Len(toRoom) : toRoom'[n] = toRoom[n]
  BY <1>1, <1>2, <1>3, AppendFacts
<1>5. Len(toRoom) \in Nat /\ \A n \in 1 .. Len(toRoom') : n \in 1 .. Len(toRoom) \/ n = Len(toRoom) + 1
  BY <1>1, <1>4
<1>6. calls' \in 0 .. MaxCalls  BY <1>1 DEF Ask
<1> QED  BY <1>4, <1>5, <1>6 DEF Ask

LEMMA JoinKeeps == ASSUME Ordinary, UInv, NEW n \in Nicks, Join(n) PROVE UInv'
<1>1. /\ Sorts /\ TypeOK /\ Stage /\ OneJoin /\ TypeIsCurrent(toClient, roomType, config)
      /\ SignalsTellAll
  BY DEF UInv, Sorts
<1>2. Before(state, "joined") /\ "join" \notin asked  BY DEF Join, Ordinary
<1>3. /\ nick' = n /\ handlers' = Registered /\ state' = "initiated"
      /\ role' = role /\ roomType' = roomType /\ members' = members /\ shown' = shown /\ heard' = heard
      /\ Ask("join", [ask |-> "join", nick |-> n])
  BY DEF Join
<1>4. state \in {"created", "initiated"}  BY <1>1, <1>2, Order DEF TypeOK
<1>5. handlers' = TRUE
  <2>1. state = "created" => Before(state, "initiated")  BY <1>1, Order DEF TypeOK
  <2> QED  BY <2>1, <1>1, <1>3, <1>4 DEF Registered, Stage, TypeOK
<1>6. Answers(toClient)
  <2>1. toClient = <<>> => Answers(toClient)
    <3> SUFFICES ASSUME toClient = <<>> PROVE Answers(toClient)  OBVIOUS
    <3>1. Len(toClient) = 0  OBVIOUS
    <3>2. 1 .. Len(toClient) = {}  BY <3>1
    <3> QED  BY <3>2 DEF Answers
  <2> QED  BY <2>1, <1>1, <1>2, <1>4 DEF OneJoin, Stage
<1>7. mine = None /\ members = Nobody
  <2>1. ~Entering  BY <1>6 DEF Entering, Enters, Entry, Answers
  <2> QED  BY <2>1, <1>1, <1>4 DEF Stage, Outside
<1>8. mine' = mine /\ occupants' = occupants /\ config' = config /\ toClient' = toClient
        /\ asked' = asked \cup {"join"} /\ events' = events /\ calls' \in 0 .. MaxCalls
  BY <1>3, Asked DEF room
<1>9. Answers(toClient)'  BY <1>6, <1>8 DEF Answers
<1>10. Outside'  BY <1>3, <1>7, <1>8, <1>9 DEF Outside, Answers
<1>11. Stage'  BY <1>3, <1>5, <1>10 DEF Stage
<1>12. OneJoin'
  <2>1. \A i \in 1 .. Len(toRoom) : toRoom[i].ask \notin {"join", "leave"}
    <3> TAKE i \in 1 .. Len(toRoom)
    <3>1. toRoom[i].ask # "join"  BY <1>1, <1>2 DEF OneJoin
    <3>2. toRoom[i].ask # "leave"  BY <1>1, <1>4 DEF OneJoin
    <3> QED  BY <3>1, <3>2
  <2>2. \A i \in 1 .. Len(toRoom') : toRoom'[i].ask \in {"join", "leave"} =>
          i = Len(toRoom) + 1 /\ toRoom'[i] = [ask |-> "join", nick |-> n]
    BY <1>3, <2>1, Asked
  <2>3. \A i, j \in 1 .. Len(toClient') : ~(toClient'[i].type = "error" /\ toClient'[j].type = "error")
    BY <1>9 DEF Answers
  <2>4. \A i \in 1 .. Len(toRoom') :
          /\ toRoom'[i].ask = "join" => toRoom'[i].nick = n
          /\ toRoom'[i].ask # "leave"
    BY <2>2
  <2> QED  BY <1>3, <1>8, <1>9, <2>2, <2>3, <2>4 DEF OneJoin
<1>13. TypeOK'
  <2>1. state' \in Range(States)
    <3>1. 2 \in DOMAIN States /\ States[2] = "initiated"  BY DEF States
    <3> QED  BY <3>1, <1>3 DEF Range
  <2>2. asked' \subseteq {"join", "leave", "disco"} /\ handlers' \in BOOLEAN  BY <1>1, <1>5, <1>8 DEF TypeOK
  <2> QED  BY <2>1, <2>2, <1>1, <1>3, <1>5, <1>8 DEF TypeOK
<1>14. SignalsTellAll'  BY <1>1, <1>3 DEF SignalsTellAll
<1>15. TypeIsCurrent(toClient, roomType, config)'  BY <1>1, <1>3, <1>8
<1> QED  BY <1>1, <1>3, <1>8, <1>11, <1>12, <1>13, <1>14, <1>15, Asked DEF UInv, Sorts

\* A request that is not a join changes nothing but what is asked.
LEMMA AskKeeps ==
  ASSUME UInv, NEW what \in {"leave", "disco"}, Ask(what, [ask |-> what, nick |-> nick]), UNCHANGED client,
         state # "created", what = "leave" => state = "joined"
  PROVE  UInv'
<1>1. /\ Sorts /\ TypeOK /\ Stage /\ OneJoin /\ TypeIsCurrent(toClient, roomType, config)
      /\ SignalsTellAll /\ nick \in Nicks
  BY DEF UInv, Sorts, TypeOK
<1>2. /\ state' = state /\ nick' = nick /\ role' = role /\ members' = members /\ handlers' = handlers
      /\ roomType' = roomType /\ shown' = shown /\ heard' = heard
  BY DEF client
<1>3. mine' = mine /\ occupants' = occupants /\ config' = config /\ toClient' = toClient
        /\ asked' = asked \cup {what} /\ events' = events /\ calls' \in 0 .. MaxCalls
  BY <1>1, Asked DEF room
<1>4. Stage'
  <2>1. Outside => Outside'  BY <1>2, <1>3 DEF Outside
  <2>2. \A me : View(me)' = View(me)  BY <1>2 DEF View
  <2>3. ASSUME NEW me, NEW e, Follows(me, e) PROVE Follows(me, e)'
    <3>1. View(me)' = View(me)  BY <2>2
    <3> QED  BY <2>3, <3>1, <1>2, <1>3 DEF Follows
  <2>4. ASSUME NEW e \in 1 .. Len(toClient), Enters(e) PROVE Enters(e)'
    <3>1. Entry(e, toClient)'  BY <2>4, <1>2, <1>3 DEF Enters, Entry, Precedes, OwnPresence
    <3>2. PICK me : me = toClient[e].nick  OBVIOUS
    <3>3. Follows(me, e)'  BY <2>3, <2>4, <3>2 DEF Enters
    <3>4. toClient'[e].nick = me  BY <1>3, <3>2
    <3>5. Follows(toClient[e].nick, e)'  BY <3>3, <3>4 DEF Follows, View
    <3> QED  BY <3>1, <3>5 DEF Enters
  <2>5. Entering => Entering'  BY <1>3, <2>4 DEF Entering
  <2>6. Follows(nick, 0) => Follows(nick, 0)'
    <3>1. PICK me : me = nick  OBVIOUS
    <3>2. Follows(me, 0) => Follows(me, 0)'  BY <2>3
    <3> QED  BY <3>1, <3>2, <1>2 DEF Follows, View
  <2>7. Answers(toClient) => Answers(toClient)'  BY <1>3 DEF Answers
  <2>8. /\ state = "initiated" => Outside \/ Entering
        /\ state = "joined" => Follows(nick, 0)
        /\ state = "ended" => mine = None /\ Answers(toClient)
        /\ handlers
    BY <1>1 DEF Stage
  <2> QED  BY <2>1, <2>5, <2>6, <2>7, <2>8, <1>2, <1>3 DEF Stage
<1>5. OneJoin'
  <2>1. \A i \in 1 .. Len(toRoom') :
          \/ i \in 1 .. Len(toRoom) /\ toRoom'[i] = toRoom[i]
          \/ toRoom'[i] = [ask |-> what, nick |-> nick]
    BY <1>1, Asked
  <2>2. what # "join"  OBVIOUS
  <2>3. \A i, j \in 1 .. Len(toRoom') : toRoom'[i].ask = "join" /\ toRoom'[j].ask = "join" => i = j
    BY <1>1, <2>1, <2>2 DEF OneJoin
  <2>4. \A i \in 1 .. Len(toRoom') :
          /\ toRoom'[i].ask = "join" =>
               /\ state = "initiated" /\ "join" \in asked /\ toRoom'[i].nick = nick
               /\ Answers(toClient)
          /\ toRoom'[i].ask = "leave" => state \in {"joined", "ended"}
    BY <1>1, <2>1, <2>2 DEF OneJoin
  <2>5. /\ \A m, n \in 1 .. Len(toClient) : toClient[m].type = "error" /\ toClient[n].type = "error" => m = n
        /\ state = "initiated" /\ ~Answers(toClient) => "join" \in asked
    BY <1>1 DEF OneJoin
  <2>6. Answers(toClient)' <=> Answers(toClient)  BY <1>3 DEF Answers
  <2> QED  BY <2>3, <2>4, <2>5, <2>6, <1>2, <1>3 DEF OneJoin
<1>6. TypeOK'
  <2>1. "join" \in asked' => "join" \in asked  BY <1>3
  <2>2. asked' \subseteq {"join", "leave", "disco"}  BY <1>1, <1>3 DEF TypeOK
  <2> QED  BY <2>1, <2>2, <1>1, <1>2, <1>3 DEF TypeOK
<1>7. SignalsTellAll'  BY <1>1, <1>2 DEF SignalsTellAll
<1>8. TypeIsCurrent(toClient, roomType, config)'  BY <1>1, <1>2, <1>3
<1> QED  BY <1>1, <1>3, <1>4, <1>5, <1>6, <1>7, <1>8, Asked DEF UInv, Sorts

LEMMA LeaveKeeps == ASSUME UInv, Leave PROVE UInv'
BY AskKeeps DEF Leave

LEMMA DiscoInfoAsyncKeeps == ASSUME Ordinary, UInv, DiscoInfoAsync PROVE UInv'
BY AskKeeps DEF DiscoInfoAsync, Ordinary

-----------------------------------------------------------------------------
(* The handlers *)

LEMMA ArrivedFacts ==
  ASSUME UInv, NEW what, Arrived(what)
  PROVE  /\ toClient # <<>> /\ toClient \in Seq(Stanzas) /\ Len(toClient) \in Nat \ {0}
         /\ Next1 = Head(toClient) /\ Next1 = toClient[1] /\ Next1 \in Stanzas /\ Next1.type = what
         /\ toClient' = Tail(toClient) /\ toClient' \in Seq(Stanzas) /\ Len(toClient') = Len(toClient) - 1
         /\ \A n \in 1 .. Len(toClient) - 1 : toClient'[n] = toClient[n + 1]
         /\ mine' = mine /\ occupants' = occupants /\ config' = config
         /\ toRoom' = toRoom /\ calls' = calls /\ events' = events
<1>1. toClient # <<>> /\ toClient \in Seq(Stanzas) /\ toClient' = Tail(toClient)
  BY DEF UInv, Sorts, Arrived
<1>2. /\ Len(toClient) \in Nat \ {0} /\ Head(toClient) = toClient[1] /\ Head(toClient) \in Stanzas
      /\ Tail(toClient) \in Seq(Stanzas) /\ Len(Tail(toClient)) = Len(toClient) - 1
      /\ \A n \in 1 .. Len(toClient) - 1 : Tail(toClient)[n] = toClient[n + 1]
  BY <1>1, TailFacts
<1> QED  BY <1>1, <1>2 DEF Arrived, Next1, room

\* Where the client is when something arrives
LEMMA WhereArrives ==
  ASSUME UInv, NEW what, Arrived(what)
  PROVE  \/ state = "initiated" /\ Outside /\ what \in {"disco", "error"}
         \/ state = "initiated" /\ Enters(1) /\ what = "available" /\ OwnPresence(Next1)
         \/ /\ state = "initiated"
            /\ \E e \in 2 .. Len(toClient) : Enters(e) /\ Precedes(Next1, e, toClient)
         \/ state = "joined" /\ Follows(nick, 0)
         \/ state = "ended" /\ mine = None /\ Answers(toClient) /\ what = "disco"
<1>1. Stage /\ state \in {"created", "initiated", "joined", "ended"}
  BY Order DEF UInv, Sorts, TypeOK
<1>2. toClient # <<>> /\ Next1 = toClient[1] /\ Next1.type = what /\ Len(toClient) \in Nat \ {0}
        /\ toClient \in Seq(Stanzas) /\ Next1 = Head(toClient)
  BY ArrivedFacts
<1>3. 1 \in 1 .. Len(toClient)  BY <1>2
<1>4. CASE state = "initiated" /\ Outside  BY <1>2, <1>3, <1>4 DEF Outside
<1>5. ASSUME state = "initiated", NEW e \in 1 .. Len(toClient), Enters(e)
      PROVE  \/ Enters(1) /\ what = "available" /\ OwnPresence(Next1)
             \/ e \in 2 .. Len(toClient) /\ Precedes(Next1, e, toClient)
  <2>1. CASE e = 1  BY <2>1, <1>2, <1>5 DEF Enters, Entry
  <2>2. CASE e # 1
    <3>1. e \in 2 .. Len(toClient)  BY <2>2, <1>2
    <3> QED  BY <3>1, <1>2, <1>5, EntryHeard DEF Enters
  <2> QED  BY <2>1, <2>2
<1>6. CASE state = "ended"  BY <1>1, <1>2, <1>3, <1>6 DEF Stage, Answers
<1> QED  BY <1>1, <1>2, <1>4, <1>5, <1>6 DEF Stage, Entering

\* What is heard by an occupant or one who is let in
LEMMA Hears ==
  ASSUME UInv, NEW what, Arrived(what), NEW me \in Nicks, NEW e \in 0 .. Len(toClient), Follows(me, e),
         e = 0 => ~Leaves(Next1, me), members'[me] = None, View(me)' = Heeds(View(me), Next1)
  PROVE  Follows(me, IF e = 0 THEN 0 ELSE e - 1)'
<1>1. /\ toClient # <<>> /\ toClient \in Seq(Stanzas) /\ Len(toClient) \in Nat \ {0} /\ Next1 = Head(toClient)
      /\ toClient' = Tail(toClient) /\ mine' = mine /\ occupants' = occupants
  BY ArrivedFacts
<1>2. View(me) \in [Nicks -> Roles \cup {None}]  BY ViewType DEF UInv, Sorts
<1>3. Inside(me, e, toClient, mine, View(me), occupants)  BY DEF Follows
<1>4. e \in Nat /\ e <= Len(toClient)  BY <1>1
<1>5. Inside(me, IF e = 0 THEN 0 ELSE e - 1, Tail(toClient), mine, Heeds(View(me), Head(toClient)), occupants)
  BY <1>1, <1>2, <1>3, <1>4, InsideHeard
<1> QED  BY <1>1, <1>5 DEF Follows

\* What is heard before we are let in
LEMMA StillEnters ==
  ASSUME UInv, NEW what, Arrived(what), NEW e \in 2 .. Len(toClient), Enters(e), nick' = nick,
         \A me \in Nicks : me = toClient[e].nick =>
           members'[me] = None /\ View(me)' = Heeds(View(me), Next1)
  PROVE  Entering'
<1>1. /\ toClient # <<>> /\ toClient \in Seq(Stanzas) /\ Len(toClient) \in Nat \ {0} /\ Next1 = Head(toClient)
      /\ toClient' = Tail(toClient) /\ Len(toClient') = Len(toClient) - 1
  BY ArrivedFacts
<1>2. Entry(e, toClient)  BY DEF Enters
<1>3. Entry(e - 1, Tail(toClient)) /\ Tail(toClient)[e - 1] = toClient[e]  BY <1>1, <1>2, EntryHeard
<1>4. PICK me : me = toClient[e].nick  OBVIOUS
<1>5. me \in Nicks
  <2>1. toClient[e] \in Stanzas /\ toClient[e].type = "available"  BY <1>1, <1>2 DEF Entry
  <2> QED  BY <2>1, <1>4, Kinds
<1>6. Follows(me, e) /\ e \in 0 .. Len(toClient) /\ e # 0  BY <1>1, <1>4 DEF Enters
<1>7. members'[me] = None /\ View(me)' = Heeds(View(me), Next1)  BY <1>4, <1>5
<1>8. Follows(me, e - 1)'
  <2>1. Follows(me, IF e = 0 THEN 0 ELSE e - 1)'  BY <1>5, <1>6, <1>7, Hears
  <2> QED  BY <1>6, <2>1
<1>9. toClient'[e - 1].nick = me  BY <1>1, <1>3, <1>4
<1>10. Follows(toClient[e - 1].nick, e - 1)'  BY <1>8, <1>9 DEF Follows, View
<1>11. Entry(e - 1, toClient)'  BY <1>1, <1>3 DEF Entry, Precedes, OwnPresence
<1>12. e - 1 \in 1 .. Len(toClient')  BY <1>1
<1> QED  BY <1>10, <1>11, <1>12 DEF Entering, Enters

LEMMA StillOutside ==
  ASSUME UInv, NEW what, Arrived(what), Outside, members' = members
  PROVE  Outside'
<1>1. /\ Len(toClient) \in Nat \ {0} /\ Len(toClient') = Len(toClient) - 1 /\ mine' = mine
      /\ \A n \in 1 .. Len(toClient) - 1 : toClient'[n] = toClient[n + 1]
  BY ArrivedFacts
<1>2. \A n \in 1 .. Len(toClient') : n + 1 \in 1 .. Len(toClient) /\ toClient'[n] = toClient[n + 1]  BY <1>1
<1> QED  BY <1>1, <1>2 DEF Outside

LEMMA StillAnswers ==
  ASSUME UInv, NEW what, Arrived(what), Answers(toClient)
  PROVE  Answers(toClient)'
<1>1. /\ Len(toClient) \in Nat \ {0} /\ Len(toClient') = Len(toClient) - 1
      /\ \A n \in 1 .. Len(toClient) - 1 : toClient'[n] = toClient[n + 1]
  BY ArrivedFacts
<1>2. \A n \in 1 .. Len(toClient') : n + 1 \in 1 .. Len(toClient) /\ toClient'[n] = toClient[n + 1]  BY <1>1
<1> QED  BY <1>2 DEF Answers

\* What a handler must show of the joins
LEMMA HearsOneJoin ==
  ASSUME UInv, NEW what, Arrived(what),
         Answers(toClient) => state' = state /\ nick' = nick /\ ("join" \in asked => "join" \in asked'),
         state \in {"joined", "ended"} => state' \in {"joined", "ended"},
         state' = "initiated" =>
           state = "initiated" /\ (("join" \in asked => "join" \in asked') \/ Answers(toClient'))
  PROVE  OneJoin'
<1>1. /\ Len(toClient) \in Nat \ {0} /\ Len(toClient') = Len(toClient) - 1 /\ toRoom' = toRoom
      /\ \A n \in 1 .. Len(toClient) - 1 : toClient'[n] = toClient[n + 1]
  BY ArrivedFacts
<1>2. \A n \in 1 .. Len(toClient') : n + 1 \in 1 .. Len(toClient) /\ toClient'[n] = toClient[n + 1]  BY <1>1
<1>3. OneJoin  BY DEF UInv
<1>4. Answers(toClient) => Answers(toClient)'  BY StillAnswers
<1>5. Answers(toClient)' <=> Answers(toClient')  BY DEF Answers
<1>6. \A m, n \in 1 .. Len(toClient') : toClient'[m].type = "error" /\ toClient'[n].type = "error" => m = n
  <2> TAKE m, n \in 1 .. Len(toClient')
  <2>1. toClient'[m].type = "error" /\ toClient'[n].type = "error" => m + 1 = n + 1
    BY <1>2, <1>3 DEF OneJoin
  <2> QED  BY <2>1
<1>7. \A n \in 1 .. Len(toRoom) :
        /\ toRoom[n].ask = "join" =>
             /\ state' = "initiated" /\ "join" \in asked' /\ toRoom[n].nick = nick'
             /\ Answers(toClient)'
        /\ toRoom[n].ask = "leave" => state' \in {"joined", "ended"}
  BY <1>3, <1>4 DEF OneJoin
<1>8. state' = "initiated" /\ ~Answers(toClient)' => "join" \in asked'
  BY <1>3, <1>4, <1>5 DEF OneJoin
<1>9. \A m, n \in 1 .. Len(toRoom) : toRoom[m].ask = "join" /\ toRoom[n].ask = "join" => m = n
  BY <1>3 DEF OneJoin
<1> QED  BY <1>1, <1>6, <1>7, <1>8, <1>9 DEF OneJoin

\* What a handler must show of the configuration
LEMMA HearsType ==
  ASSUME UInv, NEW what, Arrived(what),
         roomType' = IF Describes(Next1) THEN Flags(Next1.config) ELSE roomType
  PROVE  TypeIsCurrent(toClient, roomType, config)'
<1>1. /\ toClient # <<>> /\ toClient \in Seq(Stanzas) /\ Next1 = Head(toClient)
      /\ toClient' = Tail(toClient) /\ config' = config
  BY ArrivedFacts
<1>2. TypeIsCurrent(toClient, roomType, config)  BY DEF UInv
<1>3. PICK u : u = IF Describes(Head(toClient)) THEN Flags(Head(toClient).config) ELSE roomType  OBVIOUS
<1>4. IF Describes(Head(toClient)) THEN u = Flags(Head(toClient).config) ELSE u = roomType  BY <1>3
<1>5. TypeIsCurrent(Tail(toClient), u, config)  BY <1>1, <1>2, <1>4, TypeHeard
<1>6. roomType' = u  BY <1>1, <1>3
<1> QED  BY <1>1, <1>5, <1>6

\* Our own presence lets us in, or changes our role or the configuration.
LEMMA HandleSelfPresenceKeeps == ASSUME UInv, HandleSelfPresence PROVE UInv'
<1>1. /\ Arrived("available") /\ handlers /\ OwnPresence(Next1)
      /\ nick' = Next1.nick /\ role' = Next1.role /\ roomType' = PresenceFeatures(Next1)
      /\ members' = members /\ handlers' = handlers /\ heard' = heard
  BY DEF HandleSelfPresence
<1>2. /\ Sorts /\ TypeOK /\ SignalsTellAll /\ None \notin Nicks /\ OneJoin
  BY NoneIsNobody DEF UInv, Sorts
<1>3. /\ Next1 = toClient[1] /\ Next1 \in Stanzas /\ Next1.type = "available" /\ Len(toClient) \in Nat \ {0}
      /\ mine' = mine /\ occupants' = occupants /\ config' = config
      /\ toClient' \in Seq(Stanzas) /\ toRoom' = toRoom /\ calls' = calls /\ events' = events
  BY <1>1, ArrivedFacts
<1>4. Next1.nick \in Nicks /\ Next1.role \in Roles \cup {None} /\ Next1.config \in RoomTypes \cup {None}
  BY <1>3, Kinds
<1>5. /\ state \in {"initiated", "joined"}
      /\ \E e \in {0, 1} : Follows(Next1.nick, e) /\ (state = "joined" => Next1.nick = nick)
      /\ ~Answers(toClient)
  <2>1. ~Answers(toClient)
    <3>1. 1 \in 1 .. Len(toClient)  BY <1>3
    <3> QED  BY <3>1, <1>3 DEF Answers
  <2>2. CASE state = "initiated" /\ Enters(1)
    BY <2>1, <2>2, <1>3 DEF Enters
  <2>3. ASSUME NEW e \in 2 .. Len(toClient), Precedes(Next1, e, toClient) PROVE FALSE
    BY <2>3, <1>1, <1>3 DEF Precedes, OwnPresence
  <2>4. CASE state = "joined" /\ Follows(nick, 0)
    <3>1. Stays(nick, 0, toClient, mine)  BY <2>4 DEF Follows, Inside
    <3>2. 1 \in 0 + 1 .. Len(toClient)  BY <1>3
    <3>3. Marked(Next1) => Next1.nick = nick  BY <3>1, <3>2, <1>3 DEF Stays
    <3>4. Next1.nick = nick  BY <3>3, <1>1, <1>3 DEF Marked, OwnPresence
    <3> QED  BY <2>1, <2>4, <3>4
  <2> QED  BY <2>1, <2>2, <2>3, <2>4, <1>1, WhereArrives
<1>6. state' = "joined" /\ asked' \subseteq asked /\ (state = "joined" => asked' = asked)
        /\ shown' = members
  <2>1. CASE state = "initiated"
    <3>1. Before(state, "joined")  BY <2>1, <1>2, Order DEF TypeOK
    <3> QED  BY <3>1, <2>1 DEF HandleSelfPresence, JoinedSignal, MucMembers
  <2>2. CASE state = "joined"
    <3>1. ~Before(state, "joined")  BY <2>2, <1>2, Order DEF TypeOK
    <3> QED  BY <3>1, <2>2, <1>2 DEF HandleSelfPresence, JoinedSignal, SignalsTellAll
  <2> QED  BY <2>1, <2>2, <1>5
<1>7. Follows(nick, 0)'
  <2>1. PICK e \in {0, 1} : Follows(Next1.nick, e)  BY <1>5
  <2>2. PICK me : me = Next1.nick  OBVIOUS
  <2>3. me \in Nicks /\ e \in 0 .. Len(toClient) /\ Follows(me, e)  BY <1>3, <1>4, <2>1, <2>2
  <2>4. members'[me] = None  BY <1>1, <2>3 DEF Follows
  <2>5. View(me)' = Heeds(View(me), Next1)
    <3>1. View(me)' = [k \in Nicks |-> IF k = me THEN role' ELSE members'[k]]  BY DEF View
    <3>2. Heeds(View(me), Next1) = [View(me) EXCEPT ![me] = Next1.role]  BY <2>2, <1>3 DEF Heeds
    <3> QED  BY <3>1, <3>2, <1>1, <2>3 DEF View
  <2>6. ~Leaves(Next1, me)  BY <1>3 DEF Leaves
  <2>7. Follows(me, IF e = 0 THEN 0 ELSE e - 1)'  BY <1>1, <2>3, <2>4, <2>5, <2>6, Hears
  <2>8. (IF e = 0 THEN 0 ELSE e - 1) = 0  OBVIOUS
  <2>9. Follows(me, 0)'  BY <2>7, <2>8
  <2>10. nick' = me  BY <1>1, <2>2
  <2> QED  BY <2>9, <2>10 DEF Follows, View
<1>8. Stage'  BY <1>1, <1>6, <1>7 DEF Stage
<1>9. OneJoin'
  BY <1>1, <1>5, <1>6, HearsOneJoin
<1>10. TypeIsCurrent(toClient, roomType, config)'
  <2>1. PresenceFeatures(Next1) = IF Describes(Next1) THEN Flags(Next1.config) ELSE roomType
    BY <1>3 DEF PresenceFeatures, Describes
  <2> QED  BY <2>1, <1>1, HearsType
<1>11. TypeOK'
  <2>1. roomType' \in RoomTypes \cup {None}  BY <1>1, <1>2, <1>4 DEF PresenceFeatures, Flags, TypeOK
  <2>2. state' \in Range(States)
    <3>1. 3 \in DOMAIN States /\ States[3] = "joined"  BY DEF States
    <3> QED  BY <3>1, <1>6 DEF Range
  <2> QED  BY <2>1, <2>2, <1>1, <1>2, <1>3, <1>4, <1>6 DEF TypeOK
<1>12. SignalsTellAll'  BY <1>1, <1>2, <1>6 DEF SignalsTellAll
<1> QED  BY <1>2, <1>3, <1>8, <1>9, <1>10, <1>11, <1>12 DEF UInv, Sorts

LEMMA HandleUserPresenceKeeps == ASSUME UInv, HandleUserPresence PROVE UInv'
<1>1. /\ Arrived("available") /\ handlers /\ ~OwnPresence(Next1)
      /\ members' = [members EXCEPT ![Next1.nick] = Next1.role] /\ shown' = PresenceSignal
      /\ state' = state /\ nick' = nick /\ role' = role /\ roomType' = roomType /\ handlers' = handlers
      /\ heard' = heard /\ asked' = asked
  BY DEF HandleUserPresence
<1>2. /\ Sorts /\ TypeOK /\ SignalsTellAll /\ None \notin Nicks /\ OneJoin
  BY NoneIsNobody DEF UInv, Sorts
<1>3. /\ Next1 = toClient[1] /\ Next1 \in Stanzas /\ Next1.type = "available" /\ Len(toClient) \in Nat \ {0}
      /\ mine' = mine /\ occupants' = occupants /\ config' = config
      /\ toClient' \in Seq(Stanzas) /\ toRoom' = toRoom /\ calls' = calls /\ events' = events
  BY <1>1, ArrivedFacts
<1>4. Next1.nick \in Nicks /\ Next1.role \in Roles \cup {None} /\ Announced(Next1)
  BY <1>3, Kinds
<1>5. Next1.mark = None /\ Next1.nick # nick  BY <1>1 DEF OwnPresence
<1>6. ASSUME NEW me \in Nicks, members[me] = None, Next1.nick # me
      PROVE  members'[me] = None /\ View(me)' = Heeds(View(me), Next1)
  <2>0. members \in [Nicks -> Roles \cup {None}]  BY <1>2 DEF TypeOK
  <2>1. members'[me] = None  BY <1>1, <1>4, <1>6, <2>0
  <2>2. View(me)' = [k \in Nicks |-> IF k = me THEN role' ELSE members'[k]]  BY DEF View
  <2>3. Heeds(View(me), Next1) = [View(me) EXCEPT ![Next1.nick] = Next1.role]  BY <1>3 DEF Heeds
  <2> QED  BY <2>0, <2>1, <2>2, <2>3, <1>1, <1>4, <1>6 DEF View
<1>7. /\ state \in {"initiated", "joined"}
      /\ state = "initiated" => Entering'
      /\ state = "joined" => Follows(nick, 0)'
  <2>1. CASE state = "initiated" /\ Enters(1) /\ OwnPresence(Next1)  BY <1>1, <2>1
  <2>2. ASSUME state = "initiated", NEW e \in 2 .. Len(toClient), Enters(e), Precedes(Next1, e, toClient)
        PROVE  Entering'
    <3>1. Next1.nick # toClient[e].nick  BY <2>2, <1>3 DEF Precedes
    <3>2. members[toClient[e].nick] = None  BY <2>2 DEF Enters, Follows
    <3>3. \A me \in Nicks : me = toClient[e].nick =>
            members'[me] = None /\ View(me)' = Heeds(View(me), Next1)
      <4> SUFFICES ASSUME NEW me \in Nicks, me = toClient[e].nick
                   PROVE  members'[me] = None /\ View(me)' = Heeds(View(me), Next1)
        OBVIOUS
      <4>1. members[me] = None /\ Next1.nick # me  BY <3>1, <3>2
      <4> QED  BY <4>1, <1>6
    <3> QED  BY <3>3, <2>2, <1>1, StillEnters
  <2>3. CASE state = "joined" /\ Follows(nick, 0)
    <3>1. PICK me : me = nick  OBVIOUS
    <3>2. me \in Nicks /\ 0 \in 0 .. Len(toClient) /\ Follows(me, 0)  BY <1>2, <1>3, <2>3, <3>1 DEF TypeOK
    <3>3. members[me] = None /\ Next1.nick # me  BY <1>5, <3>1, <3>2 DEF Follows
    <3>4. members'[me] = None /\ View(me)' = Heeds(View(me), Next1)  BY <1>6, <3>2, <3>3
    <3>5. ~Leaves(Next1, me)  BY <1>3 DEF Leaves
    <3>6. Follows(me, IF 0 = 0 THEN 0 ELSE 0 - 1)'  BY <1>1, <3>2, <3>4, <3>5, Hears
    <3>7. Follows(me, 0)'  BY <3>6
    <3>8. Follows(nick, 0)'  BY <3>1, <3>7, <1>1 DEF Follows, View
    <3> QED  BY <2>3, <3>8
  <2> QED  BY <2>1, <2>2, <2>3, <1>1, WhereArrives
<1>8. Stage'  BY <1>1, <1>7 DEF Stage
<1>9. OneJoin'  BY <1>1, HearsOneJoin
<1>10. TypeIsCurrent(toClient, roomType, config)'
  <2>1. Next1.config = None
    <3>1. "own" # None  BY MucAssumption DEF MucAssumption
    <3> QED  BY <3>1, <1>4, <1>5 DEF Announced
  <2>2. ~Describes(Next1)  BY <2>1, <1>3 DEF Describes
  <2> QED  BY <2>2, <1>1, HearsType
<1>11. TypeOK'
  <2>1. members' \in [Nicks -> Roles \cup {None}] /\ shown' \in [Nicks -> Roles \cup {None}]
    BY <1>1, <1>2, <1>4 DEF TypeOK, PresenceSignal
  <2> QED  BY <2>1, <1>1, <1>2, <1>3 DEF TypeOK
<1>12. SignalsTellAll'
  <2>1. state = "joined" => shown' = members'
    <3> SUFFICES ASSUME state = "joined" PROVE shown' = members'  OBVIOUS
    <3>1. ~Before(state, "joined")  BY <1>2, Order DEF TypeOK
    <3> QED  BY <3>1, <1>1, <1>2 DEF PresenceSignal, SignalsTellAll
  <2> QED  BY <2>1, <1>1, <1>2 DEF SignalsTellAll
<1> QED  BY <1>2, <1>3, <1>8, <1>9, <1>10, <1>11, <1>12 DEF UInv, Sorts

LEMMA HandleUnavailableKeeps == ASSUME UInv, HandleUnavailable PROVE UInv'
<1>1. /\ Arrived("unavailable") /\ handlers
      /\ nick' = nick /\ roomType' = roomType /\ handlers' = handlers /\ heard' = heard
  BY DEF HandleUnavailable
<1>2. /\ Sorts /\ TypeOK /\ SignalsTellAll /\ None \notin Nicks /\ OneJoin
  BY NoneIsNobody DEF UInv, Sorts
<1>3. /\ Next1 = toClient[1] /\ Next1 \in Stanzas /\ Next1.type = "unavailable" /\ Len(toClient) \in Nat \ {0}
      /\ mine' = mine /\ occupants' = occupants /\ config' = config /\ Next1 = Head(toClient)
      /\ toClient' = Tail(toClient) /\ toClient # <<>> /\ toClient \in Seq(Stanzas)
      /\ toClient' \in Seq(Stanzas) /\ toRoom' = toRoom /\ calls' = calls /\ events' = events
  BY <1>1, ArrivedFacts
<1>4. Next1.nick \in Nicks /\ Next1.role = None
  BY <1>3, Kinds DEF Announced
<1>5. state = "joined" /\ Follows(nick, 0)
  <2>1. ASSUME NEW e \in 2 .. Len(toClient), Precedes(Next1, e, toClient) PROVE FALSE
    BY <2>1, <1>3 DEF Precedes
  <2> QED  BY <2>1, <1>1, WhereArrives
<1>6. OwnPresence(Next1) <=> Next1.nick = nick
  <2>1. Stays(nick, 0, toClient, mine)  BY <1>5 DEF Follows, Inside
  <2>2. 1 \in 0 + 1 .. Len(toClient)  BY <1>3
  <2>3. Marked(Next1) => Next1.nick = nick  BY <2>1, <2>2, <1>3 DEF Stays
  <2> QED  BY <2>3, <1>3 DEF Marked, OwnPresence
<1>7. TypeIsCurrent(toClient, roomType, config)'
  <2>1. ~Describes(Next1)  BY <1>3 DEF Describes
  <2> QED  BY <2>1, <1>1, HearsType
<1>8. CASE Next1.nick = nick
  <2>1. state' = "ended" /\ role' = None /\ asked' = asked \ {"leave"} /\ members' = members /\ shown' = shown
    BY <1>6, <1>8 DEF HandleUnavailable
  <2>2. mine = None /\ Answers(Tail(toClient))
    <3>1. Stays(nick, 0, toClient, mine) /\ Leaves(Head(toClient), nick)
      BY <1>3, <1>5, <1>8 DEF Follows, Inside, Leaves
    <3> QED  BY <3>1, <1>3, LeavesLast
  <2>3. Stage'  BY <2>1, <2>2, <1>1, <1>3 DEF Stage, Answers
  <2>4. OneJoin'
    <3>1. ~Answers(toClient)
      <4>1. 1 \in 1 .. Len(toClient)  BY <1>3
      <4> QED  BY <4>1, <1>3 DEF Answers
    <3> QED  BY <2>1, <3>1, <1>1, HearsOneJoin
  <2>5. TypeOK'
    <3>1. state' \in Range(States)
      <4>1. 4 \in DOMAIN States /\ States[4] = "ended"  BY DEF States
      <4> QED  BY <4>1, <2>1 DEF Range
    <3> QED  BY <2>1, <3>1, <1>1, <1>2, <1>3 DEF TypeOK
  <2>6. SignalsTellAll'  BY <2>1, <1>1, <1>2 DEF SignalsTellAll
  <2> QED  BY <2>3, <2>4, <2>5, <2>6, <1>2, <1>3, <1>7 DEF UInv, Sorts
<1>9. CASE Next1.nick # nick
  <2>1. /\ members' = [members EXCEPT ![Next1.nick] = None] /\ state' = state /\ role' = role /\ asked' = asked
        /\ shown' = IF members[Next1.nick] # None THEN [shown EXCEPT ![Next1.nick] = None] ELSE shown
    BY <1>6, <1>9 DEF HandleUnavailable, RemoveMember
  <2>2. PICK me : me = nick  OBVIOUS
  <2>3. me \in Nicks /\ 0 \in 0 .. Len(toClient) /\ Follows(me, 0) /\ members[me] = None
    BY <1>2, <1>3, <1>5, <2>2 DEF TypeOK, Follows
  <2>4. members \in [Nicks -> Roles \cup {None}] /\ shown = members
    BY <1>2, <1>5 DEF TypeOK, SignalsTellAll
  <2>5. members'[me] = None  BY <2>1, <2>3, <2>4, <1>4
  <2>6. View(me)' = Heeds(View(me), Next1)
    <3>1. View(me)' = [k \in Nicks |-> IF k = me THEN role' ELSE members'[k]]  BY DEF View
    <3>2. Heeds(View(me), Next1) = [View(me) EXCEPT ![Next1.nick] = None]  BY <1>3, <1>4 DEF Heeds
    <3> QED  BY <3>1, <3>2, <2>1, <2>2, <2>3, <2>4, <1>4, <1>9 DEF View
  <2>7. ~Leaves(Next1, me)  BY <2>2, <1>9 DEF Leaves
  <2>8. Follows(me, IF 0 = 0 THEN 0 ELSE 0 - 1)'  BY <1>1, <2>3, <2>5, <2>6, <2>7, Hears
  <2>9. Follows(me, 0)'  BY <2>8
  <2>10. Follows(nick, 0)'  BY <2>2, <2>9, <1>1 DEF Follows, View
  <2>11. Stage'  BY <2>1, <2>10, <1>1, <1>5 DEF Stage
  <2>12. OneJoin'  BY <2>1, <1>1, HearsOneJoin
  <2>13. TypeOK'
    <3>1. members' \in [Nicks -> Roles \cup {None}] /\ shown' \in [Nicks -> Roles \cup {None}]
      BY <2>1, <2>4, <1>4
    <3> QED  BY <2>1, <3>1, <1>1, <1>2, <1>3 DEF TypeOK
  <2>14. SignalsTellAll'
    <3>1. shown' = members'  BY <2>1, <2>4, <1>4
    <3> QED  BY <3>1, <1>1, <1>2 DEF SignalsTellAll
  <2> QED  BY <2>11, <2>12, <2>13, <2>14, <1>2, <1>3, <1>7 DEF UInv, Sorts
<1> QED  BY <1>8, <1>9

LEMMA HandlePresenceErrorKeeps == ASSUME UInv, HandlePresenceError PROVE UInv'
<1>1. /\ Arrived("error") /\ handlers /\ asked' = asked \ {"join"}
      /\ state' = state /\ nick' = nick /\ roomType' = roomType /\ handlers' = handlers /\ heard' = heard
      /\ role' = role /\ members' = members /\ shown' = shown
  BY DEF HandlePresenceError, client
<1>2. Sorts /\ TypeOK /\ SignalsTellAll /\ OneJoin  BY DEF UInv, Sorts
<1>3. /\ Next1 = toClient[1] /\ Next1.type = "error" /\ Len(toClient) \in Nat \ {0}
      /\ Len(toClient') = Len(toClient) - 1
      /\ \A n \in 1 .. Len(toClient) - 1 : toClient'[n] = toClient[n + 1]
      /\ mine' = mine /\ occupants' = occupants /\ config' = config
      /\ toClient' \in Seq(Stanzas) /\ toRoom' = toRoom /\ calls' = calls /\ events' = events
  BY <1>1, ArrivedFacts
<1>4. state = "initiated" /\ Outside
  <2>1. ASSUME NEW e \in 2 .. Len(toClient), Precedes(Next1, e, toClient) PROVE FALSE
    BY <2>1, <1>3 DEF Precedes
  <2>2. ASSUME Follows(nick, 0) PROVE FALSE
    <3>1. 1 \in 0 + 1 .. Len(toClient)  BY <1>3
    <3> QED  BY <2>2, <3>1, <1>3 DEF Follows, Inside, Stays
  <2> QED  BY <2>1, <2>2, <1>1, WhereArrives
<1>5. Outside'  BY <1>1, <1>4, StillOutside
<1>6. Stage'  BY <1>1, <1>4, <1>5 DEF Stage
<1>7. Answers(toClient')
  <2> SUFFICES ASSUME NEW n \in 1 .. Len(toClient') PROVE toClient'[n].type = "disco"  BY DEF Answers
  <2>1. n + 1 \in 1 .. Len(toClient) /\ 1 \in 1 .. Len(toClient) /\ n + 1 # 1 /\ toClient'[n] = toClient[n + 1]
    BY <1>3
  <2>2. toClient[n + 1].type # "error"  BY <2>1, <1>2, <1>3 DEF OneJoin
  <2>3. toClient[n + 1].type \in {"disco", "error"}  BY <2>1, <1>4 DEF Outside
  <2> QED  BY <2>1, <2>2, <2>3
<1>8. OneJoin'
  <2>1. ~Answers(toClient)
    <3>1. 1 \in 1 .. Len(toClient)  BY <1>3
    <3> QED  BY <3>1, <1>3 DEF Answers
  <2> QED  BY <2>1, <1>1, <1>4, <1>7, HearsOneJoin
<1>9. TypeIsCurrent(toClient, roomType, config)'
  <2>1. ~Describes(Next1)  BY <1>3 DEF Describes
  <2> QED  BY <2>1, <1>1, HearsType
<1>10. TypeOK'  BY <1>1, <1>2, <1>3 DEF TypeOK
<1>11. SignalsTellAll'  BY <1>1, <1>2 DEF SignalsTellAll
<1> QED  BY <1>2, <1>3, <1>6, <1>8, <1>9, <1>10, <1>11 DEF UInv, Sorts

\* A message is from who we know it to be from.
LEMMA HandleMessageKeeps == ASSUME UInv, HandleMessage PROVE UInv'
<1>0. PICK what \in {"groupchat", "chat"} : what = Next1.type  BY DEF HandleMessage
<1>1. /\ Arrived(what) /\ handlers /\ asked' = asked
      /\ state' = state /\ nick' = nick /\ roomType' = roomType /\ handlers' = handlers
      /\ role' = role /\ members' = members /\ shown' = shown
      /\ heard' = IF what = "groupchat"
                  THEN [nick |-> Next1.nick, role |-> Next1.role, as |-> MessageSender(Next1.nick),
                        delayed |-> Next1.delayed]
                  ELSE heard
  BY <1>0 DEF HandleMessage
<1>2. Sorts /\ TypeOK /\ SignalsTellAll /\ OneJoin  BY DEF UInv, Sorts
<1>3. /\ Next1 = toClient[1] /\ Next1 \in Stanzas /\ Next1.type = what /\ Len(toClient) \in Nat \ {0}
      /\ mine' = mine /\ occupants' = occupants /\ config' = config
      /\ toClient' \in Seq(Stanzas) /\ toRoom' = toRoom /\ calls' = calls /\ events' = events
  BY <1>1, ArrivedFacts
<1>4. Next1.nick \in Nicks /\ Next1.role \in Roles /\ Next1.delayed \in BOOLEAN
  BY <1>3, Kinds
<1>5. state = "joined" /\ Follows(nick, 0)
  <2>1. ASSUME NEW e \in 2 .. Len(toClient), Precedes(Next1, e, toClient) PROVE FALSE
    BY <2>1, <1>3 DEF Precedes
  <2> QED  BY <2>1, <1>1, WhereArrives
<1>6. PICK me : me = nick  OBVIOUS
<1>7. me \in Nicks /\ 0 \in 0 .. Len(toClient) /\ Follows(me, 0) /\ members[me] = None
  BY <1>2, <1>3, <1>5, <1>6 DEF TypeOK, Follows
<1>8. View(me)' = Heeds(View(me), Next1)
  <2>1. Heeds(View(me), Next1) = View(me)  BY <1>3 DEF Heeds
  <2>2. View(me)' = View(me)  BY <1>1 DEF View
  <2> QED  BY <2>1, <2>2
<1>9. Follows(nick, 0)'
  <2>1. ~Leaves(Next1, me)  BY <1>3 DEF Leaves
  <2>2. Follows(me, IF 0 = 0 THEN 0 ELSE 0 - 1)'  BY <1>1, <1>7, <1>8, <2>1, Hears
  <2>3. Follows(me, 0)'  BY <2>2
  <2> QED  BY <2>3, <1>1, <1>6 DEF Follows, View
<1>10. Stage'  BY <1>1, <1>5, <1>9 DEF Stage
<1>11. OneJoin'  BY <1>1, HearsOneJoin
<1>12. TypeIsCurrent(toClient, roomType, config)'
  <2>1. ~Describes(Next1)  BY <1>3 DEF Describes
  <2> QED  BY <2>1, <1>1, HearsType
<1>13. MessageSender(Next1.nick) = View(me)[Next1.nick]
  BY <1>4, <1>6, <1>7, <1>2 DEF MessageSender, View, TypeOK
<1>14. View(me)[Next1.nick] \in Roles \cup {None}  BY <1>2, <1>4, ViewType
<1>15. TypeOK'
  <2>1. what = "groupchat" =>
          heard' \in [nick : Nicks, role : Roles, as : Roles \cup {None}, delayed : BOOLEAN]
    BY <1>1, <1>4, <1>13, <1>14
  <2> QED  BY <2>1, <1>1, <1>2, <1>3 DEF TypeOK
<1>16. SignalsTellAll'
  <2>1. what = "groupchat" /\ ~Next1.delayed => View(me)[Next1.nick] = Next1.role
    <3> SUFFICES ASSUME what = "groupchat", ~Next1.delayed PROVE View(me)[Next1.nick] = Next1.role
      OBVIOUS
    <3>1. 1 \in 1 .. Len(toClient) /\ Spoken(toClient[1])  BY <1>3 DEF Spoken
    <3>2. Says(toClient, 1, Next1.nick, View(me)[Next1.nick], Next1.role)
      BY <3>1, <1>3, <1>7 DEF Follows, Inside, Heard
    <3>3. 1 .. 1 - 1 = {}  OBVIOUS
    <3> QED  BY <3>2, <3>3 DEF Says
  <2>2. heard' # None /\ ~heard'.delayed => heard'.as = heard'.role
    <3>1. CASE what = "groupchat"  BY <3>1, <2>1, <1>1, <1>13
    <3>2. CASE what # "groupchat"  BY <3>2, <1>1, <1>2 DEF SignalsTellAll
    <3> QED  BY <3>1, <3>2
  <2> QED  BY <2>2, <1>1, <1>2 DEF SignalsTellAll
<1> QED  BY <1>2, <1>3, <1>10, <1>11, <1>12, <1>15, <1>16 DEF UInv, Sorts

LEMMA MucDiscoInfoKeeps == ASSUME UInv, MucDiscoInfo PROVE UInv'
<1>1. /\ Arrived("disco") /\ asked' = asked \ {"disco"} /\ roomType' = Flags(Next1.config)
      /\ nick' = nick /\ handlers' = handlers /\ heard' = heard
      /\ role' = role /\ members' = members /\ shown' = shown
  BY DEF MucDiscoInfo
<1>2. Stage /\ Sorts /\ TypeOK /\ SignalsTellAll /\ OneJoin  BY DEF UInv, Sorts
<1>3. /\ Next1 = toClient[1] /\ Next1 \in Stanzas /\ Next1.type = "disco" /\ Len(toClient) \in Nat \ {0}
      /\ mine' = mine /\ occupants' = occupants /\ config' = config /\ toClient # <<>>
      /\ toClient' \in Seq(Stanzas) /\ toRoom' = toRoom /\ calls' = calls /\ events' = events
  BY <1>1, ArrivedFacts
<1>4. Next1.config \in RoomTypes \cup {None}  BY <1>3, Kinds
<1>5. state # "created" /\ state' = state
  <2>1. state # "created"  BY <1>2, <1>3 DEF Stage
  <2> QED  BY <2>1 DEF MucDiscoInfo
<1>6. \A me : View(me)' = Heeds(View(me), Next1)
  <2> TAKE me
  <2>1. Heeds(View(me), Next1) = View(me)  BY <1>3 DEF Heeds
  <2>2. View(me)' = View(me)  BY <1>1 DEF View
  <2> QED  BY <2>1, <2>2
<1>7. Stage'
  <2>1. Outside => Outside'  BY <1>1, StillOutside
  <2>2. Answers(toClient) => Answers(toClient)'  BY <1>1, StillAnswers
  <2>3. ASSUME NEW e \in 2 .. Len(toClient), Enters(e) PROVE Entering'
    <3>1. members[toClient[e].nick] = None  BY <2>3 DEF Enters, Follows
    <3>2. \A me \in Nicks : me = toClient[e].nick =>
            members'[me] = None /\ View(me)' = Heeds(View(me), Next1)
      <4> SUFFICES ASSUME NEW me \in Nicks, me = toClient[e].nick
                   PROVE  members'[me] = None /\ View(me)' = Heeds(View(me), Next1)
        OBVIOUS
      <4>1. members'[me] = None  BY <3>1, <1>1
      <4>2. View(me)' = Heeds(View(me), Next1)  BY <1>6
      <4> QED  BY <4>1, <4>2
    <3> QED  BY <3>2, <2>3, <1>1, StillEnters
  <2>4. Follows(nick, 0) => Follows(nick, 0)'
    <3> SUFFICES ASSUME Follows(nick, 0) PROVE Follows(nick, 0)'  OBVIOUS
    <3>1. PICK me : me = nick  OBVIOUS
    <3>2. me \in Nicks /\ 0 \in 0 .. Len(toClient) /\ Follows(me, 0)  BY <1>2, <1>3, <3>1 DEF TypeOK
    <3>3. members'[me] = None  BY <1>1, <3>2 DEF Follows
    <3>4. View(me)' = Heeds(View(me), Next1)  BY <1>6
    <3>5. ~Leaves(Next1, me)  BY <1>3 DEF Leaves
    <3>6. Follows(me, IF 0 = 0 THEN 0 ELSE 0 - 1)'  BY <1>1, <3>2, <3>3, <3>4, <3>5, Hears
    <3>7. Follows(me, 0)'  BY <3>6
    <3> QED  BY <3>1, <3>7, <1>1 DEF Follows, View
  <2>5. handlers  BY <1>2, <1>5 DEF Stage
  <2>6. CASE state = "initiated" /\ Outside  BY <2>1, <2>5, <2>6, <1>1, <1>5 DEF Stage
  <2>7. CASE state = "initiated" /\ \E e \in 2 .. Len(toClient) : Enters(e)
    <3>1. Entering'  BY <2>3, <2>7
    <3> QED  BY <3>1, <2>5, <2>7, <1>1, <1>5 DEF Stage
  <2>8. CASE state = "joined" /\ Follows(nick, 0)  BY <2>4, <2>5, <2>8, <1>1, <1>5 DEF Stage
  <2>9. CASE state = "ended" /\ mine = None /\ Answers(toClient)
    BY <2>2, <2>5, <2>9, <1>1, <1>3, <1>5 DEF Stage
  <2> QED  BY <2>6, <2>7, <2>8, <2>9, <1>1, WhereArrives
<1>8. OneJoin'  BY <1>1, <1>5, HearsOneJoin
<1>9. TypeIsCurrent(toClient, roomType, config)'
  <2>1. Describes(Next1)  BY <1>3 DEF Describes
  <2> QED  BY <2>1, <1>1, HearsType
<1>10. TypeOK'
  <2>1. roomType' \in RoomTypes \cup {None}  BY <1>1, <1>4 DEF Flags
  <2> QED  BY <2>1, <1>1, <1>2, <1>3, <1>5 DEF TypeOK
<1>11. SignalsTellAll'  BY <1>1, <1>2, <1>5 DEF SignalsTellAll
<1> QED  BY <1>2, <1>3, <1>7, <1>8, <1>9, <1>10, <1>11 DEF UInv, Sorts

-----------------------------------------------------------------------------

LEMMA MucStutter == ASSUME UInv, UNCHANGED vars PROVE UInv'
<1>1. /\ UNCHANGED <<client, asked, mine, occupants, config, toRoom, toClient, calls, events>>
      /\ state' = state /\ nick' = nick /\ role' = role /\ members' = members /\ handlers' = handlers
      /\ roomType' = roomType /\ shown' = shown /\ heard' = heard
  BY DEF vars, room, client
<1>2. Sorts'  BY <1>1 DEF UInv, Sorts, TypeOK
<1>3. SignalsTellAll' /\ TypeIsCurrent(toClient, roomType, config)'
  BY <1>1 DEF UInv, SignalsTellAll
<1>4. OneJoin'  BY <1>1 DEF UInv, OneJoin, Answers
<1>5. Stage'
  <2>1. View(nick)' = View(nick) /\ \A e \in 1 .. Len(toClient) : View(toClient[e].nick)' = View(toClient[e].nick)
    BY <1>1 DEF View
  <2>2. Follows(nick, 0) => Follows(nick, 0)'  BY <1>1, <2>1 DEF Follows
  <2>3. ASSUME NEW e \in 1 .. Len(toClient), Enters(e) PROVE Enters(e)'
    BY <1>1, <2>1, <2>3 DEF Enters, Follows, Entry, Precedes, OwnPresence
  <2>4. Entering => Entering'  BY <1>1, <2>3 DEF Entering
  <2>5. Outside => Outside'  BY <1>1 DEF Outside
  <2>6. Answers(toClient) => Answers(toClient)'  BY <1>1 DEF Answers
  <2>7. Stage  BY DEF UInv
  <2> QED  BY <1>1, <2>2, <2>4, <2>5, <2>6, <2>7 DEF Stage
<1> QED  BY <1>2, <1>3, <1>4, <1>5 DEF UInv

LEMMA MucStep == ASSUME Ordinary, UInv, [Next]_vars PROVE UInv'
<1>1. CASE UNCHANGED vars  BY <1>1, MucStutter
<1>2. ASSUME NEW n \in Nicks, Join(n) PROVE UInv'  BY <1>2, JoinKeeps
<1>3. CASE Leave  BY <1>3, LeaveKeeps
<1>4. CASE DiscoInfoAsync  BY <1>4, DiscoInfoAsyncKeeps
<1>5. CASE HandleSelfPresence  BY <1>5, HandleSelfPresenceKeeps
<1>6. CASE HandleUserPresence  BY <1>6, HandleUserPresenceKeeps
<1>7. CASE HandleUnavailable  BY <1>7, HandleUnavailableKeeps
<1>8. CASE HandlePresenceError  BY <1>8, HandlePresenceErrorKeeps
<1>9. CASE HandleMessage  BY <1>9, HandleMessageKeeps
<1>10. CASE MucDiscoInfo  BY <1>10, MucDiscoInfoKeeps
<1>11. ASSUME NEW n \in Nicks \cup {None}, ServeJoin(n) PROVE UInv'
  <2>1. CASE n = None  BY <1>11, <2>1, JoinRefused
  <2>2. CASE n \in Nicks  BY <1>11, <2>2, JoinAccepted
  <2> QED  BY <2>1, <2>2
<1>12. CASE ServeLeave  BY <1>12, ServeLeaveKeeps
<1>13. CASE ServeDisco  BY <1>13, ServeDiscoKeeps
<1>14. CASE Kick  BY <1>14, KickKeeps
<1>15. ASSUME NEW n \in Nicks, NEW r \in Roles, RoleChanges(n, r) PROVE UInv'  BY <1>15, RoleChangesKeeps
<1>16. ASSUME NEW n \in Nicks, NEW m \in Nicks, OccupantRenames(n, m) PROVE UInv'
  BY <1>16, OccupantRenamesKeeps
<1>17. ASSUME NEW n \in Nicks, OccupantJoins(n) PROVE UInv'  BY <1>17, OccupantJoinsKeeps
<1>18. ASSUME NEW n \in Nicks, OccupantLeaves(n) PROVE UInv'  BY <1>18, OccupantLeavesKeeps
<1>19. ASSUME NEW c \in RoomTypes, Reconfigure(c) PROVE UInv'  BY <1>19, ReconfigureKeeps
<1>20. ASSUME NEW n \in Nicks, NEW to \in {"groupchat", "chat"}, Speaks(n, to) PROVE UInv'
  BY <1>20, SpeaksKeeps
<1> QED
  BY <1>1, <1>2, <1>3, <1>4, <1>5, <1>6, <1>7, <1>8, <1>9, <1>10, <1>11, <1>12, <1>13, <1>14, <1>15,
     <1>16, <1>17, <1>18, <1>19, <1>20
  DEF Next

\* Once nothing is under way, what is known is what the room holds.
LEMMA MucMeans == UInv => RoomIsMirrored
<1> SUFFICES ASSUME UInv, Drained
             PROVE  /\ state = "joined" <=> mine # None
                    /\ state = "joined" =>
                         /\ nick = mine /\ role = occupants[mine]
                         /\ members = [occupants EXCEPT ![mine] = None]
                         /\ roomType # None => "disco" \in asked \/ roomType = Flags(config)
  BY DEF RoomIsMirrored, MirrorsRoom, UInv, Sorts
<1>1. Stage /\ TypeOK /\ TypeIsCurrent(toClient, roomType, config) /\ toClient = <<>> /\ Len(toClient) = 0
  BY DEF UInv, Sorts, Drained
<1>2. 1 .. Len(toClient) = {} /\ 0 + 1 .. Len(toClient) = {} /\ Len(toClient) + 1 = 1 /\ 1 .. 1 - 1 = {}
  BY <1>1
<1>3. mine # None => state = "joined"  BY <1>1, <1>2, WhereInside
<1>4. ASSUME state = "joined"
      PROVE  /\ mine # None /\ nick = mine /\ role = occupants[mine]
             /\ members = [occupants EXCEPT ![mine] = None]
  <2>1. Follows(nick, 0)  BY <1>1, <1>4 DEF Stage
  <2>2. mine # None  BY <2>1, <1>2 DEF Follows, Inside, Stays
  <2>3. mine = nick /\ Current(toClient, View(nick), occupants) /\ members[nick] = None
    BY <2>1, <2>2 DEF Follows, Inside
  <2>4. \A k \in Nicks : View(nick)[k] = occupants[k]  BY <2>3, <1>2 DEF Current, Says
  <2>5. /\ nick \in Nicks /\ members \in [Nicks -> Roles \cup {None}]
        /\ occupants \in [Nicks -> Roles \cup {None}]
    BY <1>1 DEF TypeOK
  <2>6. role = occupants[nick]  BY <2>4, <2>5 DEF View
  <2>7. \A k \in Nicks : k # nick => members[k] = occupants[k]  BY <2>4 DEF View
  <2>8. members = [occupants EXCEPT ![nick] = None]  BY <2>3, <2>5, <2>7
  <2> QED  BY <2>2, <2>3, <2>6, <2>8
<1>5. roomType # None => roomType = Flags(config)  BY <1>1, <1>2 DEF TypeIsCurrent, Fits
<1> QED  BY <1>3, <1>4, <1>5

\* The room is mirrored (handle_presence_standard): however occupants come, go, change their names
\* and roles and the room its configuration before, during and after our joins, and whether we leave
\* or are made to leave, once all has arrived the object has our state, nick, role and members.
THEOREM MucMirrorsRoom ==
  ASSUME Ordinary
  PROVE  Spec => []RoomIsMirrored
<1>1. UInv /\ [Next]_vars => UInv'  BY MucStep
<1> QED  BY <1>1, MucInit, MucMeans, PTL DEF Spec

\* The signals tell all (handle_user_presence, get_message_sender): who takes the members when told
\* that we have joined and follows the signals has them at every moment, and a message is reported as
\* from a member with the role it had when it spoke.
THEOREM MucSignalsTellAll ==
  ASSUME Ordinary
  PROVE  Spec => []SignalsTellAll
<1>1. UInv /\ [Next]_vars => UInv'  BY MucStep
<1>2. UInv => SignalsTellAll  BY DEF UInv
<1> QED  BY <1>1, <1>2, MucInit, PTL DEF Spec

=============================================================================
