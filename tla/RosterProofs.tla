---------------------------- MODULE RosterProofs ----------------------------
(***************************************************************************)
(* Safety theorems about Roster, for every set of contacts, names and      *)
(* groups and any number of edits and disturbances: the copy of the roster *)
(* mirrors the server's, and edits are merged without losing a caller or   *)
(* the last wish.                                                          *)
(***************************************************************************)
EXTENDS Roster, FiniteSetTheorems, SequenceTheorems, TLAPS

\* What is sent between the client and the server
MaybeItems == Items \cup {None}
Requests == [iq : {Fetch}] \cup [jid : Jids, iq : Calls, item : MaybeItems]
Named == UNION {[S -> MaybeItems] : S \in SUBSET Jids}
Replies == [type : {"result", "error"}, jid : Jids, iq : Calls]
Messages == [type : {"roster", "push"}, items : Named] \cup Replies

Sorts == TypeOK /\ toServer \in Seq(Requests) /\ toClient \in Seq(Messages)

-----------------------------------------------------------------------------
(* The invariants: ts and tc are the two channels. *)

\* How far the fetch has got.  Until it has succeeded nothing else happens, and the roster is the
\* first thing the client hears.
Begins ==
  /\ calls = <<>> /\ completing = None
  /\ \A j \in Jids : items[j] = None /\ pending[j] = None
  /\ IF interested
     THEN /\ fetching /\ toServer = <<>> /\ toClient # <<>> /\ Head(toClient).type = "roster"
          /\ \A n \in 2 .. Len(toClient) : toClient[n].type = "push"
     ELSE /\ toClient = <<>>
          /\ toServer = IF fetching THEN <<[iq |-> Fetch]>> ELSE <<>>
Runs ==
  /\ interested
  /\ \A n \in 1 .. Len(toServer) : toServer[n].iq # Fetch
  /\ \A n \in 1 .. Len(toClient) : toClient[n].type # "roster"
Stage == IF fetched THEN Runs ELSE Begins

\* The last news of contact j in tc are that it is s; without any, k is what it is.
Fresh(j, k, s, tc) ==
  /\ (\A n \in 1 .. Len(tc) : ~News(tc[n], j)) => k = s
  /\ \A n \in 1 .. Len(tc) :
       News(tc[n], j) => Told(tc[n], j) = s \/ \E m \in 1 .. Len(tc) : n < m /\ News(tc[m], j)
IsFresh == interested => \A j \in Jids : Fresh(j, items[j], server[j], toClient)

\* The lists of a pending operation p of contact j: edits of that contact, each of them once
Distinct(s) == \A m, n \in 1 .. Len(s) : s[m] = s[n] => m = n
OfContact(s, j, cs) == Len(s) <= Len(cs) /\ \A n \in 1 .. Len(s) : s[n] \in 1 .. Len(cs) /\ cs[s[n]].jid = j
Holds(p, j, cs) ==
  /\ OfContact(p.flying, j, cs) /\ OfContact(p.waiting, j, cs)
  /\ Distinct(p.flying) /\ Distinct(p.waiting)
  /\ \A m \in 1 .. Len(p.flying), n \in 1 .. Len(p.waiting) : p.flying[m] # p.waiting[n]
\* Reply cp has called back entry n of a list of contact j.
FlyingCalled(cp, j, n) == cp # None /\ cp.jid = j /\ (cp.list = "waiting" \/ n < cp.next)
WaitingCalled(cp, j, n) == cp # None /\ cp.jid = j /\ cp.list = "waiting" /\ n < cp.next
Answered(p, j, cp, an) ==
  /\ \A n \in 1 .. Len(p.flying) : an[p.flying[n]] = None <=> ~FlyingCalled(cp, j, n)
  /\ \A n \in 1 .. Len(p.waiting) : an[p.waiting[n]] = None <=> ~WaitingCalled(cp, j, n)

IsIn(c, p) ==
  \/ \E n \in 1 .. Len(p.flying) : p.flying[n] = c
  \/ \E n \in 1 .. Len(p.waiting) : p.waiting[n] = c
ListOf(p, l) == IF l = "flying" THEN p.flying ELSE p.waiting

\* Of the edits cs those that have no answer in an are in a list of pd that has not called them back,
\* and no others are; cp is the reply that is calling back.
Tracked(pd, cs, an, cp) ==
  /\ \A j \in Jids : pd[j] # None => Holds(pd[j], j, cs) /\ Answered(pd[j], j, cp, an)
  /\ \A c \in 1 .. Len(cs) : an[c] = None => pd[cs[c].jid] # None /\ IsIn(c, pd[cs[c].jid])
  /\ cp # None => /\ pd[cp.jid] # None
                  /\ cp.next \in 1 .. Len(ListOf(pd[cp.jid], cp.list)) + 1
AllTracked == Tracked(pending, calls, answer, completing)

\* IQs of contact j
Asks(r, j) == r.iq # Fetch /\ r.jid = j
Answers(r, j) == r.type \in {"result", "error"} /\ r.jid = j
AtMostOne(ts, tc, j) ==
  /\ \A m, n \in 1 .. Len(ts) : Asks(ts[m], j) /\ Asks(ts[n], j) => m = n
  /\ \A m, n \in 1 .. Len(tc) : Answers(tc[m], j) /\ Answers(tc[n], j) => m = n
  /\ \A m \in 1 .. Len(ts), n \in 1 .. Len(tc) : ~(Asks(ts[m], j) /\ Answers(tc[n], j))
NoIq(ts, tc, j) ==
  /\ \A n \in 1 .. Len(ts) : ~Asks(ts[n], j)
  /\ \A n \in 1 .. Len(tc) : ~Answers(tc[n], j)
IsCompleting(j) == completing # None /\ completing.jid = j
AloneInFlight ==
  faults = 0 => \A j \in Jids :
    /\ AtMostOne(toServer, toClient, j)
    /\ pending[j] = None \/ IsCompleting(j) => NoIq(toServer, toClient, j)

RInv == Sorts /\ Stage /\ IsFresh /\ AllTracked /\ AloneInFlight

\* Undisturbed, a push is followed by the result of the IQ that caused it, ...
PushIsAnswered(tc) ==
  \A j \in Jids : \A n \in 1 .. Len(tc) : tc[n].type = "push" /\ News(tc[n], j) =>
    \E m \in 1 .. Len(tc) : n < m /\ Answers(tc[m], j)

\* ... and the last edit of a contact, e, shows in what the server has or will be asked for.
Final(p, i) == IF Vanished(p, i) THEN i ELSE Wanted(p, i)
FinishesWaiting(j) == IsCompleting(j) /\ completing.list = "waiting"
WillShow(e, j) ==
  /\ pending[j] = None => Shows(e, server[j])
  /\ pending[j] # None =>
       IF pending[j].waiting = <<>>
       THEN /\ (\A n \in 1 .. Len(toServer) : ~Asks(toServer[n], j)) => Shows(e, server[j])
            /\ \A n \in 1 .. Len(toServer) : Asks(toServer[n], j) => Shows(e, toServer[n].item)
       ELSE IF FinishesWaiting(j)
       THEN Shows(e, server[j])
       ELSE \A i \in MaybeItems : Shows(e, Final(pending[j], i))
Removes(ts, s, j) == \A n \in 1 .. Len(ts) : Asks(ts[n], j) /\ ts[n].item = None => s # None
RemovesSomething == \A j \in Jids : Removes(toServer, server[j], j)
LInv ==
  Undisturbed =>
    /\ PushIsAnswered(toClient) /\ RemovesSomething
    /\ \A c \in 1 .. Len(calls) : IsLast(c) => WillShow(calls[c], calls[c].jid)
-----------------------------------------------------------------------------
(* Constants and data *)

LEMMA Constants ==
  /\ None \notin Items /\ None \notin Pendings /\ None \notin Completions
  /\ None \notin Names /\ None \notin Groups /\ None \notin Jids
  /\ None \notin {"ok", "error", "add", "remove"} /\ "none" \in Subs
  /\ Fetch \notin Calls /\ Calls \subseteq Nat /\ MaxCalls \in Nat
BY RosterAssumption, NoneAssumption DEF Fetch, Calls

LEMMA EditIs ==
  ASSUME NEW e \in Edits
  PROVE  /\ e.jid \in Jids
         /\ \/ e.kind = "add" /\ e.name \in Names \cup {None} /\ e.groups \subseteq Groups
            \/ e.kind = "remove"
            \/ e.kind = "name" /\ e.name \in Names
            \/ e.kind \in {"join", "leave"} /\ e.group \in Groups
BY DEF Edits

LEMMA ItemIs ==
  ASSUME NEW i \in Items
  PROVE  i.name \in Names \cup {None} /\ i.groups \subseteq Groups /\ i.sub \in Subs
BY DEF Items

LEMMA PendingIs ==
  ASSUME NEW p \in Pendings
  PROVE  /\ p.flying \in Seq(Calls) /\ p.waiting \in Seq(Calls) /\ p.name \in Names \cup {None}
         /\ p.groupsToAdd \subseteq Groups /\ p.groupsToRemove \subseteq Groups
         /\ p.presence \in {None, "add", "remove"}
         /\ p["flying"] = p.flying /\ p["waiting"] = p.waiting
BY DEF Pendings

LEMMA NewItemIs == NewItem \in Items
BY Constants DEF NewItem, Items

\* The item the IQ of an edit asks for shows the edit.
LEMMA EditedIs ==
  ASSUME NEW e \in Edits, NEW i \in MaybeItems, i # None \/ e.kind \in {"add", "remove"}
  PROVE  /\ Edited(e, i) \in MaybeItems
         /\ Shows(e, Edited(e, i))
         /\ Edited(e, i) = None => e.kind = "remove"
<1>1. CASE e.kind = "add"
  <2>1. Edited(e, i) = [NewItem EXCEPT !.name = e.name, !.groups = e.groups]
    BY <1>1 DEF Edited
  <2>2. PICK r : r = Edited(e, i)
    OBVIOUS
  <2>3. r \in Items /\ r.name = e.name /\ r.groups = e.groups
    BY <1>1, <2>1, <2>2, EditIs, Constants DEF NewItem, Items
  <2>4. Shows(e, r)
    BY <1>1, <2>3, Constants DEF Shows
  <2> QED
    BY <2>2, <2>3, <2>4, Constants DEF MaybeItems
<1>2. CASE e.kind = "remove"
  BY <1>2 DEF Edited, Shows, MaybeItems
<1>3. CASE e.kind = "name"
  <2>1. i \in Items /\ e.name \in Names /\ Edited(e, i) = SetName(i, e.name)
    BY <1>3, EditIs DEF Edited, MaybeItems
  <2>2. PICK r : r = Edited(e, i)
    OBVIOUS
  <2>3. r \in Items /\ r.name = e.name
    BY <2>1, <2>2 DEF SetName, Items
  <2> QED
    BY <1>3, <2>2, <2>3, Constants DEF Shows, MaybeItems
<1>4. CASE e.kind = "join"
  <2>1. i \in Items /\ e.group \in Groups /\ Edited(e, i) = AddGroups(i, {e.group})
    BY <1>4, EditIs DEF Edited, MaybeItems
  <2>2. PICK r : r = Edited(e, i)
    OBVIOUS
  <2>3. r \in Items /\ e.group \in r.groups
    BY <2>1, <2>2 DEF AddGroups, Items
  <2> QED
    BY <1>4, <2>2, <2>3, Constants DEF Shows, MaybeItems
<1>5. CASE e.kind = "leave"
  <2>1. i \in Items /\ e.group \in Groups /\ Edited(e, i) = RemoveGroups(i, {e.group})
    BY <1>5, EditIs DEF Edited, MaybeItems
  <2>2. PICK r : r = Edited(e, i)
    OBVIOUS
  <2>3. r \in Items /\ e.group \notin r.groups
    BY <2>1, <2>2 DEF RemoveGroups, Items
  <2> QED
    BY <1>5, <2>2, <2>3, Constants DEF Shows, MaybeItems
<1> QED
  BY <1>1, <1>2, <1>3, <1>4, <1>5, EditIs

\* An edit that needs no IQ shows already.
LEMMA ImmediateShows ==
  ASSUME NEW e \in Edits, items[e.jid] \in MaybeItems, Immediate(e) # None
  PROVE  Immediate(e) \in {"ok", "error"} /\ Shows(e, items[e.jid])
<1>1. PICK i : i = items[e.jid]
  OBVIOUS
<1>2. CASE e.kind = "remove" /\ i = None
  BY <1>1, <1>2 DEF Immediate, Shows
<1>3. CASE e.kind \in {"name", "join", "leave"} /\ i = None
  BY <1>1, <1>3 DEF Immediate, Shows
<1>4. CASE ~(e.kind = "remove" /\ i = None) /\ ~(e.kind \in {"name", "join", "leave"} /\ i = None)
  <2>1. Immediate(e) = IF Edited(e, i) = i THEN "ok" ELSE None
    BY <1>1, <1>4 DEF Immediate
  <2>2. i # None \/ e.kind \in {"add", "remove"}
    BY <1>4, EditIs
  <2> QED
    BY <1>1, <2>1, <2>2, EditedIs
<1> QED
  BY <1>2, <1>3, <1>4

LEMMA AsksForItem ==
  ASSUME NEW e \in Edits, items[e.jid] \in MaybeItems, Immediate(e) = None
  PROVE  /\ Edited(e, items[e.jid]) \in MaybeItems /\ Shows(e, Edited(e, items[e.jid]))
         /\ Edited(e, items[e.jid]) = None => items[e.jid] # None
<1>1. ~(e.kind = "remove" /\ items[e.jid] = None)
  BY Constants DEF Immediate
<1>2. ~(e.kind \in {"name", "join", "leave"} /\ items[e.jid] = None)
  BY <1>1, Constants DEF Immediate
<1>3. items[e.jid] # None \/ e.kind \in {"add", "remove"}
  BY <1>2, EditIs
<1> QED
  BY <1>1, <1>3, EditedIs

LEMMA ChangedIs ==
  ASSUME NEW p \in Pendings, NEW i \in MaybeItems
  PROVE  /\ Changed(p, i) \in Items
         /\ p.name # None => Changed(p, i).name = p.name
         /\ \A g \in p.groupsToAdd : g \notin p.groupsToRemove => g \in Changed(p, i).groups
         /\ \A g \in p.groupsToRemove : g \notin Changed(p, i).groups
<1>1. PICK from : from = IF i = None THEN NewItem ELSE i
  OBVIOUS
<1>2. from \in Items
  BY <1>1, NewItemIs DEF MaybeItems
<1>3. PICK named : named = IF p.name # None THEN SetName(from, p.name) ELSE from
  OBVIOUS
<1>4. named \in Items /\ (p.name # None => named.name = p.name)
  <2>1. p.name \in Names \cup {None}
    BY PendingIs
  <2> QED
    BY <1>2, <1>3, <2>1 DEF SetName, Items
<1>5. PICK more : more = AddGroups(named, p.groupsToAdd)
  OBVIOUS
<1>6. more \in Items /\ more.name = named.name /\ more.groups = named.groups \cup p.groupsToAdd
  BY <1>4, <1>5, PendingIs DEF AddGroups, Items
<1>7. PICK all : all = RemoveGroups(more, p.groupsToRemove)
  OBVIOUS
<1>8. all \in Items /\ all.name = more.name /\ all.groups = more.groups \ p.groupsToRemove
  BY <1>6, <1>7 DEF RemoveGroups, Items
<1>9. Changed(p, i) = all
  BY <1>1, <1>3, <1>5, <1>7 DEF Changed
<1> QED
  BY <1>4, <1>6, <1>8, <1>9

LEMMA WantedIs ==
  ASSUME NEW p \in Pendings, NEW i \in MaybeItems
  PROVE  Wanted(p, i) \in MaybeItems /\ (Wanted(p, i) = None <=> p.presence = "remove")
BY ChangedIs, Constants DEF Wanted, MaybeItems

\* Merging keeps the lists, and the edit that is merged wins over what was wanted before.
LEMMA MergeChangeIs ==
  ASSUME NEW e \in Edits, NEW p \in Pendings
  PROVE  /\ MergeChange(e, p) \in Pendings
         /\ MergeChange(e, p).flying = p.flying /\ MergeChange(e, p).waiting = p.waiting
         /\ \A i \in MaybeItems : Shows(e, Final(MergeChange(e, p), i))
<1>1. PICK q : q = MergeChange(e, p)
  OBVIOUS
<1>2. CASE e.kind = "add"
  <2>1. q = [p EXCEPT !.name = e.name, !.groupsToAdd = e.groups, !.groupsToRemove = {}, !.presence = "add"]
    BY <1>1, <1>2 DEF MergeChange
  <2>2. /\ q \in Pendings /\ q.flying = p.flying /\ q.waiting = p.waiting /\ q.name = e.name
        /\ q.groupsToAdd = e.groups /\ q.groupsToRemove = {} /\ q.presence = "add"
    BY <1>2, <2>1, EditIs DEF Pendings
  <2>3. ASSUME NEW i \in MaybeItems
        PROVE  Shows(e, Final(q, i))
    <3>1. Final(q, i) = Changed(q, i)
      BY <2>2, Constants DEF Final, Vanished, Wanted
    <3>2. PICK r : r = Changed(q, i)
      OBVIOUS
    <3>3. r # None /\ (e.name # None => r.name = e.name) /\ \A g \in e.groups : g \in r.groups
      BY <2>2, <3>2, ChangedIs, Constants
    <3> QED
      BY <1>2, <3>1, <3>2, <3>3 DEF Shows
  <2> QED
    BY <1>1, <2>2, <2>3
<1>3. CASE e.kind = "remove"
  <2>1. q = [p EXCEPT !.presence = "remove"]
    BY <1>1, <1>3 DEF MergeChange
  <2>2. q \in Pendings /\ q.flying = p.flying /\ q.waiting = p.waiting /\ q.presence = "remove"
    BY <2>1 DEF Pendings
  <2>3. ASSUME NEW i \in MaybeItems
        PROVE  Shows(e, Final(q, i))
    BY <1>3, <2>2, Constants DEF Final, Vanished, Wanted, Shows
  <2> QED
    BY <1>1, <2>2, <2>3
<1>4. CASE e.kind = "name"
  <2>1. q = [p EXCEPT !.name = e.name]
    BY <1>1, <1>4 DEF MergeChange
  <2>2. /\ q \in Pendings /\ q.flying = p.flying /\ q.waiting = p.waiting
        /\ q.name = e.name /\ q.name # None
    BY <1>4, <2>1, EditIs, Constants DEF Pendings
  <2>3. ASSUME NEW i \in MaybeItems
        PROVE  Shows(e, Final(q, i))
    <3>1. Final(q, i) = None \/ Final(q, i) = Changed(q, i)
      BY DEF Final, Vanished, Wanted
    <3> QED
      BY <1>4, <2>2, <3>1, ChangedIs DEF Shows
  <2> QED
    BY <1>1, <2>2, <2>3
<1>5. CASE e.kind = "join"
  <2>1. q = [p EXCEPT !.groupsToAdd = @ \cup {e.group}, !.groupsToRemove = @ \ {e.group}]
    BY <1>1, <1>5 DEF MergeChange
  <2>2. e.group \in Groups /\ p.groupsToAdd \subseteq Groups /\ p.groupsToRemove \subseteq Groups
    BY <1>5, EditIs, PendingIs
  <2>3. /\ q \in Pendings /\ q.flying = p.flying /\ q.waiting = p.waiting
        /\ e.group \in q.groupsToAdd /\ e.group \notin q.groupsToRemove
    BY <2>1, <2>2 DEF Pendings
  <2>4. ASSUME NEW i \in MaybeItems
        PROVE  Shows(e, Final(q, i))
    <3>1. Final(q, i) = None \/ Final(q, i) = Changed(q, i)
      BY DEF Final, Vanished, Wanted
    <3> QED
      BY <1>5, <2>3, <3>1, ChangedIs DEF Shows
  <2> QED
    BY <1>1, <2>3, <2>4
<1>6. CASE e.kind = "leave"
  <2>1. q = [p EXCEPT !.groupsToRemove = @ \cup {e.group}, !.groupsToAdd = @ \ {e.group}]
    BY <1>1, <1>6 DEF MergeChange
  <2>2. e.group \in Groups /\ p.groupsToAdd \subseteq Groups /\ p.groupsToRemove \subseteq Groups
    BY <1>6, EditIs, PendingIs
  <2>3. /\ q \in Pendings /\ q.flying = p.flying /\ q.waiting = p.waiting
        /\ e.group \in q.groupsToRemove
    BY <2>1, <2>2 DEF Pendings
  <2>4. ASSUME NEW i \in MaybeItems
        PROVE  Shows(e, Final(q, i))
    <3>1. Final(q, i) = None \/ Final(q, i) = Changed(q, i)
      BY DEF Final, Vanished, Wanted
    <3> QED
      BY <1>6, <2>3, <3>1, ChangedIs DEF Shows
  <2> QED
    BY <1>1, <2>3, <2>4
<1> QED
  BY <1>2, <1>3, <1>4, <1>5, <1>6, EditIs

LEMMA MergeIs ==
  ASSUME NEW e \in Edits, NEW p \in Pendings, NEW c \in Calls, NEW q, q = Merge(c, e, p)
  PROVE  /\ q \in Pendings /\ q.flying = p.flying /\ q.waiting = Append(p.waiting, c)
         /\ \A i \in MaybeItems : Shows(e, Final(q, i))
<1>1. PICK m : m = MergeChange(e, p)
  OBVIOUS
<1>2. m \in Pendings /\ m.flying = p.flying /\ m.waiting = p.waiting
  BY <1>1, MergeChangeIs
<1>3. q = [m EXCEPT !.waiting = Append(@, c)]
  BY <1>1 DEF Merge
<1>4. Append(m.waiting, c) \in Seq(Calls)
  BY <1>2, PendingIs
<1>5. /\ q \in Pendings /\ q.flying = m.flying /\ q.waiting = Append(m.waiting, c)
      /\ q.name = m.name /\ q.groupsToAdd = m.groupsToAdd /\ q.groupsToRemove = m.groupsToRemove
      /\ q.presence = m.presence
  BY <1>2, <1>3, <1>4 DEF Pendings
<1>6. ASSUME NEW i \in MaybeItems
      PROVE  Final(q, i) = Final(m, i)
  BY <1>5 DEF Final, Vanished, Wanted, Changed
<1> QED
  BY <1>1, <1>2, <1>5, <1>6, MergeChangeIs

LEMMA NewPendingIs ==
  ASSUME NEW c \in Calls, NEW q, q = NewPending(c)
  PROVE  q \in Pendings /\ q.flying = <<c>> /\ q.waiting = <<>>
BY Constants DEF NewPending, Pendings

LEMMA PendingResetIs ==
  ASSUME NEW p \in Pendings, NEW q, q = PendingReset(p)
  PROVE  q \in Pendings /\ q.flying = p.waiting /\ q.waiting = <<>>
<1>1. p.waiting \in Seq(Calls) /\ <<>> \in Seq(Calls)
  BY PendingIs
<1>2. q = [p EXCEPT !.flying = p.waiting, !.waiting = <<>>]
  BY DEF PendingReset
<1> QED
  BY <1>1, <1>2 DEF Pendings

-----------------------------------------------------------------------------
(* The channels *)

LEMMA TailIs ==
  ASSUME NEW S, NEW q \in Seq(S), q # <<>>
  PROVE  /\ Tail(q) \in Seq(S) /\ Len(q) \in Nat \ {0} /\ Len(Tail(q)) = Len(q) - 1
         /\ \A i \in 1 .. Len(Tail(q)) : Tail(q)[i] = q[i + 1] /\ i + 1 \in 1 .. Len(q)
         /\ \A i \in 1 .. Len(q) : i = 1 \/ (i - 1 \in 1 .. Len(Tail(q)) /\ Tail(q)[i - 1] = q[i])
         /\ Head(q) = q[1] /\ 1 \in 1 .. Len(q) /\ Head(q) \in S
<1>1. Len(q) \in Nat \ {0} /\ Len(Tail(q)) = Len(q) - 1 /\ Tail(q) \in Seq(S)
  OBVIOUS
<1>2. \A i \in 1 .. Len(Tail(q)) : Tail(q)[i] = q[i + 1] /\ i + 1 \in 1 .. Len(q)
  BY <1>1
<1>3. ASSUME NEW i \in 1 .. Len(q), i # 1
      PROVE  i - 1 \in 1 .. Len(Tail(q)) /\ Tail(q)[i - 1] = q[i]
  <2>1. i - 1 \in 1 .. Len(Tail(q)) /\ (i - 1) + 1 = i
    BY <1>1, <1>3
  <2> QED
    BY <1>2, <2>1
<1>4. Head(q) = q[1] /\ 1 \in 1 .. Len(q) /\ Head(q) \in S
  BY <1>1
<1> QED
  BY <1>1, <1>2, <1>3, <1>4

LEMMA AppendIs ==
  ASSUME NEW S, NEW q \in Seq(S), NEW m \in S
  PROVE  /\ Append(q, m) \in Seq(S) /\ Len(q) \in Nat /\ Len(Append(q, m)) = Len(q) + 1
         /\ \A i \in 1 .. Len(q) : Append(q, m)[i] = q[i] /\ i \in 1 .. Len(Append(q, m))
         /\ \A i \in 1 .. Len(Append(q, m)) : i = Len(q) + 1 \/ i \in 1 .. Len(q)
         /\ Append(q, m)[Len(q) + 1] = m /\ Len(q) + 1 \in 1 .. Len(Append(q, m))
  OBVIOUS

LEMMA NamedIs ==
  ASSUME NEW x \in Named
  PROVE  DOMAIN x \subseteq Jids /\ \A j \in DOMAIN x : x[j] \in MaybeItems
BY DEF Named

LEMMA RequestIs ==
  ASSUME NEW r \in Requests
  PROVE  /\ r.iq \in Calls \cup {Fetch}
         /\ r.iq # Fetch => r.jid \in Jids /\ r.item \in MaybeItems
BY Constants DEF Requests

LEMMA MessageIs ==
  ASSUME NEW m \in Messages
  PROVE  /\ m.type \in {"roster", "push"} => m.items \in Named
         /\ m.type \in {"result", "error"} => m.jid \in Jids /\ m.iq \in Calls
         /\ m.type \in {"roster", "push", "result", "error"}
BY DEF Messages, Replies

LEMMA PushIs ==
  ASSUME NEW j \in Jids, NEW i \in MaybeItems, NEW m, m = Push(j, i)
  PROVE  /\ m \in Messages /\ m.type = "push"
         /\ \A k : News(m, k) <=> k = j
         /\ Told(m, j) = i
<1>1. PICK x : x = [n \in {j} |-> i]
  OBVIOUS
<1>2. DOMAIN x = {j} /\ x[j] = i /\ x \in Named
  BY <1>1 DEF Named
<1>3. m.type = "push" /\ m.items = x /\ m \in Messages
  BY <1>1, <1>2 DEF Messages, Push
<1> QED
  BY <1>2, <1>3 DEF News, Told

\* What the client is sent of a change
LEMMA PushesIs ==
  ASSUME NEW tc \in Seq(Messages), NEW j \in Jids, NEW i \in MaybeItems, NEW m, m = Push(j, i)
  PROVE  /\ interested => Pushes(j, i) = <<m>> /\ tc \o Pushes(j, i) = Append(tc, m)
         /\ ~interested => Pushes(j, i) = <<>> /\ tc \o Pushes(j, i) = tc
<1>1. m \in Messages
  BY PushIs
<1>2. interested => Pushes(j, i) = <<m>>
  BY DEF Pushes
<1>3. ~interested => Pushes(j, i) = <<>>
  BY DEF Pushes
<1>4. tc \o <<m>> = Append(tc, m) /\ tc \o <<>> = tc
  BY <1>1
<1> QED
  BY <1>2, <1>3, <1>4

LEMMA FreshHeard ==
  ASSUME NEW j, NEW k, NEW s, NEW tc \in Seq(Messages), NEW k2, Fresh(j, k, s, tc), tc # <<>>,
         k2 = IF News(Head(tc), j) THEN Told(Head(tc), j) ELSE k
  PROVE  Fresh(j, k2, s, Tail(tc))
<1> DEFINE t2 == Tail(tc)
<1>1. /\ t2 \in Seq(Messages) /\ Len(tc) \in Nat \ {0} /\ Len(t2) = Len(tc) - 1
      /\ \A i \in 1 .. Len(t2) : t2[i] = tc[i + 1] /\ i + 1 \in 1 .. Len(tc)
      /\ \A i \in 1 .. Len(tc) : i = 1 \/ (i - 1 \in 1 .. Len(t2) /\ t2[i - 1] = tc[i])
      /\ Head(tc) = tc[1] /\ 1 \in 1 .. Len(tc)
  BY TailIs
<1> HIDE DEF t2
<1>2. ASSUME \A i \in 1 .. Len(t2) : ~News(t2[i], j)
      PROVE  k2 = s
  <2>1. \A i \in 1 .. Len(tc) : i = 1 \/ ~News(tc[i], j)
    BY <1>1, <1>2
  <2>2. CASE News(tc[1], j)
    <3>1. ~ \E m \in 1 .. Len(tc) : 1 < m /\ News(tc[m], j)
      BY <2>1
    <3> QED
      BY <1>1, <2>2, <3>1 DEF Fresh
  <2>3. CASE ~News(tc[1], j)
    BY <1>1, <2>1, <2>3 DEF Fresh
  <2> QED
    BY <2>2, <2>3
<1>3. ASSUME NEW i \in 1 .. Len(t2), News(t2[i], j), Told(t2[i], j) # s
      PROVE  \E m \in 1 .. Len(t2) : i < m /\ News(t2[m], j)
  <2>1. PICK m \in 1 .. Len(tc) : i + 1 < m /\ News(tc[m], j)
    BY <1>1, <1>3 DEF Fresh
  <2>2. m - 1 \in 1 .. Len(t2) /\ t2[m - 1] = tc[m] /\ i < m - 1
    BY <1>1, <2>1
  <2> QED
    BY <2>1, <2>2
<1> QED
  BY <1>2, <1>3 DEF Fresh, t2

LEMMA FreshAppended ==
  ASSUME NEW j, NEW k, NEW s, NEW tc \in Seq(Messages), NEW m \in Messages, NEW s2,
         Fresh(j, k, s, tc), s2 = IF News(m, j) THEN Told(m, j) ELSE s
  PROVE  Fresh(j, k, s2, Append(tc, m))
<1> DEFINE t2 == Append(tc, m)
<1>1. /\ t2 \in Seq(Messages) /\ Len(tc) \in Nat /\ Len(t2) = Len(tc) + 1
      /\ \A i \in 1 .. Len(tc) : t2[i] = tc[i] /\ i \in 1 .. Len(t2)
      /\ \A i \in 1 .. Len(t2) : i = Len(tc) + 1 \/ i \in 1 .. Len(tc)
      /\ t2[Len(tc) + 1] = m /\ Len(tc) + 1 \in 1 .. Len(t2)
  BY AppendIs
<1> HIDE DEF t2
<1>2. CASE News(m, j)
  BY <1>1, <1>2 DEF Fresh, t2
<1>3. CASE ~News(m, j)
  <2>1. (\A i \in 1 .. Len(t2) : ~News(t2[i], j)) => k = s2
    BY <1>1, <1>3 DEF Fresh
  <2>2. ASSUME NEW i \in 1 .. Len(t2), News(t2[i], j), Told(t2[i], j) # s2
        PROVE  \E n \in 1 .. Len(t2) : i < n /\ News(t2[n], j)
    <3>1. i \in 1 .. Len(tc) /\ t2[i] = tc[i]
      BY <1>1, <1>3, <2>2
    <3>2. PICK n \in 1 .. Len(tc) : i < n /\ News(tc[n], j)
      BY <1>3, <2>2, <3>1 DEF Fresh
    <3> QED
      BY <1>1, <3>2
  <2> QED
    BY <2>1, <2>2 DEF Fresh, t2
<1> QED
  BY <1>2, <1>3

\* IQs that are sent, served and heard of
LEMMA RequestSent ==
  ASSUME NEW ts \in Seq(Requests), NEW tc, NEW r \in Requests, NEW j,
         AtMostOne(ts, tc, j), Asks(r, j) => NoIq(ts, tc, j)
  PROVE  /\ AtMostOne(Append(ts, r), tc, j)
         /\ ~Asks(r, j) /\ NoIq(ts, tc, j) => NoIq(Append(ts, r), tc, j)
<1> DEFINE t2 == Append(ts, r)
<1>1. /\ Len(ts) \in Nat /\ Len(t2) = Len(ts) + 1
      /\ \A i \in 1 .. Len(ts) : t2[i] = ts[i] /\ i \in 1 .. Len(t2)
      /\ \A i \in 1 .. Len(t2) : i = Len(ts) + 1 \/ i \in 1 .. Len(ts)
      /\ t2[Len(ts) + 1] = r
  BY AppendIs
<1> HIDE DEF t2
<1>2. AtMostOne(t2, tc, j)
  <2>1. CASE Asks(r, j)
    <3>1. \A i \in 1 .. Len(t2) : Asks(t2[i], j) => i = Len(ts) + 1
      BY <1>1, <2>1 DEF NoIq
    <3> QED
      BY <2>1, <3>1 DEF NoIq, AtMostOne
  <2>2. CASE ~Asks(r, j)
    <3>1. \A i \in 1 .. Len(t2) : Asks(t2[i], j) => i \in 1 .. Len(ts) /\ Asks(ts[i], j)
      BY <1>1, <2>2
    <3> QED
      BY <3>1 DEF AtMostOne
  <2> QED
    BY <2>1, <2>2
<1>3. ~Asks(r, j) /\ NoIq(ts, tc, j) => NoIq(t2, tc, j)
  BY <1>1 DEF NoIq
<1> QED
  BY <1>2, <1>3 DEF t2

LEMMA MessageHeard ==
  ASSUME NEW ts, NEW tc \in Seq(Messages), tc # <<>>, NEW j, AtMostOne(ts, tc, j)
  PROVE  /\ AtMostOne(ts, Tail(tc), j)
         /\ NoIq(ts, tc, j) \/ Answers(Head(tc), j) => NoIq(ts, Tail(tc), j)
<1> DEFINE t2 == Tail(tc)
<1>1. /\ Len(tc) \in Nat \ {0} /\ Len(t2) = Len(tc) - 1
      /\ \A i \in 1 .. Len(t2) : t2[i] = tc[i + 1] /\ i + 1 \in 1 .. Len(tc)
      /\ Head(tc) = tc[1] /\ 1 \in 1 .. Len(tc)
  BY TailIs
<1> HIDE DEF t2
<1>2. \A i \in 1 .. Len(t2) : Answers(t2[i], j) => Answers(tc[i + 1], j) /\ i + 1 \in 1 .. Len(tc)
  BY <1>1
<1>3. AtMostOne(ts, t2, j)
  <2>1. ASSUME NEW m \in 1 .. Len(t2), NEW n \in 1 .. Len(t2), Answers(t2[m], j), Answers(t2[n], j)
        PROVE  m = n
    <3>1. m + 1 = n + 1
      BY <1>2, <2>1 DEF AtMostOne
    <3> QED
      BY <3>1
  <2>2. \A m \in 1 .. Len(ts), n \in 1 .. Len(t2) : ~(Asks(ts[m], j) /\ Answers(t2[n], j))
    BY <1>2 DEF AtMostOne
  <2> QED
    BY <2>1, <2>2 DEF AtMostOne
<1>4. NoIq(ts, tc, j) => NoIq(ts, t2, j)
  BY <1>2 DEF NoIq
<1>5. ASSUME Answers(Head(tc), j)
      PROVE  NoIq(ts, t2, j)
  <2>1. \A n \in 1 .. Len(ts) : ~Asks(ts[n], j)
    BY <1>1, <1>5 DEF AtMostOne
  <2>2. ASSUME NEW n \in 1 .. Len(t2), Answers(t2[n], j)
        PROVE  FALSE
    <3>1. n + 1 = 1
      BY <1>1, <1>2, <1>5, <2>2 DEF AtMostOne
    <3> QED
      BY <3>1
  <2> QED
    BY <2>1, <2>2 DEF NoIq
<1> QED
  BY <1>3, <1>4, <1>5 DEF t2

LEMMA NewsSent ==
  ASSUME NEW ts, NEW tc \in Seq(Messages), NEW m \in Messages, NEW j,
         AtMostOne(ts, tc, j), ~Answers(m, j)
  PROVE  /\ AtMostOne(ts, Append(tc, m), j)
         /\ NoIq(ts, tc, j) => NoIq(ts, Append(tc, m), j)
<1> DEFINE t2 == Append(tc, m)
<1>1. /\ Len(tc) \in Nat /\ Len(t2) = Len(tc) + 1
      /\ \A i \in 1 .. Len(tc) : t2[i] = tc[i] /\ i \in 1 .. Len(t2)
      /\ \A i \in 1 .. Len(t2) : i = Len(tc) + 1 \/ i \in 1 .. Len(tc)
      /\ t2[Len(tc) + 1] = m
  BY AppendIs
<1> HIDE DEF t2
<1>2. \A i \in 1 .. Len(t2) : Answers(t2[i], j) => i \in 1 .. Len(tc) /\ Answers(tc[i], j)
  BY <1>1
<1>3. AtMostOne(ts, t2, j)
  BY <1>2 DEF AtMostOne
<1>4. NoIq(ts, tc, j) => NoIq(ts, t2, j)
  BY <1>2 DEF NoIq
<1> QED
  BY <1>3, <1>4 DEF t2

LEMMA RequestServed ==
  ASSUME NEW ts \in Seq(Requests), ts # <<>>, NEW tc \in Seq(Messages), NEW m \in Messages, NEW j,
         AtMostOne(ts, tc, j), Answers(m, j) => Asks(Head(ts), j)
  PROVE  /\ AtMostOne(Tail(ts), Append(tc, m), j)
         /\ NoIq(ts, tc, j) => NoIq(Tail(ts), Append(tc, m), j)
         /\ Asks(Head(ts), j) => \A n \in 1 .. Len(Tail(ts)) : ~Asks(Tail(ts)[n], j)
<1> DEFINE s2 == Tail(ts)
           t2 == Append(tc, m)
<1>1. /\ Len(tc) \in Nat /\ Len(t2) = Len(tc) + 1
      /\ \A i \in 1 .. Len(tc) : t2[i] = tc[i] /\ i \in 1 .. Len(t2)
      /\ \A i \in 1 .. Len(t2) : i = Len(tc) + 1 \/ i \in 1 .. Len(tc)
      /\ t2[Len(tc) + 1] = m
  BY AppendIs
<1>2. /\ Len(ts) \in Nat \ {0} /\ Len(s2) = Len(ts) - 1
      /\ \A i \in 1 .. Len(s2) : s2[i] = ts[i + 1] /\ i + 1 \in 1 .. Len(ts)
      /\ Head(ts) = ts[1] /\ 1 \in 1 .. Len(ts)
  BY TailIs
<1> HIDE DEF s2, t2
<1>3. \A i \in 1 .. Len(s2) : Asks(s2[i], j) => Asks(ts[i + 1], j) /\ i + 1 \in 1 .. Len(ts)
  BY <1>2
<1>4. \A i \in 1 .. Len(t2) : Answers(t2[i], j) =>
        (i \in 1 .. Len(tc) /\ Answers(tc[i], j)) \/ (i = Len(tc) + 1 /\ Answers(m, j))
  BY <1>1
<1>5. ASSUME Asks(Head(ts), j)
      PROVE  /\ \A i \in 1 .. Len(s2) : ~Asks(s2[i], j)
             /\ \A i \in 1 .. Len(tc) : ~Answers(tc[i], j)
  <2>1. ASSUME NEW i \in 1 .. Len(s2), Asks(s2[i], j)
        PROVE  FALSE
    <3>1. i + 1 = 1
      BY <1>2, <1>3, <1>5, <2>1 DEF AtMostOne
    <3> QED
      BY <3>1
  <2>2. \A i \in 1 .. Len(tc) : ~Answers(tc[i], j)
    BY <1>2, <1>5 DEF AtMostOne
  <2> QED
    BY <2>1, <2>2
<1>6. \A k, l \in 1 .. Len(s2) : Asks(s2[k], j) /\ Asks(s2[l], j) => k = l
  <2>1. ASSUME NEW k \in 1 .. Len(s2), NEW l \in 1 .. Len(s2), Asks(s2[k], j), Asks(s2[l], j)
        PROVE  k = l
    <3>1. k + 1 = l + 1
      BY <1>3, <2>1 DEF AtMostOne
    <3> QED
      BY <3>1
  <2> QED
    BY <2>1
<1>7. CASE Answers(m, j)
  <2>1. /\ \A i \in 1 .. Len(s2) : ~Asks(s2[i], j)
        /\ \A i \in 1 .. Len(t2) : Answers(t2[i], j) => i = Len(tc) + 1
    BY <1>4, <1>5, <1>7
  <2>2. AtMostOne(s2, t2, j)
    BY <2>1 DEF AtMostOne
  <2>3. ~NoIq(ts, tc, j)
    BY <1>2, <1>7 DEF NoIq
  <2> QED
    BY <1>5, <2>2, <2>3 DEF s2, t2
<1>8. CASE ~Answers(m, j)
  <2>1. AtMostOne(s2, t2, j)
    BY <1>3, <1>4, <1>6, <1>8 DEF AtMostOne
  <2>2. NoIq(ts, tc, j) => NoIq(s2, t2, j)
    BY <1>3, <1>4, <1>8 DEF NoIq
  <2> QED
    BY <1>5, <2>1, <2>2 DEF s2, t2
<1> QED
  BY <1>7, <1>8

LEMMA PushHeard ==
  ASSUME NEW tc \in Seq(Messages), tc # <<>>, PushIsAnswered(tc)
  PROVE  PushIsAnswered(Tail(tc))
<1> DEFINE t2 == Tail(tc)
<1>1. /\ Len(tc) \in Nat \ {0} /\ Len(t2) = Len(tc) - 1
      /\ \A i \in 1 .. Len(t2) : t2[i] = tc[i + 1] /\ i + 1 \in 1 .. Len(tc)
      /\ \A i \in 1 .. Len(tc) : i = 1 \/ (i - 1 \in 1 .. Len(t2) /\ t2[i - 1] = tc[i])
  BY TailIs
<1> HIDE DEF t2
<1>2. ASSUME NEW j \in Jids, NEW n \in 1 .. Len(t2), t2[n].type = "push", News(t2[n], j)
      PROVE  \E m \in 1 .. Len(t2) : n < m /\ Answers(t2[m], j)
  <2>1. tc[n + 1].type = "push" /\ News(tc[n + 1], j) /\ n + 1 \in 1 .. Len(tc)
    BY <1>1, <1>2
  <2>2. PICK m \in 1 .. Len(tc) : n + 1 < m /\ Answers(tc[m], j)
    BY <2>1 DEF PushIsAnswered
  <2>3. m - 1 \in 1 .. Len(t2) /\ t2[m - 1] = tc[m] /\ n < m - 1
    BY <1>1, <2>2
  <2> QED
    BY <2>2, <2>3
<1> QED
  BY <1>2 DEF PushIsAnswered, t2

\* A push that only a later reply answers, and that reply
PushesAnsweredBy(tc, m) ==
  \A j \in Jids : \A n \in 1 .. Len(tc) : tc[n].type = "push" /\ News(tc[n], j) =>
    (\E k \in 1 .. Len(tc) : n < k /\ Answers(tc[k], j)) \/ Answers(m, j)

LEMMA PushSent ==
  ASSUME NEW tc \in Seq(Messages), NEW p \in Messages, NEW m, PushIsAnswered(tc),
         \A j \in Jids : p.type = "push" /\ News(p, j) => Answers(m, j)
  PROVE  PushesAnsweredBy(Append(tc, p), m)
<1> DEFINE t2 == Append(tc, p)
<1>1. /\ Len(tc) \in Nat /\ Len(t2) = Len(tc) + 1
      /\ \A i \in 1 .. Len(tc) : t2[i] = tc[i] /\ i \in 1 .. Len(t2)
      /\ \A i \in 1 .. Len(t2) : i = Len(tc) + 1 \/ i \in 1 .. Len(tc)
      /\ t2[Len(tc) + 1] = p
  BY AppendIs
<1> HIDE DEF t2
<1>2. ASSUME NEW j \in Jids, NEW n \in 1 .. Len(t2), t2[n].type = "push", News(t2[n], j),
             ~Answers(m, j)
      PROVE  \E k \in 1 .. Len(t2) : n < k /\ Answers(t2[k], j)
  <2>1. n \in 1 .. Len(tc) /\ t2[n] = tc[n]
    BY <1>1, <1>2
  <2>2. PICK k \in 1 .. Len(tc) : n < k /\ Answers(tc[k], j)
    BY <1>2, <2>1 DEF PushIsAnswered
  <2> QED
    BY <1>1, <2>2
<1> QED
  BY <1>2 DEF PushesAnsweredBy, t2

LEMMA ReplySent ==
  ASSUME NEW tc \in Seq(Messages), NEW m \in Messages, PushesAnsweredBy(tc, m), m.type # "push"
  PROVE  PushIsAnswered(Append(tc, m))
<1> DEFINE t2 == Append(tc, m)
<1>1. /\ Len(tc) \in Nat /\ Len(t2) = Len(tc) + 1
      /\ \A i \in 1 .. Len(tc) : t2[i] = tc[i] /\ i \in 1 .. Len(t2)
      /\ \A i \in 1 .. Len(t2) : i = Len(tc) + 1 \/ i \in 1 .. Len(tc)
      /\ t2[Len(tc) + 1] = m /\ Len(tc) + 1 \in 1 .. Len(t2)
  BY AppendIs
<1> HIDE DEF t2
<1>2. ASSUME NEW j \in Jids, NEW n \in 1 .. Len(t2), t2[n].type = "push", News(t2[n], j)
      PROVE  \E k \in 1 .. Len(t2) : n < k /\ Answers(t2[k], j)
  <2>1. n \in 1 .. Len(tc) /\ t2[n] = tc[n]
    BY <1>1, <1>2
  <2>2. (\E k \in 1 .. Len(tc) : n < k /\ Answers(tc[k], j)) \/ Answers(m, j)
    BY <1>2, <2>1 DEF PushesAnsweredBy
  <2>3. n < Len(tc) + 1
    BY <1>1, <2>1
  <2> QED
    BY <1>1, <2>2, <2>3
<1> QED
  BY <1>2 DEF PushIsAnswered, t2

LEMMA AnsweredAnyway ==
  ASSUME NEW tc, NEW m, PushIsAnswered(tc)
  PROVE  PushesAnsweredBy(tc, m)
BY DEF PushIsAnswered, PushesAnsweredBy

-----------------------------------------------------------------------------
(* The lists of edits *)

\* Sequence t is s and x after it.
Extended(s, t, x) ==
  /\ Len(s) \in Nat /\ Len(t) = Len(s) + 1 /\ t[Len(s) + 1] = x
  /\ \A n \in 1 .. Len(s) : t[n] = s[n]

LEMMA AppendExtends ==
  ASSUME NEW S, NEW q \in Seq(S), NEW x \in S, NEW t, t = Append(q, x)
  PROVE  Extended(q, t, x) /\ t \in Seq(S)
BY DEF Extended

\* What the lists are made of
Typed(pd, cs, cp) ==
  /\ \A j \in Jids : pd[j] \in Pendings \cup {None}
  /\ \A c \in 1 .. Len(cs) : cs[c].jid \in Jids
  /\ cp # None => cp.jid \in Jids /\ cp.list \in {"flying", "waiting"} /\ cp.next \in Nat

LEMMA ListsAre ==
  ASSUME NEW p \in Pendings
  PROVE  Len(p.flying) \in Nat /\ Len(p.waiting) \in Nat
BY PendingIs

\* Edit e, number c, is answered with a, or else held by the pending operation q of its contact.
Taken(pd, pd2, q, e, a, c) ==
  /\ \A k \in Jids : pd2[k] = IF k = e.jid /\ a = None THEN q ELSE pd[k]
  /\ a = None => /\ q # None
                 /\ IF pd[e.jid] # None
                    THEN q.flying = pd[e.jid].flying /\ Extended(pd[e.jid].waiting, q.waiting, c)
                    ELSE q.flying = <<c>> /\ q.waiting = <<>>

\* An edit is asked for: it is answered at once, flies alone, or waits.
LEMMA EditTracked ==
  ASSUME NEW pd, NEW cs, NEW an, NEW cp, NEW e, NEW a, NEW q, NEW pd2, NEW cs2, NEW an2,
         Typed(pd, cs, cp), Tracked(pd, cs, an, cp), Len(an) = Len(cs), e.jid \in Jids,
         Extended(cs, cs2, e), Extended(an, an2, a), Taken(pd, pd2, q, e, a, Len(cs) + 1)
  PROVE  Tracked(pd2, cs2, an2, cp)
<1> DEFINE j == e.jid
           p == pd[j]
           new == Len(cs) + 1
<1>0. /\ \A k \in Jids : pd2[k] = IF k = e.jid /\ a = None THEN q ELSE pd[k]
      /\ a = None => /\ q # None
                     /\ IF p # None
                        THEN q.flying = p.flying /\ Extended(p.waiting, q.waiting, new)
                        ELSE q.flying = <<new>> /\ q.waiting = <<>>
  BY DEF Taken
<1>1. /\ Len(cs) \in Nat /\ new \in Nat /\ Len(cs2) = new /\ cs2[new] = e /\ an2[new] = a
      /\ \A c \in 1 .. Len(cs) : cs2[c] = cs[c] /\ an2[c] = an[c] /\ c # new
      /\ \A c \in 1 .. Len(cs2) : c = new \/ c \in 1 .. Len(cs)
      /\ new \in 1 .. Len(cs2)
  BY DEF Extended
<1>2. \A k \in Jids : pd[k] # None =>
        /\ pd[k] \in Pendings /\ Len(pd[k].flying) \in Nat /\ Len(pd[k].waiting) \in Nat
        /\ Holds(pd[k], k, cs) /\ Answered(pd[k], k, cp, an)
  BY ListsAre DEF Typed, Tracked
<1> HIDE DEF new
<1>3. ASSUME NEW k \in Jids, pd2[k] = pd[k], pd[k] # None
      PROVE  Holds(pd[k], k, cs2) /\ Answered(pd[k], k, cp, an2)
  <2>1. PICK r : r = pd[k]
    OBVIOUS
  <2>2. Holds(r, k, cs) /\ Answered(r, k, cp, an) /\ Len(r.flying) \in Nat /\ Len(r.waiting) \in Nat
    BY <1>2, <1>3, <2>1
  <2>3. OfContact(r.flying, k, cs) /\ OfContact(r.waiting, k, cs)
    BY <2>2 DEF Holds
  <2>4. /\ \A n \in 1 .. Len(r.flying) : r.flying[n] \in 1 .. Len(cs) /\ cs[r.flying[n]].jid = k
        /\ \A n \in 1 .. Len(r.waiting) : r.waiting[n] \in 1 .. Len(cs) /\ cs[r.waiting[n]].jid = k
        /\ Len(r.flying) <= Len(cs) /\ Len(r.waiting) <= Len(cs)
    BY <2>3 DEF OfContact
  <2>5. OfContact(r.flying, k, cs2) /\ OfContact(r.waiting, k, cs2)
    <3>1. \A c \in 1 .. Len(cs) : c \in 1 .. Len(cs2)
      BY <1>1 DEF new
    <3>2. Len(r.flying) <= Len(cs2) /\ Len(r.waiting) <= Len(cs2)
      BY <1>1, <2>2, <2>4 DEF new
    <3> QED
      BY <1>1, <2>4, <3>1, <3>2 DEF OfContact
  <2>6. Holds(r, k, cs2)
    BY <2>2, <2>5 DEF Holds
  <2>7. Answered(r, k, cp, an2)
    BY <1>1, <2>2, <2>4 DEF Answered
  <2> QED
    BY <2>1, <2>6, <2>7
<1>4. ASSUME a = None, p # None
      PROVE  Holds(q, j, cs2) /\ Answered(q, j, cp, an2)
  <2>1. PICK r : r = p
    OBVIOUS
  <2>2. /\ Holds(r, j, cs) /\ Answered(r, j, cp, an) /\ Len(r.flying) \in Nat /\ Len(r.waiting) \in Nat
        /\ q.flying = r.flying /\ Extended(r.waiting, q.waiting, new)
    BY <1>0, <1>2, <1>4, <2>1 DEF new
  <2>3. /\ \A n \in 1 .. Len(r.flying) : r.flying[n] \in 1 .. Len(cs) /\ cs[r.flying[n]].jid = j
        /\ \A n \in 1 .. Len(r.waiting) : r.waiting[n] \in 1 .. Len(cs) /\ cs[r.waiting[n]].jid = j
        /\ Len(r.flying) <= Len(cs) /\ Len(r.waiting) <= Len(cs)
    BY <2>2 DEF Holds, OfContact
  <2>4. PICK l : l = Len(r.waiting) + 1
    OBVIOUS
  <2>5. /\ Len(q.waiting) = l /\ q.waiting[l] = new /\ l \in Nat
        /\ \A n \in 1 .. Len(q.waiting) : n = l \/ n \in 1 .. Len(r.waiting)
        /\ \A n \in 1 .. Len(r.waiting) : q.waiting[n] = r.waiting[n] /\ q.waiting[n] # new
        /\ \A n \in 1 .. Len(r.flying) : q.flying[n] = r.flying[n] /\ q.flying[n] # new
    BY <1>1, <2>2, <2>3, <2>4 DEF Extended
  <2>6. Len(q.flying) <= Len(cs2) /\ Len(q.waiting) <= Len(cs2)
    BY <1>1, <2>2, <2>3, <2>4, <2>5 DEF new
  <2>7. \A c \in 1 .. Len(cs) : c \in 1 .. Len(cs2)
    BY <1>1 DEF new
  <2>8. OfContact(q.flying, j, cs2)
    BY <1>1, <2>2, <2>3, <2>6, <2>7 DEF OfContact
  <2>9. OfContact(q.waiting, j, cs2)
    <3>1. ASSUME NEW n \in 1 .. Len(q.waiting)
          PROVE  q.waiting[n] \in 1 .. Len(cs2) /\ cs2[q.waiting[n]].jid = j
      <4>1. CASE n = l
        BY <1>1, <2>5, <4>1
      <4>2. CASE n \in 1 .. Len(r.waiting)
        BY <1>1, <2>3, <2>5, <2>7, <4>2
      <4> QED
        BY <2>5, <4>1, <4>2
    <3> QED
      BY <2>6, <3>1 DEF OfContact
  <2>10. Distinct(q.flying)
    BY <2>2 DEF Holds
  <2>11. Distinct(q.waiting)
    BY <2>2, <2>5 DEF Holds, Distinct
  <2>12. \A m \in 1 .. Len(q.flying), n \in 1 .. Len(q.waiting) : q.flying[m] # q.waiting[n]
    BY <2>2, <2>5 DEF Holds
  <2>13. \A n \in 1 .. Len(q.flying) : an2[q.flying[n]] = None <=> ~FlyingCalled(cp, j, n)
    BY <1>1, <2>2, <2>3 DEF Answered
  <2>14. ~WaitingCalled(cp, j, l)
    BY <1>4, <2>1, <2>2, <2>4 DEF WaitingCalled, Tracked, ListOf, Typed
  <2>15. ASSUME NEW n \in 1 .. Len(q.waiting)
         PROVE  an2[q.waiting[n]] = None <=> ~WaitingCalled(cp, j, n)
    <3>1. CASE n = l
      BY <1>1, <1>4, <2>5, <2>14, <3>1
    <3>2. CASE n \in 1 .. Len(r.waiting)
      BY <1>1, <2>2, <2>3, <2>5, <3>2 DEF Answered
    <3> QED
      BY <2>5, <3>1, <3>2
  <2>16. Holds(q, j, cs2)
    BY <2>8, <2>9, <2>10, <2>11, <2>12 DEF Holds
  <2>17. Answered(q, j, cp, an2)
    BY <2>13, <2>15 DEF Answered
  <2> QED
    BY <2>16, <2>17
<1>5. ASSUME a = None, p = None
      PROVE  Holds(q, j, cs2) /\ Answered(q, j, cp, an2)
  <2>1. q.flying = <<new>> /\ q.waiting = <<>>
    BY <1>0, <1>5 DEF new
  <2>2. /\ Len(q.flying) = 1 /\ Len(q.waiting) = 0 /\ q.flying[1] = new
        /\ \A n \in 1 .. Len(q.flying) : n = 1
        /\ \A n \in 1 .. Len(q.waiting) : FALSE
    BY <2>1
  <2>3. Len(q.flying) <= Len(cs2) /\ Len(q.waiting) <= Len(cs2)
    BY <1>1, <2>2 DEF new
  <2>4. OfContact(q.flying, j, cs2) /\ OfContact(q.waiting, j, cs2)
    BY <1>1, <2>2, <2>3 DEF OfContact
  <2>5. ~FlyingCalled(cp, j, 1)
    BY <1>5 DEF FlyingCalled, Tracked
  <2>6. Holds(q, j, cs2)
    BY <2>2, <2>4 DEF Holds, Distinct
  <2>7. Answered(q, j, cp, an2)
    BY <1>1, <1>5, <2>2, <2>5 DEF Answered
  <2> QED
    BY <2>6, <2>7
<1>6. ASSUME NEW k \in Jids, pd2[k] # None
      PROVE  Holds(pd2[k], k, cs2) /\ Answered(pd2[k], k, cp, an2)
  <2>1. CASE k = j /\ a = None
    BY <1>0, <1>4, <1>5, <2>1
  <2>2. CASE ~(k = j /\ a = None)
    BY <1>0, <1>3, <1>6, <2>2
  <2> QED
    BY <2>1, <2>2
<1>7. ASSUME NEW c \in 1 .. Len(cs2), an2[c] = None
      PROVE  pd2[cs2[c].jid] # None /\ IsIn(c, pd2[cs2[c].jid])
  <2>1. CASE c = new
    <3>1. a = None /\ cs2[c] = e /\ pd2[j] = q /\ q # None
      BY <1>0, <1>1, <1>7, <2>1
    <3>2. CASE p # None
      <4>1. Extended(p.waiting, q.waiting, new)
        BY <1>0, <3>1, <3>2 DEF new
      <4>2. Len(p.waiting) + 1 \in 1 .. Len(q.waiting) /\ q.waiting[Len(p.waiting) + 1] = c
        BY <2>1, <4>1 DEF Extended
      <4> QED
        BY <3>1, <4>2 DEF IsIn
    <3>3. CASE p = None
      <4>1. q.flying = <<c>>
        BY <1>0, <2>1, <3>1, <3>3 DEF new
      <4>2. 1 \in 1 .. Len(q.flying) /\ q.flying[1] = c
        BY <4>1
      <4> QED
        BY <3>1, <4>2 DEF IsIn
    <3> QED
      BY <3>2, <3>3
  <2>2. CASE c \in 1 .. Len(cs)
    <3>1. PICK k : k = cs[c].jid
      OBVIOUS
    <3>2. cs2[c].jid = k /\ k \in Jids /\ pd[k] # None /\ IsIn(c, pd[k])
      BY <1>1, <1>7, <2>2, <3>1 DEF Tracked, Typed
    <3>3. CASE k = j /\ a = None
      <4>1. pd2[k] = q /\ q # None /\ q.flying = p.flying /\ Extended(p.waiting, q.waiting, new)
        BY <1>0, <3>2, <3>3 DEF new
      <4>2. \A n \in 1 .. Len(p.waiting) : n \in 1 .. Len(q.waiting) /\ q.waiting[n] = p.waiting[n]
        BY <4>1 DEF Extended
      <4>3. IsIn(c, q)
        BY <3>2, <3>3, <4>1, <4>2 DEF IsIn
      <4> QED
        BY <3>2, <4>1, <4>3
    <3>4. CASE ~(k = j /\ a = None)
      BY <1>0, <3>2, <3>4
    <3> QED
      BY <3>3, <3>4
  <2> QED
    BY <1>1, <2>1, <2>2
<1>8. ASSUME cp # None
      PROVE  /\ pd2[cp.jid] # None
             /\ cp.next \in 1 .. Len(ListOf(pd2[cp.jid], cp.list)) + 1
  <2>1. PICK k : k = cp.jid
    OBVIOUS
  <2>2. /\ k \in Jids /\ pd[k] # None /\ cp.list \in {"flying", "waiting"}
        /\ cp.next \in 1 .. Len(ListOf(pd[k], cp.list)) + 1
    BY <1>8, <2>1 DEF Tracked, Typed
  <2>3. CASE k = j /\ a = None
    <3>1. pd2[k] = q /\ q # None /\ q.flying = p.flying /\ Extended(p.waiting, q.waiting, new)
      BY <1>0, <2>2, <2>3 DEF new
    <3>2. Len(p.flying) \in Nat /\ Len(p.waiting) \in Nat /\ Len(q.waiting) = Len(p.waiting) + 1
      BY <1>2, <2>2, <2>3, <3>1 DEF Extended
    <3>3. cp.next \in 1 .. Len(ListOf(q, cp.list)) + 1
      <4>1. CASE cp.list = "flying"
        BY <2>2, <2>3, <3>1, <4>1 DEF ListOf
      <4>2. CASE cp.list = "waiting"
        <5>1. cp.next \in 1 .. Len(p.waiting) + 1 /\ ListOf(q, cp.list) = q.waiting
          BY <2>2, <2>3, <4>2 DEF ListOf
        <5> QED
          BY <3>2, <5>1
      <4> QED
        BY <2>2, <4>1, <4>2
    <3> QED
      BY <2>1, <3>1, <3>3
  <2>4. CASE ~(k = j /\ a = None)
    BY <1>0, <2>1, <2>2, <2>4
  <2> QED
    BY <2>3, <2>4
<1> QED
  BY <1>6, <1>7, <1>8 DEF Tracked

\* Where an edit is: in one list of one contact, once
LEMMA OnePlace ==
  ASSUME NEW pd, NEW cs, NEW an, NEW cp, Typed(pd, cs, cp), Tracked(pd, cs, an, cp),
         NEW j \in Jids, NEW k \in Jids, pd[j] # None, pd[k] # None
  PROVE  /\ \A m \in 1 .. Len(pd[j].flying), n \in 1 .. Len(pd[k].flying) :
              pd[j].flying[m] = pd[k].flying[n] => j = k /\ m = n
         /\ \A m \in 1 .. Len(pd[j].waiting), n \in 1 .. Len(pd[k].waiting) :
              pd[j].waiting[m] = pd[k].waiting[n] => j = k /\ m = n
         /\ \A m \in 1 .. Len(pd[j].flying), n \in 1 .. Len(pd[k].waiting) :
              pd[j].flying[m] # pd[k].waiting[n]
<1>1. PICK r, s : r = pd[j] /\ s = pd[k]
  OBVIOUS
<1>2. Holds(r, j, cs) /\ Holds(s, k, cs)
  BY <1>1 DEF Tracked
<1>3. /\ \A n \in 1 .. Len(r.flying) : cs[r.flying[n]].jid = j
      /\ \A n \in 1 .. Len(r.waiting) : cs[r.waiting[n]].jid = j
      /\ \A n \in 1 .. Len(s.flying) : cs[s.flying[n]].jid = k
      /\ \A n \in 1 .. Len(s.waiting) : cs[s.waiting[n]].jid = k
  BY <1>2 DEF Holds, OfContact
<1>4. CASE j = k
  BY <1>1, <1>2, <1>4 DEF Holds, Distinct
<1>5. CASE j # k
  BY <1>1, <1>3, <1>5
<1> QED
  BY <1>4, <1>5

\* An edit is called back.
LEMMA NextTracked ==
  ASSUME NEW pd, NEW cs, NEW an, NEW cp, NEW cp2, NEW an2, NEW c,
         Typed(pd, cs, cp), Tracked(pd, cs, an, cp), cp # None, cp2 # None,
         cp2.jid = cp.jid, cp2.list = cp.list, cp2.next = cp.next + 1,
         cp.next <= Len(ListOf(pd[cp.jid], cp.list)),
         c = ListOf(pd[cp.jid], cp.list)[cp.next],
         an2[c] # None, \A d \in 1 .. Len(cs) : d # c => an2[d] = an[d]
  PROVE  Tracked(pd, cs, an2, cp2)
<1>1. PICK j, r, x : j = cp.jid /\ r = pd[j] /\ x = cp.next
  OBVIOUS
<1>2. /\ j \in Jids /\ r # None /\ r \in Pendings /\ Len(r.flying) \in Nat /\ Len(r.waiting) \in Nat
      /\ cp.list \in {"flying", "waiting"} /\ x \in Nat
      /\ x \in 1 .. Len(ListOf(r, cp.list))
  BY <1>1, ListsAre DEF Tracked, Typed
<1>3. c = ListOf(r, cp.list)[x]
  BY <1>1
<1>4. \A k \in Jids : pd[k] # None =>
        /\ pd[k] \in Pendings /\ Len(pd[k].flying) \in Nat /\ Len(pd[k].waiting) \in Nat
        /\ Holds(pd[k], k, cs) /\ Answered(pd[k], k, cp, an)
  BY ListsAre DEF Typed, Tracked
<1>5. ASSUME NEW k \in Jids, pd[k] # None
      PROVE  Answered(pd[k], k, cp2, an2)
  <2>1. PICK s : s = pd[k]
    OBVIOUS
  <2>2. /\ Holds(s, k, cs) /\ Answered(s, k, cp, an) /\ Len(s.flying) \in Nat /\ Len(s.waiting) \in Nat
    BY <1>4, <1>5, <2>1
  <2>3. /\ \A n \in 1 .. Len(s.flying) : s.flying[n] \in 1 .. Len(cs)
        /\ \A n \in 1 .. Len(s.waiting) : s.waiting[n] \in 1 .. Len(cs)
    BY <2>2 DEF Holds, OfContact
  <2>4. ASSUME NEW n \in 1 .. Len(s.flying)
        PROVE  an2[s.flying[n]] = None <=> ~FlyingCalled(cp2, k, n)
    <3>1. an[s.flying[n]] = None <=> ~FlyingCalled(cp, k, n)
      BY <2>2 DEF Answered
    <3>2. CASE cp.list = "flying"
      <4>1. c = r.flying[x] /\ x \in 1 .. Len(r.flying)
        BY <1>2, <1>3, <3>2 DEF ListOf
      <4>2. s.flying[n] = c => j = k /\ x = n
        BY <1>1, <1>2, <1>5, <2>1, <4>1, OnePlace
      <4>3. CASE j = k /\ x = n
        <5>1. s.flying[n] = c
          BY <1>1, <2>1, <4>1, <4>3
        <5>2. FlyingCalled(cp2, k, n)
          BY <1>1, <1>2, <4>3 DEF FlyingCalled
        <5> QED
          BY <5>1, <5>2
      <4>4. CASE ~(j = k /\ x = n)
        <5>1. an2[s.flying[n]] = an[s.flying[n]]
          BY <2>3, <4>2, <4>4
        <5>2. FlyingCalled(cp2, k, n) <=> FlyingCalled(cp, k, n)
          BY <1>1, <1>2, <4>4 DEF FlyingCalled
        <5> QED
          BY <3>1, <5>1, <5>2
      <4> QED
        BY <4>3, <4>4
    <3>3. CASE cp.list = "waiting"
      <4>1. c = r.waiting[x] /\ x \in 1 .. Len(r.waiting)
        BY <1>2, <1>3, <3>3 DEF ListOf
      <4>2. s.flying[n] # c
        BY <1>1, <1>2, <1>5, <2>1, <4>1, OnePlace
      <4>3. FlyingCalled(cp2, k, n) <=> FlyingCalled(cp, k, n)
        BY <3>3 DEF FlyingCalled
      <4> QED
        BY <2>3, <3>1, <4>2, <4>3
    <3> QED
      BY <1>2, <3>2, <3>3
  <2>5. ASSUME NEW n \in 1 .. Len(s.waiting)
        PROVE  an2[s.waiting[n]] = None <=> ~WaitingCalled(cp2, k, n)
    <3>1. an[s.waiting[n]] = None <=> ~WaitingCalled(cp, k, n)
      BY <2>2 DEF Answered
    <3>2. CASE cp.list = "flying"
      <4>1. c = r.flying[x] /\ x \in 1 .. Len(r.flying)
        BY <1>2, <1>3, <3>2 DEF ListOf
      <4>2. s.waiting[n] # c
        BY <1>1, <1>2, <1>5, <2>1, <4>1, OnePlace
      <4>3. ~WaitingCalled(cp2, k, n) /\ ~WaitingCalled(cp, k, n)
        BY <3>2 DEF WaitingCalled
      <4> QED
        BY <2>3, <3>1, <4>2, <4>3
    <3>3. CASE cp.list = "waiting"
      <4>1. c = r.waiting[x] /\ x \in 1 .. Len(r.waiting)
        BY <1>2, <1>3, <3>3 DEF ListOf
      <4>2. s.waiting[n] = c => j = k /\ x = n
        BY <1>1, <1>2, <1>5, <2>1, <4>1, OnePlace
      <4>3. CASE j = k /\ x = n
        <5>1. s.waiting[n] = c
          BY <1>1, <2>1, <4>1, <4>3
        <5>2. WaitingCalled(cp2, k, n)
          BY <1>1, <1>2, <3>3, <4>3 DEF WaitingCalled
        <5> QED
          BY <5>1, <5>2
      <4>4. CASE ~(j = k /\ x = n)
        <5>1. an2[s.waiting[n]] = an[s.waiting[n]]
          BY <2>3, <4>2, <4>4
        <5>2. WaitingCalled(cp2, k, n) <=> WaitingCalled(cp, k, n)
          BY <1>1, <1>2, <4>4 DEF WaitingCalled
        <5> QED
          BY <3>1, <5>1, <5>2
      <4> QED
        BY <4>3, <4>4
    <3> QED
      BY <1>2, <3>2, <3>3
  <2> QED
    BY <2>1, <2>4, <2>5 DEF Answered
<1>6. \A d \in 1 .. Len(cs) : an2[d] = None => pd[cs[d].jid] # None /\ IsIn(d, pd[cs[d].jid])
  BY DEF Tracked
<1>7. cp2.next \in 1 .. Len(ListOf(pd[cp2.jid], cp2.list)) + 1
  <2>1. Len(ListOf(r, cp.list)) \in Nat
    BY <1>2 DEF ListOf
  <2> QED
    BY <1>1, <1>2, <2>1
<1> QED
  BY <1>1, <1>2, <1>4, <1>5, <1>6, <1>7 DEF Tracked

\* A reply comes and begins to call back the edits that fly.
LEMMA CompleteTracked ==
  ASSUME NEW pd, NEW cs, NEW an, NEW cp2, Typed(pd, cs, None), Tracked(pd, cs, an, None),
         cp2 # None, cp2.jid \in Jids, pd[cp2.jid] # None, cp2.list = "flying", cp2.next = 1
  PROVE  Tracked(pd, cs, an, cp2)
<1>1. \A k \in Jids : pd[k] # None =>
        /\ Len(pd[k].flying) \in Nat /\ Len(pd[k].waiting) \in Nat
        /\ Holds(pd[k], k, cs) /\ Answered(pd[k], k, None, an)
  BY ListsAre DEF Typed, Tracked
<1>2. ASSUME NEW k \in Jids, pd[k] # None
      PROVE  Answered(pd[k], k, cp2, an)
  <2>1. \A n \in 1 .. Len(pd[k].flying) : ~FlyingCalled(cp2, k, n) /\ ~FlyingCalled(None, k, n)
    BY <1>1, <1>2 DEF FlyingCalled
  <2>2. \A n \in 1 .. Len(pd[k].waiting) : ~WaitingCalled(cp2, k, n) /\ ~WaitingCalled(None, k, n)
    BY DEF WaitingCalled
  <2> QED
    BY <1>1, <1>2, <2>1, <2>2 DEF Answered
<1>3. cp2.next \in 1 .. Len(ListOf(pd[cp2.jid], cp2.list)) + 1
  BY <1>1 DEF ListOf
<1> QED
  BY <1>1, <1>2, <1>3 DEF Tracked

\* All edits of a contact have been called back, and its pending operation is freed.
LEMMA ForgetTracked ==
  ASSUME NEW pd, NEW cs, NEW an, NEW cp, NEW pd2,
         Typed(pd, cs, cp), Tracked(pd, cs, an, cp), cp # None,
         cp.next > Len(ListOf(pd[cp.jid], cp.list)),
         cp.list = "flying" => pd[cp.jid].waiting = <<>>,
         \A k \in Jids : pd2[k] = IF k = cp.jid THEN None ELSE pd[k]
  PROVE  Tracked(pd2, cs, an, None)
<1>1. PICK j, r, x : j = cp.jid /\ r = pd[j] /\ x = cp.next
  OBVIOUS
<1>2. /\ j \in Jids /\ r # None /\ Len(r.flying) \in Nat /\ Len(r.waiting) \in Nat
      /\ cp.list \in {"flying", "waiting"} /\ x \in Nat
  BY <1>1, ListsAre DEF Tracked, Typed
<1>3. \A k \in Jids : pd[k] # None => Holds(pd[k], k, cs) /\ Answered(pd[k], k, cp, an)
  BY DEF Tracked
<1>4. ASSUME NEW k \in Jids, pd2[k] # None
      PROVE  Holds(pd2[k], k, cs) /\ Answered(pd2[k], k, None, an)
  <2>1. k # j /\ pd2[k] = pd[k]
    BY <1>1, <1>4
  <2>2. \A n : ~FlyingCalled(cp, k, n) /\ ~FlyingCalled(None, k, n)
               /\ ~WaitingCalled(cp, k, n) /\ ~WaitingCalled(None, k, n)
    BY <1>1, <2>1 DEF FlyingCalled, WaitingCalled
  <2> QED
    BY <1>3, <1>4, <2>1, <2>2 DEF Answered
<1>5. \A n \in 1 .. Len(r.flying) : an[r.flying[n]] # None
  <2>1. \A n \in 1 .. Len(r.flying) : FlyingCalled(cp, j, n)
    <3>1. CASE cp.list = "flying"
      BY <1>1, <1>2, <3>1 DEF FlyingCalled, ListOf
    <3>2. CASE cp.list = "waiting"
      BY <1>1, <3>2 DEF FlyingCalled
    <3> QED
      BY <1>2, <3>1, <3>2
  <2> QED
    BY <1>1, <1>2, <1>3, <2>1 DEF Answered
<1>6. \A n \in 1 .. Len(r.waiting) : an[r.waiting[n]] # None
  <2>1. CASE cp.list = "flying"
    <3>1. r.waiting = <<>>
      BY <1>1, <2>1
    <3> QED
      BY <3>1
  <2>2. CASE cp.list = "waiting"
    <3>1. \A n \in 1 .. Len(r.waiting) : WaitingCalled(cp, j, n)
      BY <1>1, <1>2, <2>2 DEF WaitingCalled, ListOf
    <3> QED
      BY <1>1, <1>2, <1>3, <3>1 DEF Answered
  <2> QED
    BY <1>2, <2>1, <2>2
<1>7. ASSUME NEW c \in 1 .. Len(cs), an[c] = None
      PROVE  pd2[cs[c].jid] # None /\ IsIn(c, pd2[cs[c].jid])
  <2>1. PICK k : k = cs[c].jid
    OBVIOUS
  <2>2. k \in Jids /\ pd[k] # None /\ IsIn(c, pd[k])
    BY <1>7, <2>1 DEF Tracked, Typed
  <2>3. k # j
    BY <1>1, <1>5, <1>6, <1>7, <2>2 DEF IsIn
  <2> QED
    BY <1>1, <2>1, <2>2, <2>3
<1> QED
  BY <1>4, <1>7 DEF Tracked

\* The waiting edits take to the air once those that flew have been called back.
LEMMA ResetTracked ==
  ASSUME NEW pd, NEW cs, NEW an, NEW cp, NEW pd2, NEW q,
         Typed(pd, cs, cp), Tracked(pd, cs, an, cp), cp # None, cp.list = "flying",
         cp.next > Len(pd[cp.jid].flying), q # None,
         q.flying = pd[cp.jid].waiting, q.waiting = <<>>,
         \A k \in Jids : pd2[k] = IF k = cp.jid THEN q ELSE pd[k]
  PROVE  Tracked(pd2, cs, an, None)
<1>1. PICK j, r, x : j = cp.jid /\ r = pd[j] /\ x = cp.next
  OBVIOUS
<1>2. /\ j \in Jids /\ r # None /\ Len(r.flying) \in Nat /\ Len(r.waiting) \in Nat /\ x \in Nat
      /\ x > Len(r.flying) /\ q.flying = r.waiting
  BY <1>1, ListsAre DEF Tracked, Typed
<1>3. \A k \in Jids : pd[k] # None => Holds(pd[k], k, cs) /\ Answered(pd[k], k, cp, an)
  BY DEF Tracked
<1>4. Len(q.waiting) = 0 /\ \A n \in 1 .. Len(q.waiting) : FALSE
  OBVIOUS
<1>5. \A n \in 1 .. Len(r.flying) : an[r.flying[n]] # None
  <2>1. \A n \in 1 .. Len(r.flying) : FlyingCalled(cp, j, n)
    BY <1>1, <1>2 DEF FlyingCalled
  <2> QED
    BY <1>1, <1>2, <1>3, <2>1 DEF Answered
<1>6. Holds(q, j, cs) /\ Answered(q, j, None, an)
  <2>1. Holds(r, j, cs) /\ Answered(r, j, cp, an)
    BY <1>1, <1>2, <1>3
  <2>2. 0 <= Len(cs)
    BY <1>2, <2>1 DEF Holds, OfContact
  <2>3. OfContact(q.flying, j, cs) /\ OfContact(q.waiting, j, cs)
    BY <1>2, <1>4, <2>1, <2>2 DEF Holds, OfContact
  <2>4. Holds(q, j, cs)
    BY <1>2, <1>4, <2>1, <2>3 DEF Holds, Distinct
  <2>5. \A n : ~WaitingCalled(cp, j, n) /\ ~FlyingCalled(None, j, n)
    BY DEF WaitingCalled, FlyingCalled
  <2>6. Answered(q, j, None, an)
    BY <1>2, <1>4, <2>1, <2>5 DEF Answered
  <2> QED
    BY <2>4, <2>6
<1>7. ASSUME NEW k \in Jids, pd2[k] # None
      PROVE  Holds(pd2[k], k, cs) /\ Answered(pd2[k], k, None, an)
  <2>1. CASE k = j
    BY <1>1, <1>6, <2>1
  <2>2. CASE k # j
    <3>1. \A n : ~FlyingCalled(cp, k, n) /\ ~FlyingCalled(None, k, n)
                 /\ ~WaitingCalled(cp, k, n) /\ ~WaitingCalled(None, k, n)
      BY <1>1, <2>2 DEF FlyingCalled, WaitingCalled
    <3> QED
      BY <1>1, <1>3, <1>7, <2>2, <3>1 DEF Answered
  <2> QED
    BY <2>1, <2>2
<1>8. ASSUME NEW c \in 1 .. Len(cs), an[c] = None
      PROVE  pd2[cs[c].jid] # None /\ IsIn(c, pd2[cs[c].jid])
  <2>1. PICK k : k = cs[c].jid
    OBVIOUS
  <2>2. k \in Jids /\ pd[k] # None /\ IsIn(c, pd[k])
    BY <1>8, <2>1 DEF Tracked, Typed
  <2>3. CASE k = j
    <3>1. \E n \in 1 .. Len(r.waiting) : r.waiting[n] = c
      BY <1>1, <1>5, <1>8, <2>2, <2>3 DEF IsIn
    <3>2. IsIn(c, q)
      BY <1>2, <3>1 DEF IsIn
    <3> QED
      BY <1>1, <1>2, <2>1, <2>3, <3>2
  <2>4. CASE k # j
    BY <1>1, <2>1, <2>2, <2>4
  <2> QED
    BY <2>3, <2>4
<1> QED
  BY <1>7, <1>8 DEF Tracked

\* The waiting edits need no IQ of their own and are called back as well.
LEMMA WaitingTracked ==
  ASSUME NEW pd, NEW cs, NEW an, NEW cp, NEW cp2,
         Typed(pd, cs, cp), Tracked(pd, cs, an, cp), cp # None, cp.list = "flying",
         cp.next > Len(pd[cp.jid].flying),
         cp2 # None, cp2.jid = cp.jid, cp2.list = "waiting", cp2.next = 1
  PROVE  Tracked(pd, cs, an, cp2)
<1>1. PICK j, r, x : j = cp.jid /\ r = pd[j] /\ x = cp.next
  OBVIOUS
<1>2. /\ j \in Jids /\ r # None /\ Len(r.flying) \in Nat /\ Len(r.waiting) \in Nat /\ x \in Nat
      /\ x > Len(r.flying)
  BY <1>1, ListsAre DEF Tracked, Typed
<1>3. \A k \in Jids : pd[k] # None => Holds(pd[k], k, cs) /\ Answered(pd[k], k, cp, an)
  BY DEF Tracked
<1>4. ASSUME NEW k \in Jids, pd[k] # None
      PROVE  Answered(pd[k], k, cp2, an)
  <2>1. \A n \in 1 .. Len(pd[k].flying) : FlyingCalled(cp2, k, n) <=> FlyingCalled(cp, k, n)
    BY <1>1, <1>2 DEF FlyingCalled
  <2>2. \A n \in 1 .. Len(pd[k].waiting) : WaitingCalled(cp2, k, n) <=> WaitingCalled(cp, k, n)
    BY DEF WaitingCalled
  <2> QED
    BY <1>3, <1>4, <2>1, <2>2 DEF Answered
<1>5. cp2.next \in 1 .. Len(ListOf(pd[cp2.jid], cp2.list)) + 1
  BY <1>1, <1>2 DEF ListOf
<1> QED
  BY <1>1, <1>2, <1>3, <1>4, <1>5 DEF Tracked

-----------------------------------------------------------------------------
(* The steps of the application *)

LEMMA Facts ==
  ASSUME Sorts
  PROVE  /\ items \in [Jids -> MaybeItems] /\ server \in [Jids -> MaybeItems]
         /\ pending \in [Jids -> Pendings \cup {None}]
         /\ \A j \in Jids : pending[j] # None =>
              pending[j] \in Pendings /\ pending[j].flying # <<>>
         /\ completing # None =>
              /\ completing \in Completions
              /\ completing.jid \in Jids /\ completing.list \in {"flying", "waiting"}
              /\ completing.next \in Nat
         /\ calls \in Seq(Edits) /\ Len(calls) \in Nat /\ Len(calls) <= MaxCalls
         /\ answer \in Seq({None, "ok", "error"}) /\ Len(answer) = Len(calls)
         /\ toServer \in Seq(Requests) /\ toClient \in Seq(Messages)
         /\ Typed(pending, calls, completing)
<1>1. completing # None =>
        /\ completing \in Completions
        /\ completing.jid \in Jids /\ completing.list \in {"flying", "waiting"}
        /\ completing.next \in Nat
  BY DEF Sorts, TypeOK, Completions
<1>2. calls \in Seq(Edits) /\ Len(calls) \in Nat
  BY DEF Sorts, TypeOK
<1>3. \A c \in 1 .. Len(calls) : calls[c] \in Edits
  BY <1>2
<1>4. \A c \in 1 .. Len(calls) : calls[c].jid \in Jids
  BY <1>3, EditIs
<1>5. pending \in [Jids -> Pendings \cup {None}]
  BY DEF Sorts, TypeOK
<1>6. Typed(pending, calls, completing)
  BY <1>1, <1>4, <1>5 DEF Typed
<1> QED
  BY <1>1, <1>2, <1>5, <1>6 DEF Sorts, TypeOK, MaybeItems

\* What is sent for contact j
IqOf(j, c, i) == [jid |-> j, iq |-> c, item |-> i]

LEMMA IqIs ==
  ASSUME NEW j \in Jids, NEW c \in Calls, NEW i \in MaybeItems, NEW r, r = IqOf(j, c, i)
  PROVE  /\ r \in Requests /\ r.iq # Fetch /\ r.item = i
         /\ \A k : Asks(r, k) <=> k = j
BY Constants DEF IqOf, Requests, Asks

\* An IQ is sent for a contact without one.
LEMMA SentAlone ==
  ASSUME Sorts, Stage, fetched, fetched', NEW j \in Jids, NEW c \in Calls, NEW i \in MaybeItems, NEW r,
         r = IqOf(j, c, i), toServer' = Append(toServer, r),
         UNCHANGED <<toClient, interested>>
  PROVE  /\ toServer' \in Seq(Requests) /\ Stage'
         /\ \A k \in Jids :
              AtMostOne(toServer, toClient, k) /\ (k = j => NoIq(toServer, toClient, k)) =>
                /\ AtMostOne(toServer', toClient', k)
                /\ k # j /\ NoIq(toServer, toClient, k) => NoIq(toServer', toClient', k)
<1>1. r \in Requests /\ r.iq # Fetch /\ (\A k : Asks(r, k) <=> k = j)
  BY IqIs
<1>2. PICK ts, tc, t2 : ts = toServer /\ tc = toClient /\ t2 = Append(ts, r)
  OBVIOUS
<1>3. ts \in Seq(Requests) /\ tc \in Seq(Messages)
  BY <1>2, Facts
<1>4. /\ t2 \in Seq(Requests)
      /\ \A n \in 1 .. Len(ts) : t2[n] = ts[n]
      /\ \A n \in 1 .. Len(t2) : n = Len(ts) + 1 \/ n \in 1 .. Len(ts)
      /\ t2[Len(ts) + 1] = r
  BY <1>1, <1>2, <1>3, AppendIs
<1>5. \A n \in 1 .. Len(ts) : ts[n].iq # Fetch
  BY <1>2 DEF Stage, Runs
<1>6. \A n \in 1 .. Len(t2) : t2[n].iq # Fetch
  BY <1>1, <1>4, <1>5
<1>7. toServer' = t2 /\ toClient' = tc
  BY <1>2
<1>8. Stage'
  BY <1>2, <1>6, <1>7 DEF Stage, Runs
<1>9. ASSUME NEW k \in Jids, AtMostOne(ts, tc, k), k = j => NoIq(ts, tc, k)
      PROVE  /\ AtMostOne(t2, tc, k)
             /\ k # j /\ NoIq(ts, tc, k) => NoIq(t2, tc, k)
  BY <1>1, <1>2, <1>3, <1>9, RequestSent
<1> QED
  BY <1>2, <1>4, <1>7, <1>8, <1>9

\* What an edit does to the calls and their answers
LEMMA EditAdds ==
  ASSUME Sorts, NEW e \in Edits, Len(calls) < MaxCalls, calls' = Append(calls, e),
         NEW a \in {None, "ok", "error"}, answer' = Append(answer, a)
  PROVE  /\ Extended(calls, calls', e) /\ Extended(answer, answer', a)
         /\ calls' \in Seq(Edits) /\ Len(calls') <= MaxCalls
         /\ answer' \in Seq({None, "ok", "error"}) /\ Len(answer') = Len(calls')
         /\ Len(calls) + 1 \in Calls
<1>1. /\ calls \in Seq(Edits) /\ answer \in Seq({None, "ok", "error"}) /\ Len(answer) = Len(calls)
      /\ Len(calls) \in Nat
  BY Facts
<1>2. Extended(calls, calls', e) /\ calls' \in Seq(Edits)
  BY <1>1, AppendExtends
<1>3. Extended(answer, answer', a) /\ answer' \in Seq({None, "ok", "error"})
  <2>1. PICK S : S = {None, "ok", "error"}
    OBVIOUS
  <2>2. answer \in Seq(S) /\ a \in S
    BY <1>1, <2>1
  <2>3. Extended(answer, answer', a) /\ answer' \in Seq(S)
    BY <2>2, AppendExtends
  <2> QED
    BY <2>1, <2>3
<1>4. Len(calls') = Len(calls) + 1 /\ Len(answer') = Len(answer) + 1
  BY <1>2, <1>3 DEF Extended
<1>5. Len(calls) + 1 \in Calls /\ Len(calls) + 1 <= MaxCalls
  BY <1>1, RosterAssumption DEF Calls
<1> QED
  BY <1>1, <1>2, <1>3, <1>4, <1>5

LEMMA EditIsTracked ==
  ASSUME AllTracked, Typed(pending, calls, completing), Len(answer) = Len(calls),
         NEW e, e.jid \in Jids, NEW a, NEW q,
         Extended(calls, calls', e), Extended(answer, answer', a), completing' = completing,
         Taken(pending, pending', q, e, a, Len(calls) + 1)
  PROVE  AllTracked'
BY EditTracked DEF AllTracked

LEMMA EditKeeps ==
  ASSUME RInv, NEW e \in Edits, Edit(e)
  PROVE  RInv'
<1> DEFINE j == e.jid
           c == Len(calls) + 1
           p == pending[j]
<1>1. /\ fetched /\ Len(calls) < MaxCalls /\ calls' = Append(calls, e)
      /\ UNCHANGED <<items, fetching, fetched, completing, toClient, server, interested, others,
                     rejects, faults>>
  BY DEF Edit, worldVars
<1>2. /\ Sorts /\ Stage /\ IsFresh /\ AllTracked /\ AloneInFlight
      /\ e.jid \in Jids /\ items[j] \in MaybeItems
  BY EditIs, Facts DEF RInv
<1>3. /\ \A k \in Jids : pending[k] # None => pending[k] \in Pendings /\ pending[k].flying # <<>>
      /\ pending \in [Jids -> Pendings \cup {None}]
      /\ Len(answer) = Len(calls) /\ Typed(pending, calls, completing)
  BY <1>2, Facts
<1>4. IsFresh'
  BY <1>1, <1>2 DEF IsFresh
<1>5. CASE p # None
  <2>1. pending' = [pending EXCEPT ![j] = Merge(c, e, @)] /\ answer' = Append(answer, None)
        /\ toServer' = toServer
    BY <1>5 DEF Edit
  <2>2. PICK q : q = Merge(c, e, p)
    OBVIOUS
  <2>3. /\ Extended(calls, calls', e) /\ Extended(answer, answer', None)
        /\ calls' \in Seq(Edits) /\ Len(calls') <= MaxCalls
        /\ answer' \in Seq({None, "ok", "error"}) /\ Len(answer') = Len(calls') /\ c \in Calls
    BY <1>1, <1>2, <2>1, EditAdds
  <2>4. p \in Pendings /\ p.flying # <<>>
    BY <1>2, <1>3, <1>5
  <2>5. q \in Pendings /\ q.flying = p.flying /\ q.waiting = Append(p.waiting, c)
    BY <2>2, <2>3, <2>4, MergeIs
  <2>6. Extended(p.waiting, q.waiting, c)
    BY <2>3, <2>4, <2>5, PendingIs, AppendExtends
  <2>7. \A k \in Jids : pending'[k] = IF k = j THEN q ELSE pending[k]
    BY <1>3, <2>1, <2>2
  <2>8. pending' \in [Jids -> Pendings \cup {None}]
    BY <1>3, <2>1, <2>2, <2>5
  <2>9. q # None
    BY <2>5, Constants
  <2>10. AllTracked'
    <3>1. \A k \in Jids : pending'[k] = IF k = e.jid THEN q ELSE pending[k]
      BY <2>7
    <3>3. /\ q # None
          /\ IF pending[e.jid] # None
             THEN /\ q.flying = pending[e.jid].flying
                  /\ Extended(pending[e.jid].waiting, q.waiting, Len(calls) + 1)
             ELSE q.flying = <<Len(calls) + 1>> /\ q.waiting = <<>>
      BY <1>5, <2>5, <2>6, <2>9
    <3>4. Taken(pending, pending', q, e, None, c)
      BY <3>1, <3>3 DEF Taken
    <3> QED
      BY <1>1, <1>2, <1>3, <2>3, <3>4, EditIsTracked
  <2>11. \A k \in Jids : pending'[k] # None => pending'[k].flying # <<>>
    BY <1>3, <2>4, <2>5, <2>7
  <2>12. TypeOK'
    BY <1>1, <1>2, <2>3, <2>8, <2>11 DEF Sorts, TypeOK
  <2>13. Sorts'
    BY <1>1, <1>2, <2>1, <2>12 DEF Sorts
  <2>14. Stage'
    BY <1>1, <1>2, <2>1 DEF Stage, Runs
  <2>15. AloneInFlight'
    BY <1>1, <1>2, <1>5, <2>1, <2>7, <2>9 DEF AloneInFlight, IsCompleting
  <2> QED
    BY <1>4, <2>10, <2>13, <2>14, <2>15 DEF RInv
<1>6. CASE p = None /\ Immediate(e) # None
  <2>1. PICK a : a = Immediate(e)
    OBVIOUS
  <2>2. answer' = Append(answer, a) /\ UNCHANGED <<pending, toServer>>
    BY <1>6, <2>1 DEF Edit
  <2>3. a \in {"ok", "error"} /\ a # None
    BY <1>2, <1>6, <2>1, ImmediateShows
  <2>4. /\ Extended(calls, calls', e) /\ Extended(answer, answer', a)
        /\ calls' \in Seq(Edits) /\ Len(calls') <= MaxCalls
        /\ answer' \in Seq({None, "ok", "error"}) /\ Len(answer') = Len(calls')
    BY <1>1, <1>2, <2>2, <2>3, EditAdds
  <2>5. \A k \in Jids : pending'[k] = IF k = j /\ a = None THEN None ELSE pending[k]
    BY <2>2, <2>3
  <2>6. AllTracked'
    <3>1. Taken(pending, pending', None, e, a, c)
      BY <2>3, <2>5 DEF Taken
    <3> QED
      BY <1>1, <1>2, <1>3, <2>4, <3>1, EditIsTracked
  <2>7. Sorts'
    BY <1>1, <1>2, <2>2, <2>4 DEF Sorts, TypeOK
  <2>8. Stage' /\ AloneInFlight'
    BY <1>1, <1>2, <2>2 DEF Stage, Runs, AloneInFlight, IsCompleting
  <2> QED
    BY <1>4, <2>6, <2>7, <2>8 DEF RInv
<1>7. CASE p = None /\ Immediate(e) = None
  <2>1. PICK i, q, r : i = Edited(e, items[j]) /\ q = NewPending(c) /\ r = IqOf(j, c, i)
    OBVIOUS
  <2>2. pending' = [pending EXCEPT ![j] = q] /\ answer' = Append(answer, None)
        /\ toServer' = Append(toServer, r)
    BY <1>7, <2>1 DEF Edit, SendIq, IqOf
  <2>3. /\ Extended(calls, calls', e) /\ Extended(answer, answer', None)
        /\ calls' \in Seq(Edits) /\ Len(calls') <= MaxCalls
        /\ answer' \in Seq({None, "ok", "error"}) /\ Len(answer') = Len(calls') /\ c \in Calls
    BY <1>1, <1>2, <2>2, EditAdds
  <2>4. i \in MaybeItems
    BY <1>2, <1>7, <2>1, AsksForItem
  <2>5. q \in Pendings /\ q.flying = <<c>> /\ q.waiting = <<>> /\ q # None
    BY <2>1, <2>3, NewPendingIs, Constants
  <2>6. \A k \in Jids : pending'[k] = IF k = j THEN q ELSE pending[k]
    BY <1>3, <2>2
  <2>7. pending' \in [Jids -> Pendings \cup {None}]
    BY <1>3, <2>2, <2>5
  <2>8. \A k \in Jids : pending'[k] # None => pending'[k].flying # <<>>
    <3>1. q.flying # <<>>
      BY <2>5
    <3> QED
      BY <1>3, <2>6, <3>1
  <2>9. AllTracked'
    <3>1. \A k \in Jids : pending'[k] = IF k = e.jid THEN q ELSE pending[k]
      BY <2>6
    <3>3. /\ q # None
          /\ IF pending[e.jid] # None
             THEN /\ q.flying = pending[e.jid].flying
                  /\ Extended(pending[e.jid].waiting, q.waiting, Len(calls) + 1)
             ELSE q.flying = <<Len(calls) + 1>> /\ q.waiting = <<>>
      BY <1>7, <2>5
    <3>4. Taken(pending, pending', q, e, None, c)
      BY <3>1, <3>3 DEF Taken
    <3> QED
      BY <1>1, <1>2, <1>3, <2>3, <3>4, EditIsTracked
  <2>10. /\ toServer' \in Seq(Requests) /\ Stage'
         /\ \A k \in Jids :
              AtMostOne(toServer, toClient, k) /\ (k = j => NoIq(toServer, toClient, k)) =>
                /\ AtMostOne(toServer', toClient', k)
                /\ k # j /\ NoIq(toServer, toClient, k) => NoIq(toServer', toClient', k)
    BY <1>1, <1>2, <2>1, <2>2, <2>3, <2>4, SentAlone
  <2>11. Sorts'
    BY <1>1, <1>2, <2>3, <2>7, <2>8, <2>10 DEF Sorts, TypeOK
  <2>12. ~IsCompleting(j)
    BY <1>2, <1>7 DEF IsCompleting, AllTracked, Tracked
  <2>13. ASSUME faults' = 0, NEW k \in Jids
         PROVE  /\ AtMostOne(toServer', toClient', k)
                /\ pending'[k] = None \/ IsCompleting(k)' => NoIq(toServer', toClient', k)
    <3>1. /\ AtMostOne(toServer, toClient, k)
          /\ pending[k] = None \/ IsCompleting(k) => NoIq(toServer, toClient, k)
      BY <1>1, <1>2, <2>13 DEF AloneInFlight
    <3>2. IsCompleting(k)' <=> IsCompleting(k)
      BY <1>1 DEF IsCompleting
    <3>3. k = j => NoIq(toServer, toClient, k)
      BY <1>7, <3>1
    <3>4. /\ AtMostOne(toServer', toClient', k)
          /\ k # j /\ NoIq(toServer, toClient, k) => NoIq(toServer', toClient', k)
      BY <2>10, <3>1, <3>3
    <3> QED
      BY <2>5, <2>6, <2>12, <3>1, <3>2, <3>4
  <2>14. AloneInFlight'
    BY <2>13 DEF AloneInFlight
  <2> QED
    BY <1>4, <2>9, <2>10, <2>11, <2>14 DEF RInv
<1> QED
  BY <1>5, <1>6, <1>7

-----------------------------------------------------------------------------
(* The steps of the main loop *)

LEMMA ListsOf ==
  ASSUME NEW p \in Pendings, NEW l \in {"flying", "waiting"}
  PROVE  /\ p[l] = ListOf(p, l) /\ ListOf(p, l) \in Seq(Calls) /\ Len(ListOf(p, l)) \in Nat
BY PendingIs, ListsAre DEF ListOf

\* An operation that completes is one of a roster that has been fetched.
LEMMA CompletingFacts ==
  ASSUME RInv, completing # None
  PROVE  /\ fetched /\ completing.jid \in Jids /\ pending[completing.jid] \in Pendings
         /\ pending[completing.jid] # None /\ IsCompleting(completing.jid)
         /\ pending[completing.jid][completing.list] = ListOf(pending[completing.jid], completing.list)
         /\ ListOf(pending[completing.jid], completing.list) \in Seq(Calls)
         /\ completing.list \in {"flying", "waiting"}
         /\ completing.next \in 1 .. Len(ListOf(pending[completing.jid], completing.list)) + 1
         /\ completing.next \in Nat
<1>1. Sorts /\ Stage /\ AllTracked
  BY DEF RInv
<1>2. fetched
  BY <1>1 DEF Stage, Begins
<1>3. /\ completing.jid \in Jids /\ pending[completing.jid] # None
      /\ completing.list \in {"flying", "waiting"} /\ completing.next \in Nat
      /\ completing.next \in 1 .. Len(ListOf(pending[completing.jid], completing.list)) + 1
      /\ pending[completing.jid] \in Pendings
  BY <1>1, Facts DEF AllTracked, Tracked
<1> QED
  BY <1>2, <1>3, ListsOf DEF IsCompleting

LEMMA CompleteNextKeeps ==
  ASSUME RInv, CompleteNext
  PROVE  RInv'
<1> DEFINE j == completing.jid
           list == ListOf(pending[j], completing.list)
           c == list[completing.next]
           a == IF c \in completing.error THEN "error" ELSE "ok"
<1>1. /\ completing # None /\ fetched /\ j \in Jids /\ pending[j] \in Pendings /\ pending[j] # None
      /\ list \in Seq(Calls) /\ completing.list \in {"flying", "waiting"}
      /\ completing.next \in 1 .. Len(list) + 1 /\ completing.next \in Nat
      /\ pending[j][completing.list] = list
  BY CompletingFacts DEF CompleteNext
<1>2. /\ completing.next <= Len(list) /\ answer' = [answer EXCEPT ![c] = a]
      /\ completing' = [completing EXCEPT !.next = @ + 1]
      /\ UNCHANGED <<items, pending, fetching, fetched, calls, toServer, toClient, server,
                     interested, others, rejects, faults>>
  BY <1>1 DEF CompleteNext, worldVars
<1>3. /\ Sorts /\ Stage /\ IsFresh /\ AllTracked /\ AloneInFlight
      /\ Typed(pending, calls, completing) /\ completing \in Completions
      /\ answer \in Seq({None, "ok", "error"}) /\ Len(answer) = Len(calls)
  BY <1>1, Facts DEF RInv
<1>4. completing.next \in 1 .. Len(list)
  BY <1>1, <1>2
<1>5. /\ completing' \in Completions /\ completing'.jid = j /\ completing'.list = completing.list
      /\ completing'.next = completing.next + 1 /\ completing' # None
  BY <1>2, <1>3, Constants DEF Completions
<1>6. c \in 1 .. Len(calls)
  <2>1. Holds(pending[j], j, calls)
    BY <1>1, <1>3 DEF AllTracked, Tracked
  <2>2. OfContact(list, j, calls)
    BY <2>1 DEF Holds, ListOf
  <2> QED
    BY <1>4, <2>2 DEF OfContact
<1>7. a \in {None, "ok", "error"} /\ a # None
  BY Constants
<1> HIDE DEF a, list, c
<1>8. /\ answer' \in Seq({None, "ok", "error"}) /\ Len(answer') = Len(calls)
      /\ answer'[c] = a /\ \A d \in 1 .. Len(calls) : d # c => answer'[d] = answer[d]
  <2>1. PICK S : S = {None, "ok", "error"}
    OBVIOUS
  <2>2. answer \in Seq(S) /\ c \in 1 .. Len(answer) /\ a \in S
    BY <1>3, <1>6, <1>7, <2>1
  <2>3. PICK new : new = [answer EXCEPT ![c] = a]
    OBVIOUS
  <2>4. /\ new \in Seq(S) /\ Len(new) = Len(answer)
        /\ \A d \in 1 .. Len(answer) : new[d] = IF d = c THEN a ELSE answer[d]
    BY <2>2, <2>3, ExceptSeq
  <2> QED
    BY <1>2, <1>3, <2>1, <2>2, <2>3, <2>4
<1>9. AllTracked'
  <2>1. Tracked(pending, calls, answer, completing)
    BY <1>3 DEF AllTracked
  <2>2. completing.next <= Len(ListOf(pending[j], completing.list))
        /\ c = ListOf(pending[j], completing.list)[completing.next]
    BY <1>2 DEF list, c
  <2>3. Tracked(pending, calls, answer', completing')
    BY <1>1, <1>3, <1>5, <1>7, <1>8, <2>1, <2>2, NextTracked
  <2> QED
    BY <1>2, <2>3 DEF AllTracked
<1>10. Sorts'
  BY <1>2, <1>3, <1>5, <1>8 DEF Sorts, TypeOK
<1>11. Stage' /\ IsFresh'
  BY <1>1, <1>2, <1>3 DEF Stage, Runs, IsFresh
<1>12. AloneInFlight'
  BY <1>1, <1>2, <1>3, <1>5 DEF AloneInFlight, IsCompleting
<1> QED
  BY <1>9, <1>10, <1>11, <1>12 DEF RInv

\* The pending operation of a contact is freed.
LEMMA ForgetKeeps ==
  ASSUME RInv, completing # None, Forget(completing.jid),
         completing.next > Len(ListOf(pending[completing.jid], completing.list)),
         completing.list = "flying" => pending[completing.jid].waiting = <<>>,
         UNCHANGED <<items, fetching, fetched, calls, answer, toClient, worldVars, faults>>
  PROVE  RInv'
<1> DEFINE j == completing.jid
<1>1. fetched /\ j \in Jids /\ IsCompleting(j)
  BY CompletingFacts
<1>2. /\ Sorts /\ Stage /\ IsFresh /\ AllTracked /\ AloneInFlight
      /\ Typed(pending, calls, completing) /\ pending \in [Jids -> Pendings \cup {None}]
      /\ \A k \in Jids : pending[k] # None => pending[k].flying # <<>>
  BY Facts DEF RInv
<1>3. /\ pending' = [pending EXCEPT ![j] = None] /\ completing' = None /\ toServer' = toServer
      /\ UNCHANGED <<server, interested, others, rejects>>
  BY DEF Forget, worldVars
<1>4. \A k \in Jids : pending'[k] = IF k = j THEN None ELSE pending[k]
  BY <1>2, <1>3
<1>5. AllTracked'
  <2>1. Tracked(pending, calls, answer, completing)
    BY <1>2 DEF AllTracked
  <2>2. Tracked(pending', calls, answer, None)
    BY <1>2, <1>4, <2>1, ForgetTracked
  <2> QED
    BY <1>3, <2>2 DEF AllTracked
<1>6. pending' \in [Jids -> Pendings \cup {None}]
      /\ \A k \in Jids : pending'[k] # None => pending'[k].flying # <<>>
  BY <1>2, <1>3, <1>4
<1>7. Sorts'
  BY <1>2, <1>3, <1>6 DEF Sorts, TypeOK
<1>8. Stage' /\ IsFresh'
  BY <1>1, <1>2, <1>3 DEF Stage, Runs, IsFresh
<1>9. AloneInFlight'
  BY <1>1, <1>2, <1>3, <1>4 DEF AloneInFlight, IsCompleting
<1> QED
  BY <1>5, <1>7, <1>8, <1>9 DEF RInv

LEMMA FlyingCompletedKeeps ==
  ASSUME RInv, FlyingCompleted
  PROVE  RInv'
<1> DEFINE j == completing.jid
           p == pending[j]
<1>1. /\ completing # None /\ completing.list = "flying"
      /\ UNCHANGED <<items, fetching, fetched, calls, answer, toClient, server, interested, others,
                     rejects, faults>>
  BY DEF FlyingCompleted, Completed, worldVars
<1>2. /\ fetched /\ j \in Jids /\ p \in Pendings /\ p # None /\ IsCompleting(j)
      /\ p["flying"] = ListOf(p, "flying") /\ ListOf(p, "flying") = p.flying
      /\ p.waiting \in Seq(Calls)
  BY <1>1, CompletingFacts, PendingIs DEF ListOf
<1>3. completing.next > Len(p.flying)
  BY <1>1, <1>2 DEF FlyingCompleted, Completed
<1>4. /\ Sorts /\ Stage /\ IsFresh /\ AllTracked /\ AloneInFlight
      /\ Typed(pending, calls, completing) /\ pending \in [Jids -> Pendings \cup {None}]
      /\ \A k \in Jids : pending[k] # None => pending[k].flying # <<>>
      /\ items[j] \in MaybeItems
  BY <1>2, Facts DEF RInv
<1>5. Tracked(pending, calls, answer, completing)
  BY <1>4 DEF AllTracked
<1>6. CASE p.waiting = <<>>
  <2>1. Forget(completing.jid)
    BY <1>6 DEF FlyingCompleted
  <2> QED
    BY <1>1, <1>2, <1>3, <1>6, <2>1, ForgetKeeps DEF worldVars
<1>7. CASE p.waiting # <<>> /\ NeedsIq(p, items[j])
  <2>1. PICK q, c, i, r : q = PendingReset(p) /\ c = Head(p.waiting) /\ i = Wanted(p, items[j])
                          /\ r = IqOf(j, c, i)
    OBVIOUS
  <2>2. /\ pending' = [pending EXCEPT ![j] = q] /\ completing' = None
        /\ toServer' = Append(toServer, r)
    BY <1>7, <2>1 DEF FlyingCompleted, SendIq, IqOf
  <2>3. q \in Pendings /\ q.flying = p.waiting /\ q.waiting = <<>> /\ q # None
    BY <1>2, <2>1, PendingResetIs, Constants
  <2>4. c \in Calls /\ i \in MaybeItems
    BY <1>2, <1>4, <1>7, <2>1, TailIs, WantedIs
  <2>5. \A k \in Jids : pending'[k] = IF k = j THEN q ELSE pending[k]
    BY <1>4, <2>2
  <2>6. pending' \in [Jids -> Pendings \cup {None}]
        /\ \A k \in Jids : pending'[k] # None => pending'[k].flying # <<>>
    BY <1>4, <1>7, <2>2, <2>3, <2>5
  <2>7. Tracked(pending', calls, answer, None)
    BY <1>1, <1>3, <1>4, <1>5, <2>3, <2>5, ResetTracked
  <2>8. AllTracked'
    BY <1>1, <2>2, <2>7 DEF AllTracked
  <2>9. /\ toServer' \in Seq(Requests) /\ Stage'
        /\ \A k \in Jids :
             AtMostOne(toServer, toClient, k) /\ (k = j => NoIq(toServer, toClient, k)) =>
               /\ AtMostOne(toServer', toClient', k)
               /\ k # j /\ NoIq(toServer, toClient, k) => NoIq(toServer', toClient', k)
    BY <1>1, <1>2, <1>4, <2>1, <2>2, <2>4, SentAlone
  <2>10. Sorts'
    BY <1>1, <1>4, <2>2, <2>6, <2>9 DEF Sorts, TypeOK
  <2>11. IsFresh'
    BY <1>1, <1>4 DEF IsFresh
  <2>12. ASSUME faults' = 0, NEW k \in Jids
         PROVE  /\ AtMostOne(toServer', toClient', k)
                /\ pending'[k] = None \/ IsCompleting(k)' => NoIq(toServer', toClient', k)
    <3>1. /\ AtMostOne(toServer, toClient, k)
          /\ pending[k] = None \/ IsCompleting(k) => NoIq(toServer, toClient, k)
      BY <1>1, <1>4, <2>12 DEF AloneInFlight
    <3>2. k = j => NoIq(toServer, toClient, k)
      BY <1>2, <3>1
    <3>3. ~IsCompleting(k)'
      BY <2>2 DEF IsCompleting
    <3>4. /\ AtMostOne(toServer', toClient', k)
          /\ k # j /\ NoIq(toServer, toClient, k) => NoIq(toServer', toClient', k)
      BY <2>9, <3>1, <3>2
    <3> QED
      BY <2>3, <2>5, <3>1, <3>3, <3>4
  <2>13. AloneInFlight'
    BY <2>12 DEF AloneInFlight
  <2> QED
    BY <2>8, <2>9, <2>10, <2>11, <2>13 DEF RInv
<1>8. CASE p.waiting # <<>> /\ ~NeedsIq(p, items[j])
  <2>1. PICK err : err = IF Vanished(p, items[j]) THEN Range(p.waiting) ELSE {}
    OBVIOUS
  <2>2. /\ completing' = [jid |-> j, list |-> "waiting", next |-> 1, error |-> err]
        /\ UNCHANGED <<pending, toServer>>
    BY <1>8, <2>1 DEF FlyingCompleted
  <2>3. err \subseteq Calls
    BY <1>2, <2>1 DEF Range
  <2>4. /\ completing' \in Completions /\ completing' # None /\ completing'.jid = j
        /\ completing'.list = "waiting" /\ completing'.next = 1
    BY <1>2, <2>2, <2>3, Constants DEF Completions
  <2>5. Tracked(pending, calls, answer, completing')
    BY <1>1, <1>3, <1>4, <1>5, <2>4, WaitingTracked
  <2>6. AllTracked'
    BY <1>1, <2>2, <2>5 DEF AllTracked
  <2>7. Sorts'
    BY <1>1, <1>4, <2>2, <2>4 DEF Sorts, TypeOK
  <2>8. Stage' /\ IsFresh'
    BY <1>1, <1>2, <1>4, <2>2 DEF Stage, Runs, IsFresh
  <2>9. AloneInFlight'
    BY <1>1, <1>2, <1>4, <2>2, <2>4 DEF AloneInFlight, IsCompleting
  <2> QED
    BY <2>6, <2>7, <2>8, <2>9 DEF RInv
<1> QED
  BY <1>6, <1>7, <1>8

LEMMA WaitingCompletedKeeps ==
  ASSUME RInv, WaitingCompleted
  PROVE  RInv'
<1>1. completing # None /\ completing.list = "waiting" /\ Forget(completing.jid)
  BY DEF WaitingCompleted, Completed
<1>2. completing.next > Len(ListOf(pending[completing.jid], completing.list))
  BY <1>1, CompletingFacts DEF WaitingCompleted, Completed
<1> QED
  BY <1>1, <1>2, ForgetKeeps DEF WaitingCompleted

-----------------------------------------------------------------------------
(* What the client hears *)

LEMMA HeardRuns ==
  ASSUME Sorts, Stage, fetched, toClient # <<>>, toClient' = Tail(toClient),
         UNCHANGED <<toServer, interested, fetched>>
  PROVE  toClient' \in Seq(Messages) /\ Stage'
<1>1. toClient \in Seq(Messages) /\ Runs
  BY DEF Sorts, Stage
<1>2. /\ Tail(toClient) \in Seq(Messages)
      /\ \A i \in 1 .. Len(Tail(toClient)) :
           Tail(toClient)[i] = toClient[i + 1] /\ i + 1 \in 1 .. Len(toClient)
  BY <1>1, TailIs
<1>3. \A i \in 1 .. Len(toClient') : toClient'[i].type # "roster"
  BY <1>1, <1>2 DEF Runs
<1> QED
  BY <1>1, <1>2, <1>3 DEF Stage, Runs

LEMMA HeardFresh ==
  ASSUME Sorts, IsFresh, interested, toClient # <<>>, toClient' = Tail(toClient), server' = server,
         \A j \in Jids : items'[j] = IF News(Head(toClient), j) THEN Told(Head(toClient), j) ELSE items[j]
  PROVE  IsFresh'
<1>1. toClient \in Seq(Messages)
  BY DEF Sorts
<1>2. ASSUME NEW j \in Jids
      PROVE  Fresh(j, items'[j], server[j], Tail(toClient))
  <2>1. Fresh(j, items[j], server[j], toClient)
    BY <1>2 DEF IsFresh
  <2> QED
    BY <1>1, <2>1, FreshHeard
<1> QED
  BY <1>2 DEF IsFresh

LEMMA HeardAlone ==
  ASSUME Sorts, AloneInFlight, toClient # <<>>, toClient' = Tail(toClient),
         UNCHANGED <<pending, toServer, faults>>,
         \A j \in Jids : IsCompleting(j)' => IsCompleting(j) \/ Answers(Head(toClient), j)
  PROVE  AloneInFlight'
<1>1. toClient \in Seq(Messages)
  BY DEF Sorts
<1>2. ASSUME faults = 0, NEW j \in Jids
      PROVE  /\ AtMostOne(toServer, Tail(toClient), j)
             /\ pending[j] = None \/ IsCompleting(j)' => NoIq(toServer, Tail(toClient), j)
  <2>1. /\ AtMostOne(toServer, toClient, j)
        /\ pending[j] = None \/ IsCompleting(j) => NoIq(toServer, toClient, j)
    BY <1>2 DEF AloneInFlight
  <2>2. /\ AtMostOne(toServer, Tail(toClient), j)
        /\ NoIq(toServer, toClient, j) \/ Answers(Head(toClient), j) => NoIq(toServer, Tail(toClient), j)
    BY <1>1, <2>1, MessageHeard
  <2> QED
    BY <2>1, <2>2
<1> QED
  BY <1>2 DEF AloneInFlight

LEMMA RosterUpdateIs ==
  ASSUME Sorts, NEW m \in Messages, m.type \in {"roster", "push"}, items' = RosterUpdate(m.items)
  PROVE  /\ items' \in [Jids -> MaybeItems]
         /\ \A j \in Jids : items'[j] = IF j \in DOMAIN m.items THEN m.items[j] ELSE items[j]
<1>1. m.items \in Named /\ items \in [Jids -> MaybeItems]
  BY MessageIs, Facts
<1>2. PICK x : x = m.items
  OBVIOUS
<1>3. \A j \in DOMAIN x : x[j] \in MaybeItems
  BY <1>1, <1>2, NamedIs
<1>4. items' = [j \in Jids |-> IF j \in DOMAIN x THEN x[j] ELSE items[j]]
  BY <1>2 DEF RosterUpdate
<1> QED
  BY <1>1, <1>2, <1>3, <1>4

\* An IQ of contact j ends, and the edits it carried are called back.
LEMMA CompleteIs ==
  ASSUME RInv, NEW j \in Jids, pending[j] # None, completing = None, NEW failed \in BOOLEAN,
         Complete(j, failed), UNCHANGED <<pending, calls, answer>>
  PROVE  /\ completing' \in Completions \cup {None} /\ fetched
         /\ \A k : IsCompleting(k)' <=> k = j
         /\ AllTracked'
<1>1. Sorts /\ Stage /\ AllTracked
  BY DEF RInv
<1>2. fetched
  BY <1>1 DEF Stage, Begins
<1>3. pending[j] \in Pendings /\ Typed(pending, calls, None)
  BY <1>1, Facts DEF Typed
<1>4. PICK err : err = IF failed THEN Range(pending[j].flying) ELSE {}
  OBVIOUS
<1>5. err \subseteq Calls
  <2>1. pending[j].flying \in Seq(Calls)
    BY <1>3, PendingIs
  <2> QED
    BY <1>4, <2>1 DEF Range
<1>6. completing' = [jid |-> j, list |-> "flying", next |-> 1, error |-> err]
  BY <1>4 DEF Complete
<1>7. /\ completing' \in Completions /\ completing' # None /\ completing'.jid = j
      /\ completing'.list = "flying" /\ completing'.next = 1
  BY <1>5, <1>6, Constants DEF Completions
<1>8. AllTracked'
  <2>1. Tracked(pending, calls, answer, None)
    BY <1>1 DEF AllTracked
  <2>2. Tracked(pending, calls, answer, completing')
    BY <1>3, <1>7, <2>1, CompleteTracked
  <2> QED
    BY <2>2 DEF AllTracked
<1> QED
  BY <1>2, <1>7, <1>8 DEF IsCompleting

LEMMA ReceiveReplyKeeps ==
  ASSUME RInv, ReceiveReply
  PROVE  RInv'
<1>1. PICK r : r = Head(toClient)
  OBVIOUS
<1>2. /\ completing = None /\ toClient # <<>> /\ r.type \in {"result", "error"}
      /\ IF IsFlying(r.jid, r.iq) THEN Complete(r.jid, r.type = "error") ELSE UNCHANGED completing
      /\ toClient' = Tail(toClient)
      /\ UNCHANGED <<items, pending, fetching, fetched, calls, answer, toServer, server, interested,
                     others, rejects, faults>>
  BY <1>1 DEF ReceiveReply, worldVars
<1>3. Sorts /\ Stage /\ IsFresh /\ AllTracked /\ AloneInFlight
  BY DEF RInv
<1>4. toClient \in Seq(Messages) /\ r \in Messages
  BY <1>1, <1>2, <1>3, TailIs DEF Sorts
<1>5. r.jid \in Jids /\ \A j : ~News(r, j)
  BY <1>2, <1>4, MessageIs DEF News
<1>6. fetched /\ interested
  BY <1>1, <1>2, <1>3 DEF Stage, Begins, Runs
<1>7. toClient' \in Seq(Messages) /\ Stage'
  BY <1>2, <1>3, <1>6, HeardRuns
<1>8. IsFresh'
  BY <1>1, <1>2, <1>3, <1>5, <1>6, HeardFresh
<1>9. /\ completing' \in Completions \cup {None} /\ AllTracked'
      /\ \A j \in Jids : IsCompleting(j)' => IsCompleting(j) \/ Answers(r, j)
  <2>1. CASE IsFlying(r.jid, r.iq)
    <3>1. PICK f : f = (r.type = "error")
      OBVIOUS
    <3>2. f \in BOOLEAN /\ Complete(r.jid, f) /\ pending[r.jid] # None
      BY <1>2, <2>1, <3>1 DEF IsFlying
    <3>3. /\ completing' \in Completions \cup {None} /\ (\A k : IsCompleting(k)' <=> k = r.jid)
          /\ AllTracked'
      BY <1>2, <1>5, <3>2, CompleteIs
    <3> QED
      BY <1>2, <3>3 DEF Answers
  <2>2. CASE ~IsFlying(r.jid, r.iq)
    BY <1>2, <1>3, <2>2 DEF Sorts, TypeOK, AllTracked, IsCompleting
  <2> QED
    BY <2>1, <2>2
<1>10. Sorts'
  BY <1>2, <1>3, <1>7, <1>9 DEF Sorts, TypeOK
<1>11. AloneInFlight'
  BY <1>1, <1>2, <1>3, <1>9, HeardAlone
<1> QED
  BY <1>7, <1>8, <1>9, <1>10, <1>11 DEF RInv

LEMMA ReceivePushKeeps ==
  ASSUME RInv, ReceivePush
  PROVE  RInv'
<1>1. PICK r : r = Head(toClient)
  OBVIOUS
<1>2. /\ completing = None /\ toClient # <<>> /\ r.type = "push" /\ items' = RosterUpdate(r.items)
      /\ toClient' = Tail(toClient)
      /\ UNCHANGED <<pending, fetching, fetched, completing, calls, answer, toServer, server,
                     interested, others, rejects, faults>>
  BY <1>1 DEF ReceivePush, worldVars
<1>3. Sorts /\ Stage /\ IsFresh /\ AllTracked /\ AloneInFlight
  BY DEF RInv
<1>4. toClient \in Seq(Messages) /\ r \in Messages
  BY <1>1, <1>2, <1>3, TailIs DEF Sorts
<1>5. fetched /\ interested
  BY <1>1, <1>2, <1>3 DEF Stage, Begins, Runs
<1>6. /\ items' \in [Jids -> MaybeItems]
      /\ \A j \in Jids : items'[j] = IF News(r, j) THEN Told(r, j) ELSE items[j]
  BY <1>2, <1>3, <1>4, RosterUpdateIs DEF News, Told
<1>7. toClient' \in Seq(Messages) /\ Stage'
  BY <1>2, <1>3, <1>5, HeardRuns
<1>8. IsFresh'
  BY <1>1, <1>2, <1>3, <1>5, <1>6, HeardFresh
<1>9. AllTracked'
  BY <1>2, <1>3 DEF AllTracked
<1>10. Sorts'
  BY <1>2, <1>3, <1>6, <1>7 DEF Sorts, TypeOK, MaybeItems
<1>11. AloneInFlight'
  BY <1>2, <1>3, HeardAlone DEF IsCompleting
<1> QED
  BY <1>7, <1>8, <1>9, <1>10, <1>11 DEF RInv

LEMMA IqFailsKeeps ==
  ASSUME RInv, NEW j \in Jids, IqFails(j)
  PROVE  RInv'
<1>1. /\ completing = None /\ MayDisturb /\ pending[j] # None /\ Complete(j, TRUE)
      /\ faults' = faults + 1
      /\ UNCHANGED <<items, pending, fetching, fetched, calls, answer, toServer, toClient, server,
                     interested, others, rejects>>
  BY DEF IqFails, worldVars
<1>2. Sorts /\ Stage /\ IsFresh /\ AllTracked
  BY DEF RInv
<1>3. completing' \in Completions \cup {None} /\ fetched /\ AllTracked'
  BY <1>1, CompleteIs
<1>4. faults' \in Nat /\ faults' # 0 /\ others + rejects + faults' <= MaxDisturbances
  BY <1>1, <1>2, RosterAssumption DEF Sorts, TypeOK, MayDisturb
<1>5. Sorts'
  BY <1>1, <1>2, <1>3, <1>4 DEF Sorts, TypeOK
<1>6. Stage' /\ IsFresh'
  BY <1>1, <1>2, <1>3 DEF Stage, Runs, IsFresh
<1>7. AloneInFlight'
  BY <1>4 DEF AloneInFlight
<1> QED
  BY <1>3, <1>5, <1>6, <1>7 DEF RInv

\* A request or an answer of no IQ leaves the IQs of every contact alone.
LEMMA QuietIs ==
  ASSUME NEW ts, NEW tc, NEW j, \A n \in 1 .. Len(ts) : ~Asks(ts[n], j),
         \A n \in 1 .. Len(tc) : ~Answers(tc[n], j)
  PROVE  AtMostOne(ts, tc, j) /\ NoIq(ts, tc, j)
BY DEF AtMostOne, NoIq

LEMMA FetchRosterKeeps ==
  ASSUME RInv, FetchRoster
  PROVE  RInv'
<1>1. PICK f : f = [iq |-> Fetch]
  OBVIOUS
<1>2. /\ ~fetching /\ ~fetched /\ fetching' = TRUE /\ toServer' = Append(toServer, f)
      /\ UNCHANGED <<items, pending, fetched, completing, calls, answer, toClient, server, interested,
                     others, rejects, faults>>
  BY <1>1 DEF FetchRoster, worldVars
<1>3. Sorts /\ Begins /\ AllTracked
  BY <1>2 DEF RInv, Stage
<1>4. ~interested /\ toServer = <<>> /\ toClient = <<>>
  BY <1>2, <1>3 DEF Begins
<1>5. f \in Requests /\ f.iq = Fetch
  BY <1>1 DEF Requests
<1>6. toServer' = <<f>> /\ toServer' \in Seq(Requests)
  BY <1>2, <1>4, <1>5
<1>7. Sorts'
  BY <1>2, <1>3, <1>6 DEF Sorts, TypeOK
<1>8. Stage'
  BY <1>1, <1>2, <1>3, <1>4, <1>6 DEF Stage, Begins
<1>9. IsFresh' /\ AllTracked'
  BY <1>2, <1>3, <1>4 DEF IsFresh, AllTracked
<1>10. AloneInFlight'
  <2>1. ASSUME NEW j \in Jids
        PROVE  AtMostOne(toServer', toClient', j) /\ NoIq(toServer', toClient', j)
    <3>1. \A n \in 1 .. Len(toServer') : ~Asks(toServer'[n], j)
      BY <1>5, <1>6 DEF Asks
    <3>2. \A n \in 1 .. Len(toClient') : ~Answers(toClient'[n], j)
      BY <1>2, <1>4
    <3> QED
      BY <3>1, <3>2, QuietIs
  <2> QED
    BY <2>1 DEF AloneInFlight
<1> QED
  BY <1>7, <1>8, <1>9, <1>10 DEF RInv

LEMMA ReceiveRosterKeeps ==
  ASSUME RInv, ReceiveRoster
  PROVE  RInv'
<1>1. PICK r : r = Head(toClient)
  OBVIOUS
<1>2. /\ completing = None /\ toClient # <<>> /\ r.type = "roster" /\ items' = RosterUpdate(r.items)
      /\ fetching' = FALSE /\ fetched' = TRUE /\ toClient' = Tail(toClient)
      /\ UNCHANGED <<pending, completing, calls, answer, toServer, server, interested, others,
                     rejects, faults>>
  BY <1>1 DEF ReceiveRoster, worldVars
<1>3. Sorts /\ Stage /\ IsFresh /\ AllTracked
  BY DEF RInv
<1>4. toClient \in Seq(Messages) /\ r \in Messages /\ r = toClient[1] /\ 1 \in 1 .. Len(toClient)
  BY <1>1, <1>2, <1>3, TailIs DEF Sorts
<1>5. Begins
  BY <1>2, <1>3, <1>4 DEF Stage, Runs
<1>6. /\ interested /\ toServer = <<>> /\ \A j \in Jids : items[j] = None
      /\ \A n \in 2 .. Len(toClient) : toClient[n].type = "push"
  BY <1>2, <1>5 DEF Begins
<1>7. /\ items' \in [Jids -> MaybeItems]
      /\ \A j \in Jids : items'[j] = IF News(r, j) THEN Told(r, j) ELSE items[j]
  BY <1>2, <1>3, <1>4, <1>6, RosterUpdateIs DEF News, Told
<1>8. IsFresh'
  BY <1>1, <1>2, <1>3, <1>6, <1>7, HeardFresh
<1>9. toClient' \in Seq(Messages) /\ \A i \in 1 .. Len(toClient') : toClient'[i].type = "push"
  <2>1. /\ Tail(toClient) \in Seq(Messages) /\ Len(toClient) \in Nat
        /\ \A i \in 1 .. Len(Tail(toClient)) :
             Tail(toClient)[i] = toClient[i + 1] /\ i + 1 \in 1 .. Len(toClient)
    BY <1>2, <1>4, TailIs
  <2>2. \A i \in 1 .. Len(Tail(toClient)) : i + 1 \in 2 .. Len(toClient)
    BY <2>1
  <2> QED
    BY <1>2, <1>6, <2>1, <2>2
<1>10. Stage'
  BY <1>2, <1>6, <1>9 DEF Stage, Runs
<1>11. Sorts'
  BY <1>2, <1>3, <1>7, <1>9 DEF Sorts, TypeOK, MaybeItems
<1>12. AllTracked'
  BY <1>2, <1>3 DEF AllTracked
<1>13. AloneInFlight'
  <2>1. ASSUME NEW j \in Jids
        PROVE  AtMostOne(toServer', toClient', j) /\ NoIq(toServer', toClient', j)
    <3>1. \A n \in 1 .. Len(toServer') : ~Asks(toServer'[n], j)
      BY <1>2, <1>6
    <3>2. \A n \in 1 .. Len(toClient') : ~Answers(toClient'[n], j)
      BY <1>9 DEF Answers
    <3> QED
      BY <3>1, <3>2, QuietIs
  <2> QED
    BY <2>1 DEF AloneInFlight
<1> QED
  BY <1>8, <1>10, <1>11, <1>12, <1>13 DEF RInv

-----------------------------------------------------------------------------
(* The server *)

LEMMA ServerFetchKeeps ==
  ASSUME RInv, ServerFetch
  PROVE  RInv'
<1>1. PICK x, m : x = [j \in {n \in Jids : server[n] # None} |-> server[j]]
                  /\ m = [type |-> "roster", items |-> x]
  OBVIOUS
<1>2. /\ toServer # <<>> /\ Head(toServer).iq = Fetch /\ interested' = TRUE
      /\ toClient' = Append(toClient, m) /\ toServer' = Tail(toServer)
      /\ UNCHANGED <<items, pending, fetching, fetched, completing, calls, answer, server, others,
                     rejects, faults>>
  BY <1>1 DEF ServerFetch, clientVars
<1>3. Sorts /\ Stage /\ AllTracked
  BY DEF RInv
<1>4. toServer \in Seq(Requests) /\ Head(toServer) = toServer[1] /\ 1 \in 1 .. Len(toServer)
  BY <1>2, <1>3, TailIs DEF Sorts
<1>5. ~fetched /\ Begins
  BY <1>2, <1>3, <1>4 DEF Stage, Runs
<1>6. ~interested /\ fetching /\ toServer = <<[iq |-> Fetch]>> /\ toClient = <<>>
  BY <1>2, <1>5 DEF Begins
<1>7. x \in Named /\ (\A j \in Jids : j \in DOMAIN x <=> server[j] # None)
      /\ \A j \in DOMAIN x : x[j] = server[j]
  <2>1. server \in [Jids -> MaybeItems]
    BY <1>3, Facts
  <2> QED
    BY <1>1, <2>1 DEF Named
<1>8. m \in Messages /\ m.type = "roster" /\ m.items = x
  BY <1>1, <1>7 DEF Messages
<1>9. toClient' = <<m>> /\ toClient' \in Seq(Messages) /\ toServer' = <<>>
  BY <1>2, <1>6, <1>8
<1>10. Sorts'
  BY <1>2, <1>3, <1>9 DEF Sorts, TypeOK
<1>11. Stage'
  <2>1. Head(toClient').type = "roster" /\ \A n \in 2 .. Len(toClient') : toClient'[n].type = "push"
    BY <1>8, <1>9
  <2> QED
    BY <1>2, <1>5, <1>6, <1>9, <2>1 DEF Stage, Begins
<1>12. IsFresh'
  <2>1. ASSUME NEW j \in Jids
        PROVE  Fresh(j, items[j], server[j], <<m>>)
    <3>1. News(m, j) /\ Told(m, j) = server[j]
      BY <1>7, <1>8 DEF News, Told
    <3>2. Len(<<m>>) = 1 /\ <<m>>[1] = m
      OBVIOUS
    <3> QED
      BY <3>1, <3>2 DEF Fresh
  <2> QED
    BY <1>2, <1>9, <2>1 DEF IsFresh
<1>13. AllTracked'
  BY <1>2, <1>3 DEF AllTracked
<1>14. AloneInFlight'
  <2>1. ASSUME NEW j \in Jids
        PROVE  AtMostOne(toServer', toClient', j) /\ NoIq(toServer', toClient', j)
    <3>1. \A n \in 1 .. Len(toServer') : ~Asks(toServer'[n], j)
      BY <1>9
    <3>2. \A n \in 1 .. Len(toClient') : ~Answers(toClient'[n], j)
      BY <1>8, <1>9 DEF Answers
    <3> QED
      BY <3>1, <3>2, QuietIs
  <2> QED
    BY <2>1 DEF AloneInFlight
<1> QED
  BY <1>10, <1>11, <1>12, <1>13, <1>14 DEF RInv

\* The server serves the first request, of an edit.
LEMMA ServedFacts ==
  ASSUME RInv, toServer # <<>>, NEW r, r = Head(toServer), r.iq # Fetch
  PROVE  /\ fetched /\ interested /\ r \in Requests /\ r.jid \in Jids /\ r.item \in MaybeItems
         /\ r.iq \in Calls /\ Tail(toServer) \in Seq(Requests)
         /\ \A n \in 1 .. Len(Tail(toServer)) : Tail(toServer)[n].iq # Fetch
         /\ \A k : Asks(r, k) <=> k = r.jid
         /\ r = toServer[1] /\ 1 \in 1 .. Len(toServer)
<1>1. Sorts /\ Stage
  BY DEF RInv
<1>2. /\ toServer \in Seq(Requests) /\ Tail(toServer) \in Seq(Requests) /\ r \in Requests
      /\ r = toServer[1] /\ 1 \in 1 .. Len(toServer)
      /\ \A i \in 1 .. Len(Tail(toServer)) :
           Tail(toServer)[i] = toServer[i + 1] /\ i + 1 \in 1 .. Len(toServer)
  BY <1>1, TailIs DEF Sorts
<1>3. fetched
  BY <1>1, <1>2 DEF Stage, Begins
<1>4. Runs
  BY <1>1, <1>3 DEF Stage
<1>5. r.iq \in Calls /\ r.jid \in Jids /\ r.item \in MaybeItems
  BY <1>2, RequestIs
<1> QED
  BY <1>2, <1>3, <1>4, <1>5 DEF Runs, Asks

LEMMA ReplyIs ==
  ASSUME NEW t \in {"result", "error"}, NEW j \in Jids, NEW c \in Calls, NEW m,
         m = [type |-> t, jid |-> j, iq |-> c]
  PROVE  /\ m \in Messages /\ m.type = t /\ (\A k : ~News(m, k))
         /\ \A k : Answers(m, k) <=> k = j
<1>1. m \in Replies /\ m.type = t /\ m.jid = j
  BY DEF Replies
<1> QED
  BY <1>1 DEF Messages, News, Answers

\* It answers the request r with m, after what it has sent up to then, tc.
LEMMA AnsweredKeeps ==
  ASSUME RInv, toServer # <<>>, NEW r, r = Head(toServer), r.iq # Fetch,
         NEW tc \in Seq(Messages), \A n \in 1 .. Len(tc) : tc[n].type # "roster",
         NEW m \in Messages, m.type # "roster", \A k : ~News(m, k), \A k : Answers(m, k) <=> k = r.jid,
         \A k \in Jids : Fresh(k, items[k], server'[k], tc),
         faults = 0 => \A k \in Jids :
           AtMostOne(toServer, tc, k) /\ (NoIq(toServer, toClient, k) => NoIq(toServer, tc, k)),
         toClient' = Append(tc, m), toServer' = Tail(toServer),
         server' \in [Jids -> MaybeItems], rejects' \in Nat, others + rejects' + faults <= MaxDisturbances,
         UNCHANGED <<items, pending, fetching, fetched, completing, calls, answer, interested, others,
                     faults>>
  PROVE  RInv'
<1>1. Sorts /\ Stage /\ IsFresh /\ AllTracked /\ AloneInFlight
  BY DEF RInv
<1>2. /\ fetched /\ interested /\ Tail(toServer) \in Seq(Requests)
      /\ \A n \in 1 .. Len(Tail(toServer)) : Tail(toServer)[n].iq # Fetch
      /\ \A k : Asks(r, k) <=> k = r.jid
  BY ServedFacts
<1>3. /\ Append(tc, m) \in Seq(Messages) /\ Len(tc) \in Nat
      /\ \A i \in 1 .. Len(tc) : Append(tc, m)[i] = tc[i]
      /\ \A i \in 1 .. Len(Append(tc, m)) : i = Len(tc) + 1 \/ i \in 1 .. Len(tc)
      /\ Append(tc, m)[Len(tc) + 1] = m
  BY AppendIs
<1>4. Sorts'
  BY <1>1, <1>2, <1>3 DEF Sorts, TypeOK, MaybeItems
<1>5. Stage'
  <2>1. \A n \in 1 .. Len(toClient') : toClient'[n].type # "roster"
    BY <1>3
  <2> QED
    BY <1>2, <2>1 DEF Stage, Runs
<1>6. IsFresh'
  <2>1. ASSUME NEW k \in Jids
        PROVE  Fresh(k, items[k], server'[k], Append(tc, m))
    <3>1. PICK s : s = server'[k]
      OBVIOUS
    <3>2. Fresh(k, items[k], s, tc)
      BY <3>1
    <3>3. Fresh(k, items[k], s, Append(tc, m))
      BY <3>2, FreshAppended
    <3> QED
      BY <3>1, <3>3
  <2> QED
    BY <2>1 DEF IsFresh
<1>7. AllTracked'
  BY <1>1 DEF AllTracked
<1>8. AloneInFlight'
  <2>1. ASSUME faults = 0, NEW k \in Jids
        PROVE  /\ AtMostOne(Tail(toServer), Append(tc, m), k)
               /\ pending[k] = None \/ IsCompleting(k) => NoIq(Tail(toServer), Append(tc, m), k)
    <3>1. AtMostOne(toServer, tc, k) /\ (NoIq(toServer, toClient, k) => NoIq(toServer, tc, k))
      BY <2>1
    <3>2. /\ AtMostOne(Tail(toServer), Append(tc, m), k)
          /\ NoIq(toServer, tc, k) => NoIq(Tail(toServer), Append(tc, m), k)
      <4>1. toServer \in Seq(Requests) /\ (Answers(m, k) => Asks(Head(toServer), k))
        BY <1>1, <1>2 DEF Sorts
      <4> QED
        BY <3>1, <4>1, RequestServed
    <3>3. pending[k] = None \/ IsCompleting(k) => NoIq(toServer, toClient, k)
      BY <1>1, <2>1 DEF AloneInFlight
    <3> QED
      BY <3>1, <3>2, <3>3
  <2> QED
    BY <2>1 DEF AloneInFlight, IsCompleting
<1> QED
  BY <1>4, <1>5, <1>6, <1>7, <1>8 DEF RInv

\* The server holds what it was asked for, but for the subscription, and sends a push and a result.
LEMMA AcceptIs ==
  ASSUME RInv, ServerAccepts, NEW r, r = Head(toServer)
  PROVE  /\ toServer # <<>> /\ r.iq # Fetch /\ toServer' = Tail(toServer)
         /\ UNCHANGED <<items, pending, fetching, fetched, completing, calls, answer, interested,
                        others, rejects, faults>>
         /\ \E new \in MaybeItems, m \in Messages, result \in Messages :
              /\ server' = [server EXCEPT ![r.jid] = new]
              /\ new = None <=> r.item = None
              /\ r.item # None => new.name = r.item.name /\ new.groups = r.item.groups
              /\ toClient' = Append(Append(toClient, m), result)
              /\ m.type = "push" /\ Told(m, r.jid) = new /\ \A k : News(m, k) <=> k = r.jid
              /\ result.type = "result" /\ \A k : ~News(result, k)
              /\ \A k : Answers(result, k) <=> k = r.jid
<1>1. /\ toServer # <<>> /\ r.iq # Fetch /\ toServer' = Tail(toServer)
      /\ UNCHANGED <<items, pending, fetching, fetched, completing, calls, answer, interested,
                     others, rejects, faults>>
  BY DEF ServerAccepts, clientVars
<1>2. /\ fetched /\ interested /\ r.jid \in Jids /\ r.item \in MaybeItems /\ r.iq \in Calls
  BY <1>1, ServedFacts
<1>3. PICK old, new : /\ old = server[r.jid]
                      /\ new = IF r.item # None /\ old # None THEN [r.item EXCEPT !.sub = old.sub]
                               ELSE r.item
  OBVIOUS
<1>4. PICK m, result : m = Push(r.jid, new) /\ result = [type |-> "result", jid |-> r.jid, iq |-> r.iq]
  OBVIOUS
<1>5. /\ server' = [server EXCEPT ![r.jid] = new]
      /\ toClient' = toClient \o Pushes(r.jid, new) \o <<result>>
  BY <1>3, <1>4 DEF ServerAccepts
<1>6. Sorts
  BY DEF RInv
<1>7. old \in MaybeItems
  BY <1>2, <1>3, <1>6, Facts
<1>8. /\ new \in MaybeItems /\ (new = None <=> r.item = None)
      /\ r.item # None => new.name = r.item.name /\ new.groups = r.item.groups
  <2>1. CASE r.item # None /\ old # None
    <3>1. r.item \in Items /\ old \in Items /\ new = [r.item EXCEPT !.sub = old.sub]
      BY <1>2, <1>3, <1>7, <2>1 DEF MaybeItems
    <3>2. PICK s : s = old.sub
      OBVIOUS
    <3>3. s \in Subs
      BY <3>1, <3>2, ItemIs
    <3>4. new \in Items /\ new.name = r.item.name /\ new.groups = r.item.groups
      BY <3>1, <3>2, <3>3 DEF Items
    <3> QED
      BY <2>1, <3>4, Constants DEF MaybeItems
  <2>2. CASE ~(r.item # None /\ old # None)
    BY <1>2, <1>3, <2>2
  <2> QED
    BY <2>1, <2>2
<1>9. m \in Messages /\ m.type = "push" /\ Told(m, r.jid) = new /\ \A k : News(m, k) <=> k = r.jid
  BY <1>2, <1>4, <1>8, PushIs
<1>10. /\ result \in Messages /\ result.type = "result" /\ (\A k : ~News(result, k))
       /\ \A k : Answers(result, k) <=> k = r.jid
  BY <1>2, <1>4, ReplyIs
<1>11. toClient' = Append(Append(toClient, m), result)
  <2>1. toClient \in Seq(Messages)
    BY <1>6 DEF Sorts
  <2>2. toClient \o Pushes(r.jid, new) = Append(toClient, m)
    BY <1>2, <1>4, <1>8, <2>1, PushesIs
  <2>3. PICK t : t = Append(toClient, m)
    OBVIOUS
  <2>4. t \in Seq(Messages)
    BY <1>9, <2>1, <2>3, AppendIs
  <2>5. t \o <<result>> = Append(t, result)
    BY <1>10, <2>4
  <2> QED
    BY <1>5, <2>2, <2>3, <2>5
<1> QED
  BY <1>1, <1>5, <1>8, <1>9, <1>10, <1>11

LEMMA ServerAcceptsKeeps ==
  ASSUME RInv, ServerAccepts
  PROVE  RInv'
<1>1. PICK r : r = Head(toServer)
  OBVIOUS
<1>2. /\ toServer # <<>> /\ r.iq # Fetch /\ toServer' = Tail(toServer)
      /\ UNCHANGED <<items, pending, fetching, fetched, completing, calls, answer, interested,
                     others, rejects, faults>>
  BY <1>1, AcceptIs
<1>3. PICK new \in MaybeItems, m \in Messages, result \in Messages :
        /\ server' = [server EXCEPT ![r.jid] = new]
        /\ toClient' = Append(Append(toClient, m), result)
        /\ m.type = "push" /\ Told(m, r.jid) = new /\ \A k : News(m, k) <=> k = r.jid
        /\ result.type = "result" /\ \A k : ~News(result, k)
        /\ \A k : Answers(result, k) <=> k = r.jid
  BY <1>1, AcceptIs
<1>4. /\ Sorts /\ Stage /\ IsFresh /\ AloneInFlight /\ toClient \in Seq(Messages)
      /\ server \in [Jids -> MaybeItems]
  BY Facts DEF RInv
<1>5. fetched /\ interested /\ Runs /\ r.jid \in Jids
  BY <1>1, <1>2, <1>4, ServedFacts DEF Stage
<1>6. PICK tc : tc = Append(toClient, m)
  OBVIOUS
<1>7. tc \in Seq(Messages) /\ \A n \in 1 .. Len(tc) : tc[n].type # "roster"
  <2>1. /\ Append(toClient, m) \in Seq(Messages) /\ Len(toClient) \in Nat
        /\ \A i \in 1 .. Len(toClient) : Append(toClient, m)[i] = toClient[i]
        /\ \A i \in 1 .. Len(Append(toClient, m)) : i = Len(toClient) + 1 \/ i \in 1 .. Len(toClient)
        /\ Append(toClient, m)[Len(toClient) + 1] = m
    BY <1>4, AppendIs
  <2> QED
    BY <1>3, <1>5, <1>6, <2>1 DEF Runs
<1>8. server' \in [Jids -> MaybeItems]
      /\ \A k \in Jids : server'[k] = IF k = r.jid THEN new ELSE server[k]
  BY <1>3, <1>4
<1>9. ASSUME NEW k \in Jids
      PROVE  Fresh(k, items[k], server'[k], tc)
  <2>1. Fresh(k, items[k], server[k], toClient)
    BY <1>4, <1>5 DEF IsFresh
  <2>2. PICK s : s = server'[k]
    OBVIOUS
  <2>3. s = IF News(m, k) THEN Told(m, k) ELSE server[k]
    BY <1>3, <1>8, <2>2
  <2>4. Fresh(k, items[k], s, tc)
    BY <1>4, <1>6, <2>1, <2>3, FreshAppended
  <2> QED
    BY <2>2, <2>4
<1>10. ASSUME faults = 0, NEW k \in Jids
       PROVE  AtMostOne(toServer, tc, k) /\ (NoIq(toServer, toClient, k) => NoIq(toServer, tc, k))
  <2>1. AtMostOne(toServer, toClient, k)
    BY <1>4, <1>10 DEF AloneInFlight
  <2>2. ~Answers(m, k)
    BY <1>3 DEF Answers
  <2> QED
    BY <1>4, <1>6, <2>1, <2>2, NewsSent
<1>11. /\ rejects' \in Nat /\ others + rejects' + faults <= MaxDisturbances
  BY <1>2, <1>4 DEF Sorts, TypeOK
<1>12. /\ result.type # "roster" /\ (\A k : ~News(result, k)) /\ (\A k : Answers(result, k) <=> k = r.jid)
       /\ toClient' = Append(tc, result)
  BY <1>3, <1>6
<1> QED
  BY <1>1, <1>2, <1>7, <1>8, <1>9, <1>10, <1>11, <1>12, AnsweredKeeps

LEMMA ServerRejectsKeeps ==
  ASSUME RInv, ServerRejects
  PROVE  RInv'
<1>1. PICK r, m : r = Head(toServer) /\ m = [type |-> "error", jid |-> r.jid, iq |-> r.iq]
  OBVIOUS
<1>2. /\ toServer # <<>> /\ r.iq # Fetch /\ toServer' = Tail(toServer)
      /\ toClient' = Append(toClient, m)
      /\ rejects' = rejects \/ (MayDisturb /\ rejects' = rejects + 1)
      /\ UNCHANGED <<items, pending, fetching, fetched, completing, calls, answer, server, interested,
                     others, faults>>
  BY <1>1 DEF ServerRejects, clientVars
<1>3. /\ Sorts /\ Stage /\ IsFresh /\ AloneInFlight /\ toClient \in Seq(Messages)
      /\ server \in [Jids -> MaybeItems]
  BY Facts DEF RInv
<1>4. fetched /\ interested /\ Runs /\ r.jid \in Jids /\ r.iq \in Calls
  BY <1>1, <1>2, <1>3, ServedFacts DEF Stage
<1>5. /\ m \in Messages /\ m.type # "roster" /\ (\A k : ~News(m, k))
      /\ \A k : Answers(m, k) <=> k = r.jid
  BY <1>1, <1>4, ReplyIs
<1>6. \A k \in Jids : Fresh(k, items[k], server'[k], toClient)
  BY <1>2, <1>3, <1>4 DEF IsFresh
<1>7. faults = 0 => \A k \in Jids :
        AtMostOne(toServer, toClient, k) /\ (NoIq(toServer, toClient, k) => NoIq(toServer, toClient, k))
  BY <1>3 DEF AloneInFlight
<1>8. \A n \in 1 .. Len(toClient) : toClient[n].type # "roster"
  BY <1>4 DEF Runs
<1>9. rejects' \in Nat /\ others + rejects' + faults <= MaxDisturbances
  BY <1>2, <1>3, RosterAssumption DEF Sorts, TypeOK, MayDisturb
<1>10. server' \in [Jids -> MaybeItems]
  BY <1>2, <1>3
<1> QED
  BY <1>1, <1>2, <1>3, <1>5, <1>6, <1>7, <1>8, <1>9, <1>10, AnsweredKeeps

LEMMA PushedStage ==
  ASSUME Sorts, Stage, interested, NEW m \in Messages, m.type = "push",
         toClient' = Append(toClient, m), UNCHANGED <<clientVars, toServer, interested>>
  PROVE  Stage'
<1>1. /\ Len(toClient) \in Nat /\ toClient \in Seq(Messages) /\ Len(toClient') = Len(toClient) + 1
      /\ \A i \in 1 .. Len(toClient) : toClient'[i] = toClient[i]
      /\ \A i \in 1 .. Len(toClient') : i = Len(toClient) + 1 \/ i \in 1 .. Len(toClient)
      /\ toClient'[Len(toClient) + 1] = m
  BY AppendIs DEF Sorts
<1>2. UNCHANGED <<items, pending, fetching, fetched, completing, calls, answer, toServer, interested>>
  BY DEF clientVars
<1>3. CASE fetched
  <2>1. Runs
    BY <1>3 DEF Stage
  <2>2. \A i \in 1 .. Len(toClient') : toClient'[i].type # "roster"
    BY <1>1, <2>1 DEF Runs
  <2> QED
    BY <1>2, <1>3, <2>1, <2>2 DEF Stage, Runs
<1>4. CASE ~fetched
  <2>1. Begins
    BY <1>4 DEF Stage
  <2>2. /\ fetching /\ toServer = <<>> /\ toClient # <<>> /\ Head(toClient).type = "roster"
        /\ \A n \in 2 .. Len(toClient) : toClient[n].type = "push"
    BY <2>1 DEF Begins
  <2>3. toClient' # <<>> /\ Head(toClient') = Head(toClient)
    BY <1>1, <2>2
  <2>4. \A n \in 2 .. Len(toClient') : toClient'[n].type = "push"
    <3>1. ASSUME NEW n \in 2 .. Len(toClient')
          PROVE  toClient'[n].type = "push"
      <4>1. n = Len(toClient) + 1 \/ n \in 2 .. Len(toClient)
        BY <1>1
      <4>2. n \in 2 .. Len(toClient) => n \in 1 .. Len(toClient)
        BY <1>1
      <4> QED
        BY <1>1, <2>2, <4>1, <4>2
    <3> QED
      BY <3>1
  <2> QED
    BY <1>2, <1>4, <2>1, <2>2, <2>3, <2>4 DEF Stage, Begins
<1> QED
  BY <1>3, <1>4

LEMMA OtherClientEditsKeeps ==
  ASSUME RInv, NEW j \in Jids, NEW item \in MaybeItems, OtherClientEdits(j, item)
  PROVE  RInv'
<1>1. PICK m : m = Push(j, item)
  OBVIOUS
<1>2. /\ MayDisturb /\ server' = [server EXCEPT ![j] = item]
      /\ toClient' = toClient \o Pushes(j, item) /\ others' = others + 1
      /\ UNCHANGED <<clientVars, interested, rejects, toServer, faults>>
      /\ UNCHANGED <<items, pending, fetching, fetched, completing, calls, answer>>
  BY DEF OtherClientEdits, clientVars
<1>3. /\ Sorts /\ Stage /\ IsFresh /\ AllTracked /\ AloneInFlight /\ toClient \in Seq(Messages)
      /\ server \in [Jids -> MaybeItems]
  BY Facts DEF RInv
<1>4. m \in Messages /\ m.type = "push" /\ Told(m, j) = item /\ \A k : News(m, k) <=> k = j
  BY <1>1, PushIs
<1>5. /\ interested => toClient' = Append(toClient, m)
      /\ ~interested => toClient' = toClient
  BY <1>1, <1>2, <1>3, PushesIs
<1>6. server' \in [Jids -> MaybeItems]
      /\ \A k \in Jids : server'[k] = IF k = j THEN item ELSE server[k]
  BY <1>2, <1>3
<1>7. toClient' \in Seq(Messages)
  BY <1>3, <1>4, <1>5, AppendIs
<1>8. others' \in Nat /\ others' + rejects + faults <= MaxDisturbances
  BY <1>2, <1>3, RosterAssumption DEF Sorts, TypeOK, MayDisturb
<1>9. Sorts'
  BY <1>2, <1>3, <1>6, <1>7, <1>8 DEF Sorts, TypeOK, MaybeItems
<1>10. Stage'
  <2>1. CASE interested
    BY <1>2, <1>3, <1>4, <1>5, <2>1, PushedStage
  <2>2. CASE ~interested
    BY <1>2, <1>3, <1>5, <2>2 DEF Stage, Runs, Begins
  <2> QED
    BY <2>1, <2>2
<1>11. IsFresh'
  <2>1. ASSUME interested, NEW k \in Jids
        PROVE  Fresh(k, items[k], server'[k], Append(toClient, m))
    <3>1. Fresh(k, items[k], server[k], toClient)
      BY <1>3, <2>1 DEF IsFresh
    <3>2. PICK s : s = server'[k]
      OBVIOUS
    <3>3. s = IF News(m, k) THEN Told(m, k) ELSE server[k]
      BY <1>4, <1>6, <3>2
    <3>4. Fresh(k, items[k], s, Append(toClient, m))
      BY <1>3, <1>4, <3>1, <3>3, FreshAppended
    <3> QED
      BY <3>2, <3>4
  <2> QED
    BY <1>2, <1>5, <2>1 DEF IsFresh
<1>12. AllTracked'
  BY <1>2, <1>3 DEF AllTracked
<1>13. AloneInFlight'
  <2>1. ASSUME faults = 0, NEW k \in Jids
        PROVE  /\ AtMostOne(toServer, toClient', k)
               /\ pending[k] = None \/ IsCompleting(k) => NoIq(toServer, toClient', k)
    <3>1. /\ AtMostOne(toServer, toClient, k)
          /\ pending[k] = None \/ IsCompleting(k) => NoIq(toServer, toClient, k)
      BY <1>3, <2>1 DEF AloneInFlight
    <3>2. ~Answers(m, k)
      BY <1>4 DEF Answers
    <3>3. /\ AtMostOne(toServer, Append(toClient, m), k)
          /\ NoIq(toServer, toClient, k) => NoIq(toServer, Append(toClient, m), k)
      BY <1>3, <1>4, <3>1, <3>2, NewsSent
    <3> QED
      BY <1>5, <3>1, <3>3
  <2> QED
    BY <1>2, <2>1 DEF AloneInFlight, IsCompleting
<1> QED
  BY <1>9, <1>10, <1>11, <1>12, <1>13 DEF RInv

-----------------------------------------------------------------------------
(* The invariant *)

LEMMA RInvInit == Init => RInv
<1> SUFFICES ASSUME Init PROVE RInv
  OBVIOUS
<1> USE DEF Init
<1>1. server \in [Jids -> MaybeItems]
  BY NewItemIs DEF MaybeItems
<1>2. Sorts
  <2>1. /\ calls \in Seq(Edits) /\ Len(calls) <= MaxCalls
        /\ answer \in Seq({None, "ok", "error"}) /\ Len(answer) = Len(calls)
    BY RosterAssumption
  <2>2. others + rejects + faults <= MaxDisturbances
    BY RosterAssumption
  <2>3. TypeOK
    BY <1>1, <2>1, <2>2 DEF TypeOK, MaybeItems
  <2> QED
    BY <2>3 DEF Sorts
<1>3. Stage /\ IsFresh
  BY DEF Stage, Begins, IsFresh
<1>4. AllTracked
  BY DEF AllTracked, Tracked
<1>5. AloneInFlight
  BY QuietIs DEF AloneInFlight
<1> QED
  BY <1>2, <1>3, <1>4, <1>5 DEF RInv

\* The five edits
LEMMA EditSteps ==
  /\ \A j \in Jids, n \in Names \cup {None}, gs \in SUBSET Groups :
       AddContact(j, n, gs) => \E e \in Edits : Edit(e)
  /\ \A j \in Jids : RemoveContact(j) => \E e \in Edits : Edit(e)
  /\ \A j \in Jids, n \in Names : ChangeContactName(j, n) => \E e \in Edits : Edit(e)
  /\ \A j \in Jids, g \in Groups : ContactAddGroup(j, g) => \E e \in Edits : Edit(e)
  /\ \A j \in Jids, g \in Groups : ContactRemoveGroup(j, g) => \E e \in Edits : Edit(e)
<1>1. ASSUME NEW j \in Jids, NEW n \in Names \cup {None}, NEW gs \in SUBSET Groups, AddContact(j, n, gs)
      PROVE  \E e \in Edits : Edit(e)
  <2>1. PICK e : e = [kind |-> "add", jid |-> j, name |-> n, groups |-> gs]
    OBVIOUS
  <2>2. e \in Edits
    BY <2>1 DEF Edits
  <2>3. Edit(e)
    BY <1>1, <2>1 DEF AddContact
  <2> QED
    BY <2>2, <2>3
<1>2. ASSUME NEW j \in Jids, RemoveContact(j)
      PROVE  \E e \in Edits : Edit(e)
  <2>1. PICK e : e = [kind |-> "remove", jid |-> j]
    OBVIOUS
  <2>2. e \in Edits
    BY <2>1 DEF Edits
  <2>3. Edit(e)
    BY <1>2, <2>1 DEF RemoveContact
  <2> QED
    BY <2>2, <2>3
<1>3. ASSUME NEW j \in Jids, NEW n \in Names, ChangeContactName(j, n)
      PROVE  \E e \in Edits : Edit(e)
  <2>1. PICK e : e = [kind |-> "name", jid |-> j, name |-> n]
    OBVIOUS
  <2>2. e \in Edits
    BY <2>1 DEF Edits
  <2>3. Edit(e)
    BY <1>3, <2>1 DEF ChangeContactName
  <2> QED
    BY <2>2, <2>3
<1>4. ASSUME NEW j \in Jids, NEW g \in Groups, ContactAddGroup(j, g)
      PROVE  \E e \in Edits : Edit(e)
  <2>1. PICK e : e = [kind |-> "join", jid |-> j, group |-> g]
    OBVIOUS
  <2>2. e \in Edits
    BY <2>1 DEF Edits
  <2>3. Edit(e)
    BY <1>4, <2>1 DEF ContactAddGroup
  <2> QED
    BY <2>2, <2>3
<1>5. ASSUME NEW j \in Jids, NEW g \in Groups, ContactRemoveGroup(j, g)
      PROVE  \E e \in Edits : Edit(e)
  <2>1. PICK e : e = [kind |-> "leave", jid |-> j, group |-> g]
    OBVIOUS
  <2>2. e \in Edits
    BY <2>1 DEF Edits
  <2>3. Edit(e)
    BY <1>5, <2>1 DEF ContactRemoveGroup
  <2> QED
    BY <2>2, <2>3
<1> QED
  BY <1>1, <1>2, <1>3, <1>4, <1>5

LEMMA RInvStutters ==
  ASSUME RInv, UNCHANGED vars
  PROVE  RInv'
<1>1. UNCHANGED <<items, pending, fetching, fetched, completing, calls, answer, toServer, toClient,
                  server, interested, others, rejects, faults>>
  BY DEF vars, clientVars, worldVars
<1> QED
  BY <1>1 DEF RInv, Sorts, TypeOK, Stage, Begins, Runs, IsFresh, AllTracked, AloneInFlight, IsCompleting

LEMMA RInvKept == RInv /\ [Next]_vars => RInv'
<1> SUFFICES ASSUME RInv, [Next]_vars PROVE RInv'
  OBVIOUS
<1>1. ASSUME NEW e \in Edits, Edit(e) PROVE RInv'
  BY <1>1, EditKeeps
<1>2. ASSUME NEW j \in Jids, NEW n \in Names \cup {None}, NEW gs \in SUBSET Groups, AddContact(j, n, gs)
      PROVE  RInv'
  BY <1>1, <1>2, EditSteps
<1>3. ASSUME NEW j \in Jids, RemoveContact(j) PROVE RInv'
  BY <1>1, <1>3, EditSteps
<1>4. ASSUME NEW j \in Jids, NEW n \in Names, ChangeContactName(j, n) PROVE RInv'
  BY <1>1, <1>4, EditSteps
<1>5. ASSUME NEW j \in Jids, NEW g \in Groups, ContactAddGroup(j, g) PROVE RInv'
  BY <1>1, <1>5, EditSteps
<1>6. ASSUME NEW j \in Jids, NEW g \in Groups, ContactRemoveGroup(j, g) PROVE RInv'
  BY <1>1, <1>6, EditSteps
<1>7. ASSUME NEW j \in Jids, IqFails(j) PROVE RInv'
  BY <1>7, IqFailsKeeps
<1>8. ASSUME NEW j \in Jids, NEW item \in Items \cup {None}, OtherClientEdits(j, item) PROVE RInv'
  BY <1>8, OtherClientEditsKeeps DEF MaybeItems
<1>9. CASE UNCHANGED vars
  BY <1>9, RInvStutters
<1> QED
  BY <1>2, <1>3, <1>4, <1>5, <1>6, <1>7, <1>8, <1>9, CompleteNextKeeps, FlyingCompletedKeeps,
     WaitingCompletedKeeps, ReceiveReplyKeeps, ReceivePushKeeps, FetchRosterKeeps, ReceiveRosterKeeps,
     ServerFetchKeeps, ServerAcceptsKeeps, ServerRejectsKeeps DEF Next

-----------------------------------------------------------------------------
(* What the invariant means *)

LEMMA IsMirrored == RInv => RosterIsCurrent
<1> SUFFICES ASSUME RInv PROVE RosterIsCurrent
  OBVIOUS
<1>1. Sorts /\ IsFresh
  BY DEF RInv
<1>2. toClient \in Seq(Messages)
  BY <1>1 DEF Sorts
<1>3. Len(toClient) \in Nat /\ DOMAIN toClient = 1 .. Len(toClient)
  BY <1>2
<1>4. ASSUME interested, NEW j \in Jids, NEW about,
             about = {n \in DOMAIN toClient : News(toClient[n], j)}
      PROVE  /\ about = {} => items[j] = server[j]
             /\ \A n \in about : (\A m \in about : m <= n) => Told(toClient[n], j) = server[j]
  <2>1. Fresh(j, items[j], server[j], toClient)
    BY <1>1, <1>4 DEF IsFresh
  <2>2. ASSUME about = {}
        PROVE  items[j] = server[j]
    BY <1>3, <1>4, <2>1, <2>2 DEF Fresh
  <2>3. ASSUME NEW n \in about, \A m \in about : m <= n, Told(toClient[n], j) # server[j]
        PROVE  FALSE
    <3>1. n \in 1 .. Len(toClient) /\ News(toClient[n], j)
      BY <1>3, <1>4, <2>3
    <3>2. PICK m \in 1 .. Len(toClient) : n < m /\ News(toClient[m], j)
      BY <2>1, <2>3, <3>1 DEF Fresh
    <3>3. m <= n
      BY <1>3, <1>4, <2>3, <3>2
    <3> QED
      BY <1>3, <3>1, <3>2, <3>3
  <2> QED
    BY <2>2, <2>3
<1>5. MirrorsServer
  BY <1>4 DEF MirrorsServer
<1> QED
  BY <1>1, <1>5 DEF RosterIsCurrent, Sorts

\* Whatever edits are made here and by other clients, accepted or refused, the copy of the roster
\* differs from the server's only by the news that are on their way (roster_update).
THEOREM RosterMirrorsServer == Spec => []RosterIsCurrent
<1>1. RInv => RosterIsCurrent
  BY IsMirrored
<1> QED
  BY <1>1, RInvInit, RInvKept, PTL DEF Spec

\* The entry h of a list of a pending operation is one that has not been called back and holds edit c.
HeldAt(h, c) ==
  LET j == h[1]
      list == h[2]
      n == h[3]
  IN /\ pending[j] # None /\ n <= Len(pending[j][list]) /\ pending[j][list][n] = c
     /\ ~CalledBack(j, list, n)

LEMMA HeldAtIs ==
  ASSUME RInv, NEW j \in Jids, NEW n \in Calls, NEW c
  PROVE  /\ HeldAt(<<j, "flying", n>>, c) <=>
              /\ pending[j] # None /\ n \in 1 .. Len(pending[j].flying) /\ pending[j].flying[n] = c
              /\ ~FlyingCalled(completing, j, n)
         /\ HeldAt(<<j, "waiting", n>>, c) <=>
              /\ pending[j] # None /\ n \in 1 .. Len(pending[j].waiting) /\ pending[j].waiting[n] = c
              /\ ~WaitingCalled(completing, j, n)
<1>1. /\ pending[j] # None =>
           /\ pending[j] \in Pendings /\ Len(pending[j].flying) \in Nat /\ Len(pending[j].waiting) \in Nat
      /\ completing # None => completing.list \in {"flying", "waiting"}
  BY Facts, ListsAre DEF RInv
<1>2. pending[j] # None =>
        pending[j]["flying"] = pending[j].flying /\ pending[j]["waiting"] = pending[j].waiting
  OBVIOUS
<1>3. n \in Nat /\ n >= 1
  BY Constants DEF Calls
<1>4. CalledBack(j, "flying", n) <=> FlyingCalled(completing, j, n)
  BY <1>1 DEF CalledBack, FlyingCalled
<1>5. CalledBack(j, "waiting", n) <=> WaitingCalled(completing, j, n)
  BY <1>1 DEF CalledBack, WaitingCalled
<1>6. HeldAt(<<j, "flying", n>>, c) <=>
        /\ pending[j] # None /\ n <= Len(pending[j]["flying"]) /\ pending[j]["flying"][n] = c
        /\ ~CalledBack(j, "flying", n)
  BY DEF HeldAt
<1>7. HeldAt(<<j, "waiting", n>>, c) <=>
        /\ pending[j] # None /\ n <= Len(pending[j]["waiting"]) /\ pending[j]["waiting"][n] = c
        /\ ~CalledBack(j, "waiting", n)
  BY DEF HeldAt
<1> QED
  BY <1>1, <1>2, <1>3, <1>4, <1>5, <1>6, <1>7

\* An edit that is not answered is held once.
LEMMA HeldOnce ==
  ASSUME RInv, NEW c \in 1 .. Len(calls), answer[c] = None
  PROVE  \E h : Holders(c) = {h}
<1>1. PICK j : j = calls[c].jid
  OBVIOUS
<1>2. /\ AllTracked /\ calls \in Seq(Edits) /\ Typed(pending, calls, completing)
      /\ Len(calls) \in Nat /\ Len(calls) <= MaxCalls /\ MaxCalls \in Nat
  BY Facts, RosterAssumption DEF RInv
<1>3. Tracked(pending, calls, answer, completing)
  BY <1>2 DEF AllTracked
<1>4. j \in Jids /\ pending[j] # None /\ IsIn(c, pending[j])
  BY <1>1, <1>2, <1>3 DEF Tracked, Typed
<1>5. \A k \in Jids : pending[k] # None =>
        /\ Answered(pending[k], k, completing, answer) /\ pending[k] \in Pendings
        /\ Len(pending[k].flying) \in Nat /\ Len(pending[k].waiting) \in Nat
        /\ Len(pending[k].flying) <= Len(calls) /\ Len(pending[k].waiting) <= Len(calls)
  BY <1>2, <1>3, ListsAre, Constants DEF Tracked, Holds, OfContact, Typed
<1>6. \A n \in 1 .. Len(calls) : n \in Calls
  BY <1>2 DEF Calls
<1>7. Holders(c) = {h \in Jids \X {"flying", "waiting"} \X Calls : HeldAt(h, c)}
  BY DEF Holders, HeldAt
<1>8. PICK h \in Jids \X {"flying", "waiting"} \X Calls : HeldAt(h, c)
  <2>1. CASE \E n \in 1 .. Len(pending[j].flying) : pending[j].flying[n] = c
    <3>1. PICK n \in 1 .. Len(pending[j].flying) : pending[j].flying[n] = c
      BY <2>1
    <3>2. n \in Calls
      <4>1. n \in 1 .. Len(calls)
        BY <1>2, <1>4, <1>5, <3>1
      <4> QED
        BY <1>6, <4>1
    <3>3. ~FlyingCalled(completing, j, n)
      BY <1>4, <1>5, <3>1 DEF Answered
    <3>4. HeldAt(<<j, "flying", n>>, c)
      <4>1. HeldAt(<<j, "flying", n>>, c) <=>
              /\ pending[j] # None /\ n \in 1 .. Len(pending[j].flying) /\ pending[j].flying[n] = c
              /\ ~FlyingCalled(completing, j, n)
        BY <1>4, <3>2, HeldAtIs
      <4> QED
        BY <1>4, <3>1, <3>3, <4>1
    <3>5. <<j, "flying", n>> \in Jids \X {"flying", "waiting"} \X Calls
      BY <1>4, <3>2
    <3> QED
      BY <3>4, <3>5
  <2>2. CASE \E n \in 1 .. Len(pending[j].waiting) : pending[j].waiting[n] = c
    <3>1. PICK n \in 1 .. Len(pending[j].waiting) : pending[j].waiting[n] = c
      BY <2>2
    <3>2. n \in Calls
      <4>1. n \in 1 .. Len(calls)
        BY <1>2, <1>4, <1>5, <3>1
      <4> QED
        BY <1>6, <4>1
    <3>3. ~WaitingCalled(completing, j, n)
      BY <1>4, <1>5, <3>1 DEF Answered
    <3>4. HeldAt(<<j, "waiting", n>>, c)
      <4>1. HeldAt(<<j, "waiting", n>>, c) <=>
              /\ pending[j] # None /\ n \in 1 .. Len(pending[j].waiting) /\ pending[j].waiting[n] = c
              /\ ~WaitingCalled(completing, j, n)
        BY <1>4, <3>2, HeldAtIs
      <4> QED
        BY <1>4, <3>1, <3>3, <4>1
    <3>5. <<j, "waiting", n>> \in Jids \X {"flying", "waiting"} \X Calls
      BY <1>4, <3>2
    <3> QED
      BY <3>4, <3>5
  <2> QED
    BY <1>4, <2>1, <2>2 DEF IsIn
<1>9. ASSUME NEW g \in Jids \X {"flying", "waiting"} \X Calls, HeldAt(g, c)
      PROVE  g = h
  <2>1. PICK k1 \in Jids, l1 \in {"flying", "waiting"}, n1 \in Calls : g = <<k1, l1, n1>>
    OBVIOUS
  <2>2. PICK k2 \in Jids, l2 \in {"flying", "waiting"}, n2 \in Calls : h = <<k2, l2, n2>>
    OBVIOUS
  <2>3. /\ pending[k1] # None
        /\ l1 = "flying" => n1 \in 1 .. Len(pending[k1].flying) /\ pending[k1].flying[n1] = c
        /\ l1 = "waiting" => n1 \in 1 .. Len(pending[k1].waiting) /\ pending[k1].waiting[n1] = c
    BY <1>9, <2>1, HeldAtIs
  <2>4. /\ pending[k2] # None
        /\ l2 = "flying" => n2 \in 1 .. Len(pending[k2].flying) /\ pending[k2].flying[n2] = c
        /\ l2 = "waiting" => n2 \in 1 .. Len(pending[k2].waiting) /\ pending[k2].waiting[n2] = c
    BY <1>8, <2>2, HeldAtIs
  <2>5. /\ \A m \in 1 .. Len(pending[k1].flying), n \in 1 .. Len(pending[k2].flying) :
             pending[k1].flying[m] = pending[k2].flying[n] => k1 = k2 /\ m = n
        /\ \A m \in 1 .. Len(pending[k1].waiting), n \in 1 .. Len(pending[k2].waiting) :
             pending[k1].waiting[m] = pending[k2].waiting[n] => k1 = k2 /\ m = n
        /\ \A m \in 1 .. Len(pending[k1].flying), n \in 1 .. Len(pending[k2].waiting) :
             pending[k1].flying[m] # pending[k2].waiting[n]
    BY <1>2, <1>3, <2>3, <2>4, OnePlace
  <2>6. \A m \in 1 .. Len(pending[k2].flying), n \in 1 .. Len(pending[k1].waiting) :
          pending[k2].flying[m] # pending[k1].waiting[n]
    BY <1>2, <1>3, <2>3, <2>4, OnePlace
  <2>7. k1 = k2 /\ l1 = l2 /\ n1 = n2
    <3>1. CASE l1 = "flying" /\ l2 = "flying"
      BY <2>3, <2>4, <2>5, <3>1
    <3>2. CASE l1 = "waiting" /\ l2 = "waiting"
      BY <2>3, <2>4, <2>5, <3>2
    <3>3. CASE l1 = "flying" /\ l2 = "waiting"
      BY <2>3, <2>4, <2>5, <3>3
    <3>4. CASE l1 = "waiting" /\ l2 = "flying"
      BY <2>3, <2>4, <2>6, <3>4
    <3> QED
      BY <3>1, <3>2, <3>3, <3>4
  <2> QED
    BY <2>1, <2>2, <2>7
<1>10. Holders(c) = {h}
  BY <1>7, <1>8, <1>9
<1> QED
  BY <1>10

\* One that is answered is held no more.
LEMMA HeldNever ==
  ASSUME RInv, NEW c \in 1 .. Len(calls), answer[c] # None
  PROVE  Holders(c) = {}
<1>1. AllTracked
  BY DEF RInv
<1>2. Holders(c) = {h \in Jids \X {"flying", "waiting"} \X Calls : HeldAt(h, c)}
  BY DEF Holders, HeldAt
<1>3. ASSUME NEW g \in Jids \X {"flying", "waiting"} \X Calls, HeldAt(g, c)
      PROVE  FALSE
  <2>1. PICK k \in Jids, l \in {"flying", "waiting"}, n \in Calls : g = <<k, l, n>>
    OBVIOUS
  <2>2. CASE l = "flying"
    <3>1. /\ pending[k] # None /\ n \in 1 .. Len(pending[k].flying) /\ pending[k].flying[n] = c
          /\ ~FlyingCalled(completing, k, n)
      BY <1>3, <2>1, <2>2, HeldAtIs
    <3> QED
      BY <1>1, <3>1 DEF AllTracked, Tracked, Answered
  <2>3. CASE l = "waiting"
    <3>1. /\ pending[k] # None /\ n \in 1 .. Len(pending[k].waiting) /\ pending[k].waiting[n] = c
          /\ ~WaitingCalled(completing, k, n)
      BY <1>3, <2>1, <2>3, HeldAtIs
    <3> QED
      BY <1>1, <3>1 DEF AllTracked, Tracked, Answered
  <2> QED
    BY <2>2, <2>3
<1> QED
  BY <1>2, <1>3

LEMMA AllHeldOnce == RInv => CallsAreTracked
<1> SUFFICES ASSUME RInv, NEW c \in 1 .. Len(calls)
             PROVE  Cardinality(Holders(c)) = IF answer[c] = None THEN 1 ELSE 0
  BY DEF CallsAreTracked
<1>1. CASE answer[c] = None
  BY <1>1, HeldOnce, FS_Singleton
<1>2. CASE answer[c] # None
  BY <1>2, HeldNever, FS_EmptySet
<1> QED
  BY <1>1, <1>2

LEMMA OneIqIs == RInv => OneIqPerContact
<1> SUFFICES ASSUME RInv, faults = 0, NEW j \in Jids
             PROVE  Cardinality(Asking(j)) + Cardinality(Answering(j)) <= IF pending[j] = None THEN 0 ELSE 1
  BY DEF OneIqPerContact
<1>1. Sorts /\ AloneInFlight
  BY DEF RInv
<1>2. DOMAIN toServer = 1 .. Len(toServer) /\ DOMAIN toClient = 1 .. Len(toClient)
  BY <1>1 DEF Sorts
<1>3. /\ Asking(j) = {n \in 1 .. Len(toServer) : Asks(toServer[n], j)}
      /\ Answering(j) = {n \in 1 .. Len(toClient) : Answers(toClient[n], j)}
  BY <1>2 DEF Asking, Answering, Asks, Answers
<1>4. AtMostOne(toServer, toClient, j) /\ (pending[j] = None => NoIq(toServer, toClient, j))
  BY <1>1 DEF AloneInFlight
<1>5. CASE NoIq(toServer, toClient, j)
  <2>1. Asking(j) = {} /\ Answering(j) = {}
    BY <1>3, <1>5 DEF NoIq
  <2>2. Cardinality(Asking(j)) = 0 /\ Cardinality(Answering(j)) = 0
    BY <2>1, FS_EmptySet
  <2> QED
    BY <2>2
<1>6. ASSUME NEW n \in 1 .. Len(toServer), Asks(toServer[n], j)
      PROVE  Cardinality(Asking(j)) = 1 /\ Cardinality(Answering(j)) = 0
  <2>1. Asking(j) = {n} /\ Answering(j) = {}
    BY <1>3, <1>4, <1>6 DEF AtMostOne
  <2> QED
    BY <2>1, FS_Singleton, FS_EmptySet
<1>7. ASSUME NEW n \in 1 .. Len(toClient), Answers(toClient[n], j)
      PROVE  Cardinality(Asking(j)) = 0 /\ Cardinality(Answering(j)) = 1
  <2>1. Answering(j) = {n} /\ Asking(j) = {}
    BY <1>3, <1>4, <1>7 DEF AtMostOne
  <2> QED
    BY <2>1, FS_Singleton, FS_EmptySet
<1>8. CASE ~NoIq(toServer, toClient, j)
  <2>1. pending[j] # None
    BY <1>4, <1>8
  <2>2. Cardinality(Asking(j)) + Cardinality(Answering(j)) = 1
    BY <1>6, <1>7, <1>8 DEF NoIq
  <2> QED
    BY <2>1, <2>2
<1> QED
  BY <1>5, <1>8

-----------------------------------------------------------------------------
(* The last edit of a contact *)

\* The IQs of contact j that ts2 asks for are those of ts.
SameAsks(ts, ts2, j) ==
  /\ \A n \in 1 .. Len(ts2) : Asks(ts2[n], j) =>
       \E m \in 1 .. Len(ts) : Asks(ts[m], j) /\ ts[m].item = ts2[n].item
  /\ \A n \in 1 .. Len(ts) : Asks(ts[n], j) => \E m \in 1 .. Len(ts2) : Asks(ts2[m], j)

\* A step has nothing to do with contact j.
Spared(j) ==
  /\ pending'[j] = pending[j] /\ server'[j] = server[j] /\ SameAsks(toServer, toServer', j)
  /\ FinishesWaiting(j)' <=> FinishesWaiting(j)

LEMMA SameAsksIs ==
  ASSUME NEW ts \in Seq(Requests), NEW j
  PROVE  /\ SameAsks(ts, ts, j)
         /\ \A r \in Requests : ~Asks(r, j) => SameAsks(ts, Append(ts, r), j)
         /\ ts # <<>> /\ ~Asks(Head(ts), j) => SameAsks(ts, Tail(ts), j)
<1>1. SameAsks(ts, ts, j)
  BY DEF SameAsks
<1>2. ASSUME NEW r \in Requests, ~Asks(r, j), NEW t2, t2 = Append(ts, r)
      PROVE  SameAsks(ts, t2, j)
  <2>1. /\ \A i \in 1 .. Len(ts) : t2[i] = ts[i] /\ i \in 1 .. Len(t2)
        /\ \A i \in 1 .. Len(t2) : i = Len(ts) + 1 \/ i \in 1 .. Len(ts)
        /\ t2[Len(ts) + 1] = r
    BY <1>2, AppendIs
  <2>2. \A i \in 1 .. Len(t2) : Asks(t2[i], j) => i \in 1 .. Len(ts) /\ t2[i] = ts[i]
    BY <1>2, <2>1
  <2> QED
    BY <2>1, <2>2 DEF SameAsks
<1>3. ASSUME ts # <<>>, ~Asks(Head(ts), j), NEW t2, t2 = Tail(ts)
      PROVE  SameAsks(ts, t2, j)
  <2>1. /\ \A i \in 1 .. Len(t2) : t2[i] = ts[i + 1] /\ i + 1 \in 1 .. Len(ts)
        /\ \A i \in 1 .. Len(ts) : i = 1 \/ (i - 1 \in 1 .. Len(t2) /\ t2[i - 1] = ts[i])
        /\ Head(ts) = ts[1]
    BY <1>3, TailIs
  <2>2. ASSUME NEW n \in 1 .. Len(t2), Asks(t2[n], j)
        PROVE  \E m \in 1 .. Len(ts) : Asks(ts[m], j) /\ ts[m].item = t2[n].item
    BY <2>1, <2>2
  <2>3. ASSUME NEW n \in 1 .. Len(ts), Asks(ts[n], j)
        PROVE  \E m \in 1 .. Len(t2) : Asks(t2[m], j)
    <3>1. n # 1
      BY <1>3, <2>1, <2>3
    <3>2. n - 1 \in 1 .. Len(t2) /\ t2[n - 1] = ts[n]
      BY <2>1, <3>1
    <3> QED
      BY <2>3, <3>2
  <2> QED
    BY <2>2, <2>3 DEF SameAsks
<1> QED
  BY <1>1, <1>2, <1>3

LEMMA RemovesAsBefore ==
  ASSUME NEW ts, NEW ts2, NEW s, NEW j, Removes(ts, s, j), SameAsks(ts, ts2, j)
  PROVE  Removes(ts2, s, j)
BY DEF Removes, SameAsks

LEMMA WillShowStill ==
  ASSUME NEW e, NEW j, WillShow(e, j), Spared(j)
  PROVE  WillShow(e, j)'
<1>1. PICK p, s : p = pending[j] /\ s = server[j]
  OBVIOUS
<1>2. pending'[j] = p /\ server'[j] = s
  BY <1>1 DEF Spared
<1>3. p = None => Shows(e, s)
  BY <1>1 DEF WillShow
<1>4. CASE p # None /\ p.waiting = <<>>
  <2>1. /\ (\A n \in 1 .. Len(toServer) : ~Asks(toServer[n], j)) => Shows(e, s)
        /\ \A n \in 1 .. Len(toServer) : Asks(toServer[n], j) => Shows(e, toServer[n].item)
    BY <1>1, <1>4 DEF WillShow
  <2>2. /\ (\A n \in 1 .. Len(toServer') : ~Asks(toServer'[n], j)) => Shows(e, s)
        /\ \A n \in 1 .. Len(toServer') : Asks(toServer'[n], j) => Shows(e, toServer'[n].item)
    BY <2>1 DEF Spared, SameAsks
  <2> QED
    BY <1>2, <1>4, <2>2 DEF WillShow
<1>5. CASE p # None /\ p.waiting # <<>> /\ FinishesWaiting(j)
  <2>1. Shows(e, s) /\ FinishesWaiting(j)'
    BY <1>1, <1>5 DEF WillShow, Spared
  <2> QED
    BY <1>2, <1>5, <2>1 DEF WillShow
<1>6. CASE p # None /\ p.waiting # <<>> /\ ~FinishesWaiting(j)
  <2>1. (\A i \in MaybeItems : Shows(e, Final(p, i))) /\ ~FinishesWaiting(j)'
    BY <1>1, <1>6 DEF WillShow, Spared
  <2> QED
    BY <1>2, <1>6, <2>1 DEF WillShow
<1>7. CASE p = None
  BY <1>2, <1>3, <1>7 DEF WillShow
<1> QED
  BY <1>4, <1>5, <1>6, <1>7

\* Undisturbed, the application sees what the server holds of a contact without IQs.
LEMMA SettledIs ==
  ASSUME RInv, LInv, Undisturbed, fetched, NEW j \in Jids, pending[j] = None \/ IsCompleting(j)
  PROVE  items[j] = server[j] /\ NoIq(toServer, toClient, j)
<1>1. Sorts /\ Runs /\ IsFresh /\ AloneInFlight /\ PushIsAnswered(toClient) /\ faults = 0
  BY DEF RInv, LInv, Stage, Undisturbed
<1>2. NoIq(toServer, toClient, j) /\ toClient \in Seq(Messages)
  BY <1>1 DEF AloneInFlight, Sorts
<1>3. ASSUME NEW n \in 1 .. Len(toClient), News(toClient[n], j)
      PROVE  FALSE
  <2>1. toClient[n].type = "push"
    BY <1>1, <1>3 DEF Runs, News
  <2>2. PICK m \in 1 .. Len(toClient) : n < m /\ Answers(toClient[m], j)
    BY <1>1, <1>3, <2>1 DEF PushIsAnswered
  <2> QED
    BY <1>2, <2>2 DEF NoIq
<1>4. Fresh(j, items[j], server[j], toClient)
  BY <1>1 DEF IsFresh, Runs
<1> QED
  BY <1>2, <1>3, <1>4 DEF Fresh

\* What a step that makes no edit has to keep
LEMMA LInvKeeps ==
  ASSUME Sorts, LInv, UNCHANGED <<calls, others, rejects, faults>>,
         Undisturbed => PushIsAnswered(toClient'),
         Undisturbed => \A j \in Jids : Removes(toServer', server'[j], j),
         Undisturbed => \A j \in Jids, e \in Edits : WillShow(e, j) => WillShow(e, j)'
  PROVE  LInv'
<1> SUFFICES ASSUME Undisturbed
             PROVE  /\ PushIsAnswered(toClient') /\ RemovesSomething'
                    /\ \A c \in 1 .. Len(calls) : IsLast(c) => WillShow(calls[c], calls[c].jid)'
  BY DEF LInv, Undisturbed, IsLast
<1>1. RemovesSomething'
  BY DEF RemovesSomething
<1>2. ASSUME NEW c \in 1 .. Len(calls), IsLast(c)
      PROVE  WillShow(calls[c], calls[c].jid)'
  <2>1. PICK e, j : e = calls[c] /\ j = calls[c].jid
    OBVIOUS
  <2>2. e \in Edits /\ j \in Jids
    BY <2>1, EditIs DEF Sorts, TypeOK
  <2>3. WillShow(e, j)
    BY <1>2, <2>1 DEF LInv
  <2>4. WillShow(e, j)'
    BY <2>2, <2>3
  <2>5. calls'[c] = e /\ calls'[c].jid = j
    BY <2>1
  <2> QED
    BY <2>4, <2>5 DEF WillShow
<1> QED
  BY <1>1, <1>2

\* Steps that have nothing to do with what the edits want
LEMMA LInvSpared ==
  ASSUME Sorts, LInv, UNCHANGED <<calls, others, rejects, faults>>,
         Undisturbed => PushIsAnswered(toClient'), \A j \in Jids : Spared(j)
  PROVE  LInv'
<1>1. ASSUME Undisturbed, NEW j \in Jids
      PROVE  Removes(toServer', server'[j], j)
  <2>1. PICK s : s = server[j]
    OBVIOUS
  <2>2. Removes(toServer, s, j) /\ server'[j] = s /\ SameAsks(toServer, toServer', j)
    BY <1>1, <2>1 DEF LInv, RemovesSomething, Spared
  <2>3. Removes(toServer', s, j)
    BY <2>2, RemovesAsBefore
  <2> QED
    BY <2>2, <2>3
<1>2. \A j \in Jids, e \in Edits : WillShow(e, j) => WillShow(e, j)'
  BY WillShowStill
<1> QED
  BY <1>1, <1>2, LInvKeeps

LEMMA SparedIs ==
  ASSUME Sorts, UNCHANGED <<pending, server>>, NEW j \in Jids,
         toServer' = toServer
           \/ (\E r \in Requests : toServer' = Append(toServer, r) /\ ~Asks(r, j))
           \/ (toServer # <<>> /\ ~Asks(Head(toServer), j) /\ toServer' = Tail(toServer)),
         FinishesWaiting(j)' <=> FinishesWaiting(j)
  PROVE  Spared(j)
<1>1. SameAsks(toServer, toServer', j)
  BY SameAsksIs DEF Sorts
<1> QED
  BY <1>1 DEF Spared

LEMMA CompleteNextShows ==
  ASSUME RInv, LInv, CompleteNext
  PROVE  LInv'
<1>1. /\ completing # None /\ completing' = [completing EXCEPT !.next = @ + 1]
      /\ UNCHANGED <<pending, calls, toServer, toClient, server, others, rejects, faults>>
  BY DEF CompleteNext, worldVars
<1>2. Sorts /\ completing \in Completions
  BY <1>1, Facts DEF RInv
<1>3. /\ completing' # None /\ completing'.jid = completing.jid /\ completing'.list = completing.list
  BY <1>1, <1>2, Constants DEF Completions
<1>4. \A j \in Jids : FinishesWaiting(j)' <=> FinishesWaiting(j)
  BY <1>1, <1>3 DEF FinishesWaiting, IsCompleting
<1>5. \A j \in Jids : Spared(j)
  BY <1>1, <1>2, <1>4, SparedIs
<1>6. Undisturbed => PushIsAnswered(toClient')
  BY <1>1 DEF LInv
<1> QED
  BY <1>1, <1>2, <1>5, <1>6, LInvSpared

\* What the client hears is not in the way of an edit.
LEMMA HeardShows ==
  ASSUME Sorts, LInv, toClient # <<>>, toClient' = Tail(toClient),
         UNCHANGED <<pending, calls, toServer, server, others, rejects, faults>>,
         \A j \in Jids : FinishesWaiting(j)' <=> FinishesWaiting(j)
  PROVE  LInv'
<1>1. \A j \in Jids : Spared(j)
  BY SparedIs
<1>2. Undisturbed => PushIsAnswered(toClient')
  BY PushHeard DEF LInv, Sorts
<1> QED
  BY <1>1, <1>2, LInvSpared

LEMMA ReceiveReplyShows ==
  ASSUME RInv, LInv, ReceiveReply
  PROVE  LInv'
<1>1. PICK r : r = Head(toClient)
  OBVIOUS
<1>2. /\ completing = None /\ toClient # <<>> /\ toClient' = Tail(toClient)
      /\ UNCHANGED <<pending, calls, toServer, server, others, rejects, faults>>
      /\ IF IsFlying(r.jid, r.iq) THEN Complete(r.jid, r.type = "error") ELSE UNCHANGED completing
  BY <1>1 DEF ReceiveReply, worldVars
<1>3. \A j \in Jids : ~FinishesWaiting(j)
  BY <1>2 DEF FinishesWaiting, IsCompleting
<1>4. \A j \in Jids : ~FinishesWaiting(j)'
  <2>1. CASE IsFlying(r.jid, r.iq)
    <3>1. completing'.list = "flying"
      BY <1>2, <2>1 DEF Complete
    <3> QED
      BY <3>1 DEF FinishesWaiting
  <2>2. CASE ~IsFlying(r.jid, r.iq)
    BY <1>2, <2>2 DEF FinishesWaiting, IsCompleting
  <2> QED
    BY <2>1, <2>2
<1> QED
  BY <1>2, <1>3, <1>4, HeardShows DEF RInv

LEMMA ReceiveNewsShows ==
  ASSUME RInv, LInv, ReceivePush \/ ReceiveRoster
  PROVE  LInv'
<1>1. /\ toClient # <<>> /\ toClient' = Tail(toClient)
      /\ UNCHANGED <<pending, calls, completing, toServer, server, others, rejects, faults>>
  BY DEF ReceivePush, ReceiveRoster, worldVars
<1>2. \A j \in Jids : FinishesWaiting(j)' <=> FinishesWaiting(j)
  BY <1>1 DEF FinishesWaiting, IsCompleting
<1> QED
  BY <1>1, <1>2, HeardShows DEF RInv

LEMMA FetchRosterShows ==
  ASSUME RInv, LInv, FetchRoster
  PROVE  LInv'
<1>1. PICK f : f = [iq |-> Fetch]
  OBVIOUS
<1>2. /\ toServer' = Append(toServer, f)
      /\ UNCHANGED <<pending, calls, completing, toClient, server, others, rejects, faults>>
  BY <1>1 DEF FetchRoster, worldVars
<1>3. f \in Requests /\ \A j : ~Asks(f, j)
  BY <1>1 DEF Requests, Asks
<1>4. \A j \in Jids : FinishesWaiting(j)' <=> FinishesWaiting(j)
  BY <1>2 DEF FinishesWaiting, IsCompleting
<1>5. \A j \in Jids : Spared(j)
  BY <1>2, <1>3, <1>4, SparedIs DEF RInv
<1>6. Undisturbed => PushIsAnswered(toClient')
  BY <1>2 DEF LInv
<1> QED
  BY <1>2, <1>5, <1>6, LInvSpared DEF RInv

LEMMA ServerFetchShows ==
  ASSUME RInv, LInv, ServerFetch
  PROVE  LInv'
<1>1. PICK m : m = [type |-> "roster", items |-> [j \in {n \in Jids : server[n] # None} |-> server[j]]]
  OBVIOUS
<1>2. /\ toServer # <<>> /\ Head(toServer).iq = Fetch /\ toClient' = Append(toClient, m)
      /\ toServer' = Tail(toServer)
      /\ UNCHANGED <<pending, calls, completing, server, others, rejects, faults>>
  BY <1>1 DEF ServerFetch, clientVars
<1>3. \A j \in Jids : ~Asks(Head(toServer), j)
  BY <1>2 DEF Asks
<1>4. \A j \in Jids : FinishesWaiting(j)' <=> FinishesWaiting(j)
  BY <1>2 DEF FinishesWaiting, IsCompleting
<1>5. \A j \in Jids : Spared(j)
  BY <1>2, <1>3, <1>4, SparedIs DEF RInv
<1>6. m \in Messages /\ m.type # "push"
  <2>1. server \in [Jids -> MaybeItems]
    BY Facts DEF RInv
  <2>2. PICK x : x = [j \in {n \in Jids : server[n] # None} |-> server[j]]
    OBVIOUS
  <2>3. x \in Named
    BY <2>1, <2>2 DEF Named
  <2> QED
    BY <1>1, <2>2, <2>3 DEF Messages
<1>7. Undisturbed => PushIsAnswered(toClient')
  <2>1. ASSUME Undisturbed
        PROVE  PushIsAnswered(Append(toClient, m))
    <3>1. PushesAnsweredBy(toClient, m) /\ toClient \in Seq(Messages)
      BY <2>1, AnsweredAnyway DEF LInv, RInv, Sorts
    <3> QED
      BY <1>6, <3>1, ReplySent
  <2> QED
    BY <1>2, <2>1
<1> QED
  BY <1>2, <1>5, <1>7, LInvSpared DEF RInv

\* An item the server changes but for the subscription shows an edit as before.
LEMMA ShowsItem ==
  ASSUME NEW e \in Edits, NEW a \in MaybeItems, NEW b \in MaybeItems, b = None <=> a = None,
         a # None => b.name = a.name /\ b.groups = a.groups, Shows(e, a)
  PROVE  Shows(e, b)
<1>1. CASE e.kind = "add"
  BY <1>1 DEF Shows
<1>2. CASE e.kind = "remove"
  BY <1>2 DEF Shows
<1>3. CASE e.kind = "name"
  BY <1>3 DEF Shows
<1>4. CASE e.kind = "join"
  BY <1>4 DEF Shows
<1>5. CASE e.kind = "leave"
  BY <1>5 DEF Shows
<1> QED
  BY <1>1, <1>2, <1>3, <1>4, <1>5, EditIs

LEMMA ServerAcceptsShows ==
  ASSUME RInv, LInv, ServerAccepts
  PROVE  LInv'
<1>1. PICK r, j : r = Head(toServer) /\ j = r.jid
  OBVIOUS
<1>2. /\ toServer # <<>> /\ r.iq # Fetch /\ toServer' = Tail(toServer)
      /\ UNCHANGED <<pending, completing, calls, others, rejects, faults>>
  BY <1>1, AcceptIs
<1>3. PICK new \in MaybeItems, m \in Messages, result \in Messages :
        /\ server' = [server EXCEPT ![r.jid] = new]
        /\ new = None <=> r.item = None
        /\ r.item # None => new.name = r.item.name /\ new.groups = r.item.groups
        /\ toClient' = Append(Append(toClient, m), result)
        /\ m.type = "push" /\ Told(m, r.jid) = new /\ \A k : News(m, k) <=> k = r.jid
        /\ result.type = "result" /\ \A k : ~News(result, k)
        /\ \A k : Answers(result, k) <=> k = r.jid
  BY <1>1, AcceptIs
<1>4. /\ Sorts /\ AllTracked /\ AloneInFlight /\ toClient \in Seq(Messages) /\ toServer \in Seq(Requests)
      /\ server \in [Jids -> MaybeItems]
  BY Facts DEF RInv
<1>5. /\ j \in Jids /\ r.item \in MaybeItems /\ (\A k : Asks(r, k) <=> k = j)
      /\ r = toServer[1] /\ 1 \in 1 .. Len(toServer)
  BY <1>1, <1>2, ServedFacts
<1>6. \A k \in Jids : server'[k] = IF k = j THEN new ELSE server[k]
  BY <1>1, <1>3, <1>4
<1>7. \A k \in Jids : FinishesWaiting(k)' <=> FinishesWaiting(k)
  BY <1>2 DEF FinishesWaiting, IsCompleting
<1>8. ASSUME NEW k \in Jids, k # j
      PROVE  Spared(k)
  <2>1. SameAsks(toServer, toServer', k)
    BY <1>1, <1>2, <1>4, <1>5, <1>8, SameAsksIs
  <2> QED
    BY <1>2, <1>6, <1>7, <1>8, <2>1 DEF Spared
<1>9. ASSUME Undisturbed
      PROVE  PushIsAnswered(toClient')
  <2>1. PushIsAnswered(toClient)
    BY <1>9 DEF LInv
  <2>2. PICK tc : tc = Append(toClient, m)
    OBVIOUS
  <2>3. tc \in Seq(Messages)
    BY <1>4, <2>2, AppendIs
  <2>4. PushesAnsweredBy(tc, result)
    <3>1. \A k \in Jids : m.type = "push" /\ News(m, k) => Answers(result, k)
      BY <1>1, <1>3
    <3> QED
      BY <1>4, <2>1, <2>2, <3>1, PushSent
  <2>5. result.type # "push"
    BY <1>3
  <2>6. PushIsAnswered(Append(tc, result))
    BY <2>3, <2>4, <2>5, ReplySent
  <2> QED
    BY <1>3, <2>2, <2>6
<1>10. ASSUME Undisturbed
       PROVE  /\ AtMostOne(toServer, toClient, j) /\ pending[j] # None /\ ~FinishesWaiting(j)
              /\ \A n \in 1 .. Len(toServer') : ~Asks(toServer'[n], j)
  <2>1. /\ AtMostOne(toServer, toClient, j)
        /\ pending[j] = None \/ IsCompleting(j) => NoIq(toServer, toClient, j)
    BY <1>4, <1>5, <1>10 DEF AloneInFlight, Undisturbed
  <2>2. Asks(toServer[1], j)
    BY <1>5
  <2>3. ~NoIq(toServer, toClient, j)
    BY <1>5, <2>2 DEF NoIq
  <2>4. \A n \in 1 .. Len(toServer') : ~Asks(toServer'[n], j)
    <3>1. Asks(Head(toServer), j)
      BY <1>1, <1>5
    <3>2. Answers(result, j) => Asks(Head(toServer), j)
      BY <3>1
    <3> QED
      BY <1>2, <1>4, <2>1, <3>1, <3>2, RequestServed
  <2> QED
    BY <2>1, <2>3, <2>4 DEF FinishesWaiting
<1>11. ASSUME Undisturbed, NEW k \in Jids
       PROVE  Removes(toServer', server'[k], k)
  <2>1. CASE k = j
    BY <1>10, <1>11, <2>1 DEF Removes
  <2>2. CASE k # j
    <3>1. PICK s : s = server[k]
      OBVIOUS
    <3>2. Removes(toServer, s, k) /\ server'[k] = s /\ SameAsks(toServer, toServer', k)
      BY <1>8, <1>11, <2>2, <3>1 DEF LInv, RemovesSomething, Spared
    <3> QED
      BY <3>2, RemovesAsBefore
  <2> QED
    BY <2>1, <2>2
<1>12. ASSUME Undisturbed, NEW k \in Jids, NEW e \in Edits, WillShow(e, k)
       PROVE  WillShow(e, k)'
  <2>1. CASE k # j
    BY <1>8, <1>12, <2>1, WillShowStill
  <2>2. CASE k = j /\ pending[j].waiting = <<>>
    <3>1. Shows(e, toServer[1].item)
      BY <1>5, <1>10, <1>12, <2>2 DEF WillShow
    <3>2. Shows(e, new)
      BY <1>1, <1>3, <1>5, <3>1, ShowsItem
    <3>3. /\ pending'[j] = pending[j] /\ pending[j] # None /\ server'[j] = new
          /\ \A n \in 1 .. Len(toServer') : ~Asks(toServer'[n], j)
      BY <1>2, <1>5, <1>6, <1>10, <1>12
    <3> QED
      BY <2>2, <3>2, <3>3 DEF WillShow
  <2>3. CASE k = j /\ pending[j].waiting # <<>>
    <3>1. pending[j] # None /\ ~FinishesWaiting(j) /\ ~FinishesWaiting(j)' /\ pending'[j] = pending[j]
      BY <1>2, <1>5, <1>7, <1>10, <1>12
    <3>2. \A i \in MaybeItems : Shows(e, Final(pending[j], i))
      BY <1>12, <2>3, <3>1 DEF WillShow
    <3> QED
      BY <2>3, <3>1, <3>2 DEF WillShow
  <2> QED
    BY <2>1, <2>2, <2>3
<1> QED
  BY <1>2, <1>4, <1>9, <1>11, <1>12, LInvKeeps

\* The pending operation of contact j is freed: what was wanted has been asked for.
LEMMA ForgetShows ==
  ASSUME RInv, LInv, completing # None, Forget(completing.jid),
         completing.list = "flying" => pending[completing.jid].waiting = <<>>,
         UNCHANGED <<calls, toClient, server, others, rejects, faults>>
  PROVE  LInv'
<1>1. PICK j : j = completing.jid
  OBVIOUS
<1>2. /\ pending' = [pending EXCEPT ![j] = None] /\ completing' = None /\ toServer' = toServer
      /\ UNCHANGED <<calls, toClient, server, others, rejects, faults>>
  BY <1>1 DEF Forget
<1>3. /\ fetched /\ j \in Jids /\ pending[j] # None /\ IsCompleting(j)
      /\ completing.list \in {"flying", "waiting"}
  BY <1>1, CompletingFacts
<1>4. Sorts /\ pending \in [Jids -> Pendings \cup {None}]
  BY Facts DEF RInv
<1>5. \A k \in Jids : pending'[k] = IF k = j THEN None ELSE pending[k]
  BY <1>2, <1>4
<1>6. ASSUME NEW k \in Jids, k # j
      PROVE  Spared(k)
  <2>1. SameAsks(toServer, toServer', k)
    BY <1>2, <1>4, SameAsksIs DEF Sorts
  <2>2. ~FinishesWaiting(k) /\ ~FinishesWaiting(k)'
    BY <1>1, <1>2, <1>6 DEF FinishesWaiting, IsCompleting
  <2> QED
    BY <1>2, <1>5, <1>6, <2>1, <2>2 DEF Spared
<1>7. ASSUME Undisturbed, NEW e \in Edits, WillShow(e, j)
      PROVE  WillShow(e, j)'
  <2>1. NoIq(toServer, toClient, j)
    BY <1>3, <1>7, SettledIs
  <2>2. CASE pending[j].waiting = <<>>
    <3>1. Shows(e, server[j])
      BY <1>3, <1>7, <2>1, <2>2 DEF WillShow, NoIq
    <3> QED
      BY <1>2, <1>3, <1>5, <3>1 DEF WillShow
  <2>3. CASE pending[j].waiting # <<>>
    <3>1. FinishesWaiting(j)
      BY <1>1, <1>3, <2>3 DEF FinishesWaiting
    <3>2. Shows(e, server[j])
      BY <1>3, <1>7, <2>3, <3>1 DEF WillShow
    <3> QED
      BY <1>2, <1>3, <1>5, <3>2 DEF WillShow
  <2> QED
    BY <2>2, <2>3
<1>8. Undisturbed => \A k \in Jids, e \in Edits : WillShow(e, k) => WillShow(e, k)'
  BY <1>6, <1>7, WillShowStill
<1>9. Undisturbed => \A k \in Jids : Removes(toServer', server'[k], k)
  BY <1>2 DEF LInv, RemovesSomething
<1>10. Undisturbed => PushIsAnswered(toClient')
  BY <1>2 DEF LInv
<1> QED
  BY <1>2, <1>4, <1>8, <1>9, <1>10, LInvKeeps

LEMMA WaitingCompletedShows ==
  ASSUME RInv, LInv, WaitingCompleted
  PROVE  LInv'
<1>1. /\ completing # None /\ completing.list = "waiting" /\ Forget(completing.jid)
      /\ UNCHANGED <<calls, toClient, server, others, rejects, faults>>
  BY DEF WaitingCompleted, Completed, worldVars
<1> QED
  BY <1>1, ForgetShows

LEMMA FlyingCompletedShows ==
  ASSUME RInv, LInv, FlyingCompleted
  PROVE  LInv'
<1>1. PICK j, p : j = completing.jid /\ p = pending[j]
  OBVIOUS
<1>2. /\ completing # None /\ completing.list = "flying"
      /\ UNCHANGED <<calls, toClient, server, others, rejects, faults>>
  BY DEF FlyingCompleted, Completed, worldVars
<1>3. fetched /\ j \in Jids /\ p \in Pendings /\ p # None /\ IsCompleting(j)
  BY <1>1, <1>2, CompletingFacts
<1>4. /\ Sorts /\ pending \in [Jids -> Pendings \cup {None}] /\ items[j] \in MaybeItems
      /\ toServer \in Seq(Requests)
  BY <1>3, Facts DEF RInv
<1>5. CASE p.waiting = <<>>
  <2>1. Forget(completing.jid)
    BY <1>1, <1>5 DEF FlyingCompleted
  <2> QED
    BY <1>1, <1>2, <1>5, <2>1, ForgetShows
<1>6. Undisturbed => PushIsAnswered(toClient')
  BY <1>2 DEF LInv
<1>7. \A k \in Jids : ~FinishesWaiting(k)
  BY <1>2 DEF FinishesWaiting
<1>8. Undisturbed => items[j] = server[j] /\ NoIq(toServer, toClient, j)
  BY <1>3, SettledIs
<1>9. ASSUME p.waiting # <<>>, NEW e \in Edits, Undisturbed, WillShow(e, j)
      PROVE  \A i \in MaybeItems : Shows(e, Final(p, i))
  BY <1>1, <1>3, <1>7, <1>9 DEF WillShow
<1>10. CASE p.waiting # <<>> /\ NeedsIq(p, items[j])
  <2>1. PICK q, c, i, r : q = PendingReset(p) /\ c = Head(p.waiting) /\ i = Wanted(p, items[j])
                          /\ r = IqOf(j, c, i)
    OBVIOUS
  <2>2. /\ pending' = [pending EXCEPT ![j] = q] /\ completing' = None
        /\ toServer' = Append(toServer, r)
    BY <1>1, <1>10, <2>1 DEF FlyingCompleted, SendIq, IqOf
  <2>3. q.waiting = <<>> /\ q # None
    BY <1>3, <2>1, PendingResetIs, Constants
  <2>4. c \in Calls /\ i \in MaybeItems
    <3>1. p.waiting \in Seq(Calls)
      BY <1>3, PendingIs
    <3> QED
      BY <1>3, <1>4, <1>10, <2>1, <3>1, TailIs, WantedIs
  <2>5. r \in Requests /\ r.item = i /\ \A k : Asks(r, k) <=> k = j
    BY <1>3, <2>1, <2>4, IqIs
  <2>6. \A k \in Jids : pending'[k] = IF k = j THEN q ELSE pending[k]
    BY <1>4, <2>2
  <2>7. ASSUME NEW k \in Jids, k # j
        PROVE  Spared(k)
    <3>1. SameAsks(toServer, toServer', k)
      BY <1>4, <2>2, <2>5, <2>7, SameAsksIs
    <3>2. ~FinishesWaiting(k)'
      BY <2>2 DEF FinishesWaiting, IsCompleting
    <3> QED
      BY <1>2, <1>7, <2>6, <2>7, <3>1, <3>2 DEF Spared
  <2>8. /\ \A n \in 1 .. Len(toServer) : toServer'[n] = toServer[n]
        /\ \A n \in 1 .. Len(toServer') : n = Len(toServer) + 1 \/ n \in 1 .. Len(toServer)
        /\ toServer'[Len(toServer) + 1] = r /\ Len(toServer) + 1 \in 1 .. Len(toServer')
    BY <1>4, <2>2, <2>5, AppendIs
  <2>9. i # items[j] /\ ~Vanished(p, items[j])
    BY <1>10, <2>1 DEF NeedsIq
  <2>10. ASSUME Undisturbed, NEW n \in 1 .. Len(toServer'), Asks(toServer'[n], j)
         PROVE  toServer'[n] = r
    BY <1>8, <2>8, <2>10 DEF NoIq
  <2>11. ASSUME Undisturbed, NEW e \in Edits, WillShow(e, j)
         PROVE  WillShow(e, j)'
    <3>1. Shows(e, i)
      <4>1. Final(p, items[j]) = i
        BY <2>1, <2>9 DEF Final
      <4> QED
        BY <1>4, <1>9, <1>10, <2>11, <4>1
    <3>2. \A n \in 1 .. Len(toServer') : Asks(toServer'[n], j) => Shows(e, toServer'[n].item)
      BY <2>5, <2>10, <2>11, <3>1
    <3>3. ~ \A n \in 1 .. Len(toServer') : ~Asks(toServer'[n], j)
      BY <2>5, <2>8
    <3>4. pending'[j] = q
      BY <1>3, <2>6
    <3> QED
      BY <2>3, <3>2, <3>3, <3>4 DEF WillShow
  <2>12. Undisturbed => \A k \in Jids, e \in Edits : WillShow(e, k) => WillShow(e, k)'
    BY <2>7, <2>11, WillShowStill
  <2>13. ASSUME Undisturbed, NEW k \in Jids
         PROVE  Removes(toServer', server'[k], k)
    <3>1. CASE k = j
      <4>1. i = None => server[j] # None
        BY <1>8, <2>9, <2>13
      <4> QED
        BY <1>2, <2>5, <2>10, <2>13, <3>1, <4>1 DEF Removes
    <3>2. CASE k # j
      <4>1. PICK s : s = server[k]
        OBVIOUS
      <4>2. Removes(toServer, s, k) /\ server'[k] = s /\ SameAsks(toServer, toServer', k)
        BY <2>7, <2>13, <3>2, <4>1 DEF LInv, RemovesSomething, Spared
      <4> QED
        BY <4>2, RemovesAsBefore
    <3> QED
      BY <3>1, <3>2
  <2> QED
    BY <1>2, <1>4, <1>6, <2>12, <2>13, LInvKeeps
<1>11. CASE p.waiting # <<>> /\ ~NeedsIq(p, items[j])
  <2>1. PICK err : err = IF Vanished(p, items[j]) THEN Range(p.waiting) ELSE {}
    OBVIOUS
  <2>2. /\ completing' = [jid |-> j, list |-> "waiting", next |-> 1, error |-> err]
        /\ UNCHANGED <<pending, toServer>>
    BY <1>1, <1>11, <2>1 DEF FlyingCompleted
  <2>3. err \subseteq Calls
    <3>1. p.waiting \in Seq(Calls)
      BY <1>3, PendingIs
    <3> QED
      BY <2>1, <3>1 DEF Range
  <2>4. completing' # None /\ completing'.jid = j /\ completing'.list = "waiting"
    <3>1. completing' \in Completions
      BY <1>3, <2>2, <2>3 DEF Completions
    <3> QED
      BY <2>2, <3>1, Constants
  <2>5. ASSUME NEW k \in Jids, k # j
        PROVE  Spared(k)
    <3>1. ~FinishesWaiting(k)'
      BY <2>4, <2>5 DEF FinishesWaiting, IsCompleting
    <3>2. SameAsks(toServer, toServer', k)
      BY <1>4, <2>2, SameAsksIs
    <3> QED
      BY <1>2, <1>7, <2>2, <3>1, <3>2 DEF Spared
  <2>6. ASSUME Undisturbed, NEW e \in Edits, WillShow(e, j)
        PROVE  WillShow(e, j)'
    <3>1. Final(p, items[j]) = items[j]
      BY <1>11 DEF NeedsIq, Final
    <3>2. Shows(e, server[j])
      BY <1>4, <1>8, <1>9, <1>11, <2>6, <3>1
    <3>3. FinishesWaiting(j)'
      BY <2>4 DEF FinishesWaiting, IsCompleting
    <3>4. pending'[j] = p /\ server'[j] = server[j]
      BY <1>1, <1>2, <2>2
    <3> QED
      BY <1>3, <1>11, <3>2, <3>3, <3>4 DEF WillShow
  <2>7. Undisturbed => \A k \in Jids, e \in Edits : WillShow(e, k) => WillShow(e, k)'
    BY <2>5, <2>6, WillShowStill
  <2>8. Undisturbed => \A k \in Jids : Removes(toServer', server'[k], k)
    BY <1>2, <2>2 DEF LInv, RemovesSomething
  <2> QED
    BY <1>2, <1>4, <1>6, <2>7, <2>8, LInvKeeps
<1> QED
  BY <1>5, <1>10, <1>11

\* A disturbance is one for good.
LEMMA DisturbedShows ==
  ASSUME RInv, LInv,
         ServerRejects \/ (\E j \in Jids : IqFails(j))
           \/ \E j \in Jids, item \in MaybeItems : OtherClientEdits(j, item)
  PROVE  LInv'
<1>1. others \in Nat /\ rejects \in Nat /\ faults \in Nat
  BY DEF RInv, Sorts, TypeOK
<1>2. CASE \E j \in Jids : IqFails(j)
  <2>1. faults' = faults + 1
    BY <1>2 DEF IqFails
  <2> QED
    BY <1>1, <2>1 DEF LInv, Undisturbed
<1>3. CASE \E j \in Jids, item \in MaybeItems : OtherClientEdits(j, item)
  <2>1. others' = others + 1
    BY <1>3 DEF OtherClientEdits
  <2> QED
    BY <1>1, <2>1 DEF LInv, Undisturbed
<1>4. CASE ServerRejects
  <2>1. PICK r : r = Head(toServer)
    OBVIOUS
  <2>2. /\ toServer # <<>> /\ r.iq # Fetch /\ UNCHANGED <<others, faults>>
        /\ IF r.item = None /\ server[r.jid] = None THEN UNCHANGED rejects ELSE rejects' = rejects + 1
    BY <1>4, <2>1 DEF ServerRejects, clientVars
  <2>3. CASE r.item = None /\ server[r.jid] = None
    <3>1. r.jid \in Jids /\ r = toServer[1] /\ 1 \in 1 .. Len(toServer) /\ Asks(r, r.jid)
      BY <2>1, <2>2, ServedFacts
    <3>2. ~RemovesSomething
      BY <2>3, <3>1 DEF RemovesSomething, Removes
    <3> QED
      BY <2>2, <2>3, <3>2 DEF LInv, Undisturbed
  <2>4. CASE ~(r.item = None /\ server[r.jid] = None)
    BY <1>1, <2>2, <2>4 DEF LInv, Undisturbed
  <2> QED
    BY <2>3, <2>4
<1> QED
  BY <1>2, <1>3, <1>4

\* A new edit is the last one of its contact, and the last ones of the others are still so.
LEMMA EditShows ==
  ASSUME "waiting" \notin Reentrant, RInv, LInv, NEW e \in Edits, Edit(e)
  PROVE  LInv'
<1>1. PICK j, p, c : j = e.jid /\ p = pending[j] /\ c = Len(calls) + 1
  OBVIOUS
<1>2. /\ MayCall /\ fetched /\ Len(calls) < MaxCalls /\ calls' = Append(calls, e)
      /\ UNCHANGED <<items, completing, toClient, server, others, rejects, faults>>
  BY DEF Edit, worldVars
<1>3. /\ Sorts /\ AllTracked /\ toServer \in Seq(Requests) /\ calls \in Seq(Edits) /\ Len(calls) \in Nat
      /\ pending \in [Jids -> Pendings \cup {None}]
      /\ j \in Jids /\ items[j] \in MaybeItems /\ (p # None => p \in Pendings)
      /\ server \in [Jids -> MaybeItems]
  BY <1>1, EditIs, Facts DEF RInv
<1>4. /\ \A k \in Jids : ~FinishesWaiting(k) /\ ~FinishesWaiting(k)'
  <2>1. completing # None => completing.list # "waiting"
    BY <1>2 DEF MayCall
  <2> QED
    BY <1>2, <2>1 DEF FinishesWaiting, IsCompleting
<1>5. p = None /\ Undisturbed => items[j] = server[j] /\ NoIq(toServer, toClient, j)
  BY <1>1, <1>2, <1>3, SettledIs
<1>6. c \in Calls
  BY <1>1, <1>2, <1>3, RosterAssumption DEF Calls
<1>7. /\ \A d \in 1 .. Len(calls) : calls'[d] = calls[d] /\ d \in 1 .. Len(calls') /\ d # c
      /\ \A d \in 1 .. Len(calls') : d = c \/ d \in 1 .. Len(calls)
      /\ calls'[c] = e /\ c \in 1 .. Len(calls') /\ c \in Nat
      /\ DOMAIN calls = 1 .. Len(calls) /\ DOMAIN calls' = 1 .. Len(calls')
  BY <1>1, <1>2, <1>3, AppendIs
<1>8. ASSUME NEW d \in 1 .. Len(calls), IsLast(d)'
      PROVE  IsLast(d) /\ calls[d].jid # j
  <2>1. c > d /\ d \in Nat
    BY <1>1, <1>3
  <2>2. \A b \in 1 .. Len(calls') : b > d => calls'[b].jid # calls'[d].jid
    BY <1>7, <1>8 DEF IsLast
  <2>3. calls'[c].jid # calls'[d].jid
    BY <1>7, <2>1, <2>2
  <2>4. calls[d].jid # j
    BY <1>1, <1>7, <2>3
  <2>5. \A b \in 1 .. Len(calls) : b > d => calls[b].jid # calls[d].jid
    BY <1>7, <2>2
  <2> QED
    BY <1>7, <2>4, <2>5 DEF IsLast
\* It is enough that the new edit will show.
<1>9. ASSUME Undisturbed => WillShow(e, j)', \A k \in Jids : k # j => Spared(k),
             Undisturbed => Removes(toServer', server'[j], j)
      PROVE  LInv'
  <2>1. SUFFICES ASSUME Undisturbed
                 PROVE  /\ PushIsAnswered(toClient') /\ RemovesSomething'
                        /\ \A d \in 1 .. Len(calls') : IsLast(d)' => WillShow(calls[d], calls[d].jid)'
    BY <1>2 DEF LInv, Undisturbed
  <2>2. PushIsAnswered(toClient')
    BY <1>2, <2>1 DEF LInv
  <2>3. ASSUME NEW k \in Jids
        PROVE  Removes(toServer', server'[k], k)
    <3>1. CASE k = j
      BY <1>9, <2>1, <3>1
    <3>2. CASE k # j
      <4>1. PICK s : s = server[k]
        OBVIOUS
      <4>2. Removes(toServer, s, k) /\ server'[k] = s /\ SameAsks(toServer, toServer', k)
        BY <1>9, <2>1, <3>2, <4>1 DEF LInv, RemovesSomething, Spared
      <4> QED
        BY <4>2, RemovesAsBefore
    <3> QED
      BY <3>1, <3>2
  <2>4. ASSUME NEW d \in 1 .. Len(calls'), IsLast(d)'
        PROVE  \E x \in Edits, k \in Jids : calls'[d] = x /\ x.jid = k /\ WillShow(x, k)'
    <3>1. CASE d = c
      BY <1>1, <1>3, <1>7, <1>9, <2>1, <3>1
    <3>2. CASE d \in 1 .. Len(calls)
      <4>1. PICK x, k : x = calls[d] /\ k = x.jid
        OBVIOUS
      <4>2. x \in Edits /\ k \in Jids /\ k # j /\ IsLast(d) /\ calls'[d] = x
        BY <1>3, <1>7, <1>8, <2>4, <3>2, <4>1, EditIs
      <4>3. WillShow(x, k)
        BY <2>1, <3>2, <4>1, <4>2 DEF LInv
      <4>4. WillShow(x, k)'
        BY <1>9, <4>2, <4>3, WillShowStill
      <4> QED
        BY <4>1, <4>2, <4>4
    <3> QED
      BY <1>7, <3>1, <3>2
  <2>5. ASSUME NEW d \in 1 .. Len(calls'), IsLast(d)'
        PROVE  WillShow(calls[d], calls[d].jid)'
    <3>1. PICK x \in Edits, k \in Jids : calls'[d] = x /\ x.jid = k /\ WillShow(x, k)'
      BY <2>4, <2>5
    <3> QED
      BY <3>1 DEF WillShow
  <2> QED
    BY <2>2, <2>3, <2>5 DEF RemovesSomething
<1>10. CASE p # None
  <2>1. PICK q : q = Merge(c, e, p)
    OBVIOUS
  <2>2. pending' = [pending EXCEPT ![j] = q] /\ toServer' = toServer
    BY <1>1, <1>10, <2>1 DEF Edit
  <2>3. q \in Pendings /\ q.waiting = Append(p.waiting, c) /\ \A i \in MaybeItems : Shows(e, Final(q, i))
    BY <1>3, <1>6, <1>10, <2>1, MergeIs
  <2>4. q.waiting # <<>> /\ q # None
    <3>1. p.waiting \in Seq(Calls)
      BY <1>3, <1>10, PendingIs
    <3>2. PICK w : w = p.waiting
      OBVIOUS
    <3>3. Append(w, c) # <<>>
      BY <1>6, <3>1, <3>2
    <3> QED
      BY <2>3, <3>2, <3>3, Constants
  <2>5. \A k \in Jids : pending'[k] = IF k = j THEN q ELSE pending[k]
    BY <1>3, <2>2
  <2>6. WillShow(e, j)'
    BY <1>3, <1>4, <2>3, <2>4, <2>5 DEF WillShow
  <2>7. \A k \in Jids : k # j => Spared(k)
    BY <1>2, <1>3, <1>4, <2>2, <2>5, SameAsksIs DEF Spared
  <2>8. Undisturbed => Removes(toServer', server'[j], j)
    BY <1>2, <1>3, <2>2 DEF LInv, RemovesSomething
  <2> QED
    BY <1>9, <2>6, <2>7, <2>8
<1>11. CASE p = None /\ Immediate(e) # None
  <2>1. UNCHANGED <<pending, toServer>>
    BY <1>1, <1>11 DEF Edit
  <2>2. Shows(e, items[j])
    BY <1>1, <1>3, <1>11, ImmediateShows
  <2>3. Undisturbed => WillShow(e, j)'
    BY <1>1, <1>2, <1>5, <1>11, <2>1, <2>2 DEF WillShow
  <2>4. \A k \in Jids : k # j => Spared(k)
    BY <1>2, <1>3, <1>4, <2>1, SameAsksIs DEF Spared
  <2>5. Undisturbed => Removes(toServer', server'[j], j)
    BY <1>2, <1>3, <2>1 DEF LInv, RemovesSomething
  <2> QED
    BY <1>9, <2>3, <2>4, <2>5
<1>12. CASE p = None /\ Immediate(e) = None
  <2>1. PICK i, q, r : i = Edited(e, items[j]) /\ q = NewPending(c) /\ r = IqOf(j, c, i)
    OBVIOUS
  <2>2. pending' = [pending EXCEPT ![j] = q] /\ toServer' = Append(toServer, r)
    BY <1>1, <1>12, <2>1 DEF Edit, SendIq, IqOf
  <2>3. i \in MaybeItems /\ Shows(e, i) /\ (i = None => items[j] # None)
    BY <1>1, <1>3, <1>12, <2>1, AsksForItem
  <2>4. q.waiting = <<>> /\ q # None
    BY <1>6, <2>1, NewPendingIs, Constants
  <2>5. r \in Requests /\ r.item = i /\ \A k : Asks(r, k) <=> k = j
    BY <1>3, <1>6, <2>1, <2>3, IqIs
  <2>6. \A k \in Jids : pending'[k] = IF k = j THEN q ELSE pending[k]
    BY <1>3, <2>2
  <2>7. /\ \A n \in 1 .. Len(toServer) : toServer'[n] = toServer[n]
        /\ \A n \in 1 .. Len(toServer') : n = Len(toServer) + 1 \/ n \in 1 .. Len(toServer)
        /\ toServer'[Len(toServer) + 1] = r /\ Len(toServer) + 1 \in 1 .. Len(toServer')
    BY <1>3, <2>2, <2>5, AppendIs
  <2>8. ASSUME Undisturbed, NEW n \in 1 .. Len(toServer'), Asks(toServer'[n], j)
        PROVE  toServer'[n] = r
    BY <1>5, <1>12, <2>7, <2>8 DEF NoIq
  <2>9. ASSUME Undisturbed
        PROVE  WillShow(e, j)'
    <3>1. \A n \in 1 .. Len(toServer') : Asks(toServer'[n], j) => Shows(e, toServer'[n].item)
      BY <2>3, <2>5, <2>8, <2>9
    <3>2. ~ \A n \in 1 .. Len(toServer') : ~Asks(toServer'[n], j)
      BY <2>5, <2>7
    <3>3. pending'[j] = q
      BY <1>3, <2>6
    <3> QED
      BY <2>4, <3>1, <3>2, <3>3 DEF WillShow
  <2>10. \A k \in Jids : k # j => Spared(k)
    <3>1. ASSUME NEW k \in Jids, k # j
          PROVE  Spared(k)
      <4>1. SameAsks(toServer, toServer', k)
        BY <1>3, <2>2, <2>5, <3>1, SameAsksIs
      <4> QED
        BY <1>2, <1>4, <2>6, <3>1, <4>1 DEF Spared
    <3> QED
      BY <3>1
  <2>11. ASSUME Undisturbed
         PROVE  Removes(toServer', server'[j], j)
    <3>1. i = None => server[j] # None
      BY <1>5, <1>12, <2>3, <2>11
    <3> QED
      BY <1>2, <2>5, <2>8, <2>11, <3>1 DEF Removes
  <2> QED
    BY <1>9, <2>9, <2>10, <2>11
<1> QED
  BY <1>10, <1>11, <1>12

LEMMA LInvInit == Init => LInv
BY DEF Init, LInv, PushIsAnswered, RemovesSomething, Removes

LEMMA LInvStutters ==
  ASSUME LInv, UNCHANGED vars
  PROVE  LInv'
<1>1. UNCHANGED <<pending, completing, calls, toServer, toClient, server, others, rejects, faults>>
  BY DEF vars, clientVars, worldVars
<1> QED
  BY <1>1 DEF LInv, Undisturbed, RemovesSomething, IsLast, WillShow, FinishesWaiting, IsCompleting

LEMMA LInvKept ==
  ASSUME "waiting" \notin Reentrant
  PROVE  RInv /\ LInv /\ [Next]_vars => LInv'
<1> SUFFICES ASSUME RInv, LInv, [Next]_vars PROVE LInv'
  OBVIOUS
<1>1. ASSUME NEW e \in Edits, Edit(e) PROVE LInv'
  BY <1>1, EditShows
<1>2. ASSUME NEW j \in Jids, NEW n \in Names \cup {None}, NEW gs \in SUBSET Groups, AddContact(j, n, gs)
      PROVE  LInv'
  BY <1>1, <1>2, EditSteps
<1>3. ASSUME NEW j \in Jids, RemoveContact(j) PROVE LInv'
  BY <1>1, <1>3, EditSteps
<1>4. ASSUME NEW j \in Jids, NEW n \in Names, ChangeContactName(j, n) PROVE LInv'
  BY <1>1, <1>4, EditSteps
<1>5. ASSUME NEW j \in Jids, NEW g \in Groups, ContactAddGroup(j, g) PROVE LInv'
  BY <1>1, <1>5, EditSteps
<1>6. ASSUME NEW j \in Jids, NEW g \in Groups, ContactRemoveGroup(j, g) PROVE LInv'
  BY <1>1, <1>6, EditSteps
<1>7. ASSUME NEW j \in Jids, IqFails(j) PROVE LInv'
  BY <1>7, DisturbedShows
<1>8. ASSUME NEW j \in Jids, NEW item \in Items \cup {None}, OtherClientEdits(j, item) PROVE LInv'
  BY <1>8, DisturbedShows DEF MaybeItems
<1>9. CASE UNCHANGED vars
  BY <1>9, LInvStutters
<1>10. CASE ServerRejects
  BY <1>10, DisturbedShows
<1> QED
  BY <1>2, <1>3, <1>4, <1>5, <1>6, <1>7, <1>8, <1>9, <1>10, CompleteNextShows, FlyingCompletedShows,
     WaitingCompletedShows, ReceiveReplyShows, ReceiveNewsShows, FetchRosterShows, ServerFetchShows,
     ServerAcceptsShows DEF Next

LEMMA LastOnesShow == RInv /\ LInv => LastEditShows
<1> SUFFICES ASSUME RInv, LInv, Undisturbed, NEW c \in DOMAIN calls, IsLast(c),
                    pending[calls[c].jid] = None
             PROVE  Shows(calls[c], server[calls[c].jid])
  BY DEF LastEditShows
<1>1. c \in 1 .. Len(calls)
  BY Facts DEF RInv
<1> QED
  BY <1>1 DEF LInv, WillShow

\* However many edits are merged while IQs are under way or fail, each is answered once, for it is held
\* once until it is, and no second IQ for a contact is sent before the reply to the one under way
\* (pending_operation_reset, flying_operation_completed).
THEOREM NoEditIsLost == Spec => [](CallsAreTracked /\ OneIqPerContact)
<1>1. RInv => CallsAreTracked /\ OneIqPerContact
  BY AllHeldOnce, OneIqIs
<1> QED
  BY <1>1, RInvInit, RInvKept, PTL DEF Spec

\* The edits of a contact are merged without losing a caller, a wish or the order of the IQs, if the
\* callbacks of edits that were merged in vain ask for no more: flying_operation_completed calls them
\* back before it frees the operation, and forgets what they ask for.
THEOREM EditsStayTracked ==
  ASSUME "waiting" \notin Reentrant
  PROVE  Spec => []EditsAreTracked
<1>1. RInv /\ LInv => EditsAreTracked
  BY AllHeldOnce, OneIqIs, LastOnesShow DEF EditsAreTracked
<1>2. Init => RInv /\ LInv
  BY RInvInit, LInvInit
<1>3. RInv /\ LInv /\ [Next]_vars => RInv' /\ LInv'
  BY RInvKept, LInvKept
<1> QED
  BY <1>1, <1>2, <1>3, PTL DEF Spec
=============================================================================
