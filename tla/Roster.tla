------------------------------- MODULE Roster -------------------------------
(***************************************************************************)
(* The contact list of wocky-roster.c: the copy of the server's roster,    *)
(* kept by pushes, and the edits, of which one IQ at a time flies for each *)
(* contact while later ones are merged in its PendingOperation.  The       *)
(* server and the other clients of the account are external; the porter    *)
(* delivers in order and answers every IQ.                                 *)
(*                                                                         *)
(* Operators named M_... are slips a maintainer could make in the          *)
(* definition that follows them; no property uses them.                    *)
(***************************************************************************)
EXTENDS Naturals, Sequences, SequencesExt, FiniteSets

CONSTANTS None, Jids, Names, Groups, Subs,
  MaxCalls,       \* edits the application asks for
  Reentrant,      \* the lists whose callbacks ask for more edits
  MaxDisturbances \* edits made by the account's other clients, edits the server refuses
                  \* and IQs the porter answers itself, in all

ASSUME RosterAssumption ==
  /\ None \notin Names \cup Groups \cup Jids \cup {"ok", "error", "add", "remove"}
  /\ "none" \in Subs /\ Reentrant \subseteq {"flying", "waiting"}
  /\ MaxCalls \in Nat /\ MaxDisturbances \in Nat

VARIABLES
  items,          \* priv->items: what the application sees of each contact
  pending,        \* priv->pending_operations
  fetching,       \* priv->fetch_result # NULL
  fetched,        \* a fetch has succeeded
  completing,     \* the callbacks a reply is running
  calls, answer,  \* the edits asked for, in order, and their answers
  toServer, toClient, server, interested,
  others, rejects, faults

clientVars == <<items, pending, fetching, fetched, completing, calls, answer>>
worldVars == <<server, interested, others, rejects>>
vars == <<clientVars, toServer, toClient, worldVars, faults>>

Edits ==
  [kind : {"add"}, jid : Jids, name : Names \cup {None}, groups : SUBSET Groups]
  \cup [kind : {"remove"}, jid : Jids]
  \cup [kind : {"name"}, jid : Jids, name : Names]
  \cup [kind : {"join", "leave"}, jid : Jids, group : Groups]

Items == [name : Names \cup {None}, groups : SUBSET Groups, sub : Subs]
Calls == 1..MaxCalls
Fetch == 0        \* stands for the IQ of a fetch where the number of an edit does for the others
NewItem == [name |-> None, groups |-> {}, sub |-> "none"]

\* What a PendingOperation holds: the results the IQ under way will answer, those of the edits asked
\* for meanwhile, and these edits, merged; "presence" stands for add_contact and remove_contact.
Pendings ==
  [flying : Seq(Calls), waiting : Seq(Calls), name : Names \cup {None},
   groupsToAdd : SUBSET Groups, groupsToRemove : SUBSET Groups,
   presence : {None, "add", "remove"}]

\* A reply that is calling back the edits of a list, as far as the one before "next"
Completions == [jid : Jids, list : {"flying", "waiting"}, next : Nat, error : SUBSET Calls]

\* None is a value of its own.
ASSUME NoneAssumption == None \notin Items \cup Pendings \cup Completions

NewPending(c) ==
  [flying |-> <<c>>, waiting |-> <<>>, name |-> None,
   groupsToAdd |-> {}, groupsToRemove |-> {}, presence |-> None]

TypeOK ==
  /\ items \in [Jids -> Items \cup {None}]
  /\ pending \in [Jids -> Pendings \cup {None}]
  /\ \A j \in Jids : pending[j] # None => pending[j].flying # <<>>
  /\ fetching \in BOOLEAN /\ fetched \in BOOLEAN /\ interested \in BOOLEAN
  /\ completing \in Completions \cup {None}
  /\ calls \in Seq(Edits) /\ Len(calls) <= MaxCalls
  /\ answer \in Seq({None, "ok", "error"}) /\ Len(answer) = Len(calls)
  /\ server \in [Jids -> Items \cup {None}]
  /\ others \in Nat /\ rejects \in Nat /\ faults \in Nat
  /\ others + rejects + faults <= MaxDisturbances

Init ==
  /\ items = [j \in Jids |-> None]
  /\ pending = [j \in Jids |-> None]
  /\ fetching = FALSE /\ fetched = FALSE /\ interested = FALSE
  /\ completing = None
  /\ calls = <<>> /\ answer = <<>>
  /\ toServer = <<>> /\ toClient = <<>>
  /\ server \in [Jids -> {None, NewItem}]
  /\ others = 0 /\ rejects = 0 /\ faults = 0

-----------------------------------------------------------------------------
(* Edits *)

SetName(i, n) == [i EXCEPT !.name = n]
AddGroups(i, gs) == [i EXCEPT !.groups = @ \cup gs]
RemoveGroups(i, gs) == [i EXCEPT !.groups = @ \ gs]

\* The item an edit leaves of item i: what the IQ asks the server for when nothing is pending.
Edited(e, i) ==
  CASE e.kind = "add"    -> [NewItem EXCEPT !.name = e.name, !.groups = e.groups]
    [] e.kind = "remove" -> None
    [] e.kind = "name"   -> SetName(i, e.name)
    [] e.kind = "join"   -> AddGroups(i, {e.group})
    [] e.kind = "leave"  -> RemoveGroups(i, {e.group})

M_KeepLeaving(e, p) ==
  CASE e.kind = "add" ->
         [p EXCEPT !.name = e.name, !.groupsToAdd = e.groups, !.groupsToRemove = {}, !.presence = "add"]
    [] e.kind = "remove" -> [p EXCEPT !.presence = "remove"]
    [] e.kind = "name" -> [p EXCEPT !.name = e.name]
    [] e.kind = "join" -> [p EXCEPT !.groupsToAdd = @ \cup {e.group}]
    [] e.kind = "leave" -> [p EXCEPT !.groupsToRemove = @ \cup {e.group}]

\* An edit asked for while an IQ is under way is merged with those already waiting.
MergeChange(e, p) ==
  CASE e.kind = "add" ->
         [p EXCEPT !.name = e.name, !.groupsToAdd = e.groups, !.groupsToRemove = {}, !.presence = "add"]
    [] e.kind = "remove" -> [p EXCEPT !.presence = "remove"]
    [] e.kind = "name" -> [p EXCEPT !.name = e.name]
    [] e.kind = "join" ->
         [p EXCEPT !.groupsToAdd = @ \cup {e.group}, !.groupsToRemove = @ \ {e.group}]
    [] e.kind = "leave" ->
         [p EXCEPT !.groupsToRemove = @ \cup {e.group}, !.groupsToAdd = @ \ {e.group}]

M_ForgetResult(c, e, p) == MergeChange(e, p)
Merge(c, e, p) == [MergeChange(e, p) EXCEPT !.waiting = Append(@, c)]

\* The answer given at once to an edit of a contact with nothing pending, None if an IQ is needed.
Immediate(e) ==
  LET i == items[e.jid]
  IN CASE e.kind = "remove" /\ i = None -> "ok"
       [] e.kind \in {"name", "join", "leave"} /\ i = None -> "error"
       [] OTHER -> IF Edited(e, i) = i THEN "ok" ELSE None

SendIq(j, c, item) == toServer' = Append(toServer, [jid |-> j, iq |-> c, item |-> item])

\* The application acts from the main loop and from the callbacks of its edits.
MayCall == completing # None => completing.next > 1 /\ completing.list \in Reentrant

\* What the five edits have in common.  An answer given from an idle source is shown at once: the
\* roster does not look at it again.
Edit(e) ==
  /\ MayCall /\ fetched
  /\ Len(calls) < MaxCalls
  /\ calls' = Append(calls, e)
  /\ LET c == Len(calls) + 1
     IN IF pending[e.jid] # None
        THEN /\ pending' = [pending EXCEPT ![e.jid] = Merge(c, e, @)]
             /\ answer' = Append(answer, None)
             /\ UNCHANGED toServer
        ELSE IF Immediate(e) # None
        THEN /\ answer' = Append(answer, Immediate(e))
             /\ UNCHANGED <<pending, toServer>>
        ELSE /\ pending' = [pending EXCEPT ![e.jid] = NewPending(c)]
             /\ SendIq(e.jid, c, Edited(e, items[e.jid]))
             /\ answer' = Append(answer, None)
  /\ UNCHANGED <<items, fetching, fetched, completing, toClient, worldVars, faults>>

AddContact(j, n, gs) == Edit([kind |-> "add", jid |-> j, name |-> n, groups |-> gs])
RemoveContact(j) == Edit([kind |-> "remove", jid |-> j])
ChangeContactName(j, n) == Edit([kind |-> "name", jid |-> j, name |-> n])
ContactAddGroup(j, g) == Edit([kind |-> "join", jid |-> j, group |-> g])
ContactRemoveGroup(j, g) == Edit([kind |-> "leave", jid |-> j, group |-> g])

-----------------------------------------------------------------------------
(* Replies *)

\* What the merged edits make of a contact.
Changed(p, i) ==
  LET from == IF i = None THEN NewItem ELSE i
      named == IF p.name # None THEN SetName(from, p.name) ELSE from
  IN RemoveGroups(AddGroups(named, p.groupsToAdd), p.groupsToRemove)

\* build_iq_for_pending.
Wanted(p, i) == IF p.presence = "remove" THEN None ELSE Changed(p, i)
Vanished(p, i) == i = None /\ p.presence = None
NeedsIq(p, i) == ~Vanished(p, i) /\ Wanted(p, i) # i

\* The edits that fly next take their IQ with them; what they ask for stays stored.
PendingReset(p) == [p EXCEPT !.flying = p.waiting, !.waiting = <<>>]

\* The end of an IQ is reported to flying_operation_completed, which calls back the edits it carried.
Complete(j, failed) ==
  completing' = [jid |-> j, list |-> "flying", next |-> 1,
                 error |-> IF failed THEN Range(pending[j].flying) ELSE {}]

CompleteNext ==
  /\ completing # None
  /\ LET list == pending[completing.jid][completing.list]
         c == list[completing.next]
     IN /\ completing.next <= Len(list)
        /\ answer' = [answer EXCEPT ![c] = IF c \in completing.error THEN "error" ELSE "ok"]
  /\ completing' = [completing EXCEPT !.next = @ + 1]
  /\ UNCHANGED <<items, pending, fetching, fetched, calls, toServer, toClient, worldVars, faults>>

Completed(list) ==
  completing # None /\ completing.list = list /\ completing.next > Len(pending[completing.jid][list])

Forget(j) ==
  /\ pending' = [pending EXCEPT ![j] = None]
  /\ completing' = None
  /\ UNCHANGED toServer

\* flying_operation_completed once the edits of the IQ have been called back: the waiting edits fly,
\* or are answered as they are if there is nothing to send for them.
FlyingCompleted ==
  /\ Completed("flying")
  /\ LET j == completing.jid
         p == pending[j]
     IN IF p.waiting = <<>>
        THEN Forget(j)
        ELSE IF NeedsIq(p, items[j])
        THEN /\ pending' = [pending EXCEPT ![j] = PendingReset(p)]
             /\ SendIq(j, Head(p.waiting), Wanted(p, items[j]))
             /\ completing' = None
        ELSE /\ completing' = [jid |-> j, list |-> "waiting", next |-> 1,
                               error |-> IF Vanished(p, items[j]) THEN Range(p.waiting) ELSE {}]
             /\ UNCHANGED <<pending, toServer>>
  /\ UNCHANGED <<items, fetching, fetched, calls, answer, toClient, worldVars, faults>>

WaitingCompleted ==
  /\ Completed("waiting")
  /\ Forget(completing.jid)
  /\ UNCHANGED <<items, fetching, fetched, calls, answer, toClient, worldVars, faults>>

\* The porter hands a reply to the IQ it answers; a reply nobody waits for any more is dropped.
IsFlying(j, c) == pending[j] # None /\ Head(pending[j].flying) = c

ReceiveReply ==
  /\ completing = None /\ toClient # <<>>
  /\ LET r == Head(toClient)
     IN /\ r.type \in {"result", "error"}
        /\ IF IsFlying(r.jid, r.iq) THEN Complete(r.jid, r.type = "error") ELSE UNCHANGED completing
  /\ toClient' = Tail(toClient)
  /\ UNCHANGED <<items, pending, fetching, fetched, calls, answer, toServer, worldVars, faults>>

MayDisturb == others + rejects + faults < MaxDisturbances

\* The porter ends an IQ by itself: it was cancelled, or its connection is gone.
IqFails(j) ==
  /\ completing = None /\ MayDisturb
  /\ pending[j] # None
  /\ Complete(j, TRUE)
  /\ faults' = faults + 1
  /\ UNCHANGED <<items, pending, fetching, fetched, calls, answer, toServer, toClient, worldVars>>

\* roster_update: of the contacts a roster query names, those with the subscription "remove" go and the
\* others are created or changed; it says nothing of the contacts it does not name.
M_NeverRemove(named) ==
  [j \in Jids |-> IF j \in DOMAIN named /\ named[j] # None THEN named[j] ELSE items[j]]
RosterUpdate(named) == [j \in Jids |-> IF j \in DOMAIN named THEN named[j] ELSE items[j]]

\* roster_iq_handler_set_cb: the push is applied; its acknowledgement changes nothing here.
ReceivePush ==
  /\ completing = None /\ toClient # <<>>
  /\ LET r == Head(toClient)
     IN r.type = "push" /\ items' = RosterUpdate(r.items)
  /\ toClient' = Tail(toClient)
  /\ UNCHANGED <<pending, fetching, fetched, completing, calls, answer, toServer, worldVars, faults>>

\* wocky_roster_fetch_roster_async; a second fetch is refused while one is under way.
FetchRoster ==
  /\ completing = None /\ ~fetching /\ ~fetched
  /\ fetching' = TRUE
  /\ toServer' = Append(toServer, [iq |-> Fetch])
  /\ UNCHANGED <<items, pending, fetched, completing, calls, answer, toClient, worldVars, faults>>

\* roster_fetch_roster_cb
ReceiveRoster ==
  /\ completing = None /\ toClient # <<>>
  /\ LET r == Head(toClient)
     IN /\ r.type = "roster"
        /\ items' = RosterUpdate(r.items)
  /\ fetching' = FALSE /\ fetched' = TRUE
  /\ toClient' = Tail(toClient)
  /\ UNCHANGED <<pending, completing, calls, answer, toServer, worldVars, faults>>

-----------------------------------------------------------------------------
(* The server and the account's other clients *)

Push(j, item) == [type |-> "push", items |-> [n \in {j} |-> item]]
Pushes(j, item) == IF interested THEN <<Push(j, item)>> ELSE <<>>

ServerFetch ==
  /\ toServer # <<>> /\ Head(toServer).iq = Fetch
  /\ interested' = TRUE
  /\ toClient' = Append(toClient, [type |-> "roster", items |-> [j \in {n \in Jids : server[n] # None} |-> server[j]]])
  /\ toServer' = Tail(toServer)
  /\ UNCHANGED <<clientVars, server, others, rejects, faults>>

\* The server keeps the subscription itself; it pushes the change before it answers.
ServerAccepts ==
  /\ toServer # <<>> /\ Head(toServer).iq # Fetch
  /\ LET r == Head(toServer)
         old == server[r.jid]
         new == IF r.item # None /\ old # None THEN [r.item EXCEPT !.sub = old.sub] ELSE r.item
     IN /\ ~(r.item = None /\ old = None)
        /\ server' = [server EXCEPT ![r.jid] = new]
        /\ toClient' = toClient \o Pushes(r.jid, new)
                                \o <<[type |-> "result", jid |-> r.jid, iq |-> r.iq]>>
  /\ toServer' = Tail(toServer)
  /\ UNCHANGED <<clientVars, interested, others, rejects, faults>>

\* It refuses to remove a contact it does not have, and whatever else it does not like.
ServerRejects ==
  /\ toServer # <<>> /\ Head(toServer).iq # Fetch
  /\ LET r == Head(toServer)
     IN /\ IF r.item = None /\ server[r.jid] = None
           THEN UNCHANGED rejects
           ELSE MayDisturb /\ rejects' = rejects + 1
        /\ toClient' = Append(toClient, [type |-> "error", jid |-> r.jid, iq |-> r.iq])
  /\ toServer' = Tail(toServer)
  /\ UNCHANGED <<clientVars, server, interested, others, faults>>

OtherClientEdits(j, item) ==
  /\ MayDisturb /\ item # server[j]
  /\ server' = [server EXCEPT ![j] = item]
  /\ toClient' = toClient \o Pushes(j, item)
  /\ others' = others + 1
  /\ UNCHANGED <<clientVars, interested, rejects, toServer, faults>>

-----------------------------------------------------------------------------
Next ==
  \/ \E j \in Jids, n \in Names \cup {None}, gs \in SUBSET Groups : AddContact(j, n, gs)
  \/ \E j \in Jids : RemoveContact(j)
  \/ \E j \in Jids, n \in Names : ChangeContactName(j, n)
  \/ \E j \in Jids, g \in Groups : ContactAddGroup(j, g)
  \/ \E j \in Jids, g \in Groups : ContactRemoveGroup(j, g)
  \/ CompleteNext
  \/ FlyingCompleted
  \/ WaitingCompleted
  \/ ReceiveReply
  \/ ReceivePush
  \/ \E j \in Jids : IqFails(j)
  \/ FetchRoster
  \/ ReceiveRoster
  \/ ServerFetch
  \/ ServerAccepts
  \/ ServerRejects
  \/ \E j \in Jids, item \in Items \cup {None} : OtherClientEdits(j, item)

Spec == Init /\ [][Next]_vars

\* The main loop runs, and the server reads and answers what it is sent.
LoopSteps == CompleteNext \/ FlyingCompleted \/ WaitingCompleted \/ ReceiveReply \/ ReceivePush \/ ReceiveRoster
ServerSteps == ServerFetch \/ ServerAccepts \/ ServerRejects
FairSpec == Spec /\ WF_vars(LoopSteps) /\ WF_vars(ServerSteps)

-----------------------------------------------------------------------------
(* Properties *)

\* Whatever is on its way, the copy of the roster ends up as the server's: the last message about a
\* contact says what the server holds of it, and without one the application already sees it.
News(r, j) == r.type = "roster" \/ (r.type = "push" /\ j \in DOMAIN r.items)
Told(r, j) == IF j \in DOMAIN r.items THEN r.items[j] ELSE None
MirrorsServer ==
  interested => \A j \in Jids :
    LET about == {n \in DOMAIN toClient : News(toClient[n], j)}
    IN /\ about = {} => items[j] = server[j]
       /\ \A n \in about : (\A m \in about : m <= n) => Told(toClient[n], j) = server[j]

\* The copy of the roster, as long as messages are handled in the order they arrive.
RosterIsCurrent == TypeOK /\ MirrorsServer

\* Every edit that is not answered is held by exactly one list of the pending operation of its
\* contact, once, so no callback is lost and none is called twice (flying_operations and
\* waiting_operations are handed over in pending_operation_reset).
CalledBack(j, list, n) ==
  /\ completing # None /\ completing.jid = j
  /\ \/ list = completing.list /\ n < completing.next
     \/ list = "flying" /\ completing.list = "waiting"
Holders(c) ==
  {h \in Jids \X {"flying", "waiting"} \X Calls :
     LET j == h[1]
         list == h[2]
         n == h[3]
     IN /\ pending[j] # None /\ n <= Len(pending[j][list]) /\ pending[j][list][n] = c
        /\ ~CalledBack(j, list, n)}
CallsAreTracked ==
  \A c \in 1..Len(calls) : Cardinality(Holders(c)) = IF answer[c] = None THEN 1 ELSE 0

\* While the server takes every edit and nobody else makes any, the last edit of a contact shows at
\* the server once all of its edits are answered, however they were merged and reordered.
Undisturbed == others = 0 /\ rejects = 0 /\ faults = 0
Shows(e, i) ==
  CASE e.kind = "add" -> i # None /\ (e.name # None => i.name = e.name) /\ e.groups \subseteq i.groups
    [] e.kind = "remove" -> i = None
    [] e.kind = "name" -> i = None \/ i.name = e.name
    [] e.kind = "join" -> i = None \/ e.group \in i.groups
    [] e.kind = "leave" -> i = None \/ e.group \notin i.groups
IsLast(c) == c \in DOMAIN calls /\ \A d \in DOMAIN calls : d > c => calls[d].jid # calls[c].jid
LastEditShows ==
  Undisturbed => \A c \in DOMAIN calls :
    IsLast(c) /\ pending[calls[c].jid] = None => Shows(calls[c], server[calls[c].jid])

\* One IQ at a time is outstanding for a contact, unless the porter gave an earlier one up.
Asking(j) == {n \in DOMAIN toServer : toServer[n].iq # Fetch /\ toServer[n].jid = j}
Answering(j) ==
  {n \in DOMAIN toClient : toClient[n].type \in {"result", "error"} /\ toClient[n].jid = j}
OneIqPerContact ==
  faults = 0 => \A j \in Jids :
    Cardinality(Asking(j)) + Cardinality(Answering(j)) <= IF pending[j] = None THEN 0 ELSE 1

\* Edits of one contact are merged without losing a caller, a wish or the order of the IQs.
EditsAreTracked == CallsAreTracked /\ LastEditShows /\ OneIqPerContact

\* A removal the server is asked for was asked for by one of the edits that the IQ answers.
RemovalsAreAsked ==
  \A n \in DOMAIN toServer :
    LET r == toServer[n] IN
    r.iq # Fetch /\ IsFlying(r.jid, r.iq) /\ r.item = None
      => \E c \in Range(pending[r.jid].flying) : calls[c].kind = "remove"

\* Every edit is answered, if the main loop runs and the server answers.
EditsEnd == \A c \in Calls : c <= Len(calls) ~> c <= Len(calls) /\ answer[c] # None
=============================================================================
