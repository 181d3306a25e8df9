------------------------------- MODULE Jingle -------------------------------
(***************************************************************************)
(* A call between two wocky clients: the WockyJingleSession each of them   *)
(* keeps, the contents in its two tables, and the IQs they exchange, with  *)
(* the session table of the factory reduced to whether it knows the        *)
(* session.  The dialect is WOCKY_JINGLE_DIALECT_V032; descriptions and    *)
(* transport candidates are reduced to whether a content has them.  The    *)
(* porters are external: they deliver in order and answer every IQ.        *)
(*                                                                         *)
(* Operators named M_... are slips a maintainer could make in the          *)
(* definition that follows them; no property uses them.                    *)
(***************************************************************************)
EXTENDS Naturals, Sequences, FiniteSets

CONSTANTS None,
  Names,       \* names of contents
  Unsupported, \* those whose type the other client's factory does not know
  Liberties,   \* what the application does although it breaks the agreement of the two sides
  MaxCalls     \* calls of the two applications that are not needed to set up the session

ASSUME JingleAssumption ==
  /\ Unsupported \subseteq Names /\ MaxCalls \in Nat
  /\ Liberties \subseteq {"late add", "early remove", "remove twice", "reuse name", "modify",
                     "hold ringing call"}

VARIABLES
  sess,  \* the session of each side
  idle,  \* the content-rejects that wait in an idle callback
  chan,  \* the stanzas on their way to each side
  used,  \* the names each side has given to contents
  calls

vars == <<sess, idle, chan, used, calls>>

Peers == {"initiator", "responder"}
Other(p) == CHOOSE q \in Peers : q # p

\* A content is found by its creator (initiator_contents or responder_contents) and its name.
Keys == Peers \X Names
Created(p, k) == k[1] = p
Contents ==
  [state : {"empty", "new", "sent", "acknowledged", "removing"},
   ready : BOOLEAN,              \* has its description and a candidate
   senders : {"both", "initiator", "responder"}]

\* WockyJingleState, in its order; "none" stands for a session that does not exist yet.
Rank == [none |-> 0, created |-> 1, initiateSent |-> 2, initiated |-> 3,
         acceptSent |-> 4, active |-> 5, ended |-> 6]

Always == {"session-terminate", "session-info"}
Allowed ==
  [none |-> {"session-initiate"},
   created |-> {"session-initiate"},
   initiateSent |-> Always \cup {"session-accept"},
   initiated |-> Always \cup {"session-accept", "content-reject", "content-modify",
                              "content-accept", "content-remove"},
   acceptSent |-> Always,
   active |-> Always \cup {"content-modify", "content-add", "content-remove",
                           "content-accept", "content-reject"},
   ended |-> {}]

Sessions ==
  [state : DOMAIN Rank, accepted : BOOLEAN,   \* locally_accepted
   hold : BOOLEAN,                            \* local_hold
   remoteHold : BOOLEAN, ringing : BOOLEAN,   \* remote_hold, remote_ringing
   contents : [Keys -> Contents \cup {None}]]

NoContents == [k \in Keys |-> None]
NewSession(state) ==
  [state |-> state, accepted |-> FALSE, hold |-> FALSE,
   remoteHold |-> FALSE, ringing |-> FALSE, contents |-> NoContents]

\* An IQ, or the answer to it: its contents with their senders, and the payload of a session-info.
Stanza(type, action, contents, info) ==
  [type |-> type, action |-> action, contents |-> contents, info |-> info]
Iq(action, contents) == Stanza("set", action, contents, None)
Info(info) == Stanza("set", "session-info", <<>>, info)

TypeOK ==
  /\ sess \in [Peers -> Sessions]
  /\ used \in [Peers -> SUBSET Names]
  /\ calls \in 0..MaxCalls
  /\ \A p \in Peers : \A k \in Keys :
       LET c == sess[p].contents[k] IN
       c # None => c.state \in {"acknowledged", "removing"}
                     \cup IF Created(p, k) THEN {"empty", "sent"} ELSE {"new"}

Init ==
  /\ sess = [p \in Peers |-> NewSession(IF p = "initiator" THEN "created" ELSE "none")]
  /\ idle = [p \in Peers |-> <<>>]
  /\ chan = [p \in Peers |-> <<>>]
  /\ used = [p \in Peers |-> {}]
  /\ calls = 0

-----------------------------------------------------------------------------
(* What a handler does to its session, w.s, and the stanzas it sends, w.out. *)

At(p) == [s |-> sess[p], out |-> <<>>]
Send(w, m) == [w EXCEPT !.out = Append(@, m)]
Put(w, k, c) == [w EXCEPT !.s.contents[k] = c]
Present(s) == {k \in Keys : s.contents[k] # None}
Active(s) == {k \in Present(s) : s.contents[k].state \in {"new", "sent", "acknowledged"}}
Known(s) == s.state \notin {"none", "ended"}

Node(w, S) == [k \in S |-> w.s.contents[k].senders]

\* The state only moves forward.  The contents of a session that has ended are let go.
SetState(w, state) ==
  IF Rank[state] <= Rank[w.s.state] THEN w
  ELSE LET moved == [w EXCEPT !.s.state = state,
                              !.s.contents = IF state = "ended" THEN NoContents ELSE @]
       IN IF w.s.hold /\ state \notin {"initiateSent", "ended"}
          THEN Send(moved, Info("hold")) ELSE moved

Terminate(w) ==
  IF w.s.state = "ended" THEN w
  ELSE SetState(IF w.s.state = "created" THEN w ELSE Send(w, Iq("session-terminate", <<>>)),
                "ended")

\* Ours and not sent yet, or the peer's and not accepted yet, with all that is needed for it.
IsReady(p, s, k) ==
  s.contents[k].ready /\ s.contents[k].state = IF Created(p, k) THEN "empty" ELSE "new"

Filled(c) == [c EXCEPT !.state = IF @ = "empty" THEN "sent" ELSE "acknowledged"]

FillContents(w) ==
  [w EXCEPT !.s.contents =
     [k \in Keys |-> IF k \in Present(w.s) THEN Filled(w.s.contents[k]) ELSE None]]

TryInitiateOrAccept(w, p) ==
  IF /\ w.s.state = IF p = "initiator" THEN "created" ELSE "initiated"
     /\ w.s.accepted
     /\ \A k \in Present(w.s) : IsReady(p, w.s, k)
  THEN SetState(
         Send(FillContents(w),
              Iq(IF p = "initiator" THEN "session-initiate" ELSE "session-accept",
                 Node(w, Present(w.s)))),
         IF p = "initiator" THEN "initiateSent" ELSE "acceptSent")
  ELSE w

\* content_removed_cb: the content is taken out of its table by its name.
M_DontTryAgain(w, p, k) ==
  LET v == Put(w, k, None) IN
  IF w.s.state = "ended" \/ Active(v.s) # {} THEN v ELSE Terminate(v)
Removed(w, p, k) ==
  LET v == Put(w, k, None) IN
  IF w.s.state = "ended" THEN v
  ELSE IF Active(v.s) = {} THEN Terminate(v) ELSE TryInitiateOrAccept(v, p)

\* _content_remove with signal_peer.
SignalRemoval(w, p, k, action) ==
  CASE w.s.contents[k].state = "empty" -> Removed(w, p, k)
    [] w.s.contents[k].state = "removing" -> w
    [] OTHER -> Send(Put(w, k, [w.s.contents[k] EXCEPT !.state = "removing"]),
                     Iq(action, Node(w, {k})))

\* _maybe_ready.
MaybeReady(w, p, k) ==
  CASE ~IsReady(p, w.s, k) -> w
    [] Rank[w.s.state] < Rank["acceptSent"] -> TryInitiateOrAccept(w, p)
    [] OTHER -> Send(Put(w, k, Filled(w.s.contents[k])),
                     Iq(IF Created(p, k) THEN "content-add" ELSE "content-accept", Node(w, {k})))

\* What p does of its own accord, and in answer to the first stanza it has got.
Does(p, w) ==
  /\ sess' = [sess EXCEPT ![p] = w.s]
  /\ chan' = [chan EXCEPT ![Other(p)] = @ \o w.out]
Answers(p, w, answer) ==
  /\ sess' = [sess EXCEPT ![p] = w.s]
  /\ chan' = [chan EXCEPT ![p] = Tail(@), ![Other(p)] = (@ \o w.out) \o answer]
  /\ UNCHANGED <<used, calls>>

-----------------------------------------------------------------------------
(* What the application calls.  It drops a session that has ended. *)

Call == calls < MaxCalls /\ calls' = calls + 1
Has(p, k) == Known(sess[p]) /\ sess[p].contents[k] # None
MayTake(liberty) == liberty \in Liberties

AddContent(p) ==
  /\ Known(sess[p])
  /\ sess[p].state \in {"initiateSent", "initiated"} => MayTake("late add")
  /\ \E n \in Names :
       /\ \A q \in Peers : sess[p].contents[<<q, n>>] = None
       /\ n \in used[p] => MayTake("reuse name")
       /\ used' = [used EXCEPT ![p] = @ \cup {n}]
       /\ Does(p, Put(At(p), <<p, n>>, [state |-> "empty", ready |-> FALSE, senders |-> "both"]))
  /\ IF sess[p].state = "created" THEN UNCHANGED calls ELSE Call
  /\ UNCHANGED idle

\* The last of the description and the candidates of a content is known.
ContentReady(p, k) ==
  /\ Has(p, k)
  /\ ~sess[p].contents[k].ready
  /\ Does(p, MaybeReady(Put(At(p), k, [sess[p].contents[k] EXCEPT !.ready = TRUE]), p, k))
  /\ UNCHANGED <<idle, used, calls>>

Accept(p) ==
  /\ Known(sess[p]) /\ ~sess[p].accepted
  /\ Present(sess[p]) # {}
  /\ Does(p, TryInitiateOrAccept([At(p) EXCEPT !.s.accepted = TRUE], p))
  /\ UNCHANGED <<idle, used, calls>>

HangUp(p) ==
  /\ Known(sess[p])
  /\ Call
  /\ Does(p, Terminate(At(p)))
  /\ UNCHANGED <<idle, used>>

MayRemove(p, k) ==
  /\ p = "initiator" /\ sess[p].state \in {"initiateSent", "initiated"}
       => MayTake("early remove")
  /\ sess[p].contents[k].state = "removing" => MayTake("remove twice")

RemoveContent(p, k) ==
  /\ Has(p, k)
  /\ MayRemove(p, k)
  /\ Call
  /\ Does(p, IF Cardinality(Active(sess[p])) > 1
             THEN SignalRemoval(At(p), p, k, "content-remove")
             ELSE Removed(At(p), p, k))
  /\ UNCHANGED <<idle, used>>

RejectContent(p, k) ==
  /\ Has(p, k)
  /\ ~Created(p, k)
  /\ Call
  /\ Does(p, SignalRemoval(At(p), p, k, "content-reject"))
  /\ UNCHANGED <<idle, used>>

\* wocky_jingle_content_change_direction: sent once the content is on the wire.
ChangeDirection(w, k, senders) ==
  LET v == Put(w, k, [w.s.contents[k] EXCEPT !.senders = senders]) IN
  IF w.s.contents[k].state \in {"empty", "new"} THEN v
  ELSE Send(v, Iq("content-modify", Node(v, {k})))

\* jingle_content_has_direction: does the media of side q flow?
HasDirection(senders, q) == senders \in {"both", q}
With(senders, q)    == IF senders = "none" THEN q ELSE "both"
Without(senders, q) == IF senders = "both" THEN Other(q) ELSE "none"

\* A content that nobody sends any more is removed.
Direct(p, k, senders) ==
  IF senders = "none" THEN SignalRemoval(At(p), p, k, "content-remove")
  ELSE ChangeDirection(At(p), k, senders)
MayDirect(p, k, senders) ==
  IF senders = "none" THEN MayRemove(p, k)
  ELSE (p = "initiator" /\ sess[p].contents[k].state = "acknowledged") \/ MayTake("modify")

\* The application turns its own media on or off, or asks for those of the peer.
SetSending(p, k, send) ==
  /\ Has(p, k)
  /\ LET old == sess[p].contents[k].senders
         senders == IF send THEN With(old, p) ELSE Without(old, p)
     IN /\ send # HasDirection(old, p)
        /\ MayDirect(p, k, senders)
        /\ Does(p, Direct(p, k, senders))
  /\ Call
  /\ UNCHANGED <<idle, used>>

RequestReceiving(p, k, receive) ==
  /\ Has(p, k)
  /\ LET old == sess[p].contents[k].senders
         senders == IF receive THEN With(old, Other(p)) ELSE Without(old, Other(p))
     IN /\ receive # HasDirection(old, Other(p))
        /\ MayDirect(p, k, senders)
        /\ Does(p, Direct(p, k, senders))
  /\ Call
  /\ UNCHANGED <<idle, used>>

SetLocalHold(p) ==
  /\ Known(sess[p])
  /\ p = "responder" /\ sess[p].state # "active" => MayTake("hold ringing call")
  /\ Call
  /\ LET w == [At(p) EXCEPT !.s.hold = ~@] IN
     Does(p, IF sess[p].state \in {"created", "initiateSent"} THEN w
             ELSE Send(w, Info(IF w.s.hold THEN "hold" ELSE "unhold")))
  /\ UNCHANGED <<idle, used>>

-----------------------------------------------------------------------------
(* Stanzas of the peer. *)

Named(m) == DOMAIN m.contents
NeedsContents(m) ==
  m.action \in {"session-accept", "content-modify", "content-remove", "content-accept",
                "content-reject"}

\* The factory does not know the session, it is in the wrong state, a content that must exist does
\* not, one that must not does, or one of a new session has a type the factory does not know.
Refused(p, m) ==
  \/ m.action \notin Allowed[sess[p].state]
  \/ NeedsContents(m) /\ (\E k \in Named(m) : sess[p].contents[k] = None)
  \/ /\ m.action = "content-add"
     /\ \E k \in Named(m) : k[2] \notin Unsupported /\ sess[p].contents[k] # None
  \/ m.action = "session-initiate" /\ (\E k \in Named(m) : k[2] \in Unsupported)

First(p, type) == chan[p] # <<>> /\ Head(chan[p]).type = type
Incoming(p, actions) ==
  First(p, "set") /\ Head(chan[p]).action \in actions /\ ~Refused(p, Head(chan[p]))

\* The answer, of which the sender looks at those it has given a callback.
Reply(type, m) ==
  IF \/ m.action \in {"session-initiate", "session-accept", "content-remove"}
     \/ m.action = "content-reject" /\ (\A k \in Named(m) : k[2] \notin Unsupported)
  THEN <<[m EXCEPT !.type = type]>> ELSE <<>>
Acknowledge(p, w) == Answers(p, w, Reply("result", Head(chan[p])))

TheKey(m) == CHOOSE k \in Named(m) : TRUE
NewContent(m, k) == [state |-> "new", ready |-> FALSE, senders |-> m.contents[k]]

\* A content is accepted while it is in the state "sent", and takes the senders it is accepted with.
M_StaySent(s, m, k) ==
  IF s.contents[k].state # "sent" THEN s.contents[k]
  ELSE [s.contents[k] EXCEPT !.senders = m.contents[k]]
Accepted(s, m, k) ==
  IF s.contents[k].state # "sent" THEN s.contents[k]
  ELSE [s.contents[k] EXCEPT !.state = "acknowledged", !.senders = m.contents[k]]

\* A session-initiate that is refused leaves nothing behind; a session-accept may already have
\* acknowledged some contents when it comes to one that is missing.
Refuse(p) ==
  /\ First(p, "set") /\ Refused(p, Head(chan[p]))
  /\ LET m == Head(chan[p]) IN
     \E S \in SUBSET {k \in Named(m) : sess[p].contents[k] # None} :
       /\ S # {} => m.action = "session-accept" /\ m.action \in Allowed[sess[p].state]
       /\ Answers(p, [s |-> [sess[p] EXCEPT
                               !.state = IF @ = "none" /\ m.action = "session-initiate"
                                         THEN "ended" ELSE @,
                               !.contents = [k \in Keys |-> IF k \in S THEN Accepted(sess[p], m, k)
                                                           ELSE @[k]]],
                      out |-> <<>>],
                  Reply("error", m))
  /\ UNCHANGED idle

ReceiveInitiate(p) ==
  /\ Incoming(p, {"session-initiate"})
  /\ LET m == Head(chan[p])
         w == [s |-> [NewSession("created") EXCEPT
                        !.contents = [k \in Keys |->
                          IF k \in Named(m) THEN NewContent(m, k) ELSE None]],
               out |-> <<>>]
     IN Acknowledge(p, Send(SetState(w, "initiated"), Info("ringing")))
  /\ UNCHANGED idle

EachAccepted(w, m) ==
  [w EXCEPT !.s.contents =
     [k \in Keys |-> IF k \in Named(m) THEN Accepted(w.s, m, k) ELSE w.s.contents[k]]]

ReceiveAccept(p) ==
  /\ Incoming(p, {"session-accept"})
  /\ Acknowledge(p, SetState(EachAccepted(At(p), Head(chan[p])), "active"))
  /\ UNCHANGED idle

ReceiveContentAccept(p) ==
  /\ Incoming(p, {"content-accept"})
  /\ Acknowledge(p, EachAccepted(At(p), Head(chan[p])))
  /\ UNCHANGED idle

ReceiveContentAdd(p) ==
  /\ Incoming(p, {"content-add"})
  /\ LET m == Head(chan[p])
         k == TheKey(m)
     IN IF k[2] \in Unsupported
        THEN /\ Acknowledge(p, At(p))
             /\ idle' = [idle EXCEPT ![p] = Append(@, Iq("content-reject", m.contents))]
        ELSE /\ Acknowledge(p, Put(At(p), k, NewContent(m, k)))
             /\ UNCHANGED idle

SendIdleReject(p) ==
  /\ idle[p] # <<>>
  /\ idle' = [idle EXCEPT ![p] = Tail(@)]
  /\ Does(p, Send(At(p), Head(idle[p])))
  /\ UNCHANGED <<used, calls>>

ReceiveContentRemove(p) ==
  /\ Incoming(p, {"content-remove", "content-reject"})
  /\ Acknowledge(p, Removed(At(p), p, TheKey(Head(chan[p]))))
  /\ UNCHANGED idle

ReceiveContentModify(p) ==
  /\ Incoming(p, {"content-modify"})
  /\ LET m == Head(chan[p])
         k == TheKey(m)
     IN Acknowledge(p, Put(At(p), k, [sess[p].contents[k] EXCEPT !.senders = m.contents[k]]))
  /\ UNCHANGED idle

ReceiveTerminate(p) ==
  /\ Incoming(p, {"session-terminate"})
  /\ Acknowledge(p, SetState(At(p), "ended"))
  /\ UNCHANGED idle

\* <active/> clears the ringing and the hold that came before it.
Informed(s, info) ==
  CASE info = "ringing" -> [s EXCEPT !.ringing = TRUE]
    [] info = "active" -> [s EXCEPT !.ringing = FALSE, !.remoteHold = FALSE]
    [] OTHER -> [s EXCEPT !.remoteHold = (info = "hold")]

ReceiveInfo(p) ==
  /\ Incoming(p, {"session-info"})
  /\ Acknowledge(p, [s |-> Informed(sess[p], Head(chan[p]).info), out |-> <<>>])
  /\ UNCHANGED idle

\* An answer is looked at in the state the session was left in, and ignored in a later one.
Answered(p, actions) ==
  chan[p] # <<>> /\ Head(chan[p]).type # "set" /\ Head(chan[p]).action \in actions
Good(p) == Head(chan[p]).type = "result"

ReceiveInitiateReply(p) ==
  /\ Answered(p, {"session-initiate"})
  /\ Answers(p, IF sess[p].state # "initiateSent" THEN At(p)
                ELSE SetState(At(p), IF Good(p) THEN "initiated" ELSE "ended"), <<>>)
  /\ UNCHANGED idle

ReceiveAcceptReply(p) ==
  /\ Answered(p, {"session-accept"})
  /\ Answers(p, CASE sess[p].state # "acceptSent" -> At(p)
                  [] Good(p) -> Send(SetState(At(p), "active"), Info("active"))
                  [] OTHER -> SetState(At(p), "ended"), <<>>)
  /\ UNCHANGED idle

\* Whatever the answer to a removal, the content is removed, by its name, once more if the peer
\* has removed it meanwhile.
ReceiveRemoveReply(p) ==
  /\ Answered(p, {"content-remove", "content-reject"})
  /\ Answers(p, Removed(At(p), p, TheKey(Head(chan[p]))), <<>>)
  /\ UNCHANGED idle

\* wocky_jingle_state_machine_dance, and the answers to the IQs.
Receive(p) ==
  \/ Refuse(p) \/ ReceiveInitiate(p) \/ ReceiveAccept(p) \/ ReceiveContentAccept(p)
  \/ ReceiveContentAdd(p) \/ ReceiveContentRemove(p) \/ ReceiveContentModify(p)
  \/ ReceiveTerminate(p) \/ ReceiveInfo(p)
  \/ ReceiveInitiateReply(p) \/ ReceiveAcceptReply(p) \/ ReceiveRemoveReply(p)

Next ==
  \E p \in Peers :
    \/ AddContent(p) \/ Accept(p) \/ HangUp(p) \/ SetLocalHold(p) \/ SendIdleReject(p)
    \/ \E k \in Keys : ContentReady(p, k) \/ RemoveContent(p, k) \/ RejectContent(p, k)
    \/ \E k \in Keys, on \in BOOLEAN : SetSending(p, k, on) \/ RequestReceiving(p, k, on)
    \/ Receive(p)

Spec == Init /\ [][Next]_vars

\* The porters deliver, the main loop runs idle callbacks, and every content gets its description
\* and its candidates in the end.
FairSpec ==
  /\ Spec
  /\ \A p \in Peers : WF_vars(Receive(p)) /\ WF_vars(SendIdleReject(p))
  /\ \A p \in Peers, k \in Keys : WF_vars(ContentReady(p, k))

-----------------------------------------------------------------------------
Quiet == \A p \in Peers : chan[p] = <<>> /\ idle[p] = <<>>

\* When nothing is on its way the two sides are at the same point of the session: both have begun,
\* both are active or both have ended, unless it was never offered (set_state and its callers).
StatesAgree ==
  Quiet => \/ sess["responder"].state = "none" /\ sess["initiator"].state \in {"created", "ended"}
           \/ /\ sess["initiator"].state = sess["responder"].state
              /\ sess["initiator"].state \in {"initiated", "active", "ended"}

\* When nothing is on its way in an active session both sides have the same contents on the wire,
\* with the same senders, and agree on which of them are accepted; none is still being removed, and
\* none that has all it needs stays unknown to the peer (_maybe_ready, set_state and the handlers).
OnTheWire(p, q, k) ==
  LET c == sess[p].contents[k]
      d == sess[q].contents[k]
  IN IF d = None THEN c = None \/ (c.state = "empty" /\ ~c.ready)
     ELSE /\ c # None
          /\ <<c.state, d.state>> \in {<<"sent", "new">>, <<"acknowledged", "acknowledged">>}
          /\ c.senders = d.senders
ContentsAgree ==
  Quiet /\ (\A p \in Peers : sess[p].state = "active")
    => \A k \in Keys : OnTheWire(k[1], Other(k[1]), k)

\* When nothing is on its way in an active session each side knows whether the other holds the
\* call, and no longer takes it to be ringing (set_state, handle_payload).
InfoIsCurrent ==
  Quiet /\ (\A p \in Peers : sess[p].state = "active")
    => \A p \in Peers : sess[p].remoteHold = sess[Other(p)].hold /\ ~sess[p].ringing

\* A stanza is refused only by a side that has ended the session, or on account of a content whose
\* type its receiver does not know: no other stanza comes out of order, however the steps of the
\* two sides and the stanzas between them interleave (action_is_allowed, lookup_content).
RefusalsAreDue ==
  \A p \in Peers :
    First(p, "set") /\ Refused(p, Head(chan[p]))
      => \/ sess[p].state = "ended"
         \/ \E k \in Named(Head(chan[p])) : k[2] \in Unsupported

\* Whatever the two users do at once, the two sides of the session stay one session.
SidesAgree == TypeOK /\ StatesAgree /\ ContentsAgree /\ InfoIsCurrent /\ RefusalsAreDue

\* A call both sides have accepted becomes active, or ends, on both.
AcceptedCallsSettle ==
  (\A p \in Peers : sess[p].accepted)
    ~> (\A p \in Peers : sess[p].state = "active") \/ (\A p \in Peers : sess[p].state = "ended")
=============================================================================
