----------------------------- MODULE C2SPorter -----------------------------
(***************************************************************************)
(* WockyC2SPorter (wocky-c2s-porter.c) over one WockyXmppConnection, with  *)
(* stream management off: the queue of stanzas being sent, whitespace      *)
(* pings, IQs and their replies, close, force close, and the loss of the   *)
(* peer.                                                                   *)
(*                                                                         *)
(* The library is single threaded, so a main loop callback is only cut in  *)
(* two where it calls out to the application, which may call back into the *)
(* porter.  "stack" holds what is left to run: a frame per suspended       *)
(* library function, and a "user" frame while the application has control. *)
(* Operators named M_... are slips a maintainer could make in the          *)
(* definition that follows them; the specification uses none of them.      *)
(*                                                                         *)
(* Reentrant names the callouts from which the application calls back; a   *)
(* callout that ends its function needs no frame, since acting there and   *)
(* acting from the main loop are the same.                                 *)
(***************************************************************************)
EXTENDS ConnectionOps, FiniteSets, SequencesExt

CONSTANTS
  Iqs,        \* the stanzas sent with send_iq_async
  Pings,      \* calls of send_whitespace_ping_async
  CloseOps,   \* calls of close_async
  ForceOps,   \* calls of force_close_async
  Reentrant   \* callouts from which the application calls the porter

Callouts == {"send", "ping", "iq", "handler", "remote", "close"}
Ops == Stanzas \cup Pings \cup CloseOps \cup ForceOps

ASSUME PorterAssumption ==
  /\ Iqs \subseteq Stanzas
  /\ Reentrant \subseteq Callouts
  /\ None \notin Ops
  /\ Pings \cap Stanzas = {}
  /\ CloseOps \cap (Stanzas \cup Pings) = {}
  /\ ForceOps \cap (Stanzas \cup Pings \cup CloseOps) = {}

VARIABLES
  queue,          \* sending_queue, the stanza being written at its head
  armed,          \* stanzas whose cancelled_sig_id is connected
  pinging,        \* sending_whitespace_ping: the ping in progress, or None
  closing,        \* close_result: the close in progress, or None
  closeCancel,    \* close_cancellable
  waiting,        \* waiting_to_close
  forcing,        \* force_close_result: the force close in progress, or None
  forceCancel,    \* force_close_cancellable
  forcedShutdown, \* forced_shutdown
  remoteClosed,   \* remote_closed
  localClosed,    \* local_closed
  receive,        \* receive_cancellable
  iqTable,        \* the IQs with an entry in iq_reply_handlers
  iqSent,         \* the IQs whose handler has sent = TRUE
  outcome,        \* the GSimpleAsyncResult of every call
  accepted,       \* history: the stanzas send_async took, in order
  stack           \* suspended functions, innermost first

sendVars  == <<queue, armed, pinging>>
closeVars == <<closing, closeCancel, waiting>>
forceVars == <<forcing, forceCancel, forcedShutdown>>
endVars   == <<remoteClosed, localClosed, receive>>
iqVars    == <<iqTable, iqSent>>
vars == <<sendVars, closeVars, forceVars, endVars, iqVars, outcome, accepted,
          stack, connVars>>

Cancellable == {"null", "live", "cancelled"}
Errors   == {"failed", "busy", "cancelled", "forced", "aborted", "refused"}
Outcomes == {"new", "pending", "ok"} \cup Errors

(* A suspended function: what it will do, on which stanza, with which error *)
Functions == {"user", "send_next", "close_if_waiting", "force_close_rest",
              "received_rest", "force_shutdown", "receive_done"}
Frames ==      [fn : Functions,              op : {None}, why : {None}]
          \cup [fn : {"terminate"},          op : {None}, why : Errors]
          \cup [fn : {"remote_closed_rest"}, op : {None}, why : Errors]
          \cup [fn : {"maybe_remove"},       op : Iqs,    why : {None}]
Frame(fn) == [fn |-> fn, op |-> None, why |-> None]
Terminate(why) == [Frame("terminate") EXCEPT !.why = why]
RemoteRest(why) == [Frame("remote_closed_rest") EXCEPT !.why = why]
MaybeRemove(i) == [Frame("maybe_remove") EXCEPT !.op = i]
Callout(kind) == IF kind \in Reentrant THEN <<Frame("user")>> ELSE <<>>

TypeOK ==
  /\ ConnTypeOK
  /\ queue \in Seq(Stanzas)
  /\ armed \subseteq Stanzas
  /\ pinging \in Pings \cup {None}
  /\ closing \in CloseOps \cup {None}
  /\ closeCancel \in Cancellable
  /\ waiting \in BOOLEAN
  /\ forcing \in ForceOps \cup {None}
  /\ forceCancel \in Cancellable
  /\ forcedShutdown \in BOOLEAN
  /\ remoteClosed \in BOOLEAN
  /\ localClosed \in BOOLEAN
  /\ receive \in Cancellable
  /\ iqTable \subseteq Iqs
  /\ iqSent \subseteq Iqs
  /\ outcome \in [Ops -> Outcomes]
  /\ accepted \in Seq(Stanzas)
  /\ stack \in Seq(Frames)

Init ==
  /\ ConnInit
  /\ queue = <<>> /\ armed = {} /\ pinging = None
  /\ closing = None /\ closeCancel = "null" /\ waiting = FALSE
  /\ forcing = None /\ forceCancel = "null" /\ forcedShutdown = FALSE
  /\ remoteClosed = FALSE /\ localClosed = FALSE /\ receive = "null"
  /\ iqTable = {} /\ iqSent = {}
  /\ outcome = [o \in Ops |-> "new"]
  /\ accepted = <<>>
  /\ stack = <<>>

AtLoop  == stack = <<>>
InUser  == stack # <<>> /\ Head(stack).fn = "user"
CanCall == AtLoop \/ InUser
Running(fn) == stack # <<>> /\ Head(stack).fn = fn

Resolve(o, r) == outcome' = [outcome EXCEPT ![o] = r]
Closing == closing # None \/ forcing # None
M_IgnorePing == queue # <<>>
SendingInProgress == queue # <<>> \/ pinging # None

(***************************************************************************)
(* Pieces of the send path.                                                *)
(***************************************************************************)

(* send_head_stanza; q is the queue at that moment.  From here the cancel  *)
(* of the stanza is the connection's business.                             *)
SendHead(q) ==
  /\ armed' = armed \ {Head(q)}
  /\ ConnSend(Head(q))

(* close_if_waiting, with send_close *)
CloseIfWaiting ==
  IF waiting /\ ~SendingInProgress
    THEN /\ waiting' = FALSE
         /\ ConnSend(Close)
    ELSE UNCHANGED <<waiting, connVars>>

(* iq_sent_cb with an error (why), as the completion of the stanza of an   *)
(* IQ: its caller, if still waiting, is told before the handler goes.      *)
M_AnswerAgain(i, why, rest) ==
  /\ iqSent' = iqSent \cup {i}
  /\ Resolve(i, why)
  /\ stack' = Callout("iq") \o <<MaybeRemove(i)>> \o rest
  /\ UNCHANGED iqTable
IqSendFailed(i, why, rest) ==
  /\ iqSent' = iqSent \cup {i}
  /\ IF outcome[i] = "pending"
       THEN /\ Resolve(i, why)
            /\ stack' = Callout("iq") \o <<MaybeRemove(i)>> \o rest
            /\ UNCHANGED iqTable
       ELSE /\ iqTable' = iqTable \ {i}
            /\ stack' = rest
            /\ UNCHANGED outcome

(***************************************************************************)
(* Calls made by the application.                                          *)
(***************************************************************************)

M_PushHead(s) == <<s>> \o queue
PushTail(s) == Append(queue, s)

(* send_async, alone or at the end of send_iq_async (sm = NULL) *)
Enqueue(s) ==
  /\ CanCall
  /\ outcome[s] = "new"
  /\ IF Closing
       THEN /\ Resolve(s, "refused")
            /\ UNCHANGED <<queue, armed, accepted, connVars>>
       ELSE /\ Resolve(s, "pending")
            /\ queue' = PushTail(s)
            /\ accepted' = Append(accepted, s)
            /\ IF SendingInProgress
                 THEN armed' = armed \cup {s} /\ UNCHANGED connVars
                 ELSE SendHead(<<s>>)
  /\ UNCHANGED <<pinging, closeVars, forceVars, endVars, iqSent, stack>>

Send(s) == s \notin Iqs /\ Enqueue(s) /\ UNCHANGED iqTable

M_SendAnyIq(i) == Enqueue(i) /\ iqTable' = IF Closing THEN iqTable ELSE iqTable \cup {i}
SendIq(i) ==
  /\ i \in Iqs
  /\ Enqueue(i)
  /\ iqTable' = IF Closing THEN iqTable ELSE iqTable \cup {i}

(* The application cancels the cancellable of a stanza.  While it waits in *)
(* the queue send_cancelled_cb takes it out; an IQ is told by              *)
(* send_iq_cancelled_cb whether or not its stanza has left.  (A cancelled  *)
(* write shows as WriteFailed.)                                            *)
Cancel(s) ==
  /\ CanCall
  /\ outcome[s] = "pending"
  /\ s \in armed \cup Iqs
  /\ Resolve(s, "cancelled")
  /\ IF s \in armed
       THEN /\ \E n \in DOMAIN queue : queue[n] = s /\ queue' = RemoveAt(queue, n)
            /\ armed' = armed \ {s}
            /\ IF s \in Iqs
                 THEN idle' = Append(idle, IdleCall("iqsent", s, "cancelled"))
                 ELSE UNCHANGED idle
       ELSE UNCHANGED <<queue, armed, idle>>
  /\ iqTable' = IF s \in iqSent THEN iqTable \ {s} ELSE iqTable
  /\ UNCHANGED <<pinging, closeVars, forceVars, endVars, iqSent, accepted, stack,
                 writing, outClosed, wire, reading, inClosed, tearing, torn>>

(* send_whitespace_ping_async: "ok" at once when anything is being sent *)
SendPing(p) ==
  /\ CanCall
  /\ outcome[p] = "new"
  /\ IF Closing \/ SendingInProgress
       THEN /\ Resolve(p, IF Closing THEN "refused" ELSE "ok")
            /\ UNCHANGED <<pinging, connVars>>
       ELSE /\ Resolve(p, "pending")
            /\ pinging' = p
            /\ ConnSend(Ping)
  /\ UNCHANGED <<queue, armed, closeVars, forceVars, endVars, iqVars, accepted, stack>>

(* start, called once: the porter has neither run nor been closed *)
Start ==
  /\ CanCall
  /\ receive = "null" /\ ~remoteClosed /\ ~localClosed
  /\ receive' = "live"
  /\ ConnRecv
  /\ UNCHANGED <<sendVars, closeVars, forceVars, remoteClosed, localClosed, iqVars,
                 outcome, accepted, stack>>

NotStarted == receive = "null" /\ ~remoteClosed

(* close_async; c says whether a cancellable was given *)
CloseAsync(o, c) ==
  /\ CanCall
  /\ outcome[o] = "new"
  /\ IF localClosed \/ NotStarted \/ Closing
       THEN /\ Resolve(o, "refused")
            /\ UNCHANGED <<closeVars, connVars>>
       ELSE /\ Resolve(o, "pending")
            /\ closing' = o
            /\ closeCancel' = IF c THEN "live" ELSE closeCancel
            /\ IF SendingInProgress
                 THEN waiting' = TRUE /\ UNCHANGED connVars
                 ELSE waiting' = FALSE /\ ConnSend(Close)
  /\ UNCHANGED <<sendVars, forceVars, endVars, iqVars, accepted, stack>>

(* The application cancels its close, before anything was done about it or *)
(* while the peer is awaited; close_sent_cb and complete_close look at it. *)
CancelClose ==
  /\ CanCall
  /\ closeCancel = "live" /\ closing # None
  /\ closeCancel' = "cancelled"
  /\ UNCHANGED <<sendVars, closing, waiting, forceVars, endVars, iqVars, outcome,
                 accepted, stack, connVars>>

(* force_close_async up to the termination of the pending sends *)
ForceCloseAsync(o, c) ==
  /\ CanCall
  /\ outcome[o] = "new"
  /\ IF forcing # None \/ (receive = "null" /\ (localClosed \/ ~remoteClosed))
       THEN /\ Resolve(o, "refused")
            /\ UNCHANGED <<closing, forcing, forceCancel, stack>>
       ELSE /\ outcome' = [x \in Ops |-> IF x = o THEN "pending"
                                         ELSE IF x = closing THEN "forced"
                                         ELSE outcome[x]]
            /\ closing' = None
            /\ forcing' = o
            /\ forceCancel' = IF c THEN "live" ELSE forceCancel
            /\ stack' = <<Terminate("forced"), Frame("force_close_rest")>> \o stack
  /\ UNCHANGED <<sendVars, closeCancel, waiting, forcedShutdown, endVars, iqVars,
                 accepted, connVars>>

(* The application returns from a callout. *)
Return ==
  /\ InUser
  /\ stack' = Tail(stack)
  /\ UNCHANGED <<sendVars, closeVars, forceVars, endVars, iqVars, outcome, accepted,
                 connVars>>

(***************************************************************************)
(* Suspended functions go on.                                              *)
(***************************************************************************)

(* One turn of the loop of terminate_sending_operations, or its end *)
TerminateStep ==
  /\ Running("terminate")
  /\ IF queue = <<>>
       THEN /\ stack' = Tail(stack)
            /\ UNCHANGED <<queue, armed, iqVars, outcome>>
       ELSE LET s == Head(queue) IN
            /\ queue' = Tail(queue)
            /\ armed' = armed \ {s}
            /\ IF s \in Iqs
                 THEN IqSendFailed(s, Head(stack).why, stack)
                 ELSE /\ Resolve(s, Head(stack).why)
                      /\ stack' = Callout("send") \o stack
                      /\ UNCHANGED iqVars
  /\ UNCHANGED <<pinging, closeVars, forceVars, endVars, accepted, connVars>>

(* End of send_stanza_cb and of send_whitespace_ping_cb after a success.   *)
(* close_if_waiting has nothing to do when a stanza is sent.               *)
SendNext ==
  /\ Running("send_next")
  /\ stack' = Tail(stack)
  /\ IF queue # <<>>
       THEN SendHead(queue) /\ UNCHANGED waiting
       ELSE CloseIfWaiting /\ UNCHANGED armed
  /\ UNCHANGED <<queue, pinging, closing, closeCancel, forceVars, endVars, iqVars,
                 outcome, accepted>>

(* ... and after a failure *)
CloseIfWaitingStep ==
  /\ Running("close_if_waiting")
  /\ stack' = Tail(stack)
  /\ CloseIfWaiting
  /\ UNCHANGED <<sendVars, closing, closeCancel, forceVars, endVars, iqVars, outcome,
                 accepted>>

(* stanza_iq_handler_maybe_remove, after the caller of an IQ was told *)
MaybeRemoveStep ==
  /\ Running("maybe_remove")
  /\ stack' = Tail(stack)
  /\ LET i == Head(stack).op IN
     iqTable' = IF i \in iqSent /\ outcome[i] # "pending" THEN iqTable \ {i} ELSE iqTable
  /\ UNCHANGED <<sendVars, closeVars, forceVars, endVars, iqSent, outcome, accepted,
                 connVars>>

(* abort_pending_iqs: everyone waiting for a reply is told why; handlers   *)
(* whose stanza was sent go.                                               *)
M_OnlyUnsent == {i \in iqTable \ iqSent : outcome[i] = "pending"}
PendingIqs == {i \in iqTable : outcome[i] = "pending"}
Aborted(why) == [o \in Ops |-> IF o \in PendingIqs THEN why ELSE outcome[o]]
M_ForgetUnsent == iqTable \ PendingIqs
TableAfterAbort == iqTable \ (PendingIqs \cap iqSent)
AbortPendingIqs(why) == outcome' = Aborted(why) /\ iqTable' = TableAfterAbort

(* Three places shut the connection down, the first of them for good. *)
M_ShutdownAgain == forcedShutdown' = TRUE /\ ConnForceClose
ForceShutdown ==
  IF forcedShutdown
    THEN UNCHANGED <<forcedShutdown, connVars>>
    ELSE forcedShutdown' = TRUE /\ ConnForceClose

(* force_close_async from abort_pending_iqs on.  (If the connection is     *)
(* being shut down already, the new force close gets an error.)            *)
ForceCloseRest ==
  /\ Running("force_close_rest")
  /\ stack' = Tail(stack)
  /\ iqTable' = TableAfterAbort
  /\ IF ~remoteClosed
       THEN /\ outcome' = Aborted("forced")
            /\ receive' = "cancelled"
            /\ UNCHANGED <<forcing, forcedShutdown, connVars>>
       ELSE /\ outcome' = IF forcedShutdown
                            THEN [Aborted("forced") EXCEPT ![forcing] = "forced"]
                            ELSE Aborted("forced")
            /\ forcing' = IF forcedShutdown THEN None ELSE forcing
            /\ ForceShutdown
            /\ UNCHANGED receive
  /\ UNCHANGED <<sendVars, closeVars, forceCancel, remoteClosed, localClosed, iqSent,
                 accepted>>

(* complete_close, which resets both cancellables; why is the error that   *)
(* was set before, or "ok"                                                 *)
CompleteClose(why) ==
  /\ Resolve(closing, IF closeCancel = "cancelled" THEN "cancelled" ELSE why)
  /\ closing' = None
  /\ closeCancel' = "null"
  /\ forceCancel' = "null"

(* remote_connection_closed after the remote-closed or remote-error signal *)
RemoteClosedRest ==
  /\ Running("remote_closed_rest")
  /\ IF closing # None /\ localClosed
       THEN /\ CompleteClose(IF Head(stack).why = "aborted" THEN "ok" ELSE "failed")
            /\ stack' = Callout("close") \o <<Frame("receive_done")>> \o Tail(stack)
       ELSE /\ UNCHANGED <<outcome, closing, closeCancel, forceCancel>>
            /\ stack' = <<Frame("receive_done")>> \o Tail(stack)
  /\ UNCHANGED <<sendVars, waiting, forcing, forcedShutdown, endVars, iqVars, accepted,
                 connVars>>

(* ... and its end *)
ReceiveDone ==
  /\ Running("receive_done")
  /\ stack' = Tail(stack)
  /\ receive' = "null"
  /\ UNCHANGED <<sendVars, closeVars, forceVars, remoteClosed, localClosed, iqVars,
                 outcome, accepted, connVars>>

(* stanza_received_cb after the handlers of the stanza have run *)
ReceivedRest ==
  /\ Running("received_rest")
  /\ stack' = Tail(stack)
  /\ IF ~remoteClosed
       THEN ConnRecv /\ UNCHANGED forcedShutdown
       ELSE IF forcing = None
       THEN UNCHANGED <<connVars, forcedShutdown>>
       ELSE ForceShutdown
  /\ UNCHANGED <<sendVars, closeVars, forcing, forceCancel, endVars, iqVars, outcome,
                 accepted>>

(* stanza_received_cb told of an error while a force close is in progress *)
ForceShutdownStep ==
  /\ Running("force_shutdown")
  /\ stack' = Tail(stack)
  /\ ForceShutdown
  /\ UNCHANGED <<sendVars, closeVars, forcing, forceCancel, endVars, iqVars, outcome,
                 accepted>>

Run == \/ TerminateStep \/ SendNext \/ CloseIfWaitingStep \/ MaybeRemoveStep
       \/ ForceCloseRest \/ RemoteClosedRest \/ ReceiveDone \/ ReceivedRest
       \/ ForceShutdownStep

(***************************************************************************)
(* The connection's callbacks, dispatched by the main loop.                *)
(***************************************************************************)

(* send_stanza_cb, success: the head of the queue is the one that was      *)
(* written, unless it was terminated meanwhile.  The completion of an IQ's *)
(* stanza is iq_sent_cb, which calls nobody.                               *)
StanzaWritten ==
  /\ AtLoop
  /\ writing \in Stanzas
  /\ ConnWritten
  /\ IF queue = <<>>
       THEN UNCHANGED <<queue, armed, iqVars, outcome, stack>>
       ELSE LET s == Head(queue) IN
            /\ queue' = Tail(queue)
            /\ armed' = armed \ {s}
            /\ IF s \in Iqs
                 THEN /\ iqSent' = iqSent \cup {s}
                      /\ iqTable' = IF outcome[s] = "pending" THEN iqTable
                                                              ELSE iqTable \ {s}
                      /\ stack' = <<Frame("send_next")>>
                      /\ UNCHANGED outcome
                 ELSE /\ Resolve(s, "ok")
                      /\ stack' = Callout("send") \o <<Frame("send_next")>>
                      /\ UNCHANGED iqVars
  /\ UNCHANGED <<pinging, closeVars, forceVars, endVars, accepted>>

(* send_stanza_cb, failure *)
StanzaFailed(why) ==
  /\ stack' = <<Terminate(why), Frame("close_if_waiting")>>
  /\ UNCHANGED <<sendVars, closeVars, forceVars, endVars, iqVars, outcome, accepted>>

(* send_whitespace_ping_cb *)
PingDone(r) ==
  /\ pinging' = None
  /\ Resolve(pinging, r)
  /\ stack' = Callout("ping") \o
       (IF r = "ok" THEN <<Frame("send_next")>>
                    ELSE <<Terminate(r), Frame("close_if_waiting")>>)
  /\ UNCHANGED <<queue, armed, closeVars, forceVars, endVars, iqVars, accepted>>

M_NeverAwait == FALSE
AwaitsPeer == closeCancel # "cancelled" /\ ~remoteClosed

(* close_sent_cb; without a pending close_result there is nothing to       *)
(* complete (a failure is then reported to the NULL result)                *)
CloseSent(r) ==
  /\ localClosed' = TRUE
  /\ IF closing = None \/ (r = "ok" /\ AwaitsPeer)
       THEN UNCHANGED <<closing, closeCancel, forceCancel, outcome>>
       ELSE CompleteClose(r)
  /\ UNCHANGED <<sendVars, waiting, forcing, forcedShutdown, remoteClosed, receive,
                 iqVars, accepted, stack>>

PingWritten == AtLoop /\ writing = Ping /\ ConnWritten /\ PingDone("ok")
CloseWritten == AtLoop /\ writing = Close /\ ConnWritten /\ CloseSent("ok")

WriteFailed ==
  /\ AtLoop
  /\ \/ writing \in Stanzas /\ StanzaFailed("failed")
     \/ writing = Ping /\ PingDone("failed")
     \/ writing = Close /\ CloseSent("failed")
  /\ ConnWriteFailed

(* remote_connection_closed up to the signal; why is "aborted" for the     *)
(* error CONNECTION_ERROR_CLOSED and "failed" for any other                *)
RemoteConnectionClosed(why, rest) ==
  /\ AbortPendingIqs(why)
  /\ remoteClosed' = TRUE
  /\ stack' = Callout("remote") \o <<RemoteRest(why)>> \o rest
  /\ UNCHANGED <<sendVars, closeVars, forceVars, localClosed, receive, iqSent, accepted>>

(* stanza_received_cb with no stanza while a force close is in progress *)
ReceiveEndedForced ==
  /\ stack' = <<Frame("force_shutdown")>>
  /\ UNCHANGED <<sendVars, closeVars, forceVars, endVars, iqVars, outcome, accepted>>

(* The peer closes its stream ("aborted") or it breaks ("failed"), which   *)
(* the reader only knows about if what broke was the XML.                  *)
ReceiveEnded(why) ==
  /\ AtLoop
  /\ \E over \in BOOLEAN : (why = "aborted" => over) /\ ConnReceived(over)
  /\ IF forcing # None THEN ReceiveEndedForced
                       ELSE RemoteConnectionClosed(why, <<>>)

(* The receive is cancelled, which only force_close_async does. *)
ReceiveCancelled ==
  /\ AtLoop
  /\ receive = "cancelled"
  /\ ConnReceived(FALSE)
  /\ IF forcing # None THEN ReceiveEndedForced
                       ELSE RemoteConnectionClosed("failed", <<>>)

(* A stanza is taken out of the reader.  If the peer's </stream> came with *)
(* it, the reader is closed from then on, and the next receive fails.      *)
ConnStanza == \E over \in BOOLEAN : ConnReceived(over)

(* A stanza for the application's handlers *)
ReceiveStanza ==
  /\ AtLoop
  /\ ConnStanza
  /\ stack' = Callout("handler") \o <<Frame("received_rest")>>
  /\ UNCHANGED <<sendVars, closeVars, forceVars, endVars, iqVars, outcome, accepted>>

(* The reply to an IQ whose last byte is out: handle_iq_reply.  A reply    *)
(* nobody waits for goes on to the other handlers.                         *)
ReceiveReply(i) ==
  /\ AtLoop
  /\ i \in iqTable
  /\ writing = i \/ \E n \in DOMAIN wire : wire[n] = i
  /\ ConnStanza
  /\ IF outcome[i] = "pending"
       THEN /\ Resolve(i, "ok")
            /\ stack' = Callout("iq") \o <<MaybeRemove(i), Frame("received_rest")>>
       ELSE /\ stack' = <<MaybeRemove(i)>> \o Callout("handler")
                           \o <<Frame("received_rest")>>
            /\ UNCHANGED outcome
  /\ UNCHANGED <<sendVars, closeVars, forceVars, endVars, iqVars, accepted>>

(* A stream error, handled by handle_stream_error *)
ReceiveStreamError ==
  /\ AtLoop
  /\ ConnStanza
  /\ RemoteConnectionClosed("failed", <<Frame("received_rest")>>)

(* connection_force_close_cb *)
ForceCloseDone(r) ==
  /\ forcing' = None
  /\ localClosed' = TRUE
  /\ receive' = "null"
  /\ outcome' = [o \in Ops |-> IF o = forcing THEN r ELSE outcome[o]]
  /\ UNCHANGED <<sendVars, closeVars, forceCancel, forcedShutdown, remoteClosed,
                 iqVars, accepted, stack>>

StreamTorn ==
  /\ AtLoop
  /\ \E ok \in BOOLEAN : ConnTorn(ok) /\ ForceCloseDone(IF ok THEN "ok" ELSE "failed")

(* The reply waiting longest in an idle source is delivered. *)
IdleReply ==
  /\ AtLoop
  /\ \E c \in IdleCalls :
     /\ ConnIdle(c)
     /\ \/ c.cb = "stanza" /\ StanzaFailed(c.why)
        \/ c.cb = "ping" /\ PingDone(c.why)
        \/ c.cb = "close" /\ CloseSent(c.why)
        \/ c.cb = "recv" /\ IF forcing # None
                            THEN ReceiveEndedForced
                            ELSE RemoteConnectionClosed("failed", <<>>)
        \/ c.cb = "force" /\ ForceCloseDone(c.why)
        \/ c.cb = "iqsent" /\ c.op \in Iqs /\ IqSendFailed(c.op, c.why, <<>>)
           /\ UNCHANGED <<sendVars, closeVars, forceVars, endVars, accepted>>

Deliver == StanzaWritten \/ PingWritten \/ CloseWritten

Next ==
  \/ \E s \in Stanzas : Send(s) \/ SendIq(s) \/ Cancel(s)
  \/ \E p \in Pings : SendPing(p)
  \/ Start
  \/ \E o \in CloseOps, c \in BOOLEAN : CloseAsync(o, c)
  \/ CancelClose
  \/ \E o \in ForceOps, c \in BOOLEAN : ForceCloseAsync(o, c)
  \/ Return
  \/ Run
  \/ Deliver
  \/ WriteFailed
  \/ \E why \in {"aborted", "failed"} : ReceiveEnded(why)
  \/ ReceiveCancelled
  \/ ReceiveStanza
  \/ \E i \in Iqs : ReceiveReply(i)
  \/ ReceiveStreamError
  \/ StreamTorn
  \/ IdleReply

Spec == Init /\ [][Next]_vars

(***************************************************************************)
(* Fairness.  A source of the GLib main loop that stays ready or becomes   *)
(* ready again and again is dispatched; a library function that was cut in *)
(* two goes on when the application returns, and the application returns.  *)
(* The stream finishes what it was asked to do, one way or the other.      *)
(***************************************************************************)
LoopFairness ==
  /\ WF_vars(Run)
  /\ WF_vars(Return)
  /\ SF_vars(IdleReply)
  /\ SF_vars(Deliver \/ WriteFailed)
  /\ SF_vars(ReceiveCancelled)
  /\ SF_vars(StreamTorn)

(* The peer ends its stream once we have ended ours (RFC 6120, 4.4). *)
PeerFairness == SF_vars(outClosed /\ \E why \in {"aborted", "failed"} : ReceiveEnded(why))

FairSpec == Spec /\ LoopFairness

-----------------------------------------------------------------------------
(* The porter never starts an output operation while another one is in     *)
(* progress, so nobody is told of "Another send operation is pending".     *)
NoBusyReply == ~forcedShutdown => \A o \in Ops : outcome[o] # "busy"

(* An IQ's handler outlives every part of the library that still points to *)
(* it: its stanza in the queue, the idle completion of a cancelled sending,*)
(* a function suspended in the middle of completing it.                    *)
IqHandlerAlive ==
  /\ \A n \in DOMAIN stack : stack[n].fn = "maybe_remove" => stack[n].op \in iqTable
  /\ \A n \in DOMAIN queue : queue[n] \in Iqs => queue[n] \in iqTable
  /\ \A n \in DOMAIN idle : idle[n].cb = "iqsent" => idle[n].op \in iqTable

(* Between two callbacks the reply table holds exactly the IQs that still  *)
(* wait for something: no entry leaks, and no caller waits without one.    *)
IqTableExact ==
  AtLoop => \A i \in Iqs :
    i \in iqTable <=> outcome[i] = "pending" \/ (outcome[i] # "new" /\
                        (Contains(queue, i) \/ \E n \in DOMAIN idle : idle[n].op = i))

(* The assertions of close_async and force_close_async: when they take a   *)
(* cancellable the field is free.                                          *)
CloseStateFree ==
  /\ ~localClosed /\ ~NotStarted /\ ~Closing => closeCancel = "null"
  /\ forcing = None /\ ~(receive = "null" /\ (localClosed \/ ~remoteClosed))
       => forceCancel = "null"

(* The assertion of connection_force_close_cb: the force close that is     *)
(* answered still has its result, that is, two never overlap on the        *)
(* connection.                                                             *)
ForceCloseHasResult ==
  /\ tearing => forcing # None
  /\ \A n \in DOMAIN idle : idle[n].cb # "force"

(* A stanza's cancel signal is connected only while the stanza waits in    *)
(* the queue: send_cancelled_cb neither meets a freed element nor takes    *)
(* out the one that is being written.                                      *)
CancelFindsWaiting == \A s \in armed : Contains(queue, s) /\ s # writing

(* close_async flushes first: our </stream> is handed over only when       *)
(* nothing is left to send.                                                *)
CloseFlushes ==
  ~forcedShutdown /\ writing = Close => queue = <<>> /\ pinging = None

(* An IQ's handler lives exactly as long as somebody needs it.             *)
IqBookkeeping == IqHandlerAlive /\ IqTableExact

(* Nothing is started where something is still going on: no second output  *)
(* operation, no completion of a stanza that has left the queue, no        *)
(* </stream> before the last stanza, no second close.                      *)
NothingOverlaps == NoBusyReply /\ CancelFindsWaiting /\ CloseStateFree /\ CloseFlushes

(* A close succeeds only when both sides have ended their streams. *)
CloseMeansBothClosed ==
  [][\A o \in CloseOps : outcome[o] = "pending" /\ outcome'[o] = "ok"
       => outClosed' /\ remoteClosed]_vars

(* Every call is answered at most once: an answer is never overwritten. *)
Open == {"new", "pending"}
AnsweredOnce ==
  [][\A o \in Ops : outcome[o] \notin Open => outcome'[o] = outcome[o]]_vars

(* A force close needs nobody's cooperation, and takes with it the pending *)
(* close and the IQs that wait for a reply.                                *)
ForceCloseEnds ==
  \A o \in Ops \ Pings :
    outcome[o] = "pending" /\ forcing # None ~> outcome[o] # "pending"

(* Whatever was accepted for sending is answered, by the loop alone. *)
SendsEnd == \A o \in (Stanzas \ Iqs) \cup Pings :
              outcome[o] = "pending" ~> outcome[o] # "pending"

(* With a peer that answers our </stream>, a close ends. *)
CloseEnds ==
  PeerFairness => \A o \in CloseOps : outcome[o] = "pending" ~> outcome[o] # "pending"

(* Every call that has a way to end does: the loop owes the answer of each. *)
CallsEnd == ForceCloseEnds /\ SendsEnd /\ CloseEnds

(* The send path keeps the promise of OrderedSending.  In transit: the     *)
(* stanza being written even if terminate_sending_operations has already   *)
(* taken it out of the queue.                                              *)
InTransit == IF writing \in Stanzas /\ (queue = <<>> \/ Head(queue) # writing)
               THEN <<writing>> ELSE <<>>
Told(s) == CASE outcome[s] \in Open -> "nothing"
             [] outcome[s] = "ok"   -> "ok"
             [] OTHER               -> "error"
Promise == INSTANCE OrderedSending WITH
  Reported <- Stanzas \ Iqs,
  todo <- InTransit \o queue,
  told <- [s \in Stanzas \ Iqs |-> Told(s)],
  shut <- forcedShutdown
SendsInOrder == Promise!Spec

(* remote_connection_closed completes the pending IQs "as we won't be able *)
(* to receive their IQ replies": no IQ waits on a stream that is over.     *)
IqsEndWithStream ==
  \A i \in Iqs : outcome[i] = "pending" /\ remoteClosed ~> outcome[i] # "pending"

(* close_sent_cb: "close operation could already be completed", yet the    *)
(* error of a close that failed is set on its result.                      *)
CloseErrorHasResult ==
  [][writing = Close /\ writing' = None /\ ~outClosed' => closing # None]_vars

(* send_finish is documented to return TRUE on success; a TRUE for a       *)
(* stanza that never left is the answer to another stanza's writing.       *)
OkMeansWritten == \A s \in Stanzas \ Iqs : outcome[s] = "ok" => Contains(wire, s)

(* NoBusyReply without its escape, for an application that sends from the  *)
(* callback of a send.                                                     *)
SendFromCallbackWorks == \A s \in Stanzas : outcome[s] # "busy"

=============================================================================
