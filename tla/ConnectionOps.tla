--------------------------- MODULE ConnectionOps ---------------------------
(***************************************************************************)
(* WockyXmppConnection as its callers see it: one output operation and one *)
(* input operation may be pending, a call made while the slot is taken or  *)
(* the direction is closed is answered by an error from an idle callback,  *)
(* and an accepted operation is answered once the stream has done it.      *)
(*                                                                         *)
(* Bytes and partial writes are left to XmppConnection, which refines the  *)
(* output half of this module.  The stream is open in both directions when *)
(* the model starts (the connector opens it before a porter exists).       *)
(***************************************************************************)
EXTENDS Naturals, Sequences

CONSTANTS Stanzas,   \* what can be handed to send_stanza_async
          None       \* the NULL pointer

(* The output operations other than a stanza. *)
Ping  == "ping"
Close == "close"
Outputs == Stanzas \cup {Ping, Close}

ASSUME ConnAssumption == None \notin Outputs /\ {Ping, Close} \cap Stanzas = {}

VARIABLES
  writing,    \* output_result: the output operation in progress, or None
  outClosed,  \* output_closed: our </stream> has been sent
  wire,       \* the stanzas completely written, in order
  reading,    \* input_result # NULL: a receive is pending
  inClosed,   \* the reader has left state OPENED: the peer closed or broke the stream
  tearing,    \* force_close_result # NULL: the stream is being closed under us
  torn,       \* the stream has been closed under us
  idle        \* error replies waiting in idle sources, oldest first

connVars == <<writing, outClosed, wire, reading, inClosed, tearing, torn, idle>>

(* An idle callback: who is to be told (cb) and of which error (why).      *)
(* "iqsent" belongs to the porter, which queues its own idle replies.      *)
IdleCalls == [cb  : {"stanza", "ping", "close", "recv", "force", "iqsent"},
              op  : Stanzas \cup {None},
              why : {"busy", "failed", "cancelled"}]

IdleCall(cb, op, why) == [cb |-> cb, op |-> op, why |-> why]

ConnTypeOK ==
  /\ writing \in Outputs \cup {None}
  /\ outClosed \in BOOLEAN
  /\ wire \in Seq(Stanzas)
  /\ reading \in BOOLEAN
  /\ inClosed \in BOOLEAN
  /\ tearing \in BOOLEAN
  /\ torn \in BOOLEAN
  /\ idle \in Seq(IdleCalls)

ConnInit ==
  /\ writing = None
  /\ outClosed = FALSE
  /\ wire = <<>>
  /\ reading = FALSE
  /\ inClosed = FALSE
  /\ tearing = FALSE
  /\ torn = FALSE
  /\ idle = <<>>

CallbackOf(x) == IF x \in Stanzas THEN "stanza" ELSE x

(***************************************************************************)
(* Calls made by the porter.  Each constrains every connection variable.   *)
(***************************************************************************)

(* send_stanza_async, send_whitespace_ping_async, send_close_async *)
ConnSend(x) ==
  /\ IF writing # None \/ outClosed
       THEN /\ idle' = Append(idle,
                 IdleCall(CallbackOf(x), None,
                          IF writing # None THEN "busy" ELSE "failed"))
            /\ UNCHANGED writing
       ELSE /\ writing' = x
            /\ UNCHANGED idle
  /\ UNCHANGED <<outClosed, wire, reading, inClosed, tearing, torn>>

(* recv_stanza_async *)
ConnRecv ==
  /\ IF reading \/ inClosed
       THEN /\ idle' = Append(idle,
                 IdleCall("recv", None, IF reading THEN "busy" ELSE "failed"))
            /\ UNCHANGED reading
       ELSE /\ reading' = TRUE
            /\ UNCHANGED idle
  /\ UNCHANGED <<writing, outClosed, wire, inClosed, tearing, torn>>

(* force_close_async *)
ConnForceClose ==
  /\ IF tearing
       THEN /\ idle' = Append(idle, IdleCall("force", None, "busy"))
            /\ UNCHANGED tearing
       ELSE /\ tearing' = TRUE
            /\ UNCHANGED idle
  /\ UNCHANGED <<writing, outClosed, wire, reading, inClosed, torn>>

(***************************************************************************)
(* Completions, seen from the callback that the main loop runs.            *)
(***************************************************************************)

(* write_cb has pushed out the last byte and the finish function has run:  *)
(* only send_close_finish records anything.  GIO lets no write succeed on  *)
(* a stream that has been closed.                                          *)
ConnWritten ==
  /\ writing # None /\ ~torn
  /\ wire' = IF writing \in Stanzas THEN Append(wire, writing) ELSE wire
  /\ outClosed' = (outClosed \/ writing = Close)
  /\ writing' = None
  /\ UNCHANGED <<reading, inClosed, tearing, torn, idle>>

(* write_cb was told of an error, of end of stream or of a cancellation. *)
ConnWriteFailed ==
  /\ writing # None
  /\ writing' = None
  /\ UNCHANGED <<outClosed, wire, reading, inClosed, tearing, torn, idle>>

(* The pending receive ends; ends says whether the peer's side of the      *)
(* stream is over (its </stream>, or a parse error).                       *)
ConnReceived(ends) ==
  /\ reading
  /\ reading' = FALSE
  /\ inClosed' = (inClosed \/ ends)
  /\ UNCHANGED <<writing, outClosed, wire, tearing, torn, idle>>

(* stream_close_cb; ok says whether the stream was closed *)
ConnTorn(ok) ==
  /\ tearing
  /\ tearing' = FALSE
  /\ torn' = (torn \/ ok)
  /\ UNCHANGED <<writing, outClosed, wire, reading, inClosed, idle>>

(* The oldest idle reply is delivered. *)
ConnIdle(c) ==
  /\ idle # <<>>
  /\ c = Head(idle)
  /\ idle' = Tail(idle)
  /\ UNCHANGED <<writing, outClosed, wire, reading, inClosed, tearing, torn>>

=============================================================================
