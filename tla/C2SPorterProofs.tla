-------------------------- MODULE C2SPorterProofs --------------------------
(***************************************************************************)
(* Theorems about C2SPorter, for every set of stanzas and calls and every  *)
(* choice of re-entrant callouts: its states are well typed, no call is    *)
(* answered twice, and the assertion of connection_force_close_cb never    *)
(* fails; then the handlers of IQs and the ends of the streams; then that  *)
(* the cancel signals follow the queue, that the porter never starts an    *)
(* output operation over another, and that what it does with plain stanzas *)
(* implements OrderedSending.                                              *)
(***************************************************************************)
EXTENDS C2SPorter, TLAPS

(* What the connection's operations do to its variables' types *)
LEMMA QueuedType ==
  ASSUME ConnTypeOK, NEW c \in IdleCalls, idle' = idle \/ idle' = Append(idle, c)
  PROVE  idle' \in Seq(IdleCalls)
BY DEF ConnTypeOK

LEMMA ConnSendType ==
  ASSUME NEW x \in Outputs, ConnTypeOK, ConnSend(x)
  PROVE  ConnTypeOK'
<1>1. IdleCall(CallbackOf(x), None, IF writing # None THEN "busy" ELSE "failed") \in IdleCalls
  BY DEF IdleCall, IdleCalls, CallbackOf, Outputs, Ping, Close
<1>2. idle' \in Seq(IdleCalls)
  BY <1>1, QueuedType DEF ConnSend
<1>3. writing' \in Outputs \cup {None}
  BY DEF ConnTypeOK, ConnSend
<1> QED
  BY <1>2, <1>3 DEF ConnTypeOK, ConnSend

LEMMA ConnRecvType ==
  ASSUME ConnTypeOK, ConnRecv
  PROVE  ConnTypeOK'
<1>1. IdleCall("recv", None, IF reading THEN "busy" ELSE "failed") \in IdleCalls
  BY DEF IdleCall, IdleCalls
<1>2. idle' \in Seq(IdleCalls)
  BY <1>1, QueuedType DEF ConnRecv
<1>3. reading' \in BOOLEAN
  BY DEF ConnTypeOK, ConnRecv
<1>4. UNCHANGED <<writing, outClosed, wire, inClosed, tearing, torn>>
  BY DEF ConnRecv
<1> QED
  BY <1>2, <1>3, <1>4 DEF ConnTypeOK

LEMMA ConnForceCloseType ==
  ASSUME ConnTypeOK, ConnForceClose
  PROVE  ConnTypeOK'
<1>1. IdleCall("force", None, "busy") \in IdleCalls
  BY DEF IdleCall, IdleCalls
<1>2. idle' \in Seq(IdleCalls)
  BY <1>1 DEF ConnTypeOK, ConnForceClose
<1>3. tearing' \in BOOLEAN
  BY DEF ConnTypeOK, ConnForceClose
<1> QED
  BY <1>2, <1>3 DEF ConnTypeOK, ConnForceClose, Outputs

LEMMA ConnDoneType ==
  ASSUME ConnTypeOK,
         \/ ConnWritten
         \/ ConnWriteFailed
         \/ \E ends \in BOOLEAN : ConnReceived(ends)
         \/ \E ok \in BOOLEAN : ConnTorn(ok)
         \/ \E c \in IdleCalls : ConnIdle(c)
         \/ UNCHANGED connVars
  PROVE  ConnTypeOK'
<1>1. CASE ConnWritten
  BY <1>1 DEF ConnTypeOK, ConnWritten, Outputs
<1>2. CASE ConnWriteFailed
  BY <1>2 DEF ConnTypeOK, ConnWriteFailed, Outputs
<1>3. CASE \E ends \in BOOLEAN : ConnReceived(ends)
  BY <1>3 DEF ConnTypeOK, ConnReceived, Outputs
<1>4. CASE \E ok \in BOOLEAN : ConnTorn(ok)
  BY <1>4 DEF ConnTypeOK, ConnTorn, Outputs
<1>5. CASE \E c \in IdleCalls : ConnIdle(c)
  BY <1>5 DEF ConnTypeOK, ConnIdle, Outputs
<1>6. CASE UNCHANGED connVars
  BY <1>6 DEF ConnTypeOK, connVars, Outputs
<1> QED
  BY <1>1, <1>2, <1>3, <1>4, <1>5, <1>6

(* What may be pushed on the stack *)
LEMMA FrameType ==
  /\ \A fn \in Functions : Frame(fn) \in Frames
  /\ \A why \in Errors : Terminate(why) \in Frames /\ RemoteRest(why) \in Frames
  /\ \A i \in Iqs : MaybeRemove(i) \in Frames
  /\ \A kind \in Callouts : Callout(kind) \in Seq(Frames)
<1>1. \A fn \in Functions : Frame(fn) \in Frames
  BY DEF Frame, Frames
<1>2. \A why \in Errors : Terminate(why) \in Frames /\ RemoteRest(why) \in Frames
  BY DEF Terminate, RemoteRest, Frame, Frames
<1>3. \A i \in Iqs : MaybeRemove(i) \in Frames
  BY DEF MaybeRemove, Frame, Frames
<1>4. \A kind \in Callouts : Callout(kind) \in Seq(Frames)
  BY <1>1 DEF Callout, Functions
<1> QED
  BY <1>1, <1>2, <1>3, <1>4

LEMMA TopFrame ==
  ASSUME stack \in Seq(Frames), stack # <<>>
  PROVE  /\ Tail(stack) \in Seq(Frames)
         /\ Running("terminate") => Head(stack).why \in Errors
         /\ Running("remote_closed_rest") => Head(stack).why \in Errors
         /\ Running("maybe_remove") => Head(stack).op \in Iqs
<1>1. Head(stack) \in Frames /\ Tail(stack) \in Seq(Frames)
  OBVIOUS
<1>2. ASSUME NEW f \in Frames
      PROVE  /\ f.fn \in {"terminate", "remote_closed_rest"} => f.why \in Errors
             /\ f.fn = "maybe_remove" => f.op \in Iqs
  BY DEF Frames, Functions
<1> QED
  BY <1>1, <1>2 DEF Running

LEMMA ConcatType ==
  ASSUME NEW S, NEW a \in Seq(S), NEW b \in Seq(S)
  PROVE  a \o b \in Seq(S)
OBVIOUS

LEMMA RemoveAtType ==
  ASSUME NEW S, NEW q \in Seq(S), NEW n \in DOMAIN q
  PROVE  RemoveAt(q, n) \in Seq(S)
BY DEF RemoveAt

LEMMA ResolveType ==
  ASSUME NEW o, NEW r \in Outcomes, outcome \in [Ops -> Outcomes], Resolve(o, r)
  PROVE  outcome' \in [Ops -> Outcomes]
BY DEF Resolve

LEMMA EnqueueType ==
  ASSUME TypeOK, NEW s \in Stanzas, Enqueue(s), iqTable' \subseteq Iqs
  PROVE  TypeOK'
<1>1. CASE Closing
  <2>1. ConnTypeOK'
    BY <1>1, ConnDoneType DEF TypeOK, Enqueue, PushTail
  <2>2. outcome' \in [Ops -> Outcomes]
    BY <1>1, ResolveType DEF TypeOK, Enqueue, PushTail, Outcomes, Errors
  <2> QED
    BY <1>1, <2>1, <2>2
    DEF TypeOK, Enqueue, PushTail, closeVars, forceVars, endVars
<1>2. CASE ~Closing
  <2>1. ConnTypeOK' /\ armed' \subseteq Stanzas
    <3>1. CASE SendingInProgress
      BY <1>2, <3>1, ConnDoneType DEF TypeOK, Enqueue, PushTail
    <3>2. CASE ~SendingInProgress
      BY <1>2, <3>2, ConnSendType DEF TypeOK, Enqueue, PushTail, SendHead, Outputs
    <3> QED
      BY <3>1, <3>2
  <2>2. outcome' \in [Ops -> Outcomes]
    BY <1>2, ResolveType DEF TypeOK, Enqueue, PushTail, Outcomes
  <2>3. queue' = Append(queue, s) /\ accepted' = Append(accepted, s)
    BY <1>2 DEF Enqueue, PushTail
  <2>4. UNCHANGED <<pinging, closeVars, forceVars, endVars, iqSent, stack>>
    BY DEF Enqueue, PushTail
  <2> QED
    BY <2>1, <2>2, <2>3, <2>4 DEF TypeOK, closeVars, forceVars, endVars
<1> QED
  BY <1>1, <1>2

LEMMA IqSendFailedType ==
  ASSUME TypeOK, NEW i \in Iqs, NEW why \in Errors, NEW rest \in Seq(Frames),
         IqSendFailed(i, why, rest)
  PROVE  /\ iqSent' \subseteq Iqs /\ iqTable' \subseteq Iqs
         /\ outcome' \in [Ops -> Outcomes]
         /\ stack' \in Seq(Frames)
<1>1. CASE outcome[i] = "pending"
  <2>1. outcome' \in [Ops -> Outcomes]
    BY <1>1, ResolveType DEF TypeOK, IqSendFailed, Outcomes
  <2>2. Callout("iq") \in Seq(Frames) /\ <<MaybeRemove(i)>> \in Seq(Frames)
    BY FrameType DEF Callouts
  <2>3. stack' = Callout("iq") \o <<MaybeRemove(i)>> \o rest
    BY <1>1 DEF IqSendFailed
  <2>4. stack' \in Seq(Frames)
    BY <2>2, <2>3
  <2> QED
    BY <1>1, <2>1, <2>4 DEF TypeOK, IqSendFailed
<1>2. CASE outcome[i] # "pending"
  BY <1>2 DEF TypeOK, IqSendFailed
<1> QED
  BY <1>1, <1>2

LEMMA CompleteCloseType ==
  ASSUME TypeOK, NEW why \in Outcomes, CompleteClose(why)
  PROVE  /\ outcome' \in [Ops -> Outcomes]
         /\ closing' \in CloseOps \cup {None}
         /\ closeCancel' \in Cancellable /\ forceCancel' \in Cancellable
<1>1. outcome' \in [Ops -> Outcomes]
  BY ResolveType DEF TypeOK, CompleteClose, Outcomes, Errors
<1> QED
  BY <1>1 DEF CompleteClose, Cancellable

LEMMA ForceShutdownType ==
  ASSUME TypeOK, ForceShutdown
  PROVE  ConnTypeOK' /\ forcedShutdown' \in BOOLEAN
<1>1. CASE forcedShutdown
  BY <1>1, ConnDoneType DEF TypeOK, ForceShutdown
<1>2. CASE ~forcedShutdown
  BY <1>2, ConnForceCloseType DEF TypeOK, ForceShutdown
<1> QED
  BY <1>1, <1>2

LEMMA CloseIfWaitingType ==
  ASSUME TypeOK, CloseIfWaiting
  PROVE  ConnTypeOK' /\ waiting' \in BOOLEAN
<1>1. CASE waiting /\ ~SendingInProgress
  BY <1>1, ConnSendType DEF TypeOK, CloseIfWaiting, Outputs
<1>2. CASE ~(waiting /\ ~SendingInProgress)
  BY <1>2, ConnDoneType DEF TypeOK, CloseIfWaiting
<1> QED
  BY <1>1, <1>2

LEMMA AbortPendingIqsType ==
  ASSUME TypeOK, NEW why \in Errors
  PROVE  Aborted(why) \in [Ops -> Outcomes] /\ TableAfterAbort \subseteq Iqs
BY DEF TypeOK, Aborted, TableAfterAbort, Outcomes

LEMMA RemoteConnectionClosedType ==
  ASSUME TypeOK, ConnTypeOK', NEW why \in Errors, NEW rest \in Seq(Frames),
         RemoteConnectionClosed(why, rest)
  PROVE  TypeOK'
<1>1. outcome' \in [Ops -> Outcomes] /\ iqTable' \subseteq Iqs
  BY AbortPendingIqsType DEF RemoteConnectionClosed, AbortPendingIqs
<1>2. stack' \in Seq(Frames)
  <2>1. Callout("remote") \in Seq(Frames)
    BY FrameType DEF Callouts
  <2>2. RemoteRest(why) \in Frames
    BY FrameType
  <2>3. stack' = Callout("remote") \o <<RemoteRest(why)>> \o rest
    BY DEF RemoteConnectionClosed
  <2> QED
    BY <2>1, <2>2, <2>3
<1>3. /\ remoteClosed' \in BOOLEAN
      /\ UNCHANGED <<sendVars, closeVars, forceVars, localClosed, receive, iqSent, accepted>>
  BY DEF RemoteConnectionClosed
<1> QED
  BY <1>1, <1>2, <1>3 DEF TypeOK, sendVars, closeVars, forceVars

LEMMA ReceiveEndedForcedType ==
  ASSUME TypeOK, ConnTypeOK', ReceiveEndedForced
  PROVE  TypeOK'
<1>1. stack' \in Seq(Frames)
  BY FrameType DEF ReceiveEndedForced, Functions
<1> QED
  BY <1>1 DEF TypeOK, ReceiveEndedForced, sendVars, closeVars, forceVars, endVars, iqVars

LEMMA CloseSentType ==
  ASSUME TypeOK, ConnTypeOK', NEW r \in Outcomes, CloseSent(r)
  PROVE  TypeOK'
<1>1. /\ outcome' \in [Ops -> Outcomes]
      /\ closing' \in CloseOps \cup {None}
      /\ closeCancel' \in Cancellable /\ forceCancel' \in Cancellable
  <2>1. CASE closing = None \/ (r = "ok" /\ AwaitsPeer)
    BY <2>1 DEF TypeOK, CloseSent
  <2>2. CASE ~(closing = None \/ (r = "ok" /\ AwaitsPeer))
    BY <2>2, CompleteCloseType DEF CloseSent
  <2> QED
    BY <2>1, <2>2
<1>2. /\ localClosed' \in BOOLEAN
      /\ UNCHANGED <<sendVars, waiting, forcing, forcedShutdown, remoteClosed, receive,
                     iqVars, accepted, stack>>
  BY DEF CloseSent
<1> QED
  BY <1>1, <1>2 DEF TypeOK, sendVars, iqVars

LEMMA StanzaFailedType ==
  ASSUME TypeOK, ConnTypeOK', NEW why \in Errors, StanzaFailed(why)
  PROVE  TypeOK'
<1>1. stack' \in Seq(Frames)
  BY FrameType DEF StanzaFailed, Functions
<1> QED
  BY <1>1 DEF TypeOK, StanzaFailed, sendVars, closeVars, forceVars, endVars, iqVars

LEMMA PingDoneType ==
  ASSUME TypeOK, ConnTypeOK', NEW r \in Errors \cup {"ok"}, PingDone(r)
  PROVE  TypeOK'
<1>1. outcome' \in [Ops -> Outcomes]
  BY ResolveType DEF TypeOK, PingDone, Outcomes
<1>2. stack' \in Seq(Frames)
  <2>1. Callout("ping") \in Seq(Frames)
    BY FrameType DEF Callouts
  <2>2. CASE r = "ok"
    <3>1. <<Frame("send_next")>> \in Seq(Frames)
      BY FrameType DEF Functions
    <3> QED
      BY <2>1, <2>2, <3>1 DEF PingDone
  <2>3. CASE r # "ok"
    <3>1. <<Terminate(r), Frame("close_if_waiting")>> \in Seq(Frames)
      BY <2>3, FrameType DEF Functions
    <3> QED
      BY <2>1, <2>3, <3>1 DEF PingDone
  <2> QED
    BY <2>2, <2>3
<1>3. /\ pinging' = None
      /\ UNCHANGED <<queue, armed, closeVars, forceVars, endVars, iqVars, accepted>>
  BY DEF PingDone
<1> QED
  BY <1>1, <1>2, <1>3 DEF TypeOK, closeVars, forceVars, endVars, iqVars

LEMMA ForceCloseDoneType ==
  ASSUME TypeOK, ConnTypeOK', NEW r \in Outcomes, ForceCloseDone(r)
  PROVE  TypeOK'
<1>1. outcome' \in [Ops -> Outcomes]
  BY DEF TypeOK, ForceCloseDone
<1>2. /\ forcing' = None /\ localClosed' = TRUE /\ receive' = "null"
      /\ UNCHANGED <<sendVars, closeVars, forceCancel, forcedShutdown, remoteClosed,
                     iqVars, accepted, stack>>
  BY DEF ForceCloseDone
<1> QED
  BY <1>1, <1>2 DEF TypeOK, sendVars, closeVars, iqVars, Cancellable

(* Calls of the application *)
LEMMA CallType ==
  ASSUME TypeOK,
         \/ \E s \in Stanzas : Send(s) \/ SendIq(s) \/ Cancel(s)
         \/ \E p \in Pings : SendPing(p)
         \/ Start
         \/ \E o \in CloseOps, c \in BOOLEAN : CloseAsync(o, c)
         \/ CancelClose
         \/ \E o \in ForceOps, c \in BOOLEAN : ForceCloseAsync(o, c)
         \/ Return
  PROVE  TypeOK'
<1>1. ASSUME NEW s \in Stanzas, Send(s)
      PROVE  TypeOK'
  BY <1>1, EnqueueType DEF Send, TypeOK
<1>2. ASSUME NEW s \in Stanzas, SendIq(s)
      PROVE  TypeOK'
  <2>1. iqTable' \subseteq Iqs
    BY <1>2 DEF SendIq, TypeOK
  <2> QED
    BY <1>2, <2>1, EnqueueType DEF SendIq
<1>3. ASSUME NEW s \in Stanzas, Cancel(s)
      PROVE  TypeOK'
  <2>1. outcome' \in [Ops -> Outcomes]
    BY <1>3, ResolveType DEF TypeOK, Cancel, Outcomes, Errors
  <2>2. /\ queue' \in Seq(Stanzas)
        /\ armed' \subseteq Stanzas
    <3>1. CASE s \in armed
      <4>1. PICK n \in DOMAIN queue : queue' = RemoveAt(queue, n)
        BY <1>3, <3>1 DEF Cancel
      <4> QED
        BY <1>3, <3>1, <4>1, RemoveAtType DEF TypeOK, Cancel
    <3>2. CASE s \notin armed
      BY <1>3, <3>2 DEF TypeOK, Cancel
    <3> QED
      BY <3>1, <3>2
  <2>3. idle' \in Seq(IdleCalls)
    <3> DEFINE c == IdleCall("iqsent", s, "cancelled")
    <3>1. c \in IdleCalls
      BY DEF IdleCall, IdleCalls
    <3>2. idle' = idle \/ idle' = Append(idle, c)
      BY <1>3 DEF Cancel
    <3>3. idle \in Seq(IdleCalls)
      BY DEF TypeOK, ConnTypeOK
    <3> HIDE DEF c
    <3> QED
      BY <3>1, <3>2, <3>3
  <2>4. iqTable' \subseteq Iqs
    BY <1>3 DEF TypeOK, Cancel
  <2>5. UNCHANGED <<pinging, closeVars, forceVars, endVars, iqSent, accepted, stack,
                    writing, outClosed, wire, reading, inClosed, tearing, torn>>
    BY <1>3 DEF Cancel
  <2>6. ConnTypeOK'
    BY <2>3, <2>5 DEF TypeOK, ConnTypeOK, Outputs
  <2> QED
    BY <2>1, <2>2, <2>4, <2>5, <2>6 DEF TypeOK, closeVars, forceVars, endVars
<1>4. ASSUME NEW p \in Pings, SendPing(p)
      PROVE  TypeOK'
  <2>1. outcome' \in [Ops -> Outcomes]
    <3>1. \E r \in Outcomes : Resolve(p, r)
      BY <1>4 DEF SendPing, Outcomes, Errors
    <3> QED
      BY <3>1, ResolveType DEF TypeOK
  <2>2. ConnTypeOK' /\ pinging' \in Pings \cup {None}
    <3>1. CASE Closing \/ SendingInProgress
      BY <1>4, <3>1, ConnDoneType DEF TypeOK, SendPing
    <3>2. CASE ~(Closing \/ SendingInProgress)
      BY <1>4, <3>2, ConnSendType DEF TypeOK, SendPing, Outputs
    <3> QED
      BY <3>1, <3>2
  <2>3. UNCHANGED <<queue, armed, closeVars, forceVars, endVars, iqVars, accepted, stack>>
    BY <1>4 DEF SendPing
  <2> QED
    BY <2>1, <2>2, <2>3 DEF TypeOK, closeVars, forceVars, endVars, iqVars
<1>5. ASSUME Start
      PROVE  TypeOK'
  <2>1. ConnTypeOK'
    BY <1>5, ConnRecvType DEF Start, TypeOK
  <2> QED
    BY <1>5, <2>1 DEF TypeOK, Start, Cancellable, sendVars, closeVars, forceVars, iqVars
<1>6. ASSUME NEW o \in CloseOps, NEW c \in BOOLEAN, CloseAsync(o, c)
      PROVE  TypeOK'
  <2>1. outcome' \in [Ops -> Outcomes]
    <3>1. \E r \in Outcomes : Resolve(o, r)
      BY <1>6 DEF CloseAsync, Outcomes, Errors
    <3> QED
      BY <3>1, ResolveType DEF TypeOK
  <2>2. /\ ConnTypeOK'
        /\ closing' \in CloseOps \cup {None}
        /\ closeCancel' \in Cancellable
        /\ waiting' \in BOOLEAN
    <3>1. CASE localClosed \/ NotStarted \/ Closing
      BY <1>6, <3>1, ConnDoneType DEF TypeOK, CloseAsync, closeVars
    <3>2. CASE ~(localClosed \/ NotStarted \/ Closing)
      <4>1. closing' \in CloseOps \cup {None} /\ closeCancel' \in Cancellable
        BY <1>6, <3>2 DEF TypeOK, CloseAsync, Cancellable
      <4>2. CASE SendingInProgress
        BY <1>6, <3>2, <4>1, <4>2, ConnDoneType DEF TypeOK, CloseAsync
      <4>3. CASE ~SendingInProgress
        BY <1>6, <3>2, <4>1, <4>3, ConnSendType DEF TypeOK, CloseAsync, Outputs
      <4> QED
        BY <4>2, <4>3
    <3> QED
      BY <3>1, <3>2
  <2>3. UNCHANGED <<sendVars, forceVars, endVars, iqVars, accepted, stack>>
    BY <1>6 DEF CloseAsync
  <2> QED
    BY <2>1, <2>2, <2>3 DEF TypeOK, sendVars, forceVars, endVars, iqVars
<1>7. ASSUME CancelClose
      PROVE  TypeOK'
  <2>1. ConnTypeOK'
    BY <1>7, ConnDoneType DEF CancelClose, TypeOK
  <2> QED
    BY <1>7, <2>1 DEF TypeOK, CancelClose, Cancellable, sendVars, forceVars, endVars, iqVars
<1>8. ASSUME NEW o \in ForceOps, NEW c \in BOOLEAN, ForceCloseAsync(o, c)
      PROVE  TypeOK'
  <2>1. /\ ConnTypeOK'
        /\ UNCHANGED <<sendVars, closeCancel, waiting, forcedShutdown, endVars, iqVars,
                       accepted>>
    BY <1>8, ConnDoneType DEF ForceCloseAsync, TypeOK
  <2>2. /\ outcome' \in [Ops -> Outcomes]
        /\ closing' \in CloseOps \cup {None} /\ forcing' \in ForceOps \cup {None}
        /\ forceCancel' \in Cancellable /\ stack' \in Seq(Frames)
    <3>1. CASE forcing # None \/ (receive = "null" /\ (localClosed \/ ~remoteClosed))
      <4>1. outcome' \in [Ops -> Outcomes]
        BY <1>8, <3>1, ResolveType DEF ForceCloseAsync, TypeOK, Outcomes, Errors
      <4> QED
        BY <1>8, <3>1, <4>1 DEF ForceCloseAsync, TypeOK
    <3>2. CASE ~(forcing # None \/ (receive = "null" /\ (localClosed \/ ~remoteClosed)))
      <4>1. outcome' \in [Ops -> Outcomes]
        BY <1>8, <3>2 DEF ForceCloseAsync, TypeOK, Outcomes, Errors
      <4>2. /\ closing' = None /\ forcing' = o
            /\ forceCancel' \in {"live", forceCancel}
        BY <1>8, <3>2 DEF ForceCloseAsync
      <4>3. stack' \in Seq(Frames)
        <5>1. <<Terminate("forced"), Frame("force_close_rest")>> \in Seq(Frames)
          BY FrameType DEF Errors, Functions
        <5>2. stack' = <<Terminate("forced"), Frame("force_close_rest")>> \o stack
          BY <1>8, <3>2 DEF ForceCloseAsync
        <5> QED
          BY <5>1, <5>2 DEF TypeOK
      <4> QED
        BY <4>1, <4>2, <4>3 DEF TypeOK, Cancellable
    <3> QED
      BY <3>1, <3>2
  <2> QED
    BY <2>1, <2>2 DEF TypeOK, sendVars, endVars, iqVars
<1>9. ASSUME Return
      PROVE  TypeOK'
  <2>1. ConnTypeOK'
    BY <1>9, ConnDoneType DEF Return, TypeOK
  <2>2. stack' \in Seq(Frames)
    BY <1>9 DEF Return, InUser, TypeOK
  <2> QED
    BY <1>9, <2>1, <2>2
    DEF TypeOK, Return, sendVars, closeVars, forceVars, endVars, iqVars
<1> QED
  BY <1>1, <1>2, <1>3, <1>4, <1>5, <1>6, <1>7, <1>8, <1>9

(* Suspended functions *)
LEMMA RunType ==
  ASSUME TypeOK, Run
  PROVE  TypeOK'
<1>1. ASSUME TerminateStep
      PROVE  TypeOK'
  <2>1. /\ ConnTypeOK'
        /\ UNCHANGED <<pinging, closeVars, forceVars, endVars, accepted>>
        /\ stack # <<>>
    BY <1>1, ConnDoneType DEF TerminateStep, TypeOK, Running
  <2>2. CASE queue = <<>>
    <3>1. /\ stack' = Tail(stack)
          /\ UNCHANGED <<queue, armed, iqVars, outcome>>
      BY <1>1, <2>2 DEF TerminateStep
    <3>2. stack' \in Seq(Frames)
      BY <2>1, <3>1, TopFrame DEF TypeOK
    <3> QED
      BY <2>1, <3>1, <3>2 DEF TypeOK, closeVars, forceVars, endVars, iqVars
  <2>3. CASE queue # <<>>
    <3>1. PICK s \in Stanzas :
            /\ queue' = Tail(queue)
            /\ armed' = armed \ {s}
            /\ IF s \in Iqs
                 THEN IqSendFailed(s, Head(stack).why, stack)
                 ELSE /\ Resolve(s, Head(stack).why)
                      /\ stack' = Callout("send") \o stack
                      /\ UNCHANGED iqVars
      <4>1. Head(queue) \in Stanzas
        BY <2>3 DEF TypeOK
      <4> QED
        BY <1>1, <2>3, <4>1 DEF TerminateStep
    <3>2. queue' \in Seq(Stanzas) /\ armed' \subseteq Stanzas
      BY <2>3, <3>1 DEF TypeOK
    <3>3. Head(stack).why \in Errors
      BY <1>1, <2>1, TopFrame DEF TerminateStep, TypeOK
    <3>4. /\ iqSent' \subseteq Iqs /\ iqTable' \subseteq Iqs
          /\ outcome' \in [Ops -> Outcomes]
          /\ stack' \in Seq(Frames)
      <4>1. CASE s \in Iqs
        BY <3>1, <3>3, <4>1, IqSendFailedType DEF TypeOK
      <4>2. CASE s \notin Iqs
        <5>1. outcome' \in [Ops -> Outcomes]
          BY <3>1, <3>3, <4>2, ResolveType DEF TypeOK, Outcomes
        <5>2. stack' \in Seq(Frames)
          <6>1. Callout("send") \in Seq(Frames)
            BY FrameType DEF Callouts
          <6>2. stack' = Callout("send") \o stack
            BY <3>1, <4>2
          <6> QED
            BY <6>1, <6>2 DEF TypeOK
        <5> QED
          BY <3>1, <4>2, <5>1, <5>2 DEF TypeOK, iqVars
      <4> QED
        BY <4>1, <4>2
    <3> QED
      BY <2>1, <3>2, <3>4 DEF TypeOK, closeVars, forceVars, endVars
  <2> QED
    BY <2>2, <2>3
<1>2. ASSUME SendNext
      PROVE  TypeOK'
  <2>1. stack' \in Seq(Frames)
    BY <1>2, TopFrame DEF SendNext, Running, TypeOK
  <2>2. ConnTypeOK' /\ armed' \subseteq Stanzas /\ waiting' \in BOOLEAN
    <3>1. CASE queue # <<>>
      <4>1. Head(queue) \in Outputs
        BY <3>1 DEF TypeOK, Outputs
      <4> QED
        BY <1>2, <3>1, <4>1, ConnSendType DEF SendNext, SendHead, TypeOK
    <3>2. CASE queue = <<>>
      BY <1>2, <3>2, CloseIfWaitingType DEF SendNext, TypeOK
    <3> QED
      BY <3>1, <3>2
  <2>3. UNCHANGED <<queue, pinging, closing, closeCancel, forceVars, endVars, iqVars,
                    outcome, accepted>>
    BY <1>2 DEF SendNext
  <2> QED
    BY <2>1, <2>2, <2>3 DEF TypeOK, forceVars, endVars, iqVars
<1>3. ASSUME CloseIfWaitingStep
      PROVE  TypeOK'
  <2>1. stack' \in Seq(Frames)
    BY <1>3, TopFrame DEF CloseIfWaitingStep, Running, TypeOK
  <2>2. ConnTypeOK' /\ waiting' \in BOOLEAN
    BY <1>3, CloseIfWaitingType DEF CloseIfWaitingStep
  <2> QED
    BY <1>3, <2>1, <2>2
    DEF TypeOK, CloseIfWaitingStep, sendVars, forceVars, endVars, iqVars
<1>4. ASSUME MaybeRemoveStep
      PROVE  TypeOK'
  <2>1. stack' \in Seq(Frames)
    BY <1>4, TopFrame DEF MaybeRemoveStep, Running, TypeOK
  <2>2. ConnTypeOK' /\ iqTable' \subseteq Iqs
    BY <1>4, ConnDoneType DEF MaybeRemoveStep, TypeOK
  <2> QED
    BY <1>4, <2>1, <2>2
    DEF TypeOK, MaybeRemoveStep, sendVars, closeVars, forceVars, endVars
<1>5. ASSUME ForceCloseRest
      PROVE  TypeOK'
  <2>1. stack' \in Seq(Frames)
    BY <1>5, TopFrame DEF ForceCloseRest, Running, TypeOK
  <2>2. iqTable' \subseteq Iqs
    BY <1>5, AbortPendingIqsType DEF ForceCloseRest, Errors
  <2>3. Aborted("forced") \in [Ops -> Outcomes]
    BY AbortPendingIqsType DEF Errors
  <2>4. /\ ConnTypeOK' /\ receive' \in Cancellable /\ forcedShutdown' \in BOOLEAN
        /\ forcing' \in ForceOps \cup {None} /\ outcome' \in [Ops -> Outcomes]
    <3>1. CASE ~remoteClosed
      BY <1>5, <2>3, <3>1, ConnDoneType DEF ForceCloseRest, TypeOK, Cancellable
    <3>2. CASE remoteClosed
      <4>1. ConnTypeOK' /\ forcedShutdown' \in BOOLEAN
        BY <1>5, <3>2, ForceShutdownType DEF ForceCloseRest
      <4>2. outcome' \in [Ops -> Outcomes]
        BY <1>5, <2>3, <3>2 DEF ForceCloseRest, Outcomes, Errors
      <4> QED
        BY <1>5, <3>2, <4>1, <4>2 DEF ForceCloseRest, TypeOK
    <3> QED
      BY <3>1, <3>2
  <2>5. UNCHANGED <<sendVars, closeVars, forceCancel, remoteClosed, localClosed, iqSent,
                    accepted>>
    BY <1>5 DEF ForceCloseRest
  <2> QED
    BY <2>1, <2>2, <2>4, <2>5 DEF TypeOK, sendVars, closeVars
<1>6. ASSUME RemoteClosedRest
      PROVE  TypeOK'
  <2>1. ConnTypeOK'
    BY <1>6, ConnDoneType DEF RemoteClosedRest, TypeOK
  <2>2. /\ outcome' \in [Ops -> Outcomes]
        /\ closing' \in CloseOps \cup {None}
        /\ closeCancel' \in Cancellable /\ forceCancel' \in Cancellable
    <3>1. CASE closing # None /\ localClosed
      <4>1. \E why \in Outcomes : CompleteClose(why)
        BY <1>6, <3>1 DEF RemoteClosedRest, Outcomes, Errors
      <4> QED
        BY <4>1, CompleteCloseType
    <3>2. CASE ~(closing # None /\ localClosed)
      BY <1>6, <3>2 DEF RemoteClosedRest, TypeOK
    <3> QED
      BY <3>1, <3>2
  <2>3. stack' \in Seq(Frames)
    <3>1. /\ Tail(stack) \in Seq(Frames)
          /\ <<Frame("receive_done")>> \in Seq(Frames)
          /\ Callout("close") \in Seq(Frames)
      BY <1>6, TopFrame, FrameType DEF RemoteClosedRest, Running, TypeOK, Functions, Callouts
    <3>2. \/ stack' = Callout("close") \o <<Frame("receive_done")>> \o Tail(stack)
          \/ stack' = <<Frame("receive_done")>> \o Tail(stack)
      BY <1>6 DEF RemoteClosedRest
    <3> QED
      BY <3>1, <3>2, ConcatType
  <2>4. UNCHANGED <<sendVars, waiting, forcing, forcedShutdown, endVars, iqVars, accepted>>
    BY <1>6 DEF RemoteClosedRest
  <2> QED
    BY <2>1, <2>2, <2>3, <2>4 DEF TypeOK, sendVars, endVars, iqVars
<1>7. ASSUME ReceiveDone
      PROVE  TypeOK'
  <2>1. stack' \in Seq(Frames) /\ ConnTypeOK'
    BY <1>7, TopFrame, ConnDoneType DEF ReceiveDone, Running, TypeOK
  <2> QED
    BY <1>7, <2>1
    DEF TypeOK, ReceiveDone, sendVars, closeVars, forceVars, iqVars, Cancellable
<1>8. ASSUME ReceivedRest
      PROVE  TypeOK'
  <2>1. stack' \in Seq(Frames)
    BY <1>8, TopFrame DEF ReceivedRest, Running, TypeOK
  <2>2. ConnTypeOK' /\ forcedShutdown' \in BOOLEAN
    <3>1. CASE ~remoteClosed
      BY <1>8, <3>1, ConnRecvType DEF ReceivedRest, TypeOK
    <3>2. CASE remoteClosed /\ forcing = None
      BY <1>8, <3>2, ConnDoneType DEF ReceivedRest, TypeOK
    <3>3. CASE remoteClosed /\ forcing # None
      BY <1>8, <3>3, ForceShutdownType DEF ReceivedRest
    <3> QED
      BY <3>1, <3>2, <3>3 DEF TypeOK
  <2>3. UNCHANGED <<sendVars, closeVars, forcing, forceCancel, endVars, iqVars, outcome,
                    accepted>>
    BY <1>8 DEF ReceivedRest
  <2> QED
    BY <2>1, <2>2, <2>3 DEF TypeOK, sendVars, closeVars, endVars, iqVars
<1>9. ASSUME ForceShutdownStep
      PROVE  TypeOK'
  <2>1. stack' \in Seq(Frames)
    BY <1>9, TopFrame DEF ForceShutdownStep, Running, TypeOK
  <2>2. ConnTypeOK' /\ forcedShutdown' \in BOOLEAN
    BY <1>9, ForceShutdownType DEF ForceShutdownStep
  <2> QED
    BY <1>9, <2>1, <2>2
    DEF TypeOK, ForceShutdownStep, sendVars, closeVars, endVars, iqVars
<1> QED
  BY <1>1, <1>2, <1>3, <1>4, <1>5, <1>6, <1>7, <1>8, <1>9 DEF Run

(* The connection's callbacks *)
LEMMA CallbackType ==
  ASSUME TypeOK,
         \/ Deliver
         \/ WriteFailed
         \/ \E why \in {"aborted", "failed"} : ReceiveEnded(why)
         \/ ReceiveCancelled
         \/ ReceiveStanza
         \/ \E i \in Iqs : ReceiveReply(i)
         \/ ReceiveStreamError
         \/ StreamTorn
         \/ IdleReply
  PROVE  TypeOK'
<1>1. ASSUME StanzaWritten
      PROVE  TypeOK'
  <2>1. /\ ConnTypeOK'
        /\ UNCHANGED <<pinging, closeVars, forceVars, endVars, accepted>>
    BY <1>1, ConnDoneType DEF StanzaWritten, TypeOK
  <2>2. CASE queue = <<>>
    BY <1>1, <2>1, <2>2
    DEF StanzaWritten, TypeOK, closeVars, forceVars, endVars, iqVars
  <2>3. CASE queue # <<>>
    <3>1. PICK s \in Stanzas :
            /\ queue' = Tail(queue)
            /\ armed' = armed \ {s}
            /\ IF s \in Iqs
                 THEN /\ iqSent' = iqSent \cup {s}
                      /\ iqTable' = IF outcome[s] = "pending" THEN iqTable
                                                              ELSE iqTable \ {s}
                      /\ stack' = <<Frame("send_next")>>
                      /\ UNCHANGED outcome
                 ELSE /\ Resolve(s, "ok")
                      /\ stack' = Callout("send") \o <<Frame("send_next")>>
                      /\ UNCHANGED iqVars
      <4>1. Head(queue) \in Stanzas
        BY <2>3 DEF TypeOK
      <4> QED
        BY <1>1, <2>3, <4>1 DEF StanzaWritten
    <3>2. queue' \in Seq(Stanzas) /\ armed' \subseteq Stanzas
      BY <2>3, <3>1 DEF TypeOK
    <3>3. /\ iqSent' \subseteq Iqs /\ iqTable' \subseteq Iqs
          /\ outcome' \in [Ops -> Outcomes]
      <4>1. CASE s \in Iqs
        BY <3>1, <4>1 DEF TypeOK
      <4>2. CASE s \notin Iqs
        BY <3>1, <4>2, ResolveType DEF TypeOK, Outcomes, iqVars
      <4> QED
        BY <4>1, <4>2
    <3>4. stack' \in Seq(Frames)
      <4>1. <<Frame("send_next")>> \in Seq(Frames) /\ Callout("send") \in Seq(Frames)
        BY FrameType DEF Functions, Callouts
      <4>2. \/ stack' = <<Frame("send_next")>>
            \/ stack' = Callout("send") \o <<Frame("send_next")>>
        BY <3>1
      <4> QED
        BY <4>1, <4>2, ConcatType
    <3> QED
      BY <2>1, <3>2, <3>3, <3>4 DEF TypeOK, closeVars, forceVars, endVars
  <2> QED
    BY <2>2, <2>3
<1>2. ASSUME PingWritten
      PROVE  TypeOK'
  BY <1>2, ConnDoneType, PingDoneType DEF PingWritten, TypeOK
<1>3. ASSUME CloseWritten
      PROVE  TypeOK'
  BY <1>3, ConnDoneType, CloseSentType DEF CloseWritten, TypeOK, Outcomes
<1>4. ASSUME WriteFailed
      PROVE  TypeOK'
  <2>1. ConnTypeOK'
    BY <1>4, ConnDoneType DEF WriteFailed, TypeOK
  <2>2. StanzaFailed("failed") \/ PingDone("failed") \/ CloseSent("failed")
    BY <1>4 DEF WriteFailed
  <2> QED
    BY <2>1, <2>2, StanzaFailedType, PingDoneType, CloseSentType DEF Errors, Outcomes
<1>5. ASSUME NEW why \in {"aborted", "failed"}, ReceiveEnded(why)
      PROVE  TypeOK'
  <2>1. ConnTypeOK'
    BY <1>5, ConnDoneType DEF ReceiveEnded, TypeOK
  <2>2. ReceiveEndedForced \/ RemoteConnectionClosed(why, <<>>)
    BY <1>5 DEF ReceiveEnded
  <2>3. why \in Errors /\ <<>> \in Seq(Frames)
    BY DEF Errors
  <2> QED
    BY <2>1, <2>2, <2>3, ReceiveEndedForcedType, RemoteConnectionClosedType
<1>6. ASSUME ReceiveCancelled
      PROVE  TypeOK'
  <2>1. ConnTypeOK'
    BY <1>6, ConnDoneType DEF ReceiveCancelled, TypeOK
  <2>2. ReceiveEndedForced \/ RemoteConnectionClosed("failed", <<>>)
    BY <1>6 DEF ReceiveCancelled
  <2>3. "failed" \in Errors /\ <<>> \in Seq(Frames)
    BY DEF Errors
  <2> QED
    BY <2>1, <2>2, <2>3, ReceiveEndedForcedType, RemoteConnectionClosedType
<1>7. ASSUME ReceiveStanza
      PROVE  TypeOK'
  <2>1. ConnTypeOK'
    BY <1>7, ConnDoneType DEF ConnStanza, ReceiveStanza, TypeOK
  <2>2. stack' \in Seq(Frames)
    <3>1. Callout("handler") \in Seq(Frames) /\ <<Frame("received_rest")>> \in Seq(Frames)
      BY FrameType DEF Callouts, Functions
    <3> QED
      BY <1>7, <3>1 DEF ReceiveStanza
  <2> QED
    BY <1>7, <2>1, <2>2
    DEF ReceiveStanza, TypeOK, sendVars, closeVars, forceVars, endVars, iqVars
<1>8. ASSUME NEW i \in Iqs, ReceiveReply(i)
      PROVE  TypeOK'
  <2>1. ConnTypeOK'
    BY <1>8, ConnDoneType DEF ConnStanza, ReceiveReply, TypeOK
  <2>2. outcome' \in [Ops -> Outcomes]
    BY <1>8, ResolveType DEF ReceiveReply, TypeOK, Outcomes
  <2>3. stack' \in Seq(Frames)
    <3>1. /\ Callout("handler") \in Seq(Frames) /\ Callout("iq") \in Seq(Frames)
          /\ <<Frame("received_rest")>> \in Seq(Frames)
          /\ <<MaybeRemove(i)>> \in Seq(Frames)
          /\ <<MaybeRemove(i), Frame("received_rest")>> \in Seq(Frames)
      BY FrameType DEF Callouts, Functions
    <3>2. \/ stack' = Callout("iq") \o <<MaybeRemove(i), Frame("received_rest")>>
          \/ stack' = <<MaybeRemove(i)>> \o Callout("handler")
                       \o <<Frame("received_rest")>>
      BY <1>8 DEF ReceiveReply
    <3>3. <<MaybeRemove(i)>> \o Callout("handler") \in Seq(Frames)
      BY <3>1, ConcatType
    <3> QED
      BY <3>1, <3>2, <3>3, ConcatType
  <2>4. UNCHANGED <<sendVars, closeVars, forceVars, endVars, iqVars, accepted>>
    BY <1>8 DEF ReceiveReply
  <2> QED
    BY <2>1, <2>2, <2>3, <2>4 DEF TypeOK, sendVars, closeVars, forceVars, endVars, iqVars
<1>9. ASSUME ReceiveStreamError
      PROVE  TypeOK'
  <2>1. ConnTypeOK'
    BY <1>9, ConnDoneType DEF ConnStanza, ReceiveStreamError, TypeOK
  <2>2. "failed" \in Errors /\ <<Frame("received_rest")>> \in Seq(Frames)
    BY FrameType DEF Errors, Functions
  <2> QED
    BY <1>9, <2>1, <2>2, RemoteConnectionClosedType DEF ReceiveStreamError
<1>10. ASSUME StreamTorn
       PROVE  TypeOK'
  BY <1>10, ConnDoneType, ForceCloseDoneType DEF StreamTorn, TypeOK, Outcomes, Errors
<1>11. ASSUME IdleReply
       PROVE  TypeOK'
  <2>1. PICK c \in IdleCalls :
          /\ ConnIdle(c)
          /\ \/ StanzaFailed(c.why)
             \/ PingDone(c.why)
             \/ CloseSent(c.why)
             \/ ReceiveEndedForced
             \/ RemoteConnectionClosed("failed", <<>>)
             \/ ForceCloseDone(c.why)
             \/ /\ IqSendFailed(c.op, c.why, <<>>) /\ c.op \in Iqs
                /\ UNCHANGED <<sendVars, closeVars, forceVars, endVars, accepted>>
    BY <1>11 DEF IdleReply
  <2>2. c.why \in Errors /\ c.why \in Outcomes
    BY DEF IdleCalls, Errors, Outcomes
  <2>3. ConnTypeOK'
    BY <2>1, ConnDoneType DEF TypeOK
  <2>4. CASE StanzaFailed(c.why)
    BY <2>2, <2>3, <2>4, StanzaFailedType
  <2>5. CASE PingDone(c.why)
    BY <2>2, <2>3, <2>5, PingDoneType
  <2>6. CASE CloseSent(c.why)
    BY <2>2, <2>3, <2>6, CloseSentType
  <2>7. CASE ReceiveEndedForced
    BY <2>3, <2>7, ReceiveEndedForcedType
  <2>8. CASE RemoteConnectionClosed("failed", <<>>)
    <3>1. "failed" \in Errors /\ <<>> \in Seq(Frames)
      BY DEF Errors
    <3> QED
      BY <2>3, <2>8, <3>1, RemoteConnectionClosedType
  <2>9. CASE ForceCloseDone(c.why)
    BY <2>2, <2>3, <2>9, ForceCloseDoneType
  <2>10. CASE /\ IqSendFailed(c.op, c.why, <<>>) /\ c.op \in Iqs
              /\ UNCHANGED <<sendVars, closeVars, forceVars, endVars, accepted>>
    <3>1. <<>> \in Seq(Frames)
      OBVIOUS
    <3>2. /\ iqSent' \subseteq Iqs /\ iqTable' \subseteq Iqs
          /\ outcome' \in [Ops -> Outcomes]
          /\ stack' \in Seq(Frames)
      BY <2>2, <2>10, <3>1, IqSendFailedType
    <3> QED
      BY <2>3, <2>10, <3>2 DEF TypeOK, sendVars, closeVars, forceVars, endVars
  <2> QED
    BY <2>1, <2>4, <2>5, <2>6, <2>7, <2>8, <2>9, <2>10
<1> QED
  BY <1>1, <1>2, <1>3, <1>4, <1>5, <1>6, <1>7, <1>8, <1>9, <1>10, <1>11 DEF Deliver

(* The porter's variables keep their types whatever the application and    *)
(* the peer do; in particular a suspended terminate_sending_operations     *)
(* always has an error to report.                                          *)
THEOREM PorterTypeCorrect == Spec => []TypeOK
<1>1. Init => TypeOK
  <2> SUFFICES ASSUME Init
               PROVE  TypeOK
    OBVIOUS
  <2>0. <<>> \in Seq(Stanzas) /\ <<>> \in Seq(IdleCalls) /\ <<>> \in Seq(Frames)
    OBVIOUS
  <2>1. ConnTypeOK
    BY <2>0 DEF Init, ConnInit, ConnTypeOK
  <2>2. outcome \in [Ops -> Outcomes]
    BY DEF Init, Outcomes
  <2> QED
    BY <2>0, <2>1, <2>2 DEF Init, TypeOK, Cancellable
<1>2. TypeOK /\ [Next]_vars => TypeOK'
  <2> SUFFICES ASSUME TypeOK, [Next]_vars
               PROVE  TypeOK'
    OBVIOUS
  <2>1. CASE Next
    BY <2>1, CallType, RunType, CallbackType DEF Next
  <2>2. CASE UNCHANGED vars
    <3>1. ConnTypeOK'
      BY <2>2, ConnDoneType DEF vars, TypeOK
    <3> QED
      BY <2>2, <3>1
      DEF TypeOK, vars, sendVars, closeVars, forceVars, endVars, iqVars
  <2> QED
    BY <2>1, <2>2
<1> QED
  BY <1>1, <1>2, PTL DEF Spec

-----------------------------------------------------------------------------
(* Answers are unique because every result that the porter is going to     *)
(* complete is still open: those of the close, the ping and the force      *)
(* close in progress, and those of the queued stanzas.  The stanza of an   *)
(* IQ is the exception, its handler looks at the result first.             *)

QueuePending(q, out) ==
  /\ \A n \in DOMAIN q : q[n] \notin Iqs => out[q[n]] = "pending"
  /\ \A n \in DOMAIN q : out[q[n]] # "new"
  /\ \A m, n \in DOMAIN q : q[m] = q[n] => m = n

CallsPending ==
  /\ closing # None => outcome[closing] = "pending"
  /\ pinging # None => outcome[pinging] = "pending"
  /\ forcing # None => outcome[forcing] = "pending"
  /\ QueuePending(queue, outcome)

AnswersKept == \A o \in Ops : outcome[o] \notin Open => outcome'[o] = outcome[o]

LEMMA QueuePendingOther ==
  ASSUME NEW q \in Seq(Stanzas), NEW out, NEW out2, QueuePending(q, out),
         \A s \in Stanzas : out2[s] = out[s] \/ (s \in Iqs /\ out2[s] # "new")
  PROVE  QueuePending(q, out2)
BY DEF QueuePending

LEMMA QueuePendingAppend ==
  ASSUME NEW q \in Seq(Stanzas), NEW s \in Stanzas, NEW out \in [Ops -> Outcomes],
         QueuePending(q, out), out[s] = "new"
  PROVE  QueuePending(Append(q, s), [out EXCEPT ![s] = "pending"])
<1>1. \A n \in DOMAIN q : q[n] \in Stanzas /\ q[n] # s
  BY DEF QueuePending
<1>2. /\ DOMAIN Append(q, s) = 1 .. (Len(q) + 1)
      /\ \A n \in DOMAIN q : Append(q, s)[n] = q[n]
      /\ Append(q, s)[Len(q) + 1] = s
  OBVIOUS
<1>3. \A n \in 1 .. (Len(q) + 1) : n \in DOMAIN q \/ n = Len(q) + 1
  OBVIOUS
<1> QED
  BY <1>1, <1>2, <1>3 DEF QueuePending, Ops

LEMMA QueuePendingTail ==
  ASSUME NEW q \in Seq(Stanzas), q # <<>>, NEW out \in [Ops -> Outcomes],
         NEW out2 \in [Ops -> Outcomes], QueuePending(q, out),
         \A s \in Stanzas : s # Head(q) => out2[s] = out[s]
  PROVE  QueuePending(Tail(q), out2)
<1>1. \A n \in DOMAIN Tail(q) :
        n + 1 \in DOMAIN q /\ n + 1 # 1 /\ Tail(q)[n] = q[n + 1] /\ q[n + 1] \in Stanzas
  OBVIOUS
<1>2. Head(q) = q[1] /\ 1 \in DOMAIN q
  OBVIOUS
<1>3. \A n \in DOMAIN Tail(q) : q[n + 1] # Head(q)
  BY <1>1, <1>2 DEF QueuePending
<1>4. \A m, n \in DOMAIN Tail(q) : m + 1 = n + 1 => m = n
  OBVIOUS
<1> QED
  BY <1>1, <1>3, <1>4 DEF QueuePending

LEMMA ConcatElements ==
  ASSUME NEW S, NEW a \in Seq(S), NEW b \in Seq(S)
  PROVE  /\ Len(a \o b) = Len(a) + Len(b)
         /\ DOMAIN (a \o b) = 1 .. (Len(a) + Len(b))
         /\ \A n \in 1 .. (Len(a) + Len(b)) :
              (a \o b)[n] = IF n <= Len(a) THEN a[n] ELSE b[n - Len(a)]
OBVIOUS

LEMMA RemoveAtElements ==
  ASSUME NEW S, NEW q \in Seq(S), NEW k \in DOMAIN q
  PROVE  /\ DOMAIN RemoveAt(q, k) = 1 .. Len(q) - 1
         /\ \A n \in 1 .. Len(q) - 1 :
              RemoveAt(q, k)[n] = IF n < k THEN q[n] ELSE q[n + 1]
<1> DEFINE a == SubSeq(q, 1, k - 1)
           b == SubSeq(q, k + 1, Len(q))
<1>1. Len(q) \in Nat /\ k \in 1 .. Len(q)
  OBVIOUS
<1>2. /\ a \in Seq(S) /\ Len(a) = k - 1
      /\ \A n \in 1 .. k - 1 : a[n] = q[n]
  BY <1>1
<1>3. /\ b \in Seq(S) /\ Len(b) = Len(q) - k
      /\ \A n \in 1 .. Len(q) - k : b[n] = q[n + k]
  BY <1>1
<1>4. RemoveAt(q, k) = a \o b
  BY DEF RemoveAt
<1> HIDE DEF a, b
<1>5. Len(a) + Len(b) = Len(q) - 1
  BY <1>1, <1>2, <1>3
<1>6. /\ DOMAIN RemoveAt(q, k) = 1 .. Len(q) - 1
      /\ \A n \in 1 .. Len(q) - 1 :
           RemoveAt(q, k)[n] = IF n <= Len(a) THEN a[n] ELSE b[n - Len(a)]
  <2>1. /\ DOMAIN (a \o b) = 1 .. (Len(a) + Len(b))
        /\ \A n \in 1 .. (Len(a) + Len(b)) :
             (a \o b)[n] = IF n <= Len(a) THEN a[n] ELSE b[n - Len(a)]
    BY <1>2, <1>3, ConcatElements
  <2> QED
    BY <1>4, <1>5, <2>1, Zenon
<1>7. ASSUME NEW n \in 1 .. Len(q) - 1
      PROVE  RemoveAt(q, k)[n] = IF n < k THEN q[n] ELSE q[n + 1]
  <2>1. CASE n < k
    BY <1>1, <1>2, <1>6, <2>1
  <2>2. CASE n >= k
    <3>1. n - (k - 1) \in 1 .. Len(q) - k /\ n - (k - 1) + k = n + 1
      BY <1>1, <2>2
    <3>2. RemoveAt(q, k)[n] = b[n - (k - 1)]
      BY <1>1, <1>2, <1>6, <2>2
    <3> QED
      BY <1>1, <1>3, <2>2, <3>1, <3>2
  <2> QED
    BY <1>1, <2>1, <2>2
<1> QED
  BY <1>6, <1>7

LEMMA QueuePendingRemove ==
  ASSUME NEW q \in Seq(Stanzas), NEW k \in DOMAIN q, NEW out \in [Ops -> Outcomes],
         NEW r, QueuePending(q, out)
  PROVE  QueuePending(RemoveAt(q, k), [out EXCEPT ![q[k]] = r])
<1> DEFINE at(n) == IF n < k THEN n ELSE n + 1
           kept == RemoveAt(q, k)
<1>1. \A n \in DOMAIN kept : at(n) \in DOMAIN q /\ at(n) # k /\ kept[n] = q[at(n)]
  BY RemoveAtElements
<1>2. \A m, n \in DOMAIN kept : at(m) = at(n) => m = n
  BY RemoveAtElements
<1>3. \A n \in DOMAIN q : q[n] \in Stanzas /\ (n # k => q[n] # q[k])
  BY DEF QueuePending
<1>4. \A s \in Stanzas : s # q[k] => [out EXCEPT ![q[k]] = r][s] = out[s]
  BY DEF Ops
<1> HIDE DEF at, kept
<1>5. \A n \in DOMAIN kept :
        kept[n] \in Stanzas /\ [out EXCEPT ![q[k]] = r][kept[n]] = out[q[at(n)]]
  BY <1>1, <1>3, <1>4
<1>6. \A m, n \in DOMAIN kept : kept[m] = kept[n] => m = n
  BY <1>1, <1>2 DEF QueuePending
<1>7. QueuePending(kept, [out EXCEPT ![q[k]] = r])
  BY <1>1, <1>5, <1>6 DEF QueuePending
<1> QED
  BY <1>7 DEF kept

LEMMA OpsDistinct ==
  /\ \A s \in Stanzas : s \in Ops /\ s \notin Pings /\ s \notin CloseOps /\ s \notin ForceOps
  /\ \A p \in Pings : p \in Ops /\ p \notin CloseOps /\ p \notin ForceOps
  /\ \A o \in CloseOps : o \in Ops /\ o \notin ForceOps
  /\ \A o \in ForceOps : o \in Ops
  /\ None \notin Ops /\ Iqs \subseteq Stanzas
BY PorterAssumption DEF Ops

(* A step that completes, or opens, the result of one call x only *)
LEMMA OneResolved ==
  ASSUME TypeOK, CallsPending, NEW x, NEW r, Resolve(x, r), r # "new",
         x \in Ops => outcome[x] \in Open,
         closing' \in {closing, None} \/ (closing' = x /\ r = "pending"),
         pinging' \in {pinging, None} \/ (pinging' = x /\ r = "pending"),
         forcing' \in {forcing, None} \/ (forcing' = x /\ r = "pending"),
         x \in {closing, pinging, forcing} =>
           /\ closing = x => closing' = None
           /\ pinging = x => pinging' = None
           /\ forcing = x => forcing' = None,
         QueuePending(queue', outcome'),
         x \in Ops \/ r # "pending"
  PROVE  AnswersKept /\ CallsPending'
<1>1. \A o \in Ops : outcome'[o] = IF o = x THEN r ELSE outcome[o]
  BY DEF Resolve, TypeOK
<1>2. AnswersKept
  BY <1>1 DEF AnswersKept
<1>3. closing \in Ops \cup {None} /\ pinging \in Ops \cup {None} /\ forcing \in Ops \cup {None}
  BY OpsDistinct DEF TypeOK
<1>4. /\ closing' # None => outcome'[closing'] = "pending"
      /\ pinging' # None => outcome'[pinging'] = "pending"
      /\ forcing' # None => outcome'[forcing'] = "pending"
  BY <1>1, <1>3 DEF CallsPending
<1> QED
  BY <1>2, <1>4 DEF CallsPending

LEMMA NoneResolved ==
  ASSUME TypeOK, CallsPending,
         UNCHANGED <<closing, pinging, forcing, queue, outcome>>
  PROVE  AnswersKept /\ CallsPending'
BY DEF AnswersKept, CallsPending

LEMMA CallAnswers ==
  ASSUME TypeOK, CallsPending,
         \/ \E s \in Stanzas : Send(s) \/ SendIq(s) \/ Cancel(s)
         \/ \E p \in Pings : SendPing(p)
         \/ Start
         \/ \E o \in CloseOps, c \in BOOLEAN : CloseAsync(o, c)
         \/ CancelClose
         \/ \E o \in ForceOps, c \in BOOLEAN : ForceCloseAsync(o, c)
         \/ Return
  PROVE  AnswersKept /\ CallsPending'
<1> USE OpsDistinct
<1>1. ASSUME NEW s \in Stanzas, Enqueue(s)
      PROVE  AnswersKept /\ CallsPending'
  <2>1. /\ UNCHANGED <<closing, pinging, forcing>> /\ outcome[s] = "new"
        /\ s \notin {closing, pinging, forcing}
    BY <1>1 DEF Enqueue, PushTail, closeVars, forceVars, TypeOK
  <2>2. CASE Closing
    <3>1. Resolve(s, "refused") /\ queue' = queue
      BY <1>1, <2>2 DEF Enqueue, PushTail
    <3>2. QueuePending(queue', outcome')
      BY <2>1, <3>1 DEF QueuePending, CallsPending, Resolve, TypeOK
    <3> QED
      BY <2>1, <3>1, <3>2, OneResolved DEF Open
  <2>3. CASE ~Closing
    <3>1. Resolve(s, "pending") /\ queue' = Append(queue, s)
      BY <1>1, <2>3 DEF Enqueue, PushTail
    <3>2. QueuePending(queue', outcome')
      BY <2>1, <3>1, QueuePendingAppend DEF CallsPending, Resolve, TypeOK
    <3> QED
      BY <2>1, <3>1, <3>2, OneResolved DEF Open
  <2> QED
    BY <2>2, <2>3
<1>2. ASSUME NEW s \in Stanzas, Cancel(s)
      PROVE  AnswersKept /\ CallsPending'
  <2>1. /\ UNCHANGED <<closing, pinging, forcing>> /\ outcome[s] = "pending"
        /\ s \notin {closing, pinging, forcing} /\ Resolve(s, "cancelled")
    BY <1>2 DEF Cancel, closeVars, forceVars, TypeOK
  <2>2. CASE s \in armed
    <3>1. PICK n \in DOMAIN queue : queue[n] = s /\ queue' = RemoveAt(queue, n)
      BY <1>2, <2>2 DEF Cancel
    <3>2. QueuePending(queue', outcome')
      BY <2>1, <3>1, QueuePendingRemove DEF CallsPending, Resolve, TypeOK
    <3> QED
      BY <2>1, <3>2, OneResolved DEF Open
  <2>3. CASE s \notin armed
    <3>1. queue' = queue /\ s \in Iqs
      BY <1>2, <2>3 DEF Cancel
    <3>2. QueuePending(queue', outcome')
      <4>1. \A x \in Stanzas : outcome'[x] = outcome[x] \/ (x \in Iqs /\ outcome'[x] # "new")
        BY <2>1, <3>1 DEF Resolve, TypeOK
      <4> QED
        BY <3>1, <4>1, QueuePendingOther DEF CallsPending, TypeOK
    <3> QED
      BY <2>1, <3>2, OneResolved DEF Open
  <2> QED
    BY <2>2, <2>3
<1>3. ASSUME NEW x \in Ops \ Stanzas, NEW r \in Outcomes \ {"new"}, Resolve(x, r),
             queue' = queue
      PROVE  QueuePending(queue', outcome')
  <2>1. \A s \in Stanzas : outcome'[s] = outcome[s]
    BY <1>3 DEF Resolve, TypeOK
  <2> QED
    BY <1>3, <2>1, QueuePendingOther DEF CallsPending, TypeOK
<1>4. ASSUME NEW p \in Pings, SendPing(p)
      PROVE  AnswersKept /\ CallsPending'
  <2>1. PICK r \in {"refused", "ok", "pending"} :
          /\ Resolve(p, r) /\ outcome[p] = "new"
          /\ pinging' = pinging \/ (pinging' = p /\ r = "pending")
    BY <1>4 DEF SendPing
  <2>2. UNCHANGED <<queue, closing, forcing>> /\ p \notin {closing, pinging, forcing}
    BY <1>4, <2>1 DEF SendPing, closeVars, forceVars, TypeOK, CallsPending
  <2>3. QueuePending(queue', outcome')
    BY <1>3, <2>1, <2>2 DEF Outcomes, Errors
  <2> QED
    BY <2>1, <2>2, <2>3, OneResolved DEF Open
<1>5. ASSUME NEW o \in CloseOps, NEW c \in BOOLEAN, CloseAsync(o, c)
      PROVE  AnswersKept /\ CallsPending'
  <2>1. PICK r \in {"refused", "pending"} :
          /\ Resolve(o, r) /\ outcome[o] = "new"
          /\ closing' = closing \/ (closing' = o /\ r = "pending")
    BY <1>5 DEF CloseAsync, closeVars
  <2>2. UNCHANGED <<queue, pinging, forcing>> /\ o \notin {closing, pinging, forcing}
    BY <1>5, <2>1 DEF CloseAsync, sendVars, forceVars, TypeOK, CallsPending
  <2>3. QueuePending(queue', outcome')
    BY <1>3, <2>1, <2>2 DEF Outcomes, Errors
  <2> QED
    BY <2>1, <2>2, <2>3, OneResolved DEF Open
<1>6. ASSUME NEW o \in ForceOps, NEW c \in BOOLEAN, ForceCloseAsync(o, c)
      PROVE  AnswersKept /\ CallsPending'
  <2>1. UNCHANGED <<queue, pinging>> /\ outcome[o] = "new"
    BY <1>6 DEF ForceCloseAsync, sendVars
  <2>2. CASE /\ Resolve(o, "refused")
             /\ UNCHANGED <<closing, forcing>>
    <3>1. o \notin {closing, pinging, forcing}
      BY <2>1 DEF TypeOK, CallsPending
    <3>2. QueuePending(queue', outcome')
      BY <1>3, <2>1, <2>2 DEF Outcomes, Errors
    <3> QED
      BY <2>1, <2>2, <3>1, <3>2, OneResolved DEF Open
  <2>3. CASE /\ outcome' = [x \in Ops |-> IF x = o THEN "pending"
                                          ELSE IF x = closing THEN "forced"
                                          ELSE outcome[x]]
             /\ closing' = None /\ forcing' = o
    <3>1. /\ closing \notin Stanzas /\ closing \notin Pings
      BY DEF TypeOK
    <3>2. QueuePending(queue', outcome')
      <4>1. \A s \in Stanzas : outcome'[s] = outcome[s]
        BY <2>3, <3>1
      <4> QED
        BY <2>1, <4>1, QueuePendingOther DEF CallsPending, TypeOK
    <3>3. AnswersKept
      BY <2>1, <2>3 DEF AnswersKept, CallsPending, Open
    <3>4. pinging' # None => outcome'[pinging'] = "pending"
      BY <2>1, <2>3, <3>1 DEF CallsPending, TypeOK
    <3> QED
      BY <2>3, <3>2, <3>3, <3>4 DEF CallsPending
  <2> QED
    BY <1>6, <2>2, <2>3 DEF ForceCloseAsync
<1>7. CASE Start
  BY <1>7, NoneResolved DEF Start, sendVars, closeVars, forceVars
<1>8. CASE CancelClose
  BY <1>8, NoneResolved DEF CancelClose, sendVars, forceVars
<1>9. CASE Return
  BY <1>9, NoneResolved DEF Return, sendVars, closeVars, forceVars
<1> QED
  BY <1>1, <1>2, <1>4, <1>5, <1>6, <1>7, <1>8, <1>9 DEF Send, SendIq

LEMMA IqSendFailedAnswers ==
  ASSUME TypeOK, CallsPending, NEW i \in Iqs, NEW why \in Errors, NEW rest,
         IqSendFailed(i, why, rest), UNCHANGED <<closing, pinging, forcing>>,
         \/ queue' = queue
         \/ queue # <<>> /\ i = Head(queue) /\ queue' = Tail(queue)
  PROVE  AnswersKept /\ CallsPending'
<1>1. \A o \in Ops : outcome'[o] = IF o = i /\ outcome[i] = "pending" THEN why ELSE outcome[o]
  BY DEF IqSendFailed, Resolve, TypeOK
<1>2. why # "new" /\ i \in Stanzas /\ i \notin {closing, pinging, forcing}
  BY OpsDistinct DEF Errors, TypeOK
<1>3. outcome' \in [Ops -> Outcomes]
  BY IqSendFailedType, ResolveType DEF IqSendFailed, TypeOK, Outcomes
<1>4. QueuePending(queue', outcome')
  <2>1. CASE queue' = queue
    <3>1. \A s \in Stanzas : outcome'[s] = outcome[s] \/ (s \in Iqs /\ outcome'[s] # "new")
      BY <1>1, <1>2, OpsDistinct
    <3> QED
      BY <2>1, <3>1, QueuePendingOther DEF CallsPending, TypeOK
  <2>2. CASE queue # <<>> /\ i = Head(queue) /\ queue' = Tail(queue)
    <3>1. \A s \in Stanzas : s # Head(queue) => outcome'[s] = outcome[s]
      BY <1>1, <2>2, OpsDistinct
    <3> QED
      BY <1>3, <2>2, <3>1, QueuePendingTail DEF CallsPending, TypeOK
  <2> QED
    BY <2>1, <2>2
<1>5. AnswersKept
  BY <1>1 DEF AnswersKept, Open
<1>6. /\ closing' # None => outcome'[closing'] = "pending"
      /\ pinging' # None => outcome'[pinging'] = "pending"
      /\ forcing' # None => outcome'[forcing'] = "pending"
  BY <1>1, <1>2, OpsDistinct DEF CallsPending, TypeOK
<1> QED
  BY <1>4, <1>5, <1>6 DEF CallsPending

LEMMA AbortAnswers ==
  ASSUME TypeOK, CallsPending, NEW why \in Errors,
         UNCHANGED <<closing, pinging, forcing, queue>>, outcome' = Aborted(why)
  PROVE  AnswersKept /\ CallsPending'
<1>1. PendingIqs \subseteq Iqs /\ \A i \in PendingIqs : outcome[i] = "pending"
  BY DEF PendingIqs, TypeOK
<1>2. \A o \in Ops : outcome'[o] = IF o \in PendingIqs THEN why ELSE outcome[o]
  BY DEF Aborted
<1>3. AnswersKept
  BY <1>1, <1>2 DEF AnswersKept, Open
<1>4. QueuePending(queue', outcome')
  <2>1. \A s \in Stanzas : outcome'[s] = outcome[s] \/ (s \in Iqs /\ outcome'[s] # "new")
    BY <1>1, <1>2, OpsDistinct DEF Errors
  <2> QED
    BY <2>1, QueuePendingOther DEF CallsPending, TypeOK
<1>5. /\ closing' # None => outcome'[closing'] = "pending"
      /\ pinging' # None => outcome'[pinging'] = "pending"
      /\ forcing' # None => outcome'[forcing'] = "pending"
  BY <1>1, <1>2, OpsDistinct DEF CallsPending, TypeOK
<1> QED
  BY <1>3, <1>4, <1>5 DEF CallsPending

LEMMA CompleteCloseAnswers ==
  ASSUME TypeOK, CallsPending, NEW why \in Outcomes, why \notin Open, closing # None,
         CompleteClose(why), UNCHANGED <<pinging, forcing, queue>>
  PROVE  AnswersKept /\ CallsPending'
<1>1. PICK r \in Outcomes : r \notin Open /\ Resolve(closing, r)
  BY DEF CompleteClose, Open, Outcomes, Errors
<1>2. closing' = None /\ closing \in CloseOps /\ outcome[closing] = "pending"
  BY DEF CompleteClose, TypeOK, CallsPending
<1>3. closing \notin Stanzas /\ closing \notin {pinging, forcing}
  BY <1>2, OpsDistinct DEF TypeOK
<1>4. QueuePending(queue', outcome')
  <2>1. \A s \in Stanzas : outcome'[s] = outcome[s]
    BY <1>1, <1>3 DEF Resolve, TypeOK
  <2> QED
    BY <2>1, QueuePendingOther DEF CallsPending, TypeOK
<1> QED
  BY <1>1, <1>2, <1>3, <1>4, OneResolved DEF Open

LEMMA RunAnswers ==
  ASSUME TypeOK, CallsPending, Run
  PROVE  AnswersKept /\ CallsPending'
<1>1. CASE TerminateStep
  <2>1. UNCHANGED <<closing, pinging, forcing>>
    BY <1>1 DEF TerminateStep, closeVars, forceVars
  <2>2. CASE queue = <<>>
    BY <1>1, <2>1, <2>2, NoneResolved DEF TerminateStep
  <2>3. CASE queue # <<>>
    <3>1. PICK s \in Stanzas :
            /\ s = Head(queue) /\ queue' = Tail(queue)
            /\ IF s \in Iqs THEN IqSendFailed(s, Head(stack).why, stack)
                            ELSE Resolve(s, Head(stack).why)
      <4>1. Head(queue) \in Stanzas
        BY <2>3 DEF TypeOK
      <4> QED
        BY <1>1, <2>3, <4>1 DEF TerminateStep
    <3>2. Head(stack).why \in Errors
      BY <1>1, TopFrame DEF TerminateStep, Running, TypeOK
    <3>3. CASE s \in Iqs
      BY <2>1, <2>3, <3>1, <3>2, <3>3, IqSendFailedAnswers
    <3>4. CASE s \notin Iqs
      <4>1. outcome[s] = "pending"
        BY <2>3, <3>1, <3>4 DEF CallsPending, QueuePending, TypeOK
      <4>2. QueuePending(queue', outcome')
        <5>1. /\ outcome' \in [Ops -> Outcomes]
              /\ \A x \in Stanzas : x # Head(queue) => outcome'[x] = outcome[x]
          BY <3>1, <3>2, <3>4 DEF Resolve, TypeOK, Outcomes, Ops
        <5> QED
          BY <2>3, <3>1, <5>1, QueuePendingTail DEF CallsPending, TypeOK
      <4>3. s \notin {closing, pinging, forcing} /\ Head(stack).why \notin {"new", "pending"}
        BY <3>2, OpsDistinct DEF TypeOK, Errors
      <4> QED
        BY <2>1, <3>1, <3>4, <4>1, <4>2, <4>3, OneResolved DEF Open
    <3> QED
      BY <3>3, <3>4
  <2> QED
    BY <2>2, <2>3
<1>2. CASE ForceCloseRest
  <2>1. UNCHANGED <<closing, pinging, queue>> /\ "forced" \in Errors
    BY <1>2 DEF ForceCloseRest, sendVars, closeVars, Errors
  <2>2. CASE outcome' = Aborted("forced") /\ forcing' = forcing
    BY <2>1, <2>2, AbortAnswers
  <2>3. CASE outcome' = [Aborted("forced") EXCEPT ![forcing] = "forced"] /\ forcing' = None
    <3>1. PendingIqs \subseteq Iqs /\ \A i \in PendingIqs : outcome[i] = "pending"
      BY DEF PendingIqs, TypeOK
    <3>2. \A o \in Ops : outcome'[o] = IF o \in PendingIqs \/ o = forcing THEN "forced"
                                                                    ELSE outcome[o]
      BY <2>3 DEF Aborted
    <3>3. AnswersKept
      BY <3>1, <3>2, OpsDistinct DEF AnswersKept, Open, CallsPending
    <3>4. QueuePending(queue', outcome')
      <4>1. \A s \in Stanzas : outcome'[s] = outcome[s] \/ (s \in Iqs /\ outcome'[s] # "new")
        BY <3>1, <3>2, OpsDistinct DEF TypeOK
      <4> QED
        BY <2>1, <4>1, QueuePendingOther DEF CallsPending, TypeOK
    <3>5. /\ closing' # None => outcome'[closing'] = "pending"
          /\ pinging' # None => outcome'[pinging'] = "pending"
      BY <2>1, <3>1, <3>2, OpsDistinct DEF CallsPending, TypeOK
    <3> QED
      BY <2>3, <3>3, <3>4, <3>5 DEF CallsPending
  <2> QED
    BY <1>2, <2>2, <2>3 DEF ForceCloseRest
<1>3. CASE RemoteClosedRest
  <2>1. UNCHANGED <<pinging, forcing, queue>>
    BY <1>3 DEF RemoteClosedRest, sendVars
  <2>2. CASE closing # None /\ localClosed
    <3>1. PICK why \in {"ok", "failed"} : CompleteClose(why)
      BY <1>3, <2>2 DEF RemoteClosedRest
    <3> QED
      BY <2>1, <2>2, <3>1, CompleteCloseAnswers DEF Open, Outcomes, Errors
  <2>3. CASE ~(closing # None /\ localClosed)
    BY <1>3, <2>1, <2>3, NoneResolved DEF RemoteClosedRest
  <2> QED
    BY <2>2, <2>3
<1>4. CASE SendNext \/ CloseIfWaitingStep
  BY <1>4, NoneResolved DEF SendNext, CloseIfWaitingStep, sendVars, forceVars
<1>5. CASE MaybeRemoveStep \/ ReceiveDone \/ ReceivedRest \/ ForceShutdownStep
  BY <1>5, NoneResolved
  DEF MaybeRemoveStep, ReceiveDone, ReceivedRest, ForceShutdownStep, sendVars, closeVars,
      forceVars
<1> QED
  BY <1>1, <1>2, <1>3, <1>4, <1>5 DEF Run

LEMMA PingDoneAnswers ==
  ASSUME TypeOK, CallsPending, NEW r \in Outcomes, r \notin Open, PingDone(r)
  PROVE  AnswersKept /\ CallsPending'
<1>1. /\ UNCHANGED <<closing, forcing, queue>> /\ pinging' = None
      /\ Resolve(pinging, r)
  BY DEF PingDone, closeVars, forceVars
<1>2. pinging \in Pings \cup {None} /\ (pinging # None => outcome[pinging] = "pending")
  BY DEF TypeOK, CallsPending
<1>3. pinging # None => pinging \notin Stanzas \cup {closing, forcing}
  BY <1>2, OpsDistinct DEF TypeOK
<1>4. QueuePending(queue', outcome')
  <2>1. \A s \in Stanzas : outcome'[s] = outcome[s]
    BY <1>1, <1>2, OpsDistinct DEF Resolve, TypeOK
  <2> QED
    BY <1>1, <2>1, QueuePendingOther DEF CallsPending, TypeOK
<1>5. \A o \in Ops : outcome'[o] = IF o = pinging THEN r ELSE outcome[o]
  BY <1>1 DEF Resolve, TypeOK
<1>6. AnswersKept
  BY <1>2, <1>5, OpsDistinct DEF AnswersKept, Open
<1>7. closing \in Ops \cup {None} /\ forcing \in Ops \cup {None}
  BY OpsDistinct DEF TypeOK
<1>8. /\ closing' # None => outcome'[closing'] = "pending"
      /\ forcing' # None => outcome'[forcing'] = "pending"
  BY <1>1, <1>2, <1>3, <1>5, <1>7, OpsDistinct DEF CallsPending
<1> QED
  BY <1>1, <1>4, <1>6, <1>8 DEF CallsPending

LEMMA CloseSentAnswers ==
  ASSUME TypeOK, CallsPending, NEW r \in Outcomes, r \notin Open, CloseSent(r)
  PROVE  AnswersKept /\ CallsPending'
<1>1. UNCHANGED <<pinging, forcing, queue>>
  BY DEF CloseSent, sendVars
<1>2. CASE UNCHANGED <<closing, closeCancel, forceCancel, outcome>>
  BY <1>1, <1>2, NoneResolved
<1>3. CASE closing # None /\ CompleteClose(r)
  BY <1>1, <1>3, CompleteCloseAnswers
<1> QED
  BY <1>2, <1>3 DEF CloseSent

LEMMA ForceCloseDoneAnswers ==
  ASSUME TypeOK, CallsPending, NEW r \in Outcomes, ForceCloseDone(r)
  PROVE  AnswersKept /\ CallsPending'
<1>1. /\ UNCHANGED <<closing, pinging, queue>> /\ forcing' = None
      /\ \A o \in Ops : outcome'[o] = IF o = forcing THEN r ELSE outcome[o]
  BY DEF ForceCloseDone, sendVars, closeVars
<1>2. /\ forcing # None => outcome[forcing] = "pending"
      /\ forcing \notin Stanzas /\ closing \in CloseOps \cup {None}
      /\ pinging \in Pings \cup {None} /\ forcing \in ForceOps \cup {None}
  BY OpsDistinct DEF TypeOK, CallsPending
<1>3. QueuePending(queue', outcome')
  <2>1. \A s \in Stanzas : outcome'[s] = outcome[s]
    BY <1>1, <1>2, OpsDistinct
  <2> QED
    BY <1>1, <2>1, QueuePendingOther DEF CallsPending, TypeOK
<1>4. AnswersKept
  BY <1>1, <1>2, OpsDistinct DEF AnswersKept, Open
<1>5. /\ closing' # None => outcome'[closing'] = "pending"
      /\ pinging' # None => outcome'[pinging'] = "pending"
  BY <1>1, <1>2, OpsDistinct DEF CallsPending
<1> QED
  BY <1>1, <1>3, <1>4, <1>5 DEF CallsPending

LEMMA CallbackAnswers ==
  ASSUME TypeOK, CallsPending,
         \/ Deliver
         \/ WriteFailed
         \/ \E why \in {"aborted", "failed"} : ReceiveEnded(why)
         \/ ReceiveCancelled
         \/ ReceiveStanza
         \/ \E i \in Iqs : ReceiveReply(i)
         \/ ReceiveStreamError
         \/ StreamTorn
         \/ IdleReply
  PROVE  AnswersKept /\ CallsPending'
<1>1. ASSUME NEW why \in Errors, StanzaFailed(why)
      PROVE  AnswersKept /\ CallsPending'
  BY <1>1, NoneResolved DEF StanzaFailed, sendVars, closeVars, forceVars
<1>2. ASSUME ReceiveEndedForced
      PROVE  AnswersKept /\ CallsPending'
  BY <1>2, NoneResolved DEF ReceiveEndedForced, sendVars, closeVars, forceVars
<1>3. ASSUME NEW why \in Errors, NEW rest, RemoteConnectionClosed(why, rest)
      PROVE  AnswersKept /\ CallsPending'
  BY <1>3, AbortAnswers
  DEF RemoteConnectionClosed, AbortPendingIqs, sendVars, closeVars, forceVars
<1>4. CASE StanzaWritten
  <2>1. UNCHANGED <<closing, pinging, forcing>>
    BY <1>4 DEF StanzaWritten, closeVars, forceVars
  <2>2. CASE queue = <<>>
    BY <1>4, <2>1, <2>2, NoneResolved DEF StanzaWritten
  <2>3. CASE queue # <<>>
    <3>1. PICK s \in Stanzas :
            /\ s = Head(queue) /\ queue' = Tail(queue)
            /\ IF s \in Iqs THEN UNCHANGED outcome ELSE Resolve(s, "ok")
      <4>1. Head(queue) \in Stanzas
        BY <2>3 DEF TypeOK
      <4> QED
        BY <1>4, <2>3, <4>1 DEF StanzaWritten
    <3>2. outcome' \in [Ops -> Outcomes]
      BY <3>1, ResolveType DEF TypeOK, Outcomes
    <3>3. QueuePending(queue', outcome')
      <4>1. \A x \in Stanzas : x # Head(queue) => outcome'[x] = outcome[x]
        BY <3>1, OpsDistinct DEF Resolve, TypeOK
      <4> QED
        BY <2>3, <3>1, <3>2, <4>1, QueuePendingTail DEF CallsPending, TypeOK
    <3>4. CASE s \in Iqs
      BY <2>1, <3>1, <3>3, <3>4 DEF AnswersKept, CallsPending
    <3>5. CASE s \notin Iqs
      <4>1. outcome[s] = "pending"
        BY <2>3, <3>1, <3>5 DEF CallsPending, QueuePending, TypeOK
      <4>2. s \notin {closing, pinging, forcing}
        BY OpsDistinct DEF TypeOK
      <4> QED
        BY <2>1, <3>1, <3>3, <3>5, <4>1, <4>2, OneResolved DEF Open
    <3> QED
      BY <3>4, <3>5
  <2> QED
    BY <2>2, <2>3
<1>5. ASSUME NEW i \in Iqs, ReceiveReply(i)
      PROVE  AnswersKept /\ CallsPending'
  <2>1. UNCHANGED <<closing, pinging, forcing, queue>>
    BY <1>5 DEF ReceiveReply, sendVars, closeVars, forceVars
  <2>2. CASE outcome[i] = "pending"
    <3>1. Resolve(i, "ok") /\ i \notin {closing, pinging, forcing}
      BY <1>5, <2>2, OpsDistinct DEF ReceiveReply, TypeOK
    <3>2. QueuePending(queue', outcome')
      <4>1. \A s \in Stanzas : outcome'[s] = outcome[s] \/ (s \in Iqs /\ outcome'[s] # "new")
        BY <3>1, OpsDistinct DEF Resolve, TypeOK
      <4> QED
        BY <2>1, <4>1, QueuePendingOther DEF CallsPending, TypeOK
    <3> QED
      BY <2>1, <2>2, <3>1, <3>2, OneResolved DEF Open
  <2>3. CASE outcome[i] # "pending"
    BY <1>5, <2>1, <2>3, NoneResolved DEF ReceiveReply
  <2> QED
    BY <2>2, <2>3
<1>6. CASE PingWritten
  BY <1>6, PingDoneAnswers DEF PingWritten, Open, Outcomes
<1>7. CASE CloseWritten
  BY <1>7, CloseSentAnswers DEF CloseWritten, Open, Outcomes
<1>8. CASE WriteFailed
  <2>1. StanzaFailed("failed") \/ PingDone("failed") \/ CloseSent("failed")
    BY <1>8 DEF WriteFailed
  <2>2. "failed" \in Errors /\ "failed" \in Outcomes /\ "failed" \notin Open
    BY DEF Errors, Outcomes, Open
  <2> QED
    BY <1>1, <2>1, <2>2, PingDoneAnswers, CloseSentAnswers
<1>9. CASE \E why \in {"aborted", "failed"} : ReceiveEnded(why)
  <2>1. PICK why \in Errors : ReceiveEndedForced \/ RemoteConnectionClosed(why, <<>>)
    BY <1>9 DEF ReceiveEnded, Errors
  <2> QED
    BY <1>2, <1>3, <2>1
<1>10. CASE ReceiveCancelled
  BY <1>2, <1>3, <1>10 DEF ReceiveCancelled, Errors
<1>11. CASE ReceiveStanza
  BY <1>11, NoneResolved DEF ReceiveStanza, sendVars, closeVars, forceVars
<1>12. CASE ReceiveStreamError
  BY <1>3, <1>12 DEF ReceiveStreamError, Errors
<1>13. CASE StreamTorn
  BY <1>13, ForceCloseDoneAnswers DEF StreamTorn, Outcomes, Errors
<1>14. CASE IdleReply
  <2>1. PICK c \in IdleCalls :
          \/ StanzaFailed(c.why)
          \/ PingDone(c.why)
          \/ CloseSent(c.why)
          \/ ReceiveEndedForced
          \/ RemoteConnectionClosed("failed", <<>>)
          \/ ForceCloseDone(c.why)
          \/ /\ IqSendFailed(c.op, c.why, <<>>) /\ c.op \in Iqs
             /\ UNCHANGED <<sendVars, closeVars, forceVars>>
    BY <1>14 DEF IdleReply
  <2>2. c.why \in Errors /\ c.why \in Outcomes /\ c.why \notin Open /\ "failed" \in Errors
    BY DEF IdleCalls, Errors, Outcomes, Open
  <2>3. CASE /\ IqSendFailed(c.op, c.why, <<>>) /\ c.op \in Iqs
             /\ UNCHANGED <<sendVars, closeVars, forceVars>>
    BY <2>2, <2>3, IqSendFailedAnswers DEF sendVars, closeVars, forceVars
  <2> QED
    BY <1>1, <1>2, <1>3, <2>1, <2>2, <2>3, PingDoneAnswers, CloseSentAnswers,
       ForceCloseDoneAnswers
<1> QED
  BY <1>4, <1>5, <1>6, <1>7, <1>8, <1>9, <1>10, <1>11, <1>12, <1>13, <1>14 DEF Deliver

(* The application, the peer and the main loop can act in any order and    *)
(* from within any callout: no call is answered twice.                     *)
THEOREM AnswersAreUnique == Spec => AnsweredOnce
<1>1. Init => CallsPending
  BY DEF Init, CallsPending, QueuePending
<1>2. TypeOK /\ CallsPending /\ [Next]_vars => CallsPending' /\ [AnswersKept]_vars
  <2> SUFFICES ASSUME TypeOK, CallsPending, [Next]_vars
               PROVE  CallsPending' /\ AnswersKept
    OBVIOUS
  <2>1. CASE Next
    BY <2>1, CallAnswers, RunAnswers, CallbackAnswers DEF Next
  <2>2. CASE UNCHANGED vars
    BY <2>2, NoneResolved DEF vars, sendVars, closeVars, forceVars
  <2> QED
    BY <2>1, <2>2
<1> QED
  BY <1>1, <1>2, PorterTypeCorrect, PTL DEF Spec, AnsweredOnce, AnswersKept

-----------------------------------------------------------------------------
(* Two shutdowns of the connection never overlap, because                  *)
(*   - the first one sets forced_shutdown for good, and is only started    *)
(*     for a force close in progress;                                      *)
(*   - a force close that is answered leaves a porter that refuses the     *)
(*     next one;                                                           *)
(*   - the functions that start the shutdown (the end of                   *)
(*     stanza_received_cb) run from the main loop, hence below everything  *)
(*     that is suspended, and not before a suspended force_close_async.    *)

Starters == {"received_rest", "force_shutdown"}

StackShape(st) ==
  /\ \A n \in DOMAIN st : st[n].fn \in Starters => n = Len(st)
  /\ \A m, n \in DOMAIN st :
       st[m].fn = "force_close_rest" /\ st[n].fn = "force_close_rest" => m = n

Has(st, fn) == \E n \in DOMAIN st : st[n].fn = fn

ShutdownInv ==
  /\ tearing => forcedShutdown /\ forcing # None
  /\ forcing = None /\ forcedShutdown => localClosed /\ receive = "null"
  /\ \A n \in DOMAIN idle : idle[n].cb # "force"
  /\ StackShape(stack)
  /\ Has(stack, "force_close_rest") => forcing # None /\ ~forcedShutdown
  /\ Has(stack, "force_shutdown") => forcing # None

(* A stack that holds no more of the frames that matter than the present one *)
QuietStack(st) ==
  /\ StackShape(st)
  /\ Has(st, "force_close_rest") => Has(stack, "force_close_rest")
  /\ Has(st, "force_shutdown") => Has(stack, "force_shutdown")

LEMMA FrameFn ==
  /\ \A fn \in Functions : Frame(fn).fn = fn
  /\ \A why : Terminate(why).fn = "terminate" /\ RemoteRest(why).fn = "remote_closed_rest"
  /\ \A i : MaybeRemove(i).fn = "maybe_remove"
BY DEF Frame, Terminate, RemoteRest, MaybeRemove

LEMMA ShapeOne ==
  ASSUME NEW f
  PROVE  StackShape(<<f>>) /\ \A fn : Has(<<f>>, fn) <=> f.fn = fn
<1>1. DOMAIN <<f>> = {1} /\ <<f>>[1] = f /\ Len(<<f>>) = 1
  OBVIOUS
<1> QED
  BY <1>1 DEF StackShape, Has

LEMMA ShapeEmpty == StackShape(<<>>) /\ \A fn : ~Has(<<>>, fn)
BY DEF StackShape, Has

LEMMA ShapePush ==
  ASSUME NEW f \in Frames, NEW st \in Seq(Frames), StackShape(st), f.fn \notin Starters,
         f.fn = "force_close_rest" => ~Has(st, "force_close_rest")
  PROVE  /\ StackShape(<<f>> \o st)
         /\ \A fn : Has(<<f>> \o st, fn) => Has(st, fn) \/ f.fn = fn
<1> DEFINE new == <<f>> \o st
<1>1. /\ Len(new) = Len(st) + 1 /\ DOMAIN new = 1 .. (Len(st) + 1) /\ new[1] = f
      /\ \A n \in DOMAIN new : n = 1 \/ (n - 1 \in DOMAIN st /\ new[n] = st[n - 1])
  OBVIOUS
<1>2. Len(st) \in Nat /\ DOMAIN st = 1 .. Len(st)
  OBVIOUS
<1> HIDE DEF new
<1>3. \A n \in DOMAIN new : new[n].fn \in Starters => n = Len(new)
  BY <1>1, <1>2 DEF StackShape
<1>4. ASSUME NEW m \in DOMAIN new, NEW n \in DOMAIN new,
             new[m].fn = "force_close_rest", new[n].fn = "force_close_rest"
      PROVE  m = n
  <2>1. m = 1 => n = 1
    BY <1>1, <1>4 DEF Has
  <2>2. n = 1 => m = 1
    BY <1>1, <1>4 DEF Has
  <2>3. CASE m # 1 /\ n # 1
    <3>1. m - 1 = n - 1
      BY <1>1, <1>4, <2>3 DEF StackShape
    <3> QED
      BY <1>1, <1>2, <3>1
  <2> QED
    BY <2>1, <2>2, <2>3
<1>5. \A fn : Has(new, fn) => Has(st, fn) \/ f.fn = fn
  BY <1>1 DEF Has
<1> QED
  BY <1>3, <1>4, <1>5 DEF StackShape, new

LEMMA ShapePop ==
  ASSUME NEW st \in Seq(Frames), st # <<>>, StackShape(st)
  PROVE  /\ StackShape(Tail(st))
         /\ \A fn : Has(Tail(st), fn) => Has(st, fn)
         /\ Has(st, Head(st).fn)
         /\ Head(st).fn = "force_close_rest" => ~Has(Tail(st), "force_close_rest")
<1>1. /\ Len(st) \in Nat /\ DOMAIN st = 1 .. Len(st) /\ 1 \in DOMAIN st
      /\ DOMAIN Tail(st) = 1 .. (Len(st) - 1) /\ Len(Tail(st)) = Len(st) - 1
      /\ Head(st) = st[1]
      /\ \A n \in DOMAIN Tail(st) : n + 1 \in DOMAIN st /\ Tail(st)[n] = st[n + 1]
  OBVIOUS
<1>2. ASSUME NEW n \in DOMAIN Tail(st), Tail(st)[n].fn \in Starters
      PROVE  n = Len(Tail(st))
  <2>1. n + 1 = Len(st)
    BY <1>1, <1>2 DEF StackShape
  <2> QED
    BY <1>1, <2>1
<1>3. ASSUME NEW m \in DOMAIN Tail(st), NEW n \in DOMAIN Tail(st),
             Tail(st)[m].fn = "force_close_rest", Tail(st)[n].fn = "force_close_rest"
      PROVE  m = n
  <2>1. m + 1 = n + 1
    BY <1>1, <1>3 DEF StackShape
  <2> QED
    BY <1>1, <2>1
<1>4. ASSUME Head(st).fn = "force_close_rest", Has(Tail(st), "force_close_rest")
      PROVE  FALSE
  <2>1. PICK n \in DOMAIN Tail(st) : Tail(st)[n].fn = "force_close_rest"
    BY <1>4 DEF Has
  <2>2. n + 1 = 1
    BY <1>1, <1>4, <2>1 DEF StackShape
  <2> QED
    BY <1>1, <2>1, <2>2
<1>5. \A fn : Has(Tail(st), fn) => Has(st, fn)
  BY <1>1 DEF Has
<1> QED
  BY <1>1, <1>2, <1>3, <1>4, <1>5 DEF StackShape, Has

LEMMA StarterIsLast ==
  ASSUME NEW st \in Seq(Frames), st # <<>>, StackShape(st), Head(st).fn \in Starters
  PROVE  Tail(st) = <<>> /\ StackShape(Tail(st)) /\ \A fn : ~Has(Tail(st), fn)
<1>1. 1 \in DOMAIN st /\ Head(st) = st[1]
  OBVIOUS
<1>2. Len(st) = 1
  BY <1>1 DEF StackShape
<1>3. Tail(st) = <<>>
  <2>1. Tail(st) \in Seq(Frames) /\ Len(Tail(st)) = 0
    BY <1>2
  <2>2. \A x \in Seq(Frames) : Len(x) = 0 => x = <<>>
    OBVIOUS
  <2> QED
    BY <2>1, <2>2
<1> QED
  BY <1>3, ShapeEmpty

LEMMA QuietPush ==
  ASSUME NEW st \in Seq(Frames), QuietStack(st)
  PROVE  /\ \A f \in Frames : f.fn \notin Starters \cup {"force_close_rest"}
                              => QuietStack(<<f>> \o st) /\ <<f>> \o st \in Seq(Frames)
         /\ \A kind \in Callouts : QuietStack(Callout(kind) \o st)
                                 /\ Callout(kind) \o st \in Seq(Frames)
<1>1. ASSUME NEW f \in Frames, f.fn \notin Starters \cup {"force_close_rest"}
      PROVE  QuietStack(<<f>> \o st) /\ <<f>> \o st \in Seq(Frames)
  <2>1. <<f>> \o st \in Seq(Frames)
    OBVIOUS
  <2> QED
    BY <1>1, <2>1, ShapePush DEF QuietStack, Starters
<1>2. ASSUME NEW kind \in Callouts
      PROVE  QuietStack(Callout(kind) \o st) /\ Callout(kind) \o st \in Seq(Frames)
  <2>1. CASE kind \in Reentrant
    <3>1. Frame("user") \in Frames /\ Frame("user").fn = "user"
      BY FrameType, FrameFn DEF Functions
    <3>2. Callout(kind) = <<Frame("user")>>
      BY <2>1 DEF Callout
    <3> QED
      BY <1>1, <3>1, <3>2 DEF Starters
  <2>2. CASE kind \notin Reentrant
    <3>1. Callout(kind) \o st = st
      BY <2>2 DEF Callout
    <3> QED
      BY <3>1
  <2> QED
    BY <2>1, <2>2
<1> QED
  BY <1>1, <1>2

LEMMA OneFrame ==
  /\ <<>> \in Seq(Frames)
  /\ \A fn \in Functions : <<Frame(fn)>> \in Seq(Frames)
<1>1. \A f \in Frames : <<f>> \in Seq(Frames)
  OBVIOUS
<1> QED
  BY <1>1, FrameType

LEMMA QuietTail ==
  ASSUME TypeOK, ShutdownInv
  PROVE  /\ QuietStack(stack)
         /\ stack # <<>> => QuietStack(Tail(stack)) /\ Tail(stack) \in Seq(Frames)
         /\ QuietStack(<<>>)
         /\ QuietStack(<<Frame("received_rest")>>)
<1>1. QuietStack(<<Frame("received_rest")>>)
  BY ShapeOne, FrameFn DEF QuietStack, Functions
<1>2. QuietStack(stack) /\ QuietStack(<<>>)
  BY ShapeEmpty DEF QuietStack, ShutdownInv
<1>3. ASSUME stack # <<>>
      PROVE  QuietStack(Tail(stack)) /\ Tail(stack) \in Seq(Frames)
  BY <1>3, ShapePop, TopFrame DEF QuietStack, ShutdownInv, TypeOK
<1> QED
  BY <1>1, <1>2, <1>3

LEMMA Quiet ==
  ASSUME ShutdownInv, UNCHANGED <<tearing, forcing, forcedShutdown>>,
         localClosed => localClosed', receive' \in {receive, "null"},
         \A n \in DOMAIN idle' : idle'[n].cb # "force", QuietStack(stack')
  PROVE  ShutdownInv'
BY DEF ShutdownInv, QuietStack

(* What the connection's operations do to the idle replies and the shutdown *)
LEMMA ConnShutdown ==
  ASSUME TypeOK, ShutdownInv
  PROVE  /\ \A x \in Outputs : ConnSend(x) =>
              UNCHANGED tearing /\ \A n \in DOMAIN idle' : idle'[n].cb # "force"
         /\ ConnRecv =>
              UNCHANGED tearing /\ \A n \in DOMAIN idle' : idle'[n].cb # "force"
         /\ \A c : ConnIdle(c) =>
              UNCHANGED tearing /\ \A n \in DOMAIN idle' : idle'[n].cb # "force"
         /\ \A c \in IdleCalls : ConnIdle(c) => c.cb # "force"
         /\ \A i, why : \A n \in DOMAIN Append(idle, IdleCall("iqsent", i, why)) :
              Append(idle, IdleCall("iqsent", i, why))[n].cb # "force"
<1>1. idle \in Seq(IdleCalls) /\ \A n \in DOMAIN idle : idle[n].cb # "force"
  BY DEF TypeOK, ConnTypeOK, ShutdownInv
<1>2. ASSUME NEW c, c.cb # "force"
      PROVE  \A n \in DOMAIN Append(idle, c) : Append(idle, c)[n].cb # "force"
  <2>1. \A n \in DOMAIN Append(idle, c) :
          (n \in DOMAIN idle /\ Append(idle, c)[n] = idle[n]) \/ Append(idle, c)[n] = c
    BY <1>1
  <2> QED
    BY <1>1, <1>2, <2>1
<1>3. \A cb, op, why : IdleCall(cb, op, why).cb = cb
  BY DEF IdleCall
<1>4. ASSUME NEW x \in Outputs, ConnSend(x)
      PROVE  UNCHANGED tearing /\ \A n \in DOMAIN idle' : idle'[n].cb # "force"
  <2>1. CallbackOf(x) # "force"
    BY <1>4 DEF CallbackOf, Outputs, Ping, Close
  <2>2. \/ idle' = idle
        \/ idle' = Append(idle, IdleCall(CallbackOf(x), None, "busy"))
        \/ idle' = Append(idle, IdleCall(CallbackOf(x), None, "failed"))
    BY <1>4 DEF ConnSend
  <2> QED
    BY <1>1, <1>2, <1>3, <1>4, <2>1, <2>2 DEF ConnSend
<1>5. ASSUME ConnRecv
      PROVE  UNCHANGED tearing /\ \A n \in DOMAIN idle' : idle'[n].cb # "force"
  <2>1. \/ idle' = idle
        \/ idle' = Append(idle, IdleCall("recv", None, "busy"))
        \/ idle' = Append(idle, IdleCall("recv", None, "failed"))
    BY <1>5 DEF ConnRecv
  <2> QED
    BY <1>1, <1>2, <1>3, <1>5, <2>1 DEF ConnRecv
<1>6. ASSUME NEW c, ConnIdle(c)
      PROVE  UNCHANGED tearing /\ \A n \in DOMAIN idle' : idle'[n].cb # "force"
  <2>1. \A n \in DOMAIN Tail(idle) : n + 1 \in DOMAIN idle /\ Tail(idle)[n] = idle[n + 1]
    BY <1>1, <1>6 DEF ConnIdle
  <2> QED
    BY <1>1, <1>6, <2>1 DEF ConnIdle
<1>7. ASSUME NEW c, ConnIdle(c)
      PROVE  c.cb # "force"
  <2>1. 1 \in DOMAIN idle /\ c = idle[1]
    BY <1>1, <1>7 DEF ConnIdle
  <2> QED
    BY <1>1, <2>1
<1> QED
  BY <1>2, <1>3, <1>4, <1>5, <1>6, <1>7

LEMMA CloseIfWaitingQuiet ==
  ASSUME TypeOK, ShutdownInv, CloseIfWaiting
  PROVE  UNCHANGED tearing /\ \A n \in DOMAIN idle' : idle'[n].cb # "force"
BY ConnShutdown DEF CloseIfWaiting, connVars, Outputs, ShutdownInv

(* The shutdown of the connection starts for a force close in progress. *)
LEMMA ForceShutdownStarts ==
  ASSUME TypeOK, ShutdownInv, ForceShutdown, forcing # None, UNCHANGED forcing
  PROVE  /\ tearing' => forcedShutdown' /\ forcing' # None
         /\ \A n \in DOMAIN idle' : idle'[n].cb # "force"
BY DEF ForceShutdown, ConnForceClose, ShutdownInv, connVars, TypeOK, ConnTypeOK

LEMMA CallShutdown ==
  ASSUME TypeOK, ShutdownInv,
         \/ \E s \in Stanzas : Send(s) \/ SendIq(s) \/ Cancel(s)
         \/ \E p \in Pings : SendPing(p)
         \/ Start
         \/ \E o \in CloseOps, c \in BOOLEAN : CloseAsync(o, c)
         \/ CancelClose
         \/ \E o \in ForceOps, c \in BOOLEAN : ForceCloseAsync(o, c)
         \/ Return
  PROVE  ShutdownInv'
<1>0. QuietStack(stack) /\ \A n \in DOMAIN idle : idle[n].cb # "force"
  BY QuietTail DEF ShutdownInv
<1>1. ASSUME NEW s \in Stanzas, Enqueue(s)
      PROVE  ShutdownInv'
  <2>1. UNCHANGED <<forcing, forcedShutdown, localClosed, receive, stack>>
    BY <1>1 DEF Enqueue, PushTail, forceVars, endVars
  <2>2. UNCHANGED tearing /\ \A n \in DOMAIN idle' : idle'[n].cb # "force"
    <3>1. ConnSend(s) \/ UNCHANGED connVars
      BY <1>1 DEF Enqueue, PushTail, SendHead
    <3> QED
      BY <1>0, <3>1, ConnShutdown DEF connVars, Outputs
  <2> QED
    BY <1>0, <2>1, <2>2, Quiet
<1>2. ASSUME NEW s \in Stanzas, Cancel(s)
      PROVE  ShutdownInv'
  <2>1. UNCHANGED <<tearing, forcing, forcedShutdown, localClosed, receive, stack>>
    BY <1>2 DEF Cancel, forceVars, endVars
  <2>2. idle' = idle \/ idle' = Append(idle, IdleCall("iqsent", s, "cancelled"))
    BY <1>2 DEF Cancel
  <2> QED
    BY <1>0, <2>1, <2>2, ConnShutdown, Quiet
<1>3. ASSUME NEW p \in Pings, SendPing(p)
      PROVE  ShutdownInv'
  <2>1. UNCHANGED <<forcing, forcedShutdown, localClosed, receive, stack>>
    BY <1>3 DEF SendPing, forceVars, endVars
  <2>2. UNCHANGED connVars \/ ConnSend(Ping)
    BY <1>3 DEF SendPing
  <2> QED
    BY <1>0, <2>1, <2>2, ConnShutdown, Quiet DEF connVars, Outputs
<1>4. CASE Start
  <2>1. UNCHANGED <<forcing, forcedShutdown, localClosed, stack>> /\ ~localClosed /\ ConnRecv
    BY <1>4 DEF Start, forceVars
  <2>2. UNCHANGED tearing /\ \A n \in DOMAIN idle' : idle'[n].cb # "force"
    BY <2>1, ConnShutdown
  <2> QED
    BY <2>1, <2>2 DEF ShutdownInv
<1>5. ASSUME NEW o \in CloseOps, NEW c \in BOOLEAN, CloseAsync(o, c)
      PROVE  ShutdownInv'
  <2>1. UNCHANGED <<forcing, forcedShutdown, localClosed, receive, stack>>
    BY <1>5 DEF CloseAsync, forceVars, endVars
  <2>2. UNCHANGED connVars \/ ConnSend(Close)
    BY <1>5 DEF CloseAsync
  <2> QED
    BY <1>0, <2>1, <2>2, ConnShutdown, Quiet DEF connVars, Outputs
<1>6. CASE CancelClose
  BY <1>0, <1>6, Quiet DEF CancelClose, forceVars, endVars, connVars
<1>7. ASSUME NEW o \in ForceOps, NEW c \in BOOLEAN, ForceCloseAsync(o, c)
      PROVE  ShutdownInv'
  <2>1. UNCHANGED <<tearing, idle, forcedShutdown, localClosed, receive>>
    BY <1>7 DEF ForceCloseAsync, connVars, endVars
  <2>2. CASE UNCHANGED <<forcing, stack>>
    BY <1>0, <2>1, <2>2, Quiet
  <2>3. CASE /\ forcing = None /\ ~(receive = "null" /\ (localClosed \/ ~remoteClosed))
             /\ forcing' = o
             /\ stack' = <<Terminate("forced"), Frame("force_close_rest")>> \o stack
    <3>1. ~forcedShutdown /\ ~Has(stack, "force_close_rest")
      BY <2>3 DEF ShutdownInv
    <3>2. forcing' # None
      BY <2>3, OpsDistinct
    <3> DEFINE st == <<Frame("force_close_rest")>> \o stack
    <3>3. /\ Frame("force_close_rest") \in Frames /\ Terminate("forced") \in Frames
          /\ Frame("force_close_rest").fn = "force_close_rest"
          /\ Terminate("forced").fn = "terminate"
      BY FrameType, FrameFn DEF Functions, Errors
    <3>4. StackShape(st) /\ st \in Seq(Frames)
      BY <3>1, <3>3, ShapePush DEF ShutdownInv, TypeOK, Starters
    <3>5. stack' = <<Terminate("forced")>> \o st
      BY <2>3 DEF TypeOK
    <3> HIDE DEF st
    <3>6. StackShape(stack')
      BY <3>3, <3>4, <3>5, ShapePush DEF Starters
    <3> QED
      BY <2>1, <3>1, <3>2, <3>6 DEF ShutdownInv
  <2> QED
    BY <1>7, <2>2, <2>3 DEF ForceCloseAsync
<1>8. CASE Return
  <2>1. UNCHANGED <<tearing, idle, forcing, forcedShutdown, localClosed, receive>>
    BY <1>8 DEF Return, forceVars, endVars, connVars
  <2>2. QuietStack(stack')
    BY <1>8, QuietTail DEF Return, InUser
  <2> QED
    BY <1>0, <2>1, <2>2, Quiet
<1> QED
  BY <1>1, <1>2, <1>3, <1>4, <1>5, <1>6, <1>7, <1>8 DEF Send, SendIq

LEMMA IqSendFailedQuiet ==
  ASSUME TypeOK, NEW i \in Iqs, NEW why, NEW rest \in Seq(Frames),
         IqSendFailed(i, why, rest), QuietStack(rest)
  PROVE  QuietStack(stack')
<1>1. MaybeRemove(i) \in Frames /\ MaybeRemove(i).fn = "maybe_remove" /\ "iq" \in Callouts
  BY FrameType, FrameFn DEF Callouts
<1>2. QuietStack(<<MaybeRemove(i)>> \o rest) /\ <<MaybeRemove(i)>> \o rest \in Seq(Frames)
  BY <1>1, QuietPush DEF Starters
<1>3. QuietStack(Callout("iq") \o (<<MaybeRemove(i)>> \o rest))
  BY <1>1, <1>2, QuietPush
<1>4. \/ stack' = Callout("iq") \o <<MaybeRemove(i)>> \o rest
      \/ stack' = rest
  BY DEF IqSendFailed
<1>5. Callout("iq") \o <<MaybeRemove(i)>> \o rest = Callout("iq") \o (<<MaybeRemove(i)>> \o rest)
  <2>1. Callout("iq") \in Seq(Frames) /\ <<MaybeRemove(i)>> \in Seq(Frames)
    BY <1>1, FrameType
  <2> QED
    BY <2>1
<1> QED
  BY <1>3, <1>4, <1>5

LEMMA RunShutdown ==
  ASSUME TypeOK, ShutdownInv, Run
  PROVE  ShutdownInv'
<1>0. /\ \A n \in DOMAIN idle : idle[n].cb # "force"
      /\ QuietStack(stack) /\ stack \in Seq(Frames)
      /\ stack # <<>> => QuietStack(Tail(stack)) /\ Tail(stack) \in Seq(Frames)
  BY QuietTail DEF ShutdownInv, TypeOK
<1>1. CASE TerminateStep
  <2>1. UNCHANGED <<tearing, idle, forcing, forcedShutdown, localClosed, receive>>
    BY <1>1 DEF TerminateStep, forceVars, endVars, connVars
  <2>2. QuietStack(stack')
    <3>1. CASE queue = <<>>
      BY <1>0, <1>1, <3>1 DEF TerminateStep, Running
    <3>2. CASE queue # <<>>
      <4>1. \/ \E i \in Iqs : \E why : IqSendFailed(i, why, stack)
            \/ stack' = Callout("send") \o stack
        BY <1>1, <3>2 DEF TerminateStep
      <4> QED
        BY <1>0, <4>1, IqSendFailedQuiet, QuietPush DEF Callouts
    <3> QED
      BY <3>1, <3>2
  <2> QED
    BY <1>0, <2>1, <2>2, Quiet
<1>2. CASE SendNext
  <2>1. /\ UNCHANGED <<forcing, forcedShutdown, localClosed, receive>>
        /\ QuietStack(stack')
    BY <1>0, <1>2 DEF SendNext, Running, forceVars, endVars
  <2>2. UNCHANGED tearing /\ \A n \in DOMAIN idle' : idle'[n].cb # "force"
    <3>1. CASE queue # <<>>
      <4>1. Head(queue) \in Outputs
        BY <3>1 DEF TypeOK, Outputs
      <4> QED
        BY <1>2, <3>1, <4>1, ConnShutdown DEF SendNext, SendHead
    <3>2. CASE queue = <<>>
      BY <1>2, <3>2, CloseIfWaitingQuiet DEF SendNext
    <3> QED
      BY <3>1, <3>2
  <2> QED
    BY <2>1, <2>2, Quiet
<1>3. CASE CloseIfWaitingStep
  <2>1. /\ UNCHANGED <<forcing, forcedShutdown, localClosed, receive>>
        /\ QuietStack(stack')
    BY <1>0, <1>3 DEF CloseIfWaitingStep, Running, forceVars, endVars
  <2>2. UNCHANGED tearing /\ \A n \in DOMAIN idle' : idle'[n].cb # "force"
    BY <1>3, CloseIfWaitingQuiet DEF CloseIfWaitingStep
  <2> QED
    BY <2>1, <2>2, Quiet
<1>4. CASE MaybeRemoveStep
  <2>1. /\ UNCHANGED <<tearing, idle, forcing, forcedShutdown, localClosed, receive>>
        /\ QuietStack(stack')
    BY <1>0, <1>4 DEF MaybeRemoveStep, Running, forceVars, endVars, connVars
  <2> QED
    BY <1>0, <2>1, Quiet
<1>5. CASE ForceCloseRest
  <2>1. /\ stack # <<>> /\ Head(stack).fn = "force_close_rest" /\ stack' = Tail(stack)
        /\ UNCHANGED localClosed
    BY <1>5 DEF ForceCloseRest, Running
  <2>2. forcing # None /\ ~forcedShutdown
    BY <1>0, <2>1, ShapePop DEF ShutdownInv
  <2>3. /\ StackShape(stack') /\ ~Has(stack', "force_close_rest")
    BY <1>0, <2>1, ShapePop DEF ShutdownInv
  <2>4. CASE ~remoteClosed
    BY <1>5, <2>1, <2>2, <2>3, <2>4 DEF ForceCloseRest, ShutdownInv, connVars
  <2>5. CASE remoteClosed
    <3>1. ForceShutdown /\ forcing' = forcing
      BY <1>5, <2>2, <2>5 DEF ForceCloseRest
    <3>2. /\ tearing' => forcedShutdown' /\ forcing' # None
          /\ \A n \in DOMAIN idle' : idle'[n].cb # "force"
      BY <2>2, <3>1, ForceShutdownStarts
    <3> QED
      BY <2>2, <2>3, <3>1, <3>2 DEF ShutdownInv
  <2> QED
    BY <2>4, <2>5
<1>6. CASE RemoteClosedRest
  <2>1. UNCHANGED <<tearing, idle, forcing, forcedShutdown, localClosed, receive>>
    BY <1>6 DEF RemoteClosedRest, endVars, connVars
  <2>2. QuietStack(stack')
    <3>1. /\ Frame("receive_done") \in Frames /\ Frame("receive_done").fn = "receive_done"
          /\ "close" \in Callouts /\ Callout("close") \in Seq(Frames)
      BY FrameType, FrameFn DEF Functions, Callouts
    <3> DEFINE st == <<Frame("receive_done")>> \o Tail(stack)
    <3>2. QuietStack(st) /\ st \in Seq(Frames)
      BY <1>0, <1>6, <3>1, QuietPush DEF RemoteClosedRest, Running, Starters
    <3>3. QuietStack(Callout("close") \o st)
      BY <3>1, <3>2, QuietPush
    <3>4. Callout("close") \o <<Frame("receive_done")>> \o Tail(stack) = Callout("close") \o st
      BY <1>0, <1>6, <3>1 DEF RemoteClosedRest, Running
    <3> QED
      BY <1>6, <3>2, <3>3, <3>4 DEF RemoteClosedRest
  <2> QED
    BY <1>0, <2>1, <2>2, Quiet
<1>7. CASE ReceiveDone
  <2>1. /\ UNCHANGED <<tearing, idle, forcing, forcedShutdown, localClosed>>
        /\ receive' = "null" /\ QuietStack(stack')
    BY <1>0, <1>7 DEF ReceiveDone, Running, forceVars, connVars
  <2> QED
    BY <1>0, <2>1, Quiet
<1>8. CASE ReceivedRest
  <2>1. /\ UNCHANGED <<forcing, localClosed, receive>>
        /\ QuietStack(stack') /\ stack # <<>> /\ stack' = Tail(stack)
        /\ Head(stack).fn = "received_rest"
    BY <1>0, <1>8 DEF ReceivedRest, Running, endVars
  <2>2. CASE ConnRecv /\ UNCHANGED forcedShutdown
    BY <2>1, <2>2, ConnShutdown, Quiet
  <2>3. CASE UNCHANGED <<connVars, forcedShutdown>>
    BY <1>0, <2>1, <2>3, Quiet DEF connVars
  <2>4. CASE forcing # None /\ ForceShutdown
    <3>1. /\ tearing' => forcedShutdown' /\ forcing' # None
          /\ \A n \in DOMAIN idle' : idle'[n].cb # "force"
      BY <2>1, <2>4, ForceShutdownStarts
    <3>2. StackShape(stack') /\ ~Has(stack', "force_close_rest")
      BY <1>0, <2>1, StarterIsLast DEF ShutdownInv, Starters
    <3> QED
      BY <2>1, <2>4, <3>1, <3>2 DEF ShutdownInv
  <2> QED
    BY <1>8, <2>2, <2>3, <2>4 DEF ReceivedRest
<1>9. CASE ForceShutdownStep
  <2>1. /\ UNCHANGED <<forcing, localClosed, receive>>
        /\ stack # <<>> /\ stack' = Tail(stack)
        /\ Head(stack).fn = "force_shutdown" /\ ForceShutdown
    BY <1>9 DEF ForceShutdownStep, Running, endVars
  <2>2. forcing # None
    BY <1>0, <2>1, ShapePop DEF ShutdownInv
  <2>3. /\ tearing' => forcedShutdown' /\ forcing' # None
        /\ \A n \in DOMAIN idle' : idle'[n].cb # "force"
    BY <2>1, <2>2, ForceShutdownStarts
  <2>4. StackShape(stack') /\ ~Has(stack', "force_close_rest")
    BY <1>0, <2>1, StarterIsLast DEF ShutdownInv, Starters
  <2> QED
    BY <2>1, <2>2, <2>3, <2>4 DEF ShutdownInv
<1> QED
  BY <1>1, <1>2, <1>3, <1>4, <1>5, <1>6, <1>7, <1>8, <1>9 DEF Run

LEMMA RemoteClosedShutdown ==
  ASSUME TypeOK, ShutdownInv, NEW why \in Errors,
         NEW rest \in {<<>>, <<Frame("received_rest")>>}, RemoteConnectionClosed(why, rest),
         UNCHANGED tearing, \A n \in DOMAIN idle' : idle'[n].cb # "force"
  PROVE  ShutdownInv'
<1>1. UNCHANGED <<forcing, forcedShutdown, localClosed, receive>>
  BY DEF RemoteConnectionClosed, forceVars
<1>2. QuietStack(rest) /\ rest \in Seq(Frames)
  BY QuietTail, OneFrame DEF Functions
<1>3. /\ RemoteRest(why) \in Frames /\ RemoteRest(why).fn = "remote_closed_rest"
      /\ "remote" \in Callouts /\ Callout("remote") \in Seq(Frames)
  BY FrameType, FrameFn DEF Callouts
<1> DEFINE st == <<RemoteRest(why)>> \o rest
<1>4. QuietStack(st) /\ st \in Seq(Frames)
  BY <1>2, <1>3, QuietPush DEF Starters
<1>5. QuietStack(Callout("remote") \o st)
  BY <1>3, <1>4, QuietPush
<1>6. stack' = Callout("remote") \o st
  BY <1>2, <1>3 DEF RemoteConnectionClosed
<1> QED
  BY <1>1, <1>5, <1>6, Quiet

LEMMA ReceiveEndedForcedShutdown ==
  ASSUME TypeOK, ShutdownInv, forcing # None, ReceiveEndedForced,
         UNCHANGED tearing, \A n \in DOMAIN idle' : idle'[n].cb # "force"
  PROVE  ShutdownInv'
<1>1. /\ stack' = <<Frame("force_shutdown")>> /\ Frame("force_shutdown").fn = "force_shutdown"
      /\ UNCHANGED <<forcing, forcedShutdown, localClosed, receive>>
  BY FrameFn DEF ReceiveEndedForced, forceVars, endVars, Functions
<1>2. StackShape(stack') /\ ~Has(stack', "force_close_rest")
  BY <1>1, ShapeOne
<1> QED
  BY <1>1, <1>2 DEF ShutdownInv

LEMMA PingDoneShutdown ==
  ASSUME TypeOK, ShutdownInv, NEW r \in Errors \cup {"ok"}, PingDone(r),
         UNCHANGED tearing, \A n \in DOMAIN idle' : idle'[n].cb # "force"
  PROVE  ShutdownInv'
<1>1. UNCHANGED <<forcing, forcedShutdown, localClosed, receive>>
  BY DEF PingDone, forceVars, endVars
<1>2. /\ \A fn \in {"send_next", "close_if_waiting"} : Frame(fn) \in Frames /\ Frame(fn).fn = fn
      /\ "ping" \in Callouts
  BY FrameType, FrameFn DEF Functions, Callouts
<1>3. QuietStack(<<>>) /\ <<>> \in Seq(Frames)
  BY QuietTail
<1>4. /\ QuietStack(<<Frame("send_next")>>) /\ QuietStack(<<Frame("close_if_waiting")>>)
      /\ <<Frame("send_next")>> \in Seq(Frames)
      /\ <<Frame("close_if_waiting")>> \in Seq(Frames)
  BY <1>2, OneFrame, ShapeOne DEF QuietStack, Functions
<1>5. CASE r = "ok"
  <2>1. stack' = Callout("ping") \o <<Frame("send_next")>>
    BY <1>5 DEF PingDone
  <2> QED
    BY <1>1, <1>2, <1>4, <2>1, QuietPush, Quiet
<1>6. CASE r \in Errors /\ r # "ok"
  <2>1. Terminate(r) \in Frames /\ Terminate(r).fn = "terminate"
    BY <1>6, FrameType, FrameFn
  <2>2. /\ QuietStack(<<Terminate(r)>> \o <<Frame("close_if_waiting")>>)
        /\ <<Terminate(r)>> \o <<Frame("close_if_waiting")>> \in Seq(Frames)
    BY <1>2, <1>4, <2>1, QuietPush DEF Starters
  <2>3. stack' = Callout("ping") \o (<<Terminate(r)>> \o <<Frame("close_if_waiting")>>)
    BY <1>6 DEF PingDone
  <2> QED
    BY <1>1, <1>2, <2>2, <2>3, QuietPush, Quiet
<1> QED
  BY <1>5, <1>6 DEF Errors

LEMMA StanzaFailedShutdown ==
  ASSUME TypeOK, ShutdownInv, NEW why \in Errors, StanzaFailed(why),
         UNCHANGED tearing, \A n \in DOMAIN idle' : idle'[n].cb # "force"
  PROVE  ShutdownInv'
<1>1. UNCHANGED <<forcing, forcedShutdown, localClosed, receive>>
  BY DEF StanzaFailed, forceVars, endVars
<1>2. /\ Frame("close_if_waiting") \in Frames
      /\ Frame("close_if_waiting").fn = "close_if_waiting"
      /\ Terminate(why) \in Frames /\ Terminate(why).fn = "terminate"
  BY FrameType, FrameFn DEF Functions
<1>3. /\ QuietStack(<<Frame("close_if_waiting")>>)
      /\ <<Frame("close_if_waiting")>> \in Seq(Frames)
  BY <1>2, OneFrame, ShapeOne DEF QuietStack, Functions
<1>4. QuietStack(<<Terminate(why)>> \o <<Frame("close_if_waiting")>>)
  BY <1>2, <1>3, QuietPush DEF Starters
<1>5. stack' = <<Terminate(why)>> \o <<Frame("close_if_waiting")>>
  BY DEF StanzaFailed
<1> QED
  BY <1>1, <1>4, <1>5, Quiet

LEMMA CloseSentShutdown ==
  ASSUME TypeOK, ShutdownInv, NEW r, CloseSent(r),
         UNCHANGED tearing, \A n \in DOMAIN idle' : idle'[n].cb # "force"
  PROVE  ShutdownInv'
BY QuietTail, Quiet DEF CloseSent

LEMMA CallbackShutdown ==
  ASSUME TypeOK, ShutdownInv,
         \/ Deliver
         \/ WriteFailed
         \/ \E why \in {"aborted", "failed"} : ReceiveEnded(why)
         \/ ReceiveCancelled
         \/ ReceiveStanza
         \/ \E i \in Iqs : ReceiveReply(i)
         \/ ReceiveStreamError
         \/ StreamTorn
         \/ IdleReply
  PROVE  ShutdownInv'
<1>0. \A n \in DOMAIN idle : idle[n].cb # "force"
  BY DEF ShutdownInv
<1>1. CASE StanzaWritten
  <2>1. /\ UNCHANGED <<tearing, idle, forcing, forcedShutdown, localClosed, receive>>
        /\ stack = <<>>
    BY <1>1 DEF StanzaWritten, ConnWritten, forceVars, endVars, AtLoop
  <2>2. /\ Frame("send_next").fn = "send_next" /\ "send" \in Callouts
        /\ <<Frame("send_next")>> \in Seq(Frames)
    BY FrameType, FrameFn DEF Functions, Callouts
  <2>3. QuietStack(<<Frame("send_next")>>) /\ QuietStack(<<>>)
    BY <2>2, QuietTail, ShapeOne DEF QuietStack
  <2>4. \/ stack' = stack
        \/ stack' = <<Frame("send_next")>>
        \/ stack' = Callout("send") \o <<Frame("send_next")>>
    BY <1>1 DEF StanzaWritten
  <2> QED
    BY <1>0, <2>1, <2>2, <2>3, <2>4, QuietPush, Quiet
<1>2. CASE PingWritten
  BY <1>0, <1>2, PingDoneShutdown DEF PingWritten, ConnWritten
<1>3. CASE CloseWritten
  BY <1>0, <1>3, CloseSentShutdown DEF CloseWritten, ConnWritten
<1>4. CASE WriteFailed
  <2>1. UNCHANGED <<tearing, idle>> /\ "failed" \in Errors
    BY <1>4 DEF WriteFailed, ConnWriteFailed, Errors
  <2>2. StanzaFailed("failed") \/ PingDone("failed") \/ CloseSent("failed")
    BY <1>4 DEF WriteFailed
  <2> QED
    BY <1>0, <2>1, <2>2, StanzaFailedShutdown, PingDoneShutdown, CloseSentShutdown
<1>5. ASSUME NEW why \in {"aborted", "failed"}, ReceiveEnded(why)
      PROVE  ShutdownInv'
  <2>1. UNCHANGED <<tearing, idle>> /\ why \in Errors
    BY <1>5 DEF ReceiveEnded, ConnReceived, Errors
  <2> QED
    BY <1>0, <1>5, <2>1, ReceiveEndedForcedShutdown, RemoteClosedShutdown DEF ReceiveEnded
<1>6. CASE ReceiveCancelled
  <2>1. UNCHANGED <<tearing, idle>> /\ "failed" \in Errors
    BY <1>6 DEF ReceiveCancelled, ConnReceived, Errors
  <2> QED
    BY <1>0, <1>6, <2>1, ReceiveEndedForcedShutdown, RemoteClosedShutdown
    DEF ReceiveCancelled
<1>7. /\ QuietStack(<<Frame("received_rest")>>)
      /\ <<Frame("received_rest")>> \in Seq(Frames)
      /\ QuietStack(Callout("handler") \o <<Frame("received_rest")>>)
      /\ Callout("handler") \o <<Frame("received_rest")>> \in Seq(Frames)
  BY QuietTail, QuietPush, OneFrame DEF Functions, Callouts
<1>8. CASE ReceiveStanza
  <2>1. UNCHANGED <<tearing, idle, forcing, forcedShutdown, localClosed, receive>>
    BY <1>8 DEF ReceiveStanza, ConnStanza, ConnReceived, forceVars, endVars
  <2>2. stack' = Callout("handler") \o <<Frame("received_rest")>>
    BY <1>8 DEF ReceiveStanza
  <2> QED
    BY <1>0, <1>7, <2>1, <2>2, Quiet
<1>9. ASSUME NEW i \in Iqs, ReceiveReply(i)
      PROVE  ShutdownInv'
  <2>1. UNCHANGED <<tearing, idle, forcing, forcedShutdown, localClosed, receive>>
    BY <1>9 DEF ReceiveReply, ConnStanza, ConnReceived, forceVars, endVars
  <2>2. /\ MaybeRemove(i) \in Frames /\ MaybeRemove(i).fn = "maybe_remove"
        /\ "iq" \in Callouts /\ Callout("handler") \in Seq(Frames)
    BY FrameType, FrameFn DEF Callouts
  <2>3. CASE stack' = Callout("iq") \o <<MaybeRemove(i), Frame("received_rest")>>
    <3>1. <<MaybeRemove(i), Frame("received_rest")>>
            = <<MaybeRemove(i)>> \o <<Frame("received_rest")>>
      OBVIOUS
    <3>2. /\ QuietStack(<<MaybeRemove(i)>> \o <<Frame("received_rest")>>)
          /\ <<MaybeRemove(i)>> \o <<Frame("received_rest")>> \in Seq(Frames)
      BY <1>7, <2>2, QuietPush DEF Starters
    <3>3. QuietStack(stack')
      BY <2>2, <2>3, <3>1, <3>2, QuietPush
    <3> QED
      BY <1>0, <2>1, <3>3, Quiet
  <2>4. CASE stack' = <<MaybeRemove(i)>> \o Callout("handler") \o <<Frame("received_rest")>>
    <3>1. stack' = <<MaybeRemove(i)>> \o (Callout("handler") \o <<Frame("received_rest")>>)
      BY <1>7, <2>2, <2>4
    <3>2. QuietStack(stack')
      BY <1>7, <2>2, <3>1, QuietPush DEF Starters
    <3> QED
      BY <1>0, <2>1, <3>2, Quiet
  <2> QED
    BY <1>9, <2>3, <2>4 DEF ReceiveReply
<1>10. CASE ReceiveStreamError
  <2>1. UNCHANGED <<tearing, idle>> /\ "failed" \in Errors
    BY <1>10 DEF ReceiveStreamError, ConnStanza, ConnReceived, Errors
  <2> QED
    BY <1>0, <1>10, <2>1, RemoteClosedShutdown DEF ReceiveStreamError
<1>11. CASE StreamTorn
  <2>1. /\ ~tearing' /\ UNCHANGED <<idle, forcedShutdown, stack>> /\ stack = <<>>
        /\ forcing' = None /\ localClosed' /\ receive' = "null"
    BY <1>11 DEF StreamTorn, ConnTorn, ForceCloseDone, AtLoop
  <2> QED
    BY <1>0, <2>1, ShapeEmpty DEF ShutdownInv
<1>12. CASE IdleReply
  <2>1. PICK c \in IdleCalls :
          /\ ConnIdle(c)
          /\ \/ StanzaFailed(c.why)
             \/ PingDone(c.why)
             \/ CloseSent(c.why)
             \/ forcing # None /\ ReceiveEndedForced
             \/ RemoteConnectionClosed("failed", <<>>)
             \/ c.cb = "force"
             \/ /\ IqSendFailed(c.op, c.why, <<>>) /\ c.op \in Iqs
                /\ UNCHANGED <<closeVars, forceVars, endVars>>
    BY <1>12 DEF IdleReply
  <2>2. c.why \in Errors /\ "failed" \in Errors
    BY DEF IdleCalls, Errors
  <2>3. UNCHANGED tearing /\ (\A n \in DOMAIN idle' : idle'[n].cb # "force") /\ c.cb # "force"
    BY <2>1, ConnShutdown
  <2>4. CASE /\ IqSendFailed(c.op, c.why, <<>>) /\ c.op \in Iqs
             /\ UNCHANGED <<closeVars, forceVars, endVars>>
    <3>1. QuietStack(stack')
      BY <2>4, QuietTail, OneFrame, IqSendFailedQuiet
    <3> QED
      BY <2>3, <2>4, <3>1, Quiet DEF forceVars, endVars
  <2> QED
    BY <2>1, <2>2, <2>3, <2>4, StanzaFailedShutdown, PingDoneShutdown, CloseSentShutdown,
       ReceiveEndedForcedShutdown, RemoteClosedShutdown
<1> QED
  BY <1>1, <1>2, <1>3, <1>4, <1>5, <1>6, <1>8, <1>9, <1>10, <1>11, <1>12 DEF Deliver

(* connection_force_close_cb always finds its result: whatever happens     *)
(* between two calls of force_close_async, in the peer's stream or in the  *)
(* application's callbacks, the connection is shut down by one at a time.  *)
THEOREM ForceClosesNeverOverlap == Spec => []ForceCloseHasResult
<1>1. Init => ShutdownInv
  BY ShapeEmpty DEF Init, ConnInit, ShutdownInv
<1>2. TypeOK /\ ShutdownInv /\ [Next]_vars => ShutdownInv'
  <2> SUFFICES ASSUME TypeOK, ShutdownInv, [Next]_vars
               PROVE  ShutdownInv'
    OBVIOUS
  <2>1. CASE Next
    BY <2>1, CallShutdown, RunShutdown, CallbackShutdown DEF Next
  <2>2. CASE UNCHANGED vars
    <3>1. QuietStack(stack) /\ \A n \in DOMAIN idle : idle[n].cb # "force"
      BY QuietTail DEF ShutdownInv
    <3> QED
      BY <2>2, <3>1, Quiet DEF vars, forceVars, endVars, connVars
  <2> QED
    BY <2>1, <2>2
<1>3. ShutdownInv => ForceCloseHasResult
  BY DEF ShutdownInv, ForceCloseHasResult
<1> QED
  BY <1>1, <1>2, <1>3, PorterTypeCorrect, PTL DEF Spec

-----------------------------------------------------------------------------
(***************************************************************************)
(* Safety theorems about the replies to IQs and the ends of the streams of *)
(* C2SPorter, for every set of stanzas and calls: the reply table and the  *)
(* handlers of IQs follow the queue and the stack, and a close succeeds    *)
(* only when both streams have ended.                                      *)
(***************************************************************************)

(* The application does not call the porter from the callback of a send, a *)
(* ping or an IQ.  The README says what goes wrong when it does.           *)
Quietly == Reentrant \cap {"send", "ping", "iq"} = {}

(* The same of the callbacks of IQs alone. *)
QuietIqs == "iq" \notin Reentrant

(* What was proved of the porter so far *)
Basics == TypeOK /\ CallsPending /\ ShutdownInv

LEMMA BasicsHold == Spec => []Basics
<1>1. Init => CallsPending /\ ShutdownInv
  BY ShapeEmpty
  DEF Init, ConnInit, CallsPending, QueuePending, ShutdownInv
<1>2. TypeOK /\ CallsPending /\ ShutdownInv /\ [Next]_vars => CallsPending' /\ ShutdownInv'
  <2> SUFFICES ASSUME TypeOK, CallsPending, ShutdownInv, [Next]_vars
               PROVE  CallsPending' /\ ShutdownInv'
    OBVIOUS
  <2>1. CASE Next
    BY <2>1, CallAnswers, RunAnswers, CallbackAnswers, CallShutdown, RunShutdown,
       CallbackShutdown DEF Next
  <2>2. CASE UNCHANGED vars
    <3>1. QuietStack(stack) /\ \A n \in DOMAIN idle : idle[n].cb # "force"
      BY QuietTail DEF ShutdownInv
    <3>2. ShutdownInv'
      BY <2>2, <3>1, Quiet DEF vars, forceVars, endVars, connVars
    <3> QED
      BY <2>2, <3>2, NoneResolved DEF vars, sendVars, closeVars, forceVars
  <2> QED
    BY <2>1, <2>2
<1> QED
  BY <1>1, <1>2, PorterTypeCorrect, PTL DEF Spec, Basics

-----------------------------------------------------------------------------
(* The queue as a set, and the frames of a stack *)

Queued(q, s) == \E n \in DOMAIN q : q[n] = s

LEMMA QueuedAppend ==
  ASSUME NEW q \in Seq(Stanzas), NEW s
  PROVE  \A x : Queued(Append(q, s), x) <=> Queued(q, x) \/ x = s
<1>1. /\ DOMAIN Append(q, s) = 1 .. (Len(q) + 1) /\ DOMAIN q = 1 .. Len(q) /\ Len(q) \in Nat
      /\ \A n \in DOMAIN q : Append(q, s)[n] = q[n]
      /\ Append(q, s)[Len(q) + 1] = s
  OBVIOUS
<1>2. \A n \in 1 .. (Len(q) + 1) : n \in DOMAIN q \/ n = Len(q) + 1
  BY <1>1
<1>3. (\A n \in DOMAIN q : n \in DOMAIN Append(q, s)) /\ Len(q) + 1 \in DOMAIN Append(q, s)
  BY <1>1
<1> QED
  BY <1>1, <1>2, <1>3 DEF Queued

LEMMA QueuedTail ==
  ASSUME NEW q \in Seq(Stanzas), q # <<>>, NEW out, QueuePending(q, out)
  PROVE  /\ \A x : Queued(Tail(q), x) <=> Queued(q, x) /\ x # Head(q)
         /\ Queued(q, Head(q))
<1> DEFINE rest == Tail(q)
<1>1. /\ \A n \in DOMAIN rest : n + 1 \in DOMAIN q /\ n + 1 # 1 /\ rest[n] = q[n + 1]
      /\ \A n \in DOMAIN q : n = 1 \/ (n - 1 \in DOMAIN rest /\ rest[n - 1] = q[n])
      /\ Head(q) = q[1] /\ 1 \in DOMAIN q
  OBVIOUS
<1>2. \A n \in DOMAIN q : n # 1 => q[n] # q[1]
  BY <1>1 DEF QueuePending
<1> HIDE DEF rest
<1>3. \A n \in DOMAIN rest : \E m \in DOMAIN q : m # 1 /\ rest[n] = q[m]
  BY <1>1
<1>4. \A m \in DOMAIN q : m # 1 => \E n \in DOMAIN rest : rest[n] = q[m]
  BY <1>1
<1>5. Queued(q, Head(q))
  BY <1>1 DEF Queued
<1>6. \A x : Queued(rest, x) <=> Queued(q, x) /\ x # q[1]
  BY <1>2, <1>3, <1>4 DEF Queued
<1> QED
  BY <1>1, <1>5, <1>6 DEF rest

LEMMA QueuedRemove ==
  ASSUME NEW q \in Seq(Stanzas), NEW k \in DOMAIN q, NEW out, QueuePending(q, out)
  PROVE  \A x : Queued(RemoveAt(q, k), x) <=> Queued(q, x) /\ x # q[k]
<1> DEFINE kept == RemoveAt(q, k)
<1>1. /\ DOMAIN kept = 1 .. Len(q) - 1
      /\ \A n \in 1 .. Len(q) - 1 : kept[n] = IF n < k THEN q[n] ELSE q[n + 1]
  BY RemoveAtElements
<1>2. Len(q) \in Nat /\ DOMAIN q = 1 .. Len(q) /\ k \in 1 .. Len(q)
  OBVIOUS
<1> HIDE DEF kept
<1>3. \A n \in DOMAIN kept : \E m \in DOMAIN q : m # k /\ kept[n] = q[m]
  <2> TAKE n \in DOMAIN kept
  <2>1. CASE n < k
    <3>1. n \in DOMAIN q /\ n # k /\ kept[n] = q[n]
      BY <1>1, <1>2, <2>1
    <3> QED
      BY <3>1
  <2>2. CASE ~(n < k)
    <3>1. n + 1 \in DOMAIN q /\ n + 1 # k /\ kept[n] = q[n + 1]
      BY <1>1, <1>2, <2>2
    <3> QED
      BY <3>1
  <2> QED
    BY <2>1, <2>2
<1>4. \A m \in DOMAIN q : m # k => \E n \in DOMAIN kept : kept[n] = q[m]
  <2> SUFFICES ASSUME NEW m \in DOMAIN q, m # k
               PROVE  \E n \in DOMAIN kept : kept[n] = q[m]
    OBVIOUS
  <2>1. CASE m < k
    <3>1. m \in DOMAIN kept /\ kept[m] = q[m]
      BY <1>1, <1>2, <2>1
    <3> QED
      BY <3>1
  <2>2. CASE ~(m < k)
    <3>1. m - 1 \in DOMAIN kept /\ ~(m - 1 < k) /\ (m - 1) + 1 = m
      BY <1>1, <1>2, <2>2
    <3>2. kept[m - 1] = q[m]
      BY <1>1, <3>1
    <3> QED
      BY <3>1, <3>2
  <2> QED
    BY <2>1, <2>2
<1>5. \A n \in DOMAIN q : n # k => q[n] # q[k]
  BY DEF QueuePending
<1>6. \A x : Queued(kept, x) <=> Queued(q, x) /\ x # q[k]
  BY <1>3, <1>4, <1>5 DEF Queued
<1> QED
  BY <1>6 DEF kept

LEMMA HasPush ==
  ASSUME NEW f \in Frames, NEW st \in Seq(Frames)
  PROVE  /\ <<f>> \o st \in Seq(Frames) /\ Head(<<f>> \o st) = f /\ <<f>> \o st # <<>>
         /\ Tail(<<f>> \o st) = st
         /\ \A fn : Has(<<f>> \o st, fn) <=> Has(st, fn) \/ f.fn = fn
<1> DEFINE new == <<f>> \o st
<1>1. /\ DOMAIN new = 1 .. (Len(st) + 1) /\ new[1] = f /\ 1 \in DOMAIN new
      /\ \A n \in DOMAIN new : n = 1 \/ (n - 1 \in DOMAIN st /\ new[n] = st[n - 1])
      /\ \A n \in DOMAIN st : n + 1 \in DOMAIN new /\ new[n + 1] = st[n]
  OBVIOUS
<1>2. new \in Seq(Frames) /\ Head(new) = f /\ new # <<>> /\ Tail(new) = st
  OBVIOUS
<1> HIDE DEF new
<1>3. \A fn : Has(new, fn) <=> Has(st, fn) \/ f.fn = fn
  BY <1>1 DEF Has
<1> QED
  BY <1>2, <1>3 DEF new

LEMMA HasTail ==
  ASSUME NEW st \in Seq(Frames), st # <<>>
  PROVE  /\ Tail(st) \in Seq(Frames) /\ Has(st, Head(st).fn)
         /\ \A fn : Has(st, fn) <=> Has(Tail(st), fn) \/ Head(st).fn = fn
<1>1. /\ \A n \in DOMAIN Tail(st) : n + 1 \in DOMAIN st /\ Tail(st)[n] = st[n + 1]
      /\ \A n \in DOMAIN st : n = 1 \/ (n - 1 \in DOMAIN Tail(st) /\ Tail(st)[n - 1] = st[n])
      /\ Head(st) = st[1] /\ 1 \in DOMAIN st /\ Tail(st) \in Seq(Frames)
  OBVIOUS
<1> QED
  BY <1>1 DEF Has

LEMMA HasCallout ==
  ASSUME NEW kind \in Callouts, NEW st \in Seq(Frames)
  PROVE  /\ Callout(kind) \o st \in Seq(Frames)
         /\ \A fn : fn # "user" => (Has(Callout(kind) \o st, fn) <=> Has(st, fn))
         /\ kind \notin Reentrant => Callout(kind) \o st = st
<1>1. Frame("user") \in Frames /\ Frame("user").fn = "user"
  BY FrameType, FrameFn DEF Functions
<1>2. CASE kind \in Reentrant
  BY <1>1, <1>2, HasPush DEF Callout
<1>3. CASE kind \notin Reentrant
  <2>1. Callout(kind) \o st = st
    BY <1>3 DEF Callout
  <2> QED
    BY <1>3, <2>1
<1> QED
  BY <1>2, <1>3

-----------------------------------------------------------------------------
(* The idle completions of cancelled IQs *)

Failing(calls, i) == \E n \in DOMAIN calls : calls[n].cb = "iqsent" /\ calls[n].op = i

FailuresOnce(calls) ==
  /\ \A m, n \in DOMAIN calls :
       calls[m].cb = "iqsent" /\ calls[n].cb = "iqsent" /\ calls[m].op = calls[n].op => m = n
  /\ \A n \in DOMAIN calls : calls[n].cb = "iqsent" => calls[n].op \in Iqs
  /\ \A n \in DOMAIN calls : calls[n].cb # "iqsent" => calls[n].op = None

SameFailures == FailuresOnce(idle') /\ \A i : Failing(idle', i) <=> Failing(idle, i)

LEMMA IdleAppend ==
  ASSUME NEW calls \in Seq(IdleCalls), FailuresOnce(calls), NEW c,
         c.cb # "iqsent" => c.op = None,
         c.cb = "iqsent" => c.op \in Iqs /\ ~Failing(calls, c.op)
  PROVE  /\ FailuresOnce(Append(calls, c))
         /\ \A i : Failing(Append(calls, c), i)
                     <=> Failing(calls, i) \/ (c.cb = "iqsent" /\ c.op = i)
<1> DEFINE new == Append(calls, c)
           top == Len(calls) + 1
<1>1. /\ \A n \in DOMAIN new : n = top \/ n \in DOMAIN calls
      /\ \A n \in DOMAIN calls : n \in DOMAIN new /\ new[n] = calls[n] /\ n # top
      /\ top \in DOMAIN new /\ new[top] = c
  OBVIOUS
<1> HIDE DEF new, top
<1>2. \A m, n \in DOMAIN new :
        new[m].cb = "iqsent" /\ new[n].cb = "iqsent" /\ new[m].op = new[n].op => m = n
  <2> SUFFICES ASSUME NEW m \in DOMAIN new, NEW n \in DOMAIN new, new[m].cb = "iqsent",
                      new[n].cb = "iqsent", new[m].op = new[n].op
               PROVE  m = n
    OBVIOUS
  <2>1. CASE m # top /\ n # top
    BY <1>1, <2>1 DEF FailuresOnce
  <2>2. m = top => n = top
    BY <1>1 DEF Failing
  <2>3. n = top => m = top
    BY <1>1 DEF Failing
  <2> QED
    BY <2>1, <2>2, <2>3
<1>3. /\ \A n \in DOMAIN new : new[n].cb = "iqsent" => new[n].op \in Iqs
      /\ \A n \in DOMAIN new : new[n].cb # "iqsent" => new[n].op = None
  BY <1>1 DEF FailuresOnce
<1>4. \A i : Failing(new, i) <=> Failing(calls, i) \/ (c.cb = "iqsent" /\ c.op = i)
  BY <1>1 DEF Failing
<1>5. FailuresOnce(new)
  BY <1>2, <1>3 DEF FailuresOnce
<1> QED
  BY <1>4, <1>5 DEF new

LEMMA IdleTail ==
  ASSUME NEW calls \in Seq(IdleCalls), calls # <<>>, FailuresOnce(calls)
  PROVE  /\ FailuresOnce(Tail(calls))
         /\ \A i : Failing(Tail(calls), i)
                     <=> Failing(calls, i) /\ ~(Head(calls).cb = "iqsent" /\ Head(calls).op = i)
         /\ Head(calls).cb = "iqsent" => Failing(calls, Head(calls).op)
         /\ Head(calls).cb = "iqsent" => Head(calls).op \in Iqs
<1> DEFINE rest == Tail(calls)
<1>1. /\ \A n \in DOMAIN rest : n + 1 \in DOMAIN calls /\ n + 1 # 1 /\ rest[n] = calls[n + 1]
      /\ \A n \in DOMAIN calls :
           n = 1 \/ (n - 1 \in DOMAIN rest /\ rest[n - 1] = calls[n])
      /\ \A m, n \in DOMAIN rest : m + 1 = n + 1 => m = n
      /\ Head(calls) = calls[1] /\ 1 \in DOMAIN calls
  OBVIOUS
<1> HIDE DEF rest
<1>2. FailuresOnce(rest)
  <2>1. \A m, n \in DOMAIN rest :
          rest[m].cb = "iqsent" /\ rest[n].cb = "iqsent" /\ rest[m].op = rest[n].op => m = n
    <3> SUFFICES ASSUME NEW m \in DOMAIN rest, NEW n \in DOMAIN rest, rest[m].cb = "iqsent",
                        rest[n].cb = "iqsent", rest[m].op = rest[n].op
                 PROVE  m = n
      OBVIOUS
    <3>1. m + 1 \in DOMAIN calls /\ n + 1 \in DOMAIN calls
      BY <1>1
    <3>2. rest[m] = calls[m + 1] /\ rest[n] = calls[n + 1]
      BY <1>1
    <3>3. m + 1 = n + 1
      BY <3>1, <3>2 DEF FailuresOnce
    <3> QED
      BY <1>1, <3>3
  <2>2. /\ \A n \in DOMAIN rest : rest[n].cb = "iqsent" => rest[n].op \in Iqs
        /\ \A n \in DOMAIN rest : rest[n].cb # "iqsent" => rest[n].op = None
    <3>1. \A n \in DOMAIN rest : n + 1 \in DOMAIN calls /\ rest[n] = calls[n + 1]
      BY <1>1
    <3>2. /\ \A n \in DOMAIN calls : calls[n].cb = "iqsent" => calls[n].op \in Iqs
          /\ \A n \in DOMAIN calls : calls[n].cb # "iqsent" => calls[n].op = None
      BY DEF FailuresOnce
    <3> QED
      BY <3>1, <3>2
  <2> QED
    BY <2>1, <2>2 DEF FailuresOnce
<1>3. ASSUME NEW i
      PROVE  Failing(rest, i) <=> Failing(calls, i) /\ ~(calls[1].cb = "iqsent" /\ calls[1].op = i)
  <2>1. calls[1].cb = "iqsent" /\ calls[1].op = i =>
          \A n \in DOMAIN calls : calls[n].cb = "iqsent" /\ calls[n].op = i => n = 1
    <3>1. 1 \in DOMAIN calls
      BY <1>1
    <3> QED
      BY <3>1 DEF FailuresOnce
  <2>2. \A n \in DOMAIN rest : \E m \in DOMAIN calls : m # 1 /\ rest[n] = calls[m]
    BY <1>1
  <2>3. \A m \in DOMAIN calls : m # 1 => \E n \in DOMAIN rest : rest[n] = calls[m]
    BY <1>1
  <2>4. Failing(rest, i) => Failing(calls, i) /\ ~(calls[1].cb = "iqsent" /\ calls[1].op = i)
    BY <2>1, <2>2 DEF Failing
  <2>5. Failing(calls, i) /\ ~(calls[1].cb = "iqsent" /\ calls[1].op = i) => Failing(rest, i)
    BY <2>3 DEF Failing
  <2> QED
    BY <2>4, <2>5
<1>4. calls[1].cb = "iqsent" => Failing(calls, calls[1].op) /\ calls[1].op \in Iqs
  <2>1. 1 \in DOMAIN calls
    BY <1>1
  <2> QED
    BY <2>1 DEF Failing, FailuresOnce
<1> QED
  BY <1>1, <1>2, <1>3, <1>4 DEF rest

(* Only the porter's own idle calls are about an IQ. *)
LEMMA ConnFailures ==
  ASSUME TypeOK, FailuresOnce(idle)
  PROVE  /\ UNCHANGED idle => SameFailures
         /\ \A x \in Outputs : ConnSend(x) => SameFailures
         /\ ConnRecv => SameFailures
         /\ ConnForceClose => SameFailures
         /\ CloseIfWaiting => SameFailures
         /\ ForceShutdown => SameFailures
<1>1. idle \in Seq(IdleCalls)
  BY DEF TypeOK, ConnTypeOK
<1>2. ASSUME NEW cb, cb # "iqsent", NEW why, idle' = Append(idle, IdleCall(cb, None, why))
      PROVE  SameFailures
  <2>1. IdleCall(cb, None, why).cb = cb /\ IdleCall(cb, None, why).op = None
    BY DEF IdleCall
  <2> QED
    BY <1>1, <1>2, <2>1, IdleAppend DEF SameFailures
<1>3. UNCHANGED idle => SameFailures
  BY DEF SameFailures
<1>4. ASSUME NEW x \in Outputs, ConnSend(x)
      PROVE  SameFailures
  <2>1. CallbackOf(x) # "iqsent"
    BY <1>4 DEF CallbackOf, Outputs, Ping, Close
  <2>2. UNCHANGED idle \/ \E why : idle' = Append(idle, IdleCall(CallbackOf(x), None, why))
    BY <1>4 DEF ConnSend
  <2> QED
    BY <1>2, <1>3, <2>1, <2>2
<1>5. ASSUME ConnRecv
      PROVE  SameFailures
  <2>1. UNCHANGED idle \/ \E why : idle' = Append(idle, IdleCall("recv", None, why))
    BY <1>5 DEF ConnRecv
  <2> QED
    BY <1>2, <1>3, <2>1
<1>6. ASSUME ConnForceClose
      PROVE  SameFailures
  <2>1. UNCHANGED idle \/ \E why : idle' = Append(idle, IdleCall("force", None, why))
    BY <1>6 DEF ConnForceClose
  <2> QED
    BY <1>2, <1>3, <2>1
<1>7. CloseIfWaiting => SameFailures
  BY <1>3, <1>4 DEF CloseIfWaiting, Outputs, connVars
<1>8. ForceShutdown => SameFailures
  BY <1>3, <1>6 DEF ForceShutdown, connVars
<1> QED
  BY <1>3, <1>4, <1>5, <1>6, <1>7, <1>8

-----------------------------------------------------------------------------
(* An IQ is in the reply table as long as its caller waits, its stanza is  *)
(* queued, the failure of its stanza waits in an idle call, or the         *)
(* function that answered its caller is about to let it go.  What was sent *)
(* is out of the queue, so the reply may let it go; what was not is still  *)
(* on its way to iq_sent_cb, which will.                                   *)

Leaving(st, i) == st # <<>> /\ Head(st).fn = "maybe_remove" /\ Head(st).op = i

IqNeeded(i) ==
  /\ i \in iqTable <=> \/ outcome[i] = "pending"
                       \/ Queued(queue, i)
                       \/ Failing(idle, i)
                       \/ Leaving(stack, i)
  /\ Failing(idle, i) => outcome[i] \notin Open /\ ~Queued(queue, i)
  /\ Leaving(stack, i) => outcome[i] \notin Open
  /\ i \in iqSent => outcome[i] # "new" /\ ~Queued(queue, i) /\ ~Failing(idle, i)
  /\ i \in iqTable \ iqSent => Queued(queue, i) \/ Failing(idle, i)

(* The application is not called between the answer and the removal. *)
LeavesFirst(st) == \A n \in DOMAIN st : st[n].fn = "maybe_remove" => n = 1

IqInv ==
  /\ \A i \in Iqs : IqNeeded(i)
  /\ FailuresOnce(idle)
  /\ LeavesFirst(stack)

Plain(st) == ~Has(st, "maybe_remove")

LEMMA PlainStacks ==
  ASSUME NEW st \in Seq(Frames)
  PROVE  /\ Plain(st) => LeavesFirst(st) /\ \A i : ~Leaving(st, i)
         /\ LeavesFirst(st) /\ (st # <<>> => Head(st).fn # "maybe_remove") => Plain(st)
         /\ LeavesFirst(st) /\ st # <<>> => Plain(Tail(st))
<1>1. Plain(st) => LeavesFirst(st) /\ \A i : ~Leaving(st, i)
  <2>1. st # <<>> => Has(st, Head(st).fn)
    BY HasTail
  <2> QED
    BY <2>1 DEF Plain, Has, LeavesFirst, Leaving
<1>2. LeavesFirst(st) /\ (st # <<>> => Head(st).fn # "maybe_remove") => Plain(st)
  <2>1. \A n \in DOMAIN st : n = 1 => st # <<>> /\ Head(st) = st[n]
    OBVIOUS
  <2> QED
    BY <2>1 DEF Plain, Has, LeavesFirst
<1>3. ASSUME LeavesFirst(st), st # <<>>
      PROVE  Plain(Tail(st))
  <2>1. \A n \in DOMAIN Tail(st) : n + 1 \in DOMAIN st /\ n + 1 # 1 /\ Tail(st)[n] = st[n + 1]
    BY <1>3
  <2> QED
    BY <1>3, <2>1 DEF Plain, Has, LeavesFirst
<1> QED
  BY <1>1, <1>2, <1>3

LEMMA LeavingPush ==
  ASSUME NEW st \in Seq(Frames), Plain(st), NEW i \in Iqs
  PROVE  /\ <<MaybeRemove(i)>> \o st \in Seq(Frames)
         /\ LeavesFirst(<<MaybeRemove(i)>> \o st)
         /\ \A x : Leaving(<<MaybeRemove(i)>> \o st, x) <=> x = i
<1> DEFINE f == MaybeRemove(i)
           new == <<f>> \o st
<1>1. f \in Frames /\ f.fn = "maybe_remove" /\ f.op = i
  BY FrameType, FrameFn DEF MaybeRemove, Frame
<1> HIDE DEF f
<1>2. /\ new \in Seq(Frames) /\ new # <<>> /\ Head(new) = f
      /\ \A n \in DOMAIN new : n = 1 \/ (n - 1 \in DOMAIN st /\ new[n] = st[n - 1])
  BY <1>1
<1> HIDE DEF new
<1>3. LeavesFirst(new)
  BY <1>2 DEF LeavesFirst, Plain, Has
<1>4. \A x : Leaving(new, x) <=> x = i
  BY <1>1, <1>2 DEF Leaving
<1> QED
  BY <1>2, <1>3, <1>4 DEF f, new

(* A step that has nothing to do with IQs *)
LEMMA IqQuiet ==
  ASSUME IqInv, UNCHANGED <<iqTable, iqSent>>, SameFailures,
         \A i \in Iqs : outcome'[i] = outcome[i] /\ (Queued(queue', i) <=> Queued(queue, i)),
         Plain(stack), Plain(stack'), stack \in Seq(Frames), stack' \in Seq(Frames)
  PROVE  IqInv'
<1>1. \A i : ~Leaving(stack, i) /\ ~Leaving(stack', i)
  BY PlainStacks
<1>2. ASSUME NEW i \in Iqs
      PROVE  IqNeeded(i)'
  <2>1. IqNeeded(i)
    BY DEF IqInv
  <2>2. /\ outcome'[i] = outcome[i] /\ (Queued(queue', i) <=> Queued(queue, i))
        /\ (Failing(idle', i) <=> Failing(idle, i))
    BY DEF SameFailures
  <2> QED
    BY <1>1, <2>1, <2>2 DEF IqNeeded
<1>3. FailuresOnce(idle') /\ LeavesFirst(stack')
  BY PlainStacks DEF SameFailures
<1> QED
  BY <1>2, <1>3 DEF IqInv

LEMMA OtherResolved ==
  ASSUME TypeOK, NEW x, x \notin Iqs, NEW r, Resolve(x, r)
  PROVE  \A i \in Iqs : outcome'[i] = outcome[i]
BY OpsDistinct DEF TypeOK, Resolve

LEMMA EnqueueIqs ==
  ASSUME Basics, IqInv, NEW s \in Stanzas, Send(s) \/ SendIq(s)
  PROVE  IqInv'
<1>1. /\ Enqueue(s) /\ outcome[s] = "new" /\ UNCHANGED <<stack, iqSent>>
      /\ iqTable' = IF s \in Iqs /\ ~Closing THEN iqTable \cup {s} ELSE iqTable
  BY DEF Send, SendIq, Enqueue
<1>2. /\ stack \in Seq(Frames) /\ queue \in Seq(Stanzas) /\ idle \in Seq(IdleCalls)
      /\ outcome \in [Ops -> Outcomes] /\ QueuePending(queue, outcome)
      /\ s \in Ops /\ iqSent \subseteq Iqs
  BY OpsDistinct DEF Basics, TypeOK, ConnTypeOK, CallsPending
<1>3. Plain(stack)
  BY <1>1, <1>2, PlainStacks DEF Enqueue, CanCall, AtLoop, InUser, IqInv
<1>4. SameFailures
  <2>1. ConnSend(s) \/ UNCHANGED idle
    BY <1>1 DEF Enqueue, SendHead, connVars
  <2> QED
    BY <2>1, ConnFailures DEF Basics, IqInv, Outputs
<1>5. ASSUME Closing
      PROVE  /\ \A x \in Ops : outcome'[x] = IF x = s THEN "refused" ELSE outcome[x]
             /\ \A x : Queued(queue', x) <=> Queued(queue, x)
  BY <1>1, <1>2, <1>5 DEF Enqueue, Resolve
<1>6. ASSUME ~Closing
      PROVE  /\ \A x \in Ops : outcome'[x] = IF x = s THEN "pending" ELSE outcome[x]
             /\ \A x : Queued(queue', x) <=> Queued(queue, x) \/ x = s
  <2>1. queue' = Append(queue, s) /\ Resolve(s, "pending")
    BY <1>1, <1>6 DEF Enqueue, PushTail
  <2>2. \A x : Queued(queue', x) <=> Queued(queue, x) \/ x = s
    BY <1>2, <2>1, QueuedAppend
  <2> QED
    BY <1>2, <2>1, <2>2 DEF Resolve
<1>7. \A i \in Iqs : i \in Ops /\ ~Leaving(stack, i)
  BY <1>2, <1>3, PlainStacks, OpsDistinct
<1>8. ASSUME NEW i \in Iqs
      PROVE  IqNeeded(i)'
  <2>1. IqNeeded(i) /\ ~Leaving(stack, i) /\ i \in Ops
    BY <1>7 DEF IqInv
  <2>2. ~Leaving(stack', i) /\ (Failing(idle', i) <=> Failing(idle, i))
    BY <1>1, <2>1, <1>4 DEF SameFailures
  <2>3. CASE i # s
    <3>1. /\ outcome'[i] = outcome[i] /\ (Queued(queue', i) <=> Queued(queue, i))
          /\ (i \in iqTable' <=> i \in iqTable) /\ iqSent' = iqSent
      BY <1>1, <1>5, <1>6, <2>1, <2>3
    <3> QED
      BY <2>1, <2>2, <3>1 DEF IqNeeded
  <2>4. CASE i = s
    <3>1. ~Queued(queue, i)
      BY <1>1, <1>2, <2>4 DEF Queued, QueuePending
    <3>2. i \notin iqTable /\ i \notin iqSent /\ ~Failing(idle, i)
      BY <1>1, <2>1, <2>4, <3>1 DEF IqNeeded, Open
    <3>3. CASE Closing
      BY <1>1, <1>5, <2>1, <2>2, <2>4, <3>1, <3>2, <3>3 DEF IqNeeded
    <3>4. CASE ~Closing
      BY <1>1, <1>6, <2>1, <2>2, <2>4, <3>2, <3>4 DEF IqNeeded
    <3> QED
      BY <3>3, <3>4
  <2> QED
    BY <2>3, <2>4
<1> QED
  BY <1>1, <1>4, <1>8 DEF IqInv, SameFailures

LEMMA CancelIqs ==
  ASSUME Basics, IqInv, NEW s \in Stanzas, Cancel(s)
  PROVE  IqInv'
<1>1. /\ outcome[s] = "pending" /\ Resolve(s, "cancelled") /\ UNCHANGED <<stack, iqSent>>
      /\ iqTable' = IF s \in iqSent THEN iqTable \ {s} ELSE iqTable
      /\ s \in armed \cup Iqs
  BY DEF Cancel
<1>2. /\ stack \in Seq(Frames) /\ queue \in Seq(Stanzas) /\ idle \in Seq(IdleCalls)
      /\ outcome \in [Ops -> Outcomes] /\ QueuePending(queue, outcome)
      /\ s \in Ops /\ iqSent \subseteq Iqs
  BY OpsDistinct DEF Basics, TypeOK, ConnTypeOK, CallsPending
<1>3. Plain(stack)
  BY <1>2, PlainStacks DEF Cancel, CanCall, AtLoop, InUser, IqInv
<1>4. \A x \in Ops : outcome'[x] = IF x = s THEN "cancelled" ELSE outcome[x]
  BY <1>1, <1>2 DEF Resolve
<1>5. IF s \in armed
        THEN Queued(queue, s) /\ \A x : Queued(queue', x) <=> Queued(queue, x) /\ x # s
        ELSE UNCHANGED <<queue, idle>>
  <2>1. CASE s \in armed
    <3>1. PICK n \in DOMAIN queue : queue[n] = s /\ queue' = RemoveAt(queue, n)
      BY <2>1 DEF Cancel
    <3>2. Queued(queue, s)
      BY <3>1 DEF Queued
    <3> QED
      BY <1>2, <2>1, <3>1, <3>2, QueuedRemove
  <2>2. CASE s \notin armed
    BY <2>2 DEF Cancel
  <2> QED
    BY <2>1, <2>2
<1>6. s \in Iqs => IqNeeded(s) /\ ~Failing(idle, s)
  BY <1>1 DEF IqInv, IqNeeded, Open
<1>7. /\ FailuresOnce(idle')
      /\ \A x : Failing(idle', x) <=> Failing(idle, x) \/ (s \in armed \cap Iqs /\ x = s)
  <2>1. CASE s \in armed \cap Iqs
    <3>1. idle' = Append(idle, IdleCall("iqsent", s, "cancelled"))
      BY <2>1 DEF Cancel
    <3>2. /\ IdleCall("iqsent", s, "cancelled").cb = "iqsent"
          /\ IdleCall("iqsent", s, "cancelled").op = s
      BY DEF IdleCall
    <3> QED
      BY <1>2, <1>6, <2>1, <3>1, <3>2, IdleAppend DEF IqInv
  <2>2. CASE s \notin armed \cap Iqs
    <3>1. UNCHANGED idle
      BY <1>1, <2>2 DEF Cancel
    <3> QED
      BY <2>2, <3>1 DEF IqInv
  <2> QED
    BY <2>1, <2>2
<1>8. ASSUME NEW i \in Iqs
      PROVE  IqNeeded(i)'
  <2>1. IqNeeded(i) /\ ~Leaving(stack, i) /\ ~Leaving(stack', i) /\ i \in Ops
    BY <1>1, <1>2, <1>3, PlainStacks, OpsDistinct DEF IqInv
  <2>2. CASE i # s
    <3>1. /\ outcome'[i] = outcome[i] /\ (Queued(queue', i) <=> Queued(queue, i))
          /\ (Failing(idle', i) <=> Failing(idle, i))
          /\ (i \in iqTable' <=> i \in iqTable) /\ iqSent' = iqSent
      BY <1>1, <1>4, <1>5, <1>7, <2>1, <2>2
    <3> QED
      BY <2>1, <3>1 DEF IqNeeded
  <2>3. CASE i = s
    <3>1. /\ i \in iqTable /\ outcome'[i] = "cancelled" /\ ~Failing(idle, i)
      BY <1>1, <1>4, <1>6, <2>1, <2>3 DEF IqNeeded
    <3>2. CASE s \in armed
      <4>1. Queued(queue, i) /\ ~Queued(queue', i) /\ Failing(idle', i)
        BY <1>5, <1>7, <2>3, <3>2
      <4>2. i \notin iqSent
        BY <2>1, <4>1 DEF IqNeeded
      <4> QED
        BY <1>1, <2>1, <2>3, <3>1, <4>1, <4>2 DEF IqNeeded, Open
    <3>3. CASE s \notin armed
      <4>1. (Queued(queue', i) <=> Queued(queue, i)) /\ ~Failing(idle', i)
        BY <1>5, <1>7, <2>3, <3>1, <3>3
      <4> QED
        BY <1>1, <2>1, <2>3, <3>1, <4>1 DEF IqNeeded
    <3> QED
      BY <3>2, <3>3
  <2> QED
    BY <2>2, <2>3
<1>9. LeavesFirst(stack')
  BY <1>1 DEF IqInv
<1> QED
  BY <1>7, <1>8, <1>9 DEF IqInv

LEMMA CallIqs ==
  ASSUME Basics, IqInv,
         \/ \E s \in Stanzas : Send(s) \/ SendIq(s) \/ Cancel(s)
         \/ \E p \in Pings : SendPing(p)
         \/ Start
         \/ \E o \in CloseOps, c \in BOOLEAN : CloseAsync(o, c)
         \/ CancelClose
         \/ \E o \in ForceOps, c \in BOOLEAN : ForceCloseAsync(o, c)
         \/ Return
  PROVE  IqInv'
<1>1. /\ stack \in Seq(Frames) /\ (CanCall => Plain(stack))
      /\ TypeOK /\ FailuresOnce(idle) /\ outcome \in [Ops -> Outcomes]
  BY PlainStacks DEF Basics, TypeOK, IqInv, CanCall, AtLoop, InUser
<1>2. ASSUME NEW p \in Pings, SendPing(p)
      PROVE  IqInv'
  <2>1. UNCHANGED <<queue, stack, iqTable, iqSent>> /\ CanCall /\ \E r : Resolve(p, r)
    BY <1>2 DEF SendPing, iqVars
  <2>2. SameFailures
    BY <1>1, <1>2, ConnFailures DEF SendPing, connVars, Outputs
  <2> QED
    BY <1>1, <2>1, <2>2, IqQuiet, OtherResolved, OpsDistinct
<1>3. CASE Start
  BY <1>1, <1>3, ConnFailures, IqQuiet DEF Start, sendVars, iqVars
<1>4. ASSUME NEW o \in CloseOps, NEW c \in BOOLEAN, CloseAsync(o, c)
      PROVE  IqInv'
  <2>1. UNCHANGED <<queue, stack, iqTable, iqSent>> /\ CanCall /\ \E r : Resolve(o, r)
    BY <1>4 DEF CloseAsync, sendVars, iqVars
  <2>2. SameFailures
    BY <1>1, <1>4, ConnFailures DEF CloseAsync, connVars, Outputs
  <2> QED
    BY <1>1, <2>1, <2>2, IqQuiet, OtherResolved, OpsDistinct
<1>5. CASE CancelClose
  BY <1>1, <1>5, ConnFailures, IqQuiet DEF CancelClose, sendVars, iqVars, connVars
<1>6. ASSUME NEW o \in ForceOps, NEW c \in BOOLEAN, ForceCloseAsync(o, c)
      PROVE  IqInv'
  <2>1. UNCHANGED <<queue, iqTable, iqSent, idle>> /\ CanCall
    BY <1>6 DEF ForceCloseAsync, sendVars, iqVars, connVars
  <2>2. \A i \in Iqs : outcome'[i] = outcome[i]
    <3>1. \A i \in Iqs : i \in Ops /\ i # o /\ i # closing
      BY <1>1, OpsDistinct DEF TypeOK
    <3>2. \/ Resolve(o, "refused")
          \/ outcome' = [x \in Ops |-> IF x = o THEN "pending"
                                       ELSE IF x = closing THEN "forced"
                                       ELSE outcome[x]]
      BY <1>6 DEF ForceCloseAsync
    <3> QED
      BY <1>1, <3>1, <3>2 DEF Resolve
  <2>3. Plain(stack') /\ stack' \in Seq(Frames)
    <3>1. \/ stack' = stack
          \/ stack' = <<Terminate("forced"), Frame("force_close_rest")>> \o stack
      BY <1>6 DEF ForceCloseAsync
    <3>2. /\ Frame("force_close_rest") \in Frames /\ Terminate("forced") \in Frames
          /\ Frame("force_close_rest").fn # "maybe_remove"
          /\ Terminate("forced").fn # "maybe_remove"
      BY FrameType, FrameFn DEF Functions, Errors
    <3> DEFINE st == <<Frame("force_close_rest")>> \o stack
    <3>3. st \in Seq(Frames) /\ Plain(st)
      BY <1>1, <2>1, <3>2, HasPush DEF Plain
    <3>4. <<Terminate("forced"), Frame("force_close_rest")>> \o stack
            = <<Terminate("forced")>> \o st
      BY <1>1
    <3> HIDE DEF st
    <3>5. Plain(<<Terminate("forced")>> \o st) /\ <<Terminate("forced")>> \o st \in Seq(Frames)
      BY <3>2, <3>3, HasPush DEF Plain
    <3> QED
      BY <1>1, <2>1, <3>1, <3>4, <3>5
  <2> QED
    BY <1>1, <2>1, <2>2, <2>3, ConnFailures, IqQuiet
<1>7. CASE Return
  <2>1. /\ UNCHANGED <<queue, iqTable, iqSent, idle, outcome>> /\ CanCall
        /\ stack # <<>> /\ stack' = Tail(stack)
    BY <1>7 DEF Return, InUser, CanCall, sendVars, iqVars, connVars
  <2>2. Plain(stack') /\ stack' \in Seq(Frames)
    BY <1>1, <2>1, HasTail DEF Plain
  <2> QED
    BY <1>1, <2>1, <2>2, ConnFailures, IqQuiet
<1> QED
  BY <1>2, <1>3, <1>4, <1>5, <1>6, <1>7, EnqueueIqs, CancelIqs

(* iq_sent_cb is called for a queued stanza or for a failure that waited. *)
LEMMA IqSendFailedIqs ==
  ASSUME Basics, IqInv, QuietIqs, NEW i \in Iqs, NEW why \in Errors, NEW rest \in Seq(Frames),
         IqSendFailed(i, why, rest), Plain(rest), Plain(stack), outcome[i] # "new",
         \A x \in Iqs : Queued(queue', x) <=> Queued(queue, x) /\ x # i,
         \A x \in Iqs : Failing(idle', x) <=> Failing(idle, x) /\ x # i,
         FailuresOnce(idle')
  PROVE  IqInv'
<1>1. /\ stack \in Seq(Frames) /\ outcome \in [Ops -> Outcomes] /\ i \in Ops
      /\ \A x \in Iqs : x \in Ops /\ ~Leaving(stack, x) /\ ~Leaving(rest, x)
      /\ iqSent' = iqSent \cup {i}
  BY PlainStacks, OpsDistinct DEF Basics, TypeOK, IqSendFailed
<1>2. IF outcome[i] = "pending"
        THEN /\ \A x \in Iqs : outcome'[x] = IF x = i THEN why ELSE outcome[x]
             /\ \A x : Leaving(stack', x) <=> x = i
             /\ LeavesFirst(stack') /\ UNCHANGED iqTable
        ELSE /\ \A x \in Iqs : outcome'[x] = outcome[x] /\ ~Leaving(stack', x)
             /\ LeavesFirst(stack') /\ iqTable' = iqTable \ {i}
  <2>1. CASE outcome[i] = "pending"
    <3>1. Resolve(i, why) /\ UNCHANGED iqTable
          /\ stack' = Callout("iq") \o <<MaybeRemove(i)>> \o rest
      BY <2>1 DEF IqSendFailed
    <3>2. stack' = <<MaybeRemove(i)>> \o rest
      <4>1. Callout("iq") = <<>>
        BY DEF Callout, QuietIqs
      <4>2. MaybeRemove(i) \in Frames
        BY FrameType
      <4> QED
        BY <3>1, <4>1, <4>2
    <3>3. LeavesFirst(stack') /\ \A x : Leaving(stack', x) <=> x = i
      BY <3>2, LeavingPush
    <3>4. \A x \in Iqs : outcome'[x] = IF x = i THEN why ELSE outcome[x]
      BY <1>1, <3>1 DEF Resolve
    <3> QED
      BY <2>1, <3>1, <3>3, <3>4
  <2>2. CASE outcome[i] # "pending"
    <3>1. iqTable' = iqTable \ {i} /\ stack' = rest /\ UNCHANGED outcome
      BY <2>2 DEF IqSendFailed
    <3> QED
      BY <1>1, <2>2, <3>1, PlainStacks
  <2> QED
    BY <2>1, <2>2
<1>3. ASSUME NEW x \in Iqs
      PROVE  IqNeeded(x)'
  <2>1. IqNeeded(x) /\ ~Leaving(stack, x)
    BY <1>1 DEF IqInv
  <2>2. CASE x # i
    <3>1. /\ outcome'[x] = outcome[x] /\ ~Leaving(stack', x)
          /\ (x \in iqTable' <=> x \in iqTable) /\ (x \in iqSent' <=> x \in iqSent)
          /\ (Queued(queue', x) <=> Queued(queue, x)) /\ (Failing(idle', x) <=> Failing(idle, x))
      BY <1>1, <1>2, <2>2
    <3> QED
      BY <2>1, <3>1 DEF IqNeeded
  <2>3. CASE x = i
    <3>1. ~Queued(queue', x) /\ ~Failing(idle', x) /\ x \in iqSent'
      BY <1>1, <2>3
    <3>2. CASE outcome[i] = "pending"
      <4>1. x \in iqTable' /\ outcome'[x] = why /\ Leaving(stack', x)
        BY <1>2, <2>1, <2>3, <3>2 DEF IqNeeded
      <4>2. why \notin Open
        BY DEF Errors, Open
      <4> QED
        BY <3>1, <4>1, <4>2 DEF IqNeeded, Open
    <3>3. CASE outcome[i] # "pending"
      <4>1. x \notin iqTable' /\ outcome'[x] = outcome[i] /\ ~Leaving(stack', x)
        BY <1>2, <2>3, <3>3
      <4> QED
        BY <3>1, <3>3, <4>1 DEF IqNeeded
    <3> QED
      BY <3>2, <3>3
  <2> QED
    BY <2>2, <2>3
<1>4. LeavesFirst(stack')
  BY <1>2
<1> QED
  BY <1>3, <1>4 DEF IqInv

(* abort_pending_iqs keeps the IQs whose stanza has not left yet. *)
LEMMA AbortIqs ==
  ASSUME Basics, IqInv, NEW why \in Errors, iqTable' = TableAfterAbort,
         \A i \in Iqs : outcome'[i] = Aborted(why)[i],
         UNCHANGED <<queue, iqSent>>, SameFailures,
         Plain(stack), Plain(stack'), stack' \in Seq(Frames)
  PROVE  IqInv'
<1>1. /\ stack \in Seq(Frames) /\ iqTable \subseteq Iqs
      /\ \A i \in Iqs : i \in Ops /\ ~Leaving(stack, i) /\ ~Leaving(stack', i)
  BY PlainStacks, OpsDistinct DEF Basics, TypeOK
<1>2. why \notin Open
  BY DEF Errors, Open
<1>3. ASSUME NEW i \in Iqs
      PROVE  IqNeeded(i)'
  <2>1. /\ IqNeeded(i) /\ ~Leaving(stack, i) /\ ~Leaving(stack', i)
        /\ (Failing(idle', i) <=> Failing(idle, i)) /\ UNCHANGED <<queue, iqSent>>
    BY <1>1 DEF IqInv, SameFailures
  <2>2. CASE outcome[i] = "pending"
    <3>1. i \in PendingIqs
      BY <2>1, <2>2 DEF PendingIqs, IqNeeded
    <3>2. outcome'[i] = why
      BY <1>1, <3>1 DEF Aborted
    <3>3. i \in iqTable' <=> i \notin iqSent
      BY <3>1 DEF TableAfterAbort, PendingIqs
    <3>4. ~Failing(idle, i)
      BY <2>1, <2>2 DEF IqNeeded, Open
    <3>5. i \notin iqSent <=> Queued(queue, i)
      BY <2>1, <2>2, <3>4 DEF IqNeeded
    <3> QED
      BY <1>2, <2>1, <3>2, <3>3, <3>4, <3>5 DEF IqNeeded, Open
  <2>3. CASE outcome[i] # "pending"
    <3>1. outcome'[i] = outcome[i]
      BY <1>1, <2>3 DEF Aborted, PendingIqs
    <3>2. i \in iqTable' <=> i \in iqTable
      BY <2>3 DEF TableAfterAbort, PendingIqs
    <3> QED
      BY <2>1, <3>1, <3>2 DEF IqNeeded
  <2> QED
    BY <2>2, <2>3
<1>4. FailuresOnce(idle') /\ LeavesFirst(stack')
  BY PlainStacks DEF SameFailures
<1> QED
  BY <1>3, <1>4 DEF IqInv

LEMMA TerminateIqs ==
  ASSUME Basics, IqInv, QuietIqs, TerminateStep
  PROVE  IqInv'
<1>1. /\ stack \in Seq(Frames) /\ stack # <<>> /\ Head(stack).fn = "terminate"
      /\ queue \in Seq(Stanzas) /\ QueuePending(queue, outcome) /\ UNCHANGED idle
      /\ Head(stack).why \in Errors
  BY TopFrame DEF Basics, TypeOK, CallsPending, TerminateStep, Running, connVars
<1>2. Plain(stack) /\ SameFailures
  BY <1>1, PlainStacks, ConnFailures DEF IqInv, Basics
<1>3. CASE queue = <<>>
  <2>1. stack' = Tail(stack) /\ UNCHANGED <<queue, iqTable, iqSent, outcome>>
    BY <1>3 DEF TerminateStep, iqVars
  <2>2. Plain(stack') /\ stack' \in Seq(Frames)
    BY <1>1, <1>2, <2>1, HasTail DEF Plain
  <2> QED
    BY <1>1, <1>2, <2>1, <2>2, IqQuiet
<1>4. CASE queue # <<>>
  <2> DEFINE s == Head(queue)
  <2>1. /\ s \in Stanzas /\ queue' = Tail(queue)
        /\ IF s \in Iqs THEN IqSendFailed(s, Head(stack).why, stack)
                        ELSE /\ Resolve(s, Head(stack).why)
                             /\ stack' = Callout("send") \o stack
                             /\ UNCHANGED <<iqTable, iqSent>>
    BY <1>1, <1>4 DEF TerminateStep, iqVars
  <2>2. /\ \A x : Queued(queue', x) <=> Queued(queue, x) /\ x # s
        /\ Queued(queue, s)
    BY <1>1, <1>4, <2>1, QueuedTail
  <2> HIDE DEF s
  <2>3. CASE s \in Iqs
    <3>1. ~Failing(idle, s) /\ outcome[s] # "new"
      BY <1>1, <2>2, <2>3 DEF IqInv, IqNeeded, Queued, QueuePending
    <3>2. /\ \A x \in Iqs : Failing(idle', x) <=> Failing(idle, x) /\ x # s
          /\ FailuresOnce(idle')
      BY <1>2, <3>1 DEF SameFailures
    <3> QED
      BY <1>1, <1>2, <2>1, <2>2, <2>3, <3>1, <3>2, IqSendFailedIqs
  <2>4. CASE s \notin Iqs
    <3>1. \A i \in Iqs : outcome'[i] = outcome[i]
      BY <2>1, <2>4, OtherResolved DEF Basics
    <3>2. Plain(stack') /\ stack' \in Seq(Frames)
      BY <1>1, <1>2, <2>1, <2>4, HasCallout DEF Plain, Callouts
    <3>3. \A i \in Iqs : Queued(queue', i) <=> Queued(queue, i)
      BY <2>2, <2>4
    <3> QED
      BY <1>1, <1>2, <2>1, <2>4, <3>1, <3>2, <3>3, IqQuiet
  <2> QED
    BY <2>3, <2>4
<1> QED
  BY <1>3, <1>4

LEMMA RunIqs ==
  ASSUME Basics, IqInv, QuietIqs, Run
  PROVE  IqInv'
<1>1. /\ stack \in Seq(Frames) /\ stack # <<>> /\ Tail(stack) \in Seq(Frames)
      /\ Plain(Tail(stack)) /\ TypeOK /\ FailuresOnce(idle)
      /\ (Head(stack).fn # "maybe_remove" => Plain(stack))
  <2>1. stack # <<>>
    BY DEF Run, Running, TerminateStep, SendNext, CloseIfWaitingStep, MaybeRemoveStep,
           ForceCloseRest, RemoteClosedRest, ReceiveDone, ReceivedRest, ForceShutdownStep
  <2> QED
    BY <2>1, PlainStacks, HasTail DEF Basics, TypeOK, IqInv
<1>2. CASE SendNext \/ CloseIfWaitingStep
  <2>1. /\ stack' = Tail(stack) /\ UNCHANGED <<queue, iqTable, iqSent, outcome>>
        /\ Head(stack).fn # "maybe_remove"
    BY <1>2 DEF SendNext, CloseIfWaitingStep, Running, sendVars, iqVars
  <2>2. SameFailures
    <3>1. (queue # <<>> /\ ConnSend(Head(queue))) \/ CloseIfWaiting
      BY <1>2 DEF SendNext, CloseIfWaitingStep, SendHead
    <3>2. queue # <<>> => Head(queue) \in Outputs
      BY <1>1 DEF TypeOK, Outputs
    <3> QED
      BY <1>1, <3>1, <3>2, ConnFailures
  <2> QED
    BY <1>1, <2>1, <2>2, IqQuiet
<1>3. CASE MaybeRemoveStep
  <2> DEFINE j == Head(stack).op
  <2>1. /\ stack' = Tail(stack) /\ Leaving(stack, j) /\ UNCHANGED <<queue, iqSent, idle, outcome>>
        /\ iqTable' = IF j \in iqSent /\ outcome[j] # "pending" THEN iqTable \ {j} ELSE iqTable
        /\ \A x : Leaving(stack, x) <=> x = j
    BY <1>1, <1>3 DEF MaybeRemoveStep, Running, Leaving, sendVars, connVars
  <2> HIDE DEF j
  <2>2. \A x : ~Leaving(stack', x)
    BY <1>1, <2>1, PlainStacks
  <2>3. ASSUME NEW x \in Iqs
        PROVE  IqNeeded(x)'
    <3>1. IqNeeded(x)
      BY DEF IqInv
    <3>2. CASE x # j
      BY <2>1, <2>2, <3>1, <3>2 DEF IqNeeded
    <3>3. CASE x = j
      <4>1. x \in iqTable /\ outcome[x] \notin Open
        BY <2>1, <3>1, <3>3 DEF IqNeeded
      <4>2. CASE x \in iqSent
        <5>1. x \notin iqTable' /\ ~Queued(queue, x) /\ ~Failing(idle, x)
          BY <2>1, <3>1, <3>3, <4>1, <4>2 DEF IqNeeded, Open
        <5> QED
          BY <2>1, <2>2, <3>1, <4>1, <5>1 DEF IqNeeded, Open
      <4>3. CASE x \notin iqSent
        <5>1. iqTable' = iqTable
          BY <2>1, <3>3, <4>3
        <5> QED
          BY <2>1, <2>2, <3>1, <4>1, <4>3, <5>1 DEF IqNeeded, Open
      <4> QED
        BY <4>2, <4>3
    <3> QED
      BY <3>2, <3>3
  <2> QED
    BY <1>1, <2>1, <2>3, PlainStacks DEF IqInv
<1>4. CASE ForceCloseRest
  <2>1. /\ stack' = Tail(stack) /\ iqTable' = TableAfterAbort /\ UNCHANGED <<queue, iqSent>>
        /\ Head(stack).fn # "maybe_remove"
    BY <1>4 DEF ForceCloseRest, Running, sendVars
  <2>2. SameFailures
    BY <1>1, <1>4, ConnFailures DEF ForceCloseRest, connVars
  <2>3. ASSUME NEW i \in Iqs
        PROVE  outcome'[i] = Aborted("forced")[i]
    <3>1. i \in Ops /\ i # forcing
      BY <1>1, OpsDistinct DEF TypeOK
    <3>2. \/ outcome' = Aborted("forced")
          \/ outcome' = [Aborted("forced") EXCEPT ![forcing] = "forced"]
      BY <1>4 DEF ForceCloseRest
    <3> QED
      BY <3>1, <3>2 DEF Aborted
  <2>4. "forced" \in Errors
    BY DEF Errors
  <2> QED
    BY <1>1, <2>1, <2>2, <2>3, <2>4, AbortIqs
<1>5. CASE RemoteClosedRest
  <2>1. /\ UNCHANGED <<queue, iqTable, iqSent, idle>> /\ Head(stack).fn # "maybe_remove"
        /\ \/ stack' = Callout("close") \o <<Frame("receive_done")>> \o Tail(stack)
           \/ stack' = <<Frame("receive_done")>> \o Tail(stack)
        /\ UNCHANGED outcome \/ \E r : Resolve(closing, r)
    BY <1>5 DEF RemoteClosedRest, Running, CompleteClose, sendVars, iqVars, connVars
  <2> DEFINE st == <<Frame("receive_done")>> \o Tail(stack)
  <2>2. Frame("receive_done") \in Frames /\ Frame("receive_done").fn # "maybe_remove"
    BY FrameType, FrameFn DEF Functions
  <2>3. st \in Seq(Frames) /\ Plain(st)
    BY <1>1, <2>2, HasPush DEF Plain
  <2>4. stack' = Callout("close") \o st \/ stack' = st
    <3>1. Callout("close") \in Seq(Frames) /\ <<Frame("receive_done")>> \in Seq(Frames)
      BY FrameType, OneFrame DEF Callouts, Functions
    <3>2. Callout("close") \o <<Frame("receive_done")>> \o Tail(stack)
            = Callout("close") \o (<<Frame("receive_done")>> \o Tail(stack))
      BY <1>1, <3>1
    <3> QED
      BY <2>1, <3>2
  <2> HIDE DEF st
  <2>5. Plain(stack') /\ stack' \in Seq(Frames)
    BY <2>3, <2>4, HasCallout DEF Plain, Callouts
  <2>6. \A i \in Iqs : outcome'[i] = outcome[i]
    <3>1. closing \notin Iqs
      BY <1>1, OpsDistinct DEF TypeOK
    <3> QED
      BY <1>1, <2>1, <3>1, OtherResolved
  <2> QED
    BY <1>1, <2>1, <2>5, <2>6, ConnFailures, IqQuiet
<1>6. CASE ReceiveDone \/ ReceivedRest \/ ForceShutdownStep
  <2>1. /\ stack' = Tail(stack) /\ UNCHANGED <<queue, iqTable, iqSent, outcome>>
        /\ Head(stack).fn # "maybe_remove"
    BY <1>6 DEF ReceiveDone, ReceivedRest, ForceShutdownStep, Running, sendVars, iqVars
  <2>2. SameFailures
    BY <1>1, <1>6, ConnFailures DEF ReceiveDone, ReceivedRest, ForceShutdownStep, connVars
  <2> QED
    BY <1>1, <2>1, <2>2, IqQuiet
<1> QED
  BY <1>2, <1>3, <1>4, <1>5, <1>6, TerminateIqs DEF Run

(* The stacks that the callbacks of the main loop start *)
LEMMA LoopStacks ==
  ASSUME NEW rest \in {<<>>, <<Frame("received_rest")>>}, NEW why \in Errors
  PROVE  /\ Callout("remote") \o <<RemoteRest(why)>> \o rest \in Seq(Frames)
         /\ Callout("handler") \o <<Frame("received_rest")>> \in Seq(Frames)
         /\ <<Frame("force_shutdown")>> \in Seq(Frames)
         /\ <<Terminate(why), Frame("close_if_waiting")>> \in Seq(Frames)
         /\ Callout("ping") \o <<Terminate(why), Frame("close_if_waiting")>> \in Seq(Frames)
         /\ Callout("ping") \o <<Frame("send_next")>> \in Seq(Frames)
         /\ Callout("send") \o <<Frame("send_next")>> \in Seq(Frames)
         /\ <<Frame("send_next")>> \in Seq(Frames)
         /\ \A fn : fn # "user" =>
              /\ ~Has(<<>>, fn)
              /\ Has(Callout("remote") \o <<RemoteRest(why)>> \o rest, fn)
                   => fn \in {"remote_closed_rest", "received_rest"}
              /\ Has(Callout("handler") \o <<Frame("received_rest")>>, fn)
                   => fn = "received_rest"
              /\ Has(<<Frame("force_shutdown")>>, fn) => fn = "force_shutdown"
              /\ Has(<<Terminate(why), Frame("close_if_waiting")>>, fn)
                   <=> fn \in {"terminate", "close_if_waiting"}
              /\ Has(Callout("ping") \o <<Terminate(why), Frame("close_if_waiting")>>, fn)
                   <=> fn \in {"terminate", "close_if_waiting"}
              /\ Has(Callout("ping") \o <<Frame("send_next")>>, fn) <=> fn = "send_next"
              /\ Has(Callout("send") \o <<Frame("send_next")>>, fn) <=> fn = "send_next"
              /\ Has(<<Frame("send_next")>>, fn) <=> fn = "send_next"
<1>1. \A name \in Functions :
        /\ <<Frame(name)>> \in Seq(Frames)
        /\ \A fn : Has(<<Frame(name)>>, fn) <=> fn = name
  BY OneFrame, ShapeOne, FrameFn
<1>2. <<>> \in Seq(Frames) /\ \A fn : ~Has(<<>>, fn)
  BY OneFrame, ShapeEmpty
<1>3. \A kind \in Callouts : \A st \in Seq(Frames) :
        /\ Callout(kind) \o st \in Seq(Frames)
        /\ \A fn : fn # "user" => (Has(Callout(kind) \o st, fn) <=> Has(st, fn))
  BY HasCallout
<1>4. /\ RemoteRest(why) \in Frames /\ RemoteRest(why).fn = "remote_closed_rest"
      /\ Terminate(why) \in Frames /\ Terminate(why).fn = "terminate"
  BY FrameType, FrameFn
<1>5. rest \in Seq(Frames) /\ \A fn : Has(rest, fn) => fn = "received_rest"
  BY <1>1, <1>2 DEF Functions
<1>6. /\ <<RemoteRest(why)>> \o rest \in Seq(Frames)
      /\ \A fn : Has(<<RemoteRest(why)>> \o rest, fn)
                   => fn \in {"remote_closed_rest", "received_rest"}
  BY <1>4, <1>5, HasPush
<1>7. Callout("remote") \o <<RemoteRest(why)>> \o rest
        = Callout("remote") \o (<<RemoteRest(why)>> \o rest)
  <2>1. Callout("remote") \in Seq(Frames) /\ <<RemoteRest(why)>> \in Seq(Frames)
    BY <1>4, FrameType DEF Callouts
  <2> QED
    BY <1>5, <2>1
<1>8. /\ <<Terminate(why), Frame("close_if_waiting")>>
           = <<Terminate(why)>> \o <<Frame("close_if_waiting")>>
      /\ <<Terminate(why)>> \o <<Frame("close_if_waiting")>> \in Seq(Frames)
      /\ \A fn : Has(<<Terminate(why)>> \o <<Frame("close_if_waiting")>>, fn)
                   <=> fn \in {"terminate", "close_if_waiting"}
  <2>1. /\ <<Frame("close_if_waiting")>> \in Seq(Frames)
        /\ \A fn : Has(<<Frame("close_if_waiting")>>, fn) <=> fn = "close_if_waiting"
    BY <1>1 DEF Functions
  <2>2. <<Terminate(why), Frame("close_if_waiting")>>
          = <<Terminate(why)>> \o <<Frame("close_if_waiting")>>
    OBVIOUS
  <2> QED
    BY <1>4, <2>1, <2>2, HasPush
<1>9. {"send_next", "force_shutdown", "received_rest"} \subseteq Functions
      /\ {"remote", "handler", "ping", "send"} \subseteq Callouts
  BY DEF Functions, Callouts
<1>10. /\ <<Frame("send_next")>> \in Seq(Frames) /\ <<Frame("force_shutdown")>> \in Seq(Frames)
       /\ <<Frame("received_rest")>> \in Seq(Frames)
       /\ \A fn : /\ Has(<<Frame("send_next")>>, fn) <=> fn = "send_next"
                  /\ Has(<<Frame("force_shutdown")>>, fn) <=> fn = "force_shutdown"
                  /\ Has(<<Frame("received_rest")>>, fn) <=> fn = "received_rest"
  BY <1>1, <1>9
<1> DEFINE failed == <<Terminate(why), Frame("close_if_waiting")>>
           ended == <<RemoteRest(why)>> \o rest
           sent == <<Frame("send_next")>>
           received == <<Frame("received_rest")>>
<1>11. /\ failed \in Seq(Frames)
       /\ \A fn : Has(failed, fn) <=> fn \in {"terminate", "close_if_waiting"}
  BY <1>8
<1> HIDE DEF failed, ended, sent, received
<1>12. /\ Callout("ping") \o failed \in Seq(Frames)
       /\ \A fn : fn # "user" => (Has(Callout("ping") \o failed, fn)
                                   <=> fn \in {"terminate", "close_if_waiting"})
  BY <1>3, <1>9, <1>11
<1>13. /\ Callout("ping") \o sent \in Seq(Frames) /\ Callout("send") \o sent \in Seq(Frames)
       /\ \A fn : fn # "user" => /\ Has(Callout("ping") \o sent, fn) <=> fn = "send_next"
                                 /\ Has(Callout("send") \o sent, fn) <=> fn = "send_next"
  BY <1>3, <1>9, <1>10 DEF sent
<1>14. /\ Callout("handler") \o received \in Seq(Frames)
       /\ \A fn : fn # "user" => (Has(Callout("handler") \o received, fn)
                                   <=> fn = "received_rest")
  BY <1>3, <1>9, <1>10 DEF received
<1>15. /\ Callout("remote") \o ended \in Seq(Frames)
       /\ \A fn : fn # "user" => (Has(Callout("remote") \o ended, fn)
                                   => fn \in {"remote_closed_rest", "received_rest"})
  BY <1>3, <1>6, <1>9 DEF ended
<1> QED
  BY <1>2, <1>7, <1>10, <1>11, <1>12, <1>13, <1>14, <1>15 DEF failed, ended, sent, received

LEMMA PingDoneIqs ==
  ASSUME Basics, IqInv, NEW r \in Errors \cup {"ok"}, PingDone(r), SameFailures, AtLoop
  PROVE  IqInv'
<1>1. /\ UNCHANGED <<queue, iqTable, iqSent>> /\ Resolve(pinging, r)
      /\ stack = <<>> /\ TypeOK /\ pinging \notin Iqs
      /\ stack \in Seq(Frames) /\ Plain(stack)
  BY OneFrame, ShapeEmpty, OpsDistinct
  DEF PingDone, Basics, TypeOK, iqVars, AtLoop, Plain
<1>2. Plain(stack') /\ stack' \in Seq(Frames)
  <2>1. CASE r = "ok"
    <3>1. "failed" \in Errors /\ stack' = Callout("ping") \o <<Frame("send_next")>>
      BY <2>1 DEF PingDone, Errors
    <3> QED
      BY <3>1, LoopStacks DEF Plain
  <2>2. CASE r # "ok"
    <3>1. /\ stack' = Callout("ping") \o <<Terminate(r), Frame("close_if_waiting")>>
          /\ r \in Errors
      BY <2>2 DEF PingDone
    <3> QED
      BY <3>1, LoopStacks DEF Plain
  <2> QED
    BY <2>1, <2>2
<1> QED
  BY <1>1, <1>2, IqQuiet, OtherResolved

LEMMA StanzaFailedIqs ==
  ASSUME Basics, IqInv, NEW why \in Errors, StanzaFailed(why), SameFailures, AtLoop
  PROVE  IqInv'
<1>1. /\ UNCHANGED <<queue, iqTable, iqSent, outcome>>
      /\ stack' = <<Terminate(why), Frame("close_if_waiting")>>
      /\ stack \in Seq(Frames) /\ Plain(stack)
  BY ShapeEmpty DEF StanzaFailed, Basics, TypeOK, iqVars, sendVars, AtLoop, Plain
<1>2. Plain(stack') /\ stack' \in Seq(Frames)
  BY <1>1, LoopStacks DEF Plain
<1> QED
  BY <1>1, <1>2, IqQuiet

LEMMA CloseSentIqs ==
  ASSUME Basics, IqInv, NEW r, CloseSent(r), SameFailures, AtLoop
  PROVE  IqInv'
<1>1. /\ UNCHANGED <<queue, iqTable, iqSent, stack>>
      /\ stack \in Seq(Frames) /\ Plain(stack) /\ TypeOK /\ closing \notin Iqs
      /\ UNCHANGED outcome \/ \E res : Resolve(closing, res)
  BY ShapeEmpty, OpsDistinct
  DEF CloseSent, CompleteClose, Basics, TypeOK, iqVars, sendVars, AtLoop, Plain
<1> QED
  BY <1>1, IqQuiet, OtherResolved

LEMMA ReceiveEndedIqs ==
  ASSUME Basics, IqInv, NEW why \in Errors, NEW rest \in {<<>>, <<Frame("received_rest")>>},
         RemoteConnectionClosed(why, rest) \/ ReceiveEndedForced, SameFailures, AtLoop
  PROVE  IqInv'
<1>1. stack \in Seq(Frames) /\ Plain(stack) /\ TypeOK
  BY ShapeEmpty DEF Basics, TypeOK, AtLoop, Plain
<1>2. CASE RemoteConnectionClosed(why, rest)
  <2>1. /\ UNCHANGED <<queue, iqSent>> /\ iqTable' = TableAfterAbort /\ outcome' = Aborted(why)
        /\ stack' = Callout("remote") \o <<RemoteRest(why)>> \o rest
    BY <1>2 DEF RemoteConnectionClosed, AbortPendingIqs, sendVars
  <2>2. Plain(stack') /\ stack' \in Seq(Frames)
    BY <2>1, LoopStacks DEF Plain
  <2> QED
    BY <1>1, <2>1, <2>2, AbortIqs
<1>3. CASE ReceiveEndedForced
  <2>1. /\ UNCHANGED <<queue, iqTable, iqSent, outcome>>
        /\ stack' = <<Frame("force_shutdown")>>
    BY <1>3 DEF ReceiveEndedForced, sendVars, iqVars
  <2>2. Plain(stack') /\ stack' \in Seq(Frames)
    BY <2>1, LoopStacks DEF Plain
  <2> QED
    BY <1>1, <2>1, <2>2, IqQuiet
<1> QED
  BY <1>2, <1>3

LEMMA StanzaWrittenIqs ==
  ASSUME Basics, IqInv, StanzaWritten
  PROVE  IqInv'
<1>1. /\ stack \in Seq(Frames) /\ Plain(stack) /\ TypeOK /\ SameFailures
      /\ queue \in Seq(Stanzas) /\ QueuePending(queue, outcome)
      /\ \A x : ~Leaving(stack, x)
  BY ShapeEmpty, ConnFailures
  DEF Basics, TypeOK, AtLoop, Plain, StanzaWritten, ConnWritten, IqInv, CallsPending, Leaving
<1>2. CASE queue = <<>>
  BY <1>1, <1>2, IqQuiet DEF StanzaWritten, iqVars
<1>3. CASE queue # <<>>
  <2> DEFINE s == Head(queue)
  <2>1. /\ s \in Stanzas /\ queue' = Tail(queue)
        /\ IF s \in Iqs
             THEN /\ iqSent' = iqSent \cup {s}
                  /\ iqTable' = IF outcome[s] = "pending" THEN iqTable ELSE iqTable \ {s}
                  /\ stack' = <<Frame("send_next")>>
                  /\ UNCHANGED outcome
             ELSE /\ Resolve(s, "ok")
                  /\ stack' = Callout("send") \o <<Frame("send_next")>>
                  /\ UNCHANGED <<iqTable, iqSent>>
    BY <1>1, <1>3 DEF StanzaWritten, iqVars
  <2>2. /\ \A x : Queued(queue', x) <=> Queued(queue, x) /\ x # s
        /\ Queued(queue, s)
    BY <1>1, <1>3, <2>1, QueuedTail
  <2> HIDE DEF s
  <2>3. Plain(stack') /\ stack' \in Seq(Frames)
    <3>1. "failed" \in Errors
      BY DEF Errors
    <3> QED
      BY <2>1, <3>1, LoopStacks DEF Plain
  <2>4. CASE s \in Iqs
    <3>1. ASSUME NEW x \in Iqs
          PROVE  IqNeeded(x)'
      <4>1. IqNeeded(x) /\ ~Leaving(stack', x) /\ (Failing(idle', x) <=> Failing(idle, x))
        BY <1>1, <2>3, PlainStacks DEF IqInv, SameFailures
      <4>2. CASE x # s
        <5>1. /\ outcome'[x] = outcome[x] /\ (Queued(queue', x) <=> Queued(queue, x))
              /\ (x \in iqTable' <=> x \in iqTable) /\ (x \in iqSent' <=> x \in iqSent)
          BY <2>1, <2>2, <2>4, <4>2
        <5> QED
          BY <1>1, <4>1, <5>1 DEF IqNeeded
      <4>3. CASE x = s
        <5>1. /\ ~Failing(idle, x) /\ x \in iqTable /\ ~Queued(queue', x) /\ x \in iqSent'
              /\ outcome'[x] = outcome[x]
          BY <2>1, <2>2, <2>4, <4>1, <4>3 DEF IqNeeded
        <5>2. outcome[x] # "new"
          BY <1>1, <2>2, <4>3 DEF Queued, QueuePending
        <5>3. x \in iqTable' <=> outcome[x] = "pending"
          BY <2>1, <2>4, <4>3, <5>1
        <5> QED
          BY <4>1, <5>1, <5>2, <5>3 DEF IqNeeded
      <4> QED
        BY <4>2, <4>3
    <3> QED
      BY <1>1, <2>3, <3>1, PlainStacks DEF IqInv, SameFailures
  <2>5. CASE s \notin Iqs
    <3>1. \A i \in Iqs : outcome'[i] = outcome[i]
      BY <1>1, <2>1, <2>5, OtherResolved
    <3>2. \A i \in Iqs : Queued(queue', i) <=> Queued(queue, i)
      BY <2>2, <2>5
    <3> QED
      BY <1>1, <2>1, <2>3, <2>5, <3>1, <3>2, IqQuiet
  <2> QED
    BY <2>4, <2>5
<1> QED
  BY <1>2, <1>3

LEMMA ReceiveReplyIqs ==
  ASSUME Basics, IqInv, QuietIqs, NEW i \in Iqs, ReceiveReply(i)
  PROVE  IqInv'
<1>1. /\ stack \in Seq(Frames) /\ TypeOK /\ SameFailures /\ i \in iqTable
      /\ outcome \in [Ops -> Outcomes]
      /\ UNCHANGED <<queue, iqTable, iqSent>>
      /\ \A x : ~Leaving(stack, x)
      /\ \A x \in Iqs : x \in Ops
  BY ConnFailures, OpsDistinct
  DEF Basics, TypeOK, AtLoop, ReceiveReply, ConnStanza, ConnReceived, IqInv, Leaving, sendVars,
      iqVars
<1>2. /\ LeavesFirst(stack')
      /\ \A x : Leaving(stack', x) <=> x = i
  <2>1. "failed" \in Errors
    BY DEF Errors
  <2>2. /\ <<Frame("received_rest")>> \in Seq(Frames) /\ Plain(<<Frame("received_rest")>>)
        /\ Callout("handler") \o <<Frame("received_rest")>> \in Seq(Frames)
        /\ Plain(Callout("handler") \o <<Frame("received_rest")>>)
    BY <2>1, LoopStacks, OneFrame, ShapeOne, FrameFn DEF Plain, Functions
  <2>3. CASE stack' = Callout("iq") \o <<MaybeRemove(i), Frame("received_rest")>>
    <3>1. stack' = <<MaybeRemove(i)>> \o <<Frame("received_rest")>>
      <4>1. Callout("iq") = <<>>
        BY DEF Callout, QuietIqs
      <4> QED
        BY <2>3, <4>1
    <3> QED
      BY <2>2, <3>1, LeavingPush
  <2>4. CASE stack' = <<MaybeRemove(i)>> \o Callout("handler") \o <<Frame("received_rest")>>
    <3>1. stack' = <<MaybeRemove(i)>> \o (Callout("handler") \o <<Frame("received_rest")>>)
      <4>1. Callout("handler") \in Seq(Frames) /\ MaybeRemove(i) \in Frames
        BY FrameType DEF Callouts
      <4> QED
        BY <2>2, <2>4, <4>1
    <3> QED
      BY <2>2, <3>1, LeavingPush
  <2> QED
    BY <2>3, <2>4 DEF ReceiveReply
<1>3. /\ \A x \in Iqs : x # i => outcome'[x] = outcome[x]
      /\ outcome'[i] \notin Open
  <2>1. outcome[i] # "new"
    <3>1. IqNeeded(i) /\ ~Leaving(stack, i)
      BY <1>1 DEF IqInv
    <3> QED
      BY <1>1, <3>1 DEF IqNeeded, Open, Basics, CallsPending, QueuePending, Queued
  <2>2. IF outcome[i] = "pending" THEN Resolve(i, "ok") ELSE UNCHANGED outcome
    BY DEF ReceiveReply
  <2> QED
    BY <1>1, <2>1, <2>2 DEF Resolve, Open
<1>4. ASSUME NEW x \in Iqs
      PROVE  IqNeeded(x)'
  <2>1. /\ IqNeeded(x) /\ ~Leaving(stack, x) /\ (Leaving(stack', x) <=> x = i)
        /\ (Failing(idle', x) <=> Failing(idle, x))
    BY <1>1, <1>2 DEF IqInv, SameFailures
  <2>2. CASE x # i
    BY <1>1, <1>3, <2>1, <2>2 DEF IqNeeded
  <2>3. CASE x = i
    BY <1>1, <1>3, <2>1, <2>3 DEF IqNeeded, Open
  <2> QED
    BY <2>2, <2>3
<1> QED
  BY <1>1, <1>2, <1>4 DEF IqInv, SameFailures

LEMMA IdleReplyIqs ==
  ASSUME Basics, IqInv, QuietIqs, IdleReply
  PROVE  IqInv'
<1>1. PICK c \in IdleCalls :
        /\ ConnIdle(c)
        /\ \/ c.cb = "stanza" /\ StanzaFailed(c.why)
           \/ c.cb = "ping" /\ PingDone(c.why)
           \/ c.cb = "close" /\ CloseSent(c.why)
           \/ c.cb = "recv" /\ ReceiveEndedForced
           \/ c.cb = "recv" /\ RemoteConnectionClosed("failed", <<>>)
           \/ c.cb = "force" /\ ForceCloseDone(c.why)
           \/ /\ c.cb = "iqsent" /\ c.op \in Iqs /\ IqSendFailed(c.op, c.why, <<>>)
              /\ UNCHANGED queue
  BY DEF IdleReply, sendVars
<1>2. /\ idle \in Seq(IdleCalls) /\ idle # <<>> /\ c = Head(idle) /\ idle' = Tail(idle)
      /\ c.why \in Errors /\ "failed" \in Errors /\ AtLoop
      /\ stack \in Seq(Frames) /\ Plain(stack) /\ TypeOK /\ FailuresOnce(idle)
  <2>1. c.why \in Errors /\ "failed" \in Errors
    BY DEF IdleCalls, Errors
  <2> QED
    BY <1>1, <2>1, ShapeEmpty
    DEF ConnIdle, Basics, TypeOK, ConnTypeOK, IdleReply, AtLoop, Plain, IqInv
<1>3. /\ FailuresOnce(idle')
      /\ \A i : Failing(idle', i) <=> Failing(idle, i) /\ ~(c.cb = "iqsent" /\ c.op = i)
      /\ c.cb = "iqsent" => Failing(idle, c.op)
  BY <1>2, IdleTail
<1>4. c.cb # "iqsent" => SameFailures
  BY <1>3 DEF SameFailures
<1>5. CASE c.cb = "force" /\ ForceCloseDone(c.why)
  <2>1. \A n \in DOMAIN idle : idle[n].cb # "force"
    BY DEF Basics, ShutdownInv
  <2>2. 1 \in DOMAIN idle /\ c = idle[1]
    BY <1>2
  <2> QED
    BY <1>5, <2>1, <2>2
<1>6. CASE /\ c.cb = "iqsent" /\ c.op \in Iqs /\ IqSendFailed(c.op, c.why, <<>>)
           /\ UNCHANGED queue
  <2>1. IqNeeded(c.op) /\ Failing(idle, c.op)
    BY <1>3, <1>6 DEF IqInv
  <2>2. outcome[c.op] # "new" /\ ~Queued(queue, c.op)
    BY <2>1 DEF IqNeeded, Open
  <2>3. /\ \A x \in Iqs : Queued(queue', x) <=> Queued(queue, x) /\ x # c.op
        /\ \A x \in Iqs : Failing(idle', x) <=> Failing(idle, x) /\ x # c.op
    BY <1>3, <1>6, <2>2
  <2>4. <<>> \in Seq(Frames) /\ Plain(<<>>)
    BY OneFrame, ShapeEmpty DEF Plain
  <2> QED
    BY <1>2, <1>3, <1>6, <2>2, <2>3, <2>4, IqSendFailedIqs
<1> QED
  BY <1>1, <1>2, <1>4, <1>5, <1>6, StanzaFailedIqs, PingDoneIqs, CloseSentIqs, ReceiveEndedIqs

LEMMA CallbackIqs ==
  ASSUME Basics, IqInv, QuietIqs,
         \/ Deliver
         \/ WriteFailed
         \/ \E why \in {"aborted", "failed"} : ReceiveEnded(why)
         \/ ReceiveCancelled
         \/ ReceiveStanza
         \/ \E i \in Iqs : ReceiveReply(i)
         \/ ReceiveStreamError
         \/ StreamTorn
         \/ IdleReply
  PROVE  IqInv'
<1>1. /\ TypeOK /\ FailuresOnce(idle) /\ stack \in Seq(Frames) /\ (AtLoop => Plain(stack))
      /\ {"failed", "aborted"} \subseteq Errors
      /\ (UNCHANGED idle => SameFailures)
  BY ShapeEmpty, ConnFailures DEF Basics, TypeOK, IqInv, AtLoop, Plain, Errors
<1>2. CASE PingWritten
  BY <1>1, <1>2, PingDoneIqs DEF PingWritten, ConnWritten
<1>3. CASE CloseWritten
  BY <1>1, <1>3, CloseSentIqs DEF CloseWritten, ConnWritten
<1>4. CASE WriteFailed
  BY <1>1, <1>4, StanzaFailedIqs, PingDoneIqs, CloseSentIqs DEF WriteFailed, ConnWriteFailed
<1>5. ASSUME NEW why \in {"aborted", "failed"}, ReceiveEnded(why)
      PROVE  IqInv'
  <2>1. /\ AtLoop /\ UNCHANGED idle /\ why \in Errors
        /\ RemoteConnectionClosed(why, <<>>) \/ ReceiveEndedForced
    BY <1>1, <1>5 DEF ReceiveEnded, ConnReceived
  <2> QED
    BY <1>1, <2>1, ReceiveEndedIqs
<1>6. CASE ReceiveCancelled
  <2>1. /\ AtLoop /\ UNCHANGED idle
        /\ RemoteConnectionClosed("failed", <<>>) \/ ReceiveEndedForced
    BY <1>6 DEF ReceiveCancelled, ConnReceived
  <2> QED
    BY <1>1, <2>1, ReceiveEndedIqs
<1>7. CASE ReceiveStreamError
  <2>1. /\ AtLoop /\ UNCHANGED idle
        /\ RemoteConnectionClosed("failed", <<Frame("received_rest")>>)
    BY <1>7 DEF ReceiveStreamError, ConnStanza, ConnReceived
  <2> QED
    BY <1>1, <2>1, ReceiveEndedIqs
<1>8. CASE ReceiveStanza
  <2>1. /\ AtLoop /\ UNCHANGED <<idle, queue, iqTable, iqSent, outcome>>
        /\ stack' = Callout("handler") \o <<Frame("received_rest")>>
    BY <1>8 DEF ReceiveStanza, ConnStanza, ConnReceived, sendVars, iqVars
  <2>2. Plain(stack') /\ stack' \in Seq(Frames)
    BY <1>1, <2>1, LoopStacks DEF Plain
  <2> QED
    BY <1>1, <2>1, <2>2, IqQuiet
<1>9. CASE StreamTorn
  <2>1. /\ AtLoop /\ UNCHANGED <<idle, queue, iqTable, iqSent, stack>>
        /\ \E r : outcome' = [o \in Ops |-> IF o = forcing THEN r ELSE outcome[o]]
    BY <1>9 DEF StreamTorn, ConnTorn, ForceCloseDone, sendVars, iqVars
  <2>2. \A i \in Iqs : i \in Ops /\ i # forcing
    BY <1>1, OpsDistinct DEF TypeOK
  <2> QED
    BY <1>1, <2>1, <2>2, IqQuiet
<1> QED
  BY <1>2, <1>3, <1>4, <1>5, <1>6, <1>7, <1>8, <1>9, StanzaWrittenIqs, ReceiveReplyIqs,
     IdleReplyIqs DEF Deliver

LEMMA IqInvMeans ==
  ASSUME TypeOK, CallsPending, IqInv
  PROVE  IqBookkeeping
<1>1. \A i \in Iqs : IqNeeded(i)
  BY DEF IqInv
<1>2. /\ stack \in Seq(Frames) /\ queue \in Seq(Stanzas) /\ idle \in Seq(IdleCalls)
      /\ None \notin Iqs
  BY OpsDistinct DEF TypeOK, ConnTypeOK
<1>3. ASSUME NEW n \in DOMAIN stack, stack[n].fn = "maybe_remove"
      PROVE  stack[n].op \in iqTable
  <2>1. n = 1 /\ stack # <<>> /\ Head(stack) = stack[1]
    BY <1>2, <1>3 DEF IqInv, LeavesFirst
  <2>2. Leaving(stack, stack[n].op) /\ stack[n].op \in Iqs
    BY <1>2, <1>3, <2>1, TopFrame DEF Leaving, Running
  <2> QED
    BY <1>1, <2>2 DEF IqNeeded
<1>4. \A n \in DOMAIN queue : queue[n] \in Iqs => queue[n] \in iqTable
  BY <1>1 DEF IqNeeded, Queued
<1>5. \A n \in DOMAIN idle : idle[n].cb = "iqsent" => idle[n].op \in iqTable
  <2>1. \A n \in DOMAIN idle : idle[n].cb = "iqsent" =>
          idle[n].op \in Iqs /\ Failing(idle, idle[n].op)
    BY DEF IqInv, FailuresOnce, Failing
  <2> QED
    BY <1>1, <2>1 DEF IqNeeded
<1>6. ASSUME AtLoop, NEW i \in Iqs
      PROVE  i \in iqTable <=> outcome[i] = "pending" \/ (outcome[i] # "new" /\
               (Contains(queue, i) \/ \E n \in DOMAIN idle : idle[n].op = i))
  <2>1. ~Leaving(stack, i)
    BY <1>6 DEF AtLoop, Leaving
  <2>2. Contains(queue, i) <=> Queued(queue, i)
    BY <1>2 DEF Contains, Queued
  <2>3. Failing(idle, i) <=> \E n \in DOMAIN idle : idle[n].op = i
    BY <1>2 DEF Failing, IqInv, FailuresOnce
  <2>4. Queued(queue, i) \/ Failing(idle, i) => outcome[i] # "new"
    BY <1>1 DEF IqNeeded, Open, CallsPending, QueuePending, Queued
  <2> QED
    BY <1>1, <2>1, <2>2, <2>3, <2>4 DEF IqNeeded
<1> QED
  BY <1>3, <1>4, <1>5, <1>6 DEF IqBookkeeping, IqHandlerAlive, IqTableExact

(* The reply table tells the truth: whatever is cancelled, aborted, failed *)
(* or answered in whatever order, an IQ's entry outlives every part of the *)
(* porter that still points to it, and goes with the last of them.         *)
THEOREM ReplyTableIsExact ==
  ASSUME QuietIqs
  PROVE  Spec => []IqBookkeeping
<1>1. Init => IqInv
  <2> SUFFICES ASSUME Init
               PROVE  IqInv
    OBVIOUS
  <2>1. /\ queue = <<>> /\ idle = <<>> /\ stack = <<>> /\ iqTable = {} /\ iqSent = {}
        /\ \A i \in Iqs : outcome[i] = "new"
    BY OpsDistinct DEF Init, ConnInit
  <2>2. FailuresOnce(idle) /\ LeavesFirst(stack)
    BY <2>1 DEF FailuresOnce, LeavesFirst
  <2>3. \A i : ~Queued(queue, i) /\ ~Failing(idle, i) /\ ~Leaving(stack, i)
    BY <2>1 DEF Queued, Failing, Leaving
  <2> QED
    BY <2>1, <2>2, <2>3 DEF IqInv, IqNeeded
<1>2. Basics /\ IqInv /\ [Next]_vars => IqInv'
  <2> SUFFICES ASSUME Basics, IqInv, [Next]_vars
               PROVE  IqInv'
    OBVIOUS
  <2>1. CASE Next
    BY <2>1, CallIqs, RunIqs, CallbackIqs DEF Next
  <2>2. CASE UNCHANGED vars
    BY <2>2 DEF vars, sendVars, iqVars, connVars, IqInv, IqNeeded
  <2> QED
    BY <2>1, <2>2
<1>3. Basics /\ IqInv => IqBookkeeping
  BY IqInvMeans DEF Basics
<1> QED
  BY <1>1, <1>2, <1>3, BasicsHold, PTL DEF Spec
-----------------------------------------------------------------------------
(* A close and a force close are never in progress together.  A close that *)
(* goes on after the answer to its </stream> has sent it, and whoever runs *)
(* the end of remote_connection_closed has set remote_closed.  A           *)
(* cancellable that is still held belongs to a close or force close in     *)
(* progress, or the porter takes no more of them.                          *)

EndInv ==
  /\ closing # None => forcing = None
  /\ closing # None /\ localClosed => outClosed
  /\ Has(stack, "remote_closed_rest") => remoteClosed
  /\ closeCancel # "null" => closing # None \/ forcing # None \/ localClosed
  /\ forceCancel # "null" => forcing # None \/ (receive = "null" /\ localClosed)

BothClosed == \A o \in CloseOps : outcome[o] = "pending" /\ outcome'[o] = "ok"
                                    => outClosed' /\ remoteClosed

(* Nobody is told that a close succeeded. *)
NoCloseOk == \A o \in CloseOps : outcome'[o] = "ok" => outcome[o] = "ok"

LEMMA EndQuiet ==
  ASSUME EndInv, NoCloseOk, UNCHANGED <<closing, forcing, localClosed, closeCancel, forceCancel>>,
         receive' \in {receive, "null"}, outClosed => outClosed',
         remoteClosed => remoteClosed',
         Has(stack', "remote_closed_rest") => Has(stack, "remote_closed_rest") \/ remoteClosed'
  PROVE  EndInv' /\ BothClosed
<1>1. BothClosed
  BY DEF BothClosed, NoCloseOk
<1>2. EndInv'
  BY DEF EndInv
<1> QED
  BY <1>1, <1>2

LEMMA NotClose ==
  ASSUME TypeOK, NEW x, NEW r, Resolve(x, r), x \notin CloseOps \/ r # "ok"
  PROVE  NoCloseOk
BY OpsDistinct DEF TypeOK, Resolve, NoCloseOk

(* What no operation of the connection undoes *)
LEMMA ConnKeepsClosed ==
  ASSUME TypeOK
  PROVE  /\ \A x : ConnSend(x) => UNCHANGED outClosed
         /\ ConnRecv \/ ConnForceClose \/ ForceShutdown \/ CloseIfWaiting => UNCHANGED outClosed
         /\ ConnWritten => (outClosed => outClosed') /\ (writing = Close => outClosed')
         /\ ConnWriteFailed \/ (\E e : ConnReceived(e)) \/ (\E c : ConnIdle(c))
              \/ (\E ok : ConnTorn(ok)) => UNCHANGED outClosed
BY DEF ConnSend, ConnRecv, ConnForceClose, ForceShutdown, CloseIfWaiting, ConnWritten,
       ConnWriteFailed, ConnReceived, ConnIdle, ConnTorn, connVars, TypeOK, ConnTypeOK

LEMMA IqSendFailedStack ==
  ASSUME NEW i \in Iqs, NEW why, NEW rest \in Seq(Frames), IqSendFailed(i, why, rest)
  PROVE  /\ stack' \in Seq(Frames)
         /\ \A fn : fn \notin {"user", "maybe_remove"} => (Has(stack', fn) <=> Has(rest, fn))
         /\ UNCHANGED outcome \/ Resolve(i, why)
<1>1. /\ MaybeRemove(i) \in Frames /\ MaybeRemove(i).fn = "maybe_remove"
      /\ "iq" \in Callouts /\ Callout("iq") \in Seq(Frames)
  BY FrameType, FrameFn DEF Callouts
<1> DEFINE st == <<MaybeRemove(i)>> \o rest
<1>2. /\ st \in Seq(Frames)
      /\ \A fn : fn # "maybe_remove" => (Has(st, fn) <=> Has(rest, fn))
  BY <1>1, HasPush
<1>3. Callout("iq") \o <<MaybeRemove(i)>> \o rest = Callout("iq") \o st
  BY <1>1
<1>4. /\ stack' = rest \/ stack' = Callout("iq") \o <<MaybeRemove(i)>> \o rest
      /\ UNCHANGED outcome \/ Resolve(i, why)
  BY DEF IqSendFailed
<1> HIDE DEF st
<1> QED
  BY <1>1, <1>2, <1>3, <1>4, HasCallout

LEMMA CallEnds ==
  ASSUME Basics, EndInv,
         \/ \E s \in Stanzas : Send(s) \/ SendIq(s) \/ Cancel(s)
         \/ \E p \in Pings : SendPing(p)
         \/ Start
         \/ \E o \in CloseOps, c \in BOOLEAN : CloseAsync(o, c)
         \/ CancelClose
         \/ \E o \in ForceOps, c \in BOOLEAN : ForceCloseAsync(o, c)
         \/ Return
  PROVE  EndInv' /\ BothClosed
<1> USE DEF closeVars, forceVars, endVars
<1>0. TypeOK /\ stack \in Seq(Frames)
  BY DEF Basics, TypeOK
<1>1. ASSUME NEW s \in Stanzas, Enqueue(s)
      PROVE  EndInv' /\ BothClosed
  <2>1. ConnSend(s) \/ UNCHANGED connVars
    BY <1>1 DEF Enqueue, SendHead
  <2>2. UNCHANGED <<outClosed, stack>>
    BY <1>0, <1>1, <2>1, ConnKeepsClosed DEF Enqueue, connVars
  <2>3. \E r \in {"refused", "pending"} : Resolve(s, r)
    BY <1>1 DEF Enqueue
  <2>4. NoCloseOk
    BY <1>0, <2>3, NotClose
  <2> QED
    BY <1>1, <2>2, <2>4, EndQuiet DEF Enqueue
<1>2. ASSUME NEW s \in Stanzas, Cancel(s)
      PROVE  EndInv' /\ BothClosed
  <2>1. NoCloseOk
    BY <1>0, <1>2, NotClose DEF Cancel
  <2> QED
    BY <1>2, <2>1, EndQuiet DEF Cancel
<1>3. ASSUME NEW p \in Pings, SendPing(p)
      PROVE  EndInv' /\ BothClosed
  <2>1. UNCHANGED <<outClosed, stack>> /\ \E r : Resolve(p, r)
    BY <1>0, <1>3, ConnKeepsClosed DEF SendPing, connVars
  <2>2. NoCloseOk
    BY <1>0, <2>1, NotClose, OpsDistinct
  <2> QED
    BY <1>3, <2>1, <2>2, EndQuiet DEF SendPing
<1>4. CASE Start
  <2>1. UNCHANGED <<outClosed, stack>> /\ NoCloseOk
    BY <1>0, <1>4, ConnKeepsClosed DEF Start, NoCloseOk
  <2>2. forceCancel' # "null" => forcing' # None
    BY <1>4 DEF Start, EndInv
  <2> QED
    BY <1>4, <2>1, <2>2 DEF Start, EndInv, BothClosed, NoCloseOk
<1>5. ASSUME NEW o \in CloseOps, NEW c \in BOOLEAN, CloseAsync(o, c)
      PROVE  EndInv' /\ BothClosed
  <2>1. UNCHANGED <<outClosed, stack, forcing, forceCancel, localClosed, receive, remoteClosed>>
    BY <1>0, <1>5, ConnKeepsClosed DEF CloseAsync, connVars
  <2>2. \E r \in {"refused", "pending"} : Resolve(o, r)
    BY <1>5 DEF CloseAsync
  <2>3. NoCloseOk
    BY <1>0, <2>2, NotClose
  <2>4. CASE UNCHANGED <<closing, closeCancel>>
    BY <2>1, <2>3, <2>4, EndQuiet
  <2>5. CASE ~localClosed /\ ~Closing /\ closing' = o
    <3>1. closing' # None /\ forcing = None
      BY <2>5, OpsDistinct DEF Closing
    <3> QED
      BY <2>1, <2>3, <2>5, <3>1 DEF EndInv, BothClosed, NoCloseOk
  <2> QED
    BY <1>5, <2>4, <2>5 DEF CloseAsync
<1>6. CASE CancelClose
  BY <1>6 DEF CancelClose, EndInv, BothClosed, connVars
<1>7. ASSUME NEW o \in ForceOps, NEW c \in BOOLEAN, ForceCloseAsync(o, c)
      PROVE  EndInv' /\ BothClosed
  <2>1. UNCHANGED <<outClosed, localClosed, receive, remoteClosed, closeCancel>>
    BY <1>7 DEF ForceCloseAsync, connVars
  <2>2. CASE Resolve(o, "refused") /\ UNCHANGED <<closing, forcing, forceCancel, stack>>
    <3>1. NoCloseOk
      BY <1>0, <2>2, NotClose
    <3> QED
      BY <2>1, <2>2, <3>1, EndQuiet
  <2>3. CASE /\ outcome' = [x \in Ops |-> IF x = o THEN "pending"
                                          ELSE IF x = closing THEN "forced"
                                          ELSE outcome[x]]
             /\ closing' = None /\ forcing' = o
             /\ stack' = <<Terminate("forced"), Frame("force_close_rest")>> \o stack
    <3>1. NoCloseOk
      BY <2>3, OpsDistinct DEF NoCloseOk
    <3>2. forcing' # None
      BY <2>3, OpsDistinct
    <3>3. Has(stack', "remote_closed_rest") => Has(stack, "remote_closed_rest")
      <4>1. /\ Frame("force_close_rest") \in Frames /\ Terminate("forced") \in Frames
            /\ Frame("force_close_rest").fn = "force_close_rest"
            /\ Terminate("forced").fn = "terminate"
        BY FrameType, FrameFn DEF Functions, Errors
      <4> DEFINE st == <<Frame("force_close_rest")>> \o stack
      <4>2. /\ st \in Seq(Frames)
            /\ Has(st, "remote_closed_rest") <=> Has(stack, "remote_closed_rest")
        BY <1>0, <4>1, HasPush
      <4>3. stack' = <<Terminate("forced")>> \o st
        BY <1>0, <2>3
      <4> HIDE DEF st
      <4> QED
        BY <4>1, <4>2, <4>3, HasPush
    <3> QED
      BY <2>1, <2>3, <3>1, <3>2, <3>3 DEF EndInv, BothClosed, NoCloseOk
  <2> QED
    BY <1>7, <2>2, <2>3 DEF ForceCloseAsync
<1>8. CASE Return
  <2>1. Has(stack', "remote_closed_rest") => Has(stack, "remote_closed_rest")
    BY <1>0, <1>8, HasTail DEF Return, InUser
  <2> QED
    BY <1>8, <2>1, EndQuiet DEF Return, connVars, NoCloseOk
<1> QED
  BY <1>1, <1>2, <1>3, <1>4, <1>5, <1>6, <1>7, <1>8 DEF Send, SendIq

(* complete_close, called when our </stream> is out and the peer's is in, *)
(* or with an error *)
LEMMA CompleteCloseEnds ==
  ASSUME Basics, EndInv, NEW why, CompleteClose(why), closing # None,
         UNCHANGED <<forcing, receive>>, localClosed' = localClosed \/ localClosed' = TRUE,
         outClosed => outClosed', remoteClosed => remoteClosed',
         Has(stack', "remote_closed_rest") => remoteClosed',
         why = "ok" => (outClosed' /\ remoteClosed) \/ closeCancel = "cancelled"
  PROVE  EndInv' /\ BothClosed
<1>1. closing' = None /\ closeCancel' = "null" /\ forceCancel' = "null"
  BY DEF CompleteClose
<1>2. BothClosed
  <2>1. \A o \in CloseOps : outcome'[o] = outcome[o] \/
          outcome'[o] = (IF closeCancel = "cancelled" THEN "cancelled" ELSE why)
    BY OpsDistinct DEF CompleteClose, Resolve, Basics, TypeOK
  <2> QED
    BY <2>1 DEF BothClosed
<1> QED
  BY <1>1, <1>2 DEF EndInv

LEMMA RunEnds ==
  ASSUME Basics, EndInv, Run
  PROVE  EndInv' /\ BothClosed
<1> USE DEF closeVars, forceVars, endVars
<1>0. /\ TypeOK /\ stack \in Seq(Frames) /\ stack # <<>> /\ Tail(stack) \in Seq(Frames)
      /\ \A fn : Has(Tail(stack), fn) => Has(stack, fn)
      /\ Has(stack, Head(stack).fn)
  <2>1. stack # <<>>
    BY DEF Run, Running, TerminateStep, SendNext, CloseIfWaitingStep, MaybeRemoveStep,
           ForceCloseRest, RemoteClosedRest, ReceiveDone, ReceivedRest, ForceShutdownStep
  <2> QED
    BY <2>1, HasTail DEF Basics, TypeOK
<1>1. CASE TerminateStep
  <2>1. UNCHANGED <<closeVars, forceVars, endVars, outClosed>>
    BY <1>1 DEF TerminateStep, connVars
  <2>2. CASE queue = <<>>
    <3>1. stack' = Tail(stack) /\ UNCHANGED outcome
      BY <1>1, <2>2 DEF TerminateStep
    <3> QED
      BY <1>0, <2>1, <3>1, EndQuiet DEF NoCloseOk
  <2>3. CASE queue # <<>>
    <3>1. PICK s \in Stanzas :
            \/ s \in Iqs /\ IqSendFailed(s, Head(stack).why, stack)
            \/ Resolve(s, Head(stack).why) /\ stack' = Callout("send") \o stack
      <4>1. Head(queue) \in Stanzas
        BY <1>0, <2>3 DEF TypeOK
      <4> QED
        BY <1>1, <2>3, <4>1 DEF TerminateStep
    <3>2. Has(stack', "remote_closed_rest") => Has(stack, "remote_closed_rest")
      <4>1. "send" \in Callouts
        BY DEF Callouts
      <4>2. CASE stack' = Callout("send") \o stack
        BY <1>0, <4>1, <4>2, HasCallout
      <4>3. CASE s \in Iqs /\ IqSendFailed(s, Head(stack).why, stack)
        BY <1>0, <4>3, IqSendFailedStack
      <4> QED
        BY <3>1, <4>2, <4>3
    <3>3. UNCHANGED outcome \/ Resolve(s, Head(stack).why)
      BY <3>1 DEF IqSendFailed
    <3>4. NoCloseOk
      BY <1>0, <3>3, NotClose, OpsDistinct DEF NoCloseOk
    <3> QED
      BY <2>1, <3>2, <3>4, EndQuiet
  <2> QED
    BY <2>2, <2>3
<1>2. CASE SendNext \/ CloseIfWaitingStep
  <2>1. /\ UNCHANGED <<closing, closeCancel, forceVars, endVars, outcome>>
        /\ stack' = Tail(stack)
    BY <1>2 DEF SendNext, CloseIfWaitingStep
  <2>2. UNCHANGED outClosed
    BY <1>0, <1>2, ConnKeepsClosed DEF SendNext, CloseIfWaitingStep, SendHead
  <2> QED
    BY <1>0, <2>1, <2>2, EndQuiet DEF NoCloseOk
<1>3. CASE MaybeRemoveStep \/ ReceiveDone
  <2>1. /\ UNCHANGED <<closeVars, forceVars, remoteClosed, localClosed, outcome, outClosed>>
        /\ stack' = Tail(stack) /\ receive' \in {receive, "null"}
    BY <1>3 DEF MaybeRemoveStep, ReceiveDone, connVars
  <2> QED
    BY <1>0, <2>1, EndQuiet DEF NoCloseOk
<1>4. CASE ForceCloseRest
  <2>1. /\ stack' = Tail(stack) /\ Has(stack, "force_close_rest")
        /\ UNCHANGED <<closing, closeCancel, forceCancel, remoteClosed, localClosed>>
    BY <1>0, <1>4 DEF ForceCloseRest, Running
  <2>2. forcing # None /\ ~forcedShutdown
    BY <2>1 DEF Basics, ShutdownInv
  <2>3. forcing' = forcing /\ outcome' = Aborted("forced") /\ UNCHANGED outClosed
    BY <1>0, <1>4, <2>2, ConnKeepsClosed DEF ForceCloseRest, connVars
  <2>4. NoCloseOk
    <3>1. \A o \in CloseOps : o \in Ops /\ o \notin PendingIqs
      BY <1>0, OpsDistinct DEF PendingIqs, TypeOK
    <3> QED
      BY <2>3, <3>1 DEF NoCloseOk, Aborted
  <2> QED
    BY <1>0, <2>1, <2>2, <2>3, <2>4 DEF EndInv, BothClosed, NoCloseOk
<1>5. CASE RemoteClosedRest
  <2>1. /\ UNCHANGED <<waiting, forcing, forcedShutdown, remoteClosed, localClosed, receive>>
        /\ UNCHANGED outClosed /\ Has(stack, "remote_closed_rest")
        /\ \/ stack' = Callout("close") \o <<Frame("receive_done")>> \o Tail(stack)
           \/ stack' = <<Frame("receive_done")>> \o Tail(stack)
    BY <1>0, <1>5 DEF RemoteClosedRest, Running, connVars
  <2>2. remoteClosed
    BY <2>1 DEF EndInv
  <2>3. CASE closing # None /\ localClosed
    <3>1. \E why : CompleteClose(why)
      BY <1>5, <2>3 DEF RemoteClosedRest
    <3>2. outClosed
      BY <2>3 DEF EndInv
    <3> QED
      BY <2>1, <2>2, <2>3, <3>1, <3>2, CompleteCloseEnds
  <2>4. CASE ~(closing # None /\ localClosed)
    <3>1. UNCHANGED <<outcome, closing, closeCancel, forceCancel>>
      BY <1>5, <2>4 DEF RemoteClosedRest
    <3> QED
      BY <2>1, <2>2, <3>1, EndQuiet DEF NoCloseOk
  <2> QED
    BY <2>3, <2>4
<1>6. CASE ReceivedRest \/ ForceShutdownStep
  <2>1. /\ UNCHANGED <<closeVars, forcing, forceCancel, endVars, outcome>>
        /\ stack' = Tail(stack)
    BY <1>6 DEF ReceivedRest, ForceShutdownStep
  <2>2. UNCHANGED outClosed
    BY <1>0, <1>6, ConnKeepsClosed DEF ReceivedRest, ForceShutdownStep, connVars
  <2> QED
    BY <1>0, <2>1, <2>2, EndQuiet DEF NoCloseOk
<1> QED
  BY <1>1, <1>2, <1>3, <1>4, <1>5, <1>6 DEF Run

LEMMA StanzaFailedEnds ==
  ASSUME Basics, EndInv, NEW why \in Errors, StanzaFailed(why), UNCHANGED outClosed
  PROVE  EndInv' /\ BothClosed
<1>1. ~Has(stack', "remote_closed_rest")
  BY LoopStacks DEF StanzaFailed
<1> QED
  BY <1>1, EndQuiet DEF StanzaFailed, closeVars, forceVars, endVars, NoCloseOk

LEMMA PingDoneEnds ==
  ASSUME Basics, EndInv, NEW r \in Errors \cup {"ok"}, PingDone(r), outClosed => outClosed'
  PROVE  EndInv' /\ BothClosed
<1>1. ~Has(stack', "remote_closed_rest")
  <2>1. CASE r = "ok"
    <3>1. "failed" \in Errors /\ stack' = Callout("ping") \o <<Frame("send_next")>>
      BY <2>1 DEF PingDone, Errors
    <3> QED
      BY <3>1, LoopStacks
  <2>2. CASE r # "ok"
    <3>1. /\ stack' = Callout("ping") \o <<Terminate(r), Frame("close_if_waiting")>>
          /\ r \in Errors
      BY <2>2 DEF PingDone
    <3> QED
      BY <3>1, LoopStacks
  <2> QED
    BY <2>1, <2>2
<1>2. TypeOK /\ Resolve(pinging, r)
  BY DEF PingDone, Basics
<1>3. pinging \notin CloseOps
  BY <1>2, OpsDistinct DEF TypeOK
<1>4. NoCloseOk
  BY <1>2, <1>3, NotClose
<1> QED
  BY <1>1, <1>4, EndQuiet DEF PingDone, closeVars, forceVars, endVars

LEMMA CloseSentEnds ==
  ASSUME Basics, EndInv, NEW r, CloseSent(r), outClosed => outClosed', r = "ok" => outClosed',
         AtLoop
  PROVE  EndInv' /\ BothClosed
<1>1. /\ UNCHANGED <<forcing, receive, remoteClosed, stack>> /\ localClosed' = TRUE
      /\ ~Has(stack, "remote_closed_rest")
  BY ShapeEmpty DEF CloseSent, AtLoop
<1>2. CASE closing = None
  BY <1>1, <1>2 DEF CloseSent, EndInv, BothClosed
<1>3. CASE closing # None /\ r = "ok" /\ AwaitsPeer
  BY <1>1, <1>3 DEF CloseSent, EndInv, BothClosed
<1>4. CASE closing # None /\ ~(r = "ok" /\ AwaitsPeer)
  <2>1. CompleteClose(r)
    BY <1>4 DEF CloseSent
  <2>2. r = "ok" => (outClosed' /\ remoteClosed) \/ closeCancel = "cancelled"
    BY <1>4 DEF AwaitsPeer
  <2> QED
    BY <1>1, <1>4, <2>1, <2>2, CompleteCloseEnds
<1> QED
  BY <1>2, <1>3, <1>4

LEMMA ReceiveEndedEnds ==
  ASSUME Basics, EndInv, NEW why \in Errors, NEW rest \in {<<>>, <<Frame("received_rest")>>},
         RemoteConnectionClosed(why, rest) \/ ReceiveEndedForced, UNCHANGED outClosed
  PROVE  EndInv' /\ BothClosed
<1>1. CASE RemoteConnectionClosed(why, rest)
  <2>1. NoCloseOk
    <3>1. \A o \in CloseOps : o \in Ops /\ o \notin PendingIqs
      BY OpsDistinct DEF PendingIqs, TypeOK, Basics
    <3> QED
      BY <1>1, <3>1 DEF NoCloseOk, Aborted, RemoteConnectionClosed, AbortPendingIqs
  <2> QED
    BY <1>1, <2>1, EndQuiet DEF RemoteConnectionClosed, closeVars, forceVars
<1>2. CASE ReceiveEndedForced
  <2>1. ~Has(stack', "remote_closed_rest")
    BY <1>2, LoopStacks DEF ReceiveEndedForced
  <2> QED
    BY <1>2, <2>1, EndQuiet DEF ReceiveEndedForced, NoCloseOk, closeVars, forceVars, endVars
<1> QED
  BY <1>1, <1>2

LEMMA CallbackEnds ==
  ASSUME Basics, EndInv,
         \/ Deliver
         \/ WriteFailed
         \/ \E why \in {"aborted", "failed"} : ReceiveEnded(why)
         \/ ReceiveCancelled
         \/ ReceiveStanza
         \/ \E i \in Iqs : ReceiveReply(i)
         \/ ReceiveStreamError
         \/ StreamTorn
         \/ IdleReply
  PROVE  EndInv' /\ BothClosed
<1> USE DEF closeVars, forceVars, endVars
<1>0. /\ TypeOK /\ "failed" \in Errors /\ "aborted" \in Errors
      /\ \A i \in Iqs : i \notin CloseOps
  BY OpsDistinct DEF Basics, Errors
<1>1. CASE StanzaWritten
  <2>1. /\ outClosed => outClosed'
        /\ UNCHANGED <<closeVars, forceVars, endVars>> /\ AtLoop
    BY <1>0, <1>1, ConnKeepsClosed DEF StanzaWritten
  <2>2. /\ \/ UNCHANGED outcome
           \/ \E s \in Stanzas : Resolve(s, "ok")
        /\ \/ UNCHANGED stack
           \/ stack' = <<Frame("send_next")>>
           \/ stack' = Callout("send") \o <<Frame("send_next")>>
    <3>1. queue # <<>> => Head(queue) \in Stanzas
      BY <1>0 DEF TypeOK
    <3> QED
      BY <1>1, <3>1 DEF StanzaWritten
  <2>3. ~Has(stack', "remote_closed_rest")
    <3>1. AtLoop => ~Has(stack, "remote_closed_rest")
      BY ShapeEmpty DEF AtLoop
    <3> QED
      BY <1>0, <2>1, <2>2, <3>1, LoopStacks
  <2>4. NoCloseOk
    BY <1>0, <2>2, NotClose, OpsDistinct DEF NoCloseOk
  <2> QED
    BY <2>1, <2>3, <2>4, EndQuiet
<1>2. CASE PingWritten
  BY <1>0, <1>2, PingDoneEnds, ConnKeepsClosed DEF PingWritten
<1>3. CASE CloseWritten
  BY <1>0, <1>3, CloseSentEnds, ConnKeepsClosed DEF CloseWritten
<1>4. CASE WriteFailed
  <2>1. UNCHANGED outClosed /\ AtLoop
    BY <1>0, <1>4, ConnKeepsClosed DEF WriteFailed
  <2>2. StanzaFailed("failed") \/ PingDone("failed") \/ CloseSent("failed")
    BY <1>4 DEF WriteFailed
  <2> QED
    BY <1>0, <2>1, <2>2, StanzaFailedEnds, PingDoneEnds, CloseSentEnds
<1>5. ASSUME NEW why \in {"aborted", "failed"}, ReceiveEnded(why)
      PROVE  EndInv' /\ BothClosed
  BY <1>0, <1>5, ReceiveEndedEnds, ConnKeepsClosed DEF ReceiveEnded
<1>6. CASE ReceiveCancelled
  BY <1>0, <1>6, ReceiveEndedEnds, ConnKeepsClosed DEF ReceiveCancelled
<1>7. CASE ReceiveStreamError
  BY <1>0, <1>7, ReceiveEndedEnds, ConnKeepsClosed DEF ReceiveStreamError, ConnStanza
<1>8. CASE ReceiveStanza
  <2>1. UNCHANGED outClosed /\ ~Has(stack', "remote_closed_rest")
    BY <1>0, <1>8, ConnKeepsClosed, LoopStacks DEF ReceiveStanza, ConnStanza
  <2> QED
    BY <1>8, <2>1, EndQuiet DEF ReceiveStanza, NoCloseOk
<1>9. ASSUME NEW i \in Iqs, ReceiveReply(i)
      PROVE  EndInv' /\ BothClosed
  <2>1. /\ UNCHANGED outClosed /\ UNCHANGED <<closeVars, forceVars, endVars>>
        /\ UNCHANGED outcome \/ Resolve(i, "ok")
    BY <1>0, <1>9, ConnKeepsClosed DEF ReceiveReply, ConnStanza
  <2>2. ~Has(stack', "remote_closed_rest")
    <3> DEFINE received == <<Frame("received_rest")>>
               st == Callout("handler") \o received
    <3>1. /\ received \in Seq(Frames) /\ ~Has(received, "remote_closed_rest")
          /\ st \in Seq(Frames) /\ ~Has(st, "remote_closed_rest")
      BY OneFrame, ShapeOne, FrameFn, HasCallout DEF Functions, Callouts
    <3>2. MaybeRemove(i) \in Frames /\ MaybeRemove(i).fn = "maybe_remove"
      BY FrameType, FrameFn
    <3>3. \/ stack' = Callout("iq") \o (<<MaybeRemove(i)>> \o received)
          \/ stack' = <<MaybeRemove(i)>> \o st
      <4>1. Callout("handler") \in Seq(Frames)
        BY FrameType DEF Callouts
      <4>2. <<MaybeRemove(i)>> \o Callout("handler") \o received = <<MaybeRemove(i)>> \o st
        BY <3>1, <3>2, <4>1
      <4>3. <<MaybeRemove(i), Frame("received_rest")>> = <<MaybeRemove(i)>> \o received
        OBVIOUS
      <4> QED
        BY <1>9, <4>2, <4>3 DEF ReceiveReply
    <3> HIDE DEF received, st
    <3>4. /\ <<MaybeRemove(i)>> \o received \in Seq(Frames)
          /\ ~Has(<<MaybeRemove(i)>> \o received, "remote_closed_rest")
          /\ ~Has(<<MaybeRemove(i)>> \o st, "remote_closed_rest")
      BY <3>1, <3>2, HasPush
    <3>5. "iq" \in Callouts
      BY DEF Callouts
    <3>6. CASE stack' = Callout("iq") \o (<<MaybeRemove(i)>> \o received)
      BY <3>4, <3>5, <3>6, HasCallout
    <3> QED
      BY <3>3, <3>4, <3>6
  <2>3. NoCloseOk
    BY <1>0, <2>1, NotClose DEF NoCloseOk
  <2> QED
    BY <2>1, <2>2, <2>3, EndQuiet
<1>10. CASE StreamTorn
  <2>1. PICK r : ForceCloseDone(r)
    BY <1>10 DEF StreamTorn
  <2>2. /\ UNCHANGED outClosed /\ tearing /\ AtLoop
        /\ UNCHANGED <<closing, closeCancel, forceCancel, remoteClosed, stack>>
        /\ localClosed' = TRUE /\ receive' = "null" /\ forcing' = None
    BY <1>0, <1>10, <2>1, ConnKeepsClosed DEF StreamTorn, ConnTorn, ForceCloseDone
  <2>3. forcing # None /\ closing = None
    BY <2>2 DEF Basics, ShutdownInv, EndInv
  <2>4. NoCloseOk
    <3>1. \A o \in CloseOps : o \in Ops /\ o # forcing
      BY <1>0, OpsDistinct DEF TypeOK
    <3> QED
      BY <2>1, <3>1 DEF ForceCloseDone, NoCloseOk
  <2> QED
    BY <2>2, <2>3, <2>4 DEF EndInv, BothClosed, NoCloseOk
<1>11. CASE IdleReply
  <2>1. PICK c \in IdleCalls :
          /\ ConnIdle(c)
          /\ \/ StanzaFailed(c.why)
             \/ PingDone(c.why)
             \/ CloseSent(c.why)
             \/ ReceiveEndedForced
             \/ RemoteConnectionClosed("failed", <<>>)
             \/ c.cb = "force"
             \/ /\ IqSendFailed(c.op, c.why, <<>>) /\ c.op \in Iqs
                /\ UNCHANGED <<closeVars, forceVars, endVars>>
    BY <1>11 DEF IdleReply
  <2>2. c.why \in Errors /\ c.why # "ok" /\ UNCHANGED outClosed /\ AtLoop
    BY <1>0, <1>11, <2>1, ConnKeepsClosed DEF IdleCalls, Errors, IdleReply
  <2>3. c.cb # "force"
    BY <2>1, ConnShutdown DEF Basics
  <2>4. CASE /\ IqSendFailed(c.op, c.why, <<>>) /\ c.op \in Iqs
             /\ UNCHANGED <<closeVars, forceVars, endVars>>
    <3>1. /\ ~Has(stack', "remote_closed_rest")
          /\ UNCHANGED outcome \/ Resolve(c.op, c.why)
      BY <2>4, OneFrame, ShapeEmpty, IqSendFailedStack
    <3>2. NoCloseOk
      BY <1>0, <2>2, <3>1, NotClose DEF NoCloseOk
    <3> QED
      BY <2>2, <2>4, <3>1, <3>2, EndQuiet
  <2> QED
    BY <1>0, <2>1, <2>2, <2>3, <2>4, StanzaFailedEnds, PingDoneEnds, CloseSentEnds,
       ReceiveEndedEnds
<1> QED
  BY <1>1, <1>2, <1>3, <1>4, <1>5, <1>6, <1>7, <1>8, <1>9, <1>10, <1>11 DEF Deliver

LEMMA EndInvStep == Basics /\ EndInv /\ [Next]_vars => EndInv' /\ [BothClosed]_vars
<1> SUFFICES ASSUME Basics, EndInv, [Next]_vars
             PROVE  EndInv' /\ BothClosed
  OBVIOUS
<1>1. CASE Next
  BY <1>1, CallEnds, RunEnds, CallbackEnds DEF Next
<1>2. CASE UNCHANGED vars
  BY <1>2 DEF vars, closeVars, forceVars, endVars, connVars, EndInv, BothClosed
<1> QED
  BY <1>1, <1>2

LEMMA EndInvInit == Init => EndInv
BY ShapeEmpty DEF Init, ConnInit, EndInv

(* close_async succeeds only when both sides have ended their streams:     *)
(* whichever of close_sent_cb and remote_connection_closed comes last      *)
(* completes it, and neither takes an error, a cancelled close or a force  *)
(* close for the end of the stream.                                        *)
THEOREM ClosesAreClean == Spec => CloseMeansBothClosed
<1> QED
  BY EndInvInit, EndInvStep, BasicsHold, PTL DEF Spec, CloseMeansBothClosed, BothClosed

LEMMA EndInvMeans ==
  ASSUME Basics, EndInv
  PROVE  CloseStateFree
BY DEF EndInv, CloseStateFree, Closing, NotStarted

-----------------------------------------------------------------------------
(* A stanza whose cancel signal is connected waits in the queue and is not *)
(* the one being written: a call that is new has nothing on the connection *)
(* yet, and handing a stanza to the connection disconnects the signal.     *)

Begun == \A o \in Ops : outcome[o] # "new" => outcome'[o] # "new"

LEMMA ResolveBegins ==
  ASSUME TypeOK, NEW x, NEW r, Resolve(x, r), r # "new"
  PROVE  Begun
BY DEF TypeOK, Resolve, Begun

LEMMA AbortBegins ==
  ASSUME TypeOK, NEW why \in Errors, outcome' = Aborted(why)
  PROVE  Begun
BY DEF TypeOK, Aborted, Begun, Errors

LEMMA CompleteCloseBegins ==
  ASSUME TypeOK, NEW why, CompleteClose(why), why # "new"
  PROVE  Begun
BY ResolveBegins DEF CompleteClose

LEMMA CallBegins ==
  ASSUME Basics,
         \/ \E s \in Stanzas : Send(s) \/ SendIq(s) \/ Cancel(s)
         \/ \E p \in Pings : SendPing(p)
         \/ Start
         \/ \E o \in CloseOps, c \in BOOLEAN : CloseAsync(o, c)
         \/ CancelClose
         \/ \E o \in ForceOps, c \in BOOLEAN : ForceCloseAsync(o, c)
         \/ Return
  PROVE  Begun
<1>0. TypeOK
  BY DEF Basics
<1>1. ASSUME NEW s \in Stanzas, Enqueue(s) \/ Cancel(s)
      PROVE  Begun
  BY <1>0, <1>1, ResolveBegins DEF Enqueue, Cancel
<1>2. ASSUME NEW p \in Pings, SendPing(p)
      PROVE  Begun
  <2>1. \E r \in {"refused", "ok", "pending"} : Resolve(p, r)
    BY <1>2 DEF SendPing
  <2> QED
    BY <1>0, <2>1, ResolveBegins
<1>3. ASSUME NEW o \in CloseOps, NEW c \in BOOLEAN, CloseAsync(o, c)
      PROVE  Begun
  BY <1>0, <1>3, ResolveBegins DEF CloseAsync
<1>4. ASSUME NEW o \in ForceOps, NEW c \in BOOLEAN, ForceCloseAsync(o, c)
      PROVE  Begun
  <2>1. CASE Resolve(o, "refused")
    BY <1>0, <2>1, ResolveBegins
  <2>2. CASE outcome' = [x \in Ops |-> IF x = o THEN "pending"
                                       ELSE IF x = closing THEN "forced"
                                       ELSE outcome[x]]
    BY <2>2 DEF Begun
  <2> QED
    BY <1>4, <2>1, <2>2 DEF ForceCloseAsync
<1>5. CASE Start \/ CancelClose \/ Return
  BY <1>5 DEF Start, CancelClose, Return, Begun
<1> QED
  BY <1>1, <1>2, <1>3, <1>4, <1>5 DEF Send, SendIq

LEMMA RunBegins ==
  ASSUME Basics, Run
  PROVE  Begun
<1>0. TypeOK
  BY DEF Basics
<1>1. CASE TerminateStep
  <2>1. Head(stack).why \in Errors
    BY <1>0, <1>1, TopFrame DEF TerminateStep, Running, TypeOK
  <2>2. \/ UNCHANGED outcome
        \/ \E s : Resolve(s, Head(stack).why)
    BY <1>1 DEF TerminateStep, IqSendFailed
  <2> QED
    BY <1>0, <2>1, <2>2, ResolveBegins DEF Begun, Errors
<1>2. CASE ForceCloseRest
  <2>1. outcome' = Aborted("forced") \/ outcome' = [Aborted("forced") EXCEPT ![forcing] = "forced"]
    BY <1>2 DEF ForceCloseRest
  <2>2. \A o \in Ops : outcome'[o] \in {outcome[o], "forced"}
    BY <2>1 DEF Aborted
  <2> QED
    BY <2>2 DEF Begun
<1>3. CASE RemoteClosedRest
  BY <1>0, <1>3, CompleteCloseBegins DEF RemoteClosedRest, Begun
<1>4. CASE SendNext \/ CloseIfWaitingStep \/ MaybeRemoveStep \/ ReceiveDone
             \/ ReceivedRest \/ ForceShutdownStep
  BY <1>4 DEF SendNext, CloseIfWaitingStep, MaybeRemoveStep, ReceiveDone, ReceivedRest,
              ForceShutdownStep, Begun
<1> QED
  BY <1>1, <1>2, <1>3, <1>4 DEF Run

LEMMA CallbackBegins ==
  ASSUME Basics,
         \/ Deliver
         \/ WriteFailed
         \/ \E why \in {"aborted", "failed"} : ReceiveEnded(why)
         \/ ReceiveCancelled
         \/ ReceiveStanza
         \/ \E i \in Iqs : ReceiveReply(i)
         \/ ReceiveStreamError
         \/ StreamTorn
         \/ IdleReply
  PROVE  Begun
<1>0. TypeOK /\ "failed" \in Errors /\ "aborted" \in Errors
  BY DEF Basics, Errors
<1>1. ASSUME NEW r, r # "new", PingDone(r) \/ CloseSent(r) \/ StanzaFailed(r)
      PROVE  Begun
  <2>1. CASE PingDone(r)
    BY <1>0, <1>1, <2>1, ResolveBegins DEF PingDone
  <2>2. CASE CloseSent(r) \/ StanzaFailed(r)
    BY <1>0, <1>1, <2>2, CompleteCloseBegins DEF CloseSent, StanzaFailed, Begun
  <2> QED
    BY <1>1, <2>1, <2>2
<1>2. ASSUME NEW why \in Errors, NEW rest, RemoteConnectionClosed(why, rest)
      PROVE  Begun
  BY <1>0, <1>2, AbortBegins DEF RemoteConnectionClosed, AbortPendingIqs
<1>3. CASE StanzaWritten
  BY <1>0, <1>3, ResolveBegins DEF StanzaWritten, Begun
<1>4. CASE PingWritten \/ CloseWritten \/ WriteFailed
  BY <1>1, <1>4 DEF PingWritten, CloseWritten, WriteFailed
<1>5. ASSUME ReceiveEndedForced
      PROVE  Begun
  BY <1>5 DEF ReceiveEndedForced, Begun
<1>6. CASE ReceiveCancelled \/ ReceiveStreamError
             \/ \E why \in {"aborted", "failed"} : ReceiveEnded(why)
  BY <1>0, <1>2, <1>5, <1>6 DEF ReceiveCancelled, ReceiveStreamError, ReceiveEnded
<1>7. CASE ReceiveStanza \/ \E i \in Iqs : ReceiveReply(i)
  BY <1>0, <1>7, ResolveBegins DEF ReceiveStanza, ReceiveReply, Begun
<1>8. ASSUME NEW r, r # "new", ForceCloseDone(r)
      PROVE  Begun
  BY <1>8 DEF ForceCloseDone, Begun
<1>9. CASE StreamTorn
  BY <1>8, <1>9 DEF StreamTorn
<1>10. CASE IdleReply
  <2>1. PICK c \in IdleCalls :
          \/ StanzaFailed(c.why) \/ PingDone(c.why) \/ CloseSent(c.why)
          \/ ReceiveEndedForced \/ RemoteConnectionClosed("failed", <<>>)
          \/ ForceCloseDone(c.why) \/ IqSendFailed(c.op, c.why, <<>>)
    BY <1>10 DEF IdleReply
  <2>2. c.why # "new"
    BY DEF IdleCalls
  <2>3. IqSendFailed(c.op, c.why, <<>>) => Begun
    BY <1>0, <2>2, ResolveBegins DEF IqSendFailed, Begun
  <2> QED
    BY <1>0, <1>1, <1>2, <1>5, <1>8, <2>1, <2>2, <2>3
<1> QED
  BY <1>3, <1>4, <1>6, <1>7, <1>9, <1>10 DEF Deliver

LEMMA StepBegins ==
  ASSUME Basics, Next
  PROVE  Begun
BY CallBegins, RunBegins, CallbackBegins DEF Next

ArmedInv ==
  /\ \A s \in armed : Queued(queue, s) /\ s # writing
  /\ writing \in Stanzas => outcome[writing] # "new"
  /\ \A n \in DOMAIN wire : outcome[wire[n]] # "new"

(* What the connection writes after each of its operations *)
LEMMA ConnWrites ==
  /\ \A x : ConnSend(x) => writing' \in {writing, x} /\ UNCHANGED wire
  /\ CloseIfWaiting => writing' \in {writing, Close} /\ UNCHANGED wire
  /\ ConnRecv \/ ConnForceClose \/ ForceShutdown => UNCHANGED <<writing, wire>>
  /\ (\E e : ConnReceived(e)) \/ (\E c : ConnIdle(c)) \/ (\E ok : ConnTorn(ok))
       => UNCHANGED <<writing, wire>>
  /\ ConnWritten => /\ writing' = None
                    /\ wire' = IF writing \in Stanzas THEN Append(wire, writing) ELSE wire
  /\ ConnWriteFailed => writing' = None /\ UNCHANGED wire
BY DEF ConnSend, CloseIfWaiting, ConnRecv, ConnForceClose, ForceShutdown, ConnReceived,
       ConnIdle, ConnTorn, ConnWritten, ConnWriteFailed, connVars

LEMMA NotStanzas == None \notin Stanzas /\ Close \notin Stanzas /\ Ping \notin Stanzas
BY ConnAssumption DEF Outputs

(* The signals stay with the queue. *)
LEMMA ArmedQuiet ==
  ASSUME TypeOK, ArmedInv, Begun,
         \A s \in armed' : Queued(queue', s) /\ s # writing',
         writing' \in Stanzas => outcome'[writing'] # "new",
         \/ UNCHANGED wire
         \/ writing \in Stanzas /\ wire' = Append(wire, writing)
  PROVE  ArmedInv'
<1>1. \A s \in Stanzas : outcome[s] # "new" => outcome'[s] # "new"
  BY OpsDistinct DEF Begun
<1>2. \A n \in DOMAIN wire' : outcome'[wire'[n]] # "new"
  <2>1. /\ \A n \in DOMAIN wire' : \/ n \in DOMAIN wire /\ wire'[n] = wire[n]
                                   \/ writing \in Stanzas /\ wire'[n] = writing
        /\ \A n \in DOMAIN wire : wire[n] \in Stanzas
    <3>1. wire \in Seq(Stanzas)
      BY DEF TypeOK, ConnTypeOK
    <3>2. CASE UNCHANGED wire
      BY <3>1, <3>2
    <3>3. CASE writing \in Stanzas /\ wire' = Append(wire, writing)
      <4> DEFINE after == Append(wire, writing)
      <4>1. /\ \A n \in DOMAIN after : n \in DOMAIN wire \/ n = Len(wire) + 1
            /\ \A n \in DOMAIN wire : after[n] = wire[n]
            /\ after[Len(wire) + 1] = writing
        BY <3>1
      <4> HIDE DEF after
      <4>2. wire' = after
        BY <3>3 DEF after
      <4> QED
        BY <3>1, <3>3, <4>1, <4>2
    <3> QED
      BY <3>2, <3>3
  <2> QED
    BY <1>1, <2>1 DEF ArmedInv
<1> QED
  BY <1>2 DEF ArmedInv

(* ... which a step that leaves both alone does not change. *)
LEMMA ArmedSame ==
  ASSUME TypeOK, ArmedInv, Begun, UNCHANGED <<queue, armed>>,
         writing' \in {writing, None, Ping, Close},
         \/ UNCHANGED wire
         \/ writing \in Stanzas /\ wire' = Append(wire, writing)
  PROVE  ArmedInv'
<1>1. \A s \in armed : s \in Stanzas
  BY DEF TypeOK
<1>2. \A s \in armed' : Queued(queue', s) /\ s # writing'
  BY <1>1, NotStanzas DEF ArmedInv
<1>3. writing' \in Stanzas => outcome'[writing'] # "new"
  BY NotStanzas, OpsDistinct DEF ArmedInv, Begun
<1> QED
  BY <1>2, <1>3, ArmedQuiet

LEMMA CallArms ==
  ASSUME Basics, ArmedInv, Begun,
         \/ \E s \in Stanzas : Send(s) \/ SendIq(s) \/ Cancel(s)
         \/ \E p \in Pings : SendPing(p)
         \/ Start
         \/ \E o \in CloseOps, c \in BOOLEAN : CloseAsync(o, c)
         \/ CancelClose
         \/ \E o \in ForceOps, c \in BOOLEAN : ForceCloseAsync(o, c)
         \/ Return
  PROVE  ArmedInv'
<1>0. /\ TypeOK /\ queue \in Seq(Stanzas) /\ outcome \in [Ops -> Outcomes]
      /\ QueuePending(queue, outcome) /\ \A s \in armed : s \in Stanzas
  BY DEF Basics, TypeOK, CallsPending
<1>1. ASSUME NEW s \in Stanzas, Enqueue(s)
      PROVE  ArmedInv'
  <2>1. CASE Closing
    BY <1>0, <1>1, <2>1, ArmedSame, OpsDistinct DEF Enqueue, connVars
  <2>2. CASE ~Closing
    <3>1. /\ outcome[s] = "new" /\ outcome' = [outcome EXCEPT ![s] = "pending"]
          /\ \A x : Queued(queue', x) <=> Queued(queue, x) \/ x = s
      <4>1. /\ queue' = Append(queue, s) /\ outcome[s] = "new"
            /\ outcome' = [outcome EXCEPT ![s] = "pending"]
        BY <1>1, <2>2 DEF Enqueue, PushTail, Resolve
      <4> QED
        BY <1>0, <4>1, QueuedAppend
    <3>2. s # writing /\ outcome'[s] = "pending"
      BY <1>0, <3>1, OpsDistinct DEF ArmedInv
    <3>3. CASE SendingInProgress
      <4>1. armed' = armed \cup {s} /\ UNCHANGED <<writing, wire>>
        BY <1>1, <2>2, <3>3 DEF Enqueue, connVars
      <4>2. \A x \in armed' : Queued(queue', x) /\ x # writing'
        BY <3>1, <3>2, <4>1 DEF ArmedInv
      <4>3. writing' \in Stanzas => outcome'[writing'] # "new"
        BY <4>1, OpsDistinct DEF ArmedInv, Begun
      <4> QED
        BY <1>0, <4>1, <4>2, <4>3, ArmedQuiet
    <3>4. CASE ~SendingInProgress
      <4>1. /\ armed' \subseteq armed /\ writing' \in {writing, s} /\ UNCHANGED wire
            /\ queue = <<>>
        BY <1>1, <2>2, <3>4, ConnWrites DEF Enqueue, SendHead, SendingInProgress
      <4>2. armed' = {}
        BY <4>1 DEF ArmedInv, Queued
      <4>3. writing' \in Stanzas => outcome'[writing'] # "new"
        BY <3>2, <4>1, OpsDistinct DEF ArmedInv, Begun
      <4> QED
        BY <1>0, <4>1, <4>2, <4>3, ArmedQuiet
    <3> QED
      BY <3>3, <3>4
  <2> QED
    BY <2>1, <2>2
<1>2. ASSUME NEW s \in Stanzas, Cancel(s)
      PROVE  ArmedInv'
  <2>1. UNCHANGED <<writing, wire>>
    BY <1>2 DEF Cancel
  <2>2. writing' \in Stanzas => outcome'[writing'] # "new"
    BY <2>1, OpsDistinct DEF ArmedInv, Begun
  <2>3. CASE s \in armed
    <3>1. PICK n \in DOMAIN queue : queue[n] = s /\ queue' = RemoveAt(queue, n)
      BY <1>2, <2>3 DEF Cancel
    <3>2. \A x : Queued(queue', x) <=> Queued(queue, x) /\ x # s
      BY <1>0, <3>1, QueuedRemove
    <3>3. armed' = armed \ {s}
      BY <1>2, <2>3 DEF Cancel
    <3>4. \A x \in armed' : Queued(queue', x) /\ x # writing'
      BY <2>1, <3>2, <3>3 DEF ArmedInv
    <3> QED
      BY <1>0, <2>1, <2>2, <3>4, ArmedQuiet
  <2>4. CASE s \notin armed
    <3>1. UNCHANGED <<queue, armed>>
      BY <1>2, <2>4 DEF Cancel
    <3> QED
      BY <1>0, <2>1, <3>1, ArmedSame
  <2> QED
    BY <2>3, <2>4
<1>3. ASSUME NEW p \in Pings, SendPing(p)
      PROVE  ArmedInv'
  <2>1. UNCHANGED <<queue, armed, wire>> /\ writing' \in {writing, Ping}
    BY <1>3, ConnWrites DEF SendPing, connVars
  <2> QED
    BY <1>0, <2>1, ArmedSame
<1>4. ASSUME NEW o \in CloseOps, NEW c \in BOOLEAN, CloseAsync(o, c)
      PROVE  ArmedInv'
  <2>1. UNCHANGED <<queue, armed, wire>> /\ writing' \in {writing, Close}
    BY <1>4, ConnWrites DEF CloseAsync, connVars, sendVars
  <2> QED
    BY <1>0, <2>1, ArmedSame
<1>5. CASE Start \/ CancelClose \/ Return
           \/ \E o \in ForceOps, c \in BOOLEAN : ForceCloseAsync(o, c)
  <2>1. UNCHANGED <<queue, armed, wire, writing>>
    BY <1>5, ConnWrites DEF Start, CancelClose, Return, ForceCloseAsync, connVars, sendVars
  <2> QED
    BY <1>0, <2>1, ArmedSame
<1> QED
  BY <1>1, <1>2, <1>3, <1>4, <1>5 DEF Send, SendIq

LEMMA RunArms ==
  ASSUME Basics, ArmedInv, Begun, Run
  PROVE  ArmedInv'
<1>0. /\ TypeOK /\ queue \in Seq(Stanzas) /\ outcome \in [Ops -> Outcomes]
      /\ QueuePending(queue, outcome) /\ \A s \in armed : s \in Stanzas
  BY DEF Basics, TypeOK, CallsPending
<1>1. CASE TerminateStep
  <2>1. UNCHANGED <<writing, wire>>
    BY <1>1 DEF TerminateStep, connVars
  <2>2. CASE queue = <<>>
    BY <1>0, <1>1, <2>1, <2>2, ArmedSame DEF TerminateStep
  <2>3. CASE queue # <<>>
    <3>1. queue' = Tail(queue) /\ armed' = armed \ {Head(queue)}
      BY <1>1, <2>3 DEF TerminateStep
    <3>2. \A x \in armed' : Queued(queue', x) /\ x # writing'
      BY <1>0, <2>1, <2>3, <3>1, QueuedTail DEF ArmedInv
    <3>3. writing' \in Stanzas => outcome'[writing'] # "new"
      BY <2>1, OpsDistinct DEF ArmedInv, Begun
    <3> QED
      BY <1>0, <2>1, <3>2, <3>3, ArmedQuiet
  <2> QED
    BY <2>2, <2>3
<1>2. CASE SendNext /\ queue # <<>>
  <2>1. /\ armed' = armed \ {Head(queue)} /\ UNCHANGED <<queue, outcome, wire>>
        /\ writing' \in {writing, Head(queue)}
    BY <1>2, ConnWrites DEF SendNext, SendHead
  <2>2. Queued(queue, Head(queue)) /\ outcome[Head(queue)] # "new"
    BY <1>0, <1>2 DEF QueuePending, Queued
  <2>3. \A x \in armed' : Queued(queue', x) /\ x # writing'
    BY <2>1 DEF ArmedInv
  <2>4. writing' \in Stanzas => outcome'[writing'] # "new"
    BY <2>1, <2>2 DEF ArmedInv
  <2> QED
    BY <1>0, <2>1, <2>3, <2>4, ArmedQuiet
<1>3. CASE ~TerminateStep /\ ~(SendNext /\ queue # <<>>)
  <2>1. /\ UNCHANGED <<queue, armed, wire>>
        /\ writing' \in {writing, Close}
    BY <1>3, ConnWrites DEF Run, SendNext, CloseIfWaitingStep, MaybeRemoveStep, ForceCloseRest,
       RemoteClosedRest, ReceiveDone, ReceivedRest, ForceShutdownStep, connVars, sendVars
  <2> QED
    BY <1>0, <2>1, ArmedSame
<1> QED
  BY <1>1, <1>2, <1>3

LEMMA CallbackArms ==
  ASSUME Basics, ArmedInv, Begun,
         \/ Deliver
         \/ WriteFailed
         \/ \E why \in {"aborted", "failed"} : ReceiveEnded(why)
         \/ ReceiveCancelled
         \/ ReceiveStanza
         \/ \E i \in Iqs : ReceiveReply(i)
         \/ ReceiveStreamError
         \/ StreamTorn
         \/ IdleReply
  PROVE  ArmedInv'
<1>0. /\ TypeOK /\ queue \in Seq(Stanzas) /\ outcome \in [Ops -> Outcomes]
      /\ QueuePending(queue, outcome) /\ \A s \in armed : s \in Stanzas
  BY DEF Basics, TypeOK, CallsPending
<1>1. CASE StanzaWritten
  <2>1. writing' = None /\ writing \in Stanzas /\ wire' = Append(wire, writing)
    BY <1>1, ConnWrites DEF StanzaWritten
  <2>2. CASE queue = <<>>
    BY <1>0, <1>1, <2>1, <2>2, ArmedSame DEF StanzaWritten
  <2>3. CASE queue # <<>>
    <3>1. queue' = Tail(queue) /\ armed' = armed \ {Head(queue)}
      BY <1>1, <2>3 DEF StanzaWritten
    <3>2. \A x \in armed' : Queued(queue', x) /\ x # writing'
      BY <1>0, <2>1, <2>3, <3>1, QueuedTail, NotStanzas DEF ArmedInv
    <3> QED
      BY <1>0, <2>1, <3>2, ArmedQuiet, NotStanzas
  <2> QED
    BY <2>2, <2>3
<1>2. CASE ~StanzaWritten
  <2>1. writing' \in {writing, None}
    BY <1>2, ConnWrites DEF Deliver, PingWritten, CloseWritten, WriteFailed, ReceiveEnded,
       ReceiveCancelled, ReceiveStanza, ReceiveReply, ReceiveStreamError, ConnStanza,
       StreamTorn, IdleReply
  <2>2. UNCHANGED wire
    BY <1>2, ConnWrites, NotStanzas DEF Deliver, PingWritten, CloseWritten, WriteFailed,
       ReceiveEnded, ReceiveCancelled, ReceiveStanza, ReceiveReply, ReceiveStreamError,
       ConnStanza, StreamTorn, IdleReply
  <2>3. UNCHANGED <<queue, armed>>
    BY <1>2 DEF Deliver, PingWritten, CloseWritten, WriteFailed, ReceiveEnded,
       ReceiveCancelled, ReceiveStanza, ReceiveReply, ReceiveStreamError, StreamTorn,
       IdleReply, StanzaFailed, PingDone, CloseSent, RemoteConnectionClosed,
       ReceiveEndedForced, ForceCloseDone, sendVars
  <2> QED
    BY <1>0, <2>1, <2>2, <2>3, ArmedSame
<1> QED
  BY <1>1, <1>2

LEMMA ArmedInvStep == Basics /\ ArmedInv /\ [Next]_vars => ArmedInv'
<1> SUFFICES ASSUME Basics, ArmedInv, [Next]_vars
             PROVE  ArmedInv'
  OBVIOUS
<1>1. CASE Next
  BY <1>1, StepBegins, CallArms, RunArms, CallbackArms DEF Next
<1>2. CASE UNCHANGED vars
  BY <1>2 DEF vars, sendVars, connVars, ArmedInv
<1> QED
  BY <1>1, <1>2

LEMMA ArmedInvInit == Init => ArmedInv
BY NotStanzas DEF Init, ConnInit, ArmedInv

LEMMA ArmedInvMeans ==
  ASSUME TypeOK, ArmedInv
  PROVE  CancelFindsWaiting
<1>1. \A s : Queued(queue, s) <=> Contains(queue, s)
  BY DEF Queued, Contains
<1> QED
  BY <1>1 DEF ArmedInv, CancelFindsWaiting

-----------------------------------------------------------------------------
(* The porter has at most one output operation on the connection.  While   *)
(* one is in progress, it is the ping of sending_whitespace_ping, or the   *)
(* stanza at the head of the queue - or one that a force close has taken   *)
(* out of it -, or the </stream> of a close that found nothing else to     *)
(* send.  What starts the next one is suspended only when none is.         *)
(*                                                                         *)
(* The application must not call from the callbacks of sends, pings and    *)
(* IQs (Quietly): what it sends from there finds the queue as the library  *)
(* left it in the middle of its own work.                                  *)

Enders  == {"send_next", "close_if_waiting"}    \* the end of a completed send
Senders == Enders \cup {"terminate"}
Uppers  == {"user", "remote_closed_rest"}       \* nothing of a send goes on below them

SendShape(st) ==
  /\ \A n \in DOMAIN st : st[n].fn \in Enders => n = Len(st)
  /\ \A m, n \in DOMAIN st : st[m].fn \in Uppers /\ st[n].fn \in Senders => n < m

Free(st) == \A fn \in Senders : ~Has(st, fn)
Blame(f) == f.fn = "terminate" /\ f.why = "busy"
Blames(st) == \E n \in DOMAIN st : Blame(st[n])

(* The failures that wait in idle sources: the connection has only refused *)
(* receives for being busy, and stanzas and pings for being closed.        *)
IdleSafe(calls, closed) ==
  \A n \in DOMAIN calls :
    /\ calls[n].why = "busy" => calls[n].cb = "recv"
    /\ calls[n].cb \in {"stanza", "ping"} => closed
    /\ calls[n].cb # "close"

OneAtATime ==
  /\ \A o \in Ops : outcome[o] # "busy"
  /\ ~Blames(stack)
  /\ IdleSafe(idle, outClosed)
  /\ writing = Ping => pinging # None
  /\ writing \in Stanzas => \/ queue # <<>> /\ Head(queue) = writing
                            \/ forcing # None /\ ~Queued(queue, writing)
  /\ writing = Close => ~waiting /\ queue = <<>> /\ pinging = None
  /\ writing = Close \/ waiting => Closing /\ ~localClosed
  /\ Has(stack, "send_next") \/ Has(stack, "close_if_waiting") => writing = None
  /\ Has(stack, "terminate") => writing = None \/ forcing # None
  /\ forcing # None => queue = <<>> \/ Has(stack, "terminate")

SendInv ==
  /\ SendShape(stack)
  /\ outClosed => localClosed /\ writing = None
  /\ ~forcedShutdown => OneAtATime

LEMMA SendPush ==
  ASSUME NEW f \in Frames, NEW st \in Seq(Frames), SendShape(st), f.fn \notin Enders,
         f.fn \in Uppers => Free(st)
  PROVE  /\ SendShape(<<f>> \o st)
         /\ Blames(<<f>> \o st) <=> Blames(st) \/ Blame(f)
<1> DEFINE new == <<f>> \o st
<1>1. /\ DOMAIN new = 1 .. (Len(st) + 1) /\ DOMAIN st = 1 .. Len(st) /\ Len(st) \in Nat
      /\ Len(new) = Len(st) + 1 /\ new[1] = f /\ 1 \in DOMAIN new
      /\ \A n \in DOMAIN new : n = 1 \/ (n - 1 \in DOMAIN st /\ new[n] = st[n - 1])
      /\ \A n \in DOMAIN st : n + 1 \in DOMAIN new /\ new[n + 1] = st[n]
  OBVIOUS
<1> HIDE DEF new
<1>2. ASSUME NEW n \in DOMAIN new, new[n].fn \in Enders
      PROVE  n = Len(new)
  <2>1. n - 1 \in DOMAIN st /\ st[n - 1].fn \in Enders
    BY <1>1, <1>2
  <2>2. n - 1 = Len(st)
    BY <2>1 DEF SendShape
  <2> QED
    BY <1>1, <2>2
<1>3. ASSUME NEW m \in DOMAIN new, NEW n \in DOMAIN new,
             new[m].fn \in Uppers, new[n].fn \in Senders
      PROVE  n < m
  <2>1. CASE m = 1
    <3>1. f.fn \in Uppers /\ Free(st)
      BY <1>1, <1>3, <2>1
    <3>2. n # 1
      BY <1>1, <1>3, <3>1 DEF Senders, Uppers, Enders
    <3>3. n - 1 \in DOMAIN st /\ new[n] = st[n - 1]
      BY <1>1, <3>2
    <3> QED
      BY <1>3, <3>1, <3>3 DEF Free, Has
  <2>2. CASE m # 1 /\ n # 1
    <3>1. /\ m - 1 \in DOMAIN st /\ new[m] = st[m - 1]
          /\ n - 1 \in DOMAIN st /\ new[n] = st[n - 1]
      BY <1>1, <2>2
    <3>2. n - 1 < m - 1
      BY <1>3, <3>1 DEF SendShape
    <3> QED
      BY <1>1, <3>2
  <2>3. CASE m # 1 /\ n = 1
    BY <1>1, <2>3
  <2> QED
    BY <2>1, <2>2, <2>3
<1>4. Blames(new) <=> Blames(st) \/ Blame(f)
  BY <1>1 DEF Blames
<1>5. SendShape(new)
  BY <1>2, <1>3 DEF SendShape
<1> QED
  BY <1>4, <1>5 DEF new

LEMMA SendPop ==
  ASSUME NEW st \in Seq(Frames), st # <<>>, SendShape(st)
  PROVE  /\ SendShape(Tail(st))
         /\ Head(st).fn \in Enders => Tail(st) = <<>>
         /\ Head(st).fn \in Uppers => Free(st)
         /\ Blames(Tail(st)) => Blames(st)
         /\ Blame(Head(st)) => Blames(st)
<1> DEFINE rest == Tail(st)
<1>1. /\ DOMAIN rest = 1 .. (Len(st) - 1) /\ DOMAIN st = 1 .. Len(st) /\ Len(st) \in Nat
      /\ Len(rest) = Len(st) - 1 /\ 1 \in DOMAIN st /\ Head(st) = st[1]
      /\ \A n \in DOMAIN rest : n + 1 \in DOMAIN st /\ rest[n] = st[n + 1]
      /\ rest \in Seq(Frames)
  OBVIOUS
<1>2. \A x \in Seq(Frames) : Len(x) = 0 => x = <<>>
  OBVIOUS
<1> HIDE DEF rest
<1>3. ASSUME NEW n \in DOMAIN rest, rest[n].fn \in Enders
      PROVE  n = Len(rest)
  <2>1. n + 1 = Len(st)
    BY <1>1, <1>3 DEF SendShape
  <2> QED
    BY <1>1, <2>1
<1>4. ASSUME NEW m \in DOMAIN rest, NEW n \in DOMAIN rest,
             rest[m].fn \in Uppers, rest[n].fn \in Senders
      PROVE  n < m
  <2>1. n + 1 < m + 1
    BY <1>1, <1>4 DEF SendShape
  <2> QED
    BY <1>1, <2>1
<1>5. Head(st).fn \in Enders => rest = <<>>
  <2>1. Head(st).fn \in Enders => 1 = Len(st)
    BY <1>1 DEF SendShape
  <2> QED
    BY <1>1, <1>2, <2>1
<1>6. Head(st).fn \in Uppers => Free(st)
  <2>1. Head(st).fn \in Uppers => \A n \in DOMAIN st : st[n].fn \in Senders => n < 1
    BY <1>1 DEF SendShape
  <2>2. \A n \in DOMAIN st : ~(n < 1)
    BY <1>1
  <2> QED
    BY <2>1, <2>2 DEF Free, Has
<1>7. (Blames(rest) => Blames(st)) /\ (Blame(Head(st)) => Blames(st))
  BY <1>1 DEF Blames
<1>8. SendShape(rest)
  BY <1>3, <1>4 DEF SendShape
<1> QED
  BY <1>5, <1>6, <1>7, <1>8 DEF rest

LEMMA SendCallout ==
  ASSUME NEW kind \in Callouts, NEW st \in Seq(Frames), SendShape(st), Free(st)
  PROVE  SendShape(Callout(kind) \o st) /\ (Blames(Callout(kind) \o st) <=> Blames(st))
<1>1. CASE kind \in Reentrant
  <2>1. Frame("user") \in Frames /\ Frame("user").fn = "user" /\ ~Blame(Frame("user"))
    BY FrameType, FrameFn DEF Functions, Blame
  <2> QED
    BY <1>1, <2>1, SendPush DEF Callout, Enders
<1>2. CASE kind \notin Reentrant
  BY <1>2, HasCallout
<1> QED
  BY <1>1, <1>2

LEMMA SendOne ==
  ASSUME NEW f \in Frames
  PROVE  SendShape(<<f>>) /\ (Blames(<<f>>) <=> Blame(f))
<1> DEFINE st == <<f>>
<1>1. DOMAIN st = {1} /\ st[1] = f /\ Len(st) = 1
  OBVIOUS
<1> HIDE DEF st
<1>2. SendShape(st) /\ (Blames(st) <=> Blame(f))
  BY <1>1 DEF SendShape, Blames, Senders, Enders, Uppers
<1> QED
  BY <1>2 DEF st

LEMMA SendLoop ==
  ASSUME Quietly, NEW rest \in {<<>>, <<Frame("received_rest")>>}, NEW why \in Errors
  PROVE  /\ SendShape(<<>>) /\ ~Blames(<<>>)
         /\ SendShape(Callout("remote") \o <<RemoteRest(why)>> \o rest)
         /\ ~Blames(Callout("remote") \o <<RemoteRest(why)>> \o rest)
         /\ SendShape(Callout("handler") \o <<Frame("received_rest")>>)
         /\ ~Blames(Callout("handler") \o <<Frame("received_rest")>>)
         /\ SendShape(<<Frame("force_shutdown")>>) /\ ~Blames(<<Frame("force_shutdown")>>)
         /\ SendShape(<<Frame("send_next")>>) /\ ~Blames(<<Frame("send_next")>>)
         /\ SendShape(<<Terminate(why), Frame("close_if_waiting")>>)
         /\ Blames(<<Terminate(why), Frame("close_if_waiting")>>) => why = "busy"
<1>1. SendShape(<<>>) /\ ~Blames(<<>>)
  BY DEF SendShape, Blames
<1>2. \A fn \in Functions : /\ Frame(fn) \in Frames /\ <<Frame(fn)>> \in Seq(Frames)
                            /\ SendShape(<<Frame(fn)>>) /\ ~Blames(<<Frame(fn)>>)
                            /\ \A x : Has(<<Frame(fn)>>, x) <=> x = fn
  <2> TAKE fn \in Functions
  <2>1. Frame(fn) \in Frames /\ Frame(fn).fn = fn /\ ~Blame(Frame(fn))
    BY FrameType, FrameFn DEF Functions, Blame
  <2>2. <<Frame(fn)>> \in Seq(Frames)
    BY OneFrame
  <2> QED
    BY <2>1, <2>2, SendOne, ShapeOne
<1>3. {"force_shutdown", "send_next", "received_rest", "close_if_waiting"} \subseteq Functions
      /\ {"remote", "handler"} \subseteq Callouts
  BY DEF Functions, Callouts
<1>4. /\ RemoteRest(why) \in Frames /\ RemoteRest(why).fn = "remote_closed_rest"
      /\ Terminate(why) \in Frames /\ Terminate(why).fn = "terminate"
      /\ Terminate(why).why = why
  BY FrameType, FrameFn DEF Terminate, Frame
<1>5. /\ rest \in Seq(Frames) /\ SendShape(rest) /\ ~Blames(rest) /\ Free(rest)
      /\ SendShape(<<Frame("received_rest")>>) /\ ~Blames(<<Frame("received_rest")>>)
      /\ Free(<<Frame("received_rest")>>) /\ <<Frame("received_rest")>> \in Seq(Frames)
  <2>1. <<>> \in Seq(Frames) /\ Free(<<>>)
    BY OneFrame, ShapeEmpty DEF Free
  <2>2. "received_rest" \in Functions
    BY <1>3
  <2>3. /\ SendShape(<<Frame("received_rest")>>) /\ ~Blames(<<Frame("received_rest")>>)
        /\ <<Frame("received_rest")>> \in Seq(Frames)
        /\ \A x : Has(<<Frame("received_rest")>>, x) => x = "received_rest"
    BY <1>2, <2>2
  <2>4. Free(<<Frame("received_rest")>>)
    BY <2>3 DEF Free, Senders, Enders
  <2> QED
    BY <1>1, <2>1, <2>3, <2>4
<1> DEFINE ended == <<RemoteRest(why)>> \o rest
           closed == <<Frame("close_if_waiting")>>
<1>6. ended \in Seq(Frames) /\ SendShape(ended) /\ ~Blames(ended) /\ Free(ended)
  <2>1. ~Blame(RemoteRest(why)) /\ RemoteRest(why).fn \notin Senders
    BY <1>4 DEF Blame, Senders, Enders
  <2>2. ended \in Seq(Frames) /\ \A fn \in Senders : ~Has(ended, fn)
    BY <1>4, <1>5, <2>1, HasPush DEF Free
  <2> QED
    BY <1>4, <1>5, <2>1, <2>2, SendPush DEF Senders, Free
<1>7. Callout("remote") \o <<RemoteRest(why)>> \o rest = Callout("remote") \o ended
  <2>1. Callout("remote") \in Seq(Frames) /\ <<RemoteRest(why)>> \in Seq(Frames)
    BY <1>3, <1>4, FrameType
  <2> QED
    BY <1>5, <2>1
<1>8. closed \in Seq(Frames) /\ SendShape(closed) /\ ~Blames(closed)
  BY <1>2, <1>3
<1>9. <<Terminate(why), Frame("close_if_waiting")>> = <<Terminate(why)>> \o closed
  OBVIOUS
<1> HIDE DEF ended, closed
<1>10. /\ SendShape(Callout("remote") \o ended) /\ ~Blames(Callout("remote") \o ended)
       /\ SendShape(Callout("handler") \o <<Frame("received_rest")>>)
       /\ ~Blames(Callout("handler") \o <<Frame("received_rest")>>)
  BY <1>3, <1>5, <1>6, SendCallout
<1>11. /\ SendShape(<<Terminate(why)>> \o closed)
       /\ Blames(<<Terminate(why)>> \o closed) => why = "busy"
  BY <1>4, <1>8, SendPush DEF Enders, Uppers, Blame
<1> QED
  BY <1>1, <1>2, <1>3, <1>7, <1>9, <1>10, <1>11

LEMMA SendIqFailed ==
  ASSUME Quietly, NEW i \in Iqs, NEW why, NEW rest \in Seq(Frames), SendShape(rest),
         IqSendFailed(i, why, rest)
  PROVE  SendShape(stack') /\ (Blames(stack') <=> Blames(rest))
<1>1. MaybeRemove(i) \in Frames /\ MaybeRemove(i).fn = "maybe_remove"
  BY FrameType, FrameFn
<1>2. Callout("iq") \o <<MaybeRemove(i)>> \o rest = <<MaybeRemove(i)>> \o rest
  <2>1. Callout("iq") = <<>>
    BY DEF Quietly, Callout
  <2> QED
    BY <1>1, <2>1
<1>3. stack' = rest \/ stack' = <<MaybeRemove(i)>> \o rest
  BY <1>2 DEF IqSendFailed
<1>4. /\ SendShape(<<MaybeRemove(i)>> \o rest)
      /\ Blames(<<MaybeRemove(i)>> \o rest) <=> Blames(rest)
  <2>1. ~Blame(MaybeRemove(i)) /\ MaybeRemove(i).fn \notin Enders \cup Uppers
    BY <1>1 DEF Enders, Uppers, Blame
  <2> QED
    BY <1>1, <2>1, SendPush
<1> QED
  BY <1>3, <1>4

LEMMA SendReply ==
  ASSUME Quietly, NEW i \in Iqs,
         \/ stack' = Callout("iq") \o <<MaybeRemove(i), Frame("received_rest")>>
         \/ stack' = <<MaybeRemove(i)>> \o Callout("handler") \o <<Frame("received_rest")>>
  PROVE  SendShape(stack') /\ ~Blames(stack') /\ Free(stack')
<1> DEFINE received == <<Frame("received_rest")>>
           st == Callout("handler") \o received
<1>1. /\ received \in Seq(Frames) /\ SendShape(received) /\ ~Blames(received)
      /\ Free(received)
  <2>1. Frame("received_rest") \in Frames /\ Frame("received_rest").fn = "received_rest"
    BY FrameType, FrameFn DEF Functions
  <2> QED
    BY <2>1, OneFrame, SendOne, ShapeOne DEF Free, Senders, Enders, Blame, Functions
<1>2. "handler" \in Callouts
  BY DEF Callouts
<1>3. st \in Seq(Frames) /\ SendShape(st) /\ ~Blames(st) /\ Free(st)
  <2>1. st \in Seq(Frames) /\ \A fn : fn # "user" => (Has(st, fn) <=> Has(received, fn))
    BY <1>1, <1>2, HasCallout
  <2> HIDE DEF received
  <2> QED
    BY <1>1, <1>2, <2>1, SendCallout DEF Free, Senders, Enders
<1>4. MaybeRemove(i) \in Frames /\ MaybeRemove(i).fn = "maybe_remove"
  BY FrameType, FrameFn
<1>5. stack' = <<MaybeRemove(i)>> \o received \/ stack' = <<MaybeRemove(i)>> \o st
  <2>1. Callout("iq") = <<>>
    BY DEF Quietly, Callout
  <2>2. Callout("iq") \o <<MaybeRemove(i), Frame("received_rest")>> = <<MaybeRemove(i)>> \o received
    BY <2>1, <1>4
  <2>3. Callout("handler") \in Seq(Frames)
    BY <1>2, FrameType
  <2>4. <<MaybeRemove(i)>> \o Callout("handler") \o <<Frame("received_rest")>>
          = <<MaybeRemove(i)>> \o st
    BY <1>1, <1>4, <2>3
  <2> QED
    BY <2>2, <2>4
<1> HIDE DEF received, st
<1>6. \A x \in {received, st} : /\ SendShape(<<MaybeRemove(i)>> \o x)
                                /\ ~Blames(<<MaybeRemove(i)>> \o x)
                                /\ Free(<<MaybeRemove(i)>> \o x)
  <2> TAKE x \in {received, st}
  <2>1. SendShape(<<MaybeRemove(i)>> \o x) /\ ~Blames(<<MaybeRemove(i)>> \o x)
    BY <1>1, <1>3, <1>4, SendPush DEF Enders, Uppers, Blame
  <2>2. Free(<<MaybeRemove(i)>> \o x)
    BY <1>1, <1>3, <1>4, HasPush DEF Free, Senders, Enders
  <2> QED
    BY <2>1, <2>2
<1> QED
  BY <1>5, <1>6

LEMMA IdleSafeAppend ==
  ASSUME NEW calls \in Seq(IdleCalls), NEW closed \in BOOLEAN, IdleSafe(calls, closed),
         NEW cb, NEW op, NEW why, why = "busy" => cb = "recv",
         cb \in {"stanza", "ping"} => closed, cb # "close"
  PROVE  IdleSafe(Append(calls, IdleCall(cb, op, why)), closed)
<1> DEFINE c == IdleCall(cb, op, why)
           new == Append(calls, c)
<1>1. /\ \A n \in DOMAIN new : n = Len(calls) + 1 \/ n \in DOMAIN calls
      /\ \A n \in DOMAIN calls : new[n] = calls[n]
      /\ new[Len(calls) + 1] = c
  OBVIOUS
<1>2. c.cb = cb /\ c.why = why
  BY DEF IdleCall
<1> HIDE DEF c, new
<1>3. IdleSafe(new, closed)
  BY <1>1, <1>2 DEF IdleSafe
<1> QED
  BY <1>3 DEF new, c

(* What the connection's operations do to the idle replies *)
LEMMA ConnIdleSafe ==
  ASSUME TypeOK, IdleSafe(idle, outClosed)
  PROVE  /\ \A closed : (outClosed => closed) => IdleSafe(idle, closed)
         /\ \A x \in Stanzas \cup {Ping} :
              writing = None /\ ConnSend(x) => IdleSafe(idle', outClosed)
         /\ writing = None /\ ~outClosed /\ ConnSend(Close) => IdleSafe(idle', outClosed)
         /\ ConnRecv => IdleSafe(idle', outClosed)
         /\ \A c : ConnIdle(c) => IdleSafe(idle', outClosed)
         /\ \A i, why : why # "busy" =>
              IdleSafe(Append(idle, IdleCall("iqsent", i, why)), outClosed)
         /\ \A c : ConnIdle(c) => /\ c.why = "busy" => c.cb = "recv"
                                  /\ c.cb \in {"stanza", "ping"} => outClosed
                                  /\ c.cb # "close"
<1>1. idle \in Seq(IdleCalls) /\ outClosed \in BOOLEAN
  BY DEF TypeOK, ConnTypeOK
<1>2. ASSUME NEW x \in Stanzas \cup {Ping}, writing = None, ConnSend(x)
      PROVE  IdleSafe(idle', outClosed)
  <2>1. CASE outClosed
    <3>1. idle' = Append(idle, IdleCall(CallbackOf(x), None, "failed"))
      BY <1>2, <2>1 DEF ConnSend
    <3>2. CallbackOf(x) \in {"stanza", "ping"}
      BY DEF CallbackOf, Ping
    <3> QED
      BY <1>1, <2>1, <3>1, <3>2, IdleSafeAppend
  <2>2. CASE ~outClosed
    BY <1>2, <2>2 DEF ConnSend
  <2> QED
    BY <2>1, <2>2
<1>3. ASSUME ConnRecv
      PROVE  IdleSafe(idle', outClosed)
  <2>1. UNCHANGED idle \/ \E why : idle' = Append(idle, IdleCall("recv", None, why))
    BY <1>3 DEF ConnRecv
  <2> QED
    BY <1>1, <2>1, IdleSafeAppend
<1>4. ASSUME NEW c, ConnIdle(c)
      PROVE  /\ IdleSafe(idle', outClosed)
             /\ c.why = "busy" => c.cb = "recv"
             /\ c.cb \in {"stanza", "ping"} => outClosed
             /\ c.cb # "close"
  <2>1. /\ idle # <<>> /\ c = Head(idle) /\ idle' = Tail(idle)
    BY <1>4 DEF ConnIdle
  <2>2. /\ \A n \in DOMAIN idle' : n + 1 \in DOMAIN idle /\ idle'[n] = idle[n + 1]
        /\ 1 \in DOMAIN idle /\ c = idle[1]
    BY <1>1, <2>1
  <2> QED
    BY <2>2 DEF IdleSafe
<1>5. writing = None /\ ~outClosed /\ ConnSend(Close) => IdleSafe(idle', outClosed)
  BY DEF ConnSend
<1>6. \A i, why : why # "busy" => IdleSafe(Append(idle, IdleCall("iqsent", i, why)), outClosed)
  BY <1>1, IdleSafeAppend
<1>7. \A closed : (outClosed => closed) => IdleSafe(idle, closed)
  BY DEF IdleSafe
<1> QED
  BY <1>2, <1>3, <1>4, <1>5, <1>6, <1>7

LEMMA CallerFree ==
  ASSUME TypeOK, SendShape(stack), CanCall
  PROVE  Free(stack)
<1>1. CASE AtLoop
  BY <1>1, ShapeEmpty DEF AtLoop, Free
<1>2. CASE InUser
  BY <1>2, SendPop DEF InUser, Uppers, TypeOK
<1> QED
  BY <1>1, <1>2 DEF CanCall

(* When nothing is being sent nor closed, nothing is being written. *)
LEMMA NothingWritten ==
  ASSUME TypeOK, OneAtATime, ~SendingInProgress, ~Closing
  PROVE  writing = None
BY DEF OneAtATime, SendingInProgress, Closing, TypeOK, ConnTypeOK, Outputs

(* A step that starts and ends no output operation *)
LEMMA SendSame ==
  ASSUME SendInv, SendShape(stack'), UNCHANGED <<writing, outClosed>>,
         localClosed => localClosed', forcedShutdown => forcedShutdown',
         ~forcedShutdown' /\ OneAtATime =>
           /\ \A o \in Ops : outcome'[o] # "busy"
           /\ ~Blames(stack')
           /\ IdleSafe(idle', outClosed)
           /\ UNCHANGED <<queue, pinging, waiting, localClosed>>
           /\ Closing => Closing'
           /\ forcing # None => forcing' # None
           /\ Has(stack', "send_next") => Has(stack, "send_next")
           /\ Has(stack', "close_if_waiting") => Has(stack, "close_if_waiting")
           /\ Has(stack', "terminate") => Has(stack, "terminate") \/ forcing' # None
           /\ forcing' # None => queue = <<>> \/ Has(stack', "terminate")
  PROVE  SendInv'
<1>1. ASSUME ~forcedShutdown'
      PROVE  OneAtATime'
  <2>1. OneAtATime
    BY <1>1 DEF SendInv
  <2> QED
    BY <1>1, <2>1 DEF OneAtATime
<1>2. outClosed' => localClosed' /\ writing' = None
  BY DEF SendInv
<1> QED
  BY <1>1, <1>2 DEF SendInv

(* Nobody is told that the porter is busy, unless somebody was. *)
LEMMA NotBusy ==
  ASSUME TypeOK, NEW x, NEW r, Resolve(x, r), r # "busy"
  PROVE  \A o \in Ops : outcome[o] # "busy" => outcome'[o] # "busy"
BY DEF TypeOK, Resolve

LEMMA EnqueueSends ==
  ASSUME Quietly, Basics, ArmedInv, SendInv, NEW s \in Stanzas, Enqueue(s)
  PROVE  SendInv'
<1>0. /\ TypeOK /\ queue \in Seq(Stanzas) /\ Free(stack) /\ CanCall
      /\ UNCHANGED <<pinging, closeVars, forceVars, endVars, stack>>
  BY CallerFree DEF Basics, TypeOK, Enqueue, SendInv
<1>1. CASE Closing
  <2>1. UNCHANGED <<queue, connVars>> /\ Resolve(s, "refused")
    BY <1>1 DEF Enqueue
  <2> QED
    BY <1>0, <2>1, NotBusy, SendSame
    DEF SendInv, OneAtATime, connVars, closeVars, forceVars, endVars, Closing
<1>2. CASE ~Closing
  <2>1. /\ queue' = Append(queue, s) /\ Resolve(s, "pending") /\ queue' # <<>>
        /\ queue # <<>> => Head(queue') = Head(queue)
        /\ queue = <<>> => Head(queue') = s
    BY <1>0, <1>2 DEF Enqueue, PushTail
  <2>2. closing = None /\ forcing = None
    BY <1>2 DEF Closing
  <2>3. /\ UNCHANGED outClosed
        /\ outClosed => UNCHANGED writing
        /\ ConnSend(s) \/ UNCHANGED connVars
    BY <1>2, <1>0 DEF Enqueue, SendHead, connVars, ConnSend
  <2>4. ASSUME ~forcedShutdown'
        PROVE  OneAtATime'
    <3>1. OneAtATime /\ \A o \in Ops : outcome'[o] # "busy"
      BY <1>0, <2>1, <2>4, NotBusy DEF SendInv, OneAtATime, forceVars
    <3>2. writing # Close /\ ~waiting
      BY <1>2, <3>1 DEF OneAtATime
    <3>3. CASE SendingInProgress
      <4>1. UNCHANGED connVars
        BY <1>2, <3>3 DEF Enqueue
      <4> QED
        BY <1>0, <2>1, <2>2, <3>1, <3>2, <4>1
        DEF OneAtATime, Free, Senders, Enders, connVars, closeVars, forceVars, endVars
    <3>4. CASE ~SendingInProgress
      <4>1. ConnSend(s) /\ queue = <<>> /\ writing = None
        BY <1>0, <1>2, <3>1, <3>4, NothingWritten DEF Enqueue, SendHead, SendingInProgress
      <4>2. IdleSafe(idle', outClosed') /\ writing' \in {None, s}
        BY <1>0, <2>3, <3>1, <4>1, ConnIdleSafe, ConnWrites DEF OneAtATime
      <4> QED
        BY <1>0, <2>1, <2>2, <3>1, <3>2, <4>1, <4>2, NotStanzas
        DEF OneAtATime, Free, Senders, Enders, closeVars, forceVars, endVars
    <3> QED
      BY <3>3, <3>4
  <2>5. outClosed' => localClosed' /\ writing' = None
    BY <1>0, <2>3 DEF SendInv, endVars
  <2> QED
    BY <1>0, <2>4, <2>5 DEF SendInv
<1> QED
  BY <1>1, <1>2

LEMMA CancelSends ==
  ASSUME Quietly, Basics, ArmedInv, SendInv, NEW s \in Stanzas, Cancel(s)
  PROVE  SendInv'
<1>0. /\ TypeOK /\ queue \in Seq(Stanzas) /\ Free(stack) /\ QueuePending(queue, outcome)
      /\ UNCHANGED <<pinging, closeVars, forceVars, endVars, stack, writing, outClosed>>
      /\ Resolve(s, "cancelled")
  BY CallerFree DEF Basics, TypeOK, Cancel, SendInv, CallsPending
<1>1. CASE s \notin armed
  <2>1. UNCHANGED <<queue, idle>>
    BY <1>1 DEF Cancel
  <2> QED
    BY <1>0, <2>1, NotBusy, SendSame
    DEF SendInv, OneAtATime, closeVars, forceVars, endVars, Closing
<1>2. CASE s \in armed
  <2>1. PICK n \in DOMAIN queue : queue[n] = s /\ queue' = RemoveAt(queue, n)
    BY <1>2 DEF Cancel
  <2>2. \A x : Queued(queue', x) <=> Queued(queue, x) /\ x # s
    BY <1>0, <2>1, QueuedRemove
  <2>3. Queued(queue, s) /\ s # writing /\ queue # <<>>
    BY <1>2, <2>1 DEF ArmedInv, Queued
  <2>4. Head(queue) = writing => queue' # <<>> /\ Head(queue') = writing
    <3>1. /\ DOMAIN queue' = 1 .. Len(queue) - 1
          /\ \A m \in 1 .. Len(queue) - 1 : queue'[m] = IF m < n THEN queue[m] ELSE queue[m + 1]
      BY <1>0, <2>1, RemoveAtElements
    <3>2. Head(queue) = writing => n # 1
      BY <2>1, <2>3
    <3>3. n \in 1 .. Len(queue) /\ Len(queue) \in Nat
      BY <1>0
    <3>4. Head(queue) = writing => 1 \in 1 .. Len(queue) - 1 /\ 1 < n
      BY <3>2, <3>3
    <3>5. queue' \in Seq(Stanzas)
      BY <1>0, <2>1, RemoveAtType
    <3>6. Head(queue) = writing => 1 \in DOMAIN queue' /\ queue'[1] = queue[1]
      BY <3>1, <3>4
    <3> QED
      BY <2>3, <3>5, <3>6
  <2>5. ASSUME ~forcedShutdown'
        PROVE  OneAtATime'
    <3>1. OneAtATime /\ \A o \in Ops : outcome'[o] # "busy"
      BY <1>0, <2>5, NotBusy DEF SendInv, OneAtATime, forceVars
    <3>2. forcing = None /\ writing # Close
      BY <1>0, <2>3, <3>1 DEF OneAtATime, Free, Senders
    <3>3. IdleSafe(idle', outClosed)
      <4>1. UNCHANGED idle \/ idle' = Append(idle, IdleCall("iqsent", s, "cancelled"))
        BY <1>2 DEF Cancel
      <4> QED
        BY <1>0, <3>1, <4>1, ConnIdleSafe DEF OneAtATime
    <3> QED
      BY <1>0, <2>2, <2>4, <3>1, <3>2, <3>3
      DEF OneAtATime, closeVars, forceVars, endVars, Closing
  <2>6. outClosed' => localClosed' /\ writing' = None
    BY <1>0 DEF SendInv, endVars
  <2> QED
    BY <1>0, <2>5, <2>6 DEF SendInv
<1> QED
  BY <1>1, <1>2

LEMMA PingSends ==
  ASSUME Quietly, Basics, ArmedInv, SendInv, NEW p \in Pings, SendPing(p)
  PROVE  SendInv'
<1>0. /\ TypeOK /\ Free(stack)
      /\ UNCHANGED <<queue, closeVars, forceVars, endVars, stack>>
  BY CallerFree DEF Basics, SendPing, SendInv
<1>1. CASE Closing \/ SendingInProgress
  <2>1. UNCHANGED <<pinging, connVars>> /\ \E r \in {"refused", "ok"} : Resolve(p, r)
    BY <1>1 DEF SendPing
  <2> QED
    BY <1>0, <2>1, NotBusy, SendSame
    DEF SendInv, OneAtATime, connVars, closeVars, forceVars, endVars, Closing
<1>2. CASE ~(Closing \/ SendingInProgress)
  <2>1. Resolve(p, "pending") /\ pinging' = p /\ ConnSend(Ping)
    BY <1>2 DEF SendPing
  <2>2. UNCHANGED outClosed /\ (outClosed => UNCHANGED writing)
    BY <2>1 DEF ConnSend
  <2>3. ASSUME ~forcedShutdown'
        PROVE  OneAtATime'
    <3>1. OneAtATime /\ \A o \in Ops : outcome'[o] # "busy"
      BY <1>0, <2>1, <2>3, NotBusy DEF SendInv, OneAtATime, forceVars
    <3>2. writing = None /\ ~waiting /\ p # None
      BY <1>0, <1>2, <3>1, NothingWritten, OpsDistinct DEF OneAtATime
    <3>3. IdleSafe(idle', outClosed') /\ writing' \in {None, Ping}
      BY <1>0, <2>1, <2>2, <3>1, <3>2, ConnIdleSafe, ConnWrites DEF OneAtATime
    <3>4. Ping # Close
      BY DEF Ping, Close
    <3> QED
      BY <1>0, <2>1, <3>1, <3>2, <3>3, <3>4, NotStanzas, ConnAssumption
      DEF OneAtATime, Outputs, Free, Senders, Enders, closeVars, forceVars, endVars, Closing
  <2>4. outClosed' => localClosed' /\ writing' = None
    BY <1>0, <2>2 DEF SendInv, endVars
  <2> QED
    BY <1>0, <2>3, <2>4 DEF SendInv
<1> QED
  BY <1>1, <1>2

LEMMA CloseSends ==
  ASSUME Quietly, Basics, ArmedInv, SendInv, NEW o \in CloseOps, NEW c \in BOOLEAN,
         CloseAsync(o, c)
  PROVE  SendInv'
<1>0. /\ TypeOK /\ Free(stack)
      /\ UNCHANGED <<queue, pinging, forceVars, endVars, stack>>
  BY CallerFree DEF Basics, CloseAsync, SendInv, sendVars
<1>1. CASE localClosed \/ NotStarted \/ Closing
  <2>1. UNCHANGED <<closeVars, connVars>> /\ Resolve(o, "refused")
    BY <1>1 DEF CloseAsync
  <2> QED
    BY <1>0, <2>1, NotBusy, SendSame
    DEF SendInv, OneAtATime, connVars, closeVars, forceVars, endVars, Closing
<1>2. CASE ~(localClosed \/ NotStarted \/ Closing)
  <2>1. /\ Resolve(o, "pending") /\ closing' = o
        /\ IF SendingInProgress THEN waiting' = TRUE /\ UNCHANGED connVars
                                ELSE waiting' = FALSE /\ ConnSend(Close)
    BY <1>2 DEF CloseAsync
  <2>2. ~outClosed /\ ~localClosed /\ Closing' /\ ~outClosed'
    <3>1. ~outClosed /\ ~localClosed
      BY <1>2 DEF SendInv
    <3>2. closing' # None
      BY <2>1, OpsDistinct
    <3>3. UNCHANGED outClosed
      BY <2>1 DEF ConnSend, connVars
    <3> QED
      BY <3>1, <3>2, <3>3 DEF Closing
  <2>3. ASSUME ~forcedShutdown'
        PROVE  OneAtATime'
    <3>1. OneAtATime /\ \A x \in Ops : outcome'[x] # "busy"
      BY <1>0, <2>1, <2>3, NotBusy DEF SendInv, OneAtATime, forceVars
    <3>2. CASE SendingInProgress
      <4>1. writing # Close
        BY <1>2, <3>1 DEF OneAtATime
      <4>2. UNCHANGED <<writing, idle, outClosed>>
        BY <2>1, <3>2 DEF connVars
      <4> QED
        BY <1>0, <2>1, <2>2, <3>1, <3>2, <4>1, <4>2
        DEF OneAtATime, forceVars, endVars
    <3>3. CASE ~SendingInProgress
      <4>1. writing = None
        BY <1>0, <1>2, <3>1, <3>3, NothingWritten
      <4>2. /\ IdleSafe(idle', outClosed) /\ writing' = Close /\ waiting' = FALSE
            /\ UNCHANGED outClosed
        BY <1>0, <2>1, <2>2, <3>1, <3>3, <4>1, ConnIdleSafe DEF OneAtATime, ConnSend
      <4>3. Close # Ping /\ Close \notin Stanzas
        BY NotStanzas DEF Ping, Close
      <4> QED
        BY <1>0, <2>1, <2>2, <3>1, <3>3, <4>2, <4>3
        DEF OneAtATime, SendingInProgress, Free, Senders, Enders, forceVars, endVars
    <3> QED
      BY <3>2, <3>3
  <2> QED
    BY <1>0, <2>2, <2>3 DEF SendInv
<1> QED
  BY <1>1, <1>2

LEMMA ForceSends ==
  ASSUME Quietly, Basics, ArmedInv, SendInv, NEW o \in ForceOps, NEW c \in BOOLEAN,
         ForceCloseAsync(o, c)
  PROVE  SendInv'
<1>0. /\ TypeOK /\ Free(stack) /\ stack \in Seq(Frames) /\ SendShape(stack)
      /\ UNCHANGED <<queue, pinging, waiting, forcedShutdown, endVars, connVars>>
  BY CallerFree DEF Basics, TypeOK, ForceCloseAsync, SendInv, sendVars
<1>1. CASE Resolve(o, "refused") /\ UNCHANGED <<closing, forcing, forceCancel, stack>>
  BY <1>0, <1>1, NotBusy, SendSame DEF SendInv, OneAtATime, connVars, endVars, Closing
<1>2. CASE /\ outcome' = [x \in Ops |-> IF x = o THEN "pending"
                                        ELSE IF x = closing THEN "forced"
                                        ELSE outcome[x]]
           /\ closing' = None /\ forcing' = o
           /\ stack' = <<Terminate("forced"), Frame("force_close_rest")>> \o stack
  <2> DEFINE st == <<Frame("force_close_rest")>> \o stack
  <2>1. /\ Frame("force_close_rest") \in Frames /\ Terminate("forced") \in Frames
        /\ Frame("force_close_rest").fn = "force_close_rest"
        /\ Terminate("forced").fn = "terminate" /\ Terminate("forced").why = "forced"
    BY FrameType, FrameFn DEF Functions, Errors, Terminate, Frame
  <2>2. /\ st \in Seq(Frames) /\ SendShape(st) /\ (Blames(st) <=> Blames(stack))
        /\ \A fn \in Senders : ~Has(st, fn)
    BY <1>0, <2>1, HasPush, SendPush DEF Free, Senders, Enders, Uppers, Blame
  <2>3. stack' = <<Terminate("forced")>> \o st
    BY <1>0, <1>2
  <2> HIDE DEF st
  <2>4. /\ SendShape(stack') /\ (Blames(stack') <=> Blames(stack))
        /\ Has(stack', "terminate")
        /\ ~Has(stack', "send_next") /\ ~Has(stack', "close_if_waiting")
    <3>1. ~Blame(Terminate("forced"))
      BY <2>1 DEF Blame
    <3>2. SendShape(stack') /\ (Blames(stack') <=> Blames(stack))
      BY <2>1, <2>2, <2>3, <3>1, SendPush DEF Enders, Uppers
    <3>3. \A fn : Has(stack', fn) <=> Has(st, fn) \/ fn = "terminate"
      BY <2>1, <2>2, <2>3, HasPush
    <3> QED
      BY <2>2, <3>2, <3>3 DEF Senders, Enders
  <2>5. forcing' # None
    BY <1>2, OpsDistinct
  <2> QED
    BY <1>0, <1>2, <2>4, <2>5, SendSame DEF OneAtATime, connVars, endVars, Closing
<1> QED
  BY <1>1, <1>2 DEF ForceCloseAsync

LEMMA CallSends ==
  ASSUME Quietly, Basics, ArmedInv, SendInv,
         \/ \E s \in Stanzas : Send(s) \/ SendIq(s) \/ Cancel(s)
         \/ \E p \in Pings : SendPing(p)
         \/ Start
         \/ \E o \in CloseOps, c \in BOOLEAN : CloseAsync(o, c)
         \/ CancelClose
         \/ \E o \in ForceOps, c \in BOOLEAN : ForceCloseAsync(o, c)
         \/ Return
  PROVE  SendInv'
<1>0. TypeOK /\ stack \in Seq(Frames) /\ SendShape(stack)
  BY DEF Basics, TypeOK, SendInv
<1>1. CASE Start
  <2>1. /\ UNCHANGED <<sendVars, closeVars, forceVars, localClosed, outcome, stack>>
        /\ UNCHANGED <<writing, outClosed>> /\ ConnRecv
    BY <1>1 DEF Start, ConnRecv
  <2> QED
    BY <1>0, <2>1, ConnIdleSafe, SendSame
    DEF OneAtATime, SendInv, sendVars, closeVars, forceVars, Closing
<1>2. CASE CancelClose
  BY <1>0, <1>2, SendSame DEF CancelClose, OneAtATime, SendInv, sendVars, forceVars, endVars,
                              connVars, Closing
<1>3. CASE Return
  <2>1. /\ SendShape(stack') /\ (Blames(stack') => Blames(stack))
        /\ \A fn \in Senders : Has(stack', fn) <=> Has(stack, fn)
    BY <1>0, <1>3, SendPop, HasTail DEF Return, InUser, Senders, Enders
  <2>2. UNCHANGED <<sendVars, closeVars, forceVars, endVars, outcome, connVars>>
    BY <1>3 DEF Return
  <2> QED
    BY <2>1, <2>2, SendSame DEF OneAtATime, SendInv, sendVars, closeVars, forceVars, endVars,
                                connVars, Closing, Senders, Enders
<1> QED
  BY <1>1, <1>2, <1>3, EnqueueSends, CancelSends, PingSends, CloseSends, ForceSends
  DEF Send, SendIq

(* The end of a completed operation: the next one starts. *)
LEMMA NextSends ==
  ASSUME Quietly, Basics, ArmedInv, SendInv, SendNext \/ CloseIfWaitingStep
  PROVE  SendInv'
<1>0. /\ TypeOK /\ stack \in Seq(Frames) /\ stack # <<>> /\ queue \in Seq(Stanzas)
      /\ Has(stack, "send_next") \/ Has(stack, "close_if_waiting")
      /\ stack' = <<>>
      /\ UNCHANGED <<queue, pinging, closing, closeCancel, forceVars, endVars, outcome>>
  <2>1. /\ TypeOK /\ stack \in Seq(Frames) /\ stack # <<>> /\ queue \in Seq(Stanzas)
        /\ stack' = Tail(stack) /\ Head(stack).fn \in Enders
        /\ UNCHANGED <<queue, pinging, closing, closeCancel, forceVars, endVars, outcome>>
    BY DEF Basics, TypeOK, SendNext, CloseIfWaitingStep, Running, Enders, sendVars
  <2>2. Tail(stack) = <<>> /\ Has(stack, Head(stack).fn)
    BY <2>1, SendPop, HasTail DEF SendInv
  <2> QED
    BY <2>1, <2>2 DEF Enders
<1>1. Free(stack') /\ ~Has(stack, "terminate") /\ SendShape(stack') /\ ~Blames(stack')
  <2>1. ~Has(<<>>, "terminate") /\ Free(<<>>)
    BY ShapeEmpty DEF Free
  <2>2. ~Has(stack, "terminate")
    <3>1. Tail(stack) = <<>> /\ Head(stack).fn # "terminate"
      BY <1>0 DEF SendNext, CloseIfWaitingStep, Running
    <3> QED
      BY <1>0, <2>1, <3>1, HasTail
  <2>3. SendShape(<<>>) /\ ~Blames(<<>>)
    BY DEF SendShape, Blames
  <2> QED
    BY <1>0, <2>1, <2>2, <2>3
<1>2. \/ SendNext /\ queue # <<>> /\ ConnSend(Head(queue)) /\ UNCHANGED waiting
      \/ CloseIfWaiting
  BY DEF SendNext, CloseIfWaitingStep, SendHead
<1>3. UNCHANGED outClosed /\ (outClosed => UNCHANGED writing)
  BY <1>2 DEF ConnSend, CloseIfWaiting, connVars
<1>4. ASSUME ~forcedShutdown'
      PROVE  OneAtATime'
  <2>1. /\ OneAtATime /\ \A o \in Ops : outcome'[o] # "busy"
        /\ writing = None /\ (forcing # None => queue = <<>>)
    BY <1>0, <1>1, <1>4 DEF SendInv, OneAtATime, forceVars
  <2>2. CASE queue # <<>> /\ ConnSend(Head(queue)) /\ UNCHANGED waiting
    <3>1. Head(queue) \in Stanzas
      BY <1>0, <2>2
    <3>2. IdleSafe(idle', outClosed') /\ writing' \in {None, Head(queue)}
      BY <1>0, <1>3, <2>1, <2>2, <3>1, ConnIdleSafe, ConnWrites DEF OneAtATime
    <3> QED
      BY <1>0, <1>1, <2>1, <2>2, <3>1, <3>2, NotStanzas, ConnAssumption
      DEF OneAtATime, Outputs, Free, Senders, Enders, forceVars, endVars, Closing
  <2>3. CASE CloseIfWaiting /\ waiting /\ ~SendingInProgress
    <3>1. Closing /\ ~localClosed /\ ~outClosed
      BY <2>1, <2>3 DEF OneAtATime, SendInv
    <3>2. waiting' = FALSE /\ writing' = Close /\ ConnSend(Close) /\ IdleSafe(idle', outClosed)
      BY <1>0, <2>1, <2>3, <3>1, ConnIdleSafe DEF CloseIfWaiting, ConnSend, OneAtATime
    <3>3. Close # Ping /\ Close \notin Stanzas
      BY NotStanzas DEF Ping, Close
    <3> QED
      BY <1>0, <1>1, <1>3, <2>1, <2>3, <3>1, <3>2, <3>3
      DEF OneAtATime, SendingInProgress, Free, Senders, Enders, forceVars, endVars, Closing
  <2>4. CASE CloseIfWaiting /\ ~(waiting /\ ~SendingInProgress)
    <3>1. UNCHANGED <<waiting, connVars>>
      BY <2>4 DEF CloseIfWaiting
    <3> QED
      BY <1>0, <1>1, <2>1, <3>1
      DEF OneAtATime, Free, Senders, Enders, forceVars, endVars, Closing, connVars
  <2> QED
    BY <1>2, <2>2, <2>3, <2>4
<1>5. outClosed' => localClosed' /\ writing' = None
  BY <1>0, <1>3 DEF SendInv, endVars
<1> QED
  BY <1>1, <1>4, <1>5 DEF SendInv

LEMMA TerminateSends ==
  ASSUME Quietly, Basics, ArmedInv, SendInv, TerminateStep
  PROVE  SendInv'
<1>0. /\ TypeOK /\ stack \in Seq(Frames) /\ queue \in Seq(Stanzas) /\ SendShape(stack)
      /\ stack # <<>> /\ Head(stack).fn = "terminate" /\ Has(stack, "terminate")
      /\ QueuePending(queue, outcome)
      /\ UNCHANGED <<pinging, closeVars, forceVars, endVars, connVars>>
  BY HasTail DEF Basics, TypeOK, CallsPending, TerminateStep, Running, SendInv
<1>1. CASE queue = <<>>
  <2>1. stack' = Tail(stack) /\ UNCHANGED <<queue, outcome>>
    BY <1>1 DEF TerminateStep
  <2>2. /\ SendShape(stack') /\ (Blames(stack') => Blames(stack))
        /\ \A fn : Has(stack', fn) => Has(stack, fn)
    BY <1>0, <2>1, SendPop, HasTail
  <2> QED
    BY <1>0, <1>1, <2>1, <2>2, SendSame
    DEF OneAtATime, connVars, closeVars, forceVars, endVars, Closing
<1>2. CASE queue # <<>>
  <2>1. /\ Head(queue) \in Stanzas /\ queue' = Tail(queue)
        /\ \A x : Queued(queue', x) <=> Queued(queue, x) /\ x # Head(queue)
    <3>1. Head(queue) \in Stanzas /\ queue' = Tail(queue)
      BY <1>0, <1>2 DEF TerminateStep
    <3> QED
      BY <1>0, <1>2, <3>1, QueuedTail
  <2>2. /\ SendShape(stack') /\ (Blames(stack') <=> Blames(stack))
        /\ \A fn \in Senders : Has(stack', fn) <=> Has(stack, fn)
        /\ UNCHANGED outcome \/ Resolve(Head(queue), Head(stack).why)
    <3>1. CASE Head(queue) \in Iqs
      <4>1. IqSendFailed(Head(queue), Head(stack).why, stack)
        BY <1>2, <3>1 DEF TerminateStep
      <4> QED
        BY <1>0, <3>1, <4>1, SendIqFailed, IqSendFailedStack DEF Senders, Enders
    <3>2. CASE Head(queue) \notin Iqs
      <4>1. Callout("send") \o stack = stack
        BY <1>0 DEF Callout, Quietly
      <4>2. stack' = stack /\ Resolve(Head(queue), Head(stack).why)
        BY <1>2, <3>2, <4>1 DEF TerminateStep
      <4> QED
        BY <1>0, <4>2
    <3> QED
      BY <3>1, <3>2
  <2>3. ASSUME ~forcedShutdown'
        PROVE  OneAtATime'
    <3>1. OneAtATime
      BY <1>0, <2>3 DEF SendInv, forceVars
    <3>2. Head(stack).why # "busy"
      BY <1>0, <3>1, SendPop DEF OneAtATime, Blame
    <3>3. \A o \in Ops : outcome'[o] # "busy"
      BY <1>0, <2>2, <3>1, <3>2, NotBusy DEF OneAtATime
    <3>4. /\ writing \in Stanzas => forcing # None /\ ~Queued(queue', writing)
          /\ writing # Close
      BY <1>0, <1>2, <2>1, <3>1, NotStanzas DEF OneAtATime
    <3> QED
      BY <1>0, <2>2, <3>1, <3>3, <3>4
      DEF OneAtATime, Senders, Enders, connVars, closeVars, forceVars, endVars, Closing
  <2>4. outClosed' => localClosed' /\ writing' = None
    BY <1>0 DEF SendInv, endVars, connVars
  <2> QED
    BY <2>2, <2>3, <2>4 DEF SendInv
<1> QED
  BY <1>1, <1>2

LEMMA RunSends ==
  ASSUME Quietly, Basics, ArmedInv, SendInv, Run
  PROVE  SendInv'
<1>0. /\ TypeOK /\ stack \in Seq(Frames) /\ stack # <<>> /\ SendShape(stack)
      /\ Tail(stack) \in Seq(Frames) /\ SendShape(Tail(stack))
      /\ Blames(Tail(stack)) => Blames(stack)
      /\ \A fn : Has(stack, fn) <=> Has(Tail(stack), fn) \/ Head(stack).fn = fn
      /\ Has(stack, Head(stack).fn)
  <2>1. stack # <<>> /\ stack \in Seq(Frames) /\ SendShape(stack) /\ TypeOK
    BY DEF Run, Running, TerminateStep, SendNext, CloseIfWaitingStep, MaybeRemoveStep,
           ForceCloseRest, RemoteClosedRest, ReceiveDone, ReceivedRest, ForceShutdownStep,
           Basics, TypeOK, SendInv
  <2> QED
    BY <2>1, HasTail, SendPop
<1>1. CASE MaybeRemoveStep \/ ReceiveDone
  <2>1. /\ Head(stack).fn \notin Senders /\ stack' = Tail(stack)
        /\ UNCHANGED <<sendVars, closeVars, forceVars, localClosed, outcome, connVars>>
    BY <1>1 DEF MaybeRemoveStep, ReceiveDone, Running, Senders, Enders, endVars
  <2> QED
    BY <1>0, <2>1, SendSame
    DEF OneAtATime, sendVars, closeVars, forceVars, connVars, Closing, Senders, Enders
<1>2. CASE ForceCloseRest
  <2>1. /\ Head(stack).fn = "force_close_rest" /\ stack' = Tail(stack)
        /\ UNCHANGED <<sendVars, closeVars, localClosed>>
    BY <1>2 DEF ForceCloseRest, Running
  <2>2. forcing # None /\ ~forcedShutdown
    BY <1>0, <2>1 DEF Basics, ShutdownInv
  <2>3. /\ UNCHANGED <<writing, outClosed, forcing>> /\ outcome' = Aborted("forced")
        /\ forcedShutdown' \/ UNCHANGED connVars
    BY <1>2, <2>2 DEF ForceCloseRest, ForceShutdown, ConnForceClose, connVars
  <2>4. \A o \in Ops : outcome[o] # "busy" => outcome'[o] # "busy"
    BY <2>3 DEF Aborted
  <2> QED
    BY <1>0, <2>1, <2>2, <2>3, <2>4, SendSame
    DEF OneAtATime, sendVars, closeVars, connVars, Closing
<1>3. CASE ReceivedRest \/ ForceShutdownStep
  <2>1. /\ Head(stack).fn \notin Senders /\ stack' = Tail(stack)
        /\ UNCHANGED <<sendVars, closeVars, forcing, forceCancel, endVars, outcome>>
    BY <1>3 DEF ReceivedRest, ForceShutdownStep, Running, Senders, Enders
  <2>2. /\ UNCHANGED <<writing, outClosed>> /\ (forcedShutdown => forcedShutdown')
        /\ forcedShutdown' \/ ConnRecv \/ UNCHANGED connVars
    BY <1>3 DEF ReceivedRest, ForceShutdownStep, ForceShutdown, ConnForceClose, ConnRecv, connVars
  <2>3. ~forcedShutdown' /\ OneAtATime => IdleSafe(idle', outClosed)
    BY <1>0, <2>2, ConnIdleSafe DEF OneAtATime, connVars
  <2> QED
    BY <1>0, <2>1, <2>2, <2>3, SendSame
    DEF OneAtATime, sendVars, closeVars, endVars, Closing, Senders, Enders
<1>4. CASE RemoteClosedRest
  <2> DEFINE st == <<Frame("receive_done")>> \o Tail(stack)
  <2>1. /\ Head(stack).fn = "remote_closed_rest" /\ Free(stack)
        /\ UNCHANGED <<sendVars, waiting, forcing, forcedShutdown, endVars, connVars>>
    BY <1>0, <1>4, SendPop DEF RemoteClosedRest, Running, Uppers
  <2>2. /\ st \in Seq(Frames) /\ SendShape(st) /\ (Blames(st) => Blames(stack)) /\ Free(st)
    <3>1. /\ Frame("receive_done") \in Frames /\ Frame("receive_done").fn = "receive_done"
          /\ ~Blame(Frame("receive_done"))
      BY FrameType, FrameFn DEF Functions, Blame
    <3>2. st \in Seq(Frames) /\ Free(st)
      BY <1>0, <2>1, <3>1, HasPush DEF Free, Senders, Enders
    <3> QED
      BY <1>0, <3>1, <3>2, SendPush DEF Enders, Uppers
  <2>3. stack' = Callout("close") \o st \/ stack' = st
    <3>1. Callout("close") \in Seq(Frames) /\ <<Frame("receive_done")>> \in Seq(Frames)
      BY FrameType, OneFrame DEF Callouts, Functions
    <3>2. Callout("close") \o <<Frame("receive_done")>> \o Tail(stack) = Callout("close") \o st
      BY <1>0, <3>1
    <3> QED
      BY <1>4, <3>2 DEF RemoteClosedRest
  <2> HIDE DEF st
  <2>4. SendShape(stack') /\ (Blames(stack') => Blames(stack)) /\ Free(stack')
    <3>1. "close" \in Callouts
      BY DEF Callouts
    <3>2. Free(Callout("close") \o st)
      BY <2>2, <3>1, HasCallout DEF Free, Senders, Enders
    <3> QED
      BY <2>2, <2>3, <3>1, <3>2, SendCallout
  <2>5. CASE ~(closing # None /\ localClosed)
    <3>1. UNCHANGED <<outcome, closing>>
      BY <1>4, <2>5 DEF RemoteClosedRest
    <3> QED
      BY <1>0, <2>1, <2>4, <3>1, SendSame
      DEF OneAtATime, sendVars, endVars, connVars, Closing, Free, Senders, Enders
  <2>6. CASE closing # None /\ localClosed
    <3>1. \A o \in Ops : outcome[o] # "busy" => outcome'[o] # "busy"
      <4>1. \E r \in {"ok", "cancelled", "failed"} : Resolve(closing, r)
        BY <1>4, <2>6 DEF RemoteClosedRest, CompleteClose
      <4> QED
        BY <1>0, <4>1, NotBusy
    <3>2. ASSUME ~forcedShutdown'
          PROVE  OneAtATime'
      <4>1. OneAtATime
        BY <2>1, <3>2 DEF SendInv
      <4> QED
        BY <2>1, <2>4, <2>6, <3>1, <4>1
        DEF OneAtATime, sendVars, endVars, connVars, Free, Senders, Enders
    <3>3. outClosed' => localClosed' /\ writing' = None
      BY <2>1 DEF SendInv, endVars, connVars
    <3> QED
      BY <2>4, <3>2, <3>3 DEF SendInv
  <2> QED
    BY <2>5, <2>6
<1> QED
  BY <1>1, <1>2, <1>3, <1>4, TerminateSends, NextSends DEF Run

(* A completion, or the failure of an operation that was never started *)
LEMMA SendDone ==
  ASSUME SendInv, AtLoop, SendShape(stack'), writing' \in {writing, None},
         UNCHANGED <<outClosed, localClosed, waiting, closing, forcing, forcedShutdown>>,
         ~forcedShutdown /\ OneAtATime =>
           /\ writing' = None
           /\ \A o \in Ops : outcome'[o] # "busy"
           /\ ~Blames(stack')
           /\ IdleSafe(idle', outClosed)
           /\ queue = <<>> => queue' = <<>>
  PROVE  SendInv'
<1>1. ASSUME ~forcedShutdown'
      PROVE  OneAtATime'
  <2>1. OneAtATime
    BY <1>1 DEF SendInv
  <2>2. forcing # None => queue = <<>>
    BY <2>1, ShapeEmpty DEF OneAtATime, AtLoop
  <2>3. None \notin {Ping, Close} \cup Stanzas
    BY ConnAssumption DEF Outputs
  <2> QED
    BY <1>1, <2>1, <2>2, <2>3 DEF OneAtATime, Closing
<1>2. outClosed' => localClosed' /\ writing' = None
  BY DEF SendInv
<1> QED
  BY <1>1, <1>2 DEF SendInv

LEMMA StanzaWrittenSends ==
  ASSUME Quietly, Basics, ArmedInv, SendInv, StanzaWritten
  PROVE  SendInv'
<1>0. /\ TypeOK /\ queue \in Seq(Stanzas) /\ AtLoop /\ writing' = None
      /\ UNCHANGED <<pinging, closeVars, forceVars, endVars, idle>>
      /\ ~outClosed /\ UNCHANGED outClosed
  <2>1. writing \in Stanzas /\ writing # Close
    BY NotStanzas DEF StanzaWritten
  <2> QED
    BY <2>1, NotStanzas DEF Basics, TypeOK, ConnTypeOK, StanzaWritten, ConnWritten, SendInv
<1>1. /\ SendShape(stack') /\ ~Blames(stack')
      /\ queue = <<>> => queue' = <<>>
      /\ UNCHANGED outcome \/ \E s : Resolve(s, "ok")
  <2>1. "failed" \in Errors
    BY DEF Errors
  <2>2. stack' = stack \/ stack' = <<Frame("send_next")>>
    <3>1. Callout("send") = <<>>
      BY DEF Quietly, Callout
    <3>2. <<>> \o <<Frame("send_next")>> = <<Frame("send_next")>>
      OBVIOUS
    <3> QED
      BY <3>1, <3>2 DEF StanzaWritten
  <2>3. SendShape(stack') /\ ~Blames(stack')
    BY <1>0, <2>1, <2>2, SendLoop DEF AtLoop
  <2> QED
    BY <2>3 DEF StanzaWritten
<1> QED
  BY <1>0, <1>1, NotBusy, SendDone DEF OneAtATime, closeVars, forceVars, endVars

LEMMA StanzaFailedSends ==
  ASSUME Quietly, Basics, SendInv, AtLoop, NEW why \in Errors, StanzaFailed(why),
         writing' \in {writing, None}, UNCHANGED outClosed,
         ~forcedShutdown /\ OneAtATime =>
           /\ writing' = None /\ why # "busy"
           /\ IdleSafe(idle', outClosed)
  PROVE  SendInv'
<1>1. /\ SendShape(stack') /\ (Blames(stack') => why = "busy")
      /\ UNCHANGED <<sendVars, closeVars, forceVars, endVars, outcome>>
  BY SendLoop DEF StanzaFailed
<1> QED
  BY <1>1, SendDone DEF OneAtATime, sendVars, closeVars, forceVars, endVars

LEMMA PingDoneSends ==
  ASSUME Quietly, Basics, SendInv, AtLoop, NEW r \in Errors \cup {"ok"}, PingDone(r),
         writing' \in {writing, None}, UNCHANGED outClosed,
         ~forcedShutdown /\ OneAtATime =>
           /\ writing' = None /\ r # "busy"
           /\ IdleSafe(idle', outClosed)
  PROVE  SendInv'
<1>1. SendShape(stack') /\ (Blames(stack') => r = "busy")
  <2>1. stack' = IF r = "ok" THEN <<Frame("send_next")>>
                             ELSE <<Terminate(r), Frame("close_if_waiting")>>
    BY DEF PingDone, Callout, Quietly
  <2>2. CASE r = "ok"
    <3>1. "failed" \in Errors
      BY DEF Errors
    <3> QED
      BY <2>1, <2>2, <3>1, SendLoop
  <2>3. CASE r # "ok"
    BY <2>1, <2>3, SendLoop
  <2> QED
    BY <2>2, <2>3
<1>2. /\ TypeOK /\ Resolve(pinging, r)
      /\ UNCHANGED <<queue, armed, closeVars, forceVars, endVars>>
  BY DEF PingDone, Basics
<1> QED
  BY <1>1, <1>2, NotBusy, SendDone DEF OneAtATime, closeVars, forceVars, endVars

LEMMA CloseSentSends ==
  ASSUME Quietly, Basics, SendInv, AtLoop, NEW r, CloseSent(r), r # "busy",
         outClosed' => writing' = None,
         ~forcedShutdown /\ OneAtATime =>
           /\ writing = Close /\ writing' = None
           /\ IdleSafe(idle', outClosed')
  PROVE  SendInv'
<1>1. /\ TypeOK /\ localClosed' = TRUE
      /\ UNCHANGED <<sendVars, waiting, forcing, forcedShutdown, stack>>
  BY DEF CloseSent, Basics
<1>2. \A o \in Ops : outcome[o] # "busy" => outcome'[o] # "busy"
  <2>1. UNCHANGED outcome \/ \E x : x # "busy" /\ Resolve(closing, x)
    BY DEF CloseSent, CompleteClose
  <2> QED
    BY <1>1, <2>1, NotBusy
<1>3. ASSUME ~forcedShutdown'
      PROVE  OneAtATime'
  <2>1. /\ OneAtATime /\ writing = Close /\ writing' = None
        /\ IdleSafe(idle', outClosed')
    BY <1>1, <1>3 DEF SendInv
  <2>2. None \notin {Ping, Close} \cup Stanzas
    BY ConnAssumption DEF Outputs
  <2> QED
    BY <1>1, <1>2, <2>1, <2>2, ShapeEmpty DEF OneAtATime, sendVars, AtLoop
<1>4. SendShape(stack')
  BY <1>1 DEF SendInv
<1> QED
  BY <1>1, <1>3, <1>4 DEF SendInv

LEMMA ReceiveEndSends ==
  ASSUME Quietly, Basics, SendInv, AtLoop, NEW why \in Errors, why # "busy",
         NEW rest \in {<<>>, <<Frame("received_rest")>>},
         RemoteConnectionClosed(why, rest) \/ ReceiveEndedForced,
         UNCHANGED <<writing, outClosed>>,
         ~forcedShutdown /\ OneAtATime => IdleSafe(idle', outClosed)
  PROVE  SendInv'
<1>1. /\ SendShape(stack') /\ ~Blames(stack')
      /\ ~Has(stack', "send_next") /\ ~Has(stack', "close_if_waiting")
      /\ ~Has(stack', "terminate") /\ ~Has(stack, "terminate")
  <2>1. \/ stack' = Callout("remote") \o <<RemoteRest(why)>> \o rest
        \/ stack' = <<Frame("force_shutdown")>>
    BY DEF RemoteConnectionClosed, ReceiveEndedForced
  <2>2. ~Has(stack, "terminate")
    BY ShapeEmpty DEF AtLoop
  <2> QED
    BY <2>1, <2>2, SendLoop, LoopStacks
<1>2. /\ UNCHANGED <<sendVars, closeVars, forceVars, localClosed>>
      /\ UNCHANGED outcome \/ outcome' = Aborted(why)
  BY DEF RemoteConnectionClosed, ReceiveEndedForced, AbortPendingIqs, endVars
<1>3. \A o \in Ops : outcome[o] # "busy" => outcome'[o] # "busy"
  BY <1>2 DEF Aborted
<1> QED
  BY <1>1, <1>2, <1>3, SendSame DEF OneAtATime, sendVars, closeVars, forceVars, Closing

LEMMA CallbackSends ==
  ASSUME Quietly, Basics, ArmedInv, SendInv,
         \/ Deliver
         \/ WriteFailed
         \/ \E why \in {"aborted", "failed"} : ReceiveEnded(why)
         \/ ReceiveCancelled
         \/ ReceiveStanza
         \/ \E i \in Iqs : ReceiveReply(i)
         \/ ReceiveStreamError
         \/ StreamTorn
         \/ IdleReply
  PROVE  SendInv'
<1>0. TypeOK /\ "failed" \in Errors /\ "aborted" \in Errors
  BY DEF Basics, Errors
<1>1. CASE PingWritten
  <2>1. AtLoop /\ PingDone("ok") /\ writing' = None /\ UNCHANGED <<outClosed, idle>>
    <3>1. writing # Close
      BY <1>1 DEF PingWritten, Ping, Close
    <3> QED
      BY <1>0, <1>1, <3>1 DEF PingWritten, ConnWritten, TypeOK, ConnTypeOK
  <2> QED
    BY <2>1, PingDoneSends DEF OneAtATime
<1>2. CASE CloseWritten
  <2>1. /\ AtLoop /\ CloseSent("ok") /\ writing = Close /\ writing' = None
        /\ outClosed' /\ UNCHANGED idle
    BY <1>2 DEF CloseWritten, ConnWritten
  <2>2. OneAtATime => IdleSafe(idle', outClosed')
    BY <1>0, <2>1, ConnIdleSafe DEF OneAtATime
  <2> QED
    BY <2>1, <2>2, CloseSentSends
<1>3. CASE WriteFailed
  <2>1. /\ AtLoop /\ writing' = None /\ UNCHANGED <<outClosed, idle>>
        /\ \/ StanzaFailed("failed")
           \/ PingDone("failed")
           \/ writing = Close /\ CloseSent("failed")
    BY <1>3 DEF WriteFailed, ConnWriteFailed
  <2> QED
    BY <1>0, <2>1, StanzaFailedSends, PingDoneSends, CloseSentSends DEF OneAtATime
<1>4. ASSUME NEW why \in {"aborted", "failed"}, ReceiveEnded(why)
      PROVE  SendInv'
  <2>1. /\ AtLoop /\ UNCHANGED <<writing, outClosed, idle>> /\ why \in Errors /\ why # "busy"
        /\ RemoteConnectionClosed(why, <<>>) \/ ReceiveEndedForced
    BY <1>0, <1>4 DEF ReceiveEnded, ConnReceived
  <2> QED
    BY <2>1, ReceiveEndSends DEF OneAtATime
<1>5. CASE ReceiveCancelled
  <2>1. /\ AtLoop /\ UNCHANGED <<writing, outClosed, idle>>
        /\ RemoteConnectionClosed("failed", <<>>) \/ ReceiveEndedForced
    BY <1>5 DEF ReceiveCancelled, ConnReceived
  <2> QED
    BY <1>0, <2>1, ReceiveEndSends DEF OneAtATime
<1>6. CASE ReceiveStreamError
  <2>1. /\ AtLoop /\ UNCHANGED <<writing, outClosed, idle>>
        /\ RemoteConnectionClosed("failed", <<Frame("received_rest")>>)
    BY <1>6 DEF ReceiveStreamError, ConnStanza, ConnReceived
  <2> QED
    BY <1>0, <2>1, ReceiveEndSends DEF OneAtATime
<1>7. CASE ReceiveStanza \/ \E i \in Iqs : ReceiveReply(i)
  <2>1. /\ AtLoop /\ UNCHANGED <<writing, outClosed, idle>>
        /\ UNCHANGED <<sendVars, closeVars, forceVars, endVars>>
        /\ UNCHANGED outcome \/ \E i : Resolve(i, "ok")
    BY <1>7 DEF ReceiveStanza, ReceiveReply, ConnStanza, ConnReceived
  <2>2. SendShape(stack') /\ ~Blames(stack') /\ Free(stack')
    <3>1. CASE ReceiveStanza
      <4>1. stack' = Callout("handler") \o <<Frame("received_rest")>>
        BY <3>1 DEF ReceiveStanza
      <4> QED
        BY <1>0, <4>1, SendLoop, LoopStacks DEF Free, Senders, Enders
    <3>2. ASSUME NEW i \in Iqs, ReceiveReply(i)
          PROVE  SendShape(stack') /\ ~Blames(stack') /\ Free(stack')
      BY <3>2, SendReply DEF ReceiveReply
    <3> QED
      BY <1>7, <3>1, <3>2
  <2>3. ~Has(stack, "terminate")
    BY <2>1, ShapeEmpty DEF AtLoop
  <2> QED
    BY <1>0, <2>1, <2>2, <2>3, NotBusy, SendSame
    DEF OneAtATime, sendVars, closeVars, forceVars, endVars, Closing, Free, Senders, Enders
<1>8. CASE StreamTorn
  <2>1. /\ tearing /\ UNCHANGED <<writing, outClosed, stack, forcedShutdown>>
        /\ localClosed' = TRUE
    BY <1>8 DEF StreamTorn, ConnTorn, ForceCloseDone
  <2>2. forcedShutdown
    BY <2>1 DEF Basics, ShutdownInv
  <2> QED
    BY <2>1, <2>2 DEF SendInv
<1>9. CASE IdleReply
  <2>1. PICK c \in IdleCalls :
          /\ ConnIdle(c)
          /\ \/ c.cb = "stanza" /\ StanzaFailed(c.why)
             \/ c.cb = "ping" /\ PingDone(c.why)
             \/ c.cb = "close" /\ CloseSent(c.why)
             \/ ReceiveEndedForced
             \/ RemoteConnectionClosed("failed", <<>>)
             \/ c.cb = "force"
             \/ /\ c.cb = "iqsent" /\ IqSendFailed(c.op, c.why, <<>>) /\ c.op \in Iqs
                /\ UNCHANGED <<sendVars, closeVars, forceVars, endVars>>
    BY <1>9 DEF IdleReply
  <2>2. /\ c.why \in Errors /\ c.cb # "force" /\ AtLoop /\ UNCHANGED <<writing, outClosed>>
        /\ c.why # "busy" \/ c.cb = "recv" \/ forcedShutdown
    <3>1. c.why \in Errors /\ AtLoop /\ UNCHANGED <<writing, outClosed>>
      BY <1>9, <2>1 DEF IdleCalls, Errors, IdleReply, ConnIdle
    <3>2. c.cb # "force"
      BY <2>1, ConnShutdown DEF Basics
    <3>3. OneAtATime /\ c.why = "busy" => c.cb = "recv"
      BY <1>0, <2>1, ConnIdleSafe DEF OneAtATime
    <3> QED
      BY <3>1, <3>2, <3>3 DEF SendInv
  <2>3. OneAtATime => /\ IdleSafe(idle', outClosed)
                      /\ c.why = "busy" => c.cb = "recv"
                      /\ c.cb \in {"stanza", "ping"} => writing = None
                      /\ c.cb # "close"
    BY <1>0, <2>1, ConnIdleSafe DEF OneAtATime, SendInv
  <2>4. CASE c.cb = "stanza" /\ StanzaFailed(c.why)
    BY <2>2, <2>3, <2>4, StanzaFailedSends
  <2>5. CASE c.cb = "ping" /\ PingDone(c.why)
    BY <2>2, <2>3, <2>5, PingDoneSends
  <2>6. CASE c.cb = "close" /\ CloseSent(c.why)
    <3>1. ~OneAtATime /\ (outClosed' => writing' = None)
      BY <2>2, <2>3, <2>6 DEF SendInv
    <3>2. /\ localClosed' = TRUE /\ UNCHANGED <<forcedShutdown, stack>>
      BY <2>6 DEF CloseSent
    <3> QED
      BY <3>1, <3>2 DEF SendInv
  <2>7. CASE ReceiveEndedForced \/ RemoteConnectionClosed("failed", <<>>)
    BY <1>0, <2>2, <2>3, <2>7, ReceiveEndSends
  <2>8. CASE /\ c.cb = "iqsent" /\ IqSendFailed(c.op, c.why, <<>>) /\ c.op \in Iqs
             /\ UNCHANGED <<sendVars, closeVars, forceVars, endVars>>
    <3>1. /\ SendShape(stack') /\ (Blames(stack') <=> Blames(<<>>))
          /\ \A fn \in Senders : Has(stack', fn) <=> Has(<<>>, fn)
          /\ UNCHANGED outcome \/ Resolve(c.op, c.why)
      <4>1. <<>> \in Seq(Frames) /\ SendShape(<<>>)
        BY OneFrame DEF SendShape
      <4> QED
        BY <2>8, <4>1, SendIqFailed, IqSendFailedStack DEF Senders, Enders
    <3>2. ~Blames(<<>>) /\ stack = <<>> /\ \A fn : ~Has(<<>>, fn)
      BY <2>2, ShapeEmpty DEF Blames, AtLoop
    <3> QED
      BY <1>0, <2>2, <2>3, <2>8, <3>1, <3>2, NotBusy, SendSame
      DEF OneAtATime, sendVars, closeVars, forceVars, endVars, Closing, Senders, Enders
  <2> QED
    BY <2>1, <2>2, <2>4, <2>5, <2>6, <2>7, <2>8
<1> QED
  BY <1>1, <1>2, <1>3, <1>4, <1>5, <1>6, <1>7, <1>8, <1>9, StanzaWrittenSends DEF Deliver

LEMMA SendInvStep ==
  ASSUME Quietly
  PROVE  Basics /\ ArmedInv /\ SendInv /\ [Next]_vars => SendInv'
<1> SUFFICES ASSUME Basics, ArmedInv, SendInv, [Next]_vars
             PROVE  SendInv'
  OBVIOUS
<1>1. CASE Next
  BY <1>1, CallSends, RunSends, CallbackSends DEF Next
<1>2. CASE UNCHANGED vars
  BY <1>2 DEF vars, sendVars, closeVars, forceVars, endVars, connVars, SendInv, OneAtATime,
              Closing
<1> QED
  BY <1>1, <1>2

LEMMA SendInvInit == Init => SendInv
<1> SUFFICES ASSUME Init
             PROVE  SendInv
  OBVIOUS
<1>1. None \notin {Ping, Close} \cup Stanzas
  BY ConnAssumption DEF Outputs
<1>2. SendShape(stack) /\ ~Blames(stack) /\ IdleSafe(idle, outClosed)
  BY DEF Init, ConnInit, SendShape, Blames, IdleSafe
<1> QED
  BY <1>1, <1>2, ShapeEmpty DEF Init, ConnInit, SendInv, OneAtATime

(* Nothing is started over what is still going on: no call is answered     *)
(* "Another send operation is pending", send_cancelled_cb finds its stanza *)
(* waiting in the queue, close_async finds its fields free, and our        *)
(* </stream> leaves after everything else.                                 *)
THEOREM NothingIsStartedOver ==
  ASSUME Quietly
  PROVE  Spec => []NothingOverlaps
<1>1. Init => EndInv /\ ArmedInv /\ SendInv
  BY EndInvInit, ArmedInvInit, SendInvInit
<1>2. Basics /\ EndInv /\ ArmedInv /\ SendInv /\ [Next]_vars => EndInv' /\ ArmedInv' /\ SendInv'
  BY EndInvStep, ArmedInvStep, SendInvStep
<1>3. Basics /\ EndInv /\ ArmedInv /\ SendInv => NothingOverlaps
  BY EndInvMeans, ArmedInvMeans
  DEF Basics, SendInv, OneAtATime, NothingOverlaps, NoBusyReply, CloseFlushes
<1> QED
  BY <1>1, <1>2, <1>3, BasicsHold, PTL DEF Spec

-----------------------------------------------------------------------------
(* The send path implements OrderedSending.  What may still leave is the   *)
(* queue, after the stanza that a force close took out of it while it was  *)
(* being written; the caller of that one has been told of the force close. *)

TransitInv ==
  ~forcedShutdown /\ writing \in Stanzas \ Iqs /\ ~Queued(queue, writing)
    => outcome[writing] \notin Open \cup {"ok"}

ToldSame == \A x \in Stanzas \ Iqs : outcome'[x] = outcome[x]

LEMMA SameTold ==
  ASSUME ToldSame
  PROVE  [s \in Stanzas \ Iqs |-> Told(s)]' = [s \in Stanzas \ Iqs |-> Told(s)]
<1>1. \A s \in Stanzas \ Iqs : Told(s)' = Told(s)
  BY DEF ToldSame, Told
<1> QED
  BY <1>1

LEMMA TellsError ==
  ASSUME NEW s, \A x \in Stanzas \ Iqs : x # s => outcome'[x] = outcome[x],
         s \in Stanzas \ Iqs =>
           \/ outcome[s] \in Open /\ outcome'[s] \notin Open \cup {"ok"}
           \/ outcome[s] \notin Open /\ outcome'[s] = outcome[s]
  PROVE  Promise!Tell(s, "error")
<1>1. \A x \in Stanzas \ Iqs :
        Told(x)' = IF x = s /\ Told(x) = "nothing" THEN "error" ELSE Told(x)
  BY DEF Told, Open
<1> QED
  BY <1>1 DEF Promise!Tell

LEMMA TellsOk ==
  ASSUME NEW s, \A x \in Stanzas \ Iqs : x # s => outcome'[x] = outcome[x],
         s \in Stanzas \ Iqs =>
           \/ outcome[s] \in Open /\ outcome'[s] = "ok"
           \/ outcome[s] \notin Open /\ outcome'[s] = outcome[s]
  PROVE  Promise!Tell(s, "ok")
<1>1. \A x \in Stanzas \ Iqs :
        Told(x)' = IF x = s /\ Told(x) = "nothing" THEN "ok" ELSE Told(x)
  BY DEF Told, Open
<1> QED
  BY <1>1 DEF Promise!Tell

(* A step of the porter that is none of the send path's *)
PromiseStep == forcedShutdown \/ Promise!Shut \/ (Promise!Next /\ UNCHANGED forcedShutdown)
                 \/ UNCHANGED Promise!vars

LEMMA StutterStep ==
  ASSUME UNCHANGED <<queue, wire>>, ToldSame, forcedShutdown' \in BOOLEAN,
         forcedShutdown \in BOOLEAN,
         UNCHANGED writing \/ (writing \notin Stanzas /\ writing' \notin Stanzas)
  PROVE  PromiseStep
<1>1. InTransit' = InTransit
  BY DEF InTransit
<1>2. [s \in Stanzas \ Iqs |-> Told(s)]' = [s \in Stanzas \ Iqs |-> Told(s)]
  BY SameTold
<1>3. UNCHANGED forcedShutdown => UNCHANGED Promise!vars
  BY <1>1, <1>2 DEF Promise!vars
<1>4. forcedShutdown' => Promise!Shut
  BY <1>1, <1>2 DEF Promise!Shut
<1> QED
  BY <1>3, <1>4 DEF PromiseStep

(* The stanza in transit stays reported. *)
LEMMA TransitSame ==
  ASSUME TransitInv, AnswersKept, forcedShutdown => forcedShutdown',
         ~forcedShutdown /\ writing' \in Stanzas =>
           \/ writing' = writing /\ (Queued(queue, writing) => Queued(queue', writing))
           \/ Queued(queue', writing')
  PROVE  TransitInv'
<1> SUFFICES ASSUME ~forcedShutdown', writing' \in Stanzas \ Iqs, ~Queued(queue', writing')
             PROVE  outcome'[writing'] \notin Open \cup {"ok"}
  BY DEF TransitInv
<1>1. writing' = writing /\ ~Queued(queue, writing)
  OBVIOUS
<1>2. outcome[writing] \notin Open \cup {"ok"} /\ writing \in Ops
  BY <1>1, OpsDistinct DEF TransitInv
<1> QED
  BY <1>1, <1>2 DEF AnswersKept

(* A step that is none of the send path's *)
LEMMA OtherStep ==
  ASSUME TypeOK, TransitInv, AnswersKept, forcedShutdown' \in BOOLEAN,
         forcedShutdown => forcedShutdown',
         UNCHANGED <<queue, wire>>, ToldSame,
         UNCHANGED writing \/ (writing \notin Stanzas /\ writing' \notin Stanzas)
  PROVE  PromiseStep /\ TransitInv'
BY StutterStep, TransitSame DEF TypeOK

LEMMA OtherCall ==
  ASSUME TypeOK, NEW x, x \notin Stanzas \ Iqs, NEW r, Resolve(x, r)
  PROVE  ToldSame
BY OpsDistinct DEF TypeOK, Resolve, ToldSame

LEMMA AbortTold ==
  ASSUME NEW why, outcome' = Aborted(why), TypeOK
  PROVE  ToldSame
BY OpsDistinct DEF Aborted, PendingIqs, ToldSame, TypeOK

(* What is in transit, while the promise binds *)
LEMMA Transit ==
  ASSUME TypeOK, OneAtATime
  PROVE  /\ InTransit \in Seq(Stanzas) /\ queue \in Seq(Stanzas)
         /\ forcing = None \/ writing \notin Stanzas \/ Queued(queue, writing) => InTransit = <<>>
         /\ writing \in Stanzas /\ ~Queued(queue, writing) => InTransit = <<writing>>
         /\ writing \in Stanzas /\ Queued(queue, writing) => Head(queue) = writing /\ queue # <<>>
<1>1. queue \in Seq(Stanzas)
  BY DEF TypeOK
<1>2. queue # <<>> => Queued(queue, Head(queue))
  <2>1. queue # <<>> => 1 \in DOMAIN queue /\ Head(queue) = queue[1]
    BY <1>1
  <2> QED
    BY <2>1 DEF Queued
<1>3. queue = <<>> => ~Queued(queue, writing)
  BY DEF Queued
<1> QED
  BY <1>1, <1>2, <1>3 DEF OneAtATime, InTransit

LEMMA EnqueuePromise ==
  ASSUME Quietly, Basics, ArmedInv, SendInv, SendInv', TransitInv, AnswersKept,
         TypeOK', NEW s \in Stanzas, Enqueue(s)
  PROVE  PromiseStep /\ TransitInv'
<1>0. /\ TypeOK /\ queue \in Seq(Stanzas) /\ outcome[s] = "new" /\ UNCHANGED forcedShutdown
      /\ QueuePending(queue, outcome) /\ s \in Ops /\ UNCHANGED forcing
  BY OpsDistinct DEF Basics, TypeOK, CallsPending, Enqueue, forceVars
<1>1. CASE Closing
  <2>1. UNCHANGED <<queue, connVars>> /\ Resolve(s, "refused")
    BY <1>1 DEF Enqueue
  <2>2. Promise!Tell(s, "error")
    BY <1>0, <2>1, OpsDistinct, TellsError DEF Resolve, TypeOK, Open
  <2>3. UNCHANGED <<InTransit, queue, wire>>
    BY <2>1 DEF InTransit, connVars
  <2>4. Promise!GiveUp(s)
    BY <1>0, <2>2, <2>3 DEF Promise!GiveUp, Told, Open
  <2>5. TransitInv'
    BY <1>0, <2>1, TransitSame DEF connVars
  <2> QED
    BY <1>0, <2>4, <2>5 DEF PromiseStep, Promise!Next
<1>2. CASE ~Closing
  <2>1. /\ queue' = Append(queue, s) /\ Resolve(s, "pending") /\ UNCHANGED wire
        /\ writing' \in {writing, s}
    BY <1>2, ConnWrites DEF Enqueue, PushTail, SendHead, connVars
  <2>2. \A x : Queued(queue', x) <=> Queued(queue, x) \/ x = s
    BY <1>0, <2>1, QueuedAppend
  <2>3. TransitInv'
    BY <1>0, <2>1, <2>2, TransitSame
  <2>4. ASSUME ~forcedShutdown
        PROVE  Promise!Accept(s)
    <3>1. forcing = None /\ OneAtATime /\ OneAtATime'
      BY <1>0, <1>2, <2>4 DEF Closing, SendInv
    <3>2. InTransit = <<>>
      BY <1>0, <3>1, Transit
    <3>3. InTransit' = <<>>
      BY <1>0, <3>1 DEF OneAtATime, InTransit
    <3>4. InTransit \o queue = queue /\ (InTransit \o queue)' = Append(InTransit \o queue, s)
      BY <1>0, <2>1, <3>2, <3>3
    <3>5. \A n \in DOMAIN queue : queue[n] # s
      BY <1>0 DEF QueuePending
    <3>6. \A n \in DOMAIN wire : wire[n] # s
      BY <1>0 DEF ArmedInv
    <3>7. [x \in Stanzas \ Iqs |-> Told(x)]' = [x \in Stanzas \ Iqs |-> Told(x)]
      <4>1. \A x \in Stanzas \ Iqs : Told(x)' = Told(x)
        BY <1>0, <2>1, OpsDistinct DEF Told, Resolve, TypeOK, Open
      <4> QED
        BY <4>1
    <3> QED
      BY <2>1, <3>4, <3>5, <3>6, <3>7 DEF Promise!Accept
  <2> QED
    BY <1>0, <2>3, <2>4 DEF PromiseStep, Promise!Next, TypeOK
<1> QED
  BY <1>1, <1>2

LEMMA CancelPromise ==
  ASSUME Quietly, Basics, ArmedInv, SendInv, SendInv', TransitInv, AnswersKept,
         NEW s \in Stanzas, Cancel(s)
  PROVE  PromiseStep /\ TransitInv'
<1>0. /\ TypeOK /\ queue \in Seq(Stanzas) /\ outcome[s] = "pending"
      /\ UNCHANGED <<forcedShutdown, forcing, wire, writing>> /\ Resolve(s, "cancelled")
      /\ QueuePending(queue, outcome) /\ Free(stack) /\ forcedShutdown \in BOOLEAN
      /\ forcedShutdown' \in BOOLEAN
  BY CallerFree DEF Basics, TypeOK, CallsPending, Cancel, forceVars, SendInv
<1>1. CASE s \notin armed
  <2>1. UNCHANGED queue /\ s \in Iqs
    BY <1>1 DEF Cancel
  <2> QED
    BY <1>0, <2>1, OtherCall, OtherStep
<1>2. CASE s \in armed
  <2>1. PICK n \in DOMAIN queue : queue[n] = s /\ queue' = RemoveAt(queue, n)
    BY <1>2 DEF Cancel
  <2>2. /\ \A x : Queued(queue', x) <=> Queued(queue, x) /\ x # s
        /\ s # writing
    BY <1>0, <1>2, <2>1, QueuedRemove DEF ArmedInv
  <2>3. TransitInv'
    BY <1>0, <2>2, TransitSame
  <2>4. ASSUME ~forcedShutdown
        PROVE  Promise!GiveUp(s)
    <3>1. OneAtATime /\ OneAtATime'
      BY <1>0, <2>4 DEF SendInv
    <3>2. forcing = None
      <4>1. queue # <<>> /\ ~Has(stack, "terminate")
        BY <1>0, <2>1 DEF Free, Senders
      <4> QED
        BY <3>1, <4>1 DEF OneAtATime
    <3>3. InTransit = <<>>
      BY <1>0, <3>1, <3>2, Transit
    <3>4. InTransit' = <<>>
      BY <1>0, <3>1, <3>2 DEF OneAtATime, InTransit
    <3>5. /\ InTransit \o queue = queue /\ (InTransit \o queue)' = queue'
      <4>1. queue' \in Seq(Stanzas)
        BY <1>0, <2>1, RemoveAtType
      <4> QED
        BY <1>0, <3>3, <3>4, <4>1
    <3>6. queue' = SubSeq(queue, 1, n - 1) \o SubSeq(queue, n + 1, Len(queue))
      BY <2>1 DEF RemoveAt
    <3>7. Promise!Tell(s, "error")
      BY <1>0, OpsDistinct, TellsError DEF Resolve, TypeOK, Open
    <3>8. Promise!Drop(n)
      BY <3>5, <3>6 DEF Promise!Drop
    <3> QED
      BY <1>0, <2>1, <3>5, <3>7, <3>8 DEF Promise!GiveUp, Told, Open
  <2> QED
    BY <1>0, <2>3, <2>4 DEF PromiseStep, Promise!Next
<1> QED
  BY <1>1, <1>2

LEMMA TerminatePromise ==
  ASSUME Quietly, Basics, ArmedInv, SendInv, TransitInv, AnswersKept, TerminateStep
  PROVE  PromiseStep /\ TransitInv'
<1>0. /\ TypeOK /\ queue \in Seq(Stanzas) /\ Has(stack, "terminate")
      /\ UNCHANGED <<forcedShutdown, forcing, wire, writing>>
      /\ QueuePending(queue, outcome) /\ Head(stack).why \in Errors
      /\ forcedShutdown \in BOOLEAN /\ forcedShutdown' \in BOOLEAN
  BY HasTail, TopFrame DEF Basics, TypeOK, CallsPending, TerminateStep, Running, forceVars, connVars
<1>1. CASE queue = <<>>
  BY <1>0, <1>1, OtherStep DEF TerminateStep, ToldSame
<1>2. CASE queue # <<>>
  <2> DEFINE s == Head(queue)
  <2>1. /\ s \in Stanzas /\ queue' = Tail(queue) /\ queue' \in Seq(Stanzas)
        /\ s \notin Iqs => outcome[s] = "pending"
        /\ queue[1] = s /\ 1 \in DOMAIN queue
    BY <1>0, <1>2 DEF TerminateStep, QueuePending
  <2>2. \A x : Queued(queue', x) <=> Queued(queue, x) /\ x # s
    BY <1>0, <1>2, <2>1, QueuedTail
  <2>3. /\ \A x \in Stanzas \ Iqs : x # s => outcome'[x] = outcome[x]
        /\ s \in Stanzas \ Iqs => outcome'[s] \notin Open \cup {"ok"}
    <3>1. CASE s \in Iqs
      <4>1. IqSendFailed(s, Head(stack).why, stack)
        BY <1>2, <3>1 DEF TerminateStep
      <4>2. UNCHANGED outcome \/ Resolve(s, Head(stack).why)
        BY <4>1 DEF IqSendFailed
      <4> QED
        BY <1>0, <3>1, <4>2, OpsDistinct DEF Resolve, TypeOK
    <3>2. CASE s \notin Iqs
      <4>1. Resolve(s, Head(stack).why)
        BY <1>2, <3>2 DEF TerminateStep
      <4>2. Head(stack).why \notin Open \cup {"ok"}
        BY <1>0 DEF Open, Errors
      <4> QED
        BY <1>0, <2>1, <4>1, <4>2, OpsDistinct DEF Resolve, TypeOK
    <3> QED
      BY <3>1, <3>2
  <2> HIDE DEF s
  <2>4. TransitInv'
    <3>1. CASE writing # s
      BY <1>0, <2>2, <3>1, TransitSame
    <3>2. CASE writing = s
      BY <1>0, <2>1, <2>3, <3>2 DEF TransitInv
    <3> QED
      BY <3>1, <3>2
  <2>5. ASSUME ~forcedShutdown
        PROVE  Promise!GiveUp(s)
    <3>1. OneAtATime
      BY <2>5 DEF SendInv
    <3>2. Promise!Tell(s, "error")
      BY <2>1, <2>3, TellsError DEF Open
    <3>3. UNCHANGED (InTransit \o queue) \/ \E n \in DOMAIN (InTransit \o queue) :
            (InTransit \o queue)[n] = s /\ Promise!Drop(n)
      <4>1. CASE writing \in Stanzas /\ writing = s
        <5>1. InTransit = <<>>
          BY <1>0, <2>1, <2>2, <3>1, <4>1, Transit DEF s, InTransit
        <5>2. ~Queued(queue', s)
          BY <2>2
        <5>3. queue' # <<>> => Head(queue') # s
          <6>1. queue' # <<>> => 1 \in DOMAIN queue' /\ Head(queue') = queue'[1]
            BY <2>1
          <6> QED
            BY <5>2, <6>1 DEF Queued
        <5>4. InTransit' = <<s>>
          BY <1>0, <4>1, <5>3 DEF InTransit
        <5>5. <<s>> \o Tail(queue) = <<>> \o queue
          BY <1>0, <1>2 DEF s
        <5> QED
          BY <2>1, <5>1, <5>4, <5>5
      <4>2. CASE writing \in Stanzas /\ writing # s
        <5>1. ~Queued(queue, writing)
          BY <1>0, <2>1, <3>1, <4>2, Transit DEF s
        <5>2. InTransit = <<writing>>
          BY <1>0, <3>1, <4>2, <5>1, Transit
        <5>3. queue' # <<>> => Head(queue') # writing
          <6>1. queue' # <<>> => 1 \in DOMAIN queue' /\ Head(queue') = queue'[1]
            BY <2>1
          <6> QED
            BY <2>2, <5>1, <6>1 DEF Queued
        <5>4. InTransit' = <<writing>>
          BY <1>0, <4>2, <5>3 DEF InTransit
        <5> DEFINE todo == <<writing>> \o queue
        <5>5. /\ 2 \in DOMAIN todo /\ todo[2] = s
              /\ <<writing>> \o Tail(queue)
                   = SubSeq(todo, 1, 2 - 1) \o SubSeq(todo, 2 + 1, Len(todo))
          BY <1>0, <1>2, <2>1, <4>2
        <5>6. Promise!Drop(2)
          BY <2>1, <5>2, <5>4, <5>5 DEF Promise!Drop
        <5> QED
          BY <5>2, <5>5, <5>6
      <4>3. CASE writing \notin Stanzas
        <5>1. InTransit = <<>> /\ InTransit' = <<>>
          BY <1>0, <4>3 DEF InTransit
        <5>2. /\ <<>> \o queue = queue /\ <<>> \o queue' = queue'
              /\ Tail(queue) = SubSeq(queue, 1, 1 - 1) \o SubSeq(queue, 1 + 1, Len(queue))
          BY <1>0, <1>2, <2>1
        <5>3. Promise!Drop(1)
          BY <2>1, <5>1, <5>2 DEF Promise!Drop
        <5> QED
          BY <2>1, <5>1, <5>2, <5>3
      <4> QED
        BY <4>1, <4>2, <4>3
    <3> QED
      BY <1>0, <2>1, <3>2, <3>3 DEF Promise!GiveUp, Told, Open
  <2> QED
    BY <1>0, <2>1, <2>4, <2>5 DEF PromiseStep, Promise!Next
<1> QED
  BY <1>1, <1>2

LEMMA NextPromise ==
  ASSUME Quietly, Basics, ArmedInv, SendInv, SendInv', TransitInv, AnswersKept,
         forcedShutdown' \in BOOLEAN, SendNext \/ CloseIfWaitingStep
  PROVE  PromiseStep /\ TransitInv'
<1>0. /\ TypeOK /\ queue \in Seq(Stanzas)
      /\ UNCHANGED <<queue, forcing, forcedShutdown, outcome, wire>>
      /\ Has(stack, "send_next") \/ Has(stack, "close_if_waiting")
  <2>1. /\ UNCHANGED <<queue, forcing, forcedShutdown, outcome>> /\ TypeOK
        /\ queue \in Seq(Stanzas) /\ stack # <<>> /\ stack \in Seq(Frames)
        /\ Head(stack).fn \in Enders
    BY DEF SendNext, CloseIfWaitingStep, Basics, TypeOK, forceVars, sendVars, Running, Enders
  <2>2. UNCHANGED wire
    BY ConnWrites DEF SendNext, CloseIfWaitingStep, SendHead
  <2> QED
    BY <2>1, <2>2, HasTail DEF Enders
<1>1. writing' \in {writing, Close} \/ (queue # <<>> /\ writing' = Head(queue))
  BY ConnWrites DEF SendNext, CloseIfWaitingStep, SendHead
<1>2. queue # <<>> => Queued(queue, Head(queue))
  <2>1. queue # <<>> => 1 \in DOMAIN queue /\ Head(queue) = queue[1]
    BY <1>0
  <2> QED
    BY <2>1 DEF Queued
<1>3. TransitInv'
  BY <1>0, <1>1, <1>2, TransitSame, NotStanzas
<1>4. ASSUME ~forcedShutdown
      PROVE  UNCHANGED Promise!vars
  <2>1. writing = None /\ writing \notin Stanzas
    BY <1>0, <1>4, NotStanzas DEF SendInv, OneAtATime
  <2>2. InTransit = <<>> /\ InTransit' = <<>>
    BY <1>0, <1>1, <2>1, NotStanzas DEF InTransit
  <2>3. [s \in Stanzas \ Iqs |-> Told(s)]' = [s \in Stanzas \ Iqs |-> Told(s)]
    BY <1>0, SameTold DEF ToldSame
  <2> QED
    BY <1>0, <2>2, <2>3 DEF Promise!vars
<1> QED
  BY <1>3, <1>4 DEF PromiseStep

LEMMA WrittenPromise ==
  ASSUME Quietly, Basics, ArmedInv, SendInv, TransitInv, AnswersKept, StanzaWritten
  PROVE  PromiseStep /\ TransitInv'
<1>0. /\ TypeOK /\ queue \in Seq(Stanzas) /\ writing \in Stanzas /\ writing' = None
      /\ wire' = Append(wire, writing) /\ UNCHANGED <<forcedShutdown, forcing>>
      /\ QueuePending(queue, outcome) /\ AtLoop /\ forcedShutdown \in BOOLEAN
      /\ forcedShutdown' = forcedShutdown /\ None \notin Stanzas
  BY ConnWrites, NotStanzas DEF Basics, TypeOK, CallsPending, StanzaWritten, forceVars
<1>1. TransitInv'
  BY <1>0, TransitSame
<1>2. ASSUME ~forcedShutdown
      PROVE  Promise!Transmit
  <2>1. OneAtATime
    BY <1>2 DEF SendInv
  <2>2. InTransit' = <<>>
    BY <1>0 DEF InTransit
  <2>3. CASE queue = <<>>
    <3>1. InTransit = <<writing>>
      BY <1>0, <2>3 DEF InTransit
    <3>2. UNCHANGED <<queue, outcome>>
      BY <2>3 DEF StanzaWritten
    <3>3. ~Queued(queue, writing)
      BY <2>3 DEF Queued
    <3>4. Promise!Tell(writing, "ok")
      BY <1>0, <1>2, <3>2, <3>3, TellsOk DEF TransitInv
    <3>5. /\ <<writing>> \o <<>> # <<>> /\ Head(<<writing>> \o <<>>) = writing
          /\ Tail(<<writing>> \o <<>>) = <<>> \o <<>>
      OBVIOUS
    <3> QED
      BY <1>0, <2>2, <2>3, <3>1, <3>2, <3>4, <3>5 DEF Promise!Transmit
  <2>4. CASE queue # <<>>
    <3>1. forcing = None
      BY <1>0, <2>1, <2>4, ShapeEmpty DEF OneAtATime, AtLoop
    <3>2. Head(queue) = writing /\ InTransit = <<>>
      BY <1>0, <2>1, <2>4, <3>1 DEF OneAtATime, InTransit
    <3>3. /\ queue' = Tail(queue)
          /\ IF writing \in Iqs THEN UNCHANGED outcome ELSE Resolve(writing, "ok")
      BY <2>4, <3>2 DEF StanzaWritten
    <3>4. writing \notin Iqs => outcome[writing] = "pending"
      <4>1. 1 \in DOMAIN queue /\ Head(queue) = queue[1]
        BY <1>0, <2>4
      <4> QED
        BY <1>0, <3>2, <4>1 DEF QueuePending
    <3>5. Promise!Tell(writing, "ok")
      <4>1. CASE writing \in Iqs
        BY <3>3, <4>1, TellsOk
      <4>2. CASE writing \notin Iqs
        <5>1. Resolve(writing, "ok") /\ outcome[writing] = "pending"
          BY <3>3, <3>4, <4>2
        <5> QED
          BY <1>0, <5>1, OpsDistinct, TellsOk DEF Resolve, TypeOK, Open
      <4> QED
        BY <4>1, <4>2
    <3>6. <<>> \o queue = queue /\ <<>> \o Tail(queue) = Tail(queue)
      BY <1>0, <2>4
    <3> QED
      BY <1>0, <2>2, <2>4, <3>2, <3>3, <3>5, <3>6 DEF Promise!Transmit
  <2> QED
    BY <2>3, <2>4
<1> QED
  BY <1>0, <1>1, <1>2 DEF PromiseStep, Promise!Next

LEMMA WriteFailedPromise ==
  ASSUME Quietly, Basics, ArmedInv, SendInv, TransitInv, AnswersKept,
         WriteFailed, writing \in Stanzas
  PROVE  PromiseStep /\ TransitInv'
<1>0. /\ TypeOK /\ queue \in Seq(Stanzas) /\ writing' = None /\ AtLoop
      /\ UNCHANGED <<queue, wire, outcome, forcing, forcedShutdown>>
      /\ forcedShutdown \in BOOLEAN /\ None \notin Stanzas
  <2>1. StanzaFailed("failed") /\ ConnWriteFailed /\ AtLoop
    BY NotStanzas DEF WriteFailed
  <2> QED
    BY <2>1, ConnWrites, NotStanzas DEF Basics, TypeOK, StanzaFailed, forceVars, sendVars
<1>1. TransitInv'
  BY <1>0, TransitSame
<1>2. ASSUME ~forcedShutdown
      PROVE  Promise!GiveUp(writing) \/ UNCHANGED Promise!vars
  <2>1. OneAtATime
    BY <1>2 DEF SendInv
  <2>2. InTransit' = <<>>
    BY <1>0 DEF InTransit
  <2>3. [s \in Stanzas \ Iqs |-> Told(s)]' = [s \in Stanzas \ Iqs |-> Told(s)]
    BY <1>0, SameTold DEF ToldSame
  <2>4. CASE Queued(queue, writing)
    <3>1. InTransit = <<>>
      BY <1>0, <2>1, <2>4, Transit
    <3> QED
      BY <1>0, <2>2, <2>3, <3>1 DEF Promise!vars
  <2>5. CASE ~Queued(queue, writing)
    <3>1. InTransit = <<writing>> /\ forcing # None
      <4>1. InTransit = <<writing>>
        BY <1>0, <2>1, <2>5, Transit
      <4> QED
        BY <1>0, <2>1, <4>1, Transit
    <3>2. queue = <<>>
      BY <1>0, <2>1, <3>1, ShapeEmpty DEF OneAtATime, AtLoop
    <3>3. writing \in Stanzas \ Iqs => outcome[writing] \notin Open \cup {"ok"}
      BY <1>2, <2>5 DEF TransitInv
    <3>4. Promise!Tell(writing, "error")
      BY <1>0, <3>3, TellsError
    <3>5. LET todo == <<writing>> \o <<>> IN
            /\ 1 \in DOMAIN todo /\ todo[1] = writing
            /\ <<>> \o <<>> = SubSeq(todo, 1, 1 - 1) \o SubSeq(todo, 1 + 1, Len(todo))
      OBVIOUS
    <3>6. Promise!Drop(1)
      BY <1>0, <2>2, <3>1, <3>2, <3>5 DEF Promise!Drop
    <3>7. 1 \in DOMAIN (InTransit \o queue) /\ (InTransit \o queue)[1] = writing
      BY <3>1, <3>2, <3>5
    <3>8. writing \in Stanzas \ Iqs => Told(writing) # "ok"
      BY <3>3 DEF Told
    <3> QED
      BY <1>0, <3>4, <3>6, <3>7, <3>8 DEF Promise!GiveUp
  <2> QED
    BY <2>4, <2>5
<1> QED
  BY <1>0, <1>1, <1>2 DEF PromiseStep, Promise!Next

(* Every other step leaves the queue and the stanza in transit alone. *)
Aside ==
  /\ UNCHANGED <<queue, wire>> /\ ToldSame
  /\ forcedShutdown => forcedShutdown'
  /\ UNCHANGED writing \/ (writing \notin Stanzas /\ writing' \notin Stanzas)

LEMMA ConnAside ==
  /\ \A x : ConnSend(x) /\ x \notin Stanzas
       => UNCHANGED writing \/ (writing \notin Stanzas /\ writing' \notin Stanzas)
  /\ ConnWritten \/ ConnWriteFailed => (writing \notin Stanzas => writing' \notin Stanzas)
BY NotStanzas DEF ConnSend, ConnWritten, ConnWriteFailed

LEMMA CompleteCloseTold ==
  ASSUME TypeOK, NEW why, CompleteClose(why)
  PROVE  ToldSame
<1>1. closing \notin Stanzas
  BY OpsDistinct DEF TypeOK
<1> QED
  BY <1>1, OtherCall DEF CompleteClose

LEMMA CallAside ==
  ASSUME TypeOK,
         \/ \E p \in Pings : SendPing(p)
         \/ Start
         \/ \E o \in CloseOps, c \in BOOLEAN : CloseAsync(o, c)
         \/ CancelClose
         \/ \E o \in ForceOps, c \in BOOLEAN : ForceCloseAsync(o, c)
         \/ Return
  PROVE  Aside
<1>1. ASSUME NEW p \in Pings, SendPing(p)
      PROVE  Aside
  <2>1. UNCHANGED <<queue, forcedShutdown>> /\ \E r : Resolve(p, r)
    BY <1>1 DEF SendPing, forceVars
  <2>2. UNCHANGED connVars \/ ConnSend(Ping)
    BY <1>1 DEF SendPing
  <2>3. UNCHANGED wire
    BY <2>2, ConnWrites DEF connVars
  <2>4. ToldSame
    BY <2>1, OtherCall, OpsDistinct
  <2> QED
    BY <2>1, <2>2, <2>3, <2>4, ConnAside, NotStanzas DEF Aside, connVars
<1>2. ASSUME NEW o \in CloseOps, NEW c \in BOOLEAN, CloseAsync(o, c)
      PROVE  Aside
  <2>1. UNCHANGED <<queue, forcedShutdown>> /\ \E r : Resolve(o, r)
    BY <1>2 DEF CloseAsync, forceVars, sendVars
  <2>2. UNCHANGED connVars \/ ConnSend(Close)
    BY <1>2 DEF CloseAsync
  <2>3. UNCHANGED wire
    BY <2>2, ConnWrites DEF connVars
  <2>4. ToldSame
    BY <2>1, OtherCall, OpsDistinct
  <2> QED
    BY <2>1, <2>2, <2>3, <2>4, ConnAside, NotStanzas DEF Aside, connVars
<1>3. ASSUME NEW o \in ForceOps, NEW c \in BOOLEAN, ForceCloseAsync(o, c)
      PROVE  Aside
  <2>1. UNCHANGED <<queue, forcedShutdown, wire, writing>>
    BY <1>3 DEF ForceCloseAsync, sendVars, connVars
  <2>2. \A x \in Stanzas : x \in Ops /\ x # o /\ x # closing
    BY OpsDistinct DEF TypeOK
  <2>3. ToldSame
    <3>1. CASE Resolve(o, "refused")
      BY <3>1, OtherCall, OpsDistinct
    <3>2. CASE outcome' = [x \in Ops |-> IF x = o THEN "pending"
                                         ELSE IF x = closing THEN "forced"
                                         ELSE outcome[x]]
      BY <2>2, <3>2 DEF ToldSame
    <3> QED
      BY <1>3, <3>1, <3>2 DEF ForceCloseAsync
  <2> QED
    BY <2>1, <2>3 DEF Aside
<1>4. CASE Start \/ CancelClose \/ Return
  <2>1. UNCHANGED <<writing, wire>>
    BY <1>4, ConnWrites DEF Start, CancelClose, Return, connVars
  <2> QED
    BY <1>4, <2>1 DEF Start, CancelClose, Return, Aside, ToldSame, sendVars, forceVars
<1> QED
  BY <1>1, <1>2, <1>3, <1>4

LEMMA RunAside ==
  ASSUME Basics, Run, ~TerminateStep, ~SendNext, ~CloseIfWaitingStep
  PROVE  Aside
<1>0. TypeOK
  BY DEF Basics
<1>1. CASE MaybeRemoveStep \/ ReceiveDone
  BY <1>1 DEF MaybeRemoveStep, ReceiveDone, Aside, ToldSame, sendVars, forceVars, connVars
<1>2. CASE ForceCloseRest
  <2>1. Has(stack, "force_close_rest")
    BY <1>0, <1>2, HasTail DEF ForceCloseRest, Running, TypeOK
  <2>2. ~forcedShutdown
    BY <2>1 DEF Basics, ShutdownInv
  <2>3. outcome' = Aborted("forced") /\ UNCHANGED <<queue, writing, wire>>
    BY <1>2, <2>2, ConnWrites DEF ForceCloseRest, sendVars, connVars
  <2> QED
    BY <1>0, <2>2, <2>3, AbortTold DEF Aside
<1>3. CASE RemoteClosedRest
  <2>1. UNCHANGED <<queue, forcedShutdown, writing, wire>>
    BY <1>3 DEF RemoteClosedRest, sendVars, connVars
  <2>2. ToldSame
    BY <1>0, <1>3, CompleteCloseTold DEF RemoteClosedRest, ToldSame
  <2> QED
    BY <2>1, <2>2 DEF Aside
<1>4. CASE ReceivedRest \/ ForceShutdownStep
  <2>1. UNCHANGED <<queue, outcome, writing, wire>>
    BY <1>4, ConnWrites DEF ReceivedRest, ForceShutdownStep, sendVars, connVars
  <2>2. forcedShutdown => forcedShutdown'
    BY <1>4 DEF ReceivedRest, ForceShutdownStep, ForceShutdown
  <2> QED
    BY <2>1, <2>2 DEF Aside, ToldSame
<1> QED
  BY <1>1, <1>2, <1>3, <1>4 DEF Run

LEMMA CallbackAside ==
  ASSUME TypeOK,
         \/ PingWritten \/ CloseWritten
         \/ WriteFailed /\ writing \notin Stanzas
         \/ \E why \in {"aborted", "failed"} : ReceiveEnded(why)
         \/ ReceiveCancelled
         \/ ReceiveStanza
         \/ \E i \in Iqs : ReceiveReply(i)
         \/ ReceiveStreamError
         \/ StreamTorn
         \/ IdleReply
  PROVE  Aside
<1>1. ASSUME NEW r, StanzaFailed(r) \/ PingDone(r) \/ CloseSent(r) \/ ForceCloseDone(r)
               \/ ReceiveEndedForced \/ (\E rest : RemoteConnectionClosed(r, rest))
      PROVE  ToldSame /\ UNCHANGED <<queue, forcedShutdown>>
  <2>1. pinging \notin Stanzas /\ \A x \in Stanzas : x \in Ops /\ x # forcing
    BY OpsDistinct DEF TypeOK
  <2>2. CASE StanzaFailed(r) \/ ReceiveEndedForced
    BY <2>2 DEF StanzaFailed, ReceiveEndedForced, ToldSame, sendVars, forceVars
  <2>3. CASE PingDone(r)
    BY <2>1, <2>3, OtherCall DEF PingDone, forceVars
  <2>4. CASE CloseSent(r)
    BY <2>4, CompleteCloseTold DEF CloseSent, ToldSame, sendVars
  <2>5. CASE ForceCloseDone(r)
    BY <2>1, <2>5 DEF ForceCloseDone, ToldSame, sendVars
  <2>6. CASE \E rest : RemoteConnectionClosed(r, rest)
    BY <2>6, AbortTold DEF RemoteConnectionClosed, AbortPendingIqs, sendVars, forceVars
  <2> QED
    BY <1>1, <2>2, <2>3, <2>4, <2>5, <2>6
<1>2. CASE PingWritten \/ CloseWritten \/ (WriteFailed /\ writing \notin Stanzas)
  <2>1. writing \notin Stanzas /\ writing' \notin Stanzas /\ UNCHANGED wire
    BY <1>2, NotStanzas, ConnAside, ConnWrites DEF PingWritten, CloseWritten, WriteFailed
  <2>2. ToldSame /\ UNCHANGED <<queue, forcedShutdown>>
    BY <1>1, <1>2 DEF PingWritten, CloseWritten, WriteFailed
  <2> QED
    BY <2>1, <2>2 DEF Aside
<1>3. CASE ReceiveCancelled \/ ReceiveStreamError \/ StreamTorn
             \/ \E why \in {"aborted", "failed"} : ReceiveEnded(why)
  <2>1. UNCHANGED <<writing, wire>>
    BY <1>3, ConnWrites DEF ReceiveCancelled, ReceiveStreamError, StreamTorn, ReceiveEnded,
                            ConnStanza
  <2>2. ToldSame /\ UNCHANGED <<queue, forcedShutdown>>
    BY <1>1, <1>3 DEF ReceiveCancelled, ReceiveStreamError, StreamTorn, ReceiveEnded
  <2> QED
    BY <2>1, <2>2 DEF Aside
<1>4. CASE ReceiveStanza \/ \E i \in Iqs : ReceiveReply(i)
  <2>1. UNCHANGED <<writing, wire, queue, forcedShutdown>>
    BY <1>4, ConnWrites DEF ReceiveStanza, ReceiveReply, ConnStanza, sendVars, forceVars
  <2>2. UNCHANGED outcome \/ \E i \in Iqs : \E r : Resolve(i, r)
    BY <1>4 DEF ReceiveStanza, ReceiveReply
  <2> QED
    BY <2>1, <2>2, OtherCall DEF Aside, ToldSame
<1>5. CASE IdleReply
  <2>1. PICK c \in IdleCalls :
          /\ ConnIdle(c)
          /\ \/ StanzaFailed(c.why) \/ PingDone(c.why) \/ CloseSent(c.why)
             \/ ReceiveEndedForced \/ RemoteConnectionClosed("failed", <<>>)
             \/ ForceCloseDone(c.why)
             \/ /\ c.op \in Iqs /\ IqSendFailed(c.op, c.why, <<>>)
                /\ UNCHANGED <<sendVars, forceVars>>
    BY <1>5 DEF IdleReply
  <2>2. UNCHANGED <<writing, wire>>
    BY <2>1, ConnWrites
  <2>3. CASE /\ c.op \in Iqs /\ IqSendFailed(c.op, c.why, <<>>)
             /\ UNCHANGED <<sendVars, forceVars>>
    <3>1. UNCHANGED outcome \/ Resolve(c.op, c.why)
      BY <2>3 DEF IqSendFailed
    <3>2. ToldSame
      BY <2>3, <3>1, OtherCall DEF ToldSame
    <3> QED
      BY <2>2, <2>3, <3>2 DEF Aside, sendVars, forceVars
  <2> QED
    BY <1>1, <2>1, <2>2, <2>3 DEF Aside
<1> QED
  BY <1>2, <1>3, <1>4, <1>5

LEMMA PromiseKept ==
  ASSUME Quietly, Basics, ArmedInv, SendInv, TransitInv, TypeOK', SendInv', [Next]_vars
  PROVE  TransitInv' /\ PromiseStep
<1>0. TypeOK /\ forcedShutdown' \in BOOLEAN
  BY DEF Basics, TypeOK
<1>1. CASE Next
  <2>1. AnswersKept
    BY <1>1, CallAnswers, RunAnswers, CallbackAnswers DEF Next, Basics
  <2>2. Aside => PromiseStep /\ TransitInv'
    BY <1>0, <2>1, OtherStep DEF Aside
  <2>3. ASSUME NEW s \in Stanzas, Send(s) \/ SendIq(s) \/ Cancel(s)
        PROVE  PromiseStep /\ TransitInv'
    BY <2>1, <2>3, EnqueuePromise, CancelPromise DEF Send, SendIq
  <2>4. Run => PromiseStep /\ TransitInv'
    BY <1>0, <2>1, <2>2, TerminatePromise, NextPromise, RunAside
  <2>5. Deliver \/ WriteFailed => PromiseStep /\ TransitInv'
    BY <1>0, <2>1, <2>2, WrittenPromise, WriteFailedPromise, CallbackAside DEF Deliver
  <2> QED
    BY <1>0, <1>1, <2>2, <2>3, <2>4, <2>5, CallAside, CallbackAside DEF Next
<1>2. CASE UNCHANGED vars
  <2>1. UNCHANGED <<queue, writing, wire, outcome, forcedShutdown>>
    BY <1>2 DEF vars, sendVars, forceVars, connVars
  <2> QED
    BY <1>0, <2>1, StutterStep DEF TransitInv, ToldSame, TypeOK
<1> QED
  BY <1>1, <1>2

(* The porter's send path keeps the promise of OrderedSending: stanzas     *)
(* leave in the order of send_async, each at most once, and a caller hears *)
(* of success when and only when its stanza has left.                      *)
THEOREM SendingKeepsPromise ==
  ASSUME Quietly
  PROVE  Spec => SendsInOrder
<1>1. Init => ArmedInv /\ SendInv /\ TransitInv /\ Promise!Init
  <2> SUFFICES ASSUME Init
               PROVE  ArmedInv /\ SendInv /\ TransitInv /\ Promise!Init
    OBVIOUS
  <2>1. writing \notin Stanzas /\ \A s \in Stanzas \ Iqs : Told(s) = "nothing"
    BY NotStanzas, OpsDistinct DEF Init, ConnInit, Told, Open
  <2>2. InTransit \o queue = <<>>
    BY <2>1 DEF InTransit, Init
  <2>3. TransitInv
    BY <2>1 DEF TransitInv
  <2>4. [s \in Stanzas \ Iqs |-> Told(s)] = [s \in Stanzas \ Iqs |-> "nothing"]
    BY <2>1
  <2>5. Promise!Init
    BY <2>2, <2>4 DEF Promise!Init, Init, ConnInit
  <2> QED
    BY <2>3, <2>5, ArmedInvInit, SendInvInit
<1>2. /\ Basics /\ Basics' /\ ArmedInv /\ SendInv /\ TransitInv /\ [Next]_vars
           => ArmedInv' /\ SendInv' /\ TransitInv'
      /\ Basics /\ Basics' /\ ArmedInv /\ SendInv /\ TransitInv /\ [Next]_vars
           => [\/ forcedShutdown
               \/ Promise!Shut
               \/ Promise!Next /\ UNCHANGED forcedShutdown]_(Promise!vars)
  BY ArmedInvStep, SendInvStep, PromiseKept DEF Basics, PromiseStep
<1> QED
  BY <1>1, <1>2, BasicsHold, PTL DEF Spec, SendsInOrder, Promise!Spec
=============================================================================
