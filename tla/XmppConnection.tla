--------------------------- MODULE XmppConnection ---------------------------
(***************************************************************************)
(* WockyXmppConnection (wocky-xmpp-connection.c) on a byte stream: an      *)
(* output operation is written in pieces, a read brings any number of      *)
(* tokens of what the peer has sent, and stanzas wait in the reader.       *)
(*                                                                         *)
(* The client is first the connector, which opens the stream, sends one    *)
(* thing at a time, starts afresh and leaves the stream, open in both      *)
(* directions, to the porter.  The porter may send and close at any time.  *)
(* Neither asks for a second stanza before it has the first.               *)
(***************************************************************************)
EXTENDS XmppReader

CONSTANTS Stanzas,    \* what the client sends
          Size,       \* pieces a stanza, an opening or a close is written in
          MaxSent,    \* bound on the tokens the peer sends on one stream
          MaxCalls,   \* bound on output operations of each client
          MaxTraffic, \* bound on both together
          MaxResets   \* bound on resets

ASSUME SizeAssumption == Size \in Nat \ {0} /\ MaxResets \in Nat

Outputs == Stanzas \cup {"open", "ping", "close"}

VARIABLES
  writing,    \* output_result: the output operation in progress, or None
  offset,     \* how much of it has been written
  outOpen,    \* output_open
  outClosed,  \* output_closed
  wire,       \* what the stream took: items, how much of each, and whether its
              \* operation failed at that point
  reading,    \* input_result: "open", "stanza" or "no"
  inOpen,     \* input_open
  reader,     \* the reader
  net,        \* tokens sent by the peer and not read yet
  netEnd,     \* the peer has shut its direction of the stream
  tearing,    \* force_close_result # NULL
  torn,       \* the stream has been closed under us
  idle,       \* completions waiting in idle sources, oldest first
  sent,       \* history: the tokens of the peer's present stream
  received,   \* history: the stanzas received from it
  answer,     \* history: the last answer to a receive
  written,    \* history: the output operations answered without an error
  resets,
  owner       \* whose the connection is: "connector", then "porter"

outVars == <<writing, offset, outOpen, outClosed, wire, written>>
inVars  == <<reading, inOpen, reader, received, answer>>
netVars == <<net, netEnd, sent>>
shutVars == <<tearing, torn>>
vars == <<outVars, inVars, netVars, shutVars, idle, resets, owner>>

Answers == {"none", "opened", "stanza", "empty", "closed", "error",   \* finish functions
            "eos", "failed", "pending", "not_open", "is_closed", "is_open"}
IdleCalls == [cb : {"stanza", "ping", "close", "open", "recv", "force", "ready"},
              why : {"ok"} \cup Answers]
IdleCall(cb, why) == [cb |-> cb, why |-> why]

WireItems == [item : Outputs, units : 1 .. Size, cut : BOOLEAN]

TypeOK ==
  /\ writing \in Outputs \cup {None} /\ offset \in 0..Size
  /\ outOpen \in BOOLEAN /\ outClosed \in BOOLEAN
  /\ wire \in Seq(WireItems)
  /\ written \in Seq(Outputs)
  /\ reading \in {"no", "open", "stanza"} /\ inOpen \in BOOLEAN
  /\ reader \in Readers
  /\ received \in Seq(Incoming) /\ answer \in Answers
  /\ net \in Seq(Tokens) /\ netEnd \in BOOLEAN /\ sent \in Seq(Tokens)
  /\ tearing \in BOOLEAN /\ torn \in BOOLEAN
  /\ idle \in Seq(IdleCalls)
  /\ resets \in 0..MaxResets
  /\ owner \in {"connector", "porter"}

Init ==
  /\ writing = None /\ offset = 0 /\ outOpen = FALSE /\ outClosed = FALSE
  /\ wire = <<>> /\ written = <<>>
  /\ reading = "no" /\ inOpen = FALSE /\ reader = NewReader
  /\ received = <<>> /\ answer = "none"
  /\ net = <<>> /\ netEnd = FALSE /\ sent = <<>>
  /\ tearing = FALSE /\ torn = FALSE
  /\ idle = <<>>
  /\ resets = 0
  /\ owner = "connector"

(***************************************************************************)
(* Output                                                                  *)
(***************************************************************************)
Length(x) == IF x = "ping" THEN 1 ELSE Size
CallbackOf(x) == IF x \in Stanzas THEN "stanza" ELSE x

Traffic == Len(sent) + Len(wire) + Len(idle) + resets
MayStart == Len(wire) + Len(idle) < MaxCalls /\ Traffic < MaxTraffic

(* A refused operation is answered from an idle source; one that is taken  *)
(* is written from its first piece on.                                     *)
M_NoPending(why) == IF why = "pending" THEN "ok" ELSE why
SendAnswer(why) == why
Submit(x, why) ==
  /\ MayStart
  /\ IF SendAnswer(why) = "ok"
       THEN writing' = x /\ offset' = 0 /\ UNCHANGED idle
       ELSE /\ idle' = Append(idle, IdleCall(CallbackOf(x), SendAnswer(why)))
            /\ UNCHANGED <<writing, offset>>
  /\ UNCHANGED <<outOpen, outClosed, wire, written, inVars, netVars, shutVars, resets, owner>>

SendOpenAsync ==
  Submit("open", IF writing # None THEN "pending"
                 ELSE IF outClosed THEN "is_closed"
                 ELSE IF outOpen   THEN "is_open" ELSE "ok")

SendStanzaAsync(stanza) ==
  Submit(stanza, IF writing # None THEN "pending"
                 ELSE IF ~outOpen  THEN "not_open"
                 ELSE IF outClosed THEN "is_closed" ELSE "ok")

SendWhitespacePingAsync ==
  Submit("ping", IF writing # None THEN "pending"
                 ELSE IF ~outOpen  THEN "not_open"
                 ELSE IF outClosed THEN "is_closed" ELSE "ok")

SendCloseAsync ==
  Submit("close", IF writing # None THEN "pending"
                  ELSE IF outClosed THEN "is_closed"
                  ELSE IF ~outOpen  THEN "not_open" ELSE "ok")

(* send_open_finish and send_close_finish of an operation x that went well *)
SendOpenFinish(x)  == outOpen' = (outOpen \/ x = "open")
SendCloseFinish(x) == outClosed' = (outClosed \/ x = "close")

(* The wire after n more pieces of the operation in progress *)
Extend(n) ==
  IF offset = 0
    THEN Append(wire, [item |-> writing, units |-> n, cut |-> FALSE])
    ELSE [wire EXCEPT ![Len(wire)].units = @ + n]

(* write_cb was told that n pieces went out; when they are all out, the    *)
(* finish function of the operation runs in its callback.                  *)
M_LastPiece(n) == n > 0 /\ offset + n >= Length(writing) - 1
LastPiece(n) == offset + n = Length(writing)
WriteCb(n) ==
  /\ writing # None /\ ~torn
  /\ n \in 1 .. Length(writing) - offset
  /\ wire' = Extend(n)
  /\ IF LastPiece(n)
       THEN /\ writing' = None
            /\ offset' = 0
            /\ written' = Append(written, writing)
            /\ SendOpenFinish(writing)
            /\ SendCloseFinish(writing)
       ELSE /\ offset' = offset + n
            /\ UNCHANGED <<writing, written, outOpen, outClosed>>
  /\ UNCHANGED <<inVars, netVars, shutVars, idle, resets, owner>>

(* ... or of an error, of a cancellation, of the end of the stream *)
WriteFailed ==
  /\ writing # None
  /\ writing' = None
  /\ offset' = 0
  /\ wire' = IF offset = 0 THEN wire ELSE [wire EXCEPT ![Len(wire)].cut = TRUE]
  /\ UNCHANGED <<outOpen, outClosed, written, inVars, netVars, shutVars, idle, resets, owner>>

(***************************************************************************)
(* Input                                                                   *)
(***************************************************************************)
InputIsClosed == Over(reader)

(* The client's discipline: no answer to an earlier receive is due. *)
MayReceive == reading = "no" /\ \A n \in DOMAIN idle : idle[n].cb \notin {"recv", "ready"}

RecvRefusal(opening) ==
  IF opening
    THEN IF InputIsClosed THEN "is_closed" ELSE IF inOpen THEN "is_open" ELSE "ok"
    ELSE IF ~inOpen THEN "not_open" ELSE IF InputIsClosed THEN "is_closed" ELSE "ok"

(* recv_open_async, and recv_stanza_async: a stanza that is already there  *)
(* is delivered from an idle source.                                       *)
RecvAsync(opening) ==
  /\ MayReceive
  /\ IF RecvRefusal(opening) # "ok"
       THEN /\ idle' = Append(idle, IdleCall("recv", RecvRefusal(opening)))
            /\ UNCHANGED reading
     ELSE IF ~opening /\ Peek(reader) # None
       THEN /\ idle' = Append(idle, IdleCall("ready", "ok"))
            /\ UNCHANGED reading
     ELSE /\ reading' = IF opening THEN "open" ELSE "stanza"
          /\ UNCHANGED idle
  /\ UNCHANGED <<outVars, inOpen, reader, received, answer, netVars, shutVars, resets, owner>>

(* recv_stanza_finish on a reader r *)
FinishStanza(r) ==
  /\ reader' = IF Over(r) THEN r ELSE Pop(r)
  /\ IF Over(r)
       THEN answer' = r.state /\ UNCHANGED received
     ELSE IF Peek(r) = None
       THEN answer' = "empty" /\ UNCHANGED received
     ELSE answer' = "stanza" /\ received' = Append(received, Peek(r).stanza)

(* recv_open_finish *)
FinishOpen(r) ==
  /\ reader' = r
  /\ inOpen' = TRUE
  /\ answer' = "opened"
  /\ UNCHANGED received

(* The read has all it needs once the stream is open (an opening), there   *)
(* is a stanza, or the stream is over.                                     *)
HasEnough(r) == (~inOpen /\ r.state = "opened") \/ Peek(r) # None \/ Over(r)

(* received_data with the first n tokens on their way, if any is complete *)
ReceivedData(n) ==
  /\ reading # "no" /\ ~torn
  /\ n \in 0 .. Len(net)
  /\ net' = SubSeq(net, n + 1, Len(net))
  /\ LET r == Push(reader, SubSeq(net, 1, n)) IN
     IF ~HasEnough(r)
       THEN reader' = r /\ UNCHANGED <<reading, inOpen, received, answer>>
       ELSE /\ reading' = "no"
            /\ IF reading = "open" THEN FinishOpen(r)
                                   ELSE FinishStanza(r) /\ UNCHANGED inOpen
  /\ UNCHANGED <<outVars, netEnd, sent, shutVars, idle, resets, owner>>

(* ... with the end of the stream, or an error (a cancellation, a stream   *)
(* that has been closed)                                                   *)
ReadEnded(a) ==
  /\ reading # "no"
  /\ a = "eos" => net = <<>> /\ netEnd
  /\ reading' = "no"
  /\ answer' = a
  /\ UNCHANGED <<outVars, inOpen, reader, received, netVars, shutVars, idle, resets, owner>>

(***************************************************************************)
(* Shutting down and starting afresh                                       *)
(***************************************************************************)

(* force_close_async *)
ForceCloseAsync ==
  /\ MayStart
  /\ IF tearing THEN idle' = Append(idle, IdleCall("force", "pending")) /\ UNCHANGED tearing
                ELSE tearing' = TRUE /\ UNCHANGED idle
  /\ UNCHANGED <<torn, outVars, inVars, netVars, resets, owner>>

(* stream_close_cb *)
StreamCloseCb(ok) ==
  /\ tearing
  /\ tearing' = FALSE
  /\ torn' = (torn \/ ok)
  /\ UNCHANGED <<outVars, inVars, netVars, idle, resets, owner>>

(* The oldest idle source runs: a call that was refused, or a stanza that  *)
(* was already there.                                                      *)
IdleCompletion ==
  /\ idle # <<>>
  /\ idle' = Tail(idle)
  /\ CASE Head(idle).cb = "ready" -> FinishStanza(reader)
       [] Head(idle).cb = "recv"  -> answer' = Head(idle).why
                                     /\ UNCHANGED <<reader, received>>
       [] OTHER                   -> UNCHANGED <<reader, received, answer>>
  /\ UNCHANGED <<outVars, reading, inOpen, netVars, shutVars, resets, owner>>

(* reset, after an authentication or the start of TLS: nothing is pending. *)
ResetConnection ==
  /\ writing = None /\ MayReceive /\ idle = <<>> /\ inOpen /\ outOpen
  /\ resets < MaxResets
  /\ outOpen' = FALSE /\ outClosed' = FALSE /\ inOpen' = FALSE
  /\ reader' = Reset(reader)
  /\ wire' = <<>> /\ written' = <<>>
  /\ sent' = net /\ received' = <<>> /\ answer' = "none"
  /\ resets' = resets + 1
  /\ UNCHANGED <<writing, offset, reading, net, netEnd, shutVars, idle, owner>>

(* The connector has what it wants and leaves the connection, open in both *)
(* directions, to a new porter.  What was written before is history.       *)
HandOver ==
  /\ owner' = "porter"
  /\ outOpen /\ inOpen /\ ~outClosed /\ ~InputIsClosed /\ ~tearing /\ ~torn
  /\ writing = None /\ MayReceive /\ idle = <<>>
  /\ wire' = <<>> /\ written' = <<>>
  /\ UNCHANGED <<writing, offset, outOpen, outClosed, inVars, netVars, shutVars, idle, resets>>

(* The peer sends something, or ends its direction of the stream. *)
PeerSends(t) ==
  /\ ~netEnd /\ Len(sent) < MaxSent /\ Traffic < MaxTraffic
  /\ t = "open" => ~Contains(sent, "open")
  /\ net' = Append(net, t)
  /\ sent' = Append(sent, t)
  /\ UNCHANGED <<netEnd, outVars, inVars, shutVars, idle, resets, owner>>
PeerShuts ==
  /\ ~netEnd
  /\ netEnd' = TRUE
  /\ UNCHANGED <<net, sent, outVars, inVars, shutVars, idle, resets, owner>>

Connect ==
  /\ owner = "connector" /\ writing = None
  /\ \/ SendOpenAsync
     \/ \E stanza \in Stanzas : SendStanzaAsync(stanza)
     \/ \E opening \in BOOLEAN : RecvAsync(opening)
     \/ ResetConnection
     \/ HandOver

Use ==
  /\ owner = "porter"
  /\ \/ \E stanza \in Stanzas : SendStanzaAsync(stanza)
     \/ SendWhitespacePingAsync
     \/ SendCloseAsync
     \/ RecvAsync(FALSE)
     \/ ForceCloseAsync

Stream ==
  \/ \E n \in 1 .. Size : WriteCb(n)
  \/ WriteFailed
  \/ \E n \in 0 .. MaxSent : ReceivedData(n)
  \/ \E a \in {"eos", "failed"} : ReadEnded(a)
  \/ \E ok \in BOOLEAN : StreamCloseCb(ok)
  \/ IdleCompletion
  \/ \E t \in Tokens : PeerSends(t)
  \/ PeerShuts

Next == Connect \/ Use \/ Stream

Spec == Init /\ [][Next]_vars

-----------------------------------------------------------------------------
(* The elements of a sequence that are in S *)
Those(seq, S) ==
  LET kept[k \in 0 .. Len(seq)] ==
        IF k = 0 THEN <<>>
        ELSE IF seq[k] \in S THEN Append(kept[k - 1], seq[k]) ELSE kept[k - 1]
  IN kept[Len(seq)]

(* What the peer's stream amounts to, however it is cut into chunks: the   *)
(* stanzas between its opening and the first thing that ends it.           *)
Stops(n) == IF n = 1 THEN sent[1] # "open" ELSE sent[n] \notin Incoming
StopAt == CHOOSE n \in 1 .. Len(sent) + 1 :
            /\ n <= Len(sent) => Stops(n)
            /\ \A k \in 1 .. n - 1 : ~Stops(k)
Expected == IF sent = <<>> THEN <<>> ELSE SubSeq(sent, 2, StopAt - 1)

(* Whatever the chunks, stanzas are delivered in order, none twice.        *)
DeliveredInOrder == IsPrefix(received, Expected)

(* What a receive is told of the stream is true: none of its stanzas is    *)
(* missing when its end is reported, it is said to be closed only after    *)
(* </stream>, and a receive that ends without an error has a stanza.       *)
ReportsAreTrue ==
  /\ answer \in {"closed", "error", "is_closed", "eos"} => received = Expected
  /\ answer = "closed" => StopAt <= Len(sent) /\ sent[StopAt] = "close"
  /\ answer # "empty"

(* A stanza carries the number of stanzas that count up to it, whatever    *)
(* was cut away by earlier resets.                                         *)
CountingEntries == [stanza : Incoming \ Acks, count : Nat]
CountsAreExact ==
  \A n \in DOMAIN reader.queue : reader.queue[n] # None =>
    LET behind == SubSeq(reader.queue, n + 1, Len(reader.queue)) IN
    reader.queue[n].count + Len(Those(behind, CountingEntries)) = reader.count

(* What the peer sends reaches the client, whatever the chunks it arrives  *)
(* in and wherever the stream is started afresh.                           *)
StreamIsDelivered == TypeOK /\ DeliveredInOrder /\ ReportsAreTrue /\ CountsAreExact

(* An operation is answered without an error exactly when all of it is on  *)
(* the wire, in the order of the wire, and nothing gets between two pieces *)
(* of an item: the next item starts when all of the last one is out, or    *)
(* its operation was answered by an error.                                 *)
Whole(w) == w.units = Length(w.item)
WrittenIsOnWire ==
  /\ written = LET whole == Those(wire, {w \in WireItems : Whole(w)})
               IN [n \in DOMAIN whole |-> whole[n].item]
  /\ \A n \in DOMAIN wire : n < Len(wire) => Whole(wire[n]) \/ wire[n].cut

(* From the moment it has the connection, the porter has the pipe that its *)
(* model is built on: the bytes are no more than that.                     *)
Used == owner = "porter"
Mapped == IF Used THEN Those(idle, {c \in IdleCalls : c.cb # "ready"}) ELSE <<>>
Pipe == INSTANCE Connection WITH
  writing <- IF Used THEN writing ELSE None,
  outClosed <- Used /\ outClosed,
  wire <- IF Used THEN Those(written, Stanzas) ELSE <<>>,
  reading <- Used /\ (reading # "no" \/ \E n \in DOMAIN idle : idle[n].cb = "ready"),
  inClosed <- Used /\ InputIsClosed,
  tearing <- Used /\ tearing,
  torn <- Used /\ torn,
  idle <- [n \in DOMAIN Mapped |->
            [cb |-> Mapped[n].cb, op |-> None,
             why |-> IF Mapped[n].why = "pending" THEN "busy" ELSE "failed"]]
ImplementsPipe == Pipe!Spec

(* The header names the answer to the other side's </stream>: CLOSED,      *)
(* "Other side closed the xmpp stream."  IS_CLOSED is for a client that    *)
(* goes on receiving after the end.                                        *)
CloseIsReported ==
  [][answer' = "is_closed" /\ StopAt <= Len(sent) /\ sent[StopAt] = "close"
       => answer \in {"closed", "is_closed"}]_answer

(* recv_open_finish returns TRUE "if the opening was succesfully received" *)
OpenedIsOpen == answer = "opened" => sent # <<>> /\ sent[1] = "open"

(* Once sending failed, the porter says, "we won't be able to send any     *)
(* more stanza".                                                           *)
NothingAfterTorn == \A n \in DOMAIN wire : n < Len(wire) => Whole(wire[n])

=============================================================================
