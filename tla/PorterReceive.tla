--------------------------- MODULE PorterReceive ---------------------------
(***************************************************************************)
(* The receiving half of WockyC2SPorter (wocky-c2s-porter.c): the handlers *)
(* an application registers, the dispatch of each stanza to them, power    *)
(* saving, the replies to its IQs, and stream management on the same       *)
(* stream.  C2SPorter has the sending half and the close handshakes.       *)
(*                                                                         *)
(* A handler calls out to the application, which may register and          *)
(* unregister handlers, send, close or end the power saving before it      *)
(* returns; "stack" holds the suspended functions, innermost first:        *)
(*   dispatch  handle_stanza, at the handler "at" of its walk              *)
(*   user      the application, called by the dispatch below it            *)
(*   flush     flush_unimportant_queue                                     *)
(*   disable   the rest of enable_power_saving_mode (FALSE)                *)
(***************************************************************************)
EXTENDS StreamManagement

CONSTANTS
  Handlers,     \* the handlers the application registers
  Rule,         \* how each of them is registered, as a function of Handlers
  AtStart,      \* those registered before the stream starts, oldest first
  Stanzas,      \* the stanzas that may arrive, without their number
  Iqs,          \* the IQs the application sends
  To,           \* the addresses it sends them to
  From,         \* the addresses replies come from
  MaxArriving,  \* bound: the stanzas the server sends
  Liberties     \* what the client and the server may do beyond the ordinary

VARIABLES
  handlers,     \* priv->handlers, in the order they are asked
  saving,       \* power_saving_mode
  held,         \* unimportant_queue
  counted,      \* the reader's count of the stanzas received
  remoteClosed, \* remote_closed
  iqs,          \* where each IQ stands
  sentTo,       \* the recipient of each IQ sent
  answeredBy,   \* history: the sender of the reply that completed the IQ
  begun,        \* history: the stanzas handed to the handlers, by number
  stack

recvVars == <<handlers, saving, held, counted, remoteClosed>>
iqVars == <<iqs, sentTo, answeredBy>>
porterVars == <<smVars, closing, serverVars, inbox, recvVars, iqVars, begun, stack>>

\* stanza_handler_new: "any" stands for a type, a subtype or a pattern that is
\* not given.
StanzaHandler(type, sub, sender, jid, prio, match) ==
  [type |-> type, sub |-> sub, sender |-> sender, jid |-> jid,
   match |-> match, prio |-> prio]

\* Who the handler is for: one sender, anyone, or the user's own server.
ForSender(type, sub, from, prio, match) == StanzaHandler(type, sub, "jid", from, prio, match)
ForAnyone(type, sub, prio, match) == StanzaHandler(type, sub, "anyone", "none", prio, match)
ForServer(type, sub, prio, match) == StanzaHandler(type, sub, "server", "none", prio, match)

(* The handlers of the library itself; C2SPorter has handle_stream_error. *)
Library == {"reply", "error", "sm_r", "sm_a", "ping"}
ReplyRule(h) == ForAnyone("iq", IF h = "reply" THEN "result" ELSE "error", 9, "any")
SmRule(h) == ForAnyone(IF h = "sm_r" THEN "r" ELSE "a", "any", 5, "any")
PingRule == ForAnyone("iq", "get", 5, "ping")
LibraryRule(h) == CASE h \in {"reply", "error"} -> ReplyRule(h)
                    [] h \in {"sm_r", "sm_a"} -> SmRule(h)
                    [] h = "ping" -> PingRule
ClientRule(r) ==
  CASE r.for = "jid"    -> ForSender(r.type, r.sub, r.from, r.prio, r.match)
    [] r.for = "anyone" -> ForAnyone(r.type, r.sub, r.prio, r.match)
    [] r.for = "server" -> ForServer(r.type, r.sub, r.prio, r.match)
RuleOf(h) == IF h \in Library THEN LibraryRule(h) ELSE ClientRule(Rule[h])

\* A pattern is only for stanzas of a type.
Pattern(r) == r.type = "any" => r.match = "any"

ReceiveAssumption ==
  /\ Handlers \cap (Library \cup {None}) = {} /\ None \notin Library
  /\ \A h \in Handlers :
       /\ Rule[h].for \in {"jid", "anyone", "server"}
       /\ Rule[h].prio \in 0 .. 9 /\ Pattern(Rule[h])
  /\ AtStart \in Seq(Handlers) /\ IsInjective(AtStart)
  /\ \A s \in Stanzas : s.type \notin {"r", "a", "closed"}
  /\ "none" \notin Iqs
  /\ MaxSent \in Nat /\ MaxArriving \in Nat
ASSUME ReceiveAssumption

-----------------------------------------------------------------------------
(* Addresses.  "none" is a missing "from" or "to", "bad" one that cannot be *)
(* decoded, "PEER" another spelling of "peer", "peer/r" one of its          *)
(* resources; "full", "bare" and "domain" are the client's own.             *)
Normal(a) == CASE a = "PEER" -> "peer" [] a = "bad" -> "none" [] OTHER -> a
Bare(a) == IF a = "peer/r" THEN "peer" ELSE a
Own == {"none", "full", "bare", "domain"}

\* stanza_is_from_server, of a normalised address.
OfServer(a) == a \in Own

FromServer(s) == s.from # "bad" /\ OfServer(Normal(s.from))
FromJid(s, jid) ==
  s.from \notin {"none", "bad"} /\ jid \in {Normal(s.from), Bare(Normal(s.from))}

\* check_spoofing: may "from" answer what was sent to "to"?
NotSpoofed(from, to) ==
  \/ Normal(from) = to
  \/ to = "none" /\ OfServer(Normal(from))
  \/ from = "none" /\ to = "domain"
  \/ Normal(from) \in {"none", "full"} /\ from # "bad" /\ to \in {"full", "bare"}

-----------------------------------------------------------------------------
(* The list of handlers. *)

\* g_list_insert_sorted: before the first handler that is not of a higher
\* priority, so that of two equals the newest is asked first.
Place(h, list) ==
  CHOOSE i \in 1 .. Len(list) + 1 :
    /\ \A j \in 1 .. i - 1 : RuleOf(list[j]).prio > RuleOf(h).prio
    /\ i <= Len(list) => RuleOf(list[i]).prio <= RuleOf(h).prio
Insert(h, list) == InsertAt(list, Place(h, list), h)

\* g_list_remove
Position(h, list) == CHOOSE i \in 1 .. Len(list) : list[i] = h
Without(h, list) == RemoveAt(list, Position(h, list))

\* The handlers registered in turn, from a list on.
Registered(list, order) ==
  LET after[k \in 0 .. Len(order)] ==
        IF k = 0 THEN list ELSE Insert(order[k], after[k - 1])
  IN after[Len(order)]

Matches(h, s) ==
  LET r == RuleOf(h)
  IN /\ r.type \in {"any", s.type}
     /\ r.sub \in {"any", s.sub}
     /\ r.sender = "server" => FromServer(s)
     /\ r.sender = "jid" => FromJid(s, r.jid)
     /\ r.match \in {"any", s.what}

\* The handlers the walk of a frame has still to look at: after the one it is
\* at.  The link of a handler that was unregistered has no next.
After(h, list) == SubSeq(list, Position(h, list) + 1, Len(list))
M_FromTheTop(f) == IF f.freed THEN <<>> ELSE handlers
Rest(f) == IF f.freed THEN <<>>
           ELSE IF f.at = None THEN handlers ELSE After(f.at, handlers)

-----------------------------------------------------------------------------
(* The stack. *)
Frame(fn) == [fn |-> fn]
Dispatch(s) == [fn |-> "dispatch", stanza |-> s, at |-> None, freed |-> FALSE,
                offered |-> <<>>,
                since |-> {}]
AtLoop == stack = <<>>
InUser == stack # <<>> /\ Head(stack).fn = "user"
Running(fn) == stack # <<>> /\ Head(stack).fn = fn
CanCall == AtLoop \/ InUser

\* The handlers the suspended walks are at.
Asked == {stack[k].at : k \in {j \in DOMAIN stack : stack[j].fn = "dispatch"}}

ReceiveInit ==
  /\ managed \in BOOLEAN /\ closing = FALSE
  /\ sent = 0 /\ unacked = <<>> /\ fetched = {} /\ out = <<>>
  /\ got = 0 /\ inbox = <<>> /\ serverSent = 0 /\ serverGone = FALSE
  /\ handlers = Registered(IF managed THEN <<"error", "reply", "sm_a", "sm_r">>
                                     ELSE <<"error", "reply", "ping">>, AtStart)
  /\ saving = FALSE /\ held = <<>> /\ counted = 0 /\ remoteClosed = FALSE
  /\ iqs = [i \in Iqs |-> "new"] /\ sentTo = [i \in Iqs |-> "none"]
  /\ answeredBy = [i \in Iqs |-> None]
  /\ begun = <<>>
  /\ stack = <<>>

-----------------------------------------------------------------------------
(* Receiving (stanza_received_cb). *)

\* abort_pending_iqs
Aborted == [i \in Iqs |-> IF iqs[i] = "pending" THEN "aborted" ELSE iqs[i]]

\* remote_connection_closed
ReceiveClosed ==
  /\ AtLoop /\ ~remoteClosed
  /\ inbox # <<>> /\ Head(inbox).type = "closed"
  /\ inbox' = Tail(inbox)
  /\ remoteClosed' = TRUE
  /\ iqs' = Aborted
  /\ UNCHANGED <<smVars, closing, serverVars, handlers, saving, held, counted>>
  /\ UNCHANGED <<sentTo, answeredBy, begun, stack>>

\* The reader counts what is not stream management's own.
Counts(s) == s.type \notin {"r", "a"}
CountedAfter(s) == counted + (IF Counts(s) THEN 1 ELSE 0)

\* is_stanza_important
Important(s) ==
  /\ s.type = "presence" => s.sub \notin {"none", "unavailable"}
  /\ s.type = "message" => s.what # "pep"

\* queue_or_handle_stanza
M_HandleFirst(s) == <<Dispatch(s), Frame("flush")>>
ToHandle(s) == IF saving THEN <<Frame("flush"), Dispatch(s)>> ELSE <<Dispatch(s)>>

ReceiveStanza ==
  /\ AtLoop /\ ~remoteClosed
  /\ inbox # <<>> /\ Head(inbox).type # "closed"
  /\ LET s == IF Head(inbox).type = "a"
                THEN [type |-> "a", sub |-> "none", from |-> "none", what |-> "plain",
                      n |-> 0, h |-> counted]
                ELSE [Head(inbox) EXCEPT !.h = CountedAfter(Head(inbox))]
     IN /\ counted' = CountedAfter(s)
        /\ IF saving /\ ~Important(s)
             THEN held' = Append(held, s) /\ UNCHANGED stack
             ELSE stack' = ToHandle(s) /\ UNCHANGED held
  /\ inbox' = Tail(inbox)
  /\ UNCHANGED <<smVars, closing, serverVars, handlers, saving, remoteClosed>>
  /\ UNCHANGED <<iqVars, begun>>

\* flush_unimportant_queue
StillFlushing == stack
FlushStep ==
  /\ Running("flush")
  /\ IF held = <<>>
       THEN stack' = Tail(stack) /\ UNCHANGED held
       ELSE stack' = <<Dispatch(Head(held))>> \o StillFlushing /\ held' = Tail(held)
  /\ UNCHANGED <<smVars, closing, serverVars, inbox, handlers, saving, counted>>
  /\ UNCHANGED <<remoteClosed, iqVars, begun>>

-----------------------------------------------------------------------------
(* Dispatching (handle_stanza). *)

\* A reply of the library's own goes back to the sender, as an ordinary stanza
\* (create_iq_reply; a request has an id).
ReplyTo(s) == <<"reply", s.n, s.from>>
Reply(s) == Send(ReplyTo(s))

Answerable(s) == s.type = "iq" /\ s.sub \in {"get", "set"}

\* handle_iq_reply: a reply nobody waits for, or from somebody else, is not
\* handled.
Completes(s) == s.id \in Iqs /\ iqs[s.id] = "pending" /\ NotSpoofed(s.from, sentTo[s.id])

\* The walk asks the next handler that matches.
Begin(f) == IF f.at # None THEN begun ELSE IF f.stanza.n = 0 THEN begun
            ELSE Append(begun, f.stanza.n)
AtNext(f, h) ==
  [f EXCEPT !.at = h, !.offered = Append(@, h),
            !.since = IF f.at = None THEN ToSet(handlers) ELSE @]

\* The walk ends with nobody having handled the stanza.
M_AnswerNobody(s) == UNCHANGED <<sent, unacked, out>>
NotHandled(s) ==
  IF Answerable(s) THEN Reply(s) ELSE UNCHANGED <<sent, unacked, out>>

EndsUnhandled(f) == \A j \in 1 .. Len(Rest(f)) : ~Matches(Rest(f)[j], f.stanza)
IsNext(h, f) ==
  \E j \in 1 .. Len(Rest(f)) :
    /\ Rest(f)[j] = h /\ Matches(h, f.stanza)
    /\ \A i \in 1 .. j - 1 : ~Matches(Rest(f)[i], f.stanza)

DispatchEnds ==
  /\ Running("dispatch")
  /\ LET f == Head(stack)
     IN /\ EndsUnhandled(f)
        /\ begun' = Begin(f)
        /\ NotHandled(f.stanza)
  /\ stack' = Tail(stack)
  /\ UNCHANGED <<managed, fetched, closing, serverVars, inbox, recvVars, iqVars>>

\* The application is called.
DispatchCalls ==
  /\ Running("dispatch")
  /\ LET f == Head(stack)
     IN /\ begun' = Begin(f)
        /\ \E h \in Handlers :
             IsNext(h, f) /\ stack' = <<Frame("user"), AtNext(f, h)>> \o Tail(stack)
  /\ UNCHANGED <<smVars, closing, serverVars, inbox, recvVars, iqVars>>

\* The library's own handlers.
AnswersRequest(s) ==
  SendAnswer(s.h) /\ UNCHANGED <<sent, unacked, iqs, answeredBy>>
TakesAnswer ==
  unacked' = TakeAnswer /\ UNCHANGED <<sent, out, iqs, answeredBy>>
AnswersPing(s) ==
  Reply(s) /\ UNCHANGED <<iqs, answeredBy>>
CompletesIq(s) ==
  /\ iqs' = [iqs EXCEPT ![s.id] = "answered"]
  /\ answeredBy' = [answeredBy EXCEPT ![s.id] = s.from]
  /\ UNCHANGED <<sent, unacked, out>>
LibraryHandles(h, s) ==
  \/ h = "sm_r" /\ AnswersRequest(s)
  \/ h = "sm_a" /\ TakesAnswer
  \/ h = "ping" /\ AnswersPing(s)
  \/ h \in {"reply", "error"} /\ CompletesIq(s)

Declines(h, s) == h \in {"reply", "error"} /\ ~Completes(s)

DispatchToLibrary ==
  /\ Running("dispatch")
  /\ LET f == Head(stack)
         s == f.stanza
     IN /\ begun' = Begin(f)
        /\ \E h \in Library :
             /\ IsNext(h, f)
             /\ IF Declines(h, s)
                  THEN /\ stack' = <<AtNext(f, h)>> \o Tail(stack)
                       /\ UNCHANGED <<sent, unacked, out, iqs, answeredBy>>
                  ELSE LibraryHandles(h, s) /\ stack' = Tail(stack)
  /\ UNCHANGED <<managed, fetched, closing, serverVars, inbox, recvVars>>
  /\ UNCHANGED <<sentTo>>

\* The application's handler returns: TRUE ends the walk.
HandlerReturns(handled) ==
  /\ InUser
  /\ LET f == stack[2]
     IN /\ f.freed /\ ~handled => "vanish" \in Liberties
        /\ IF handled
             THEN stack' = SubSeq(stack, 3, Len(stack))
             ELSE stack' = Tail(stack)
  /\ UNCHANGED <<smVars, closing, serverVars, inbox, recvVars, iqVars, begun>>

-----------------------------------------------------------------------------
(* What the application calls.  It registers its handlers before the stream *)
(* starts, and changes the list from them afterwards.                       *)

Register(h) ==
  /\ InUser /\ h \notin ToSet(handlers)
  /\ handlers' = Insert(h, handlers)
  /\ UNCHANGED <<smVars, closing, serverVars, inbox, saving, held, counted>>
  /\ UNCHANGED <<remoteClosed, iqVars, begun, stack>>

\* A walk that is at the handler is left with a link that was freed.
Freed(f, h) ==
  IF f.fn # "dispatch" THEN f
  ELSE [f EXCEPT !.freed = @ \/ f.at = h, !.since = @ \ {h}]

Unregister(h) ==
  /\ InUser /\ h \in ToSet(handlers)
  /\ handlers' = Without(h, handlers)
  /\ stack' = [k \in DOMAIN stack |-> Freed(stack[k], h)]
  /\ UNCHANGED <<smVars, closing, serverVars, inbox, saving, held, counted>>
  /\ UNCHANGED <<remoteClosed, iqVars, begun>>

EnableSaving ==
  /\ AtLoop /\ ~saving
  /\ saving' = TRUE
  /\ UNCHANGED <<smVars, closing, serverVars, inbox, handlers, held, counted>>
  /\ UNCHANGED <<remoteClosed, iqVars, begun, stack>>

\* The queue is flushed before the mode ends.
FlushThenEnd == <<Frame("flush"), Frame("disable")>>
DisableSaving ==
  /\ CanCall /\ saving
  /\ stack' = FlushThenEnd \o stack
  /\ UNCHANGED <<smVars, closing, serverVars, inbox, recvVars, iqVars, begun>>

SavingEnds ==
  /\ Running("disable")
  /\ saving' = FALSE
  /\ stack' = Tail(stack)
  /\ UNCHANGED <<smVars, closing, serverVars, inbox, handlers, held, counted>>
  /\ UNCHANGED <<remoteClosed, iqVars, begun>>

SendStanza ==
  /\ AtLoop /\ ~closing /\ sent < MaxSent
  /\ Send(<<"message">>)
  /\ UNCHANGED <<managed, fetched, closing, serverVars, inbox, recvVars, iqVars>>
  /\ UNCHANGED <<begun, stack>>

SendIq(i, to) ==
  /\ AtLoop /\ ~closing /\ sent < MaxSent /\ iqs[i] = "new"
  /\ Send(<<i>>)
  /\ iqs' = [iqs EXCEPT ![i] = "pending"]
  /\ sentTo' = [sentTo EXCEPT ![i] = Normal(to)]
  /\ UNCHANGED <<managed, fetched, closing, serverVars, inbox, recvVars>>
  /\ UNCHANGED <<answeredBy, begun, stack>>

\* close_async sends one last answer, of what the reader has counted.
LastAnswer == IF managed THEN Append(out, [kind |-> "last", h |-> counted]) ELSE out
CloseAsync ==
  /\ CanCall /\ ~closing
  /\ closing' = TRUE
  /\ out' = LastAnswer
  /\ UNCHANGED <<managed, sent, unacked, fetched, serverVars, inbox, recvVars>>
  /\ UNCHANGED <<iqVars, begun, stack>>

PopUnacked ==
  /\ AtLoop /\ remoteClosed /\ managed /\ unacked # <<>>
  /\ Fetch
  /\ unacked' = Tail(unacked)
  /\ UNCHANGED <<managed, sent, out, closing, serverVars, inbox, recvVars>>
  /\ UNCHANGED <<iqVars, begun, stack>>

-----------------------------------------------------------------------------
(* The server.  A callback looks at nothing the network changes, so the    *)
(* network moves between callbacks; so do the sends of C2SPorter, which has *)
(* the ones from callbacks.                                                 *)

Arriving(s, id, n) ==
  [type |-> s.type, sub |-> s.sub, from |-> s.from, what |-> s.what,
   id |-> id, n |-> n, h |-> 0]

ServerSends(s) ==
  /\ AtLoop /\ ~serverGone /\ serverSent < MaxArriving
  /\ serverSent' = serverSent + 1
  /\ inbox' = Append(inbox, Arriving(s, "none", serverSent + 1))
  /\ UNCHANGED <<smVars, closing, got, serverGone, recvVars, iqVars, begun, stack>>

\* Who speaks through an address: the client's server, for its own account.
Speaker(a) == IF a \in Own THEN "server" ELSE Normal(a)

\* The server does not let anybody speak for the account or for somebody else,
\* but anybody may send a "reply" to an IQ that was not sent to them.
HasRead(i) == ~Contains(out, Carrying(<<i>>))
MayReply(i, f) ==
  /\ iqs[i] # "new"
  /\ Speaker(f) = "server" => Speaker(sentTo[i]) = "server"
  /\ Speaker(f) = Speaker(sentTo[i]) => HasRead(i)

\* An error takes the same path as a result.
ServerReplies(i, f) ==
  /\ AtLoop /\ ~serverGone /\ serverSent < MaxArriving
  /\ MayReply(i, f)
  /\ serverSent' = serverSent + 1
  /\ inbox' = Append(inbox, Arriving([type |-> "iq", sub |-> "result", from |-> f,
                                      what |-> "plain"], i, serverSent + 1))
  /\ UNCHANGED <<smVars, closing, got, serverGone, recvVars, iqVars, begun, stack>>

\* One request at a time; beyond the ordinary, an answer nobody asked for.
ServerRequests ==
  /\ AtLoop /\ ~serverGone /\ managed
  /\ \A k \in DOMAIN inbox : inbox[k].type # "r"
  /\ \A k \in DOMAIN out : out[k].kind # "a"
  /\ \/ inbox' = Append(inbox, Arriving([type |-> "r", sub |-> "none", from |-> "none",
                                         what |-> "plain"], "none", 0))
     \/ /\ "unasked" \in Liberties
        /\ inbox' = Append(inbox, [type |-> "a", h |-> got])
  /\ UNCHANGED <<smVars, closing, serverVars, recvVars, iqVars, begun, stack>>

Others == <<recvVars, iqVars, begun, stack>>

\* The whole of the receiving side's steps.
ReceiveNext ==
  \/ ReceiveClosed \/ ReceiveStanza \/ FlushStep
  \/ DispatchEnds \/ DispatchCalls \/ DispatchToLibrary
  \/ \E handled \in BOOLEAN : HandlerReturns(handled)
  \/ \E h \in Handlers : Register(h) \/ Unregister(h)
  \/ EnableSaving \/ DisableSaving \/ SavingEnds
  \/ SendStanza \/ (\E i \in Iqs, to \in To : SendIq(i, to))
  \/ CloseAsync \/ PopUnacked
  \/ \E s \in Stanzas : ServerSends(s)
  \/ \E i \in Iqs, f \in From : ServerReplies(i, f)
  \/ ServerRequests
  \/ (AtLoop /\ ServerReads /\ UNCHANGED Others)
  \/ (AtLoop /\ ServerCloses /\ UNCHANGED Others)
  \/ (AtLoop /\ StreamBreaks /\ UNCHANGED Others)
-----------------------------------------------------------------------------
(* Properties. *)

ReceiveTypeOK ==
  /\ sent \in 0 .. MaxSent + MaxArriving /\ got \in 0 .. sent
  /\ ToSet(unacked) \cup fetched \subseteq 1 .. sent
  /\ serverSent \in 0 .. MaxArriving /\ counted \in 0 .. serverSent
  /\ ToSet(handlers) \subseteq Handlers \cup Library
  /\ {managed, closing, serverGone, saving, remoteClosed} \subseteq BOOLEAN
  /\ iqs \in [Iqs -> {"new", "pending", "answered", "aborted"}]
  /\ ToSet(begun) \subseteq 1 .. MaxArriving

\* Stanzas reach the handlers in the order they arrived, the unimportant ones
\* before any important one that came after them, and none waits once power
\* saving has ended, however the handlers switch the mode on the way
\* ("This preserves stanza ordering", wocky-c2s-porter.c:1868).
PowerSavingKeepsOrder ==
  /\ \A k \in DOMAIN begun : begun[k] = k
  /\ AtLoop /\ ~saving => held = <<>>
  /\ AtLoop => Len(begun) + Len(held) = counted

\* The walk over the handlers, whatever a handler does to the list: those of a
\* higher priority first, nobody twice, nobody who is no longer registered, and
\* every handler that matched and stayed registered before the stanza is given
\* up (handle_stanza).
InTurn(f) ==
  \A j, k \in DOMAIN f.offered : j < k =>
    /\ RuleOf(f.offered[j]).prio >= RuleOf(f.offered[k]).prio
    /\ f.offered[j] # f.offered[k]
Asking(f) == f.at \in ToSet(handlers) \/ f.freed
NobodyIsSkipped(f) ==
  f.at # None /\ EndsUnhandled(f) =>
    {h \in f.since : Matches(h, f.stanza)} \subseteq ToSet(f.offered)
EveryHandlerIsAsked ==
  /\ \A k \in DOMAIN stack : stack[k].fn = "dispatch" => InTurn(stack[k])
  /\ InUser => Asking(stack[2])
  /\ Running("dispatch") => NobodyIsSkipped(Head(stack))

\* A request is answered once, to the one who sent it: by the handler that
\* claimed it, or by the library when nobody did, unless the porter is closing
\* (handle_stanza, ping_iq_cb); the library answers nothing else.
RequestsAreAnswered ==
  [][LET s == Head(stack).stanza
         over == Running("dispatch") /\ Len(stack') < Len(stack)
         request == s.type = "iq" /\ s.sub \in {"get", "set"}
         answer == [kind |-> "stanza", what |-> <<"reply", s.n, s.from>>]
     IN /\ over /\ request /\ ~closing =>
             sent' = sent + 1 /\ Contains(out', answer) /\ ~Contains(out, answer)
        /\ over /\ ~request => sent' = sent
        /\ InUser => sent' = sent]_porterVars

\* An IQ is only completed by the one it was sent to, whoever else answers
\* first and whichever form of its own address the server uses (check_spoofing).
AnsweredByAddressee ==
  \A i \in Iqs : iqs[i] = "answered" => Speaker(answeredBy[i]) = Speaker(sentTo[i])

\* What the server is told has arrived, the handlers have been given: an answer
\* to <r/> never counts a stanza that waits in the power saving queue
\* (queue_or_handle_stanza, sm_r_cb).
AcksAreHandled ==
  \A k \in DOMAIN out : out[k].kind = "a" => out[k].h <= Len(begun)

\* Power saving puts off, and neither reorders nor loses nor acknowledges.
OrderIsKept == ReceiveTypeOK /\ PowerSavingKeepsOrder /\ AcksAreHandled

\* Requests and answers find each other, in both directions.
AnswersAreRight == []AnsweredByAddressee /\ RequestsAreAnswered

\* NothingIsLost and AcksAreMatched of StreamManagement, with the answers that
\* wait for a dispatch.
DeliveryIsAccounted ==
  /\ NothingIsLost
  /\ AcksAreMatched(Cardinality({k \in DOMAIN stack :
       stack[k].fn = "dispatch" /\ stack[k].stanza.type = "a" /\ stack[k].at # "sm_a"}))
=============================================================================
