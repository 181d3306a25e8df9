------------------------- MODULE StreamManagement -------------------------
(***************************************************************************)
(* WockySM (wocky-sm.c): the acknowledgements of XEP-0198 over one stream. *)
(* After every stanza it is given to send, the porter sends a request      *)
(* <r/>; the server answers each request with <a h="n"/>.  WockySM keeps   *)
(* the stanzas no answer has come for, so that the application can fetch   *)
(* them when the stream is lost.  It never compares h with anything: one   *)
(* answer stands for one request.                                          *)
(*                                                                         *)
(* Outgoing stanzas are numbered in the order send_async took them, which  *)
(* is the order they are written in (OrderedSending).                      *)
(***************************************************************************)
EXTENDS Integers, FiniteSets, SequencesExt

CONSTANTS
  None,         \* no value; a model value
  MaxSent       \* bound: the stanzas the client sends

VARIABLES
  managed,      \* priv->sm exists
  closing,      \* close_result is set: send_async refuses
  sent,         \* the number of stanzas send_async has taken
  unacked,      \* WockySM's stanzas, by number, oldest first
  fetched,      \* the stanzas the application took back
  out,          \* what is on its way to the server
  got,          \* the number of stanzas the server has read
  inbox,        \* what is on its way to the client
  serverSent,   \* the number of stanzas, <r/> and <a/> apart, the server sent
  serverGone    \* the server has ended the stream, or the stream broke

smVars == <<managed, sent, unacked, fetched, out>>
serverVars == <<got, serverSent, serverGone>>

Request == [kind |-> "r"]
Answer(h) == [kind |-> "a", h |-> h]
Carrying(what) == [kind |-> "stanza", what |-> what]

-----------------------------------------------------------------------------
\* The stanza and then, with stream management, the request for its answer.
AndRequest(s) == IF managed THEN <<s, Request>> ELSE <<s>>

\* wocky_sm_request_for_stanza numbers the stanza, keeps it and sends <r/>.
Keep == IF managed THEN Append(unacked, sent + 1) ELSE unacked

\* send_async: refused once a close is under way.
Send(what) ==
  IF closing
    THEN UNCHANGED <<sent, unacked, out>>
    ELSE /\ sent' = sent + 1
         /\ unacked' = Keep
         /\ out' = out \o AndRequest(Carrying(what))

\* <r/> and <a/> themselves are sent without a request.
SendAnswer(h) == out' = IF closing THEN out ELSE Append(out, Answer(h))

\* sm_a_cb: an answer stands for the oldest stanza, whatever it counts.
M_TakeNewest == IF unacked = <<>> THEN unacked ELSE Front(unacked)
TakeAnswer == IF unacked = <<>> THEN unacked ELSE Tail(unacked)

\* wocky_c2s_porter_pop_unacked_stanzas, once the stream has ended.
Fetch == fetched' = fetched \cup {Head(unacked)}

-----------------------------------------------------------------------------
\* The server reads the next thing the client wrote, and answers a request.
ServerReads ==
  /\ ~serverGone /\ out # <<>>
  /\ out' = Tail(out)
  /\ got' = got + (IF Head(out).kind = "stanza" THEN 1 ELSE 0)
  /\ inbox' = IF Head(out).kind = "r"
                THEN Append(inbox, [type |-> "a", h |-> got])
                ELSE inbox
  /\ UNCHANGED <<managed, closing, sent, unacked, fetched, serverSent, serverGone>>

\* The server ends the stream: everything it sent before arrives.
ServerCloses ==
  /\ ~serverGone
  /\ serverGone' = TRUE
  /\ inbox' = Append(inbox, [type |-> "closed"])
  /\ UNCHANGED <<closing, got, serverSent>>
  /\ UNCHANGED smVars

\* The stream breaks: what was under way is lost, in both directions.
StreamBreaks ==
  /\ ~serverGone
  /\ serverGone' = TRUE
  /\ out' = <<>>
  /\ \E k \in 0 .. Len(inbox) :
       inbox' = Append(SubSeq(inbox, 1, k), [type |-> "closed"])
  /\ UNCHANGED <<managed, closing, sent, unacked, fetched, got, serverSent>>

-----------------------------------------------------------------------------
\* A stanza sent with stream management is never lost: until the server has
\* read it the application can get it back from the porter.
NothingIsLost ==
  managed => (got + 1) .. sent \subseteq ToSet(unacked) \cup fetched

\* Nothing is kept for ever: while the stream lives, and nothing was taken back,
\* every stanza kept has its request or its answer under way.
Waiting(seq, n) == Cardinality({k \in DOMAIN seq : n[k]})
AcksAreMatched(answersHeld) ==
  managed /\ ~serverGone /\ fetched = {} =>
    Len(unacked) = Waiting(out, [k \in DOMAIN out |-> out[k].kind = "r"])
                   + Waiting(inbox, [k \in DOMAIN inbox |-> inbox[k].type = "a"])
                   + answersHeld
=============================================================================
