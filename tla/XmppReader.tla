----------------------------- MODULE XmppReader -----------------------------
(***************************************************************************)
(* WockyXmppReader (wocky-xmpp-reader.c) in streaming mode: what pushing a *)
(* chunk of bytes into the parser, popping a stanza and a reset do to it.  *)
(*                                                                         *)
(* Bytes come as tokens: the opening of a stream, a stanza, </stream>, and *)
(* "junk" for anything that is not well-formed XML.  (A fragment of a      *)
(* token changes nothing that a caller can see.)                           *)
(***************************************************************************)
EXTENDS Naturals, Sequences, SequencesExt

CONSTANTS Incoming,  \* the stanzas the peer may send
          Acks,      \* those that are <r/> or <a/> of stream management
          None       \* the NULL pointer

ASSUME ReaderAssumption ==
  /\ Acks \subseteq Incoming
  /\ None \notin Incoming /\ None \notin [stanza : Incoming, count : Nat]
  /\ {"open", "close", "junk"} \cap Incoming = {}

Tokens == Incoming \cup {"open", "close", "junk"}

(* The queue of stanzas ends with the NULL entry None when the stream is   *)
(* over.  "parser" is where the XML parser is: before the root element,    *)
(* inside it, after it, or stopped by an error.                            *)
Entries == [stanza : Incoming, count : Nat]
Readers == [state  : {"initial", "opened", "closed", "error"},
            queue  : Seq(Entries \cup {None}),
            error  : BOOLEAN,
            parser : {"prolog", "stream", "ended", "dead"},
            count  : Nat]

NewReader == [state |-> "initial", queue |-> <<>>, error |-> FALSE,
              parser |-> "prolog", count |-> 0]

(* handle_stream_open *)
StreamOpen(r) == [r EXCEPT !.state = "opened", !.parser = "stream"]

(* _end_element_ns of a stanza: it is stamped with the number of stanzas   *)
(* received so far, acknowledgements and their requests left out.          *)
EndStanza(r, s) ==
  LET n == IF s \in Acks THEN r.count ELSE r.count + 1 IN
  [r EXCEPT !.count = n, !.queue = Append(@, [stanza |-> s, count |-> n])]

(* _end_element_ns of the stream, and _error or a wrong root element.  The *)
(* parser stops at an error; after a wrong root it goes on, but whatever   *)
(* it queues comes after the marker and is never looked at.                *)
EndStream(r) == [r EXCEPT !.parser = "ended", !.queue = Append(@, None)]
ParseError(r) == [r EXCEPT !.parser = "dead", !.error = TRUE,
                           !.queue = Append(@, None)]

Parse(r, t) ==
  CASE r.parser = "dead"                     -> r
    [] r.parser = "prolog" /\ t = "open"     -> StreamOpen(r)
    [] r.parser = "stream" /\ t = "close"    -> EndStream(r)
    [] r.parser = "stream" /\ t \in Incoming -> EndStanza(r, t)
    [] OTHER                                 -> ParseError(r)

(* wocky_xmpp_reader_check_eos *)
M_CheckEos(r) ==
  IF Contains(r.queue, None)
    THEN [r EXCEPT !.state = IF r.error THEN "error" ELSE "closed"]
    ELSE r
CheckEos(r) ==
  IF r.queue # <<>> /\ Head(r.queue) = None
    THEN [r EXCEPT !.state = IF r.error THEN "error" ELSE "closed"]
    ELSE r

Over(r) == r.state \in {"closed", "error"}

(* The tokens of a chunk are parsed in turn. *)
Parsed(r, chunk) ==
  LET after[k \in 0 .. Len(chunk)] ==
        IF k = 0 THEN r ELSE Parse(after[k - 1], chunk[k])
  IN after[Len(chunk)]

Push(r, chunk) == IF Over(r) THEN r ELSE CheckEos(Parsed(r, chunk))

Peek(r) == IF r.queue = <<>> THEN None ELSE Head(r.queue)

Pop(r) == IF r.queue = <<>> THEN r ELSE CheckEos([r EXCEPT !.queue = Tail(@)])

(* The count of stanzas survives a reset. *)
Reset(r) == [NewReader EXCEPT !.count = r.count]

=============================================================================
