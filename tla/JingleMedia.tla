----------------------------- MODULE JingleMedia -----------------------------
(***************************************************************************)
(* What two wocky clients tell each other about one RTP content of a call: *)
(* the WockyJingleMediaRtp each of them keeps, with its codecs and those   *)
(* of the other side, and its transport, with its candidates and those of  *)
(* the other side.  The session is reduced to how far it has come; module  *)
(* Jingle models it.  The content belongs to the session from the start or *)
(* is added to an active one, in any of the dialects, over ICE-UDP, raw    *)
(* UDP or Google's transport.  A client in the dialect GTALK3 is one that  *)
(* knows no other.                                                         *)
(***************************************************************************)
EXTENDS Naturals, Sequences, FiniteSets, SequencesExt

CONSTANTS None,
  Codecs,      \* the codecs (id, name, clock rate, channels) the two clients have in common
  Strange,     \* a codec that no description has begun with
  Setups,      \* the calls looked at, as [transport, kinds, dialect, added, creator, old, extras,
               \*   caps, flaws]
  Liberties,   \* what a client or its application does although the other side cannot cope
  MaxCandidates, MaxUpdates, MaxForeign

ASSUME MediaAssumption ==
  /\ Strange \notin Codecs
  /\ MaxCandidates \in Nat /\ MaxUpdates \in Nat /\ MaxForeign \in Nat
  /\ Liberties \subseteq {"old client accepts first", "accept at once", "drop codec",
                     "broken last"}

VARIABLES
  call,    \* which of the Setups this is
  side,    \* what each client keeps
  chan,    \* the stanzas on their way to each client
  foreign  \* stanzas sent by a client that is not wocky

vars == <<call, side, chan, foreign>>

Peers == {"initiator", "responder"}
Other(p) == CHOOSE q \in Peers : q # p
Created(p) == call.creator = p

\* WockyJingleContentState, in its order; "none" before the content exists.
States == {"none", "empty", "new", "sent", "acknowledged"}

\* How far the session is: not initiated, initiated and not accepted, accepted.
Stages == {"created", "pending", "accepted"}

\* A candidate has a number and a kind, one of call.kinds: what sets it apart from an RTP candidate
\* over UDP, another user name (after ICE was restarted), another component or another protocol.
Candidate(n, kind) == [n |-> n, kind |-> kind]
Username(c) == IF c.kind = "restarted" THEN "new" ELSE "old"
Component(c) == CASE c.kind = "rtcp" -> 2 [] c.kind = "share" -> 3 [] OTHER -> 1

\* A description: the codecs with the version of their parameters.
Descriptions == UNION {[S -> 0..MaxUpdates] : S \in SUBSET (Codecs \cup {Strange}) \ {{}}}

\* What else a description may tell of, to a client that is known to understand it: call.extras[p]
\* is what the streaming implementation of p has, call.caps[p] what p has announced (query-cap).
Extras == {"hdrext", "fb"}

Content(state, dialect, stage) ==
  [state |-> state, dialect |-> dialect, stage |-> stage,
   accepted |-> FALSE,                      \* locally_accepted
   mediaReady |-> FALSE,
   haveCandidates |-> FALSE,                \* have_local_candidates
   connected |-> FALSE,                     \* the state of the transport
   local |-> None, remote |-> None,         \* local_ and remote_media_description: the codecs
   version |-> 0,
   extras |-> {},                           \* has_rtp_hdrext, has_rtcp_fb
   remoteExtras |-> {},                     \* hdrexts and feedback_msgs of the remote description
   candidates |-> <<>>,                     \* local_candidates
   pending |-> <<>>,                        \* those not transmitted yet: pending_candidates
   heard |-> <<>>,                          \* remote_candidates
   transportAccept |-> FALSE,               \* gtalk4_event_id
   failed |-> FALSE]                        \* an assertion

TypeOK ==
  /\ call \in Setups /\ foreign \in 0..MaxForeign
  /\ \A p \in Peers : LET s == side[p] IN
       /\ s.state \in States /\ s.stage \in Stages
       /\ s.dialect \in {"none", "v032", "v015", "gtalk4", "gtalk3"}
       /\ s.local \in Descriptions \cup {None} /\ s.remote \in Descriptions \cup {None}
       /\ s.extras \subseteq Extras /\ s.remoteExtras \subseteq Extras
       /\ s.state \in {"sent", "acknowledged"} => s.local # None
       /\ IF Created(p) THEN s.state \notin {"none", "new"} ELSE s.state \notin {"empty", "sent"}
       /\ IsSuffix(s.pending, s.candidates)

Init ==
  /\ call \in Setups
  /\ side = [p \in Peers |->
               Content(IF p = call.creator THEN "empty" ELSE "none",
                       CASE p = call.old -> "gtalk3"
                         [] call.added \/ p = call.creator -> call.dialect
                         [] OTHER -> "none",
                       IF call.added THEN "accepted" ELSE "created")]
  /\ chan = [p \in Peers |-> <<>>]
  /\ foreign = 0

-----------------------------------------------------------------------------
(* What a handler does to its content, w.s, and the stanzas it sends, w.out. *)

At(p) == [s |-> side[p], out |-> <<>>]

\* An action has another name in the dialects of Google, and is understood by any of its names.
IsGoogle(dialect) == dialect \in {"gtalk3", "gtalk4"}
ProduceAction(action, dialect) ==
  CASE IsGoogle(dialect) /\ action = "session-initiate"  -> "initiate"
    [] IsGoogle(dialect) /\ action = "session-accept"    -> "accept"
    [] IsGoogle(dialect) /\ action = "session-terminate" -> "terminate"
    [] dialect = "gtalk3" /\ action = "transport-info"   -> "candidates"
    [] OTHER -> action
ParseAction(name) ==
  CASE name = "initiate"               -> "session-initiate"
    [] name = "accept"                 -> "session-accept"
    [] name \in {"terminate", "reject"} -> "session-terminate"
    [] name = "candidates"             -> "transport-info"
    [] OTHER -> name

\* A stanza has a <jingle> or a <session> with the name of its action, the description of the
\* content, if any, and a transport node with the candidates, but for GTALK3 which has them in the
\* <session>.
Stanza(action, dialect, description, candidates) ==
  [name |-> ProduceAction(action, dialect),
   element |-> CASE IsGoogle(dialect) -> "session"
                 [] dialect = "v015"   -> "jingle of v015"
                 [] OTHER              -> "jingle",
   transport |-> action # "description-info" /\ dialect # "gtalk3",
   description |-> description, candidates |-> candidates]
Send(w, action, description, candidates) ==
  [w EXCEPT !.out = Append(@, Stanza(action, w.s.dialect, description, candidates))]

\* The dialect of a session-initiate (a call without video).
DetectGoogleDialect(m) == IF m.transport THEN "gtalk4" ELSE "gtalk3"
DetectDialect(m) ==
  CASE m.element = "jingle"         -> "v032"
    [] m.element = "jingle of v015" -> "v015"
    [] OTHER                        -> DetectGoogleDialect(m)

Does(p, w) ==
  /\ side' = [side EXCEPT ![p] = w.s]
  /\ chan' = [chan EXCEPT ![Other(p)] = @ \o w.out]

\* ICE-UDP sends together what has the same user name, one batch after the other.
Batches(cs) ==
  FoldLeft(LAMBDA acc, c :
             IF acc # <<>> /\ Username(Last(acc)[1]) = Username(c)
             THEN Front(acc) \o <<Append(Last(acc), c)>>
             ELSE Append(acc, <<c>>),
           <<>>, cs)
OverUdp(cs) == SelectSeq(cs, LAMBDA c : c.kind # "tcp")

\* Google's transport sends together what has the same component, if it has a name for it; the
\* last is put first.
ComponentNames == {1, 2}
Groups(cs) ==
  LET same(acc, c) == {i \in 1..Len(acc) : Component(acc[i][1]) = Component(c)}
      put(acc, c) == IF same(acc, c) = {} THEN <<<<c>>>> \o acc
                     ELSE [acc EXCEPT ![CHOOSE i \in same(acc, c) : TRUE] = <<c>> \o @]
  IN SelectSeq(FoldLeft(put, <<>>, cs), LAMBDA g : Component(g[1]) \in ComponentNames)

TransmitEach(w, groups) ==
  FoldLeft(LAMBDA v, g : Send(v, "transport-info", None, g), w, groups)

\* What is not transmitted yet, or everything; raw UDP has no such stanza.
SendIceUdp(w) ==
  LET b == Batches(w.s.pending)
  IN [TransmitEach(w, [i \in 1..Len(b) |-> OverUdp(b[i])]) EXCEPT !.s.pending = <<>>]
SendGoogle(w, all) ==
  [TransmitEach(w, Groups(IF all THEN w.s.candidates ELSE w.s.pending)) EXCEPT !.s.pending = <<>>]
SendCandidates(w, all) ==
  CASE call.transport = "iceudp" -> SendIceUdp(w)
    [] call.transport = "google" -> SendGoogle(w, all)
    [] OTHER -> w

\* The candidates that an initiate, add or accept carries: the first batch, all of them, or none.
InjectIceUdp(s) == IF s.pending = <<>> THEN <<>> ELSE Batches(s.pending)[1]
Injected(s) ==
  CASE call.transport = "iceudp" -> OverUdp(InjectIceUdp(s))
    [] call.transport = "rawudp" -> s.candidates
    [] OTHER -> <<>>
LeftToSend(s) ==
  IF call.transport = "google" THEN s.pending
  ELSE SubSeq(s.pending, Len(InjectIceUdp(s)) + 1, Len(s.pending))

\* A description names all codecs, or those whose parameters have changed (local_codec_updates),
\* and the extras that the other side has announced or told of itself.  A client that is not
\* wocky may have an item in it that is not as it should be, the flaw.
Description(codecs, extras, flaw) == [codecs |-> codecs, extras |-> extras, flaw |-> flaw]
Understands(p, w) == [w EXCEPT !.s.extras = @ \cup call.caps[Other(p)]]
ProducePayloadTypes(s, codecs) == [c \in codecs |-> s.local[c]]
ProduceDescription(p, s, changed) ==
  Description(ProducePayloadTypes(s, IF changed = {} THEN DOMAIN s.local ELSE changed),
              call.extras[p] \cap s.extras, None)
Describe(p, w, action, changed, candidates) ==
  LET v == Understands(p, w)
  IN Send(v, action, ProduceDescription(p, v.s, changed), candidates)

\* The content with its description and candidates, in a stanza of its own or in the session's.
Offer(p, w, action) ==
  [Describe(p, w, action, {}, Injected(w.s)) EXCEPT
     !.s.pending = LeftToSend(w.s),
     !.s.state = IF @ = "empty" THEN "sent" ELSE "acknowledged",
     !.s.failed = @ \/ (call.transport = "rawudp" /\ w.s.candidates = <<>>)]

CanAccept(s) == s.connected /\ (call.transport = "rawudp" => s.candidates # <<>>)
IsReady(p, s) ==
  s.mediaReady /\ IF Created(p) THEN s.state = "empty" /\ s.haveCandidates
                  ELSE s.state = "new" /\ CanAccept(s)

\* The session goes on when it may and its content is ready.
TryInitiateOrAccept(p, w) ==
  IF /\ w.s.stage = IF p = "initiator" THEN "created" ELSE "pending"
     /\ w.s.accepted /\ IsReady(p, w.s)
  THEN LET offered == Offer(p, w, IF p = "initiator" THEN "session-initiate" ELSE "session-accept")
       IN SendCandidates(
            [offered EXCEPT !.s.stage = IF p = "initiator" THEN "pending" ELSE "accepted"], FALSE)
  ELSE w

MaybeReady(p, w) ==
  IF ~IsReady(p, w.s) THEN w
  ELSE IF w.s.stage # "accepted" THEN TryInitiateOrAccept(p, w)
  ELSE SendCandidates(Offer(p, w, IF Created(p) THEN "content-add" ELSE "content-accept"), FALSE)

-----------------------------------------------------------------------------
(* What the streaming implementation does on the side of p. *)

Exists(p) == side[p].state # "none"

\* Raw UDP keeps the first candidates it is given, and has none that are pending.
NewLocalCandidates(s, cs) ==
  IF call.transport = "rawudp"
  THEN [s EXCEPT !.candidates = IF @ = <<>> THEN cs ELSE @]
  ELSE [s EXCEPT !.candidates = @ \o cs, !.pending = @ \o cs]

Added(p, cs) ==
  LET w == At(p)
      added == [w EXCEPT !.s = NewLocalCandidates(w.s, cs)]
      known == IF w.s.haveCandidates THEN added
               ELSE MaybeReady(p, [added EXCEPT !.s.haveCandidates = TRUE])
  IN IF known.s.state = "empty" THEN known ELSE SendCandidates(known, FALSE)

AddCandidates(p) ==
  /\ Exists(p)
  /\ \E n \in 1..2, k \in [1..2 -> call.kinds] :
       LET have == Len(side[p].candidates) IN
       /\ have + n <= MaxCandidates /\ (n = 1 => k[1] = k[2])
       /\ Does(p, Added(p, [i \in 1..n |-> Candidate(have + i, k[i])]))
  /\ UNCHANGED <<call, foreign>>

\* codec_update_coherent, for each codec of the new description
Coherent(old, new) == DOMAIN new \subseteq DOMAIN old
Changed(old, new) == {c \in DOMAIN new : new[c] # old[c]}

\* Only the dialect V032 has the stanza that tells of the codecs that have changed.
DefinesDescriptionInfo(dialect) == dialect = "v032"
M_TellBeforeAccepting(p, w, changed) ==
  IF w.s.state = "empty" \/ ~DefinesDescriptionInfo(w.s.dialect) THEN w
  ELSE Describe(p, w, "description-info", changed, <<>>)
MaybeSendDescription(p, w, changed) ==
  IF w.s.state \notin {"sent", "acknowledged"} \/ ~DefinesDescriptionInfo(w.s.dialect) THEN w
  ELSE Describe(p, w, "description-info", changed, <<>>)

\* jingle_media_rtp_set_local_media_description: FALSE, and nothing else, when it is not coherent
SetLocal(p, md, ready) ==
  LET w == At(p)
      old == w.s.local
      told == IF old # None /\ Changed(old, md) = {} THEN w
              ELSE MaybeSendDescription(p, [w EXCEPT !.s.local = md],
                                        IF old = None THEN DOMAIN md ELSE Changed(old, md))
  IN IF old # None /\ ~Coherent(old, md) THEN w
     ELSE IF ready THEN MaybeReady(p, [told EXCEPT !.s.mediaReady = TRUE]) ELSE told

\* The codecs the streaming implementation has, some with new parameters, and perhaps one it did
\* not have before.  A description with fewer codecs would replace the whole of the old one.
Proposals(p) ==
  LET old == side[p].local
      v == side[p].version
      smaller(D) == DOMAIN old \subseteq D \/ "drop codec" \in Liberties
  IN IF old = None THEN {[c \in Codecs |-> 0]}
     ELSE {[c \in D |-> IF c \in S THEN v + 1 ELSE IF c \in DOMAIN old THEN old[c] ELSE 0] :
             <<D, S>> \in {d \in (SUBSET (Codecs \cup {Strange}) \ {{}}) \X SUBSET Codecs :
                             d[2] \subseteq d[1] /\ smaller(d[1])}}

SetLocalDescription(p) ==
  /\ Exists(p) /\ side[p].version < MaxUpdates
  /\ \E md \in Proposals(p), ready \in BOOLEAN :
       LET w == SetLocal(p, md, ready)
       IN Does(p, [w EXCEPT !.s.version = IF side[p].local = None THEN 0 ELSE @ + 1])
  /\ UNCHANGED <<call, foreign>>

\* It matters only to the side that accepts the content.
SetTransportState(p) ==
  /\ Exists(p) /\ ~Created(p) /\ ~side[p].connected
  /\ Does(p, MaybeReady(p, [At(p) EXCEPT !.s.connected = TRUE]))
  /\ UNCHANGED <<call, foreign>>

\* wocky_jingle_session_accept; "old client accepts first" and "accept at once" are liberties.
Accept(p) ==
  /\ Exists(p) /\ ~call.added /\ ~side[p].accepted
  /\ side[p].transportAccept => "accept at once" \in Liberties
  /\ p = "responder" /\ p = call.old =>
       Groups(side[p].candidates) # <<>> \/ "old client accepts first" \in Liberties
  /\ Does(p, TryInitiateOrAccept(p, [At(p) EXCEPT !.s.accepted = TRUE]))
  /\ UNCHANGED <<call, foreign>>

\* send_gtalk4_transport_accept, from the main loop
SendTransportAccept(p) ==
  /\ side[p].transportAccept
  /\ Does(p, Send([At(p) EXCEPT !.s.transportAccept = FALSE], "transport-accept", None, <<>>))
  /\ UNCHANGED <<call, foreign>>

-----------------------------------------------------------------------------
(* The stanzas of the other side. *)

First(p, actions) == chan[p] # <<>> /\ ParseAction(Head(chan[p]).name) \in actions
Takes(p, w) ==
  /\ side' = [side EXCEPT ![p] = w.s]
  /\ chan' = [chan EXCEPT ![p] = Tail(@), ![Other(p)] = @ \o w.out]
  /\ UNCHANGED <<call, foreign>>

M_TakeTheUpdatesThatFit(s, d) ==
  IF s.remote = None THEN [s EXCEPT !.remote = d.codecs, !.remoteExtras = d.extras]
  ELSE [s EXCEPT !.remote = [c \in DOMAIN @ |->
                                  IF c \in DOMAIN d.codecs THEN d.codecs[c] ELSE @[c]]]
\* The first description is kept; those that follow change parameters, all of them or none.
UpdateRemote(s, d) ==
  IF s.remote = None THEN [s EXCEPT !.remote = d.codecs, !.remoteExtras = d.extras]
  ELSE IF ~Coherent(s.remote, d.codecs) THEN s
  ELSE [s EXCEPT !.remote = [c \in DOMAIN @ |->
                                  IF c \in DOMAIN d.codecs THEN d.codecs[c] ELSE @[c]]]

\* A payload type without an id, a header extension whose id is out of range, feedback without a
\* type: each makes the whole description invalid, but feedback inside a payload type is passed
\* over.  What comes before it has told which extras the other side understands.
Readable(flaw) == flaw \notin {"payload-type", "rtp-hdrext", "rtcp-fb"}
ParseDescription(s, d) ==
  LET told == [s EXCEPT !.extras = @ \cup d.extras]
  IN IF Readable(d.flaw) THEN UpdateRemote(told, d) ELSE told

\* An invalid candidate is passed over by ICE-UDP.  Google's transport and raw UDP stop at it and
\* refuse the stanza if there is another after it.
Broken(c) == c.kind = "broken"
HearIceUdp(s, cs) == [s EXCEPT !.heard = @ \o SelectSeq(cs, LAMBDA c : ~Broken(c))]
UpToBroken(cs) ==
  LET known == SelectSeq(cs, LAMBDA c : Component(c) \in ComponentNames)
      bad == {i \in 1..Len(known) : Broken(known[i])}
  IN IF bad = {} THEN known
     ELSE IF Broken(Last(cs)) /\ Cardinality(bad) = 1 THEN Front(known) ELSE <<>>
HearGoogle(s, cs) == [s EXCEPT !.heard = @ \o UpToBroken(cs)]
HearRawUdp(s, cs) == IF s.heard # <<>> THEN s ELSE [s EXCEPT !.heard = UpToBroken(cs)]
Hear(s, cs) ==
  CASE call.transport = "iceudp" -> HearIceUdp(s, cs)
    [] call.transport = "google" -> HearGoogle(s, cs)
    [] OTHER -> HearRawUdp(s, cs)

\* A session begins with the dialect of its session-initiate (create_session, parse_add).
ReceiveOffer(p) ==
  /\ First(p, {"session-initiate", "content-add"})
  /\ LET m == Head(chan[p])
         s == side[p]
         heard == Hear(ParseDescription(s, m.description), m.candidates)
         dialect == IF p = call.old THEN s.dialect ELSE DetectDialect(m)
     IN Takes(p, [At(p) EXCEPT !.s =
          [heard EXCEPT !.state = "new", !.dialect = dialect,
                        !.transportAccept = (dialect = "gtalk4"),
                        !.stage = IF call.added THEN @ ELSE "pending"]])

\* parse_accept
ReceiveAccept(p) ==
  /\ First(p, {"session-accept", "content-accept"})
  /\ LET m == Head(chan[p])
         heard == Hear(ParseDescription(side[p], m.description), m.candidates)
     IN Takes(p, IF side[p].state # "sent" THEN At(p)
                 ELSE [At(p) EXCEPT !.s =
                   [heard EXCEPT !.state = "acknowledged", !.stage = "accepted",
                                 !.dialect = IF IsGoogle(@) /\ ~m.transport THEN "gtalk3" ELSE @]])

\* description-info, which means nothing before the other side's codecs are known
Meaningless(p, s) == Created(p) /\ s.state \in {"empty", "sent"}
ReceiveDescriptionInfo(p) ==
  /\ First(p, {"description-info"})
  /\ Takes(p, IF Meaningless(p, side[p]) THEN At(p)
              ELSE [At(p) EXCEPT !.s = ParseDescription(@, Head(chan[p]).description)])

\* on_transport_info: candidates in the form of GTALK3 betray a client that has understood none of
\* ours, and a client in that dialect finds none in a stanza of another form.
M_SwitchOnly(p, m) ==
  [At(p) EXCEPT !.s = Hear([@ EXCEPT !.dialect = "gtalk3"], m.candidates)]
Switched(p, m) ==
  LET w == SendCandidates([At(p) EXCEPT !.s.dialect = "gtalk3"], TRUE)
  IN [w EXCEPT !.s = Hear(@, m.candidates)]
ReceiveTransportInfo(p) ==
  /\ First(p, {"transport-info"})
  /\ LET m == Head(chan[p]) IN
     Takes(p, CASE side[p].dialect = "gtalk4" /\ m.name = "candidates" -> Switched(p, m)
                [] side[p].dialect = "gtalk3" /\ m.transport -> At(p)
                [] OTHER -> [At(p) EXCEPT !.s = Hear(@, m.candidates)])

ReceiveTransportAccept(p) ==
  First(p, {"transport-accept"}) /\ Takes(p, At(p))

\* A client that is not wocky tells of new parameters and, in the same stanza, of a new codec, with
\* a flaw or without; or of candidates of which one is invalid.
ForeignStanzas ==
  IF DefinesDescriptionInfo(call.dialect)
  THEN {Stanza("description-info", call.dialect,
               Description([c \in Codecs \cup {Strange} |-> MaxUpdates], {"hdrext"}, flaw), <<>>) :
          flaw \in call.flaws}
  ELSE {}
ForeignCandidates ==
  LET good == Candidate(0, "rtp") bad == Candidate(0, "broken")
      orders == {<<bad, good>>} \cup IF "broken last" \in Liberties THEN {<<good, bad>>} ELSE {}
  IN IF call.transport = "rawudp" \/ call.old # None THEN {}
     ELSE {Stanza("transport-info", call.dialect, None, cs) : cs \in orders}
SendForeign(p) ==
  /\ foreign < MaxForeign /\ p = "initiator"
  /\ side[p].state = "acknowledged" /\ side[p].remote # None
  /\ \E m \in ForeignStanzas \cup ForeignCandidates : chan' = [chan EXCEPT ![p] = Append(@, m)]
  /\ foreign' = foreign + 1
  /\ UNCHANGED <<call, side>>

Next ==
  \/ \E p \in Peers : AddCandidates(p)
  \/ \E p \in Peers : SetLocalDescription(p)
  \/ \E p \in Peers : SetTransportState(p)
  \/ \E p \in Peers : Accept(p)
  \/ \E p \in Peers : SendTransportAccept(p)
  \/ \E p \in Peers : ReceiveOffer(p)
  \/ \E p \in Peers : ReceiveAccept(p)
  \/ \E p \in Peers : ReceiveDescriptionInfo(p)
  \/ \E p \in Peers : ReceiveTransportInfo(p)
  \/ \E p \in Peers : ReceiveTransportAccept(p)
  \/ \E p \in Peers : SendForeign(p)

Spec == Init /\ [][Next]_vars

-----------------------------------------------------------------------------
(* Properties. *)

OnTheWay(p, actions) == \E i \in 1..Len(chan[p]) : ParseAction(chan[p][i].name) \in actions

\* What one side knows of the other's codecs is what the other has set, as soon as no description
\* is on its way: the updates that are told in part (local_codec_updates), those made before there
\* was anybody to tell, and those that were refused leave both sides with the same parameters.
CodecsAgree ==
  \A p \in Peers :
    LET s == side[p] o == side[Other(p)] IN
    DefinesDescriptionInfo(call.dialect) /\ s.remote # None
      /\ ~OnTheWay(p, {"content-accept", "session-accept", "description-info"})
    => s.remote = o.local

\* A client is told of header extensions and feedback only if it has announced them or has told of
\* them itself.  An invalid description betrays what its sender understands, too.
ExtrasAreUnderstood ==
  \A p \in Peers : foreign = 0 =>
    \A i \in 1..Len(chan[p]) : LET d == chan[p][i].description IN
      d # None => d.extras \subseteq call.extras[Other(p)] \cap (call.caps[p] \cup call.extras[p])

\* The descriptions the two sides keep of each other fit what each of them has.
DescriptionsAgree == CodecsAgree /\ ExtrasAreUnderstood

\* What the other side can use of the candidates.
Usable(p) ==
  SelectSeq(side[p].candidates,
    LAMBDA c : CASE call.transport = "iceudp" -> c.kind # "tcp"
                 [] OTHER -> c.kind # "share")

\* Every local candidate reaches the other side, once, however it was to be sent: with the stanza
\* that offers or accepts the content, after it, when it came late, or again for a client whose
\* dialect was found out only after it had been sent.  pending_candidates, the state of the
\* content and the injected candidates have to fit together for that.
CandidatesArrive ==
  \A p \in Peers :
    LET told == side[p].state \in {"sent", "acknowledged"}
                  \/ (side[p].state = "new" /\ call.transport # "rawudp")
        understood == side[p].dialect = "gtalk4" => call.old # Other(p)
        heard == SelectSeq(side[Other(p)].heard, LAMBDA c : c.n > 0)
    IN told /\ understood /\ chan[Other(p)] = <<>>
       => Len(heard) = Len(Usable(p)) /\ ToSet(heard) = ToSet(Usable(p))

\* Google's transport takes the candidates of a stanza, or refuses them all ("rollback these").
AllOrNone ==
  call.transport = "google" => \A p \in Peers : \A c \in ToSet(side[p].heard) : c.n > 0

\* The candidates of a content arrive: all of them, once, or as many as the stanza that was refused.
CandidatesAreShared == TypeOK /\ CandidatesArrive /\ AllOrNone

\* A content that has all it needs is offered or accepted at once, unless the session waits for
\* the application: nobody will come back to it.  The media, the first candidate, the transport
\* and the peer's stanza arrive in any order, and each of them may be the last.
ReadyIsSignalled ==
  \A p \in Peers : IsReady(p, side[p]) =>
    /\ side[p].stage # "accepted" /\ ~side[p].accepted

\* The assertion of inject_candidates: raw UDP has candidates when it has to tell of them.
InjectHasCandidates == \A p \in Peers : ~side[p].failed

\* Whatever wocky sends, wocky takes: the content is there when its transport is talked about, an
\* update fits the codecs the other side knows of, and the session allows the action.
NothingIsRefused ==
  \A p \in Peers : chan[p] # <<>> =>
    LET m == Head(chan[p]) s == side[p] action == ParseAction(m.name) IN
    CASE action \in {"session-initiate", "content-add"} -> s.state = "none"
      [] action \in {"session-accept", "content-accept"} -> s.state = "sent"
      [] action = "description-info" ->
           LET codecs == m.description.codecs
           IN Strange \notin DOMAIN codecs => s.remote # None /\ Coherent(s.remote, codecs)
      [] action = "transport-accept" -> s.stage = "pending"
      [] OTHER -> s.state # "none"

\* A content is offered, accepted and described when it has all it needs, and not before.
OffersAreTimely == ReadyIsSignalled /\ InjectHasCandidates /\ NothingIsRefused
=============================================================================
