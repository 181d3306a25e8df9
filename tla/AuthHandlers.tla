---------------------------- MODULE AuthHandlers ----------------------------
(***************************************************************************)
(* The mechanisms the auth registry may choose: SCRAM-SHA-1, DIGEST-MD5    *)
(* and PLAIN for SASL, a digest or the password for Jabber authentication. *)
(* SCRAM and DIGEST-MD5 end with a proof that the server knows the         *)
(* password as well; a handler's state says how far it has got.  What is   *)
(* computed is reduced to whose nonce it is made for and whether it fits.  *)
(*                                                                         *)
(* Operators named M_... are slips a maintainer could make in the          *)
(* definition that follows them; no property uses them.                    *)
(***************************************************************************)

MechanismNames == {"scram", "digest", "plain", "jabber digest", "jabber password"}
GivesPasswordAway == {"plain", "jabber password"}
Mutual == {"scram", "digest"}

Handlers ==
  [mech : {"scram"}, state : {"started", "first message", "final message", "finished"}]
  \cup [mech : {"digest"}, state : {"started", "sent auth response", "sent final response"}]
  \cup [mech : {"plain", "jabber digest", "jabber password"}, state : {"started"}]

\* What a server may say in a challenge or along with a success: a challenge for the client's
\* nonce, one for another client's, one with an extension that must be understood; the proof the
\* handler expects or another; or something that cannot be read or lacks what it needs.
Data == {"challenge", "foreign challenge", "extended challenge", "proof", "wrong proof", "nonsense"}

\* wocky_auth_handler_get_initial_response: what the handler is in when <auth/> is sent, and
\* whether a credential goes with it.
ScramInitialResponse(h) == [h EXCEPT !.state = "first message"]
InitialResponse(h) == IF h.mech = "scram" THEN ScramInitialResponse(h) ELSE h
BeginsWithCredential(h) == h.mech \notin Mutual
NewHandler(mech) == InitialResponse([mech |-> mech, state |-> "started"])

\* What a handler becomes on the data of a server, in a set that is empty if it refuses them.
ScramFirstMessage(h, d) ==
  {n \in {[h EXCEPT !.state = "final message"]} : d = "challenge"}
ScramFinalMessage(h, d) == {n \in {[h EXCEPT !.state = "finished"]} : d = "proof"}
ScramAuthData(h, d) ==
  CASE h.state = "first message" -> ScramFirstMessage(h, d)
    [] h.state = "final message" -> ScramFinalMessage(h, d)
    [] OTHER -> {}

\* DIGEST-MD5 takes the nonce of the challenge as it is, and passes over what it does not know.
DigestReadable(d) == d # "nonsense"
DigestFirstResponse(h, d) ==
  {n \in {[h EXCEPT !.state = "sent auth response"]} :
     d \in {"challenge", "foreign challenge", "extended challenge"}}
DigestServerResponse(h, d) == {n \in {[h EXCEPT !.state = "sent final response"]} : d = "proof"}
DigestAuthData(h, d) ==
  CASE ~DigestReadable(d) -> {}
    [] DigestReadable(d) /\ h.state = "started" -> DigestFirstResponse(h, d)
    [] DigestReadable(d) /\ h.state = "sent auth response" -> DigestServerResponse(h, d)
    [] OTHER -> {}

HandleAuthData(h, d) ==
  CASE h.mech = "scram" -> ScramAuthData(h, d)
    [] h.mech = "digest" -> DigestAuthData(h, d)
    [] OTHER -> {}

\* The handler has sent what shows that the client knows the password.
AwaitsProof(h) == h.state \in {"final message", "sent auth response"}

ScramSuccess(h) == h.state = "finished"
DigestSuccess(h) == h.state = "sent final response"
M_AnySuccess(h) == h.mech = "digest" => DigestSuccess(h)
HandleSuccess(h) ==
  /\ h.mech = "scram" => ScramSuccess(h)
  /\ h.mech = "digest" => DigestSuccess(h)
=============================================================================
