---------------------------- MODULE TlsBackends ----------------------------
(***************************************************************************)
(* Both back ends of a TLS session under the same application, base stream *)
(* and peer: what they promise is one list of properties.                  *)
(***************************************************************************)
EXTENDS GnuTls, OpenSsl

ReadReady(data, failed) ==
  LET t == [s EXCEPT !.in = 0, !.inBy = None] IN
  IF backend = "gnutls" THEN GnuReadReady(t, data, failed) ELSE SslReadReady(t, data, failed)
WriteReady(n, again) ==
  LET t == [s EXCEPT !.out = <<>>, !.outBy = None] IN
  IF backend = "gnutls" THEN GnuWriteReady(t, n) ELSE SslWriteReady(t, n, again)

TypeOK ==
  /\ backend \in Backends /\ server \in BOOLEAN
  /\ DOMAIN s = DOMAIN IF backend = "gnutls" THEN GnuSession ELSE SslSession
  /\ s.active \subseteq Jobs /\ s.cancelled \subseteq s.active
  /\ s.step \in 1..5 /\ s.dead \subseteq {"in", "out"} /\ s.sane
  /\ {s.outBy, s.inBy} \subseteq s.active \cup {None}
  /\ (s.out # <<>> => s.active # {}) /\ (s.in > 0 <=> s.inBy # None)
  /\ calls \in [Jobs -> 0..MaxReads + MaxWrites + 1] /\ faults \in 0..MaxFaults
  /\ blame \subseteq Jobs \cup {"base", "peer"}
  /\ verdict \in {None, "accepted", "refused"} /\ ignore \in BOOLEAN

Init ==
  /\ backend \in Backends /\ server \in BOOLEAN
  /\ s = IF backend = "gnutls" THEN GnuSession ELSE SslSession
  /\ calls = [j \in Jobs |-> 0]
  /\ incoming = <<>> /\ sent = 0 /\ hungUp = FALSE /\ wire = <<>>
  /\ blame = {} /\ faults = 0 /\ failures = 0
  /\ peer = None /\ ignore = FALSE /\ verdict = None

Waiting(j) == calls[j] > s.answers[j]
Ask(j) ==
  /\ ~Waiting(j)
  /\ calls' = [calls EXCEPT ![j] = @ + 1]
  /\ UNCHANGED <<backend, server, base, wire, blame, faults, failures>>
  /\ Forgotten

HandshakeAsync ==
  /\ calls["handshake"] = 0 /\ Ask("handshake")
  /\ s' = IF backend = "gnutls" THEN GnuTryOperation(JobStart(s, "handshake"), "handshake", 0)
          ELSE SslHandshakeAsync(s)

Status(cert, ids, level) ==
  IF backend = "gnutls" THEN GnuStatus(cert, ids, level) ELSE SslStatus(cert, ids, level)

Presented ==
  {None} \cup {cert \in Certificates :
                 /\ Len(cert.names) > 1 => "many names" \in Liberties
                 /\ backend = "gnutls" /\ cert.crl = "file" => "crl file" \in Liberties}
VerifyPeer ==
  /\ Checking
  /\ \E cert \in Presented, forgiving \in BOOLEAN, ids \in Identities :
       LET status == Status(cert, NamesChecked(ids, forgiving), Level(forgiving)) IN
       /\ peer' = [cert |-> cert, ids |-> ids] /\ ignore' = forgiving
       /\ verdict' = IF Accepts(status, forgiving) THEN "accepted" ELSE "refused"
  /\ UNCHANGED <<backend, server, s, calls, base, wire, blame, faults, failures>>

ReadAsync(n) ==
  /\ verdict = "accepted" /\ calls["read"] < MaxReads /\ Ask("read")
  /\ LET t == [s EXCEPT !.count = n] IN
     s' = IF backend = "gnutls" THEN GnuTryOperation(JobStart(t, "read"), "read", 0)
          ELSE SslReadAsync(t)

WriteAsync(n) ==
  /\ verdict = "accepted" /\ calls["write"] < MaxWrites /\ Ask("write")
  /\ backend = "openssl" /\ "read" \in s.cancelled => "cancel read" \in Liberties
  /\ s' = IF backend = "gnutls" THEN GnuTryOperation(JobStart(s, "write"), "write", n)
          ELSE SslWriteAsync(s, n)

\* The idle callback of a read that OpenSSL had the text for.
ReadInIdle ==
  /\ backend = "openssl" /\ s.idle
  /\ s' = [Left(Answer(s, "read", TRUE, Taken(s))) EXCEPT !.idle = FALSE,
                                                    !.error["read"] = s.error["read"]]
  /\ UNCHANGED <<backend, server, calls, base, wire, blame, faults, failures>>
  /\ Forgotten

\* The base stream's operations end: with some bytes, at the end of the stream, or failed.
BaseRead ==
  /\ s.in > 0
  /\ \E n \in 1..Len(incoming) :
       /\ n <= s.in
       /\ s' = ReadReady(SubSeq(incoming, 1, n), FALSE)
       /\ incoming' = SubSeq(incoming, n + 1, Len(incoming))
  /\ UNCHANGED <<backend, server, calls, sent, hungUp, wire, blame, faults, failures>>
  /\ Forgotten
BaseEnds ==
  /\ s.in > 0 /\ hungUp /\ incoming = <<>>
  /\ s' = ReadReady(<<>>, FALSE) /\ failures' = failures + 1
  /\ UNCHANGED <<backend, server, calls, base, wire, blame, faults>>
  /\ Forgotten
BaseReadFails ==
  /\ s.in > 0 /\ Fails(s.inBy)
  /\ s' = ReadReady(<<>>, TRUE)
  /\ UNCHANGED <<backend, server, calls, base, wire>>
  /\ Forgotten
BaseWrite ==
  /\ \E n \in 1..Len(s.out) :
       /\ s' = WriteReady(n, FALSE)
       /\ wire' = wire \o SubSeq(s.out, 1, n)
  /\ UNCHANGED <<backend, server, calls, base, blame, faults, failures>>
  /\ Forgotten
BaseWriteFails ==
  /\ s.out # <<>> /\ Fails(s.outBy)
  /\ backend = "openssl" /\ "handshake" \in s.active => "lost greeting" \in Liberties
  /\ s' = WriteReady(-1, FALSE)
  /\ UNCHANGED <<backend, server, calls, base, wire>>
  /\ Forgotten
\* OpenSSL's session takes "would block" for no failure.
BaseWriteBlocks ==
  /\ backend = "openssl" /\ s.out # <<>> /\ faults < MaxFaults
  /\ "handshake" \in s.active => "lost greeting" \in Liberties
  /\ s' = WriteReady(-1, TRUE) /\ faults' = faults + 1
  /\ UNCHANGED <<backend, server, calls, base, wire, blame, failures>>
  /\ Forgotten

Next ==
  \/ HandshakeAsync \/ VerifyPeer
  \/ \E n \in 1..2 : ReadAsync(n) \/ WriteAsync(n)
  \/ ReadInIdle
  \/ BaseRead \/ BaseWrite \/ BaseEnds \/ BaseReadFails \/ BaseWriteFails \/ BaseWriteBlocks
  \/ PeerSends \/ PeerHangsUp
  \/ \E j \in Jobs : Cancel(j)

Spec == Init /\ [][Next]_vars

-----------------------------------------------------------------------------
(* Properties *)

\* What reaches the peer is what the engine made, whole, in order and once, however the base stream
\* cuts it up; what the application reads is what the peer sent, likewise.
InOrder ==
  /\ wire = Numbers(0, Len(wire)) /\ Len(wire) <= s.made
  /\ s.delivered = Numbers(Greetings, Len(s.delivered))
  /\ Len(s.delivered) <= sent - Greetings \/ s.delivered = <<>>

\* A call is answered once, and until then something is under way that will answer it: the base read
\* or write it needs, or an idle callback.  No base operation goes on for nobody.
CallsAreOnTheirWay ==
  /\ \A j \in Jobs : calls[j] - s.answers[j] \in {0, 1}
  /\ Waiting("handshake") => s.in > 0 \/ s.out # <<>>
  /\ Waiting("write") => s.out # <<>>
  /\ Waiting("read") => s.in > 0 \/ (backend = "openssl" /\ s.idle)
  /\ s.active = {} => s.in = 0 /\ s.out = <<>>

\* A write is answered with success only when all of it is on the wire; a handshake, when the peer has
\* all our flights and we have all of its; a read with the end, only when there is nothing more.
SuccessIsTrue ==
  /\ s.answers["handshake"] = 1 /\ ~s.failed["handshake"] => Len(wire) >= 4 /\ s.opened >= Greetings
  /\ s.answers["write"] > 0 /\ ~Waiting("write") /\ "out" \notin s.dead /\ blame = {}
     => wire = Numbers(0, s.made)
  /\ s.ended => hungUp /\ (incoming = <<>> \/ s.dead # {})

\* A job is told of an error only if it was cancelled, the base stream failed or the peer gave cause.
ErrorsAreReal ==
  \A j \in Jobs : s.failed[j] => blame \cap {"base", "peer", j} # {}

\* The session is a stream: it carries what it is given and says truly how far it has come.
StreamIsTrue == TypeOK /\ InOrder /\ SuccessIsTrue /\ ErrorsAreReal

\* The certificate of a peer that is let in has no fault and one of the names, revocation told by a
\* list that was loaded; ignoring errors still keeps a revoked one out, unless who signed it is in
\* question.  One that is in order is let in, and a peer with no certificate only by the careless.
SoundFor(cert, ids) ==
  LET known == FaultsFound(cert, cert.ca # "missing", cert.crl # "missing")
      names == Range(cert.names)
      NamedBy(some) == \E id \in Range(ids) : \E name \in some : Covers(name, id)
      inOrder == known = {} /\ "illegal" \notin names \cup {cert.cn} /\ NamedBy(names)
  IN  /\ verdict = "accepted" /\ ~ignore => known = {} /\ NamedBy(names \cup {cert.cn})
      /\ verdict = "accepted" /\ "revoked" \in known =>
           known \cap {"unknown signer", "self-signed", "bad signer"} # {}
      /\ inOrder => verdict = "accepted"
VerdictsAreSound ==
  peer # None =>
    IF peer.cert = None THEN verdict = "accepted" => ignore ELSE SoundFor(peer.cert, peer.ids)

\* A base operation that fails, or finds the end of the stream, is not tried again: the job it was for
\* is answered there and then.
FailuresAreTold ==
  [][failures' > failures => \E j \in Jobs : s'.answers[j] > s.answers[j]]_vars

\* Every call has somebody who will answer it, and is answered as soon as there is a reason to.
CallsAreAnswered == []CallsAreOnTheirWay /\ FailuresAreTold
=============================================================================
