----------------------------- MODULE TlsSession -----------------------------
(***************************************************************************)
(* A TLS session over a base stream: what wocky-tls.c (GnuTLS) and         *)
(* wocky-openssl.c (OpenSSL), one of which a build takes, have in common.  *)
(* It is a handshake job, then read and write jobs, each served by         *)
(* asynchronous reads and writes of the base stream; a check of the peer's *)
(* certificate comes between.  GnuTls and OpenSsl translate the two        *)
(* files; TlsBackends checks them against the same properties.             *)
(*                                                                         *)
(* Encryption keeps the order and the framing: bytes are numbered as they  *)
(* are produced, and two of them make a record on the way in.              *)
(***************************************************************************)
EXTENDS Integers, Sequences, SequencesExt, FiniteSets

CONSTANTS None,
  Backends,     \* the builds looked at: subsets of {"gnutls", "openssl"}
  Liberties,    \* what goes beyond what the code copes with: "lost greeting" fails a base write
                \* during an OpenSSL handshake, "cancel read" cancels a read while OpenSSL
                \* writes, "many names" checks certificates with two names, "crl file" gives
                \* GnuTLS a revocation list as a file
  MaxWrites, MaxReads,   \* jobs of the application
  MaxData,      \* records of data from the peer
  MaxFaults     \* base operations that fail, and jobs cancelled

ASSUME TlsAssumption ==
  /\ Backends \subseteq {"gnutls", "openssl"}
  /\ Liberties \subseteq {"lost greeting", "cancel read", "many names", "crl file"}
  /\ {MaxWrites, MaxReads, MaxData, MaxFaults} \subseteq Nat

Jobs == {"handshake", "read", "write"}

\* What a session does to shake hands: it writes a flight, or reads a record of the peer's.
Script(server) ==
  IF server THEN <<"read", "write", "read", "write">> ELSE <<"write", "read", "write", "read">>

Bye == 0          \* the peer's notice of closure
Garbage == -1     \* a record that does not decrypt, or an alert
Greetings == 4    \* bytes of the peer's handshake

VARIABLES
  backend, server,  \* which build, and which side we are on
  s,                \* the session: see Session
  calls,            \* jobs asked for, by kind
  incoming, sent, hungUp,   \* the base stream's input: bytes not read, how many were sent, its end
  wire,             \* what the peer has received
  blame,            \* what has gone wrong around the session: "base", "peer", or a job cancelled
  faults, failures, \* of those, and of the base operations that failed or found the end, how many
  peer, ignore, verdict   \* the certificate looked at, whether errors are ignored, the decision

base == <<incoming, sent, hungUp>>
check == <<peer, ignore, verdict>>
vars == <<backend, server, s, calls, base, wire, blame, faults, failures, check>>

-----------------------------------------------------------------------------
(* The session's own state; each back end adds fields of its own. *)

Session ==
  [active |-> {},                          \* the jobs that run
   error |-> [j \in Jobs |-> FALSE],       \* job->error is set
   answers |-> [j \in Jobs |-> 0],         \* how often a callback was called
   failed |-> [j \in Jobs |-> FALSE],      \* and whether it was last told of an error
   cancelled |-> {},                       \* jobs whose cancellable is triggered
   out |-> <<>>, outBy |-> None,           \* the base write under way, and whose cancellable it has
   in |-> 0, inBy |-> None,                \* the bytes the base read under way may return
   count |-> 0,                            \* read_job.count
   step |-> 1, made |-> 0, opened |-> 0,   \* the engine: its script, bytes produced and decrypted,
   plain |-> <<>>, over |-> FALSE, dead |-> {},   \* plain text not read, closed by the peer, broken
   delivered |-> <<>>, ended |-> FALSE,    \* what the application has read, and whether to the end
   sane |-> TRUE]                          \* no assertion has failed

Flat(fields) == fields @@ Session

\* The job is over: the callback runs, with an error if one is set or the engine failed.
Answer(t, j, ok, data) ==
  LET good == ok /\ ~t.error[j] IN
  [t EXCEPT !.active = @ \ {j}, !.answers[j] = @ + 1, !.failed[j] = ~good, !.error[j] = FALSE,
            !.cancelled = @ \ {j}, !.outBy = IF @ = j THEN None ELSE @,
            !.delivered = IF good THEN @ \o data ELSE @,
            !.ended = @ \/ (j = "read" /\ good /\ data = <<>>)]

JobStart(t, j) ==
  [t EXCEPT !.active = @ \cup {j}, !.error[j] = FALSE, !.sane = @ /\ j \notin t.active]

\* The base stream takes one read and one write at a time.
StartWrite(t, data, by) ==
  [t EXCEPT !.out = data, !.outBy = by, !.sane = @ /\ t.out = <<>> /\ data # <<>>]
StartRead(t, n, by) ==
  [t EXCEPT !.in = n, !.inBy = by, !.sane = @ /\ t.in = 0]

Numbers(after, n) == [i \in 1..n |-> after + i]

\* A record of the peer's is complete, and is the next one.
Complete(rec) == rec # <<>> /\ (rec[1] \in {Bye, Garbage} \/ Len(rec) = 2)
IsNext(t, rec) == rec = Numbers(t.opened, 2)

\* At most n of some bytes.
UpTo(bytes, n) == SubSeq(bytes, 1, IF n < Len(bytes) THEN n ELSE Len(bytes))

\* Plain text leaves the engine, as much as the reader has room for.
Taken(t) == UpTo(t.plain, t.count)
Left(t) == [t EXCEPT !.plain = SubSeq(@, Len(Taken(t)) + 1, Len(@))]

-----------------------------------------------------------------------------
(* The peer and the network *)

\* The callback of the handshake has the certificate checked at once; it is forgotten after that.
Checking == s.answers["handshake"] = 1 /\ ~s.failed["handshake"] /\ verdict = None
Forgotten == ~Checking /\ peer' = None /\ ignore' = FALSE /\ verdict' = verdict

\* The peer answers a flight when it has all of it, and sends data once it has shaken hands.
PeerMay ==
  LET flight == IF server THEN sent ELSE sent + 2
  IN  Len(wire) >= IF sent < Greetings THEN flight ELSE Greetings

PeerSends ==
  /\ ~hungUp /\ PeerMay /\ sent < Greetings + 2 * MaxData
  /\ sent' = sent + 2
  /\ incoming' = incoming \o Numbers(sent, 2)
  /\ UNCHANGED <<backend, server, s, calls, hungUp, wire, blame, faults, failures>>
  /\ Forgotten

\* The stream ends, after a notice of closure, in the middle of everything, or on garbage.
PeerHangsUp ==
  /\ ~hungUp /\ hungUp' = TRUE
  /\ \E last \in {<<>>, <<Bye>>, <<Garbage>>} :
       /\ last = <<Bye>> => sent >= Greetings
       /\ incoming' = incoming \o last
  /\ blame' = blame \cup {"peer"}
  /\ UNCHANGED <<backend, server, s, calls, sent, wire, faults, failures>>
  /\ Forgotten

Cancel(j) ==
  /\ j \in s.active \ s.cancelled
  /\ backend = "openssl" /\ j = "read" /\ "write" \in s.active => "cancel read" \in Liberties
  /\ faults < MaxFaults /\ faults' = faults + 1
  /\ s' = [s EXCEPT !.cancelled = @ \cup {j}]
  /\ blame' = blame \cup {j}
  /\ UNCHANGED <<backend, server, calls, base, wire, failures>>
  /\ Forgotten

\* A base operation fails: it was cancelled, or for a reason of its own.
Fails(by) ==
  /\ failures' = failures + 1
  /\ \/ by \in s.cancelled /\ UNCHANGED <<faults, blame>>
     \/ faults < MaxFaults /\ faults' = faults + 1 /\ blame' = blame \cup {"base"}

-----------------------------------------------------------------------------
(* The peer's certificate *)

CertNames == {"host", "wild", "other", "illegal"}   \* the host, "*." its domain, another host, and
                                                    \* a wildcard where XMPP has none
Faults == {"unknown signer", "self-signed", "bad signer", "revoked", "inactive", "expired"}

\* What the handler was told of authorities and of revocations (wocky_tls_handler_add_ca, _add_crl)
\* is a path: to a directory, to a file, or to nothing at all.
Paths == {"dir", "file", "missing"}

\* names: the alternative names; cn: the subject's; ca and crl: where its authority and the list
\* that would revoke it are.  None is a peer that shows no certificate.
Certificates ==
  [names : {<<>>} \cup {<<n>> : n \in CertNames} \cup (CertNames \X CertNames), cn : CertNames,
   faults : {F \in SUBSET Faults : Cardinality(F) <= 2}, ca : Paths, crl : Paths]

\* A certificate whose authority was not loaded is signed by somebody unknown.
FaultsFound(cert, authorities, revocations) ==
  (cert.faults \ IF revocations THEN {} ELSE {"revoked"})
    \cup IF authorities THEN {} ELSE {"unknown signer"}

\* The names the application checks against: the host, or the host and the other identity.
Identities == {<<"host">>, <<"host", "other">>}
Covers(name, identity) ==
  IF identity = "host" THEN name \in {"host", "wild"} ELSE name = "other"

\* real_verify_async of the handler: it does not check names when it ignores errors, and lets a
\* status through when it is one of the errors it may ignore.
Level(forgiving) == IF forgiving THEN "lenient" ELSE "normal"
NamesChecked(ids, forgiving) == IF forgiving THEN <<>> ELSE ids
Lenient == {"signer unknown", "invalid"}
M_LetThrough(status, forgiving) == status = "ok" \/ forgiving
Accepts(status, forgiving) == status = "ok" \/ (forgiving /\ status \in Lenient)
=============================================================================
