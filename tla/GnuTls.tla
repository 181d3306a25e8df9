------------------------------- MODULE GnuTls -------------------------------
(***************************************************************************)
(* The session of wocky-tls.c.  GnuTLS asks for bytes and hands bytes out  *)
(* through a pull and a push function; each starts one base operation,     *)
(* says "again", and gives its result when it is called with the operation *)
(* done.  gnutls_handshake, _record_recv and _record_send are external.    *)
(***************************************************************************)
EXTENDS TlsSession

GnuFields ==
  [part |-> <<>>, unsent |-> <<>>,    \* GnuTLS: the record being read, bytes not pushed yet
   rop |-> [state |-> "idle", result |-> <<>>, failed |-> FALSE],
   wop |-> [state |-> "idle", buffer |-> <<>>, result |-> 0]]
GnuSession == Flat(GnuFields)

\* The job whose cancellable a base operation takes.
ActiveJob(t, otherwise) == IF "handshake" \in t.active THEN "handshake" ELSE otherwise

\* wocky_tls_session_push_func, called with all that GnuTLS has not got rid of.
GnuPush(t) ==
  LET by == ActiveJob(t, "write")
      same == t.wop.buffer = t.unsent
  IN  CASE t.wop.state = "idle" ->
             [t |-> StartWrite([t EXCEPT !.wop = [state |-> "active", buffer |-> t.unsent,
                                                  result |-> 0]],
                               t.unsent, by),
              ret |-> "again"]
        [] t.wop.state = "active" -> [t |-> [t EXCEPT !.sane = @ /\ same], ret |-> "again"]
        [] t.wop.state = "done" /\ t.wop.result < 0 ->
             [t |-> [t EXCEPT !.wop.state = "idle", !.error[by] = TRUE, !.dead = @ \cup {"out"},
                              !.sane = @ /\ same],
              ret |-> "error"]
        [] OTHER ->
             [t |-> [t EXCEPT !.wop.state = "idle", !.sane = @ /\ same,
                              !.unsent = SubSeq(@, t.wop.result + 1, Len(@))],
              ret |-> IF t.wop.result = Len(t.unsent) THEN "ok" ELSE "again"]

\* wocky_tls_session_pull_func, called for what is missing of a record.
GnuPull(t) ==
  LET by == ActiveJob(t, "read")
      got == t.rop.result
  IN  CASE t.rop.state = "idle" ->
             [t |-> StartRead([t EXCEPT !.rop.state = "active"],
                              2 - Len(t.part), by),
              ret |-> "again"]
        [] t.rop.state = "active" -> [t |-> t, ret |-> "again"]
        [] t.rop.state = "done" /\ t.rop.failed ->
             [t |-> [t EXCEPT !.rop.state = "idle", !.error[by] = TRUE, !.dead = @ \cup {"in"}],
              ret |-> "error"]
        [] OTHER ->
             [t |-> [t EXCEPT !.rop.state = "idle", !.part = @ \o got,
                              !.sane = @ /\ Len(got) <= 2 - Len(t.part)],
              ret |-> IF got = <<>> THEN "end" ELSE "ok"]

\* GnuTLS puts together a record: pulls until it is complete, and decrypts it.
RECURSIVE GnuRecord(_)
GnuRecord(t) ==
  IF ~Complete(t.part) THEN
    LET pulled == GnuPull(t) IN IF pulled.ret = "ok" THEN GnuRecord(pulled.t) ELSE pulled
  ELSE IF IsNext(t, t.part) THEN
    [t |-> [t EXCEPT !.opened = @ + 2, !.plain = t.part, !.part = <<>>], ret |-> "ok"]
  ELSE IF t.part[1] = Bye THEN [t |-> [t EXCEPT !.over = TRUE], ret |-> "end"]
  ELSE [t |-> [t EXCEPT !.dead = {"in", "out"}], ret |-> "error"]

GnuEncrypt(t, n) == [t EXCEPT !.unsent = Numbers(t.made, n), !.made = @ + n]

\* gnutls_handshake
RECURSIVE GnuHandshake(_)
GnuHandshake(t) ==
  IF t.step > 4 THEN [t |-> t, ret |-> "ok"]
  ELSE IF Script(server)[t.step] = "write" THEN
    LET pushed == GnuPush(IF t.unsent = <<>> THEN GnuEncrypt(t, 2) ELSE t)
    IN  IF pushed.ret = "ok" THEN GnuHandshake([pushed.t EXCEPT !.step = @ + 1]) ELSE pushed
  ELSE
    LET read == GnuRecord(t)
    IN  IF read.ret = "ok" THEN GnuHandshake([read.t EXCEPT !.step = @ + 1, !.plain = <<>>])
        ELSE read

\* gnutls_record_recv and gnutls_record_send
GnuRecv(t) ==
  IF t.plain # <<>> THEN [t |-> t, ret |-> "ok"]
  ELSE IF t.over THEN [t |-> t, ret |-> "end"]
  ELSE IF "in" \in t.dead THEN [t |-> t, ret |-> "error"] ELSE GnuRecord(t)
GnuSend(t, n) ==
  IF "out" \in t.dead THEN [t |-> t, ret |-> "error"]
  ELSE GnuPush(IF t.unsent = <<>> THEN GnuEncrypt(t, n) ELSE t)

\* wocky_tls_job_make_result: nothing yet is no result; the end of the stream is an empty read, and
\* an error to a handshake.
GnuJobResult(r, j) ==
  IF r.ret = "again" THEN [r.t EXCEPT !.sane = @ /\ j \in r.t.active]
  ELSE IF j # "read" THEN Answer(r.t, j, r.ret = "ok", <<>>)
  ELSE Left(Answer(r.t, j, r.ret \in {"ok", "end"}, IF r.ret = "ok" THEN Taken(r.t) ELSE <<>>))

\* wocky_tls_session_try_operation; once the base stream has ended GnuTLS is not asked again.
GnuTryOperation(t, op, n) ==
  LET ended == ~t.rop.failed /\ t.rop.result = <<>> IN
  IF "handshake" \in t.active THEN GnuJobResult(GnuHandshake(t), "handshake")
  ELSE LET r == [t EXCEPT !.sane = @ /\ op \in t.active] IN
       IF op = "write" THEN GnuJobResult(GnuSend(r, n), "write")
       ELSE GnuJobResult(IF ended THEN [t |-> r, ret |-> "end"] ELSE GnuRecv(r), "read")

GnuReadReady(t, data, failed) ==
  GnuTryOperation([t EXCEPT !.rop = [@ EXCEPT !.state = "done", !.result = data, !.failed = failed],
                            !.sane = @ /\ t.rop.state = "active"],
                  "read", 0)

M_WriteFromTheStart(t, by) == StartWrite(t, t.wop.buffer, by)
GnuWriteRest(t, by) ==
  StartWrite(t, SubSeq(t.wop.buffer, t.wop.result + 1, Len(t.wop.buffer)), by)

\* wocky_tls_session_write_ready goes on until all is written or something fails.
GnuWriteReady(t, n) ==
  LET written == [t EXCEPT !.wop.result = IF n > 0 THEN @ + n ELSE n,
                           !.sane = @ /\ t.wop.state = "active"]
  IN  IF n > 0 /\ written.wop.result < Len(t.wop.buffer)
      THEN GnuWriteRest(written, ActiveJob(t, "write"))
      ELSE GnuTryOperation([written EXCEPT !.wop.state = "done"], "write", 0)

-----------------------------------------------------------------------------
(* Verification: what GnuTLS finds is put into one status, the most noteworthy *)

\* add_ca reads a file, or each file of a directory.  add_crl does so for a directory; a list of
\* revocations in a file is loaded as if it were a certificate authority's.
GnuAuthorities(path) == path \in {"dir", "file"}
GnuRevocations(path) == path = "dir"

\* VERIFY_LENIENT: times are not looked at, and who signs need not be an authority.
Tolerated(level) == IF level = "lenient" THEN {"inactive", "expired", "bad signer"} ELSE {}

\* The flags GnuTLS reports: all that is wrong.  It knows nobody who signs his own certificate.
GnuFlags(cert, level) ==
  {IF f = "self-signed" THEN "unknown signer" ELSE f :
     f \in FaultsFound(cert, GnuAuthorities(cert.ca), GnuRevocations(cert.crl)) \ Tolerated(level)}

\* status_map, in descending order of noteworthiness
StatusMap ==
  << <<"revoked", "revoked">>, <<"inactive", "not active">>, <<"expired", "expired">>,
     <<"unknown signer", "signer unknown">>, <<"bad signer", "signer unauthorised">> >>
MostNoteworthy(flags) ==
  LET hits == SelectSeq(StatusMap, LAMBDA e : e[1] \in flags)
  IN IF hits = <<>> THEN "ok" ELSE hits[1][2]

\* gnutls_x509_crt_check_hostname takes a wildcard anywhere, cert_names_are_valid does not.
GnuNames(cert) == IF cert.names = <<>> THEN {cert.cn} ELSE Range(cert.names)
CertNamesAreValid(cert) == "illegal" \notin GnuNames(cert)
GnuNameMatches(cert, ids) ==
  CertNamesAreValid(cert) /\ \E id \in Range(ids), name \in GnuNames(cert) : Covers(name, id)

\* wocky_tls_session_verify_peer
GnuStatus(cert, ids, level) ==
  CASE cert = None -> "no certificate"
    [] cert # None /\ ids # <<>> /\ ~GnuNameMatches(cert, ids) -> "name mismatch"
    [] OTHER -> MostNoteworthy(GnuFlags(cert, level))
=============================================================================
