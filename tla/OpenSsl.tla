------------------------------ MODULE OpenSsl ------------------------------
(***************************************************************************)
(* The session of wocky-openssl.c.  OpenSSL reads from one memory buffer   *)
(* (rbio) and writes to another (wbio); the code moves their bytes from    *)
(* and to the base stream.  SSL_connect, SSL_accept, SSL_read and          *)
(* SSL_write are external.                                                 *)
(***************************************************************************)
EXTENDS TlsSession

SslFields ==
  [rbio |-> <<>>, wbio |-> <<>>, done |-> FALSE, state |-> "none", idle |-> FALSE]
SslSession == Flat(SslFields)

Block == 100   \* MAX_SSLV3_BLOCK_SIZE: more than a peer here ever sends

-----------------------------------------------------------------------------
(* OpenSSL *)

\* An engine that fails in reading leaves an alert in the buffer to be written.
SslBreak(t) ==
  [t EXCEPT !.dead = {"in", "out"}, !.wbio = @ \o Numbers(t.made, 1), !.made = @ + 1]

FirstRecord(t) ==
  IF t.rbio # <<>> /\ t.rbio[1] \in {Bye, Garbage} THEN <<t.rbio[1]>> ELSE UpTo(t.rbio, 2)

SslRecord(t) ==
  LET rec == FirstRecord(t) IN
  IF "in" \in t.dead THEN [t |-> t, ret |-> "ssl"]
  ELSE IF ~Complete(rec) THEN [t |-> t, ret |-> "want read"]
  ELSE LET rest == SubSeq(t.rbio, Len(rec) + 1, Len(t.rbio)) IN
       IF IsNext(t, rec)
       THEN [t |-> [t EXCEPT !.rbio = rest, !.plain = rec, !.opened = @ + 2], ret |-> "none"]
       ELSE IF rec[1] = Bye THEN [t |-> [t EXCEPT !.rbio = rest, !.over = TRUE], ret |-> "zero return"]
       ELSE [t |-> SslBreak([t EXCEPT !.rbio = rest]), ret |-> "ssl"]

SslEncrypt(t, n) == [t EXCEPT !.wbio = @ \o Numbers(t.made, n), !.made = @ + n]

\* SSL_connect or SSL_accept: as far as what is in the buffer allows.
RECURSIVE SslConnect(_)
SslConnect(t) ==
  IF t.step > 4 THEN [t |-> t, ret |-> "none"]
  ELSE IF Script(server)[t.step] = "write" THEN SslConnect([SslEncrypt(t, 2) EXCEPT !.step = @ + 1])
  ELSE LET read == SslRecord(t) IN
       IF read.ret = "none" THEN SslConnect([read.t EXCEPT !.step = @ + 1, !.plain = <<>>]) ELSE read

SslRead(t) ==
  IF t.plain # <<>> THEN [t |-> t, ret |-> "none"]
  ELSE IF t.over THEN [t |-> t, ret |-> "zero return"] ELSE SslRecord(t)

-----------------------------------------------------------------------------
(* The session *)

HandshakeWrite(t) == StartWrite(t, t.wbio, "handshake")
HandshakeRead(t) == StartRead(t, Block, "handshake")
SslFill(t) == StartRead(t, Block, "read")
\* The cancellable taken is the one of the read job, if one runs.
SslFlush(t) ==
  IF t.wbio = <<>> THEN t
  ELSE StartWrite(t, t.wbio, IF "read" \in t.active THEN "read" ELSE None)

M_IgnoreError(t, ret) == ret # "want read"
\* ssl_read_is_complete: short of bytes there is no result yet; all else that is no text is an error.
SslReadIsComplete(t, ret) == t.error["read"] \/ ret # "want read"
SslReadResult(t, ret) ==
  LET error == t.error["read"] \/ ret # "none" IN
  Left(Answer([t EXCEPT !.error["read"] = error], "read", TRUE, Taken(t)))

RECURSIVE SslTryOperation(_, _), SslHandshake(_)

\* ssl_handshake: OpenSSL goes on unless it is done; then what it left is written, or more is read.
SslHandshake(t) ==
  LET r == IF t.done THEN [t |-> t, ret |-> "none"] ELSE SslConnect(t)
      wantWrite == r.t.wbio # <<>>
      done == r.ret = "none"
      fatal == ~t.done /\ r.ret \notin {"none", "want read"}
      u == [r.t EXCEPT !.done = done,
                       !.state = IF ~done THEN r.ret ELSE IF wantWrite THEN @ ELSE "none"]
  IN  IF fatal THEN SslTryOperation([u EXCEPT !.error["handshake"] = TRUE], "handshake")
      ELSE IF wantWrite THEN HandshakeWrite(u)
      ELSE IF r.ret = "want read" THEN HandshakeRead(u)
      ELSE SslTryOperation(u, "handshake")

\* wocky_tls_session_try_operation
SslTryOperation(t, op) ==
  IF "handshake" \in t.active \/ op = "handshake" THEN
    CASE t.state = "want read" -> SslHandshake(t)
      [] t.state = "none" -> Answer(t, "handshake", TRUE, <<>>)
      [] OTHER -> Answer([t EXCEPT !.error["handshake"] = TRUE], "handshake", TRUE, <<>>)
  ELSE IF op = "read" THEN
    LET r == SslRead(t) IN
    IF SslReadIsComplete(t, r.ret) THEN SslReadResult(r.t, r.ret) ELSE SslFill(r.t)
  ELSE Answer(t, "write", TRUE, <<>>)

SslArrived(t, data) == [t EXCEPT !.rbio = @ \o data]

\* wocky_tls_session_read_ready; a failed read, like the end of the stream, is an error.
SslReadReady(t, data, failed) ==
  LET e == [t EXCEPT !.error["read"] = @ \/ failed] IN
  IF data # <<>> THEN SslTryOperation(SslArrived(t, data), "read")
  ELSE IF "handshake" \in t.active THEN SslTryOperation([e EXCEPT !.state = "ssl"], "read")
  ELSE SslTryOperation([e EXCEPT !.error["read"] = TRUE], "read")

\* What was written leaves the buffer.
SslScrub(t, n) == [t EXCEPT !.wbio = IF n > 0 THEN SubSeq(@, n + 1, Len(@)) ELSE @]

AllWritten(t, n) == n = Len(t.wbio)

\* wocky_tls_session_write_ready; "would block" is no failure.
SslWriteReady(t, n, again) ==
  LET error == t.error["write"] \/ n < 0
      u == [SslScrub(t, n) EXCEPT !.error["write"] = error /\ ~again]
  IN  IF AllWritten(t, n) THEN SslTryOperation(u, "write")
      ELSE IF ~u.error["write"] THEN SslFlush(u) ELSE SslTryOperation(u, "write")

\* wocky_tls_session_handshake_async
SslHandshakeAsync(t) == SslHandshake(JobStart(t, "handshake"))

\* wocky_tls_input_stream_read_async: what OpenSSL has already is given at once, from an idle
\* callback, and no job runs.
SslReadAsync(t) ==
  LET r == SslRead(t) IN
  IF SslReadIsComplete(t, r.ret)
  THEN [r.t EXCEPT !.idle = TRUE, !.error["read"] = @ \/ r.ret # "none"]
  ELSE SslFill(JobStart(r.t, "read"))

\* wocky_tls_output_stream_write_async
SslWriteAsync(t, n) ==
  LET u == JobStart(t, "write") IN
  IF "out" \in t.dead THEN SslTryOperation([u EXCEPT !.error["write"] = TRUE], "write")
  ELSE SslFlush(SslEncrypt(u, n))

-----------------------------------------------------------------------------
(* Verification: OpenSSL reports the first thing that is wrong *)

\* add_ca and add_crl load directories and files alike.
SslAuthorities(path) == path \in {"dir", "file"}
SslRevocations(path) == path \in {"dir", "file"}

\* The signer is looked for, then the list of revocations, unless it is not asked for, then the dates.
SslVerifyResult(cert, lists) ==
  LET found == FaultsFound(cert, SslAuthorities(cert.ca), lists) IN
  CASE "unknown signer" \in found -> "unknown signer"
    [] "self-signed" \in found -> "self-signed"
    [] "bad signer" \in found -> "bad signer"
    [] lists /\ ~SslRevocations(cert.crl) -> "no list"
    [] lists /\ "revoked" \in found -> "revoked"
    [] "inactive" \in found -> "inactive"
    [] "expired" \in found -> "expired"
    [] OTHER -> "ok"

\* _cert_status: only a strict level insists on a list; else the rest is verified again without one.
StatusOf(result) ==
  CASE result = "unknown signer" -> "signer unknown"
    [] result = "self-signed" -> "invalid"
    [] result = "bad signer" -> "signer unauthorised"
    [] result = "inactive" -> "not active"
    [] OTHER -> result
SslCertStatus(cert, level) ==
  LET result == SslVerifyResult(cert, TRUE) IN
  CASE result # "no list" -> StatusOf(result)
    [] level = "strict" -> "insecure"
    [] OTHER -> StatusOf(SslVerifyResult(cert, FALSE))

\* check_peer_name: the subject's name, or of the alternative names the last.
SslPeerName(id, cert) ==
  \/ Covers(cert.cn, id)
  \/ cert.names # <<>> /\ Covers(Last(cert.names), id)
SslPeerNames(ids, cert) == ids = <<>> \/ \E id \in Range(ids) : SslPeerName(id, cert)

\* wocky_tls_session_verify_peer: a lenient level is content with no certificate, and only some
\* errors matter to it.
Matters == {"revoked"}
SslStatus(cert, ids, level) ==
  IF cert = None THEN IF level = "lenient" THEN "ok" ELSE "signer unauthorised"
  ELSE LET status == SslCertStatus(cert, level) IN
       IF ~SslPeerNames(ids, cert) THEN "name mismatch"
       ELSE IF level = "lenient" /\ status \notin Matters THEN "ok" ELSE status
=============================================================================
