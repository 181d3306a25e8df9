----------------------------- MODULE Connector -----------------------------
(***************************************************************************)
(* WockyConnector: it takes an application from a JID and a password to a  *)
(* connection that is encrypted, authenticated, bound and in a session, or *)
(* registers or cancels the account on the way.  With it are modelled the  *)
(* TLS connector, the SASL and Jabber authenticators and the choice of a   *)
(* mechanism by the auth registry, which it hands the connection to.       *)
(* The server and the network are external.  Errors are not told apart,    *)
(* nor are the contents of a stanza beyond what the connector looks at.    *)
(*                                                                         *)
(* Operators named M_... are slips a maintainer could make in the          *)
(* definition that follows them; no property uses them.                    *)
(***************************************************************************)
EXTENDS Naturals, Sequences, AuthHandlers

CONSTANTS None,
  Offers,       \* the sets of features the server may advertise
  MaxRedirects, \* see-other-host errors that are followed: 5 in the code
  MaxCalls,     \* calls of the application
  Liberties     \* what the application or the server does although the connector is not up to it

Features == {"starttls", "scram", "digest", "plain", "auth", "bind", "sm", "session"}

ASSUME BoundsAssumption == MaxRedirects \in Nat /\ MaxCalls \in Nat

ASSUME ChoicesAssumption ==
  /\ Offers \subseteq SUBSET Features
  /\ Liberties \subseteq {"reuse", "switch operation", "overlap", "late redirect", "downgrade",
                          "registered", "partial fields", "sm refused"}

VARIABLES
  config,    \* the properties of the connector
  priv,      \* its private data
  conn,      \* priv->conn
  handler,   \* the handler the auth registry has chosen, and its state
  pending,   \* the asynchronous call the connector waits for, and how far it has got
  cancelled, \* the application has cancelled its cancellable
  calls,     \* the calls of the application and what each was told
  server,    \* what the server holds of the client on this stream
  account,   \* the account exists on the server
  offered    \* the credentials that have left the client, and whether that was over TLS

vars == <<config, priv, conn, handler, pending, cancelled, calls, server, account, offered>>

Configs == [tlsRequired : BOOLEAN, insecureOk : BOOLEAN,   \* auth_insecure_ok
            plainOk : BOOLEAN,                             \* encrypted_plain_auth_ok
            legacy : BOOLEAN, oldSSL : BOOLEAN,            \* legacy_support, legacy_ssl
            host : BOOLEAN,                                \* xmpp_host or xmpp_port is set
            domain : BOOLEAN]                              \* the JID has a domain

Operations == {"connect", "register", "unregister"}
RegOp == [connect |-> "none", register |-> "signup", unregister |-> "cancel"]

Privs == [state : {"disconnected", "tcpConnecting", "tcpConnected", "authed", "bound"},
          authed : BOOLEAN, encrypted : BOOLEAN, sock : BOOLEAN, cancellable : BOOLEAN,
          regOp : {"none", "signup", "cancel"},
          result : 0 .. MaxCalls,                          \* the call it works for, if any
          features : Offers \cup {None}, redirects : 0 .. MaxRedirects]

Connections == [tls : BOOLEAN, sm : BOOLEAN]
ASSUME NoneAssumption == None \notin Connections \cup Handlers \cup Offers

Servers == [authed : BOOLEAN, proved : BOOLEAN, bound : BOOLEAN, session : BOOLEAN, sm : BOOLEAN]
Stranger ==
  [authed |-> FALSE, proved |-> FALSE, bound |-> FALSE, session |-> FALSE, sm |-> FALSE]

CallNames == {"nothing", "abort", "tcp", "open", "features", "tls", "sasl", "jabber",
              "jabber auth", "begin", "signup", "cancel", "bind", "sm", "session"}
PartNames == {"nothing", "abort", "srv", "host", "sent", "recv", "handshake", "verify",
              "unsupported", "start", "challenged", "responded", "succeeding", "success", "refused"}
Waiting(call, part) == [call |-> call, part |-> part]
Nothing == Waiting("nothing", "nothing")
Aborted == Waiting("abort", "abort")   \* an assertion has ended the process

\* The parts of a call that are given priv->cancellable; the connection to a host, the
\* verification of a certificate and the answer to a SASL response are not.
M_ReadFeaturesWithout == pending.call # "features" /\ pending.part \in {"sent", "recv", "handshake"}
Cancellable == pending.part \in {"srv", "sent", "recv", "handshake"}

(***************************************************************************)
(* Ends of an operation and steps of the procedure.  Each is given the     *)
(* private data p and says what becomes of priv, pending and calls.        *)
(***************************************************************************)
Continue(p, call, part) == priv' = p /\ pending' = Waiting(call, part) /\ UNCHANGED calls

Complete(p, told) ==
  /\ priv' = [p EXCEPT !.cancellable = FALSE, !.result = 0]
  /\ calls' = [calls EXCEPT ![p.result].told = told]
  /\ pending' = Nothing

AbortConnect(p) == Complete([p EXCEPT !.state = "disconnected", !.sock = FALSE], "error")

\* The sub-operations: what is sent first, or begun.
ConnectToHost(p) == Continue(p, "tcp", "host")
SecureAsync(p, oldSsl) == Continue(p, "tls", IF oldSsl THEN "handshake" ELSE "sent")
JabberAuthenticate(p) == Continue(p, "jabber", "sent")
Xep77CancelSend(p) == Continue(p, "cancel", "sent")
IqBindResource(p) == Continue(p, "bind", "sent")

Xep77Begin(p) ==
  IF ~p.encrypted /\ ~config.insecureOk THEN AbortConnect(p) ELSE Continue(p, "begin", "sent")

Advertised(p, f) == p.features # None /\ f \in p.features

EstablishSession(p) ==
  \/ Advertised(p, "session") /\ Continue(p, "session", "sent")
  \/ ~Advertised(p, "session") /\ p.regOp = "cancel" /\ Xep77Begin(p)
  \/ ~Advertised(p, "session") /\ p.regOp # "cancel" /\ Complete(p, "ok")

\* wocky_auth_registry_select_handler, in its order; a plain mechanism gives the password away.
AllowPlain(p) == config.insecureOk \/ (p.encrypted /\ config.plainOk)
Eligible(p, mechanisms) ==
  {m \in MechanismNames : m \in mechanisms /\ (m \in GivesPasswordAway => AllowPlain(p))}
Preference == <<"scram", "digest", "jabber digest", "plain", "jabber password">>
SelectHandler(p, mechanisms) ==
  LET e == Eligible(p, mechanisms)
      first == {i \in DOMAIN Preference :
                  Preference[i] \in e /\ \A k \in 1 .. i - 1 : Preference[k] \notin e}
  IN IF first = {} THEN None ELSE NewHandler(Preference[CHOOSE i \in first : TRUE])

\* The registry asserts that it has not chosen before, and answers in an idle callback.
StartAuth(p, call, mechanisms) ==
  IF handler # None
  THEN priv' = p /\ pending' = Aborted /\ UNCHANGED <<calls, handler>>
  ELSE Continue(p, call, "start") /\ handler' = SelectHandler(p, mechanisms)

Mechanisms(p) == {m \in {"scram", "digest", "plain"} : m \in p.features}
SaslRequestAuth(p) ==
  \/ /\ p.features = None
     /\ priv' = p /\ pending' = Aborted /\ UNCHANGED <<calls, handler>>
  \/ p.features # None /\ Mechanisms(p) = {} /\ Continue(p, "sasl", "unsupported") /\ UNCHANGED handler
  \/ p.features # None /\ Mechanisms(p) # {} /\ StartAuth(p, "sasl", Mechanisms(p))

MaybeOldSsl(p) ==
  \/ /\ conn # None
     /\ priv' = p /\ pending' = Aborted /\ UNCHANGED <<calls, conn, server>>
  \/ /\ conn = None
     /\ conn' = [tls |-> FALSE, sm |-> FALSE] /\ server' = Stranger
     /\ IF config.oldSSL /\ ~p.encrypted THEN SecureAsync(p, TRUE)
                                         ELSE Continue(p, "open", "sent")

(***************************************************************************)
(* The application.                                                        *)
(***************************************************************************)
MayCall(op) ==
  /\ Len(calls) < MaxCalls
  /\ priv.result # 0 => op = "connect" \/ "overlap" \in Liberties
  /\ priv.result = 0 => conn = None \/ "reuse" \in Liberties
  /\ priv.result = 0 => \/ \A i \in DOMAIN calls : calls[i].told # "refused" => calls[i].op = op
                        \/ "switch operation" \in Liberties

\* The register and unregister calls set reg_op before it is known whether they are refused.
Call(op) ==
  /\ MayCall(op)
  /\ LET wanted == IF op = "connect" THEN priv.regOp ELSE RegOp[op]
         p == [priv EXCEPT !.regOp = wanted, !.result = Len(calls) + 1, !.cancellable = TRUE]
     IN \/ /\ priv.result # 0
           /\ priv' = [priv EXCEPT !.regOp = wanted]
           /\ calls' = Append(calls, [op |-> op, told |-> "refused"])
           /\ UNCHANGED <<pending, cancelled>>
        \/ /\ priv.result = 0 /\ ~config.domain
           /\ priv' = [priv EXCEPT !.regOp = wanted, !.state = "disconnected", !.sock = FALSE]
           /\ calls' = Append(calls, [op |-> op, told |-> "error"])
           /\ UNCHANGED <<pending, cancelled>>
        \/ /\ priv.result = 0 /\ config.domain
           /\ priv' = [p EXCEPT !.state = "tcpConnecting"]
           /\ calls' = Append(calls, [op |-> op, told |-> "nothing"])
           /\ pending' = Waiting("tcp", IF config.host THEN "host" ELSE "srv")
           /\ cancelled' = FALSE
  /\ UNCHANGED <<config, conn, handler, server, account, offered>>

Cancel ==
  /\ priv.cancellable /\ ~cancelled /\ cancelled' = TRUE
  /\ UNCHANGED <<config, priv, conn, handler, pending, calls, server, account, offered>>

(***************************************************************************)
(* The callbacks, in the order of the procedure.                           *)
(***************************************************************************)
TcpConnected ==
  /\ pending.call = "tcp"
  /\ MaybeOldSsl([priv EXCEPT !.sock = TRUE, !.state = "tcpConnected"])
  /\ UNCHANGED <<config, handler, cancelled, account, offered>>

TcpSrvFailed ==
  /\ pending = Waiting("tcp", "srv")
  /\ ConnectToHost([priv EXCEPT !.state = "tcpConnecting"])
  /\ UNCHANGED <<config, conn, handler, cancelled, server, account, offered>>

TcpHostFailed ==
  /\ pending = Waiting("tcp", "host") /\ AbortConnect(priv)
  /\ UNCHANGED <<config, conn, handler, cancelled, server, account, offered>>

\* A stanza, or the header, is sent: the answer is waited for.
StanzaSent(call) ==
  /\ pending = Waiting(call, "sent") /\ Continue(priv, call, "recv")
  /\ UNCHANGED <<config, conn, handler, cancelled, server, account, offered>>
XmppInitSent == StanzaSent("open")
StarttlsSent == StanzaSent("tls")
SaslStanzaSent == StanzaSent("sasl")
JabberInitSent == StanzaSent("jabber")
JabberAuthQuery == StanzaSent("jabber auth")
Xep77BeginSent == StanzaSent("begin")
Xep77SignupSent == StanzaSent("signup")
Xep77CancelSent == StanzaSent("cancel")
IqBindResourceSent == StanzaSent("bind")
SmEnableSent == StanzaSent("sm")
EstablishSessionSent == StanzaSent("session")

\* The sending, the receiving or the handshake fails, or the answer is an error or makes no
\* sense.  The server may have done what it was asked for.
SaslFails == pending.call = "sasl" /\ pending.part \in {"sent", "recv", "responded"}
JabberFails == pending.call \in {"jabber", "jabber auth"} /\ pending.part \in {"sent", "recv"}
TlsFails == pending.call = "tls" /\ pending.part \in {"sent", "recv", "handshake", "verify"}
RequestFails ==
  /\ pending.call \in {"open", "features", "begin", "signup", "cancel", "bind", "sm", "session"}
  /\ pending.part \in {"sent", "recv"}
Fail ==
  /\ SaslFails \/ JabberFails \/ TlsFails \/ RequestFails
  /\ AbortConnect(priv)
  /\ account' \in CASE pending = Waiting("cancel", "recv") -> {account, FALSE}
                    [] pending = Waiting("signup", "recv") -> {account, TRUE}
                    [] OTHER -> {account}
  /\ UNCHANGED <<config, conn, handler, cancelled, server, offered>>

OpenReceived(version) ==
  /\ pending = Waiting("open", "recv")
  /\ priv.authed => version = "1.0" \/ "downgrade" \in Liberties
  /\ \/ version = "1.0" /\ Continue(priv, "features", "recv")
     \/ /\ version # "1.0"
        /\ IF ~config.legacy \/ (config.tlsRequired /\ ~priv.encrypted)
           THEN AbortConnect(priv) ELSE JabberAuthenticate(priv)
  /\ UNCHANGED <<config, conn, handler, cancelled, server, account, offered>>

Received(p) ==
  \/ /\ ~p.encrypted /\ "starttls" \notin p.features /\ config.tlsRequired
     /\ AbortConnect(p) /\ UNCHANGED handler
  \/ /\ ~p.encrypted /\ "starttls" \in p.features
     /\ SecureAsync(p, FALSE) /\ UNCHANGED handler
  \/ /\ p.encrypted \/ ("starttls" \notin p.features /\ ~config.tlsRequired)
     /\ \/ ~p.authed /\ p.regOp = "signup" /\ Xep77Begin(p) /\ UNCHANGED handler
        \/ ~p.authed /\ p.regOp # "signup" /\ SaslRequestAuth(p)
        \/ /\ p.authed /\ UNCHANGED handler
           /\ IF "bind" \in p.features THEN IqBindResource(p) ELSE AbortConnect(p)
FeaturesReceived(f) ==
  /\ pending = Waiting("features", "recv")
  /\ Received([priv EXCEPT !.features = f])
  /\ UNCHANGED <<config, conn, cancelled, server, account, offered>>

\* stream_error_abort follows a see-other-host.
M_StayEncrypted(p) == [p EXCEPT !.features = None, !.sock = FALSE, !.state = "tcpConnecting",
                                !.authed = FALSE, !.redirects = @ + 1]
Reset(p) == [p EXCEPT !.features = None, !.sock = FALSE, !.state = "tcpConnecting",
                      !.authed = FALSE, !.encrypted = FALSE, !.redirects = @ + 1]
M_FollowEvery ==
  /\ pending.call \in {"features", "bind", "session"} /\ pending.part = "recv"
  /\ priv.authed => "late redirect" \in Liberties
MayRedirect ==
  /\ pending.call \in {"features", "bind", "session"} /\ pending.part = "recv"
  /\ priv.redirects < MaxRedirects
  /\ priv.authed => "late redirect" \in Liberties
Redirected ==
  /\ MayRedirect /\ ConnectToHost(Reset(priv)) /\ conn' = None
  /\ UNCHANGED <<config, handler, cancelled, server, account, offered>>

\* The TLS connector: <proceed/>, the handshake, and the verdict of the TLS handler.
TlsProceeds ==
  /\ \/ pending = Waiting("tls", "recv") /\ Continue(priv, "tls", "handshake")
     \/ pending = Waiting("tls", "handshake") /\ Continue(priv, "tls", "verify")
  /\ UNCHANGED <<config, conn, handler, cancelled, server, account, offered>>
TlsSecured ==
  /\ pending = Waiting("tls", "verify")
  /\ conn' = [tls |-> TRUE, sm |-> FALSE]
  /\ Continue([priv EXCEPT !.encrypted = TRUE], "open", "sent")
  /\ UNCHANGED <<config, handler, cancelled, server, account, offered>>

\* The server offers no SASL mechanism: Jabber authentication is used if it offers that.
SaslUnsupported ==
  /\ pending = Waiting("sasl", "unsupported")
  /\ IF "auth" \in priv.features THEN JabberAuthenticate(priv) ELSE AbortConnect(priv)
  /\ UNCHANGED <<config, conn, handler, cancelled, server, account, offered>>

\* <auth/> goes out, with the credential if the mechanism begins with it.
Offer(form) == offered' = offered \cup {[form |-> form, tls |-> conn.tls]}
SaslStarted ==
  /\ pending = Waiting("sasl", "start")
  /\ \/ handler = None /\ AbortConnect(priv) /\ UNCHANGED offered
     \/ /\ handler # None /\ Continue(priv, "sasl", "sent")
        /\ IF BeginsWithCredential(handler) THEN Offer(handler.mech) ELSE UNCHANGED offered
  /\ UNCHANGED <<config, conn, handler, cancelled, server, account>>

JabberStarted ==
  /\ pending = Waiting("jabber auth", "start")
  /\ \/ handler = None /\ AbortConnect(priv) /\ UNCHANGED offered
     \/ handler # None /\ Continue(priv, "jabber auth", "sent") /\ Offer(handler.mech)
  /\ UNCHANGED <<config, conn, handler, cancelled, server, account>>

\* What the server says, in a <challenge/> or a <success/>, goes to the handler through the
\* registry, which answers in an idle callback.  Only a server that knows the password can give
\* the proof, and only once the client has sent its own.
Outcome(part) == Continue(priv, "sasl", part)
ChallengeAsync(d, part) ==
  \/ HandleAuthData(handler, d) = {} /\ Outcome("refused") /\ UNCHANGED handler
  \/ handler' \in HandleAuthData(handler, d) /\ Outcome(part)
SuccessAsync == Outcome(IF HandleSuccess(handler) THEN "success" ELSE "refused")

\* stream_error: the authenticator refuses what it receives once the call is cancelled.
TooLate == cancelled
SaslHears ==
  pending.call = "sasl" /\ pending.part \in {"recv", "responded"} /\ handler # None /\ ~TooLate
Says(d) ==
  /\ d = "proof" => AwaitsProof(handler)
  /\ server' = [server EXCEPT !.proved = @ \/ d = "proof"]

SaslChallenged(d) ==
  /\ SaslHears /\ Says(d) /\ ChallengeAsync(d, "challenged")
  /\ UNCHANGED <<config, conn, cancelled, account, offered>>
SaslSucceeds ==
  /\ SaslHears /\ account /\ SuccessAsync
  /\ UNCHANGED <<config, conn, handler, cancelled, server, account, offered>>
SaslSucceedsWithData(d) ==
  /\ SaslHears /\ account /\ Says(d) /\ ChallengeAsync(d, "succeeding")
  /\ UNCHANGED <<config, conn, cancelled, account, offered>>

\* The idle callbacks.  The answer to a response is waited for without the cancellable.
SaslResponse ==
  /\ pending = Waiting("sasl", "challenged") /\ handler # None /\ Continue(priv, "sasl", "responded")
  /\ IF AwaitsProof(handler) THEN Offer(handler.mech) ELSE UNCHANGED offered
  /\ UNCHANGED <<config, conn, handler, cancelled, server, account>>
\* A success is not due while there is more to send.
SaslSuccessResponse ==
  /\ pending = Waiting("sasl", "succeeding") /\ handler # None
  /\ IF AwaitsProof(handler) THEN AbortConnect(priv) ELSE SuccessAsync
  /\ UNCHANGED <<config, conn, handler, cancelled, server, account, offered>>
SaslRefused ==
  /\ pending = Waiting("sasl", "refused") /\ AbortConnect(priv)
  /\ UNCHANGED <<config, conn, handler, cancelled, server, account, offered>>
SaslDone ==
  /\ pending = Waiting("sasl", "success") /\ server' = [server EXCEPT !.authed = TRUE]
  /\ Continue([priv EXCEPT !.authed = TRUE, !.state = "authed"], "open", "sent")
  /\ UNCHANGED <<config, conn, handler, cancelled, account, offered>>

\* An answer that lacks the fields is neither used nor refused: nothing is waited for any more.
JabberFields(fields) ==
  /\ pending = Waiting("jabber", "recv")
  /\ fields = None => "partial fields" \in Liberties
  /\ \/ fields = None /\ Continue(priv, "nothing", "nothing") /\ UNCHANGED handler
     \/ fields # None /\ StartAuth(priv, "jabber auth", fields)
  /\ UNCHANGED <<config, conn, cancelled, server, account, offered>>
JabberDone ==
  /\ pending = Waiting("jabber auth", "recv") /\ account
  /\ server' = [server EXCEPT !.authed = TRUE, !.bound = TRUE]
  /\ EstablishSession([priv EXCEPT !.authed = TRUE, !.state = "authed"])
  /\ UNCHANGED <<config, conn, handler, cancelled, account, offered>>

\* XEP-0077.
BeginReceivedRegistered ==
  /\ pending = Waiting("begin", "recv") /\ account
  /\ priv.regOp = "signup" \/ "registered" \in Liberties
  /\ SaslRequestAuth([priv EXCEPT !.regOp = "none"])
  /\ UNCHANGED <<config, conn, cancelled, server, account, offered>>
M_CancelAtOnce ==
  /\ pending = Waiting("begin", "recv") /\ Continue(priv, "cancel", "sent")
  /\ UNCHANGED <<config, conn, handler, cancelled, server, account, offered>>
BeginReceived ==
  /\ pending = Waiting("begin", "recv")
  /\ \/ priv.regOp = "signup" /\ Continue(priv, "signup", "sent") /\ Offer("signup")
     \/ priv.regOp = "cancel" /\ Xep77CancelSend(priv) /\ UNCHANGED offered
     \/ priv.regOp = "none" /\ AbortConnect(priv) /\ UNCHANGED offered
  /\ UNCHANGED <<config, conn, handler, cancelled, server, account>>
SignupReceived ==
  /\ pending = Waiting("signup", "recv") /\ account' = TRUE
  /\ SaslRequestAuth([priv EXCEPT !.regOp = "none"])
  /\ UNCHANGED <<config, conn, cancelled, server, offered>>
\* The answer is a result, or the stream error not-authorized that follows a removal.
CancelReceived ==
  /\ pending = Waiting("cancel", "recv") /\ account' = FALSE
  /\ Complete([priv EXCEPT !.sock = FALSE, !.state = "disconnected"], "ok")
  /\ UNCHANGED <<config, conn, handler, cancelled, server, offered>>

BindReceived ==
  /\ pending = Waiting("bind", "recv") /\ server' = [server EXCEPT !.bound = TRUE]
  /\ LET p == [priv EXCEPT !.state = "bound"]
     IN IF Advertised(p, "sm") THEN Continue(p, "sm", "sent") ELSE EstablishSession(p)
  /\ UNCHANGED <<config, conn, handler, cancelled, account, offered>>

\* Whatever the server answers, the connection counts stanzas from now on.
SmEnableReceived(enabled) ==
  /\ pending = Waiting("sm", "recv")
  /\ ~enabled => "sm refused" \in Liberties
  /\ server' = [server EXCEPT !.sm = enabled] /\ conn' = [conn EXCEPT !.sm = TRUE]
  /\ EstablishSession(priv)
  /\ UNCHANGED <<config, handler, cancelled, account, offered>>

SessionReceived ==
  /\ pending = Waiting("session", "recv") /\ server' = [server EXCEPT !.session = TRUE]
  /\ IF priv.regOp = "cancel" THEN Xep77Begin(priv) ELSE Complete(priv, "ok")
  /\ UNCHANGED <<config, conn, handler, cancelled, account, offered>>

(***************************************************************************)
(* The specification.                                                      *)
(***************************************************************************)
Init ==
  /\ config \in Configs /\ account \in BOOLEAN
  /\ priv = [state |-> "disconnected", authed |-> FALSE, encrypted |-> FALSE, sock |-> FALSE,
             cancellable |-> FALSE, regOp |-> "none", result |-> 0, features |-> None,
             redirects |-> 0]
  /\ conn = None /\ handler = None /\ pending = Nothing /\ cancelled = FALSE
  /\ calls = <<>> /\ server = Stranger /\ offered = {}

Next ==
  \/ \E op \in Operations : Call(op)
  \/ Cancel
  \/ TcpConnected \/ TcpSrvFailed \/ TcpHostFailed
  \/ XmppInitSent \/ StarttlsSent \/ SaslStanzaSent \/ JabberInitSent \/ JabberAuthQuery
  \/ Xep77BeginSent \/ Xep77SignupSent \/ Xep77CancelSent
  \/ IqBindResourceSent \/ SmEnableSent \/ EstablishSessionSent
  \/ Fail
  \/ \E version \in {"1.0", "0.9"} : OpenReceived(version)
  \/ \E f \in Offers : FeaturesReceived(f)
  \/ Redirected
  \/ TlsProceeds \/ TlsSecured
  \/ SaslUnsupported \/ SaslStarted \/ JabberStarted
  \/ \E d \in Data : SaslChallenged(d) \/ SaslSucceedsWithData(d)
  \/ SaslSucceeds
  \/ SaslResponse \/ SaslSuccessResponse \/ SaslRefused \/ SaslDone
  \/ \E fields \in {None} \cup SUBSET {"jabber digest", "jabber password"} : JabberFields(fields)
  \/ JabberDone
  \/ BeginReceivedRegistered \/ BeginReceived \/ SignupReceived \/ CancelReceived
  \/ BindReceived \/ \E enabled \in BOOLEAN : SmEnableReceived(enabled)
  \/ SessionReceived

Spec == Init /\ [][Next]_vars

\* What ends a cancelled call: an operation that holds the cancellable fails, a connection
\* attempt ends by itself, idle callbacks run, the TLS handler gives its verdict, and the
\* server goes on with the SASL exchange it has started.  Nothing else of the server is needed.
CancelledFail == cancelled /\ Cancellable /\ (Fail \/ TcpSrvFailed)
HostAttemptEnds == pending = Waiting("tcp", "host") /\ (TcpConnected \/ TcpHostFailed)
IdleCallback ==
  \/ SaslUnsupported \/ SaslStarted \/ JabberStarted
  \/ SaslResponse \/ SaslSuccessResponse \/ SaslRefused \/ SaslDone
VerdictGiven == pending = Waiting("tls", "verify") /\ (TlsSecured \/ Fail)
ChallengeEnds ==
  /\ pending.part = "responded"
  /\ SaslSucceeds \/ (\E d \in Data : SaslChallenged(d) \/ SaslSucceedsWithData(d)) \/ Fail
FairSpec == /\ Spec /\ WF_vars(CancelledFail) /\ WF_vars(HostAttemptEnds)
            /\ WF_vars(IdleCallback) /\ WF_vars(VerdictGiven) /\ WF_vars(ChallengeEnds)

(***************************************************************************)
(* Properties.                                                             *)
(***************************************************************************)
\* Every variable holds a value of its type.
TypeOK ==
  /\ config \in Configs /\ account \in BOOLEAN /\ cancelled \in BOOLEAN /\ priv \in Privs
  /\ conn \in Connections \cup {None} /\ handler \in Handlers \cup {None}
  /\ pending.call \in CallNames /\ pending.part \in PartNames
  /\ calls \in Seq([op : Operations, told : {"nothing", "ok", "error", "refused"}])
  /\ server \in Servers
  /\ offered \subseteq [form : MechanismNames \cup {"signup"}, tls : BOOLEAN]

\* No credential leaves the client against the policy the application has set: none without
\* TLS where tls-required is set, no password in the clear unless plaintext-auth-allowed or,
\* over TLS, encrypted-plain-auth-ok says so, and no registration without TLS unless
\* plaintext-auth-allowed.  What counts is the stream they go over, which redirections and
\* restarts change, and not the flag the connector keeps.
CredentialsFollowPolicy ==
  \A c \in offered :
    /\ config.tlsRequired => c.tls
    /\ c.form \in GivesPasswordAway => config.insecureOk \/ (c.tls /\ config.plainOk)
    /\ c.form = "signup" => config.insecureOk \/ c.tls

Ready ==
  /\ account /\ conn # None /\ server.authed /\ server.bound
  /\ Advertised(priv, "session") => server.session
  /\ conn.sm = server.sm
\* An application that is told its call succeeded has what it asked for: after connecting or
\* registering, an account that exists and a connection the server holds to be authenticated,
\* bound, in a session if it wants one, and counting stanzas if and only if the client does;
\* after unregistering, no account.
SuccessIsTrue ==
  \A i \in DOMAIN calls :
    calls[i].told = "ok" => IF calls[i].op = "unregister" THEN ~account ELSE Ready

\* The server creates an account only for an application that is registering, and removes one
\* only for an application that is unregistering.
AccountIsChangedOnDemand ==
  [][account' # account =>
       /\ priv.result # 0
       /\ calls[priv.result].op = IF account THEN "unregister" ELSE "register"]_vars

\* What the code asserts or calls impossible never happens: a second connection on top of the
\* first (maybe_old_ssl), a second choice of a handler (the auth registry), a cancellable left
\* over by an operation that has ended, and an answer to a registration query nobody made.
AssertionsHold ==
  /\ pending # Aborted
  /\ priv.result = 0 => ~priv.cancellable
  /\ pending.call = "begin" => priv.regOp # "none"

\* The requests come in the order XMPP demands, as the server sees it: authentication once,
\* on a stream that has none, then binding, stream management and session, and nothing is
\* bound, managed, or cancelled before authentication.
Requesting(call) == pending = Waiting(call, "sent")
RequestsInOrder ==
  /\ \A call \in {"sasl", "jabber", "jabber auth", "signup"} : Requesting(call) => ~server.authed
  /\ Requesting("bind") => server.authed /\ ~server.bound /\ Advertised(priv, "bind")
  /\ Requesting("sm") => server.bound /\ ~server.session
  /\ Requesting("session") => server.bound
  /\ Requesting("cancel") => server.authed

\* A client that holds itself to be authenticated by SCRAM or DIGEST-MD5 has had the proof that
\* this server knows the password too, in a challenge or with the success; a success that comes
\* early does not do.
AuthenticationIsMutual ==
  priv.authed /\ handler # None => (handler.mech \in Mutual => server.proved)

\* However it went, the application and the server agree on what has been negotiated, and with
\* whom.
NegotiationIsComplete ==
  SuccessIsTrue /\ RequestsInOrder /\ AssertionsHold /\ AuthenticationIsMutual

\* An application that has cancelled its call is told of the end of the call.
CancelEnds == (cancelled /\ priv.result # 0) ~> (priv.result = 0)
=============================================================================
