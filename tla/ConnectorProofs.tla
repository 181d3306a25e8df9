-------------------------- MODULE ConnectorProofs --------------------------
(***************************************************************************)
(* The type invariant of the connector, its policy on credentials and its  *)
(* mutual authentication, for every set of features servers may advertise, *)
(* every number of redirections and calls, and with every liberty granted; *)
(* then what the application and the server agree on.                      *)
(***************************************************************************)
EXTENDS Connector, TLAPS

\* The sub-operations that are begun only once the policy on encryption is satisfied.
AfterPolicy == {"sasl", "jabber", "jabber auth", "begin", "signup", "cancel", "bind", "sm",
                "session"}
OnStream == AfterPolicy \cup {"open", "features", "tls"}

\* What the connector believes of encryption is true of its stream; whatever may lead to a
\* credential has been let through by the policy.
FlagIsTrue == priv.encrypted => conn # None /\ conn.tls
HasStream == pending.call \in OnStream => conn # None
Encrypted == pending.call \in AfterPolicy /\ config.tlsRequired => priv.encrypted
Registering == {"begin", "signup", "cancel"}
RegistersSecurely ==
  pending.call \in Registering => priv.encrypted \/ config.insecureOk
PlainIsAllowed ==
  pending.part = "start" /\ handler # None /\ handler.mech \in GivesPasswordAway => AllowPlain(priv)

IInv == /\ TypeOK /\ FlagIsTrue /\ HasStream /\ Encrypted /\ RegistersSecurely
        /\ PlainIsAllowed /\ CredentialsFollowPolicy

CallSeq == Seq([op : Operations, told : {"nothing", "ok", "error", "refused"}])

\* An operation that ends leaves no sub-operation pending.
LEMMA CompleteEnds ==
  ASSUME NEW p \in Privs, NEW told \in {"ok", "error"}, calls \in CallSeq, Complete(p, told)
  PROVE  /\ priv' \in Privs /\ priv'.encrypted = p.encrypted
         /\ calls' \in CallSeq /\ pending' = Nothing
<1> DEFINE q == [p EXCEPT !.cancellable = FALSE]
<1>1. q \in Privs /\ q.encrypted = p.encrypted
  BY Zenon DEF Privs
<1>2. priv' = [q EXCEPT !.result = 0]
  BY DEF Complete
<1>3. 0 \in 0 .. MaxCalls
  BY BoundsAssumption
<1>4. priv' \in Privs /\ priv'.encrypted = p.encrypted
  <2> HIDE DEF q
  <2> QED  BY <1>1, <1>2, <1>3, Zenon DEF Privs
<1>5. calls' \in CallSeq
  <2> DEFINE Rec == [op : Operations, told : {"nothing", "ok", "error", "refused"}]
             r == [calls[p.result] EXCEPT !.told = told]
  <2>1. calls' = [calls EXCEPT ![p.result] = r]
    BY DEF Complete
  <2>2. calls \in Seq(Rec)
    BY DEF CallSeq
  <2>3. ASSUME p.result \in DOMAIN calls  PROVE r \in Rec
    <3>1. calls[p.result] \in Rec
      <4> HIDE DEF Rec, r
      <4> QED  BY <2>2, <2>3
    <3> QED  BY <3>1, Zenon
  <2> HIDE DEF Rec, r
  <2>4. CASE p.result \in DOMAIN calls
    BY <2>1, <2>2, <2>3, <2>4 DEF CallSeq, Rec
  <2>5. CASE p.result \notin DOMAIN calls
    <3>1. calls = [i \in 1 .. Len(calls) |-> calls[i]]
      BY <2>2
    <3>2. calls' = calls
      BY <2>1, <2>5, <3>1
    <3> QED  BY <2>2, <3>2 DEF CallSeq, Rec
  <2> QED  BY <2>4, <2>5
<1> QED  BY <1>4, <1>5 DEF Complete

\* So does one that is given up.
LEMMA AbortEnds ==
  ASSUME NEW p \in Privs, calls \in CallSeq, AbortConnect(p)
  PROVE  /\ priv' \in Privs /\ priv'.encrypted = p.encrypted
         /\ calls' \in CallSeq /\ pending' = Nothing
<1> DEFINE q == [p EXCEPT !.state = "disconnected", !.sock = FALSE]
<1>1. q \in Privs /\ q.encrypted = p.encrypted
  BY DEF Privs
<1>2. Complete(q, "error")
  BY DEF AbortConnect
<1> HIDE DEF q
<1> QED  BY <1>1, <1>2, CompleteEnds

LEMMA TypesHold == ASSUME IInv PROVE priv \in Privs /\ calls \in CallSeq
BY DEF IInv, TypeOK, CallSeq

\* What a step of the procedure leaves behind: it goes on with one of the given calls.
Leaves(p, names) ==
  /\ priv' \in Privs /\ priv'.encrypted = p.encrypted /\ calls' \in CallSeq
  /\ pending'.call \in names /\ pending'.part \in PartNames

LEMMA ContinueLeaves ==
  ASSUME NEW p \in Privs, NEW call \in CallNames, NEW part \in PartNames, calls \in CallSeq,
         Continue(p, call, part)
  PROVE  /\ Leaves(p, {call}) /\ pending'.part = part /\ priv' = p
BY DEF Continue, Waiting, Leaves

LEMMA CompleteLeaves ==
  ASSUME NEW p \in Privs, NEW told \in {"ok", "error"}, calls \in CallSeq, Complete(p, told)
  PROVE  Leaves(p, {"nothing"}) /\ pending'.part = "nothing"
BY CompleteEnds DEF Leaves, Nothing, Waiting, PartNames

LEMMA AbortLeaves ==
  ASSUME NEW p \in Privs, calls \in CallSeq, AbortConnect(p)
  PROVE  Leaves(p, {"nothing"}) /\ pending'.part = "nothing"
BY AbortEnds DEF Leaves, Nothing, Waiting, PartNames

\* Registration is begun only under encryption, or where the application does without.
LEMMA BeginLeaves ==
  ASSUME NEW p \in Privs, calls \in CallSeq, Xep77Begin(p)
  PROVE  /\ Leaves(p, {"nothing", "begin"}) /\ pending'.part # "start"
         /\ pending'.call = "begin" => p.encrypted \/ config.insecureOk
<1>1. CASE ~p.encrypted /\ ~config.insecureOk
  <2>1. AbortConnect(p)
    BY <1>1 DEF Xep77Begin
  <2> QED  BY <2>1, AbortLeaves DEF Leaves
<1>2. CASE p.encrypted \/ config.insecureOk
  <2>1. Continue(p, "begin", "sent")
    BY <1>2 DEF Xep77Begin
  <2> QED  BY <1>2, <2>1, ContinueLeaves DEF Leaves, CallNames, PartNames
<1> QED  BY <1>1, <1>2

LEMMA SessionLeaves ==
  ASSUME NEW p \in Privs, calls \in CallSeq, EstablishSession(p)
  PROVE  /\ Leaves(p, {"nothing", "begin", "session"}) /\ pending'.part # "start"
         /\ pending'.call = "begin" => p.encrypted \/ config.insecureOk
<1>1. CASE Continue(p, "session", "sent")
  BY <1>1, ContinueLeaves DEF Leaves, CallNames, PartNames
<1>2. CASE Xep77Begin(p)
  BY <1>2, BeginLeaves DEF Leaves
<1>3. CASE Complete(p, "ok")
  BY <1>3, CompleteLeaves DEF Leaves
<1> QED  BY <1>1, <1>2, <1>3 DEF EstablishSession

\* A new handler is one of its mechanism, before the server has said anything.
LEMMA HandlersBegin ==
  ASSUME NEW m \in MechanismNames
  PROVE  /\ NewHandler(m) \in Handlers /\ NewHandler(m).mech = m
         /\ NewHandler(m).state \in {"started", "first message"}
<1>1. CASE m = "scram"
  <2> DEFINE h == [mech |-> "scram", state |-> "first message"]
  <2>1. NewHandler(m) = h
    BY <1>1 DEF NewHandler, InitialResponse, ScramInitialResponse
  <2>2. h \in Handlers
    BY DEF Handlers
  <2>3. h.mech = m /\ h.state = "first message"
    BY <1>1
  <2> HIDE DEF h
  <2> QED  BY <2>1, <2>2, <2>3
<1>2. CASE m # "scram"
  <2> DEFINE h == [mech |-> m, state |-> "started"]
  <2>1. NewHandler(m) = h
    BY <1>2 DEF NewHandler, InitialResponse
  <2>2. h \in Handlers
    <3>1. CASE m = "digest"
      BY <3>1 DEF Handlers
    <3>2. CASE m \in {"plain", "jabber digest", "jabber password"}
      BY <3>2 DEF Handlers
    <3> QED  BY <1>2, <3>1, <3>2 DEF MechanismNames
  <2>3. h.mech = m /\ h.state = "started"
    OBVIOUS
  <2> HIDE DEF h
  <2> QED  BY <2>1, <2>2, <2>3
<1> QED  BY <1>1, <1>2

\* The registry chooses a handler that gives the password away only where that is allowed.
LEMMA HandlerAllowed ==
  ASSUME NEW p, NEW mechanisms
  PROVE  /\ SelectHandler(p, mechanisms) \in Handlers \cup {None}
         /\ SelectHandler(p, mechanisms) # None /\ SelectHandler(p, mechanisms).mech \in GivesPasswordAway
              => AllowPlain(p)
<1> DEFINE e == Eligible(p, mechanisms)
           first == {i \in DOMAIN Preference :
                       Preference[i] \in e /\ \A k \in 1 .. i - 1 : Preference[k] \notin e}
           m == Preference[CHOOSE i \in first : TRUE]
<1>1. CASE first = {}
  BY <1>1 DEF SelectHandler
<1>2. CASE first # {}
  <2>1. PICK i \in first : i = CHOOSE k \in first : TRUE
    BY <1>2
  <2>2. m = Preference[i] /\ Preference[i] \in e /\ i \in DOMAIN Preference
    BY <2>1
  <2>3. m \in MechanismNames
    BY <2>2 DEF Eligible
  <2>4. m \in GivesPasswordAway => AllowPlain(p)
    BY <2>2 DEF Eligible
  <2>5. SelectHandler(p, mechanisms) = NewHandler(m)
    BY <1>2 DEF SelectHandler
  <2>6. NewHandler(m) \in Handlers /\ NewHandler(m).mech = m
    BY <2>3, HandlersBegin
  <2> QED  BY <2>4, <2>5, <2>6
<1> QED  BY <1>1, <1>2

LEMMA StartAuthLeaves ==
  ASSUME NEW p \in Privs, NEW call \in {"sasl", "jabber auth"}, NEW mechanisms,
         calls \in CallSeq, handler \in Handlers \cup {None}, config' = config,
         StartAuth(p, call, mechanisms)
  PROVE  /\ Leaves(p, {"abort", call}) /\ handler' \in Handlers \cup {None}
         /\ PlainIsAllowed'
<1>1. CASE handler # None
  <2>1. priv' = p /\ pending' = Aborted /\ calls' = calls /\ handler' = handler
    BY <1>1 DEF StartAuth
  <2> QED  BY <2>1 DEF Leaves, Aborted, Waiting, PartNames, PlainIsAllowed
<1>2. CASE handler = None
  <2>1. Continue(p, call, "start") /\ handler' = SelectHandler(p, mechanisms)
    BY <1>2 DEF StartAuth
  <2>2. Leaves(p, {call}) /\ priv' = p
    BY <2>1, ContinueLeaves DEF CallNames, PartNames
  <2>3. handler' # None /\ handler'.mech \in GivesPasswordAway => AllowPlain(p)
    BY <2>1, HandlerAllowed
  <2>4. AllowPlain(p) => AllowPlain(priv)'
    BY <2>2 DEF AllowPlain
  <2> QED  BY <2>1, <2>2, <2>3, <2>4, HandlerAllowed DEF Leaves, PlainIsAllowed
<1> QED  BY <1>1, <1>2

LEMMA SaslLeaves ==
  ASSUME NEW p \in Privs, calls \in CallSeq, handler \in Handlers \cup {None},
         config' = config, SaslRequestAuth(p)
  PROVE  /\ Leaves(p, {"abort", "sasl"}) /\ handler' \in Handlers \cup {None}
         /\ PlainIsAllowed'
<1>1. CASE priv' = p /\ pending' = Aborted /\ UNCHANGED <<calls, handler>>
  BY <1>1 DEF Leaves, Aborted, Waiting, PartNames, PlainIsAllowed
<1>2. CASE Continue(p, "sasl", "unsupported") /\ UNCHANGED handler
  BY <1>2, ContinueLeaves DEF Leaves, CallNames, PartNames, PlainIsAllowed
<1>3. CASE StartAuth(p, "sasl", Mechanisms(p))
  BY <1>3, StartAuthLeaves DEF Leaves
<1> QED  BY <1>1, <1>2, <1>3 DEF SaslRequestAuth

\* A step that stays on the stream, sends no credential, and goes on to a sub-operation only if
\* the policy has been satisfied, preserves the invariant.
LEMMA StaysOnStream ==
  ASSUME IInv, config' = config, conn' = conn, offered' = offered,
         server' \in Servers, account' \in BOOLEAN, cancelled' \in BOOLEAN,
         handler' \in Handlers \cup {None}, Leaves(priv, CallNames),
         pending'.call \in OnStream => pending.call \in OnStream,
         pending'.call \in AfterPolicy => (config.tlsRequired => priv.encrypted),
         pending'.call \in Registering => priv.encrypted \/ config.insecureOk,
         PlainIsAllowed'
  PROVE  IInv'
<1>1. TypeOK'
  BY DEF IInv, TypeOK, Leaves, CallSeq
<1>2. FlagIsTrue' /\ HasStream'
  BY DEF IInv, FlagIsTrue, HasStream, Leaves
<1>3. Encrypted' /\ RegistersSecurely'
  BY DEF Encrypted, RegistersSecurely, Leaves
<1>4. CredentialsFollowPolicy'
  BY DEF IInv, CredentialsFollowPolicy
<1> QED  BY <1>1, <1>2, <1>3, <1>4 DEF IInv

LEMMA InitInv == Init => IInv
<1> SUFFICES ASSUME Init PROVE IInv
  OBVIOUS
<1>1. priv \in Privs
  <2>1. 0 \in 0 .. MaxCalls /\ 0 \in 0 .. MaxRedirects
    BY BoundsAssumption
  <2> QED  BY <2>1 DEF Init, Privs
<1>2. priv.encrypted = FALSE
  BY DEF Init
<1>3. TypeOK
  <2>1. pending.call \in CallNames /\ pending.part \in PartNames
    BY DEF Init, Nothing, Waiting, CallNames, PartNames
  <2>2. server \in Servers
    BY DEF Init, Stranger, Servers
  <2>3. calls \in CallSeq
    BY DEF Init, CallSeq
  <2> QED  BY <1>1, <2>1, <2>2, <2>3 DEF Init, TypeOK, CallSeq
<1> QED  BY <1>2, <1>3 DEF Init, IInv, FlagIsTrue, HasStream, Encrypted, RegistersSecurely,
              PlainIsAllowed, CredentialsFollowPolicy, Nothing, Waiting, OnStream, AfterPolicy,
              Registering

LEMMA CallKeeps ==
  ASSUME IInv, NEW op \in Operations, Call(op)  PROVE IInv'
<1> DEFINE wanted == IF op = "connect" THEN priv.regOp ELSE RegOp[op]
           q == [priv EXCEPT !.regOp = wanted]
           Rec == [op : Operations, told : {"nothing", "ok", "error", "refused"}]
<1>1. /\ priv \in Privs /\ calls \in Seq(Rec) /\ pending.call \in CallNames
      /\ pending.part \in PartNames
  BY DEF IInv, TypeOK
<1>2. wanted \in {"none", "signup", "cancel"}
  <2>1. priv.regOp \in {"none", "signup", "cancel"}
    BY <1>1, Zenon DEF Privs
  <2>2. RegOp[op] \in {"none", "signup", "cancel"}
    BY DEF RegOp, Operations
  <2> QED  BY <2>1, <2>2, Zenon
<1>3. q \in Privs /\ q.encrypted = priv.encrypted
  <2> HIDE DEF wanted
  <2> QED  BY <1>1, <1>2, Zenon DEF Privs
<1>4. ASSUME NEW told \in {"nothing", "ok", "error", "refused"},
             calls' = Append(calls, [op |-> op, told |-> told])
      PROVE  calls' \in CallSeq
  <2>1. [op |-> op, told |-> told] \in Rec
    BY Zenon
  <2> HIDE DEF Rec
  <2>2. calls' \in Seq(Rec)
    BY <1>1, <1>4, <2>1
  <2> QED  BY <2>2 DEF CallSeq, Rec
<1>5. CASE priv.result # 0
  <2>1. priv' = q /\ pending' = pending /\ calls' \in CallSeq /\ UNCHANGED cancelled
    BY <1>4, <1>5 DEF Call
  <2>2. Leaves(priv, CallNames)
    BY <1>1, <1>3, <2>1 DEF Leaves
  <2>3. PlainIsAllowed'
    BY <1>3, <2>1 DEF IInv, PlainIsAllowed, AllowPlain, Call
  <2> QED
    <3> HIDE DEF q, wanted
    <3> QED  BY <2>1, <2>2, <2>3, StaysOnStream
               DEF Call, IInv, TypeOK, Encrypted, RegistersSecurely
<1>6. CASE priv.result = 0 /\ ~config.domain
  <2> DEFINE q2 == [q EXCEPT !.state = "disconnected", !.sock = FALSE]
  <2>1. q2 \in Privs /\ q2.encrypted = priv.encrypted
    <3> HIDE DEF q
    <3> QED  BY <1>3, Zenon DEF Privs
  <2>2. priv' = q2 /\ pending' = pending /\ calls' \in CallSeq /\ UNCHANGED cancelled
    BY <1>4, <1>6 DEF Call
  <2> HIDE DEF q2, q, wanted
  <2>3. Leaves(priv, CallNames)
    BY <1>1, <2>1, <2>2 DEF Leaves
  <2>4. PlainIsAllowed'
    BY <2>1, <2>2 DEF IInv, PlainIsAllowed, AllowPlain, Call
  <2> QED  BY <2>2, <2>3, <2>4, StaysOnStream
             DEF Call, IInv, TypeOK, Encrypted, RegistersSecurely
<1>7. CASE priv.result = 0 /\ config.domain
  <2> DEFINE q2 == [q EXCEPT !.result = Len(calls) + 1, !.cancellable = TRUE]
             q3 == [q2 EXCEPT !.state = "tcpConnecting"]
  <2>1. Len(calls) + 1 \in 0 .. MaxCalls
    <3>1. Len(calls) < MaxCalls
      BY Zenon DEF Call, MayCall
    <3>2. Len(calls) \in Nat
      <4> HIDE DEF Rec
      <4> QED  BY <1>1
    <3> QED  BY <3>1, <3>2, BoundsAssumption
  <2>2. q2 \in Privs /\ q2.encrypted = priv.encrypted
    <3> HIDE DEF q
    <3> QED  BY <1>3, <2>1, Zenon DEF Privs
  <2>3. q3 \in Privs /\ q3.encrypted = priv.encrypted
    <3> HIDE DEF q2
    <3> QED  BY <2>2, Zenon DEF Privs
  <2>4. /\ priv' = q3 /\ calls' \in CallSeq /\ cancelled' = FALSE
        /\ pending' = Waiting("tcp", IF config.host THEN "host" ELSE "srv")
    BY <1>4, <1>7 DEF Call
  <2> HIDE DEF q3, q2, q, wanted
  <2>5. pending'.call = "tcp" /\ pending'.part \in {"host", "srv"}
    BY <2>4 DEF Waiting
  <2>6. Leaves(priv, CallNames)
    BY <2>3, <2>4, <2>5 DEF Leaves, CallNames, PartNames
  <2> QED  BY <2>4, <2>5, <2>6, StaysOnStream
             DEF Call, IInv, TypeOK, OnStream, AfterPolicy, Registering, PlainIsAllowed
<1> QED  BY <1>5, <1>6, <1>7 DEF Call

\* The pending call is replaced without a change of the private data.
LEMMA GoesOn ==
  ASSUME IInv, NEW call \in CallNames, NEW part \in PartNames, Continue(priv, call, part),
         call \in OnStream => pending.call \in OnStream,
         call \in AfterPolicy => (config.tlsRequired => priv.encrypted),
         call \in Registering => priv.encrypted \/ config.insecureOk,
         part # "start",
         UNCHANGED <<config, conn, handler, cancelled, server, account, offered>>
  PROVE  IInv'
<1>1. Leaves(priv, {call}) /\ pending'.part = part
  BY ContinueLeaves DEF IInv, TypeOK, CallSeq
<1>2. Leaves(priv, CallNames) /\ pending'.call = call
  BY <1>1 DEF Leaves
<1>3. PlainIsAllowed'
  BY <1>1 DEF PlainIsAllowed
<1>4. UNCHANGED <<cancelled, server, account, handler>>
  OBVIOUS
<1> QED  BY <1>1, <1>2, <1>3, <1>4, StaysOnStream DEF IInv, TypeOK

\* The operation ends, whatever becomes of the account.
LEMMA Ends ==
  ASSUME IInv, Leaves(priv, {"nothing"}), pending'.part = "nothing", account' \in BOOLEAN,
         UNCHANGED <<config, conn, handler, cancelled, server, offered>>
  PROVE  IInv'
<1>1. Leaves(priv, CallNames)
  BY DEF Leaves, CallNames
<1> QED  BY <1>1, StaysOnStream DEF IInv, TypeOK, Leaves, OnStream, AfterPolicy, Registering,
              PlainIsAllowed

LEMMA CancelKeeps == ASSUME IInv, Cancel PROVE IInv'
<1>1. Leaves(priv, CallNames)
  BY DEF IInv, TypeOK, Leaves, Cancel, CallSeq
<1>2. PlainIsAllowed'
  BY DEF IInv, PlainIsAllowed, AllowPlain, Cancel
<1> QED  BY <1>1, <1>2, StaysOnStream DEF Cancel, IInv, TypeOK, Encrypted, RegistersSecurely

LEMMA TcpConnectedKeeps == ASSUME IInv, TcpConnected PROVE IInv'
<1> DEFINE q == [priv EXCEPT !.sock = TRUE, !.state = "tcpConnected"]
<1>1. q \in Privs /\ q.encrypted = priv.encrypted
  BY Zenon DEF IInv, TypeOK, Privs
<1> HIDE DEF q
<1>2. MaybeOldSsl(q) /\ UNCHANGED <<config, handler, cancelled, account, offered>>
  BY DEF TcpConnected, q
<1>3. calls \in CallSeq
  BY DEF IInv, TypeOK, CallSeq
<1>4. CASE priv' = q /\ pending' = Aborted /\ UNCHANGED <<calls, conn, server>>
  <2>1. Leaves(priv, CallNames)
    BY <1>1, <1>3, <1>4 DEF Leaves, Aborted, Waiting, CallNames, PartNames
  <2> QED  BY <1>2, <1>4, <2>1, StaysOnStream
             DEF IInv, TypeOK, OnStream, AfterPolicy, Registering, PlainIsAllowed, Aborted, Waiting
<1>5. CASE /\ conn = None /\ conn' = [tls |-> FALSE, sm |-> FALSE] /\ server' = Stranger
           /\ Continue(q, "tls", "handshake") \/ Continue(q, "open", "sent")
  <2>1. Leaves(q, {"tls", "open"}) /\ pending'.part # "start"
    <3>1. /\ {"tls", "open"} \subseteq CallNames /\ {"handshake", "sent"} \subseteq PartNames
          /\ "start" \notin {"handshake", "sent"}
      BY DEF CallNames, PartNames
    <3>2. CASE Continue(q, "tls", "handshake")
      BY <1>1, <1>3, <3>1, <3>2, ContinueLeaves DEF Leaves
    <3>3. CASE Continue(q, "open", "sent")
      BY <1>1, <1>3, <3>1, <3>3, ContinueLeaves DEF Leaves
    <3> QED  BY <1>5, <3>2, <3>3
  <2>2. conn' \in Connections /\ server' \in Servers
    BY <1>5 DEF Connections, Servers, Stranger
  <2>3. TypeOK'
    BY <1>2, <2>1, <2>2 DEF IInv, TypeOK, Leaves, CallSeq, CallNames
  <2>4. ~priv.encrypted
    BY <1>5 DEF IInv, FlagIsTrue
  <2>5. conn' # None
    BY <2>2, NoneAssumption
  <2> QED  BY <1>1, <1>2, <2>1, <2>3, <2>4, <2>5
             DEF IInv, Leaves, FlagIsTrue, HasStream, Encrypted, RegistersSecurely, PlainIsAllowed,
                 CredentialsFollowPolicy, OnStream, AfterPolicy, Registering
<1> QED  BY <1>2, <1>4, <1>5 DEF MaybeOldSsl, SecureAsync

LEMMA TcpSrvFailedKeeps == ASSUME IInv, TcpSrvFailed PROVE IInv'
<1> DEFINE q == [priv EXCEPT !.state = "tcpConnecting"]
<1>1. q \in Privs /\ q.encrypted = priv.encrypted
  BY Zenon DEF IInv, TypeOK, Privs
<1>2. Continue(q, "tcp", "host") /\ calls \in CallSeq
  BY DEF TcpSrvFailed, ConnectToHost, IInv, TypeOK, CallSeq
<1> HIDE DEF q
<1>3. Leaves(priv, CallNames) /\ pending'.call = "tcp" /\ pending'.part = "host"
  BY <1>1, <1>2, ContinueLeaves DEF Leaves, CallNames, PartNames
<1> QED  BY <1>3, StaysOnStream
           DEF TcpSrvFailed, IInv, TypeOK, OnStream, AfterPolicy, Registering, PlainIsAllowed

LEMMA TcpHostFailedKeeps == ASSUME IInv, TcpHostFailed PROVE IInv'
BY AbortLeaves, Ends DEF TcpHostFailed, IInv, TypeOK, CallSeq

LEMMA StanzaSentKeeps == ASSUME IInv, NEW call \in CallNames, StanzaSent(call) PROVE IInv'
<1>1. pending.call = call /\ "recv" \in PartNames
  BY DEF StanzaSent, Waiting, PartNames
<1> QED  BY <1>1, GoesOn DEF StanzaSent, IInv, Encrypted, RegistersSecurely

LEMMA FailKeeps == ASSUME IInv, Fail PROVE IInv'
<1>1. account' \in BOOLEAN
  <2>1. CASE pending = Waiting("cancel", "recv")
    BY <2>1 DEF Fail, IInv, TypeOK
  <2>2. CASE pending # Waiting("cancel", "recv") /\ pending = Waiting("signup", "recv")
    BY <2>2 DEF Fail, IInv, TypeOK
  <2>3. CASE pending # Waiting("cancel", "recv") /\ pending # Waiting("signup", "recv")
    BY <2>3 DEF Fail, IInv, TypeOK
  <2> QED  BY <2>1, <2>2, <2>3
<1>2. Leaves(priv, {"nothing"}) /\ pending'.part = "nothing"
  BY AbortLeaves DEF Fail, IInv, TypeOK, CallSeq
<1> QED  BY <1>1, <1>2, Ends DEF Fail

LEMMA OpenReceivedKeeps == ASSUME IInv, NEW version, OpenReceived(version) PROVE IInv'
<1>1. pending.call = "open" /\ account \in BOOLEAN
  BY DEF OpenReceived, Waiting, IInv, TypeOK
<1>2. CASE Continue(priv, "features", "recv")
  BY <1>1, <1>2, GoesOn
    DEF OpenReceived, CallNames, PartNames, OnStream, AfterPolicy, Registering
<1>3. CASE AbortConnect(priv)
  BY <1>1, <1>3, AbortLeaves, Ends DEF OpenReceived, IInv, TypeOK, CallSeq
<1>4. CASE Continue(priv, "jabber", "sent") /\ ~(config.tlsRequired /\ ~priv.encrypted)
  BY <1>1, <1>4, GoesOn
    DEF OpenReceived, CallNames, PartNames, OnStream, AfterPolicy, Registering
<1> QED  BY <1>2, <1>3, <1>4 DEF OpenReceived, JabberAuthenticate

LEMMA FeaturesReceivedKeeps == ASSUME IInv, NEW f \in Offers, FeaturesReceived(f) PROVE IInv'
<1> DEFINE q == [priv EXCEPT !.features = f]
<1>1. /\ q \in Privs /\ q.encrypted = priv.encrypted /\ calls \in CallSeq
      /\ handler \in Handlers \cup {None} /\ pending.call = "features"
  <2>1. q \in Privs /\ q.encrypted = priv.encrypted
    BY Zenon DEF IInv, TypeOK, Privs
  <2> QED  BY <2>1 DEF IInv, TypeOK, CallSeq, FeaturesReceived, Waiting
<1> HIDE DEF q
<1>2. Received(q) /\ UNCHANGED <<config, conn, cancelled, server, account, offered>>
  BY DEF FeaturesReceived, q
<1>4. CASE AbortConnect(q) /\ UNCHANGED handler
  <2>1. Leaves(priv, {"nothing"}) /\ pending'.part = "nothing"
    BY <1>1, <1>4, AbortLeaves DEF Leaves
  <2> QED  BY <1>2, <1>4, <2>1, Ends DEF IInv, TypeOK
<1>5. ASSUME NEW call \in {"tls", "bind"}, Continue(q, call, "sent"), UNCHANGED handler,
             call = "bind" => (config.tlsRequired => q.encrypted)
      PROVE  IInv'
  <2>1. Leaves(q, {call}) /\ pending'.part = "sent"
    BY <1>1, <1>5, ContinueLeaves DEF CallNames, PartNames
  <2>2. Leaves(priv, CallNames) /\ pending'.call = call
    BY <1>1, <2>1 DEF Leaves, CallNames
  <2> QED  BY <1>1, <1>2, <1>5, <2>1, <2>2, StaysOnStream
             DEF IInv, TypeOK, OnStream, AfterPolicy, Registering, PlainIsAllowed
<1>6. CASE (config.tlsRequired => q.encrypted) /\ Xep77Begin(q) /\ UNCHANGED handler
  <2>1. /\ Leaves(q, {"nothing", "begin"}) /\ pending'.part # "start"
        /\ pending'.call = "begin" => q.encrypted \/ config.insecureOk
    BY <1>1, <1>6, BeginLeaves
  <2>2. Leaves(priv, CallNames) /\ pending'.call \in {"nothing", "begin"}
    BY <1>1, <2>1 DEF Leaves, CallNames
  <2> QED  BY <1>1, <1>2, <1>6, <2>1, <2>2, StaysOnStream
             DEF IInv, TypeOK, OnStream, AfterPolicy, Registering, PlainIsAllowed
<1>7. CASE (config.tlsRequired => q.encrypted) /\ SaslRequestAuth(q)
  <2>1. /\ Leaves(q, {"abort", "sasl"}) /\ handler' \in Handlers \cup {None}
        /\ PlainIsAllowed'
    BY <1>1, <1>2, <1>7, SaslLeaves
  <2>2. Leaves(priv, CallNames) /\ pending'.call \in {"abort", "sasl"}
    BY <1>1, <2>1 DEF Leaves, CallNames
  <2> QED  BY <1>1, <1>2, <1>7, <2>1, <2>2, StaysOnStream
             DEF IInv, TypeOK, OnStream, AfterPolicy, Registering
<1>8. \/ AbortConnect(q) /\ UNCHANGED handler
      \/ Continue(q, "tls", "sent") /\ UNCHANGED handler
      \/ /\ config.tlsRequired => q.encrypted
         /\ \/ Xep77Begin(q) /\ UNCHANGED handler
            \/ SaslRequestAuth(q)
            \/ Continue(q, "bind", "sent") /\ UNCHANGED handler
  BY <1>2 DEF Received, SecureAsync, IqBindResource
<1> QED  BY <1>4, <1>5, <1>6, <1>7, <1>8

\* A redirection gives up the connection and the belief that it is encrypted together.
LEMMA RedirectedKeeps == ASSUME IInv, Redirected PROVE IInv'
<1> DEFINE q == Reset(priv)
<1>1. q \in Privs /\ q.encrypted = FALSE
  <2> DEFINE q1 == [priv EXCEPT !.features = None, !.sock = FALSE, !.state = "tcpConnecting",
                                !.authed = FALSE, !.encrypted = FALSE]
  <2>1. q1 \in Privs /\ q1.encrypted = FALSE /\ q1.redirects = priv.redirects
    BY Zenon DEF IInv, TypeOK, Privs
  <2>2. q = [q1 EXCEPT !.redirects = priv.redirects + 1]
    BY Zenon DEF Reset, IInv, TypeOK, Privs
  <2>3. priv.redirects + 1 \in 0 .. MaxRedirects
    <3>1. priv.redirects < MaxRedirects
      BY Zenon DEF Redirected, MayRedirect
    <3>2. priv.redirects \in 0 .. MaxRedirects
      BY Zenon DEF IInv, TypeOK, Privs
    <3> QED  BY <3>1, <3>2, BoundsAssumption
  <2> HIDE DEF q1, q
  <2> QED  BY <2>1, <2>2, <2>3, Zenon DEF Privs
<1>2. /\ Continue(q, "tcp", "host") /\ conn' = None /\ calls \in CallSeq
      /\ UNCHANGED <<config, handler, cancelled, server, account, offered>>
  BY DEF Redirected, ConnectToHost, IInv, TypeOK, CallSeq
<1> HIDE DEF q
<1>3. Leaves(q, {"tcp"}) /\ pending'.part = "host"
  BY <1>1, <1>2, ContinueLeaves DEF CallNames, PartNames
<1>4. TypeOK'
  BY <1>2, <1>3 DEF IInv, TypeOK, Leaves, CallSeq, CallNames
<1> QED  BY <1>1, <1>2, <1>3, <1>4
           DEF IInv, Leaves, FlagIsTrue, HasStream, Encrypted, RegistersSecurely, PlainIsAllowed,
               CredentialsFollowPolicy, OnStream, AfterPolicy, Registering

LEMMA TlsProceedsKeeps == ASSUME IInv, TlsProceeds PROVE IInv'
<1>1. pending.call = "tls"
  BY DEF TlsProceeds, Waiting
<1>2. CASE Continue(priv, "tls", "handshake")
  BY <1>1, <1>2, GoesOn
    DEF TlsProceeds, CallNames, PartNames, OnStream, AfterPolicy, Registering
<1>3. CASE Continue(priv, "tls", "verify")
  BY <1>1, <1>3, GoesOn
    DEF TlsProceeds, CallNames, PartNames, OnStream, AfterPolicy, Registering
<1> QED  BY <1>2, <1>3 DEF TlsProceeds

LEMMA TlsSecuredKeeps == ASSUME IInv, TlsSecured PROVE IInv'
<1> DEFINE q == [priv EXCEPT !.encrypted = TRUE]
<1>1. q \in Privs /\ q.encrypted = TRUE
  BY Zenon DEF IInv, TypeOK, Privs
<1>2. /\ Continue(q, "open", "sent") /\ conn' = [tls |-> TRUE, sm |-> FALSE]
      /\ calls \in CallSeq
      /\ UNCHANGED <<config, handler, cancelled, server, account, offered>>
  BY DEF TlsSecured, IInv, TypeOK, CallSeq
<1> HIDE DEF q
<1>3. Leaves(q, {"open"}) /\ pending'.part = "sent"
  BY <1>1, <1>2, ContinueLeaves DEF CallNames, PartNames
<1>4. conn' \in Connections /\ conn' # None /\ conn'.tls
  <2>1. conn' \in Connections /\ conn'.tls
    BY <1>2 DEF Connections
  <2> QED  BY <2>1, NoneAssumption
<1>5. TypeOK'
  BY <1>2, <1>3, <1>4 DEF IInv, TypeOK, Leaves, CallSeq, CallNames
<1> QED  BY <1>1, <1>2, <1>3, <1>4, <1>5
           DEF IInv, Leaves, FlagIsTrue, HasStream, Encrypted, RegistersSecurely, PlainIsAllowed,
               CredentialsFollowPolicy, OnStream, AfterPolicy, Registering

LEMMA SaslUnsupportedKeeps == ASSUME IInv, SaslUnsupported PROVE IInv'
<1>0. account \in BOOLEAN /\ pending.call = "sasl"
  BY DEF IInv, TypeOK, SaslUnsupported, Waiting
<1>1. CASE AbortConnect(priv)
  BY <1>0, <1>1, AbortLeaves, Ends DEF SaslUnsupported, IInv, TypeOK, CallSeq
<1>2. CASE Continue(priv, "jabber", "sent")
  BY <1>0, <1>2, GoesOn
    DEF SaslUnsupported, IInv, Encrypted, CallNames, PartNames, OnStream, AfterPolicy, Registering
<1> QED  BY <1>1, <1>2 DEF SaslUnsupported, JabberAuthenticate

\* A credential is sent: the policy allows it, and the stream is what the flag says.
LEMMA Sends ==
  ASSUME IInv, NEW call \in {"sasl", "jabber auth", "signup"}, NEW part \in {"sent", "responded"},
         NEW form \in MechanismNames \cup {"signup"},
         Continue(priv, call, part), Offer(form), pending.call \in AfterPolicy,
         form \in GivesPasswordAway => AllowPlain(priv),
         form = "signup" \/ call = "signup" => priv.encrypted \/ config.insecureOk,
         UNCHANGED <<config, conn, handler, cancelled, server, account>>
  PROVE  IInv'
<1>1. Leaves(priv, {call}) /\ pending'.part = part /\ pending'.call = call
  <2>1. priv \in Privs /\ calls \in CallSeq
    BY TypesHold
  <2>2. call \in CallNames /\ part \in PartNames
    BY DEF CallNames, PartNames
  <2>3. Leaves(priv, {call}) /\ pending'.part = part
    BY <2>1, <2>2, ContinueLeaves
  <2> QED  BY <2>3 DEF Leaves
<1>2. conn \in Connections /\ conn # None /\ (config.tlsRequired => priv.encrypted)
  BY DEF IInv, TypeOK, HasStream, OnStream, Encrypted
<1>3. priv.encrypted => conn.tls
  BY DEF IInv, FlagIsTrue
<1> DEFINE c == [form |-> form, tls |-> conn.tls]
<1>4. /\ c \in [form : MechanismNames \cup {"signup"}, tls : BOOLEAN]
      /\ c.form = form /\ c.tls = conn.tls
  BY <1>2 DEF Connections
<1>5. /\ config.tlsRequired => c.tls
      /\ c.form \in GivesPasswordAway => config.insecureOk \/ (c.tls /\ config.plainOk)
      /\ c.form = "signup" => config.insecureOk \/ c.tls
  <2> HIDE DEF c
  <2> QED  BY <1>2, <1>3, <1>4 DEF AllowPlain
<1>6. offered' = offered \cup {c}
  BY DEF Offer
<1> HIDE DEF c
<1>7. TypeOK'
  BY <1>1, <1>4, <1>6 DEF IInv, TypeOK, Leaves, CallSeq, CallNames
<1>8. CredentialsFollowPolicy'
  BY <1>5, <1>6 DEF IInv, CredentialsFollowPolicy
<1> QED  BY <1>1, <1>2, <1>7, <1>8
           DEF IInv, Leaves, FlagIsTrue, HasStream, Encrypted, RegistersSecurely, PlainIsAllowed,
               OnStream, AfterPolicy, Registering

\* The SASL exchange goes on without a credential.
LEMMA SaslGoesOn ==
  ASSUME IInv, pending.call = "sasl", NEW part \in PartNames, part # "start",
         Continue(priv, "sasl", part), handler' \in Handlers \cup {None}, server' \in Servers,
         UNCHANGED <<config, conn, cancelled, account, offered>>
  PROVE  IInv'
<1>1. Leaves(priv, {"sasl"}) /\ pending'.part = part
  BY ContinueLeaves DEF IInv, TypeOK, CallSeq, CallNames
<1>2. Leaves(priv, CallNames) /\ pending'.call = "sasl"
  BY <1>1 DEF Leaves, CallNames
<1> QED  BY <1>1, <1>2, StaysOnStream
           DEF IInv, TypeOK, Encrypted, OnStream, AfterPolicy, Registering, PlainIsAllowed

LEMMA SaslStartedKeeps == ASSUME IInv, SaslStarted PROVE IInv'
<1>1. CASE handler = None
  BY <1>1, AbortLeaves, Ends DEF SaslStarted, IInv, TypeOK, CallSeq
<1>2. CASE handler # None
  <2>1. /\ handler \in Handlers /\ (handler.mech \in GivesPasswordAway => AllowPlain(priv))
        /\ pending.call = "sasl"
    BY <1>2 DEF SaslStarted, IInv, TypeOK, PlainIsAllowed, Waiting
  <2>2. handler.mech \in MechanismNames /\ handler.mech # "signup"
    BY <2>1 DEF Handlers, MechanismNames
  <2>3. CASE Offer(handler.mech)
    BY <1>2, <2>1, <2>2, <2>3, Sends DEF SaslStarted, AfterPolicy
  <2>4. CASE UNCHANGED offered
    BY <1>2, <2>1, <2>4, SaslGoesOn DEF SaslStarted, PartNames, IInv, TypeOK
  <2> QED  BY <1>2, <2>3, <2>4 DEF SaslStarted
<1> QED  BY <1>1, <1>2

LEMMA JabberStartedKeeps == ASSUME IInv, JabberStarted PROVE IInv'
<1>1. CASE handler = None
  BY <1>1, AbortLeaves, Ends DEF JabberStarted, IInv, TypeOK, CallSeq
<1>2. CASE handler # None
  <2>1. /\ handler \in Handlers /\ (handler.mech \in GivesPasswordAway => AllowPlain(priv))
        /\ pending.call = "jabber auth"
    BY <1>2 DEF JabberStarted, IInv, TypeOK, PlainIsAllowed, Waiting
  <2>2. handler.mech \in MechanismNames /\ handler.mech # "signup"
    BY <2>1 DEF Handlers, MechanismNames
  <2>3. Continue(priv, "jabber auth", "sent") /\ Offer(handler.mech)
    BY <1>2 DEF JabberStarted
  <2> QED  BY <2>1, <2>2, <2>3, Sends DEF JabberStarted, AfterPolicy
<1> QED  BY <1>1, <1>2

\* What a handler becomes is a handler.
LEMMA HandlersRemain ==
  ASSUME NEW h \in Handlers, NEW d, NEW n \in HandleAuthData(h, d)
  PROVE  n \in Handlers /\ n.mech = h.mech
<1>1. CASE h.mech = "scram"
  <2>1. n \in ScramAuthData(h, d)
    BY <1>1 DEF HandleAuthData
  <2>2. n \in ScramFirstMessage(h, d) \/ n \in ScramFinalMessage(h, d)
    BY <2>1 DEF ScramAuthData
  <2>3. h \in [mech : {"scram"}, state : {"started", "first message", "final message", "finished"}]
    BY <1>1 DEF Handlers
  <2>4. n = [h EXCEPT !.state = "final message"] \/ n = [h EXCEPT !.state = "finished"]
    BY <2>2 DEF ScramFirstMessage, ScramFinalMessage
  <2>5. n \in [mech : {"scram"}, state : {"started", "first message", "final message", "finished"}]
    BY <2>3, <2>4
  <2> QED  BY <1>1, <2>5 DEF Handlers
<1>2. CASE h.mech = "digest"
  <2>1. n \in DigestAuthData(h, d)
    BY <1>2 DEF HandleAuthData
  <2>2. n \in DigestFirstResponse(h, d) \/ n \in DigestServerResponse(h, d)
    BY <2>1 DEF DigestAuthData
  <2>3. h \in [mech : {"digest"}, state : {"started", "sent auth response", "sent final response"}]
    BY <1>2 DEF Handlers
  <2>4. \/ n = [h EXCEPT !.state = "sent auth response"]
        \/ n = [h EXCEPT !.state = "sent final response"]
    BY <2>2 DEF DigestFirstResponse, DigestServerResponse
  <2>5. n \in [mech : {"digest"}, state : {"started", "sent auth response", "sent final response"}]
    BY <2>3, <2>4
  <2> QED  BY <1>2, <2>5 DEF Handlers
<1>3. CASE h.mech # "scram" /\ h.mech # "digest"
  BY <1>3 DEF HandleAuthData
<1> QED  BY <1>1, <1>2, <1>3

LEMMA SaslHearsKeeps ==
  ASSUME IInv, NEW d, NEW part \in {"challenged", "succeeding"},
         SaslHears, Says(d), ChallengeAsync(d, part),
         UNCHANGED <<config, conn, cancelled, account, offered>>
  PROVE  IInv'
<1>1. pending.call = "sasl" /\ handler \in Handlers /\ server \in Servers
  BY DEF SaslHears, IInv, TypeOK
<1>2. server' \in Servers
  BY <1>1 DEF Says, Servers
<1>3. handler' \in Handlers \cup {None}
  BY <1>1, HandlersRemain DEF ChallengeAsync
<1>4. PICK p \in PartNames : p # "start" /\ Continue(priv, "sasl", p)
  BY DEF ChallengeAsync, Outcome, PartNames
<1> QED  BY <1>1, <1>2, <1>3, <1>4, SaslGoesOn

LEMMA SaslChallengedKeeps ==
  ASSUME IInv, NEW d, SaslChallenged(d) \/ SaslSucceedsWithData(d)  PROVE IInv'
BY SaslHearsKeeps DEF SaslChallenged, SaslSucceedsWithData

\* The handler's verdict on a success changes nothing else.
LEMMA VerdictKeeps ==
  ASSUME IInv, pending.call = "sasl", SuccessAsync,
         UNCHANGED <<config, conn, handler, cancelled, server, account, offered>>
  PROVE  IInv'
<1>1. PICK p \in PartNames : p # "start" /\ Continue(priv, "sasl", p)
  BY DEF SuccessAsync, Outcome, PartNames
<1> QED  BY <1>1, SaslGoesOn DEF IInv, TypeOK

LEMMA SaslSucceedsKeeps == ASSUME IInv, SaslSucceeds PROVE IInv'
BY VerdictKeeps DEF SaslSucceeds, SaslHears

LEMMA SaslResponseKeeps == ASSUME IInv, SaslResponse PROVE IInv'
<1>1. pending.call = "sasl" /\ handler \in Handlers
  BY DEF SaslResponse, Waiting, IInv, TypeOK
<1>2. handler.mech \in MechanismNames /\ handler.mech # "signup"
  BY <1>1 DEF Handlers, MechanismNames
<1>3. CASE UNCHANGED offered
  BY <1>1, <1>3, SaslGoesOn DEF SaslResponse, PartNames, IInv, TypeOK
<1>4. CASE AwaitsProof(handler) /\ Offer(handler.mech)
  <2>1. handler.mech \notin GivesPasswordAway
    BY <1>1, <1>4 DEF Handlers, AwaitsProof, GivesPasswordAway
  <2> QED  BY <1>1, <1>2, <1>4, <2>1, Sends DEF SaslResponse, AfterPolicy
<1> QED  BY <1>3, <1>4 DEF SaslResponse

LEMMA SaslSuccessResponseKeeps == ASSUME IInv, SaslSuccessResponse PROVE IInv'
<1>1. pending.call = "sasl"
  BY DEF SaslSuccessResponse, Waiting
<1>2. CASE AbortConnect(priv)
  BY <1>2, AbortLeaves, Ends DEF SaslSuccessResponse, IInv, TypeOK, CallSeq
<1>3. CASE SuccessAsync
  BY <1>1, <1>3, VerdictKeeps DEF SaslSuccessResponse
<1> QED  BY <1>2, <1>3 DEF SaslSuccessResponse

LEMMA SaslRefusedKeeps == ASSUME IInv, SaslRefused PROVE IInv'
BY AbortLeaves, Ends DEF SaslRefused, IInv, TypeOK, CallSeq

LEMMA SaslDoneKeeps == ASSUME IInv, SaslDone PROVE IInv'
<1> DEFINE q == [priv EXCEPT !.authed = TRUE, !.state = "authed"]
<1>1. q \in Privs /\ q.encrypted = priv.encrypted
  BY Zenon DEF IInv, TypeOK, Privs
<1>2. Continue(q, "open", "sent") /\ calls \in CallSeq /\ server' \in Servers
  BY DEF SaslDone, IInv, TypeOK, CallSeq, Servers
<1> HIDE DEF q
<1>3. Leaves(priv, CallNames) /\ pending'.call = "open" /\ pending'.part = "sent"
  <2>1. "open" \in CallNames /\ "sent" \in PartNames
    BY DEF CallNames, PartNames
  <2>2. Leaves(q, {"open"}) /\ pending'.part = "sent"
    BY <1>1, <1>2, <2>1, ContinueLeaves
  <2> QED  BY <1>1, <2>1, <2>2 DEF Leaves
<1>4. pending.call = "sasl"
  BY DEF SaslDone, Waiting
<1> QED  BY <1>2, <1>3, <1>4, StaysOnStream
           DEF SaslDone, IInv, TypeOK, OnStream, AfterPolicy, Registering, PlainIsAllowed

LEMMA JabberFieldsKeeps == ASSUME IInv, NEW fields, JabberFields(fields) PROVE IInv'
<1>1. /\ pending.call = "jabber" /\ priv \in Privs /\ calls \in CallSeq
      /\ handler \in Handlers \cup {None}
  BY DEF JabberFields, Waiting, IInv, TypeOK, CallSeq
<1>2. CASE Continue(priv, "nothing", "nothing") /\ UNCHANGED handler
  BY <1>2, GoesOn DEF JabberFields, CallNames, PartNames, OnStream, AfterPolicy, Registering
<1>3. CASE StartAuth(priv, "jabber auth", fields)
  <2>1. /\ Leaves(priv, {"abort", "jabber auth"}) /\ handler' \in Handlers \cup {None}
        /\ PlainIsAllowed'
    BY <1>1, <1>3, StartAuthLeaves DEF JabberFields
  <2>2. Leaves(priv, CallNames) /\ pending'.call \in {"abort", "jabber auth"}
    BY <2>1 DEF Leaves, CallNames
  <2> QED  BY <1>1, <2>1, <2>2, StaysOnStream
             DEF JabberFields, IInv, TypeOK, Encrypted, OnStream, AfterPolicy, Registering
<1> QED  BY <1>2, <1>3 DEF JabberFields

\* The session is entered from a sub-operation the policy has let through.
LEMMA Establishes ==
  ASSUME IInv, NEW p \in Privs, p.encrypted = priv.encrypted, EstablishSession(p),
         pending.call \in AfterPolicy, server' \in Servers,
         UNCHANGED <<config, conn, handler, cancelled, account, offered>>
  PROVE  IInv'
<1>1. /\ Leaves(p, {"nothing", "begin", "session"}) /\ pending'.part # "start"
      /\ pending'.call = "begin" => p.encrypted \/ config.insecureOk
  BY SessionLeaves DEF IInv, TypeOK, CallSeq
<1>2. Leaves(priv, CallNames) /\ pending'.call \in {"nothing", "begin", "session"}
  BY <1>1 DEF Leaves, CallNames
<1> QED  BY <1>1, <1>2, StaysOnStream
           DEF IInv, TypeOK, Encrypted, OnStream, AfterPolicy, Registering, PlainIsAllowed

LEMMA JabberDoneKeeps == ASSUME IInv, JabberDone PROVE IInv'
<1> DEFINE q == [priv EXCEPT !.authed = TRUE, !.state = "authed"]
<1>1. q \in Privs /\ q.encrypted = priv.encrypted
  BY Zenon DEF IInv, TypeOK, Privs
<1>2. EstablishSession(q) /\ server' \in Servers /\ pending.call \in AfterPolicy
  BY DEF JabberDone, IInv, TypeOK, Servers, Waiting, AfterPolicy
<1> HIDE DEF q
<1> QED  BY <1>1, <1>2, Establishes DEF JabberDone
\* SASL is asked for once the account is known to exist.
LEMMA Authenticates ==
  ASSUME IInv, NEW q \in Privs, q.encrypted = priv.encrypted, SaslRequestAuth(q),
         pending.call \in AfterPolicy, account' \in BOOLEAN,
         UNCHANGED <<config, conn, cancelled, server, offered>>
  PROVE  IInv'
<1>1. /\ Leaves(q, {"abort", "sasl"}) /\ handler' \in Handlers \cup {None}
      /\ PlainIsAllowed'
  BY SaslLeaves DEF IInv, TypeOK, CallSeq
<1>2. Leaves(priv, CallNames) /\ pending'.call \in {"abort", "sasl"}
  BY <1>1 DEF Leaves, CallNames
<1> QED  BY <1>1, <1>2, StaysOnStream
           DEF IInv, TypeOK, Encrypted, OnStream, AfterPolicy, Registering

LEMMA BeginReceivedRegisteredKeeps ==
  ASSUME IInv, BeginReceivedRegistered  PROVE IInv'
<1> DEFINE q == [priv EXCEPT !.regOp = "none"]
<1>1. q \in Privs /\ q.encrypted = priv.encrypted
  BY Zenon DEF IInv, TypeOK, Privs
<1>2. SaslRequestAuth(q) /\ pending.call \in AfterPolicy /\ account' \in BOOLEAN
  BY DEF BeginReceivedRegistered, Waiting, AfterPolicy, IInv, TypeOK
<1> HIDE DEF q
<1> QED  BY <1>1, <1>2, Authenticates DEF BeginReceivedRegistered

LEMMA SignupReceivedKeeps == ASSUME IInv, SignupReceived PROVE IInv'
<1> DEFINE q == [priv EXCEPT !.regOp = "none"]
<1>1. q \in Privs /\ q.encrypted = priv.encrypted
  BY Zenon DEF IInv, TypeOK, Privs
<1>2. SaslRequestAuth(q) /\ pending.call \in AfterPolicy /\ account' \in BOOLEAN
  BY DEF SignupReceived, Waiting, AfterPolicy
<1> HIDE DEF q
<1> QED  BY <1>1, <1>2, Authenticates DEF SignupReceived

LEMMA BeginReceivedKeeps == ASSUME IInv, BeginReceived PROVE IInv'
<1>1. /\ pending.call = "begin" /\ pending.call \in AfterPolicy
      /\ priv.encrypted \/ config.insecureOk
      /\ config.tlsRequired => priv.encrypted
  BY DEF BeginReceived, Waiting, AfterPolicy, IInv, RegistersSecurely, Registering, Encrypted
<1>2. CASE Continue(priv, "signup", "sent") /\ Offer("signup")
  BY <1>1, <1>2, Sends DEF BeginReceived, GivesPasswordAway
<1>3. CASE Continue(priv, "cancel", "sent") /\ UNCHANGED offered
  BY <1>1, <1>3, GoesOn DEF BeginReceived, CallNames, PartNames, OnStream
<1>4. CASE AbortConnect(priv) /\ UNCHANGED offered
  BY <1>4, AbortLeaves, Ends DEF BeginReceived, IInv, TypeOK, CallSeq
<1> QED  BY <1>2, <1>3, <1>4 DEF BeginReceived, Xep77CancelSend

LEMMA CancelReceivedKeeps == ASSUME IInv, CancelReceived PROVE IInv'
<1> DEFINE q == [priv EXCEPT !.sock = FALSE, !.state = "disconnected"]
<1>1. q \in Privs /\ q.encrypted = priv.encrypted
  BY Zenon DEF IInv, TypeOK, Privs
<1>2. Complete(q, "ok") /\ account' \in BOOLEAN /\ calls \in CallSeq
  BY DEF CancelReceived, IInv, TypeOK, CallSeq
<1> HIDE DEF q
<1>3. Leaves(priv, {"nothing"}) /\ pending'.part = "nothing"
  BY <1>1, <1>2, CompleteLeaves DEF Leaves
<1> QED  BY <1>2, <1>3, Ends DEF CancelReceived

LEMMA BindReceivedKeeps == ASSUME IInv, BindReceived PROVE IInv'
<1> DEFINE q == [priv EXCEPT !.state = "bound"]
<1>1. q \in Privs /\ q.encrypted = priv.encrypted
  BY Zenon DEF IInv, TypeOK, Privs
<1>2. /\ Continue(q, "sm", "sent") \/ EstablishSession(q)
      /\ server' \in Servers /\ pending.call \in AfterPolicy /\ calls \in CallSeq
  BY DEF BindReceived, Waiting, AfterPolicy, IInv, TypeOK, Servers, CallSeq
<1> HIDE DEF q
<1>3. CASE Continue(q, "sm", "sent")
  <2>1. Leaves(priv, CallNames) /\ pending'.call = "sm" /\ pending'.part = "sent"
    BY <1>1, <1>2, <1>3, ContinueLeaves DEF Leaves, CallNames, PartNames
  <2> QED  BY <1>2, <2>1, StaysOnStream
             DEF BindReceived, IInv, TypeOK, Encrypted, OnStream, AfterPolicy, Registering,
                 PlainIsAllowed
<1>4. CASE EstablishSession(q)
  BY <1>1, <1>2, <1>4, Establishes DEF BindReceived
<1> QED  BY <1>2, <1>3, <1>4

\* The connection starts to count stanzas; its encryption stays what it was.
LEMMA SmEnableReceivedKeeps ==
  ASSUME IInv, NEW enabled \in BOOLEAN, SmEnableReceived(enabled)  PROVE IInv'
<1>1. /\ priv \in Privs /\ calls \in CallSeq /\ server' \in Servers /\ pending.call = "sm"
      /\ EstablishSession(priv)
  BY DEF SmEnableReceived, Waiting, IInv, TypeOK, CallSeq, Servers
<1>2. /\ Leaves(priv, {"nothing", "begin", "session"}) /\ pending'.part # "start"
      /\ pending'.call = "begin" => priv.encrypted \/ config.insecureOk
  BY <1>1, SessionLeaves
<1>3. conn' \in Connections /\ conn' # None /\ conn'.tls = conn.tls
  <2>1. conn \in Connections
    BY <1>1 DEF IInv, TypeOK, HasStream, OnStream, AfterPolicy
  <2>2. conn' = [conn EXCEPT !.sm = TRUE]
    BY DEF SmEnableReceived
  <2>3. conn' \in Connections /\ conn'.tls = conn.tls
    BY <2>1, <2>2 DEF Connections
  <2> QED  BY <2>3, NoneAssumption
<1>4. TypeOK'
  BY <1>1, <1>2, <1>3 DEF SmEnableReceived, IInv, TypeOK, Leaves, CallSeq, CallNames
<1>5. FlagIsTrue' /\ HasStream'
  BY <1>2, <1>3 DEF IInv, FlagIsTrue, HasStream, Leaves
<1>6. Encrypted' /\ RegistersSecurely' /\ PlainIsAllowed'
  BY <1>1, <1>2
    DEF SmEnableReceived, IInv, Encrypted, RegistersSecurely, PlainIsAllowed, Leaves, AfterPolicy,
        Registering
<1>7. CredentialsFollowPolicy'
  BY DEF SmEnableReceived, IInv, CredentialsFollowPolicy
<1> QED  BY <1>4, <1>5, <1>6, <1>7 DEF IInv

LEMMA SessionReceivedKeeps == ASSUME IInv, SessionReceived PROVE IInv'
<1>1. /\ priv \in Privs /\ calls \in CallSeq /\ server' \in Servers
      /\ pending.call \in AfterPolicy
  BY DEF SessionReceived, Waiting, AfterPolicy, IInv, TypeOK, CallSeq, Servers
<1>2. /\ Leaves(priv, {"nothing", "begin"}) /\ pending'.part # "start"
      /\ pending'.call = "begin" => priv.encrypted \/ config.insecureOk
  <2>1. CASE Xep77Begin(priv)
    BY <1>1, <2>1, BeginLeaves
  <2>2. CASE Complete(priv, "ok")
    BY <1>1, <2>2, CompleteLeaves DEF Leaves
  <2> QED  BY <2>1, <2>2 DEF SessionReceived
<1>3. Leaves(priv, CallNames) /\ pending'.call \in {"nothing", "begin"}
  BY <1>2 DEF Leaves, CallNames
<1> QED  BY <1>1, <1>2, <1>3, StaysOnStream
           DEF SessionReceived, IInv, TypeOK, Encrypted, OnStream, AfterPolicy, Registering,
               PlainIsAllowed

\* The invariant is inductive.
LEMMA NextKeeps == IInv /\ [Next]_vars => IInv'
<1> SUFFICES ASSUME IInv, [Next]_vars PROVE IInv'
  OBVIOUS
<1>1. CASE \E op \in Operations : Call(op)
  BY <1>1, CallKeeps
<1>2. CASE Cancel
  BY <1>2, CancelKeeps
<1>3. CASE TcpConnected \/ TcpSrvFailed \/ TcpHostFailed
  BY <1>3, TcpConnectedKeeps, TcpSrvFailedKeeps, TcpHostFailedKeeps
<1>4. CASE \/ XmppInitSent \/ StarttlsSent \/ SaslStanzaSent \/ JabberInitSent \/ JabberAuthQuery
           \/ Xep77BeginSent \/ Xep77SignupSent \/ Xep77CancelSent
           \/ IqBindResourceSent \/ SmEnableSent \/ EstablishSessionSent
  <2>1. PICK call \in CallNames : StanzaSent(call)
    BY <1>4 DEF CallNames, XmppInitSent, StarttlsSent, SaslStanzaSent, JabberInitSent,
                JabberAuthQuery, Xep77BeginSent, Xep77SignupSent, Xep77CancelSent,
                IqBindResourceSent, SmEnableSent, EstablishSessionSent
  <2> QED  BY <2>1, StanzaSentKeeps
<1>17. CASE Fail
  BY <1>17, FailKeeps
<1>5. CASE \E version \in {"1.0", "0.9"} : OpenReceived(version)
  BY <1>5, OpenReceivedKeeps
<1>6. CASE \E f \in Offers : FeaturesReceived(f)
  BY <1>6, FeaturesReceivedKeeps
<1>7. CASE Redirected
  BY <1>7, RedirectedKeeps
<1>8. CASE TlsProceeds \/ TlsSecured
  BY <1>8, TlsProceedsKeeps, TlsSecuredKeeps
<1>9. CASE SaslUnsupported \/ SaslStarted \/ JabberStarted
  BY <1>9, SaslUnsupportedKeeps, SaslStartedKeeps, JabberStartedKeeps
<1>18. CASE \E d \in Data : SaslChallenged(d) \/ SaslSucceedsWithData(d)
  BY <1>18, SaslChallengedKeeps
<1>19. CASE SaslSucceeds \/ SaslResponse \/ SaslSuccessResponse \/ SaslRefused \/ SaslDone
  BY <1>19, SaslSucceedsKeeps, SaslResponseKeeps, SaslSuccessResponseKeeps, SaslRefusedKeeps,
     SaslDoneKeeps
<1>10. CASE \E fields \in {None} \cup SUBSET {"jabber digest", "jabber password"} : JabberFields(fields)
  BY <1>10, JabberFieldsKeeps
<1>11. CASE JabberDone
  BY <1>11, JabberDoneKeeps
<1>12. CASE BeginReceivedRegistered \/ BeginReceived \/ SignupReceived \/ CancelReceived
  BY <1>12, BeginReceivedRegisteredKeeps, BeginReceivedKeeps, SignupReceivedKeeps,
     CancelReceivedKeeps
<1>13. CASE BindReceived
  BY <1>13, BindReceivedKeeps
<1>14. CASE \E enabled \in BOOLEAN : SmEnableReceived(enabled)
  BY <1>14, SmEnableReceivedKeeps
<1>15. CASE SessionReceived
  BY <1>15, SessionReceivedKeeps
<1>16. CASE UNCHANGED vars
  BY <1>16 DEF vars, IInv, TypeOK, FlagIsTrue, HasStream, Encrypted, RegistersSecurely,
               PlainIsAllowed, CredentialsFollowPolicy, AllowPlain
<1> QED  BY <1>1, <1>2, <1>3, <1>4, <1>5, <1>6, <1>7, <1>8, <1>9, <1>10, <1>11, <1>12, <1>13,
            <1>14, <1>15, <1>16, <1>17, <1>18, <1>19 DEF Next

LEMMA InvariantHolds == Spec => []IInv
BY InitInv, NextKeeps, PTL DEF Spec

\* Every variable of the connector keeps its type, whatever the server advertises and however
\* often it redirects: its private data, the call it waits for (wocky-connector.c), and the
\* handler of the auth registry.
THEOREM ConnectorTypeCorrect == Spec => []TypeOK
<1>1. IInv => TypeOK
  BY DEF IInv
<1> QED  BY <1>1, InvariantHolds, PTL

\* No password and no registration form leaves the client over a stream the application's
\* policy forbids (tls-required, plaintext-auth-allowed, encrypted-plain-auth-ok), on whatever
\* path through redirections, TLS, legacy authentication and registration it got there.
THEOREM CredentialsAreSafe == Spec => []CredentialsFollowPolicy
<1>1. IInv => CredentialsFollowPolicy
  BY DEF IInv
<1> QED  BY <1>1, InvariantHolds, PTL

-----------------------------------------------------------------------------
(* Authentication by SCRAM and DIGEST-MD5 is mutual: whatever the server   *)
(* says and whenever it says it, a client that holds itself to be          *)
(* authenticated has had the server's proof on this very stream.           *)

\* A client that holds itself to be authenticated has a stream and a handler, and the proof if
\* its handler asks for one.
Authenticated ==
  priv.authed => conn # None /\ handler # None /\ (handler.mech \in Mutual => server.proved)

\* During the exchange a handler that is content has had the proof on this stream; the handler
\* of an earlier stream may have been content with the proof of another.
Exchanging == pending.call = "sasl" /\ pending.part # "unsupported" /\ handler # None
Content == handler.state \in {"finished", "sent final response"}
ContentIsProved == Exchanging /\ Content => server.proved
SuccessIsContent ==
  pending.call = "sasl" /\ pending.part = "success" => handler # None /\ HandleSuccess(handler)

\* Jabber authentication is with a handler for it.
JabberHandler ==
  pending.call = "jabber auth" =>
    /\ handler # None => handler.mech \notin Mutual
    /\ pending.part # "start" => handler # None

AExtra == Authenticated /\ ContentIsProved /\ SuccessIsContent /\ JabberHandler
AInv == IInv /\ AExtra

\* The ends and the steps of the procedure leave it as it is whether the client is authenticated.
LEMMA CompleteKeepsAuthed ==
  ASSUME NEW p \in Privs, NEW told, Complete(p, told)  PROVE priv'.authed = p.authed
<1> DEFINE q == [p EXCEPT !.cancellable = FALSE, !.result = 0]
<1>1. q.authed = p.authed
  BY Zenon DEF Privs
<1> QED  BY <1>1, Zenon DEF Complete

LEMMA AbortKeepsAuthed ==
  ASSUME NEW p \in Privs, AbortConnect(p)  PROVE priv'.authed = p.authed
<1> DEFINE q == [p EXCEPT !.state = "disconnected", !.sock = FALSE]
<1>1. q \in Privs /\ q.authed = p.authed
  BY DEF Privs
<1>2. Complete(q, "error")
  BY DEF AbortConnect
<1> HIDE DEF q
<1> QED  BY <1>1, <1>2, CompleteKeepsAuthed

LEMMA BeginKeepsAuthed ==
  ASSUME NEW p \in Privs, Xep77Begin(p)  PROVE priv'.authed = p.authed
BY AbortKeepsAuthed DEF Xep77Begin, Continue

LEMMA SessionKeepsAuthed ==
  ASSUME NEW p \in Privs, EstablishSession(p)  PROVE priv'.authed = p.authed
BY BeginKeepsAuthed, CompleteKeepsAuthed DEF EstablishSession, Continue

LEMMA ContinueIs ==
  ASSUME NEW p, NEW call, NEW part, Continue(p, call, part)
  PROVE  priv' = p /\ pending'.call = call /\ pending'.part = part
BY DEF Continue, Waiting

\* A step that goes on to something other than authentication, with what has been heard so far.
LEMMA Elsewhere ==
  ASSUME AExtra, UNCHANGED <<conn, handler>>, priv'.authed = priv.authed,
         server'.proved = server.proved, pending'.call \notin {"sasl", "jabber auth"}
  PROVE  AExtra'
BY DEF AExtra, Authenticated, ContentIsProved, SuccessIsContent, JabberHandler, Exchanging, Content

\* A step that touches neither the exchange nor what it is about.
LEMMA Aside ==
  ASSUME AExtra, UNCHANGED <<conn, handler, pending>>, priv'.authed = priv.authed,
         server'.proved = server.proved
  PROVE  AExtra'
BY DEF AExtra, Authenticated, ContentIsProved, SuccessIsContent, JabberHandler, Exchanging, Content

LEMMA InitExtra == Init => AExtra
BY DEF Init, AExtra, Authenticated, ContentIsProved, SuccessIsContent, JabberHandler, Exchanging,
       Nothing, Waiting

LEMMA CallExtra == ASSUME IInv, AExtra, NEW op \in Operations, Call(op) PROVE AExtra'
<1> DEFINE wanted == IF op = "connect" THEN priv.regOp ELSE RegOp[op]
<1>1. priv'.authed = priv.authed
  <2>1. priv \in Privs
    BY DEF IInv, TypeOK
  <2> HIDE DEF wanted
  <2>2. CASE priv' = [priv EXCEPT !.regOp = wanted]
    BY <2>1, <2>2, Zenon DEF Privs
  <2>3. CASE priv' = [priv EXCEPT !.regOp = wanted, !.state = "disconnected", !.sock = FALSE]
    BY <2>1, <2>3, Zenon DEF Privs
  <2>4. CASE priv' = [[priv EXCEPT !.regOp = wanted, !.result = Len(calls) + 1,
                                   !.cancellable = TRUE] EXCEPT !.state = "tcpConnecting"]
    BY <2>1, <2>4, Zenon DEF Privs
  <2> QED  BY <2>2, <2>3, <2>4 DEF Call, wanted
<1>2. UNCHANGED <<conn, handler, server>>
  BY DEF Call
<1>3. CASE pending' = pending
  BY <1>1, <1>2, <1>3, Aside
<1>4. CASE pending' = Waiting("tcp", IF config.host THEN "host" ELSE "srv")
  BY <1>1, <1>2, <1>4, Elsewhere DEF Waiting
<1> QED  BY <1>3, <1>4 DEF Call

LEMMA CancelExtra == ASSUME AExtra, Cancel PROVE AExtra'
BY Aside DEF Cancel

\* A new connection is made only where there is none, so by a client that is not authenticated.
LEMMA TcpConnectedExtra == ASSUME IInv, AExtra, TcpConnected PROVE AExtra'
<1> DEFINE q == [priv EXCEPT !.sock = TRUE, !.state = "tcpConnected"]
<1>1. q \in Privs /\ q.authed = priv.authed
  BY Zenon DEF IInv, TypeOK, Privs
<1> HIDE DEF q
<1>2. MaybeOldSsl(q) /\ UNCHANGED handler
  BY DEF TcpConnected, q
<1>3. CASE priv' = q /\ pending' = Aborted /\ UNCHANGED <<conn, server>>
  BY <1>1, <1>2, <1>3, Elsewhere DEF Aborted, Waiting
<1>4. CASE conn = None /\ (Continue(q, "tls", "handshake") \/ Continue(q, "open", "sent"))
  <2>1. ~priv'.authed /\ pending'.call \in {"tls", "open"}
    BY <1>1, <1>4 DEF AExtra, Authenticated, Continue, Waiting
  <2> QED  BY <2>1 DEF AExtra, Authenticated, ContentIsProved, SuccessIsContent, JabberHandler,
                Exchanging
<1> QED  BY <1>2, <1>3, <1>4 DEF MaybeOldSsl, SecureAsync

LEMMA TcpSrvFailedExtra == ASSUME IInv, AExtra, TcpSrvFailed PROVE AExtra'
<1> DEFINE q == [priv EXCEPT !.state = "tcpConnecting"]
<1>1. q.authed = priv.authed
  BY Zenon DEF IInv, TypeOK, Privs
<1> HIDE DEF q
<1>2. Continue(q, "tcp", "host")
  BY DEF TcpSrvFailed, ConnectToHost, q
<1> QED  BY <1>1, <1>2, Elsewhere DEF TcpSrvFailed, Continue, Waiting

\* The operation is given up.
LEMMA GivesUp ==
  ASSUME IInv, AExtra, AbortConnect(priv), UNCHANGED <<conn, handler, server>>  PROVE AExtra'
<1>1. priv \in Privs /\ calls \in CallSeq
  BY DEF IInv, TypeOK, CallSeq
<1>2. pending' = Nothing
  BY <1>1, AbortEnds
<1> QED  BY <1>1, <1>2, AbortKeepsAuthed, Elsewhere DEF Nothing, Waiting

LEMMA TcpHostFailedExtra == ASSUME IInv, AExtra, TcpHostFailed PROVE AExtra'
BY GivesUp DEF TcpHostFailed

LEMMA FailExtra == ASSUME IInv, AExtra, Fail PROVE AExtra'
BY GivesUp DEF Fail

\* A request is out: the handler is what it was.
LEMMA StanzaSentExtra ==
  ASSUME AExtra, NEW call \in CallNames, StanzaSent(call)  PROVE AExtra'
<1>1. /\ pending'.call = pending.call /\ pending.part = "sent" /\ pending'.part = "recv"
      /\ UNCHANGED <<priv, conn, handler, server>>
  <2>1. pending = Waiting(call, "sent") /\ Continue(priv, call, "recv")
    BY DEF StanzaSent
  <2>2. pending'.call = call /\ pending'.part = "recv" /\ priv' = priv
    BY <2>1, ContinueIs
  <2>3. pending.call = call /\ pending.part = "sent"
    BY <2>1 DEF Waiting
  <2> QED  BY <2>2, <2>3 DEF StanzaSent
<1> QED  BY <1>1 DEF AExtra, Authenticated, ContentIsProved, SuccessIsContent, JabberHandler,
              Exchanging, Content

LEMMA OpenReceivedExtra == ASSUME IInv, AExtra, NEW version, OpenReceived(version) PROVE AExtra'
<1>1. CASE Continue(priv, "features", "recv") \/ Continue(priv, "jabber", "sent")
  <2>1. pending'.call \in {"features", "jabber"} /\ priv' = priv
    BY <1>1, ContinueIs
  <2> QED  BY <2>1, Elsewhere DEF OpenReceived
<1>2. CASE AbortConnect(priv)
  BY <1>2, GivesUp DEF OpenReceived
<1> QED  BY <1>1, <1>2 DEF OpenReceived, JabberAuthenticate

\* The registry chooses among the mechanisms it is given.
LEMMA HandlerChosen ==
  ASSUME NEW p, NEW mechanisms, SelectHandler(p, mechanisms) # None
  PROVE  \E m \in MechanismNames \cap mechanisms : SelectHandler(p, mechanisms) = NewHandler(m)
<1> DEFINE e == Eligible(p, mechanisms)
           first == {i \in DOMAIN Preference :
                       Preference[i] \in e /\ \A k \in 1 .. i - 1 : Preference[k] \notin e}
           m == Preference[CHOOSE i \in first : TRUE]
<1>1. first # {}
  BY DEF SelectHandler
<1>2. PICK i \in first : i = CHOOSE k \in first : TRUE
  BY <1>1
<1>3. m = Preference[i] /\ Preference[i] \in e
  BY <1>2
<1>4. m \in MechanismNames \cap mechanisms
  BY <1>3 DEF Eligible
<1>5. SelectHandler(p, mechanisms) = NewHandler(m)
  BY <1>1 DEF SelectHandler
<1> QED  BY <1>4, <1>5

\* A choice is made once, by a client that is not authenticated yet.
LEMMA StartAuthExtra ==
  ASSUME AExtra, NEW p \in Privs, NEW call \in {"sasl", "jabber auth"}, NEW mechanisms,
         p.authed = priv.authed, StartAuth(p, call, mechanisms), UNCHANGED <<conn, server>>,
         call = "jabber auth" => mechanisms \cap Mutual = {}
  PROVE  AExtra'
<1>1. CASE handler # None
  <2>1. priv' = p /\ pending' = Aborted /\ UNCHANGED handler
    BY <1>1 DEF StartAuth
  <2> QED  BY <2>1, Elsewhere DEF Aborted, Waiting
<1>2. CASE handler = None
  <2>1. ~priv'.authed /\ pending'.call = call /\ pending'.part = "start"
    <3>1. Continue(p, call, "start")
      BY <1>2 DEF StartAuth
    <3>2. ~p.authed
      BY <1>2 DEF AExtra, Authenticated
    <3>3. priv' = p /\ pending'.call = call /\ pending'.part = "start"
      BY <3>1, ContinueIs
    <3> QED  BY <3>2, <3>3
  <2>2. handler' = SelectHandler(p, mechanisms)
    BY <1>2 DEF StartAuth
  <2>3. ASSUME handler' # None
        PROVE  /\ handler'.mech \in mechanisms
               /\ handler'.state \in {"started", "first message"}
    <3>1. PICK m \in MechanismNames \cap mechanisms : handler' = NewHandler(m)
      BY <2>2, <2>3, HandlerChosen
    <3>2. m \in mechanisms /\ m \in MechanismNames
      OBVIOUS
    <3> QED  BY <3>1, <3>2, HandlersBegin
  <2>4. Authenticated' /\ SuccessIsContent'
    BY <2>1 DEF Authenticated, SuccessIsContent
  <2>5. ContentIsProved'
    BY <2>3 DEF ContentIsProved, Exchanging, Content
  <2>6. JabberHandler'
    BY <2>1, <2>3 DEF JabberHandler
  <2> QED  BY <2>4, <2>5, <2>6 DEF AExtra
<1> QED  BY <1>1, <1>2

LEMMA SaslRequestAuthExtra ==
  ASSUME AExtra, NEW p \in Privs, p.authed = priv.authed, SaslRequestAuth(p),
         UNCHANGED <<conn, server>>
  PROVE  AExtra'
<1>1. CASE priv' = p /\ pending' = Aborted /\ UNCHANGED handler
  BY <1>1, Elsewhere DEF Aborted, Waiting
<1>2. CASE Continue(p, "sasl", "unsupported") /\ UNCHANGED handler
  BY <1>2 DEF Continue, Waiting, AExtra, Authenticated, ContentIsProved, SuccessIsContent,
       JabberHandler, Exchanging
<1>3. CASE StartAuth(p, "sasl", Mechanisms(p))
  BY <1>3, StartAuthExtra
<1> QED  BY <1>1, <1>2, <1>3 DEF SaslRequestAuth

LEMMA FeaturesReceivedExtra ==
  ASSUME IInv, AExtra, NEW f \in Offers, FeaturesReceived(f)  PROVE AExtra'
<1> DEFINE q == [priv EXCEPT !.features = f]
<1>1. q \in Privs /\ q.authed = priv.authed /\ calls \in CallSeq
  <2>1. q \in Privs /\ q.authed = priv.authed
    BY Zenon DEF IInv, TypeOK, Privs
  <2> QED  BY <2>1 DEF IInv, TypeOK, CallSeq
<1> HIDE DEF q
<1>2. Received(q) /\ UNCHANGED <<conn, server>>
  BY DEF FeaturesReceived, q
<1>3. CASE AbortConnect(q) /\ UNCHANGED handler
  <2>1. pending' = Nothing /\ priv'.authed = q.authed
    BY <1>1, <1>3, AbortEnds, AbortKeepsAuthed
  <2> QED  BY <1>1, <1>2, <1>3, <2>1, Elsewhere DEF Nothing, Waiting
<1>4. CASE (Continue(q, "tls", "sent") \/ Continue(q, "bind", "sent")) /\ UNCHANGED handler
  <2>1. pending'.call \in {"tls", "bind"} /\ priv' = q
    BY <1>4, ContinueIs
  <2> QED  BY <1>1, <1>2, <1>4, <2>1, Elsewhere
<1>5. CASE Xep77Begin(q) /\ UNCHANGED handler
  <2>1. pending'.call \in {"nothing", "begin"} /\ priv'.authed = q.authed
    BY <1>1, <1>5, BeginLeaves, BeginKeepsAuthed DEF Leaves
  <2> QED  BY <1>1, <1>2, <1>5, <2>1, Elsewhere
<1>6. CASE SaslRequestAuth(q)
  BY <1>1, <1>2, <1>6, SaslRequestAuthExtra
<1>7. \/ AbortConnect(q) /\ UNCHANGED handler
      \/ (Continue(q, "tls", "sent") \/ Continue(q, "bind", "sent")) /\ UNCHANGED handler
      \/ Xep77Begin(q) /\ UNCHANGED handler
      \/ SaslRequestAuth(q)
  BY <1>2 DEF Received, SecureAsync, IqBindResource
<1> QED  BY <1>3, <1>4, <1>5, <1>6, <1>7

\* A redirected client starts over.
LEMMA RedirectedExtra == ASSUME IInv, AExtra, Redirected PROVE AExtra'
<1> DEFINE q == Reset(priv)
<1>1. ~q.authed
  BY Zenon DEF Reset, IInv, TypeOK, Privs
<1> HIDE DEF q
<1>2. Continue(q, "tcp", "host")
  BY DEF Redirected, ConnectToHost, q
<1> QED  BY <1>1, <1>2 DEF Continue, Waiting, AExtra, Authenticated, ContentIsProved,
              SuccessIsContent, JabberHandler, Exchanging

LEMMA TlsProceedsExtra == ASSUME AExtra, TlsProceeds PROVE AExtra'
<1>1. pending'.call = "tls" /\ priv' = priv
  BY ContinueIs DEF TlsProceeds
<1> QED  BY <1>1, Elsewhere DEF TlsProceeds

LEMMA TlsSecuredExtra == ASSUME IInv, AExtra, TlsSecured PROVE AExtra'
<1> DEFINE q == [priv EXCEPT !.encrypted = TRUE]
<1>1. q.authed = priv.authed
  BY Zenon DEF IInv, TypeOK, Privs
<1> HIDE DEF q
<1>2. priv' = q /\ pending'.call = "open"
  BY ContinueIs DEF TlsSecured, q
<1>3. conn' # None
  <2>1. conn' \in Connections
    BY DEF TlsSecured, Connections
  <2> QED  BY <2>1, NoneAssumption
<1> QED  BY <1>1, <1>2, <1>3
           DEF TlsSecured, AExtra, Authenticated, ContentIsProved, SuccessIsContent, JabberHandler,
               Exchanging

LEMMA SaslUnsupportedExtra == ASSUME IInv, AExtra, SaslUnsupported PROVE AExtra'
<1>1. CASE AbortConnect(priv)
  BY <1>1, GivesUp DEF SaslUnsupported
<1>2. CASE Continue(priv, "jabber", "sent")
  <2>1. pending'.call = "jabber" /\ priv' = priv
    BY <1>2, ContinueIs
  <2> QED  BY <2>1, Elsewhere DEF SaslUnsupported
<1> QED  BY <1>1, <1>2 DEF SaslUnsupported, JabberAuthenticate

\* The exchange goes on to a part that claims no success, with the same handler.
LEMMA ExchangeGoesOn ==
  ASSUME AExtra, pending.call = "sasl", pending.part # "unsupported",
         NEW part \in PartNames \ {"success"}, Continue(priv, "sasl", part),
         UNCHANGED <<conn, handler, server>>
  PROVE  AExtra'
<1>1. priv' = priv /\ pending'.call = "sasl" /\ pending'.part = part
  BY ContinueIs
<1> QED  BY <1>1 DEF AExtra, Authenticated, ContentIsProved, SuccessIsContent, JabberHandler,
              Exchanging, Content

LEMMA SaslStartedExtra == ASSUME IInv, AExtra, SaslStarted PROVE AExtra'
<1>1. pending.call = "sasl" /\ pending.part # "unsupported"
  BY DEF SaslStarted, Waiting
<1>2. CASE AbortConnect(priv)
  BY <1>2, GivesUp DEF SaslStarted
<1>3. CASE Continue(priv, "sasl", "sent")
  BY <1>1, <1>3, ExchangeGoesOn DEF SaslStarted, PartNames
<1> QED  BY <1>2, <1>3 DEF SaslStarted

LEMMA JabberStartedExtra == ASSUME IInv, AExtra, JabberStarted PROVE AExtra'
<1>1. CASE AbortConnect(priv)
  BY <1>1, GivesUp DEF JabberStarted
<1>2. CASE handler # None /\ Continue(priv, "jabber auth", "sent")
  <2>1. priv' = priv /\ pending'.call = "jabber auth" /\ pending.call = "jabber auth"
    BY <1>2, ContinueIs DEF JabberStarted, Waiting
  <2> QED  BY <1>2, <2>1 DEF JabberStarted, AExtra, Authenticated, ContentIsProved,
                SuccessIsContent, JabberHandler, Exchanging
<1> QED  BY <1>1, <1>2 DEF JabberStarted

\* A handler that becomes content has just been given the proof.
LEMMA ContentOnProof ==
  ASSUME NEW h \in Handlers, NEW d, NEW n \in HandleAuthData(h, d),
         n.state \in {"finished", "sent final response"}
  PROVE  d = "proof"
<1>1. CASE h.mech = "scram"
  <2>1. n \in ScramAuthData(h, d)
    BY <1>1 DEF HandleAuthData
  <2>2. h \in [mech : {"scram"}, state : {"started", "first message", "final message", "finished"}]
    BY <1>1 DEF Handlers
  <2>3. n \notin ScramFirstMessage(h, d)
    BY <2>2 DEF ScramFirstMessage
  <2> QED  BY <2>1, <2>3 DEF ScramAuthData, ScramFinalMessage
<1>2. CASE h.mech = "digest"
  <2>1. n \in DigestAuthData(h, d)
    BY <1>2 DEF HandleAuthData
  <2>2. h \in [mech : {"digest"}, state : {"started", "sent auth response", "sent final response"}]
    BY <1>2 DEF Handlers
  <2>3. n \notin DigestFirstResponse(h, d)
    BY <2>2 DEF DigestFirstResponse
  <2> QED  BY <2>1, <2>3 DEF DigestAuthData, DigestServerResponse
<1>3. CASE h.mech # "scram" /\ h.mech # "digest"
  BY <1>3 DEF HandleAuthData
<1> QED  BY <1>1, <1>2, <1>3

\* The server is heard: the mechanism stays what it was, and a proof is taken note of.
LEMMA HearsExtra ==
  ASSUME IInv, AExtra, NEW d, NEW part \in {"challenged", "succeeding"},
         SaslHears, Says(d), ChallengeAsync(d, part), UNCHANGED conn
  PROVE  AExtra'
<1>1. /\ pending.call = "sasl" /\ pending.part # "unsupported" /\ handler \in Handlers
      /\ handler # None /\ server \in Servers
  BY DEF SaslHears, IInv, TypeOK
<1>2. server'.proved = (server.proved \/ d = "proof")
  BY <1>1 DEF Says, Servers
<1>3. priv' = priv /\ pending'.call = "sasl" /\ pending'.part \in {part, "refused"}
  BY ContinueIs DEF ChallengeAsync, Outcome
<1>4. CASE UNCHANGED handler
  BY <1>1, <1>2, <1>3, <1>4
    DEF AExtra, Authenticated, ContentIsProved, SuccessIsContent, JabberHandler, Exchanging, Content
<1>5. CASE handler' \in HandleAuthData(handler, d)
  <2>1. handler'.mech = handler.mech /\ handler' \in Handlers
    BY <1>1, <1>5, HandlersRemain
  <2>2. handler'.state \in {"finished", "sent final response"} => d = "proof"
    BY <1>1, <1>5, ContentOnProof
  <2>3. ~priv.authed \/ conn # None
    BY DEF AExtra, Authenticated
  <2>4. handler' # None
    BY <2>1, NoneAssumption
  <2>5. Authenticated'
    BY <1>1, <1>2, <1>3, <2>1, <2>3, <2>4 DEF AExtra, Authenticated
  <2>6. ContentIsProved'
    BY <1>2, <2>2 DEF ContentIsProved, Content
  <2>7. SuccessIsContent' /\ JabberHandler'
    BY <1>3 DEF SuccessIsContent, JabberHandler
  <2> QED  BY <2>5, <2>6, <2>7 DEF AExtra
<1> QED  BY <1>4, <1>5 DEF ChallengeAsync

LEMMA SaslChallengedExtra ==
  ASSUME IInv, AExtra, NEW d, SaslChallenged(d) \/ SaslSucceedsWithData(d)  PROVE AExtra'
BY HearsExtra DEF SaslChallenged, SaslSucceedsWithData

\* The handler has its say on a success.
LEMMA VerdictExtra ==
  ASSUME AExtra, pending.call = "sasl", pending.part # "unsupported", handler # None, SuccessAsync,
         UNCHANGED <<conn, handler, server>>
  PROVE  AExtra'
<1>1. CASE HandleSuccess(handler)
  <2>1. priv' = priv /\ pending'.call = "sasl" /\ pending'.part = "success"
    BY <1>1, ContinueIs DEF SuccessAsync, Outcome
  <2>2. HandleSuccess(handler')
    BY <1>1
  <2> QED  BY <1>1, <2>1, <2>2 DEF AExtra, Authenticated, ContentIsProved, SuccessIsContent,
                JabberHandler, Exchanging, Content
<1>2. CASE ~HandleSuccess(handler)
  BY <1>2, ExchangeGoesOn DEF SuccessAsync, Outcome, PartNames
<1> QED  BY <1>1, <1>2

LEMMA SaslSucceedsExtra == ASSUME AExtra, SaslSucceeds PROVE AExtra'
BY VerdictExtra DEF SaslSucceeds, SaslHears

LEMMA SaslResponseExtra == ASSUME AExtra, SaslResponse PROVE AExtra'
<1>1. pending.call = "sasl" /\ pending.part # "unsupported"
  BY DEF SaslResponse, Waiting
<1> QED  BY <1>1, ExchangeGoesOn DEF SaslResponse, PartNames

LEMMA SaslSuccessResponseExtra == ASSUME IInv, AExtra, SaslSuccessResponse PROVE AExtra'
<1>1. pending.call = "sasl" /\ pending.part # "unsupported" /\ handler # None
  BY DEF SaslSuccessResponse, Waiting
<1>2. CASE AbortConnect(priv)
  BY <1>2, GivesUp DEF SaslSuccessResponse
<1>3. CASE SuccessAsync
  BY <1>1, <1>3, VerdictExtra DEF SaslSuccessResponse
<1> QED  BY <1>2, <1>3 DEF SaslSuccessResponse

LEMMA SaslRefusedExtra == ASSUME IInv, AExtra, SaslRefused PROVE AExtra'
BY GivesUp DEF SaslRefused

\* The client holds itself to be authenticated: its handler was content.
LEMMA SaslDoneExtra == ASSUME IInv, AExtra, SaslDone PROVE AExtra'
<1>1. pending.call = "sasl" /\ pending.part = "success" /\ server \in Servers
  BY DEF SaslDone, Waiting, IInv, TypeOK
<1>2. /\ handler # None /\ handler \in Handlers /\ HandleSuccess(handler)
      /\ Content => server.proved
  BY <1>1 DEF AExtra, SuccessIsContent, ContentIsProved, Exchanging, IInv, TypeOK
<1>3. handler.mech \in Mutual => server.proved
  BY <1>2 DEF Mutual, HandleSuccess, ScramSuccess, DigestSuccess, Content
<1>4. conn # None
  BY <1>1 DEF IInv, HasStream, OnStream, AfterPolicy
<1>5. server'.proved = server.proved
  BY <1>1 DEF SaslDone, Servers
<1>6. pending'.call = "open"
  BY ContinueIs DEF SaslDone
<1> QED  BY <1>2, <1>3, <1>4, <1>5, <1>6
           DEF SaslDone, AExtra, Authenticated, ContentIsProved, SuccessIsContent, JabberHandler,
               Exchanging

LEMMA JabberFieldsExtra ==
  ASSUME IInv, AExtra, NEW fields \in {None} \cup SUBSET {"jabber digest", "jabber password"},
         JabberFields(fields)
  PROVE  AExtra'
<1>1. CASE Continue(priv, "nothing", "nothing") /\ UNCHANGED handler
  <2>1. pending'.call = "nothing" /\ priv' = priv
    BY <1>1, ContinueIs
  <2> QED  BY <1>1, <2>1, Elsewhere DEF JabberFields
<1>2. CASE fields # None /\ StartAuth(priv, "jabber auth", fields)
  <2>1. fields \cap Mutual = {}
    BY <1>2 DEF Mutual
  <2>2. priv \in Privs
    BY DEF IInv, TypeOK
  <2> QED  BY <1>2, <2>1, <2>2, StartAuthExtra DEF JabberFields
<1> QED  BY <1>1, <1>2 DEF JabberFields

LEMMA JabberDoneExtra == ASSUME IInv, AExtra, JabberDone PROVE AExtra'
<1> DEFINE q == [priv EXCEPT !.authed = TRUE, !.state = "authed"]
<1>1. q \in Privs /\ calls \in CallSeq
  <2>1. q \in Privs
    BY Zenon DEF IInv, TypeOK, Privs
  <2> QED  BY <2>1 DEF IInv, TypeOK, CallSeq
<1> HIDE DEF q
<1>2. EstablishSession(q) /\ UNCHANGED <<conn, handler>>
  BY DEF JabberDone, q
<1>3. pending.call = "jabber auth" /\ pending.part # "start"
  BY DEF JabberDone, Waiting
<1>4. handler # None /\ handler.mech \notin Mutual
  BY <1>3 DEF AExtra, JabberHandler
<1>5. conn # None
  BY <1>3 DEF IInv, HasStream, OnStream, AfterPolicy
<1>6. pending'.call \in {"nothing", "begin", "session"}
  BY <1>1, <1>2, SessionLeaves DEF Leaves
<1> QED  BY <1>2, <1>4, <1>5, <1>6
           DEF AExtra, Authenticated, ContentIsProved, SuccessIsContent, JabberHandler, Exchanging

LEMMA BeginReceivedRegisteredExtra ==
  ASSUME IInv, AExtra, BeginReceivedRegistered \/ SignupReceived  PROVE AExtra'
<1> DEFINE q == [priv EXCEPT !.regOp = "none"]
<1>1. q \in Privs /\ q.authed = priv.authed
  BY Zenon DEF IInv, TypeOK, Privs
<1>2. SaslRequestAuth(q) /\ UNCHANGED <<conn, server>>
  BY DEF BeginReceivedRegistered, SignupReceived
<1> HIDE DEF q
<1> QED  BY <1>1, <1>2, SaslRequestAuthExtra

LEMMA BeginReceivedExtra == ASSUME IInv, AExtra, BeginReceived PROVE AExtra'
<1>1. CASE Continue(priv, "signup", "sent") \/ Continue(priv, "cancel", "sent")
  <2>1. pending'.call \in {"signup", "cancel"} /\ priv' = priv
    BY <1>1, ContinueIs
  <2> QED  BY <2>1, Elsewhere DEF BeginReceived
<1>2. CASE AbortConnect(priv)
  BY <1>2, GivesUp DEF BeginReceived
<1> QED  BY <1>1, <1>2 DEF BeginReceived, Xep77CancelSend

LEMMA CancelReceivedExtra == ASSUME IInv, AExtra, CancelReceived PROVE AExtra'
<1> DEFINE q == [priv EXCEPT !.sock = FALSE, !.state = "disconnected"]
<1>1. q \in Privs /\ q.authed = priv.authed
  BY Zenon DEF IInv, TypeOK, Privs
<1> HIDE DEF q
<1>2. Complete(q, "ok") /\ UNCHANGED <<conn, handler, server>>
  BY DEF CancelReceived, q
<1>3. priv'.authed = priv.authed
  BY <1>1, <1>2, CompleteKeepsAuthed
<1> QED  BY <1>2, <1>3, Elsewhere DEF Complete, Nothing, Waiting

\* The session is entered with what has been heard so far.
LEMMA EstablishesExtra ==
  ASSUME IInv, AExtra, NEW p \in Privs, p.authed = priv.authed, EstablishSession(p),
         UNCHANGED handler, server'.proved = server.proved, conn' # None
  PROVE  AExtra'
<1>1. priv'.authed = priv.authed /\ pending'.call \in {"nothing", "begin", "session"}
  BY SessionKeepsAuthed, SessionLeaves DEF IInv, TypeOK, CallSeq, Leaves
<1> QED  BY <1>1 DEF AExtra, Authenticated, ContentIsProved, SuccessIsContent, JabberHandler,
              Exchanging

LEMMA BindReceivedExtra == ASSUME IInv, AExtra, BindReceived PROVE AExtra'
<1> DEFINE q == [priv EXCEPT !.state = "bound"]
<1>1. q \in Privs /\ q.authed = priv.authed
  BY Zenon DEF IInv, TypeOK, Privs
<1> HIDE DEF q
<1>2. UNCHANGED <<conn, handler>> /\ server'.proved = server.proved /\ conn # None
  BY DEF BindReceived, IInv, TypeOK, Servers, HasStream, OnStream, AfterPolicy, Waiting
<1>3. CASE Continue(q, "sm", "sent")
  <2>1. pending'.call = "sm" /\ priv' = q
    BY <1>3, ContinueIs
  <2> QED  BY <1>1, <1>2, <2>1, Elsewhere
<1>4. CASE EstablishSession(q)
  BY <1>1, <1>2, <1>4, EstablishesExtra
<1> QED  BY <1>3, <1>4 DEF BindReceived, q

LEMMA SmEnableReceivedExtra ==
  ASSUME IInv, AExtra, NEW enabled \in BOOLEAN, SmEnableReceived(enabled)  PROVE AExtra'
<1>1. /\ priv \in Privs /\ EstablishSession(priv) /\ UNCHANGED handler
      /\ server'.proved = server.proved
  BY DEF SmEnableReceived, IInv, TypeOK, Servers
<1>2. conn' # None
  <2>1. conn \in Connections
    BY DEF SmEnableReceived, Waiting, IInv, TypeOK, HasStream, OnStream, AfterPolicy
  <2>2. conn' \in Connections
    BY <2>1 DEF SmEnableReceived, Connections
  <2> QED  BY <2>2, NoneAssumption
<1> QED  BY <1>1, <1>2, EstablishesExtra

LEMMA SessionReceivedExtra == ASSUME IInv, AExtra, SessionReceived PROVE AExtra'
<1>1. /\ priv \in Privs /\ calls \in CallSeq /\ UNCHANGED <<conn, handler>>
      /\ server'.proved = server.proved
  BY DEF SessionReceived, IInv, TypeOK, Servers, CallSeq
<1>2. CASE Xep77Begin(priv)
  <2>1. priv'.authed = priv.authed /\ pending'.call \in {"nothing", "begin"}
    BY <1>1, <1>2, BeginKeepsAuthed, BeginLeaves DEF Leaves
  <2> QED  BY <1>1, <2>1, Elsewhere
<1>3. CASE Complete(priv, "ok")
  <2>1. priv'.authed = priv.authed /\ pending' = Nothing
    BY <1>1, <1>3, CompleteKeepsAuthed DEF Complete
  <2> QED  BY <1>1, <2>1, Elsewhere DEF Nothing, Waiting
<1> QED  BY <1>2, <1>3 DEF SessionReceived

\* The invariant is inductive.
LEMMA NextExtra == AInv /\ [Next]_vars => AInv'
<1> SUFFICES ASSUME IInv, AExtra, [Next]_vars PROVE AExtra'
  BY NextKeeps DEF AInv
<1>1. CASE \E op \in Operations : Call(op)
  BY <1>1, CallExtra
<1>2. CASE Cancel
  BY <1>2, CancelExtra
<1>3. CASE TcpConnected \/ TcpSrvFailed \/ TcpHostFailed
  BY <1>3, TcpConnectedExtra, TcpSrvFailedExtra, TcpHostFailedExtra
<1>4. CASE \/ XmppInitSent \/ StarttlsSent \/ SaslStanzaSent \/ JabberInitSent \/ JabberAuthQuery
           \/ Xep77BeginSent \/ Xep77SignupSent \/ Xep77CancelSent
           \/ IqBindResourceSent \/ SmEnableSent \/ EstablishSessionSent
  <2>1. PICK call \in CallNames : StanzaSent(call)
    BY <1>4 DEF CallNames, XmppInitSent, StarttlsSent, SaslStanzaSent, JabberInitSent,
                JabberAuthQuery, Xep77BeginSent, Xep77SignupSent, Xep77CancelSent,
                IqBindResourceSent, SmEnableSent, EstablishSessionSent
  <2> QED  BY <2>1, StanzaSentExtra
<1>5. CASE Fail
  BY <1>5, FailExtra
<1>6. CASE \E version \in {"1.0", "0.9"} : OpenReceived(version)
  BY <1>6, OpenReceivedExtra
<1>7. CASE \E f \in Offers : FeaturesReceived(f)
  BY <1>7, FeaturesReceivedExtra
<1>8. CASE Redirected
  BY <1>8, RedirectedExtra
<1>9. CASE TlsProceeds \/ TlsSecured
  BY <1>9, TlsProceedsExtra, TlsSecuredExtra
<1>10. CASE SaslUnsupported \/ SaslStarted \/ JabberStarted
  BY <1>10, SaslUnsupportedExtra, SaslStartedExtra, JabberStartedExtra
<1>11. CASE \E d \in Data : SaslChallenged(d) \/ SaslSucceedsWithData(d)
  BY <1>11, SaslChallengedExtra
<1>12. CASE SaslSucceeds \/ SaslResponse \/ SaslSuccessResponse \/ SaslRefused \/ SaslDone
  BY <1>12, SaslSucceedsExtra, SaslResponseExtra, SaslSuccessResponseExtra, SaslRefusedExtra,
     SaslDoneExtra
<1>13. CASE \E fields \in {None} \cup SUBSET {"jabber digest", "jabber password"} :
              JabberFields(fields)
  BY <1>13, JabberFieldsExtra
<1>14. CASE JabberDone
  BY <1>14, JabberDoneExtra
<1>15. CASE BeginReceivedRegistered \/ BeginReceived \/ SignupReceived \/ CancelReceived
  BY <1>15, BeginReceivedRegisteredExtra, BeginReceivedExtra, CancelReceivedExtra
<1>16. CASE BindReceived
  BY <1>16, BindReceivedExtra
<1>17. CASE \E enabled \in BOOLEAN : SmEnableReceived(enabled)
  BY <1>17, SmEnableReceivedExtra
<1>18. CASE SessionReceived
  BY <1>18, SessionReceivedExtra
<1>19. CASE UNCHANGED vars
  BY <1>19, Aside DEF vars
<1> QED  BY <1>1, <1>2, <1>3, <1>4, <1>5, <1>6, <1>7, <1>8, <1>9, <1>10, <1>11, <1>12, <1>13,
            <1>14, <1>15, <1>16, <1>17, <1>18, <1>19 DEF Next

LEMMA AuthenticationInvariant == Spec => []AInv
<1>1. Init => AInv
  BY InitInv, InitExtra DEF AInv
<1> QED  BY <1>1, NextExtra, PTL DEF Spec

\* A client that holds itself to be authenticated by SCRAM-SHA-1 or DIGEST-MD5 has had the
\* server's proof on this stream (wocky-sasl-scram.c, wocky-sasl-digest-md5.c: handle_success),
\* in whatever order challenges, successes, redirections and later calls come.
THEOREM ServerIsAuthenticated == Spec => []AuthenticationIsMutual
<1>1. AInv => AuthenticationIsMutual
  BY DEF AInv, AExtra, Authenticated, AuthenticationIsMutual
<1> QED  BY <1>1, AuthenticationInvariant, PTL

-----------------------------------------------------------------------------
(***************************************************************************)
(* However an operation of the connector goes, the application and the     *)
(* server agree on what has been negotiated: what the application is told  *)
(* is true, the requests come in the order XMPP demands, and an account is *)
(* created or removed only for an application that asked for it.           *)
(***************************************************************************)

\* The application and the server stay within what the connector is up to.  That an answer to
\* the Jabber query lacks the fields stalls the operation, and breaks nothing.
Restrained == Liberties \subseteq {"partial fields"}

\* The two sides agree on the stream; a client without one has nothing of it.
StreamAgrees ==
  /\ server.bound => server.authed
  /\ ~server.bound => ~server.sm /\ ~server.session
  /\ conn # None => conn.sm = server.sm
  /\ conn = None => handler = None
AuthAgrees == priv.authed = server.authed
NoStreamNoAuth == conn = None => ~priv.authed

\* How far the two have got when a sub-operation is pending.
Afresh == ~priv.authed /\ handler = None
Stages ==
  /\ pending.call = "tcp" => conn = None
  /\ pending.call \in {"open", "features", "tls"} => ~server.bound /\ (priv.authed \/ Afresh)
  /\ pending.call \in {"sasl", "jabber auth"} => ~priv.authed
  /\ pending.call = "sasl" /\ pending.part = "unsupported" => Afresh
  /\ pending.call = "jabber" => Afresh
  /\ pending.call = "bind" => priv.authed /\ ~server.bound /\ Advertised(priv, "bind")
  /\ pending.call = "sm" => server.bound /\ ~server.session
  /\ pending.call = "session" => server.bound
  /\ pending.call = "begin" =>
       \/ priv.regOp = "signup" /\ Afresh /\ priv.features # None
       \/ priv.regOp = "cancel" /\ priv.authed
  /\ pending.call = "signup" => priv.regOp = "signup" /\ Afresh /\ priv.features # None
  /\ pending.call = "cancel" => priv.regOp = "cancel" /\ priv.authed

\* Who is authenticated, or about to be, has an account.
AccountExists ==
  /\ pending.call # "nothing" /\ priv.authed => account
  /\ pending.call = "sasl" /\ pending.part \in {"succeeding", "success"} => account

\* The application asks for one thing, however often it has to, and the connector works for it.
Accepted == {i \in DOMAIN calls : calls[i].told # "refused"}
WorksFor(op) ==
  /\ \A i \in Accepted : calls[i].op = op
  /\ priv.regOp = RegOp[op] \/ (op = "register" /\ priv.regOp = "none")
  /\ Accepted = {} => priv.regOp = "none"
OneOperation == \E op \in Operations : WorksFor(op)

\* A sub-operation is pending only while the application waits to be told of the end.
Underway ==
  /\ pending.call # "abort"
  /\ priv.result = 0 => pending.call = "nothing" /\ ~priv.cancellable
  /\ priv.result # 0 => priv.result \in DOMAIN calls /\ calls[priv.result].told = "nothing"

\* After a success nothing happens any more.
Succeeded == \E i \in DOMAIN calls : calls[i].told = "ok"
SuccessIsLast == Succeeded => priv.result = 0 /\ conn # None

NExtra == /\ StreamAgrees /\ AuthAgrees /\ NoStreamNoAuth /\ Stages /\ AccountExists
          /\ OneOperation /\ Underway /\ SuccessIsLast /\ SuccessIsTrue
NInv == IInv /\ NExtra

(***************************************************************************)
(* What the steps of the procedure do to the list of calls and to the      *)
(* invariant, whichever callback takes them.                               *)
(***************************************************************************)
\* The private data p differ from priv in nothing that says whom the connector works for.
Like(p) == p \in Privs /\ p.regOp = priv.regOp /\ p.result = priv.result

LEMMA AtWork ==
  ASSUME IInv, NExtra, pending.call # "nothing"
  PROVE  /\ priv.result # 0 /\ priv.result \in DOMAIN calls
         /\ calls[priv.result].told = "nothing" /\ ~Succeeded
         /\ priv \in Privs /\ calls \in CallSeq
BY TypesHold DEF NExtra, Underway, SuccessIsLast

LEMMA CompleteIs ==
  ASSUME NEW p \in Privs, NEW told, Complete(p, told), calls \in CallSeq, p.result \in DOMAIN calls
  PROVE  /\ priv'.result = 0 /\ ~priv'.cancellable /\ priv'.regOp = p.regOp
         /\ priv'.authed = p.authed /\ priv'.features = p.features /\ pending'.call = "nothing"
         /\ DOMAIN calls' = DOMAIN calls /\ calls'[p.result].told = told
         /\ \A i \in DOMAIN calls : calls'[i].op = calls[i].op
         /\ \A i \in DOMAIN calls : i # p.result => calls'[i].told = calls[i].told
<1> DEFINE q == [p EXCEPT !.cancellable = FALSE]
           Rec == [op : Operations, told : {"nothing", "ok", "error", "refused"}]
<1>1. q \in Privs /\ ~q.cancellable /\ q.regOp = p.regOp /\ q.authed = p.authed
      /\ q.features = p.features
  BY Zenon DEF Privs
<1>2. priv' = [q EXCEPT !.result = 0] /\ pending' = Nothing
  BY DEF Complete
<1>3. /\ priv'.result = 0 /\ ~priv'.cancellable /\ priv'.regOp = p.regOp
      /\ priv'.authed = p.authed /\ priv'.features = p.features
  <2> HIDE DEF q
  <2> QED  BY <1>1, <1>2, Zenon DEF Privs
<1>4. \A i \in DOMAIN calls : calls[i] \in Rec
  <2>1. calls \in Seq(Rec)
    BY DEF CallSeq
  <2> HIDE DEF Rec
  <2> QED  BY <2>1
<1>5. calls' = [calls EXCEPT ![p.result] = [calls[p.result] EXCEPT !.told = told]]
  BY DEF Complete
<1>6. calls[p.result] \in Rec
  BY <1>4
<1>7. /\ [calls[p.result] EXCEPT !.told = told].told = told
      /\ [calls[p.result] EXCEPT !.told = told].op = calls[p.result].op
  BY <1>6
<1>8. pending'.call = "nothing"
  BY <1>2 DEF Nothing, Waiting
<1> QED  BY <1>3, <1>5, <1>7, <1>8

\* An operation has ended: the connector goes on working for the same application.
LEMMA EndedIs ==
  ASSUME IInv, NExtra, pending.call # "nothing", NEW p, Like(p), NEW told \in {"ok", "error"},
         Complete(p, told)
  PROVE  OneOperation' /\ Underway' /\ Stages' /\ AccountExists'
<1>1. p \in Privs /\ p.result \in DOMAIN calls /\ calls \in CallSeq /\ p.regOp = priv.regOp
      /\ calls[p.result].told = "nothing"
  BY AtWork DEF Like
<1>2. /\ priv'.result = 0 /\ ~priv'.cancellable /\ priv'.regOp = p.regOp
      /\ pending'.call = "nothing"
      /\ DOMAIN calls' = DOMAIN calls /\ calls'[p.result].told = told
      /\ \A i \in DOMAIN calls : calls'[i].op = calls[i].op
      /\ \A i \in DOMAIN calls : i # p.result => calls'[i].told = calls[i].told
  BY <1>1, CompleteIs
<1>3. Accepted' = Accepted
  BY <1>1, <1>2 DEF Accepted
<1>4. OneOperation'
  <2>1. PICK op \in Operations : WorksFor(op)
    BY DEF NExtra, OneOperation
  <2>2. WorksFor(op)'
    BY <1>1, <1>2, <1>3, <2>1 DEF WorksFor, Accepted
  <2> QED  BY <2>2 DEF OneOperation
<1>5. Stages' /\ AccountExists'
  BY <1>2 DEF Stages, AccountExists, Waiting
<1> QED  BY <1>2, <1>4, <1>5 DEF Underway

\* An operation that is given up leaves both sides where they are.
LEMMA GivenUp ==
  ASSUME IInv, NExtra, pending.call # "nothing", NEW p, Like(p),
         AbortConnect(p) \/ Complete(p, "error"),
         StreamAgrees', p.authed = server'.authed, conn' = None => ~p.authed
  PROVE  NExtra'
<1>1. PICK q : Like(q) /\ q.authed = p.authed /\ Complete(q, "error")
  <2> DEFINE q == [p EXCEPT !.state = "disconnected", !.sock = FALSE]
  <2>1. Like(q) /\ q.authed = p.authed
    BY DEF Like, Privs
  <2>2. CASE AbortConnect(p)
    BY <2>1, <2>2 DEF AbortConnect
  <2>3. CASE Complete(p, "error")
    BY <2>3
  <2> QED  BY <2>2, <2>3
<1>2. OneOperation' /\ Underway' /\ Stages' /\ AccountExists'
  BY <1>1, EndedIs
<1>3. /\ priv'.authed = p.authed /\ DOMAIN calls' = DOMAIN calls
      /\ calls'[priv.result].told = "error"
      /\ \A i \in DOMAIN calls : i # priv.result => calls'[i].told = calls[i].told
  BY <1>1, AtWork, CompleteIs DEF Like
<1>4. ~Succeeded'
  BY <1>3, AtWork DEF Succeeded
<1> QED  BY <1>2, <1>3, <1>4
           DEF NExtra, AuthAgrees, NoStreamNoAuth, SuccessIsLast, SuccessIsTrue, Succeeded

\* An operation that succeeds does so with what its application asked for.
LEMMA Succeeds ==
  ASSUME IInv, NExtra, pending.call # "nothing", NEW p, Like(p), Complete(p, "ok"),
         StreamAgrees', p.authed = server'.authed, conn' # None,
         IF p.regOp = "cancel" THEN ~account'
         ELSE /\ account' /\ server'.authed /\ server'.bound
              /\ Advertised(p, "session") => server'.session
  PROVE  NExtra'
<1>1. OneOperation' /\ Underway' /\ Stages' /\ AccountExists'
  BY EndedIs
<1>2. /\ priv'.authed = p.authed /\ priv'.features = p.features /\ priv'.result = 0
      /\ DOMAIN calls' = DOMAIN calls
      /\ \A i \in DOMAIN calls : calls'[i].op = calls[i].op
      /\ \A i \in DOMAIN calls : i # priv.result => calls'[i].told = calls[i].told
  BY AtWork, CompleteIs DEF Like
<1>3. \A i \in DOMAIN calls' : calls'[i].told = "ok" => i = priv.result
  BY <1>2, AtWork DEF Succeeded
<1>4. (calls[priv.result].op = "unregister") = (priv.regOp = "cancel")
  <2>1. PICK op \in Operations : WorksFor(op)
    BY DEF NExtra, OneOperation
  <2>2. priv.result \in Accepted
    BY AtWork DEF Accepted
  <2>3. calls[priv.result].op = op
    BY <2>1, <2>2 DEF WorksFor
  <2> QED  BY <2>1, <2>3 DEF WorksFor, RegOp, Operations
<1>5. SuccessIsTrue'
  <2>1. CASE priv.regOp = "cancel"
    BY <1>2, <1>3, <1>4, <2>1 DEF SuccessIsTrue, Like
  <2>2. CASE priv.regOp # "cancel"
    <3>1. Ready'
      BY <1>2, <2>2 DEF Ready, Like, Advertised, StreamAgrees
    <3> QED  BY <1>2, <1>3, <1>4, <2>2, <3>1, AtWork DEF SuccessIsTrue
  <2> QED  BY <2>1, <2>2
<1> QED  BY <1>1, <1>2, <1>5 DEF NExtra, AuthAgrees, NoStreamNoAuth, SuccessIsLast

\* An operation that goes on has only the stage it comes to to account for.
LEMMA Proceeds ==
  ASSUME IInv, NExtra, pending.call # "nothing", NEW p, NEW call, NEW part,
         p.result = priv.result, Continue(p, call, part), call # "abort",
         p.regOp = priv.regOp \/ (p.regOp = "none" /\ priv.regOp = "signup"),
         StreamAgrees', p.authed = server'.authed, conn' = None => ~p.authed,
         Stages', AccountExists'
  PROVE  NExtra'
<1>1. priv' = p /\ calls' = calls /\ pending'.call = call
  BY ContinueIs DEF Continue
<1>2. priv.result # 0 /\ priv.result \in DOMAIN calls /\ calls[priv.result].told = "nothing"
      /\ ~Succeeded
  BY AtWork
<1>3. OneOperation'
  <2>1. PICK op \in Operations : WorksFor(op)
    BY DEF NExtra, OneOperation
  <2>2. Accepted' = Accepted /\ priv.result \in Accepted
    BY <1>1, <1>2 DEF Accepted
  <2>3. WorksFor(op)'
    BY <1>1, <2>1, <2>2 DEF WorksFor, RegOp, Operations
  <2> QED  BY <2>3 DEF OneOperation
<1>4. Underway'
  BY <1>1, <1>2 DEF Underway
<1>5. ~Succeeded'
  BY <1>1, <1>2 DEF Succeeded
<1> QED  BY <1>1, <1>3, <1>4, <1>5
           DEF NExtra, AuthAgrees, NoStreamNoAuth, SuccessIsLast, SuccessIsTrue, Succeeded

LEMMA BeginsRegistration ==
  ASSUME IInv, NExtra, pending.call # "nothing", NEW p, Like(p), Xep77Begin(p),
         StreamAgrees', p.authed = server'.authed, conn' # None,
         \/ p.regOp = "signup" /\ ~p.authed /\ handler' = None /\ p.features # None
         \/ p.regOp = "cancel" /\ p.authed /\ account'
  PROVE  NExtra'
<1>1. CASE AbortConnect(p)
  BY <1>1, GivenUp
<1>2. CASE Continue(p, "begin", "sent")
  <2>1. priv' = p /\ pending'.call = "begin"
    BY <1>2, ContinueIs
  <2>2. Stages' /\ AccountExists'
    BY <2>1 DEF Stages, AccountExists, Afresh, Waiting
  <2> QED  BY <1>2, <2>2, Proceeds DEF Like
<1> QED  BY <1>1, <1>2 DEF Xep77Begin

LEMMA EntersSession ==
  ASSUME IInv, NExtra, pending.call # "nothing", NEW p, Like(p), EstablishSession(p),
         StreamAgrees', p.authed, server'.authed, server'.bound, conn' # None, account'
  PROVE  NExtra'
<1>1. CASE Continue(p, "session", "sent")
  <2>1. priv' = p /\ pending'.call = "session"
    BY <1>1, ContinueIs
  <2>2. Stages' /\ AccountExists'
    BY <2>1 DEF Stages, AccountExists, Waiting
  <2>3. p.authed = server'.authed
    BY DEF Like, Privs, StreamAgrees, IInv, TypeOK, Servers
  <2> QED  BY <1>1, <2>2, <2>3, Proceeds DEF Like
<1>2. CASE p.regOp = "cancel" /\ Xep77Begin(p)
  <2>1. p.authed = server'.authed
    OBVIOUS
  <2> QED  BY <1>2, <2>1, BeginsRegistration
<1>3. CASE ~Advertised(p, "session") /\ p.regOp # "cancel" /\ Complete(p, "ok")
  BY <1>3, Succeeds
<1> QED  BY <1>1, <1>2, <1>3 DEF EstablishSession

\* Authentication is asked for on a stream that has none.
LEMMA AsksAuth ==
  ASSUME IInv, NExtra, pending.call # "nothing", NEW p \in Privs, p.result = priv.result,
         p.regOp = priv.regOp \/ (p.regOp = "none" /\ priv.regOp = "signup"),
         ~p.authed, p.features # None, handler = None, conn # None, SaslRequestAuth(p),
         UNCHANGED <<conn, server>>, ~server.authed
  PROVE  NExtra'
<1>1. StreamAgrees' /\ p.authed = server'.authed
  BY DEF NExtra, StreamAgrees, Privs, IInv, TypeOK, Servers
<1>2. CASE Continue(p, "sasl", "unsupported") /\ UNCHANGED handler
  <2>1. priv' = p /\ pending'.call = "sasl" /\ pending'.part = "unsupported"
    BY <1>2, ContinueIs
  <2>2. Stages' /\ AccountExists'
    BY <1>2, <2>1 DEF Stages, AccountExists, Afresh, Waiting
  <2> QED  BY <1>1, <1>2, <2>2, Proceeds
<1>3. CASE Continue(p, "sasl", "start")
  <2>1. priv' = p /\ pending' = Waiting("sasl", "start")
    BY <1>3 DEF Continue
  <2>2. Stages' /\ AccountExists'
    BY <2>1 DEF Stages, AccountExists, Waiting
  <2> QED  BY <1>1, <1>3, <2>2, Proceeds
<1> QED  BY <1>2, <1>3 DEF SaslRequestAuth, StartAuth

(***************************************************************************)
(* The application's calls, and the callbacks in turn.                     *)
(***************************************************************************)
LEMMA InitAgrees == Init => NExtra
<1> SUFFICES ASSUME Init PROVE NExtra
  OBVIOUS
<1>1. WorksFor("connect")
  BY DEF Init, WorksFor, Accepted, RegOp
<1>2. OneOperation
  BY <1>1 DEF OneOperation, Operations
<1> QED  BY <1>2 DEF Init, NExtra, StreamAgrees, AuthAgrees, NoStreamNoAuth, Stages, AccountExists,
              Underway, Succeeded, SuccessIsLast, SuccessIsTrue, Nothing, Waiting, Stranger

LEMMA Appended ==
  ASSUME calls \in CallSeq, NEW r, calls' = Append(calls, r)
  PROVE  /\ DOMAIN calls' = DOMAIN calls \cup {Len(calls) + 1}
         /\ Len(calls) + 1 \notin DOMAIN calls /\ Len(calls) + 1 # 0
         /\ calls'[Len(calls) + 1] = r
         /\ \A i \in DOMAIN calls : calls'[i] = calls[i]
<1> DEFINE Rec == [op : Operations, told : {"nothing", "ok", "error", "refused"}]
<1>1. calls \in Seq(Rec)
  BY DEF CallSeq
<1> HIDE DEF Rec
<1> QED  BY <1>1

\* A call is refused while another is served, and changes nothing but the list.
LEMMA RefusedAgrees ==
  ASSUME IInv, NExtra, Restrained, NEW op \in Operations, Call(op), priv.result # 0
  PROVE  NExtra'
<1>1. op = "connect"
  BY DEF Restrained, Call, MayCall
<1>2. /\ priv' = [priv EXCEPT !.regOp = priv.regOp]
      /\ calls' = Append(calls, [op |-> op, told |-> "refused"])
  BY <1>1 DEF Call
<1>3. priv' = priv
  BY <1>2, TypesHold DEF Privs
<1>4. Accepted' = Accepted /\ \A i \in DOMAIN calls : calls'[i] = calls[i]
  BY <1>2, TypesHold, Appended DEF Accepted
<1>5. UNCHANGED <<conn, handler, pending, server, account>>
  BY DEF Call
<1>6. OneOperation'
  BY <1>3, <1>4 DEF NExtra, OneOperation, WorksFor, Accepted
<1>7. Underway'
  BY <1>2, <1>3, <1>4, <1>5, TypesHold, Appended DEF NExtra, Underway
<1>8. ~Succeeded'
  BY <1>2, <1>4, TypesHold, Appended DEF NExtra, SuccessIsLast, Succeeded
<1>9. Stages' /\ AccountExists' /\ StreamAgrees' /\ AuthAgrees' /\ NoStreamNoAuth'
  BY <1>3, <1>5 DEF NExtra, Stages, AccountExists, StreamAgrees, AuthAgrees, NoStreamNoAuth, Afresh,
                    Advertised
<1> QED  BY <1>6, <1>7, <1>8, <1>9 DEF NExtra, SuccessIsLast, SuccessIsTrue, Succeeded

\* A call that is accepted, or fails at once, is for what earlier ones were for.
LEMMA AcceptedAgrees ==
  ASSUME IInv, NExtra, Restrained, NEW op \in Operations, Call(op), priv.result = 0
  PROVE  NExtra'
<1> DEFINE wanted == IF op = "connect" THEN priv.regOp ELSE RegOp[op]
           n == Len(calls) + 1
<1>1. conn = None /\ \A i \in Accepted : calls[i].op = op
  BY DEF Restrained, Call, MayCall, Accepted
<1>2. PICK told \in {"nothing", "error"} : calls' = Append(calls, [op |-> op, told |-> told])
  BY DEF Call
<1>3. /\ DOMAIN calls' = DOMAIN calls \cup {n} /\ n \notin DOMAIN calls /\ n # 0
      /\ calls'[n] = [op |-> op, told |-> told] /\ \A i \in DOMAIN calls : calls'[i] = calls[i]
  BY <1>2, TypesHold, Appended
<1>4. wanted = RegOp[op] \/ (op = "register" /\ wanted = "none")
  <2>1. CASE op = "connect"
    <3>1. PICK o \in Operations : WorksFor(o)
      BY DEF NExtra, OneOperation
    <3>2. Accepted # {} => o = "connect"
      BY <1>1, <2>1, <3>1 DEF WorksFor
    <3> QED  BY <2>1, <3>1, <3>2 DEF WorksFor, RegOp, Operations
  <2>2. CASE op # "connect"
    BY <2>2
  <2> QED  BY <2>1, <2>2
<1>5. /\ priv'.regOp = wanted /\ priv'.authed = priv.authed /\ priv'.features = priv.features
      /\ \/ /\ priv'.result = 0 /\ priv'.cancellable = priv.cancellable /\ pending' = pending
         \/ /\ priv'.result = n /\ told = "nothing"
            /\ pending' = Waiting("tcp", IF config.host THEN "host" ELSE "srv")
  <2>1. priv \in Privs
    BY TypesHold
  <2>2. CASE priv.result = 0 /\ ~config.domain
    <3>1. priv' = [priv EXCEPT !.regOp = wanted, !.state = "disconnected", !.sock = FALSE]
      BY <2>2 DEF Call
    <3> HIDE DEF wanted
    <3>2. priv'.regOp = wanted /\ priv'.authed = priv.authed /\ priv'.features = priv.features
          /\ priv'.result = 0 /\ priv'.cancellable = priv.cancellable
      BY <2>1, <2>2, <3>1 DEF Privs
    <3> QED  BY <2>2, <3>2 DEF Call
  <2>3. CASE config.domain
    <3>1. /\ priv' = [[priv EXCEPT !.regOp = wanted, !.result = n, !.cancellable = TRUE]
                        EXCEPT !.state = "tcpConnecting"]
          /\ calls' = Append(calls, [op |-> op, told |-> "nothing"])
          /\ pending' = Waiting("tcp", IF config.host THEN "host" ELSE "srv")
      BY <2>3 DEF Call
    <3> HIDE DEF wanted, n
    <3>2. priv'.regOp = wanted /\ priv'.authed = priv.authed /\ priv'.features = priv.features
          /\ priv'.result = n
      BY <2>1, <3>1 DEF Privs
    <3>3. told = "nothing"
      BY <1>3, <3>1, TypesHold, Appended DEF n
    <3> QED  BY <3>1, <3>2, <3>3
  <2> QED  BY <2>2, <2>3
<1> HIDE DEF wanted, n
<1>6. UNCHANGED <<conn, handler, server, account>>
  BY DEF Call
<1>7. ~Succeeded'
  BY <1>1, <1>3 DEF NExtra, SuccessIsLast, Succeeded
<1>8. OneOperation'
  <2>1. Accepted' = Accepted \cup {n}
    BY <1>3 DEF Accepted
  <2>2. WorksFor(op)'
    BY <1>1, <1>3, <1>4, <1>5, <2>1 DEF WorksFor, Accepted
  <2> QED  BY <2>2 DEF OneOperation
<1>9. Underway'
  BY <1>3, <1>5 DEF NExtra, Underway, Waiting
<1>10. pending'.call \in {"nothing", "tcp"} /\ ~priv'.authed /\ conn' = None
  BY <1>1, <1>5, <1>6 DEF NExtra, NoStreamNoAuth, Underway, Waiting
<1>11. Stages' /\ AccountExists'
  <2>1. CASE pending'.call = "nothing"
    BY <2>1 DEF Stages, AccountExists, Waiting
  <2>2. CASE pending'.call = "tcp"
    BY <1>10, <2>2 DEF Stages, AccountExists, Waiting
  <2> QED  BY <1>10, <2>1, <2>2
<1>12. StreamAgrees' /\ AuthAgrees' /\ NoStreamNoAuth'
  BY <1>5, <1>6 DEF NExtra, StreamAgrees, AuthAgrees, NoStreamNoAuth
<1> QED  BY <1>7, <1>8, <1>9, <1>11, <1>12 DEF NExtra, SuccessIsLast, SuccessIsTrue, Succeeded

LEMMA UnchangedAgrees ==
  ASSUME NExtra, UNCHANGED <<priv, conn, handler, pending, calls, server, account>>
  PROVE  NExtra'
<1>1. StreamAgrees' /\ AuthAgrees' /\ NoStreamNoAuth'
  BY DEF NExtra, StreamAgrees, AuthAgrees, NoStreamNoAuth
<1>2. Stages' /\ AccountExists'
  BY DEF NExtra, Stages, AccountExists, Advertised, Afresh
<1>3. OneOperation'
  BY DEF NExtra, OneOperation, WorksFor, Accepted
<1>4. Underway'
  BY DEF NExtra, Underway
<1>5. SuccessIsLast' /\ SuccessIsTrue'
  BY DEF NExtra, SuccessIsLast, Succeeded, SuccessIsTrue, Ready, Advertised
<1> QED  BY <1>1, <1>2, <1>3, <1>4, <1>5 DEF NExtra

LEMMA CancelAgrees == ASSUME NExtra, Cancel PROVE NExtra'
BY UnchangedAgrees DEF Cancel

LEMMA StreamStays ==
  ASSUME NExtra, UNCHANGED <<conn, handler, server>>
  PROVE  /\ StreamAgrees' /\ priv.authed = server'.authed
         /\ conn' = None => ~priv.authed
BY DEF NExtra, StreamAgrees, AuthAgrees, NoStreamNoAuth

LEMMA Failing ==
  ASSUME IInv, NExtra, pending.call # "nothing", AbortConnect(priv),
         UNCHANGED <<conn, handler, server>>
  PROVE  NExtra'
BY StreamStays, GivenUp, TypesHold DEF Like

LEMMA StepsOn ==
  ASSUME IInv, NExtra, pending.call # "nothing", NEW call, NEW part, Continue(priv, call, part),
         call # "abort", UNCHANGED <<conn, handler, server>>, Stages', AccountExists'
  PROVE  NExtra'
BY StreamStays, Proceeds

\* A stanza that is sent changes nothing but what is waited for.
LEMMA StanzaSentAgrees ==
  ASSUME IInv, NExtra, NEW call \in CallNames \ {"nothing", "abort"}, StanzaSent(call)
  PROVE  NExtra'
<1>1. pending = Waiting(call, "sent") /\ pending' = Waiting(call, "recv")
      /\ UNCHANGED <<priv, conn, handler, server, account>> /\ Continue(priv, call, "recv")
  BY DEF StanzaSent, Continue
<1>2. pending.call = call /\ pending'.call = call /\ pending'.part = "recv"
  BY <1>1 DEF Waiting
<1>3. Stages'
  BY <1>1, <1>2 DEF NExtra, Stages, Afresh, Advertised, Waiting
<1>4. AccountExists'
  BY <1>1, <1>2 DEF NExtra, AccountExists
<1> QED  BY <1>1, <1>2, <1>3, <1>4, StepsOn

LEMMA TcpConnectedAgrees == ASSUME IInv, NExtra, TcpConnected PROVE NExtra'
<1> DEFINE q == [priv EXCEPT !.sock = TRUE, !.state = "tcpConnected"]
<1>1. /\ pending.call = "tcp" /\ conn = None /\ handler = None /\ ~priv.authed
  BY DEF TcpConnected, NExtra, Stages, NoStreamNoAuth, StreamAgrees
<1>2. q.result = priv.result /\ q.regOp = priv.regOp /\ ~q.authed
  BY <1>1, TypesHold DEF Privs
<1> HIDE DEF q
<1>3. /\ conn' = [tls |-> FALSE, sm |-> FALSE] /\ server' = Stranger /\ handler' = None
      /\ Continue(q, "tls", "handshake") \/ Continue(q, "open", "sent")
  BY <1>1 DEF TcpConnected, MaybeOldSsl, SecureAsync, q
<1>4. StreamAgrees' /\ q.authed = server'.authed
  <2>1. q.authed = FALSE
    BY <1>2, TypesHold DEF q, Privs
  <2> QED  BY <1>3, <2>1 DEF StreamAgrees, Stranger
<1>5. PICK call \in {"tls", "open"}, part \in {"handshake", "sent"} : Continue(q, call, part)
  BY <1>3
<1>6. priv' = q /\ pending'.call = call /\ pending'.part = part
  BY <1>5, ContinueIs
<1>7. Stages' /\ AccountExists'
  <2>1. ~priv'.authed /\ ~server'.bound /\ handler' = None
    BY <1>2, <1>3, <1>6 DEF Stranger
  <2> QED  BY <1>6, <2>1 DEF Stages, AccountExists, Afresh, Waiting
<1> QED  BY <1>1, <1>2, <1>4, <1>5, <1>7, Proceeds

LEMMA TcpSrvFailedAgrees == ASSUME IInv, NExtra, TcpSrvFailed PROVE NExtra'
<1> DEFINE q == [priv EXCEPT !.state = "tcpConnecting"]
<1>1. pending.call = "tcp" /\ conn = None /\ ~priv.authed
  BY DEF TcpSrvFailed, Waiting, NExtra, Stages, NoStreamNoAuth
<1>2. q.result = priv.result /\ q.regOp = priv.regOp /\ q.authed = priv.authed
  BY TypesHold DEF Privs
<1> HIDE DEF q
<1>3. Continue(q, "tcp", "host") /\ UNCHANGED <<conn, handler, server>>
  BY DEF TcpSrvFailed, ConnectToHost, q
<1>4. priv' = q /\ pending'.call = "tcp"
  BY <1>3, ContinueIs
<1>5. Stages' /\ AccountExists'
  BY <1>1, <1>2, <1>3, <1>4 DEF Stages, AccountExists, Waiting
<1> QED  BY <1>1, <1>2, <1>3, <1>5, StreamStays, Proceeds

LEMMA TcpHostFailedAgrees == ASSUME IInv, NExtra, TcpHostFailed PROVE NExtra'
BY Failing DEF TcpHostFailed, Waiting

LEMMA FailAgrees == ASSUME IInv, NExtra, Fail PROVE NExtra'
<1>1. pending.call # "nothing"
  BY DEF Fail, SaslFails, JabberFails, TlsFails, RequestFails
<1> QED  BY <1>1, Failing DEF Fail

\* A server that offered XMPP 1.0 offers it again, so Jabber authentication is only for a client
\* that is not authenticated.
LEMMA OpenReceivedAgrees ==
  ASSUME IInv, NExtra, Restrained, NEW version \in {"1.0", "0.9"}, OpenReceived(version)
  PROVE  NExtra'
<1>1. pending.call = "open" /\ UNCHANGED <<conn, handler, server, account>>
  BY DEF OpenReceived, Waiting
<1>2. ~server.bound /\ (priv.authed \/ Afresh)
  BY <1>1 DEF NExtra, Stages
<1>3. CASE Continue(priv, "features", "recv")
  <2>1. priv' = priv /\ pending'.call = "features"
    BY <1>3, ContinueIs
  <2>2. Stages' /\ AccountExists'
    BY <1>1, <1>2, <2>1 DEF NExtra, Stages, AccountExists, Afresh, Waiting
  <2> QED  BY <1>1, <1>3, <2>2, StepsOn
<1>4. CASE Continue(priv, "jabber", "sent") /\ version # "1.0"
  <2>1. priv' = priv /\ pending'.call = "jabber"
    BY <1>4, ContinueIs
  <2>2. Afresh
    BY <1>2, <1>4 DEF OpenReceived, Restrained
  <2>3. Stages' /\ AccountExists'
    BY <1>1, <2>1, <2>2 DEF Stages, AccountExists, Afresh, Waiting
  <2> QED  BY <1>1, <1>4, <2>3, StepsOn
<1>5. CASE AbortConnect(priv)
  BY <1>1, <1>5, Failing
<1> QED  BY <1>3, <1>4, <1>5 DEF OpenReceived, JabberAuthenticate

LEMMA FeaturesReceivedAgrees ==
  ASSUME IInv, NExtra, NEW f \in Offers, FeaturesReceived(f)  PROVE NExtra'
<1> DEFINE q == [priv EXCEPT !.features = f]
<1>1. pending.call = "features" /\ UNCHANGED <<conn, server, account>> /\ conn # None
  BY DEF FeaturesReceived, Waiting, IInv, HasStream, OnStream
<1>2. Like(q) /\ q.authed = priv.authed /\ q.features = f
  BY TypesHold, Zenon DEF Privs, Like
<1>3. ~server.bound /\ (priv.authed \/ Afresh)
  BY <1>1 DEF NExtra, Stages
<1>4. f # None
  BY NoneAssumption
<1> HIDE DEF q
<1>5. Received(q)
  BY DEF FeaturesReceived, q
<1>6. q.authed = server'.authed
  BY <1>1, <1>2 DEF NExtra, AuthAgrees
<1>7. CASE AbortConnect(q) /\ UNCHANGED handler
  BY <1>1, <1>2, <1>6, <1>7, StreamStays, GivenUp
<1>8. CASE Continue(q, "tls", "sent") /\ UNCHANGED handler
  <2>1. priv' = q /\ pending'.call = "tls"
    BY <1>8, ContinueIs
  <2>2. Stages' /\ AccountExists'
    BY <1>1, <1>2, <1>3, <1>8, <2>1 DEF NExtra, Stages, AccountExists, Afresh, Waiting
  <2> QED  BY <1>1, <1>2, <1>6, <1>8, <2>2, StreamStays, Proceeds DEF Like
<1>9. CASE ~q.authed /\ q.regOp = "signup" /\ Xep77Begin(q) /\ UNCHANGED handler
  <2>1. handler' = None
    BY <1>2, <1>3, <1>9 DEF Afresh
  <2> QED  BY <1>1, <1>2, <1>4, <1>6, <1>9, <2>1, StreamStays, BeginsRegistration
<1>10. CASE ~q.authed /\ SaslRequestAuth(q)
  <2>1. handler = None /\ ~server.authed
    BY <1>1, <1>2, <1>3, <1>6, <1>10 DEF Afresh
  <2> QED  BY <1>1, <1>2, <1>4, <1>10, <2>1, AsksAuth DEF Like
<1>11. CASE q.authed /\ "bind" \in q.features /\ Continue(q, "bind", "sent") /\ UNCHANGED handler
  <2>1. priv' = q /\ pending'.call = "bind"
    BY <1>11, ContinueIs
  <2>2. Stages' /\ AccountExists'
    BY <1>1, <1>2, <1>3, <1>4, <1>11, <2>1
      DEF NExtra, Stages, AccountExists, Advertised, Waiting
  <2> QED  BY <1>1, <1>2, <1>6, <1>11, <2>2, StreamStays, Proceeds DEF Like
<1> QED  BY <1>5, <1>7, <1>8, <1>9, <1>10, <1>11 DEF Received, SecureAsync, IqBindResource

\* A redirection takes a client away that has nothing of the stream yet.
LEMMA RedirectedAgrees == ASSUME IInv, NExtra, Restrained, Redirected PROVE NExtra'
<1> DEFINE q == Reset(priv)
<1>1. ~priv.authed /\ pending.call \in {"features", "bind", "session"}
  BY DEF Redirected, MayRedirect, Restrained
<1>2. handler = None
  BY <1>1 DEF NExtra, Stages, Afresh, AuthAgrees, StreamAgrees
<1>3. q.authed = FALSE /\ q.result = priv.result /\ q.regOp = priv.regOp
  BY TypesHold DEF Reset, Privs
<1> HIDE DEF q
<1>4. Continue(q, "tcp", "host") /\ conn' = None /\ UNCHANGED <<handler, server>>
  BY DEF Redirected, ConnectToHost, q
<1>5. priv' = q /\ pending'.call = "tcp"
  BY <1>4, ContinueIs
<1>6. Stages' /\ AccountExists'
  BY <1>3, <1>4, <1>5 DEF Stages, AccountExists, Waiting
<1>7. StreamAgrees' /\ q.authed = server'.authed
  BY <1>1, <1>2, <1>3, <1>4 DEF NExtra, StreamAgrees, AuthAgrees, IInv, TypeOK, Servers
<1> QED  BY <1>1, <1>3, <1>4, <1>6, <1>7, Proceeds

LEMMA TlsProceedsAgrees == ASSUME IInv, NExtra, TlsProceeds PROVE NExtra'
<1>1. pending.call = "tls" /\ UNCHANGED <<conn, handler, server, account>>
  BY DEF TlsProceeds, Waiting
<1>2. PICK part : Continue(priv, "tls", part)
  BY DEF TlsProceeds
<1>3. priv' = priv /\ pending'.call = "tls"
  BY <1>2, ContinueIs
<1>4. Stages' /\ AccountExists'
  BY <1>1, <1>3 DEF NExtra, Stages, AccountExists, Afresh, Waiting
<1> QED  BY <1>1, <1>2, <1>4, StepsOn

LEMMA TlsSecuredAgrees == ASSUME IInv, NExtra, TlsSecured PROVE NExtra'
<1> DEFINE q == [priv EXCEPT !.encrypted = TRUE]
<1>1. pending.call = "tls" /\ UNCHANGED <<handler, server, account>>
  BY DEF TlsSecured, Waiting
<1>2. q.authed = priv.authed /\ q.result = priv.result /\ q.regOp = priv.regOp
  BY TypesHold DEF Privs
<1> HIDE DEF q
<1>3. Continue(q, "open", "sent") /\ conn' = [tls |-> TRUE, sm |-> FALSE]
  BY DEF TlsSecured, q
<1>4. ~server.bound /\ (priv.authed \/ Afresh)
  BY <1>1 DEF NExtra, Stages
<1>5. conn' # None
  <2>1. conn' \in Connections
    BY <1>3 DEF Connections
  <2> QED  BY <2>1, NoneAssumption
<1>6. StreamAgrees' /\ q.authed = server'.authed
  BY <1>1, <1>2, <1>3, <1>4, <1>5 DEF NExtra, StreamAgrees, AuthAgrees, IInv, TypeOK, Servers
<1>7. priv' = q /\ pending'.call = "open"
  BY <1>3, ContinueIs
<1>8. Stages' /\ AccountExists'
  BY <1>1, <1>2, <1>4, <1>7 DEF NExtra, Stages, AccountExists, Afresh, Waiting
<1> QED  BY <1>1, <1>2, <1>3, <1>5, <1>6, <1>8, Proceeds

LEMMA SaslUnsupportedAgrees == ASSUME IInv, NExtra, SaslUnsupported PROVE NExtra'
<1>1. pending.call = "sasl" /\ Afresh /\ UNCHANGED <<conn, handler, server, account>>
  BY DEF SaslUnsupported, Waiting, NExtra, Stages
<1>2. CASE AbortConnect(priv)
  BY <1>1, <1>2, Failing
<1>3. CASE Continue(priv, "jabber", "sent")
  <2>1. priv' = priv /\ pending'.call = "jabber"
    BY <1>3, ContinueIs
  <2>2. Stages' /\ AccountExists'
    BY <1>1, <2>1 DEF Stages, AccountExists, Afresh, Waiting
  <2> QED  BY <1>1, <1>3, <2>2, StepsOn
<1> QED  BY <1>2, <1>3 DEF SaslUnsupported, JabberAuthenticate

\* The exchange goes on; a success has been heard only from a server that has the account.
LEMMA ExchangeAgrees ==
  ASSUME IInv, NExtra, pending.call = "sasl", NEW part \in PartNames \ {"unsupported"},
         part \in {"succeeding", "success"} => account,
         Continue(priv, "sasl", part), UNCHANGED <<conn, account>>, StreamAgrees',
         server'.authed = server.authed
  PROVE  NExtra'
<1>1. priv' = priv /\ pending'.call = "sasl" /\ pending'.part = part
  BY ContinueIs
<1>2. ~priv.authed /\ priv.authed = server'.authed
  BY DEF NExtra, Stages, AuthAgrees
<1>3. Stages'
  BY <1>1, <1>2 DEF Stages, Waiting
<1>4. AccountExists'
  BY <1>1, <1>2 DEF AccountExists
<1> QED  BY <1>2, <1>3, <1>4, Proceeds

LEMMA SaslStartedAgrees == ASSUME IInv, NExtra, SaslStarted PROVE NExtra'
<1>1. pending.call = "sasl" /\ UNCHANGED <<conn, handler, server, account>>
  BY DEF SaslStarted, Waiting
<1>2. CASE AbortConnect(priv)
  BY <1>1, <1>2, Failing
<1>3. CASE Continue(priv, "sasl", "sent")
  BY <1>1, <1>3, StreamStays, ExchangeAgrees DEF PartNames
<1> QED  BY <1>2, <1>3 DEF SaslStarted

LEMMA JabberStartedAgrees == ASSUME IInv, NExtra, JabberStarted PROVE NExtra'
<1>1. pending.call = "jabber auth" /\ UNCHANGED <<conn, handler, server, account>>
  BY DEF JabberStarted, Waiting
<1>2. CASE AbortConnect(priv)
  BY <1>1, <1>2, Failing
<1>3. CASE Continue(priv, "jabber auth", "sent")
  <2>1. priv' = priv /\ pending'.call = "jabber auth" /\ ~priv.authed
    BY <1>1, <1>3, ContinueIs DEF NExtra, Stages
  <2>2. Stages' /\ AccountExists'
    BY <2>1 DEF Stages, AccountExists, Waiting
  <2> QED  BY <1>1, <1>3, <2>2, StepsOn
<1> QED  BY <1>2, <1>3 DEF JabberStarted

\* What the server says in the exchange leaves the stream what it was.
LEMMA HearsAgrees ==
  ASSUME IInv, NExtra, NEW d, NEW part \in {"challenged", "succeeding"}, SaslHears, Says(d),
         part = "succeeding" => account, ChallengeAsync(d, part), UNCHANGED <<conn, account>>
  PROVE  NExtra'
<1>1. pending.call = "sasl" /\ conn # None /\ server \in Servers
  BY DEF SaslHears, IInv, TypeOK, HasStream, OnStream, AfterPolicy
<1>2. /\ server'.authed = server.authed /\ server'.bound = server.bound
      /\ server'.sm = server.sm /\ server'.session = server.session
  BY <1>1 DEF Says, Servers
<1>3. StreamAgrees'
  BY <1>1, <1>2 DEF NExtra, StreamAgrees
<1>4. PICK q \in {part, "refused"} : Continue(priv, "sasl", q)
  BY DEF ChallengeAsync, Outcome
<1>5. q \in PartNames \ {"unsupported"} /\ (q \in {"succeeding", "success"} => account)
  BY DEF PartNames
<1> QED  BY <1>1, <1>2, <1>3, <1>4, <1>5, ExchangeAgrees

LEMMA SaslChallengedAgrees ==
  ASSUME IInv, NExtra, NEW d, SaslChallenged(d) \/ SaslSucceedsWithData(d)  PROVE NExtra'
<1>1. CASE SaslChallenged(d)
  BY <1>1, HearsAgrees DEF SaslChallenged
<1>2. CASE SaslSucceedsWithData(d)
  BY <1>2, HearsAgrees DEF SaslSucceedsWithData
<1> QED  BY <1>1, <1>2

LEMMA VerdictAgrees ==
  ASSUME IInv, NExtra, pending.call = "sasl", account, SuccessAsync,
         UNCHANGED <<conn, handler, server, account>>
  PROVE  NExtra'
<1>1. PICK q \in {"success", "refused"} : Continue(priv, "sasl", q)
  BY DEF SuccessAsync, Outcome
<1> QED  BY <1>1, StreamStays, ExchangeAgrees DEF PartNames

LEMMA SaslSucceedsAgrees == ASSUME IInv, NExtra, SaslSucceeds PROVE NExtra'
BY VerdictAgrees DEF SaslSucceeds, SaslHears

LEMMA SaslResponseAgrees == ASSUME IInv, NExtra, SaslResponse PROVE NExtra'
<1>1. /\ pending.call = "sasl" /\ UNCHANGED <<conn, handler, server, account>>
      /\ Continue(priv, "sasl", "responded")
  BY DEF SaslResponse, Waiting
<1> QED  BY <1>1, StreamStays, ExchangeAgrees DEF PartNames

LEMMA SaslSuccessResponseAgrees == ASSUME IInv, NExtra, SaslSuccessResponse PROVE NExtra'
<1>1. /\ pending.call = "sasl" /\ account /\ UNCHANGED <<conn, handler, server, account>>
  BY DEF SaslSuccessResponse, Waiting, NExtra, AccountExists
<1>2. CASE AbortConnect(priv)
  BY <1>1, <1>2, Failing
<1>3. CASE SuccessAsync
  BY <1>1, <1>3, VerdictAgrees
<1> QED  BY <1>2, <1>3 DEF SaslSuccessResponse

LEMMA SaslRefusedAgrees == ASSUME IInv, NExtra, SaslRefused PROVE NExtra'
BY Failing DEF SaslRefused, Waiting

LEMMA SaslDoneAgrees == ASSUME IInv, NExtra, SaslDone PROVE NExtra'
<1> DEFINE q == [priv EXCEPT !.authed = TRUE, !.state = "authed"]
<1>1. /\ pending.call = "sasl" /\ conn # None /\ server \in Servers /\ account /\ ~server.authed
      /\ UNCHANGED <<conn, handler, account>>
  BY DEF SaslDone, Waiting, IInv, TypeOK, HasStream, OnStream, AfterPolicy, NExtra, Stages,
         AccountExists, AuthAgrees
<1>2. q.authed = TRUE /\ q.result = priv.result /\ q.regOp = priv.regOp
  BY TypesHold DEF Privs
<1> HIDE DEF q
<1>3. Continue(q, "open", "sent") /\ server' = [server EXCEPT !.authed = TRUE]
  BY DEF SaslDone, q
<1>4. /\ server'.authed = TRUE /\ ~server'.bound /\ server'.sm = server.sm
      /\ server'.session = server.session
  BY <1>1, <1>3 DEF NExtra, StreamAgrees, Servers
<1>5. StreamAgrees'
  BY <1>1, <1>4 DEF NExtra, StreamAgrees
<1>6. priv' = q /\ pending'.call = "open"
  BY <1>3, ContinueIs
<1>7. Stages' /\ AccountExists'
  BY <1>1, <1>2, <1>4, <1>6 DEF Stages, AccountExists, Waiting
<1> QED  BY <1>1, <1>2, <1>3, <1>4, <1>5, <1>7, Proceeds

LEMMA JabberFieldsAgrees ==
  ASSUME IInv, NExtra, NEW fields \in {None} \cup SUBSET {"jabber digest", "jabber password"},
         JabberFields(fields)
  PROVE  NExtra'
<1>1. /\ pending.call = "jabber" /\ Afresh /\ conn # None
      /\ UNCHANGED <<conn, server, account>>
  BY DEF JabberFields, Waiting, NExtra, Stages, IInv, HasStream, OnStream, AfterPolicy
<1>2. CASE Continue(priv, "nothing", "nothing") /\ UNCHANGED handler
  <2>1. priv' = priv /\ pending'.call = "nothing"
    BY <1>2, ContinueIs
  <2>2. Stages' /\ AccountExists'
    BY <2>1 DEF Stages, AccountExists, Waiting
  <2> QED  BY <1>1, <1>2, <2>2, StepsOn
<1>3. CASE StartAuth(priv, "jabber auth", fields)
  <2>1. Continue(priv, "jabber auth", "start")
    BY <1>1, <1>3 DEF StartAuth, Afresh
  <2>2. priv' = priv /\ pending'.call = "jabber auth"
    BY <2>1, ContinueIs
  <2>3. Stages' /\ AccountExists'
    BY <1>1, <2>2 DEF Stages, AccountExists, Afresh, Waiting
  <2>4. StreamAgrees' /\ priv.authed = server'.authed
    BY <1>1 DEF NExtra, StreamAgrees, AuthAgrees
  <2> QED  BY <1>1, <2>1, <2>3, <2>4, Proceeds
<1> QED  BY <1>2, <1>3 DEF JabberFields

LEMMA JabberDoneAgrees == ASSUME IInv, NExtra, JabberDone PROVE NExtra'
<1> DEFINE q == [priv EXCEPT !.authed = TRUE, !.state = "authed"]
<1>1. /\ pending.call = "jabber auth" /\ conn # None /\ server \in Servers /\ account
      /\ UNCHANGED <<conn, handler, account>> /\ ~server.authed
  BY DEF JabberDone, Waiting, IInv, TypeOK, HasStream, OnStream, AfterPolicy, NExtra, Stages,
         AuthAgrees
<1>2. Like(q) /\ q.authed
  BY TypesHold DEF Privs, Like
<1>3. EstablishSession(q) /\ server' = [server EXCEPT !.authed = TRUE, !.bound = TRUE]
  BY DEF JabberDone
<1> HIDE DEF q
<1>4. server'.authed /\ server'.bound /\ server'.sm = server.sm
  BY <1>1, <1>3 DEF Servers
<1>5. StreamAgrees'
  BY <1>1, <1>4 DEF NExtra, StreamAgrees
<1> QED  BY <1>1, <1>2, <1>3, <1>4, <1>5, EntersSession

\* Whoever has registered, or is told that it was done before, goes on to authenticate.
LEMMA RegisteredAgrees ==
  ASSUME IInv, NExtra, Restrained, BeginReceivedRegistered \/ SignupReceived  PROVE NExtra'
<1> DEFINE q == [priv EXCEPT !.regOp = "none"]
<1>1. /\ pending.call \in {"begin", "signup"} /\ priv.regOp = "signup"
      /\ SaslRequestAuth(q) /\ UNCHANGED <<conn, server>> /\ conn # None
  <2>1. CASE BeginReceivedRegistered
    BY <2>1 DEF BeginReceivedRegistered, Waiting, Restrained, IInv, HasStream, OnStream, AfterPolicy
  <2>2. CASE SignupReceived
    BY <2>2 DEF SignupReceived, Waiting, NExtra, Stages, IInv, HasStream, OnStream, AfterPolicy
  <2> QED  BY <2>1, <2>2
<1>2. Afresh /\ priv.features # None /\ ~server.authed
  BY <1>1 DEF NExtra, Stages, Afresh, AuthAgrees
<1>3. /\ q \in Privs /\ q.regOp = "none" /\ q.result = priv.result /\ ~q.authed
      /\ q.features # None
  BY <1>2, TypesHold DEF Privs, Afresh
<1> HIDE DEF q
<1> QED  BY <1>1, <1>2, <1>3, AsksAuth DEF Afresh

LEMMA BeginReceivedAgrees == ASSUME IInv, NExtra, BeginReceived PROVE NExtra'
<1>1. pending.call = "begin" /\ UNCHANGED <<conn, handler, server, account>>
  BY DEF BeginReceived, Waiting
<1>2. CASE priv.regOp = "signup" /\ Continue(priv, "signup", "sent")
  <2>1. priv' = priv /\ pending'.call = "signup"
    BY <1>2, ContinueIs
  <2>2. Afresh /\ priv.features # None
    BY <1>1, <1>2 DEF NExtra, Stages
  <2>3. Stages' /\ AccountExists'
    BY <1>1, <1>2, <2>1, <2>2 DEF Stages, AccountExists, Afresh, Waiting
  <2> QED  BY <1>1, <1>2, <2>3, StepsOn
<1>3. CASE priv.regOp = "cancel" /\ Continue(priv, "cancel", "sent")
  <2>1. priv' = priv /\ pending'.call = "cancel"
    BY <1>3, ContinueIs
  <2>2. priv.authed /\ account
    BY <1>1, <1>3 DEF NExtra, Stages, AccountExists
  <2>3. Stages' /\ AccountExists'
    BY <1>1, <1>3, <2>1, <2>2 DEF Stages, AccountExists, Waiting
  <2> QED  BY <1>1, <1>3, <2>3, StepsOn
<1>4. CASE AbortConnect(priv)
  BY <1>1, <1>4, Failing
<1> QED  BY <1>2, <1>3, <1>4 DEF BeginReceived, Xep77CancelSend

LEMMA CancelReceivedAgrees == ASSUME IInv, NExtra, CancelReceived PROVE NExtra'
<1> DEFINE q == [priv EXCEPT !.sock = FALSE, !.state = "disconnected"]
<1>1. /\ pending.call = "cancel" /\ conn # None /\ UNCHANGED <<conn, handler, server>> /\ ~account'
      /\ priv.regOp = "cancel"
  BY DEF CancelReceived, Waiting, IInv, HasStream, OnStream, AfterPolicy, NExtra, Stages
<1>2. Like(q) /\ q.authed = priv.authed /\ q.regOp = "cancel"
  BY <1>1, TypesHold DEF Like, Privs
<1> HIDE DEF q
<1>3. Complete(q, "ok")
  BY DEF CancelReceived, q
<1> QED  BY <1>1, <1>2, <1>3, StreamStays, Succeeds

LEMMA BindReceivedAgrees == ASSUME IInv, NExtra, BindReceived PROVE NExtra'
<1> DEFINE q == [priv EXCEPT !.state = "bound"]
<1>1. /\ pending.call = "bind" /\ conn # None /\ server \in Servers
      /\ UNCHANGED <<conn, handler, account>> /\ priv.authed /\ server.authed /\ ~server.bound
      /\ account /\ server' = [server EXCEPT !.bound = TRUE]
  BY DEF BindReceived, Waiting, IInv, TypeOK, HasStream, OnStream, AfterPolicy, NExtra, Stages,
         AuthAgrees, AccountExists
<1>2. Like(q) /\ q.authed = priv.authed
  BY TypesHold DEF Like, Privs
<1> HIDE DEF q
<1>3. server'.authed = server.authed /\ server'.bound /\ server'.sm = server.sm
      /\ server'.session = server.session
  BY <1>1 DEF Servers
<1>4. StreamAgrees' /\ q.authed = server'.authed
  BY <1>1, <1>2, <1>3 DEF NExtra, StreamAgrees, AuthAgrees
<1>5. CASE Continue(q, "sm", "sent")
  <2>1. priv' = q /\ pending'.call = "sm"
    BY <1>5, ContinueIs
  <2>2. ~server'.session
    BY <1>1, <1>3 DEF NExtra, StreamAgrees
  <2>3. Stages' /\ AccountExists'
    BY <1>1, <1>3, <2>1, <2>2 DEF Stages, AccountExists, Waiting
  <2> QED  BY <1>1, <1>2, <1>4, <1>5, <2>3, Proceeds DEF Like
<1>6. CASE EstablishSession(q)
  BY <1>1, <1>2, <1>3, <1>4, <1>6, EntersSession
<1> QED  BY <1>5, <1>6 DEF BindReceived, q

\* Both sides count stanzas from now on.
LEMMA SmEnableReceivedAgrees ==
  ASSUME IInv, NExtra, Restrained, NEW enabled \in BOOLEAN, SmEnableReceived(enabled)
  PROVE  NExtra'
<1>1. /\ pending.call = "sm" /\ conn \in Connections /\ server \in Servers
      /\ UNCHANGED <<handler, account>> /\ server.bound /\ EstablishSession(priv)
      /\ server' = [server EXCEPT !.sm = TRUE] /\ conn' = [conn EXCEPT !.sm = TRUE]
  BY DEF SmEnableReceived, Restrained, Waiting, IInv, TypeOK, HasStream, OnStream, AfterPolicy,
         NExtra, Stages
<1>2. priv.authed /\ server.authed /\ account
  BY <1>1 DEF NExtra, StreamAgrees, AuthAgrees, AccountExists
<1>3. server'.authed /\ server'.bound /\ server'.sm = TRUE
  BY <1>1, <1>2 DEF Servers
<1>4. conn' # None /\ conn'.sm = TRUE
  <2>1. conn' \in Connections /\ conn'.sm = TRUE
    BY <1>1 DEF Connections
  <2> QED  BY <2>1, NoneAssumption
<1>5. StreamAgrees' /\ Like(priv)
  BY <1>3, <1>4, TypesHold DEF StreamAgrees, Like
<1> QED  BY <1>1, <1>2, <1>3, <1>4, <1>5, EntersSession

LEMMA SessionReceivedAgrees == ASSUME IInv, NExtra, SessionReceived PROVE NExtra'
<1>1. /\ pending.call = "session" /\ conn # None /\ server \in Servers
      /\ UNCHANGED <<conn, handler, account>> /\ server.bound
      /\ server' = [server EXCEPT !.session = TRUE]
  BY DEF SessionReceived, Waiting, IInv, TypeOK, HasStream, OnStream, AfterPolicy, NExtra, Stages
<1>2. priv.authed /\ server.authed /\ account
  BY <1>1 DEF NExtra, StreamAgrees, AuthAgrees, AccountExists
<1>3. server'.authed = server.authed /\ server'.bound /\ server'.sm = server.sm /\ server'.session
  BY <1>1 DEF Servers
<1>4. StreamAgrees' /\ priv.authed = server'.authed /\ Like(priv)
  BY <1>1, <1>2, <1>3, TypesHold DEF NExtra, StreamAgrees, AuthAgrees, Like
<1>5. CASE priv.regOp = "cancel" /\ Xep77Begin(priv)
  BY <1>1, <1>2, <1>4, <1>5, BeginsRegistration
<1>6. CASE priv.regOp # "cancel" /\ Complete(priv, "ok")
  BY <1>1, <1>2, <1>3, <1>4, <1>6, Succeeds
<1> QED  BY <1>5, <1>6 DEF SessionReceived

\* The invariant is inductive.
LEMMA NextAgrees == ASSUME Restrained PROVE NInv /\ [Next]_vars => NInv'
<1> SUFFICES ASSUME IInv, NExtra, [Next]_vars PROVE NExtra'
  BY NextKeeps DEF NInv
<1>1. CASE \E op \in Operations : Call(op)
  BY <1>1, RefusedAgrees, AcceptedAgrees
<1>2. CASE Cancel
  BY <1>2, CancelAgrees
<1>3. CASE TcpConnected \/ TcpSrvFailed \/ TcpHostFailed
  BY <1>3, TcpConnectedAgrees, TcpSrvFailedAgrees, TcpHostFailedAgrees
<1>4. CASE \/ XmppInitSent \/ StarttlsSent \/ SaslStanzaSent \/ JabberInitSent \/ JabberAuthQuery
           \/ Xep77BeginSent \/ Xep77SignupSent \/ Xep77CancelSent
           \/ IqBindResourceSent \/ SmEnableSent \/ EstablishSessionSent
  <2>1. PICK call \in CallNames \ {"nothing", "abort"} : StanzaSent(call)
    BY <1>4 DEF CallNames, XmppInitSent, StarttlsSent, SaslStanzaSent, JabberInitSent,
                JabberAuthQuery, Xep77BeginSent, Xep77SignupSent, Xep77CancelSent,
                IqBindResourceSent, SmEnableSent, EstablishSessionSent
  <2> QED  BY <2>1, StanzaSentAgrees
<1>5. CASE Fail
  BY <1>5, FailAgrees
<1>6. CASE \E version \in {"1.0", "0.9"} : OpenReceived(version)
  BY <1>6, OpenReceivedAgrees
<1>7. CASE \E f \in Offers : FeaturesReceived(f)
  BY <1>7, FeaturesReceivedAgrees
<1>8. CASE Redirected
  BY <1>8, RedirectedAgrees
<1>9. CASE TlsProceeds \/ TlsSecured
  BY <1>9, TlsProceedsAgrees, TlsSecuredAgrees
<1>10. CASE SaslUnsupported \/ SaslStarted \/ JabberStarted
  BY <1>10, SaslUnsupportedAgrees, SaslStartedAgrees, JabberStartedAgrees
<1>11. CASE \E d \in Data : SaslChallenged(d) \/ SaslSucceedsWithData(d)
  BY <1>11, SaslChallengedAgrees
<1>12. CASE SaslSucceeds \/ SaslResponse \/ SaslSuccessResponse \/ SaslRefused \/ SaslDone
  BY <1>12, SaslSucceedsAgrees, SaslResponseAgrees, SaslSuccessResponseAgrees, SaslRefusedAgrees,
     SaslDoneAgrees
<1>13. CASE \E fields \in {None} \cup SUBSET {"jabber digest", "jabber password"} :
              JabberFields(fields)
  BY <1>13, JabberFieldsAgrees
<1>14. CASE JabberDone
  BY <1>14, JabberDoneAgrees
<1>15. CASE BeginReceivedRegistered \/ BeginReceived \/ SignupReceived \/ CancelReceived
  BY <1>15, RegisteredAgrees, BeginReceivedAgrees, CancelReceivedAgrees
<1>16. CASE BindReceived
  BY <1>16, BindReceivedAgrees
<1>17. CASE \E enabled \in BOOLEAN : SmEnableReceived(enabled)
  BY <1>17, SmEnableReceivedAgrees
<1>18. CASE SessionReceived
  BY <1>18, SessionReceivedAgrees
<1>19. CASE UNCHANGED vars
  BY <1>19, UnchangedAgrees DEF vars
<1> QED  BY <1>1, <1>2, <1>3, <1>4, <1>5, <1>6, <1>7, <1>8, <1>9, <1>10, <1>11, <1>12, <1>13,
            <1>14, <1>15, <1>16, <1>17, <1>18, <1>19 DEF Next

LEMMA NegotiationInvariant == ASSUME Restrained PROVE Spec => []NInv
<1>1. Init => NInv
  BY InitInv, InitAgrees DEF NInv
<1> QED  BY <1>1, NextAgrees, PTL DEF Spec

\* However an operation goes, and however many are made: an application that is told its call
\* succeeded has what it asked for, the requests come in the order XMPP demands, what the code
\* asserts holds, and authentication is mutual (wocky-connector.c).  The liberties the theorem
\* excludes are those that break it.
THEOREM NegotiationIsSound == ASSUME Restrained PROVE Spec => []NegotiationIsComplete
<1>1. ASSUME NInv PROVE RequestsInOrder
  <2>1. Stages /\ priv.authed = server.authed /\ (server.bound => server.authed)
    BY <1>1 DEF NInv, NExtra, AuthAgrees, StreamAgrees
  <2>2. \A call : Requesting(call) => pending.call = call
    BY DEF Requesting, Waiting
  <2>3. \A call \in {"sasl", "jabber", "jabber auth", "signup"} : Requesting(call) => ~server.authed
    BY <2>1, <2>2 DEF Stages, Afresh
  <2>4. /\ Requesting("bind") => server.authed /\ ~server.bound /\ Advertised(priv, "bind")
        /\ Requesting("sm") => server.bound /\ ~server.session
        /\ Requesting("session") => server.bound
        /\ Requesting("cancel") => server.authed
    BY <2>1, <2>2 DEF Stages
  <2> QED  BY <2>3, <2>4 DEF RequestsInOrder
<1>2. ASSUME NInv PROVE AssertionsHold
  <2>1. Underway /\ Stages
    BY <1>2 DEF NInv, NExtra
  <2>2. pending # Aborted
    BY <2>1 DEF Underway, Aborted, Waiting
  <2> QED  BY <2>1, <2>2 DEF AssertionsHold, Underway, Stages
<1>3. NInv /\ AuthenticationIsMutual => NegotiationIsComplete
  BY <1>1, <1>2 DEF NInv, NExtra, NegotiationIsComplete
<1> QED  BY <1>3, NegotiationInvariant, ServerIsAuthenticated, PTL

\* The server changes the account only when it handles the client's registration or removal.
LEMMA AccountChanges ==
  ASSUME Next, account' # account, IInv
  PROVE  \/ pending = Waiting("cancel", "recv") /\ account = TRUE
         \/ pending = Waiting("signup", "recv") /\ account = FALSE
<1>1. Fail \/ SignupReceived \/ CancelReceived
  BY DEF Next, Call, Cancel, TcpConnected, TcpSrvFailed, TcpHostFailed, StanzaSent, XmppInitSent,
         StarttlsSent, SaslStanzaSent, JabberInitSent, JabberAuthQuery, Xep77BeginSent,
         Xep77SignupSent, Xep77CancelSent, IqBindResourceSent, SmEnableSent, EstablishSessionSent,
         OpenReceived, FeaturesReceived, Redirected, TlsProceeds, TlsSecured, SaslUnsupported,
         SaslStarted, JabberStarted, SaslChallenged, SaslSucceedsWithData, SaslSucceeds,
         SaslResponse, SaslSuccessResponse, SaslRefused, SaslDone, JabberFields, JabberDone,
         BeginReceivedRegistered, BeginReceived, BindReceived, SmEnableReceived, SessionReceived
<1>2. account \in BOOLEAN
  BY DEF IInv, TypeOK
<1>3. CASE Fail
  <2>1. CASE pending = Waiting("cancel", "recv")
    BY <1>2, <1>3, <2>1 DEF Fail
  <2>2. CASE pending # Waiting("cancel", "recv") /\ pending = Waiting("signup", "recv")
    BY <1>2, <1>3, <2>2 DEF Fail
  <2>3. CASE pending # Waiting("cancel", "recv") /\ pending # Waiting("signup", "recv")
    BY <1>3, <2>3 DEF Fail
  <2> QED  BY <2>1, <2>2, <2>3
<1>4. CASE SignupReceived
  BY <1>2, <1>4 DEF SignupReceived
<1>5. CASE CancelReceived
  BY <1>2, <1>5 DEF CancelReceived
<1> QED  BY <1>1, <1>3, <1>4, <1>5

\* An account is created only for an application that is registering, and removed only for one
\* that is unregistering: what the connector keeps in reg_op outlives the call that set it, and
\* is still what the present call is for.
THEOREM AccountChangesOnDemand == ASSUME Restrained PROVE Spec => AccountIsChangedOnDemand
<1> DEFINE Demanded ==
      account' # account =>
        /\ priv.result # 0
        /\ calls[priv.result].op = IF account THEN "unregister" ELSE "register"
<1>1. NInv /\ [Next]_vars => [Demanded]_vars
  <2> SUFFICES ASSUME IInv, NExtra, Next, account' # account PROVE Demanded
    BY DEF NInv
  <2>1. \/ pending = Waiting("cancel", "recv") /\ account = TRUE
        \/ pending = Waiting("signup", "recv") /\ account = FALSE
    BY AccountChanges
  <2>2. pending.call = IF account THEN "cancel" ELSE "signup"
    BY <2>1 DEF Waiting
  <2>3. priv.regOp = IF account THEN "cancel" ELSE "signup"
    BY <2>2 DEF NExtra, Stages
  <2>4. priv.result # 0 /\ priv.result \in Accepted
    BY <2>2, AtWork DEF Accepted
  <2>5. PICK op \in Operations : WorksFor(op)
    BY DEF NExtra, OneOperation
  <2>6. op = IF account THEN "unregister" ELSE "register"
    BY <2>3, <2>5 DEF WorksFor, RegOp, Operations
  <2> QED  BY <2>4, <2>5, <2>6 DEF WorksFor
<1> QED  BY <1>1, NegotiationInvariant, PTL DEF Spec, AccountIsChangedOnDemand
=============================================================================
