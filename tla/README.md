# A TLA+ model of Wocky

Wocky is an XMPP client library on GLib.  It is single threaded: every operation is asynchronous,
its completion is a callback of the main loop, and a callback may call straight back into the
library.  What is hard in it is therefore not parallelism but order: which callback runs first, what
was read before a callout and is used after it, which of several operations in flight an answer
belongs to, and who is still told when something ends early.

This directory models the parts where that matters, checks them with TLC on small instances, and
proves some of what the runs show for every instance with TLAPS.  All paths below are relative to
`src/`; the library is `wocky/wocky-*.c`, and a bare `:123` is a line of the file just named.

Contents: 1 inventory, 2 modules and how they correspond to the code, 3 runs, 4 fairness,
5 proofs, 6 known deviations of the code from what it says, 7 what is not modelled, 8 plan.

## 1. Inventory

### Modelled, in whole or for the greater part

| Component | State it keeps | Operations | Hard behaviours | What makes it correct |
|---|---|---|---|---|
| XMPP reader (`wocky-xmpp-reader.c`) | state of the stream, queue of parsed stanzas, pending error, count of stanzas | push, pop, peek, reset | a read brings several stanzas and the end at once; a reset in mid-conversation | stanzas come out in order, all of them before the end or the error that follows them |
| XMPP connection (`wocky-xmpp-connection.c`) | one output and one input operation, how much of the output is written, opened/closed flags, force close | send open, stanza, whitespace ping, close; receive open, stanza; reset; force close | partial writes, writes that fail half way, calls refused from an idle callback, torn streams | one operation at a time per direction, answered once, without an error exactly if it is on the wire |
| C2S porter, sending (`wocky-c2s-porter.c`) | queue of stanzas, ping, close and force close in progress, the receive, table of pending IQs | send, send IQ, ping, start, close, force close, and their cancellations | callbacks that call back; cancel against reply; close against error, force close, the peer's close | stanzas leave in order; every call is answered once; a close flushes first and means both sides have closed |
| C2S porter, receiving (same file, `wocky-porter.c`) | list of handlers, power saving and what it holds back, remote end | register, unregister, dispatch, reply, power saving | handlers that change the list they are called from; a flush started inside a flush | stanzas are handled in order, every matching handler is asked until one takes the stanza, a request has one answer |
| Stream management (`wocky-sm.c`) | stanzas not acknowledged, count received | request, acknowledge, take back | a stream that breaks with stanzas, requests and answers under way | what is not taken back has been received; what is acknowledged has been handled |
| Ping, heartbeat (`wocky-ping.c`, `wocky-heartbeat-source.c`) | interval, next wakeup | change the interval, fire | unsigned arithmetic on the next wakeup | while pings are on, the stream is never silent for longer than the interval |
| Connector (`wocky-connector.c`) with TLS connector, SASL, Jabber authentication and auth registry | progress, flags for encryption and authentication, features, registration wanted, redirections left, the mechanism's state | connect, register, unregister, cancel | a dozen sub-operations any of which fails or is cancelled; streams that are restarted or redirected | the order of requests, the policy on credentials, success only if true, the server's proof is asked for, every call ends |
| TLS sessions (`wocky-tls.c`, `wocky-openssl.c`) | jobs for handshake, read and write, base operations in flight, buffers | handshake, read, write, verify | one base operation serves two jobs; records cut in pieces; failures in the middle | a stream: in order, nothing lost, each job answered once and truly; sound verdicts on certificates |
| Meta-porter, link-local connector (`wocky-meta-porter.c`, `wocky-ll-*.c`, `wocky-contact-factory.c`) | one porter per contact, its holds and timer, handlers for all | open, send, send IQ, hold, unhold, register, close | a timeout against a use; two streams opened towards each other; a close of all while some open | exact counts, one stream per contact with the handlers it should have, every call answered |
| Roster (`wocky-roster.c`, `wocky-bare-contact.c`) | copy of the server's roster, one pending operation per contact with what is merged into it | fetch, push, add, remove, rename, join and leave a group | edits asked for while one flies; pushes and replies in any order; refusals | the copy mirrors the server, every edit is answered, the last one shows |
| MUC (`wocky-muc.c`) | state of our presence, nick, role, members | join, leave, query, every presence and message of the room | presences of others, ours, errors and answers crossing | state and members mirror the room; the signals tell all of it |
| PubSub, PEP (`wocky-pubsub-*.c`, `wocky-pep-service.c`) | weak table of node objects, requests in flight | subscribe, list, configure, create, delete ...; events | nodes and services disposed of while requests or events are out | one object per node, subscriptions and items as the server has them, no request forgotten |
| Jingle session, contents (`wocky-jingle-session.c`, `wocky-jingle-content.c`, part of `wocky-jingle-factory.c`) | state of the session, contents of both creators, hold, ringing | create, add and remove contents, accept, terminate, reject, hold, change direction; every Jingle action received | both sides act at once and their IQs cross | the sides agree whenever nothing is on its way; a call that is accepted settles |
| Jingle media, transports (`wocky-jingle-media-rtp.c`, `wocky-jingle-transport-*.c`) | local and remote descriptions, candidates of both sides, what was sent of them | set and change codecs, add candidates, all that the peer tells of either | media, candidates, transport and peer become ready in any order | equal codecs on both sides, every candidate arrives once, a content that is ready is not left waiting |

### Not modelled

HTTP proxy, Jingle relay information, capabilities, data forms, the loopback stream, the writer,
trees of stanzas, utilities: section 7 says why.  PROJECT.json lists every component with its files,
and 40 hazards at the line where each one bites, with the properties that would catch it.

### How they interact

The application calls the **connector**, which owns the **connection** until it is ready: it opens
streams, hands the connection to the **TLS connector** (whose **session** becomes the byte stream
below) and the authenticators, resets it, and gives it to the application.  From then on the
**porter** owns it: it keeps one receive pending for ever, and one output operation at most.  Among
link-local contacts the **meta-porter** is in its place, with a porter for each contact it has a
stream to.  Everything above -- **roster**, **Jingle**, **MUC**, **PubSub**, **ping** -- talks to the
porter alone: `wocky_porter_send_iq_async` with a callback, and stanza handlers for what arrives.
A session's contents call their session back when they become ready or are removed, and ask their
media and transport what they have.

## 2. Modules

    XmppReader <- XmppConnection --refines--> Connection      XmppConnection <- XmppConnectionProofs
                                                  |
                     ConnectionOps <--------------+
                          ^
                      C2SPorter --refines--> OrderedSending
                          ^
                      C2SPorterProofs

    StreamManagement <- PorterReceive <- KeepAlive <- PorterReceiveProofs

    AuthHandlers <- Connector <- ConnectorProofs

    TlsSession <- GnuTls, OpenSsl <- TlsBackends

    MetaPorter <- MetaPorterProofs     PubSub <- PubSubProofs     Roster <- RosterProofs

    Muc <- MucProofs     Jingle     JingleMedia

`MC<module>` extends a module for TLC; the cfg files give the constants their values.  Operators named
`M_...` are slips a maintainer could make in the definition that follows them.  No property and no
specification uses them: they stand by to show that a property is able to fail.  A constant
`Liberties` names what an application or a server may do although the code is not up to it
(section 6); the runs grant none.

### The connection: `XmppReader`, `XmppConnection`, `ConnectionOps`, `Connection`

`XmppReader` has the reader as a record (`state`, `queue`, `error`, `parser`, `count`) and its functions
as operators on it.  Bytes come as tokens: an opening, a stanza, `</stream>`, or junk.  A fragment of a
token changes nothing that can be seen from outside, so reads carry any number of whole tokens,
none included.

`XmppConnection` is the connection on a byte stream.  `writing`, `offset` are `output_result` and `offset`;
`WriteCb(n)` is `wocky_xmpp_connection_write_cb` after n more pieces; `reading` tells which of the two
receives `input_result` belongs to; `ReceivedData(n)` is the read callback; `ForceCloseAsync` and
`StreamCloseCb` tear the stream; `idle` holds the completions that `g_simple_async_result_complete_in_idle`
has queued.  What was read is parsed by a recursive function, and what is done of the output is selected by one,
since the prover cannot look into the library's folds.  First the client is a connector, which opens, sends, receives and resets as it likes; once
the stream is opened in both directions `HandOver` (`wocky_session_constructed`) leaves it to the porter.

`ConnectionOps` is the same connection as its callers see it, without pieces and bytes, as operators that
another module uses inside its own steps; `Connection` makes a specification of them.
`ImplementsPipe` states that from the hand-over on `XmppConnection` refines `Connection`, so what is checked
of the porter on `ConnectionOps` is not about a connection of our own invention.

### The porter sends: `C2SPorter`, `OrderedSending`

The variables are the fields of `WockyC2SPorterPrivate` and are named in the declarations.  A callback
of the main loop is one step unless it calls out to the application; then `stack` says what is left
to run: a frame for each library function that is suspended, and a `user` frame while the
application has control.  The frames are executed by `Run` (`SendNext` after the callback of a send,
`MaybeRemoveStep` after that of an IQ, `ForceShutdownStep`, `RemoteClosedRest`, `CompleteClose` and so on),
and `Reentrant` says from which callouts the application calls the porter back.  A callout that ends its
function needs no frame: to act there and to act from the main loop is the same.

Where a stanza is sent is `Enqueue`/`SendHead`; IQs have an entry in `iqTable` until nothing points to them
(`stanza_iq_handler_maybe_remove`); `Cancel` is `send_cancelled_cb` or `send_iq_cancelled_cb`; `CloseAsync`,
`ForceCloseAsync`, `StanzaWritten`, `CloseSent`, `ReceiveEnded` and the others are one action per function or
callback.

`OrderedSending` is what the send path promises: a queue from which stanzas leave in order, whose senders
hear of success when and only when their stanza has left, and of an error at most once instead.
`SendsInOrder` states that the porter implements it, with `todo` mapped to the queue (preceded by a
stanza that is being written but was taken from the queue already) until a shutdown is forced.

### The porter receives: `StreamManagement`, `PorterReceive`, `KeepAlive`

`StreamManagement` has both ends of the counting: what `send_async` has taken, the copies `WockySM` keeps, the
`<r/>` that follows each stanza, the server's `<a h="n"/>` and ours, and a stream that may break anywhere
between them.  One answer stands for one request, as in the code, which compares `h` with nothing.

`PorterReceive` puts the dispatch on top.  `handlers` is the list in the order it is asked (`Insert` is
`compare_handler` and `g_list_insert_sorted`); `Matches` is the test in `handle_stanza`; a frame of `stack` is a
walk over the list, suspended at the handler `at` while the application registers and unregisters
handlers (its own included), sends, ends power saving or closes.  `ToHandle` is `queue_or_handle_stanza` with
`is_stanza_important`; `FlushStep` is `flush_unimportant_queue`; `LibraryHandles` is the library's own handlers: those of
stream management, ping and errors for requests nobody takes.  `NotSpoofed` is the comparison of a reply's
sender with the addressee of the IQ in `handle_iq_reply`.

`KeepAlive` adds time in ticks, the heartbeat source and the whitespace pings of `WockyPing` on a stream
without stream management.  `NextWakeup` keeps the unsigned difference of the two intervals as the code
computes it, modulo `Word`.

Simplifications: the application registers before the porter is started and afterwards from within
handlers; sends and the network move between callbacks; every request has an id.

### The connector: `AuthHandlers`, `Connector`

`pending` is the sub-operation in progress and how far it has got (sent, waiting for the answer, in an
idle callback ...), which is the chain of callbacks drawn at the head of `wocky-connector.c`.  The
actions are the callbacks: `FeaturesReceived` is `xmpp_features_cb`, `Redirected` is `stream_error_abort` after
a see-other-host, `BindReceived` is `iq_bind_resource_recv_cb`, and so on.  `Complete` and `AbortConnect` are
`complete_operation` and `abort_connect`.  An assertion of the code that fails is the state `Aborted`.
The server is external: `server` is what it holds of the client on the present stream, `account` whether the
account exists, and it may answer or fail in any way.  `offered` remembers which credentials have left
the client and whether the stream was encrypted then.

`AuthHandlers` has the mechanisms as records of their state.  What a server says is a challenge for this
client's nonce, for another's, one with an extension that must be understood, the right proof, a wrong
one, or nonsense; the operators say for each handler and state whether it goes on (`wocky_auth_handler_...`).

### TLS: `TlsSession`, `GnuTls`, `OpenSsl`, `TlsBackends`

A build has one of two implementations of the same interface.  `TlsSession` holds what they share: three
kinds of jobs, the one read and one write of the base stream that can be under way, the peer, whose
records may be cut anywhere, and the certificate with its faults, names and revocation.  `GnuTls` has
`wocky_tls_session_try_operation` and the push and pull functions with their little state machines
(`rop`, `wop`); `OpenSsl` the two memory buffers and `handshake_read`, `ssl_handshake`, `ssl_fill` and `ssl_flush` around
them.  The libraries themselves are external: bytes are numbered as they are encrypted, so that a loss,
a repetition or a change of order shows.  `GnuStatus` and `SslStatus` are the two
`wocky_tls_session_verify_peer`.
`TlsBackends` runs both under the same application and peer, against one list of properties.

### Link-local: `MetaPorter`

`table` has the `PorterData` of each contact: the porter in use, the holds and whether the timer runs.
`children` are the stream porters there are, in use, being closed, or lost; they answer what they are
given and end once closed, which is what `C2SPorter` shows of them (`CallsEnd` there).  `calls` go
through the connection factory (an address after the other: `HostConnected`, `HostFailed`) and the
link-local connector (`OpensExchanged`, `MadeConnection`); `incoming` are streams hosts open to us.
`PorterTimeout`, `PorterCloseCb`, `PorterRemoteClosed` are the callbacks of those names.

### `Roster`

`items` is the copy, `pending[j]` the `PendingOperation` of contact j with its flying and waiting results,
`completing` where a reply is in running the callbacks of a list, so that these may ask for more
(`Reentrant`).  `Edited` and `Changed` are what an edit asks for on top of those before it; `ReceiveReply` is
`change_roster_iq_cb` with `pending_operation_reset`; `ReceivePush` and `ReceiveRoster` are `roster_update`.  The
server (`ServerAccepts`, `ServerRejects`, `OtherClientEdits`) is external: it answers in order and pushes every
change to a client that has fetched.

### `Muc`

`state`, `nick`, `role`, `members` are those of `WockyMucPrivate`; `HandleSelfPresence`, `HandleUserPresence`,
`HandleUnavailable`, `HandlePresenceError`, `HandleMessage` and `MucDiscoInfo` the functions of those names.  `shown` is what
an application knows that takes the members (`MucMembers`) when `JoinedSignal` is emitted, and then follows
the signals.  The room serves in order and sends every occupant
what happens; the other occupants come, go, rename themselves, change roles, speak, or throw us out.

### `PubSub`

`table` and `nameOf` are the service's weak references to its nodes: an object lives as long as the application,
a list it was given, or a call under way refers to it (`kept`, `Using`); the service lives as long as the
application, a node or a call on it does (`ServiceAlive`).  A node gives up its reference to the service
before the weak reference reports it (`wocky_pubsub_node_dispose`), so when it was the last one `NodeDisposed` lets
`node_disposed_cb` find the entry in the freed table, or not (section 6).  `Ask` is the shape of all the
asynchronous calls; the answers go through `Distilled` (`wocky_pubsub_distill_iq_reply`) to the callback of each kind
of call.  Events come through `MsgEventCb` (the service's handlers) to the node, or to the
`WockyPepService` of our own account that claims them.

### Jingle: `Jingle`, `JingleMedia`

`Jingle` is two instances of the same session, indexed by side, joined by two ordered channels of IQs and
answers.  A handler of the code is an operator on a record of the session and the stanzas it sends (`At`,
`Send`, `Put`, `SetState`, `Terminate`, `TryInitiateOrAccept`, `MaybeReady`, `SignalRemoval`), since in the code these
call each other; an action applies them and ends in `Does` or `Answers`.  `Refused` is `action_is_allowed` and the
lookups that make a handler answer with an error.  Contents live under their creator and name as in
`initiator_contents` and `responder_contents`.

`JingleMedia` looks at one content from within, where `Jingle` has only "ready".  `side[p]` is a side's
`WockyJingleMediaRtp` and transport: its description, the pending update of it, the other side's, the
candidates added, sent and heard.  `SetLocalDescription`, `AddCandidates`, `Accept` are the application's calls;
`ReceiveOffer`, `ReceiveDescriptionInfo`, `HearIceUdp`, `HearRawUdp`, `HearGoogle` what the peer's stanzas do;
`SendIceUdp`, `SendGoogle` the sending of candidates in each transport.  `Setups` lists the calls looked at: transport,
dialect, who created the content, whether it was added to a running call, whether one side is the old
Google client, header extensions and feedback of each, and flaws in what a client that is not wocky sends.

## 3. Runs

Twelve runs, one for each question.  "Pass" means that TLC has explored every reachable state without
finding a violation; each property has a mutant in PROJECT.json, a plausible slip in the code under
which TLC finds it violated.

| Run | Question | Distinct states |
|---|---|---|
| `porter` | Do sends, an IQ, a ping, a close and two force closes stay apart, whatever is cancelled or fails, whoever ends the stream first, and with an application that calls back from its handlers and signals? | 5 800 000 |
| `porter_live` | Does everything end: sends and force closes without the peer, closes with it? | 182 000 |
| `porter_receive` | Are stanzas dispatched, held back, answered, counted and acknowledged rightly, and is the stream kept alive? | 4 820 000 |
| `conn` | Is the peer's stream delivered however it is cut, are items kept whole, and is the connection what the porter is modelled on? | 1 360 000 |
| `connector` | From address to session under every setting and thirteen sets of features: credentials, order, success, assertions, cancellation? | 1 380 000 |
| `tls` | Is a TLS session a stream in both builds, and is a peer let in for good reasons only? | 2 600 000 |
| `meta_porter` | Do holds, timeouts, streams in both directions and a close of everything keep the records exact, and is every call answered? | 380 000 |
| `roster_edit` | Edits of one contact, merged, reentrant and disturbed once: do they show, and are all answered? | 693 000 |
| `muc` | Does the room we see stay the room there is? | 384 000 |
| `pubsub` | Do nodes, requests and events stay together while objects come and go? | 851 000 |
| `jingle_call` | Do the two sides of a call agree whenever nothing is on its way? | 98 000 |
| `jingle_media` | Do codecs and candidates reach the other side, once, and in time? | 1 310 000 |

What the properties say (those in parentheses are their conjuncts, stated and explained in the modules):

* `porter`: `SendsInOrder` (refinement of `OrderedSending`); `NothingOverlaps`: no second output operation, no
  completion of a stanza that has left the queue, no `</stream>` before the last stanza, and the assertions
  of `close_async` (`NoBusyReply`, `CancelFindsWaiting`, `CloseStateFree`, `CloseFlushes`); `IqBookkeeping`: nothing points to
  what has been freed and nothing is left behind (`IqHandlerAlive`, `IqTableExact`); `ForceCloseHasResult`: the
  assertions of `force_close_async` and `connection_force_close_cb`; `CloseMeansBothClosed`; `AnsweredOnce`; `TypeOK`.
* `porter_live`: `CallsEnd` (`ForceCloseEnds`, `SendsEnd`, `CloseEnds`).
* `porter_receive`: `OrderIsKept` (power saving puts off, and neither reorders nor loses; an `<a/>` counts no
  stanza that is still held back); `EveryHandlerIsAsked` (in the order of the list, no handler that has been
  freed, none passed over if the stanza ends unhandled); `DeliveryIsAccounted` (what is neither unacknowledged nor
  taken back has been read by the server); `AnswersAreRight` (an IQ is completed by its addressee, every
  request has one answer); `StreamIsKeptAlive`.
* `conn`: `StreamIsDelivered` (`DeliveredInOrder`, `ReportsAreTrue`, `CountsAreExact`), `WrittenIsOnWire`, `ImplementsPipe`.
* `connector`: `CredentialsFollowPolicy`; `NegotiationIsComplete` (`SuccessIsTrue`, `RequestsInOrder` as the server sees
  it, `AssertionsHold`, `AuthenticationIsMutual`); `AccountIsChangedOnDemand`; `CancelEnds`; `TypeOK`.
* `tls`: `StreamIsTrue` (`InOrder`, `SuccessIsTrue`, `ErrorsAreReal`), `VerdictsAreSound`, `CallsAreAnswered` (every call has
  somebody who will answer it, a failed base operation is told there and then).
* `meta_porter`: `HoldsAreCounted`, `OneStreamWithItsHandlers`, `CallsEnd`.
* `roster_edit`: `RosterIsCurrent` (`MirrorsServer`), `EditsAreTracked` (`CallsAreTracked`, `LastEditShows`,
  `OneIqPerContact`), `EditsEnd`.
* `muc`: `RoomIsMirrored` (once all that is on its way has been heard, state, nick, role and members are the
  room's), `SignalsTellAll`, `RequestsEnd`.
* `pubsub`: `ServiceIsMirrored` (`NodesAreUnique`, `MirrorsServer`), `CallsAreOnTheirWay`.
* `jingle_call`: `SidesAgree` (`StatesAgree`, `ContentsAgree`, `InfoIsCurrent`, `RefusalsAreDue`), `AcceptedCallsSettle`.
* `jingle_media`: `DescriptionsAgree` (`CodecsAgree`, `ExtrasAreUnderstood`), `CandidatesAreShared` (`CandidatesArrive`,
  `AllOrNone`), `OffersAreTimely` (`ReadyIsSignalled`, `InjectHasCandidates`, `NothingIsRefused`).

### Bounds, and why they are enough

* `porter`: one plain stanza and one IQ, which are two elements of the queue, one written and one
  waiting; a ping; one close; two force closes.  Each call is made at most once, since results are
  objects of their own.  Every pair of operations can overlap, and so can a third.  `porter_live` has one
  force close, no ping and no reentrancy: what the loop owes does not depend on them.
* `porter_receive`: two handlers, one of which takes everything of its peer and is asked before the library's,
  so that one can remove itself, the other, or both; two stanzas of the server (a message that power
  saving holds back, a request) and what it sends for stream management; one stanza and one IQ of ours,
  one of two addressees, replies from three.  Intervals of 0 to 2 seconds with a tick a second and words
  of 8, in which the interval wraps as it would in 32 bits.
* `conn`: two incoming stanzas, one of them an acknowledgement; up to four tokens on a stream, so that junk
  and a close can come before, between and after them; one reset; items of two pieces, so that there is
  an inside to be interrupted; three operations, four in all with those before the hand-over.
* `connector`: the sets of features have every way of authenticating and everything after it, alone
  and together; one redirection (the code follows five, and the count is compared in one place) and two
  calls.  The theorems of section 5 hold for any number of either.
* `tls`: two reads, two writes, two records of the peer, two faults or cancellations; every record can arrive in
  two pieces and every base write can take less than it was given.
* `meta_porter`: ourselves, whom nobody can dial, and one contact with two addresses; two calls, one handler,
  one connection from outside and three further acts (holds, registrations, arrivals, cancellations,
  closes) so that any three cross two calls.  Contacts share nothing but the handlers and the close.
* `roster_edit`: contacts do not interact except in a fetch, so there is one, with two names and a group;
  three edits (one flies, two are merged); one disturbance in all.
* `muc`: three nicks (ours, another's, one to change to), three calls, two events.
* `pubsub`: two nodes, one of them with a `WockyPepService`; three objects, so that a name can be given a
  new object while the old one is kept by a call; a first call of any kind and a second that
  subscribes, unsubscribes or creates; two events.
* `jingle_call`: three names, one of a type the other side refuses; three calls beyond those that set up the
  session.
* `jingle_media`: nine calls (`MCSetups`) with two codecs that are interchangeable (symmetry: only their
  identity is looked at), an update, two candidates a side, one stanza of a foreign client.

Deadlock is not checked: calls are made finitely often, and every one of these systems comes to rest.

## 4. Fairness

`porter`, `porter_receive`, `conn`, `tls`, `pubsub` and `jingle_media` have no liveness property: what is owed there is
stated as an invariant (a call is on its way, an error is told in the step it is noticed) that needs no
fairness.  The others:

* Porter (`LoopFairness`): the main loop goes on with suspended functions and runs idle sources, a callback
  of the application returns, the stream ends a write one way or another, a cancelled receive and a torn
  stream are reported.  Strong fairness is used where one callback may postpone another: the loop
  dispatches sources in turn, so one that is ready again and again is not passed over for ever.  Of
  the peer nothing is assumed except in `CloseEnds`, whose premise `PeerFairness` is that it ends its stream after
  ours (RFC 6120, 4.4); the code has no timeout of its own here.
* Connector: what holds the cancellable fails once it is cancelled; a connection to a host ends by itself, idle
  callbacks run, the TLS handler gives its verdict, and the server goes on with a SASL exchange it has
  begun -- `wocky_sasl_auth_response_cb` receives without a cancellable (`wocky-sasl-auth.c:462`), so that
  without the last assumption a cancelled call may hang there.
* Meta-porter: timers fire; dialling a host and opening a stream end in success or failure; a porter
  answers what it was given and ends once it is closed or lost.
* Roster: the loop runs, the server reads and answers.
* Muc: what arrives is handled, the room serves.
* Jingle: the porters deliver, idle callbacks run, every content gets its description and candidates.
  No application is obliged to do anything.

## 5. Proofs

Checked by TLAPS from nothing but the named assumptions on constants: for any sets of stanzas, calls,
contacts and names, any features a server may advertise, any number of calls, events, redirections.
The proof modules of a component build on one another; every inductive invariant was checked with TLC
before it was proved.

The porter, sending:

* `C2SPorterProofs`: `PorterTypeCorrect`, `AnswersAreUnique`, `ForceClosesNeverOverlap`, with any reentrancy.
  - Types: one lemma for each operator that several actions share (what `Enqueue`, `IqSendFailed`,
    `CompleteClose`, `RemoteConnectionClosed` ... do to types), then one for each of the three kinds of step.
  - That no call is answered twice is an action property.  What makes it inductive is `CallsPending`: the
    result of the close, the ping and the force close in progress is still open, and so are those of the
    stanzas in the queue, which are all different (`QueuePending`).  IQs are the exception, which is why
    their handler looks at the result first.
  - `ForceCloseHasResult` is not inductive: a suspended function may be about to start a second force close
    of the connection.  `ShutdownInv` says which frames may lie on the stack, in which order, and what
    must then hold of `forcing`, `tearing` and `forcedShutdown`: a frame that starts a shutdown is the last
    one, and there is none while the stream is being torn.
* there too, `ReplyTableIsExact` (that is `IqBookkeeping`) if no callback of an IQ calls the porter, and
  `ClosesAreClean` (`CloseMeansBothClosed`) with any reentrancy.
  - `IqInv` says of every IQ why its handler is there (`IqNeeded`): it has not left, its answer is awaited, its
    signal is connected, or a suspended function will let go of it.  The last is the hard part, since a
    frame holds what it will do *later*: `FailuresOnce` and `LeavesFirst` say that two frames never let go of
    the same thing, and in what order they do.
  - `EndInv`: once `CompleteClose` may report success, our end is on the wire and the peer's has been read,
    whichever of the two callbacks came last and whatever it suspended.
* there too, `NothingIsStartedOver` (`NothingOverlaps`) and `SendingKeepsPromise` (`SendsInOrder`, that the porter
  implements `OrderedSending`), both if no callback of a send, a ping or an IQ calls the porter (`Quietly`).
  - `ArmedInv`: a stanza whose cancel signal is connected waits in the queue and is not being written.
  - `SendInv`: the connection writes the head of the queue or something that is not a stanza, and a suspended
    function that will start the next operation finds the connection free, until a shutdown is forced.
  - The refinement takes `TransitInv` besides: a stanza that is still being written and is in the queue no
    longer has had its answer from a forced shutdown.  Every step then maps to a step of `OrderedSending` or to
    a stutter (`Aside`: the steps that touch no plain stanza).

Each of the three callouts `Quietly` excludes does break the properties (section 6): the theorems cover
what remains, the callbacks of closes and the signals of the stream's end.

The connector, for any features, redirections and number of calls:

* `ConnectorProofs`: `ConnectorTypeCorrect`, `CredentialsAreSafe`, `ServerIsAuthenticated`, *with every liberty granted*:
  none of the deviations of section 6 leaks a credential or lets a server in without its proof.
  - The policy is checked by the code against the flag `encrypted`, long before a credential is sent and on
    a stream that may be given up in between.  `IInv` says why this is enough: the flag is true of the
    stream (`FlagIsTrue`, `HasStream`); whatever leads to a credential is reached only once the flag
    satisfies `tls-required` (`Encrypted`) and, for a registration, once it is set or the application does
    without (`RegistersSecurely`); a handler that waits to be started and would give the password away was
    chosen under the present flag (`PlainIsAllowed`).  The only step that drops encryption, a redirection,
    drops the connection and the flag together and goes back to the start.
  - A client that believes itself authenticated by SCRAM-SHA-1 or DIGEST-MD5 has had the server's proof on
    this stream.  The flag is set when a success is handled, which is long after the proof may have come,
    in a challenge or with the success itself.  `AInv` adds to `IInv` that an authenticated client has a
    stream, a handler and, if the handler asks for one, the proof (`Authenticated`); that during the exchange
    a handler in its last state has been shown the proof on this stream (`ContentIsProved`), while one left
    over from an earlier stream need not have been; that a success is passed on only by a handler that
    accepts it (`SuccessIsContent`); and that Jabber authentication, which has no such proof, runs with a
    handler of its own (`JabberHandler`).
* there too, `NegotiationIsSound` (`NegotiationIsComplete`) and `AccountChangesOnDemand`
  (`AccountIsChangedOnDemand`), if the liberties are within `"partial fields"` (`Restrained`); each of the others
  breaks one of the two.  `NInv` adds to `IInv` what client and server agree on (`StreamAgrees`, `AuthAgrees`), how far
  the negotiation has got when a sub-operation is pending (`Stages`), that who is or is about to be
  authenticated has an account (`AccountExists`), that all calls which were not refused ask for the same, and
  that `reg_op` still says so (`OneOperation`): it is never reset, so it is this that a later call relies on.

The roster, of which contacts and edits are any number:

* `RosterProofs`: `RosterMirrorsServer` (`RosterIsCurrent`) and `NoEditIsLost` (`CallsAreTracked` and `OneIqPerContact`)
  without hypotheses, and `EditsStayTracked` (`EditsAreTracked`, which adds `LastEditShows`) if `"waiting"` is not in
  `Reentrant`, since it breaks this property (section 6).
  - `RInv` reads the channel to the client from its end: the last message about a contact tells what the server
    holds, and an earlier one counts only if there is none after it (`Fresh`); before the first fetch nothing is
    under way but the fetch (`Begins`).  `AllTracked` says that the lists of the pending operations are disjoint,
    that their entries are edits of their contact and that the replies have called back a prefix of each;
    `AloneInFlight`, that a contact has a single message of its IQs in either channel, and none while its reply
    is being completed, which is when the next IQ is sent.
  - `LInv` is why the last edit shows.  When an edit flies, it is in the request or at the server; while it
    waits, what the merged edits make of *any* item shows it (`Final`), so that it does not matter what pushes
    do to the copy meanwhile; and when nothing has to be sent for them, the copy is the server's, because
    undisturbed every push is followed by the answer to the IQ that caused it (`PushIsAnswered`).  That the
    server never has to refuse a removal (`RemovesSomething`) follows from the same.

The meta-porter and PubSub, without hypotheses:

* `MetaPorterProofs`: `HoldsAreNeverMiscounted` (`HoldsAreCounted`) and `StreamsHaveTheirHandlers`
  (`OneStreamWithItsHandlers`).  The count of a contact is compared with the calls and streams that hold it
  (`HoldsAreExact`), the count of a close with the porters that will report to it (`RemainingIsExact`).  The
  invariant needs that the porter in the records is open and that contact's (`Recorded`), that nobody waits
  for a porter that is not closing (`Closers`), that nothing is under way once the meta-porter is gone
  (`DisposedIsQuiet`), and, for the model's finite set of porters, that there is one for every call and
  connection that may still need it (`PortersSuffice`).
* `PubSubProofs`: `NoCallIsForgotten` (`CallsAreOnTheirWay`) and `TheServiceIsMirrored` (`ServiceIsMirrored`).  `PInv` says of
  the two channels that a call has at most one message in them, none before it asks, and that a reply fits
  its request; that the last message about a node tells the truth of it (`KnownIsCurrent`, `ShownIsFresh`), where
  what is under way is read in the order it will arrive; and that names and living objects correspond one
  to one, so that an object for a new name is always there to be made.  Of the table this holds only as
  long as there is the service: both theorems cover the steps in which the last node takes the service
  with it and the table is then anything `NodeDisposed` allows, and what they rest on afterwards is that
  nobody is left to ask (`UsingGone`: no living object, no name asked for) and that nobody gets a
  reference to a service that is gone (`GoneStaysGone`).

The room, whatever its occupants do and however often we join and leave, but with no liberty granted
(`Ordinary`; each of them breaks one of the two properties, section 6):

* `MucProofs`: `MucMirrorsRoom` (`RoomIsMirrored`) and `MucSignalsTellAll` (`SignalsTellAll`).  The first speaks of the
  moments when nothing is under way; `UInv` says what holds in between.
  - `Stage`: once we are in, the last news of an occupant in the channel, or without any what the object knows,
    is what the room holds of it (`Current`).  While we wait to be let in, the channel may hold the presence
    that does it (`Entry`): before it come only those of other occupants, after it what is said to us as
    the occupant it names.  Once we have left, or are to hear of it, nothing but answers follows (`Stays`), so that
    a member is never added after the end.
  - `Heard`: before what somebody says comes who it is, with the role it had.  Without this a message would be
    reported as from nobody.
  - `OneJoin`: a join is asked, refused or accepted, one at a time, and a refusal is the last we hear of it.
  - `TypeIsCurrent`: the last stanza that describes the room tells its type, whether it is an answer to a query or
    our own presence.

The reception of the porter, for any rules of handlers, any stanzas, IQs and addresses, any number of
arrivals, with stream management or without, and whatever the application does from its handlers:

* `PorterReceiveProofs`: `StanzasKeepTheirOrder` (`OrderIsKept`) and `RequestsAreAnsweredOnce` (`RequestsAreAnswered`)
  without hypotheses.
  - `OrderInv` splits the stanzas that were read into those that have reached the handlers, the one whose
    dispatch has just begun, those held back, and the one just read: `Order` says that these parts follow one
    another without a gap, `Shape` which frames may lie on the stack for it to be so (a flush runs before the
    dispatch of an important stanza, or when the application disables power saving, perhaps in a handler),
    `Flushed` that what is held back has a flush waiting for it, and `Numbered` that what is still under way continues the count.  `Stamped`
    and `AcksAreHandled` carry it over to the number told to the server.
  - `Unanswered` says that a reply is about a stanza whose dispatch is over, so that the dispatch which answers
    a request is the only one that does; `SentInv` adds that stanzas sent are counted and kept in order.
* there too, `EveryHandlerIsAskedInTurn` (`EveryHandlerIsAsked`) unless a handler unregisters itself and then declines
  (`"vanish"`, section 6).  `WalksInv` relates each walk on the stack, which may be several deep, to the list as
  it is now: the link it stands on is in the list, whatever was registered and unregistered in between, those
  asked were asked in the order of their priorities, and who matches and has been registered since the walk
  began has been asked or stands behind the link.  A link that is freed belongs to the walk whose handler is running.
* there too, `AnswersFindTheirRequests` (`AnswersAreRight`) if no sender has an address that cannot be decoded (`"bad"` is not
  in `From`): `wocky_normalise_jid` (`wocky-c2s-porter.c:868`) makes of it none at all, which is also what it makes of a
  missing address, that is of the server's.  `AddressInv` keeps the normalised address of every IQ.
* there too, `DeliveryStaysAccounted` (`DeliveryIsAccounted`) if the server acknowledges only when it is asked (`"unasked"`,
  section 6) and no handler of the application with the library's priority or a higher one matches an
  `<a/>` (`AnswersAreTheLibrarys`): it would be asked first and could take the answer from stream management.
  - `Account` counts: every kept stanza has its request on the way out, its answer on the way back or in a
    dispatch that has not come to the library's handler, and what the answers on the way will release has
    been read by the server; after the stream has ended it is with the application that fetches the rest.
  - `ListInv` is why such a dispatch does come there: the library's handler stays registered, and no handler
    is asked about an answer before it, so that the walk has no occasion to be changed under way.

The heartbeat, for any intervals whose microseconds fit into 32 bits and any resolution of the clock:

* there too, `PingsAreInTime` (`StreamIsKeptAlive`) if the interval is not shortened while it runs (`"shorten"`, section 6).
  `OnTime`: the time since the last ping and the time to the next one make up at most the interval, and the
  loop is at most a tick late.  That the product of two 32-bit numbers does not wrap is `MicroFits`, from the
  assumption that every interval fits.

The connection, for any stanzas, any sizes of what is written, any cuts of the two byte streams into writes and
reads, any resets and calls, without hypotheses:

* `XmppConnectionProofs`: `WritesAreAnswered` (`WrittenIsOnWire`), from `WireInv`: all that is on the wire is done, except
  the last item, of which as much is out as `offset` says (`LastIsCurrent`).
* there too, `StreamsAreDelivered` (`StreamIsDelivered`), from `InInv`.
  - `Core` relates the reader to the peer's whole stream, of which a prefix has been parsed and a prefix
    received: the queue holds what lies between the two.  Once the stream ended or was broken, there is a first
    marker behind all that came before, and nothing but markers after it (`Marked`), and `CountsInv` says what the entries count.
  - `CallsInv`: there is one receive at a time, whose answer may be waiting in an idle source, and what such an
    answer will tell stays true until it is told.  That a receive which ends without an error has a stanza
    (`answer # "empty"`) rests on this: nobody else takes from the queue meanwhile.
* there too, `ConnectionIsAPipe` (`ImplementsPipe`): from the hand-over to the porter on, the connection implements
  `Connection`, the pipe the porter's model is built on.  One lemma per operation maps its step to a step of the
  pipe or to a stutter (`PipeSubmit`, `PipeRecv`, `PipeWriteCb`, `PipeReceivedData`, `PipeIdle`, ...); the hand-over itself is
  mapped to nothing, as the pipe's initial state is what the connector leaves (`PipeHandOver`).  Besides the
  two invariants it takes `UsedInv`: what the connector leaves to the porter stays so.

`None` stands for NULL in the queue of the reader; `ReaderAssumption` says that it is not an entry.

Only model-checked: all liveness, and whatever speaks of ENABLED, which are out of the prover's reach; the TLS
modules, of which `GnuTls` and `OpenSsl` declare recursive operators, so that nothing that uses them can be
proved about; and the agreement of the two sides in `Jingle` and `JingleMedia` (`SidesAgree`, `DescriptionsAgree`,
`CandidatesAreShared`, `OffersAreTimely`).  The last say what two peers know of each other when nothing is under way.  An inductive invariant for them has to foresee what every IQ under way, and every answer to it, will
do to the other side, for each pair of actions that may cross; it was not attempted.

## 6. Known deviations

Where the code does not do what it, or its documentation, says.  The property or the constant named
with each remains in the modules: put the property in a cfg, or the name in `Liberties` or `Reentrant`, and
TLC shows it.

Porter, sending (`wocky-c2s-porter.c`):

* Sending from the callback of the last queued stanza starts the new stanza twice (`send_stanza_cb`,
  `:716-724`; a test sends from there, `tests/wocky-porter-test.c:3372`): `"send"` in `Reentrant` violates
  `NoBusyReply` and `SendFromCallbackWorks`.  A send from the callback of a ping or of an IQ that could not be
  sent does the same (`"ping"` and `"iq"` violate `NothingOverlaps`).
* An IQ callback that force closes the porter frees the handler that `handle_iq_reply` (`:951`) or
  `iq_sent_cb` (`:1931`) goes on using: `IqHandlerAlive` fails with `"iq"` in `Reentrant`.
* An IQ sent after the peer has closed its stream is never answered (`:1218` aborts those pending at that
  moment only): `IqsEndWithStream`.
* `close_sent_cb` sets an error on `close_result`, which a force close has taken (`:1448`, against its own test
  of NULL below it): `CloseErrorHasResult`.
* A stanza queued while the write of one that was given up is still under way is told of that one's success
  (`:708-716`): `OkMeansWritten`.
* Outside the model: `g_cancellable_connect` runs `send_cancelled_cb` at once when the cancellable is
  already cancelled (`:778`).

Porter, receiving, and what is around it:

* `"vanish"`: a handler that unregisters itself and declines leaves the walk over the list on a freed link
  (`wocky-c2s-porter.c:1003`): `EveryHandlerIsAsked`.
* `"unasked"`: a server that acknowledges without being asked makes the client forget a stanza too many
  (`wocky-sm.c:281`): `DeliveryIsAccounted`.
* `"shorten"`: an interval that is made shorter wraps around and the next wakeup is moved off by up to 2^32
  microseconds (`wocky-heartbeat-source.c:402`, against its own documentation at `:313`): `PingsInTime`.  An interval of more than 4294 seconds wraps likewise, even
  when it is set first; `KeepAliveAssumption` keeps to shorter ones.
* An address that cannot be decoded is normalised to none (`:868`), so that the reply to an IQ which was sent to the
  server is also taken from a sender with such an address: with `"bad"` in `From`, `AnswersAreRight` says so.
* Not shown by a property: `enable_power_saving_mode (TRUE)` called from a handler during the flush that ends
  power saving is overridden; stanzas held back are not flushed when the stream ends; the `<a/>` sent on
  closing reports the reader's count and may include stanzas that are held back.

Connection:

* When the peer's `</stream>` arrives in the same read as its last stanza the receiver is told `IS_CLOSED` and
  not `CLOSED` (`wocky-xmpp-connection.c:828`, `wocky-xmpp-reader.c:801`, against `wocky-xmpp-connection.h:47`), and the
  porter takes this for an error of the stream: `CloseIsReported`.
* After a write that failed in the middle of a stanza the connection accepts the next one (`:305`), whose bytes
  follow the torn ones, although the porter says "we won't be able to send any more stanza":
  `NothingAfterTorn`.
* `recv_open_finish` returns TRUE for a header that is not that of a stream: `OpenedIsOpen`.

Roster (`wocky-roster.c`):

* After a removal the server refused, the next edit that waited sends the removal again (`:220`):
  `RemovalsAreAsked`.
* An edit asked for from the callback of one that needed no IQ is answered without being sent
  (`:927`): `LastEditShows` fails with `"waiting"` in `Reentrant`.
* `add_contact` without groups, while another edit of the contact is pending, reads through the NULL it was
  given (`:144`); in the model such an edit has an empty set of groups.

Connector (`wocky-connector.c`):

* `"late redirect"`: a see-other-host after authentication ends the process at an assertion of the auth
  registry, which is not reset (`wocky-auth-registry.c:333`): `AssertionsHold`.
* `"reuse"`: a second connection with the same connector fails the assertion of `maybe_old_ssl` (`:1083`).
* `"switch operation"`: `reg_op` is never reset, so connecting after an unregister that failed cancels the
  account (`:2403`).  `"overlap"`: a register or unregister that is refused, because a connection is under
  way, has set `reg_op` already (`:2536`, `:2560`).  `AccountIsChangedOnDemand` fails with either.
* `"registered"`: a server that answers "registered" to an application that cancels its account makes the
  connector authenticate again (`:1725`): `AssertionsHold`.
* `"downgrade"`: a server that answers the stream restarted after authentication with a version below 1.0
  is authenticated with a second time: `RequestsInOrder`.
* `"partial fields"`: a result that lacks the fields asked for leaves the call without an answer for ever
  (`wocky-jabber-auth.c:583`): `CancelEnds`.
* `"sm refused"`: stream management is switched on whatever the server answers to `<enable/>` (`:1979`):
  `SuccessIsTrue`.
* A difference, not a failure: SCRAM refuses a challenge that does not carry the client's nonce on,
  DIGEST-MD5 takes the nonce it is given.
* Not modelled, since errors are not told apart: the error of a failed SRV lookup is kept and may be
  reported for a later host.

TLS:

* `"lost greeting"`: OpenSSL's handshake does not notice that a write of the base stream has failed:
  `FailuresAreTold`.
* `"cancel read"`: OpenSSL's write fails when a read that is under way is cancelled, since `ssl_flush` takes
  the cancellable of the read (`wocky-openssl.c:495`): `ErrorsAreReal`.
* `"many names"`: of several DNS names in a certificate OpenSSL's build looks at the last only (`:883`), and
  `"crl file"`: GnuTLS's loads a revocation list as a certificate if it is given as a file
  (`wocky-tls.c:617`): `VerdictsAreSound`.
* OpenSSL reports the first fault it meets, so when errors are to be ignored a revoked certificate is let
  in if its signer is questionable too.  `VerdictsAreSound` says so: it asks less there.

Link-local, not shown by a property: an open that is under way when everything is closed creates a
porter after the close; `loopback_sent_open_cb` holds no reference; `unhold` below zero is only logged.

MUC (`wocky-muc.c`), each a member of `Liberties` that breaks `RoomIsMirrored` or `RequestsEnd`:

* `"own nick"`: our own change of nick is taken for our leaving (`:1283`).
* `"taken nick"`: a room that lets us in under another nick than the one asked for, when somebody has that.
* `"disco first"`, `"join again"`: a query before the join, a join before the last one or a leave is answered.

PubSub:

* `wocky_pubsub_node_dispose` drops the node's reference to the service (`wocky-pubsub-node.c:133`) before it chains up
  (`:137`), which is what runs the weak notification `node_disposed_cb` (`wocky-pubsub-service.c:341`).  When the
  application has released the service and this was its last node, the service is finalized by then and the
  callback reads `priv->nodes` of freed memory, against "the node holds a reference to the service, so the service
  will always outlive the node" (`wocky-pubsub-service.c:414`): `ServiceOutlivesNodes`; as a
  PROPERTY in `pubsub.cfg` it is violated after three steps (take a node, release the service, release the
  node).  Chaining up first would mend it.  In the run and in the theorems the callback then finds the entry or does not; that the
  process may end there instead is no other behaviour, since a behaviour of `Spec` may stop anywhere.
* Within the model, too: the cancellable of `create`, `delete` and of the default configuration is ignored.
* Outside it: a second `WockyPepService` for the same node.

Jingle (each is a member of `Liberties`, and off in the runs):

* `"hold ringing call"`: a callee that holds the call while it rings is not held any more for its peer once
  it accepts, since `set_state` sends `<active/>` after `<hold/>` (`wocky-jingle-session.c:1963`): `InfoIsCurrent`.
* `"early remove"`: a removal that crosses the session-accept is refused, and carried out by one side only.
* `"late add"`: a content added between session-initiate and its acceptance, when it is too late for the
  session to offer it, stays unknown to the peer.
* `"remove twice"`, `"reuse name"`: the answer to a content-remove removes by name, whatever has that name
  by then (`wocky-jingle-content.c:1195`).
* `"modify"`: changes of direction that cross each other, or an acceptance, leave the sides with
  different senders (`wocky-jingle-content.c:1175`, which has a FIXME for it).
* Removing one of two contents that are both still empty, before the session is initiated, ends it
  (`content_removed_cb`).
* `"old client accepts first"`: candidates for an old Google client that accepts before it has sent one of its
  own are not sent (`wocky-jingle-session.c:1414`): `CandidatesArrive`.
* `"accept at once"`: the transport-accept of GTalk 4 leaves from an idle callback
  (`wocky-jingle-content.c:494`), too late for an application that accepts in the callback that announces
  the call: `NothingIsRefused`.
* `"drop codec"`: an application that leaves a codec out of an update keeps it for its peer: `DescriptionsAgree`.
* `"broken last"`: an invalid candidate is not noticed if it is the last of its stanza
  (`wocky-jingle-transport-google.c:382`): `AllOrNone`.
* Only the initiator's announcement keeps the responder from being told of extras it does not know.
* In `simplify` of `wocky-jingle-media-rtp.c` the feedback of one codec is compared with itself; nothing in the
  library calls it.

## 7. What is not modelled

* Everywhere: XML text, the wording of errors, logging, and the lifetimes of GObjects, except those of
  the porter's IQ handlers, its stanza handlers and the nodes of a PubSub service.
* Porter: the two halves in one model -- they share the connection, the end of the stream and the table
  of IQs, which either half has for itself; the "closing" and "sending" signals, to which in the library
  only the meta-porter and the ping component connect without calling back; a cancellable that is cancelled
  before it is passed; stanzas that arrive before the porter is started with stream management on.
* Connection: reads and writes of single bytes.  A connection that is handed over after its stream ended.
* Connector: which error is reported; hashes; properties changed while a connection is under way; handlers
  added to the registry by the application.
* TLS: the synchronous calls, which the library does not use; the setup of ciphers and parameters; weak
  algorithms; the strict level of checks.
* Heartbeat: the platform's service (`HAVE_IPHB`).
* Roster: the contents of JIDs; requests for subscription.  Resource contacts.
* MUC: affiliations, statuses and the real JIDs of members, which are carried along with the roles.
* PubSub: the contents of forms; which entry of a list is about which subscriber.
* Jingle: mute; notifications that call the application back in the middle of a handler; several sessions
  in one factory; the choice of a dialect by capabilities; channels for shared files; video, trr-int and the
  AVPF profile; the filtering of payload types for the oldest dialect.
* HTTP proxy: one request and one reply on a connection nobody else uses yet.  To the connector it is part
  of connecting to a host.
* Jingle relay information: addresses fetched once and kept (but see the plan).
* Capabilities and data forms: a cache whose work is done by SQLite's statements, a hash of sorted strings,
  parsing and building of forms.  Calls are synchronous and complete in themselves.
* Loopback stream: a pipe from a connection to itself; `MetaPorter` has the porter that is built on it.
* Writer, nodes and stanzas, utilities: functions of their arguments.

## 8. Plan

1. The two halves of the porter composed on one `ConnectionOps`: a handler that sends and closes while
   the queue is being written, IQs answered while they are cancelled.
2. `JingleInfo`: a STUN server whose name is resolved after the application has set another one replaces it.
3. Two contents and their media in one session: `JingleMedia` under `Jingle`.
4. Proofs: the agreement of the two sides of `Jingle` and `JingleMedia`; `TlsBackends`, once `GnuTls` and `OpenSsl` do
   without recursive operators.
