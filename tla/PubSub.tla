------------------------------- MODULE PubSub -------------------------------
(***************************************************************************)
(* A publish-subscribe service as wocky-pubsub-service.c, -node.c,         *)
(* -helpers.c and wocky-pep-service.c see it: the node objects, which the  *)
(* service only has weak references to, the requests made of them, and     *)
(* the events that reach them.  The service is our own account, so that an *)
(* event of the PEP node is one its WockyPepService may claim.  The server *)
(* is external.                                                            *)
(*                                                                         *)
(* Operators named M_... are slips a maintainer could make in the          *)
(* definition that follows them; no property uses them.                    *)
(***************************************************************************)
EXTENDS Naturals, Sequences, FiniteSets, Functions

CONSTANTS None,
  Names, PepNode,   \* the server's nodes, and the one with a WockyPepService
  Objs,             \* the addresses node objects can have
  Calls,            \* asynchronous calls, made at most once and in this order
  Later,            \* what the calls after the first can be
  MaxEvents         \* events at the server

NodeOps == {"subscribe", "unsubscribe", "delete", "subscribers", "affiliates", "modify", "configuration"}
ServiceOps == {"create", "subscriptions", "default"}
Ops == NodeOps \cup ServiceOps \cup {"get"}
\* Cancelling the others has no effect: their IQ is sent without the cancellable.
Cancellable == Ops \ {"create", "delete", "default"}
States == {"none", "pending", "subscribed"}
Results == {"ok", "refused", "wrong reply", "cancelled", "not started"}

ASSUME PubSubAssumption ==
  /\ None \notin Names \cup Objs /\ PepNode \in Names
  /\ IsFiniteSet(Names) /\ IsFiniteSet(Objs) /\ Cardinality(Names) < Cardinality(Objs) /\ Calls \subseteq Nat
  /\ Later \subseteq Ops /\ MaxEvents \in Nat

VARIABLES
  held,              \* the application has a reference to the service
  table, nameOf,     \* the service's nodes by name, and the name of each object there is
  kept,              \* the objects that the application, or a list it was given, refers to
  call,              \* op, object and name of a call, how far it is and its result
  known, shown,      \* what the application knows of its subscriptions and of the nodes' items
  pep,               \* the WockyPepService: "new", "started" or "disposed"
  exists, sub, item, \* the server's nodes, our subscriptions, the last item sent to us
  toServer, toClient,
  events

client == <<held, table, nameOf, kept, call, known, shown, pep>>
server == <<exists, sub, item>>
vars == <<client, server, toServer, toClient, events>>

Idle == [op |-> None, obj |-> None, name |-> None, stage |-> "idle", result |-> None]

Pending(o) == \E c \in Calls : call[c].stage = "asked" /\ call[c].obj = o
\* A node object lives while the application has it or a call on it is not answered.
Alive(o) == o \in kept \/ Pending(o)
Living == {o \in Objs : Alive(o)}
\* A node has a reference to its service, as the calls on the service have.
ServiceAlive ==
  held \/ Living # {} \/ (\E c \in Calls : call[c].stage = "asked" /\ call[c].op \in ServiceOps)

TypeOK ==
  /\ held \in BOOLEAN /\ kept \subseteq Objs
  /\ table \in [Names -> Objs \cup {None}] /\ nameOf \in [Objs -> Names \cup {None}]
  /\ call \in [Calls -> [op : Ops \cup {None}, obj : Objs \cup {None}, name : Names \cup {None},
                         stage : {"idle", "asked", "done"}, result : Results \cup {None}]]
  /\ known \in [Names -> States \cup {"unknown"}] /\ shown \in [Names -> 0..MaxEvents]
  /\ pep \in {"new", "started", "disposed"}
  /\ exists \subseteq Names /\ sub \in [Names -> States] /\ item \in [Names -> 0..MaxEvents]
  /\ \A c \in Calls : call[c].stage = "asked" =>
       /\ call[c].op \in NodeOps <=> call[c].obj # None
       /\ call[c].op \in NodeOps => call[c].name = nameOf[call[c].obj]
       /\ call[c].result = None

Init ==
  /\ held = TRUE /\ table = [n \in Names |-> None] /\ nameOf = [o \in Objs |-> None] /\ kept = {}
  /\ call = [c \in Calls |-> Idle]
  /\ known = [n \in Names |-> "none"] /\ shown = [n \in Names |-> 0]
  /\ pep = "new"
  /\ exists = {PepNode} /\ sub = [n \in Names |-> "none"] /\ item = [n \in Names |-> 0]
  /\ toServer = <<>> /\ toClient = <<>> /\ events = 0

-----------------------------------------------------------------------------
(* The table of nodes *)

\* wocky_pubsub_service_ensure_node gives the object of a name, or makes it.
Made(names) ==
  CHOOSE f \in [{n \in names : table[n] = None} -> {o \in Objs : nameOf[o] = None}] : IsInjective(f)
EnsureNode(names) ==
  LET made == Made(names)
  IN [n \in Names |-> IF n \in names /\ table[n] = None THEN made[n] ELSE table[n]]

\* Objects nobody refers to any more are disposed of, and node_disposed_cb has the table forget them.
\* A node drops its reference to the service before that (wocky_pubsub_node_dispose), so if it was the
\* last one the callback looks into the freed table of a freed service: it finds the entry, or does not.
NodeDisposed(objects, living) ==
  LET rest == [n \in Names |-> IF objects[n] \in living THEN objects[n] ELSE None]
  IN IF ServiceAlive' THEN {rest} ELSE {rest, objects}

\* The names become objects, of which those still referred to remain.
Using(names) ==
  LET objects == EnsureNode(names)
      living == Living'
      name(o) == IF \E n \in names : objects[n] = o THEN CHOOSE n \in names : objects[n] = o ELSE nameOf[o]
  IN /\ table' \in NodeDisposed(objects, living)
     /\ nameOf' = [o \in Objs |-> IF o \in living THEN name(o) ELSE None]

TakeNode(n) ==
  /\ ServiceAlive /\ held
  /\ kept' = kept \cup {EnsureNode({n})[n]}
  /\ UNCHANGED <<held, call, known, shown, pep, server, toServer, toClient, events>>
  /\ Using({n})

ReleaseNode(o) ==
  /\ o \in kept /\ kept' = kept \ {o}
  /\ UNCHANGED <<held, call, known, shown, pep, server, toServer, toClient, events>>
  /\ Using({})

ReleaseService ==
  /\ held /\ held' = FALSE
  /\ UNCHANGED <<table, nameOf, kept, call, known, shown, pep, server, toServer, toClient, events>>

-----------------------------------------------------------------------------
(* Requests *)

M_SameId(c, op, n) == [call |-> CHOOSE d \in Calls : TRUE, op |-> op, name |-> n]
MakeStanza(c, op, n) == [call |-> c, op |-> op, name |-> n]

Turn(c, op) ==
  call[c].stage = "idle" /\ \A d \in Calls : d < c => call[d].stage # "idle" /\ op \in Later

Ask(c, op, o, n) ==
  /\ Turn(c, op)
  /\ call' = [call EXCEPT ![c] = [Idle EXCEPT !.op = op, !.obj = o, !.name = n, !.stage = "asked"]]
  /\ toServer' = Append(toServer, MakeStanza(c, op, n))
  /\ UNCHANGED <<held, table, nameOf, kept, known, shown, pep, server, toClient, events>>

OnNode(c, op, o) == o \in kept /\ Ask(c, op, o, nameOf[o])

SubscribeAsync(c, o) == OnNode(c, "subscribe", o)
UnsubscribeAsync(c, o) == OnNode(c, "unsubscribe", o)
DeleteAsync(c, o) == OnNode(c, "delete", o)
ListSubscribersAsync(c, o) == OnNode(c, "subscribers", o)
ListAffiliatesAsync(c, o) == OnNode(c, "affiliates", o)
ModifyAffiliatesAsync(c, o) == OnNode(c, "modify", o)
GetConfigurationAsync(c, o) == OnNode(c, "configuration", o)
\* Without a name the server chooses one.
CreateNodeAsync(c, n) == held /\ Ask(c, "create", None, n)
RetrieveSubscriptionsAsync(c) == held /\ Ask(c, "subscriptions", None, None)
GetDefaultNodeConfigurationAsync(c) == held /\ Ask(c, "default", None, None)

PepGetAsync(c) ==
  IF pep = "started" THEN Ask(c, "get", None, PepNode)
  ELSE /\ pep = "new" /\ Turn(c, "get")
       /\ call' = [call EXCEPT ![c].stage = "done", ![c].result = "not started"]
       /\ UNCHANGED <<held, table, nameOf, kept, known, shown, pep, server, toServer, toClient, events>>

\* Nothing is known any more of a subscription when a request for it was cancelled: it may still be
\* on its way.
CancelCall(c) ==
  /\ call[c].stage = "asked" /\ call[c].op \in Cancellable
  /\ call' = [call EXCEPT ![c] = [Idle EXCEPT !.stage = "done", !.result = "cancelled"]]
  /\ known' = IF call[c].op \in {"subscribe", "unsubscribe"}
              THEN [known EXCEPT ![call[c].name] = "unknown"] ELSE known
  /\ UNCHANGED <<held, kept, shown, pep, server, toServer, toClient, events>>
  /\ Using({})

-----------------------------------------------------------------------------
(* Replies *)

Distilled(r, bodyOptional) ==
  IF r.error THEN "refused" ELSE IF r.body = None /\ ~bodyOptional THEN "wrong reply" ELSE "ok"

Reply == Head(toClient)
Replied(ops) == toClient # <<>> /\ Reply.type = "reply" /\ call[Reply.call].stage = "asked"
                /\ call[Reply.call].op \in ops
Asked == call[Reply.call]

\* The call has its result, with references to the nodes of these names.
Complete(result, names) ==
  /\ toClient' = Tail(toClient)
  /\ call' = [call EXCEPT ![Reply.call] = [Idle EXCEPT !.stage = "done", !.result = result]]
  /\ kept' = kept \cup {EnsureNode(names)[n] : n \in names}
  /\ UNCHANGED <<held, shown, pep, server, toServer, events>>
  /\ Using(names)

Learn(n, state) == known' = [known EXCEPT ![n] = IF @ = "unknown" THEN @ ELSE state]

SubscribeCb ==
  /\ Replied({"subscribe"})
  /\ LET result == Distilled(Reply, FALSE)
     IN /\ Complete(result, IF result = "ok" THEN {Reply.body.name} ELSE {})
        /\ CASE result = "ok" -> Learn(Reply.body.name, Reply.body.state)
             [] result = "wrong reply" -> Learn(Asked.name, "unknown")
             [] OTHER -> UNCHANGED known

VoidIqCb ==
  /\ Replied({"unsubscribe", "delete", "modify"})
  /\ LET result == Distilled([Reply EXCEPT !.body = None], TRUE)
     IN /\ Complete(result, {})
        /\ IF result = "ok" /\ Asked.op # "modify" THEN Learn(Asked.name, "none") ELSE UNCHANGED known

\* The lists of a node's owner name the node itself.
ListCb(op) ==
  /\ Replied({op})
  /\ LET result == Distilled(Reply, FALSE)
     IN Complete(result, IF result = "ok" THEN Reply.body ELSE {})
  /\ UNCHANGED known
ListSubscribersCb == ListCb("subscribers")
ListAffiliatesCb == ListCb("affiliates")

FormCb(op) == Replied({op}) /\ Complete(Distilled(Reply, FALSE), {}) /\ UNCHANGED known
GetConfigurationIqCb == FormCb("configuration")
DefaultConfigurationIqCb == FormCb("default")
SendQueryCb == Replied({"get"}) /\ Complete(IF Reply.error THEN "refused" ELSE "ok", {}) /\ UNCHANGED known

ReceiveSubscriptionsCb ==
  /\ Replied({"subscriptions"})
  /\ LET result == Distilled(Reply, FALSE)
     IN /\ Complete(result, IF result = "ok" THEN {n \in Names : Reply.body[n] # "none"} ELSE {})
        /\ known' = IF result = "ok" THEN [n \in Names |-> IF known[n] = "unknown" THEN known[n] ELSE Reply.body[n]]
                   ELSE known

\* The server may omit the name it was asked for, or give another.
HandleCreateNodeReply(r, requested) ==
  IF Distilled(r, TRUE) # "ok" THEN [result |-> "refused", name |-> None]
  ELSE IF r.body = None /\ requested = None THEN [result |-> "wrong reply", name |-> None]
  ELSE [result |-> "ok", name |-> IF r.body # None THEN r.body ELSE requested]

CreateNodeIqCb ==
  /\ Replied({"create"})
  /\ LET made == HandleCreateNodeReply(Reply, Asked.name)
     IN Complete(made.result, {made.name} \ {None})
  /\ UNCHANGED known

\* The porter drops a reply nobody waits for.
LateReply ==
  /\ toClient # <<>> /\ Reply.type = "reply" /\ call[Reply.call].stage = "done"
  /\ toClient' = Tail(toClient)
  /\ UNCHANGED <<client, server, toServer, events>>

-----------------------------------------------------------------------------
(* Events *)

Event(type) == toClient # <<>> /\ Reply.type = type /\ toClient' = Tail(toClient)

M_NoDelete == {"items", "subscription"}
\* There is a handler for each action of an event, which finds, or makes, the node it is about.
EventMappings == {"items", "subscription", "delete"}

\* The node's signal is passed on by the service; the application may keep the node.
PropagateEvent(type) ==
  /\ Event(type)
  /\ \E keep \in BOOLEAN :
       kept' = IF type \in EventMappings /\ ServiceAlive /\ held /\ keep
               THEN kept \cup {EnsureNode({Reply.name})[Reply.name]} ELSE kept
  /\ UNCHANGED <<held, call, pep, server, toServer, events>>
  /\ Using(IF type \in EventMappings /\ ServiceAlive THEN {Reply.name} ELSE {})

Unclaimed == ~(pep = "started" /\ Reply.name = PepNode)

HandleItemsEvent ==
  /\ PropagateEvent("items") /\ Unclaimed
  /\ shown' = IF ServiceAlive THEN [shown EXCEPT ![Reply.name] = Reply.body] ELSE shown
  /\ UNCHANGED known

Hear(type, n, state) ==
  IF type \in EventMappings /\ ServiceAlive THEN Learn(n, state) ELSE UNCHANGED known

HandleSubscriptionEvent ==
  /\ PropagateEvent("subscription")
  /\ Hear("subscription", Reply.name, Reply.body)
  /\ UNCHANGED shown

EmitDeleted ==
  /\ PropagateEvent("delete")
  /\ Hear("delete", Reply.name, "none")
  /\ UNCHANGED shown

ItemChanged == shown' = [shown EXCEPT ![Reply.name] = Reply.body]
\* The handler of the WockyPepService comes first, and keeps the event to itself.
MsgEventCb ==
  /\ Event("items") /\ ~Unclaimed
  /\ ItemChanged
  /\ UNCHANGED <<held, table, nameOf, kept, call, known, pep, server, toServer, events>>

PepStart ==
  /\ pep = "new" /\ pep' = "started"
  /\ UNCHANGED <<held, table, nameOf, kept, call, known, shown, server, toServer, toClient, events>>

PepDispose ==
  /\ pep = "started" /\ pep' = "disposed"
  /\ UNCHANGED <<held, table, nameOf, kept, call, known, shown, server, toServer, toClient, events>>

-----------------------------------------------------------------------------
(* The server *)

Request == Head(toServer)
Served(op) == toServer # <<>> /\ Request.op = op /\ toServer' = Tail(toServer) /\ UNCHANGED <<client, events>>
Answer(body) == [type |-> "reply", call |-> Request.call, error |-> FALSE, body |-> body]
Refusal == [Answer(None) EXCEPT !.error = TRUE]
Tell(type, n, body) == [type |-> type, name |-> n, body |-> body]

\* It refuses what it pleases, and what is about a node it does not have.
ServeRefused ==
  /\ \E op \in Ops : Served(op)
  /\ toClient' = Append(toClient, Refusal)
  /\ UNCHANGED server

ServeSubscribe ==
  /\ Served("subscribe") /\ Request.name \in exists
  /\ \E s \in {"pending", "subscribed"} :
       /\ sub' = [sub EXCEPT ![Request.name] = s]
       /\ \E body \in {None, [name |-> Request.name, state |-> s]} : toClient' = Append(toClient, Answer(body))
  /\ UNCHANGED <<exists, item>>

ServeUnsubscribe ==
  /\ Served("unsubscribe") /\ Request.name \in exists
  /\ sub' = [sub EXCEPT ![Request.name] = "none"]
  /\ toClient' = Append(toClient, Answer(None))
  /\ UNCHANGED <<exists, item>>

\* Subscribers are told when a node goes.
Deleted(n) == IF sub[n] = "none" THEN <<>> ELSE <<Tell("delete", n, None)>>
ServeDelete ==
  /\ Served("delete") /\ Request.name \in exists
  /\ exists' = exists \ {Request.name} /\ sub' = [sub EXCEPT ![Request.name] = "none"]
  /\ toClient' = Append(toClient \o Deleted(Request.name), Answer(None))
  /\ UNCHANGED item

ServeOwner ==
  /\ \E op \in {"subscribers", "affiliates", "modify", "configuration", "get"} : Served(op)
  /\ Request.name \in exists
  /\ \E body \in {None, {Request.name}} : toClient' = Append(toClient, Answer(body))
  /\ UNCHANGED server

ServeCreate ==
  /\ Served("create")
  /\ \E n \in Names \ exists :
       /\ exists' = exists \cup {n}
       /\ \E body \in {n} \cup (IF n = Request.name THEN {None} ELSE {}) : toClient' = Append(toClient, Answer(body))
  /\ UNCHANGED <<sub, item>>

ServeSubscriptions ==
  /\ Served("subscriptions")
  /\ toClient' = Append(toClient, Answer(sub))
  /\ UNCHANGED server

ServeDefault ==
  /\ Served("default")
  /\ \E body \in {None, {}} : toClient' = Append(toClient, Answer(body))
  /\ UNCHANGED server

Happens == events < MaxEvents /\ events' = events + 1 /\ UNCHANGED <<client, toServer>>

Publish(n) ==
  /\ Happens /\ sub[n] = "subscribed"
  /\ item' = [item EXCEPT ![n] = events + 1]
  /\ toClient' = Append(toClient, Tell("items", n, events + 1))
  /\ UNCHANGED <<exists, sub>>

SubscriptionChanges(n, s) ==
  /\ Happens /\ sub[n] \notin {s, "none"} /\ s # "pending"
  /\ sub' = [sub EXCEPT ![n] = s]
  /\ toClient' = Append(toClient, Tell("subscription", n, s))
  /\ UNCHANGED <<exists, item>>

NodeDeleted(n) ==
  /\ Happens /\ n \in exists
  /\ exists' = exists \ {n} /\ sub' = [sub EXCEPT ![n] = "none"]
  /\ toClient' = toClient \o Deleted(n)
  /\ UNCHANGED item

-----------------------------------------------------------------------------

Handlers ==
  \/ SubscribeCb \/ VoidIqCb \/ ListSubscribersCb \/ ListAffiliatesCb
  \/ GetConfigurationIqCb \/ DefaultConfigurationIqCb \/ SendQueryCb
  \/ ReceiveSubscriptionsCb \/ CreateNodeIqCb \/ LateReply
  \/ HandleItemsEvent \/ HandleSubscriptionEvent \/ EmitDeleted \/ MsgEventCb

Serving ==
  \/ ServeRefused \/ ServeSubscribe \/ ServeUnsubscribe \/ ServeDelete \/ ServeOwner \/ ServeCreate
  \/ ServeSubscriptions \/ ServeDefault

Next ==
  \/ \E n \in Names : TakeNode(n) \/ Publish(n) \/ NodeDeleted(n)
  \/ \E o \in Objs : ReleaseNode(o)
  \/ ReleaseService \/ PepStart \/ PepDispose
  \/ \E c \in Calls, o \in Objs :
       \/ SubscribeAsync(c, o) \/ UnsubscribeAsync(c, o) \/ DeleteAsync(c, o)
       \/ ListSubscribersAsync(c, o) \/ ListAffiliatesAsync(c, o) \/ ModifyAffiliatesAsync(c, o)
       \/ GetConfigurationAsync(c, o)
  \/ \E c \in Calls, n \in Names \cup {None} : CreateNodeAsync(c, n)
  \/ \E c \in Calls : RetrieveSubscriptionsAsync(c) \/ GetDefaultNodeConfigurationAsync(c) \/ PepGetAsync(c) \/ CancelCall(c)
  \/ \E n \in Names, s \in States : SubscriptionChanges(n, s)
  \/ Handlers \/ Serving

Spec == Init /\ [][Next]_vars

-----------------------------------------------------------------------------

\* As long as there is the service, there is at most one object for a name, and the table, which does not
\* keep objects alive, has exactly the objects somebody refers to: whoever asks for a node by its name,
\* and whatever event arrives for it, gets the object that others have (node_disposed_cb, ensure_node).
NodesAreUnique ==
  ServiceAlive => \A o \in Objs, n \in Names : table[n] = o <=> Alive(o) /\ nameOf[o] = n

\* "The node holds a reference to the service, so the service will always outlive the node"
\* (pubsub_service_create_node, wocky-pubsub-service.c:414): when an object is disposed of, its service
\* is still there for node_disposed_cb.  The node drops that reference first: when the application has
\* released the service, the last node goes without it.
ServiceOutlivesNodes == [][\A o \in Objs : Alive(o) /\ ~Alive(o)' => ServiceAlive']_vars

\* Once everything under way has arrived an application that has kept the service knows its
\* subscriptions, but for those of a request it has cancelled or that was answered wrongly, and has been
\* shown the last item of each node, by the service or by the WockyPepService
\* (pubsub_service_propagate_event, msg_event_cb, subscribe_cb, receive_subscriptions_cb).
MirrorsServer ==
  held /\ toClient = <<>> /\ toServer = <<>> =>
    /\ \A n \in Names : known[n] \in {"unknown", sub[n]}
    /\ shown = item

\* The objects, the table and the subscriptions together show what the server has.
ServiceIsMirrored == TypeOK /\ NodesAreUnique /\ MirrorsServer

\* A call that is not answered yet is on its way, to the server or back, whatever happens to the node,
\* its object or the service meanwhile: so once everything has arrived no call is left waiting
\* (wocky_pubsub_distill_iq_reply and its callers).
CallsAreOnTheirWay ==
  \A c \in Calls : call[c].stage = "asked" =>
    \/ \E i \in DOMAIN toServer : toServer[i].call = c
    \/ \E i \in DOMAIN toClient : toClient[i].type = "reply" /\ toClient[i].call = c
=============================================================================
