----------------------------- MODULE MetaPorter -----------------------------
(***************************************************************************)
(* The link-local porter of wocky-meta-porter.c: one XMPP stream per       *)
(* contact, opened when something is to be sent (wocky-ll-connection-      *)
(* factory.c, wocky-ll-connector.c) or when the contact connects, kept     *)
(* while it is held, closed five seconds after the last hold is released.  *)
(* The contacts are the objects of wocky-contact-factory.c.  The stream    *)
(* porters underneath are external here (C2SPorter models them): each      *)
(* answers what it is given and ends once it is closed.                    *)
(*                                                                         *)
(* Operators named M_... are slips a maintainer could make in the          *)
(* definition that follows them; no property uses them.                    *)
(***************************************************************************)
EXTENDS Naturals, Sequences, FiniteSets

CONSTANTS None, Anyone,
  Contacts, Self,     \* the contacts, one of them the local user
  Unreachable,        \* the contacts that advertise no address
  MaxAddresses,       \* addresses every other contact advertises
  MaxCalls,           \* sends, IQs, opens and closes the application asks for
  Handlers,           \* stanza handlers the application registers
  Arrivals,           \* connections other hosts make
  MaxHolds,           \* holds the application has on one contact
  MaxActs             \* things the application, or another host, starts in all

ASSUME MetaPorterAssumption ==
  /\ Self \in Contacts /\ Unreachable \subseteq Contacts
  /\ None \notin Contacts \cup Nat /\ Anyone \notin Contacts \cup {None}
  /\ MaxAddresses \in Nat \ {0} /\ MaxHolds \in Nat /\ MaxActs \in Nat
  /\ MaxCalls \in Nat /\ IsFiniteSet(Arrivals)

VARIABLES
  known,        \* the contacts the contact factory has an object for
  table,        \* priv->porters: the PorterData of each contact
  children,     \* the stream porters there are
  calls,        \* what the application has asked for
  registered,   \* priv->handlers: whose stanzas each handler is for
  incoming,     \* connections being negotiated, and those that were
  loopback,     \* how far the porter to oneself is
  owned,        \* holds the application has to release
  disposed,
  acts

vars == <<known, table, children, calls, registered, incoming, loopback, owned, disposed, acts>>

\* Bound: every call, registration, hold, cancellation and arrival is one act.
Act == acts < MaxActs /\ acts' = acts + 1

Calls == 1..MaxCalls
Porters == 1..(MaxCalls + Cardinality(Arrivals) + 1)
Held == {"iq", "open"}       \* the calls that hold the porter while they last

\* PorterData: the porter, if a stream is open, the hold count and whether the timeout runs.
PorterData == [porter : Nat \cup {None}, holds : Nat, timer : BOOLEAN]

\* A stream porter: "dropped" once the contact has closed its side and the reference to it is given
\* up; closer is who waits for the end of its close, handlers the handlers registered with it.
Children ==
  [contact : Contacts, state : {"open", "closing", "dropped"},
   closer : Calls \cup {None}, handlers : SUBSET Handlers]

\* A call: connecting to the addresses left, opening the stream, handed to the porter via, or
\* waiting for the remaining porters to close.
CallStates ==
  [kind : Held \cup {"send", "close", None}, contact : Contacts \cup {None},
   at : {"connecting", "opening", "features", "porter", "closing", "done"},
   left : 0..MaxAddresses, cancelled : BOOLEAN, via : Nat \cup {None}, remaining : Nat]

\* A call that has been answered; what the answer was is left out.
Done ==
  [kind |-> None, contact |-> None, at |-> "done", left |-> 0, cancelled |-> FALSE, via |-> None,
   remaining |-> 0]

ASSUME NoneAssumption == None \notin PorterData \cup Children \cup Held \cup {"send", "close"}

TypeOK ==
  /\ known \subseteq Contacts
  /\ table \in [Contacts -> PorterData \cup {None}]
  /\ children \in [Porters -> Children \cup {None}]
  /\ calls \in Seq(CallStates) /\ Len(calls) <= MaxCalls
  /\ registered \in [Handlers -> Contacts \cup {Anyone, None}]
  /\ incoming \in [Arrivals -> {"new", "opening", "features", "done"} \X (Contacts \cup {None})]
  /\ loopback \in {"no jid", "opening", "done", "failed"}
  /\ owned \in [Contacts -> Nat]
  /\ disposed \in BOOLEAN /\ acts \in 0..MaxActs

\* With no JID the loopback porter waits for wocky_meta_porter_set_jid.
Init ==
  /\ known \in {{}, Contacts}
  /\ table = [c \in Contacts |-> None]
  /\ children = [p \in Porters |-> None]
  /\ calls = <<>>
  /\ registered = [h \in Handlers |-> None]
  /\ incoming = [i \in Arrivals |-> <<"new", None>>]
  /\ loopback \in {"no jid", "opening"}
  /\ owned = [c \in Contacts |-> 0]
  /\ disposed = FALSE /\ acts = 0

-----------------------------------------------------------------------------
(* Holds and the table of porters *)

\* The contact factory after it was asked for c: the object it has, or a new one.
EnsureContact(c) == known \cup {c}

HasPorter(c) == table[c] # None /\ table[c].porter # None

M_LetTheTimeoutRun(t, c) ==
  [t EXCEPT ![c] = IF t[c] = None THEN [porter |-> None, holds |-> 1, timer |-> FALSE]
                   ELSE [t[c] EXCEPT !.holds = @ + 1]]

\* Table t after one more hold of c: the PorterData is made, or its timeout stops.
HoldIn(t, c) ==
  [t EXCEPT ![c] = IF t[c] = None THEN [porter |-> None, holds |-> 1, timer |-> FALSE]
                   ELSE [t[c] EXCEPT !.holds = @ + 1, !.timer = FALSE]]

\* Table t after a hold of c is released; the last one starts the timeout.
UnholdIn(t, c) ==
  IF t[c] = None THEN t
  ELSE [t EXCEPT ![c].holds = @ - 1, ![c].timer = @ \/ t[c].holds = 1]

Alive == {p \in Porters : children[p] # None}
FreePorter == CHOOSE p \in Porters : p \notin Alive

\* The handlers that want the stanzas of c.
Wanting(c) == {h \in Handlers : registered[h] \in {c, Anyone}}

NewChild(c) == [contact |-> c, state |-> "open", closer |-> None, handlers |-> Wanting(c)]

M_SecondPorter(c) ==
  LET p == FreePorter
  IN [porter |-> p, children |-> [children EXCEPT ![p] = NewChild(c)],
      table |-> [table EXCEPT ![c] =
        IF table[c] = None THEN [porter |-> p, holds |-> 0, timer |-> TRUE]
        ELSE [table[c] EXCEPT !.porter = p, !.timer = @ \/ table[c].holds = 0]]]

\* A stream to c is ready.  If another one got there first the new one is closed and the first used.
CreatePorter(c) ==
  LET p == FreePorter
  IN IF HasPorter(c)
     THEN [porter |-> table[c].porter, children |-> children, table |-> table]
     ELSE [porter |-> p, children |-> [children EXCEPT ![p] = NewChild(c)],
           table |-> [table EXCEPT ![c] =
             IF table[c] = None THEN [porter |-> p, holds |-> 0, timer |-> TRUE]
             ELSE [table[c] EXCEPT !.porter = p, !.timer = @ \/ table[c].holds = 0]]]

\* The porters in ps leave the records; the PorterData and its timeout stay.
Forgotten(t, ps) ==
  [c \in Contacts |-> IF t[c] # None /\ t[c].porter \in ps THEN [t[c] EXCEPT !.porter = None] ELSE t[c]]

\* Children cs with those in ps closing on behalf of k.
Closing(cs, ps, k) ==
  [p \in Porters |-> IF p \in ps THEN [cs[p] EXCEPT !.state = "closing", !.closer = k] ELSE cs[p]]

Hold(c) ==
  /\ ~disposed /\ c \in known
  /\ owned[c] < MaxHolds
  /\ table' = HoldIn(table, c)
  /\ owned' = [owned EXCEPT ![c] = @ + 1]
  /\ Act
  /\ UNCHANGED <<known, children, calls, registered, incoming, loopback, disposed>>

\* The application releases holds it has, also those a successful open has left it.
Unhold(c) ==
  /\ ~disposed /\ owned[c] > 0
  /\ table' = UnholdIn(table, c)
  /\ owned' = [owned EXCEPT ![c] = @ - 1]
  /\ UNCHANGED <<known, children, calls, registered, incoming, loopback, disposed, acts>>

\* Five seconds have passed: the PorterData leaves the table and its porter is closed.
PorterTimeout(c) ==
  /\ ~disposed /\ table[c] # None /\ table[c].timer
  /\ table' = [table EXCEPT ![c] = None]
  /\ children' = Closing(children, {table[c].porter}, None)
  /\ UNCHANGED <<known, calls, registered, incoming, loopback, owned, disposed, acts>>

-----------------------------------------------------------------------------
(* Sending: open a stream first if there is none *)

Use(kind, c) ==
  /\ ~disposed /\ c \in known
  /\ Len(calls) < MaxCalls
  /\ kind = "open" => owned[c] < MaxHolds
  /\ LET held == IF kind \in Held THEN HoldIn(table, c) ELSE table
         new == [Done EXCEPT !.kind = kind, !.contact = c]
     IN IF HasPorter(c)
        THEN \* the callback of open_porter_if_necessary runs at once
             /\ table' = held
             /\ calls' = Append(calls,
                  IF kind = "open" THEN Done
                  ELSE [new EXCEPT !.at = "porter", !.via = table[c].porter])
             /\ owned' = IF kind = "open" THEN [owned EXCEPT ![c] = @ + 1] ELSE owned
        ELSE IF c \in Unreachable
        THEN /\ table' = IF kind \in Held THEN UnholdIn(held, c) ELSE table
             /\ calls' = Append(calls, Done)
             /\ UNCHANGED owned
        ELSE /\ table' = held
             /\ calls' = Append(calls, [new EXCEPT !.at = "connecting", !.left = MaxAddresses - 1])
             /\ UNCHANGED owned
  /\ Act
  /\ UNCHANGED <<known, children, registered, incoming, loopback, disposed>>

SendAsync(c) == Use("send", c)
SendIqAsync(c) == Use("iq", c)
OpenAsync(c) == Use("open", c)

At(k, states) == k \in DOMAIN calls /\ calls[k].at \in states

\* Cancelling while a host is dialled stops the search; later on it only makes the stream fail.
CancelCall(k) ==
  /\ At(k, {"connecting"}) /\ ~calls[k].cancelled
  /\ calls' = [calls EXCEPT ![k].cancelled = TRUE]
  /\ Act
  /\ UNCHANGED <<known, table, children, registered, incoming, loopback, owned, disposed>>

\* No stream could be opened: the call is answered and gives back its hold.
NoPorter(k) ==
  /\ calls' = [calls EXCEPT ![k] = Done]
  /\ table' = IF calls[k].kind \in Held THEN UnholdIn(table, calls[k].contact) ELSE table

HostConnected(k) ==
  /\ At(k, {"connecting"})
  /\ calls' = [calls EXCEPT ![k].at = "opening", ![k].cancelled = FALSE, ![k].left = 0]
  /\ UNCHANGED <<known, table, children, registered, incoming, loopback, owned, disposed, acts>>

\* The next address is tried, if one is left and nobody has cancelled.
HostFailed(k) ==
  /\ At(k, {"connecting"})
  /\ IF calls[k].cancelled \/ calls[k].left = 0 THEN NoPorter(k)
     ELSE /\ calls' = [calls EXCEPT ![k].left = @ - 1]
          /\ UNCHANGED table
  /\ UNCHANGED <<known, children, registered, incoming, loopback, owned, disposed, acts>>

\* The connector of an outgoing stream sends its open, receives the contact's and sends features.
OpensExchanged(k) ==
  /\ At(k, {"opening"})
  /\ calls' = [calls EXCEPT ![k].at = "features"]
  /\ UNCHANGED <<known, table, children, registered, incoming, loopback, owned, disposed, acts>>

ConnectorFails(k) ==
  /\ At(k, {"opening", "features"})
  /\ NoPorter(k)
  /\ UNCHANGED <<known, children, registered, incoming, loopback, owned, disposed, acts>>

\* The features are sent: the stream is the contact's porter, unless it has one by now.
MadeConnection(k) ==
  /\ At(k, {"features"})
  /\ LET c == calls[k].contact
         made == CreatePorter(c)
     IN /\ table' = made.table /\ children' = made.children
        /\ IF calls[k].kind = "open"
           THEN /\ calls' = [calls EXCEPT ![k] = Done]
                /\ owned' = [owned EXCEPT ![c] = @ + 1]
           ELSE /\ calls' = [calls EXCEPT ![k].at = "porter", ![k].via = made.porter]
                /\ UNCHANGED owned
  /\ UNCHANGED <<known, registered, incoming, loopback, disposed, acts>>

\* The porter has sent the stanza, has the reply to the IQ, or has failed.
PorterAnswers(k) ==
  /\ At(k, {"porter"})
  /\ calls' = [calls EXCEPT ![k] = Done]
  /\ table' = IF calls[k].kind = "iq" THEN UnholdIn(table, calls[k].contact) ELSE table
  /\ UNCHANGED <<known, children, registered, incoming, loopback, owned, disposed, acts>>

-----------------------------------------------------------------------------
(* Streams other hosts open, and the one to oneself *)

\* A host connects; c is whose address it has, if anybody's.
NewConnection(i, c) ==
  /\ ~disposed /\ incoming[i][1] = "new"
  /\ incoming' = [incoming EXCEPT ![i] = <<"opening", c>>]
  /\ Act
  /\ UNCHANGED <<known, table, children, calls, registered, loopback, owned, disposed>>

\* Its stream opening may say whom it is from, which counts for more than the address; from a host
\* nobody knows it is the only clue.
IncomingOpened(i, from) ==
  /\ incoming[i][1] = "opening"
  /\ incoming' = [incoming EXCEPT ![i] = <<"features", IF from # None THEN from ELSE @[2]>>]
  /\ known' = IF from # None THEN EnsureContact(from) ELSE known
  /\ UNCHANGED <<table, children, calls, registered, loopback, owned, disposed, acts>>

IncomingFails(i) ==
  /\ incoming[i][1] \in {"opening", "features"}
  /\ incoming' = [incoming EXCEPT ![i] = <<"done", None>>]
  /\ UNCHANGED <<known, table, children, calls, registered, loopback, owned, disposed, acts>>

IncomingConnected(i) ==
  /\ incoming[i][1] = "features"
  /\ incoming' = [incoming EXCEPT ![i] = <<"done", None>>]
  /\ LET c == incoming[i][2]
     IN IF c \in known
        THEN children' = CreatePorter(c).children /\ table' = CreatePorter(c).table
        ELSE UNCHANGED <<table, children>>   \* nobody's: the connection closes
  /\ UNCHANGED <<known, calls, registered, loopback, owned, disposed, acts>>

SetJid ==
  /\ ~disposed /\ loopback = "no jid"
  /\ loopback' = "opening"
  /\ Act
  /\ UNCHANGED <<known, table, children, calls, registered, incoming, owned, disposed>>

\* The stream to oneself opens; its porter is held for good.
LoopbackOpened(ok) ==
  /\ loopback = "opening"
  /\ IF ~ok
     THEN loopback' = "failed" /\ UNCHANGED <<known, table, children>>
     ELSE /\ loopback' = "done"
          /\ known' = EnsureContact(Self)
          /\ children' = CreatePorter(Self).children
          /\ table' = HoldIn(CreatePorter(Self).table, Self)
  /\ UNCHANGED <<calls, registered, incoming, owned, disposed, acts>>

-----------------------------------------------------------------------------
(* The end of a stream *)

\* The contact has closed its side: the porter is dropped, without a close of ours.
PorterRemoteClosed(p) ==
  /\ p \in Alive /\ children[p].state = "open"
  /\ children' = [children EXCEPT ![p].state = "dropped"]
  /\ table' = Forgotten(table, {p})
  /\ UNCHANGED <<known, calls, registered, incoming, loopback, owned, disposed, acts>>

PorterRemoteError(p) ==
  /\ p \in Alive /\ children[p].state = "open"
  /\ children' = Closing(children, {p}, None)
  /\ table' = Forgotten(table, {p})
  /\ UNCHANGED <<known, calls, registered, incoming, loopback, owned, disposed, acts>>

M_CountTwice(k) ==
  IF calls[k].remaining = 1 THEN [calls[k] EXCEPT !.remaining = 0] ELSE [calls[k] EXCEPT !.remaining = @ - 1]

\* One of the porters a close waits for has closed; the last one answers it.
PorterCloseCb(k) ==
  IF calls[k].remaining = 1 THEN Done ELSE [calls[k] EXCEPT !.remaining = @ - 1]

\* A porter that has answered its calls ends and takes its registrations along.
PorterGone(p) ==
  /\ p \in Alive /\ children[p].state \in {"closing", "dropped"}
  /\ \A k \in DOMAIN calls : calls[k].via # p
  /\ children' = [children EXCEPT ![p] = None]
  /\ calls' = IF children[p].closer \in Calls
              THEN [calls EXCEPT ![children[p].closer] = PorterCloseCb(children[p].closer)]
              ELSE calls
  /\ UNCHANGED <<known, table, registered, incoming, loopback, owned, disposed, acts>>

\* Every porter there is is closed; connections still being made are not.
CloseAllPorters ==
  /\ ~disposed /\ Len(calls) < MaxCalls
  /\ LET open == {table[c].porter : c \in {c \in Contacts : HasPorter(c)}}
     IN /\ children' = Closing(children, open, Len(calls) + 1)
        /\ table' = Forgotten(table, open)
        /\ calls' = Append(calls,
             IF open = {} THEN Done
             ELSE [Done EXCEPT !.kind = "close", !.at = "closing", !.remaining = Cardinality(open)])
  /\ Act
  /\ UNCHANGED <<known, registered, incoming, loopback, owned, disposed>>

CloseAsync == CloseAllPorters
ForceCloseAsync == CloseAllPorters

\* The last reference is given up.  Calls and connections under way hold one; the loopback stream
\* does not, and is taken to be open, or not asked for, by then.
Dispose ==
  /\ ~disposed
  /\ \A k \in DOMAIN calls : calls[k].at = "done"
  /\ \A i \in Arrivals : incoming[i][1] \in {"new", "done"}
  /\ loopback # "opening"
  /\ disposed' = TRUE
  /\ children' = [p \in Porters |->
       IF p \in Alive
       THEN [children[p] EXCEPT !.state = IF @ = "open" THEN "closing" ELSE @, !.handlers = {}]
       ELSE None]
  /\ table' = [c \in Contacts |-> None]
  /\ registered' = [h \in Handlers |-> None]
  /\ owned' = [c \in Contacts |-> 0]
  /\ UNCHANGED <<known, calls, incoming, loopback, acts>>

-----------------------------------------------------------------------------
(* Handlers *)

\* Handler h is registered with the porters there are; later ones get it when they are made.
RegisterPorterHandler(h, from) ==
  LET ps == {table[c].porter : c \in {c \in Contacts : HasPorter(c) /\ from \in {c, Anyone}}}
  IN [p \in Porters |->
        IF p \in ps THEN [children[p] EXCEPT !.handlers = @ \cup {h}] ELSE children[p]]

RegisterHandler(h, from) ==
  /\ ~disposed /\ registered[h] = None
  /\ from \in known \cup {Anyone}
  /\ registered' = [registered EXCEPT ![h] = from]
  /\ children' = RegisterPorterHandler(h, from)
  /\ Act
  /\ UNCHANGED <<known, table, calls, incoming, loopback, owned, disposed>>

UnregisterHandler(h) ==
  /\ ~disposed /\ registered[h] # None
  /\ registered' = [registered EXCEPT ![h] = None]
  /\ children' = [p \in Porters |->
       IF p \in Alive THEN [children[p] EXCEPT !.handlers = @ \ {h}] ELSE None]
  /\ Act
  /\ UNCHANGED <<known, table, calls, incoming, loopback, owned, disposed>>

\* A stanza reaches a handler: its sender, or else the contact of the stream, becomes a contact.
PorterHandlerCb(p, from) ==
  /\ p \in Alive /\ children[p].handlers # {}
  /\ known' = EnsureContact(IF from = None THEN children[p].contact ELSE from)
  /\ Act
  /\ UNCHANGED <<table, children, calls, registered, incoming, loopback, owned, disposed>>

\* The contact factory learns of a contact, and forgets one nothing refers to any more.
AddContact(c) ==
  /\ ~disposed /\ c \notin known
  /\ known' = known \cup {c}
  /\ Act
  /\ UNCHANGED <<table, children, calls, registered, incoming, loopback, owned, disposed>>

ContactDisposed(c) ==
  /\ c \in known /\ table[c] = None /\ c \notin {registered[h] : h \in Handlers}
  /\ \A k \in DOMAIN calls : calls[k].contact # c
  /\ known' = known \ {c}
  /\ Act
  /\ UNCHANGED <<table, children, calls, registered, incoming, loopback, owned, disposed>>

-----------------------------------------------------------------------------

Next ==
  \/ \E c \in Contacts : Hold(c) \/ Unhold(c) \/ PorterTimeout(c) \/ AddContact(c) \/ ContactDisposed(c)
  \/ \E c \in Contacts : SendAsync(c) \/ SendIqAsync(c) \/ OpenAsync(c)
  \/ \E k \in Calls : \/ CancelCall(k) \/ HostConnected(k) \/ HostFailed(k) \/ OpensExchanged(k)
                      \/ ConnectorFails(k) \/ MadeConnection(k) \/ PorterAnswers(k)
  \/ CloseAsync \/ ForceCloseAsync \/ SetJid \/ Dispose
  \/ \E i \in Arrivals, c \in Contacts \cup {None} : NewConnection(i, c) \/ IncomingOpened(i, c)
  \/ \E i \in Arrivals : IncomingFails(i) \/ IncomingConnected(i)
  \/ \E ok \in BOOLEAN : LoopbackOpened(ok)
  \/ \E p \in Porters : PorterRemoteClosed(p) \/ PorterRemoteError(p) \/ PorterGone(p)
  \/ \E h \in Handlers, from \in Contacts \cup {Anyone} : RegisterHandler(h, from)
  \/ \E h \in Handlers : UnregisterHandler(h)
  \/ \E p \in Porters, from \in Contacts \cup {None} : PorterHandlerCb(p, from)

Spec == Init /\ [][Next]_vars

\* The main loop runs timeouts and idle sources.  A host that is dialled answers or times out, and
\* the peer of a stream, once connected, opens it or goes away; a porter answers what it was given
\* and finishes closing (C2SPorter: CloseEnds, SendsEnd, ForceCloseEnds).
FairSpec ==
  /\ Spec
  /\ \A c \in Contacts : WF_vars(PorterTimeout(c))
  /\ \A k \in Calls :
       /\ WF_vars(HostConnected(k) \/ HostFailed(k))
       /\ WF_vars(OpensExchanged(k) \/ MadeConnection(k) \/ ConnectorFails(k))
       /\ WF_vars(PorterAnswers(k))
  /\ \A p \in Porters : WF_vars(PorterGone(p))

-----------------------------------------------------------------------------

\* The calls that hold the porter to c.
HoldingCalls(c) ==
  {k \in DOMAIN calls : calls[k].contact = c /\ calls[k].kind \in Held}

Holders(c) ==
  Cardinality(HoldingCalls(c)) + owned[c] + (IF c = Self /\ loopback = "done" THEN 1 ELSE 0)

\* The hold count of a contact is exactly the number of those who hold it, through every success,
\* failure and cancellation, the timeout runs exactly when nobody does, and a close counts the
\* porters it still waits for (refcount, maybe_start_timeout and ClosePorterData.remaining).
CountsAreExact ==
  /\ ~disposed =>
       \A c \in Contacts :
         IF table[c] = None THEN Holders(c) = 0
         ELSE table[c].holds = Holders(c) /\ (table[c].timer <=> Holders(c) = 0)
  /\ \A k \in DOMAIN calls :
       calls[k].remaining = Cardinality({p \in Alive : children[p].closer = k})

\* The records of the contacts are the sum of what was asked of the meta-porter.
HoldsAreCounted == TypeOK /\ CountsAreExact

\* A contact has at most one open stream in use, it is the one in the records, and it has exactly the
\* handlers registered for that contact or for everyone, however registrations and streams, also two
\* streams opened at once, interleave (create_porter, register_porter_handlers).
OneStreamWithItsHandlers ==
  \A p \in Alive :
    children[p].state = "open" =>
      LET c == children[p].contact
      IN /\ table[c] # None /\ table[c].porter = p
         /\ children[p].handlers = Wanting(c)

\* Every call is answered, whatever happens on the way: addresses that fail, streams that never
\* open, a stream another connection has beaten, a porter that is closed, times out or is lost
\* (process_one_address, made_connection_connect_cb, meta_porter_send_iq_cb, porter_close_cb).
CallsEnd == \A k \in Calls : k \in DOMAIN calls ~> At(k, {"done"})
=============================================================================
