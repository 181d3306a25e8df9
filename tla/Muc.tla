-------------------------------- MODULE Muc --------------------------------
(***************************************************************************)
(* A multi-user chat room as wocky-muc.c sees it: the state of our own     *)
(* presence, the members it has heard of, and the signals an application   *)
(* builds its own list from.  The room is external: it serves requests in  *)
(* order and tells us, in order, what happens while we are an occupant.    *)
(*                                                                         *)
(* Operators named M_... are slips a maintainer could make in the          *)
(* definition that follows them; no property uses them.                    *)
(***************************************************************************)
EXTENDS Naturals, Sequences, SequencesExt, FiniteSets

CONSTANTS None,
  Nicks,        \* the names occupants go by
  Liberties,    \* what is done beyond what the code copes with: "disco first" asks for the room's
                \* features before joining, "join again" joins without waiting for the answer to a
                \* join or a leave, or after an end, "own nick" has the room rename us
                \* when we are in it, "taken nick" has it let us in under another nick than the one
                \* we asked for when somebody has that
  MaxCalls,     \* joins, leaves and queries of the application
  MaxEvents     \* things the other occupants, or the room, do

Roles == {"participant", "moderator"}
RoomTypes == {"nonanonymous", "semianonymous", "anonymous"}

ASSUME MucAssumption ==
  /\ None \notin Nicks \cup Roles \cup RoomTypes \cup {"own", "forced"}
  /\ Nicks # {} /\ IsFiniteSet(Nicks)
  /\ Liberties \subseteq {"disco first", "join again", "own nick", "taken nick"}
  /\ MaxCalls \in Nat /\ MaxEvents \in Nat

States == <<"created", "initiated", "joined", "ended">>
Before(s, t) == \E i, j \in 1..4 : i < j /\ States[i] = s /\ States[j] = t

VARIABLES
  state, nick, role, roomType,   \* priv->state, ->nick (and ->jid), ->role, ->room_type
  members,                       \* priv->members: the role of each member heard of
  handlers,                      \* the presence and message handlers are registered
  shown,                         \* the members an application knows of from the signals
  heard,                         \* the last message and who it was said to be from
  asked,                         \* what the application waits for: "join", "leave", "disco"
  occupants, mine, config,       \* the room: roles by nick, our nick, whether it shows real JIDs
  toRoom, toClient,
  calls, events

client == <<state, nick, role, roomType, members, handlers, shown, heard>>
room == <<occupants, mine, config>>
vars == <<client, asked, room, toRoom, toClient, calls, events>>

Presences ==
  [type : {"available", "unavailable", "error"}, nick : Nicks, role : Roles \cup {None},
   mark : {None, "own", "forced"}, config : RoomTypes \cup {None}]
Messages == [type : {"groupchat", "chat"}, nick : Nicks, role : Roles, delayed : BOOLEAN]
Replies == [type : {"disco"}, config : RoomTypes \cup {None}]

TypeOK ==
  /\ state \in Range(States) /\ nick \in Nicks /\ role \in Roles \cup {None}
  /\ roomType \in RoomTypes \cup {None}
  /\ members \in [Nicks -> Roles \cup {None}] /\ shown \in [Nicks -> Roles \cup {None}]
  /\ handlers \in BOOLEAN
  /\ heard = None \/ heard \in [nick : Nicks, role : Roles, as : Roles \cup {None}, delayed : BOOLEAN]
  /\ asked \subseteq {"join", "leave", "disco"} /\ ("join" \in asked => handlers)
  /\ occupants \in [Nicks -> Roles \cup {None}] /\ mine \in Nicks \cup {None} /\ config \in RoomTypes
  /\ mine # None => occupants[mine] # None
  /\ calls \in 0..MaxCalls /\ events \in 0..MaxEvents

Someone == CHOOSE n \in Nicks : TRUE
Nobody == [n \in Nicks |-> None]

Init ==
  /\ state = "created" /\ nick = Someone /\ role = None /\ roomType = None
  /\ members = Nobody /\ shown = Nobody /\ handlers = FALSE /\ heard = None
  /\ asked = {}
  /\ occupants = [Nobody EXCEPT ![Someone] = "moderator"]
  /\ mine = None /\ config = "semianonymous"
  /\ toRoom = <<>> /\ toClient = <<>>
  /\ calls = 0 /\ events = 0

-----------------------------------------------------------------------------
(* The application *)

Ask(what, request) ==
  /\ calls < MaxCalls /\ calls' = calls + 1
  /\ asked' = asked \cup {what}
  /\ toRoom' = Append(toRoom, request)
  /\ UNCHANGED <<room, toClient, events>>

\* The handlers are registered by the first join, which the state alone tells.
Registered == handlers \/ Before(state, "initiated")

Join(n) ==
  /\ "join again" \in Liberties \/ (Before(state, "joined") /\ asked \cap {"join", "leave"} = {})
  /\ nick' = n
  /\ handlers' = Registered
  /\ state' = "initiated"
  /\ Ask("join", [ask |-> "join", nick |-> n])
  /\ UNCHANGED <<role, roomType, members, shown, heard>>

\* The application leaves by sending the presence that wocky_muc_create_presence makes for it.
Leave ==
  /\ state = "joined" /\ "leave" \notin asked
  /\ Ask("leave", [ask |-> "leave", nick |-> nick])
  /\ UNCHANGED client

DiscoInfoAsync ==
  /\ "disco" \notin asked
  /\ "disco first" \in Liberties \/ state # "created"
  /\ Ask("disco", [ask |-> "disco", nick |-> nick])
  /\ UNCHANGED client

-----------------------------------------------------------------------------
(* The handlers *)

Next1 == Head(toClient)
Arrived(what) ==
  /\ toClient # <<>> /\ Next1.type = what
  /\ toClient' = Tail(toClient)
  /\ UNCHANGED <<room, toRoom, calls, events>>

M_TrustTheCode(s) == s.mark # None
\* Our own presence is known by its status code, or by the name it is from.
OwnPresence(s) == s.mark # None \/ s.nick = nick

\* No flag says that a room is anonymous.
Flags(c) == IF c = "anonymous" THEN None ELSE c
\* The room's configuration, from the status codes of our own presence.
PresenceFeatures(s) == IF s.config # None THEN Flags(s.config) ELSE roomType

\* The members heard of so far, for an application that asks (wocky_muc_members).
MucMembers == members
\* The first of our own presences means that we have joined: the call is answered and the signal
\* emitted, at which an application takes the members there are.
JoinedSignal ==
  IF Before(state, "joined")
  THEN state' = "joined" /\ shown' = MucMembers /\ asked' = asked \ {"join"}
  ELSE UNCHANGED <<state, shown, asked>>

HandleSelfPresence ==
  /\ Arrived("available") /\ handlers /\ OwnPresence(Next1)
  /\ nick' = Next1.nick /\ role' = Next1.role
  /\ roomType' = PresenceFeatures(Next1)
  /\ JoinedSignal
  /\ UNCHANGED <<members, handlers, heard>>

M_SignalLater == IF Before("joined", state) THEN [shown EXCEPT ![Next1.nick] = Next1.role] ELSE shown
\* Others are only announced once we have joined.
PresenceSignal == IF ~Before(state, "joined") THEN [shown EXCEPT ![Next1.nick] = Next1.role] ELSE shown

HandleUserPresence ==
  /\ Arrived("available") /\ handlers /\ ~OwnPresence(Next1)
  /\ members' = [members EXCEPT ![Next1.nick] = Next1.role]
  /\ shown' = PresenceSignal
  /\ UNCHANGED <<state, nick, role, roomType, handlers, heard, asked>>

M_KeepMember == UNCHANGED members
RemoveMember == members' = [members EXCEPT ![Next1.nick] = None]

HandleUnavailable ==
  /\ Arrived("unavailable") /\ handlers
  /\ IF OwnPresence(Next1)
     THEN /\ state' = "ended" /\ role' = None
          /\ asked' = asked \ {"leave"}
          /\ UNCHANGED <<members, shown>>
     ELSE /\ RemoveMember
          /\ shown' = IF members[Next1.nick] # None THEN [shown EXCEPT ![Next1.nick] = None] ELSE shown
          /\ UNCHANGED <<state, role, asked>>
  /\ UNCHANGED <<nick, roomType, handlers, heard>>

HandlePresenceError ==
  /\ Arrived("error") /\ handlers
  /\ asked' = asked \ {"join"}
  /\ UNCHANGED client

\* The role of whoever sent a message: a member's, our own, or nothing is known.
MessageSender(from) ==
  IF members[from] # None THEN members[from] ELSE IF from = nick THEN role ELSE None

\* What an occupant says privately is left to other handlers.
HandleMessage ==
  /\ toClient # <<>> /\ Next1.type \in {"groupchat", "chat"}
  /\ Arrived(Next1.type) /\ handlers
  /\ heard' = IF Next1.type = "groupchat"
              THEN [nick |-> Next1.nick, role |-> Next1.role, as |-> MessageSender(Next1.nick),
                    delayed |-> Next1.delayed]
              ELSE heard
  /\ UNCHANGED <<state, nick, role, roomType, members, handlers, shown, asked>>

MucDiscoInfo ==
  /\ Arrived("disco")
  /\ roomType' = Flags(Next1.config)
  /\ state' = IF Next1.config # None /\ state = "created" THEN "initiated" ELSE state
  /\ asked' = asked \ {"disco"}
  /\ UNCHANGED <<nick, role, members, handlers, shown, heard>>

-----------------------------------------------------------------------------
(* The room *)

Presence(type, n, r, mark) == [type |-> type, nick |-> n, role |-> r, mark |-> mark, config |-> None]
Present(n, mark) == Presence("available", n, occupants[n], mark)
Others == {n \in Nicks \ {mine} : occupants[n] # None}
Free == {n \in Nicks : occupants[n] = None}

\* What nobody has registered a handler for is dropped.
Send(stanzas) == toClient' = IF handlers THEN toClient \o stanzas ELSE toClient
\* The room tells us only while we are in it.
Tell(stanzas) == IF mine # None THEN Send(stanzas) ELSE UNCHANGED toClient

Served(what) ==
  /\ toRoom # <<>> /\ Head(toRoom).ask = what
  /\ toRoom' = Tail(toRoom)
  /\ UNCHANGED <<client, asked, calls, events, config>>

\* We get the presence of everybody, our own last, under the nick we asked for or one forced on us,
\* and perhaps a line of what was said before; or an error.
ServeJoin(n) ==
  /\ Served("join")
  /\ LET wanted == Head(toRoom).nick
         mark == IF n = wanted THEN {None, "own"} ELSE {"forced"}
         everybody == [i \in 1..Cardinality(Others) |-> Present(SetToSeq(Others)[i], None)]
     IN IF n = None
        THEN /\ Send(<<Presence("error", wanted, None, None)>>)
             /\ UNCHANGED <<occupants, mine>>
        ELSE IF mine # None
        THEN /\ n = mine
             /\ Send(Append(everybody, Present(mine, "own")))
             /\ UNCHANGED <<occupants, mine>>
        ELSE /\ n \in Free /\ (wanted \in Free \/ "taken nick" \in Liberties)
             /\ mine' = n
             /\ occupants' = [occupants EXCEPT ![n] = "participant"]
             /\ \E m \in mark, old \in {<<>>} \cup
                     {<<[type |-> "groupchat", nick |-> o, role |-> "participant", delayed |-> TRUE]>> :
                        o \in Nicks} :
                  Send(everybody \o <<Presence("available", n, "participant", m)>> \o old)

ServeLeave ==
  /\ Served("leave")
  /\ IF mine = None THEN UNCHANGED <<occupants, mine, toClient>>
     ELSE /\ occupants' = [occupants EXCEPT ![mine] = None] /\ mine' = None
          /\ Tell(<<Presence("unavailable", mine, None, "own")>>)

\* A query for the room's features is answered by its description or an error.
ServeDisco ==
  /\ Served("disco")
  /\ \E answer \in {config, None} : toClient' = Append(toClient, [type |-> "disco", config |-> answer])
  /\ UNCHANGED <<occupants, mine>>

Event == events < MaxEvents /\ events' = events + 1 /\ UNCHANGED <<client, asked, toRoom, calls>>

OccupantJoins(n) ==
  /\ Event /\ n \in Free
  /\ occupants' = [occupants EXCEPT ![n] = "participant"]
  /\ Tell(<<Presence("available", n, "participant", None)>>)
  /\ UNCHANGED <<mine, config>>

OccupantLeaves(n) ==
  /\ Event /\ n \in Others
  /\ occupants' = [occupants EXCEPT ![n] = None]
  /\ Tell(<<Presence("unavailable", n, None, None)>>)
  /\ UNCHANGED <<mine, config>>

OccupantRenames(n, m) ==
  /\ Event /\ occupants[n] # None /\ m \in Free
  /\ n = mine => "own nick" \in Liberties
  /\ LET mark == IF n = mine THEN "own" ELSE None
     IN Tell(<<Presence("unavailable", n, None, mark), Presence("available", m, occupants[n], mark)>>)
  /\ occupants' = [occupants EXCEPT ![n] = None, ![m] = occupants[n]]
  /\ mine' = IF n = mine THEN m ELSE mine
  /\ UNCHANGED config

RoleChanges(n, r) ==
  /\ Event /\ occupants[n] \notin {r, None}
  /\ occupants' = [occupants EXCEPT ![n] = r]
  /\ Tell(<<Presence("available", n, r, IF n = mine THEN "own" ELSE None)>>)
  /\ UNCHANGED <<mine, config>>

Kick ==
  /\ Event /\ mine # None
  /\ occupants' = [occupants EXCEPT ![mine] = None] /\ mine' = None
  /\ Tell(<<Presence("unavailable", mine, None, "own")>>)
  /\ UNCHANGED config

\* The room is reconfigured, which our own presence tells us.
Reconfigure(c) ==
  /\ Event /\ mine # None /\ c # config
  /\ config' = c
  /\ Tell(<<[Present(mine, "own") EXCEPT !.config = c]>>)
  /\ UNCHANGED <<occupants, mine>>

\* An occupant, perhaps we, speaks to the room, or to us alone.
Speaks(n, to) ==
  /\ Event /\ mine # None /\ occupants[n] # None
  /\ Tell(<<[type |-> to, nick |-> n, role |-> occupants[n], delayed |-> FALSE]>>)
  /\ UNCHANGED room

-----------------------------------------------------------------------------

Next ==
  \/ \E n \in Nicks : Join(n)
  \/ Leave \/ DiscoInfoAsync
  \/ HandleSelfPresence \/ HandleUserPresence \/ HandleUnavailable \/ HandlePresenceError
  \/ HandleMessage \/ MucDiscoInfo
  \/ \E n \in Nicks \cup {None} : ServeJoin(n)
  \/ ServeLeave \/ ServeDisco \/ Kick
  \/ \E n \in Nicks, r \in Roles : RoleChanges(n, r)
  \/ \E n, m \in Nicks : OccupantRenames(n, m)
  \/ \E n \in Nicks : OccupantJoins(n) \/ OccupantLeaves(n)
  \/ \E c \in RoomTypes : Reconfigure(c)
  \/ \E n \in Nicks, to \in {"groupchat", "chat"} : Speaks(n, to)

Spec == Init /\ [][Next]_vars

\* The porter delivers what arrives, and the room serves what it is asked.
FairSpec ==
  /\ Spec
  /\ WF_vars(\/ HandleSelfPresence \/ HandleUserPresence \/ HandleUnavailable \/ HandlePresenceError
             \/ HandleMessage \/ MucDiscoInfo)
  /\ WF_vars((\E n \in Nicks \cup {None} : ServeJoin(n)) \/ ServeLeave \/ ServeDisco)

-----------------------------------------------------------------------------

Drained == toClient = <<>> /\ toRoom = <<>>

\* Once everything under way has arrived we are joined exactly when we are an occupant, under the nick
\* and with the role the room has, and the members are the other occupants, whoever came, left, was
\* renamed or changed before, during and after the join (handle_presence_standard).
MirrorsRoom ==
  Drained =>
    /\ state = "joined" <=> mine # None
    /\ state = "joined" =>
         /\ nick = mine /\ role = occupants[mine]
         /\ members = [occupants EXCEPT ![mine] = None]
         /\ roomType # None => "disco" \in asked \/ roomType = Flags(config)

\* The object is the room, one message later.
RoomIsMirrored == TypeOK /\ MirrorsRoom

\* While we are joined an application that takes the members when told so, and then follows the
\* signals, has the members; and what is said is reported as from the member who said it, with the
\* role it had (handle_user_presence, get_message_sender).
SignalsTellAll ==
  /\ state = "joined" => shown = members
  /\ heard # None /\ ~heard.delayed => heard.as = heard.role

\* A join is answered, by our presence or an error, and so are a leave and a query
\* (handle_self_presence, handle_presence_error, muc_disco_info).
RequestsEnd == \A what \in {"join", "leave", "disco"} : what \in asked ~> what \notin asked
=============================================================================
