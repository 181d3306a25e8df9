----------------------------- MODULE KeepAlive -----------------------------
(***************************************************************************)
(* WockyPing (wocky-ping.c) and its WockyHeartbeatSource                   *)
(* (wocky-heartbeat-source.c), without the platform's heartbeat service    *)
(* (HAVE_IPHB), on the stream of PorterReceive.  A client that does not    *)
(* use stream management keeps its stream alive with a whitespace ping     *)
(* every ping-interval seconds.                                            *)
(*                                                                         *)
(* Time passes in ticks, TicksPerSecond of them in a second                *)
(* (G_USEC_PER_SEC).  Intervals are guints: their difference and its       *)
(* product with G_USEC_PER_SEC are taken modulo Word (2^32).               *)
(***************************************************************************)
EXTENDS PorterReceive

CONSTANTS
  Intervals,       \* the values of ping-interval, in seconds; 0 turns it off
  TicksPerSecond,
  Word

VARIABLES
  interval,   \* max_interval
  left,       \* next_wakeup, relative to the time
  quiet       \* history: the time since the last ping or since it was enabled

pingVars == <<interval, left, quiet>>
vars == <<porterVars, pingVars>>

KeepAliveAssumption ==
  /\ 0 \in Intervals /\ Intervals \subseteq Nat
  /\ TicksPerSecond \in Nat \ {0} /\ Word \in Nat
  /\ \A i \in Intervals : i * TicksPerSecond < Word
ASSUME KeepAliveAssumption

Micro(seconds) == (seconds * TicksPerSecond) % Word

Init ==
  /\ ReceiveInit
  /\ interval \in (IF managed THEN {0} ELSE Intervals)
  /\ left = Micro(interval)
  /\ quiet = 0

Pinging == ~managed /\ ~closing /\ Contains(handlers, "ping")

\* The source is ready when the time is past next_wakeup; the main loop then
\* dispatches it before it sleeps again.  Callbacks take no time.
Due == interval > 0 /\ left < 0

Tick ==
  /\ AtLoop /\ Pinging /\ ~Due /\ interval > 0
  /\ left' = left - 1
  /\ quiet' = quiet + 1
  /\ UNCHANGED <<porterVars, interval>>

\* wocky_heartbeat_source_dispatch: send_ping, then the next wakeup.
NextWakeup == Micro(interval)
HeartbeatFires ==
  /\ AtLoop /\ Pinging /\ Due
  /\ left' = NextWakeup
  /\ quiet' = 0
  /\ UNCHANGED <<porterVars, interval>>

\* wocky_heartbeat_source_update_interval, from the property ping-interval.  A
\* shorter interval moves next_wakeup by a difference that has wrapped round.
M_AddWhole(new) == left + Micro(new)
Moved(new) == (IF interval = 0 THEN 0 ELSE left) + Micro(new - interval)
UpdateInterval(new) ==
  /\ AtLoop /\ Pinging /\ new # interval
  /\ new < interval /\ new # 0 => "shorten" \in Liberties
  /\ left' = IF new = 0 THEN 0 ELSE Moved(new)   \* not read while disabled
  /\ quiet' = IF interval = 0 THEN 0 ELSE quiet
  /\ interval' = new
  /\ UNCHANGED porterVars

\* wocky_ping_dispose
PingDisposed ==
  /\ AtLoop /\ Pinging
  /\ handlers' = Without("ping", handlers)
  /\ interval' = 0 /\ left' = 0 /\ quiet' = 0
  /\ UNCHANGED <<smVars, closing, serverVars, inbox, saving, held, counted>>
  /\ UNCHANGED <<remoteClosed, iqVars, begun, stack>>

Next ==
  \/ (ReceiveNext /\ UNCHANGED pingVars)
  \/ Tick \/ HeartbeatFires \/ PingDisposed
  \/ \E new \in Intervals : UpdateInterval(new)

Spec == Init /\ [][Next]_vars

-----------------------------------------------------------------------------
\* While pings are wanted one is sent at least every interval seconds, across
\* changes of the interval ("calls its callback at least every max_interval
\* seconds", wocky-heartbeat-source.c:313).
PingsInTime ==
  Pinging /\ interval > 0 => quiet <= interval * TicksPerSecond + 1
TypeOK == interval \in Intervals /\ left \in Int /\ quiet \in Nat

\* The heartbeat keeps the stream alive.
StreamIsKeptAlive == TypeOK /\ PingsInTime

=============================================================================
