--------------------------- MODULE OrderedSending ---------------------------
(***************************************************************************)
(* What a porter promises of the stanzas handed to it, whatever it does    *)
(* inside: each leaves after those accepted before it, if it leaves; its   *)
(* caller hears of success when and only when it has left, and of an error *)
(* at most once instead.  "todo" is what may still leave: a caller can be  *)
(* told of an error before the stanza in transit has left.                 *)
(*                                                                         *)
(* The promise is given up once the connection is being shut down.         *)
(***************************************************************************)
EXTENDS Sequences, Naturals

CONSTANTS
  Stanzas,
  Reported    \* those whose sending is itself reported to the application

VARIABLES todo, wire, told, shut
vars == <<todo, wire, told, shut>>

Init ==
  /\ todo = <<>>
  /\ wire = <<>>
  /\ told = [s \in Reported |-> "nothing"]
  /\ shut = FALSE

(* A first telling stays. *)
Tell(s, r) == told' = [x \in Reported |-> IF x = s /\ told[x] = "nothing" THEN r
                                                                        ELSE told[x]]

Drop(n) == todo' = SubSeq(todo, 1, n - 1) \o SubSeq(todo, n + 1, Len(todo))

Accept(s) ==
  /\ \A n \in DOMAIN todo : todo[n] # s
  /\ \A n \in DOMAIN wire : wire[n] # s
  /\ todo' = Append(todo, s)
  /\ UNCHANGED <<wire, told>>

Transmit ==
  /\ todo # <<>>
  /\ wire' = Append(wire, Head(todo))
  /\ todo' = Tail(todo)
  /\ Tell(Head(todo), "ok")

(* The caller is told of an error and the stanza, unless it is in transit, *)
(* is dropped; an earlier step may have told the caller already.           *)
GiveUp(s) ==
  /\ s \in Reported => told[s] # "ok"
  /\ Tell(s, "error")
  /\ UNCHANGED todo \/ \E n \in DOMAIN todo : todo[n] = s /\ Drop(n)
  /\ UNCHANGED wire

Next ==
  \/ \E s \in Stanzas : Accept(s) \/ GiveUp(s)
  \/ Transmit

Shut == shut' = TRUE /\ UNCHANGED <<todo, wire, told>>

(* Nothing is asked of the steps taken after the shutdown began. *)
Spec == Init /\ [][shut \/ Shut \/ (Next /\ UNCHANGED shut)]_vars

=============================================================================
