----------------------------- MODULE Connection -----------------------------
(***************************************************************************)
(* A connection as a component of its own: its callers may call anything   *)
(* at any time, and the stream does what it wants.                         *)
(***************************************************************************)
EXTENDS ConnectionOps

Next ==
  \/ \E x \in Outputs : ConnSend(x)
  \/ ConnRecv
  \/ ConnForceClose
  \/ ConnWritten
  \/ ConnWriteFailed
  \/ \E ends \in BOOLEAN : ConnReceived(ends)
  \/ \E ok \in BOOLEAN : ConnTorn(ok)
  \/ \E c \in IdleCalls : ConnIdle(c)

Spec == ConnInit /\ [][Next]_connVars

=============================================================================
