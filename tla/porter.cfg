SPECIFICATION Spec
CONSTANTS
  None = None
  m1 = m1
  q1 = q1
  p1 = p1
  c1 = c1
  f1 = f1
  f2 = f2
  Stanzas = {m1, q1}
  Iqs = {q1}
  Pings = {p1}
  CloseOps = {c1}
  ForceOps = {f1, f2}
  Reentrant = {"handler", "remote", "close"}
INVARIANTS TypeOK IqBookkeeping NothingOverlaps ForceCloseHasResult
PROPERTIES SendsInOrder CloseMeansBothClosed AnsweredOnce
\* every call is made at most once, so the system comes to rest
CHECK_DEADLOCK FALSE
