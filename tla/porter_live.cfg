SPECIFICATION FairSpec
CONSTANTS
  None = None
  m1 = m1
  q1 = q1
  c1 = c1
  f1 = f1
  Stanzas = {m1, q1}
  Iqs = {q1}
  Pings = {}
  CloseOps = {c1}
  ForceOps = {f1}
  Reentrant = {}
PROPERTIES CallsEnd
\* every call is made at most once, so the system comes to rest
CHECK_DEADLOCK FALSE
