\* A stream of four tokens, or one of two and two operations of the porter, ...
SPECIFICATION Spec
CONSTANTS
  None = None
  Incoming = {i1, i2}
  Acks = {i2}
  Stanzas = {m1}
  Size = 2
  MaxSent = 4
  MaxCalls = 3
  MaxTraffic = 4
  MaxResets = 1
\* the peer and the client have nothing more to say
CHECK_DEADLOCK FALSE
INVARIANTS StreamIsDelivered WrittenIsOnWire
PROPERTIES ImplementsPipe
