SPECIFICATION Spec
CONSTANTS
  None = None
  Handlers = {"all", "msg"}
  Rule <- TheRules
  AtStart <- TheOrder
  Stanzas <- TheStanzas
  Iqs = {"i1"}
  To = {"none", "PEER"}
  From = {"none", "peer", "peer/r"}
  MaxSent = 1
  MaxArriving = 2
  Liberties = {}
  Intervals = {0, 1, 2}
  TicksPerSecond = 1
  Word = 8
CHECK_DEADLOCK FALSE
INVARIANTS OrderIsKept EveryHandlerIsAsked DeliveryIsAccounted StreamIsKeptAlive
PROPERTIES AnswersAreRight
