SPECIFICATION Spec
CONSTANTS
  None = None
  Names = {"geoloc", "news"}
  PepNode = "geoloc"
  Objs = {"o1", "o2", "o3"}
  Calls = {1, 2}
  MaxEvents = 2
  Later = {"subscribe", "unsubscribe", "create"}
\* everybody falls silent
CHECK_DEADLOCK FALSE
INVARIANTS ServiceIsMirrored CallsAreOnTheirWay
