SPECIFICATION Spec
CONSTANTS
  None = None
  Backends = {"gnutls", "openssl"}
  Liberties = {}
  MaxWrites = 2
  MaxReads = 2
  MaxData = 2
  MaxFaults = 2
\* a session that is over stands still
CHECK_DEADLOCK FALSE
INVARIANTS StreamIsTrue VerdictsAreSound
PROPERTIES CallsAreAnswered
