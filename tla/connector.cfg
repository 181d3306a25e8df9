\* The feature sets: encryption only, each way of authenticating, and what follows it.
CONSTANTS
  None = None
  Offers = {{"starttls"}, {"starttls", "plain", "scram"}, {"plain"}, {"digest"}, {"scram"}, {"plain", "auth"},
            {"auth"}, {"auth", "session"}, {}, {"bind"}, {"bind", "session"}, {"bind", "sm"},
            {"bind", "sm", "session"}}
  MaxRedirects = 1
  MaxCalls = 2
  Liberties = {}
SPECIFICATION FairSpec
CHECK_DEADLOCK FALSE
INVARIANTS TypeOK CredentialsFollowPolicy NegotiationIsComplete
PROPERTIES AccountIsChangedOnDemand CancelEnds
