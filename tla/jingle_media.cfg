SPECIFICATION Spec
CONSTANTS
  None = None
  Codecs = {opus, pcmu}
  Strange = g729
  Setups <- MCSetups
  Liberties = {}
  MaxCandidates = 2
  MaxUpdates = 1
  MaxForeign = 1
SYMMETRY MCSymmetry
\* the two sides have told each other all they have to tell
CHECK_DEADLOCK FALSE
INVARIANTS DescriptionsAgree CandidatesAreShared OffersAreTimely
