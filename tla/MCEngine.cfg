SPECIFICATION FairSpec
CONSTANTS
  Providers = {"pa", "pb"}
  Clients = {}
  None = None
  Forms <- MCForms
  NeedsEndpoint = {"pa"}
  Engines = {"e1"}
  MaxVersion = 2
  MaxChanges = 3
INVARIANTS KeysAreAuthorized DoctorTellsTheTruth
PROPERTY ProbeLeavesNothing
CHECK_DEADLOCK FALSE
