SPECIFICATION FairSpec
CONSTANTS
  Providers = {"pa", "pb"}
  Clients = {}
  None = None
  Forms <- MCForms
  NeedsEndpoint = {"pa"}
  Engines = {"e1"}
  MaxVersion = 2
  MaxChanges = 1
PROPERTY ProbeSpeaksForTheEngine
CHECK_DEADLOCK FALSE
