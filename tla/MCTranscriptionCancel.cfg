SPECIFICATION Spec
CONSTANTS
  c1 = c1
  c2 = c2
  Providers <- MCProviders
  Models <- MCModels
  Descriptor <- MCDescriptor
  Calls <- OneCall
  Requests <- PairRequests
  Deployments <- PairDeployments
  MaxAttempts = 3
INVARIANT NothingLeftBehind
CHECK_DEADLOCK FALSE
