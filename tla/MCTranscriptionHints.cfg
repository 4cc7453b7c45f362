SPECIFICATION Spec
CONSTANTS
  c1 = c1
  c2 = c2
  Providers <- MCProviders
  Models <- MCModels
  Descriptor <- MCDescriptor
  Calls <- OneCall
  Requests <- HintedRequests
  Deployments <- HintedDeployments
  MaxAttempts = 3
INVARIANT OnlySupportedIsAsked
CHECK_DEADLOCK FALSE
