SPECIFICATION CallsSpec
CONSTANTS
  c1 = c1
  c2 = c2
  Providers <- MCProviders
  Models <- MCModels
  Descriptor <- MCDescriptor
  Calls <- TwoCalls
  Requests <- AllRequests
  Deployments <- WideDeployments
  MaxAttempts = 3
CONSTRAINT OnlyOverlap
INVARIANTS AuthorizedRecipients TriedInOrder NoSilentDowngrade RouteDecides HonestHistory CopyLifetime
PROPERTIES ImplementsDisclosure EveryCallEnds
CHECK_DEADLOCK FALSE
