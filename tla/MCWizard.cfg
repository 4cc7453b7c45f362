SPECIFICATION FairSpec
CONSTANTS
  Providers = {"groq", "microsoft"}
  Clients = {"claude"}
  None = "none"
  Machines <- MCMachines
  Setups <- MCSetups
  Slots = {1, 2}
INVARIANTS TypeOK SecretLeavesWithItsStep KeyGoesToItsProvider
PROPERTIES AppliesWhatWasShown BusyEnds
CHECK_DEADLOCK FALSE
