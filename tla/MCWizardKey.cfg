SPECIFICATION Spec
CONSTANTS
  Providers = {"groq", "microsoft"}
  Clients = {"claude"}
  None = "none"
  Machines <- MCMachines
  Setups <- MCSetups
  Slots = {1, 2}
INVARIANT ReviewedIntentHasItsKey
CHECK_DEADLOCK FALSE
