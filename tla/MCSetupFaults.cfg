SPECIFICATION FairSpec
CONSTANTS
  Windows = {w1}
  groq = groq
  elevenlabs = elevenlabs
  Providers = {groq, elevenlabs}
  Keys = {k1, k2}
  Intents <- FormIntents
  Faults = {"keyring", "engine", "client", "timer"}
  MayErase = TRUE
  Nobody = Nobody
  NoKey = NoKey
INVARIANTS TypeOK CreatedIsOnRecord CommittedKeysExist
CHECK_DEADLOCK FALSE
PROPERTY TransactionsEnd
