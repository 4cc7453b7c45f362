SPECIFICATION Spec
CONSTANTS
  Windows = {w1, w2}
  groq = groq
  elevenlabs = elevenlabs
  Providers = {groq, elevenlabs}
  Keys = {k1, k2}
  Intents <- OneIntent
  Faults = {"disk", "engine", "crash"}
  MayErase = FALSE
  Nobody = Nobody
  NoKey = NoKey
PROPERTIES CompleteIsTrue ClientMeetsEngine WorkingKeysSurvive
SYMMETRY KeyAndWindowSymmetry
CHECK_DEADLOCK FALSE
