SPECIFICATION Spec
CONSTANTS
  Kinds = {"json", "toml", "command", "manual"}
  Starts <- MCStarts
  Candidates <- MCCandidates
  Engines = {"e1", "e2"}
  MaxEdits = 3
INVARIANTS TypeOK RegisteredIsThere EntryHasAnOwner
PROPERTIES OthersSurvive  TakeoverIsAgreed
CHECK_DEADLOCK FALSE
