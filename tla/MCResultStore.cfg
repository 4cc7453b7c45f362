SPECIFICATION Spec
CONSTANTS
  r = r
  o = o
  NoCursor = NoCursor
  Limit = 3
  Ids = {"long", "empty"}
  Content <- MCContent
  Clients = {r, o}
  Readers = {r}
  Backends = {"memory", "s3", "disabled"}
  Asked <- MCAsked
  TTL = 1
  Horizon = 1
INVARIANTS TypeOK PiecesJoin
PROPERTIES PiecesAdvance KeptUntilDeleted KeepsItsPromise
CHECK_DEADLOCK FALSE
