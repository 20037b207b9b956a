SPECIFICATION FairSpec
CONSTANTS
  Sockets = {w}
  Tokens = {p, q}
  Visits = {v1}
  Visit <- OneVisit
  Calls = {h1, h2, h3}
  Request <- Repeated
  HistoryLimit = 2
  MaxRestrictions = 1
  MaxTombs = 1
  Scenarios <- Cases
  None = None
  w = w  p = p  q = q  v1 = v1
  h1 = h1  h2 = h2  h3 = h3  r1 = r1  r2 = r2
INVARIANTS TypeOK KickedStaysOut ListenerMissesNothing
PROPERTIES MutedIsSilent RemovedIsTold SeatsAreReleased
\* the visitors may all have left
CHECK_DEADLOCK FALSE
