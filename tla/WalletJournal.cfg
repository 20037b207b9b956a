SPECIFICATION FairSpec
CONSTANTS
  Pages = {p1, p2}
  Requests = {k1, k2, k3, k4}
  Kind <- Mixed
  Items = {a}
  Scenarios <- Troubles
  None = None
  k1 = k1  k2 = k2  k3 = k3  k4 = k4  a = a
INVARIANTS TypeOK CommittedIsKept SpentIsHeldBack OneResultPerRequest
PROPERTIES EntriesSettle
\* every request may be used
CHECK_DEADLOCK FALSE
