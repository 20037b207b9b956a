SPECIFICATION FairSpec
CONSTANTS
  Deliveries = {d1, d2}
  Originals = {o1, o2}
  Origins <- AllOrigins
  Bearer = {o2}
  Keyed = {d1, d2}
  MaxAttempts = 2
  Sweeps = {s1, s2}
  MaxStops <- Stops
  None = None
  d1 = d1  d2 = d2
  o1 = o1  o2 = o2
INVARIANTS TypeOK NeverBothUsable NeverLost
PROPERTY EveryDeliverySettles
\* every delivery may be finished and every original used
CHECK_DEADLOCK FALSE
