SPECIFICATION FairSpec
CONSTANTS
  Deliveries = {d1, d2}
  Originals = {o1}
  Origins <- SideBySide
  Bearer = {}
  Keyed = {d1, d2}
  MaxAttempts = 2
  Sweeps = {s1}
  MaxStops <- NoStops
  None = None
  d1 = d1  d2 = d2
  o1 = o1  o2 = o2
PROPERTY AcceptedMovesForward
\* every delivery may be finished and every original used
CHECK_DEADLOCK FALSE
