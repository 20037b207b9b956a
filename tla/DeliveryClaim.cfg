SPECIFICATION Spec
CONSTANTS
  Deliveries = {d1}
  Originals = {o1}
  Origins <- FileOrigins
  Bearer = {o1}
  Keyed = {d1}
  MaxAttempts = 2
  Sweeps = {s1}
  MaxStops <- NoStops
  None = None
  d1 = d1  d2 = d2
  o1 = o1  o2 = o2
INVARIANT SpentHasNoCopy
\* every delivery may be finished and every original used
CHECK_DEADLOCK FALSE
