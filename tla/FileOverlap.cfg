SPECIFICATION Spec
CONSTANTS
  Exports = {x, y}
  Claims = {c1, c2, c3}
  Key <- KeyOf
  Spends = {s}
  Challenges = {h1, h2}
  Original = Original
  Overlap = TRUE
  MaxFaults = 2
  None = None
  x = x  y = y  c1 = c1  c2 = c2  c3 = c3  ka = ka  kb = kb  s = s  h1 = h1  h2 = h2
SYMMETRY Alike
INVARIANT NeverBothLive
\* every request may have ended, and every challenge may be used
CHECK_DEADLOCK FALSE
