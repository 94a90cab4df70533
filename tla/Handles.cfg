SPECIFICATION Spec
CONSTANTS
  Open = {k1, k2}
  Task = {t1, t2}
  Path = {p1, p2}
  Fd = {d1, d2, d3}
  Fh = {h1, h2, h3}
  MaxFailures = 1
  None = none
SYMMETRY Symmetry
INVARIANTS HandlesLive IoOnOwnFile FdsAccounted
CHECK_DEADLOCK FALSE
