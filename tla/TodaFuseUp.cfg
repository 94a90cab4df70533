SPECIFICATION Spec
CONSTANTS
  Procs = {p, q}
  MaxTries = 2
  NoMount = none
INVARIANT FuseUpAtRun
