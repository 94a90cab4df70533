SPECIFICATION Spec
CONSTANTS
  Pids = {p, q}
  MaxThreads = 3
  MaxMishaps = 1
  Fds = {0, 1}
  Uses <- MCUses
SYMMETRY Symmetry
INVARIANTS TypeOK AllStopped StoppedCounted CasesFresh MovedIfOk 
 
CHECK_DEADLOCK FALSE
