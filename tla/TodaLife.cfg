SPECIFICATION Spec
CONSTANTS
  Procs = {p, q}
  MaxTries = 2
  NoMount = none
INVARIANTS TypeOK DataReachable SessionBacked CleanExit VolumeKept
PROPERTIES FrozenReleased SignalExits
