SPECIFICATION Spec
CONSTANTS
  t1 = t1
  t2 = t2
  Task = {t1, t2}
  Requests <- MCRequests
  Confs <- MCConfs
  Width = 3
  MaxUpdates = 1
INVARIANTS TypeOK OneList OffQuiet FaultFirst ActsAsAsked WeightsExact MistakeConfined
CHECK_DEADLOCK FALSE
