SPECIFICATION Spec
CONSTANTS
  t1 = t1
  t2 = t2
  t3 = t3
  Task = {t1, t2, t3}
  MaxReads = 2
  Kinds <- MCKinds
INVARIANTS TypeOK LockOrder NotAllWaiting
PROPERTY Answered
