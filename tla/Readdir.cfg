SPECIFICATION Spec
CONSTANTS
  Entries = {e1, e2, e3, e4, e5}
  Unknown = {e5}
  MaxReply = 2
  MaxChanges = 3
INVARIANTS TypeOK MissedBounded RepeatedBounded
PROPERTY ListingEnds
CHECK_DEADLOCK FALSE
