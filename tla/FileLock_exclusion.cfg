SPECIFICATION LockSpec
CONSTANTS
  Processes = {p1, p2}
  CallersOf <- TwoCallers
  Nobody = Nobody
INVARIANT ProcessesExclude
