\* Descriptor limits for no, one and two files, one whose fifth wraps to a
\* negative int of -4 to 3, and the two special outcomes of getrlimit.
SPECIFICATION PosixSpec
CONSTANTS
  Clients = {c1, c2}
  Bg = bg
  Items = {i1, i2, i3}
  None = None
  Processes = {p1, p2}
  CallersOf <- TwoCallers
  Nobody = Nobody
  Files = {f1, f2, f3, f4}
  MaxMmaps = 1
  RLimits = {4, 9, 10, 20, Infinity, Failed}
  Infinity = Infinity
  Failed = Failed
  Fallback = 1
  IntMax = 3
INVARIANTS
  FirstInFirstOut
  NeverSleepsOnWork
  OneCallerPerProcess
  KernelLockNotStuck
  PermitsConserved
  DescriptorBudget
PROPERTIES
  EverythingRuns
