SPECIFICATION Spec
CONSTANTS
  Handles = {e1, e2, e3, e4}
  Keys = {k1, k2, k3}
  Charges = {1, 2}
  Capacities = {0, 2}
  MaxPins = 2
  NoHandle = NoHandle
  NoKey = NoKey
SYMMETRY Symmetry
INVARIANTS
  RefsExact
  ListsExact
  UsageIsSum
  NoDanglingPointer
  DestroyFreesAll
PROPERTIES
  PinnedEntriesStay
  IsLRUShard
