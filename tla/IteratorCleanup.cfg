SPECIFICATION CSpec
CONSTANTS
  N = 3
  Keys = {1, 2, 3}
  MaxErrors = 1
  Bad = Bad
  NoChild = NoChild
  CleanupNodes = {n1, n2}
  HeadNode = HeadNode
  NoNode = NoNode
INVARIANTS CleanupsRunOnce
PROPERTIES IsMergedCursor
SYMMETRY Symmetry
