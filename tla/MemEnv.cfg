SPECIFICATION MemSpec
CONSTANTS
  Names = {a, b}
  States = {f1, f2, f3}
  Objects = {o1, o2, o3}
  MaxSize = 1
  Word = 8
  NoState = NoState
INVARIANTS RefsCountReferrers FreedWhenUnreachable
SYMMETRY Symmetry
