SPECIFICATION LSpec
CONSTANTS
  Keys <- MCKeys
  kMaxHeight = 2
  Readers = {r1}
  Writer = w
  Null = Null
  Uninit = Uninit
  BlockSize = 32
  Align = 4
  Requests = {3, 8, 12}
  EntrySizes = {3}
  MaxBlocks = 6
  MaxRegions = 7
  NodeSize = 8
  LinkSize = 4
INVARIANTS
  LevelsSorted
  NoUninitializedRead
  LinksInsideNode
  RegionsDisjoint
PROPERTIES
  ReadsExact
  SearchesReturn
