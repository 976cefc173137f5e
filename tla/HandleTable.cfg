SPECIFICATION Spec
CONSTANTS
  Keys <- MCKeys
  Hash <- MCHash
  Versions = {1, 2}
  Null = Null
PROPERTY ImplementsMap
