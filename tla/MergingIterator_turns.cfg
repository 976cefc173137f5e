SPECIFICATION Spec
CONSTANTS
  N = 2
  Keys = {1, 2}
  MaxErrors = 0
  Bad = Bad
  NoChild = NoChild
PROPERTY MovesByOneEntry
