SPECIFICATION Spec
CONSTANTS
  Names <- MCNames
  NewName = "untitled"
  FirstKinds <- MCFirstKinds
  Kinds <- MCKinds
  Deltas <- MCDeltas
  MaxWork = 3
  MaxForeign = 0
PROPERTIES
  MoveKeepsWidgets
CHECK_DEADLOCK FALSE
