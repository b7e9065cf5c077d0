SPECIFICATION Spec
CONSTANTS
  Names <- MCNames
  NewName = "untitled"
  FirstKinds <- MCFirstKinds
  Kinds <- MCKinds
  Deltas <- MCDeltas
  MaxWork = 3
  MaxForeign = 1
INVARIANTS
  TypeOK
  LayoutValid
  RenameMoves
PROPERTIES
  MoveSettles
  NoLostUpdate
CHECK_DEADLOCK FALSE
