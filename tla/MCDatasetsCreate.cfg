SPECIFICATION Spec
CONSTANTS
  create = create
  row = row
  rowAgain = rowAgain
  settings = settings
  Replicas = {r1, r2}
  Requests = {create, row}
  Subject <- MCSubject
  Key <- MCKey
  NoDataset = NoDataset
SYMMETRY AnyReplica
INVARIANTS
  CreateKeepsEdits
CHECK_DEADLOCK FALSE
