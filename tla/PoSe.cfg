SPECIFICATION Spec
CONSTANTS
  a = a
  b = b
  MNs = {a, b}
  nPoSeBanThreshold = 1
  nPoSeRevivalHeight = 2
  MAX_UNDO_HISTORY = 3
  MaxHeight = 4
  MaxIncrements = 2
  MaxReorgs = 4
  MaxRestarts = 1
  MaxFailures = 1
SYMMETRY Symmetric
INVARIANTS
  TypeOK
  RevivalSticks
  PenaltiesAccounted
PROPERTIES
  UndoRestores
  SameListAgain
