SPECIFICATION Spec
CONSTANTS
  Master = master
  Workers = {w1, w2}
  Checks = {c1, c2, c3, c4}
  Bad = {c2}
  nBatchSize = 2
  MaxRounds = 2
INVARIANTS
  TypeOK
  TodoExact
  NoneLeft
PROPERTIES
  WorkStarts
  ImplementsVerification
CHECK_DEADLOCK FALSE
