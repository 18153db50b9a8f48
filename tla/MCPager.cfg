SPECIFICATION Spec
CONSTANTS
  Conns = {c1, c2}
  Size = 2
  MaxTx = 3
SYMMETRY Symmetry
CONSTRAINT Promised
INVARIANTS TypeOK LocksExclude WriteAhead RecoveredBeforeRead
PROPERTY ImplementsDatabase
CHECK_DEADLOCK FALSE
