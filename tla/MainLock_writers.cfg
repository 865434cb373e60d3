SPECIFICATION Spec
CONSTANTS
  a = a  b = b  c = c
  Procs = {a, b, c}  NoProc = NoProc
  Stale = 1  MaxWrites = 2
SYMMETRY SymProcs
INVARIANTS TypeOK OneWriter
PROPERTIES LiveLockStays 
CHECK_DEADLOCK FALSE
