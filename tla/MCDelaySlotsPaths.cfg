SPECIFICATION Spec
CONSTANTS
  Regs = {1, 2}
  Programs <- SafePrograms
  MaxTurns = 3
  EmitDelayFillers = TRUE
INVARIANTS
  FillersBehindBranches
  ExecutionPreserved
CHECK_DEADLOCK FALSE
