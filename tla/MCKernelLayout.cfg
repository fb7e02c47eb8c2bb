CONSTANTS
  Loops <- MCLoops
  Base <- Bases
  Field <- Fields
  Vector <- VectorBases
  KeyOrder <- MCKeyOrder
  Candidates <- MCCandidates
  MaxBumps = 1
  IntervalBound = 12
  SlotBound = 40
  Passes = 2

SPECIFICATION Spec
INVARIANTS
  TypeOK
  TableTrue
  EdgesHold
  PlanKeepsReads
  RenamesApart
PROPERTIES
  Settles
