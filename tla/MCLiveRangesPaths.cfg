SPECIFICATION FairSpec
CONSTANTS
  Name = {"n", "m", "f", "g"}
  IntegerName = {"n", "m"}
  Field = {"x", "w"}
  Registers = 3
  Programs <- SafePrograms
  Threshold = 3
  Hops = 4
INVARIANTS
  TypeOK
  ReadsHold
  ChainsEnd
PROPERTY
  Allocates
CHECK_DEADLOCK FALSE
