SPECIFICATION Spec
CONSTANTS
  Register = {"f1", "i1", "i2"}
  NoRegister = "none"
  FloatRegister = {"f1"}
  FlagLatency = 4
  ClipLatency = 4
  IntegerLoadReady = 0
  FmacInterlock = TRUE
  BranchInterlock = TRUE
  Label = {"L", "M"}
  NoLabel = "-"
  ClipWindow = 4
  Programs <- EndPrograms
  OptionSets <- AllOptions
  Guard = 8
  MaxTurns = 3
INVARIANTS
  EveryPathEnds
