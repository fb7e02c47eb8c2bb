SPECIFICATION FairSpec
CONSTANTS
  Register = {"f1", "f2", "i1", "i2"}
  NoRegister = "none"
  FloatRegister = {"f1", "f2"}
  FlagLatency = 4
  ClipLatency = 4
  IntegerLoadReady = 0
  FmacInterlock = TRUE
  BranchInterlock = TRUE
  MaxLength = 3
  Blocks <- StallBlocks
  LiveSets <- NoLive
INVARIANTS
  TypeOK
  StalledReadsReady
PROPERTIES
  ImplementsReadyOrder
  AllScheduled
