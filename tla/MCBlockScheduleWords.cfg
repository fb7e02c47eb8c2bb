SPECIFICATION FairSpec
CONSTANTS
  Register = {"f1", "f2", "i1", "i2"}
  NoRegister = "none"
  FloatRegister = {"f1", "f2"}
  FlagLatency = 4
  ClipLatency = 4
  IntegerLoadReady = 3
  FmacInterlock = FALSE
  BranchInterlock = FALSE
  MaxLength = 4
  Blocks <- WordBlocks
  LiveSets <- AnyLive
INVARIANTS
  BlockReadsPreserved
  ReadsReady
