SPECIFICATION Spec
CONSTANTS
  Register = {"f1", "f2", "i1", "i2"}
  NoRegister = "none"
  MaxLength = 4
  Blocks <- AllBlocks
  IgnoredSets <- SomeIgnored
INVARIANTS
  TypeOK
  GraphRespected
  RegisterReadsPreserved
  ImplicitReadsPreserved
  MemoryOrderPreserved
  LiveOutPreserved
  NeverStuck
