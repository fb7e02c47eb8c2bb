SPECIFICATION Spec
CONSTANTS
  Gap = 4
  Latency <- DivLatency
  Programs <- PathPrograms
INVARIANTS
  QuotientReady
  SkewCoversEveryPath
CHECK_DEADLOCK FALSE
