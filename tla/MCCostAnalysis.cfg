SPECIFICATION Spec
CONSTANTS
  Length = 4
  Pairs <- SomePairs
  Selections <- SomeSelections
  Loops <- Preset
INVARIANTS
  EstimateIsEarliest
  ReportsAgree
