SPECIFICATION Spec
CONSTANTS
  Flag = {"CLIP", "MAC"}
  RoundLimit = 64
  MaxLength = 4
  Programs <- LabelPrograms
INVARIANTS
  TypeOK
  DeadFlagsUnread
  LeastBound
  SettledInOneRound
CHECK_DEADLOCK FALSE
