CONSTANTS
  Schedules <- AllPlans
  MaxOps = 4
SPECIFICATION EmitSpec
CHECK_DEADLOCK FALSE
INVARIANTS
  EmitTypeOK
  ProgramOrder
  NothingLost
