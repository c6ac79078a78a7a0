SPECIFICATION Spec
CONSTANTS
  MinFee = 1
  MaxFee = 2
  MaxOps = 4
  MaxNonce = 2
  Actions = {"CancelTimelock", "SetServiceFee", "ScheduleActivation", "ExecuteActivation", "ScheduleRotation", "ExecuteRotation"}
  MaxGeneration = 1
  MaxReplacements = 1
  FeeCeiling = 100
  FeeBumpBps = 1250
  NewFee = 2
INVARIANTS NoncesUsable RolesFollowRotation NoForgottenTimelock
PROPERTIES NoDangerInEmergency
CHECK_DEADLOCK FALSE
