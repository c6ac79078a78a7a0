SPECIFICATION Spec
CONSTANTS
  Deposits = {1, 2}
  Owners = {1, 2}
  Owner <- MCOwner
  Gross <- MCGross
  UserMaxFee <- MCUserMaxFee
  Fees = {0, 1}
  MintWindowLimit = 2
  MintWindowDuration = 2
  AuthorizationTtl = 1
  SnapshotTtl = 2
  StaleLock = 1
  Cooldown = 2
  QuotaWindow = 1
  GlobalLimit = 1
  PerPrincipalLimit = 1
  FundingSlots = 2
  SweepLimit = 1
  MaxTime = 2
  MaxBlocks = 3
  MaxAdmin = 1
  MaxRefreshes = 2
CHECK_DEADLOCK FALSE
INVARIANTS CapacityHonoured QuotaBoundsFunding
PROPERTIES SnapshotNeverRegresses
