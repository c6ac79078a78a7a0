CONSTANTS
  Owners <- MCOwners
  PerOwner = 2
  Withdrawals <- MCWithdrawals
  MaxRecords = 2
  MaxHolds = 1
  MaxAudits = 2
  OwnerIndexLimit = 1
  AuditLimit = 1
  HistoryBatch = 1
  ChunkRows = {2}
SPECIFICATION Spec
INVARIANTS ValidationNeverFails
