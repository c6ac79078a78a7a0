SPECIFICATION Spec
CONSTANTS
  MaxTime = 3
  MaxOps = 2
  MaxGeneration = 1
  AttestationAge = 0
  EvidenceAge = 1
  IngressLife = 1
  RetryWait = 2
  MaxUpgrades = 2
INVARIANTS SignedUnderAuthorization VerifiedUpgradeRan ReportedUpgradeSettled
CHECK_DEADLOCK FALSE
