SPECIFICATION FairSpec
CONSTANTS
    Refunds = {f1}
    Releases = {w1}
    DedupWindow = 1
    Drift = 1
    Slack = 0
    MaxSkew = 1
    Page = 1
    MaxTime = 3
    MaxAttempts = 2
INVARIANTS IndInv PaidAtMostOnce PaidIsOnLedger
PROPERTIES NewIdentityOnlyAfterAbsence KeepsPromise HoldResolves
CHECK_DEADLOCK FALSE
