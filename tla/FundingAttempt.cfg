SPECIFICATION FairSpec
CONSTANTS
    Deposits = {d1}
    DedupWindow = 1
    Margin = 1
    Slack = 0
    MaxSkew = 1
    RecoverDelay = 0
    PruneDelay = 0
    MaxTime = 3
    MaxCalls = 2
INVARIANTS IndInv NoForgottenPull PulledAtMostOnce EscrowedIsFunded AttemptOrRecord RecoveryIsCurrent
PROPERTIES FundingSettles
CHECK_DEADLOCK FALSE
