SPECIFICATION FairSpec
CONSTANTS
    d1 = d1
    Deposits = {d1}
    TTL = 2
    Gross = 5
    ServiceFee = 2
    LedgerFee = 1
    MaxTime = 5
INVARIANTS IndInv NeverMintedAndRefunded MintedIsFinal MintableIsReserved Backed
PROPERTIES SettledIsStable Settles
CHECK_DEADLOCK FALSE
