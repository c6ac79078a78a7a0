SPECIFICATION ReserveSpec
CONSTANTS
    Txs = {1, 2, 3}
    Mints = {3}
    Callers = {"relayer", "user"}
    ConfirmationRelayer = "relayer"
    NoCaller = "none"
    Fee <- MCFee
    LedgerFees = {1, 2}
    InFlightLimit = 3
    ProtectedInFlight = 1
    CallerInFlight = 2
    VerificationLimit = 3
    ProtectedLimit = 1
    CallerLimit = 2
    IngestionLimit = 1
    Window = 1
    Cooldown = 1
    Floor = 1
    Ceiling = 2
    CallCost = 1
    InitialCycles = 12
    TopUpThreshold = 4
    TopUpAmount = 4
    MaxDeposits = 1
    MaxTime = 1
INVARIANTS LiabilitiesFunded
CHECK_DEADLOCK FALSE
