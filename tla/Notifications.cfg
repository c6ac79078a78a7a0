SPECIFICATION NotificationSpec
CONSTANTS
    Providers = {1, 2, 3}
    Faulty = {3}
    Txs = {1, 2, 3}
    Kind <- MCKind
    Payload <- MCPayload
    MaxHeight = 2
    MaxForks = 1
    MinimumId = 1
    InFlightLimit = 1
INVARIANTS RecordedIsFinal
CHECK_DEADLOCK FALSE
