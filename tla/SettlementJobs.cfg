SPECIFICATION Spec
CONSTANTS
    Deposits = {d1}
    Withdrawals = {w1}
    Payouts = {p1}
    Signing = {d1}
    Capacity <- LaneCapacities
    LeaseTicks = 2
    ManualLeaseTicks = 1
    CallTicks = 1
    MaxCalls = 2
    OverdueTicks = 1
    BusyTicks = 1
    RetryTicks = 1
    MaxRetryTicks = 1
    MaxFailures = 2
INVARIANTS BoundedCallKeepsLease LaneCapacityUnlessLate
PROPERTIES StaleRunInert DueJobsDispatched
