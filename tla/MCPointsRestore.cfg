SPECIFICATION Spec
CONSTANTS
    Users = {u1}
    Forecasts = {f1}
    Addresses = {}
    Jobs = {j1}
    Urls = {p1}
    Grant = 2
    WalletGrant = 1
    RewardPoints = 1
    Stakes = {0, 2}
    Page = 2
    CloseAt = 2
    MaxTime = 2
    MaxSubmissions = 2
    MaxHolds = 1
    MaxReports = 0
    Nil = Nil
CHECK_DEADLOCK FALSE
INVARIANT Restored
