SPECIFICATION FairSpec
CONSTANTS
    None = None
    IpMax <- MCIpMax
    LoginEmailMax = 1
    Window = 1
    FailOpen = TRUE
    Leeway = 1
    Role = "admin"
    JwtLife = 2
    RememberLife = 3
    RefreshLife = 9
    MaxRetries = 1
    Polls = 1
    TimerMax = 2
    Framework = "axum"
    Ip = "ip1"
    Email = "u1"
    MaxNow = 4
    MaxOps = 1
    MaxFaults = 1
INVARIANTS LimiterBudget FrameworksAgree
PROPERTIES RestoreFinishes ExpiredSessionIsSettled
CHECK_DEADLOCK FALSE
