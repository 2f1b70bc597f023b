SPECIFICATION FlowSpec
CONSTANTS
    t1 = t1
    t2 = t2
    t3 = t3
    c1 = c1
    Task = {t1, t2, t3}
    Config = {c1}
    NoConfig = NoConfig
    MaxConcurrent = 1
    SpawnMayFail = FALSE
    MaxCommands = 1
PROPERTIES
    CancelHonoured
    CancelFreesSlot
    AcceptedFinishes
    FollowsTable
