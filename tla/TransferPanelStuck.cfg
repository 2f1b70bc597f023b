SPECIFICATION PanelFairSpec
CONSTANTS
    t1 = t1
    c1 = c1
    Task = {t1}
    Config = {c1}
    NoConfig = NoConfig
    MaxConcurrent = 1
    SpawnMayFail = FALSE
    MaxCommands = 1
    MaxRequests = 1
    MaxEvents = 1
PROPERTIES
    NoRowWaitsForEver
