SPECIFICATION StallSpec
CONSTANTS
    t1 = t1
    t2 = t2
    c1 = c1
    Task = {t1, t2}
    Config = {c1}
    NoConfig = NoConfig
    MaxConcurrent = 1
    SpawnMayFail = FALSE
    MaxCommands = 2
PROPERTIES
    CancelFreesSlot
