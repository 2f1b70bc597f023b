SPECIFICATION PanelSpecMC
CONSTANTS
    t1 = t1
    t2 = t2
    c1 = c1
    c2 = c2
    Task = {t1, t2}
    Config = {c1, c2}
    NoConfig = NoConfig
    MaxConcurrent = 1
    SpawnMayFail = FALSE
    MaxCommands = 1
    MaxRequests = 1
    MaxEvents = 1
SYMMETRY PanelSymmetry
INVARIANTS
    PanelTypeOK
    RowsCatchUp
    ConnectionShown
    SameServer
PROPERTIES
    FinalRowsStay
