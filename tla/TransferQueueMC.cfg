SPECIFICATION Spec
CONSTANTS
    t1 = t1
    t2 = t2
    t3 = t3
    t4 = t4
    c1 = c1
    Task = {t1, t2, t3, t4}
    Config = {c1}
    NoConfig = NoConfig
    MaxConcurrent = 2
    SpawnMayFail = TRUE
    MaxCommands = 2
SYMMETRY TaskSymmetry
INVARIANTS
    TypeOK
    OnePlace
    ConnectionBound
    WorkConserving
    Inv
    OneHonestReport
PROPERTIES
    NoOvertaking
    ImplementsService
