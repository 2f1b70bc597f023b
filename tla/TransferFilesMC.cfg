SPECIFICATION FilesSpec
CONSTANTS
    t1 = t1
    t2 = t2
    c1 = c1
    l1 = l1
    r1 = r1
    r2 = r2
    Task = {t1, t2}
    Config = {c1}
    NoConfig = NoConfig
    MaxConcurrent = 2
    SpawnMayFail = FALSE
    MaxCommands = 1
    Local = {l1}
    Remote = {r1, r2}
    LoginDir <- LoginDirMC
    Wanted <- WantedMC
    Missing = {l1, r1}
    Size = 2
    User = User
SYMMETRY TaskSymmetry
INVARIANTS
    FilesTypeOK
    NoResidue
    CompletedIsWhole
