SPECIFICATION BothSpec
CONSTANTS
    Dir = {home, other}
    Home = home
    home = home
    other = other
    Watched <- WatchedMC
    LastYear = 2203
    Name <- NameMC
    Marks <- MarksMC
    Offsets <- OffsetsMC
    Hours = {0, 12, 23}
    NoFile = NoFile
    NoEntry = NoEntry
    NoTime = NoTime
INVARIANTS
    SessionTypeOK
    ModeSettled
    ListingGetsThrough
    TransferReaches
    ListingTypeOK
    CivilDays
    YearFound
    NamesComeBack
    DatesComeBack
CHECK_DEADLOCK FALSE
