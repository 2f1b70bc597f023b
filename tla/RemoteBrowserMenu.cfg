SPECIFICATION BrowserSpec
CONSTANTS
    a = a
    b = b
    Name = {a, b}
    Path <- PathMC
    Text <- TextMC
    Leads <- LeadsMC
    Home <- HomeMC
    NoSession = NoSession
    NoRow = NoRow
    NoMenu = NoMenu
    NoUpload = NoUpload
    Typed <- TypedMC
    Named <- NamedMC
    Chosen = {b}
    MaxEntries = 3
    MaxRequests = 1
    MaxEvents = 1
PROPERTIES
    MenuActsOnRow
