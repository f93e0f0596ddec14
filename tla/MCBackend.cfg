SPECIFICATION SpecBackend
CONSTANTS
    Requests = {t1, t2}
    Printers = {p1}
    Adapters = {bambu_mqtt, moonraker}
    BambuMqtt = bambu_mqtt
    DeviceIds = {d1}
    NoDevice = NoDevice
    MaxSecrets = 2
    UserThreads = {t1, t2}
    UserNames = {n1, n2}
    Passwords = {x1, x2}
    UserTokens = {k1, k2}
    GuardRoles = {"user"}
    AddedRoles = {"viewer"}
    NoUser = NoUser
    NoToken = NoToken
    NoPassword = NoPassword
    KeyCallers = {t1, t2, t3}
    FieldKeys = {k1, k2, k3}
    NoKey = NoKey
    EmptyKey = EmptyKey
    Importers = {i1, i2}
    SoleImporter = i1
    Checkers = {t3}
    Projects = {j1}
    NoProject = NoProject
    Contents = {c1}
    Unreadable = Unreadable
    LanPrinters = {p1}
    Facts = {x1, x2}
    NoFacts = NoFacts
    Stale = Stale
    MaxModels = 3
    MaxFiles = 2
    SiteThreads = {t1, t2}
    UsedModes = {"none", "bearer_token", "browser_session"}
    SiteAccountIds = {a1}
    HeaderNames = {}
    SiteSecrets = {s1}
    Null = Null
    Declarations = {"old", "new"}
    Declared = "new"
    DeclaredEnabled = TRUE
    Unknown = Unknown
SYMMETRY Symmetry
INVARIANTS TypesOK   OneKey ImportIsPrefix FreshFacts VerdictSound
PROPERTIES LoggedOutStaysOut GeometryIsUsed ToggleIsKept
CHECK_DEADLOCK FALSE
