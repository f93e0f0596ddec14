SPECIFICATION Spec
CONSTANTS
    d1 = d1
    d2 = d2
    k1 = k1
    Printers = {p1}
    Requests = {r1}
    Hosts = {h1, h2}
    Ports = {7125}
    ServiceTypes = {"moonraker"}
    StableKeys = {k1}
    Devices = {d1, d2}
    Services <- TwoMoonrakers
    NoKey = NoKey
    NoDevice = NoDevice
    NoPrinter = NoPrinter
    MaxResults = 2
SYMMETRY Symmetry
PROPERTY ScanFollowsIdentity
CHECK_DEADLOCK FALSE
