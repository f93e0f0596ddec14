SPECIFICATION Spec
CONSTANTS
    d1 = d1
    d2 = d2
    k1 = k1
    Printers = {p1}
    Requests = {r1}
    Hosts = {h1, h2}
    Ports = {80, 8883}
    ServiceTypes = {"mdns_bambu", "bambu_mqtt"}
    StableKeys = {k1}
    Devices = {d1}
    Services <- AnnouncedBambu
    NoKey = NoKey
    NoDevice = NoDevice
    NoPrinter = NoPrinter
    MaxResults = 2
SYMMETRY Symmetry
INVARIANTS AdapterFollowsType
 
CHECK_DEADLOCK FALSE
