SPECIFICATION SpecOutgoing
CONSTANTS
    Threads = {t1, t2, t3}
    Hosts = {h1}
    Intervals = {1, 2}
    Nobody = Nobody
    MaxSlots = 3
    MaxClock = 3
    GcodeStates = {"idle", "running"}
    Foreign = "failed"
    MaxPackets = 8
    MaxWire = 2
INVARIANTS TypeOK TelemetryTypeOK SlotsSpaced NeverAheadOfSchedule StatusIsTruthful
PROPERTIES ImplementsSchedule EveryCallIsSent FetchEnds
CHECK_DEADLOCK FALSE
