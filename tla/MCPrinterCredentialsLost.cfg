SPECIFICATION Spec
CONSTANTS
    Printers = {p1}
    Requests = {r1, r2}
    Adapters = {bambu_mqtt, moonraker}
    BambuMqtt = bambu_mqtt
    DeviceIds = {d1}
    NoDevice = NoDevice
    MaxSecrets = 2
SYMMETRY Symmetry
PROPERTY ConfigureTakesEffect
CHECK_DEADLOCK FALSE
