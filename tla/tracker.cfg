SPECIFICATION Spec
CONSTANTS
    Macs = {"m", "n"}
    Zones = {"a", "b"}
    Unknown = "unknown"
    NoZone = ""
    ConfirmCount = 2
    MaxObservations = 3
    MaxDevices = 2
    Sensors = {"s", "t"}
    MinSensors = 2
    MaxHistory = 1
    MaxUpdates = 6
    MaxLinks = 1
INVARIANTS Inv VisitsArePath
PROPERTIES ConfirmedChange
CHECK_DEADLOCK FALSE
