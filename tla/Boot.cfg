CONSTANTS
    Buses = 4
    BusLimit = 4
    Regions = {m1}
    MaxDevices = 2
SPECIFICATION Spec
CHECK_DEADLOCK FALSE
PROPERTIES
    ProbeEnds
