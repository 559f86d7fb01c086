SPECIFICATION Spec
CONSTANTS
    Registers = {0, 2}
    Lengths = {1, 2, 3}
    FileSize = 5
    Unwritten = Unwritten
INVARIANTS
    ReadIsWhole
    WriteIsWhole
    BusStopsInTime
    FailsOnlyOnFault
PROPERTIES
    AccessReturns
\* main() really stops when the peripheral locks up before a STOP.
CHECK_DEADLOCK FALSE
