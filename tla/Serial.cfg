SPECIFICATION Spec
CONSTANTS
    Polls = 2
    Fifo = 2
    DataLen = 3
    LineLen = 2
    CalLines = 2
    Zero = Zero
INVARIANTS
    TypeOK
    NoCharacterStranded
    CalibrationOnRequest
    ReadTwiceOnlyAfterTheft
PROPERTIES
    WindowCloses

\* The system may stop: the interrupt waits for a byte main() is about to read.
CHECK_DEADLOCK FALSE
