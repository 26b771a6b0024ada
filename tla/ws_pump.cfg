CONSTANTS
    MaxMessage = 2
    Overhead = 1
    MaxIn = 3
    MaxOut = 2
SPECIFICATION ReceivingSpec
INVARIANTS PumpSafe
PROPERTIES MessagesArrive
CHECK_DEADLOCK FALSE
