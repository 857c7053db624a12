SPECIFICATION Spec
CONSTANTS
    Capacity = 4
    Tasks <- MCTasks
    Bridge = "bridge"
    NoTask = "none"
    PacketSizes <- MCSizes
    MaxWritePerCall = 2
    TxBufferSize = 2
    MaxBytes = 6
CHECK_DEADLOCK FALSE
INVARIANT Fifo
