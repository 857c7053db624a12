SPECIFICATION FairSpec
CONSTANTS
    Capacity = 4
    Tasks <- MCTasks
    Bridge = "bridge"
    NoTask = "none"
    PacketSizes <- MCSizes
    MaxWritePerCall = 2
    TxBufferSize = 2
    MaxBytes = 8
CHECK_DEADLOCK FALSE
INVARIANTS
    TypeOK
    RingExact
PROPERTY
    Progress
