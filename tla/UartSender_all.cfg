SPECIFICATION FairSpec
CONSTANTS
    MaxQueuePackets = 2
    MaxQueueBytes = 3
    MaxPacketSize = 2
    SizeMod = 8
    OfferedSizes <- MCSizes
    TxSpace = 2
    MaxOffers = 4
INVARIANTS
    TypeOK
    QueueHolds
    WireInOrder
PROPERTY
    QueueDrains
