\* Bluetooth, SPP and BLE: a write may take a packet in part.
SPECIFICATION FairSpec
CONSTANTS
    MaxQueuePackets = 2
    MaxQueueBytes = 4
    SizeMod = 64
    OfferedSizes <- MCSizes
    MaxPacketSize = 4
    PartialWrites = TRUE
    MaxOffers = 4
INVARIANTS
    TypeOK
    QueueSound
    Delivery
PROPERTIES
    ImplementsChannel
    QueueDrains
