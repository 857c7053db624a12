SPECIFICATION FairSpec
CONSTANTS
    MaxQueuePackets = 2
    MaxQueueBytes = 1500
    MaxPacketSize = 800
    SizeMod = 65536
    OfferedSizes <- MCSizes
    Gaps <- MCGaps
    Periods <- MCPeriods
    Rates <- MCRates
    FrameSize = 25
    MaxOffers = 3
    MTU_SIZE = 1400
    BATCH_PACKETS <- MCPackets
    BATCH_BYTES <- MCBytes
    BATCH_TIMEOUT <- MCTimeout
    RAW_TIMEOUT = 5
    SBUS_FRAMES = 3
    SBUS_STALE = 50
    Unset = Unset
INVARIANTS UdpTypeOK KindInOrder
PROPERTIES PacketsLeave SbusServed
