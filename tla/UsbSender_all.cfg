SPECIFICATION FairSpec
CONSTANTS
    MaxQueuePackets = 3
    MaxQueueBytes = 4
    MaxPacketSize = 2
    SizeMod = 16
    OfferedSizes <- MCSizes
    MaxOffers = 4
    Gap = 1
    HostSpace = 2
    BATCH_N_PACKETS = 3
    BATCH_X_BYTES = 4
    BATCH_T_MS_BULK = 1
    USB_BLOCKED_TIMEOUT_MS = 1
    MAX_BACKOFF = 2
    Unset = Unset
INVARIANTS UsbTypeOK UsbInOrder
PROPERTY HostComesAndGoes
