CONSTANTS
    Builds = {"plain", "spp", "ble"}
    Configs <- MCConfigs
    Ifaces = {"UART1", "USB"}
    Systems = {fc, g1, g2}
    NoSys = NoSys
    None = None
    Mask <- MCMask
    MAX_ADDRESSES = 2
    TTL = 2
    CLEANUP_EVERY = 3
    Followed <- MCFollowed
SPECIFICATION BridgeSpec
INVARIANTS TypeOK UnicastGoesHome KnownTargetServed
INVARIANTS BootTypeOK QueuesAreServed BridgesBothWays SbusReachesOutputs
PROPERTY PlacesComeBack
