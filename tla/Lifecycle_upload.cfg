SPECIFICATION Spec
CONSTANTS
    Off = Off
    Gone = Gone
    Empty = Empty
    SHORT = 1
    LONG = 1
    DELAY = 1
    MAX_CLIENTS = 2
    MAX_UPLOADS = 1
    Configs <- MCConfigs
INVARIANT UpdateKeepsWifi
