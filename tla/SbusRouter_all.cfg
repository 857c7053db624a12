\* Device 1 and UDP, Timing Keeper, and a user who forces Device 1 at times.
SPECIFICATION FairSpec
CONSTANTS
    Configured <- MCTwo
    TimingKeeper = TRUE
    WebSources <- MCFirst
    ExcellentAge = 1
    GoodAge = 2
    HoldAge = 3
    MediumAge = 4
    DeadAge = 5
    SwitchDelay = 6
    UdpTimeout = 5
    RepeatGap = 1
INVARIANTS
    TypeOK
    SignalKept
PROPERTIES
    NoFlap
    KeeperEnds
    HealthyTakesOver
