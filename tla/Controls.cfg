SPECIFICATION ControlsSpec
CONSTANTS
    Pids = {1, 2, 3}
    TwiceReleased = {1}
    Threads = {"cycle", "feed", "truth"}
    RaisedBy <- MCRaisedBy
    AuthCheckers = {"cycle", "feed"}
    Streak = 2
    MaxRaises = 2
    Trippers = {"slo", "storm"}
    Clearers = {"gate", "dashboard"}
    MaxTrips = 3
    MaxTickers = 2
    StormMax = 2
    GuardMax = 2
    Orders = {o1, o2}
    Keys = {k1, k2}
    BrokerIds = {b1}
    Daemons = {d1}
    NoKey = NoKey
    NoBroker = NoBroker
    NoOrder = NoOrder
    Lot = 2
    MaxCrashes = 1
    BrokerOf <- NoIdYet
INVARIANTS
    ControlsTypeOK
    ExclusiveWhenCalm
    HaltStands
    WatchedWhileUp
    NoOrphanConnection
    RestartsBounded
    ReportAgreesWithStore
    AcknowledgedWasApproved
PROPERTIES
    ClearsOnlyItsReason
    StandingTripIsKept
    SurvivorAcquires
    SloHaltLifts
    BlockEnds
    RefusalIsFinal
    RestartEnds
CHECK_DEADLOCK FALSE
