SPECIFICATION TradingSpec
CONSTANTS
    NoKey = NoKey
    NoBroker = NoBroker
    NoOrder = NoOrder
    Lot = 1
    sig = sig
    Signals = {sig}
    SignalOf <- OneSignal
    BrokerOf <- NoneLinked
    Orders = {o1}
    Keys = {o1}
    BrokerIds = {b1}
    Threads = {t1}
    Daemons = {d1}
    MaxCrashes = 1
    MaxAttempts = 2
    NetThreshold = 1
    RejectThreshold = 0
    Symbols = {"a"}
    Trades = {1}
    SymbolOf <- OneSymbol
    Carried <- OneCarried
    Other = Other
    MaxStrange = 1
    MaxFlats = 2
    MaxFailures = 1
    Positions = {1, 2}
    Qty = 3
    MaxPerDay = 2
    MaxErrors = 1
INVARIANTS
    TradingTypeOK
    BookedOnce
    EngineFollowsTrade
PROPERTIES
    NoOrderStuckInFlight
    JudgesOneMoment
    FlattenNeverReverses
    DriftHaltsAgain
    OverdueIsClosed
CHECK_DEADLOCK FALSE
