SPECIFICATION PlaceSpec
CONSTANTS
    NoKey = NoKey
    NoBroker = NoBroker
    NoOrder = NoOrder
    Lot = 1
    sig = sig
    Signals = {sig}
    SignalOf <- OneSignal
    BrokerOf <- NoneLinked
    Orders = {o1}
    Keys = {o1}
    BrokerIds = {b1}
    Threads = {t1}
    Daemons = {d1}
    MaxCrashes = 0
    MaxAttempts = 1
    NetThreshold = 1
    RejectThreshold = 0
PROPERTIES CompletedOrdersRecorded
