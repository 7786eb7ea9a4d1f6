SPECIFICATION RaceSpec
CONSTANTS
    NoKey = NoKey
    NoBroker = NoBroker
    NoOrder = NoOrder
    Lot = 1
    sig = sig
    Signals = {sig}
    SignalOf <- OneSignal
    BrokerOf <- NoneLinked
    Orders = {o1, o2}
    Keys = {o1, o2}
    BrokerIds = {b1, b2, b3}
    Threads = {t1, t2}
    Daemons = {}
    MaxCrashes = 1
    MaxAttempts = 2
    NetThreshold = 1
    RejectThreshold = 1
SYMMETRY Interchangeable
INVARIANTS SubmissionsBounded AcknowledgedWasPlaced BrokerIdBelongs SubmittedIntentIsBacked OneAcknowledgedPerSignal
