SPECIFICATION MixedSpec
CONSTANTS
    b1 = b1
    o1 = o1
    o2 = o2
    d1 = d1
    NoKey = NoKey
    NoBroker = NoBroker
    NoOrder = NoOrder
    Lot = 3
    Orders = {o1, o2}
    Keys = {k1, k2}
    BrokerIds = {b1, o2}
    Daemons = {d1, d2}
    MaxCrashes = 1
    BrokerOf <- LinkedAndOwnId
INVARIANTS TerminalAgreesWithBroker FillNeverInvented
PROPERTIES StepsFollowLifecycle ClosedOrdersRepairedAlone
