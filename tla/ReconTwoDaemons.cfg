SPECIFICATION ReconSpec
CONSTANTS
    b1 = b1
    o1 = o1
    o2 = o2
    NoKey = NoKey
    NoBroker = NoBroker
    NoOrder = NoOrder
    Lot = 2
    Orders = {o1}
    Keys = {k1}
    BrokerIds = {b1}
    Daemons = {d1, d2}
    MaxCrashes = 0
    BrokerOf <- OneLinked
PROPERTIES ClosedOrdersRepaired
