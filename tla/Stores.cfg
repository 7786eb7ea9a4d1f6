SPECIFICATION StoresSpec
CONSTANTS
    o1 = o1
    o2 = o2
    k1 = k1
    k2 = k2
    q1 = q1
    q2 = q2
    c1 = c1
    c2 = c2
    Orders = {o1, o2}
    Keys = {k1, k2}
    BrokerIds = {b1}
    NoKey = NoKey
    NoBroker = NoBroker
    Quantities <- MCQuantities
    MaxEvents = 3
    Intents = {h1}
    Operators = {q1, q2}
    Callers = {c1, c2}
    Ttl = 2
    ArmTtl = 1
    MaxTime = 3
    NoIntent = NoIntent
    Procs = {p1, p2, p3}
    Releasers = {p1, p2, p3}
    Inodes = {i1, i2, i3, i4}
    NoFile = NoFile
    Nobody = Nobody
SYMMETRY Interchangeable
INVARIANTS
    KeysUnique
    AuditTrailFaithful
    OneUsePerGrant
    ArmedWithinValidity
    SecondSessionNeedsUnlink
PROPERTIES
    LifecycleImplemented
    UsedIsFinal
    RefusedByLiveHolder
CHECK_DEADLOCK FALSE
