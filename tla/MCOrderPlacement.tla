-------------------------- MODULE MCOrderPlacement --------------------------
(* Bounds of the placement runs.  Every order is a timestamp of one signal,  *)
(* so orders are interchangeable, and so are threads and broker ids.         *)
EXTENDS OrderPlacement, TLC
CONSTANT sig
OneSignal == [o \in Orders |-> sig]
NoneLinked == [o \in Orders |-> NoBroker]
Interchangeable ==
    Permutations(Orders) \cup Permutations(Threads) \cup Permutations(BrokerIds)
=============================================================================
