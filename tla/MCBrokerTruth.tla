---------------------------- MODULE MCBrokerTruth ----------------------------
(* One order in one symbol, in which a unit was carried into the day. *)
EXTENDS BrokerTruth, TLC

OneSymbol == [t \in Trades |-> "a"]
OneCarried == "a" :> 1
=============================================================================
