------------------------------ MODULE MCTrading ------------------------------
(* The life of a trade, in three parts that share no state in these models:   *)
(* the placement of an order with a daemon, a broker and a crash, the broker  *)
(* truth reconciler over positions, and the monitor of open trades.  "part"   *)
(* picks the one that runs, so the state space is the sum of the three, and   *)
(* each fairness condition is asked of the part it belongs to.                *)
EXTENDS MCOrderPlacement, MCBrokerTruth, TradeMonitor

VARIABLE part

tradingVars == <<part, placeVars, truthVars, monitorVars>>

TradingInit ==
    /\ part \in {"placement", "truth", "monitor"}
    /\ PlaceInit /\ TruthInit /\ MonitorInit
    /\ part # "truth" => listsOpen     \* the broker matters to this part only

TradingNext ==
    \/ part = "placement" /\ PlaceNext /\ UNCHANGED <<part, truthVars, monitorVars>>
    \/ part = "truth" /\ TruthNext /\ UNCHANGED <<part, placeVars, monitorVars>>
    \/ part = "monitor" /\ MonitorNext /\ UNCHANGED <<part, placeVars, truthVars>>

(* PlaceFairness, TruthFairness and MonitorFairness. *)
TradingFairness ==
    /\ \A t \in Threads : WF_placeVars(part = "placement" /\ Continue(t))
    /\ \A d \in Daemons :
        /\ WF_placeVars(part = "placement" /\ DaemonStep(d) /\ UNCHANGED engineVars)
        /\ SF_placeVars(part = "placement" /\ FetchBrokerPositions(d) /\ UNCHANGED engineVars)
    /\ WF_truthVars(part = "truth" /\ TruthStep)
    /\ WF_monitorVars(part = "monitor" /\ BeginScan)
    /\ WF_monitorVars(part = "monitor" /\ ScanStep)
    /\ WF_monitorVars(part = "monitor" /\ NewDay)

TradingSpec == TradingInit /\ [][TradingNext]_tradingVars /\ TradingFairness

(* The types of the three, with what each stage of a call, a daemon, a cycle *)
(* and a scan has in hand.                                                   *)
TradingTypeOK == ReconTypeOK /\ PlaceTypeOK /\ TruthTypeOK /\ MonitorTypeOK
=============================================================================
