----------------------------- MODULE MCControls -----------------------------
(* The run lock, the risk halt, the feed breaker, the depth feed and the    *)
(* router with its daemon, side by side: they share no state in these       *)
(* models, so "part" picks the one that runs, the state space is the sum of *)
(* the five, and each fairness condition is asked of the part it belongs    *)
(* to.                                                                      *)
EXTENDS RunLock, RiskHalt, FeedBreaker, DepthFeed, OrderRouting

VARIABLE part

NoIdYet == [o \in Orders |-> NoBroker]
MCRaisedBy ==
    [ t \in Threads |-> CASE t = "cycle" -> {"daily_loss", "slo_failover"}
                          [] t = "feed"  -> {"db_write_fail"}
                          [] OTHER       -> {"broker_drift"} ]

controlVars == <<part, runLockVars, haltVars, breakerVars, feedVars, routingVars>>

(* While p runs, the variables of every other part stand still. *)
Only(p) ==
    /\ part = p /\ part' = p
    /\ p # "run lock" => UNCHANGED runLockVars
    /\ p # "halt"     => UNCHANGED haltVars
    /\ p # "breaker"  => UNCHANGED breakerVars
    /\ p # "feed"     => UNCHANGED feedVars
    /\ p # "routing"  => UNCHANGED routingVars

ControlsInit ==
    /\ part \in {"run lock", "halt", "breaker", "feed", "routing"}
    /\ RunLockInit /\ HaltInit /\ BreakerInit /\ FeedInit /\ RoutingInit

ControlsNext ==
    \/ Only("run lock") /\ RunLockNext
    \/ Only("halt") /\ HaltNext
    \/ Only("breaker") /\ BreakerNext
    \/ Only("feed") /\ FeedNext
    \/ Only("routing") /\ RoutingNext

(* The fairness of the modules, condition by condition. *)
ControlsFairness ==
    /\ \A p \in Pids : WF_runLockVars(part = "run lock" /\ CallStep(p))
    /\ WF_haltVars(part = "halt" /\ CycleStep)
    /\ \A t \in Threads :
          /\ WF_haltVars(part = "halt" /\ FinishWrite(t))
          /\ WF_haltVars(part = "halt" /\ BeginClear(t))
    /\ WF_breakerVars(part = "breaker" /\ BlockTimePasses)
    /\ \A t \in FeedThreads :
          WF_feedVars(part = "feed" /\ (TakeRestartLock(t) \/ RestartStep(t)))
    /\ \A w \in Tickers : WF_feedVars(part = "feed" /\ (EndIteration(w) \/ EndWatchdog(w)))
    /\ \A u \in Users : WF_breakerVars(part = "breaker" /\ Check(u))

ControlsSpec == ControlsInit /\ [][ControlsNext]_controlVars /\ ControlsFairness

(* The types of the five, and which thread is where while a lock is held, a *)
(* file is being written or an order is in hand.                            *)
ControlsTypeOK == RunLockTypeOK /\ HaltTypeOK /\ BreakerTypeOK /\ FeedTypeOK /\ RoutingTypeOK
=============================================================================
