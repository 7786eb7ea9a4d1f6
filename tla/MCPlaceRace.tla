---------------------------- MODULE MCPlaceRace ----------------------------
(* Callers that race, and those that do not: only the threads in "callers"  *)
(* ever call place_order.  Every order is a timestamp of one signal, so     *)
(* orders are interchangeable, and so are threads and broker ids; no        *)
(* liveness is checked.                                                     *)
EXTENDS MCOrderPlacement

VARIABLE callers

RaceInit == PlaceInit /\ callers \in SUBSET Threads \ {{}}
RaceNext ==
    /\ PlaceNext /\ UNCHANGED callers
    /\ \A t \in Threads \ callers : th'[t] = IdleThread
RaceSpec == RaceInit /\ [][RaceNext]_<<placeVars, callers>>

(* With one caller and no restart, one signal is acknowledged under at most *)
(* one timestamp: the intent written after the acknowledgement closes the   *)
(* signal before the next call can look.                                    *)
OneAcknowledgedPerSignal ==
    Cardinality(callers) = 1 /\ crashes = 0 =>
        \A o, p \in Orders :
            /\ SignalOf[o] = SignalOf[p]
            /\ rows[o].state = "ACKNOWLEDGED" /\ rows[p].state = "ACKNOWLEDGED"
            => o = p
=============================================================================
