------------------------------ MODULE MCRecon ------------------------------
(* Two daemons that race and crash over one order, or one daemon alone that *)
(* repairs two.  Order o1 carries the broker's id, which it got with its    *)
(* acknowledgement when the daemon is alone and may have had before when    *)
(* they race; o2 is listed by the broker under its own id, and its caller   *)
(* died while submitting it.                                                *)
EXTENDS MCOrderReconciler

CONSTANT d1         \* the daemon that may be alone
VARIABLE alone      \* the others never start, and nothing crashes

(* A row that no daemon lists: o2 when they race. *)
Closed == [state |-> "REJECTED", key |-> KeyOf[o2], broker |-> NoBroker, filled |-> 0]

MixedInit ==
    /\ alone \in BOOLEAN
    /\ rows \in [Orders -> LeftBehind(o1) \cup LeftBehind(o2) \cup {Closed}]
    /\ rows[o1] \in LeftBehind(o1) /\ (alone => rows[o1].state \in {"ACKNOWLEDGED", "PARTIAL"})
    /\ rows[o2] \in IF alone THEN {r \in LeftBehind(o2) : r.state = "SENT"} ELSE {Closed}
    /\ book \in [BrokerIds -> [status : {"NONE", "OPEN"}, filled : 0 .. Lot - 1]]
    /\ \A b \in BrokerIds : book[b].status = "NONE" => book[b].filled = 0
    /\ \A o \in Orders : \A b \in BrokerIds \cap {o, BrokerOf[o]} :
            book[b].status = "OPEN" => book[b].filled = rows[o].filled
    /\ ~alone => book[o2].status = "NONE"
    /\ dm = [d \in Daemons |-> IdleDaemon] /\ crashes = 0

MixedNext ==
    /\ ReconNext /\ UNCHANGED alone
    /\ alone => crashes' = 0 /\ \A d \in Daemons \ {d1} : dm'[d] = IdleDaemon

(* The lone daemon runs on, and its broker answers. *)
MixedFairness == WF_reconVars(DaemonStep(d1)) /\ SF_reconVars(FetchBrokerPositions(d1))

MixedSpec == MixedInit /\ [][MixedNext]_<<reconVars, alone>> /\ MixedFairness

(* ClosedOrdersRepaired, of a daemon that is alone: an order the broker has *)
(* closed ends up, and stays, in the matching state with the broker's fill. *)
ClosedOrdersRepairedAlone ==
    \A o \in Orders : [](alone /\ BrokerClosed(o) => <>[]Repaired(o))
=============================================================================
