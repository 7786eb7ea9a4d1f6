---------------------------- MODULE OrderRouting ----------------------------
(***************************************************************************)
(* core/execution_router.py: ExecutionRouter.execute takes an order of the *)
(* trading cycle through the order store, its approval and the fill        *)
(* simulator, while the reconciliation daemon of the same process, which   *)
(* the orchestrator starts in every mode, works on the same table.  The    *)
(* broker knows none of these orders, so to the daemon each of them is     *)
(* missing.                                                                *)
(*                                                                         *)
(* Every transaction is an action; the simulator polls quotes for seconds  *)
(* between two of them.  The gates (tradable, readiness, freshness,        *)
(* cool-down, quote guard) and the simulator's verdict are inputs; the     *)
(* mode LIVE, which always aborts after the approval, is a behaviour in    *)
(* which the simulator never fills.  Each call has a fresh order id.       *)
(***************************************************************************)
EXTENDS OrderReconciler

VARIABLES
    hand,       \* the order the cycle is routing
    routeStage, \* how far execute() has come with it
    simulated,  \* the quantity the simulator has filled
    approval,   \* order -> the approval of its intent
    outcome,    \* order -> what execute() has told the cycle; "lost": nothing
    fillEvents  \* orders with a fill in the event log

routingVars == <<rows, book, dm, crashes, hand, routeStage, simulated, approval,
                 outcome, fillEvents>>
routing == <<hand, routeStage, simulated, approval, outcome, fillEvents>>
daemons == <<book, dm, crashes>>

(* _terminal_state_for_reason *)
AbortStates == {"REJECTED", "EXPIRED", "CANCELLED"}

(* execute() returns, or an exception leaves it. *)
Leave(o, result) ==
    /\ hand' = NoOrder /\ routeStage' = "idle" /\ simulated' = 0
    /\ outcome' = [outcome EXCEPT ![o] = result]

(* Mutant of TryMove: an illegal transition is swallowed. *)
TryMoveSwallows(o, s, q) ==
    rows' = IF CanMove(o, s) THEN [rows EXCEPT ![o] = MovedRow(@, s, NoBroker, q)] ELSE rows

TryMove(o, s, q) ==
    CanMove(o, s) /\ rows' = [rows EXCEPT ![o] = MovedRow(@, s, NoBroker, q)]

(* transition() raises: the daemon has closed the order. *)
MoveRaises(o, s) ==
    ~CanMove(o, s) /\ UNCHANGED rows /\ Leave(o, "raised")

-----------------------------------------------------------------------------
(* _open_order_record, under an id nobody has used *)
OpenOrder(o) ==
    /\ hand = NoOrder /\ rows[o].state = "ABSENT"
    /\ rows' = [rows EXCEPT ![o] = NewRow(KeyOf[o], NoBroker, 0)]
    /\ hand' = o /\ routeStage' = "new"
    /\ UNCHANGED <<daemons, simulated, approval, outcome, fillEvents>>

(* A gate, the approval or the simulator says no: _abort. *)
AbortOrder(o) ==
    /\ hand = o
    /\ \/ routeStage \in {"new", "simulating"}
       \/ routeStage = "sent" /\ approval[o] # "approved"
    /\ \E s \in IF routeStage = "sent" THEN {"REJECTED"} ELSE AbortStates :
          \/ TryMove(o, s, rows[o].filled) /\ Leave(o, "aborted")
          \/ MoveRaises(o, s)
    /\ UNCHANGED <<daemons, approval, fillEvents>>

SendOrder(o) ==
    /\ hand = o /\ routeStage = "new"
    /\ \/ /\ TryMove(o, "SENT", rows[o].filled)
          /\ routeStage' = "sent" /\ UNCHANGED <<hand, simulated, outcome>>
       \/ MoveRaises(o, "SENT")
    /\ UNCHANGED <<daemons, approval, fillEvents>>

(* require_approval_or_abort; the approval is spent in its own store. *)
ConsumeApproval(o) ==
    /\ hand = o /\ routeStage = "sent" /\ approval[o] = "approved"
    /\ approval' = [approval EXCEPT ![o] = "consumed"]
    /\ routeStage' = "approved"
    /\ UNCHANGED <<rows, daemons, hand, simulated, outcome, fillEvents>>

(* Mutant of ReadyToAcknowledge: the order is acknowledged before its        *)
(* approval is spent.                                                        *)
ReadyToAcknowledgeEarly == routeStage \in {"sent", "approved"}

ReadyToAcknowledge == routeStage = "approved"

Acknowledge(o) ==
    /\ hand = o /\ ReadyToAcknowledge
    /\ \/ /\ TryMove(o, "ACKNOWLEDGED", rows[o].filled)
          /\ routeStage' = "simulating" /\ UNCHANGED <<hand, simulated, outcome>>
       \/ MoveRaises(o, "ACKNOWLEDGED")
    /\ UNCHANGED <<daemons, approval, fillEvents>>

(* The simulator fills all or a part, and logs the fill itself. *)
Simulate(o) ==
    /\ hand = o /\ routeStage = "simulating"
    /\ simulated' \in 1 .. Lot
    /\ fillEvents' = fillEvents \cup {o}
    /\ routeStage' = "confirming"
    /\ UNCHANGED <<rows, daemons, hand, approval, outcome>>

ConfirmFill(o) ==
    /\ hand = o /\ routeStage = "confirming"
    /\ LET s == IF simulated < Lot THEN "PARTIAL" ELSE "FILLED"
       IN  \/ TryMove(o, s, simulated) /\ Leave(o, "filled")
           \/ MoveRaises(o, s)
    /\ UNCHANGED <<daemons, approval, fillEvents>>

(* Anything else that execute() lets out: the quotes, the guard, the approval *)
(* store or the order store may raise at any stage, and the order stays as it *)
(* is.                                                                        *)
ExecuteFails(o) ==
    /\ hand = o /\ Leave(o, "raised")
    /\ UNCHANGED <<rows, daemons, approval, fillEvents>>

-----------------------------------------------------------------------------
GrantApproval(o) ==
    /\ approval[o] = "none"
    /\ approval' = [approval EXCEPT ![o] = "approved"]
    /\ UNCHANGED <<rows, daemons, hand, routeStage, simulated, outcome, fillEvents>>

(* Cycle and daemon share a process; the store outlives it. *)
ProcessDies ==
    /\ crashes < MaxCrashes /\ crashes' = crashes + 1
    /\ dm' = [d \in Daemons |-> IdleDaemon]
    /\ IF hand = NoOrder THEN UNCHANGED <<hand, routeStage, simulated, outcome>>
                         ELSE Leave(hand, "lost")
    /\ UNCHANGED <<rows, book, approval, fillEvents>>

RoutingInit ==
    /\ rows = [o \in Orders |-> AbsentRow] /\ book = EmptyBook
    /\ dm = [d \in Daemons |-> IdleDaemon] /\ crashes = 0
    /\ hand = NoOrder /\ routeStage = "idle" /\ simulated = 0
    /\ approval = [o \in Orders |-> "none"]
    /\ outcome = [o \in Orders |-> "none"] /\ fillEvents = {}

RouteStep ==
    \E o \in Orders : \/ AbortOrder(o) \/ SendOrder(o) \/ ConsumeApproval(o)
                      \/ Acknowledge(o) \/ Simulate(o) \/ ConfirmFill(o)
                      \/ ExecuteFails(o)

RoutingNext ==
    \/ \E o \in Orders : OpenOrder(o) \/ GrantApproval(o)
    \/ RouteStep
    \/ \E d \in Daemons : (DaemonStep(d) \/ SnapshotFails(d)) /\ UNCHANGED routing
    \/ ProcessDies

RoutingSpec == RoutingInit /\ [][RoutingNext]_routingVars

-----------------------------------------------------------------------------
(* Types; execute() has an order in hand exactly while it runs, and a         *)
(* simulated quantity exactly while it confirms one.                          *)
RoutingTypeOK ==
    /\ rows \in [Orders -> Row]
    /\ hand \in Orders \cup {NoOrder}
    /\ routeStage \in {"idle", "new", "sent", "approved", "simulating", "confirming"}
    /\ hand = NoOrder <=> routeStage = "idle"
    /\ simulated \in 0 .. Lot /\ (simulated > 0 <=> routeStage = "confirming")
    /\ approval \in [Orders -> {"none", "approved", "consumed"}]
    /\ outcome \in [Orders -> {"none", "filled", "aborted", "raised", "lost"}]
    /\ fillEvents \subseteq Orders /\ crashes \in 0 .. MaxCrashes

(* What the cycle is told agrees with the store, however the daemon and the   *)
(* router interleave: a reported fill stands in the row, whole or partial,    *)
(* and only a partial one can still be closed by the daemon; an aborted order *)
(* is closed and unfilled; and a call that raised has left the order unfilled *)
(* where it had come to, or the daemon has rejected it: its fill, if any, is  *)
(* in the event log alone.                                                    *)
ReportAgreesWithStore ==
    \A o \in Orders :
        LET row == rows[o] IN
        CASE outcome[o] = "filled"  -> /\ o \in fillEvents /\ row.filled > 0
                                       /\ row.state = "FILLED" <=> row.filled = Lot
                                       /\ row.filled < Lot => row.state \in {"PARTIAL", "REJECTED"}
          [] outcome[o] = "aborted" -> row.state \in AbortStates /\ row.filled = 0
          [] outcome[o] = "raised"  -> /\ row.state \in {"NEW", "SENT", "ACKNOWLEDGED", "REJECTED"}
                                       /\ row.filled = 0
          [] OTHER                  -> row.filled = 0

(* "manual_approval_required": no order is acknowledged or filled in the      *)
(* store before its approval is spent in the approval store, and no spent     *)
(* approval belongs to an order that was never sent.                          *)
AcknowledgedWasApproved ==
    \A o \in Orders :
        /\ rows[o].state \in {"ACKNOWLEDGED", "PARTIAL", "FILLED"} => approval[o] = "consumed"
        /\ approval[o] = "consumed" => rows[o].state \notin {"ABSENT", "NEW"}

=============================================================================
