-------------------------- MODULE OrderReconciler --------------------------
(***************************************************************************)
(* core/order_reconciliation_daemon.py: daemons that compare a snapshot of *)
(* the broker's order book with the order store and repair the store.      *)
(*                                                                         *)
(* Every network call and every store transaction of run_cycle_once is a   *)
(* step of its own, so a cycle works from a book and a listing that may be *)
(* stale, and another daemon or the broker may act in between.  Listed     *)
(* orders are handled in any order (the code's order is that of            *)
(* updated_at).  The audit log is the subject of OrderStore and is not     *)
(* carried here.                                                           *)
(*                                                                         *)
(* The broker is external: an order book whose rows fill and close.  The   *)
(* specification starts at a restart: the store holds the live orders a    *)
(* previous process left behind, each known or unknown to the broker.      *)
(***************************************************************************)
EXTENDS OrderStates

CONSTANTS
    Daemons,    \* reconciliation daemons sharing one store
    NoOrder,    \* "no order in hand"
    Lot,        \* requested quantity of every order
    MaxCrashes, \* bound: how many times a daemon dies in mid-cycle
    BrokerOf    \* order id -> the broker id left in its row, or NoBroker

(* Every order that was left behind was created under a key of its own. *)
ASSUME OrderReconcilerAssumption ==
    /\ NoOrder \notin Orders
    /\ \E f \in [Orders -> Keys] : \A o, p \in Orders : f[o] = f[p] => o = p
    /\ Lot \in Nat \ {0}
    /\ MaxCrashes \in Nat
    /\ BrokerOf \in [Orders -> BrokerIds \cup {NoBroker}]

VARIABLES
    rows,       \* order_states: order id -> row
    book,       \* the broker's order book: broker id -> entry
    dm,         \* daemon -> the local variables of its current cycle
    crashes     \* crashes so far

reconVars == <<rows, book, dm, crashes>>

-----------------------------------------------------------------------------
(* The broker.  "UPDATE" stands for the statuses that are neither in        *)
(* _OPEN_STATUSES nor terminal, "NONE" for an id the book does not list.    *)

OpenStatuses == {"OPEN", "UPDATE"}
ClosedStatuses == {"COMPLETE", "REJECTED", "CANCELLED", "LAPSED"}

BookEntry == [status : OpenStatuses \cup ClosedStatuses \cup {"NONE"}, filled : 0 .. Lot]

BrokerFills(b) ==
    /\ book[b].status \in OpenStatuses
    /\ book' = [book EXCEPT ![b] =
            [ filled |-> @.filled + 1,
              status |-> IF @.filled + 1 = Lot THEN "COMPLETE" ELSE @.status ]]

BrokerCloses(b, s) ==
    /\ book[b].status \in OpenStatuses
    /\ s # "COMPLETE" /\ (s = "REJECTED" => book[b].filled = 0)
    /\ book' = [book EXCEPT ![b].status = s]

BrokerUpdates(b) ==
    /\ book[b].status \in OpenStatuses
    /\ book' = [book EXCEPT ![b].status = IF @ = "OPEN" THEN "UPDATE" ELSE "OPEN"]

BrokerStep(b) ==
    \/ BrokerFills(b)
    \/ \E s \in ClosedStatuses : BrokerCloses(b, s)
    \/ BrokerUpdates(b)

-----------------------------------------------------------------------------
(* Helpers of the daemon *)

(* The broker reports the unfilled part of an open order as pending. *)
PendingQty(entry) == IF entry.status \in OpenStatuses THEN Lot - entry.filled ELSE 0

(* _target_state_from_broker; "UNKNOWN" is None. *)
TargetState(entry) ==
    CASE entry.filled > 0 /\ PendingQty(entry) > 0 -> "PARTIAL"
      [] entry.status = "COMPLETE"  -> "FILLED"
      [] entry.status = "REJECTED"  -> "REJECTED"
      [] entry.status = "CANCELLED" -> "CANCELLED"
      [] entry.status = "LAPSED"    -> "EXPIRED"
      [] entry.status = "OPEN" /\ entry.filled = 0 -> "ACKNOWLEDGED"
      [] OTHER                      -> "UNKNOWN"

(* _find_transition_path: a breadth-first search of the table.  No path is  *)
(* longer than two edges: the states between are Bridges(s, t).             *)
Bridges(s, t) == {m \in ValidTransitions[s] : t \in ValidTransitions[m]}
HasPath(s, t) == t \in ValidTransitions[s] \/ Bridges(s, t) # {}

(* candidate_ids: the row's broker id first, then the order's own id. *)
Matched(o, rec, snap) ==
    LET inBook(id) == id \in BrokerIds /\ snap[id].status # "NONE"
    IN  CASE inBook(rec.broker)                    -> rec.broker
          [] ~inBook(rec.broker) /\ inBook(o)      -> o
          [] ~inBook(rec.broker) /\ ~inBook(o)     -> NoBroker

EmptyBook == [b \in BrokerIds |-> [status |-> "NONE", filled |-> 0]]

(* A daemon between two cycles: no snapshot, nothing listed. *)
IdleDaemon ==
    [ pc |-> "idle", snap |-> EmptyBook, positions |-> FALSE,
      listed |-> [o \in Orders |-> AbsentRow], cur |-> NoOrder ]

(* Mutant of CanMove: the daemon's transitions are not validated. *)
CanMoveAlways(o, s) == rows[o].state # "ABSENT"

(* The store call transition(o, s, b, filled) succeeds in this state. *)
CanMove(o, s) == rows[o].state # "ABSENT" /\ s \in ValidTransitions[rows[o].state]

Listed(d) == {o \in Orders : dm[d].listed[o].state # "ABSENT"}

(* The body of the for loop is over for o, normally or by an exception. *)
Finish(d, o) ==
    dm' = [dm EXCEPT ![d] = [@ EXCEPT !.pc = "cycle", !.cur = NoOrder, !.listed[o] = AbsentRow]]

Suspend(d, o, stage) ==
    dm' = [dm EXCEPT ![d].pc = stage, ![d].cur = o]

-----------------------------------------------------------------------------
(* run_cycle_once, one action per call that leaves the daemon *)

FetchBrokerOrders(d) ==
    /\ dm[d].pc = "idle"
    /\ dm' = [dm EXCEPT ![d].pc = "orders", ![d].snap = book]
    /\ UNCHANGED <<rows, book, crashes>>

(* Positions may be open for reasons outside this book. *)
FetchBrokerPositions(d) ==
    /\ dm[d].pc = "orders"
    /\ \E open \in BOOLEAN :
        dm' = [dm EXCEPT ![d].pc = "positions", ![d].positions = open]
    /\ UNCHANGED <<rows, book, crashes>>

(* All retries failed: reconcile_snapshot_failed ends the cycle. *)
SnapshotFails(d) ==
    /\ dm[d].pc = "orders"
    /\ dm' = [dm EXCEPT ![d] = IdleDaemon]
    /\ UNCHANGED <<rows, book, crashes>>

(* list_orders(include_terminal=False) *)
ListOrders(d) ==
    /\ dm[d].pc = "positions"
    /\ dm' = [dm EXCEPT ![d].pc = "cycle",
                        ![d].listed = [o \in Orders |->
                            IF rows[o].state \in Terminal THEN AbsentRow ELSE rows[o]]]
    /\ UNCHANGED <<rows, book, crashes>>

(* Mutant of MissingOrder: the snapshot is not consulted. *)
MissingOrderUnmatched(d, o) ==
    /\ dm[d].pc = "cycle" /\ o \in Listed(d)
    /\ IF CanMove(o, "REJECTED")
         THEN rows' = [rows EXCEPT ![o] = MovedRow(@, "REJECTED", NoBroker, @.filled)]
         ELSE UNCHANGED rows
    /\ Finish(d, o)
    /\ UNCHANGED <<book, crashes>>

(* Mutant of MissingOrder: open positions hold back every missing order,    *)
(* whatever its state.                                                      *)
MissingOrderHeld(d, o) ==
    /\ dm[d].pc = "cycle" /\ o \in Listed(d)
    /\ Matched(o, dm[d].listed[o], dm[d].snap) = NoBroker
    /\ IF ~dm[d].positions /\ CanMove(o, "REJECTED")
         THEN rows' = [rows EXCEPT ![o] = MovedRow(@, "REJECTED", NoBroker, @.filled)]
         ELSE UNCHANGED rows
    /\ Finish(d, o)
    /\ UNCHANGED <<book, crashes>>

(* No entry for o in the snapshot: left alone and logged as unknown when    *)
(* it was working and positions are open, otherwise moved to REJECTED.      *)
(* When the move is no longer legal transition() raises; nothing changes.   *)
MissingOrder(d, o) ==
    LET rec == dm[d].listed[o] IN
    /\ dm[d].pc = "cycle" /\ o \in Listed(d)
    /\ Matched(o, rec, dm[d].snap) = NoBroker
    /\ IF /\ ~(rec.state \in {"ACKNOWLEDGED", "PARTIAL"} /\ dm[d].positions)
          /\ CanMove(o, "REJECTED")
         THEN rows' = [rows EXCEPT ![o] = MovedRow(@, "REJECTED", NoBroker, @.filled)]
         ELSE UNCHANGED rows
    /\ Finish(d, o)
    /\ UNCHANGED <<book, crashes>>

(* The stale record is already in the target state, or the status has no    *)
(* target: only the fill is compared, against the stale record.             *)
SyncFillInPlace(d, o) ==
    LET rec   == dm[d].listed[o]
        b     == Matched(o, rec, dm[d].snap)
        entry == dm[d].snap[b]
    IN
    /\ dm[d].pc = "cycle" /\ o \in Listed(d) /\ b # NoBroker
    /\ TargetState(entry) \in {"UNKNOWN", rec.state}
    /\ rows' = IF entry.filled # rec.filled
                 THEN [rows EXCEPT ![o] = RefilledRow(@, entry.filled)]
                 ELSE rows
    /\ Finish(d, o)
    /\ UNCHANGED <<book, crashes>>

(* Mutant of LastMove: the broker's fill is not compared after the move. *)
LastMoveOnly(d, o, b) ==
    LET entry == dm[d].snap[b]
        t     == TargetState(entry)
        fill  == IF t \in {"PARTIAL", "FILLED"} THEN entry.filled ELSE rows[o].filled
    IN  /\ IF CanMove(o, t)
             THEN rows' = [rows EXCEPT ![o] = MovedRow(@, t, b, fill)]
             ELSE UNCHANGED rows
        /\ Finish(d, o)

(* The last transition of _move_to_state: it alone carries the broker id    *)
(* and, for PARTIAL and FILLED, the fill.  Any other target leaves the fill *)
(* to a second transaction.  An illegal move raises and the order is done.  *)
LastMove(d, o, b) ==
    LET entry == dm[d].snap[b]
        t     == TargetState(entry)
        fill  == IF t \in {"PARTIAL", "FILLED"} THEN entry.filled ELSE rows[o].filled
    IN  IF CanMove(o, t)
          THEN /\ rows' = [rows EXCEPT ![o] = MovedRow(@, t, b, fill)]
               /\ IF fill = entry.filled THEN Finish(d, o) ELSE Suspend(d, o, "fill")
          ELSE /\ UNCHANGED rows
               /\ Finish(d, o)

(* The path is computed from the stale state and its first edge taken. *)
SyncState(d, o) ==
    LET rec == dm[d].listed[o]
        b   == Matched(o, rec, dm[d].snap)
        t   == TargetState(dm[d].snap[b])
    IN
    /\ dm[d].pc = "cycle" /\ o \in Listed(d) /\ b # NoBroker
    /\ t \notin {"UNKNOWN", rec.state}
    /\ \/ /\ t \in ValidTransitions[rec.state]
          /\ LastMove(d, o, b)
       \/ /\ t \notin ValidTransitions[rec.state]
          /\ \E m \in Bridges(rec.state, t) :
                IF CanMove(o, m)
                  THEN /\ rows' = [rows EXCEPT ![o] = MovedRow(@, m, NoBroker, @.filled)]
                       /\ Suspend(d, o, "bridge")
                  ELSE /\ UNCHANGED rows
                       /\ Finish(d, o)
       \/ /\ ~HasPath(rec.state, t)
          /\ UNCHANGED rows
          /\ Finish(d, o)
    /\ UNCHANGED <<book, crashes>>

(* The second edge of a two-edge path. *)
BridgeMove(d) ==
    LET o == dm[d].cur IN
    /\ dm[d].pc = "bridge"
    /\ LastMove(d, o, Matched(o, dm[d].listed[o], dm[d].snap))
    /\ UNCHANGED <<book, crashes>>

(* set_filled_quantity after a move that did not carry the fill. *)
SyncFillAfterMove(d) ==
    LET o == dm[d].cur
        b == Matched(o, dm[d].listed[o], dm[d].snap)
    IN
    /\ dm[d].pc = "fill"
    /\ rows' = [rows EXCEPT ![o] = RefilledRow(@, dm[d].snap[b].filled)]
    /\ Finish(d, o)
    /\ UNCHANGED <<book, crashes>>

EndCycle(d) ==
    /\ dm[d].pc = "cycle" /\ Listed(d) = {}
    /\ dm' = [dm EXCEPT ![d] = IdleDaemon]
    /\ UNCHANGED <<rows, book, crashes>>

DaemonStep(d) ==
    \/ FetchBrokerOrders(d) \/ FetchBrokerPositions(d) \/ ListOrders(d)
    \/ \E o \in Orders : MissingOrder(d, o) \/ SyncFillInPlace(d, o) \/ SyncState(d, o)
    \/ BridgeMove(d) \/ SyncFillAfterMove(d) \/ EndCycle(d)

(* The process dies and a new one starts: only the store survives. *)
DaemonCrash(d) ==
    /\ crashes < MaxCrashes
    /\ dm[d].pc # "idle"
    /\ dm' = [dm EXCEPT ![d] = IdleDaemon]
    /\ crashes' = crashes + 1
    /\ UNCHANGED <<rows, book>>

-----------------------------------------------------------------------------
(* Rows a previous process leaves behind: NEW (placement deferred), SENT    *)
(* (died or killed while submitting), ACKNOWLEDGED, or PARTIAL, each under  *)
(* a key of its own.                                                        *)
KeyOf == CHOOSE f \in [Orders -> Keys] : \A o, p \in Orders : f[o] = f[p] => o = p

LeftBehind(o) ==
    [ state : {"NEW", "SENT", "ACKNOWLEDGED"}, key : {KeyOf[o]}, broker : {BrokerOf[o]}, filled : {0} ]
    \cup
    [ state : {"PARTIAL"}, key : {KeyOf[o]}, broker : {BrokerOf[o]}, filled : 1 .. Lot - 1 ]

ReconInit ==
    /\ rows \in [Orders -> UNION {LeftBehind(o) : o \in Orders}]
    /\ \A o \in Orders : rows[o] \in LeftBehind(o)
    /\ book \in [BrokerIds -> [status : {"NONE", "OPEN"}, filled : 0 .. Lot - 1]]
    /\ \A b \in BrokerIds : book[b].status = "NONE" => book[b].filled = 0
    /\ \A o \in Orders : \A b \in BrokerIds \cap {o, BrokerOf[o]} :
            book[b].status = "OPEN" => book[b].filled = rows[o].filled
    /\ dm = [d \in Daemons |-> IdleDaemon]
    /\ crashes = 0

ReconNext ==
    \/ \E b \in BrokerIds : BrokerStep(b) /\ UNCHANGED <<rows, dm, crashes>>
    \/ \E d \in Daemons : DaemonStep(d) \/ SnapshotFails(d) \/ DaemonCrash(d)

(* The daemon's thread loops every few seconds until the process stops, so  *)
(* its steps are weakly fair; the broker's API answers infinitely often, so *)
(* a fetch that keeps being retried succeeds.                               *)
ReconFairness ==
    \A d \in Daemons : WF_reconVars(DaemonStep(d)) /\ SF_reconVars(FetchBrokerPositions(d))

ReconSpec == ReconInit /\ [][ReconNext]_reconVars /\ ReconFairness

-----------------------------------------------------------------------------
(* Properties *)

(* Types, and an order is in a daemon's hand exactly between the            *)
(* transactions of one repair.                                              *)
ReconTypeOK ==
    /\ rows \in [Orders -> Row]
    /\ book \in [BrokerIds -> BookEntry]
    /\ dm \in [Daemons -> [ pc : {"idle", "orders", "positions", "cycle", "bridge", "fill"},
                            snap : [BrokerIds -> BookEntry], positions : BOOLEAN,
                            listed : [Orders -> Row], cur : Orders \cup {NoOrder} ]]
    /\ \A d \in Daemons : dm[d].cur # NoOrder <=> dm[d].pc \in {"bridge", "fill"}
    /\ crashes \in 0 .. MaxCrashes

(* The broker entry an order belongs to, if the broker knows it. *)
Entry(o) == book[Matched(o, rows[o], book)]
Known(o) == Matched(o, rows[o], book) # NoBroker

(* However stale the snapshots are and however many daemons run, an order   *)
(* the broker knows is never closed in the store with another outcome than  *)
(* the broker's: nothing is marked FILLED that did not fill, nothing        *)
(* REJECTED that is working.                                                *)
TerminalAgreesWithBroker ==
    \A o \in Orders :
        rows[o].state \in Terminal /\ Known(o) => rows[o].state = TargetState(Entry(o))

(* The store never shows more filled than the broker has filled. *)
FillNeverInvented ==
    \A o \in Orders : Known(o) => rows[o].filled <= Entry(o).filled

BrokerClosed(o) == Known(o) /\ Entry(o).status \in ClosedStatuses
Repaired(o) ==
    Known(o) /\ rows[o].state = TargetState(Entry(o)) /\ rows[o].filled = Entry(o).filled

(* "repairs deterministic mismatches": an order the broker has closed ends  *)
(* up, and stays, in the matching state with the broker's fill.             *)
ClosedOrdersRepaired ==
    \A o \in Orders : [](BrokerClosed(o) => <>[]Repaired(o))

(* Seen as statuses and keys, every step of every daemon is a step of the   *)
(* lifecycle: closed orders stay closed and no edge is skipped, even when   *)
(* the path was computed from a stale state.                                *)
Lifecycle == INSTANCE OrderLifecycle
                WITH status <- [o \in Orders |-> rows[o].state],
                     owner  <- [o \in Orders |-> rows[o].key]
StepsFollowLifecycle == [][Lifecycle!LifecycleNext]_(Lifecycle!lifecycleVars)
=============================================================================
