----------------------------- MODULE OrderStore -----------------------------
(***************************************************************************)
(* core/orders/state_machine.py: class OrderStateMachine.  Each writer     *)
(* runs under _write_lock and one BEGIN IMMEDIATE transaction, so each is  *)
(* one action; an exception rolls the transaction back and changes         *)
(* nothing.  The triggers that mirror order_states into the orders table   *)
(* run inside the same statement and keep no state of their own.           *)
(*                                                                         *)
(* Callers are arbitrary here: any order, any key, any target state.  The  *)
(* modules OrderReconciler and OrderPlacement model the real callers.      *)
(***************************************************************************)
EXTENDS OrderStates

CONSTANTS
    Quantities, \* the filled quantities callers pass, negative ones included
    MaxEvents   \* bound: events recorded per order

ASSUME OrderStoreAssumption ==
    /\ Quantities \subseteq Int
    /\ MaxEvents \in Nat

VARIABLES
    rows,       \* order_states: order id -> row
    events      \* order_state_events: order id -> its events, oldest first

storeVars == <<rows, events>>

Event == [ from   : OrderState \cup {"NONE"},
           to     : OrderState,
           broker : BrokerIds \cup {NoBroker},
           filled : Nat ]

Present == {o \in Orders : rows[o].state # "ABSENT"}

StoreInit ==
    /\ rows = [o \in Orders |-> AbsentRow]
    /\ events = [o \in Orders |-> <<>>]

(* Mutant of WriteRow: the event is built from the row read at the start of *)
(* the transaction, so it records the fill before the update.               *)
WriteRowStaleEvent(o, r, from) ==
    /\ Len(events[o]) < MaxEvents
    /\ rows' = [rows EXCEPT ![o] = r]
    /\ events' = [events EXCEPT ![o] =
            Append(@, [from |-> from, to |-> r.state,
                       broker |-> r.broker, filled |-> rows[o].filled])]

(* Every writer appends one event that copies the row it has just written. *)
WriteRow(o, r, from) ==
    /\ Len(events[o]) < MaxEvents
    /\ rows' = [rows EXCEPT ![o] = r]
    /\ events' = [events EXCEPT ![o] =
            Append(@, [from |-> from, to |-> r.state,
                       broker |-> r.broker, filled |-> r.filled])]

(* Mutant of CreateOrder: only the order id is looked up, not the key. *)
CreateOrderById(o, k, b, q) ==
    /\ rows[o].state = "ABSENT"
    /\ WriteRow(o, NewRow(k, b, q), "NONE")

(* create_or_get_order when neither the id nor the key exists.  When one   *)
(* of them does, the call returns the old row or raises order_id_conflict  *)
(* and changes nothing.                                                    *)
CreateOrder(o, k, b, q) ==
    /\ rows[o].state = "ABSENT"
    /\ \A p \in Present : rows[p].key # k
    /\ WriteRow(o, NewRow(k, b, q), "NONE")

(* Mutant of Transition: validate_transition is not called. *)
TransitionUnvalidated(o, s, b, q) ==
    /\ o \in Present
    /\ WriteRow(o, MovedRow(rows[o], s, b, q), rows[o].state)

(* transition() with filled_qty=q; filled_qty=None is q = rows[o].filled.  *)
(* An unknown order or an edge outside the table raises.                   *)
Transition(o, s, b, q) ==
    /\ o \in Present
    /\ s \in ValidTransitions[rows[o].state]
    /\ WriteRow(o, MovedRow(rows[o], s, b, q), rows[o].state)

(* set_filled_quantity(): no check of the state, no event when nothing     *)
(* would change.                                                           *)
SetFilledQuantity(o, q) ==
    /\ o \in Present
    /\ Clamp(q) # rows[o].filled
    /\ WriteRow(o, RefilledRow(rows[o], q), rows[o].state)

StoreNext ==
    \E o \in Orders :
        \/ \E k \in Keys, b \in BrokerIds \cup {NoBroker}, q \in Quantities :
                CreateOrder(o, k, b, q)
        \/ \E s \in OrderState, b \in BrokerIds \cup {NoBroker},
              q \in Quantities \cup {rows[o].filled} :
                Transition(o, s, b, q)
        \/ \E q \in Quantities : SetFilledQuantity(o, q)

StoreSpec == StoreInit /\ [][StoreNext]_storeVars

-----------------------------------------------------------------------------
(* Properties *)

(* The table and the log hold values of the columns' types. *)
StoreTypeOK ==
    /\ rows \in [Orders -> Row]
    /\ events \in [Orders -> Seq(Event)]

(* An idempotency key names at most one order, so the row a caller gets    *)
(* back for its key is the order that key created.                         *)
KeysUnique ==
    \A o, p \in Present : rows[o].key = rows[p].key => o = p

(* The audit trail reconstructs the order: it starts at creation, each     *)
(* event starts where the one before ended, every step is an edge of the   *)
(* table or a fill update in place, and the last event is the current row. *)
AuditTrailFaithful ==
    \A o \in Orders :
        LET log == events[o] IN
        /\ o \notin Present => log = <<>>
        /\ o \in Present =>
            /\ Len(log) > 0
            /\ log[1].from = "NONE" /\ log[1].to = "NEW"
            /\ \A i \in 2 .. Len(log) :
                /\ log[i].from = log[i-1].to
                /\ \/ log[i].to \in ValidTransitions[log[i].from]
                   \/ log[i].to = log[i].from /\ log[i].filled # log[i-1].filled
            /\ log[Len(log)].to = rows[o].state
            /\ log[Len(log)].broker = rows[o].broker
            /\ log[Len(log)].filled = rows[o].filled

(* The store implements the lifecycle its readers rely on. *)
Lifecycle == INSTANCE OrderLifecycle
                WITH status <- [o \in Orders |-> rows[o].state],
                     owner  <- [o \in Orders |-> rows[o].key]
LifecycleImplemented == Lifecycle!LifecycleSpec
=============================================================================
