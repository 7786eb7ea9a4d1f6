---------------------------- MODULE OrderStates ----------------------------
(***************************************************************************)
(* The vocabulary of core/orders/state_machine.py: the states of an order, *)
(* the transition table, the rows of the order_states table and the three  *)
(* statements that write a row.  There are no variables here; OrderStore,  *)
(* OrderReconciler and OrderPlacement keep the table and call these.       *)
(*                                                                         *)
(* A row holds what the code branches on: state, idempotency key, broker   *)
(* order id and filled quantity.  Instrument, side, requested quantity,    *)
(* average price and the two timestamps are payload.                       *)
(***************************************************************************)
EXTENDS Integers, Sequences, FiniteSets

CONSTANTS
    Orders,     \* order ids
    Keys,       \* idempotency keys
    BrokerIds,  \* order ids issued by the broker
    NoKey,      \* the key of an order that has no row
    NoBroker    \* SQL NULL in broker_order_id

ASSUME OrderStatesAssumption ==
    /\ NoKey \notin Keys
    /\ NoBroker \notin BrokerIds

(* class OrderState *)
OrderState == {"NEW", "SENT", "ACKNOWLEDGED", "PARTIAL",
               "FILLED", "REJECTED", "CANCELLED", "EXPIRED"}

(* iter_terminal_states, and the NOT IN list of list_orders *)
Terminal == {"FILLED", "REJECTED", "CANCELLED", "EXPIRED"}

(* _VALID_TRANSITIONS: every live state may be closed; the rest are the   *)
(* forward edges of the lifecycle.                                         *)
ValidTransitions ==
    [ s \in OrderState |->
        CASE s = "NEW"          -> {"SENT", "REJECTED", "CANCELLED", "EXPIRED"}
          [] s = "SENT"         -> {"ACKNOWLEDGED", "PARTIAL"} \cup Terminal
          [] s = "ACKNOWLEDGED" -> {"PARTIAL"} \cup Terminal
          [] s = "PARTIAL"      -> {"PARTIAL"} \cup Terminal
          [] OTHER              -> {} ]

(* "ABSENT" is the state of an id that has no row. *)
Row == [ state  : OrderState \cup {"ABSENT"},
         key    : Keys \cup {NoKey},
         broker : BrokerIds \cup {NoBroker},
         filled : Nat ]

AbsentRow == [state |-> "ABSENT", key |-> NoKey, broker |-> NoBroker, filled |-> 0]

(* "if qty < 0: qty = 0.0", in each of the three writers *)
Clamp(q) == IF q < 0 THEN 0 ELSE q

(* The row that create_or_get_order inserts. *)
NewRow(k, b, q) == [state |-> "NEW", key |-> k, broker |-> b, filled |-> Clamp(q)]

(* The row after transition(): None (NoBroker) keeps the broker id. *)
MovedRow(r, s, b, q) ==
    [ state |-> s, key |-> r.key,
      broker |-> IF b = NoBroker THEN r.broker ELSE b,
      filled |-> Clamp(q) ]

(* Mutant of RefilledRow: the quantity is taken for an increment. *)
RefilledRowAdds(r, q) == [r EXCEPT !.filled = @ + Clamp(q)]

(* The row after set_filled_quantity(), whatever the state of the order. *)
RefilledRow(r, q) == [r EXCEPT !.filled = Clamp(q)]
=============================================================================
