--------------------------- MODULE OrderLifecycle ---------------------------
(***************************************************************************)
(* What the order store promises every reader, with no mention of broker   *)
(* ids, fills, audit events or of who writes: an order is born NEW under a *)
(* key no other order has, keeps that key, moves only along the edges of   *)
(* the transition table, and never leaves a terminal state.  OrderStore,   *)
(* OrderReconciler, OrderPlacement and OrderRouting are shown to           *)
(* implement this.                                                         *)
(***************************************************************************)
EXTENDS OrderStates

VARIABLES
    status,     \* order id -> its state, "ABSENT" before the row exists
    owner       \* order id -> the idempotency key it was created under

lifecycleVars == <<status, owner>>

LifecycleInit ==
    /\ status = [o \in Orders |-> "ABSENT"]
    /\ owner = [o \in Orders |-> NoKey]

Appear(o, k) ==
    /\ status[o] = "ABSENT"
    /\ \A p \in Orders : owner[p] # k
    /\ status' = [status EXCEPT ![o] = "NEW"]
    /\ owner' = [owner EXCEPT ![o] = k]

Advance(o, s) ==
    /\ status[o] # "ABSENT"
    /\ s \in ValidTransitions[status[o]]
    /\ status' = [status EXCEPT ![o] = s]
    /\ UNCHANGED owner

LifecycleNext ==
    \E o \in Orders :
        \/ \E k \in Keys : Appear(o, k)
        \/ \E s \in OrderState : Advance(o, s)

LifecycleSpec == LifecycleInit /\ [][LifecycleNext]_lifecycleVars
=============================================================================
