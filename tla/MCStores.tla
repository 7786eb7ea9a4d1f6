------------------------------ MODULE MCStores ------------------------------
(* The order store, the approval store and the session lock side by side:   *)
(* they share no state, so "part" picks the one that runs and the state     *)
(* space is the sum of the three.  Two orders contend for two keys, with    *)
(* fills on both sides of zero and enough events to create, send and fill;  *)
(* two operators and two callers for one intent; three                      *)
(* processes and, so that a fresh file can always be created, four inodes.  *)
(* No liveness is checked, so orders, keys, operators and callers are       *)
(* symmetric.                                                               *)
EXTENDS OrderStore, ApprovalStore, InstanceLock, TLC

CONSTANTS o1, o2, k1, k2, q1, q2, c1, c2

VARIABLE part

MCQuantities == {-1, 2}
(* The parts share nothing, so one permutation may act on two of them: four  *)
(* serve as well as the sixteen of four sets.                                *)
Beside(f, x, a, b) == IF f[x] = x THEN (a :> a) @@ (b :> b) ELSE (a :> b) @@ (b :> a)
Interchangeable ==
    { f @@ g @@ Beside(f, o1, q1, q2) @@ Beside(g, k1, c1, c2) :
        f \in Permutations(Orders), g \in Permutations(Keys) }

StoresInit ==
    /\ part \in {"orders", "approvals", "session lock"}
    /\ StoreInit /\ ApprovalInit /\ LockInit

StoresNext ==
    \/ part = "orders" /\ StoreNext /\ UNCHANGED <<part, apprVars, lockVars>>
    \/ part = "approvals" /\ ApprovalNext /\ UNCHANGED <<part, storeVars, lockVars>>
    \/ part = "session lock" /\ LockNext /\ UNCHANGED <<part, storeVars, apprVars>>

StoresSpec == StoresInit /\ [][StoresNext]_<<part, storeVars, apprVars, lockVars>>
=============================================================================
