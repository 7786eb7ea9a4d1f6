------------------------- MODULE MCOrderReconciler -------------------------
(* Bounds of the reconciler runs.  An order either carries the broker's id   *)
(* in its row or, when its own id is also in BrokerIds, is listed by the     *)
(* broker under its own id.  A lot of two has a partial fill between nothing *)
(* and everything, a lot of three one that grows into another.               *)
EXTENDS OrderReconciler, TLC
CONSTANTS o1, o2, b1
OneLinked == (o1 :> b1)
LinkedAndOwnId == (o1 :> b1) @@ (o2 :> NoBroker)
=============================================================================
