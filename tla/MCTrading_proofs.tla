-------------------------- MODULE MCTrading_proofs --------------------------
(***************************************************************************)
(* The three parts of the life of a trade, side by side as the run of      *)
(* MCTrading composes them.  While one part runs the variables of the      *)
(* others stand still, so every step is, for each part, a step of its own  *)
(* or a stutter (EachPartSteps), and the invariants proved of the parts    *)
(* carry over as they are.                                                 *)
(***************************************************************************)
EXTENDS MCTrading, OrderPlacement_proofs, Trading_proofs

(* What is proved of placement, reconciler and monitor, all at once. *)
TradingInv == PlaceInv /\ TruthInv /\ MonitorInv

(* A step of the composition is a step of each part, or leaves it alone. *)
LEMMA EachPartSteps ==
    [TradingNext]_tradingVars =>
        [PlaceNext]_placeVars /\ [TruthNext]_truthVars /\ [MonitorNext]_monitorVars
BY DEF TradingNext, tradingVars

(* What the run checks of the composition rests on what is proved of its     *)
(* parts: their invariants hold together, whichever part runs.               *)
THEOREM TradingInvariant == TradingSpec => []TradingInv
<1>1. TradingInit => TradingInv
  BY PlaceInitInv, TruthInitInv, MonitorInitInv DEF TradingInit, TradingInv
<1>2. TradingInv /\ [TradingNext]_tradingVars => TradingInv'
  <2> SUFFICES ASSUME TradingInv, [TradingNext]_tradingVars PROVE TradingInv'
    OBVIOUS
  <2>1. PlaceInv'
    BY EachPartSteps, PlaceStepInv DEF TradingInv
  <2>2. TruthInv'
    BY EachPartSteps, TruthStepInv DEF TradingInv
  <2>3. MonitorInv'
    BY EachPartSteps, MonitorStepInv DEF TradingInv
  <2> QED
    BY <2>1, <2>2, <2>3 DEF TradingInv
<1> QED
  BY <1>1, <1>2, PTL DEF TradingSpec

(* Rows, broker book, threads, daemons, the reconciler's cycle, the tracked  *)
(* trades and the position engine stay well typed in the composition.        *)
THEOREM TradingTypes == TradingSpec => []TradingTypeOK
<1>1. TradingInv => TradingTypeOK
  BY DEF TradingInv, PlaceInv, TypeInv, TruthInv, MonitorInv, TradingTypeOK
<1> QED
  BY <1>1, TradingInvariant, PTL
=============================================================================
