------------------------- MODULE MCControls_proofs -------------------------
(***************************************************************************)
(* The run lock, the risk halt, the breaker, the depth feed and the router *)
(* side by side, as the run of MCControls composes them: every step is,    *)
(* for each part, a step of its own or a stutter (EachControlSteps), and   *)
(* the invariants proved of the parts carry over as they are.              *)
(***************************************************************************)
EXTENDS MCControls, OrderRouting_proofs, Controls_proofs

(* What is proved of the five parts, all at once. *)
ControlsInv == RunLockTypeOK /\ HaltInv /\ BreakerInv /\ FeedInv /\ RoutingInv

(* A step of the composition is a step of each part, or leaves it alone. *)
LEMMA EachControlSteps ==
    [ControlsNext]_controlVars =>
        /\ [RunLockNext]_runLockVars
        /\ [HaltNext]_haltVars
        /\ [BreakerNext]_breakerVars
        /\ [FeedNext]_feedVars
        /\ [RoutingNext]_routingVars
BY DEF ControlsNext, Only, controlVars

(* What the run checks of the composition rests on what is proved of its     *)
(* parts: their invariants hold together, whichever part runs.               *)
THEOREM ControlsInvariant == ControlsSpec => []ControlsInv
<1>1. ControlsInit => ControlsInv
  <2> SUFFICES ASSUME ControlsInit PROVE ControlsInv
    OBVIOUS
  <2>1. RunLockTypeOK
    BY DEF ControlsInit, RunLockInit, RunLockTypeOK, Steps
  <2> QED
    BY <2>1, InitHalt, BreakerInitially, FeedInitInv, InitRouting
    DEF ControlsInit, ControlsInv
<1>2. ControlsInv /\ [ControlsNext]_controlVars => ControlsInv'
  <2> SUFFICES ASSUME ControlsInv, [ControlsNext]_controlVars PROVE ControlsInv'
    OBVIOUS
  <2>1. RunLockTypeOK'
    BY EachControlSteps, RunLockTypesStep DEF ControlsInv
  <2>2. HaltInv'
    BY EachControlSteps, StepHalt DEF ControlsInv
  <2>3. BreakerInv'
    BY EachControlSteps, BreakerStep DEF ControlsInv
  <2>4. FeedInv'
    BY EachControlSteps, FeedStepInv DEF ControlsInv
  <2>5. RoutingInv'
    BY EachControlSteps, StepRouting DEF ControlsInv
  <2> QED
    BY <2>1, <2>2, <2>3, <2>4, <2>5 DEF ControlsInv
<1> QED
  BY <1>1, <1>2, PTL DEF ControlsSpec

(* Which thread is where while a lock is held, a file is being written or an *)
(* order is in hand stays as the code has it, in the composition too.        *)
THEOREM ControlsTypes == ControlsSpec => []ControlsTypeOK
<1>1. ControlsInv => ControlsTypeOK
  BY DEF ControlsInv, HaltInv, BreakerInv, FeedInv, RoutingInv, ControlsTypeOK
<1> QED
  BY <1>1, ControlsInvariant, PTL
=============================================================================
