------------------------ MODULE OrderRouting_proofs ------------------------
(***************************************************************************)
(* Proofs about OrderRouting, for every set of orders, keys and daemons    *)
(* and every lot.                                                          *)
(*                                                                         *)
(* The broker's book is empty for ever, so whatever a daemon has listed,   *)
(* all it can write is REJECTED, over a row that is not closed             *)
(* (DaemonRejects).  What the router and the daemons make of an order      *)
(* between them is then a matter of the stage the order has reached in     *)
(* execute(), or of how execute() left it: Progress says, for each, which  *)
(* rows and approvals are possible.                                        *)
(***************************************************************************)
EXTENDS OrderRouting, OrderReconciler_proofs

-----------------------------------------------------------------------------
(* Definitions *)

(* No daemon has ever seen an order at the broker. *)
BrokerUnaware == book = EmptyBook /\ \A d \in Daemons : dm[d].snap = EmptyBook

(* The only write of a daemon. *)
DaemonRejects(o) ==
    /\ CanMove(o, "REJECTED")
    /\ rows' = [rows EXCEPT ![o] = MovedRow(@, "REJECTED", NoBroker, @.filled)]

(* The row of an order in hand, unless a daemon has rejected it. *)
StageState ==
    CASE routeStage = "new"                         -> "NEW"
      [] routeStage \in {"sent", "approved"}        -> "SENT"
      [] routeStage \in {"simulating", "confirming"} -> "ACKNOWLEDGED"
      [] OTHER                                      -> "ABSENT"

(* execute() is at work on o: nothing is filled in the store, the approval   *)
(* is spent from the stage "approved" on, and the fill is logged when it is  *)
(* about to be confirmed.                                                    *)
InHand(o) ==
    /\ outcome[o] = "none"
    /\ rows[o].state \in {StageState, "REJECTED"} /\ rows[o].filled = 0
    /\ approval[o] = "consumed" <=> routeStage \in {"approved", "simulating", "confirming"}
    /\ routeStage = "confirming" => o \in fillEvents

(* What an order is that execute() has left, or has not begun. *)
Untouched(o) ==
    rows[o].state = "ABSENT" /\ rows[o].filled = 0 /\ approval[o] # "consumed"
ReportedFilled(o) ==
    /\ o \in fillEvents /\ approval[o] = "consumed"
    /\ rows[o].filled \in 1 .. Lot
    /\ rows[o].filled = Lot => rows[o].state = "FILLED"
    /\ rows[o].filled < Lot => rows[o].state \in {"PARTIAL", "REJECTED"}
ReportedAborted(o) == rows[o].state \in AbortStates /\ rows[o].filled = 0
LeftInFlight(o) ==
    /\ rows[o].state \in {"NEW", "SENT", "ACKNOWLEDGED", "REJECTED"} /\ rows[o].filled = 0
    /\ rows[o].state = "ACKNOWLEDGED" => approval[o] = "consumed"
    /\ rows[o].state = "NEW" => approval[o] # "consumed"

Rested(o) ==
    /\ outcome[o] = "none"    => Untouched(o)
    /\ outcome[o] = "filled"  => ReportedFilled(o)
    /\ outcome[o] = "aborted" => ReportedAborted(o)
    /\ outcome[o] \in {"raised", "lost"} => LeftInFlight(o)

Progress(o) == IF hand = o THEN InHand(o) ELSE Rested(o)

RoutingInv ==
    /\ TypeInv /\ RoutingTypeOK /\ BrokerUnaware
    /\ \A o \in Orders : Progress(o)
-----------------------------------------------------------------------------
(* The writes *)

USE OrderStatesAssumption, OrderReconcilerAssumption

LEMMA RouteStates ==
    /\ AbortStates \subseteq OrderState
    /\ {"NEW", "SENT", "ACKNOWLEDGED", "PARTIAL", "FILLED", "REJECTED"} \subseteq OrderState
BY DEF AbortStates, OrderState

(* transition() by the router moves the row of one order, and no other.      *)
LEMMA MoveFacts ==
    ASSUME ReconTypeOK, NEW o \in Orders, NEW s, NEW q \in Nat, TryMove(o, s, q)
    PROVE  /\ rows' \in [Orders -> Row]
           /\ rows[o].state \in OrderState \ Terminal
           /\ rows'[o].state = s /\ rows'[o].filled = q /\ rows'[o].key = rows[o].key
           /\ \A p \in Orders \ {o} : rows'[p] = rows[p]
<1> DEFINE n == MovedRow(rows[o], s, NoBroker, q)
<1>1. rows \in [Orders -> Row] /\ rows[o] \in Row
  BY DEF ReconTypeOK
<1>2. CanMove(o, s) /\ rows' = [rows EXCEPT ![o] = n]
  BY DEF TryMove
<1>3. s \in OrderState /\ rows[o].state \in OrderState \ Terminal
  BY <1>1, <1>2, CanMoveFacts
<1>4. n \in Row /\ n.state = s /\ n.filled = q /\ n.key = rows[o].key
  BY <1>1, <1>3, MovedRowFacts
<1> HIDE DEF n
<1> QED
  BY <1>1, <1>2, <1>3, <1>4

(* A daemon that knows of no order at the broker finds no match. *)
LEMMA NothingMatches ==
    ASSUME BrokerUnaware, NEW d \in Daemons, NEW o
    PROVE  MatchOf(d, o) = NoBroker
<1>1. \A b \in BrokerIds : dm[d].snap[b].status = "NONE"
  BY DEF BrokerUnaware, EmptyBook
<1> QED
  BY <1>1, MatchedFacts DEF MatchOf

(* So whatever step a daemon takes, it rejects an order or writes nothing.   *)
LEMMA DaemonOnlyRejects ==
    ASSUME TypeInv, BrokerUnaware, NEW d \in Daemons,
           DaemonStep(d) \/ SnapshotFails(d)
    PROVE  /\ rows' = rows \/ \E o \in Orders : DaemonRejects(o)
           /\ BrokerUnaware'
           /\ crashes' = crashes
<1>1. ASSUME NEW o \in Orders, DaemonWrites(d, o)
      PROVE  DaemonRejects(o)
  <2>1. MatchOf(d, o) = NoBroker
    BY NothingMatches
  <2> QED
    BY <1>1, <2>1 DEF DaemonWrites, DaemonRejects
<1>2. /\ rows' = rows \/ \E o \in Orders : DaemonRejects(o)
      /\ book' = book /\ crashes' = crashes
  BY <1>1, DaemonWritesOneRow DEF TypeInv, SnapshotFails
<1>3. DaemonLocals(d)
  BY DaemonLocalStep
<1>4. ASSUME NEW e \in Daemons
      PROVE  dm'[e].snap = EmptyBook
  <2>1. CASE e # d
    BY <1>3, <2>1 DEF DaemonLocals, BrokerUnaware
  <2>2. CASE e = d
    <3>1. LocalStep(d, dm[d], dm'[d])
      BY <1>3 DEF DaemonLocals
    <3>2. IdleDaemon.snap = EmptyBook
      BY DEF IdleDaemon
    <3> QED
      BY <2>2, <3>1, <3>2 DEF LocalStep, BrokerUnaware
  <2> QED
    BY <2>1, <2>2
<1> QED
  BY <1>2, <1>4 DEF BrokerUnaware

LEMMA RejectFacts ==
    ASSUME ReconTypeOK, NEW o \in Orders, DaemonRejects(o)
    PROVE  /\ rows' \in [Orders -> Row]
           /\ rows[o].state \in OrderState \ Terminal
           /\ rows'[o].state = "REJECTED"
           /\ rows'[o].filled = rows[o].filled /\ rows'[o].key = rows[o].key
           /\ \A p \in Orders \ {o} : rows'[p] = rows[p]
<1>1. rows[o].filled \in Nat
  BY DEF ReconTypeOK, Row
<1>2. TryMove(o, "REJECTED", rows[o].filled)
  BY DEF DaemonRejects, TryMove
<1> QED
  BY <1>1, <1>2, MoveFacts

(* A rejection fits wherever the router is with the order. *)
LEMMA RejectKeepsProgress ==
    ASSUME RoutingInv, NEW d \in Daemons, DaemonStep(d) \/ SnapshotFails(d),
           UNCHANGED routing, NEW o \in Orders
    PROVE  Progress(o)'
<1>1. TypeInv /\ ReconTypeOK /\ BrokerUnaware /\ Progress(o)
  BY DEF RoutingInv, TypeInv
<1>2. /\ hand' = hand /\ routeStage' = routeStage /\ outcome' = outcome
      /\ approval' = approval /\ fillEvents' = fillEvents
  BY DEF routing
<1>3. CASE rows'[o] = rows[o]
  BY <1>1, <1>2, <1>3 DEF Progress, InHand, Rested, Untouched, ReportedFilled, ReportedAborted,
                          LeftInFlight, StageState
<1>4. CASE DaemonRejects(o)
  <2>1. /\ rows[o].state \in OrderState \ Terminal
        /\ rows'[o].state = "REJECTED" /\ rows'[o].filled = rows[o].filled
    BY <1>1, <1>4, RejectFacts
  <2> QED
    BY <1>1, <1>2, <2>1 DEF Progress, InHand, Rested, Untouched, ReportedFilled, ReportedAborted,
                            LeftInFlight, StageState, OrderState, Terminal,
                            AbortStates
<1>5. ASSUME NEW p \in Orders \ {o}, DaemonRejects(p)
      PROVE  rows'[o] = rows[o]
  BY <1>1, <1>5, RejectFacts
<1> QED
  BY <1>1, <1>3, <1>4, <1>5, DaemonOnlyRejects
-----------------------------------------------------------------------------
(* The router's steps *)

(* An order that is not in hand before or after a step, and that the step    *)
(* leaves alone, stays as it was.                                            *)
LEMMA Elsewhere ==
    ASSUME NEW o, Progress(o), hand # o, hand' # o,
           rows'[o] = rows[o], outcome'[o] = outcome[o], approval'[o] = approval[o],
           o \in fillEvents => o \in fillEvents'
    PROVE  Progress(o)'
BY DEF Progress, Rested, Untouched, ReportedFilled, ReportedAborted, LeftInFlight

(* A step of the router touches no variable of a daemon. *)
LEMMA RouterKeepsTypes ==
    ASSUME TypeInv, BrokerUnaware, rows' \in [Orders -> Row], UNCHANGED daemons
    PROVE  TypeInv' /\ BrokerUnaware'
BY DEF TypeInv, ReconTypeOK, EntryInHand, ListingInCycle, OpenHasRest, MatchOf, daemons,
       BrokerUnaware

(* execute() leaves the order it has in hand. *)
LEMMA LeaveFacts ==
    ASSUME RoutingTypeOK, NEW o \in Orders,
           NEW result \in {"filled", "aborted", "raised", "lost"}, Leave(o, result)
    PROVE  /\ hand' = NoOrder /\ routeStage' = "idle" /\ simulated' = 0
           /\ outcome' \in [Orders -> {"none", "filled", "aborted", "raised", "lost"}]
           /\ outcome'[o] = result
           /\ \A p \in Orders \ {o} : outcome'[p] = outcome[p]
BY DEF Leave, RoutingTypeOK

LEMMA OpenKeepsInv ==
    ASSUME RoutingInv, NEW o \in Orders, OpenOrder(o)
    PROVE  RoutingInv'
<1> DEFINE n == NewRow(KeyOf[o], NoBroker, 0)
<1>1. TypeInv /\ RoutingTypeOK /\ BrokerUnaware /\ rows \in [Orders -> Row] /\ NoOrder \notin Orders
  BY DEF RoutingInv, RoutingTypeOK
<1>2. n \in Row /\ n.state = "NEW" /\ n.filled = 0
  <2>1. KeyOf[o] \in Keys
    BY DEF KeyOf
  <2> QED
    BY <2>1 DEF NewRow, Clamp, Row, OrderState
<1>3. rows' = [rows EXCEPT ![o] = n]
  BY DEF OpenOrder
<1> HIDE DEF n
<1>4. /\ rows' \in [Orders -> Row] /\ rows'[o] = n
      /\ \A p \in Orders \ {o} : rows'[p] = rows[p]
  BY <1>1, <1>2, <1>3
<1>5. TypeInv' /\ BrokerUnaware'
  BY <1>1, <1>4, RouterKeepsTypes DEF OpenOrder
<1>6. RoutingTypeOK'
  BY <1>1, <1>4 DEF OpenOrder, RoutingTypeOK, daemons
<1>7. ASSUME NEW p \in Orders \ {o}
      PROVE  Progress(p)'
  BY <1>1, <1>4, Elsewhere DEF OpenOrder, RoutingInv
<1>8. Progress(o)'
  <2>1. outcome[o] = "none" /\ Untouched(o)
    <3>1. hand # o /\ rows[o].state = "ABSENT" /\ Progress(o)
      BY <1>1 DEF OpenOrder, RoutingInv
    <3> QED
      BY <1>1, <3>1 DEF Progress, Rested, ReportedFilled, ReportedAborted,
                        LeftInFlight, RoutingTypeOK, AbortStates
  <2> QED
    BY <1>2, <1>4, <2>1 DEF OpenOrder, Progress, InHand, StageState, Untouched
<1> QED
  BY <1>5, <1>6, <1>7, <1>8 DEF RoutingInv

LEMMA GrantKeepsInv ==
    ASSUME RoutingInv, NEW o \in Orders, GrantApproval(o)
    PROVE  RoutingInv'
<1>1. TypeInv /\ RoutingTypeOK /\ BrokerUnaware /\ rows \in [Orders -> Row]
  BY DEF RoutingInv, RoutingTypeOK
<1>2. TypeInv' /\ BrokerUnaware'
  BY <1>1, RouterKeepsTypes DEF GrantApproval
<1>3. RoutingTypeOK'
  BY <1>1 DEF GrantApproval, RoutingTypeOK, daemons
<1>4. ASSUME NEW p \in Orders
      PROVE  Progress(p)'
  <2>1. Progress(p)
    BY DEF RoutingInv
  <2>2. approval'[p] = approval[p] \/ (approval[p] = "none" /\ approval'[p] = "approved")
    BY <1>1 DEF GrantApproval, RoutingTypeOK
  <2> QED
    BY <2>1, <2>2 DEF GrantApproval, Progress, InHand, StageState, Rested, Untouched,
                      ReportedFilled, ReportedAborted, LeftInFlight
<1> QED
  BY <1>2, <1>3, <1>4 DEF RoutingInv

(* Of a step of execute() on o it is enough to look at o. *)
LEMMA OnlyHand ==
    ASSUME RoutingInv, NEW o \in Orders, hand = o, hand' \in {o, NoOrder},
           UNCHANGED daemons, RoutingTypeOK', Progress(o)',
           \A p \in Orders \ {o} :
               /\ rows'[p] = rows[p] /\ outcome'[p] = outcome[p] /\ approval'[p] = approval[p]
               /\ p \in fillEvents => p \in fillEvents'
    PROVE  RoutingInv'
<1>1. TypeInv /\ RoutingTypeOK /\ BrokerUnaware /\ NoOrder \notin Orders
  BY DEF RoutingInv
<1>2. TypeInv' /\ BrokerUnaware'
  BY <1>1, RouterKeepsTypes DEF RoutingTypeOK
<1>3. ASSUME NEW p \in Orders \ {o}
      PROVE  Progress(p)'
  BY <1>1, <1>3, Elsewhere DEF RoutingInv
<1> QED
  BY <1>2, <1>3 DEF RoutingInv

(* An order in hand that execute() leaves as it is stays in flight. *)
LEMMA InFlightFacts ==
    ASSUME RoutingInv, NEW o \in Orders, hand = o
    PROVE  LeftInFlight(o)
<1>1. RoutingTypeOK /\ InHand(o) /\ routeStage # "idle"
  BY DEF RoutingInv, Progress, RoutingTypeOK
<1> QED
  BY <1>1 DEF InHand, StageState, LeftInFlight, RoutingTypeOK

(* An exception leaves the order where it was. *)
LEMMA RaisedKeepsInv ==
    ASSUME RoutingInv, NEW o \in Orders, hand = o, Leave(o, "raised"),
           UNCHANGED <<rows, daemons, approval, fillEvents>>
    PROVE  RoutingInv'
<1>1. RoutingTypeOK /\ rows \in [Orders -> Row] /\ NoOrder \notin Orders
  BY DEF RoutingInv, RoutingTypeOK
<1>2. LeftInFlight(o)
  BY InFlightFacts
<1>3. /\ hand' = NoOrder /\ routeStage' = "idle" /\ simulated' = 0 /\ rows' = rows
      /\ outcome' \in [Orders -> {"none", "filled", "aborted", "raised", "lost"}]
      /\ outcome'[o] = "raised"
      /\ \A p \in Orders \ {o} : outcome'[p] = outcome[p]
  BY <1>1, LeaveFacts
<1>4. RoutingTypeOK'
  BY <1>1, <1>3 DEF RoutingTypeOK, daemons
<1>5. Progress(o)'
  BY <1>1, <1>2, <1>3 DEF Progress, Rested, LeftInFlight
<1> QED
  BY <1>3, <1>4, <1>5, OnlyHand

LEMMA AbortKeepsInv ==
    ASSUME RoutingInv, NEW o \in Orders, AbortOrder(o)
    PROVE  RoutingInv'
<1>1. /\ TypeInv /\ ReconTypeOK /\ RoutingTypeOK /\ rows \in [Orders -> Row]
      /\ hand = o /\ InHand(o) /\ NoOrder \notin Orders
      /\ UNCHANGED <<daemons, approval, fillEvents>>
  BY DEF RoutingInv, RoutingTypeOK, Progress, TypeInv, AbortOrder
<1>2. PICK s \in IF routeStage = "sent" THEN {"REJECTED"} ELSE AbortStates :
         \/ TryMove(o, s, rows[o].filled) /\ Leave(o, "aborted")
         \/ MoveRaises(o, s)
  BY DEF AbortOrder
<1>3. s \in AbortStates
  BY <1>2 DEF AbortStates
<1>4. CASE MoveRaises(o, s)
  BY <1>1, <1>4, RaisedKeepsInv DEF MoveRaises
<1>5. CASE TryMove(o, s, rows[o].filled) /\ Leave(o, "aborted")
  <2>1. /\ rows' \in [Orders -> Row] /\ rows'[o].state = s /\ rows'[o].filled = 0
        /\ \A p \in Orders \ {o} : rows'[p] = rows[p]
    BY <1>1, <1>5, MoveFacts DEF InHand
  <2>2. /\ hand' = NoOrder /\ routeStage' = "idle" /\ simulated' = 0
        /\ outcome' \in [Orders -> {"none", "filled", "aborted", "raised", "lost"}]
        /\ outcome'[o] = "aborted"
        /\ \A p \in Orders \ {o} : outcome'[p] = outcome[p]
    BY <1>1, <1>5, LeaveFacts
  <2>3. RoutingTypeOK'
    BY <1>1, <2>1, <2>2 DEF RoutingTypeOK, daemons
  <2>4. Progress(o)'
    BY <1>1, <1>3, <2>1, <2>2 DEF Progress, Rested, ReportedAborted
  <2> QED
    BY <1>1, <2>1, <2>2, <2>3, <2>4, OnlyHand
<1> QED
  BY <1>2, <1>4, <1>5

LEMMA SendKeepsInv ==
    ASSUME RoutingInv, NEW o \in Orders, SendOrder(o)
    PROVE  RoutingInv'
<1>1. /\ ReconTypeOK /\ RoutingTypeOK /\ rows \in [Orders -> Row]
      /\ hand = o /\ InHand(o) /\ NoOrder \notin Orders /\ routeStage = "new"
      /\ UNCHANGED <<daemons, approval, fillEvents>>
  BY DEF RoutingInv, RoutingTypeOK, Progress, TypeInv, SendOrder
<1>2. CASE MoveRaises(o, "SENT")
  BY <1>1, <1>2, RaisedKeepsInv DEF MoveRaises
<1>3. CASE /\ TryMove(o, "SENT", rows[o].filled)
           /\ routeStage' = "sent" /\ UNCHANGED <<hand, simulated, outcome>>
  <2>1. /\ rows' \in [Orders -> Row] /\ rows'[o].state = "SENT" /\ rows'[o].filled = 0
        /\ \A p \in Orders \ {o} : rows'[p] = rows[p]
    BY <1>1, <1>3, MoveFacts DEF InHand
  <2>2. RoutingTypeOK'
    BY <1>1, <1>3, <2>1 DEF RoutingTypeOK, daemons
  <2>3. Progress(o)'
    BY <1>1, <1>3, <2>1 DEF Progress, InHand, StageState
  <2> QED
    BY <1>1, <1>3, <2>1, <2>2, <2>3, OnlyHand
<1> QED
  BY <1>2, <1>3 DEF SendOrder

LEMMA ConsumeKeepsInv ==
    ASSUME RoutingInv, NEW o \in Orders, ConsumeApproval(o)
    PROVE  RoutingInv'
<1>1. RoutingTypeOK /\ rows \in [Orders -> Row] /\ InHand(o) /\ NoOrder \notin Orders
  BY DEF RoutingInv, RoutingTypeOK, Progress, ConsumeApproval
<1>2. RoutingTypeOK'
  BY <1>1 DEF RoutingTypeOK, daemons, ConsumeApproval
<1>3. Progress(o)'
  BY <1>1 DEF Progress, InHand, StageState, ConsumeApproval, RoutingTypeOK
<1>4. \A p \in Orders \ {o} : approval'[p] = approval[p]
  BY <1>1 DEF ConsumeApproval, RoutingTypeOK
<1> QED
  BY <1>2, <1>3, <1>4, OnlyHand DEF ConsumeApproval

LEMMA AcknowledgeKeepsInv ==
    ASSUME RoutingInv, NEW o \in Orders, Acknowledge(o)
    PROVE  RoutingInv'
<1>1. /\ ReconTypeOK /\ RoutingTypeOK /\ rows \in [Orders -> Row]
      /\ hand = o /\ InHand(o) /\ NoOrder \notin Orders /\ routeStage = "approved"
      /\ UNCHANGED <<daemons, approval, fillEvents>>
  BY DEF RoutingInv, RoutingTypeOK, Progress, TypeInv, Acknowledge, ReadyToAcknowledge
<1>2. CASE MoveRaises(o, "ACKNOWLEDGED")
  BY <1>1, <1>2, RaisedKeepsInv DEF MoveRaises
<1>3. CASE /\ TryMove(o, "ACKNOWLEDGED", rows[o].filled)
           /\ routeStage' = "simulating" /\ UNCHANGED <<hand, simulated, outcome>>
  <2>1. /\ rows' \in [Orders -> Row] /\ rows'[o].state = "ACKNOWLEDGED" /\ rows'[o].filled = 0
        /\ \A p \in Orders \ {o} : rows'[p] = rows[p]
    BY <1>1, <1>3, MoveFacts DEF InHand
  <2>2. RoutingTypeOK'
    BY <1>1, <1>3, <2>1 DEF RoutingTypeOK, daemons
  <2>3. Progress(o)'
    BY <1>1, <1>3, <2>1 DEF Progress, InHand, StageState
  <2> QED
    BY <1>1, <1>3, <2>1, <2>2, <2>3, OnlyHand
<1> QED
  BY <1>2, <1>3 DEF Acknowledge

LEMMA SimulateKeepsInv ==
    ASSUME RoutingInv, NEW o \in Orders, Simulate(o)
    PROVE  RoutingInv'
<1>1. RoutingTypeOK /\ rows \in [Orders -> Row] /\ InHand(o) /\ NoOrder \notin Orders
  BY DEF RoutingInv, RoutingTypeOK, Progress, Simulate
<1>2. RoutingTypeOK'
  BY <1>1 DEF RoutingTypeOK, daemons, Simulate
<1>3. Progress(o)'
  BY <1>1 DEF Progress, InHand, StageState, Simulate
<1> QED
  BY <1>2, <1>3, OnlyHand DEF Simulate

LEMMA ConfirmKeepsInv ==
    ASSUME RoutingInv, NEW o \in Orders, ConfirmFill(o)
    PROVE  RoutingInv'
<1> DEFINE s == IF simulated < Lot THEN "PARTIAL" ELSE "FILLED"
<1>1. /\ ReconTypeOK /\ RoutingTypeOK /\ rows \in [Orders -> Row]
      /\ hand = o /\ InHand(o) /\ NoOrder \notin Orders /\ routeStage = "confirming"
      /\ UNCHANGED <<daemons, approval, fillEvents>>
  BY DEF RoutingInv, RoutingTypeOK, Progress, TypeInv, ConfirmFill
<1>2. simulated \in 1 .. Lot /\ simulated \in Nat
  BY <1>1 DEF RoutingTypeOK
<1>3. CASE MoveRaises(o, s)
  BY <1>1, <1>3, RaisedKeepsInv DEF MoveRaises
<1>4. CASE TryMove(o, s, simulated) /\ Leave(o, "filled")
  <2>1. /\ rows' \in [Orders -> Row] /\ rows'[o].state = s /\ rows'[o].filled = simulated
        /\ \A p \in Orders \ {o} : rows'[p] = rows[p]
    BY <1>1, <1>2, <1>4, MoveFacts
  <2>2. /\ hand' = NoOrder /\ routeStage' = "idle" /\ simulated' = 0
        /\ outcome' \in [Orders -> {"none", "filled", "aborted", "raised", "lost"}]
        /\ outcome'[o] = "filled"
        /\ \A p \in Orders \ {o} : outcome'[p] = outcome[p]
    BY <1>1, <1>4, LeaveFacts
  <2>3. RoutingTypeOK'
    BY <1>1, <2>1, <2>2 DEF RoutingTypeOK, daemons
  <2>4. Progress(o)'
    BY <1>1, <1>2, <2>1, <2>2 DEF Progress, InHand, Rested, ReportedFilled
  <2> QED
    BY <1>1, <2>1, <2>2, <2>3, <2>4, OnlyHand
<1> QED
  BY <1>3, <1>4 DEF ConfirmFill

(* Only the store, the approvals and the event log survive; the cycle never  *)
(* hears of the order it had in hand.                                        *)
LEMMA DeathKeepsInv ==
    ASSUME RoutingInv, ProcessDies
    PROVE  RoutingInv'
<1>1. /\ TypeInv /\ RoutingTypeOK /\ BrokerUnaware /\ rows \in [Orders -> Row]
      /\ NoOrder \notin Orders /\ crashes \in Nat /\ MaxCrashes \in Nat
  BY DEF RoutingInv, RoutingTypeOK
<1>2. /\ dm' = [d \in Daemons |-> IdleDaemon] /\ book' = book /\ rows' = rows
      /\ approval' = approval /\ fillEvents' = fillEvents
      /\ crashes < MaxCrashes /\ crashes' = crashes + 1
  BY DEF ProcessDies
<1>3. IdleDaemon.snap = EmptyBook
  BY DEF IdleDaemon
<1>4. ReconTypeOK'
  BY <1>1, <1>2, IdleDaemonFacts DEF TypeInv, ReconTypeOK, Local
<1>5. EntryInHand' /\ ListingInCycle' /\ OpenHasRest' /\ BrokerUnaware'
  BY <1>1, <1>2, <1>3, IdleDaemonFacts
  DEF TypeInv, EntryInHand, ListingInCycle, OpenHasRest, BrokerUnaware
<1>6. CASE hand = NoOrder
  <2>1. UNCHANGED <<hand, routeStage, simulated, outcome>>
    BY <1>6 DEF ProcessDies
  <2>2. RoutingTypeOK'
    BY <1>1, <1>2, <2>1 DEF RoutingTypeOK
  <2>3. ASSUME NEW o \in Orders PROVE Progress(o)'
    BY <1>1, <1>2, <1>6, <2>1, Elsewhere DEF RoutingInv
  <2> QED
    BY <1>4, <1>5, <2>2, <2>3 DEF RoutingInv, TypeInv
<1>7. CASE hand # NoOrder
  <2>1. hand \in Orders /\ Leave(hand, "lost")
    BY <1>1, <1>7 DEF ProcessDies, RoutingTypeOK
  <2>2. PICK o \in Orders : o = hand
    BY <2>1
  <2>3. /\ hand' = NoOrder /\ routeStage' = "idle" /\ simulated' = 0
        /\ outcome' \in [Orders -> {"none", "filled", "aborted", "raised", "lost"}]
        /\ outcome'[o] = "lost"
        /\ \A p \in Orders \ {o} : outcome'[p] = outcome[p]
    BY <1>1, <2>1, <2>2, LeaveFacts
  <2>4. RoutingTypeOK'
    BY <1>1, <1>2, <2>3 DEF RoutingTypeOK
  <2>5. ASSUME NEW p \in Orders \ {o} PROVE Progress(p)'
    BY <1>1, <1>2, <2>2, <2>3, <2>5, Elsewhere DEF RoutingInv
  <2>6. Progress(o)'
    <3>1. LeftInFlight(o)
      BY <2>2, InFlightFacts
    <3> QED
      BY <1>1, <1>2, <2>3, <3>1 DEF Progress, Rested, LeftInFlight
  <2> QED
    BY <1>4, <1>5, <2>4, <2>5, <2>6 DEF RoutingInv, TypeInv
<1> QED
  BY <1>6, <1>7

LEMMA DaemonKeepsRouting ==
    ASSUME RoutingInv, NEW d \in Daemons, DaemonStep(d) \/ SnapshotFails(d), UNCHANGED routing
    PROVE  RoutingInv'
<1>1. TypeInv /\ RoutingTypeOK /\ BrokerUnaware
  BY DEF RoutingInv
<1>2. TypeInv' /\ BrokerUnaware' /\ crashes' = crashes
  BY <1>1, DaemonKeepsTypes, DaemonOnlyRejects
<1>3. RoutingTypeOK'
  BY <1>1, <1>2 DEF RoutingTypeOK, routing, TypeInv, ReconTypeOK
<1>4. ASSUME NEW o \in Orders PROVE Progress(o)'
  BY RejectKeepsProgress
<1> QED
  BY <1>2, <1>3, <1>4 DEF RoutingInv

LEMMA InitRouting == RoutingInit => RoutingInv
<1> SUFFICES ASSUME RoutingInit PROVE RoutingInv
  OBVIOUS
<1>1. /\ rows = [o \in Orders |-> AbsentRow] /\ book = EmptyBook
      /\ dm = [d \in Daemons |-> IdleDaemon] /\ crashes = 0
  BY DEF RoutingInit
<1>2. /\ AbsentRow.state = "ABSENT" /\ AbsentRow.filled = 0
      /\ IdleDaemon.snap = EmptyBook
      /\ EmptyBook \in [BrokerIds -> BookEntry]
      /\ \A b \in BrokerIds : EmptyBook[b].status = "NONE"
  BY DEF AbsentRow, IdleDaemon, EmptyBook, BookEntry
<1>3. ReconTypeOK
  BY <1>1, <1>2, AbsentRowFacts, IdleDaemonFacts DEF ReconTypeOK, Local
<1>4. EntryInHand /\ ListingInCycle /\ OpenHasRest /\ BrokerUnaware
  BY <1>1, <1>2, IdleDaemonFacts
  DEF EntryInHand, ListingInCycle, OpenHasRest, OpenStatuses, BrokerUnaware
<1>5. RoutingTypeOK
  BY <1>3 DEF ReconTypeOK, RoutingInit, RoutingTypeOK
<1>6. ASSUME NEW o \in Orders PROVE Progress(o)
  BY <1>1, <1>2 DEF RoutingInit, Progress, Rested, Untouched
<1> QED
  BY <1>3, <1>4, <1>5, <1>6 DEF RoutingInv, TypeInv

LEMMA StepRouting ==
    ASSUME RoutingInv, [RoutingNext]_routingVars
    PROVE  RoutingInv'
<1>1. ASSUME NEW o \in Orders, OpenOrder(o) \/ GrantApproval(o)
      PROVE  RoutingInv'
  BY <1>1, OpenKeepsInv, GrantKeepsInv
<1>2. CASE RouteStep
  BY <1>2, AbortKeepsInv, SendKeepsInv, ConsumeKeepsInv, AcknowledgeKeepsInv,
     SimulateKeepsInv, ConfirmKeepsInv, RaisedKeepsInv DEF RouteStep, ExecuteFails
<1>3. ASSUME NEW d \in Daemons, DaemonStep(d) \/ SnapshotFails(d), UNCHANGED routing
      PROVE  RoutingInv'
  BY <1>3, DaemonKeepsRouting
<1>4. CASE ProcessDies
  BY <1>4, DeathKeepsInv
<1>5. CASE UNCHANGED routingVars
  BY <1>5 DEF routingVars, RoutingInv, TypeInv, ReconTypeOK, EntryInHand, ListingInCycle,
              OpenHasRest, MatchOf, RoutingTypeOK, BrokerUnaware, Progress, InHand, StageState,
              Rested, Untouched, ReportedFilled, ReportedAborted, LeftInFlight
<1> QED
  BY <1>1, <1>2, <1>3, <1>4, <1>5 DEF RoutingNext

(* The inductive invariant: for every stage of execute() and every way out   *)
(* of it, the rows, approvals and events an order can have with the daemons  *)
(* working behind the router's back.                                         *)
THEOREM RoutingInvariant == RoutingSpec => []RoutingInv
BY InitRouting, StepRouting, PTL DEF RoutingSpec

(* Stage, hand, simulated quantity and the rest stay well typed, and an      *)
(* order is in hand exactly while execute() runs.                            *)
THEOREM RoutingTypes == RoutingSpec => []RoutingTypeOK
<1>1. RoutingInv => RoutingTypeOK
  BY DEF RoutingInv
<1> QED
  BY <1>1, RoutingInvariant, PTL

(* What execute() told the cycle stays true of the store, whatever a daemon  *)
(* does to the order during the call or after it.                            *)
THEOREM RoutingReportsAgree == RoutingSpec => []ReportAgreesWithStore
<1>1. RoutingInv => ReportAgreesWithStore
  <2> SUFFICES ASSUME RoutingInv, NEW o \in Orders
               PROVE  CASE outcome[o] = "filled"  ->
                             /\ o \in fillEvents /\ rows[o].filled > 0
                             /\ rows[o].state = "FILLED" <=> rows[o].filled = Lot
                             /\ rows[o].filled < Lot => rows[o].state \in {"PARTIAL", "REJECTED"}
                        [] outcome[o] = "aborted" -> rows[o].state \in AbortStates /\ rows[o].filled = 0
                        [] outcome[o] = "raised"  ->
                             /\ rows[o].state \in {"NEW", "SENT", "ACKNOWLEDGED", "REJECTED"}
                             /\ rows[o].filled = 0
                        [] OTHER                  -> rows[o].filled = 0
    BY DEF ReportAgreesWithStore
  <2>1. /\ outcome[o] \in {"none", "filled", "aborted", "raised", "lost"}
        /\ IF hand = o THEN InHand(o) ELSE Rested(o)
    BY DEF RoutingInv, RoutingTypeOK, Progress
  <2>2. CASE outcome[o] = "filled"
    <3>1. ReportedFilled(o)
      BY <2>1, <2>2 DEF InHand, Rested
    <3>2. /\ o \in fillEvents /\ rows[o].filled > 0
          /\ rows[o].state = "FILLED" <=> rows[o].filled = Lot
          /\ rows[o].filled < Lot => rows[o].state \in {"PARTIAL", "REJECTED"}
      BY <3>1 DEF ReportedFilled
    <3> QED
      BY <2>2, <3>2
  <2>3. CASE outcome[o] # "filled"
    BY <2>1, <2>3 DEF InHand, Rested, Untouched, ReportedAborted, LeftInFlight
  <2> QED
    BY <2>2, <2>3
<1> QED
  BY <1>1, RoutingInvariant, PTL

(* No order gets past SENT without its approval having been spent, and no    *)
(* approval is spent on an order that was never sent.                        *)
THEOREM RoutingNeedsApproval == RoutingSpec => []AcknowledgedWasApproved
<1>1. RoutingInv => AcknowledgedWasApproved
  <2> SUFFICES ASSUME RoutingInv, NEW o \in Orders
               PROVE  /\ rows[o].state \in {"ACKNOWLEDGED", "PARTIAL", "FILLED"}
                            => approval[o] = "consumed"
                      /\ approval[o] = "consumed" => rows[o].state \notin {"ABSENT", "NEW"}
    BY DEF AcknowledgedWasApproved
  <2>1. /\ outcome[o] \in {"none", "filled", "aborted", "raised", "lost"}
        /\ IF hand = o THEN InHand(o) ELSE Rested(o)
        /\ hand # NoOrder <=> routeStage # "idle"
        /\ routeStage \in {"idle", "new", "sent", "approved", "simulating", "confirming"}
        /\ NoOrder \notin Orders /\ rows[o].filled \in Nat /\ Lot \in Nat
    BY DEF RoutingInv, RoutingTypeOK, Progress, Row
  <2>2. CASE hand = o
    BY <2>1, <2>2 DEF InHand, StageState
  <2>3. CASE hand # o
    BY <2>1, <2>3 DEF Rested, Untouched, ReportedFilled, ReportedAborted,
                      LeftInFlight, AbortStates
  <2> QED
    BY <2>2, <2>3
<1> QED
  BY <1>1, RoutingInvariant, PTL
-----------------------------------------------------------------------------
(* Refinement of the lifecycle *)

(* A row has the key its order was opened under, and no order another's. *)
OwnKeys == \A o \in Orders : rows[o].key = IF rows[o].state = "ABSENT" THEN NoKey ELSE KeyOf[o]

LEMMA KeyOfFacts ==
    /\ KeyOf \in [Orders -> Keys]
    /\ \A o, p \in Orders : KeyOf[o] = KeyOf[p] => o = p
BY DEF KeyOf

(* Whoever acts, the table changes by a birth or by one move. *)
LEMMA RowsEffect ==
    ASSUME RoutingInv, [RoutingNext]_routingVars
    PROVE  \/ rows' = rows
           \/ \E o \in Orders : OpenOrder(o)
           \/ \E o \in Orders : \E q \in Nat : \E s \in OrderState : TryMove(o, s, q)
<1>1. /\ TypeInv /\ ReconTypeOK /\ BrokerUnaware
      /\ \A o \in Orders : rows[o].filled \in Nat
      /\ simulated \in Nat
  BY DEF RoutingInv, TypeInv, ReconTypeOK, Row, RoutingTypeOK
<1>2. ASSUME NEW o \in Orders, NEW q \in Nat, NEW s, TryMove(o, s, q)
      PROVE  \E r \in OrderState : TryMove(o, r, q)
  <2>1. s \in OrderState
    BY <1>1, <1>2, CanMoveFacts DEF TryMove, ReconTypeOK
  <2> QED
    BY <1>2, <2>1
<1>3. ASSUME NEW o \in Orders, AbortOrder(o) \/ SendOrder(o) \/ Acknowledge(o) \/ ConfirmFill(o)
      PROVE  rows' = rows \/ \E q \in Nat : \E s \in OrderState : TryMove(o, s, q)
  <2>1. CASE AbortOrder(o)
    <3>1. rows' = rows \/ \E s : TryMove(o, s, rows[o].filled)
      BY <2>1 DEF AbortOrder, MoveRaises
    <3> QED
      BY <1>1, <1>2, <3>1
  <2>2. CASE SendOrder(o)
    <3>1. rows' = rows \/ TryMove(o, "SENT", rows[o].filled)
      BY <2>2 DEF SendOrder, MoveRaises
    <3> QED
      BY <1>1, <1>2, <3>1
  <2>3. CASE Acknowledge(o)
    <3>1. rows' = rows \/ TryMove(o, "ACKNOWLEDGED", rows[o].filled)
      BY <2>3 DEF Acknowledge, MoveRaises
    <3> QED
      BY <1>1, <1>2, <3>1
  <2>4. CASE ConfirmFill(o)
    <3>1. rows' = rows \/ \E s : TryMove(o, s, simulated)
      BY <2>4 DEF ConfirmFill, MoveRaises
    <3> QED
      BY <1>1, <1>2, <3>1
  <2> QED
    BY <1>3, <2>1, <2>2, <2>3, <2>4
<1>4. ASSUME NEW d \in Daemons, DaemonStep(d) \/ SnapshotFails(d)
      PROVE  \/ rows' = rows
             \/ \E o \in Orders : \E q \in Nat : \E s \in OrderState : TryMove(o, s, q)
  <2>1. rows' = rows \/ \E o \in Orders : DaemonRejects(o)
    BY <1>1, <1>4, DaemonOnlyRejects
  <2>2. ASSUME NEW o \in Orders, DaemonRejects(o)
        PROVE  TryMove(o, "REJECTED", rows[o].filled)
    BY <2>2 DEF DaemonRejects, TryMove
  <2> QED
    BY <1>1, <2>1, <2>2, RouteStates
<1>5. \/ rows' = rows
      \/ \E o \in Orders : OpenOrder(o)
      \/ \E o \in Orders : AbortOrder(o) \/ SendOrder(o) \/ Acknowledge(o) \/ ConfirmFill(o)
      \/ \E d \in Daemons : DaemonStep(d) \/ SnapshotFails(d)
  BY DEF RoutingNext, RouteStep, GrantApproval, ConsumeApproval, Simulate, ExecuteFails,
         ProcessDies, routingVars
<1> QED
  BY <1>3, <1>4, <1>5

LEMMA MoveAdvances ==
    ASSUME ReconTypeOK, OwnKeys, NEW o \in Orders, NEW q \in Nat, NEW s \in OrderState,
           TryMove(o, s, q)
    PROVE  OwnKeys' /\ Lifecycle!LifecycleNext
<1>1. /\ rows \in [Orders -> Row] /\ rows' \in [Orders -> Row]
      /\ rows[o].state \in OrderState \ Terminal
      /\ rows'[o].state = s /\ rows'[o].key = rows[o].key
      /\ \A p \in Orders \ {o} : rows'[p] = rows[p]
  BY MoveFacts DEF ReconTypeOK
<1>2. s \in ValidTransitions[rows[o].state]
  BY DEF TryMove, CanMove
<1>3. OwnKeys'
  BY <1>1, TableFacts DEF OwnKeys
<1>4. statusOf' = [statusOf EXCEPT ![o] = s] /\ ownerOf' = ownerOf
  BY <1>1 DEF statusOf, ownerOf
<1>5. s \in Lifecycle!OrderState /\ s \in Lifecycle!ValidTransitions[statusOf[o]]
  BY <1>1, <1>2 DEF statusOf, ValidTransitions, Lifecycle!ValidTransitions,
                    Lifecycle!OrderState, OrderState, Lifecycle!Terminal, Terminal
<1>6. statusOf[o] # "ABSENT"
  BY <1>1, TableFacts DEF statusOf
<1>7. Lifecycle!Advance(o, s)
  BY <1>4, <1>5, <1>6 DEF Lifecycle!Advance, statusOf, ownerOf
<1> QED
  BY <1>3, <1>5, <1>7 DEF Lifecycle!LifecycleNext

LEMMA OpenAppears ==
    ASSUME ReconTypeOK, OwnKeys, NEW o \in Orders, OpenOrder(o)
    PROVE  OwnKeys' /\ Lifecycle!LifecycleNext
<1> DEFINE n == NewRow(KeyOf[o], NoBroker, 0)
<1>1. rows \in [Orders -> Row] /\ rows[o].state = "ABSENT" /\ rows' = [rows EXCEPT ![o] = n]
  BY DEF ReconTypeOK, OpenOrder
<1>2. n.state = "NEW" /\ n.key = KeyOf[o]
  BY DEF NewRow
<1> HIDE DEF n
<1>3. /\ rows'[o].state = "NEW" /\ rows'[o].key = KeyOf[o]
      /\ \A p \in Orders \ {o} : rows'[p] = rows[p]
  BY <1>1, <1>2
<1>4. OwnKeys'
  BY <1>3 DEF OwnKeys
<1>5. PICK k \in Keys : k = KeyOf[o]
  BY KeyOfFacts
<1>6. \A p \in Orders : ownerOf[p] # k
  BY <1>1, <1>5, KeyOfFacts DEF OwnKeys, ownerOf
<1>7. statusOf' = [statusOf EXCEPT ![o] = "NEW"] /\ ownerOf' = [ownerOf EXCEPT ![o] = k]
  BY <1>1, <1>2, <1>5 DEF statusOf, ownerOf
<1>8. statusOf[o] = "ABSENT"
  BY <1>1 DEF statusOf
<1>9. Lifecycle!Appear(o, k)
  BY <1>6, <1>7, <1>8 DEF Lifecycle!Appear, statusOf, ownerOf
<1> QED
  BY <1>4, <1>9 DEF Lifecycle!LifecycleNext

(* Router and daemons, with a process that dies and comes back, take only    *)
(* steps of the lifecycle: what the daemon closed, the router never reopens. *)
THEOREM RoutingImplementsLifecycle == RoutingSpec => Lifecycle!LifecycleSpec
<1>1. RoutingInit => Lifecycle!LifecycleInit /\ OwnKeys
  BY AbsentRowFacts DEF RoutingInit, Lifecycle!LifecycleInit, AbsentRow, OwnKeys
<1>2. RoutingInv /\ OwnKeys /\ [RoutingNext]_routingVars
        => OwnKeys' /\ [Lifecycle!LifecycleNext]_(Lifecycle!lifecycleVars)
  <2> SUFFICES ASSUME RoutingInv, OwnKeys, [RoutingNext]_routingVars
               PROVE  /\ OwnKeys'
                      /\ \/ Lifecycle!LifecycleNext
                         \/ statusOf' = statusOf /\ ownerOf' = ownerOf
    BY DEF Lifecycle!lifecycleVars, statusOf, ownerOf
  <2>1. ReconTypeOK
    BY DEF RoutingInv, TypeInv
  <2>2. CASE rows' = rows
    BY <2>2 DEF OwnKeys, statusOf, ownerOf
  <2>3. ASSUME NEW o \in Orders, OpenOrder(o)
        PROVE  OwnKeys' /\ Lifecycle!LifecycleNext
    BY <2>1, <2>3, OpenAppears
  <2>4. ASSUME NEW o \in Orders, NEW q \in Nat, NEW s \in OrderState, TryMove(o, s, q)
        PROVE  OwnKeys' /\ Lifecycle!LifecycleNext
    BY <2>1, <2>4, MoveAdvances
  <2> QED
    BY <2>2, <2>3, <2>4, RowsEffect
<1> QED
  BY <1>1, <1>2, RoutingInvariant, PTL DEF RoutingSpec, Lifecycle!LifecycleSpec
=============================================================================
