----------------------- MODULE OrderReconciler_proofs -----------------------
(***************************************************************************)
(* Proofs about OrderReconciler, for every set of orders, keys, broker ids *)
(* and daemons, every lot and every assignment of broker ids.              *)
(*                                                                         *)
(* A daemon writes from a snapshot and a listing that may both be stale.   *)
(* The argument that this is harmless has two halves.  The broker entry an *)
(* order belongs to, Home, never changes, and every copy of a row, in the  *)
(* store or in a listing, leads to it (AtHome).  A snapshot is never ahead *)
(* of the book, and a closed entry in it is final (SnapsBehind).           *)
(***************************************************************************)
EXTENDS OrderReconciler, TLAPS

-----------------------------------------------------------------------------
(* Definitions *)

(* The entry daemon d works on for o: matched through the row it listed.   *)
MatchOf(d, o) == Matched(o, dm[d].listed[o], dm[d].snap)
SeenBy(d, o) == dm[d].snap[MatchOf(d, o)]

(* Everything a daemon may do to the store, one disjunct per store call.   *)
DaemonWrites(d, o) ==
    /\ dm[d].listed[o].state # "ABSENT"
    /\ \/ /\ MatchOf(d, o) = NoBroker
          /\ CanMove(o, "REJECTED")
          /\ rows' = [rows EXCEPT ![o] = MovedRow(@, "REJECTED", NoBroker, @.filled)]
       \/ /\ MatchOf(d, o) \in BrokerIds
          /\ CanMove(o, TargetState(SeenBy(d, o)))
          /\ \E q \in {SeenBy(d, o).filled, rows[o].filled} :
               rows' = [rows EXCEPT ![o] = MovedRow(@, TargetState(SeenBy(d, o)), MatchOf(d, o), q)]
       \/ /\ MatchOf(d, o) \in BrokerIds
          /\ \E m \in OrderState :
               /\ ValidTransitions[m] # {}
               /\ CanMove(o, m)
               /\ rows' = [rows EXCEPT ![o] = MovedRow(@, m, NoBroker, @.filled)]
       \/ /\ MatchOf(d, o) \in BrokerIds
          /\ rows' = [rows EXCEPT ![o] = RefilledRow(@, SeenBy(d, o).filled)]

(* A daemon between two transactions of one repair has an entry in hand.   *)
EntryInHand ==
    \A d \in Daemons :
        dm[d].pc \in {"bridge", "fill"} => MatchOf(d, dm[d].cur) \in BrokerIds

(* The broker closes an order when the last of its lot is filled. *)
OpenHasRest == \A b \in BrokerIds : book[b].status \in OpenStatuses => book[b].filled < Lot

(* A listed order is in hand only while its cycle runs. *)
ListingInCycle ==
    \A d \in Daemons :
        /\ \A o \in Orders : dm[d].listed[o].state # "ABSENT" => dm[d].pc # "idle"
        /\ dm[d].pc \in {"bridge", "fill"} => dm[d].listed[dm[d].cur].state # "ABSENT"

TypeInv == ReconTypeOK /\ EntryInHand /\ ListingInCycle /\ OpenHasRest

(* The broker entry of o, found from the broker id the row started with. *)
Home(o) == Matched(o, [AbsentRow EXCEPT !.broker = BrokerOf[o]], book)

(* A broker id in a copy of the row of o is the first one or Home itself. *)
AtHome(o, r) == r.broker \in {BrokerOf[o], Home(o)}

RowsAtHome == \A o \in Orders : AtHome(o, rows[o])
ListedAtHome ==
    \A d \in Daemons, o \in Orders : dm[d].listed[o].state # "ABSENT" => AtHome(o, dm[d].listed[o])

(* What an earlier entry tells of a later one. *)
Behind(old, new) ==
    /\ old.status = "NONE" <=> new.status = "NONE"
    /\ old.filled <= new.filled
    /\ old.status \in ClosedStatuses => old = new

SnapsBehind ==
    \A d \in Daemons : dm[d].pc # "idle" =>
        \A b \in BrokerIds : Behind(dm[d].snap[b], book[b])

(* The two checked properties, told of Home. *)
FillsFromHome ==
    \A o \in Orders : Home(o) # NoBroker => rows[o].filled <= book[Home(o)].filled
EndsFromHome ==
    \A o \in Orders : Home(o) # NoBroker /\ rows[o].state \in Terminal =>
        rows[o].state = TargetState(book[Home(o)])

ReconInv ==
    /\ TypeInv
    /\ RowsAtHome /\ ListedAtHome
    /\ SnapsBehind
    /\ FillsFromHome /\ EndsFromHome

-----------------------------------------------------------------------------
(* Operators *)

USE OrderStatesAssumption, OrderReconcilerAssumption

(* The match of a row is a listed broker id, or none. *)
LEMMA MatchedFacts ==
    ASSUME NEW o, NEW r, NEW snap
    PROVE  /\ Matched(o, r, snap) \in BrokerIds \cup {NoBroker}
           /\ Matched(o, r, snap) # NoBroker => /\ Matched(o, r, snap) \in {r.broker, o} \cap BrokerIds
                                                /\ snap[Matched(o, r, snap)].status # "NONE"
           /\ Matched(o, r, snap) = NoBroker =>
                \A id \in {r.broker, o} \cap BrokerIds : snap[id].status = "NONE"
BY DEF Matched

(* The edges of the table join states of an order, and none of them leaves *)
(* a terminal state.                                                       *)
LEMMA TableFacts ==
    /\ \A s \in OrderState : ValidTransitions[s] \subseteq OrderState
    /\ \A s \in Terminal : ValidTransitions[s] = {}
    /\ Terminal \subseteq OrderState
    /\ "ABSENT" \notin OrderState
BY DEF OrderState, Terminal, ValidTransitions

LEMMA CanMoveFacts ==
    ASSUME NEW o \in Orders, NEW s, rows \in [Orders -> Row], CanMove(o, s)
    PROVE  /\ rows[o].state \in OrderState \ Terminal
           /\ s \in OrderState
           /\ s \in ValidTransitions[rows[o].state]
BY TableFacts DEF CanMove, Row

(* A quantity that is not negative is stored as it is. *)
LEMMA MovedRowFacts ==
    ASSUME NEW r \in Row, NEW s \in OrderState, NEW b \in BrokerIds \cup {NoBroker},
           NEW q \in Nat
    PROVE  /\ MovedRow(r, s, b, q) \in Row
           /\ MovedRow(r, s, b, q).state = s
           /\ MovedRow(r, s, b, q).key = r.key
           /\ MovedRow(r, s, b, q).filled = q
           /\ MovedRow(r, s, b, q).broker = IF b = NoBroker THEN r.broker ELSE b
<1>1. Clamp(q) = q
  BY DEF Clamp
<1> QED
  BY <1>1 DEF MovedRow, Row

LEMMA RefilledRowFacts ==
    ASSUME NEW r \in Row, NEW q \in Nat
    PROVE  /\ RefilledRow(r, q) \in Row
           /\ RefilledRow(r, q).state = r.state
           /\ RefilledRow(r, q).key = r.key
           /\ RefilledRow(r, q).broker = r.broker
           /\ RefilledRow(r, q).filled = q
<1>1. Clamp(q) = q
  BY DEF Clamp
<1> QED
  BY <1>1 DEF RefilledRow, Row

LEMMA AbsentRowFacts ==
    AbsentRow \in Row /\ AbsentRow.state = "ABSENT" /\ AbsentRow.broker = NoBroker
BY DEF AbsentRow, Row

(* What a broker entry means for the store is an end only if the entry is  *)
(* itself closed.                                                          *)
LEMMA TargetFacts ==
    ASSUME NEW e \in BookEntry, TargetState(e) \in Terminal
    PROVE  e.status \in ClosedStatuses
BY DEF BookEntry, TargetState, Terminal, OpenStatuses, ClosedStatuses

Local == [ pc : {"idle", "orders", "positions", "cycle", "bridge", "fill"},
           snap : [BrokerIds -> BookEntry], positions : BOOLEAN,
           listed : [Orders -> Row], cur : Orders \cup {NoOrder} ]

LEMMA IdleDaemonFacts ==
    /\ IdleDaemon \in Local /\ IdleDaemon.pc = "idle" /\ IdleDaemon.cur = NoOrder
    /\ \A o \in Orders : IdleDaemon.listed[o].state = "ABSENT"
<1>1. EmptyBook \in [BrokerIds -> BookEntry]
  BY DEF EmptyBook, BookEntry
<1> QED
  BY <1>1, AbsentRowFacts DEF IdleDaemon, Local

-----------------------------------------------------------------------------
(* What a step of a daemon does: to the store, and to its own variables *)

LEMMA EntryFacts ==
    ASSUME ReconTypeOK, NEW d \in Daemons, NEW o \in Orders, MatchOf(d, o) \in BrokerIds
    PROVE  SeenBy(d, o) \in BookEntry /\ SeenBy(d, o).filled \in Nat
<1>1. SeenBy(d, o) \in BookEntry
  BY DEF ReconTypeOK, SeenBy
<1> QED
  BY <1>1 DEF BookEntry

LEMMA LastMoveWrites ==
    ASSUME ReconTypeOK, NEW d \in Daemons, NEW o \in Orders, MatchOf(d, o) \in BrokerIds,
           dm[d].listed[o].state # "ABSENT", LastMove(d, o, MatchOf(d, o))
    PROVE  rows' = rows \/ DaemonWrites(d, o)
BY DEF LastMove, DaemonWrites, SeenBy, MatchOf

(* Whatever step a daemon takes, it writes at most one row, in one of the  *)
(* ways of DaemonWrites.                                                   *)
LEMMA DaemonWritesOneRow ==
    ASSUME ReconTypeOK, EntryInHand, ListingInCycle, NEW d \in Daemons, DaemonStep(d)
    PROVE  /\ rows' = rows \/ \E o \in Orders : DaemonWrites(d, o)
           /\ book' = book /\ crashes' = crashes
<1>1. CASE FetchBrokerOrders(d) \/ FetchBrokerPositions(d) \/ ListOrders(d) \/ EndCycle(d)
  BY <1>1 DEF FetchBrokerOrders, FetchBrokerPositions, ListOrders, EndCycle
<1>2. ASSUME NEW o \in Orders, MissingOrder(d, o)
      PROVE  (rows' = rows \/ DaemonWrites(d, o)) /\ book' = book /\ crashes' = crashes
  BY <1>2 DEF MissingOrder, DaemonWrites, MatchOf, Listed
<1>3. ASSUME NEW o \in Orders, SyncFillInPlace(d, o)
      PROVE  (rows' = rows \/ DaemonWrites(d, o)) /\ book' = book /\ crashes' = crashes
  BY <1>3, MatchedFacts DEF SyncFillInPlace, DaemonWrites, MatchOf, SeenBy, Listed
<1>4. ASSUME NEW o \in Orders, SyncState(d, o)
      PROVE  (rows' = rows \/ DaemonWrites(d, o)) /\ book' = book /\ crashes' = crashes
  <2> DEFINE rec == dm[d].listed[o]
             t == TargetState(SeenBy(d, o))
  <2>1. /\ MatchOf(d, o) \in BrokerIds /\ dm[d].listed[o].state # "ABSENT"
        /\ book' = book /\ crashes' = crashes
    BY <1>4, MatchedFacts DEF SyncState, MatchOf, Listed
  <2>2. CASE LastMove(d, o, MatchOf(d, o))
    BY <2>1, <2>2, LastMoveWrites
  <2>3. ASSUME NEW m \in Bridges(rec.state, t), CanMove(o, m),
               rows' = [rows EXCEPT ![o] = MovedRow(@, m, NoBroker, @.filled)]
        PROVE  DaemonWrites(d, o)
    <3>1. m \in OrderState /\ ValidTransitions[m] # {}
      BY <2>3, CanMoveFacts DEF Bridges, ReconTypeOK
    <3> QED
      BY <2>1, <2>3, <3>1 DEF DaemonWrites
  <2> QED
    BY <1>4, <2>1, <2>2, <2>3 DEF SyncState, MatchOf, SeenBy
<1>5. CASE BridgeMove(d)
  <2>1. /\ dm[d].cur \in Orders /\ MatchOf(d, dm[d].cur) \in BrokerIds
        /\ dm[d].listed[dm[d].cur].state # "ABSENT"
    BY <1>5 DEF BridgeMove, EntryInHand, ListingInCycle, ReconTypeOK
  <2> QED
    BY <1>5, <2>1, LastMoveWrites DEF BridgeMove, MatchOf
<1>6. CASE SyncFillAfterMove(d)
  <2>1. /\ dm[d].cur \in Orders /\ MatchOf(d, dm[d].cur) \in BrokerIds
        /\ dm[d].listed[dm[d].cur].state # "ABSENT"
    BY <1>6 DEF SyncFillAfterMove, EntryInHand, ListingInCycle, ReconTypeOK
  <2> QED
    BY <1>6, <2>1 DEF SyncFillAfterMove, DaemonWrites, MatchOf, SeenBy
<1> QED
  BY <1>1, <1>2, <1>3, <1>4, <1>5, <1>6 DEF DaemonStep

(* How the variables of a daemon may change in one step. *)
LocalStep(d, old, new) ==
    /\ new \in Local
    /\ new.cur # NoOrder <=> new.pc \in {"bridge", "fill"}
    /\ new.pc = "idle" => new = IdleDaemon
    /\ new.pc # "idle" => new.snap = book \/ (old.pc # "idle" /\ new.snap = old.snap)
    /\ \A o \in Orders : new.listed[o] \in {old.listed[o], rows[o], AbsentRow}
    /\ new.pc \in {"bridge", "fill"} =>
            /\ new.snap = old.snap /\ new.listed = old.listed
            /\ old.listed[new.cur].state # "ABSENT"
            /\ MatchOf(d, new.cur) \in BrokerIds

DaemonLocals(d) ==
    /\ \A e \in Daemons \ {d} : dm'[e] = dm[e]
    /\ dm' \in [Daemons -> Local]
    /\ LocalStep(d, dm[d], dm'[d])

(* Writing the variables of one daemon leaves the others theirs. *)
LEMMA DaemonAssigned ==
    ASSUME ReconTypeOK, NEW d \in Daemons, NEW x, LocalStep(d, dm[d], x),
           dm' = [dm EXCEPT ![d] = x]
    PROVE  DaemonLocals(d)
<1>1. dm \in [Daemons -> Local] /\ x \in Local
  BY DEF ReconTypeOK, Local, LocalStep
<1>2. dm'[d] = x /\ \A e \in Daemons \ {d} : dm'[e] = dm[e]
  BY <1>1
<1> QED
  BY <1>1, <1>2 DEF DaemonLocals

(* The two ways a store call ends: the order is done, or its next call is  *)
(* still to come.                                                          *)
LEMMA FinishLocals ==
    ASSUME ReconTypeOK, NEW d \in Daemons, NEW o \in Orders, dm[d].pc # "idle", Finish(d, o)
    PROVE  DaemonLocals(d)
<1> DEFINE x == [dm[d] EXCEPT !.pc = "cycle", !.cur = NoOrder, !.listed[o] = AbsentRow]
<1>1. dm \in [Daemons -> Local] /\ dm[d] \in Local
  BY DEF ReconTypeOK, Local
<1>2. dm' = [dm EXCEPT ![d] = x]
  BY <1>1 DEF Finish
<1>3. /\ x \in Local /\ x.pc = "cycle" /\ x.cur = NoOrder /\ x.snap = dm[d].snap
      /\ x.listed = [dm[d].listed EXCEPT ![o] = AbsentRow]
  BY <1>1, AbsentRowFacts DEF Local
<1>4. \A p \in Orders : x.listed[p] \in {dm[d].listed[p], AbsentRow}
  BY <1>1, <1>3 DEF Local
<1>5. LocalStep(d, dm[d], x)
  BY <1>3, <1>4 DEF LocalStep
<1> QED
  BY <1>2, <1>5, DaemonAssigned

LEMMA SuspendLocals ==
    ASSUME ReconTypeOK, NEW d \in Daemons, NEW o \in Orders, NEW stage \in {"bridge", "fill"},
           dm[d].pc # "idle", dm[d].listed[o].state # "ABSENT", MatchOf(d, o) \in BrokerIds,
           Suspend(d, o, stage)
    PROVE  DaemonLocals(d)
<1> DEFINE x == [dm[d] EXCEPT !.pc = stage, !.cur = o]
<1>1. dm \in [Daemons -> Local] /\ dm[d] \in Local
  BY DEF ReconTypeOK, Local
<1>2. dm' = [dm EXCEPT ![d] = x]
  BY <1>1 DEF Suspend
<1>3. /\ x \in Local /\ x.pc = stage /\ x.cur = o /\ x.snap = dm[d].snap
      /\ x.listed = dm[d].listed
  BY <1>1 DEF Local
<1>4. LocalStep(d, dm[d], x)
  BY <1>3 DEF LocalStep
<1> QED
  BY <1>2, <1>4, DaemonAssigned

LEMMA LastMoveLocals ==
    ASSUME ReconTypeOK, NEW d \in Daemons, NEW o \in Orders,
           dm[d].pc # "idle", dm[d].listed[o].state # "ABSENT", MatchOf(d, o) \in BrokerIds,
           LastMove(d, o, MatchOf(d, o))
    PROVE  DaemonLocals(d)
<1>1. Finish(d, o) \/ Suspend(d, o, "fill")
  BY DEF LastMove
<1> QED
  BY <1>1, FinishLocals, SuspendLocals

(* Back to idle, by the end of a cycle, a failed fetch or a crash. *)
LEMMA IdleLocals ==
    ASSUME ReconTypeOK, NEW d \in Daemons, dm' = [dm EXCEPT ![d] = IdleDaemon]
    PROVE  DaemonLocals(d)
<1>1. \A o \in Orders : IdleDaemon.listed[o] = AbsentRow
  BY DEF IdleDaemon
<1>2. LocalStep(d, dm[d], IdleDaemon)
  BY <1>1, IdleDaemonFacts DEF LocalStep
<1> QED
  BY <1>2, DaemonAssigned

LEMMA DaemonLocalStep ==
    ASSUME TypeInv, NEW d \in Daemons,
           DaemonStep(d) \/ SnapshotFails(d) \/ DaemonCrash(d)
    PROVE  DaemonLocals(d)
<1>0. ReconTypeOK /\ EntryInHand /\ dm[d] \in Local
  BY DEF TypeInv, ReconTypeOK, Local
<1>1. CASE FetchBrokerOrders(d)
  <2> DEFINE x == [dm[d] EXCEPT !.pc = "orders", !.snap = book]
  <2>1. dm' = [dm EXCEPT ![d] = x]
    BY <1>0, <1>1 DEF FetchBrokerOrders
  <2>2. LocalStep(d, dm[d], x)
    BY <1>0, <1>1 DEF FetchBrokerOrders, LocalStep, Local, ReconTypeOK
  <2> QED
    BY <1>0, <2>1, <2>2, DaemonAssigned
<1>2. CASE FetchBrokerPositions(d)
  <2>0. PICK open \in BOOLEAN : dm' = [dm EXCEPT ![d].pc = "positions", ![d].positions = open]
    BY <1>2 DEF FetchBrokerPositions
  <2>1. dm' = [dm EXCEPT ![d] = [dm[d] EXCEPT !.pc = "positions", !.positions = open]]
    <3>1. dm \in [Daemons -> Local]
      BY <1>0 DEF ReconTypeOK, Local
    <3> QED
      BY <2>0, <3>1
  <2>2. LocalStep(d, dm[d], [dm[d] EXCEPT !.pc = "positions", !.positions = open])
    <3> DEFINE x == [dm[d] EXCEPT !.pc = "positions", !.positions = open]
    <3>1. dm[d].pc = "orders"
      BY <1>2 DEF FetchBrokerPositions
    <3>2. /\ x \in Local /\ x.pc = "positions"
          /\ x.snap = dm[d].snap /\ x.listed = dm[d].listed /\ x.cur = dm[d].cur
      BY <1>0 DEF Local
    <3> HIDE DEF x
    <3>3. LocalStep(d, dm[d], x)
      BY <1>0, <3>1, <3>2 DEF LocalStep, ReconTypeOK
    <3> QED
      BY <3>3 DEF x
  <2> QED
    BY <1>0, <2>1, <2>2, DaemonAssigned
<1>3. CASE ListOrders(d)
  <2> DEFINE l == [o \in Orders |-> IF rows[o].state \in Terminal THEN AbsentRow ELSE rows[o]]
             x == [dm[d] EXCEPT !.pc = "cycle", !.listed = l]
  <2>1. dm' = [dm EXCEPT ![d] = x]
    BY <1>0, <1>3 DEF ListOrders
  <2>2. l \in [Orders -> Row] /\ \A o \in Orders : l[o] \in {rows[o], AbsentRow}
    BY <1>0, AbsentRowFacts DEF ReconTypeOK
  <2>3. /\ x \in Local /\ x.pc = "cycle" /\ x.cur = dm[d].cur
        /\ x.snap = dm[d].snap /\ x.listed = l
    BY <1>0, <2>2 DEF Local
  <2>4. x.cur = NoOrder
    BY <1>0, <1>3, <2>3 DEF ListOrders, ReconTypeOK
  <2>5. LocalStep(d, dm[d], x)
    BY <1>3, <2>2, <2>3, <2>4 DEF ListOrders, LocalStep
  <2> QED
    BY <1>0, <2>1, <2>5, DaemonAssigned
<1>4. ASSUME NEW o \in Orders, MissingOrder(d, o) \/ SyncFillInPlace(d, o)
      PROVE  DaemonLocals(d)
  <2>1. dm[d].pc # "idle" /\ Finish(d, o)
    BY <1>4 DEF MissingOrder, SyncFillInPlace
  <2> QED
    BY <1>0, <2>1, FinishLocals
<1>5. ASSUME NEW o \in Orders, SyncState(d, o)
      PROVE  DaemonLocals(d)
  <2>1. /\ dm[d].pc # "idle" /\ dm[d].listed[o].state # "ABSENT"
        /\ MatchOf(d, o) \in BrokerIds
    BY <1>5, MatchedFacts DEF SyncState, MatchOf, Listed
  <2>2. LastMove(d, o, MatchOf(d, o)) \/ Suspend(d, o, "bridge") \/ Finish(d, o)
    BY <1>5 DEF SyncState, MatchOf
  <2> QED
    BY <1>0, <2>1, <2>2, LastMoveLocals, SuspendLocals, FinishLocals
<1>6. CASE BridgeMove(d)
  <2>1. /\ dm[d].cur \in Orders /\ MatchOf(d, dm[d].cur) \in BrokerIds
        /\ dm[d].pc # "idle" /\ dm[d].listed[dm[d].cur].state # "ABSENT"
        /\ LastMove(d, dm[d].cur, MatchOf(d, dm[d].cur))
    BY <1>0, <1>6 DEF BridgeMove, EntryInHand, ReconTypeOK, ListingInCycle, TypeInv, MatchOf
  <2> QED
    BY <1>0, <2>1, LastMoveLocals
<1>7. CASE SyncFillAfterMove(d)
  <2>1. dm[d].cur \in Orders /\ dm[d].pc # "idle" /\ Finish(d, dm[d].cur)
    BY <1>0, <1>7 DEF SyncFillAfterMove, ReconTypeOK
  <2> QED
    BY <1>0, <2>1, FinishLocals
<1>8. CASE EndCycle(d) \/ SnapshotFails(d) \/ DaemonCrash(d)
  BY <1>0, <1>8, IdleLocals DEF EndCycle, SnapshotFails, DaemonCrash
<1> QED
  BY <1>1, <1>2, <1>3, <1>4, <1>5, <1>6, <1>7, <1>8 DEF DaemonStep

(* The rows stay rows, and a row that exists goes on existing. *)
LEMMA WrittenRow ==
    ASSUME ReconTypeOK, NEW d \in Daemons, NEW o \in Orders, DaemonWrites(d, o)
    PROVE  /\ rows' \in [Orders -> Row]
           /\ \A p \in Orders \ {o} : rows'[p] = rows[p]
           /\ rows'[o].key = rows[o].key
           /\ \/ rows'[o].state = rows[o].state
              \/ CanMove(o, rows'[o].state)
           /\ \/ rows'[o].broker = rows[o].broker
              \/ MatchOf(d, o) \in BrokerIds /\ rows'[o].broker = MatchOf(d, o)
           /\ \/ rows'[o].filled = rows[o].filled
              \/ MatchOf(d, o) \in BrokerIds /\ rows'[o].filled = SeenBy(d, o).filled
<1>1. rows \in [Orders -> Row] /\ rows[o] \in Row /\ rows[o].filled \in Nat
  BY DEF ReconTypeOK, Row
<1>2. ASSUME MatchOf(d, o) \in BrokerIds, CanMove(o, TargetState(SeenBy(d, o))),
             NEW q \in {SeenBy(d, o).filled, rows[o].filled},
             rows' = [rows EXCEPT ![o] =
                        MovedRow(@, TargetState(SeenBy(d, o)), MatchOf(d, o), q)]
      PROVE  /\ rows' \in [Orders -> Row]
             /\ \A p \in Orders \ {o} : rows'[p] = rows[p]
             /\ rows'[o].key = rows[o].key
             /\ CanMove(o, rows'[o].state)
             /\ rows'[o].broker = MatchOf(d, o) /\ rows'[o].filled = q
  <2> DEFINE n == MovedRow(rows[o], TargetState(SeenBy(d, o)), MatchOf(d, o), q)
  <2>1. TargetState(SeenBy(d, o)) \in OrderState /\ q \in Nat
    BY <1>1, <1>2, CanMoveFacts, EntryFacts
  <2>2. /\ n \in Row /\ n.state = TargetState(SeenBy(d, o)) /\ n.key = rows[o].key
        /\ n.broker = MatchOf(d, o) /\ n.filled = q
    BY <1>1, <1>2, <2>1, MovedRowFacts
  <2>3. rows' = [rows EXCEPT ![o] = n]
    BY <1>2
  <2> HIDE DEF n
  <2> QED
    BY <1>1, <1>2, <2>2, <2>3
<1>3. ASSUME NEW m \in OrderState, CanMove(o, m),
             rows' = [rows EXCEPT ![o] = MovedRow(@, m, NoBroker, @.filled)]
      PROVE  /\ rows' \in [Orders -> Row]
             /\ \A p \in Orders \ {o} : rows'[p] = rows[p]
             /\ rows'[o].key = rows[o].key
             /\ CanMove(o, rows'[o].state)
             /\ rows'[o].broker = rows[o].broker /\ rows'[o].filled = rows[o].filled
  <2> DEFINE n == MovedRow(rows[o], m, NoBroker, rows[o].filled)
  <2>1. /\ n \in Row /\ n.state = m /\ n.key = rows[o].key /\ n.broker = rows[o].broker
        /\ n.filled = rows[o].filled
    BY <1>1, MovedRowFacts
  <2>2. rows' = [rows EXCEPT ![o] = n]
    BY <1>3
  <2> HIDE DEF n
  <2> QED
    BY <1>1, <1>3, <2>1, <2>2
<1>4. CASE /\ CanMove(o, "REJECTED")
           /\ rows' = [rows EXCEPT ![o] = MovedRow(@, "REJECTED", NoBroker, @.filled)]
  <2>1. "REJECTED" \in OrderState
    BY DEF OrderState
  <2> QED
    BY <1>3, <1>4, <2>1
<1>5. CASE /\ MatchOf(d, o) \in BrokerIds
           /\ rows' = [rows EXCEPT ![o] = RefilledRow(@, SeenBy(d, o).filled)]
  <2> DEFINE n == RefilledRow(rows[o], SeenBy(d, o).filled)
  <2>1. /\ n \in Row /\ n.state = rows[o].state /\ n.key = rows[o].key
        /\ n.broker = rows[o].broker /\ n.filled = SeenBy(d, o).filled
    <3>1. SeenBy(d, o).filled \in Nat
      BY <1>5, EntryFacts
    <3> QED
      BY <1>1, <3>1, RefilledRowFacts
  <2>2. rows' = [rows EXCEPT ![o] = n]
    BY <1>5
  <2> HIDE DEF n
  <2> QED
    BY <1>1, <1>5, <2>1, <2>2
<1> QED
  BY <1>2, <1>3, <1>4, <1>5 DEF DaemonWrites

-----------------------------------------------------------------------------
(* Types *)

LEMMA DaemonKeepsTypes ==
    ASSUME TypeInv, NEW d \in Daemons,
           DaemonStep(d) \/ SnapshotFails(d) \/ DaemonCrash(d)
    PROVE  TypeInv'
<1>1. DaemonLocals(d)
  BY DaemonLocalStep
<1>2. rows' \in [Orders -> Row] /\ book' = book /\ crashes' \in 0 .. MaxCrashes
  <2>1. CASE DaemonStep(d)
    <3>1. rows' = rows \/ \E o \in Orders : DaemonWrites(d, o)
      BY <2>1, DaemonWritesOneRow DEF TypeInv
    <3>2. book' = book /\ crashes' = crashes
      BY <2>1, DaemonWritesOneRow DEF TypeInv
    <3> QED
      BY <3>1, <3>2, WrittenRow DEF TypeInv, ReconTypeOK
  <2>2. CASE SnapshotFails(d)
    BY <2>2 DEF SnapshotFails, TypeInv, ReconTypeOK
  <2>3. CASE DaemonCrash(d)
    BY <2>3 DEF DaemonCrash, TypeInv, ReconTypeOK
  <2> QED
    BY <2>1, <2>2, <2>3
<1>3. ASSUME NEW e \in Daemons
      PROVE  /\ dm'[e].cur # NoOrder <=> dm'[e].pc \in {"bridge", "fill"}
             /\ dm'[e].pc \in {"bridge", "fill"} => MatchOf(e, dm[e].cur)' \in BrokerIds
             /\ \A o \in Orders : dm'[e].listed[o].state # "ABSENT" => dm'[e].pc # "idle"
             /\ dm'[e].pc \in {"bridge", "fill"} =>
                    dm'[e].listed[dm'[e].cur].state # "ABSENT"
  <2>1. CASE e # d
    BY <1>1, <2>1 DEF DaemonLocals, TypeInv, ReconTypeOK, EntryInHand, ListingInCycle, MatchOf
  <2>2. CASE e = d
    <3>1. LocalStep(d, dm[d], dm'[d])
      BY <1>1 DEF DaemonLocals
    <3>2. dm'[d].pc \in {"bridge", "fill"} => MatchOf(d, dm[d].cur)' \in BrokerIds
      BY <3>1 DEF LocalStep, MatchOf
    <3>3. /\ \A o \in Orders : dm'[d].listed[o].state # "ABSENT" => dm'[d].pc # "idle"
          /\ dm'[d].pc \in {"bridge", "fill"} => dm'[d].listed[dm'[d].cur].state # "ABSENT"
      BY <3>1, IdleDaemonFacts DEF LocalStep
    <3> QED
      BY <2>2, <3>1, <3>2, <3>3 DEF LocalStep
  <2> QED
    BY <2>1, <2>2
<1>4. ReconTypeOK'
  BY <1>1, <1>2, <1>3 DEF TypeInv, ReconTypeOK, DaemonLocals, Local
<1>5. EntryInHand' /\ ListingInCycle'
  BY <1>3 DEF EntryInHand, ListingInCycle
<1> QED
  BY <1>2, <1>4, <1>5 DEF TypeInv, OpenHasRest

(* The broker fills or closes open entries only, and never unfills one. *)
LEMMA BrokerEffect ==
    ASSUME TypeInv, NEW b \in BrokerIds, BrokerStep(b)
    PROVE  /\ book' \in [BrokerIds -> BookEntry]
           /\ OpenHasRest'
           /\ \A c \in BrokerIds \ {b} : book'[c] = book[c]
           /\ book[b].status \in OpenStatuses
           /\ book'[b].status # "NONE"
           /\ book[b].filled <= book'[b].filled
<1>0. book \in [BrokerIds -> BookEntry] /\ Lot \in Nat \ {0} /\ OpenHasRest
  BY DEF TypeInv, ReconTypeOK
<1>1. CASE BrokerFills(b)
  <2> DEFINE e == [ filled |-> book[b].filled + 1,
                    status |-> IF book[b].filled + 1 = Lot THEN "COMPLETE" ELSE book[b].status ]
  <2>1. book' = [book EXCEPT ![b] = e] /\ book[b].status \in OpenStatuses
    BY <1>1 DEF BrokerFills
  <2>2. book[b].filled \in Nat /\ book[b].filled < Lot
    BY <1>0, <2>1 DEF BookEntry, OpenHasRest
  <2>3. e \in BookEntry /\ e.status # "NONE"
    BY <1>0, <2>1, <2>2 DEF BookEntry, OpenStatuses, ClosedStatuses
  <2>4. e.status \in OpenStatuses => e.filled < Lot
    BY <1>0, <2>2 DEF OpenStatuses
  <2>5. e.filled = book[b].filled + 1
    OBVIOUS
  <2> HIDE DEF e
  <2> QED
    BY <1>0, <2>1, <2>2, <2>3, <2>4, <2>5 DEF OpenHasRest
<1>2. ASSUME NEW s \in ClosedStatuses, BrokerCloses(b, s)
      PROVE  /\ book[b].status \in OpenStatuses
             /\ book' = [book EXCEPT ![b] = [book[b] EXCEPT !.status = s]]
  BY <1>0, <1>2 DEF BrokerCloses, BookEntry
<1>3. ASSUME NEW s \in OpenStatuses \cup ClosedStatuses, book[b].status \in OpenStatuses,
             book' = [book EXCEPT ![b] = [book[b] EXCEPT !.status = s]]
      PROVE  /\ book' \in [BrokerIds -> BookEntry]
             /\ OpenHasRest'
             /\ \A c \in BrokerIds \ {b} : book'[c] = book[c]
             /\ book'[b].status # "NONE"
             /\ book[b].filled <= book'[b].filled
  <2> DEFINE e == [book[b] EXCEPT !.status = s]
  <2>1. book[b].filled \in Nat /\ book[b].filled < Lot
    BY <1>0, <1>3 DEF BookEntry, OpenHasRest
  <2>2. e \in BookEntry /\ e.status # "NONE" /\ e.filled = book[b].filled
    BY <1>0, <1>3 DEF BookEntry, OpenStatuses, ClosedStatuses
  <2>3. book' = [book EXCEPT ![b] = e]
    BY <1>3
  <2> HIDE DEF e
  <2> QED
    BY <1>0, <2>1, <2>2, <2>3 DEF OpenHasRest
<1>4. CASE BrokerUpdates(b)
  <2>1. PICK s \in OpenStatuses :
            /\ book[b].status \in OpenStatuses
            /\ book' = [book EXCEPT ![b] = [book[b] EXCEPT !.status = s]]
    BY <1>0, <1>4 DEF BrokerUpdates, BookEntry, OpenStatuses
  <2> QED
    BY <1>3, <2>1
<1> QED
  BY <1>1, <1>2, <1>3, <1>4 DEF BrokerStep

(* The rows found at a restart are rows, live ones, with the broker id     *)
(* they were left with.                                                    *)
LEMMA LeftBehindFacts ==
    ASSUME ReconInit, NEW o \in Orders
    PROVE  /\ rows[o] \in Row
           /\ rows[o].state \in OrderState \ Terminal
           /\ rows[o].broker = BrokerOf[o]
<1>1. KeyOf \in [Orders -> Keys]
  BY DEF KeyOf
<1>2. rows[o] \in LeftBehind(o) /\ BrokerOf[o] \in BrokerIds \cup {NoBroker}
  BY DEF ReconInit
<1> QED
  BY <1>1, <1>2 DEF LeftBehind, Row, OrderState, Terminal

LEMMA InitTypes == ReconInit => TypeInv
<1> SUFFICES ASSUME ReconInit PROVE TypeInv
  OBVIOUS
<1>1. rows \in [Orders -> Row]
  BY LeftBehindFacts DEF ReconInit
<1>2. book \in [BrokerIds -> BookEntry] /\ OpenHasRest
  BY DEF ReconInit, BookEntry, OpenStatuses, OpenHasRest
<1>3. dm = [d \in Daemons |-> IdleDaemon] /\ crashes = 0
  BY DEF ReconInit
<1>4. ReconTypeOK
  BY <1>1, <1>2, <1>3, IdleDaemonFacts DEF ReconTypeOK, Local
<1>5. EntryInHand /\ ListingInCycle
  BY <1>3, IdleDaemonFacts DEF EntryInHand, ListingInCycle
<1> QED
  BY <1>2, <1>4, <1>5 DEF TypeInv

LEMMA StepTypes ==
    ASSUME TypeInv, [ReconNext]_reconVars
    PROVE  TypeInv'
<1>1. ASSUME NEW b \in BrokerIds, BrokerStep(b), UNCHANGED <<rows, dm, crashes>>
      PROVE  TypeInv'
  BY <1>1, BrokerEffect DEF TypeInv, ReconTypeOK, EntryInHand, MatchOf, ListingInCycle
<1>2. ASSUME NEW d \in Daemons, DaemonStep(d) \/ SnapshotFails(d) \/ DaemonCrash(d)
      PROVE  TypeInv'
  BY <1>2, DaemonKeepsTypes
<1>3. CASE UNCHANGED reconVars
  BY <1>3 DEF reconVars, TypeInv, ReconTypeOK, EntryInHand, OpenHasRest, MatchOf, ListingInCycle
<1> QED
  BY <1>1, <1>2, <1>3 DEF ReconNext

(* Every row, entry and local variable stays well typed, and an order is   *)
(* in a daemon's hand exactly between the transactions of one repair.      *)
THEOREM ReconTypes == ReconSpec => []ReconTypeOK
<1>1. TypeInv => ReconTypeOK
  BY DEF TypeInv
<1> QED
  BY <1>1, InitTypes, StepTypes, PTL DEF ReconSpec

-----------------------------------------------------------------------------
(* The daemons and the lifecycle *)

statusOf == [o \in Orders |-> rows[o].state]
ownerOf == [o \in Orders |-> rows[o].key]

(* A write of a daemon is an edge of the table, or leaves the state alone. *)
LEMMA WriteFollowsLifecycle ==
    ASSUME ReconTypeOK, NEW d \in Daemons, NEW o \in Orders, DaemonWrites(d, o)
    PROVE  Lifecycle!LifecycleNext \/ (statusOf' = statusOf /\ ownerOf' = ownerOf)
<1>1. /\ rows \in [Orders -> Row] /\ rows' \in [Orders -> Row]
      /\ \A p \in Orders \ {o} : rows'[p] = rows[p]
      /\ rows'[o].key = rows[o].key
      /\ rows'[o].state = rows[o].state \/ CanMove(o, rows'[o].state)
  BY WrittenRow DEF ReconTypeOK
<1>2. ownerOf' = ownerOf
  BY <1>1 DEF ownerOf
<1>3. statusOf' = [statusOf EXCEPT ![o] = rows'[o].state]
  BY <1>1 DEF statusOf
<1>4. CASE rows'[o].state = rows[o].state
  BY <1>2, <1>3, <1>4 DEF statusOf
<1>5. CASE CanMove(o, rows'[o].state)
  <2>1. /\ rows[o].state \in OrderState /\ rows'[o].state \in OrderState
        /\ rows'[o].state \in ValidTransitions[rows[o].state]
    BY <1>1, <1>5, CanMoveFacts
  <2>2. PICK s \in OrderState : s = rows'[o].state
    BY <2>1
  <2>3. s \in Lifecycle!OrderState /\ s \in Lifecycle!ValidTransitions[statusOf[o]]
    BY <2>1, <2>2 DEF statusOf, ValidTransitions, Lifecycle!ValidTransitions,
                Lifecycle!OrderState, OrderState, Lifecycle!Terminal, Terminal
  <2>4. statusOf[o] # "ABSENT"
    BY <2>1, TableFacts DEF statusOf
  <2>5. Lifecycle!Advance(o, s)
    BY <1>2, <1>3, <2>2, <2>3, <2>4 DEF Lifecycle!Advance, statusOf, ownerOf
  <2> QED
    BY <2>3, <2>5 DEF Lifecycle!LifecycleNext
<1> QED
  BY <1>1, <1>4, <1>5

LEMMA DaemonFollowsLifecycle ==
    ASSUME TypeInv, NEW d \in Daemons, DaemonStep(d)
    PROVE  Lifecycle!LifecycleNext \/ (statusOf' = statusOf /\ ownerOf' = ownerOf)
<1>1. ASSUME NEW o \in Orders, DaemonWrites(d, o)
      PROVE  Lifecycle!LifecycleNext \/ (statusOf' = statusOf /\ ownerOf' = ownerOf)
  BY <1>1, WriteFollowsLifecycle DEF TypeInv
<1>2. CASE rows' = rows
  BY <1>2 DEF statusOf, ownerOf
<1> QED
  BY <1>1, <1>2, DaemonWritesOneRow DEF TypeInv

(* However stale the listing a path was computed from, no step of a daemon *)
(* skips an edge, revives a closed order or changes an order's key.        *)
THEOREM ReconFollowsLifecycle == ReconSpec => StepsFollowLifecycle
<1>1. TypeInv /\ [ReconNext]_reconVars
        => [Lifecycle!LifecycleNext]_(Lifecycle!lifecycleVars)
  <2> SUFFICES ASSUME TypeInv, [ReconNext]_reconVars
               PROVE  Lifecycle!LifecycleNext \/ (statusOf' = statusOf /\ ownerOf' = ownerOf)
    BY DEF Lifecycle!lifecycleVars, statusOf, ownerOf
  <2>1. ASSUME NEW d \in Daemons, DaemonStep(d)
        PROVE  Lifecycle!LifecycleNext \/ (statusOf' = statusOf /\ ownerOf' = ownerOf)
    BY <2>1, DaemonFollowsLifecycle
  <2>2. CASE rows' = rows
    BY <2>2 DEF statusOf, ownerOf
  <2> QED
    BY <2>1, <2>2 DEF ReconNext, SnapshotFails, DaemonCrash, reconVars
<1> QED
  BY <1>1, InitTypes, StepTypes, PTL DEF ReconSpec, StepsFollowLifecycle

-----------------------------------------------------------------------------
(* Stale copies lead to the right entry, and never ahead of it *)

(* Every copy of an order's row, matched in any book that lists the same   *)
(* ids, leads to the entry the order has always had.                       *)
LEMMA HomeFound ==
    ASSUME NEW o \in Orders, NEW r, NEW snap, AtHome(o, r),
           \A b \in BrokerIds : snap[b].status = "NONE" <=> book[b].status = "NONE"
    PROVE  Matched(o, r, snap) = Home(o)
<1> DEFINE r0 == [AbsentRow EXCEPT !.broker = BrokerOf[o]]
<1>1. r0.broker = BrokerOf[o]
  BY DEF AbsentRow
<1>2. Home(o) = Matched(o, r0, book)
  BY DEF Home
<1>3. r.broker = BrokerOf[o] \/ (r.broker = Home(o) /\ r.broker # BrokerOf[o])
  BY DEF AtHome
<1>4. CASE r.broker = BrokerOf[o]
  <2> HIDE DEF r0
  <2> QED
    BY <1>1, <1>2, <1>4 DEF Matched
<1>5. CASE r.broker = Home(o) /\ r.broker # BrokerOf[o]
  <2> HIDE DEF r0
  <2>1. CASE Home(o) = NoBroker
    BY <1>1, <1>2, <1>5, <2>1 DEF Matched
  <2>2. CASE Home(o) # NoBroker
    <3>1. Home(o) \in BrokerIds /\ book[Home(o)].status # "NONE"
      BY <1>2, <2>2, MatchedFacts
    <3> QED
      BY <1>5, <3>1 DEF Matched
  <2> QED
    BY <2>1, <2>2
<1> QED
  BY <1>3, <1>4, <1>5

LEMMA HomeFixed ==
    ASSUME NEW o \in Orders,
           \A b \in BrokerIds : book'[b].status = "NONE" <=> book[b].status = "NONE"
    PROVE  Home(o)' = Home(o)
BY DEF Home, Matched

LEMMA HomeListed ==
    ASSUME NEW o \in Orders, Home(o) # NoBroker
    PROVE  Home(o) \in BrokerIds
BY MatchedFacts DEF Home

(* A daemon at work matches every order it has listed to its Home, and     *)
(* sees there a past version of the entry.                                 *)
LEMMA SeenAtHome ==
    ASSUME ReconInv, NEW d \in Daemons, NEW o \in Orders, dm[d].listed[o].state # "ABSENT"
    PROVE  /\ MatchOf(d, o) = Home(o)
           /\ Home(o) # NoBroker => Behind(SeenBy(d, o), book[Home(o)])
<1>1. dm[d].pc # "idle" /\ AtHome(o, dm[d].listed[o])
  BY DEF ReconInv, TypeInv, ListingInCycle, ListedAtHome
<1>2. \A b \in BrokerIds : Behind(dm[d].snap[b], book[b])
  BY <1>1 DEF ReconInv, SnapsBehind
<1>3. MatchOf(d, o) = Home(o)
  BY <1>1, <1>2, HomeFound DEF MatchOf, Behind
<1> QED
  BY <1>2, <1>3, HomeListed DEF SeenBy

LEMMA BehindStays ==
    ASSUME TypeInv, NEW b \in BrokerIds, BrokerStep(b), NEW c \in BrokerIds,
           NEW old \in BookEntry, Behind(old, book[c])
    PROVE  Behind(old, book'[c])
<1>1. /\ book[c] \in BookEntry /\ book'[c] \in BookEntry
      /\ c # b => book'[c] = book[c]
      /\ book[b].status \in OpenStatuses /\ book'[b].status # "NONE"
      /\ book[b].filled <= book'[b].filled
  BY BrokerEffect DEF TypeInv, ReconTypeOK
<1> QED
  BY <1>1 DEF Behind, BookEntry, OpenStatuses, ClosedStatuses

LEMMA BrokerKeepsInv ==
    ASSUME ReconInv, NEW b \in BrokerIds, BrokerStep(b), UNCHANGED <<rows, dm, crashes>>
    PROVE  ReconInv'
<1>1. TypeInv /\ TypeInv'
  <2>1. [ReconNext]_reconVars /\ TypeInv
    BY DEF ReconNext, ReconInv
  <2> QED
    BY <2>1, StepTypes
<1>2. /\ \A c \in BrokerIds \ {b} : book'[c] = book[c]
      /\ book[b].status \in OpenStatuses /\ book'[b].status # "NONE"
      /\ book[b].filled <= book'[b].filled
      /\ book \in [BrokerIds -> BookEntry] /\ book' \in [BrokerIds -> BookEntry]
  BY <1>1, BrokerEffect DEF TypeInv, ReconTypeOK
<1>3. \A c \in BrokerIds : book'[c].status = "NONE" <=> book[c].status = "NONE"
  BY <1>2 DEF OpenStatuses
<1>4. \A o \in Orders : Home(o)' = Home(o)
  BY <1>3, HomeFixed
<1>5. RowsAtHome' /\ ListedAtHome'
  BY <1>4 DEF ReconInv, RowsAtHome, ListedAtHome, AtHome
<1>6. SnapsBehind'
  <2> SUFFICES ASSUME NEW d \in Daemons, dm[d].pc # "idle", NEW c \in BrokerIds
               PROVE  Behind(dm[d].snap[c], book'[c])
    BY DEF SnapsBehind
  <2>1. dm[d].snap[c] \in BookEntry /\ Behind(dm[d].snap[c], book[c])
    BY <1>1 DEF TypeInv, ReconTypeOK, ReconInv, SnapsBehind
  <2> QED
    BY <1>1, <2>1, BehindStays
<1>7. FillsFromHome'
  <2> SUFFICES ASSUME NEW o \in Orders, Home(o) # NoBroker
               PROVE  rows[o].filled <= book'[Home(o)].filled
    BY <1>4 DEF FillsFromHome
  <2>1. Home(o) \in BrokerIds /\ rows[o].filled <= book[Home(o)].filled
    BY HomeListed DEF ReconInv, FillsFromHome
  <2>2. /\ rows[o].filled \in Nat /\ book[Home(o)].filled \in Nat
        /\ book'[Home(o)].filled \in Nat
        /\ book[Home(o)].filled <= book'[Home(o)].filled
    <3>1. rows[o] \in Row /\ book[Home(o)] \in BookEntry /\ book'[Home(o)] \in BookEntry
      BY <1>1, <1>2, <2>1 DEF TypeInv, ReconTypeOK
    <3>2. Home(o) # b => book'[Home(o)] = book[Home(o)]
      BY <1>2, <2>1
    <3> HIDE DEF Home
    <3> QED
      BY <1>2, <3>1, <3>2 DEF Row, BookEntry
  <2> QED
    BY <2>1, <2>2
<1>8. EndsFromHome'
  <2> SUFFICES ASSUME NEW o \in Orders, Home(o) # NoBroker, rows[o].state \in Terminal
               PROVE  rows[o].state = TargetState(book'[Home(o)])
    BY <1>4 DEF EndsFromHome
  <2>1. Home(o) \in BrokerIds /\ rows[o].state = TargetState(book[Home(o)])
    BY HomeListed DEF ReconInv, EndsFromHome
  <2>2. book[Home(o)].status \in ClosedStatuses
    BY <1>2, <2>1, TargetFacts
  <2>3. book'[Home(o)] = book[Home(o)]
    BY <1>2, <2>1, <2>2 DEF OpenStatuses, ClosedStatuses
  <2> QED
    BY <2>1, <2>3
<1> QED
  BY <1>1, <1>5, <1>6, <1>7, <1>8 DEF ReconInv

(* The heart of the argument: a write from a stale snapshot is never ahead *)
(* of the book, and closes an order only as the book did.                  *)
LEMMA WriteStaysHome ==
    ASSUME ReconInv, NEW d \in Daemons, NEW o \in Orders, DaemonWrites(d, o)
    PROVE  /\ AtHome(o, rows'[o])
           /\ Home(o) # NoBroker =>
                /\ rows'[o].filled <= book[Home(o)].filled
                /\ rows'[o].state \in Terminal => rows'[o].state = TargetState(book[Home(o)])
<1> DEFINE e == book[Home(o)]
           seen == SeenBy(d, o)
<1>1. ReconTypeOK /\ rows \in [Orders -> Row] /\ rows[o] \in Row /\ rows[o].filled \in Nat
  BY DEF ReconInv, TypeInv, ReconTypeOK, Row
<1>2. MatchOf(d, o) = Home(o) /\ (Home(o) # NoBroker => Behind(seen, e))
  BY SeenAtHome DEF DaemonWrites
<1>3. AtHome(o, rows'[o])
  <2>1. AtHome(o, rows[o])
    BY DEF ReconInv, RowsAtHome
  <2>2. rows'[o].broker \in {rows[o].broker, Home(o)}
    BY <1>1, <1>2, WrittenRow
  <2> QED
    BY <2>1, <2>2 DEF AtHome
<1>4. ASSUME Home(o) # NoBroker
      PROVE  /\ rows'[o].filled <= e.filled
             /\ rows'[o].state \in Terminal => rows'[o].state = TargetState(e)
  <2>1. MatchOf(d, o) \in BrokerIds /\ seen \in BookEntry /\ seen.filled \in Nat
    BY <1>1, <1>2, <1>4, HomeListed, EntryFacts
  <2>2. /\ rows[o].filled <= e.filled /\ seen.filled <= e.filled
        /\ rows[o].state \in Terminal => rows[o].state = TargetState(e)
    BY <1>2, <1>4 DEF ReconInv, FillsFromHome, EndsFromHome, Behind
  <2>3. ASSUME CanMove(o, TargetState(seen)), NEW q \in {seen.filled, rows[o].filled},
               rows' = [rows EXCEPT ![o] = MovedRow(@, TargetState(seen), MatchOf(d, o), q)]
        PROVE  /\ rows'[o].filled <= e.filled
               /\ rows'[o].state \in Terminal => rows'[o].state = TargetState(e)
    <3> DEFINE n == MovedRow(rows[o], TargetState(seen), MatchOf(d, o), q)
    <3>1. TargetState(seen) \in OrderState /\ q \in Nat /\ q <= e.filled
      BY <1>1, <2>1, <2>2, <2>3, CanMoveFacts
    <3>2. n.state = TargetState(seen) /\ n.filled = q
      BY <1>1, <2>1, <3>1, MovedRowFacts
    <3>3. rows'[o] = n
      BY <1>1, <2>3
    <3>4. TargetState(seen) \in Terminal => TargetState(seen) = TargetState(e)
      BY <1>2, <1>4, <2>1, TargetFacts DEF Behind
    <3> HIDE DEF n
    <3> QED
      BY <3>1, <3>2, <3>3, <3>4
  <2>4. ASSUME NEW m \in OrderState, ValidTransitions[m] # {},
               rows' = [rows EXCEPT ![o] = MovedRow(@, m, NoBroker, @.filled)]
        PROVE  rows'[o].filled <= e.filled /\ rows'[o].state \notin Terminal
    <3> DEFINE n == MovedRow(rows[o], m, NoBroker, rows[o].filled)
    <3>1. n.state = m /\ n.filled = rows[o].filled
      BY <1>1, MovedRowFacts
    <3>2. rows'[o] = n
      BY <1>1, <2>4
    <3>3. m \notin Terminal
      BY <2>4, TableFacts
    <3> HIDE DEF n
    <3> QED
      BY <2>2, <3>1, <3>2, <3>3
  <2>5. CASE rows' = [rows EXCEPT ![o] = RefilledRow(@, seen.filled)]
    <3> DEFINE n == RefilledRow(rows[o], seen.filled)
    <3>1. n.state = rows[o].state /\ n.filled = seen.filled
      BY <1>1, <2>1, RefilledRowFacts
    <3>2. rows'[o] = n
      BY <1>1, <2>5
    <3> HIDE DEF n
    <3> QED
      BY <2>2, <3>1, <3>2
  <2>6. MatchOf(d, o) # NoBroker
    BY <1>2, <1>4
  <2> HIDE DEF e, seen
  <2> QED
    BY <2>3, <2>4, <2>5, <2>6 DEF DaemonWrites, seen
<1> QED
  BY <1>3, <1>4

LEMMA DaemonKeepsInv ==
    ASSUME ReconInv, NEW d \in Daemons, DaemonStep(d) \/ SnapshotFails(d) \/ DaemonCrash(d)
    PROVE  ReconInv'
<1>1. TypeInv /\ TypeInv' /\ DaemonLocals(d)
  BY DaemonKeepsTypes, DaemonLocalStep DEF ReconInv
<1>2. book' = book /\ (rows' = rows \/ \E o \in Orders : DaemonWrites(d, o))
  BY <1>1, DaemonWritesOneRow DEF TypeInv, SnapshotFails, DaemonCrash
<1>3. \A o \in Orders : Home(o)' = Home(o)
  BY <1>2, HomeFixed
<1>4. ASSUME NEW o \in Orders
      PROVE  /\ AtHome(o, rows'[o])
             /\ Home(o) # NoBroker =>
                  /\ rows'[o].filled <= book[Home(o)].filled
                  /\ rows'[o].state \in Terminal => rows'[o].state = TargetState(book[Home(o)])
  <2>1. CASE rows'[o] = rows[o]
    BY <2>1 DEF ReconInv, RowsAtHome, FillsFromHome, EndsFromHome
  <2>2. CASE DaemonWrites(d, o)
    BY <2>2, WriteStaysHome
  <2>3. ASSUME NEW p \in Orders \ {o}, DaemonWrites(d, p)
        PROVE  rows'[o] = rows[o]
    BY <1>1, <2>3, WrittenRow DEF TypeInv
  <2> QED
    BY <1>2, <2>1, <2>2, <2>3
<1>5. RowsAtHome' /\ FillsFromHome' /\ EndsFromHome'
  BY <1>2, <1>3, <1>4 DEF RowsAtHome, AtHome, FillsFromHome, EndsFromHome
<1>6. ListedAtHome'
  <2> SUFFICES ASSUME NEW e \in Daemons, NEW o \in Orders, dm'[e].listed[o].state # "ABSENT"
               PROVE  AtHome(o, dm'[e].listed[o])
    BY <1>3 DEF ListedAtHome, AtHome
  <2>1. dm'[e].listed[o] \in {dm[e].listed[o], rows[o], AbsentRow}
    BY <1>1 DEF DaemonLocals, LocalStep
  <2> QED
    BY <2>1, AbsentRowFacts DEF ReconInv, ListedAtHome, RowsAtHome
<1>7. SnapsBehind'
  <2> SUFFICES ASSUME NEW e \in Daemons, dm'[e].pc # "idle", NEW b \in BrokerIds
               PROVE  Behind(dm'[e].snap[b], book[b])
    BY <1>2 DEF SnapsBehind
  <2>1. book[b].filled \in Nat
    BY <1>1 DEF TypeInv, ReconTypeOK, BookEntry
  <2>2. \/ dm'[e].snap = book
        \/ dm[e].pc # "idle" /\ dm'[e].snap = dm[e].snap
    BY <1>1 DEF DaemonLocals, LocalStep
  <2> QED
    BY <2>1, <2>2 DEF ReconInv, SnapsBehind, Behind
<1> QED
  BY <1>1, <1>5, <1>6, <1>7 DEF ReconInv

LEMMA InitInv == ReconInit => ReconInv
<1> SUFFICES ASSUME ReconInit PROVE ReconInv
  OBVIOUS
<1>1. TypeInv
  BY InitTypes
<1>2. \A o \in Orders : /\ rows[o].broker = BrokerOf[o]
                        /\ rows[o].state \notin Terminal
                        /\ rows[o].filled \in Nat
  BY LeftBehindFacts DEF Row
<1>3. RowsAtHome
  BY <1>2 DEF RowsAtHome, AtHome
<1>4. ListedAtHome /\ SnapsBehind
  BY IdleDaemonFacts DEF ReconInit, ListedAtHome, SnapsBehind
<1>5. FillsFromHome
  <2> SUFFICES ASSUME NEW o \in Orders, Home(o) # NoBroker
               PROVE  rows[o].filled <= book[Home(o)].filled
    BY DEF FillsFromHome
  <2>1. Home(o) \in BrokerIds \cap {o, BrokerOf[o]} /\ book[Home(o)].status # "NONE"
    BY MatchedFacts DEF Home, AbsentRow
  <2>2. book[Home(o)].status = "OPEN"
    BY <2>1 DEF ReconInit
  <2>3. book[Home(o)].filled = rows[o].filled
    BY <2>1, <2>2 DEF ReconInit
  <2> QED
    BY <1>2, <2>3
<1>6. EndsFromHome
  BY <1>2 DEF EndsFromHome
<1> QED
  BY <1>1, <1>3, <1>4, <1>5, <1>6 DEF ReconInv

(* The two halves of the argument hold together for ever. *)
THEOREM ReconInvariant == ReconSpec => []ReconInv
<1>1. ReconInv /\ [ReconNext]_reconVars => ReconInv'
  <2> SUFFICES ASSUME ReconInv, [ReconNext]_reconVars PROVE ReconInv'
    OBVIOUS
  <2>1. ASSUME NEW b \in BrokerIds, BrokerStep(b), UNCHANGED <<rows, dm, crashes>>
        PROVE  ReconInv'
    BY <2>1, BrokerKeepsInv
  <2>2. ASSUME NEW d \in Daemons, DaemonStep(d) \/ SnapshotFails(d) \/ DaemonCrash(d)
        PROVE  ReconInv'
    BY <2>2, DaemonKeepsInv
  <2>3. CASE UNCHANGED reconVars
    <3>1. TypeInv'
      BY StepTypes DEF ReconInv
    <3>2. rows' = rows /\ book' = book /\ dm' = dm
      BY <2>3 DEF reconVars
    <3>3. \A o \in Orders : Home(o)' = Home(o)
      BY <3>2, HomeFixed
    <3> QED
      BY <3>1, <3>2, <3>3 DEF ReconInv, RowsAtHome, ListedAtHome, AtHome, SnapsBehind,
                              FillsFromHome, EndsFromHome
  <2> QED
    BY <2>1, <2>2, <2>3 DEF ReconNext
<1> QED
  BY <1>1, InitInv, PTL DEF ReconSpec

LEMMA KnownAtHome ==
    ASSUME ReconInv, NEW o \in Orders
    PROVE  Matched(o, rows[o], book) = Home(o)
BY HomeFound DEF ReconInv, RowsAtHome

(* The store never shows more filled than the broker has filled, though a  *)
(* daemon overwrites the quantity from a snapshot of any age.              *)
THEOREM ReconFillNeverInvented == ReconSpec => []FillNeverInvented
<1>1. ReconInv => FillNeverInvented
  BY KnownAtHome DEF FillNeverInvented, Known, Entry, ReconInv, FillsFromHome
<1> QED
  BY <1>1, ReconInvariant, PTL

(* An order the broker knows is closed in the store only as the broker     *)
(* closed it, with any number of daemons at work from stale snapshots.     *)
THEOREM ReconTerminalAgrees == ReconSpec => []TerminalAgreesWithBroker
<1>1. ReconInv => TerminalAgreesWithBroker
  BY KnownAtHome DEF TerminalAgreesWithBroker, Known, Entry, ReconInv, EndsFromHome
<1> QED
  BY <1>1, ReconInvariant, PTL

-----------------------------------------------------------------------------
(* One daemon that is not interrupted *)

FillToCome(o) == \E d \in Daemons : dm[d].pc = "fill" /\ dm[d].cur = o

(* The safety half of ClosedOrdersRepaired: what the store shows as closed *)
(* has the fill of the broker, or a daemon is about to write it.           *)
ClosedHaveFill ==
    \A o \in Orders :
        Known(o) /\ rows[o].state \in Terminal =>
            rows[o].filled = Entry(o).filled \/ FillToCome(o)

(* The same, told of Home. *)
EndsWithFill ==
    \A o \in Orders :
        Home(o) # NoBroker /\ rows[o].state \in Terminal =>
            rows[o].filled = book[Home(o)].filled \/ FillToCome(o)

(* Nobody closes a listed order before the daemon that listed it does. *)
OpenUntilHandled ==
    \A d \in Daemons, o \in Orders :
        dm[d].listed[o].state # "ABSENT" /\ ~(dm[d].pc = "fill" /\ dm[d].cur = o)
            => rows[o].state \notin Terminal

InHandAtTarget ==
    \A d \in Daemons :
        dm[d].pc = "fill" => rows[dm[d].cur].state = TargetState(SeenBy(d, dm[d].cur))

AloneInv == ReconInv /\ EndsWithFill /\ OpenUntilHandled /\ InHandAtTarget

(* The repair of o ends: normally, or by an exception. *)
LEMMA RepairEnds ==
    ASSUME AloneInv, ReconInv', \A e, f \in Daemons : e = f,
           NEW d \in Daemons, NEW o \in Orders, dm[d].cur \in {NoOrder, o},
           Finish(d, o), book' = book, \A p \in Orders \ {o} : rows'[p] = rows[p],
           Home(o) # NoBroker /\ rows'[o].state \in Terminal =>
                rows'[o].filled = book[Home(o)].filled
    PROVE  AloneInv'
<1>1. dm \in [Daemons -> Local] /\ dm[d] \in Local
  BY DEF AloneInv, ReconInv, TypeInv, ReconTypeOK, Local
<1>2. /\ dm'[d].pc = "cycle" /\ dm'[d].listed[o] = AbsentRow
      /\ \A p \in Orders \ {o} : dm'[d].listed[p] = dm[d].listed[p]
  BY <1>1 DEF Finish, Local
<1>3. \A p \in Orders : Home(p)' = Home(p)
  BY HomeFixed
<1>4. OpenUntilHandled'
  <2> SUFFICES ASSUME NEW p \in Orders, dm'[d].listed[p].state # "ABSENT"
               PROVE  rows'[p].state \notin Terminal
    BY DEF OpenUntilHandled
  <2>1. p # o
    BY <1>2, AbsentRowFacts
  <2>2. dm[d].listed[p].state # "ABSENT" /\ dm[d].cur # p
    BY <1>2, <2>1, OrderReconcilerAssumption
  <2> QED
    BY <2>1, <2>2 DEF AloneInv, OpenUntilHandled
<1>5. InHandAtTarget'
  BY <1>2 DEF InHandAtTarget
<1>6. EndsWithFill'
  <2> SUFFICES ASSUME NEW p \in Orders, Home(p) # NoBroker, rows'[p].state \in Terminal
               PROVE  rows'[p].filled = book[Home(p)].filled
    BY <1>3 DEF EndsWithFill
  <2>1. CASE p = o
    BY <2>1
  <2>2. CASE p # o
    <3>1. ~FillToCome(p)
      BY <2>2, OrderReconcilerAssumption DEF FillToCome
    <3> QED
      BY <2>2, <3>1 DEF AloneInv, EndsWithFill
  <2> QED
    BY <2>1, <2>2
<1> QED
  BY <1>4, <1>5, <1>6 DEF AloneInv

(* The repair of o goes on: its next store call is still to come. *)
LEMMA RepairGoesOn ==
    ASSUME AloneInv, ReconInv', \A e, f \in Daemons : e = f,
           NEW d \in Daemons, NEW o \in Orders, NEW stage \in {"bridge", "fill"},
           dm[d].cur \in {NoOrder, o},
           Suspend(d, o, stage), book' = book, \A p \in Orders \ {o} : rows'[p] = rows[p],
           stage = "bridge" => rows'[o].state \notin Terminal,
           stage = "fill" => rows'[o].state = TargetState(SeenBy(d, o))
    PROVE  AloneInv'
<1>1. dm \in [Daemons -> Local] /\ dm[d] \in Local
  BY DEF AloneInv, ReconInv, TypeInv, ReconTypeOK, Local
<1>2. /\ dm'[d].pc = stage /\ dm'[d].cur = o
      /\ dm'[d].listed = dm[d].listed /\ dm'[d].snap = dm[d].snap
  BY <1>1 DEF Suspend, Local
<1>3. \A p \in Orders : Home(p)' = Home(p)
  BY HomeFixed
<1>4. OpenUntilHandled'
  <2> SUFFICES ASSUME NEW p \in Orders, dm'[d].listed[p].state # "ABSENT",
                      ~(dm'[d].pc = "fill" /\ dm'[d].cur = p)
               PROVE  rows'[p].state \notin Terminal
    BY DEF OpenUntilHandled
  <2>1. CASE p = o
    BY <1>2, <2>1
  <2>2. CASE p # o
    <3>1. dm[d].listed[p].state # "ABSENT" /\ dm[d].cur # p
      BY <1>2, <2>2, OrderReconcilerAssumption
    <3> QED
      BY <2>2, <3>1 DEF AloneInv, OpenUntilHandled
  <2> QED
    BY <2>1, <2>2
<1>5. InHandAtTarget'
  <2>1. SeenBy(d, o)' = SeenBy(d, o)
    BY <1>2 DEF SeenBy, MatchOf
  <2>2. ASSUME NEW e \in Daemons, dm'[e].pc = "fill"
        PROVE  e = d /\ dm'[e].cur = o /\ rows'[o].state = TargetState(SeenBy(d, o))
    BY <1>2, <2>2
  <2> QED
    BY <2>1, <2>2 DEF InHandAtTarget, SeenBy, MatchOf
<1>6. EndsWithFill'
  <2> SUFFICES ASSUME NEW p \in Orders, Home(p) # NoBroker, rows'[p].state \in Terminal
               PROVE  rows'[p].filled = book[Home(p)].filled \/ FillToCome(p)'
    BY <1>3 DEF EndsWithFill
  <2>1. CASE p = o
    BY <1>2, <2>1 DEF FillToCome
  <2>2. CASE p # o
    <3>1. ~FillToCome(p)
      BY <2>2, OrderReconcilerAssumption DEF FillToCome
    <3> QED
      BY <2>2, <3>1 DEF AloneInv, EndsWithFill
  <2> QED
    BY <2>1, <2>2
<1> QED
  BY <1>4, <1>5, <1>6 DEF AloneInv

(* A closed entry is seen as it is, so an order moved to an end by it gets  *)
(* that entry's fill.                                                      *)
LEMMA SeenEnd ==
    ASSUME ReconInv, NEW d \in Daemons, NEW o \in Orders, dm[d].listed[o].state # "ABSENT",
           MatchOf(d, o) \in BrokerIds, TargetState(SeenBy(d, o)) \in Terminal
    PROVE  SeenBy(d, o) = book[Home(o)]
<1>1. SeenBy(d, o).status \in ClosedStatuses
  BY EntryFacts, TargetFacts DEF ReconInv, TypeInv
<1>2. Behind(SeenBy(d, o), book[Home(o)])
  BY SeenAtHome
<1> QED
  BY <1>1, <1>2 DEF Behind

LEMMA LastMoveAlone ==
    ASSUME AloneInv, ReconInv', \A e, f \in Daemons : e = f,
           NEW d \in Daemons, NEW o \in Orders, dm[d].cur \in {NoOrder, o}, dm[d].pc # "fill",
           dm[d].listed[o].state # "ABSENT", MatchOf(d, o) \in BrokerIds,
           LastMove(d, o, MatchOf(d, o)), book' = book
    PROVE  AloneInv'
<1> DEFINE t == TargetState(SeenBy(d, o))
           fill == IF t \in {"PARTIAL", "FILLED"} THEN SeenBy(d, o).filled ELSE rows[o].filled
<1>1. /\ ReconInv /\ ReconTypeOK /\ rows \in [Orders -> Row] /\ rows[o] \in Row
      /\ rows[o].filled \in Nat
      /\ SeenBy(d, o).filled \in Nat
      /\ rows[o].state \notin Terminal
  <2>1. ReconInv /\ ReconTypeOK /\ rows \in [Orders -> Row]
    BY DEF AloneInv, ReconInv, TypeInv, ReconTypeOK
  <2> QED
    BY <2>1, EntryFacts DEF Row, AloneInv, OpenUntilHandled
<1>2. CASE /\ CanMove(o, t)
           /\ rows' = [rows EXCEPT ![o] = MovedRow(@, t, MatchOf(d, o), fill)]
           /\ IF fill = SeenBy(d, o).filled THEN Finish(d, o) ELSE Suspend(d, o, "fill")
  <2> DEFINE n == MovedRow(rows[o], t, MatchOf(d, o), fill)
  <2>1. t \in OrderState /\ fill \in Nat
    BY <1>1, <1>2, CanMoveFacts
  <2>2. n.state = t /\ n.filled = fill
    <3> HIDE DEF t, fill
    <3> QED
      BY <1>1, <2>1, MovedRowFacts DEF n
  <2>3. rows' = [rows EXCEPT ![o] = n]
    BY <1>2
  <2> HIDE DEF n, fill, t
  <2>4. /\ rows'[o].state = t /\ rows'[o].filled = fill
        /\ \A p \in Orders \ {o} : rows'[p] = rows[p]
    BY <1>1, <2>2, <2>3
  <2>5. CASE fill = SeenBy(d, o).filled
    <3>1. rows'[o].state \in Terminal => rows'[o].filled = book[Home(o)].filled
      BY <1>1, <2>4, <2>5, SeenEnd DEF t
    <3> QED
      BY <1>2, <2>4, <2>5, <3>1, RepairEnds
  <2>6. CASE fill # SeenBy(d, o).filled
    <3>1. Suspend(d, o, "fill") /\ rows'[o].state = TargetState(SeenBy(d, o))
      BY <1>2, <2>4, <2>6 DEF t
    <3> QED
      BY <2>4, <3>1, RepairGoesOn
  <2> QED
    BY <2>5, <2>6
<1>3. CASE rows' = rows /\ Finish(d, o)
  BY <1>1, <1>3, RepairEnds
<1> QED
  BY <1>2, <1>3 DEF LastMove, SeenBy, MatchOf

LEMMA AloneDaemonStep ==
    ASSUME AloneInv, ReconInv', \A e, f \in Daemons : e = f,
           NEW d \in Daemons, DaemonStep(d) \/ SnapshotFails(d)
    PROVE  AloneInv'
<1>0. /\ ReconInv /\ TypeInv /\ ReconTypeOK /\ rows \in [Orders -> Row] /\ dm[d] \in Local
      /\ dm \in [Daemons -> Local] /\ book' = book
  <2>1. ReconInv /\ TypeInv /\ ReconTypeOK
    BY DEF AloneInv, ReconInv, TypeInv
  <2>2. book' = book
    BY <2>1, DaemonWritesOneRow DEF TypeInv, SnapshotFails
  <2> QED
    BY <2>1, <2>2 DEF ReconTypeOK, Local
<1>1. ASSUME rows' = rows, dm[d].pc # "fill", dm'[d].pc # "fill",
             \A p \in Orders : dm'[d].listed[p].state # "ABSENT" =>
                dm[d].listed[p].state # "ABSENT" \/ rows[p].state \notin Terminal
      PROVE  AloneInv'
  <2>1. \A p \in Orders : Home(p)' = Home(p)
    BY <1>0, HomeFixed
  <2>2. OpenUntilHandled' /\ InHandAtTarget'
    BY <1>1 DEF AloneInv, OpenUntilHandled, InHandAtTarget
  <2>3. EndsWithFill'
    BY <1>0, <1>1, <2>1 DEF AloneInv, EndsWithFill, FillToCome
  <2> QED
    BY <2>2, <2>3 DEF AloneInv
<1>2. CASE FetchBrokerOrders(d) \/ FetchBrokerPositions(d)
  <2>1. /\ rows' = rows /\ dm[d].pc # "fill" /\ dm'[d].pc # "fill"
        /\ dm'[d].listed = dm[d].listed
    BY <1>0, <1>2 DEF FetchBrokerOrders, FetchBrokerPositions, Local
  <2> QED
    BY <1>1, <2>1
<1>3. CASE ListOrders(d)
  <2>1. /\ rows' = rows /\ dm[d].pc # "fill" /\ dm'[d].pc # "fill"
        /\ \A p \in Orders :
             dm'[d].listed[p] = IF rows[p].state \in Terminal THEN AbsentRow ELSE rows[p]
    BY <1>0, <1>3 DEF ListOrders, Local
  <2> QED
    BY <1>1, <2>1, AbsentRowFacts
<1>4. CASE EndCycle(d) \/ SnapshotFails(d)
  <2>1. rows' = rows /\ dm[d].pc # "fill" /\ dm'[d] = IdleDaemon
    BY <1>0, <1>4 DEF EndCycle, SnapshotFails
  <2> QED
    BY <1>1, <2>1, IdleDaemonFacts
<1>5. ASSUME NEW o \in Orders, MissingOrder(d, o)
      PROVE  AloneInv'
  <2>1. /\ dm[d].cur = NoOrder /\ Finish(d, o)
        /\ \A p \in Orders \ {o} : rows'[p] = rows[p]
    BY <1>0, <1>5 DEF MissingOrder, ReconTypeOK
  <2>2. Home(o) = NoBroker
    BY <1>0, <1>5, SeenAtHome DEF MissingOrder, Listed, MatchOf
  <2> QED
    BY <1>0, <2>1, <2>2, RepairEnds
<1>6. ASSUME NEW o \in Orders, SyncFillInPlace(d, o)
      PROVE  AloneInv'
  <2>1. /\ dm[d].cur = NoOrder /\ Finish(d, o) /\ dm[d].pc = "cycle"
        /\ dm[d].listed[o].state # "ABSENT" /\ MatchOf(d, o) \in BrokerIds
    BY <1>0, <1>6, MatchedFacts DEF SyncFillInPlace, ReconTypeOK, Listed, MatchOf
  <2>2. rows' = rows \/ rows' = [rows EXCEPT ![o] = RefilledRow(@, SeenBy(d, o).filled)]
    BY <1>6 DEF SyncFillInPlace, SeenBy, MatchOf
  <2>3. SeenBy(d, o).filled \in Nat /\ rows[o] \in Row
    BY <1>0, <2>1, EntryFacts
  <2>4. rows'[o].state = rows[o].state /\ \A p \in Orders \ {o} : rows'[p] = rows[p]
    BY <1>0, <2>2, <2>3, RefilledRowFacts
  <2>5. rows[o].state \notin Terminal
    BY <2>1 DEF AloneInv, OpenUntilHandled
  <2> QED
    BY <1>0, <2>1, <2>4, <2>5, RepairEnds
<1>7. ASSUME NEW o \in Orders, SyncState(d, o)
      PROVE  AloneInv'
  <2> DEFINE t == TargetState(SeenBy(d, o))
  <2>1. /\ dm[d].cur = NoOrder /\ dm[d].pc = "cycle"
        /\ dm[d].listed[o].state # "ABSENT" /\ MatchOf(d, o) \in BrokerIds
    BY <1>0, <1>7, MatchedFacts DEF SyncState, ReconTypeOK, Listed, MatchOf
  <2>2. rows[o].state \notin Terminal
    BY <2>1 DEF AloneInv, OpenUntilHandled
  <2>3. CASE LastMove(d, o, MatchOf(d, o))
    BY <1>0, <2>1, <2>3, LastMoveAlone
  <2>4. CASE rows' = rows /\ Finish(d, o)
    BY <1>0, <2>1, <2>2, <2>4, RepairEnds
  <2>5. ASSUME NEW m \in Bridges(dm[d].listed[o].state, t), CanMove(o, m),
               rows' = [rows EXCEPT ![o] = MovedRow(@, m, NoBroker, @.filled)],
               Suspend(d, o, "bridge")
        PROVE  AloneInv'
    <3> DEFINE n == MovedRow(rows[o], m, NoBroker, rows[o].filled)
    <3>1. m \in OrderState /\ m \notin Terminal
      BY <1>0, <2>5, CanMoveFacts, TableFacts DEF Bridges
    <3>2. rows[o] \in Row /\ rows[o].filled \in Nat
      BY <1>0 DEF Row
    <3>3. n.state = m
      BY <3>1, <3>2, MovedRowFacts
    <3>4. rows' = [rows EXCEPT ![o] = n]
      BY <2>5
    <3> HIDE DEF n
    <3>5. rows'[o].state \notin Terminal /\ \A p \in Orders \ {o} : rows'[p] = rows[p]
      BY <1>0, <3>1, <3>3, <3>4
    <3> QED
      BY <1>0, <2>1, <2>5, <3>5, RepairGoesOn
  <2>6. \/ LastMove(d, o, MatchOf(d, o))
        \/ rows' = rows /\ Finish(d, o)
        \/ \E m \in Bridges(dm[d].listed[o].state, t) :
              /\ CanMove(o, m)
              /\ rows' = [rows EXCEPT ![o] = MovedRow(@, m, NoBroker, @.filled)]
              /\ Suspend(d, o, "bridge")
    BY <1>7 DEF SyncState, MatchOf, SeenBy
  <2> QED
    BY <2>3, <2>4, <2>5, <2>6
<1>8. CASE BridgeMove(d)
  <2>1. /\ dm[d].pc = "bridge" /\ dm[d].cur \in Orders
        /\ dm[d].listed[dm[d].cur].state # "ABSENT" /\ MatchOf(d, dm[d].cur) \in BrokerIds
        /\ LastMove(d, dm[d].cur, MatchOf(d, dm[d].cur))
    BY <1>0, <1>8 DEF BridgeMove, ReconTypeOK, TypeInv, EntryInHand, ListingInCycle, MatchOf
  <2> QED
    BY <1>0, <2>1, LastMoveAlone
<1>9. CASE SyncFillAfterMove(d)
  <2> DEFINE o == dm[d].cur
  <2>1. /\ dm[d].pc = "fill" /\ o \in Orders
        /\ dm[d].listed[o].state # "ABSENT" /\ MatchOf(d, o) \in BrokerIds
        /\ Finish(d, o)
        /\ rows' = [rows EXCEPT ![o] = RefilledRow(@, SeenBy(d, o).filled)]
    BY <1>0, <1>9 DEF SyncFillAfterMove, ReconTypeOK, TypeInv, EntryInHand, ListingInCycle,
                      MatchOf, SeenBy
  <2>2. SeenBy(d, o).filled \in Nat /\ rows[o] \in Row
    BY <1>0, <2>1, EntryFacts
  <2>3. rows[o].state = TargetState(SeenBy(d, o))
    BY <2>1 DEF AloneInv, InHandAtTarget
  <2> HIDE DEF o
  <2>4. /\ rows'[o].state = rows[o].state /\ rows'[o].filled = SeenBy(d, o).filled
        /\ \A p \in Orders \ {o} : rows'[p] = rows[p]
    BY <1>0, <2>1, <2>2, RefilledRowFacts
  <2>5. rows'[o].state \in Terminal => rows'[o].filled = book[Home(o)].filled
    BY <1>0, <2>1, <2>3, <2>4, SeenEnd
  <2>6. dm[d].cur = o
    BY DEF o
  <2> QED
    BY <1>0, <2>1, <2>4, <2>5, <2>6, RepairEnds
<1> QED
  BY <1>2, <1>3, <1>4, <1>5, <1>6, <1>7, <1>8, <1>9 DEF DaemonStep

LEMMA AloneStep ==
    ASSUME AloneInv, [ReconNext]_reconVars, ReconInv', \A e, f \in Daemons : e = f, MaxCrashes = 0
    PROVE  AloneInv'
<1>0. ReconInv /\ TypeInv /\ crashes = 0
  BY DEF AloneInv, ReconInv, TypeInv, ReconTypeOK
<1>1. ASSUME NEW b \in BrokerIds, BrokerStep(b), UNCHANGED <<rows, dm, crashes>>
      PROVE  AloneInv'
  <2>1. /\ \A c \in BrokerIds \ {b} : book'[c] = book[c]
        /\ book[b].status \in OpenStatuses /\ book'[b].status # "NONE"
    BY <1>0, <1>1, BrokerEffect
  <2>2. \A o \in Orders : Home(o)' = Home(o)
    <3>1. \A c \in BrokerIds : book'[c].status = "NONE" <=> book[c].status = "NONE"
      BY <2>1 DEF OpenStatuses
    <3> QED
      BY <3>1, HomeFixed
  <2>3. OpenUntilHandled' /\ InHandAtTarget'
    BY <1>1 DEF AloneInv, OpenUntilHandled, InHandAtTarget, SeenBy, MatchOf
  <2>4. EndsWithFill'
    <3> SUFFICES ASSUME NEW o \in Orders, Home(o) # NoBroker, rows[o].state \in Terminal
                 PROVE  rows[o].filled = book'[Home(o)].filled \/ FillToCome(o)
      BY <1>1, <2>2 DEF EndsWithFill, FillToCome
    <3>1. Home(o) \in BrokerIds /\ rows[o].state = TargetState(book[Home(o)])
      BY <1>0, HomeListed DEF ReconInv, EndsFromHome
    <3>2. book[Home(o)].status \in ClosedStatuses
      BY <1>0, <3>1, TargetFacts DEF TypeInv, ReconTypeOK
    <3>3. book'[Home(o)] = book[Home(o)]
      BY <2>1, <3>1, <3>2 DEF OpenStatuses, ClosedStatuses
    <3> QED
      BY <3>3 DEF AloneInv, EndsWithFill
  <2> QED
    BY <2>3, <2>4 DEF AloneInv
<1>2. ASSUME NEW d \in Daemons, DaemonStep(d) \/ SnapshotFails(d)
      PROVE  AloneInv'
    BY <1>2, AloneDaemonStep
<1>3. ~(crashes < MaxCrashes)
  BY <1>0
<1>4. CASE UNCHANGED reconVars
  <2>1. rows' = rows /\ book' = book /\ dm' = dm
    BY <1>4 DEF reconVars
  <2>2. \A o \in Orders : Home(o)' = Home(o)
    BY <2>1, HomeFixed
  <2> QED
    BY <2>1, <2>2 DEF AloneInv, EndsWithFill, FillToCome, OpenUntilHandled, InHandAtTarget,
                      SeenBy, MatchOf
<1> QED
  BY <1>1, <1>2, <1>3, <1>4 DEF ReconNext, DaemonCrash

(* One daemon that is never interrupted leaves no closed order with an old *)
(* fill: the row already has the broker's or the daemon is about to write  *)
(* it.  With a second daemon, or a crash between the two transactions of a *)
(* repair, this fails, and nothing lists a closed row again.               *)
THEOREM ReconClosedHaveFill ==
    ASSUME \A d, e \in Daemons : d = e, MaxCrashes = 0
    PROVE  ReconSpec => []ClosedHaveFill
<1>1. ReconInit => EndsWithFill /\ OpenUntilHandled /\ InHandAtTarget
  BY LeftBehindFacts, IdleDaemonFacts
  DEF ReconInit, EndsWithFill, OpenUntilHandled, InHandAtTarget
<1>2. AloneInv /\ [ReconNext]_reconVars /\ ReconInv' => AloneInv'
  BY AloneStep
<1>3. ReconInit => AloneInv
  BY <1>1, InitInv DEF AloneInv
<1>4. AloneInv => ClosedHaveFill
  BY KnownAtHome DEF AloneInv, EndsWithFill, ClosedHaveFill, Known, Entry
<1> QED
  BY <1>2, <1>3, <1>4, ReconInvariant, PTL DEF ReconSpec
=============================================================================
