------------------------ MODULE OrderPlacement_proofs ------------------------
(***************************************************************************)
(* Proofs about OrderPlacement, for every set of threads, orders, broker   *)
(* ids and daemons and for every number of restarts.                       *)
(*                                                                         *)
(* The insertion of an order's row elects one thread, for ever: only a     *)
(* thread that found no row gets inside, and a row never disappears.  From *)
(* there the proof counts.  What a thread knows at each stage about its    *)
(* order is ThreadOK; what is known of an order whether or not a thread is *)
(* still at work on it, which is all that survives a crash, is OrderOK.    *)
(* The last part is about one caller among the threads (RaceSpec).         *)
(***************************************************************************)
EXTENDS MCPlaceRace, OrderReconciler_proofs, FiniteSetTheorems

(* The broker ids issued for o; PlacedAs(o) is IssuedFor(o, placedFor). *)
IssuedFor(o, pf) == {b \in BrokerIds : pf[b] = o}

(* Past the insertion of the row. *)
Inside == Pcs \ {"idle", "upsert", "create"}

Accepted == {"ACKNOWLEDGED", "PARTIAL", "FILLED"}
BeyondSent == OrderState \ {"NEW", "SENT"}

ThreadLocal == [ pc : Pcs, order : Orders \cup {NoOrder},
                 attempt : 1 .. MaxAttempts, id : BrokerIds \cup {NoBroker} ]

(* What a thread with local variables l has done for its order. *)
ThreadOK(l, rw, pf) ==
    /\ l.id # NoBroker => l.order # NoOrder /\ pf[l.id] = l.order
    /\ l.pc \in Inside => rw[l.order].state # "ABSENT"
    /\ l.pc \in {"risk", "send", "record"} => IssuedFor(l.order, pf) = {}
    /\ l.pc = "submit" => Cardinality(IssuedFor(l.order, pf)) < l.attempt
    /\ l.pc = "ack" => IssuedFor(l.order, pf) # {}
    /\ l.pc = "mark" => rw[l.order].state \in BeyondSent

(* What the row r of an order has to do with the ids issued for it. *)
OrderOK(o, r, pf) ==
    /\ r.key = IF r.state = "ABSENT" THEN NoKey ELSE o
    /\ r.state = "ABSENT" => IssuedFor(o, pf) = {}
    /\ r.state \in Accepted => IssuedFor(o, pf) # {}
    /\ r.broker # NoBroker => pf[r.broker] = o
    /\ IsFiniteSet(IssuedFor(o, pf)) /\ Cardinality(IssuedFor(o, pf)) <= MaxAttempts

OneInside ==
    \A t, u \in Threads :
        th[t].pc \in Inside /\ th[u].pc \in Inside /\ th[t].order = th[u].order => t = u

ListedBelong ==
    \A d \in Daemons, o \in Orders :
        dm[d].listed[o].broker # NoBroker => placedFor[dm[d].listed[o].broker] = o

PlaceInv ==
    /\ TypeInv /\ PlaceTypeOK
    /\ \A t \in Threads : ThreadOK(th[t], rows, placedFor)
    /\ \A o \in Orders : OrderOK(o, rows[o], placedFor)
    /\ OneInside
    /\ ListedBelong
    /\ SubmittedIntentIsBacked

-----------------------------------------------------------------------------
(* Operators *)

USE OrderStatesAssumption, OrderReconcilerAssumption, OrderPlacementAssumption

(* Past SENT there is no way back, and no edge leads out of the states. *)
LEMMA ForwardOnly ==
    /\ \A s \in OrderState : ValidTransitions[s] \subseteq OrderState
    /\ \A s \in BeyondSent : ValidTransitions[s] \subseteq BeyondSent
    /\ Accepted \subseteq OrderState /\ "ABSENT" \notin OrderState
BY DEF OrderState, Terminal, ValidTransitions, BeyondSent, Accepted

LEMMA StageFacts ==
    /\ Inside \subseteq Pcs
    /\ {"risk", "send", "record", "submit", "ack", "mark", "failed", "killed",
        "refused", "count", "reject"} \subseteq Inside
    /\ Inside \cap {"idle", "upsert", "create"} = {}
BY DEF Inside, Pcs

LEMMA IdleThreadFacts ==
    /\ IdleThread \in ThreadLocal
    /\ IdleThread.pc = "idle" /\ IdleThread.order = NoOrder /\ IdleThread.id = NoBroker
    /\ IdleThread.attempt = 1
BY DEF IdleThread, ThreadLocal, Pcs

LEMMA IdleThreadOK ==
    ASSUME NEW rw, NEW pf
    PROVE  ThreadOK(IdleThread, rw, pf)
BY IdleThreadFacts, StageFacts DEF ThreadOK

(* The types of OrderPlacement, in the vocabulary of the proofs. *)
LEMMA PlaceTyped ==
    ASSUME PlaceTypeOK
    PROVE  /\ rows \in [Orders -> Row] /\ book \in [BrokerIds -> BookEntry]
           /\ th \in [Threads -> ThreadLocal]
           /\ \A t \in Threads : th[t].pc # "idle" => th[t].order \in Orders
           /\ placedFor \in [BrokerIds -> Orders \cup {NoOrder}]
BY DEF PlaceTypeOK, ThreadLocal, At

-----------------------------------------------------------------------------
(* One thread moves *)

(* A step of thread t to the local variables x, a table rw and ids pf that *)
(* leaves every other thread what it knows: rows only move forward, new    *)
(* ids are for the order t holds inside, and nobody else is inside for it. *)
Undisturbing(t, x, rw, pf) ==
    /\ x \in ThreadLocal
    /\ x.order = NoOrder <=> x.pc = "idle"
    /\ ThreadOK(x, rw, pf)
    /\ x.pc \in Inside =>
            \A u \in Threads \ {t} : th[u].pc \in Inside => th[u].order # x.order
    /\ \A o \in Orders : rows[o].state # "ABSENT" => rw[o].state # "ABSENT"
    /\ \A o \in Orders : rows[o].state \in BeyondSent => rw[o].state \in BeyondSent
    /\ \A b \in BrokerIds : pf[b] # placedFor[b] =>
            placedFor[b] = NoOrder /\ pf[b] = th[t].order /\ th[t].pc \in Inside

LEMMA ThreadsAfter ==
    ASSUME PlaceInv, NEW t \in Threads, NEW x, NEW rw, NEW pf,
           th' = [th EXCEPT ![t] = x], Undisturbing(t, x, rw, pf)
    PROVE  /\ th' \in [Threads -> ThreadLocal]
           /\ \A u \in Threads : th'[u].order = NoOrder <=> th'[u].pc = "idle"
           /\ \A u \in Threads : ThreadOK(th'[u], rw, pf)
           /\ OneInside'
<1>0. /\ x \in ThreadLocal
      /\ x.order = NoOrder <=> x.pc = "idle"
      /\ ThreadOK(x, rw, pf)
      /\ x.pc \in Inside =>
            \A u \in Threads \ {t} : th[u].pc \in Inside => th[u].order # x.order
      /\ \A o \in Orders : rows[o].state # "ABSENT" => rw[o].state # "ABSENT"
      /\ \A o \in Orders : rows[o].state \in BeyondSent => rw[o].state \in BeyondSent
      /\ \A b \in BrokerIds : pf[b] # placedFor[b] =>
            placedFor[b] = NoOrder /\ pf[b] = th[t].order /\ th[t].pc \in Inside
  BY DEF Undisturbing
<1>1. /\ th \in [Threads -> ThreadLocal]
      /\ \A u \in Threads : th[u].order = NoOrder <=> th[u].pc = "idle"
      /\ \A u \in Threads : th[u].id \in BrokerIds \cup {NoBroker}
  BY DEF PlaceInv, PlaceTypeOK, ThreadLocal, At
<1>2. th' \in [Threads -> ThreadLocal] /\ th'[t] = x
  BY <1>0, <1>1
<1>3. \A u \in Threads \ {t} : th'[u] = th[u]
  BY <1>1
<1>4. ASSUME NEW u \in Threads \ {t}
      PROVE  ThreadOK(th[u], rw, pf)
  <2> DEFINE l == th[u]
  <2>1. ThreadOK(l, rows, placedFor)
    BY DEF PlaceInv
  <2>2. l.id # NoBroker => pf[l.id] = l.order
    BY <1>0, <1>1, <2>1 DEF ThreadOK
  <2>3. ASSUME l.pc \in Inside
        PROVE  /\ l.order \in Orders
               /\ IssuedFor(l.order, pf) = IssuedFor(l.order, placedFor)
    <3>1. l.order \in Orders
      BY <1>1, <2>3, StageFacts DEF ThreadLocal
    <3>2. th[t].pc \in Inside => l.order # th[t].order
      BY <2>3 DEF PlaceInv, OneInside
    <3>3. \A b \in BrokerIds : pf[b] = l.order <=> placedFor[b] = l.order
      BY <1>0, <3>1, <3>2
    <3> QED
      BY <3>1, <3>3 DEF IssuedFor
  <2>4. l.pc \in Inside => rw[l.order].state # "ABSENT"
    BY <1>0, <2>1, <2>3 DEF ThreadOK
  <2>5. l.pc \in {"risk", "send", "record", "submit", "ack", "mark"} => l.pc \in Inside
    BY StageFacts
  <2>6. l.pc = "mark" => rw[l.order].state \in BeyondSent
    BY <1>0, <2>1, <2>3, <2>5 DEF ThreadOK
  <2>7. /\ l.pc \in {"risk", "send", "record"} => IssuedFor(l.order, pf) = {}
        /\ l.pc = "submit" => Cardinality(IssuedFor(l.order, pf)) < l.attempt
        /\ l.pc = "ack" => IssuedFor(l.order, pf) # {}
    BY <2>1, <2>3, <2>5 DEF ThreadOK
  <2>8. l.id # NoBroker => l.order # NoOrder
    BY <2>1 DEF ThreadOK
  <2> HIDE DEF l
  <2> QED
    BY <2>2, <2>4, <2>6, <2>7, <2>8 DEF ThreadOK, l
<1>5. OneInside'
  BY <1>0, <1>2, <1>3 DEF PlaceInv, OneInside
<1> QED
  BY <1>0, <1>1, <1>2, <1>3, <1>4, <1>5

LEMMA TypesAfterThread ==
    ASSUME TypeInv, rows' \in [Orders -> Row], book' \in [BrokerIds -> BookEntry],
           OpenHasRest', UNCHANGED <<dm, crashes>>
    PROVE  TypeInv'
BY DEF TypeInv, ReconTypeOK, EntryInHand, ListingInCycle, MatchOf

EngineTyped ==
    /\ intent \in [Signals -> {"NONE", "NEW", "SUBMITTED", "REJECTED"}]
    /\ seen \subseteq Signals
    /\ failures \in [net : 0 .. NetThreshold + 1, rejects : 0 .. RejectThreshold + 1,
                     killed : BOOLEAN]

LEMMA PlaceTypedAfter ==
    ASSUME EngineTyped', rows' \in [Orders -> Row], book' \in [BrokerIds -> BookEntry],
           th' \in [Threads -> ThreadLocal],
           \A u \in Threads : th'[u].order = NoOrder <=> th'[u].pc = "idle",
           placedFor' \in [BrokerIds -> Orders \cup {NoOrder}]
    PROVE  PlaceTypeOK'
BY DEF PlaceTypeOK, EngineTyped, ThreadLocal, At

LEMMA ListedAfter ==
    ASSUME PlaceInv, dm' = dm,
           \A b \in BrokerIds : placedFor[b] # NoOrder => placedFor'[b] = placedFor[b]
    PROVE  ListedBelong'
<1>1. \A d \in Daemons, o \in Orders : dm[d].listed[o].broker \in BrokerIds \cup {NoBroker}
  BY DEF PlaceInv, TypeInv, ReconTypeOK, Row
<1> QED
  BY <1>1 DEF PlaceInv, ListedBelong

(* The steps of a thread that touch neither the orders nor the broker. *)
LEMMA LocalStepKeepsInv ==
    ASSUME PlaceInv, NEW t \in Threads, NEW x \in ThreadLocal,
           th' = [th EXCEPT ![t] = x],
           x.order = NoOrder <=> x.pc = "idle",
           ThreadOK(x, rows, placedFor),
           x.pc \in Inside => th[t].pc \in Inside /\ x.order = th[t].order,
           UNCHANGED <<rows, book, dm, crashes, placedFor>>,
           EngineTyped', SubmittedIntentIsBacked'
    PROVE  PlaceInv'
<1>1. \A u \in Threads \ {t} :
        x.pc \in Inside /\ th[u].pc \in Inside => th[u].order # x.order
  BY DEF PlaceInv, OneInside
<1>2. /\ th' \in [Threads -> ThreadLocal]
      /\ \A u \in Threads : th'[u].order = NoOrder <=> th'[u].pc = "idle"
      /\ \A u \in Threads : ThreadOK(th'[u], rows, placedFor)
      /\ OneInside'
  <2>1. Undisturbing(t, x, rows, placedFor)
    BY <1>1 DEF Undisturbing
  <2> QED
    BY <2>1, ThreadsAfter
<1>3. /\ rows' \in [Orders -> Row] /\ book' \in [BrokerIds -> BookEntry]
      /\ placedFor' \in [BrokerIds -> Orders \cup {NoOrder}]
  BY PlaceTyped DEF PlaceInv
<1>4. TypeInv'
  BY <1>3, TypesAfterThread DEF PlaceInv, TypeInv, OpenHasRest
<1>5. PlaceTypeOK'
  BY <1>2, <1>3, PlaceTypedAfter
<1>6. ListedBelong'
  BY ListedAfter
<1>7. /\ \A u \in Threads : ThreadOK(th'[u], rows', placedFor')
      /\ \A o \in Orders : OrderOK(o, rows'[o], placedFor')
  BY <1>2 DEF PlaceInv
<1> QED
  BY <1>2, <1>4, <1>5, <1>6, <1>7 DEF PlaceInv

(* A call ends without touching the orders. *)
LEMMA ReturnKeepsInv ==
    ASSUME PlaceInv, NEW t \in Threads, Return(t),
           UNCHANGED <<rows, book, dm, crashes, placedFor>>,
           EngineTyped', SubmittedIntentIsBacked'
    PROVE  PlaceInv'
<1>1. IdleThread.pc \notin Inside
  BY IdleThreadFacts, StageFacts
<1> QED
  BY <1>1, IdleThreadFacts, IdleThreadOK, LocalStepKeepsInv DEF Return

(* A thread goes on to the next stage without touching the orders. *)
LEMMA GotoKeepsInv ==
    ASSUME PlaceInv, NEW t \in Threads, NEW p \in Pcs \ {"idle"}, th[t].pc # "idle", Goto(t, p),
           p \in Inside => th[t].pc \in Inside,
           p = "submit" => th[t].pc = "record",
           p \in {"risk", "send", "record"} => th[t].pc \in {"risk", "send", "record"},
           p \notin {"ack", "mark"},
           UNCHANGED <<rows, book, dm, crashes, placedFor>>,
           EngineTyped', SubmittedIntentIsBacked'
    PROVE  PlaceInv'
<1> DEFINE x == [th[t] EXCEPT !.pc = p]
<1>1. th[t] \in ThreadLocal /\ th[t].order \in Orders /\ ThreadOK(th[t], rows, placedFor)
  BY PlaceTyped DEF PlaceInv
<1>2. /\ x \in ThreadLocal /\ x.pc = p /\ x.order = th[t].order
      /\ x.id = th[t].id /\ x.attempt = th[t].attempt
  BY <1>1 DEF ThreadLocal
<1>3. th' = [th EXCEPT ![t] = x]
  BY DEF Goto
<1>4. p = "submit" => Cardinality(IssuedFor(x.order, placedFor)) < x.attempt
  <2> SUFFICES ASSUME p = "submit"
               PROVE  Cardinality(IssuedFor(x.order, placedFor)) < x.attempt
    OBVIOUS
  <2>1. IssuedFor(x.order, placedFor) = {}
    BY <1>1, <1>2 DEF ThreadOK
  <2>2. Cardinality(IssuedFor(x.order, placedFor)) = 0
    BY <2>1, FS_EmptySet
  <2> QED
    BY <1>2, <2>2 DEF ThreadLocal
<1>5. x.id # NoBroker => x.order # NoOrder /\ placedFor[x.id] = x.order
  BY <1>1, <1>2 DEF ThreadOK
<1>6. /\ x.pc \in Inside => rows[x.order].state # "ABSENT"
      /\ x.pc \in {"risk", "send", "record"} => IssuedFor(x.order, placedFor) = {}
  BY <1>1, <1>2, StageFacts DEF ThreadOK
<1> HIDE DEF x
<1>7. ThreadOK(x, rows, placedFor)
  BY <1>2, <1>4, <1>5, <1>6 DEF ThreadOK
<1>8. x.order = NoOrder <=> x.pc = "idle"
  BY <1>1, <1>2
<1> QED
  BY <1>2, <1>3, <1>7, <1>8, LocalStepKeepsInv

(* An order past SENT backs its intent for ever. *)
LEMMA BackedForward ==
    ASSUME PlaceInv, UNCHANGED intent,
           \A p \in Orders : rows[p].state \in BeyondSent => rows'[p].state \in BeyondSent
    PROVE  SubmittedIntentIsBacked'
<1> SUFFICES ASSUME NEW s \in Signals, intent[s] = "SUBMITTED"
             PROVE  \E p \in Orders :
                      SignalOf[p] = s /\ rows'[p].state \notin {"ABSENT", "NEW", "SENT"}
  BY DEF SubmittedIntentIsBacked
<1>1. PICK p \in Orders : SignalOf[p] = s /\ rows[p].state \notin {"ABSENT", "NEW", "SENT"}
  BY DEF PlaceInv, SubmittedIntentIsBacked
<1>2. rows[p] \in Row
  BY PlaceTyped DEF PlaceInv
<1>3. rows[p].state \in BeyondSent
  BY <1>1, <1>2 DEF Row, BeyondSent
<1>4. rows'[p].state \notin {"ABSENT", "NEW", "SENT"}
  BY <1>3, ForwardOnly DEF BeyondSent
<1> QED
  BY <1>1, <1>4

(* Thread t writes the row of its order, an edge of the table or a new row *)
(* for an id that had none, and goes on or returns.                        *)
LEMMA RowStepKeepsInv ==
    ASSUME PlaceInv, NEW t \in Threads, NEW x \in ThreadLocal, NEW r \in Row,
           th[t].pc # "idle",
           rows' = [rows EXCEPT ![th[t].order] = r],
           th' = [th EXCEPT ![t] = x],
           x.order = NoOrder <=> x.pc = "idle",
           r.state \in OrderState,
           rows[th[t].order].state \in BeyondSent => r.state \in BeyondSent,
           OrderOK(th[t].order, r, placedFor),
           x.pc \in Inside => x.order = th[t].order,
           x.pc \in Inside => th[t].pc \in Inside \/ rows[th[t].order].state = "ABSENT",
           ThreadOK(x, rows', placedFor),
           UNCHANGED <<book, dm, crashes, intent, seen, failures, placedFor>>
    PROVE  PlaceInv'
<1> DEFINE o == th[t].order
<1>1. /\ o \in Orders /\ rows \in [Orders -> Row] /\ book \in [BrokerIds -> BookEntry]
      /\ placedFor \in [BrokerIds -> Orders \cup {NoOrder}]
      /\ th \in [Threads -> ThreadLocal]
  BY PlaceTyped DEF PlaceInv
<1>2. /\ rows' \in [Orders -> Row] /\ rows'[o] = r
      /\ \A p \in Orders \ {o} : rows'[p] = rows[p]
  BY <1>1
<1>3. r.state # "ABSENT"
  BY ForwardOnly
<1>4. ASSUME NEW u \in Threads \ {t}, x.pc \in Inside, th[u].pc \in Inside
      PROVE  th[u].order # x.order
  <2>1. x.order = o
    BY <1>4
  <2>2. rows[th[u].order].state # "ABSENT"
    BY <1>4 DEF PlaceInv, ThreadOK
  <2>3. th[t].pc \in Inside => th[u].order # o
    BY <1>4 DEF PlaceInv, OneInside
  <2> HIDE DEF o
  <2> QED
    BY <1>4, <2>1, <2>2, <2>3 DEF o
<1>5. /\ \A p \in Orders : rows[p].state # "ABSENT" => rows'[p].state # "ABSENT"
      /\ \A p \in Orders : rows[p].state \in BeyondSent => rows'[p].state \in BeyondSent
  BY <1>2, <1>3
<1>6. placedFor' = placedFor
  OBVIOUS
<1>7. /\ th' \in [Threads -> ThreadLocal]
      /\ \A u \in Threads : th'[u].order = NoOrder <=> th'[u].pc = "idle"
      /\ \A u \in Threads : ThreadOK(th'[u], rows', placedFor)
      /\ OneInside'
  <2>1. PICK rw : rw = rows'
    OBVIOUS
  <2>2. Undisturbing(t, x, rw, placedFor)
    BY <1>4, <1>5, <2>1 DEF Undisturbing
  <2>3. /\ th' \in [Threads -> ThreadLocal]
        /\ \A u \in Threads : th'[u].order = NoOrder <=> th'[u].pc = "idle"
        /\ \A u \in Threads : ThreadOK(th'[u], rw, placedFor)
        /\ OneInside'
    BY <2>2, ThreadsAfter
  <2> QED
    BY <2>1, <2>3
<1>8. TypeInv' /\ PlaceTypeOK'
  <2>1. TypeInv'
    BY <1>1, <1>2, TypesAfterThread DEF PlaceInv, TypeInv, OpenHasRest
  <2>2. EngineTyped'
    BY DEF PlaceInv, PlaceTypeOK, EngineTyped
  <2> QED
    BY <1>1, <1>2, <1>6, <1>7, <2>1, <2>2, PlaceTypedAfter
<1>9. \A p \in Orders : OrderOK(p, rows'[p], placedFor')
  BY <1>2, <1>6 DEF PlaceInv
<1>10. ListedBelong'
  BY <1>6, ListedAfter
<1>11. SubmittedIntentIsBacked'
  BY <1>5, BackedForward
<1> QED
  BY <1>6, <1>7, <1>8, <1>9, <1>10, <1>11 DEF PlaceInv

(* transition_order_state from inside place_order: a move along an edge    *)
(* with the broker id the thread was given, or an exception.               *)
LEMMA MoveKeepsInv ==
    ASSUME PlaceInv, NEW t \in Threads, NEW s \in OrderState,
           NEW b \in {NoBroker, th[t].id}, NEW next \in Pcs,
           th[t].pc \in Inside, MoveOrRaise(t, s, b, next),
           s \in Accepted => IssuedFor(th[t].order, placedFor) # {},
           \/ next = "idle"
           \/ next = "record" /\ th[t].pc = "send"
           \/ next = "mark" /\ s \in BeyondSent,
           UNCHANGED <<book, dm, crashes, intent, seen, failures, placedFor>>
    PROVE  PlaceInv'
<1> DEFINE o == th[t].order
           l == th[t]
<1>1. /\ l \in ThreadLocal /\ l.pc # "idle" /\ o \in Orders /\ ThreadOK(l, rows, placedFor)
      /\ rows \in [Orders -> Row] /\ rows[o] \in Row /\ rows[o].filled \in Nat
      /\ b \in BrokerIds \cup {NoBroker}
  <2>1. l.pc # "idle"
    BY StageFacts
  <2>2. l \in ThreadLocal /\ o \in Orders /\ rows \in [Orders -> Row]
    BY <2>1, PlaceTyped DEF PlaceInv
  <2> QED
    BY <2>1, <2>2 DEF PlaceInv, Row, ThreadLocal
<1>2. CASE UNCHANGED rows /\ Return(t)
  <2>1. EngineTyped' /\ SubmittedIntentIsBacked'
    BY <1>2 DEF PlaceInv, PlaceTypeOK, EngineTyped, SubmittedIntentIsBacked
  <2> QED
    BY <1>2, <2>1, ReturnKeepsInv
<1>3. CASE /\ CanMove(o, s)
           /\ rows' = [rows EXCEPT ![o] = MovedRow(@, s, b, @.filled)]
           /\ IF next = "idle" THEN Return(t) ELSE Goto(t, next)
  <2> DEFINE r == MovedRow(rows[o], s, b, rows[o].filled)
  <2>1. /\ r \in Row /\ r.state = s /\ r.key = rows[o].key
        /\ r.broker = IF b = NoBroker THEN rows[o].broker ELSE b
    BY <1>1, MovedRowFacts
  <2>2. rows' = [rows EXCEPT ![o] = r]
    BY <1>3
  <2>3. rows[o].state \in OrderState /\ s \in ValidTransitions[rows[o].state]
    BY <1>1, <1>3, CanMoveFacts
  <2>4. OrderOK(o, rows[o], placedFor)
    BY <1>1 DEF PlaceInv
  <2>5. b # NoBroker => placedFor[b] = o
    BY <1>1 DEF ThreadOK
  <2> HIDE DEF r
  <2>6. OrderOK(o, r, placedFor)
    <3>1. rows[o].state # "ABSENT" /\ r.state # "ABSENT"
      BY <2>1, <2>3, ForwardOnly
    <3> QED
      BY <2>1, <2>4, <2>5, <3>1 DEF OrderOK
  <2>7. rows[o].state \in BeyondSent => r.state \in BeyondSent
    BY <2>1, <2>3, ForwardOnly
  <2>8. CASE next = "idle"
    <3>1. th' = [th EXCEPT ![t] = IdleThread]
      BY <1>3, <2>8 DEF Return
    <3>2. ThreadOK(IdleThread, rows', placedFor)
      BY IdleThreadOK
    <3>3. IdleThread.pc \notin Inside
      BY IdleThreadFacts, StageFacts
    <3> QED
      BY <1>1, <2>1, <2>2, <2>6, <2>7, <3>1, <3>2, <3>3, IdleThreadFacts, RowStepKeepsInv
  <2>9. CASE next # "idle"
    <3> DEFINE x == [l EXCEPT !.pc = next]
    <3>1. /\ x \in ThreadLocal /\ x.pc = next /\ x.order = o /\ x.id = l.id
          /\ x.attempt = l.attempt
      BY <1>1 DEF ThreadLocal
    <3>2. th' = [th EXCEPT ![t] = x]
      BY <1>3, <2>9 DEF Goto
    <3>3. rows'[o] = r /\ r.state # "ABSENT"
      BY <1>1, <2>1, <2>2, ForwardOnly
    <3>4. x.id # NoBroker => x.order # NoOrder /\ placedFor[x.id] = x.order
      BY <1>1, <3>1 DEF ThreadOK
    <3>5. next = "record" => IssuedFor(o, placedFor) = {}
      BY <1>1 DEF ThreadOK
    <3>6. x.order = NoOrder <=> x.pc = "idle"
      BY <1>1, <2>9, <3>1
    <3> HIDE DEF x, o
    <3>7. ThreadOK(x, rows', placedFor)
      BY <2>1, <2>9, <3>1, <3>3, <3>4, <3>5 DEF ThreadOK
    <3> QED
      BY <1>1, <2>1, <2>2, <2>6, <2>7, <3>1, <3>2, <3>6, <3>7, RowStepKeepsInv DEF o
  <2> QED
    BY <2>8, <2>9
<1> QED
  BY <1>2, <1>3 DEF MoveOrRaise

(* A submission of thread t that the broker listed under b leaves the      *)
(* thread with the local variables x.                                      *)
Submission(t, x, b, status) ==
    /\ b \in BrokerIds /\ status \in {"OPEN", "REJECTED"}
    /\ th[t].pc = "submit" /\ BrokerLists(th[t].order, b, status)
    /\ x \in ThreadLocal
    /\ x.order = th[t].order
    /\ x.id \in {b, NoBroker, th[t].id}
    /\ x.pc \in {"ack", "refused", "submit", "failed", "killed"}
    /\ x.pc = "submit" => x.attempt = th[t].attempt + 1
    /\ th' = [th EXCEPT ![t] = x]

(* The broker takes a submission, whatever the caller hears of it: one id  *)
(* more for the order, counted against the attempts of this call.          *)
LEMMA SubmissionKeepsInv ==
    ASSUME PlaceInv, NEW t \in Threads, NEW x, NEW b, NEW status,
           Submission(t, x, b, status),
           UNCHANGED <<rows, dm, crashes, intent>>, EngineTyped'
    PROVE  PlaceInv'
<1>0. /\ b \in BrokerIds /\ status \in {"OPEN", "REJECTED"}
      /\ th[t].pc = "submit" /\ BrokerLists(th[t].order, b, status)
      /\ x \in ThreadLocal
      /\ x.order = th[t].order
      /\ x.id \in {b, NoBroker, th[t].id}
      /\ x.pc \in {"ack", "refused", "submit", "failed", "killed"}
      /\ x.pc = "submit" => x.attempt = th[t].attempt + 1
      /\ th' = [th EXCEPT ![t] = x]
  BY DEF Submission
<1> DEFINE o == th[t].order
           n == [placedFor EXCEPT ![b] = o]
<1>1. /\ o \in Orders /\ rows \in [Orders -> Row] /\ book \in [BrokerIds -> BookEntry]
      /\ placedFor \in [BrokerIds -> Orders \cup {NoOrder}]
      /\ th \in [Threads -> ThreadLocal] /\ th[t] \in ThreadLocal
      /\ ThreadOK(th[t], rows, placedFor) /\ th[t].pc \in Inside /\ x.pc \in Inside
  BY <1>0, PlaceTyped, StageFacts DEF PlaceInv
<1>2. /\ placedFor[b] = NoOrder /\ placedFor' = n
      /\ book' = [book EXCEPT ![b] = [status |-> status, filled |-> 0]]
  BY <1>0 DEF BrokerLists
<1>3. /\ n[b] = o /\ \A c \in BrokerIds \ {b} : n[c] = placedFor[c]
      /\ n \in [BrokerIds -> Orders \cup {NoOrder}]
  BY <1>0, <1>1
<1> HIDE DEF n, o
<1>4. /\ b \notin IssuedFor(o, placedFor)
      /\ IssuedFor(o, n) = IssuedFor(o, placedFor) \cup {b}
      /\ \A p \in Orders : p # o => IssuedFor(p, n) = IssuedFor(p, placedFor)
      /\ \A c \in BrokerIds : placedFor[c] # NoOrder => n[c] = placedFor[c]
  BY <1>0, <1>1, <1>2, <1>3 DEF IssuedFor
<1>5. /\ IsFiniteSet(IssuedFor(o, n))
      /\ Cardinality(IssuedFor(o, n)) = Cardinality(IssuedFor(o, placedFor)) + 1
      /\ Cardinality(IssuedFor(o, placedFor)) \in Nat
  <2> DEFINE old == IssuedFor(o, placedFor)
             new == IssuedFor(o, n)
  <2>1. IsFiniteSet(old) /\ b \notin old /\ new = old \cup {b}
    BY <1>0, <1>1, <1>4 DEF PlaceInv, OrderOK
  <2> HIDE DEF old, new
  <2>2. /\ IsFiniteSet(old \cup {b})
        /\ Cardinality(old \cup {b}) = IF b \in old THEN Cardinality(old) ELSE Cardinality(old) + 1
    BY <1>0, <2>1, FS_AddElement, Zenon
  <2>3. IsFiniteSet(new) /\ Cardinality(new) = Cardinality(old) + 1
    BY <1>0, <2>1, <2>2, Zenon
  <2>4. Cardinality(old) \in Nat
    BY <1>0, <2>1, FS_CardinalityType
  <2> QED
    BY <1>0, <2>3, <2>4 DEF old, new
<1>6. Cardinality(IssuedFor(o, placedFor)) < th[t].attempt
  BY <1>0, <1>1 DEF ThreadOK, o
<1>7. ThreadOK(x, rows, n)
  <2>1. x.id # NoBroker => n[x.id] = o
    <3>1. th[t].id # NoBroker => th[t].id \in BrokerIds /\ placedFor[th[t].id] = o
      BY <1>0, <1>1 DEF ThreadOK, ThreadLocal, o
    <3> QED
      BY <1>0, <1>1, <1>3, <1>4, <3>1
  <2>2. rows[o].state # "ABSENT"
    BY <1>0, <1>1 DEF ThreadOK, o
  <2>3. x.pc = "submit" => Cardinality(IssuedFor(o, n)) < x.attempt
    BY <1>0, <1>1, <1>5, <1>6 DEF ThreadLocal
  <2>4. x.order = o /\ o # NoOrder
    BY <1>0, <1>1 DEF o
  <2> QED
    BY <1>0, <1>4, <2>1, <2>2, <2>3, <2>4 DEF ThreadOK
<1>8. \A p \in Orders : OrderOK(p, rows[p], n)
  <2> SUFFICES ASSUME NEW p \in Orders PROVE OrderOK(p, rows[p], n)
    OBVIOUS
  <2>1. OrderOK(p, rows[p], placedFor) /\ rows[p].broker \in BrokerIds \cup {NoBroker}
    BY <1>0, <1>1 DEF PlaceInv, Row
  <2>2. rows[p].broker # NoBroker => n[rows[p].broker] = p
    BY <1>0, <1>4, <2>1 DEF OrderOK
  <2>3. CASE p # o
    BY <1>0, <1>4, <2>1, <2>2, <2>3 DEF OrderOK
  <2>4. CASE p = o
    <3>1. rows[o].state # "ABSENT"
      BY <1>0, <1>1 DEF ThreadOK, o
    <3>2. Cardinality(IssuedFor(o, n)) <= MaxAttempts
      BY <1>0, <1>1, <1>5, <1>6 DEF ThreadLocal
    <3>3. IssuedFor(o, n) # {}
      BY <1>0, <1>4
    <3> QED
      BY <1>0, <1>5, <2>1, <2>2, <2>4, <3>1, <3>2, <3>3 DEF OrderOK
  <2> QED
    BY <1>0, <2>3, <2>4
<1>9. /\ th' \in [Threads -> ThreadLocal]
      /\ \A u \in Threads : th'[u].order = NoOrder <=> th'[u].pc = "idle"
      /\ \A u \in Threads : ThreadOK(th'[u], rows, n)
      /\ OneInside'
  <2>1. x.order = NoOrder <=> x.pc = "idle"
    BY <1>0, <1>1 DEF o
  <2>2. \A u \in Threads \ {t} : th[u].pc \in Inside => th[u].order # x.order
    BY <1>0, <1>1 DEF PlaceInv, OneInside
  <2>3. PICK pf : pf = n
    OBVIOUS
  <2>4. Undisturbing(t, x, rows, pf)
    BY <1>0, <1>1, <1>2, <1>3, <1>7, <2>1, <2>2, <2>3 DEF Undisturbing, o
  <2>5. /\ th' \in [Threads -> ThreadLocal]
        /\ \A u \in Threads : th'[u].order = NoOrder <=> th'[u].pc = "idle"
        /\ \A u \in Threads : ThreadOK(th'[u], rows, pf)
        /\ OneInside'
    BY <1>0, <2>4, ThreadsAfter
  <2> QED
    BY <1>0, <2>3, <2>5
<1>10. TypeInv' /\ PlaceTypeOK'
  <2> DEFINE e == [status |-> status, filled |-> 0]
  <2>1. e \in BookEntry /\ e.filled < Lot
    BY <1>0 DEF BookEntry, OpenStatuses, ClosedStatuses
  <2>2. book' = [book EXCEPT ![b] = e]
    BY <1>0, <1>2
  <2> HIDE DEF e
  <2>3. book' \in [BrokerIds -> BookEntry] /\ OpenHasRest'
    BY <1>0, <1>1, <2>1, <2>2 DEF PlaceInv, TypeInv, OpenHasRest
  <2>4. rows' \in [Orders -> Row] /\ placedFor' \in [BrokerIds -> Orders \cup {NoOrder}]
    BY <1>0, <1>1, <1>2, <1>3
  <2>5. TypeInv'
    BY <1>0, <2>3, <2>4, TypesAfterThread DEF PlaceInv
  <2> QED
    BY <1>0, <1>9, <2>3, <2>4, <2>5, PlaceTypedAfter
<1>11. ListedBelong'
  BY <1>0, <1>2, <1>4, ListedAfter
<1>12. SubmittedIntentIsBacked'
  BY <1>0 DEF PlaceInv, SubmittedIntentIsBacked
<1>13. /\ \A u \in Threads : ThreadOK(th'[u], rows', placedFor')
       /\ \A p \in Orders : OrderOK(p, rows'[p], placedFor')
  BY <1>0, <1>2, <1>8, <1>9
<1> QED
  BY <1>0, <1>9, <1>10, <1>11, <1>12, <1>13 DEF PlaceInv

-----------------------------------------------------------------------------
(* The engine's own variables *)

LEMMA EngineNow == PlaceInv => EngineTyped
BY DEF PlaceInv, PlaceTypeOK, EngineTyped

LEMMA FailureTyped ==
    ASSUME EngineTyped, NEW n \in 0 .. 1, NEW r \in 0 .. 1
    PROVE  AfterFailure(failures, n, r) \in
                [net : 0 .. NetThreshold + 1, rejects : 0 .. RejectThreshold + 1, killed : BOOLEAN]
<1> DEFINE nn == IF failures.net + n > NetThreshold THEN NetThreshold + 1 ELSE failures.net + n
           rr == IF failures.rejects + r > RejectThreshold THEN RejectThreshold + 1
                 ELSE failures.rejects + r
           kk == failures.killed \/ nn > NetThreshold \/ rr > RejectThreshold
<1>1. failures.net \in 0 .. NetThreshold + 1 /\ failures.rejects \in 0 .. RejectThreshold + 1
  BY DEF EngineTyped
<1>2. nn \in 0 .. NetThreshold + 1 /\ rr \in 0 .. RejectThreshold + 1
  BY <1>1
<1>3. kk \in BOOLEAN
  OBVIOUS
<1>4. AfterFailure(failures, n, r) = [net |-> nn, rejects |-> rr, killed |-> kk]
  BY DEF AfterFailure
<1> HIDE DEF nn, rr, kk
<1> QED
  BY <1>2, <1>3, <1>4

(* An intent is set to a status other than SUBMITTED. *)
LEMMA IntentReset ==
    ASSUME PlaceInv, NEW t \in Threads, th[t].order \in Orders,
           NEW status \in {"NEW", "REJECTED"}, SetIntent(t, status), UNCHANGED rows
    PROVE  /\ intent' \in [Signals -> {"NONE", "NEW", "SUBMITTED", "REJECTED"}]
           /\ SubmittedIntentIsBacked'
<1>1. /\ intent \in [Signals -> {"NONE", "NEW", "SUBMITTED", "REJECTED"}]
      /\ SignalOf[th[t].order] \in Signals
  BY EngineNow DEF EngineTyped
<1>2. \A s \in Signals : intent'[s] = "SUBMITTED" => intent[s] = "SUBMITTED"
  BY <1>1 DEF SetIntent
<1> QED
  BY <1>1, <1>2 DEF SetIntent, PlaceInv, SubmittedIntentIsBacked

LEMMA BackedStays ==
    ASSUME PlaceInv, UNCHANGED <<rows, intent>>
    PROVE  SubmittedIntentIsBacked'
BY DEF PlaceInv, SubmittedIntentIsBacked

(* No thread moves, and neither do the orders. *)
LEMMA StillKeepsInv ==
    ASSUME PlaceInv, TypeInv', UNCHANGED <<rows, dm, th, placedFor>>,
           EngineTyped', SubmittedIntentIsBacked'
    PROVE  PlaceInv'
<1>1. rows' \in [Orders -> Row] /\ book' \in [BrokerIds -> BookEntry]
  BY DEF TypeInv, ReconTypeOK
<1>2. PlaceTypeOK'
  BY <1>1, PlaceTyped, PlaceTypedAfter DEF PlaceInv, PlaceTypeOK, At
<1>3. OneInside' /\ ListedBelong'
  BY DEF PlaceInv, OneInside, ListedBelong
<1>4. /\ \A u \in Threads : ThreadOK(th'[u], rows', placedFor')
      /\ \A p \in Orders : OrderOK(p, rows'[p], placedFor')
  BY DEF PlaceInv
<1> QED
  BY <1>2, <1>3, <1>4 DEF PlaceInv

LEMMA FrameKeepsInv ==
    ASSUME PlaceInv, UNCHANGED <<rows, book, dm, crashes, th, placedFor>>,
           EngineTyped', SubmittedIntentIsBacked'
    PROVE  PlaceInv'
<1>1. TypeInv'
  BY DEF PlaceInv, TypeInv, ReconTypeOK, EntryInHand, ListingInCycle, MatchOf, OpenHasRest
<1> QED
  BY <1>1, StillKeepsInv

-----------------------------------------------------------------------------
(* One lemma per step of place_order *)

LEMMA CallKeepsInv ==
    ASSUME PlaceInv, NEW t \in Threads, NEW o \in Orders, Call(t, o)
    PROVE  PlaceInv'
<1>1. EngineTyped' /\ SubmittedIntentIsBacked'
  BY EngineNow, BackedStays DEF Call, EngineTyped
<1>2. CASE UNCHANGED th
  BY <1>1, <1>2, FrameKeepsInv DEF Call
<1>3. CASE th' = [th EXCEPT ![t] = [IdleThread EXCEPT !.pc = "upsert", !.order = o]]
  <2> DEFINE x == [IdleThread EXCEPT !.pc = "upsert", !.order = o]
  <2>1. /\ x \in ThreadLocal /\ x.pc = "upsert" /\ x.order = o /\ x.id = NoBroker
    BY IdleThreadFacts DEF IdleThread, ThreadLocal, Pcs
  <2>2. th' = [th EXCEPT ![t] = x]
    BY <1>3
  <2> HIDE DEF x
  <2>3. x.pc \notin Inside
    BY <2>1 DEF Inside
  <2>4. ThreadOK(x, rows, placedFor)
    BY <2>1, <2>3 DEF ThreadOK
  <2>5. x.order = NoOrder <=> x.pc = "idle"
    BY <2>1
  <2> QED
    BY <1>1, <2>1, <2>2, <2>3, <2>4, <2>5, LocalStepKeepsInv DEF Call
<1> QED
  BY <1>2, <1>3 DEF Call

LEMMA UpsertKeepsInv ==
    ASSUME PlaceInv, NEW t \in Threads, UpsertNewIntent(t)
    PROVE  PlaceInv'
<1>1. th[t].pc = "upsert" /\ th[t].order \in Orders
  BY PlaceTyped DEF UpsertNewIntent, At, PlaceInv
<1>2. EngineTyped' /\ SubmittedIntentIsBacked'
  BY <1>1, EngineNow, IntentReset DEF UpsertNewIntent, EngineTyped
<1>3. "create" \in Pcs /\ "create" \notin Inside
  BY DEF Inside, Pcs
<1> QED
  BY <1>1, <1>2, <1>3, GotoKeepsInv DEF UpsertNewIntent

(* Only the thread that finds no row gets inside. *)
LEMMA CreateKeepsInv ==
    ASSUME PlaceInv, NEW t \in Threads, CreateOrGet(t)
    PROVE  PlaceInv'
<1> DEFINE o == th[t].order
<1>1. /\ th[t].pc = "create" /\ o \in Orders /\ th[t] \in ThreadLocal
      /\ ThreadOK(th[t], rows, placedFor) /\ rows \in [Orders -> Row]
  BY PlaceTyped DEF CreateOrGet, At, PlaceInv
<1>2. EngineTyped' /\ (rows' = rows => SubmittedIntentIsBacked')
  BY EngineNow, BackedStays DEF CreateOrGet, EngineTyped
<1>3. CASE rows[o].state # "ABSENT"
  BY <1>2, <1>3, ReturnKeepsInv DEF CreateOrGet
<1>4. CASE rows[o].state = "ABSENT"
  <2> DEFINE r == NewRow(o, NoBroker, 0)
             x == [th[t] EXCEPT !.pc = "risk"]
  <2>1. /\ r \in Row /\ r.state = "NEW" /\ r.key = o /\ r.broker = NoBroker
    BY <1>1 DEF NewRow, Clamp, Row, OrderState
  <2>2. /\ x \in ThreadLocal /\ x.pc = "risk" /\ x.order = o /\ x.id = th[t].id
    BY <1>1 DEF ThreadLocal, Pcs
  <2>3. rows' = [rows EXCEPT ![o] = r] /\ th' = [th EXCEPT ![t] = x]
    BY <1>4 DEF CreateOrGet, Goto
  <2>4. rows'[o] = r
    BY <1>1, <2>3
  <2> HIDE DEF r, x
  <2>5. OrderOK(o, rows[o], placedFor)
    BY <1>1 DEF PlaceInv
  <2>6. OrderOK(o, r, placedFor)
    BY <1>4, <2>1, <2>5 DEF OrderOK, Accepted
  <2>7. ThreadOK(x, rows', placedFor)
    <3>1. IssuedFor(o, placedFor) = {}
      BY <1>4, <2>5 DEF OrderOK
    <3>2. x.id # NoBroker => placedFor[x.id] = o /\ o # NoOrder
      BY <1>1, <2>2 DEF ThreadOK
    <3>3. rows'[o].state # "ABSENT"
      BY <2>1, <2>4
    <3> HIDE DEF o
    <3> QED
      BY <2>2, <3>1, <3>2, <3>3 DEF ThreadOK
  <2>8. x.order = NoOrder <=> x.pc = "idle"
    BY <1>1, <2>2
  <2>9. /\ r.state \in OrderState /\ rows[o].state \notin BeyondSent /\ th[t].pc # "idle"
    BY <1>1, <1>4, <2>1 DEF OrderState, BeyondSent
  <2>10. UNCHANGED <<book, dm, crashes, intent, seen, failures, placedFor>>
    BY DEF CreateOrGet
  <2> QED
    BY <1>4, <2>1, <2>2, <2>3, <2>6, <2>7, <2>8, <2>9, <2>10, RowStepKeepsInv
<1> QED
  BY <1>3, <1>4

LEMMA RiskKeepsInv ==
    ASSUME PlaceInv, NEW t \in Threads, RiskRefuses(t) \/ RiskAllows(t)
    PROVE  PlaceInv'
<1>1. th[t].pc = "risk" /\ th[t].pc \in Inside
  BY StageFacts DEF RiskRefuses, RiskAllows, At
<1>2. CASE RiskRefuses(t)
  <2>1. "REJECTED" \in OrderState /\ "REJECTED" \notin Accepted /\ "idle" \in Pcs
    BY DEF OrderState, Accepted, Pcs
  <2> QED
    BY <1>1, <1>2, <2>1, MoveKeepsInv DEF RiskRefuses
<1>3. CASE RiskAllows(t)
  <2>1. EngineTyped' /\ SubmittedIntentIsBacked'
    BY <1>3, EngineNow, BackedStays DEF RiskAllows, EngineTyped
  <2>2. "send" \in Pcs
    BY DEF Pcs
  <2>3. CASE Goto(t, "send")
    BY <1>1, <1>3, <2>1, <2>2, <2>3, GotoKeepsInv DEF RiskAllows
  <2>4. CASE Return(t)
    BY <1>3, <2>1, <2>4, ReturnKeepsInv DEF RiskAllows
  <2> QED
    BY <1>3, <2>3, <2>4 DEF RiskAllows
<1> QED
  BY <1>2, <1>3

LEMMA SendKeepsInv ==
    ASSUME PlaceInv, NEW t \in Threads, Send(t)
    PROVE  PlaceInv'
<1>1. th[t].pc = "send" /\ th[t].pc \in Inside
  BY StageFacts DEF Send, At
<1>2. "SENT" \in OrderState /\ "SENT" \notin Accepted /\ "record" \in Pcs
  BY DEF OrderState, Accepted, Pcs
<1> QED
  BY <1>1, <1>2, MoveKeepsInv DEF Send

LEMMA RecordKeepsInv ==
    ASSUME PlaceInv, NEW t \in Threads, RecordAccepted(t)
    PROVE  PlaceInv'
<1>1. th[t].pc = "record" /\ th[t].pc \in Inside /\ th[t].order \in Orders
  BY PlaceTyped, StageFacts DEF RecordAccepted, At, PlaceInv
<1>2. EngineTyped' /\ SubmittedIntentIsBacked'
  BY <1>1, EngineNow, BackedStays DEF RecordAccepted, EngineTyped
<1>3. "submit" \in Pcs
  BY DEF Pcs
<1> QED
  BY <1>1, <1>2, <1>3, GotoKeepsInv DEF RecordAccepted

(* A submission the broker took and answered. *)
LEMMA AnswerKeepsInv ==
    ASSUME PlaceInv, NEW t \in Threads, NEW b \in BrokerIds, NEW id \in {b, NoBroker},
           NEW status \in {"OPEN", "REJECTED"}, NEW pc \in {"ack", "refused"},
           At(t, "submit"), BrokerLists(th[t].order, b, status),
           th' = [th EXCEPT ![t] = [@ EXCEPT !.pc = pc, !.id = id]],
           UNCHANGED <<rows, dm, crashes, intent, seen, failures>>
    PROVE  PlaceInv'
<1>1. th[t].pc = "submit" /\ th[t] \in ThreadLocal
  BY PlaceTyped DEF At, PlaceInv
<1>2. EngineTyped'
  BY EngineNow DEF EngineTyped
<1> DEFINE x == [th[t] EXCEPT !.pc = pc, !.id = id]
<1>3. /\ x \in ThreadLocal /\ x.pc = pc /\ x.id = id /\ x.order = th[t].order
  BY <1>1 DEF ThreadLocal, Pcs
<1>4. th' = [th EXCEPT ![t] = x]
  OBVIOUS
<1> HIDE DEF x
<1>5. /\ x.id \in {b, NoBroker, th[t].id}
      /\ x.pc \in {"ack", "refused", "submit", "failed", "killed"}
      /\ x.pc = "submit" => x.attempt = th[t].attempt + 1
  BY <1>3
<1>6. Submission(t, x, b, status)
  BY <1>1, <1>3, <1>4, <1>5 DEF Submission
<1> QED
  BY <1>2, <1>6, SubmissionKeepsInv

LEMMA AnsweredKeepsInv ==
    ASSUME PlaceInv, NEW t \in Threads, SubmitAccepted(t) \/ SubmitRefused(t)
    PROVE  PlaceInv'
<1>1. CASE SubmitAccepted(t)
  BY <1>1, AnswerKeepsInv DEF SubmitAccepted
<1>2. ASSUME NEW b \in BrokerIds, NEW id \in {b, NoBroker}, At(t, "submit"),
             BrokerLists(th[t].order, b, "REJECTED"),
             th' = [th EXCEPT ![t] = [@ EXCEPT !.pc = "refused", !.id = id]],
             UNCHANGED <<rows, dm, crashes, intent, seen, failures>>
      PROVE  PlaceInv'
  BY <1>2, AnswerKeepsInv
<1>3. CASE At(t, "submit") /\ Goto(t, "refused") /\ UNCHANGED <<book, placedFor>>
           /\ UNCHANGED <<rows, dm, crashes, intent, seen, failures>>
  <2>1. th[t].pc = "submit" /\ th[t].pc \in Inside /\ th[t].order \in Orders /\ "refused" \in Pcs
    BY <1>3, PlaceTyped, StageFacts DEF At, PlaceInv, Pcs
  <2>2. EngineTyped' /\ SubmittedIntentIsBacked'
    BY <1>3, EngineNow, BackedStays DEF EngineTyped
  <2> QED
    BY <1>3, <2>1, <2>2, GotoKeepsInv
<1> QED
  BY <1>1, <1>2, <1>3 DEF SubmitRefused

(* The local variables after a submission that raised. *)
LEMMA AttemptFacts ==
    ASSUME NEW l \in ThreadLocal, NEW f
    PROVE  /\ AfterAttempt(l, f) \in ThreadLocal
           /\ AfterAttempt(l, f).pc \in {"submit", "failed", "killed"}
           /\ AfterAttempt(l, f).order = l.order /\ AfterAttempt(l, f).id = l.id
           /\ AfterAttempt(l, f).pc = "submit" => AfterAttempt(l, f).attempt = l.attempt + 1
<1> DEFINE pc == CASE Raises(f) -> "killed"
                   [] ~Raises(f) /\ l.attempt >= MaxAttempts -> "failed"
                   [] ~Raises(f) /\ l.attempt < MaxAttempts -> "submit"
           a == IF l.attempt >= MaxAttempts THEN l.attempt ELSE l.attempt + 1
<1>1. l.attempt \in 1 .. MaxAttempts
  BY DEF ThreadLocal
<1>2. pc \in {"submit", "failed", "killed"} /\ (pc = "submit" => l.attempt < MaxAttempts)
  BY <1>1
<1>3. a \in 1 .. MaxAttempts /\ (l.attempt < MaxAttempts => a = l.attempt + 1)
  BY <1>1
<1>4. AfterAttempt(l, f) = [l EXCEPT !.pc = pc, !.attempt = a]
  BY DEF AfterAttempt, ThreadLocal
<1> HIDE DEF pc, a
<1> QED
  BY <1>2, <1>3, <1>4 DEF ThreadLocal, Pcs

(* A submission that raised, which the broker may have taken or not. *)
LEMMA SubmitFailsKeepsInv ==
    ASSUME PlaceInv, NEW t \in Threads, SubmitFails(t)
    PROVE  PlaceInv'
<1>1. /\ th[t].pc = "submit" /\ th[t].pc \in Inside /\ th[t] \in ThreadLocal
      /\ th[t].order \in Orders /\ ThreadOK(th[t], rows, placedFor)
  BY PlaceTyped, StageFacts DEF SubmitFails, At, PlaceInv
<1>2. EngineTyped' /\ UNCHANGED <<rows, dm, crashes, intent>>
  <2>1. failures' = AfterFailure(failures, 1, 0)
    BY DEF SubmitFails
  <2>2. failures' \in [net : 0 .. NetThreshold + 1, rejects : 0 .. RejectThreshold + 1,
                       killed : BOOLEAN]
    BY <2>1, EngineNow, FailureTyped
  <2> QED
    BY <2>2, EngineNow DEF SubmitFails, EngineTyped
<1>3. PICK f : f = failures'
  OBVIOUS
<1> DEFINE x == AfterAttempt(th[t], f)
           pc == x.pc
<1>5. /\ x \in ThreadLocal /\ x.pc = pc /\ x.id = th[t].id /\ x.order = th[t].order
      /\ x.pc = "submit" => x.attempt = th[t].attempt + 1
      /\ pc \in {"submit", "failed", "killed"}
  BY <1>1, AttemptFacts
<1>6. th' = [th EXCEPT ![t] = x]
  BY <1>3 DEF SubmitFails
<1> HIDE DEF x, pc
<1>7. CASE UNCHANGED <<book, placedFor>>
  <2>1. /\ x.id # NoBroker => x.order # NoOrder /\ placedFor[x.id] = x.order
        /\ rows[x.order].state # "ABSENT"
    BY <1>1, <1>5 DEF ThreadOK
  <2>2. pc = "submit" => Cardinality(IssuedFor(x.order, placedFor)) < x.attempt
    <3>1. Cardinality(IssuedFor(x.order, placedFor)) < th[t].attempt
      BY <1>1, <1>5 DEF ThreadOK
    <3>2. Cardinality(IssuedFor(x.order, placedFor)) \in Nat
      <4>1. IsFiniteSet(IssuedFor(x.order, placedFor))
        BY <1>1, <1>5 DEF PlaceInv, OrderOK
      <4> QED
        BY <4>1, FS_CardinalityType
    <3> QED
      BY <1>1, <1>5, <3>1, <3>2 DEF ThreadLocal
  <2>3. ThreadOK(x, rows, placedFor)
    BY <1>5, <2>1, <2>2 DEF ThreadOK
  <2>4. x.order = NoOrder <=> x.pc = "idle"
    BY <1>1, <1>5
  <2>5. SubmittedIntentIsBacked'
    BY <1>2, BackedStays
  <2> QED
    BY <1>1, <1>2, <1>5, <1>6, <1>7, <2>3, <2>4, <2>5, LocalStepKeepsInv
<1>8. ASSUME NEW b \in BrokerIds, BrokerLists(th[t].order, b, "OPEN")
      PROVE  PlaceInv'
  <2>1. /\ x.id \in {b, NoBroker, th[t].id}
        /\ x.pc \in {"ack", "refused", "submit", "failed", "killed"}
    BY <1>5
  <2>2. x \in ThreadLocal /\ x.order = th[t].order /\ "OPEN" \in {"OPEN", "REJECTED"}
    BY <1>5
  <2>3. x.pc = "submit" => x.attempt = th[t].attempt + 1
    BY <1>5
  <2>4. Submission(t, x, b, "OPEN")
    BY <1>1, <1>6, <1>8, <2>1, <2>2, <2>3 DEF Submission
  <2> QED
    BY <1>2, <2>4, SubmissionKeepsInv
<1> QED
  BY <1>7, <1>8 DEF SubmitFails

LEMMA RejectIntentKeepsInv ==
    ASSUME PlaceInv, NEW t \in Threads, RejectIntent(t)
    PROVE  PlaceInv'
<1>1. /\ th[t].pc \in {"failed", "killed", "refused"} /\ th[t].pc \in Inside
      /\ th[t].order \in Orders /\ th[t].pc # "idle"
  BY PlaceTyped, StageFacts DEF RejectIntent, PlaceInv
<1>2. EngineTyped' /\ SubmittedIntentIsBacked'
  BY <1>1, EngineNow, IntentReset DEF RejectIntent, EngineTyped
<1>3. Return(t) \/ Goto(t, "reject") \/ Goto(t, "count")
  BY <1>1 DEF RejectIntent, At
<1>4. UNCHANGED <<rows, book, dm, crashes, placedFor>>
  BY DEF RejectIntent
<1>5. "reject" \in Pcs \ {"idle"} /\ "count" \in Pcs \ {"idle"}
  BY DEF Pcs
<1> QED
  BY <1>1, <1>2, <1>3, <1>4, <1>5, ReturnKeepsInv, GotoKeepsInv

LEMMA CountKeepsInv ==
    ASSUME PlaceInv, NEW t \in Threads, CountRefusal(t)
    PROVE  PlaceInv'
<1>1. th[t].pc = "count" /\ th[t].pc \in Inside
  BY StageFacts DEF CountRefusal, At
<1>2. EngineTyped' /\ SubmittedIntentIsBacked'
  <2>1. failures' \in [net : 0 .. NetThreshold + 1, rejects : 0 .. RejectThreshold + 1,
                       killed : BOOLEAN]
    BY EngineNow, FailureTyped DEF CountRefusal
  <2> QED
    BY <2>1, EngineNow, BackedStays DEF CountRefusal, EngineTyped
<1>3. Return(t) \/ Goto(t, "reject")
  BY DEF CountRefusal
<1>4. UNCHANGED <<rows, book, dm, crashes, placedFor>>
  BY DEF CountRefusal
<1>5. "reject" \in Pcs \ {"idle"}
  BY DEF Pcs
<1> QED
  BY <1>1, <1>2, <1>3, <1>4, <1>5, ReturnKeepsInv, GotoKeepsInv

LEMMA RejectOrderKeepsInv ==
    ASSUME PlaceInv, NEW t \in Threads, RejectOrder(t)
    PROVE  PlaceInv'
<1>1. th[t].pc \in Inside
  BY StageFacts DEF RejectOrder, At
<1>2. "REJECTED" \in OrderState /\ "REJECTED" \notin Accepted /\ "idle" \in Pcs
  BY DEF OrderState, Accepted, Pcs
<1> QED
  BY <1>1, <1>2, MoveKeepsInv DEF RejectOrder

LEMMA AcknowledgeKeepsInv ==
    ASSUME PlaceInv, NEW t \in Threads, Acknowledge(t)
    PROVE  PlaceInv'
<1>1. th[t].pc = "ack" /\ th[t].pc \in Inside
  BY StageFacts DEF Acknowledge, At
<1>2. IssuedFor(th[t].order, placedFor) # {}
  BY <1>1 DEF PlaceInv, ThreadOK
<1>3. "ACKNOWLEDGED" \in OrderState /\ "ACKNOWLEDGED" \in BeyondSent /\ "mark" \in Pcs
  BY DEF OrderState, BeyondSent, Pcs
<1> QED
  BY <1>1, <1>2, <1>3, MoveKeepsInv DEF Acknowledge

(* The order whose acknowledgement came first stands behind the intent. *)
LEMMA MarkKeepsInv ==
    ASSUME PlaceInv, NEW t \in Threads, MarkSubmitted(t)
    PROVE  PlaceInv'
<1> DEFINE o == th[t].order
<1>1. o \in Orders /\ SignalOf[o] \in Signals /\ rows[o].state \in BeyondSent
  BY PlaceTyped DEF MarkSubmitted, At, PlaceInv, ThreadOK
<1>2. intent' = [intent EXCEPT ![SignalOf[o]] = "SUBMITTED"] /\ UNCHANGED rows
  BY DEF MarkSubmitted, SetIntent
<1>3. EngineTyped'
  BY <1>1, <1>2, EngineNow DEF MarkSubmitted, EngineTyped
<1>4. SubmittedIntentIsBacked'
  <2> SUFFICES ASSUME NEW s \in Signals, intent'[s] = "SUBMITTED"
               PROVE  \E p \in Orders :
                        SignalOf[p] = s /\ rows[p].state \notin {"ABSENT", "NEW", "SENT"}
    BY <1>2 DEF SubmittedIntentIsBacked
  <2>1. CASE s = SignalOf[o]
    BY <1>1, <2>1, ForwardOnly DEF BeyondSent
  <2>2. CASE s # SignalOf[o]
    <3>1. intent[s] = "SUBMITTED"
      BY <1>1, <1>2, <2>2, EngineNow DEF EngineTyped
    <3> QED
      BY <3>1 DEF PlaceInv, SubmittedIntentIsBacked
  <2> QED
    BY <2>1, <2>2
<1> QED
  BY <1>3, <1>4, ReturnKeepsInv DEF MarkSubmitted

LEMMA ThreadKeepsInv ==
    ASSUME PlaceInv, NEW t \in Threads, (\E o \in Orders : Call(t, o)) \/ Continue(t)
    PROVE  PlaceInv'
BY CallKeepsInv, UpsertKeepsInv, CreateKeepsInv, RiskKeepsInv, SendKeepsInv, RecordKeepsInv,
   AnsweredKeepsInv, SubmitFailsKeepsInv, RejectIntentKeepsInv, CountKeepsInv,
   RejectOrderKeepsInv, AcknowledgeKeepsInv, MarkKeepsInv DEF Continue

-----------------------------------------------------------------------------
(* The clock, crashes, the broker and the daemons *)

LEMMA AgeKeepsInv ==
    ASSUME PlaceInv, FailuresAge \/ \E s \in Signals : SignalAges(s)
    PROVE  PlaceInv'
<1>1. CASE FailuresAge
  <2>1. failures' \in [net : 0 .. NetThreshold + 1, rejects : 0 .. RejectThreshold + 1,
                       killed : BOOLEAN]
    <3>1. failures.net \in 0 .. NetThreshold + 1 /\ failures.net > 0
      BY <1>1, EngineNow DEF EngineTyped, FailuresAge
    <3>2. failures.net - 1 \in 0 .. NetThreshold + 1
      BY <3>1
    <3> QED
      BY <1>1, <3>2, EngineNow DEF EngineTyped, FailuresAge
  <2>2. EngineTyped' /\ SubmittedIntentIsBacked'
    BY <1>1, <2>1, EngineNow, BackedStays DEF FailuresAge, EngineTyped
  <2> QED
    BY <1>1, <2>2, FrameKeepsInv DEF FailuresAge
<1>2. ASSUME NEW s \in Signals, SignalAges(s)
      PROVE  PlaceInv'
  <2>1. EngineTyped' /\ SubmittedIntentIsBacked'
    BY <1>2, EngineNow, BackedStays DEF SignalAges, EngineTyped
  <2> QED
    BY <1>2, <2>1, FrameKeepsInv DEF SignalAges
<1> QED
  BY <1>1, <1>2

(* With every daemon idle the types ask nothing of them. *)
LEMMA IdleTypes ==
    ASSUME rows \in [Orders -> Row], book \in [BrokerIds -> BookEntry], OpenHasRest,
           dm = [d \in Daemons |-> IdleDaemon], crashes \in 0 .. MaxCrashes
    PROVE  TypeInv
<1>1. ReconTypeOK
  BY IdleDaemonFacts DEF ReconTypeOK, Local
<1>2. EntryInHand /\ ListingInCycle
  BY IdleDaemonFacts DEF EntryInHand, ListingInCycle
<1> QED
  BY <1>1, <1>2 DEF TypeInv

(* What survives a crash is OrderOK and the intents. *)
LEMMA CrashKeepsInv ==
    ASSUME PlaceInv, ProcessCrash
    PROVE  PlaceInv'
<1>1. /\ th' = [t \in Threads |-> IdleThread] /\ dm' = [d \in Daemons |-> IdleDaemon]
      /\ failures' = NoFailures /\ UNCHANGED <<rows, book, intent, seen, placedFor>>
  BY DEF ProcessCrash
<1>2. /\ rows' \in [Orders -> Row] /\ book' \in [BrokerIds -> BookEntry]
      /\ placedFor' \in [BrokerIds -> Orders \cup {NoOrder}]
  BY <1>1, PlaceTyped DEF PlaceInv
<1>3. TypeInv'
  <2>1. crashes' \in 0 .. MaxCrashes
    BY DEF ProcessCrash, PlaceInv, TypeInv, ReconTypeOK
  <2>2. OpenHasRest'
    BY <1>1 DEF PlaceInv, TypeInv, OpenHasRest
  <2>3. ReconTypeOK'
    BY <1>1, <1>2, <2>1, IdleDaemonFacts DEF ReconTypeOK, Local
  <2>4. EntryInHand' /\ ListingInCycle'
    BY <1>1, IdleDaemonFacts DEF EntryInHand, ListingInCycle
  <2> QED
    BY <2>2, <2>3, <2>4 DEF TypeInv
<1>4. EngineTyped' /\ SubmittedIntentIsBacked'
  BY <1>1, EngineNow, BackedStays DEF EngineTyped, NoFailures
<1>5. /\ th' \in [Threads -> ThreadLocal]
      /\ \A u \in Threads : th'[u].order = NoOrder <=> th'[u].pc = "idle"
      /\ \A u \in Threads : th'[u] = IdleThread
  BY <1>1, IdleThreadFacts
<1>6. PlaceTypeOK'
  BY <1>2, <1>4, <1>5, PlaceTypedAfter
<1>7. OneInside'
  BY <1>5, IdleThreadFacts, StageFacts DEF OneInside
<1>8. ListedBelong'
  BY <1>1, AbsentRowFacts DEF ListedBelong, IdleDaemon
<1>9. /\ \A u \in Threads : ThreadOK(th'[u], rows', placedFor')
      /\ \A p \in Orders : OrderOK(p, rows'[p], placedFor')
  BY <1>1, <1>5, IdleThreadOK DEF PlaceInv
<1> QED
  BY <1>3, <1>4, <1>6, <1>7, <1>8, <1>9 DEF PlaceInv

LEMMA PlaceBrokerKeepsInv ==
    ASSUME PlaceInv, NEW b \in BrokerIds, BrokerStep(b), UNCHANGED <<rows, dm, crashes>>,
           UNCHANGED engineVars
    PROVE  PlaceInv'
<1>1. TypeInv'
  <2>1. [ReconNext]_reconVars
    BY DEF ReconNext
  <2> QED
    BY <2>1, StepTypes DEF PlaceInv
<1>2. EngineTyped' /\ SubmittedIntentIsBacked'
  BY EngineNow, BackedStays DEF engineVars, EngineTyped
<1> QED
  BY <1>1, <1>2, StillKeepsInv DEF engineVars

(* A daemon finds an order in the book only under an id issued for it.     *)
LEMMA MatchBelongs ==
    ASSUME PlaceInv, NEW d \in Daemons, NEW o \in Orders, MatchOf(d, o) \in BrokerIds
    PROVE  placedFor[MatchOf(d, o)] = o
<1>1. MatchOf(d, o) # NoBroker /\ o \notin BrokerIds
  OBVIOUS
<1>2. MatchOf(d, o) = dm[d].listed[o].broker
  BY <1>1, MatchedFacts DEF MatchOf
<1> QED
  BY <1>1, <1>2 DEF PlaceInv, ListedBelong

(* A write of a daemon keeps what is known of the order and moves it only  *)
(* forward: the order is shown as accepted only when an id was issued.     *)
LEMMA WriteKeepsOrder ==
    ASSUME PlaceInv, NEW d \in Daemons, NEW o \in Orders, DaemonWrites(d, o)
    PROVE  /\ OrderOK(o, rows'[o], placedFor)
           /\ rows[o].state # "ABSENT" => rows'[o].state # "ABSENT"
           /\ rows[o].state \in BeyondSent => rows'[o].state \in BeyondSent
<1>1. /\ ReconTypeOK /\ rows[o] \in Row /\ rows \in [Orders -> Row]
      /\ OrderOK(o, rows[o], placedFor)
  BY DEF PlaceInv, TypeInv, ReconTypeOK
<1>2. PICK r : r = rows'[o]
  OBVIOUS
<1>3. /\ r.key = rows[o].key
      /\ r.state = rows[o].state \/ CanMove(o, r.state)
      /\ r.broker \in {rows[o].broker, MatchOf(d, o)}
  BY <1>1, <1>2, WrittenRow
<1>4. \/ r.state = rows[o].state
      \/ /\ rows[o].state \in OrderState /\ r.state \in ValidTransitions[rows[o].state]
         /\ r.state # "ABSENT" /\ rows[o].state # "ABSENT"
  BY <1>1, <1>3, CanMoveFacts, ForwardOnly
<1>5. r.broker # NoBroker => placedFor[r.broker] = o
  <2>1. MatchOf(d, o) \in BrokerIds \cup {NoBroker}
    BY MatchedFacts DEF MatchOf
  <2> QED
    BY <1>1, <1>3, <2>1, MatchBelongs DEF OrderOK
<1>6. r.state \in Accepted => IssuedFor(o, placedFor) # {}
  <2>1. CASE MatchOf(d, o) \in BrokerIds
    BY <2>1, MatchBelongs DEF IssuedFor
  <2>2. CASE MatchOf(d, o) \notin BrokerIds
    <3>1. rows' = [rows EXCEPT ![o] = MovedRow(@, "REJECTED", NoBroker, @.filled)]
      BY <2>2 DEF DaemonWrites
    <3>2. MovedRow(rows[o], "REJECTED", NoBroker, rows[o].filled).state = "REJECTED"
      BY DEF MovedRow
    <3>3. r.state = "REJECTED"
      BY <1>1, <1>2, <3>1, <3>2
    <3> QED
      BY <3>3 DEF Accepted
  <2> QED
    BY <2>1, <2>2
<1>7. OrderOK(o, r, placedFor)
  BY <1>1, <1>3, <1>4, <1>5, <1>6 DEF OrderOK
<1>8. rows[o].state \in BeyondSent => r.state \in BeyondSent
  BY <1>4, ForwardOnly
<1> QED
  BY <1>2, <1>4, <1>7, <1>8

LEMMA PlaceDaemonKeepsInv ==
    ASSUME PlaceInv, NEW d \in Daemons, DaemonStep(d) \/ SnapshotFails(d), UNCHANGED engineVars
    PROVE  PlaceInv'
<1>1. TypeInv /\ ReconTypeOK /\ TypeInv' /\ DaemonLocals(d)
  BY DaemonKeepsTypes, DaemonLocalStep DEF PlaceInv, TypeInv
<1>2. rows' = rows \/ \E o \in Orders : DaemonWrites(d, o)
  BY <1>1, DaemonWritesOneRow DEF TypeInv, SnapshotFails
<1>3. /\ th' = th /\ intent' = intent /\ seen' = seen /\ failures' = failures
      /\ placedFor' = placedFor
  BY DEF engineVars
<1>4. ASSUME NEW o \in Orders
      PROVE  /\ OrderOK(o, rows'[o], placedFor)
             /\ rows[o].state # "ABSENT" => rows'[o].state # "ABSENT"
             /\ rows[o].state \in BeyondSent => rows'[o].state \in BeyondSent
  <2>1. CASE rows'[o] = rows[o]
    BY <2>1 DEF PlaceInv
  <2>2. CASE DaemonWrites(d, o)
    BY <2>2, WriteKeepsOrder
  <2>3. ASSUME NEW p \in Orders \ {o}, DaemonWrites(d, p)
        PROVE  rows'[o] = rows[o]
    BY <1>1, <2>3, WrittenRow
  <2> QED
    BY <1>2, <2>1, <2>2, <2>3
<1>5. \A u \in Threads : ThreadOK(th[u], rows', placedFor)
  <2> SUFFICES ASSUME NEW u \in Threads PROVE ThreadOK(th[u], rows', placedFor)
    OBVIOUS
  <2>1. ThreadOK(th[u], rows, placedFor) /\ (th[u].pc # "idle" => th[u].order \in Orders)
    BY PlaceTyped DEF PlaceInv
  <2>2. th[u].pc \in Inside => th[u].pc # "idle"
    BY StageFacts
  <2>3. PICK rw : rw = rows'
    OBVIOUS
  <2>4. /\ th[u].pc \in Inside => rw[th[u].order].state # "ABSENT"
        /\ th[u].pc = "mark" => rw[th[u].order].state \in BeyondSent
    BY <1>4, <2>1, <2>2, <2>3 DEF ThreadOK
  <2>5. ThreadOK(th[u], rw, placedFor)
    BY <2>1, <2>4 DEF ThreadOK
  <2> QED
    BY <2>3, <2>5
<1>6. PlaceTypeOK'
  <2>1. rows' \in [Orders -> Row] /\ book' \in [BrokerIds -> BookEntry]
    BY <1>1 DEF TypeInv, ReconTypeOK
  <2>2. /\ th' \in [Threads -> ThreadLocal] /\ placedFor' \in [BrokerIds -> Orders \cup {NoOrder}]
        /\ \A u \in Threads : th'[u].order = NoOrder <=> th'[u].pc = "idle"
    BY <1>3, PlaceTyped DEF PlaceInv, PlaceTypeOK, At
  <2>3. EngineTyped'
    BY <1>3, EngineNow DEF EngineTyped
  <2> QED
    BY <2>1, <2>2, <2>3, PlaceTypedAfter
<1>7. OneInside'
  BY <1>3 DEF PlaceInv, OneInside
<1>8. ListedBelong'
  <2> SUFFICES ASSUME NEW e \in Daemons, NEW o \in Orders, dm'[e].listed[o].broker # NoBroker
               PROVE  placedFor[dm'[e].listed[o].broker] = o
    BY <1>3 DEF ListedBelong
  <2>1. dm'[e].listed[o] \in {dm[e].listed[o], rows[o], AbsentRow}
    BY <1>1 DEF DaemonLocals, LocalStep
  <2> QED
    BY <2>1, AbsentRowFacts DEF PlaceInv, ListedBelong, OrderOK
<1>9. SubmittedIntentIsBacked'
  BY <1>3, <1>4, BackedForward
<1>10. /\ \A u \in Threads : ThreadOK(th'[u], rows', placedFor')
       /\ \A p \in Orders : OrderOK(p, rows'[p], placedFor')
  BY <1>3, <1>4, <1>5
<1> QED
  BY <1>1, <1>6, <1>7, <1>8, <1>9, <1>10 DEF PlaceInv

-----------------------------------------------------------------------------
(* The invariant and what follows from it *)

LEMMA PlaceInitInv == PlaceInit => PlaceInv
<1> SUFFICES ASSUME PlaceInit PROVE PlaceInv
  OBVIOUS
<1>1. /\ \A o \in Orders : rows[o] = AbsentRow
      /\ \A t \in Threads : th[t] = IdleThread
      /\ \A b \in BrokerIds : placedFor[b] = NoOrder
      /\ \A o \in Orders : IssuedFor(o, placedFor) = {}
  BY DEF PlaceInit, IssuedFor
<1>2. TypeInv
  <2>1. rows \in [Orders -> Row] /\ book \in [BrokerIds -> BookEntry] /\ OpenHasRest
    BY AbsentRowFacts DEF PlaceInit, EmptyBook, BookEntry, OpenHasRest, OpenStatuses
  <2> QED
    BY <2>1, IdleTypes DEF PlaceInit
<1>3. PlaceTypeOK
  <2>1. EngineTyped
    BY DEF PlaceInit, EngineTyped, NoFailures
  <2>2. th \in [Threads -> ThreadLocal] /\ placedFor \in [BrokerIds -> Orders \cup {NoOrder}]
    BY IdleThreadFacts DEF PlaceInit
  <2> QED
    BY <1>1, <1>2, <2>1, <2>2, IdleThreadFacts
    DEF PlaceTypeOK, EngineTyped, ThreadLocal, At, TypeInv, ReconTypeOK
<1>4. OneInside /\ ListedBelong /\ SubmittedIntentIsBacked
  BY <1>1, IdleThreadFacts, StageFacts, AbsentRowFacts
  DEF OneInside, ListedBelong, SubmittedIntentIsBacked, PlaceInit, IdleDaemon
<1>5. \A t \in Threads : ThreadOK(th[t], rows, placedFor)
  BY <1>1, IdleThreadOK
<1>6. \A o \in Orders : OrderOK(o, rows[o], placedFor)
  <2> SUFFICES ASSUME NEW o \in Orders PROVE OrderOK(o, rows[o], placedFor)
    OBVIOUS
  <2>1. /\ IsFiniteSet(IssuedFor(o, placedFor)) /\ Cardinality(IssuedFor(o, placedFor)) = 0
        /\ IssuedFor(o, placedFor) = {}
    BY <1>1, FS_EmptySet
  <2>2. /\ rows[o].state = "ABSENT" /\ rows[o].key = NoKey /\ rows[o].broker = NoBroker
    BY <1>1 DEF AbsentRow
  <2> QED
    BY <2>1, <2>2 DEF OrderOK, Accepted
<1> QED
  BY <1>2, <1>3, <1>4, <1>5, <1>6 DEF PlaceInv

LEMMA PlaceStepInv ==
    ASSUME PlaceInv, [PlaceNext]_placeVars
    PROVE  PlaceInv'
<1>1. ASSUME NEW t \in Threads, (\E o \in Orders : Call(t, o)) \/ Continue(t)
      PROVE  PlaceInv'
  BY <1>1, ThreadKeepsInv
<1>2. ASSUME NEW d \in Daemons, DaemonStep(d) \/ SnapshotFails(d), UNCHANGED engineVars
      PROVE  PlaceInv'
  BY <1>2, PlaceDaemonKeepsInv
<1>3. ASSUME NEW b \in BrokerIds, BrokerStep(b), UNCHANGED <<rows, dm, crashes>>,
             UNCHANGED engineVars
      PROVE  PlaceInv'
  BY <1>3, PlaceBrokerKeepsInv
<1>4. CASE FailuresAge \/ \E s \in Signals : SignalAges(s)
  BY <1>4, AgeKeepsInv
<1>5. CASE ProcessCrash
  BY <1>5, CrashKeepsInv
<1>6. CASE UNCHANGED placeVars
  <2>1. EngineTyped' /\ SubmittedIntentIsBacked'
    BY <1>6, EngineNow, BackedStays DEF placeVars, EngineTyped
  <2> QED
    BY <1>6, <2>1, FrameKeepsInv DEF placeVars
<1> QED
  BY <1>1, <1>2, <1>3, <1>4, <1>5, <1>6 DEF PlaceNext

(* With any number of callers, daemons and restarts, what every thread and *)
(* every order knows of its submissions holds for ever.                    *)
THEOREM PlaceInvariant == PlaceSpec => []PlaceInv
BY PlaceInitInv, PlaceStepInv, PTL DEF PlaceSpec

(* Every variable of the engine, the store, the daemons and the broker     *)
(* stays well typed, through crashes too.                                  *)
THEOREM PlaceTypes == PlaceSpec => [](PlaceTypeOK /\ ReconTypeOK)
<1>1. PlaceInv => PlaceTypeOK /\ ReconTypeOK
  BY DEF PlaceInv, TypeInv
<1> QED
  BY <1>1, PlaceInvariant, PTL

(* However many threads, retries and restarts ask for one order, the       *)
(* broker is given it at most MaxAttempts times.                           *)
THEOREM PlaceSubmissionsBounded == PlaceSpec => []SubmissionsBounded
<1>1. PlaceInv => SubmissionsBounded
  BY DEF PlaceInv, OrderOK, SubmissionsBounded, PlacedAs, IssuedFor
<1> QED
  BY <1>1, PlaceInvariant, PTL

(* Where a call makes a single attempt, place_order is idempotent as its   *)
(* docstring says, whatever the interleaving, the daemons and the restarts *)
(* do: the retry after an attempt the broker did take is the only way to a *)
(* second order.                                                           *)
THEOREM PlaceIdempotentOnce ==
    ASSUME MaxAttempts = 1
    PROVE  PlaceSpec => []IdempotentPlacement
<1>1. PlaceInv => IdempotentPlacement
  <2> SUFFICES ASSUME PlaceInv, NEW o \in Orders
               PROVE  Cardinality({b \in PlacedAs(o) : book[b].status # "REJECTED"}) <= 1
    BY DEF IdempotentPlacement
  <2> DEFINE live == {b \in IssuedFor(o, placedFor) : book[b].status # "REJECTED"}
  <2>1. IsFiniteSet(IssuedFor(o, placedFor)) /\ Cardinality(IssuedFor(o, placedFor)) <= 1
    BY DEF PlaceInv, OrderOK
  <2>2. Cardinality(live) <= Cardinality(IssuedFor(o, placedFor)) /\ IsFiniteSet(live)
    <3>1. live \in SUBSET IssuedFor(o, placedFor)
      OBVIOUS
    <3> HIDE DEF live
    <3> QED
      BY <2>1, <3>1, FS_Subset
  <2>3. Cardinality(live) \in Nat /\ Cardinality(IssuedFor(o, placedFor)) \in Nat
    BY <2>1, <2>2, FS_CardinalityType
  <2>4. live = {b \in PlacedAs(o) : book[b].status # "REJECTED"}
    BY DEF PlacedAs, IssuedFor
  <2> HIDE DEF live
  <2> QED
    BY <2>1, <2>2, <2>3, <2>4
<1> QED
  BY <1>1, PlaceInvariant, PTL

(* An order the store shows as accepted was given to the broker, whoever   *)
(* wrote the row, the caller or a daemon working from a stale snapshot.    *)
THEOREM PlaceAcknowledgedWasPlaced == PlaceSpec => []AcknowledgedWasPlaced
<1>1. PlaceInv => AcknowledgedWasPlaced
  BY DEF PlaceInv, OrderOK, AcknowledgedWasPlaced, Accepted, PlacedAs, IssuedFor
<1> QED
  BY <1>1, PlaceInvariant, PTL

(* No row ever carries the broker id of another order. *)
THEOREM PlaceBrokerIdBelongs == PlaceSpec => []BrokerIdBelongs
<1>1. PlaceInv => BrokerIdBelongs
  BY DEF PlaceInv, OrderOK, BrokerIdBelongs
<1> QED
  BY <1>1, PlaceInvariant, PTL

(* A submitted intent, which silences later calls of its signal, stands    *)
(* for an order that got past SENT.                                        *)
THEOREM PlaceIntentIsBacked == PlaceSpec => []SubmittedIntentIsBacked
<1>1. PlaceInv => SubmittedIntentIsBacked
  BY DEF PlaceInv
<1> QED
  BY <1>1, PlaceInvariant, PTL

-----------------------------------------------------------------------------
(* Refinement of the lifecycle *)

LEMMA CreateAppears ==
    ASSUME PlaceInv, NEW t \in Threads, CreateOrGet(t)
    PROVE  Lifecycle!LifecycleNext \/ (statusOf' = statusOf /\ ownerOf' = ownerOf)
<1> DEFINE o == th[t].order
<1>1. o \in Orders /\ o \in Keys /\ rows \in [Orders -> Row]
  BY PlaceTyped DEF CreateOrGet, At, PlaceInv
<1>2. CASE rows' = rows
  BY <1>2 DEF statusOf, ownerOf
<1>3. CASE rows[o].state = "ABSENT"
  <2>1. rows' = [rows EXCEPT ![o] = NewRow(o, NoBroker, 0)]
    BY <1>3 DEF CreateOrGet
  <2>2. NewRow(o, NoBroker, 0).state = "NEW" /\ NewRow(o, NoBroker, 0).key = o
    BY DEF NewRow
  <2>3. statusOf' = [statusOf EXCEPT ![o] = "NEW"] /\ ownerOf' = [ownerOf EXCEPT ![o] = o]
    BY <1>1, <2>1, <2>2 DEF statusOf, ownerOf
  <2>4. \A p \in Orders : ownerOf[p] # o
    <3>1. \A p \in Orders : rows[p].key = IF rows[p].state = "ABSENT" THEN NoKey ELSE p
      BY DEF PlaceInv, OrderOK
    <3> QED
      BY <1>1, <1>3, <3>1 DEF ownerOf
  <2>5. statusOf[o] = "ABSENT"
    BY <1>1, <1>3 DEF statusOf
  <2>6. PICK p \in Orders : p = o
    BY <1>1
  <2>7. p \in Keys /\ Lifecycle!Appear(p, p)
    BY <1>1, <2>3, <2>4, <2>5, <2>6 DEF Lifecycle!Appear, statusOf, ownerOf
  <2> QED
    BY <2>6, <2>7 DEF Lifecycle!LifecycleNext
<1> QED
  BY <1>2, <1>3 DEF CreateOrGet

LEMMA MoveAdvances ==
    ASSUME PlaceInv, NEW t \in Threads, th[t].pc \in Inside,
           NEW s, NEW b, NEW next, MoveOrRaise(t, s, b, next)
    PROVE  Lifecycle!LifecycleNext \/ (statusOf' = statusOf /\ ownerOf' = ownerOf)
<1> DEFINE o == th[t].order
<1>1. o \in Orders /\ rows \in [Orders -> Row]
  BY PlaceTyped, StageFacts DEF PlaceInv
<1>2. CASE rows' = rows
  BY <1>2 DEF statusOf, ownerOf
<1>3. CASE /\ CanMove(o, s)
           /\ rows' = [rows EXCEPT ![o] = MovedRow(@, s, b, @.filled)]
  <2>1. /\ rows[o].state \in OrderState /\ s \in OrderState
        /\ s \in ValidTransitions[rows[o].state]
    BY <1>1, <1>3, CanMoveFacts
  <2> DEFINE r == MovedRow(rows[o], s, b, rows[o].filled)
  <2>2. r.state = s /\ r.key = rows[o].key
    BY DEF MovedRow
  <2>3. rows' = [rows EXCEPT ![o] = r]
    BY <1>3
  <2> HIDE DEF r
  <2>4. statusOf' = [statusOf EXCEPT ![o] = s] /\ ownerOf' = ownerOf
    BY <1>1, <2>2, <2>3 DEF statusOf, ownerOf
  <2>5. s \in Lifecycle!OrderState /\ s \in Lifecycle!ValidTransitions[statusOf[o]]
    BY <1>1, <2>1 DEF statusOf, ValidTransitions, Lifecycle!ValidTransitions,
                      Lifecycle!OrderState, OrderState, Lifecycle!Terminal, Terminal
  <2>6. statusOf[o] # "ABSENT"
    BY <1>1, <2>1, TableFacts DEF statusOf
  <2>7. Lifecycle!Advance(o, s)
    BY <2>4, <2>5, <2>6 DEF Lifecycle!Advance, statusOf, ownerOf
  <2>8. \E p \in Orders : \E q \in Lifecycle!OrderState : Lifecycle!Advance(p, q)
    BY <1>1, <2>5, <2>7
  <2> QED
    BY <2>8 DEF Lifecycle!LifecycleNext
<1> QED
  BY <1>2, <1>3 DEF MoveOrRaise

(* Seen as statuses and keys, threads, daemons, broker and crashes take    *)
(* only the steps of the lifecycle: an order is born once, under its own   *)
(* key, and nobody's stale reading of it skips an edge or revives it.      *)
THEOREM PlaceImplementsLifecycle == PlaceSpec => Lifecycle!LifecycleSpec
<1>1. PlaceInit => Lifecycle!LifecycleInit
  BY AbsentRowFacts DEF PlaceInit, Lifecycle!LifecycleInit, AbsentRow
<1>2. PlaceInv /\ [PlaceNext]_placeVars => [Lifecycle!LifecycleNext]_(Lifecycle!lifecycleVars)
  <2> SUFFICES ASSUME PlaceInv, [PlaceNext]_placeVars
               PROVE  Lifecycle!LifecycleNext \/ (statusOf' = statusOf /\ ownerOf' = ownerOf)
    BY DEF Lifecycle!lifecycleVars, statusOf, ownerOf
  <2>1. CASE rows' = rows
    BY <2>1 DEF statusOf, ownerOf
  <2>2. ASSUME NEW d \in Daemons, DaemonStep(d)
        PROVE  Lifecycle!LifecycleNext \/ (statusOf' = statusOf /\ ownerOf' = ownerOf)
    BY <2>2, DaemonFollowsLifecycle DEF PlaceInv
  <2>3. ASSUME NEW t \in Threads, Continue(t)
        PROVE  \/ Lifecycle!LifecycleNext \/ (statusOf' = statusOf /\ ownerOf' = ownerOf)
               \/ rows' = rows
    <3>1. CASE CreateOrGet(t)
      BY <3>1, CreateAppears
    <3>2. CASE RiskRefuses(t) \/ Send(t) \/ RejectOrder(t) \/ Acknowledge(t)
      <4>1. th[t].pc \in Inside
        BY <3>2, StageFacts DEF RiskRefuses, Send, RejectOrder, Acknowledge, At
      <4> QED
        BY <3>2, <4>1, MoveAdvances DEF RiskRefuses, Send, RejectOrder, Acknowledge
    <3> QED
      BY <2>3, <3>1, <3>2
      DEF Continue, UpsertNewIntent, RiskAllows, RecordAccepted, SubmitAccepted, SubmitRefused,
          SubmitFails, RejectIntent, CountRefusal, MarkSubmitted
  <2>4. \/ rows' = rows
        \/ \E d \in Daemons : DaemonStep(d)
        \/ \E t \in Threads : Continue(t)
    BY DEF PlaceNext, Call, SnapshotFails, FailuresAge, SignalAges, ProcessCrash, placeVars
  <2> QED
    BY <2>1, <2>2, <2>3, <2>4
<1> QED
  BY <1>1, <1>2, PlaceInvariant, PTL DEF PlaceSpec, Lifecycle!LifecycleSpec
-----------------------------------------------------------------------------
(* One caller *)

(* An acknowledged order of a signal that is not closed yet is the one its   *)
(* thread is about to mark, and no call is under way on a signal that has    *)
(* one: so the acknowledgements of one caller follow each other.             *)
AcknowledgedAreClosed(c) ==
    /\ \A o \in Orders : rows[o].state = "ACKNOWLEDGED" =>
          intent[SignalOf[o]] = "SUBMITTED" \/ (At(c, "mark") /\ th[c].order = o)
    /\ th[c].pc \notin {"idle", "mark"} =>
          \A o \in Orders : SignalOf[o] = SignalOf[th[c].order] => rows[o].state # "ACKNOWLEDGED"

AcknowledgedOnce ==
    \A o, p \in Orders :
        SignalOf[o] = SignalOf[p] /\ rows[o].state = "ACKNOWLEDGED"
            /\ rows[p].state = "ACKNOWLEDGED" => o = p

Alone(c) == \A t \in Threads \ {c} : th[t] = IdleThread

(* A step of the caller that writes neither rows nor intents. *)
LEMMA CallerGoesOn ==
    ASSUME PlaceInv, NEW c \in Threads, AcknowledgedAreClosed(c),
           UNCHANGED <<rows, intent>>, th'[c].pc # "mark", th[c].pc # "mark",
           th'[c].pc = "idle" \/ (th[c].pc # "idle" /\ th'[c].order = th[c].order)
    PROVE  AcknowledgedAreClosed(c)'
BY DEF AcknowledgedAreClosed, At

(* One that writes an intent no acknowledged order relies on. *)
LEMMA CallerWritesIntent ==
    ASSUME PlaceInv, NEW c \in Threads, NEW s, AcknowledgedAreClosed(c),
           SetIntent(c, s), UNCHANGED rows,
           th[c].pc \notin {"idle", "mark"}, th'[c].pc # "mark",
           th'[c].pc = "idle" \/ th'[c].order = th[c].order
    PROVE  AcknowledgedAreClosed(c)'
<1>1. th[c].order \in Orders /\ SignalOf \in [Orders -> Signals]
  BY PlaceTyped DEF PlaceInv
<1>2. intent \in [Signals -> {"NONE", "NEW", "SUBMITTED", "REJECTED"}]
  BY EngineNow DEF EngineTyped
<1>3. \A x \in Signals : x # SignalOf[th[c].order] => intent'[x] = intent[x]
  BY <1>1, <1>2 DEF SetIntent
<1> QED
  BY <1>1, <1>3 DEF AcknowledgedAreClosed, At

(* One that moves its order, not to an acknowledgement. *)
LEMMA CallerMovesRow ==
    ASSUME PlaceInv, NEW c \in Threads, AcknowledgedAreClosed(c), AcknowledgedOnce,
           NEW r, rows' = [rows EXCEPT ![th[c].order] = r], r.state # "ACKNOWLEDGED",
           UNCHANGED intent, th[c].pc \notin {"idle", "mark"}, th'[c].pc # "mark",
           th'[c].pc = "idle" \/ th'[c].order = th[c].order
    PROVE  AcknowledgedAreClosed(c)' /\ AcknowledgedOnce'
<1>1. rows \in [Orders -> Row] /\ th[c].order \in Orders
  BY PlaceTyped DEF PlaceInv
<1>2. \A o \in Orders : rows'[o].state = "ACKNOWLEDGED" => rows[o].state = "ACKNOWLEDGED"
  BY <1>1
<1>3. AcknowledgedOnce'
  BY <1>2 DEF AcknowledgedOnce
<1> QED
  BY <1>1, <1>2, <1>3 DEF AcknowledgedAreClosed, At

(* Each step of the caller.  A call that finds the signal open finds no      *)
(* acknowledged order of it, and only the mark ends the time in between.     *)
LEMMA CallerStep ==
    ASSUME PlaceInv, NEW c \in Threads, AcknowledgedAreClosed(c), AcknowledgedOnce,
           (\E o \in Orders : Call(c, o)) \/ Continue(c)
    PROVE  AcknowledgedAreClosed(c)' /\ AcknowledgedOnce'
<1>0. /\ th \in [Threads -> ThreadLocal] /\ rows \in [Orders -> Row]
      /\ th[c].pc # "idle" => th[c].order \in Orders
      /\ SignalOf \in [Orders -> Signals]
      /\ intent \in [Signals -> {"NONE", "NEW", "SUBMITTED", "REJECTED"}]
  BY PlaceTyped, EngineNow DEF PlaceInv, EngineTyped
<1> DEFINE goesOn == /\ th[c].pc \notin {"mark"}
                     /\ th'[c].pc # "mark"
                     /\ th'[c].pc = "idle" \/ (th[c].pc # "idle" /\ th'[c].order = th[c].order)
<1>1. ASSUME NEW o \in Orders, Call(c, o)
      PROVE  AcknowledgedAreClosed(c)' /\ AcknowledgedOnce'
  <2>1. CASE intent[SignalOf[o]] = "SUBMITTED"
    <3>1. UNCHANGED <<rows, th, intent>>
      BY <1>1, <2>1 DEF Call
    <3> QED
      BY <3>1 DEF AcknowledgedAreClosed, AcknowledgedOnce, At
  <2>2. CASE intent[SignalOf[o]] # "SUBMITTED"
    <3>1. UNCHANGED <<rows, intent>> /\ th[c].pc = "idle"
      BY <1>1 DEF Call, At
    <3>2. th' = [th EXCEPT ![c] = [IdleThread EXCEPT !.pc = "upsert", !.order = o]]
      BY <1>1, <2>2 DEF Call
    <3>3. th'[c].pc = "upsert" /\ th'[c].order = o
      BY <1>0, <3>2 DEF IdleThread, ThreadLocal
    <3>4. \A p \in Orders : rows[p].state = "ACKNOWLEDGED" => intent[SignalOf[p]] = "SUBMITTED"
      BY <3>1 DEF AcknowledgedAreClosed, At
    <3> QED
      BY <2>2, <3>1, <3>3, <3>4 DEF AcknowledgedAreClosed, AcknowledgedOnce, At
  <2> QED
    BY <2>1, <2>2
<1>2. ASSUME UNCHANGED <<rows, intent>>, goesOn
      PROVE  AcknowledgedAreClosed(c)' /\ AcknowledgedOnce'
  <2>1. AcknowledgedAreClosed(c)'
    BY <1>2, CallerGoesOn
  <2> QED
    BY <1>2, <2>1 DEF AcknowledgedOnce
<1>3. CASE UpsertNewIntent(c)
  <2>1. th[c].pc = "upsert" /\ th'[c].pc = "create" /\ th'[c].order = th[c].order
    BY <1>0, <1>3 DEF UpsertNewIntent, At, Goto, ThreadLocal
  <2>2. SetIntent(c, "NEW") /\ UNCHANGED rows
    BY <1>3 DEF UpsertNewIntent
  <2> QED
    BY <2>1, <2>2, CallerWritesIntent DEF AcknowledgedOnce
<1>4. CASE CreateOrGet(c)
  <2>1. CASE rows[th[c].order].state = "ABSENT"
    <3>1. th[c].pc = "create" /\ th'[c].pc = "risk" /\ th'[c].order = th[c].order
      BY <1>0, <1>4, <2>1 DEF CreateOrGet, At, Goto, ThreadLocal
    <3>2. rows' = [rows EXCEPT ![th[c].order] = NewRow(th[c].order, NoBroker, 0)] /\ UNCHANGED intent
      BY <1>4, <2>1 DEF CreateOrGet
    <3>3. NewRow(th[c].order, NoBroker, 0).state # "ACKNOWLEDGED"
      BY DEF NewRow
    <3> QED
      BY <3>1, <3>2, <3>3, CallerMovesRow
  <2>2. CASE rows[th[c].order].state # "ABSENT"
    <3>1. /\ th[c].pc = "create" /\ th' = [th EXCEPT ![c] = IdleThread]
          /\ UNCHANGED <<rows, intent>>
      BY <1>4, <2>2 DEF CreateOrGet, At, Return
    <3>2. th'[c].pc = "idle"
      BY <1>0, <3>1, IdleThreadFacts
    <3> QED
      BY <1>2, <3>1, <3>2
  <2> QED
    BY <2>1, <2>2
<1>5. ASSUME NEW s, s # "ACKNOWLEDGED", NEW b, NEW next \in Pcs, next # "mark",
             th[c].pc \notin {"idle", "mark"}, MoveOrRaise(c, s, b, next), UNCHANGED intent
      PROVE  AcknowledgedAreClosed(c)' /\ AcknowledgedOnce'
  <2> DEFINE r == MovedRow(rows[th[c].order], s, b, rows[th[c].order].filled)
  <2>1. r.state # "ACKNOWLEDGED"
    BY <1>5 DEF MovedRow
  <2>2. \/ /\ rows' = [rows EXCEPT ![th[c].order] =
                             MovedRow(rows[th[c].order], s, b, rows[th[c].order].filled)]
           /\ th'[c].pc = next
           /\ next = "idle" \/ th'[c].order = th[c].order
        \/ UNCHANGED rows /\ th'[c].pc = "idle"
    BY <1>0, <1>5, IdleThreadFacts DEF MoveOrRaise, Return, Goto, ThreadLocal
  <2>3. CASE UNCHANGED rows /\ th'[c].pc = "idle"
    BY <1>2, <1>5, <2>3
  <2>4. CASE /\ rows' = [rows EXCEPT ![th[c].order] = r]
             /\ th'[c].pc = next
             /\ next = "idle" \/ th'[c].order = th[c].order
    <3> HIDE DEF r
    <3> QED
      BY <1>5, <2>1, <2>4, CallerMovesRow
  <2> QED
    BY <2>2, <2>3, <2>4
<1>6. CASE RiskRefuses(c) \/ Send(c) \/ RejectOrder(c)
  <2>1. th[c].pc \in {"risk", "send", "reject"} /\ UNCHANGED intent
    BY <1>6 DEF RiskRefuses, Send, RejectOrder, At
  <2>2. \/ MoveOrRaise(c, "REJECTED", NoBroker, "idle")
        \/ MoveOrRaise(c, "SENT", NoBroker, "record")
        \/ MoveOrRaise(c, "REJECTED", th[c].id, "idle")
    BY <1>6 DEF RiskRefuses, Send, RejectOrder
  <2>3. "idle" \in Pcs /\ "record" \in Pcs
    BY DEF Pcs
  <2> QED
    BY <1>5, <2>1, <2>2, <2>3
<1>7. CASE RiskAllows(c) \/ RecordAccepted(c) \/ CountRefusal(c)
  <2>1. /\ UNCHANGED <<rows, intent>> /\ th[c].pc \in {"risk", "record", "count"}
        /\ Return(c) \/ \E x \in {"send", "submit", "reject"} : Goto(c, x)
    BY <1>7 DEF RiskAllows, RecordAccepted, CountRefusal, At
  <2>2. goesOn
    BY <1>0, <2>1, IdleThreadFacts DEF Return, Goto, ThreadLocal
  <2> QED
    BY <1>2, <2>1, <2>2
<1>8. CASE SubmitAccepted(c) \/ SubmitRefused(c)
  <2>1. /\ UNCHANGED <<rows, intent>> /\ th[c].pc = "submit"
        /\ \/ Goto(c, "refused")
           \/ \E x \in {"ack", "refused"}, id \in BrokerIds \cup {NoBroker} :
                 th' = [th EXCEPT ![c] = [@ EXCEPT !.pc = x, !.id = id]]
    BY <1>8 DEF SubmitAccepted, SubmitRefused, At
  <2>2. th'[c].pc \in {"ack", "refused"} /\ th'[c].order = th[c].order
    <3>1. CASE Goto(c, "refused")
      BY <1>0, <3>1 DEF ThreadLocal, Goto
    <3>2. CASE \E x \in {"ack", "refused"}, id \in BrokerIds \cup {NoBroker} :
                 th' = [th EXCEPT ![c] = [@ EXCEPT !.pc = x, !.id = id]]
      BY <1>0, <3>2 DEF ThreadLocal
    <3> QED
      BY <2>1, <3>1, <3>2
  <2> QED
    BY <1>2, <2>1, <2>2
<1>9. CASE SubmitFails(c)
  <2>1. /\ UNCHANGED <<rows, intent>> /\ th[c].pc = "submit"
        /\ th' = [th EXCEPT ![c] = AfterAttempt(th[c], failures')]
    BY <1>9 DEF SubmitFails, At
  <2>2. th'[c] = AfterAttempt(th[c], failures')
    BY <1>0, <2>1
  <2>3. th'[c].order = th[c].order
        /\ th'[c].pc = CASE Raises(failures') -> "killed"
                         [] ~Raises(failures') /\ th[c].attempt >= MaxAttempts -> "failed"
                         [] ~Raises(failures') /\ th[c].attempt < MaxAttempts -> "submit"
    BY <1>0, <2>2 DEF AfterAttempt, ThreadLocal
  <2>4. th'[c].pc # "mark"
    <3>1. th[c].attempt >= MaxAttempts \/ th[c].attempt < MaxAttempts
      BY <1>0 DEF ThreadLocal
    <3> QED
      BY <2>3, <3>1
  <2> QED
    BY <1>2, <2>1, <2>3, <2>4
<1>10. CASE RejectIntent(c)
  <2>1. /\ th[c].pc \in {"failed", "killed", "refused"} /\ UNCHANGED rows
        /\ SetIntent(c, "REJECTED")
        /\ Return(c) \/ \E x \in {"reject", "count"} : Goto(c, x)
    BY <1>10 DEF RejectIntent, At
  <2>2. th'[c].pc # "mark" /\ (th'[c].pc = "idle" \/ th'[c].order = th[c].order)
    BY <1>0, <2>1, IdleThreadFacts DEF Return, Goto, ThreadLocal
  <2> QED
    BY <2>1, <2>2, CallerWritesIntent DEF AcknowledgedOnce
<1>11. CASE Acknowledge(c)
  <2> DEFINE o == th[c].order
             r == MovedRow(rows[o], "ACKNOWLEDGED", th[c].id, rows[o].filled)
  <2>1. th[c].pc = "ack" /\ UNCHANGED intent /\ "mark" \in Pcs
    BY <1>11 DEF Acknowledge, At, Pcs
  <2>2. \/ /\ rows' = [rows EXCEPT ![th[c].order] =
                   MovedRow(rows[th[c].order], "ACKNOWLEDGED", th[c].id, rows[th[c].order].filled)]
           /\ th'[c].pc = "mark"
           /\ "mark" = "idle" \/ th'[c].order = th[c].order
        \/ UNCHANGED rows /\ th'[c].pc = "idle"
    BY <1>0, <1>11, <2>1, IdleThreadFacts DEF Acknowledge, MoveOrRaise, Return, Goto, ThreadLocal
  <2>3. o \in Orders /\ \A p \in Orders : SignalOf[p] = SignalOf[o] => rows[p].state # "ACKNOWLEDGED"
    BY <1>0, <2>1 DEF AcknowledgedAreClosed
  <2>4. CASE UNCHANGED rows /\ th'[c].pc = "idle"
    BY <1>2, <2>1, <2>4
  <2>5. CASE rows' = [rows EXCEPT ![o] = r] /\ th'[c].pc = "mark" /\ th'[c].order = o
    <3> HIDE DEF o, r
    <3>1. \A p \in Orders : p # o => rows'[p] = rows[p]
      BY <1>0, <2>5
    <3>2. AcknowledgedOnce'
      BY <2>3, <3>1 DEF AcknowledgedOnce
    <3>3. \A p \in Orders : rows[p].state = "ACKNOWLEDGED" => intent[SignalOf[p]] = "SUBMITTED"
      BY <2>1 DEF AcknowledgedAreClosed, At
    <3> QED
      BY <2>1, <2>5, <3>1, <3>2, <3>3 DEF AcknowledgedAreClosed, At
  <2> QED
    BY <2>2, <2>4, <2>5
<1>12. CASE MarkSubmitted(c)
  <2>1. /\ th[c].pc = "mark" /\ UNCHANGED rows
        /\ intent' = [intent EXCEPT ![SignalOf[th[c].order]] = "SUBMITTED"]
        /\ th' = [th EXCEPT ![c] = IdleThread]
    BY <1>12 DEF MarkSubmitted, At, SetIntent, Return
  <2>2. th'[c].pc = "idle"
    BY <1>0, <2>1, IdleThreadFacts
  <2>3. \A p \in Orders : rows[p].state = "ACKNOWLEDGED" => intent'[SignalOf[p]] = "SUBMITTED"
    BY <1>0, <2>1 DEF AcknowledgedAreClosed, At
  <2> QED
    BY <2>1, <2>2, <2>3 DEF AcknowledgedAreClosed, AcknowledgedOnce, At
<1> QED
  BY <1>1, <1>3, <1>4, <1>6, <1>7, <1>8, <1>9, <1>10, <1>11, <1>12 DEF Continue

(* What holds in a run that has had one caller and no restart so far. *)
RaceInv ==
    /\ callers \subseteq Threads
    /\ crashes \in Nat
    /\ \A c \in Threads : callers = {c} /\ crashes = 0 =>
          Alone(c) /\ AcknowledgedAreClosed(c) /\ AcknowledgedOnce

LEMMA RaceStep ==
    ASSUME Daemons = {}, PlaceInv, RaceInv, [RaceNext]_<<placeVars, callers>>
    PROVE  RaceInv'
<1>1. callers' = callers /\ callers \subseteq Threads
  BY DEF RaceNext, RaceInv
<1>2. crashes' \in Nat /\ (crashes' = 0 => crashes = 0 /\ ~ProcessCrash)
  <2>1. crashes' = crashes \/ crashes' = crashes + 1
    BY DEF RaceNext, PlaceNext, Call, Continue, UpsertNewIntent, CreateOrGet, RiskRefuses,
           RiskAllows, Send, RecordAccepted, SubmitAccepted, SubmitRefused, SubmitFails,
           RejectIntent, CountRefusal, RejectOrder, Acknowledge, MarkSubmitted, FailuresAge,
           SignalAges, ProcessCrash, placeVars
  <2>2. ProcessCrash => crashes' = crashes + 1
    BY DEF ProcessCrash
  <2> QED
    BY <2>1, <2>2 DEF RaceInv
<1>3. ASSUME NEW c \in Threads, callers = {c}, crashes' = 0
      PROVE  Alone(c)' /\ AcknowledgedAreClosed(c)' /\ AcknowledgedOnce'
  <2>1. Alone(c) /\ AcknowledgedAreClosed(c) /\ AcknowledgedOnce
    BY <1>2, <1>3 DEF RaceInv
  <2>2. Alone(c)'
    BY <1>3, <2>1 DEF RaceNext, Alone, placeVars
  <2>3. ASSUME UNCHANGED <<rows, intent>>, th'[c] = th[c]
        PROVE  AcknowledgedAreClosed(c)' /\ AcknowledgedOnce'
    BY <2>1, <2>3 DEF AcknowledgedAreClosed, AcknowledgedOnce, At
  <2>4. CASE (\E o \in Orders : Call(c, o)) \/ Continue(c)
    BY <2>1, <2>2, <2>4, CallerStep
  <2>5. ASSUME NEW t \in Threads \ {c}, NEW o \in Orders, Call(t, o)
        PROVE  UNCHANGED <<rows, intent>> /\ th'[c] = th[c]
    BY <2>5, PlaceTyped DEF Call, PlaceInv
  <2>6. ASSUME NEW t \in Threads \ {c}, Continue(t)
        PROVE  FALSE
    <3>1. th[t].pc = "idle"
      BY <2>1, IdleThreadFacts DEF Alone
    <3> QED
      BY <2>6, <3>1
      DEF Continue, UpsertNewIntent, CreateOrGet, RiskRefuses, RiskAllows, Send, RecordAccepted,
          SubmitAccepted, SubmitRefused, SubmitFails, RejectIntent, CountRefusal, RejectOrder,
          Acknowledge, MarkSubmitted, At
  <2>7. \/ \E t \in Threads : (\E o \in Orders : Call(t, o)) \/ Continue(t)
        \/ UNCHANGED <<rows, intent, th>>
    BY <1>2, <1>3 DEF RaceNext, PlaceNext, FailuresAge, SignalAges, placeVars, engineVars
  <2>8. ASSUME NEW t \in Threads, (\E o \in Orders : Call(t, o)) \/ Continue(t)
        PROVE  AcknowledgedAreClosed(c)' /\ AcknowledgedOnce'
    <3>1. CASE t = c
      BY <2>4, <2>8, <3>1
    <3>2. CASE t # c
      BY <2>3, <2>5, <2>6, <2>8, <3>2
    <3> QED
      BY <3>1, <3>2
  <2>9. CASE UNCHANGED <<rows, intent, th>>
    BY <2>2, <2>3, <2>9
  <2> QED
    BY <2>2, <2>7, <2>8, <2>9
<1> QED
  BY <1>1, <1>2, <1>3 DEF RaceInv

(* Without daemons, and with any number of orders, signals and failed        *)
(* attempts: as long as nothing has restarted, one caller gets one signal    *)
(* acknowledged under one timestamp at most.                                 *)
THEOREM PlaceOneAcknowledged ==
    ASSUME IsFiniteSet(Threads), Daemons = {}
    PROVE  RaceSpec => []OneAcknowledgedPerSignal
<1>1. RaceInit => PlaceInv /\ RaceInv
  <2> SUFFICES ASSUME RaceInit PROVE PlaceInv /\ RaceInv
    OBVIOUS
  <2>1. PlaceInv /\ callers \subseteq Threads /\ crashes = 0
    BY PlaceInitInv DEF RaceInit, PlaceInit
  <2>2. /\ \A t \in Threads : th[t] = IdleThread
        /\ \A o \in Orders : rows[o].state = "ABSENT"
    BY DEF RaceInit, PlaceInit, AbsentRow
  <2>3. \A c \in Threads : Alone(c) /\ AcknowledgedAreClosed(c) /\ AcknowledgedOnce
    BY <2>2, IdleThreadFacts DEF Alone, AcknowledgedAreClosed, AcknowledgedOnce
  <2> QED
    BY <2>1, <2>3 DEF RaceInv
<1>2. PlaceInv /\ RaceInv /\ [RaceNext]_<<placeVars, callers>> => (PlaceInv /\ RaceInv)'
  <2>1. [RaceNext]_<<placeVars, callers>> => [PlaceNext]_placeVars
    BY DEF RaceNext
  <2> QED
    BY <2>1, PlaceStepInv, RaceStep
<1>3. RaceInv => OneAcknowledgedPerSignal
  <2> SUFFICES ASSUME RaceInv, Cardinality(callers) = 1, crashes = 0
               PROVE  AcknowledgedOnce
    BY DEF OneAcknowledgedPerSignal, AcknowledgedOnce
  <2>1. IsFiniteSet(callers)
    BY FS_Subset DEF RaceInv
  <2>2. \E c \in Threads : callers = {c}
    BY <2>1, FS_Singleton DEF RaceInv
  <2> QED
    BY <2>2 DEF RaceInv
<1> QED
  BY <1>1, <1>2, <1>3, PTL DEF RaceSpec

-----------------------------------------------------------------------------
(* Fills, with callers at work *)

(* A thread that has not written its order yet: nobody knows a broker id. *)
Unlinked(l, rw) == l.pc \in Inside \ {"mark"} => rw[l.order].broker = NoBroker

(* A fill comes with the broker id it is a fill of. *)
FilledAtBroker(r, bk) ==
    IF r.broker = NoBroker THEN r.filled = 0 ELSE r.filled <= bk[r.broker].filled

ListedAtBroker ==
    \A d \in Daemons, o \in Orders : dm[d].listed[o].broker \in {NoBroker, rows[o].broker}

SnapsNotAhead ==
    \A d \in Daemons, b \in BrokerIds : dm[d].snap[b].filled <= book[b].filled

(* An id not issued yet is an entry the broker does not list. *)
UnissuedUnlisted ==
    \A b \in BrokerIds :
        placedFor[b] = NoOrder => book[b].status = "NONE" /\ book[b].filled = 0

FillInv ==
    /\ \A t \in Threads : Unlinked(th[t], rows)
    /\ \A o \in Orders : FilledAtBroker(rows[o], book)
    /\ ListedAtBroker /\ SnapsNotAhead /\ UnissuedUnlisted

LEMMA FillTyped ==
    ASSUME PlaceInv
    PROVE  /\ \A o \in Orders : rows[o].filled \in Nat /\ rows[o].broker \in BrokerIds \cup {NoBroker}
           /\ \A b \in BrokerIds : book[b].filled \in Nat
           /\ \A d \in Daemons, b \in BrokerIds : dm[d].snap[b].filled \in Nat
<1>1. ReconTypeOK
  BY DEF PlaceInv, TypeInv
<1>2. /\ \A o \in Orders : rows[o] \in Row
      /\ \A b \in BrokerIds : book[b] \in BookEntry
      /\ \A d \in Daemons, b \in BrokerIds : dm[d].snap[b] \in BookEntry
  BY <1>1 DEF ReconTypeOK
<1> QED
  BY <1>2 DEF Row, BookEntry

(* A thread goes on without touching the orders; the broker may have       *)
(* listed a fresh id, with nothing filled.                                 *)
LEMMA FillStage ==
    ASSUME PlaceInv, FillInv, NEW t \in Threads, NEW x,
           th' = [th EXCEPT ![t] = x],
           x.pc \in Inside \ {"mark"} => th[t].pc \in Inside \ {"mark"} /\ x.order = th[t].order,
           UNCHANGED <<rows, dm>>,
           \/ UNCHANGED <<book, placedFor>>
           \/ \E b \in BrokerIds, s \in {"OPEN", "REJECTED"} : BrokerLists(th[t].order, b, s),
           th[t].pc # "idle" \/ UNCHANGED <<book, placedFor>>
    PROVE  FillInv'
<1>1. \A u \in Threads : Unlinked(th'[u], rows')
  <2>1. th'[t] = x /\ \A u \in Threads \ {t} : th'[u] = th[u]
    BY DEF PlaceInv, PlaceTypeOK
  <2> QED
    BY <2>1 DEF FillInv, Unlinked
<1>2. ListedAtBroker'
  BY DEF FillInv, ListedAtBroker
<1>3. CASE UNCHANGED <<book, placedFor>>
  BY <1>1, <1>2, <1>3 DEF FillInv, FilledAtBroker, SnapsNotAhead, UnissuedUnlisted
<1>4. ASSUME NEW b \in BrokerIds, NEW s \in {"OPEN", "REJECTED"},
             BrokerLists(th[t].order, b, s), th[t].pc # "idle"
      PROVE  FillInv'
  <2>1. /\ placedFor[b] = NoOrder /\ placedFor'[b] = th[t].order /\ th[t].order # NoOrder
        /\ book'[b].filled = 0
        /\ \A c \in BrokerIds \ {b} : book'[c] = book[c] /\ placedFor'[c] = placedFor[c]
    BY <1>4, PlaceTyped, OrderReconcilerAssumption DEF BrokerLists, PlaceInv
  <2>2. book[b].filled = 0
    BY <2>1 DEF FillInv, UnissuedUnlisted
  <2>3. \A c \in BrokerIds : book'[c].filled = book[c].filled
    BY <2>1, <2>2
  <2>4. \A o \in Orders : FilledAtBroker(rows'[o], book')
    <3>1. \A o \in Orders : rows[o].broker \in BrokerIds \cup {NoBroker}
      BY FillTyped
    <3> QED
      BY <2>3, <3>1 DEF FillInv, FilledAtBroker
  <2>5. SnapsNotAhead' /\ UnissuedUnlisted'
    BY <2>1, <2>3 DEF FillInv, SnapsNotAhead, UnissuedUnlisted
  <2> QED
    BY <1>1, <1>2, <2>4, <2>5 DEF FillInv
<1> QED
  BY <1>3, <1>4

(* A thread writes the row of an order that nobody has linked to the       *)
(* broker: it is left with nothing filled.                                 *)
LEMMA FillRow ==
    ASSUME PlaceInv, FillInv, NEW t \in Threads, NEW x, NEW r,
           th[t].pc # "idle",
           rows' = [rows EXCEPT ![th[t].order] = r],
           th' = [th EXCEPT ![t] = x],
           rows[th[t].order].broker = NoBroker,
           r.filled = 0, r.broker \in BrokerIds \cup {NoBroker},
           x.pc \in Inside \ {"mark"} => x.order = th[t].order /\ r.broker = NoBroker,
           \A u \in Threads \ {t} : th[u].pc \in Inside => th[u].order # th[t].order,
           UNCHANGED <<book, dm, placedFor>>
    PROVE  FillInv'
<1> DEFINE o == th[t].order
<1>1. /\ o \in Orders /\ rows'[o] = r /\ \A p \in Orders \ {o} : rows'[p] = rows[p]
      /\ th'[t] = x /\ \A u \in Threads \ {t} : th'[u] = th[u]
  BY PlaceTyped DEF PlaceInv
<1>2. \A u \in Threads : Unlinked(th'[u], rows')
  <2> SUFFICES ASSUME NEW u \in Threads, th'[u].pc \in Inside \ {"mark"}
               PROVE  rows'[th'[u].order].broker = NoBroker
    BY DEF Unlinked
  <2>1. CASE u = t
    BY <1>1, <2>1
  <2>2. CASE u # t
    <3>1. th[u].order \in Orders \ {o} /\ th'[u] = th[u]
      BY <1>1, <2>2, PlaceTyped, StageFacts DEF PlaceInv
    <3>2. rows[th[u].order].broker = NoBroker
      BY <3>1 DEF FillInv, Unlinked
    <3> QED
      BY <1>1, <3>1, <3>2
  <2> QED
    BY <2>1, <2>2
<1>3. \A p \in Orders : FilledAtBroker(rows'[p], book')
  <2> SUFFICES ASSUME NEW p \in Orders PROVE FilledAtBroker(rows'[p], book)
    OBVIOUS
  <2>1. CASE p = o
    BY <1>1, <2>1, FillTyped DEF FilledAtBroker
  <2>2. CASE p # o
    BY <1>1, <2>2 DEF FillInv
  <2> QED
    BY <2>1, <2>2
<1>4. ListedAtBroker'
  <2> SUFFICES ASSUME NEW d \in Daemons, NEW p \in Orders
               PROVE  dm[d].listed[p].broker \in {NoBroker, rows'[p].broker}
    BY DEF ListedAtBroker
  <2>1. dm[d].listed[p].broker \in {NoBroker, rows[p].broker}
    BY DEF FillInv, ListedAtBroker
  <2> QED
    BY <1>1, <2>1
<1>5. SnapsNotAhead' /\ UnissuedUnlisted'
  BY DEF FillInv, SnapsNotAhead, UnissuedUnlisted
<1> QED
  BY <1>2, <1>3, <1>4, <1>5 DEF FillInv

LEMMA FillMove ==
    ASSUME PlaceInv, FillInv, NEW t \in Threads, NEW s \in OrderState,
           NEW b \in {NoBroker, th[t].id}, NEW next \in Pcs,
           th[t].pc \in Inside \ {"mark"}, MoveOrRaise(t, s, b, next),
           b = NoBroker \/ next \in {"idle", "mark"},
           UNCHANGED <<book, dm, placedFor>>
    PROVE  FillInv'
<1> DEFINE o == th[t].order
<1>1. /\ th[t] \in ThreadLocal /\ th[t].pc # "idle" /\ o \in Orders
      /\ rows \in [Orders -> Row] /\ rows[o] \in Row
  BY PlaceTyped, StageFacts DEF PlaceInv
<1>2. rows[o].broker = NoBroker /\ rows[o].filled = 0
  BY <1>1 DEF FillInv, Unlinked, FilledAtBroker
<1>3. IdleThread.pc \notin Inside
  BY IdleThreadFacts, StageFacts
<1>4. CASE UNCHANGED rows /\ Return(t)
  BY <1>3, <1>4, FillStage DEF Return
<1>5. CASE /\ rows' = [rows EXCEPT ![o] = MovedRow(@, s, b, @.filled)]
           /\ IF next = "idle" THEN Return(t) ELSE Goto(t, next)
  <2> DEFINE r == MovedRow(rows[o], s, b, rows[o].filled)
             x == IF next = "idle" THEN IdleThread ELSE [th[t] EXCEPT !.pc = next]
  <2>1. r.filled = 0 /\ r.broker = b /\ b \in BrokerIds \cup {NoBroker}
    <3>1. b \in BrokerIds \cup {NoBroker}
      BY <1>1 DEF ThreadLocal
    <3> QED
      BY <1>1, <1>2, <3>1, MovedRowFacts
  <2>2. rows' = [rows EXCEPT ![o] = r]
    BY <1>5
  <2>3. th' = [th EXCEPT ![t] = x]
    BY <1>5 DEF Return, Goto
  <2>4. x.pc \in Inside \ {"mark"} => x.order = o /\ b = NoBroker
    BY <1>1, <1>3 DEF ThreadLocal
  <2>5. \A u \in Threads \ {t} : th[u].pc \in Inside => th[u].order # o
    BY DEF PlaceInv, OneInside
  <2> HIDE DEF r, x
  <2> QED
    BY <1>1, <1>2, <2>1, <2>2, <2>3, <2>4, <2>5, FillRow
<1> QED
  BY <1>4, <1>5 DEF MoveOrRaise

LEMMA FillCreate ==
    ASSUME PlaceInv, FillInv, NEW t \in Threads, CreateOrGet(t)
    PROVE  FillInv'
<1> DEFINE o == th[t].order
<1>1. th[t] \in ThreadLocal /\ th[t].pc # "idle" /\ o \in Orders /\ rows[o] \in Row
  BY PlaceTyped DEF PlaceInv, CreateOrGet, At
<1>2. CASE rows[o].state = "ABSENT"
  <2> DEFINE r == NewRow(o, NoBroker, 0)
             x == [th[t] EXCEPT !.pc = "risk"]
  <2>1. rows[o].broker = NoBroker
    BY <1>1, <1>2 DEF PlaceInv, OrderOK, IssuedFor, Row
  <2>2. r.filled = 0 /\ r.broker = NoBroker
    BY DEF NewRow, Clamp
  <2>3. rows' = [rows EXCEPT ![o] = r] /\ th' = [th EXCEPT ![t] = x]
    BY <1>2 DEF CreateOrGet, Goto
  <2>4. x.order = o
    BY <1>1 DEF ThreadLocal
  <2>5. \A u \in Threads \ {t} : th[u].pc \in Inside => th[u].order # o
    BY <1>2 DEF PlaceInv, ThreadOK
  <2>6. UNCHANGED <<book, dm, placedFor>>
    BY DEF CreateOrGet
  <2> HIDE DEF r, x
  <2> QED
    BY <1>1, <2>1, <2>2, <2>3, <2>4, <2>5, <2>6, FillRow
<1>3. CASE rows[o].state # "ABSENT"
  <2>1. UNCHANGED <<rows, dm, book, placedFor>> /\ th' = [th EXCEPT ![t] = IdleThread]
    BY <1>3 DEF CreateOrGet, Return
  <2>2. IdleThread.pc \notin Inside
    BY IdleThreadFacts, StageFacts
  <2> QED
    BY <2>1, <2>2, FillStage
<1> QED
  BY <1>2, <1>3

LEMMA FillThreadStep ==
    ASSUME PlaceInv, FillInv, NEW t \in Threads, (\E o \in Orders : Call(t, o)) \/ Continue(t)
    PROVE  FillInv'
<1>0. /\ th[t] \in ThreadLocal /\ th[t].id \in BrokerIds \cup {NoBroker}
      /\ IdleThread.pc \notin Inside
  BY PlaceTyped, IdleThreadFacts, StageFacts DEF PlaceInv, ThreadLocal
<1>1. ASSUME NEW o \in Orders, Call(t, o)
      PROVE  FillInv'
  <2>1. UNCHANGED <<rows, book, dm, placedFor>>
    BY <1>1 DEF Call
  <2>2. CASE th' = th
    <3>1. th' = [th EXCEPT ![t] = th[t]]
      BY <2>2 DEF PlaceInv, PlaceTypeOK
    <3>2. th[t].pc \notin Inside
      BY <1>1, StageFacts DEF Call, At
    <3> QED
      BY <2>1, <3>1, <3>2, FillStage
  <2>3. CASE th' = [th EXCEPT ![t] = [IdleThread EXCEPT !.pc = "upsert", !.order = o]]
    <3>1. [IdleThread EXCEPT !.pc = "upsert", !.order = o].pc \notin Inside
      BY IdleThreadFacts, StageFacts DEF ThreadLocal
    <3> QED
      BY <2>1, <2>3, <3>1, FillStage
  <2> QED
    BY <1>1, <2>2, <2>3 DEF Call
(* To another stage, or to the end of the call, with the orders as they are. *)
<1>2. ASSUME NEW p \in Pcs, Goto(t, p), UNCHANGED <<rows, book, dm, placedFor>>,
             p \in Inside \ {"mark"} => th[t].pc \in Inside \ {"mark"}
      PROVE  FillInv'
  <2>1. [th[t] EXCEPT !.pc = p].pc = p /\ [th[t] EXCEPT !.pc = p].order = th[t].order
    BY <1>0 DEF ThreadLocal
  <2>2. th' = [th EXCEPT ![t] = [th[t] EXCEPT !.pc = p]]
    BY <1>2 DEF Goto
  <2> QED
    BY <1>2, <2>1, <2>2, FillStage
<1>3. ASSUME Return(t), UNCHANGED <<rows, book, dm, placedFor>>
      PROVE  FillInv'
  BY <1>0, <1>3, FillStage DEF Return
<1>4. CASE UpsertNewIntent(t)
  <2>1. "create" \in Pcs /\ "create" \notin Inside
    BY StageFacts DEF Pcs
  <2> QED
    BY <1>2, <1>4, <2>1 DEF UpsertNewIntent
<1>5. CASE RiskAllows(t) \/ RecordAccepted(t) \/ RejectIntent(t) \/ CountRefusal(t)
  <2>1. {"send", "submit", "reject", "count"} \subseteq Pcs
    BY DEF Pcs
  <2>2. th[t].pc \in Inside \ {"mark"}
    BY <1>5, StageFacts DEF RiskAllows, RecordAccepted, RejectIntent, CountRefusal, At
  <2>3. Return(t) \/ \E p \in {"send", "submit", "reject", "count"} : Goto(t, p)
    BY <1>5 DEF RiskAllows, RecordAccepted, RejectIntent, CountRefusal, At
  <2>4. UNCHANGED <<rows, book, dm, placedFor>>
    BY <1>5 DEF RiskAllows, RecordAccepted, RejectIntent, CountRefusal
  <2> QED
    BY <1>2, <1>3, <2>1, <2>2, <2>3, <2>4
<1>6. CASE MarkSubmitted(t)
  BY <1>3, <1>6 DEF MarkSubmitted
<1>7. CASE RiskRefuses(t) \/ Send(t) \/ RejectOrder(t) \/ Acknowledge(t)
  <2>1. {"idle", "record", "mark"} \subseteq Pcs /\ {"REJECTED", "SENT", "ACKNOWLEDGED"} \subseteq OrderState
    BY DEF Pcs, OrderState
  <2>2. th[t].pc \in Inside \ {"mark"} /\ UNCHANGED <<book, dm, placedFor>>
    BY <1>7, StageFacts DEF RiskRefuses, Send, RejectOrder, Acknowledge, At
  <2>3. \/ MoveOrRaise(t, "REJECTED", NoBroker, "idle")
        \/ MoveOrRaise(t, "SENT", NoBroker, "record")
        \/ MoveOrRaise(t, "REJECTED", th[t].id, "idle")
        \/ MoveOrRaise(t, "ACKNOWLEDGED", th[t].id, "mark")
    BY <1>7 DEF RiskRefuses, Send, RejectOrder, Acknowledge
  <2> QED
    BY <2>1, <2>2, <2>3, FillMove
<1>8. CASE SubmitAccepted(t) \/ SubmitRefused(t)
  <2>1. th[t].pc \in Inside \ {"mark"} /\ th[t].pc # "idle" /\ UNCHANGED <<rows, dm>>
    BY <1>8, StageFacts DEF SubmitAccepted, SubmitRefused, At
  <2>2. ASSUME NEW b \in BrokerIds, NEW id \in {b, NoBroker},
               NEW p \in {"ack", "refused"}, NEW status \in {"OPEN", "REJECTED"},
               BrokerLists(th[t].order, b, status),
               th' = [th EXCEPT ![t] = [@ EXCEPT !.pc = p, !.id = id]]
        PROVE  FillInv'
    <3> DEFINE x == [th[t] EXCEPT !.pc = p, !.id = id]
    <3>1. x.order = th[t].order
      BY <1>0 DEF ThreadLocal
    <3>2. th' = [th EXCEPT ![t] = x]
      BY <2>2
    <3>3. \E c \in BrokerIds, r \in {"OPEN", "REJECTED"} : BrokerLists(th[t].order, c, r)
      BY <2>2
    <3> HIDE DEF x
    <3> QED
      BY <2>1, <3>1, <3>2, <3>3, FillStage
  <2>3. CASE Goto(t, "refused") /\ UNCHANGED <<book, placedFor>>
    BY <1>2, <2>1, <2>3 DEF Pcs
  <2> QED
    BY <1>8, <2>2, <2>3 DEF SubmitAccepted, SubmitRefused
<1>9. CASE SubmitFails(t)
  <2> DEFINE x == AfterAttempt(th[t], failures')
  <2>1. x.order = th[t].order
    BY <1>0 DEF AfterAttempt, ThreadLocal
  <2>2. /\ th[t].pc \in Inside \ {"mark"} /\ th[t].pc # "idle" /\ UNCHANGED <<rows, dm>>
        /\ \/ UNCHANGED <<book, placedFor>>
           \/ \E b \in BrokerIds : BrokerLists(th[t].order, b, "OPEN")
    BY <1>9, StageFacts DEF SubmitFails, At
  <2>3. PICK y : y = x
    OBVIOUS
  <2>4. th' = [th EXCEPT ![t] = y]
    BY <1>9, <2>3 DEF SubmitFails
  <2>5. y.order = th[t].order
    BY <2>1, <2>3
  <2> HIDE DEF x
  <2> QED
    BY <2>2, <2>4, <2>5, FillStage
<1> QED
  BY <1>1, <1>4, <1>5, <1>6, <1>7, <1>8, <1>9, FillCreate DEF Continue

(* A daemon fills an order only from the entry of the id in its row, and   *)
(* never changes that id.                                                  *)
LEMMA DaemonWriteAtBroker ==
    ASSUME PlaceInv, FillInv, NEW d \in Daemons, NEW o \in Orders, DaemonWrites(d, o)
    PROVE  rows'[o].broker = rows[o].broker /\ FilledAtBroker(rows'[o], book)
<1>1. /\ ReconTypeOK
      /\ rows[o].filled \in Nat /\ rows[o].broker \in BrokerIds \cup {NoBroker}
      /\ FilledAtBroker(rows[o], book)
  BY FillTyped DEF PlaceInv, TypeInv, FillInv
<1>2. ASSUME MatchOf(d, o) \in BrokerIds
      PROVE  /\ rows[o].broker = MatchOf(d, o) /\ rows[o].broker # NoBroker
             /\ SeenBy(d, o).filled <= book[rows[o].broker].filled
  <2>1. MatchOf(d, o) # NoBroker /\ o \notin BrokerIds
    BY <1>2
  <2>2. MatchOf(d, o) = dm[d].listed[o].broker
    BY <2>1, MatchedFacts DEF MatchOf
  <2>3. rows[o].broker = MatchOf(d, o)
    BY <2>1, <2>2 DEF FillInv, ListedAtBroker
  <2> QED
    BY <1>2, <2>1, <2>3 DEF FillInv, SnapsNotAhead, SeenBy
<1>3. rows'[o].broker = rows[o].broker
  BY <1>1, <1>2, WrittenRow
<1>4. \/ rows'[o].filled = rows[o].filled
      \/ MatchOf(d, o) \in BrokerIds /\ rows'[o].filled = SeenBy(d, o).filled
  BY <1>1, WrittenRow
<1>5. CASE rows'[o].filled = rows[o].filled
  BY <1>1, <1>3, <1>5 DEF FilledAtBroker
<1>6. CASE MatchOf(d, o) \in BrokerIds /\ rows'[o].filled = SeenBy(d, o).filled
  BY <1>2, <1>3, <1>6 DEF FilledAtBroker
<1> QED
  BY <1>3, <1>4, <1>5, <1>6

LEMMA FillDaemonStep ==
    ASSUME PlaceInv, FillInv, NEW d \in Daemons, DaemonStep(d) \/ SnapshotFails(d),
           UNCHANGED engineVars
    PROVE  FillInv' /\ \A o \in Orders : rows'[o].broker = rows[o].broker
<1>1. TypeInv /\ ReconTypeOK /\ DaemonLocals(d)
  BY DaemonLocalStep DEF PlaceInv, TypeInv
<1>2. book' = book /\ (rows' = rows \/ \E o \in Orders : DaemonWrites(d, o))
  BY <1>1, DaemonWritesOneRow DEF TypeInv, SnapshotFails
<1>3. th' = th /\ placedFor' = placedFor
  BY DEF engineVars
<1>4. ASSUME NEW o \in Orders
      PROVE  rows'[o].broker = rows[o].broker /\ FilledAtBroker(rows'[o], book)
  <2>1. CASE rows'[o] = rows[o]
    BY <2>1 DEF FillInv
  <2>2. CASE DaemonWrites(d, o)
    BY <2>2, DaemonWriteAtBroker
  <2>3. ASSUME NEW p \in Orders \ {o}, DaemonWrites(d, p)
        PROVE  rows'[o] = rows[o]
    BY <1>1, <2>3, WrittenRow
  <2> QED
    BY <1>2, <2>1, <2>2, <2>3
<1>5. \A u \in Threads : Unlinked(th'[u], rows')
  <2> SUFFICES ASSUME NEW u \in Threads, th[u].pc \in Inside \ {"mark"}
               PROVE  rows'[th[u].order].broker = NoBroker
    BY <1>3 DEF Unlinked
  <2>1. th[u].order \in Orders /\ rows[th[u].order].broker = NoBroker
    BY PlaceTyped, StageFacts DEF PlaceInv, FillInv, Unlinked
  <2> QED
    BY <1>4, <2>1
<1>6. ListedAtBroker'
  <2> SUFFICES ASSUME NEW e \in Daemons, NEW o \in Orders
               PROVE  dm'[e].listed[o].broker \in {NoBroker, rows'[o].broker}
    BY DEF ListedAtBroker
  <2>1. dm'[e].listed[o] \in {dm[e].listed[o], rows[o], AbsentRow}
    BY <1>1 DEF DaemonLocals, LocalStep
  <2>2. dm[e].listed[o].broker \in {NoBroker, rows[o].broker}
    BY DEF FillInv, ListedAtBroker
  <2> QED
    BY <1>4, <2>1, <2>2, AbsentRowFacts
<1>7. SnapsNotAhead'
  <2> SUFFICES ASSUME NEW e \in Daemons, NEW b \in BrokerIds
               PROVE  dm'[e].snap[b].filled <= book[b].filled
    BY <1>2 DEF SnapsNotAhead
  <2>1. dm'[e].snap = book \/ dm'[e].snap = dm[e].snap \/ dm'[e] = IdleDaemon
    BY <1>1 DEF DaemonLocals, LocalStep
  <2>2. IdleDaemon.snap[b].filled = 0 /\ book[b].filled \in Nat
    BY FillTyped DEF IdleDaemon, EmptyBook
  <2> QED
    BY <2>1, <2>2 DEF FillInv, SnapsNotAhead
<1>8. UnissuedUnlisted'
  BY <1>2, <1>3 DEF FillInv, UnissuedUnlisted
<1> QED
  BY <1>2, <1>4, <1>5, <1>6, <1>7, <1>8 DEF FillInv

LEMMA FillBrokerStep ==
    ASSUME PlaceInv, FillInv, NEW b \in BrokerIds, BrokerStep(b), UNCHANGED <<rows, dm, th, placedFor>>
    PROVE  FillInv'
<1>1. /\ \A c \in BrokerIds \ {b} : book'[c] = book[c]
      /\ book[b].status \in OpenStatuses /\ book[b].filled <= book'[b].filled
      /\ book' \in [BrokerIds -> BookEntry]
  BY BrokerEffect DEF PlaceInv
<1>2. \A c \in BrokerIds : /\ book[c].filled <= book'[c].filled
                           /\ book[c].filled \in Nat /\ book'[c].filled \in Nat
  <2>1. \A c \in BrokerIds : book[c].filled \in Nat /\ book'[c].filled \in Nat
    BY <1>1, FillTyped DEF BookEntry
  <2> QED
    BY <1>1, <2>1
<1>3. \A o \in Orders : FilledAtBroker(rows'[o], book')
  <2> SUFFICES ASSUME NEW o \in Orders PROVE FilledAtBroker(rows[o], book')
    OBVIOUS
  <2>1. rows[o].filled \in Nat /\ rows[o].broker \in BrokerIds \cup {NoBroker}
    BY FillTyped
  <2> QED
    BY <1>2, <2>1 DEF FillInv, FilledAtBroker
<1>4. SnapsNotAhead'
  <2> SUFFICES ASSUME NEW d \in Daemons, NEW c \in BrokerIds
               PROVE  dm[d].snap[c].filled <= book'[c].filled
    BY DEF SnapsNotAhead
  <2>1. dm[d].snap[c].filled \in Nat /\ dm[d].snap[c].filled <= book[c].filled
    BY FillTyped DEF FillInv, SnapsNotAhead
  <2> QED
    BY <1>2, <2>1
<1>5. UnissuedUnlisted'
  <2>1. placedFor[b] # NoOrder
    BY <1>1 DEF FillInv, UnissuedUnlisted, OpenStatuses
  <2> QED
    BY <1>1, <2>1 DEF FillInv, UnissuedUnlisted
<1>6. ListedAtBroker' /\ \A u \in Threads : Unlinked(th'[u], rows')
  BY DEF FillInv, ListedAtBroker, Unlinked
<1> QED
  BY <1>3, <1>4, <1>5, <1>6 DEF FillInv

LEMMA FillInit == PlaceInit => FillInv
<1> SUFFICES ASSUME PlaceInit PROVE FillInv
  OBVIOUS
<1>1. /\ \A o \in Orders : rows[o].broker = NoBroker /\ rows[o].filled = 0
      /\ \A t \in Threads : th[t].pc \notin Inside
      /\ \A b \in BrokerIds : book[b].status = "NONE" /\ book[b].filled = 0
      /\ \A d \in Daemons : dm[d] = IdleDaemon
  BY IdleThreadFacts, StageFacts DEF PlaceInit, AbsentRow, EmptyBook
<1>2. /\ \A o \in Orders : IdleDaemon.listed[o].broker = NoBroker
      /\ \A b \in BrokerIds : IdleDaemon.snap[b].filled = 0
  BY AbsentRowFacts DEF IdleDaemon, EmptyBook
<1> QED
  BY <1>1, <1>2 DEF FillInv, Unlinked, FilledAtBroker, ListedAtBroker, SnapsNotAhead, UnissuedUnlisted

LEMMA FillStep ==
    ASSUME PlaceInv, FillInv, [PlaceNext]_placeVars
    PROVE  FillInv'
<1>1. ASSUME NEW t \in Threads, (\E o \in Orders : Call(t, o)) \/ Continue(t)
      PROVE  FillInv'
  BY <1>1, FillThreadStep
<1>2. ASSUME NEW d \in Daemons, DaemonStep(d) \/ SnapshotFails(d), UNCHANGED engineVars
      PROVE  FillInv'
  BY <1>2, FillDaemonStep
<1>3. ASSUME NEW b \in BrokerIds, BrokerStep(b), UNCHANGED <<rows, dm, crashes>>,
             UNCHANGED engineVars
      PROVE  FillInv'
  BY <1>3, FillBrokerStep DEF engineVars
<1>4. ASSUME UNCHANGED <<rows, book, dm, th, placedFor>>
      PROVE  FillInv'
  BY <1>4 DEF FillInv, Unlinked, FilledAtBroker, ListedAtBroker, SnapsNotAhead, UnissuedUnlisted
<1>5. CASE ProcessCrash
  <2>1. /\ \A t \in Threads : th'[t].pc \notin Inside
        /\ \A d \in Daemons : dm'[d] = IdleDaemon
        /\ UNCHANGED <<rows, book, placedFor>>
    BY <1>5, IdleThreadFacts, StageFacts DEF ProcessCrash
  <2>2. /\ \A o \in Orders : IdleDaemon.listed[o].broker = NoBroker
        /\ \A b \in BrokerIds : IdleDaemon.snap[b].filled = 0 /\ book[b].filled \in Nat
    BY AbsentRowFacts, FillTyped DEF IdleDaemon, EmptyBook
  <2>3. ListedAtBroker' /\ SnapsNotAhead'
    BY <2>1, <2>2 DEF ListedAtBroker, SnapsNotAhead
  <2> QED
    BY <2>1, <2>3 DEF FillInv, Unlinked, FilledAtBroker, UnissuedUnlisted
<1>6. CASE FailuresAge \/ (\E s \in Signals : SignalAges(s)) \/ UNCHANGED placeVars
  BY <1>4, <1>6 DEF FailuresAge, SignalAges, placeVars
<1> QED
  BY <1>1, <1>2, <1>3, <1>5, <1>6 DEF PlaceNext

(* With callers at work, daemons behind, crashes and retries, the store    *)
(* never shows more filled than the broker filled of that very order.      *)
THEOREM PlaceFillNeverInvented == PlaceSpec => []FillNeverInvented
<1>1. PlaceInv /\ FillInv => FillNeverInvented
  <2> SUFFICES ASSUME PlaceInv, FillInv, NEW o \in Orders, Known(o)
               PROVE  rows[o].filled <= Entry(o).filled
    BY DEF FillNeverInvented
  <2>1. Matched(o, rows[o], book) = rows[o].broker /\ rows[o].broker # NoBroker
    BY MatchedFacts DEF Known
  <2> QED
    BY <2>1 DEF Entry, FillInv, FilledAtBroker
<1>2. PlaceInv /\ FillInv /\ [PlaceNext]_placeVars => FillInv'
  BY FillStep
<1> QED
  BY <1>1, <1>2, FillInit, PlaceInvariant, PTL DEF PlaceSpec

(* transition overwrites the broker id of a row whenever it is given one,  *)
(* yet no row's id is ever exchanged for another: of all who write the     *)
(* row, only the caller that holds the order can bring a new id, and it    *)
(* does so once.                                                           *)
BrokerIdKept ==
    [][\A o \in Orders :
        rows[o].broker # NoBroker => rows'[o].broker = rows[o].broker]_placeVars

LEMMA ThreadKeepsBrokerId ==
    ASSUME PlaceInv, FillInv, NEW t \in Threads, (\E o \in Orders : Call(t, o)) \/ Continue(t),
           NEW o \in Orders, rows[o].broker # NoBroker
    PROVE  rows'[o] = rows[o]
<1> DEFINE p == th[t].order
<1>1. ASSUME th[t].pc \in Inside \ {"mark"}
      PROVE  p # o
  BY <1>1 DEF FillInv, Unlinked
<1>2. ASSUME NEW s, NEW b, NEW next, MoveOrRaise(t, s, b, next), th[t].pc \in Inside \ {"mark"}
      PROVE  rows'[o] = rows[o]
  <2>1. \/ rows' = rows
        \/ rows' = [rows EXCEPT ![p] = MovedRow(rows[p], s, b, rows[p].filled)]
    BY <1>2 DEF MoveOrRaise
  <2>2. rows \in [Orders -> Row] /\ p # o
    BY <1>1, <1>2, PlaceTyped DEF PlaceInv
  <2> HIDE DEF p
  <2> QED
    BY <2>1, <2>2
<1>3. CASE RiskRefuses(t) \/ Send(t) \/ RejectOrder(t) \/ Acknowledge(t)
  <2>1. th[t].pc \in Inside \ {"mark"}
    BY <1>3, StageFacts DEF RiskRefuses, Send, RejectOrder, Acknowledge, At
  <2> QED
    BY <1>2, <1>3, <2>1 DEF RiskRefuses, Send, RejectOrder, Acknowledge
<1>4. CASE CreateOrGet(t)
  <2>1. CASE rows[p].state = "ABSENT"
    <3>1. rows[o].state # "ABSENT"
      BY FillTyped DEF PlaceInv, OrderOK, IssuedFor
    <3>2. rows \in [Orders -> Row] /\ rows' = [rows EXCEPT ![p] = NewRow(p, NoBroker, 0)]
      BY <1>4, <2>1, PlaceTyped DEF CreateOrGet, PlaceInv
    <3> HIDE DEF p
    <3> QED
      BY <2>1, <3>1, <3>2
  <2>2. CASE rows[p].state # "ABSENT"
    BY <1>4, <2>2 DEF CreateOrGet
  <2> QED
    BY <2>1, <2>2
<1>5. CASE \/ \E q \in Orders : Call(t, q)
           \/ UpsertNewIntent(t) \/ RiskAllows(t) \/ RecordAccepted(t)
           \/ SubmitAccepted(t) \/ SubmitRefused(t) \/ SubmitFails(t)
           \/ RejectIntent(t) \/ CountRefusal(t) \/ MarkSubmitted(t)
  BY <1>5 DEF Call, UpsertNewIntent, RiskAllows, RecordAccepted, SubmitAccepted,
              SubmitRefused, SubmitFails, RejectIntent, CountRefusal, MarkSubmitted
<1> QED
  BY <1>3, <1>4, <1>5 DEF Continue

(* The broker id of a row is written at most once. *)
THEOREM PlaceBrokerIdKept == PlaceSpec => BrokerIdKept
<1>1. PlaceInv /\ FillInv /\ [PlaceNext]_placeVars =>
        [\A o \in Orders :
            rows[o].broker # NoBroker => rows'[o].broker = rows[o].broker]_placeVars
  <2> SUFFICES ASSUME PlaceInv, FillInv, PlaceNext, NEW o \in Orders, rows[o].broker # NoBroker
               PROVE  rows'[o].broker = rows[o].broker
    OBVIOUS
  <2>1. ASSUME NEW t \in Threads, (\E p \in Orders : Call(t, p)) \/ Continue(t)
        PROVE  rows'[o].broker = rows[o].broker
    BY <2>1, ThreadKeepsBrokerId
  <2>2. ASSUME NEW d \in Daemons, DaemonStep(d) \/ SnapshotFails(d), UNCHANGED engineVars
        PROVE  rows'[o].broker = rows[o].broker
    BY <2>2, FillDaemonStep
  <2>3. CASE FailuresAge \/ (\E s \in Signals : SignalAges(s)) \/ ProcessCrash
    BY <2>3 DEF FailuresAge, SignalAges, ProcessCrash
  <2> QED
    BY <2>1, <2>2, <2>3 DEF PlaceNext
<1>2. PlaceInv /\ FillInv /\ [PlaceNext]_placeVars => FillInv'
  BY FillStep
<1> QED
  BY <1>1, <1>2, FillInit, PlaceInvariant, PTL DEF PlaceSpec, BrokerIdKept

(* The ends that only the broker can bring about; a REJECTED row may also  *)
(* be a refusal of the risk engine, a failed submission, or the verdict of *)
(* a daemon on an order its snapshot is too old to list.                   *)
BrokerEnds == Terminal \ {"REJECTED"}

(* An order shown as filled, cancelled or expired has ended so at the      *)
(* broker, under the id in its row.                                        *)
EndsAsAtBroker ==
    \A o \in Orders : rows[o].state \in BrokerEnds =>
        rows[o].broker # NoBroker /\ rows[o].state = TargetState(book[rows[o].broker])

ClosedIsFinal ==
    \A d \in Daemons, b \in BrokerIds :
        dm[d].snap[b].status \in ClosedStatuses => dm[d].snap[b] = book[b]

LEMMA EndFacts ==
    /\ BrokerEnds \subseteq Terminal /\ BrokerEnds \subseteq OrderState
    /\ BrokerEnds \cap {"NEW", "SENT", "ACKNOWLEDGED", "REJECTED", "ABSENT"} = {}
BY DEF BrokerEnds, Terminal, OrderState

(* A caller never writes one of these ends. *)
LEMMA ThreadWritesNoEnd ==
    ASSUME PlaceInv, NEW t \in Threads, (\E p \in Orders : Call(t, p)) \/ Continue(t),
           NEW o \in Orders, rows'[o].state \in BrokerEnds
    PROVE  rows'[o] = rows[o]
<1> DEFINE p == th[t].order
<1>1. ASSUME NEW s \in {"REJECTED", "SENT", "ACKNOWLEDGED"}, NEW b, NEW next,
             MoveOrRaise(t, s, b, next), p \in Orders
      PROVE  rows'[o] = rows[o]
  <2> DEFINE r == MovedRow(rows[p], s, b, rows[p].filled)
  <2>1. rows' = rows \/ rows' = [rows EXCEPT ![p] = r]
    BY <1>1 DEF MoveOrRaise
  <2>2. r.state = s
    BY DEF MovedRow
  <2>3. rows \in [Orders -> Row]
    BY PlaceTyped DEF PlaceInv
  <2> HIDE DEF p, r
  <2>4. CASE rows' = [rows EXCEPT ![p] = r] /\ p = o
    <3>1. rows'[o].state = s
      BY <2>2, <2>3, <2>4
    <3> QED
      BY <3>1, EndFacts
  <2> QED
    BY <2>1, <2>3, <2>4
<1>2. CASE RiskRefuses(t) \/ Send(t) \/ RejectOrder(t) \/ Acknowledge(t)
  <2>1. p \in Orders
    BY <1>2, PlaceTyped DEF PlaceInv, RiskRefuses, Send, RejectOrder, Acknowledge, At
  <2> QED
    BY <1>1, <1>2, <2>1 DEF RiskRefuses, Send, RejectOrder, Acknowledge
<1>3. CASE CreateOrGet(t)
  <2>1. rows' = rows \/ rows' = [rows EXCEPT ![p] = NewRow(p, NoBroker, 0)]
    BY <1>3 DEF CreateOrGet
  <2>2. NewRow(p, NoBroker, 0).state = "NEW" /\ rows \in [Orders -> Row]
    BY PlaceTyped DEF NewRow, PlaceInv
  <2> HIDE DEF p
  <2>3. CASE rows' = [rows EXCEPT ![p] = NewRow(p, NoBroker, 0)] /\ p = o
    <3>1. rows'[o].state = "NEW"
      BY <2>2, <2>3
    <3> QED
      BY <3>1, EndFacts
  <2> QED
    BY <2>1, <2>2, <2>3
<1>4. CASE \/ \E q \in Orders : Call(t, q)
           \/ UpsertNewIntent(t) \/ RiskAllows(t) \/ RecordAccepted(t)
           \/ SubmitAccepted(t) \/ SubmitRefused(t) \/ SubmitFails(t)
           \/ RejectIntent(t) \/ CountRefusal(t) \/ MarkSubmitted(t)
  BY <1>4 DEF Call, UpsertNewIntent, RiskAllows, RecordAccepted, SubmitAccepted,
              SubmitRefused, SubmitFails, RejectIntent, CountRefusal, MarkSubmitted
<1> QED
  BY <1>2, <1>3, <1>4 DEF Continue

(* A caller gives the broker only ids it has not listed yet. *)
LEMMA ThreadKeepsListed ==
    ASSUME NEW t \in Threads, (\E p \in Orders : Call(t, p)) \/ Continue(t),
           book \in [BrokerIds -> BookEntry],
           NEW b \in BrokerIds, placedFor[b] # NoOrder
    PROVE  book'[b] = book[b]
<1>1. ASSUME NEW o, NEW c \in BrokerIds, NEW s, BrokerLists(o, c, s)
      PROVE  book'[b] = book[b]
  BY <1>1 DEF BrokerLists
<1>2. CASE SubmitAccepted(t) \/ SubmitRefused(t) \/ SubmitFails(t)
  BY <1>1, <1>2 DEF SubmitAccepted, SubmitRefused, SubmitFails
<1>3. CASE \/ \E q \in Orders : Call(t, q)
           \/ UpsertNewIntent(t) \/ CreateOrGet(t) \/ RiskRefuses(t) \/ RiskAllows(t)
           \/ Send(t) \/ RecordAccepted(t) \/ RejectIntent(t) \/ CountRefusal(t)
           \/ RejectOrder(t) \/ Acknowledge(t) \/ MarkSubmitted(t)
  BY <1>3 DEF Call, UpsertNewIntent, CreateOrGet, RiskRefuses, RiskAllows, Send,
              RecordAccepted, RejectIntent, CountRefusal, RejectOrder, Acknowledge, MarkSubmitted
<1> QED
  BY <1>2, <1>3 DEF Continue

(* A daemon writes one only from a closed entry, under the id in the row. *)
LEMMA DaemonWritesEnd ==
    ASSUME PlaceInv, FillInv, ClosedIsFinal, NEW d \in Daemons, NEW o \in Orders,
           DaemonWrites(d, o), rows'[o].state \in BrokerEnds
    PROVE  \/ rows'[o].state = rows[o].state
           \/ /\ rows[o].broker # NoBroker
              /\ rows'[o].state = TargetState(book[rows[o].broker])
<1>1. ReconTypeOK /\ rows \in [Orders -> Row] /\ rows[o] \in Row
  BY DEF PlaceInv, TypeInv, ReconTypeOK
<1>2. ASSUME NEW s, NEW b, NEW q, rows' = [rows EXCEPT ![o] = MovedRow(@, s, b, q)]
      PROVE  rows'[o].state = s
  BY <1>1, <1>2 DEF MovedRow
<1>3. CASE rows' = [rows EXCEPT ![o] = MovedRow(@, "REJECTED", NoBroker, @.filled)]
  BY <1>1, <1>3, EndFacts DEF MovedRow
<1>4. CASE /\ MatchOf(d, o) \in BrokerIds
           /\ \E q \in {SeenBy(d, o).filled, rows[o].filled} :
                rows' = [rows EXCEPT ![o] = MovedRow(@, TargetState(SeenBy(d, o)), MatchOf(d, o), q)]
  <2>1. rows'[o].state = TargetState(SeenBy(d, o))
    BY <1>2, <1>4
  <2>2. SeenBy(d, o).status \in ClosedStatuses
    BY <1>1, <1>4, <2>1, EndFacts, EntryFacts, TargetFacts
  <2>3. SeenBy(d, o) = book[MatchOf(d, o)]
    BY <1>4, <2>2 DEF ClosedIsFinal, SeenBy
  <2>4. rows[o].broker = MatchOf(d, o) /\ MatchOf(d, o) # NoBroker
    <3>1. MatchOf(d, o) # NoBroker /\ o \notin BrokerIds
      BY <1>4
    <3>2. MatchOf(d, o) = dm[d].listed[o].broker
      BY <3>1, MatchedFacts DEF MatchOf
    <3> QED
      BY <3>1, <3>2 DEF FillInv, ListedAtBroker
  <2> QED
    BY <2>1, <2>3, <2>4
<1>5. ASSUME NEW m \in OrderState, ValidTransitions[m] # {},
             rows' = [rows EXCEPT ![o] = MovedRow(@, m, NoBroker, @.filled)]
      PROVE  FALSE
  <2>1. rows'[o].state = m
    BY <1>1, <1>5 DEF MovedRow
  <2> QED
    BY <1>5, <2>1, EndFacts, TableFacts
<1>6. CASE rows' = [rows EXCEPT ![o] = RefilledRow(@, SeenBy(d, o).filled)]
  BY <1>1, <1>6 DEF RefilledRow, Row
<1> QED
  BY <1>3, <1>4, <1>5, <1>6 DEF DaemonWrites

LEMMA EndThreadStep ==
    ASSUME PlaceInv, FillInv, EndsAsAtBroker, ClosedIsFinal,
           NEW t \in Threads, (\E p \in Orders : Call(t, p)) \/ Continue(t)
    PROVE  EndsAsAtBroker' /\ ClosedIsFinal'
<1>1. book \in [BrokerIds -> BookEntry]
  BY PlaceTyped DEF PlaceInv
<1>2. EndsAsAtBroker'
  <2> SUFFICES ASSUME NEW o \in Orders, rows'[o].state \in BrokerEnds
               PROVE  /\ rows'[o].broker # NoBroker
                      /\ rows'[o].state = TargetState(book'[rows'[o].broker])
    BY DEF EndsAsAtBroker
  <2>1. rows'[o] = rows[o]
    BY ThreadWritesNoEnd
  <2>2. rows[o].broker # NoBroker /\ rows[o].state = TargetState(book[rows[o].broker])
    BY <2>1 DEF EndsAsAtBroker
  <2>3. rows[o].broker \in BrokerIds /\ placedFor[rows[o].broker] = o
    BY <2>2, FillTyped DEF PlaceInv, OrderOK
  <2>4. book'[rows[o].broker] = book[rows[o].broker]
    BY <1>1, <2>3, ThreadKeepsListed, OrderReconcilerAssumption
  <2> QED
    BY <2>1, <2>2, <2>4
<1>3. ClosedIsFinal'
  <2>1. dm' = dm
    BY DEF Call, Continue, UpsertNewIntent, CreateOrGet, RiskRefuses, RiskAllows, Send,
           RecordAccepted, SubmitAccepted, SubmitRefused, SubmitFails, RejectIntent,
           CountRefusal, RejectOrder, Acknowledge, MarkSubmitted
  <2> SUFFICES ASSUME NEW d \in Daemons, NEW b \in BrokerIds,
                      dm[d].snap[b].status \in ClosedStatuses
               PROVE  dm[d].snap[b] = book'[b]
    BY <2>1 DEF ClosedIsFinal
  <2>2. dm[d].snap[b] = book[b] /\ book[b].status # "NONE"
    BY DEF ClosedIsFinal, ClosedStatuses
  <2>3. placedFor[b] # NoOrder
    BY <2>2 DEF FillInv, UnissuedUnlisted
  <2> QED
    BY <1>1, <2>2, <2>3, ThreadKeepsListed
<1> QED
  BY <1>2, <1>3

LEMMA EndDaemonStep ==
    ASSUME PlaceInv, FillInv, EndsAsAtBroker, ClosedIsFinal,
           NEW d \in Daemons, DaemonStep(d) \/ SnapshotFails(d), UNCHANGED engineVars
    PROVE  EndsAsAtBroker' /\ ClosedIsFinal'
<1>1. TypeInv /\ ReconTypeOK /\ DaemonLocals(d)
  BY DaemonLocalStep DEF PlaceInv, TypeInv
<1>2. book' = book /\ (rows' = rows \/ \E o \in Orders : DaemonWrites(d, o))
  BY <1>1, DaemonWritesOneRow DEF TypeInv, SnapshotFails
<1>3. EndsAsAtBroker'
  <2> SUFFICES ASSUME NEW o \in Orders, rows'[o].state \in BrokerEnds
               PROVE  /\ rows'[o].broker # NoBroker
                      /\ rows'[o].state = TargetState(book[rows'[o].broker])
    BY <1>2 DEF EndsAsAtBroker
  <2>1. rows'[o].broker = rows[o].broker
    BY FillDaemonStep
  <2>2. CASE rows'[o].state = rows[o].state
    BY <2>1, <2>2 DEF EndsAsAtBroker
  <2>3. CASE DaemonWrites(d, o)
    BY <2>1, <2>2, <2>3, DaemonWritesEnd
  <2>4. ASSUME NEW p \in Orders \ {o}, DaemonWrites(d, p)
        PROVE  rows'[o] = rows[o]
    BY <1>1, <2>4, WrittenRow
  <2> QED
    BY <1>2, <2>2, <2>3, <2>4
<1>4. ClosedIsFinal'
  <2> SUFFICES ASSUME NEW e \in Daemons, NEW b \in BrokerIds,
                      dm'[e].snap[b].status \in ClosedStatuses
               PROVE  dm'[e].snap[b] = book[b]
    BY <1>2 DEF ClosedIsFinal
  <2>1. dm'[e].snap = book \/ dm'[e].snap = dm[e].snap \/ dm'[e] = IdleDaemon
    BY <1>1 DEF DaemonLocals, LocalStep
  <2>2. IdleDaemon.snap[b].status \notin ClosedStatuses
    BY DEF IdleDaemon, EmptyBook, ClosedStatuses
  <2> QED
    BY <2>1, <2>2 DEF ClosedIsFinal
<1> QED
  BY <1>3, <1>4

LEMMA EndBrokerStep ==
    ASSUME PlaceInv, FillInv, EndsAsAtBroker, ClosedIsFinal,
           NEW b \in BrokerIds, BrokerStep(b), UNCHANGED <<rows, dm>>
    PROVE  EndsAsAtBroker' /\ ClosedIsFinal'
<1>1. /\ \A c \in BrokerIds \ {b} : book'[c] = book[c]
      /\ book[b].status \in OpenStatuses
      /\ \A c \in BrokerIds : book[c] \in BookEntry
  BY BrokerEffect DEF PlaceInv, TypeInv, ReconTypeOK
<1>2. OpenStatuses \cap ClosedStatuses = {}
  BY DEF OpenStatuses, ClosedStatuses
<1>3. EndsAsAtBroker'
  <2> SUFFICES ASSUME NEW o \in Orders, rows[o].state \in BrokerEnds
               PROVE  /\ rows[o].broker # NoBroker
                      /\ rows[o].state = TargetState(book'[rows[o].broker])
    BY DEF EndsAsAtBroker
  <2>1. /\ rows[o].broker \in BrokerIds /\ rows[o].broker # NoBroker
        /\ rows[o].state = TargetState(book[rows[o].broker])
    BY FillTyped DEF EndsAsAtBroker
  <2>2. book[rows[o].broker].status \in ClosedStatuses
    BY <1>1, <2>1, EndFacts, TargetFacts
  <2> QED
    BY <1>1, <1>2, <2>1, <2>2
<1>4. ClosedIsFinal'
  BY <1>1, <1>2 DEF ClosedIsFinal
<1> QED
  BY <1>3, <1>4

LEMMA EndStep ==
    ASSUME PlaceInv, FillInv, EndsAsAtBroker, ClosedIsFinal, [PlaceNext]_placeVars
    PROVE  EndsAsAtBroker' /\ ClosedIsFinal'
<1>1. ASSUME NEW t \in Threads, (\E o \in Orders : Call(t, o)) \/ Continue(t)
      PROVE  EndsAsAtBroker' /\ ClosedIsFinal'
  BY <1>1, EndThreadStep
<1>2. ASSUME NEW d \in Daemons, DaemonStep(d) \/ SnapshotFails(d), UNCHANGED engineVars
      PROVE  EndsAsAtBroker' /\ ClosedIsFinal'
  BY <1>2, EndDaemonStep
<1>3. ASSUME NEW b \in BrokerIds, BrokerStep(b), UNCHANGED <<rows, dm, crashes>>,
             UNCHANGED engineVars
      PROVE  EndsAsAtBroker' /\ ClosedIsFinal'
  BY <1>3, EndBrokerStep
<1>4. CASE FailuresAge \/ (\E s \in Signals : SignalAges(s)) \/ UNCHANGED placeVars
  BY <1>4 DEF FailuresAge, SignalAges, placeVars, EndsAsAtBroker, ClosedIsFinal
<1>5. CASE ProcessCrash
  <2>1. \A b \in BrokerIds : IdleDaemon.snap[b].status \notin ClosedStatuses
    BY DEF IdleDaemon, EmptyBook, ClosedStatuses
  <2>2. UNCHANGED <<rows, book>> /\ \A d \in Daemons : dm'[d] = IdleDaemon
    BY <1>5 DEF ProcessCrash
  <2> QED
    BY <2>1, <2>2 DEF EndsAsAtBroker, ClosedIsFinal
<1> QED
  BY <1>1, <1>2, <1>3, <1>4, <1>5 DEF PlaceNext

(* Whatever races with the daemons, FILLED, CANCELLED and EXPIRED are the  *)
(* broker's own word on the order: of all the ends only REJECTED can be    *)
(* wrong, and it can be (CompletedOrdersRecorded fails).                   *)
THEOREM PlaceEndsAsAtBroker == PlaceSpec => []EndsAsAtBroker
<1>1. PlaceInit => EndsAsAtBroker /\ ClosedIsFinal
  <2>1. AbsentRow.state \notin BrokerEnds
    BY AbsentRowFacts, EndFacts
  <2>2. \A b \in BrokerIds : IdleDaemon.snap[b].status \notin ClosedStatuses
    BY DEF IdleDaemon, EmptyBook, ClosedStatuses
  <2> QED
    BY <2>1, <2>2 DEF PlaceInit, EndsAsAtBroker, ClosedIsFinal
<1>2. PlaceInv /\ FillInv /\ [PlaceNext]_placeVars => FillInv'
  BY FillStep
<1>3. /\ PlaceInv /\ FillInv /\ EndsAsAtBroker /\ ClosedIsFinal /\ [PlaceNext]_placeVars
      => EndsAsAtBroker' /\ ClosedIsFinal'
  BY EndStep
<1> QED
  BY <1>1, <1>2, <1>3, FillInit, PlaceInvariant, PTL DEF PlaceSpec
=============================================================================
