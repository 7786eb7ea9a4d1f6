---------------------------- MODULE BrokerTruth ----------------------------
(***************************************************************************)
(* core/broker_truth_reconciler.py: the loop that compares the broker's    *)
(* positions, open orders and fills with what the event log says, raises a *)
(* halt on drift and, when AUTO_FLATTEN_ON_DRIFT is set, sends a market    *)
(* order against every position the broker reports.                        *)
(*                                                                         *)
(* A cycle asks the broker three questions one after the other and then    *)
(* reads the event log, while orders fill and events are appended; each    *)
(* question and each flatten order is an action.  The orders are asked of  *)
(* open_orders, or of orders when the broker has no such method: of the    *)
(* broker the program passes, KiteConnect, it is the whole day's book, and *)
(* no row's status is looked at.                                           *)
(*                                                                         *)
(* The order path is an input: every order buys one unit, reaches the      *)
(* broker, may fill, and is logged afterwards; a stranger may trade on the *)
(* account.  The log has no event for the fill of a flatten order.  Prices *)
(* are left out, so POSITION_PRICE_MISMATCH is; tolerances are the         *)
(* defaults, zero.                                                         *)
(***************************************************************************)
EXTENDS Integers, FiniteSets

CONSTANTS
    Symbols,
    Trades,         \* orders of the program
    SymbolOf,       \* order -> its symbol
    Other,          \* stands for the orders and fills the log has no event for
    Carried,        \* symbol -> quantity from earlier days: part of a position, but
                    \* not of what the broker's row says was bought and sold
    MaxStrange,     \* bound: trades of a stranger
    MaxFlats,       \* bound: flatten orders
    MaxFailures     \* bound: calls to the broker that raise

ASSUME TruthAssumption ==
    /\ SymbolOf \in [Trades -> Symbols] /\ Other \notin Trades
    /\ Carried \in [Symbols -> Int]
    /\ MaxStrange \in Nat /\ MaxFlats \in Nat /\ MaxFailures \in Nat

VARIABLES
    listsOpen,  \* the broker has a method open_orders; never changes
    position,   \* symbol -> net quantity at the broker
    atBroker,   \* order -> "absent", "open" or "filled"
    logged,     \* order -> what the event log says of it
    aged,       \* fills older than the stale window, Other for the others'
    flats,      \* flatten orders the broker has not filled yet
    sent,       \* flatten orders sent
    strange,    \* trades of a stranger, and fills of flatten orders
    outages,    \* calls to the broker that have raised
    truthStage, \* where the cycle is
    fetched,    \* what the cycle has read
    toFlatten,  \* symbols the cycle has yet to flatten
    entryHalt,  \* the risk halt stands
    drift,      \* the outcome of the last comparison
    undisturbed, \* history: nothing has changed since the cycle began
    excused     \* history: symbols whose position has moved since it was read, or
                \* for which a flatten order was pending then

truthVars == <<listsOpen, position, atBroker, logged, aged, flats, sent, strange, outages,
               truthStage, fetched, toFlatten, entryHalt, drift, undisturbed, excused>>
trading == <<listsOpen, position, atBroker, logged, aged, flats, sent, strange>>
cycle == <<listsOpen, truthStage, fetched, toFlatten, entryHalt, drift>>

Flat == [symbol : Symbols, qty : Int, id : 1 .. MaxFlats]
Unseen == [open |-> {}, position |-> [s \in Symbols |-> 0], fills |-> {}]

(* internal_positions and internal_open_orders, by the event log *)
LoggedQty(s) == Carried[s] + Cardinality({o \in Trades : SymbolOf[o] = s /\ logged[o] = "filled"})
LoggedOpen == {o \in Trades : logged[o] = "open"}

(* The orders that wait at the broker, and those it lists when it is asked.  *)
OpenOrders ==
    {o \in Trades : atBroker[o] = "open"} \cup {x \in {Other} : flats # {}}

OrderRows ==
    IF listsOpen
      THEN OpenOrders
      ELSE OpenOrders \cup {o \in Trades : atBroker[o] = "filled"} \cup {x \in {Other} : strange > 0}

-----------------------------------------------------------------------------
(* The order path and the account. *)
Submit(o) ==
    /\ ~entryHalt /\ atBroker[o] = "absent"
    /\ atBroker' = [atBroker EXCEPT ![o] = "open"]
    /\ undisturbed' = FALSE
    /\ UNCHANGED <<position, logged, aged, flats, sent, strange, outages, cycle, excused>>

Fill(o) ==
    /\ atBroker[o] = "open"
    /\ atBroker' = [atBroker EXCEPT ![o] = "filled"]
    /\ position' = [position EXCEPT ![SymbolOf[o]] = @ + 1]
    /\ undisturbed' = FALSE /\ excused' = excused \cup {SymbolOf[o]}
    /\ UNCHANGED <<logged, aged, flats, sent, strange, outages, cycle>>

(* order_submitted, then fill *)
Log(o) ==
    /\ \/ logged[o] = "absent" /\ atBroker[o] # "absent" /\ logged' = [logged EXCEPT ![o] = "open"]
       \/ logged[o] = "open" /\ atBroker[o] = "filled" /\ logged' = [logged EXCEPT ![o] = "filled"]
    /\ undisturbed' = FALSE
    /\ UNCHANGED <<position, atBroker, aged, flats, sent, strange, outages, cycle, excused>>

(* A fill gets older than DRIFT_FILL_STALE_WINDOW_SEC. *)
Age ==
    /\ \/ \E o \in Trades : atBroker[o] = "filled" /\ o \notin aged /\ aged' = aged \cup {o}
       \/ strange > 0 /\ Other \notin aged /\ aged' = aged \cup {Other}
    /\ undisturbed' = FALSE
    /\ UNCHANGED <<position, atBroker, logged, flats, sent, strange, outages, cycle, excused>>

StrangeTrade(s) ==
    /\ strange + Cardinality(flats) - sent < MaxStrange
    /\ \E q \in {-1, 1} : position' = [position EXCEPT ![s] = @ + q]
    /\ strange' = strange + 1 /\ undisturbed' = FALSE /\ excused' = excused \cup {s}
    /\ UNCHANGED <<atBroker, logged, aged, flats, sent, outages, cycle>>

FillFlat(f) ==
    /\ f \in flats /\ flats' = flats \ {f}
    /\ position' = [position EXCEPT ![f.symbol] = @ + f.qty]
    /\ strange' = strange + 1 /\ undisturbed' = FALSE
    /\ UNCHANGED <<atBroker, logged, aged, sent, outages, cycle, excused>>

-----------------------------------------------------------------------------
(* run_once: the three calls of _fetch_broker_truth *)
FetchOrders ==
    /\ truthStage = "idle" /\ truthStage' = "orders"
    /\ fetched' = [Unseen EXCEPT !.open = OrderRows]
    /\ drift' = FALSE /\ undisturbed' = TRUE
    /\ UNCHANGED <<trading, outages, toFlatten, entryHalt, excused>>

FetchPositions ==
    /\ truthStage = "orders" /\ truthStage' = "positions"
    /\ fetched' = [fetched EXCEPT !.position = position]
    /\ excused' = {f.symbol : f \in flats}
    /\ UNCHANGED <<trading, outages, toFlatten, entryHalt, drift, undisturbed>>

(* _fill_id_set leaves the recent fills out *)
FetchFills ==
    /\ truthStage = "positions" /\ truthStage' = "fills"
    /\ fetched' = [fetched EXCEPT !.fills = aged]
    /\ UNCHANGED <<trading, outages, toFlatten, entryHalt, drift, undisturbed, excused>>

(* A call raises: the loop logs it and tries again in the next cycle. *)
CallRaises ==
    /\ truthStage \in {"idle", "orders", "positions"}
    /\ outages < MaxFailures /\ outages' = outages + 1
    /\ truthStage' = "idle" /\ fetched' = Unseen
    /\ UNCHANGED <<trading, toFlatten, entryHalt, drift, undisturbed, excused>>

(* Mutant of OrdersDiffer: an order the log has no event for is let pass.    *)
OrdersDifferMissingOnly == ~(LoggedOpen \subseteq fetched.open)

(* missing_in_broker and extra_in_broker, over the ids of the rows *)
OrdersDiffer == fetched.open # LoggedOpen

PositionsDiffer == \E s \in Symbols : fetched.position[s] # LoggedQty(s)

(* _internal_truth_from_events and _compare_truth *)
Mismatch ==
    \/ PositionsDiffer \/ OrdersDiffer
    \/ Other \in fetched.fills \/ \E o \in fetched.fills \ {Other} : logged[o] # "filled"

(* The quantity _flatten_positions takes from a row: where it is zero, what  *)
(* was bought today less what was sold.                                      *)
RowQty(s) ==
    IF fetched.position[s] # 0 THEN fetched.position[s] ELSE fetched.position[s] - Carried[s]

(* Mutant of FlattenQty: the side of the position is not reversed for a      *)
(* short one.                                                                *)
FlattenQtySells(s) == IF RowQty(s) < 0 THEN RowQty(s) ELSE 0 - RowQty(s)

FlattenQty(s) == 0 - RowQty(s)

(* Drift: the incident, the halt, and the rows of the snapshot to be         *)
(* flattened.                                                                *)
Compare ==
    /\ truthStage = "fills"
    /\ drift' = Mismatch
    /\ entryHalt' = (entryHalt \/ Mismatch)
    /\ \/ /\ Mismatch /\ truthStage' = "flatten"
          /\ toFlatten' = {s \in Symbols : FlattenQty(s) # 0}
          /\ fetched' = [Unseen EXCEPT !.position = fetched.position]
       \/ /\ truthStage' = "idle"       \* no drift, or no flattening
          /\ fetched' = Unseen /\ UNCHANGED toFlatten
    /\ UNCHANGED <<trading, outages, undisturbed, excused>>

(* _flatten_positions, one row: place_order succeeds or raises. *)
Flatten(s) ==
    /\ truthStage = "flatten" /\ s \in toFlatten
    /\ toFlatten' = toFlatten \ {s}
    /\ \/ /\ sent < MaxFlats /\ sent' = sent + 1
          /\ flats' = flats \cup {[symbol |-> s, qty |-> FlattenQty(s), id |-> sent + 1]}
          /\ undisturbed' = FALSE
       \/ UNCHANGED <<sent, flats, undisturbed>>
    /\ UNCHANGED <<listsOpen, position, atBroker, logged, aged, strange, outages,
                   truthStage, fetched, entryHalt, drift, excused>>

EndFlatten ==
    /\ truthStage = "flatten" /\ toFlatten = {} /\ truthStage' = "idle"
    /\ fetched' = Unseen
    /\ UNCHANGED <<trading, outages, toFlatten, entryHalt, drift, undisturbed, excused>>

(* An operator or the next session clears the halt. *)
LiftHalt ==
    /\ entryHalt /\ entryHalt' = FALSE
    /\ UNCHANGED <<trading, outages, truthStage, fetched, toFlatten, drift, undisturbed, excused>>

-----------------------------------------------------------------------------
TruthInit ==
    /\ listsOpen \in BOOLEAN /\ position = Carried
    /\ atBroker = [o \in Trades |-> "absent"] /\ logged = [o \in Trades |-> "absent"]
    /\ aged = {} /\ flats = {} /\ sent = 0 /\ strange = 0 /\ outages = 0
    /\ truthStage = "idle" /\ fetched = Unseen /\ toFlatten = {}
    /\ entryHalt = FALSE /\ drift = FALSE /\ undisturbed = FALSE /\ excused = {}

TruthStep ==
    \/ FetchOrders \/ FetchPositions \/ FetchFills \/ Compare
    \/ \E s \in Symbols : Flatten(s)
    \/ EndFlatten

TruthNext ==
    \/ \E o \in Trades : Submit(o) \/ Fill(o) \/ Log(o)
    \/ \E s \in Symbols : StrangeTrade(s)
    \/ \E f \in flats : FillFlat(f)
    \/ Age \/ TruthStep \/ CallRaises \/ LiftHalt

(* The loop runs on. *)
TruthFairness == WF_truthVars(TruthStep)

TruthSpec == TruthInit /\ [][TruthNext]_truthVars /\ TruthFairness

-----------------------------------------------------------------------------
(* Types; and the log never runs ahead of the broker. *)
TruthTypeOK ==
    /\ position \in [Symbols -> Int] /\ flats \subseteq Flat
    /\ atBroker \in [Trades -> {"absent", "open", "filled"}]
    /\ logged \in [Trades -> {"absent", "open", "filled"}]
    /\ aged \subseteq Trades \cup {Other}
    /\ sent \in 0 .. MaxFlats /\ strange \in Nat /\ outages \in 0 .. MaxFailures
    /\ truthStage \in {"idle", "orders", "positions", "fills", "flatten"}
    /\ toFlatten \subseteq Symbols
    /\ {listsOpen, entryHalt, drift, undisturbed} \subseteq BOOLEAN /\ excused \subseteq Symbols
    /\ \A o \in Trades : logged[o] # "absent" => atBroker[o] # "absent"

(* What the positions, orders and fills of one moment say, when these orders *)
(* are taken for the open ones.                                              *)
Disagree(orders) ==
    \/ \E s \in Symbols : position[s] # LoggedQty(s)
    \/ orders # LoggedOpen
    \/ Other \in aged \/ \E o \in aged \ {Other} : logged[o] # "filled"

(* The books as the broker shows them; the orders it lists need not be open  *)
(* (DriftIsReal).                                                            *)
BooksDisagree == Disagree(OrderRows)

(* "drift_detected": a cycle in which nothing moved judges the books as the   *)
(* broker showed them at one moment, and halts entries when they disagree:    *)
(* the four readings at four moments raise no alarm of their own and hide     *)
(* none.                                                                      *)
JudgesOneMoment ==
    [][truthStage = "fills" /\ truthStage' # "fills" /\ undisturbed =>
          /\ drift' = BooksDisagree
          /\ drift' => entryHalt']_truthVars

(* "OPEN_ORDER_EXTRA_IN_BROKER": a drift reported by a cycle in which nothing *)
(* moved is one of positions, of fills, or of orders that are open.           *)
DriftIsReal == drift /\ undisturbed => Disagree(OpenOrders)

(* "broker_drift_auto_flatten": a flatten order closes its position and never *)
(* opens one the other way, unless the position moved after it was read, or a *)
(* cycle read it while an earlier flatten order was pending.  A position that *)
(* is closed already is at most given back what was carried into the day.     *)
FlattenNeverReverses ==
    [][\A f \in flats \ flats' : LET s == f.symbol IN
          s \notin excused =>
              \/ position'[s] = 0
              \/ position[s] = 0 /\ position'[s] = Carried[s]]_truthVars

(* A drift that lasts halts the entries, and again after every time somebody  *)
(* lifts the halt, whatever calls to the broker fail.                         *)
DriftHaltsAgain == <>[]BooksDisagree => []<>entryHalt
=============================================================================
