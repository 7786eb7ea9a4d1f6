--------------------------- MODULE Trading_proofs ---------------------------
(***************************************************************************)
(* Proofs about what follows a fill: the broker truth reconciler           *)
(* (BrokerTruth), for any symbols, orders and bounds, and the monitor of   *)
(* open trades (TradeMonitor), for any trades and any size.                *)
(***************************************************************************)
EXTENDS BrokerTruth, TradeMonitor, TLAPS

USE TruthAssumption, MonitorAssumption

-----------------------------------------------------------------------------
(***************************************************************************)
(* The reconciler.  What it promises is about the moment it compares or    *)
(* flattens, and it has read what it uses some steps before, so the        *)
(* invariant says which of its readings still stand: all of them while     *)
(* nothing was disturbed (ReadingsStand), and that of a symbol's position  *)
(* until the symbol is excused (PositionRead).  A flatten order that waits *)
(* is the only one for its symbol and closes the position, or gives back   *)
(* to a closed one what was carried into the day (FlatsClose).             *)
(***************************************************************************)

ReadingsStand ==
    undisturbed =>
        /\ truthStage \in {"orders", "positions", "fills"} =>
              fetched.open = OrderRows
        /\ truthStage \in {"positions", "fills"} => fetched.position = position
        /\ truthStage = "fills" => fetched.fills = aged

(* Symbols whose position the cycle may still flatten. *)
InQuestion ==
    CASE truthStage \in {"positions", "fills"} -> Symbols
      [] truthStage = "flatten" -> toFlatten
      [] OTHER -> {}

PositionRead ==
    \A s \in InQuestion \ excused :
        /\ fetched.position[s] = position[s]
        /\ \A f \in flats : f.symbol # s

FlatsClose ==
    \A f \in flats : f.symbol \notin excused =>
        /\ \/ position[f.symbol] + f.qty = 0
           \/ position[f.symbol] = 0 /\ f.qty = Carried[f.symbol]
        /\ \A g \in flats : g.symbol = f.symbol => g = f

FetchedTypeOK ==
    fetched \in [open : SUBSET (Trades \cup {Other}), position : [Symbols -> Int],
                 fills : SUBSET (Trades \cup {Other})]

TruthInv ==
    /\ TruthTypeOK /\ FetchedTypeOK
    /\ ReadingsStand /\ PositionRead /\ FlatsClose
-----------------------------------------------------------------------------
(***************************************************************************)
(* The monitor.  An exit books the units of the earlier partial exits and  *)
(* what is left, so the invariant keeps the account of a trade that is     *)
(* open (OpenAccount): its legs and its remainder are its size, and        *)
(* nothing is booked.  It needs to know which trades of the list are open  *)
(* in the middle of a scan (KeptInOrder).                                  *)
(***************************************************************************)

(* The trades the scan keeps are among those it has visited, each once.      *)
KeptInOrder ==
    /\ tracked \in Seq(Positions) /\ kept \in Seq(Positions)
    /\ cursor = 0 => kept = <<>>
    /\ InList(kept) \subseteq {tracked[i] : i \in 1 .. cursor - 1}
    /\ \A i, j \in 1 .. Len(kept) : kept[i] = kept[j] => i = j

EngineTypeOK == engine \in [Positions -> [left : Int, realized : Int]]

UnfilledIsBlank == \A t \in Positions \ everFilled : booked[t] = 0 /\ legUnits[t] = 0

OpenAccount ==
    \A t \in InList(tracked) \ (ClosedInScan \cup cutShort) :
        metaLeft[t] > 0 /\ legUnits[t] + metaLeft[t] = Qty

MonitorInv ==
    /\ MonitorTypeOK /\ KeptInOrder /\ EngineTypeOK /\ UnfilledIsBlank
    /\ OpenAccount /\ BookedOnce /\ EngineFollowsTrade

-----------------------------------------------------------------------------
(* The reconciler: steps of the others *)

LEMMA TruthTypes ==
    ASSUME TruthTypeOK
    PROVE  /\ position \in [Symbols -> Int] /\ flats \subseteq Flat
           /\ \A f \in flats : f.symbol \in Symbols /\ f.qty \in Int
           /\ atBroker \in [Trades -> {"absent", "open", "filled"}]
           /\ logged \in [Trades -> {"absent", "open", "filled"}]
BY DEF TruthTypeOK, Flat

(* The order path and the account disturb the cycle, but move no position    *)
(* that is not excused.                                                      *)
LEMMA OthersKeepInv ==
    ASSUME TruthInv, TruthTypeOK', undisturbed' = FALSE,
           UNCHANGED <<truthStage, fetched, toFlatten, flats>>,
           excused \subseteq excused',
           \A s \in Symbols \ excused' : position'[s] = position[s]
    PROVE  TruthInv'
<1>1. TruthTypeOK /\ ReadingsStand' /\ FetchedTypeOK'
  BY DEF TruthInv, FetchedTypeOK, ReadingsStand
<1>2. InQuestion' = InQuestion /\ InQuestion \subseteq Symbols
  BY <1>1 DEF InQuestion, TruthTypeOK
<1>3. PositionRead'
  BY <1>2 DEF TruthInv, PositionRead
<1>4. FlatsClose'
  BY <1>1, TruthTypes DEF TruthInv, FlatsClose
<1> QED
  BY <1>1, <1>3, <1>4 DEF TruthInv

LEMMA SubmitKeepsInv ==
    ASSUME TruthInv, NEW o \in Trades, Submit(o) \/ Log(o)
    PROVE  TruthInv'
<1>1. TruthTypeOK
  BY DEF TruthInv
<1>2. /\ atBroker' \in [Trades -> {"absent", "open", "filled"}]
      /\ logged' \in [Trades -> {"absent", "open", "filled"}]
      /\ \A p \in Trades : logged'[p] # "absent" => atBroker'[p] # "absent"
  <2>1. CASE Submit(o)
    BY <1>1, <2>1 DEF Submit, TruthTypeOK
  <2>2. CASE Log(o)
    BY <1>1, <2>2 DEF Log, TruthTypeOK
  <2> QED
    BY <2>1, <2>2
<1>3. /\ undisturbed' = FALSE
      /\ UNCHANGED <<position, aged, flats, sent, strange, outages, cycle, excused>>
  BY DEF Submit, Log
<1>4. {listsOpen', entryHalt', drift', undisturbed'} \subseteq BOOLEAN
  <2>1. {listsOpen, entryHalt, drift} \subseteq BOOLEAN
    BY <1>1 DEF TruthTypeOK
  <2> QED
    BY <1>3, <2>1 DEF cycle
<1>5. TruthTypeOK'
  BY <1>1, <1>2, <1>3, <1>4 DEF TruthTypeOK, cycle
<1> QED
  BY <1>3, <1>5, OthersKeepInv DEF cycle

LEMMA FillKeepsInv ==
    ASSUME TruthInv, NEW o \in Trades, Fill(o)
    PROVE  TruthInv'
<1>1. TruthTypeOK
  BY DEF TruthInv
<1>2. /\ undisturbed' = FALSE /\ excused' = excused \cup {SymbolOf[o]}
      /\ position' = [position EXCEPT ![SymbolOf[o]] = @ + 1]
      /\ atBroker' = [atBroker EXCEPT ![o] = "filled"]
      /\ UNCHANGED <<logged, aged, flats, sent, strange, outages, cycle>>
  BY DEF Fill
<1>3. SymbolOf[o] \in Symbols
  OBVIOUS
<1>4. /\ atBroker' \in [Trades -> {"absent", "open", "filled"}]
      /\ \A p \in Trades : logged'[p] # "absent" => atBroker'[p] # "absent"
  BY <1>1, <1>2 DEF TruthTypeOK
<1>5. /\ position' \in [Symbols -> Int]
      /\ \A s \in Symbols \ excused' : position'[s] = position[s]
  BY <1>1, <1>2, <1>3 DEF TruthTypeOK
<1>6. {listsOpen', entryHalt', drift', undisturbed'} \subseteq BOOLEAN
  <2>1. {listsOpen, entryHalt, drift} \subseteq BOOLEAN
    BY <1>1 DEF TruthTypeOK
  <2> QED
    BY <1>2, <2>1 DEF cycle
<1>7. TruthTypeOK'
  BY <1>1, <1>2, <1>3, <1>4, <1>5, <1>6 DEF TruthTypeOK, cycle
<1> QED
  BY <1>2, <1>5, <1>7, OthersKeepInv DEF cycle

LEMMA SnapshotAgeKeepsInv ==
    ASSUME TruthInv, Age
    PROVE  TruthInv'
<1>1. TruthTypeOK
  BY DEF TruthInv
<1>2. /\ undisturbed' = FALSE /\ aged' \subseteq Trades \cup {Other}
      /\ UNCHANGED <<position, atBroker, logged, flats, sent, strange, outages, cycle, excused>>
  BY <1>1 DEF Age, TruthTypeOK
<1>3. {listsOpen', entryHalt', drift', undisturbed'} \subseteq BOOLEAN
  <2>1. {listsOpen, entryHalt, drift} \subseteq BOOLEAN
    BY <1>1 DEF TruthTypeOK
  <2> QED
    BY <1>2, <2>1 DEF cycle
<1>4. TruthTypeOK'
  BY <1>1, <1>2, <1>3 DEF TruthTypeOK, cycle
<1> QED
  BY <1>2, <1>4, OthersKeepInv DEF cycle

LEMMA StrangeKeepsInv ==
    ASSUME TruthInv, NEW s \in Symbols, StrangeTrade(s)
    PROVE  TruthInv'
<1>1. TruthTypeOK
  BY DEF TruthInv
<1>2. PICK q \in {-1, 1} : position' = [position EXCEPT ![s] = @ + q]
  BY DEF StrangeTrade
<1>3. /\ undisturbed' = FALSE /\ excused' = excused \cup {s} /\ strange' = strange + 1
      /\ UNCHANGED <<atBroker, logged, aged, flats, sent, outages, cycle>>
  BY DEF StrangeTrade
<1>4. /\ position' \in [Symbols -> Int]
      /\ \A r \in Symbols \ excused' : position'[r] = position[r]
  BY <1>1, <1>2, <1>3 DEF TruthTypeOK
<1>5. {listsOpen', entryHalt', drift', undisturbed'} \subseteq BOOLEAN
  <2>1. {listsOpen, entryHalt, drift} \subseteq BOOLEAN
    BY <1>1 DEF TruthTypeOK
  <2> QED
    BY <1>3, <2>1 DEF cycle
<1>6. TruthTypeOK'
  BY <1>1, <1>3, <1>4, <1>5 DEF TruthTypeOK, cycle
<1> QED
  BY <1>3, <1>4, <1>6, OthersKeepInv DEF cycle

(* A flatten order fills: no other order for the symbol waits, and the cycle *)
(* has not to flatten it, or the symbol is excused.                          *)
LEMMA FillFlatKeepsInv ==
    ASSUME TruthInv, NEW f \in flats, FillFlat(f)
    PROVE  /\ TruthInv'
           /\ f.symbol \notin excused =>
                \/ position'[f.symbol] = 0
                \/ position[f.symbol] = 0 /\ position'[f.symbol] = Carried[f.symbol]
<1>1. /\ TruthTypeOK /\ f.symbol \in Symbols /\ f.qty \in Int
      /\ flats' = flats \ {f} /\ strange' = strange + 1 /\ undisturbed' = FALSE
      /\ position' = [position EXCEPT ![f.symbol] = @ + f.qty]
      /\ UNCHANGED <<atBroker, logged, aged, sent, outages, cycle, excused>>
  BY TruthTypes DEF TruthInv, FillFlat
<1>2. /\ position' \in [Symbols -> Int] /\ position'[f.symbol] = position[f.symbol] + f.qty
      /\ \A s \in Symbols \ {f.symbol} : position'[s] = position[s]
  BY <1>1, TruthTypes
<1>3. {listsOpen', entryHalt', drift', undisturbed'} \subseteq BOOLEAN
  <2>1. {listsOpen, entryHalt, drift} \subseteq BOOLEAN
    BY <1>1 DEF TruthTypeOK
  <2> QED
    BY <1>1, <2>1 DEF cycle
<1>4. TruthTypeOK'
  BY <1>1, <1>2, <1>3 DEF TruthTypeOK, cycle
<1>5. InQuestion' = InQuestion /\ InQuestion \subseteq Symbols
  BY <1>1 DEF InQuestion, TruthTypeOK, cycle
<1>6. PositionRead'
  <2>1. \A s \in InQuestion \ excused : s # f.symbol
    BY DEF TruthInv, PositionRead
  <2> QED
    BY <1>1, <1>2, <1>5, <2>1 DEF TruthInv, PositionRead, cycle
<1>7. FlatsClose'
  <2> SUFFICES ASSUME NEW g \in flats', g.symbol \notin excused
               PROVE  /\ \/ position'[g.symbol] + g.qty = 0
                         \/ position'[g.symbol] = 0 /\ g.qty = Carried[g.symbol]
                      /\ \A h \in flats' : h.symbol = g.symbol => h = g
    BY <1>1 DEF FlatsClose
  <2>1. /\ g \in flats /\ g # f /\ g.symbol \in Symbols
        /\ \/ position[g.symbol] + g.qty = 0
           \/ position[g.symbol] = 0 /\ g.qty = Carried[g.symbol]
        /\ \A h \in flats : h.symbol = g.symbol => h = g
    BY <1>1, TruthTypes DEF TruthInv, FlatsClose
  <2>2. g.symbol # f.symbol
    BY <2>1
  <2> QED
    BY <1>1, <1>2, <2>1, <2>2
<1>8. f.symbol \notin excused =>
          \/ position'[f.symbol] = 0
          \/ position[f.symbol] = 0 /\ position'[f.symbol] = Carried[f.symbol]
  BY <1>1, <1>2, TruthTypes DEF TruthInv, FlatsClose
<1>9. ReadingsStand' /\ FetchedTypeOK'
  BY <1>1 DEF TruthInv, FetchedTypeOK, ReadingsStand, cycle
<1> QED
  BY <1>4, <1>6, <1>7, <1>8, <1>9 DEF TruthInv

-----------------------------------------------------------------------------
(* The reconciler: steps of the cycle *)

LEMMA CycleBooleans ==
    ASSUME TruthTypeOK
    PROVE  /\ listsOpen \in BOOLEAN /\ entryHalt \in BOOLEAN /\ drift \in BOOLEAN /\ undisturbed \in BOOLEAN
           /\ outages \in 0 .. MaxFailures /\ toFlatten \subseteq Symbols /\ excused \subseteq Symbols
<1>1. {listsOpen, entryHalt, drift, undisturbed} \subseteq BOOLEAN
  BY DEF TruthTypeOK
<1> QED
  BY <1>1 DEF TruthTypeOK

(* A step of the cycle that moves nothing at the broker keeps the types.     *)
LEMMA CycleTypes ==
    ASSUME TruthTypeOK, UNCHANGED trading, outages' \in 0 .. MaxFailures,
           truthStage' \in {"idle", "orders", "positions", "fills", "flatten"},
           toFlatten' \subseteq Symbols, excused' \subseteq Symbols,
           entryHalt' \in BOOLEAN, drift' \in BOOLEAN, undisturbed' \in BOOLEAN
    PROVE  TruthTypeOK'
<1>1. {listsOpen', entryHalt', drift', undisturbed'} \subseteq BOOLEAN
  BY CycleBooleans DEF trading
<1> QED
  BY <1>1 DEF TruthTypeOK, trading

(* The orders are the same while nothing moves at the broker. *)
LEMMA RowsStand ==
    ASSUME UNCHANGED trading
    PROVE  OrderRows' = OrderRows
BY DEF OrderRows, OpenOrders, trading

LEMMA FetchOrdersKeepsInv ==
    ASSUME TruthInv, FetchOrders
    PROVE  TruthInv'
<1>1. /\ TruthTypeOK /\ truthStage = "idle" /\ truthStage' = "orders"
      /\ fetched' = [Unseen EXCEPT !.open = OrderRows]
      /\ drift' = FALSE /\ undisturbed' = TRUE
      /\ UNCHANGED <<trading, outages, toFlatten, entryHalt, excused>>
  BY DEF TruthInv, FetchOrders
<1>2. TruthTypeOK'
  BY <1>1, CycleTypes, CycleBooleans
<1>3. fetched'.open = OrderRows /\ FetchedTypeOK'
  <2>1. OrderRows \subseteq Trades \cup {Other}
    BY DEF OrderRows, OpenOrders
  <2> QED
    BY <1>1, <2>1 DEF Unseen, FetchedTypeOK
<1>4. ReadingsStand' /\ PositionRead'
  BY <1>1, <1>3, RowsStand DEF ReadingsStand, PositionRead, InQuestion
<1>5. FlatsClose'
  BY <1>1 DEF TruthInv, FlatsClose, trading
<1> QED
  BY <1>2, <1>3, <1>4, <1>5 DEF TruthInv

LEMMA FetchPositionsKeepsInv ==
    ASSUME TruthInv, FetchPositions
    PROVE  TruthInv'
<1>1. /\ TruthTypeOK /\ truthStage = "orders" /\ truthStage' = "positions"
      /\ fetched' = [fetched EXCEPT !.position = position]
      /\ excused' = {f.symbol : f \in flats}
      /\ UNCHANGED <<trading, outages, toFlatten, entryHalt, drift, undisturbed>>
  BY DEF TruthInv, FetchPositions
<1>2. TruthTypeOK'
  BY <1>1, CycleTypes, CycleBooleans, TruthTypes
<1>4. ReadingsStand' /\ FetchedTypeOK' /\ PositionRead'
  <2>1. undisturbed => fetched.open = OrderRows
    BY <1>1 DEF TruthInv, ReadingsStand
  <2> QED
    BY <1>1, <2>1, RowsStand, TruthTypes DEF TruthInv, FetchedTypeOK, ReadingsStand, PositionRead, InQuestion, trading
<1>5. FlatsClose'
  BY <1>1 DEF FlatsClose, trading
<1> QED
  BY <1>2, <1>4, <1>5 DEF TruthInv

LEMMA FetchFillsKeepsInv ==
    ASSUME TruthInv, FetchFills
    PROVE  TruthInv'
<1>1. /\ TruthTypeOK /\ truthStage = "positions" /\ truthStage' = "fills"
      /\ fetched' = [fetched EXCEPT !.fills = aged]
      /\ UNCHANGED <<trading, outages, toFlatten, entryHalt, drift, undisturbed, excused>>
  BY DEF TruthInv, FetchFills
<1>2. TruthTypeOK'
  BY <1>1, CycleTypes, CycleBooleans
<1>3. ReadingsStand' /\ FetchedTypeOK'
  BY <1>1, RowsStand DEF TruthInv, TruthTypeOK, FetchedTypeOK, ReadingsStand, trading
<1>4. PositionRead' /\ FlatsClose'
  BY <1>1 DEF TruthInv, FetchedTypeOK, PositionRead, FlatsClose, InQuestion, trading
<1> QED
  BY <1>2, <1>3, <1>4 DEF TruthInv

LEMMA CompareKeepsInv ==
    ASSUME TruthInv, Compare
    PROVE  TruthInv'
<1>1. /\ TruthTypeOK /\ truthStage = "fills"
      /\ drift' = Mismatch /\ entryHalt' = (entryHalt \/ Mismatch)
      /\ UNCHANGED <<trading, outages, undisturbed, excused>>
  BY DEF TruthInv, Compare
<1>2. /\ truthStage' \in {"flatten", "idle"}
      /\ toFlatten' \subseteq Symbols
      /\ truthStage' = "flatten" => fetched' = [Unseen EXCEPT !.position = fetched.position]
      /\ truthStage' = "idle" => fetched' = Unseen
  BY <1>1, CycleBooleans DEF Compare
<1>3. Mismatch \in BOOLEAN
  BY DEF Mismatch, PositionsDiffer, OrdersDiffer
<1>4. TruthTypeOK'
  <2>1. entryHalt' \in BOOLEAN /\ drift' \in BOOLEAN
    BY <1>1, <1>3
  <2> QED
    BY <1>1, <1>2, <2>1, CycleTypes, CycleBooleans
<1>5. /\ truthStage' = "flatten" => fetched'.position = fetched.position
      /\ FetchedTypeOK'
  BY <1>2 DEF Unseen, TruthInv, FetchedTypeOK
<1>6. ReadingsStand'
  BY <1>2 DEF ReadingsStand
<1>7. PositionRead'
  BY <1>1, <1>2, <1>5 DEF TruthInv, PositionRead, InQuestion, trading
<1>8. FlatsClose'
  BY <1>1 DEF TruthInv, FlatsClose, trading
<1> QED
  BY <1>4, <1>5, <1>6, <1>7, <1>8 DEF TruthInv

(* The order is against the position that was read, which still stands and   *)
(* for which no other order waits, or the symbol is excused.                 *)
LEMMA FlattenKeepsInv ==
    ASSUME TruthInv, NEW s \in Symbols, Flatten(s)
    PROVE  TruthInv'
<1>1. /\ TruthTypeOK /\ truthStage = "flatten" /\ s \in toFlatten
      /\ toFlatten' = toFlatten \ {s}
      /\ UNCHANGED <<listsOpen, position, atBroker, logged, aged, strange, outages,
                     truthStage, fetched, entryHalt, drift, excused>>
  BY DEF TruthInv, Flatten
<1>2. ReadingsStand' /\ FetchedTypeOK'
  BY <1>1 DEF TruthInv, FetchedTypeOK, ReadingsStand
<1>3. InQuestion' = InQuestion \ {s} /\ s \in InQuestion
  BY <1>1 DEF InQuestion
<1>4. CASE UNCHANGED <<sent, flats, undisturbed>>
  <2>1. TruthTypeOK'
    <3>1. UNCHANGED trading
      BY <1>1, <1>4 DEF trading
    <3> QED
      BY <1>1, <1>4, <3>1, CycleTypes, CycleBooleans
  <2>2. PositionRead' /\ FlatsClose'
    BY <1>1, <1>3, <1>4 DEF TruthInv, PositionRead, FlatsClose
  <2> QED
    BY <1>2, <2>1, <2>2 DEF TruthInv
<1>5. ASSUME sent < MaxFlats, sent' = sent + 1,
             flats' = flats \cup {[symbol |-> s, qty |-> FlattenQty(s), id |-> sent + 1]},
             undisturbed' = FALSE
      PROVE  TruthInv'
  <2>1. PICK f : f = [symbol |-> s, qty |-> FlattenQty(s), id |-> sent + 1]
    OBVIOUS
  <2>2. /\ f.symbol = s /\ f.qty \in Int /\ f.qty = FlattenQty(s)
        /\ f \in Flat /\ flats' = flats \cup {f} /\ sent' \in 0 .. MaxFlats
    <3>1. FlattenQty(s) \in Int
      BY DEF TruthInv, FetchedTypeOK, FlattenQty, RowQty
    <3>2. sent + 1 \in 1 .. MaxFlats /\ sent' \in 0 .. MaxFlats
      BY <1>1, <1>5 DEF TruthTypeOK
    <3> QED
      BY <1>5, <2>1, <3>1, <3>2 DEF Flat
  <2>3. {listsOpen', entryHalt', drift', undisturbed'} \subseteq BOOLEAN
    BY <1>1, <1>5, CycleBooleans
  <2>4. TruthTypeOK'
    BY <1>1, <2>2, <2>3 DEF TruthTypeOK
  <2>5. PositionRead'
    BY <1>1, <1>3, <2>2 DEF TruthInv, PositionRead
  <2>6. s \notin excused =>
            /\ \/ position[s] + f.qty = 0
               \/ position[s] = 0 /\ f.qty = Carried[s]
            /\ \A g \in flats : g.symbol # s
    <3> SUFFICES ASSUME s \notin excused
                 PROVE  /\ \/ position[s] + f.qty = 0
                           \/ position[s] = 0 /\ f.qty = Carried[s]
                        /\ \A g \in flats : g.symbol # s
      OBVIOUS
    <3>1. fetched.position[s] = position[s] /\ \A g \in flats : g.symbol # s
      BY <1>3 DEF TruthInv, PositionRead
    <3>2. position[s] \in Int /\ Carried[s] \in Int
      BY <1>1, TruthTypes
    <3>3. f.qty = 0 - (IF position[s] # 0 THEN position[s] ELSE position[s] - Carried[s])
      BY <2>2, <3>1 DEF FlattenQty, RowQty
    <3> QED
      BY <3>1, <3>2, <3>3
  <2>7. FlatsClose'
    BY <1>1, <2>2, <2>6 DEF TruthInv, FlatsClose
  <2> QED
    BY <1>2, <2>4, <2>5, <2>7 DEF TruthInv
<1> QED
  BY <1>4, <1>5 DEF Flatten

(* Going back to idle, and the lifting of a halt. *)
LEMMA RestKeepsInv ==
    ASSUME TruthInv, CallRaises \/ EndFlatten \/ LiftHalt
    PROVE  TruthInv'
<1>1. /\ TruthTypeOK /\ UNCHANGED <<trading, toFlatten, drift, undisturbed, excused>>
      /\ \/ truthStage' = "idle" /\ fetched' = Unseen
         \/ UNCHANGED <<truthStage, fetched>>
  BY DEF TruthInv, CallRaises, EndFlatten, LiftHalt
<1>2. entryHalt' \in BOOLEAN /\ outages' \in 0 .. MaxFailures
  <2>1. entryHalt' \in {entryHalt, FALSE} /\ outages' \in {outages, outages + 1}
    BY DEF CallRaises, EndFlatten, LiftHalt
  <2>2. outages' = outages + 1 => outages < MaxFailures \/ outages' = outages
    BY CycleBooleans DEF CallRaises, EndFlatten, LiftHalt
  <2>3. entryHalt' \in BOOLEAN
    BY <1>1, <2>1, CycleBooleans
  <2>4. outages' \in 0 .. MaxFailures
    BY <1>1, <2>1, <2>2, CycleBooleans
  <2> QED
    BY <2>3, <2>4
<1>3. truthStage' \in {"idle", "orders", "positions", "fills", "flatten"}
  BY <1>1 DEF TruthTypeOK
<1>4. TruthTypeOK'
  BY <1>1, <1>2, <1>3, CycleTypes, CycleBooleans
<1>5. FetchedTypeOK' /\ ReadingsStand' /\ PositionRead' /\ FlatsClose'
  <2>1. FetchedTypeOK' /\ FlatsClose'
    BY <1>1 DEF TruthInv, FetchedTypeOK, Unseen, FlatsClose, trading
  <2>2. ReadingsStand' /\ PositionRead'
    BY <1>1, RowsStand DEF TruthInv, ReadingsStand, PositionRead, InQuestion, trading
  <2> QED
    BY <2>1, <2>2
<1> QED
  BY <1>4, <1>5 DEF TruthInv

-----------------------------------------------------------------------------
(* The reconciler: the invariant and what follows from it *)

LEMMA TruthInitInv == TruthInit => TruthInv
<1> SUFFICES ASSUME TruthInit PROVE TruthInv
  OBVIOUS
<1>1. {listsOpen, entryHalt, drift, undisturbed} \subseteq BOOLEAN
  BY DEF TruthInit
<1>2. TruthTypeOK
  BY <1>1 DEF TruthInit, TruthTypeOK
<1>3. FetchedTypeOK
  BY DEF TruthInit, FetchedTypeOK, Unseen
<1>4. ReadingsStand /\ PositionRead /\ FlatsClose
  BY DEF TruthInit, ReadingsStand, PositionRead, InQuestion, FlatsClose
<1> QED
  BY <1>2, <1>3, <1>4 DEF TruthInv

LEMMA TruthStepInv == TruthInv /\ [TruthNext]_truthVars => TruthInv'
<1> SUFFICES ASSUME TruthInv, [TruthNext]_truthVars PROVE TruthInv'
  OBVIOUS
<1>1. CASE UNCHANGED truthVars
  <2>1. OrderRows' = OrderRows
    BY <1>1, RowsStand DEF truthVars, trading
  <2> QED
    BY <1>1, <2>1 DEF truthVars, TruthInv, TruthTypeOK, FetchedTypeOK, ReadingsStand, PositionRead,
                      InQuestion, FlatsClose
<1>2. ASSUME NEW o \in Trades, Submit(o) \/ Fill(o) \/ Log(o) PROVE TruthInv'
  BY <1>2, SubmitKeepsInv, FillKeepsInv
<1>3. ASSUME NEW s \in Symbols, StrangeTrade(s) PROVE TruthInv'
  BY <1>3, StrangeKeepsInv
<1>4. ASSUME NEW f \in flats, FillFlat(f) PROVE TruthInv'
  BY <1>4, FillFlatKeepsInv
<1>5. CASE Age
  BY <1>5, SnapshotAgeKeepsInv
<1>6. CASE FetchOrders \/ FetchPositions \/ FetchFills
  BY <1>6, FetchOrdersKeepsInv, FetchPositionsKeepsInv, FetchFillsKeepsInv
<1>7. CASE Compare
  BY <1>7, CompareKeepsInv
<1>8. ASSUME NEW s \in Symbols, Flatten(s) PROVE TruthInv'
  BY <1>8, FlattenKeepsInv
<1>9. CASE CallRaises \/ EndFlatten \/ LiftHalt
  BY <1>9, RestKeepsInv
<1> QED
  BY <1>1, <1>2, <1>3, <1>4, <1>5, <1>6, <1>7, <1>8, <1>9 DEF TruthNext, TruthStep

(* What the cycle has read is still true as long as nothing was disturbed,   *)
(* and of a symbol's position as long as the symbol is not excused.          *)
THEOREM TruthInvariant == TruthSpec => []TruthInv
BY TruthInitInv, TruthStepInv, PTL DEF TruthSpec

(* The types; and the log never runs ahead of the broker. *)
THEOREM TruthKeepsTypes == TruthSpec => []TruthTypeOK
<1>1. TruthInv => TruthTypeOK
  BY DEF TruthInv
<1> QED
  BY <1>1, TruthInvariant, PTL

(* A comparison after which nothing had moved is one of the books as they    *)
(* are.                                                                      *)
LEMMA CompareIsTrue ==
    ASSUME TruthInv, Compare, undisturbed
    PROVE  drift' = BooksDisagree /\ (drift' => entryHalt')
<1>1. /\ truthStage = "fills" /\ drift' = Mismatch /\ entryHalt' = (entryHalt \/ Mismatch)
  BY DEF Compare
<1>2. fetched.open = OrderRows /\ fetched.position = position /\ fetched.fills = aged
  BY <1>1 DEF TruthInv, ReadingsStand
<1>3. Mismatch <=> BooksDisagree
  BY <1>2 DEF Mismatch, PositionsDiffer, OrdersDiffer, BooksDisagree, Disagree
<1>4. Mismatch \in BOOLEAN /\ BooksDisagree \in BOOLEAN
  BY DEF Mismatch, PositionsDiffer, OrdersDiffer, BooksDisagree, Disagree
<1> QED
  BY <1>1, <1>3, <1>4

(* A cycle in which nothing moved judges the books as the broker showed them *)
(* at one moment, whichever of the two calls answers for its orders, and     *)
(* halts entries when they disagree.                                         *)
THEOREM TruthJudgesOneMoment == TruthSpec => JudgesOneMoment
<1> DEFINE Reports ==
      truthStage = "fills" /\ truthStage' # "fills" /\ undisturbed =>
          drift' = BooksDisagree /\ (drift' => entryHalt')
<1>1. TruthInv /\ [TruthNext]_truthVars => [Reports]_truthVars
  <2> SUFFICES ASSUME TruthInv, TruthNext,
                      truthStage = "fills", truthStage' # "fills", undisturbed
               PROVE  drift' = BooksDisagree /\ (drift' => entryHalt')
    OBVIOUS
  <2>1. Compare
    BY DEF TruthNext, TruthStep, Submit, Fill, Log, StrangeTrade, FillFlat, Age, FetchOrders,
           FetchPositions, FetchFills, Flatten, EndFlatten, CallRaises, LiftHalt, cycle
  <2> QED
    BY <2>1, CompareIsTrue
<1> QED
  BY <1>1, TruthInvariant, PTL DEF TruthSpec, JudgesOneMoment

(* A flatten order closes its position, or gives back to a closed one what   *)
(* was carried into the day, unless the position moved after it was read or  *)
(* an earlier flatten order was pending then.                                *)
THEOREM TruthFlattens == TruthSpec => FlattenNeverReverses
<1> DEFINE Closes ==
      \A f \in flats \ flats' : LET s == f.symbol IN
          s \notin excused =>
              \/ position'[s] = 0
              \/ position[s] = 0 /\ position'[s] = Carried[s]
<1>1. TruthInv /\ [TruthNext]_truthVars => [Closes]_truthVars
  <2> SUFFICES ASSUME TruthInv, TruthNext, NEW f \in flats \ flats', f.symbol \notin excused
               PROVE  \/ position'[f.symbol] = 0
                      \/ position[f.symbol] = 0 /\ position'[f.symbol] = Carried[f.symbol]
    OBVIOUS
  <2>1. PICK g \in flats : FillFlat(g)
    BY DEF TruthNext, TruthStep, Submit, Fill, Log, StrangeTrade, Age, FetchOrders,
           FetchPositions, FetchFills, Compare, Flatten, EndFlatten, CallRaises, LiftHalt, trading
  <2>2. f = g
    BY <2>1 DEF FillFlat
  <2> QED
    BY <2>1, <2>2, FillFlatKeepsInv
<1> QED
  BY <1>1, TruthInvariant, PTL DEF TruthSpec, FlattenNeverReverses

-----------------------------------------------------------------------------
(* The monitor: lists, the scan and the units of an exit *)

(* A new entry at the end of a list. *)
LEMMA AppendFacts ==
    ASSUME NEW list \in Seq(Positions), NEW t \in Positions
    PROVE  /\ Append(list, t) \in Seq(Positions) /\ Len(Append(list, t)) = Len(list) + 1
           /\ \A i \in 1 .. Len(list) : Append(list, t)[i] = list[i]
           /\ Append(list, t)[Len(list) + 1] = t
           /\ InList(Append(list, t)) = InList(list) \cup {t}
           /\ (\A i, j \in 1 .. Len(list) : list[i] = list[j] => i = j) /\ t \notin InList(list)
                => \A i, j \in 1 .. Len(list) + 1 :
                      Append(list, t)[i] = Append(list, t)[j] => i = j
<1>1. /\ Append(list, t) \in Seq(Positions) /\ Len(Append(list, t)) = Len(list) + 1
      /\ \A i \in 1 .. Len(list) : Append(list, t)[i] = list[i]
      /\ Append(list, t)[Len(list) + 1] = t /\ Len(list) \in Nat
  OBVIOUS
<1>2. 1 .. Len(list) + 1 = (1 .. Len(list)) \cup {Len(list) + 1}
  BY <1>1
<1>3. PICK more : more = Append(list, t)
  OBVIOUS
<1>4. InList(more) = InList(list) \cup {t}
  BY <1>1, <1>2, <1>3 DEF InList
<1>5. ASSUME \A i, j \in 1 .. Len(list) : list[i] = list[j] => i = j, t \notin InList(list)
      PROVE  \A i, j \in 1 .. Len(list) + 1 : more[i] = more[j] => i = j
  BY <1>1, <1>2, <1>3, <1>5 DEF InList
<1> QED
  BY <1>1, <1>3, <1>4, <1>5

(* A trade is visited once and decided about once. *)
LEMMA NowFacts ==
    ASSUME MonitorInv, Scanning
    PROVE  /\ Now \in InList(tracked) /\ Now \in Positions /\ Now \in everFilled
           /\ Now \notin gone /\ Now \notin InList(kept) /\ Now \notin ClosedInScan
<1>1. /\ MonitorTypeOK /\ KeptInOrder /\ cursor \in 1 .. Len(tracked) /\ Len(tracked) \in Nat
  BY DEF MonitorInv, Scanning, KeptInOrder
<1>2. Now \in InList(tracked) /\ Now \in Positions /\ Now \in everFilled /\ Now \notin gone
  BY <1>1 DEF Now, InList, MonitorTypeOK, KeptInOrder
<1>3. Now \notin {tracked[i] : i \in 1 .. cursor - 1}
  <2>1. \A i \in 1 .. cursor - 1 : i \in 1 .. Len(tracked) /\ i # cursor
    BY <1>1
  <2> QED
    BY <1>1, <2>1 DEF MonitorTypeOK, Now
<1> QED
  BY <1>1, <1>2, <1>3 DEF KeptInOrder, ClosedInScan

(* Between scans nothing is closed. *)
LEMMA IdleFacts ==
    ASSUME cursor = 0
    PROVE  ClosedInScan = {}
BY DEF ClosedInScan

(* The visit of the next trade adds it to those that were visited. *)
LEMMA VisitedFacts ==
    ASSUME MonitorInv, Scanning
    PROVE  {tracked[i] : i \in 1 .. (cursor + 1) - 1}
              = {tracked[i] : i \in 1 .. cursor - 1} \cup {Now}
<1>1. cursor \in Nat \ {0}
  BY DEF MonitorInv, KeptInOrder, Scanning
<1>2. 1 .. (cursor + 1) - 1 = (1 .. cursor - 1) \cup {cursor}
  BY <1>1
<1> QED
  BY <1>2 DEF Now

(* Turning the units of an exit into a fraction of the whole position and    *)
(* rounding back loses nothing.                                              *)
LEMMA RoundsBack ==
    ASSUME NEW q \in Nat \ {0}, NEW e \in Nat
    PROVE  (2 * q * e + q) \div (2 * q) = e
<1> DEFINE d == 2 * q
           x == 2 * q * e + q
           r == x \div d
<1>1. d \in Nat \ {0} /\ x \in Nat /\ x = d * e + q /\ q < d
  <2>1. 2 * q * e \in Nat /\ 2 * q * e = (2 * q) * e
    OBVIOUS
  <2> QED
    BY <2>1
<1> HIDE DEF d, x
<1>2. r \in Int /\ d * r <= x /\ x < d * r + d
  BY <1>1
<1> HIDE DEF r
<1>3. d * e <= x /\ x < d * e + d /\ d * e \in Int /\ d * r \in Int
  BY <1>1, <1>2
<1>4. \A a, b \in Int : a + 1 <= b => d * a + d <= d * b
  <2> SUFFICES ASSUME NEW a \in Int, NEW b \in Int, a + 1 <= b PROVE d * a + d <= d * b
    OBVIOUS
  <2>1. PICK c \in Nat : b = a + 1 + c
    <3>1. b - a - 1 \in Nat /\ b = a + 1 + (b - a - 1)
      OBVIOUS
    <3> QED
      BY <3>1
  <2>2. d * b = d * a + d + d * c
    BY <1>1, <2>1
  <2>3. d * c \in Nat /\ d * a \in Int
    BY <1>1, <2>1
  <2> QED
    BY <1>1, <2>2, <2>3
<1>5. ~(r + 1 <= e)
  BY <1>1, <1>2, <1>3, <1>4
<1>6. ~(e + 1 <= r)
  BY <1>1, <1>2, <1>3, <1>4
<1>7. r = e
  BY <1>2, <1>5, <1>6
<1> QED
  BY <1>7 DEF r, x, d

(* So the engine takes off what the trade's record takes off, or all it has. *)
LEMMA EngineUnitsFacts ==
    ASSUME NEW t, NEW e \in Nat
    PROVE  EngineUnits(t, e) = IF e > engine[t].left THEN engine[t].left ELSE e
BY RoundsBack DEF EngineUnits, Denominator

-----------------------------------------------------------------------------
(* The monitor: one lemma for each kind of step *)

LEMMA MonitorTypes ==
    ASSUME MonitorInv
    PROVE  /\ InList(tracked) \subseteq everFilled \ gone /\ everFilled \subseteq Positions
           /\ \A i, j \in 1 .. Len(tracked) : tracked[i] = tracked[j] => i = j
           /\ InList(kept) \subseteq InList(tracked) /\ cursor \in 0 .. Len(tracked) + 1
           /\ metaLeft \in [Positions -> 0 .. Qty] /\ legUnits \in [Positions -> Nat]
           /\ booked \in [Positions -> Nat]
           /\ today \in 0 .. MaxPerDay /\ errors \in 0 .. MaxErrors
           /\ hardHalt \in BOOLEAN /\ quoted \in BOOLEAN
           /\ overdue \subseteq everFilled /\ gone \subseteq everFilled
           /\ cutShort \subseteq everFilled /\ unseen \subseteq everFilled
           /\ \A t \in InList(tracked) :
                 engine[t].left \in 0 .. Qty /\ engine[t].realized = Qty - engine[t].left
           /\ engine \in [Positions -> [left : Int, realized : Int]]
           /\ tracked \in Seq(Positions) /\ kept \in Seq(Positions) /\ Len(tracked) \in Nat
<1>1. {hardHalt, quoted} \subseteq BOOLEAN
  BY DEF MonitorInv, MonitorTypeOK
<1>2. /\ overdue \subseteq everFilled /\ gone \subseteq everFilled
      /\ cutShort \subseteq everFilled /\ unseen \subseteq everFilled
  BY DEF MonitorInv, MonitorTypeOK
<1>3. /\ tracked \in Seq(Positions) /\ kept \in Seq(Positions) /\ Len(tracked) \in Nat
      /\ engine \in [Positions -> [left : Int, realized : Int]]
  BY DEF MonitorInv, KeptInOrder, EngineTypeOK
<1>4. hardHalt \in BOOLEAN /\ quoted \in BOOLEAN
  BY <1>1
<1>5. /\ today \in 0 .. MaxPerDay /\ errors \in 0 .. MaxErrors
      /\ metaLeft \in [Positions -> 0 .. Qty] /\ legUnits \in [Positions -> Nat]
      /\ booked \in [Positions -> Nat]
  BY DEF MonitorInv, MonitorTypeOK
<1>6. /\ InList(tracked) \subseteq everFilled \ gone /\ everFilled \subseteq Positions
      /\ \A i, j \in 1 .. Len(tracked) : tracked[i] = tracked[j] => i = j
      /\ InList(kept) \subseteq InList(tracked) /\ cursor \in 0 .. Len(tracked) + 1
  BY DEF MonitorInv, MonitorTypeOK
<1>7. \A t \in InList(tracked) :
         engine[t].left \in 0 .. Qty /\ engine[t].realized = Qty - engine[t].left
  BY DEF MonitorInv, MonitorTypeOK
<1> QED
  BY <1>2, <1>3, <1>4, <1>5, <1>6, <1>7

(* What has to be shown of a step, one kind of state at a time. *)
LEMMA MonitorTypesAfter ==
    ASSUME InList(tracked') \subseteq everFilled' \ gone', everFilled' \subseteq Positions,
           \A i, j \in 1 .. Len(tracked') : tracked'[i] = tracked'[j] => i = j,
           InList(kept') \subseteq InList(tracked'), cursor' \in 0 .. Len(tracked') + 1,
           metaLeft' \in [Positions -> 0 .. Qty], legUnits' \in [Positions -> Nat],
           booked' \in [Positions -> Nat],
           today' \in 0 .. MaxPerDay, errors' \in 0 .. MaxErrors,
           hardHalt' \in BOOLEAN, quoted' \in BOOLEAN,
           overdue' \subseteq everFilled', gone' \subseteq everFilled',
           cutShort' \subseteq everFilled', unseen' \subseteq everFilled',
           \A t \in InList(tracked') :
               engine'[t].left \in 0 .. Qty /\ engine'[t].realized = Qty - engine'[t].left
    PROVE  MonitorTypeOK'
<1>1. {hardHalt', quoted'} \subseteq BOOLEAN
  OBVIOUS
<1>2. overdue' \cup gone' \cup cutShort' \cup unseen' \subseteq everFilled'
  OBVIOUS
<1> QED
  BY <1>1, <1>2 DEF MonitorTypeOK

(* ClosedInScan in the next state, spelt out. *)
LEMMA ClosedAfter ==
    ClosedInScan' = {tracked'[i] : i \in 1 .. cursor' - 1} \ InList(kept')
BY DEF ClosedInScan

(* Steps that leave the lists and the records alone. *)
LEMMA AsideKeepsMonitorInv ==
    ASSUME MonitorInv,
           UNCHANGED <<tracked, kept, cursor, records, gone, cutShort, everFilled>>,
           today' \in 0 .. MaxPerDay, errors' \in 0 .. MaxErrors,
           hardHalt' \in BOOLEAN, quoted' \in BOOLEAN,
           overdue' \subseteq everFilled, unseen' \subseteq everFilled
    PROVE  MonitorInv'
<1>1. /\ UNCHANGED <<tracked, kept, cursor, gone, cutShort, everFilled>>
      /\ UNCHANGED <<metaLeft, legUnits, engine, booked>>
  BY DEF records
<1>2. MonitorTypeOK'
  BY <1>1, MonitorTypes, MonitorTypesAfter
<1>3. ClosedInScan' = ClosedInScan /\ InList(tracked') = InList(tracked) /\ InList(kept') = InList(kept)
  BY <1>1, ClosedAfter DEF ClosedInScan
<1>4. KeptInOrder' /\ EngineTypeOK'
  BY <1>1, <1>3 DEF MonitorInv, KeptInOrder, EngineTypeOK
<1>5. UnfilledIsBlank'
  BY <1>1 DEF MonitorInv, UnfilledIsBlank
<1>6. OpenAccount'
  BY <1>1, <1>3 DEF MonitorInv, OpenAccount
<1>7. BookedOnce' /\ EngineFollowsTrade'
  BY <1>1, <1>3 DEF MonitorInv, BookedOnce, EngineFollowsTrade
<1> QED
  BY <1>2, <1>4, <1>5, <1>6, <1>7 DEF MonitorInv

LEMMA PassKeepsInv ==
    ASSUME MonitorInv, PassOver
    PROVE  MonitorInv'
<1>1. /\ unseen' = overdue \cap InList(tracked)
      /\ UNCHANGED <<tracked, kept, cursor, records, today, inputs, gone, cutShort,
                     everFilled, errors>>
  BY DEF PassOver
<1> QED
  BY <1>1, MonitorTypes, AsideKeepsMonitorInv DEF inputs

LEMMA DayKeepsInv ==
    ASSUME MonitorInv, NewDay
    PROVE  MonitorInv'
<1>1. /\ today' = 0 /\ hardHalt' = FALSE
      /\ UNCHANGED <<tracked, kept, cursor, records, quoted, overdue, gone, cutShort, unseen,
                     everFilled, errors>>
  BY DEF NewDay
<1>2. today' \in 0 .. MaxPerDay
  BY <1>1
<1>3. errors' \in 0 .. MaxErrors /\ quoted' \in BOOLEAN
  BY <1>1, MonitorTypes
<1>4. overdue' \subseteq everFilled /\ unseen' \subseteq everFilled /\ hardHalt' \in BOOLEAN
  BY <1>1, MonitorTypes
<1> QED
  BY <1>1, <1>2, <1>3, <1>4, AsideKeepsMonitorInv

LEMMA MarketKeepsInv ==
    ASSUME MonitorInv, Market
    PROVE  MonitorInv'
<1>1. UNCHANGED <<tracked, kept, cursor, records, today, gone, cutShort, unseen, everFilled, errors>>
  BY DEF Market
<1>2. overdue' \subseteq everFilled
  BY MonitorTypes DEF Market
<1>3. hardHalt' \in BOOLEAN
  BY MonitorTypes DEF Market
<1>4. quoted' \in BOOLEAN
  BY MonitorTypes DEF Market
<1> QED
  BY <1>1, <1>2, <1>3, <1>4, MonitorTypes, AsideKeepsMonitorInv

(* A fill is tracked, or lost sight of when the log raises. *)
LEMMA EnterKeepsInv ==
    ASSUME MonitorInv, NEW t \in Positions, EnterTrade(t)
    PROVE  MonitorInv'
<1>1. /\ cursor = 0 /\ today < MaxPerDay /\ t \notin everFilled
      /\ everFilled' = everFilled \cup {t} /\ today' = today + 1
      /\ UNCHANGED <<kept, cursor, legUnits, booked, inputs, cutShort, unseen>>
  BY DEF EnterTrade, GatesOpen
<1>2. today' \in 0 .. MaxPerDay
  BY <1>1, MonitorTypes
<1>3. UNCHANGED <<kept, cursor, legUnits, booked, hardHalt, quoted, overdue, cutShort, unseen>>
  BY <1>1 DEF inputs
<1>4. /\ kept = <<>> /\ kept' = <<>> /\ InList(kept') = {}
      /\ ClosedInScan = {} /\ ClosedInScan' = {} /\ t \notin InList(tracked)
      /\ {tracked[i] : i \in 1 .. cursor - 1} = {}
  <2>1. kept = <<>> /\ kept' = <<>>
    BY <1>1 DEF MonitorInv, KeptInOrder
  <2>2. InList(kept') = {}
    BY <2>1 DEF InList
  <2>3. ClosedInScan = {} /\ ClosedInScan' = {} /\ {tracked[i] : i \in 1 .. cursor - 1} = {}
    BY <1>1 DEF ClosedInScan
  <2>4. t \notin InList(tracked)
    BY <1>1, MonitorTypes
  <2> QED
    BY <2>1, <2>2, <2>3, <2>4
<1>5. booked[t] = 0 /\ legUnits[t] = 0 /\ UnfilledIsBlank'
  BY <1>1 DEF MonitorInv, UnfilledIsBlank
<1>6. CASE /\ tracked' = Append(tracked, t)
           /\ metaLeft' = [metaLeft EXCEPT ![t] = Qty]
           /\ engine' = [engine EXCEPT ![t] = [left |-> Qty, realized |-> 0]]
           /\ UNCHANGED <<gone, errors>>
  <2>1. /\ tracked' \in Seq(Positions) /\ Len(tracked') = Len(tracked) + 1
        /\ InList(tracked') = InList(tracked) \cup {t}
        /\ \A i, j \in 1 .. Len(tracked') : tracked'[i] = tracked'[j] => i = j
    <3>1. PICK list \in Seq(Positions) : list = tracked
      BY MonitorTypes
    <3>2. (\A i, j \in 1 .. Len(list) : list[i] = list[j] => i = j) /\ t \notin InList(list)
      BY <1>4, <3>1, MonitorTypes
    <3>3. /\ Append(list, t) \in Seq(Positions) /\ Len(Append(list, t)) = Len(list) + 1
          /\ InList(Append(list, t)) = InList(list) \cup {t}
          /\ \A i, j \in 1 .. Len(list) + 1 : Append(list, t)[i] = Append(list, t)[j] => i = j
      BY <3>2, AppendFacts
    <3> QED
      BY <1>6, <3>1, <3>3
  <2>2. /\ metaLeft' \in [Positions -> 0 .. Qty] /\ metaLeft'[t] = Qty
        /\ \A u \in Positions \ {t} : metaLeft'[u] = metaLeft[u]
    BY <1>6, MonitorTypes
  <2>3. /\ engine' \in [Positions -> [left : Int, realized : Int]]
        /\ engine'[t].left = Qty /\ engine'[t].realized = 0
        /\ \A u \in Positions \ {t} : engine'[u] = engine[u]
    BY <1>6, MonitorTypes
  <2>4. MonitorTypeOK'
    <3>1. /\ InList(tracked') \subseteq everFilled' \ gone' /\ everFilled' \subseteq Positions
          /\ InList(kept') \subseteq InList(tracked')
          /\ overdue' \subseteq everFilled' /\ gone' \subseteq everFilled'
          /\ cutShort' \subseteq everFilled' /\ unseen' \subseteq everFilled'
      BY <1>1, <1>3, <1>4, <1>6, <2>1, MonitorTypes
    <3>2. cursor' \in 0 .. Len(tracked') + 1
      BY <1>1, <2>1, MonitorTypes
    <3>3. \A u \in InList(tracked') :
             engine'[u].left \in 0 .. Qty /\ engine'[u].realized = Qty - engine'[u].left
      <4> SUFFICES ASSUME NEW u \in InList(tracked')
                   PROVE  engine'[u].left \in 0 .. Qty /\ engine'[u].realized = Qty - engine'[u].left
        OBVIOUS
      <4>1. \/ u = t
            \/ u \in InList(tracked) /\ u \in Positions \ {t} /\ engine'[u] = engine[u]
        BY <1>4, <2>1, <2>3, MonitorTypes
      <4>2. u \in InList(tracked) =>
               engine[u].left \in 0 .. Qty /\ engine[u].realized = Qty - engine[u].left
        BY MonitorTypes
      <4> QED
        BY <2>3, <4>1, <4>2
    <3>4. /\ legUnits' \in [Positions -> Nat] /\ booked' \in [Positions -> Nat]
          /\ errors' \in 0 .. MaxErrors /\ hardHalt' \in BOOLEAN /\ quoted' \in BOOLEAN
      BY <1>3, <1>6, MonitorTypes
    <3> QED
      BY <1>2, <2>1, <2>2, <3>1, <3>2, <3>3, <3>4, MonitorTypesAfter
  <2>5. KeptInOrder'
    BY <1>1, <1>4, <2>1 DEF KeptInOrder, MonitorInv
  <2>6. OpenAccount' /\ EngineFollowsTrade'
    <3> SUFFICES ASSUME NEW u \in InList(tracked') \ cutShort'
                 PROVE  /\ metaLeft'[u] > 0 /\ legUnits'[u] + metaLeft'[u] = Qty
                        /\ engine'[u].left = metaLeft'[u]
      BY DEF OpenAccount, EngineFollowsTrade
    <3>1. CASE u = t
      BY <1>3, <1>5, <2>2, <2>3, <3>1
    <3>2. CASE u # t
      <4>1. u \in InList(tracked) \ (ClosedInScan \cup cutShort) /\ u \in Positions
        BY <1>3, <1>4, <2>1, <3>2, MonitorTypes
      <4>2. /\ metaLeft[u] > 0 /\ legUnits[u] + metaLeft[u] = Qty
            /\ engine[u].left = metaLeft[u]
        BY <4>1 DEF MonitorInv, OpenAccount, EngineFollowsTrade
      <4> QED
        BY <1>3, <2>2, <2>3, <3>2, <4>1, <4>2
    <3> QED
      BY <3>1, <3>2
  <2>7. BookedOnce'
    BY <1>1, <1>4, <1>5, <1>6, <2>1 DEF MonitorInv, BookedOnce
  <2> QED
    BY <1>5, <2>3, <2>4, <2>5, <2>6, <2>7 DEF MonitorInv, EngineTypeOK
<1>7. CASE /\ errors < MaxErrors /\ errors' = errors + 1
           /\ gone' = gone \cup {t} /\ UNCHANGED <<tracked, metaLeft, engine>>
  <2>1. errors' \in 0 .. MaxErrors
    BY <1>7, MonitorTypes
  <2>2. InList(tracked') = InList(tracked)
    BY <1>7
  <2>3. MonitorTypeOK'
    <3>1. /\ InList(tracked') \subseteq everFilled' \ gone' /\ everFilled' \subseteq Positions
          /\ InList(kept') \subseteq InList(tracked')
          /\ overdue' \subseteq everFilled' /\ gone' \subseteq everFilled'
          /\ cutShort' \subseteq everFilled' /\ unseen' \subseteq everFilled'
      BY <1>1, <1>3, <1>4, <1>7, MonitorTypes
    <3> QED
      BY <1>2, <1>3, <1>7, <2>1, <3>1, MonitorTypes, MonitorTypesAfter
  <2>4. KeptInOrder' /\ EngineTypeOK'
    BY <1>1, <1>4, <1>7 DEF KeptInOrder, EngineTypeOK, MonitorInv
  <2>5. OpenAccount' /\ EngineFollowsTrade' /\ BookedOnce'
    BY <1>1, <1>4, <1>7, <2>2, MonitorTypes
    DEF MonitorInv, OpenAccount, EngineFollowsTrade, BookedOnce
  <2> QED
    BY <1>5, <2>3, <2>4, <2>5 DEF MonitorInv
<1> QED
  BY <1>6, <1>7 DEF EnterTrade

LEMMA BeginScanKeepsInv ==
    ASSUME MonitorInv, BeginScan
    PROVE  MonitorInv'
<1>1. /\ cursor = 0 /\ cursor' = 1 /\ kept' = <<>> /\ unseen' = {}
      /\ UNCHANGED <<tracked, metaLeft, legUnits, engine, booked, today, inputs, gone, cutShort,
                     everFilled, errors>>
  BY DEF BeginScan, records
<1>2. /\ kept' \in Seq(Positions) /\ InList(kept') = {} /\ Len(kept') = 0
      /\ ClosedInScan = {} /\ ClosedInScan' = {} /\ InList(tracked') = InList(tracked)
  BY <1>1 DEF ClosedInScan, InList
<1>3. hardHalt' \in BOOLEAN /\ quoted' \in BOOLEAN /\ overdue' \subseteq everFilled'
  BY <1>1, MonitorTypes DEF inputs
<1>4. MonitorTypeOK'
  <2>1. cursor' \in 0 .. Len(tracked') + 1
    BY <1>1, MonitorTypes
  <2> QED
    BY <1>1, <1>2, <1>3, <2>1, MonitorTypes, MonitorTypesAfter
<1>5. KeptInOrder'
  BY <1>1, <1>2 DEF KeptInOrder, MonitorInv
<1>6. EngineTypeOK' /\ UnfilledIsBlank' /\ OpenAccount' /\ EngineFollowsTrade' /\ BookedOnce'
  BY <1>1, <1>2
  DEF MonitorInv, EngineTypeOK, UnfilledIsBlank, OpenAccount, EngineFollowsTrade, BookedOnce
<1> QED
  BY <1>4, <1>5, <1>6 DEF MonitorInv

(* A visited trade that stays open is kept; the scan has closed no other.    *)
LEMMA VisitKeeps ==
    ASSUME MonitorInv, Scanning, UNCHANGED tracked,
           kept' = Append(kept, Now), cursor' = cursor + 1
    PROVE  /\ KeptInOrder' /\ InList(kept') \subseteq InList(tracked')
           /\ cursor' \in 0 .. Len(tracked') + 1 /\ ClosedInScan' = ClosedInScan
<1>1. /\ Now \in InList(tracked) /\ Now \in Positions /\ Now \notin InList(kept)
      /\ Now \notin ClosedInScan
  BY NowFacts
<1>2. PICK list \in Seq(Positions) : list = kept
  BY MonitorTypes
<1>3. PICK t \in Positions : t = Now
  BY <1>1
<1>4. /\ \A i, j \in 1 .. Len(list) : list[i] = list[j] => i = j
      /\ t \notin InList(list)
  BY <1>1, <1>2, <1>3 DEF MonitorInv, KeptInOrder
<1>5. /\ kept' \in Seq(Positions) /\ InList(kept') = InList(kept) \cup {Now}
      /\ \A i, j \in 1 .. Len(kept') : kept'[i] = kept'[j] => i = j
  <2>1. /\ Append(list, t) \in Seq(Positions) /\ Len(Append(list, t)) = Len(list) + 1
        /\ InList(Append(list, t)) = InList(list) \cup {t}
        /\ \A i, j \in 1 .. Len(list) + 1 : Append(list, t)[i] = Append(list, t)[j] => i = j
    BY <1>4, AppendFacts
  <2> QED
    BY <1>2, <1>3, <2>1
<1>6. cursor \in 1 .. Len(tracked) /\ Len(tracked) \in Nat
  BY MonitorTypes DEF Scanning
<1>7. cursor' \in 0 .. Len(tracked') + 1 /\ cursor' # 0
  BY <1>6
<1>8. {tracked'[i] : i \in 1 .. cursor' - 1} = {tracked[i] : i \in 1 .. cursor - 1} \cup {Now}
  BY VisitedFacts
<1>9. KeptInOrder'
  BY <1>5, <1>7, <1>8, MonitorTypes DEF MonitorInv, KeptInOrder
<1>10. ClosedInScan' = ClosedInScan
  BY <1>1, <1>5, <1>8 DEF ClosedInScan
<1>11. InList(kept') \subseteq InList(tracked')
  BY <1>1, <1>5, MonitorTypes
<1> QED
  BY <1>7, <1>9, <1>10, <1>11

LEMMA HoldKeepsInv ==
    ASSUME MonitorInv, Hold
    PROVE  MonitorInv'
<1>1. /\ Scanning /\ kept' = Append(kept, Now) /\ cursor' = cursor + 1
      /\ UNCHANGED <<tracked, metaLeft, legUnits, engine, booked, today, hardHalt, quoted,
                     overdue, gone, cutShort, unseen, everFilled, errors>>
  BY DEF Hold, records, inputs
<1>2. /\ KeptInOrder' /\ InList(kept') \subseteq InList(tracked')
      /\ cursor' \in 0 .. Len(tracked') + 1 /\ ClosedInScan' = ClosedInScan
  BY <1>1, VisitKeeps
<1>3. MonitorTypeOK'
  BY <1>1, <1>2, MonitorTypes, MonitorTypesAfter
<1>4. EngineTypeOK' /\ UnfilledIsBlank'
  BY <1>1 DEF MonitorInv, EngineTypeOK, UnfilledIsBlank
<1>5. OpenAccount' /\ BookedOnce' /\ EngineFollowsTrade'
  BY <1>1, <1>2 DEF MonitorInv, OpenAccount, BookedOnce, EngineFollowsTrade
<1> QED
  BY <1>2, <1>3, <1>4, <1>5 DEF MonitorInv

(* An update of one entry. *)
LEMMA EntryUpdated ==
    ASSUME NEW S, NEW T, NEW f \in [S -> T], NEW i \in S, NEW v \in T
    PROVE  /\ [f EXCEPT ![i] = v] \in [S -> T] /\ [f EXCEPT ![i] = v][i] = v
           /\ \A s \in S \ {i} : [f EXCEPT ![i] = v][s] = f[s]
OBVIOUS

(* Both records take the exit off, and what it takes off becomes a leg. *)
LEMMA PartialKeepsInv ==
    ASSUME MonitorInv, NEW e \in 1 .. Qty - 1, PartialExit(e)
    PROVE  MonitorInv'
<1>1. /\ Scanning /\ kept' = Append(kept, Now) /\ cursor' = cursor + 1
      /\ e \in 1 .. UnitsOf(Now) - 1
      /\ metaLeft' = [metaLeft EXCEPT ![Now] = UnitsOf(Now) - e]
      /\ legUnits' = [legUnits EXCEPT ![Now] = @ + e]
      /\ engine' = [engine EXCEPT ![Now] = [left |-> @.left - EngineUnits(Now, e),
                                            realized |-> @.realized + EngineUnits(Now, e)]]
      /\ UNCHANGED <<tracked, booked, today, hardHalt, quoted, overdue, gone, cutShort, unseen,
                     everFilled, errors>>
  BY DEF PartialExit, inputs
<1>2. /\ KeptInOrder' /\ InList(kept') \subseteq InList(tracked')
      /\ cursor' \in 0 .. Len(tracked') + 1 /\ ClosedInScan' = ClosedInScan
  BY <1>1, VisitKeeps
<1>3. PICK t \in Positions : t = Now
  BY <1>1, NowFacts
<1>4. t \in InList(tracked) /\ t \in everFilled /\ t \notin ClosedInScan /\ e \in Nat /\ e > 0
  BY <1>1, <1>3, NowFacts
<1>5. /\ metaLeft[t] \in 0 .. Qty /\ UnitsOf(t) \in 1 .. Qty /\ e < UnitsOf(t)
      /\ metaLeft[t] > 0 => UnitsOf(t) = metaLeft[t]
  <2>1. metaLeft[t] \in 0 .. Qty
    BY MonitorTypes
  <2> QED
    BY <1>1, <1>3, <2>1 DEF UnitsOf
<1>6. PICK u : u = EngineUnits(t, e)
  OBVIOUS
<1>7. /\ engine[t].left \in 0 .. Qty /\ engine[t].realized = Qty - engine[t].left
      /\ u = (IF e > engine[t].left THEN engine[t].left ELSE e)
  BY <1>4, <1>6, MonitorTypes, EngineUnitsFacts
<1>8. /\ engine' \in [Positions -> [left : Int, realized : Int]]
      /\ engine'[t].left = engine[t].left - u /\ engine'[t].realized = engine[t].realized + u
      /\ \A s \in Positions \ {t} : engine'[s] = engine[s]
  <2>1. engine' = [engine EXCEPT ![t] = [left |-> engine[t].left - u,
                                         realized |-> engine[t].realized + u]]
    BY <1>1, <1>3, <1>6
  <2>2. u \in Int
    BY <1>4, <1>7
  <2>3. [left |-> engine[t].left - u, realized |-> engine[t].realized + u]
           \in [left : Int, realized : Int]
    BY <1>7, <2>2
  <2> QED
    BY <2>1, <2>3, MonitorTypes
<1>9. /\ metaLeft' \in [Positions -> 0 .. Qty] /\ metaLeft'[t] = UnitsOf(t) - e
      /\ \A s \in Positions \ {t} : metaLeft'[s] = metaLeft[s]
  <2>1. UnitsOf(t) - e \in 0 .. Qty
    BY <1>4, <1>5
  <2> QED
    BY <1>1, <1>3, <2>1, MonitorTypes
<1>10. /\ legUnits' \in [Positions -> Nat] /\ legUnits'[t] = legUnits[t] + e
       /\ \A s \in Positions \ {t} : legUnits'[s] = legUnits[s]
  <2>1. legUnits \in [Positions -> Nat] /\ legUnits[t] \in Nat
    BY MonitorTypes
  <2>2. legUnits' = [legUnits EXCEPT ![t] = legUnits[t] + e]
    BY <1>1, <1>3
  <2>3. legUnits[t] + e \in Nat
    BY <1>4, <2>1
  <2> QED
    BY <2>1, <2>2, <2>3, EntryUpdated
<1>11. engine'[t].left \in 0 .. Qty /\ engine'[t].realized = Qty - engine'[t].left
  BY <1>4, <1>7, <1>8
<1>12. MonitorTypeOK'
  <2>1. \A s \in InList(tracked') :
           engine'[s].left \in 0 .. Qty /\ engine'[s].realized = Qty - engine'[s].left
    <3> SUFFICES ASSUME NEW s \in InList(tracked), s # t
                 PROVE  engine'[s].left \in 0 .. Qty /\ engine'[s].realized = Qty - engine'[s].left
      BY <1>1, <1>11
    <3>1. engine'[s] = engine[s]
      BY <1>8, MonitorTypes
    <3> QED
      BY <3>1, MonitorTypes
  <2> QED
    BY <1>1, <1>2, <1>9, <1>10, <2>1, MonitorTypes, MonitorTypesAfter
<1>13. EngineTypeOK' /\ UnfilledIsBlank'
  BY <1>1, <1>4, <1>8, <1>10 DEF MonitorInv, EngineTypeOK, UnfilledIsBlank
<1>14. OpenAccount'
  <2> SUFFICES ASSUME NEW s \in InList(tracked) \ (ClosedInScan \cup cutShort)
               PROVE  metaLeft'[s] > 0 /\ legUnits'[s] + metaLeft'[s] = Qty
    BY <1>1, <1>2 DEF OpenAccount
  <2>1. metaLeft[s] > 0 /\ legUnits[s] + metaLeft[s] = Qty /\ s \in Positions
    BY MonitorTypes DEF MonitorInv, OpenAccount
  <2>2. CASE s = t
    <3>1. legUnits[t] \in Nat
      BY MonitorTypes
    <3> QED
      BY <1>4, <1>5, <1>9, <1>10, <2>1, <2>2, <3>1
  <2>3. CASE s # t
    BY <1>9, <1>10, <2>1, <2>3
  <2> QED
    BY <2>2, <2>3
<1>15. EngineFollowsTrade'
  <2> SUFFICES ASSUME NEW s \in InList(tracked) \ cutShort PROVE engine'[s].left = metaLeft'[s]
    BY <1>1 DEF EngineFollowsTrade
  <2>1. engine[s].left = metaLeft[s] /\ s \in Positions
    BY MonitorTypes DEF MonitorInv, EngineFollowsTrade
  <2>2. CASE s = t
    <3>1. metaLeft[t] > 0
      BY <1>4, <2>2 DEF MonitorInv, OpenAccount
    <3> QED
      BY <1>5, <1>7, <1>8, <1>9, <2>1, <2>2, <3>1
  <2>3. CASE s # t
    BY <1>8, <1>9, <2>1, <2>3
  <2> QED
    BY <2>2, <2>3
<1>16. BookedOnce'
  BY <1>1, <1>2 DEF MonitorInv, BookedOnce
<1> QED
  BY <1>2, <1>12, <1>13, <1>14, <1>15, <1>16 DEF MonitorInv

(* The result that is booked is that of the legs and of what is left: every  *)
(* unit once, if the trade was not booked by a scan that was cut short.      *)
LEMMA BookFacts ==
    ASSUME MonitorInv, Scanning, Book
    PROVE  /\ booked' \in [Positions -> Nat]
           /\ \A s \in Positions \ {Now} : booked'[s] = booked[s]
           /\ Now \notin cutShort => booked'[Now] = Qty
<1>1. PICK t \in Positions : t = Now
  BY NowFacts
<1>2. booked' = [booked EXCEPT ![t] = booked[t] + legUnits[t] + UnitsOf(t)]
  BY <1>1 DEF Book
<1>3. /\ booked[t] \in Nat /\ legUnits[t] \in Nat /\ metaLeft[t] \in 0 .. Qty
      /\ UnitsOf(t) \in Nat /\ (metaLeft[t] > 0 => UnitsOf(t) = metaLeft[t])
  <2>1. booked[t] \in Nat /\ legUnits[t] \in Nat /\ metaLeft[t] \in 0 .. Qty
    BY MonitorTypes
  <2> QED
    BY <2>1 DEF UnitsOf
<1>4. t \notin cutShort => booked[t] = 0 /\ metaLeft[t] > 0 /\ legUnits[t] + metaLeft[t] = Qty
  BY <1>1, NowFacts DEF MonitorInv, OpenAccount, BookedOnce
<1>5. booked' \in [Positions -> Nat] /\ booked'[t] = booked[t] + legUnits[t] + UnitsOf(t)
  <2>1. booked[t] + legUnits[t] + UnitsOf(t) \in Nat
    BY <1>3
  <2>2. booked \in [Positions -> Nat]
    BY MonitorTypes
  <2> QED
    BY <1>2, <2>1, <2>2, EntryUpdated
<1>6. \A s \in Positions \ {t} : booked'[s] = booked[s]
  <2>1. booked \in [Positions -> Nat]
    BY MonitorTypes
  <2> QED
    BY <1>2, <2>1
<1>7. t \notin cutShort => booked'[t] = Qty
  BY <1>3, <1>4, <1>5
<1> QED
  BY <1>1, <1>5, <1>6, <1>7

LEMMA FullKeepsInv ==
    ASSUME MonitorInv, FullExit
    PROVE  MonitorInv'
<1>1. /\ Scanning /\ Book /\ cursor' = cursor + 1
      /\ metaLeft' = [metaLeft EXCEPT ![Now] = 0]
      /\ engine' = [engine EXCEPT ![Now] = [left |-> 0, realized |-> Qty]]
      /\ UNCHANGED <<tracked, kept, legUnits, today, hardHalt, quoted, overdue, gone, cutShort,
                     unseen, everFilled, errors>>
  BY DEF FullExit, inputs
<1>2. PICK t \in Positions : t = Now
  BY <1>1, NowFacts
<1>3. /\ t \in InList(tracked) /\ t \in everFilled /\ t \notin ClosedInScan /\ t \notin InList(kept)
      /\ t \notin gone
  BY <1>1, <1>2, NowFacts
<1>4. /\ cursor \in 1 .. Len(tracked) /\ Len(tracked) \in Nat
      /\ cursor' \in 0 .. Len(tracked') + 1 /\ cursor' # 0
  BY <1>1, MonitorTypes DEF Scanning
<1>5. {tracked'[i] : i \in 1 .. cursor' - 1} = {tracked[i] : i \in 1 .. cursor - 1} \cup {t}
  BY <1>1, <1>2, VisitedFacts
<1>6. ClosedInScan' = ClosedInScan \cup {t}
  BY <1>1, <1>3, <1>5 DEF ClosedInScan
<1>7. KeptInOrder'
  BY <1>1, <1>4, <1>5 DEF MonitorInv, KeptInOrder
<1>8. /\ metaLeft' \in [Positions -> 0 .. Qty] /\ metaLeft'[t] = 0
      /\ \A s \in Positions \ {t} : metaLeft'[s] = metaLeft[s]
  BY <1>1, <1>2, MonitorTypes
<1>9. /\ engine' \in [Positions -> [left : Int, realized : Int]]
      /\ engine'[t].left = 0 /\ engine'[t].realized = Qty
      /\ \A s \in Positions \ {t} : engine'[s] = engine[s]
  BY <1>1, <1>2, MonitorTypes
<1>10. /\ booked' \in [Positions -> Nat]
       /\ \A s \in Positions \ {t} : booked'[s] = booked[s]
       /\ t \notin cutShort => booked'[t] = Qty
  BY <1>1, <1>2, BookFacts
<1>11. MonitorTypeOK'
  <2>1. \A s \in InList(tracked') :
           engine'[s].left \in 0 .. Qty /\ engine'[s].realized = Qty - engine'[s].left
    <3> SUFFICES ASSUME NEW s \in InList(tracked)
                 PROVE  engine'[s].left \in 0 .. Qty /\ engine'[s].realized = Qty - engine'[s].left
      BY <1>1
    <3>1. CASE s = t
      BY <1>9, <3>1
    <3>2. CASE s # t
      <4>1. engine'[s] = engine[s]
        BY <1>9, <3>2, MonitorTypes
      <4> QED
        BY <4>1, MonitorTypes
    <3> QED
      BY <3>1, <3>2
  <2> QED
    BY <1>1, <1>4, <1>8, <1>10, <2>1, MonitorTypes, MonitorTypesAfter
<1>12. EngineTypeOK' /\ UnfilledIsBlank'
  BY <1>1, <1>3, <1>9, <1>10 DEF MonitorInv, EngineTypeOK, UnfilledIsBlank
<1>13. OpenAccount'
  BY <1>1, <1>6, <1>8, MonitorTypes DEF MonitorInv, OpenAccount
<1>14. EngineFollowsTrade'
  BY <1>1, <1>8, <1>9, MonitorTypes DEF MonitorInv, EngineFollowsTrade
<1>15. BookedOnce'
  <2> SUFFICES ASSUME NEW s \in everFilled \ (gone \cup cutShort)
               PROVE  booked'[s] = IF s \in InList(tracked) \ (ClosedInScan \cup {t}) THEN 0 ELSE Qty
    BY <1>1, <1>6 DEF BookedOnce
  <2>1. CASE s = t
    BY <1>10, <2>1
  <2>2. CASE s # t
    BY <1>10, <2>2, MonitorTypes DEF MonitorInv, BookedOnce
  <2> QED
    BY <2>1, <2>2
<1> QED
  BY <1>7, <1>11, <1>12, <1>13, <1>14, <1>15 DEF MonitorInv

(* The list stays as it was: whoever was closed in this scan, or booked at   *)
(* its end, will be visited again.                                           *)
LEMMA RaiseKeepsInv ==
    ASSUME MonitorInv, ExitRaises
    PROVE  MonitorInv'
<1>1. /\ Scanning /\ errors < MaxErrors /\ errors' = errors + 1
      /\ cursor' = 0 /\ kept' = <<>>
      /\ UNCHANGED <<tracked, metaLeft, legUnits, engine, today, hardHalt, quoted, overdue, gone,
                     unseen, everFilled>>
  BY DEF ExitRaises, inputs
<1>2. PICK t \in Positions : t = Now
  BY <1>1, NowFacts
<1>3. t \in InList(tracked) /\ t \in everFilled
  BY <1>1, <1>2, NowFacts
<1>4. /\ ClosedInScan' = {} /\ InList(kept') = {} /\ Len(kept') = 0
      /\ kept' \in Seq(Positions) /\ cursor' \in 0 .. Len(tracked') + 1
  <2>1. cursor' \in 0 .. Len(tracked') + 1
    BY <1>1, MonitorTypes
  <2> QED
    BY <1>1, <2>1 DEF ClosedInScan, InList
<1>5. KeptInOrder'
  BY <1>1, <1>4 DEF MonitorInv, KeptInOrder
<1>6. /\ cutShort \cup ClosedInScan \subseteq cutShort'
      /\ cutShort' \subseteq cutShort \cup ClosedInScan \cup {t}
      /\ booked' \in [Positions -> Nat]
      /\ \A s \in Positions \ cutShort' : booked'[s] = booked[s]
  <2>1. CASE Book /\ cutShort' = cutShort \cup ClosedInScan \cup {Now}
    BY <1>1, <1>2, <2>1, BookFacts
  <2>2. CASE UNCHANGED booked /\ cutShort' = cutShort \cup ClosedInScan
    BY <2>2, MonitorTypes
  <2> QED
    BY <2>1, <2>2 DEF ExitRaises
<1>7. ClosedInScan \subseteq InList(tracked)
  <2>1. cursor - 1 \in 0 .. Len(tracked) /\ Len(tracked) \in Nat
    BY <1>1, MonitorTypes DEF Scanning
  <2> QED
    BY <2>1 DEF ClosedInScan, InList
<1>8. MonitorTypeOK'
  <2>1. cutShort' \subseteq everFilled'
    BY <1>1, <1>3, <1>6, <1>7, MonitorTypes
  <2>2. errors' \in 0 .. MaxErrors
    BY <1>1, MonitorTypes
  <2> QED
    BY <1>1, <1>4, <1>6, <2>1, <2>2, MonitorTypes, MonitorTypesAfter
<1>9. EngineTypeOK'
  BY <1>1 DEF MonitorInv, EngineTypeOK
<1>10. UnfilledIsBlank'
  <2> SUFFICES ASSUME NEW s \in Positions \ everFilled PROVE booked'[s] = 0 /\ legUnits'[s] = 0
    BY <1>1 DEF UnfilledIsBlank
  <2>1. s \notin cutShort'
    BY <1>3, <1>6, <1>7, MonitorTypes
  <2> QED
    BY <1>1, <1>6, <2>1 DEF MonitorInv, UnfilledIsBlank
<1>11. OpenAccount' /\ EngineFollowsTrade'
  BY <1>1, <1>4, <1>6 DEF MonitorInv, OpenAccount, EngineFollowsTrade
<1>12. BookedOnce'
  <2> SUFFICES ASSUME NEW s \in everFilled \ (gone \cup cutShort')
               PROVE  booked'[s] = IF s \in InList(tracked) THEN 0 ELSE Qty
    BY <1>1, <1>4 DEF BookedOnce
  <2>1. s \notin cutShort /\ s \notin ClosedInScan /\ s \in Positions
    BY <1>6, MonitorTypes
  <2> QED
    BY <1>6, <2>1 DEF MonitorInv, BookedOnce
<1> QED
  BY <1>5, <1>8, <1>9, <1>10, <1>11, <1>12 DEF MonitorInv

(* The kept trades become the list; what left it is what the scan closed.    *)
LEMMA EndScanKeepsInv ==
    ASSUME MonitorInv, EndScan
    PROVE  MonitorInv'
<1>1. /\ cursor = Len(tracked) + 1 /\ cursor' = 0
      /\ tracked' = kept /\ kept' = <<>>
      /\ UNCHANGED <<metaLeft, legUnits, engine, booked, today, hardHalt, quoted, overdue, gone,
                     cutShort, unseen, everFilled, errors>>
  BY DEF EndScan, records, inputs
<1>2. InList(tracked) = {tracked[i] : i \in 1 .. cursor - 1}
  <2>1. cursor - 1 = Len(tracked)
    BY <1>1, MonitorTypes
  <2> QED
    BY <2>1 DEF InList
<1>3. /\ ClosedInScan = InList(tracked) \ InList(kept) /\ ClosedInScan' = {}
      /\ InList(kept) \subseteq InList(tracked) /\ InList(tracked') = InList(kept)
      /\ kept' \in Seq(Positions) /\ InList(kept') = {} /\ Len(kept') = 0
  <2>1. ClosedInScan = InList(tracked) \ InList(kept)
    BY <1>2 DEF ClosedInScan
  <2>2. ClosedInScan' = {}
    BY <1>1, ClosedAfter
  <2>3. kept' \in Seq(Positions) /\ InList(kept') = {} /\ Len(kept') = 0
    BY <1>1 DEF InList
  <2>4. InList(kept) \subseteq InList(tracked) /\ InList(tracked') = InList(kept)
    BY <1>1, MonitorTypes
  <2> QED
    BY <2>1, <2>2, <2>3, <2>4
<1>4. /\ tracked' \in Seq(Positions)
      /\ \A i, j \in 1 .. Len(tracked') : tracked'[i] = tracked'[j] => i = j
  BY <1>1 DEF MonitorInv, KeptInOrder
<1>5. KeptInOrder'
  BY <1>1, <1>3, <1>4 DEF KeptInOrder
<1>6. MonitorTypeOK'
  <2>1. cursor' \in 0 .. Len(tracked') + 1
    BY <1>1, MonitorTypes
  <2>2. \A s \in InList(tracked') :
           engine'[s].left \in 0 .. Qty /\ engine'[s].realized = Qty - engine'[s].left
    BY <1>1, <1>3, MonitorTypes
  <2>3. InList(tracked') \subseteq everFilled' \ gone' /\ InList(kept') \subseteq InList(tracked')
    BY <1>1, <1>3, MonitorTypes
  <2> QED
    BY <1>1, <1>4, <2>1, <2>2, <2>3, MonitorTypes, MonitorTypesAfter
<1>7. EngineTypeOK' /\ UnfilledIsBlank'
  BY <1>1 DEF MonitorInv, EngineTypeOK, UnfilledIsBlank
<1>8. OpenAccount' /\ EngineFollowsTrade' /\ BookedOnce'
  BY <1>1, <1>3 DEF MonitorInv, OpenAccount, EngineFollowsTrade, BookedOnce
<1> QED
  BY <1>5, <1>6, <1>7, <1>8 DEF MonitorInv

LEMMA RestartKeepsInv ==
    ASSUME MonitorInv, Restart
    PROVE  MonitorInv'
<1>1. /\ tracked' = <<>> /\ cursor' = 0 /\ kept' = <<>> /\ today' = 0 /\ hardHalt' = FALSE
      /\ metaLeft' = [t \in Positions |-> 0] /\ legUnits' = [t \in Positions |-> 0]
      /\ gone' = gone \cup InList(tracked)
      /\ UNCHANGED <<engine, booked, quoted, overdue, cutShort, unseen, everFilled, errors>>
  BY DEF Restart
<1>2. /\ InList(tracked') = {} /\ InList(kept') = {} /\ Len(tracked') = 0 /\ Len(kept') = 0
      /\ tracked' \in Seq(Positions) /\ kept' \in Seq(Positions) /\ ClosedInScan' = {}
  BY <1>1 DEF InList, ClosedInScan
<1>3. /\ metaLeft' \in [Positions -> 0 .. Qty] /\ legUnits' \in [Positions -> Nat]
      /\ \A t \in Positions : legUnits'[t] = 0
  BY <1>1
<1>4. MonitorTypeOK'
  <2>1. cursor' \in 0 .. Len(tracked') + 1 /\ today' \in 0 .. MaxPerDay
    BY <1>1, <1>2
  <2>2. gone' \subseteq everFilled' /\ hardHalt' \in BOOLEAN
    BY <1>1, MonitorTypes
  <2> QED
    BY <1>1, <1>2, <1>3, <2>1, <2>2, MonitorTypes, MonitorTypesAfter
<1>5. KeptInOrder' /\ EngineTypeOK'
  BY <1>1, <1>2 DEF MonitorInv, KeptInOrder, EngineTypeOK
<1>6. UnfilledIsBlank'
  BY <1>1, <1>3 DEF MonitorInv, UnfilledIsBlank
<1>7. OpenAccount' /\ EngineFollowsTrade'
  BY <1>2 DEF OpenAccount, EngineFollowsTrade
<1>8. BookedOnce'
  BY <1>1, <1>2 DEF MonitorInv, BookedOnce
<1> QED
  BY <1>4, <1>5, <1>6, <1>7, <1>8 DEF MonitorInv

-----------------------------------------------------------------------------
(* The monitor: the invariant and what follows from it *)

LEMMA MonitorInitInv == MonitorInit => MonitorInv
<1> SUFFICES ASSUME MonitorInit PROVE MonitorInv
  OBVIOUS
<1>1. /\ InList(tracked) = {} /\ InList(kept) = {} /\ ClosedInScan = {}
      /\ Len(tracked) = 0 /\ Len(kept) = 0
      /\ tracked \in Seq(Positions) /\ kept \in Seq(Positions)
  BY DEF MonitorInit, InList, ClosedInScan
<1>2. {hardHalt, quoted} \subseteq BOOLEAN
  BY DEF MonitorInit
<1>3. MonitorTypeOK
  BY <1>1, <1>2 DEF MonitorInit, MonitorTypeOK
<1>4. KeptInOrder /\ EngineTypeOK /\ UnfilledIsBlank
  BY <1>1 DEF MonitorInit, KeptInOrder, EngineTypeOK, UnfilledIsBlank
<1>5. OpenAccount /\ EngineFollowsTrade /\ BookedOnce
  BY <1>1 DEF MonitorInit, OpenAccount, EngineFollowsTrade, BookedOnce
<1> QED
  BY <1>3, <1>4, <1>5 DEF MonitorInv

LEMMA MonitorStepInv == MonitorInv /\ [MonitorNext]_monitorVars => MonitorInv'
<1> SUFFICES ASSUME MonitorInv, [MonitorNext]_monitorVars PROVE MonitorInv'
  OBVIOUS
<1>1. CASE UNCHANGED monitorVars
  <2>1. UNCHANGED <<tracked, kept, cursor, records, gone, cutShort, everFilled, today, errors,
                    hardHalt, quoted, overdue, unseen>>
    BY <1>1 DEF monitorVars, records
  <2> QED
    BY <2>1, MonitorTypes, AsideKeepsMonitorInv
<1>2. ASSUME NEW t \in Positions, EnterTrade(t) PROVE MonitorInv'
  BY <1>2, EnterKeepsInv
<1>3. CASE BeginScan \/ PassOver
  BY <1>3, BeginScanKeepsInv, PassKeepsInv
<1>4. CASE Hold
  BY <1>4, HoldKeepsInv
<1>5. ASSUME NEW e \in 1 .. Qty - 1, PartialExit(e) PROVE MonitorInv'
  BY <1>5, PartialKeepsInv
<1>6. CASE FullExit \/ EndScan \/ ExitRaises
  BY <1>6, FullKeepsInv, EndScanKeepsInv, RaiseKeepsInv
<1>7. CASE NewDay \/ Restart \/ Market
  BY <1>7, DayKeepsInv, RestartKeepsInv, MarketKeepsInv
<1> QED
  BY <1>1, <1>2, <1>3, <1>4, <1>5, <1>6, <1>7 DEF MonitorNext, ScanStep

(* An open trade's legs and remainder are its size, and nothing of it is     *)
(* booked, through every scan, exception and restart.                        *)
THEOREM MonitorInvariant == MonitorSpec => []MonitorInv
BY MonitorInitInv, MonitorStepInv, PTL DEF MonitorSpec

(* The types; a trade is tracked once, and the position engine accounts for  *)
(* every unit of it.                                                         *)
THEOREM MonitorKeepsTypes == MonitorSpec => []MonitorTypeOK
<1>1. MonitorInv => MonitorTypeOK
  BY DEF MonitorInv
<1> QED
  BY <1>1, MonitorInvariant, PTL

(* The result of every unit of a trade that was closed is booked exactly     *)
(* once, unless a scan that an exception ended has closed it.                *)
THEOREM MonitorBooksOnce == MonitorSpec => []BookedOnce
<1>1. MonitorInv => BookedOnce
  BY DEF MonitorInv
<1> QED
  BY <1>1, MonitorInvariant, PTL

(* After any sequence of partial exits the position engine has left what the *)
(* trade's own record has left.                                              *)
THEOREM MonitorEngineFollows == MonitorSpec => []EngineFollowsTrade
<1>1. MonitorInv => EngineFollowsTrade
  BY DEF MonitorInv
<1> QED
  BY <1>1, MonitorInvariant, PTL
=============================================================================
