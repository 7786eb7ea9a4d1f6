---------------------------- MODULE TradeMonitor ----------------------------
(***************************************************************************)
(* What the trading cycle of core/orchestrator.py does with a trade once   *)
(* the router has filled it, for one symbol: the trade is tracked, every   *)
(* later cycle looks at it (_check_open_trades) and holds it, exits a part *)
(* or all of it, and books the result; core/position_state_engine.py keeps *)
(* a second record of the same position, on disk.                          *)
(*                                                                         *)
(* A scan visits the list self.open_trades[key] trade by trade and puts    *)
(* what stays open into a new list, which replaces the old one only after  *)
(* the last trade; each visit is an action.  An exception anywhere ends    *)
(* the cycle and leaves the old list.  A cycle gets to its scan only past  *)
(* the gates at the head of the loop.  Prices are left out: whether there  *)
(* is one (quoted), and whether the stop, the target or the holding time   *)
(* of a trade is reached (overdue) are inputs, and so is the verdict of    *)
(* the exit intelligence on a trade that is not overdue.                   *)
(***************************************************************************)
EXTENDS Integers, Sequences

CONSTANTS
    Positions,      \* the trades that may be filled
    Qty,            \* units of each
    MaxPerDay,      \* MAX_TRADES_PER_DAY
    MaxErrors       \* bound: exceptions

ASSUME MonitorAssumption ==
    Qty \in Nat \ {0} /\ MaxPerDay \in Nat \ {0} /\ MaxErrors \in Nat

VARIABLES
    tracked,    \* self.open_trades[key]
    kept,       \* the list "remaining" of the running scan
    cursor,     \* the trade the scan has reached; 0: no scan runs
    metaLeft,   \* trade -> remaining_qty_units
    legUnits,   \* trade -> units of its partial exits (realized_pnl_legs)
    engine,     \* trade -> its PositionState: [left, realized]
    booked,     \* trade -> units whose result has reached the portfolio
    today,      \* portfolio["trades_today"]
    hardHalt,   \* risk_state.mode is HARD_HALT
    quoted,     \* the snapshot is valid and has a price for the trades, and neither
                \* the pilot checks nor the latency guard stop the symbol
    overdue,    \* trades at their stop, target or holding time
    gone,       \* history: trades filled that the program has lost sight of
    cutShort,   \* history: trades booked in a scan that an exception ended
    unseen,     \* history: overdue trades that the last cycle did not look at
    everFilled, \* history: trades that were filled
    errors      \* counts exceptions, for the bound

monitorVars == <<tracked, kept, cursor, metaLeft, legUnits, engine, booked, today,
                 hardHalt, quoted, overdue, gone, cutShort, unseen, everFilled, errors>>
records == <<metaLeft, legUnits, engine, booked>>
inputs == <<hardHalt, quoted, overdue>>

InList(list) == {list[i] : i \in 1 .. Len(list)}
Scanning == cursor \in 1 .. Len(tracked)
Now == tracked[cursor]

(* Trades the running scan has closed. *)
ClosedInScan == {tracked[i] : i \in 1 .. cursor - 1} \ InList(kept)

(* The gates in front of _check_open_trades. *)
GatesOpen == ~hardHalt /\ today < MaxPerDay

(* A remainder of zero counts as missing, and the trade's full size is used. *)
UnitsOf(t) == IF metaLeft[t] <= 0 THEN Qty ELSE metaLeft[t]

-----------------------------------------------------------------------------
(* The router reports a fill, in a cycle that has passed the gates.  When    *)
(* log_trade raises, _track_open_trade is not reached.                       *)
EnterTrade(t) ==
    /\ cursor = 0 /\ GatesOpen /\ t \notin everFilled
    /\ everFilled' = everFilled \cup {t} /\ today' = today + 1
    /\ \/ /\ tracked' = Append(tracked, t)
          /\ metaLeft' = [metaLeft EXCEPT ![t] = Qty]
          /\ engine' = [engine EXCEPT ![t] = [left |-> Qty, realized |-> 0]]
          /\ UNCHANGED <<gone, errors>>
       \/ /\ errors < MaxErrors /\ errors' = errors + 1
          /\ gone' = gone \cup {t}
          /\ UNCHANGED <<tracked, metaLeft, engine>>
    /\ UNCHANGED <<kept, cursor, legUnits, booked, inputs, cutShort, unseen>>

BeginScan ==
    /\ cursor = 0 /\ GatesOpen /\ tracked # <<>>
    /\ cursor' = 1 /\ kept' = <<>> /\ unseen' = {}
    /\ UNCHANGED <<tracked, records, today, inputs, gone, cutShort, everFilled, errors>>

(* A gate sends the loop on to the next symbol. *)
PassOver ==
    /\ cursor = 0 /\ ~GatesOpen /\ quoted
    /\ unseen' = overdue \cap InList(tracked)
    /\ UNCHANGED <<tracked, kept, cursor, records, today, inputs, gone, cutShort,
                   everFilled, errors>>

Hold ==
    /\ Scanning /\ (~quoted \/ Now \notin overdue)
    /\ kept' = Append(kept, Now) /\ cursor' = cursor + 1
    /\ UNCHANGED <<tracked, records, today, inputs, gone, cutShort, unseen, everFilled, errors>>

(* Mutant of Denominator: the fraction is that of what is left. *)
DenominatorLeft(t) == IF engine[t].left > 0 THEN engine[t].left ELSE 1

Denominator(t) == Qty

(* Mutant of EngineUnits: the exit is not limited to what is left. *)
EngineUnitsUncapped(t, e) == (2 * Qty * e + Denominator(t)) \div (2 * Denominator(t))

(* The exit is handed to the position engine as a fraction of the position,  *)
(* which the engine turns back into units, at most what it has left.         *)
EngineUnits(t, e) ==
    LET units == (2 * Qty * e + Denominator(t)) \div (2 * Denominator(t))
    IN  IF units > engine[t].left THEN engine[t].left ELSE units

PartialExit(e) ==
    /\ Scanning /\ quoted /\ Now \notin overdue
    /\ e \in 1 .. UnitsOf(Now) - 1
    /\ metaLeft' = [metaLeft EXCEPT ![Now] = UnitsOf(Now) - e]
    /\ legUnits' = [legUnits EXCEPT ![Now] = @ + e]
    /\ engine' = [engine EXCEPT ![Now] = [left |-> @.left - EngineUnits(Now, e),
                                          realized |-> @.realized + EngineUnits(Now, e)]]
    /\ kept' = Append(kept, Now) /\ cursor' = cursor + 1
    /\ UNCHANGED <<tracked, booked, today, inputs, gone, cutShort, unseen, everFilled, errors>>

Book == booked' = [booked EXCEPT ![Now] = @ + legUnits[Now] + UnitsOf(Now)]

FullExit ==
    /\ Scanning /\ quoted /\ Book
    /\ metaLeft' = [metaLeft EXCEPT ![Now] = 0]
    /\ engine' = [engine EXCEPT ![Now] = [left |-> 0, realized |-> Qty]]
    /\ cursor' = cursor + 1
    /\ UNCHANGED <<tracked, kept, legUnits, today, inputs, gone, cutShort, unseen,
                   everFilled, errors>>

(* An exception in the exit: update_trade_outcome raises before the result   *)
(* is booked, or set_halt or the strategy tracker after it.                  *)
ExitRaises ==
    /\ Scanning /\ quoted /\ errors < MaxErrors /\ errors' = errors + 1
    /\ \/ Book /\ cutShort' = cutShort \cup ClosedInScan \cup {Now}
       \/ UNCHANGED booked /\ cutShort' = cutShort \cup ClosedInScan
    /\ cursor' = 0 /\ kept' = <<>>
    /\ UNCHANGED <<tracked, metaLeft, legUnits, engine, today, inputs, gone, unseen, everFilled>>

(* Mutant of EndScan: the list is not replaced. *)
EndScanKeeps ==
    /\ cursor = Len(tracked) + 1 /\ cursor' = 0 /\ kept' = <<>>
    /\ UNCHANGED <<tracked, records, today, inputs, gone, cutShort, unseen, everFilled, errors>>

EndScan ==
    /\ cursor = Len(tracked) + 1 /\ cursor' = 0
    /\ tracked' = kept /\ kept' = <<>>
    /\ UNCHANGED <<records, today, inputs, gone, cutShort, unseen, everFilled, errors>>

-----------------------------------------------------------------------------
(* Mutant of NewDay: the count of trades is not reset. *)
NewDayKeepsCount ==
    /\ cursor = 0 /\ hardHalt' = FALSE
    /\ UNCHANGED <<tracked, kept, cursor, records, today, quoted, overdue, gone, cutShort,
                   unseen, everFilled, errors>>

(* The daily reset at the head of a cycle, and that of the risk state. *)
NewDay ==
    /\ cursor = 0
    /\ today' = 0 /\ hardHalt' = FALSE
    /\ UNCHANGED <<tracked, kept, cursor, records, quoted, overdue, gone, cutShort, unseen,
                   everFilled, errors>>

(* The list, the meta and the count live in memory; the position state is on *)
(* disk, but nobody looks for it unless the trade is tracked.                *)
Restart ==
    /\ tracked' = <<>> /\ cursor' = 0 /\ kept' = <<>> /\ today' = 0 /\ hardHalt' = FALSE
    /\ metaLeft' = [t \in Positions |-> 0] /\ legUnits' = [t \in Positions |-> 0]
    /\ gone' = gone \cup InList(tracked)
    /\ UNCHANGED <<engine, booked, quoted, overdue, cutShort, unseen, everFilled, errors>>

Market ==
    /\ \/ cursor = 0 /\ quoted' = ~quoted /\ UNCHANGED <<overdue, hardHalt>>
       \/ \E t \in everFilled \ overdue : overdue' = overdue \cup {t} /\ UNCHANGED <<quoted, hardHalt>>
       \/ cursor = 0 /\ hardHalt' = TRUE /\ UNCHANGED <<quoted, overdue>>
    /\ UNCHANGED <<tracked, kept, cursor, records, today, gone, cutShort, unseen, everFilled, errors>>

-----------------------------------------------------------------------------
MonitorInit ==
    /\ tracked = <<>> /\ kept = <<>> /\ cursor = 0 /\ today = 0
    /\ metaLeft = [t \in Positions |-> 0] /\ legUnits = [t \in Positions |-> 0]
    /\ engine = [t \in Positions |-> [left |-> 0, realized |-> 0]]
    /\ booked = [t \in Positions |-> 0]
    /\ hardHalt = FALSE /\ quoted = TRUE /\ overdue = {}
    /\ gone = {} /\ cutShort = {} /\ unseen = {} /\ everFilled = {} /\ errors = 0

ScanStep == Hold \/ (\E e \in 1 .. Qty - 1 : PartialExit(e)) \/ FullExit \/ EndScan

MonitorNext ==
    \/ \E t \in Positions : EnterTrade(t)
    \/ BeginScan \/ PassOver \/ ScanStep \/ ExitRaises
    \/ NewDay \/ Restart \/ Market

(* The cycle runs on, and the next day comes. *)
MonitorFairness ==
    WF_monitorVars(BeginScan) /\ WF_monitorVars(ScanStep) /\ WF_monitorVars(NewDay)

MonitorSpec == MonitorInit /\ [][MonitorNext]_monitorVars /\ MonitorFairness

-----------------------------------------------------------------------------
(* Types; a trade is tracked once, and the position engine accounts for every *)
(* unit of it.                                                                *)
MonitorTypeOK ==
    /\ InList(tracked) \subseteq everFilled \ gone /\ everFilled \subseteq Positions
    /\ \A i, j \in 1 .. Len(tracked) : tracked[i] = tracked[j] => i = j
    /\ InList(kept) \subseteq InList(tracked) /\ cursor \in 0 .. Len(tracked) + 1
    /\ metaLeft \in [Positions -> 0 .. Qty] /\ legUnits \in [Positions -> Nat]
    /\ booked \in [Positions -> Nat]
    /\ today \in 0 .. MaxPerDay /\ errors \in 0 .. MaxErrors
    /\ {hardHalt, quoted} \subseteq BOOLEAN
    /\ overdue \cup gone \cup cutShort \cup unseen \subseteq everFilled
    /\ \A t \in InList(tracked) :
          engine[t].left \in 0 .. Qty /\ engine[t].realized = Qty - engine[t].left

(* "realized_pnl": when a trade has left the list, the portfolio has the      *)
(* result of each of its units exactly once, partial exits included, and      *)
(* nothing of a trade that is open; only a scan that an exception has ended   *)
(* books a trade again, and only a restart or a failed log loses one.         *)
BookedOnce ==
    \A t \in everFilled \ (gone \cup cutShort) :
        booked[t] = IF t \in InList(tracked) \ ClosedInScan THEN 0 ELSE Qty

(* The two records of a position agree: what the position engine has left is  *)
(* what the trade's own record has left, after any sequence of partial exits. *)
EngineFollowsTrade ==
    \A t \in InList(tracked) \ cutShort : engine[t].left = metaLeft[t]

(* A trade at its stop, target or holding time is closed, on the next day at  *)
(* the latest, once there are quotes and no hard halt.                        *)
OverdueIsClosed ==
    <>[](quoted /\ ~hardHalt) =>
        \A t \in Positions : t \in overdue /\ t \in InList(tracked) ~> t \notin InList(tracked)

(* "Check exits for any open trades on this symbol/instrument": a cycle with  *)
(* quotes looks at every trade that has to be closed.                         *)
ExitsAreChecked == unseen = {}
=============================================================================
