---------------------------- MODULE FeedBreaker ----------------------------
(***************************************************************************)
(* core/feed_circuit_breaker.py: the file that stops restarts of the feed  *)
(* (core/kite_depth_ws.py) and trading (the readiness gate) while it says  *)
(* "tripped".  core/slo_guard.py and the restart limits trip it; every     *)
(* readiness check, of the trading process and of the dashboard, may clear *)
(* it.                                                                     *)
(*                                                                         *)
(* trip and maybe_auto_clear load the file, decide, and save it in place:  *)
(* the load, the truncation and the write are actions, and no lock spans   *)
(* them.  A file caught between truncation and write does not parse and    *)
(* counts as not tripped.  The time stamp of a trip is abstracted to       *)
(* whether FEED_BREAKER_MAX_BLOCK_TIME_SEC has passed since.               *)
(***************************************************************************)
EXTENDS Naturals

CONSTANTS
    Trippers, Clearers,     \* threads that trip the breaker, that check it
    MaxTrips                \* bound: trips written

ASSUME BreakerAssumption == MaxTrips \in Nat /\ Trippers \cap Clearers = {}

VARIABLES
    breaker,    \* the file: the number of the trip in it, or 0
    feedHealthy, \* the feed is connected and its ticks are fresh
    lapsed,     \* trips older than the maximal block time
    trips,      \* trips written
    doing,      \* thread -> [stage, what: the trip it has loaded or writes]
    breakerOvertaken \* history: thread -> somebody has saved since it loaded

breakerVars == <<breaker, feedHealthy, lapsed, trips, doing, breakerOvertaken>>

Users == Trippers \cup Clearers
Resting == [stage |-> "idle", what |-> 0]
Tripped == breaker # 0
Do(u, stage, what) == doing' = [doing EXCEPT ![u] = [stage |-> stage, what |-> what]]

(* Mutant of LoadForTrip: a second trip stamps the breaker anew. *)
LoadForTripAnew(u) ==
    /\ u \in Trippers /\ doing[u].stage = "idle" /\ trips < MaxTrips
    /\ Do(u, "save", trips + 1) /\ trips' = trips + 1
    /\ breakerOvertaken' = [breakerOvertaken EXCEPT ![u] = FALSE]
    /\ UNCHANGED <<breaker, feedHealthy, lapsed>>

(* trip: the load; a breaker that is tripped keeps its old stamp. *)
LoadForTrip(u) ==
    /\ u \in Trippers /\ doing[u].stage = "idle"
    /\ ~Tripped /\ trips < MaxTrips
    /\ Do(u, "save", trips + 1) /\ trips' = trips + 1
    /\ breakerOvertaken' = [breakerOvertaken EXCEPT ![u] = FALSE]
    /\ UNCHANGED <<breaker, feedHealthy, lapsed>>

(* Mutant of MayClear: the block time is not limited. *)
MayClearHealthyOnly == Tripped /\ feedHealthy

(* maybe_auto_clear: healthy ticks, or the timeout *)
MayClear == Tripped /\ (feedHealthy \/ breaker \in lapsed)

LoadForClear(u) ==
    /\ u \in Clearers /\ doing[u].stage = "idle"
    /\ MayClear
    /\ Do(u, "clear", breaker)
    /\ breakerOvertaken' = [breakerOvertaken EXCEPT ![u] = FALSE]
    /\ UNCHANGED <<breaker, feedHealthy, lapsed, trips>>

(* path.write_text truncates ... *)
TruncateBreaker(u) ==
    /\ doing[u].stage \in {"save", "clear"}
    /\ breaker' = 0
    /\ Do(u, IF doing[u].stage = "save" THEN "saving" ELSE "clearing", doing[u].what)
    /\ breakerOvertaken' = [v \in Users |-> breakerOvertaken[v] \/ v # u]
    /\ UNCHANGED <<feedHealthy, lapsed, trips>>

(* ... and writes. *)
Write(u) ==
    /\ doing[u].stage \in {"saving", "clearing"}
    /\ breaker' = IF doing[u].stage = "saving" THEN doing[u].what ELSE 0
    /\ Do(u, "idle", 0)
    /\ breakerOvertaken' = [v \in Users |-> breakerOvertaken[v] \/ v # u]
    /\ UNCHANGED <<feedHealthy, lapsed, trips>>

BlockTimePasses ==
    /\ Tripped /\ breaker \notin lapsed
    /\ lapsed' = lapsed \cup {breaker}
    /\ UNCHANGED <<breaker, feedHealthy, trips, doing, breakerOvertaken>>

FeedChanges ==
    /\ feedHealthy' = ~feedHealthy
    /\ UNCHANGED <<breaker, lapsed, trips, doing, breakerOvertaken>>

-----------------------------------------------------------------------------
BreakerInit ==
    /\ breaker = 0 /\ feedHealthy = TRUE /\ lapsed = {} /\ trips = 0
    /\ doing = [u \in Users |-> Resting]
    /\ breakerOvertaken = [u \in Users |-> FALSE]

Check(u) == LoadForClear(u) \/ TruncateBreaker(u) \/ Write(u)

BreakerNext ==
    \/ \E u \in Users : LoadForTrip(u) \/ Check(u)
    \/ BlockTimePasses
    \/ FeedChanges

(* Time passes, the readiness check runs every cycle, and a save that has    *)
(* begun ends.                                                               *)
BreakerFairness == WF_breakerVars(BlockTimePasses) /\ \A u \in Users : WF_breakerVars(Check(u))

BreakerSpec == BreakerInit /\ [][BreakerNext]_breakerVars /\ BreakerFairness

-----------------------------------------------------------------------------
(* Types, and what a thread holds is a trip that was written.                *)
BreakerTypeOK ==
    /\ breaker \in 0 .. trips /\ lapsed \subseteq 1 .. trips /\ trips \in 0 .. MaxTrips
    /\ doing \in [Users -> [stage : {"idle", "save", "saving", "clear", "clearing"},
                            what : 0 .. MaxTrips]]
    /\ feedHealthy \in BOOLEAN /\ breakerOvertaken \in [Users -> BOOLEAN]
    /\ \A u \in Users : doing[u].stage = "idle" <=> doing[u].what = 0

(* "if state.get("tripped"): return": no save wipes out a standing trip,     *)
(* which would start its block time anew, but the clear of a check that has  *)
(* read this very trip, and a save that overlaps another one.                *)
StandingTripIsKept ==
    [][\A u \in Users :
          Tripped /\ doing'[u].stage \in {"saving", "clearing"} /\ doing[u] # doing'[u] =>
              \/ doing[u] = [stage |-> "clear", what |-> breaker]
              \/ breakerOvertaken[u]]_breakerVars

(* "FORCED_BREAKER_CLEAR_TIMEOUT": no trip blocks the feed for ever, whether  *)
(* or not the feed gets healthy.                                              *)
BlockEnds == \A n \in 1 .. MaxTrips : breaker = n ~> breaker # n
=============================================================================
