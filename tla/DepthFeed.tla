----------------------------- MODULE DepthFeed -----------------------------
(***************************************************************************)
(* The threads around the websocket of core/kite_depth_ws.py: start, stop  *)
(* and restart of the ticker, the watchdog thread each start creates, the  *)
(* callbacks of the ticker, and the limits on full restarts.               *)
(*                                                                         *)
(* A ticker and its watchdog carry the same number.  The module globals    *)
(* (_KITE_TICKER, _WATCHDOG_STOP, _WATCHDOG_THREAD, _STOP_REQUESTED,       *)
(* _AUTH_REQUIRED_LATCH) are shared by every thread: a watchdog looks at   *)
(* the stop event that _WATCHDOG_STOP names when it looks, not at the one  *)
(* it was started with.  Between two tests of the event it reads the       *)
(* database, asks the broker and may restart the feed, and is "busy" for   *)
(* as long as that takes.  The settings are the defaults: reconnection by  *)
(* the ticker itself, so that a fatal error or close schedules one restart *)
(* on a thread of its own.  Whether a restart is wanted, whether the       *)
(* broker accepts the session and whether a cool-down has passed are       *)
(* inputs; everything happens within one hour.  The websocket library is   *)
(* external.                                                               *)
(***************************************************************************)
EXTENDS Naturals, FiniteSets

CONSTANTS
    MaxTickers,     \* bound: tickers created in a behaviour
    StormMax,       \* FEED_RESTART_STORM_TRIP, full restarts per hour
    GuardMax        \* FEED_RESTART_STORM_MAX, restarts feed_restart_guard allows

ASSUME FeedAssumption ==
    MaxTickers \in Nat \ {0} /\ StormMax \in Nat \ {0} /\ GuardMax \in Nat \ {0}

VARIABLES
    ticker,         \* _KITE_TICKER; 0 is None
    made,           \* tickers created
    open,           \* tickers that were connected and not closed by the program
    closing,        \* closed by the program; on_close is still to come
    stopEvent,      \* _WATCHDOG_STOP: "none", "clear" or "set"
    stopRequested,  \* _STOP_REQUESTED
    authLatch,      \* _AUTH_REQUIRED_LATCH
    watchdogs,      \* watchdog threads that run
    fresh,          \* watchdogs that have not yet looked at the market hours
    named,          \* _WATCHDOG_THREAD; 0 is None
    at,             \* thread -> where it is in restart_depth_ws and start_depth_ws
    whose,          \* thread -> the watchdog its stop waits for, then the ticker
                    \* its start has created
    holder,         \* the thread that holds _RESTART_LOCK; 0 is nobody
    tripped,        \* the feed circuit breaker
    attempts,       \* restarts that feed_restart_guard has allowed
    counted,        \* len(_FULL_RESTARTS)
    begun,          \* history: full restarts that stopped the feed
    raised,         \* history: full restarts whose start raised
    overlapped      \* history: the feed was stopped while another thread started it

feedVars == <<ticker, made, open, closing, stopEvent, stopRequested, authLatch,
              watchdogs, fresh, named, at, whose, holder, tripped, attempts,
              counted, begun, raised, overlapped>>

Tickers == 1 .. MaxTickers
Outer == {MaxTickers + 1, MaxTickers + 2}
Cycle == MaxTickers + 1     \* the trading cycle, which starts and repairs the feed
Async == MaxTickers + 2     \* the restart that a callback scheduled
FeedThreads == Tickers \cup Outer
Stages == {"idle", "busy", "called", "want", "stopping", "joining",
           "starting", "creating", "spawning", "connecting"}
Starting(t) == at[t] \in {"starting", "creating", "spawning", "connecting"}
Step(t, stage) == at' = [at EXCEPT ![t] = stage]
(* Where a call of restart_depth_ws returns to, and where it is made. *)
Back(t) == IF t \in Tickers THEN "busy" ELSE "idle"
Caller(t) == IF t = Async THEN "called" ELSE Back(t)

limits == <<tripped, attempts, counted>>
history == <<begun, raised, overlapped>>

-----------------------------------------------------------------------------
(* Mutant of StopFeed: the ticker is forgotten, not closed. *)
StopFeedUnclosed(t) ==
    /\ stopRequested' = TRUE
    /\ stopEvent' = IF stopEvent = "none" THEN "none" ELSE "set"
    /\ ticker' = 0 /\ named' = 0
    /\ UNCHANGED <<open, closing>>
    /\ overlapped' = (overlapped \/ \E u \in FeedThreads \ {t} : Starting(u))

(* stop_depth_ws under _KITE_TICKER_LOCK, by thread t. *)
StopFeed(t) ==
    /\ stopRequested' = TRUE
    /\ stopEvent' = IF stopEvent = "none" THEN "none" ELSE "set"
    /\ ticker' = 0 /\ named' = 0
    /\ open' = open \ {ticker}
    /\ closing' = closing \cup (open \cap {ticker})
    /\ overlapped' = (overlapped \/ \E u \in FeedThreads \ {t} : Starting(u))

(* _mark_auth_required, in a callback or in a start: the latch is set and    *)
(* the feed stopped.                                                         *)
RefuseSession(t) ==
    /\ authLatch' = TRUE
    /\ StopFeed(t)

(* Mutant of CallRestart: the latch is not looked at. *)
CallRestartUnlatched(t) ==
    /\ at[t] = Caller(t)
    /\ Step(t, "want")
    /\ UNCHANGED <<ticker, made, open, closing, stopEvent, stopRequested, authLatch,
                   watchdogs, fresh, named, whose, holder, limits, history>>

(* The call of restart_depth_ws by the cycle, by a watchdog that found the   *)
(* feed stale, or by the scheduled thread; the soft path changes nothing.    *)
CallRestart(t) ==
    /\ at[t] = Caller(t)
    /\ Step(t, IF authLatch THEN Back(t) ELSE "want")
    /\ UNCHANGED <<ticker, made, open, closing, stopEvent, stopRequested, authLatch,
                   watchdogs, fresh, named, whose, holder, limits, history>>

(* Mutant of Limit: a restart is counted by the guard only, as before the    *)
(* hourly limits were added.                                                 *)
LimitGuardOnly(t) ==
    /\ ~tripped /\ attempts < GuardMax
    /\ attempts' = attempts + 1
    /\ Step(t, "stopping") /\ holder' = t
    /\ UNCHANGED tripped

(* _RESTART_LOCK is taken, and the limits let the restart through.           *)
Limit(t) ==
    /\ ~tripped /\ attempts < GuardMax
    /\ counted < StormMax
    /\ attempts' = attempts + 1
    /\ Step(t, "stopping") /\ holder' = t
    /\ UNCHANGED tripped

(* The breaker or the guard is open, the storm limit is reached (which trips *)
(* the breaker; risk_halt has no function of the name called there, so there *)
(* is no halt), or the cool-down after the last restart has not passed.      *)
Limited(t) ==
    /\ \/ (tripped \/ attempts >= GuardMax) /\ UNCHANGED <<tripped, attempts>>
       \/ /\ ~tripped /\ attempts < GuardMax
          /\ attempts' = attempts + 1
          /\ \/ counted >= StormMax /\ tripped' = TRUE
             \/ counted \in 1 .. StormMax - 1 /\ UNCHANGED tripped
    /\ Step(t, Back(t)) /\ UNCHANGED holder

TakeRestartLock(t) ==
    /\ at[t] = "want" /\ holder = 0
    /\ \/ Limited(t)
       \/ Limit(t) /\ made < MaxTickers
    /\ UNCHANGED <<ticker, made, open, closing, stopEvent, stopRequested, authLatch,
                   watchdogs, fresh, named, whose, counted, history>>

StopForRestart(t) ==
    /\ at[t] = "stopping"
    /\ StopFeed(t)
    /\ whose' = [whose EXCEPT ![t] = named]
    /\ begun' = begun + 1
    /\ Step(t, "joining")
    /\ UNCHANGED <<made, authLatch, watchdogs, fresh, holder, limits, raised>>

(* Mutant of JoinOver: the join of the watchdog has no timeout. *)
JoinOverForever(t) == whose[t] \in {0, t} \/ whose[t] \notin watchdogs

(* The watchdog has ended, or is the thread itself, or the join times out:   *)
(* on an iteration or a restart that takes longer than the timeout of three  *)
(* seconds, or because another start has replaced the event.  A watchdog     *)
(* that sleeps, for one second, meets an event that is set before that.      *)
JoinOver(t) ==
    \/ whose[t] \in {0, t} \/ whose[t] \notin watchdogs
    \/ whose[t] # 0 /\ (at[whose[t]] # "idle" \/ stopEvent = "clear")

JoinWatchdog(t) ==
    /\ at[t] = "joining" /\ JoinOver(t)
    /\ whose' = [whose EXCEPT ![t] = 0]
    /\ Step(t, "starting")
    /\ UNCHANGED <<ticker, made, open, closing, stopEvent, stopRequested, authLatch,
                   watchdogs, fresh, named, holder, limits, history>>

(* start_depth_ws returns before it has done anything, which a restart       *)
(* takes for success, or because the session is refused.                     *)
GiveUpStart(t) ==
    /\ at[t] = "starting" /\ Step(t, Back(t))
    /\ counted' = IF holder = t THEN counted + 1 ELSE counted
    /\ holder' = IF holder = t THEN 0 ELSE holder
    /\ \/ UNCHANGED <<ticker, open, closing, stopEvent, stopRequested, named, authLatch,
                      overlapped>>
       \/ ~authLatch /\ RefuseSession(t)
    /\ UNCHANGED <<made, watchdogs, fresh, whose, tripped, attempts, begun, raised>>

BeginStart(t) ==
    /\ at[t] = "starting" /\ Step(t, "creating")
    /\ stopRequested' = FALSE /\ authLatch' = FALSE
    /\ UNCHANGED <<ticker, made, open, closing, stopEvent, watchdogs, fresh, named,
                   whose, holder, limits, history>>

(* Mutant of Raise: the lock is not given back on the way out. *)
RaiseHolding(t) ==
    /\ Step(t, Back(t))
    /\ raised' = IF holder = t THEN raised + 1 ELSE raised
    /\ UNCHANGED holder

(* The start raises: the restart is not counted. *)
Raise(t) ==
    /\ Step(t, Back(t))
    /\ holder' = IF holder = t THEN 0 ELSE holder
    /\ raised' = IF holder = t THEN raised + 1 ELSE raised

(* Mutant of NewStopEvent: the new watchdog is given the old event. *)
NewStopEventReused == IF stopEvent = "none" THEN "clear" ELSE stopEvent

NewStopEvent == "clear"

(* Under _KITE_TICKER_LOCK: an old ticker is closed, the event replaced, the *)
(* ticker created, which may raise.                                          *)
CreateTicker(t) ==
    /\ at[t] = "creating"
    /\ open' = open \ {ticker}
    /\ closing' = closing \cup (open \cap {ticker})
    /\ stopEvent' = NewStopEvent
    /\ \/ /\ made < MaxTickers
          /\ made' = made + 1 /\ ticker' = made + 1
          /\ whose' = [whose EXCEPT ![t] = made + 1]
          /\ Step(t, "spawning") /\ UNCHANGED <<holder, raised>>
       \/ ticker' = 0 /\ Raise(t) /\ UNCHANGED <<made, whose>>
    /\ UNCHANGED <<stopRequested, authLatch, watchdogs, fresh, named, limits,
                   begun, overlapped>>

SpawnWatchdog(t) ==
    /\ at[t] = "spawning" /\ Step(t, "connecting")
    /\ named' = whose[t]
    /\ watchdogs' = watchdogs \cup {whose[t]} /\ fresh' = fresh \cup {whose[t]}
    /\ UNCHANGED <<ticker, made, open, closing, stopEvent, stopRequested, authLatch,
                   whose, holder, limits, history>>

(* kws.connect *)
ConnectTicker(t) ==
    /\ at[t] = "connecting"
    /\ \/ /\ open' = open \cup {whose[t]}
          /\ Step(t, Back(t))
          /\ holder' = IF holder = t THEN 0 ELSE holder
          /\ counted' = IF holder = t THEN counted + 1 ELSE counted
          /\ UNCHANGED raised
       \/ Raise(t) /\ UNCHANGED <<open, counted>>
    /\ whose' = [whose EXCEPT ![t] = 0]
    /\ UNCHANGED <<ticker, made, closing, stopEvent, stopRequested, authLatch, watchdogs,
                   fresh, named, tripped, attempts, begun, overlapped>>

-----------------------------------------------------------------------------
(* The loop of a watchdog: it sleeps, tests the event and begins what it does *)
(* in an iteration, or ends.                                                  *)
BeginIteration(w) ==
    /\ w \in watchdogs /\ at[w] = "idle" /\ stopEvent = "clear"
    /\ Step(w, "busy")
    /\ UNCHANGED <<ticker, made, open, closing, stopEvent, stopRequested, authLatch, watchdogs,
                   fresh, named, whose, holder, limits, history>>

EndIteration(w) ==
    /\ at[w] = "busy" /\ Step(w, "idle")
    /\ UNCHANGED <<ticker, made, open, closing, stopEvent, stopRequested, authLatch, watchdogs,
                   fresh, named, whose, holder, limits, history>>

EndWatchdog(w) ==
    /\ w \in watchdogs /\ at[w] = "idle" /\ stopEvent # "clear"
    /\ watchdogs' = watchdogs \ {w}
    /\ UNCHANGED <<ticker, made, open, closing, stopEvent, stopRequested, authLatch,
                   fresh, named, at, whose, holder, limits, history>>

(* A watchdog's first look at an open market resets feed_restart_guard.      *)
SeeMarketOpen(w) ==
    /\ w \in fresh /\ at[w] = "busy"
    /\ fresh' = fresh \ {w} /\ attempts' = 0
    /\ UNCHANGED <<ticker, made, open, closing, stopEvent, stopRequested, authLatch,
                   watchdogs, named, at, whose, holder, tripped, counted, history>>

(* on_error or on_close with a fatal code: of a connection that was lost, or *)
(* late, of a ticker the program itself has closed.                          *)
FatalCallback(k) ==
    /\ k \in open \cup closing
    /\ closing' = closing \ {k}
    /\ IF authLatch \/ stopEvent = "set" \/ stopRequested \/ at[Async] # "idle"
         THEN UNCHANGED at
         ELSE Step(Async, "called")
    /\ UNCHANGED <<ticker, made, open, stopEvent, stopRequested, authLatch, watchdogs,
                   fresh, named, whose, holder, limits, history>>

(* on_error with an error of authentication *)
AuthCallback(k) ==
    /\ k \in open /\ ~authLatch
    /\ RefuseSession(0)
    /\ UNCHANGED <<made, watchdogs, fresh, at, whose, holder, limits, begun, raised>>

(* Others trip the breaker (core/slo_guard.py) or it is cleared again. *)
TurnBreaker ==
    /\ tripped' = ~tripped
    /\ UNCHANGED <<ticker, made, open, closing, stopEvent, stopRequested, authLatch,
                   watchdogs, fresh, named, at, whose, holder, attempts, counted, history>>

-----------------------------------------------------------------------------
(* Orchestrator.__init__ is in its call of start_depth_ws. *)
FeedInit ==
    /\ ticker = 0 /\ made = 0 /\ open = {} /\ closing = {}
    /\ stopEvent = "none" /\ stopRequested = FALSE /\ authLatch = FALSE
    /\ watchdogs = {} /\ fresh = {} /\ named = 0
    /\ at = [t \in FeedThreads |-> IF t = Cycle THEN "starting" ELSE "idle"]
    /\ whose = [t \in FeedThreads |-> 0] /\ holder = 0
    /\ tripped = FALSE /\ attempts = 0 /\ counted = 0
    /\ begun = 0 /\ raised = 0 /\ overlapped = FALSE

(* The steps of a restart that do not wait for _RESTART_LOCK. *)
RestartStep(t) ==
    \/ StopForRestart(t) \/ JoinWatchdog(t)
    \/ GiveUpStart(t) \/ BeginStart(t) \/ CreateTicker(t)
    \/ SpawnWatchdog(t) \/ ConnectTicker(t)

FeedNext ==
    \/ \E t \in FeedThreads : CallRestart(t) \/ TakeRestartLock(t) \/ RestartStep(t)
    \/ \E w \in Tickers : BeginIteration(w) \/ EndIteration(w) \/ EndWatchdog(w) \/ SeeMarketOpen(w)
    \/ \E k \in Tickers : FatalCallback(k) \/ AuthCallback(k)
    \/ TurnBreaker

(* Threads run: a start or stop that has begun goes on, and a watchdog gets  *)
(* to the end of its iteration and to its test of the event.                 *)
FeedFairness ==
    /\ \A t \in FeedThreads : WF_feedVars(TakeRestartLock(t) \/ RestartStep(t))
    /\ \A w \in Tickers : WF_feedVars(EndIteration(w) \/ EndWatchdog(w))

FeedSpec == FeedInit /\ [][FeedNext]_feedVars /\ FeedFairness

-----------------------------------------------------------------------------
(* Types; a ticker is named only after it was made, and the lock is held     *)
(* exactly by a restart past its limits.                                     *)
FeedTypeOK ==
    /\ made \in 0 .. MaxTickers /\ ticker \in 0 .. made /\ named \in 0 .. made
    /\ open \subseteq 1 .. made /\ closing \subseteq 1 .. made
    /\ watchdogs \subseteq 1 .. made /\ fresh \subseteq 1 .. made
    /\ stopEvent \in {"none", "clear", "set"}
    /\ {stopRequested, authLatch, tripped, overlapped} \subseteq BOOLEAN
    /\ at \in [FeedThreads -> Stages] /\ whose \in [FeedThreads -> 0 .. made]
    /\ holder \in FeedThreads \cup {0}
    /\ attempts \in 0 .. GuardMax /\ {counted, begun, raised} \subseteq Nat
    /\ \A t \in FeedThreads \ {holder} : at[t] \in {"stopping", "joining"} => FALSE
    /\ holder # 0 => at[holder] \in {"stopping", "joining"} \/ Starting(holder)

(* A feed that is up is watched: once no start is under way, some watchdog    *)
(* runs and its event is clear.                                               *)
WatchedWhileUp ==
    ticker # 0 /\ (\A t \in FeedThreads : ~Starting(t)) =>
        watchdogs # {} /\ stopEvent = "clear"

(* No connection outlives the ticker it belongs to, unless the feed was       *)
(* stopped in the middle of a start.                                          *)
NoOrphanConnection == overlapped \/ open \subseteq {ticker}

(* "AUTH_REQUIRED": once the session was refused and the restarts that were    *)
(* under way have ended, this process never brings the feed up again, unless  *)
(* the refusal met a start.                                                   *)
RefusalIsFinal ==
    [](authLatch /\ ~overlapped /\ (\A t \in FeedThreads : at[t] \in {"idle", "busy", "called"})
         => [](authLatch /\ ticker = 0))

(* "Stop watchdog and close existing KiteTicker instance": when the feed is   *)
(* up and nobody is starting or stopping it, one watchdog runs.               *)
OneWatchdog ==
    stopEvent = "clear" /\ ~overlapped /\ (\A t \in FeedThreads : at[t] \in {"idle", "busy"}) =>
        Cardinality(watchdogs) <= 1

(* "Rate-limited to avoid restart storms": in one hour the feed is stopped    *)
(* for a restart at most StormMax times, and once more for every start that   *)
(* raised, whatever the new watchdogs do to the guard.                        *)
RestartsBounded == begun <= StormMax + raised

(* A restart that has begun ends and gives _RESTART_LOCK back: its holder     *)
(* and the watchdog it waits for do not wait for each other for ever.         *)
RestartEnds == holder # 0 ~> holder = 0
=============================================================================
