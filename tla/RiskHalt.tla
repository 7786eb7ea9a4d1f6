------------------------------ MODULE RiskHalt ------------------------------
(***************************************************************************)
(* The risk halt file (core/risk_halt.py) and those who raise and clear it *)
(* in a session of main.py:                                                *)
(*   - the start of a session: ensure_db_ready (core/db_guard.py), then    *)
(*     auto_clear_risk_halt_if_safe (core/session_guard.py), then the      *)
(*     readiness gate, which may raise a halt and end the session;         *)
(*   - the thread of the trading cycle (core/orchestrator.py), which at    *)
(*     the top of a cycle may clear a halt of slo_failover, then checks    *)
(*     the file, and only when there is no halt goes on to what can raise  *)
(*     one;                                                                *)
(*   - the feed thread and the broker truth thread, which raise halts of   *)
(*     their own, and the auth check (core/auth_health.py), which clears a *)
(*     halt of db_write_fail.                                              *)
(*                                                                         *)
(* set_halt and clear_halt rewrite the file in place: they truncate it and *)
(* then write, two actions, and nothing serialises the threads.  A file    *)
(* caught between the two, or left with the tail of a longer text by two   *)
(* writers, is unreadable, which load_halt and is_halted take for "no      *)
(* halt".  Open positions and the health of the service levels are inputs. *)
(***************************************************************************)
EXTENDS Naturals

CONSTANTS
    Threads,        \* "cycle" and the other threads of the session
    RaisedBy,       \* thread -> the reasons it raises
    AuthCheckers,   \* the threads that run the auth check
    Streak,         \* AUTO_CLEAR_SLO_FAILOVER_RUNTIME_OK_STREAK
    MaxRaises       \* bound: halts raised in a behaviour

ASSUME RiskHaltAssumption ==
    /\ "cycle" \in Threads /\ AuthCheckers \subseteq Threads
    /\ RaisedBy \in [Threads -> SUBSET STRING]
    /\ \A t \in Threads : {"clear", "unreadable", "none"} \cap RaisedBy[t] = {}
    /\ Streak \in Nat \ {0} /\ MaxRaises \in Nat

VARIABLES
    haltFile,   \* the reason in the file, "clear" or "unreadable"
    session,    \* the session runs
    stage,      \* where the trading cycle is
    writer,     \* thread -> what it is doing to the file
    okStreak,   \* _slo_failover_runtime_clear_streak
    flat,       \* there are no open positions
    sloMet,     \* the service levels are met
    raises,     \* counts halts, for the bound
    owed,       \* history: the reasons raised since the last clear
    hidden,     \* history: those of owed that a later reason overwrote
    haltOvertaken,  \* history: thread -> somebody wrote since it loaded the file
    spoiled     \* history: the last write overlapped another or was cut short

haltVars == <<haltFile, session, stage, writer, okStreak, flat, sloMet, raises,
              owed, hidden, haltOvertaken, spoiled>>

Reasons == (UNION {RaisedBy[t] : t \in Threads}) \cup {"readiness_gate_fail"}
Contents == Reasons \cup {"clear", "unreadable"}

(* doing: "idle"; "loaded" the file and decided to clear it; "writing" a     *)
(* reason or "clear".  what: the reason loaded or written.  beaten: another  *)
(* thread wrote since this one truncated the file.                           *)
Idle == [doing |-> "idle", what |-> "clear", beaten |-> FALSE]
WriterStates ==
    [doing : {"idle", "loaded", "writing"}, what : Reasons \cup {"clear"}, beaten : BOOLEAN]

Writing == {t \in Threads : writer[t].doing = "writing"}
Halted == haltFile \in Reasons

-----------------------------------------------------------------------------
(* path.write_text opens, and so truncates, the file ...                     *)
TruncateHalt(t, what) ==
    /\ haltFile' = "unreadable"
    /\ writer' = [writer EXCEPT ![t] = [doing |-> "writing", what |-> what, beaten |-> FALSE]]
    /\ spoiled' = (Writing \ {t} # {})
    /\ haltOvertaken' = [u \in Threads |-> haltOvertaken[u] \/ u # t]
    /\ owed' = IF what = "clear" THEN {} ELSE owed \cup {what}
    /\ hidden' = IF what = "clear" THEN {} ELSE hidden

(* ... and writes the text, over that of a thread that wrote in between.     *)
FinishWrite(t) ==
    /\ writer[t].doing = "writing"
    /\ haltFile' \in {writer[t].what} \cup (IF writer[t].beaten THEN {"unreadable"} ELSE {})
    /\ writer' = [u \in Threads |->
                    IF u = t THEN Idle
                    ELSE [writer[u] EXCEPT !.beaten = @ \/ u \in Writing]]
    /\ hidden' = IF writer[t].what = "clear" THEN hidden ELSE owed \ {writer[t].what}
    /\ haltOvertaken' = [u \in Threads |-> haltOvertaken[u] \/ u # t]
    /\ UNCHANGED <<session, stage, okStreak, flat, sloMet, raises, owed, spoiled>>

(* set_halt: whatever halt is in the file is overwritten.  The cycle raises  *)
(* halts only after its check.                                               *)
RaiseHalt(t, r) ==
    /\ session /\ writer[t].doing = "idle" /\ r \in RaisedBy[t]
    /\ t = "cycle" => stage = "trade"
    /\ raises < MaxRaises /\ raises' = raises + 1
    /\ TruncateHalt(t, r)
    /\ UNCHANGED <<session, stage, okStreak, flat, sloMet>>

(* Load the file and, if it shows the reason the caller may clear, decide to *)
(* clear it.                                                                 *)
Decide(t, r) ==
    /\ haltFile = r
    /\ writer' = [writer EXCEPT ![t] = [doing |-> "loaded", what |-> r, beaten |-> FALSE]]
    /\ haltOvertaken' = [haltOvertaken EXCEPT ![t] = FALSE]

(* Mutant of DecideOn: the reason of the halt is not compared. *)
DecideAny(t, r) == Halted /\ Decide(t, haltFile)

DecideOn(t, r) == Decide(t, r)

(* clear_halt after the decision *)
BeginClear(t) ==
    /\ writer[t].doing = "loaded"
    /\ TruncateHalt(t, "clear")
    /\ UNCHANGED <<session, stage, okStreak, flat, sloMet, raises>>

(* The auth check sees the broker's profile. *)
AuthClear(t) ==
    /\ session /\ t \in AuthCheckers /\ writer[t].doing = "idle"
    /\ t = "cycle" => stage = "trade"
    /\ DecideOn(t, "db_write_fail")
    /\ UNCHANGED <<haltFile, session, stage, okStreak, flat, sloMet, raises, owed, hidden,
                   spoiled>>

(* Mutant of CountHealthy: the streak starts again in every cycle. *)
CountHealthyOnce(r) == IF haltFile = r /\ flat /\ sloMet THEN 1 ELSE 0

(* The streak of healthy cycles under a halt of slo_failover with no open    *)
(* position.                                                                 *)
CountHealthy(r) == IF haltFile = r /\ flat /\ sloMet THEN okStreak + 1 ELSE 0

(* _maybe_auto_clear_runtime_slo_failover_halt; the streak is reset by the   *)
(* clear.                                                                    *)
SloClear ==
    /\ session /\ stage = "top" /\ writer["cycle"].doing = "idle"
    /\ LET n == CountHealthy("slo_failover") IN
         IF n >= Streak
           THEN DecideOn("cycle", "slo_failover") /\ okStreak' = 0
           ELSE okStreak' = n /\ UNCHANGED <<writer, haltOvertaken>>
    /\ stage' = "check"
    /\ UNCHANGED <<haltFile, session, flat, sloMet, raises, owed, hidden, spoiled>>

(* resolve_global_halt_reason: under a halt the cycle ends. *)
CheckHalt ==
    /\ session /\ stage = "check" /\ writer["cycle"].doing = "idle"
    /\ stage' = IF Halted THEN "top" ELSE "trade"
    /\ UNCHANGED <<haltFile, session, writer, okStreak, flat, sloMet, raises,
                   owed, hidden, haltOvertaken, spoiled>>

EndTradingCycle ==
    /\ session /\ stage = "trade" /\ writer["cycle"].doing = "idle"
    /\ stage' = "top"
    /\ UNCHANGED <<haltFile, session, writer, okStreak, flat, sloMet, raises,
                   owed, hidden, haltOvertaken, spoiled>>

(* The start of a session, alone with the file: ensure_db_ready, then        *)
(* auto_clear_risk_halt_if_safe, whose default settings clear any halt when  *)
(* there are no open positions, then possibly a refusal of the readiness     *)
(* gate.                                                                     *)
StartSession ==
    /\ ~session
    /\ LET cleared == haltFile = "db_write_fail" \/ (Halted /\ flat)
       IN  \/ /\ session' = TRUE
              /\ haltFile' = IF cleared THEN "clear" ELSE haltFile
              /\ owed' = IF cleared THEN {} ELSE owed
              /\ hidden' = IF cleared THEN {} ELSE hidden
              /\ UNCHANGED spoiled
           \/ /\ UNCHANGED session
              /\ haltFile' = "readiness_gate_fail"
              /\ owed' = {"readiness_gate_fail"} \cup (IF cleared THEN {} ELSE owed)
              /\ hidden' = IF cleared THEN {} ELSE owed
              /\ spoiled' = FALSE
    /\ UNCHANGED <<stage, writer, okStreak, flat, sloMet, raises, haltOvertaken>>

(* Mutant of KillSession: the halt lives in memory only. *)
KillSessionForgetsHalt ==
    /\ session /\ session' = FALSE
    /\ haltFile' = "clear"
    /\ stage' = "top" /\ okStreak' = 0
    /\ writer' = [t \in Threads |-> Idle]
    /\ spoiled' = (spoiled \/ Writing # {})
    /\ UNCHANGED <<flat, sloMet, raises, owed, hidden, haltOvertaken>>

(* The process ends anywhere, in the middle of a write too. *)
KillSession ==
    /\ session /\ session' = FALSE
    /\ stage' = "top" /\ okStreak' = 0
    /\ writer' = [t \in Threads |-> Idle]
    /\ spoiled' = (spoiled \/ Writing # {})
    /\ UNCHANGED <<haltFile, flat, sloMet, raises, owed, hidden, haltOvertaken>>

(* Positions open and close, service levels fail and recover. *)
Turn ==
    /\ \/ flat' = ~flat /\ UNCHANGED sloMet
       \/ sloMet' = ~sloMet /\ UNCHANGED flat
    /\ UNCHANGED <<haltFile, session, stage, writer, okStreak, raises,
                   owed, hidden, haltOvertaken, spoiled>>

-----------------------------------------------------------------------------
HaltInit ==
    /\ haltFile = "clear" /\ session = FALSE /\ stage = "top"
    /\ writer = [t \in Threads |-> Idle]
    /\ okStreak = 0 /\ flat = TRUE /\ sloMet = TRUE /\ raises = 0
    /\ owed = {} /\ hidden = {} /\ spoiled = FALSE
    /\ haltOvertaken = [t \in Threads |-> FALSE]

CycleStep == SloClear \/ CheckHalt \/ EndTradingCycle

HaltNext ==
    \/ \E t \in Threads : FinishWrite(t) \/ BeginClear(t) \/ AuthClear(t)
    \/ \E t \in Threads : \E r \in RaisedBy[t] : RaiseHalt(t, r)
    \/ CycleStep
    \/ StartSession \/ KillSession \/ Turn

(* The cycle runs on, and a write that has begun ends. *)
HaltFairness ==
    /\ WF_haltVars(CycleStep)
    /\ \A t \in Threads : WF_haltVars(FinishWrite(t)) /\ WF_haltVars(BeginClear(t))

HaltSpec == HaltInit /\ [][HaltNext]_haltVars /\ HaltFairness

-----------------------------------------------------------------------------
(* Types; what is hidden is owed, and the streak stays below the one that    *)
(* clears.                                                                   *)
HaltTypeOK ==
    /\ haltFile \in Contents
    /\ session \in BOOLEAN /\ stage \in {"top", "check", "trade"}
    /\ writer \in [Threads -> WriterStates]
    /\ okStreak \in 0 .. Streak - 1
    /\ flat \in BOOLEAN /\ sloMet \in BOOLEAN /\ raises \in 0 .. MaxRaises
    /\ owed \subseteq Reasons /\ hidden \subseteq owed
    /\ haltOvertaken \in [Threads -> BOOLEAN] /\ spoiled \in BOOLEAN

(* "persisted risk halt": a halt that was raised and not cleared stands, over *)
(* restarts too, unless two threads wrote the file at once or the process was *)
(* killed while it wrote.                                                     *)
HaltStands ==
    owed # {} /\ ~spoiled /\ Writing = {} => Halted

(* A running session clears only the reason it was entitled to clear: another *)
(* reason goes with it only when a later halt had overwritten it, or when it  *)
(* was raised after the clearer had read the file.                            *)
ClearsOnlyItsReason ==
    [][\A t \in Threads :
          writer[t].doing = "loaded" /\ writer'[t].doing = "writing" =>
             \/ owed \subseteq hidden \cup (IF t = "cycle" /\ stage = "check"
                                              THEN {"slo_failover"} ELSE {"db_write_fail"})
             \/ haltOvertaken[t]]_haltVars

(* "stale risk halt auto-clear": once there are no positions and the service  *)
(* levels are met for good, a running session does not stay halted because    *)
(* of slo_failover.                                                           *)
SloHaltLifts ==
    <>[](session /\ flat /\ sloMet) => ~<>[](haltFile = "slo_failover")
=============================================================================
