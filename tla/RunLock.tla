------------------------------ MODULE RunLock ------------------------------
(***************************************************************************)
(* core/run_lock.py: the lock file that Orchestrator.live_monitoring and   *)
(* the depth feed (kite_depth_ws._ensure_depth_ws_lock) take, a JSON claim *)
(* with the pid of its writer and a time stamp.                            *)
(*                                                                         *)
(* Reading the claim, writing the temporary file (one name, shared by all  *)
(* processes) and renaming it over the lock are separate system calls, so  *)
(* separate actions.  The stamp is abstracted to whether the claim is      *)
(* older than max_age_sec.  A pid may be used again by a later process of  *)
(* the program.  The depth feed gives the lock back twice at exit: once    *)
(* from its own atexit entry and once from lifecycle.stop_all.  The file   *)
(* system is external; its permission errors and the moment in which the   *)
(* temporary file is created but still empty are left out.                 *)
(***************************************************************************)
CONSTANTS
    Pids,           \* processes of the program, named by their pids
    TwiceReleased   \* those that hold the lock for the depth feed

ASSUME RunLockAssumption == TwiceReleased \subseteq Pids

VARIABLES
    lockFile,   \* the claim in lock_path
    tmpFile,    \* the claim in the temporary file
    alive,      \* the processes that run
    step,       \* process -> where it is in acquire and release
    calm        \* history: no two calls have overlapped, no overdue claim was
                \* taken over and nobody has released a claim not his own

runLockVars == <<lockFile, tmpFile, alive, step, calm>>

Claim == [locked : BOOLEAN, pid : Pids, overdue : BOOLEAN]
NoClaim == [locked |-> FALSE]       \* no file, or one that is not JSON
ActiveClaim(p) == [locked |-> TRUE, pid |-> p, overdue |-> FALSE]
ReleasedClaim(p) == [locked |-> FALSE, pid |-> p, overdue |-> FALSE]

(* "free" and "freed" belong to the first release, "refree" and "refreed" to *)
(* the second.                                                               *)
Calling == {"claim", "claimed", "free", "freed", "refree", "refreed"}
Steps == Calling \cup {"out", "refused", "held", "again"}
InCall(p) == step[p] \in Calling
Alone(p) == \A q \in Pids \ {p} : ~InCall(q)
Owns(p) == lockFile.locked /\ lockFile.pid = p
Goto(p, s) == step' = [step EXCEPT ![p] = s]

(* Mutant of Blocks: the pid of the claim is not probed. *)
BlocksDead(p) == lockFile.locked /\ lockFile.pid # p /\ ~lockFile.overdue

(* The claim keeps p out: another live process wrote it, not too long ago. *)
Blocks(p) ==
    /\ lockFile.locked /\ lockFile.pid # p
    /\ lockFile.pid \in alive
    /\ ~lockFile.overdue

(* acquire, up to its decision *)
TryAcquire(p) ==
    /\ p \in alive /\ step[p] \in {"out", "refused"}
    /\ \/ Blocks(p) /\ Goto(p, "refused") /\ UNCHANGED calm
       \/ Owns(p) /\ Goto(p, "held") /\ calm' = (calm /\ Alone(p))
       \/ /\ ~Blocks(p) /\ ~Owns(p)
          /\ Goto(p, "claim")
          /\ calm' = (calm /\ Alone(p) /\ (lockFile.locked => lockFile.pid \notin alive))
    /\ UNCHANGED <<lockFile, tmpFile, alive>>

(* Mutant of StartRelease: a process that was refused releases the lock, as  *)
(* a finally around the whole of live_monitoring would.                      *)
StartReleaseAnyway(p) ==
    /\ p \in alive
    /\ \/ step[p] \in {"held", "refused"} /\ Goto(p, "free") /\ calm' = (calm /\ Alone(p))
       \/ step[p] = "again" /\ Goto(p, "refree") /\ calm' = FALSE
    /\ UNCHANGED <<lockFile, tmpFile, alive>>

(* release never looks at the claim it overwrites *)
StartRelease(p) ==
    /\ p \in alive
    /\ \/ step[p] = "held" /\ Goto(p, "free") /\ calm' = (calm /\ Alone(p))
       \/ step[p] = "again" /\ Goto(p, "refree") /\ calm' = FALSE
    /\ UNCHANGED <<lockFile, tmpFile, alive>>

(* tmp_path.write_text *)
WriteTmp(p) ==
    /\ p \in alive
    /\ \/ step[p] = "claim" /\ tmpFile' = ActiveClaim(p) /\ Goto(p, "claimed")
       \/ step[p] = "free" /\ tmpFile' = ReleasedClaim(p) /\ Goto(p, "freed")
       \/ step[p] = "refree" /\ tmpFile' = ReleasedClaim(p) /\ Goto(p, "refreed")
    /\ UNCHANGED <<lockFile, alive, calm>>

(* tmp_path.replace(lock_path), whoever wrote the temporary file last.  When *)
(* another process has just renamed it, FileNotFoundError: acquire raises,   *)
(* and the callers of release swallow it.                                    *)
Replace(p) ==
    /\ p \in alive
    /\ lockFile' = IF tmpFile = NoClaim THEN lockFile ELSE tmpFile
    /\ tmpFile' = NoClaim
    /\ \/ step[p] = "claimed" /\ Goto(p, IF tmpFile = NoClaim THEN "out" ELSE "held")
       \/ step[p] = "freed" /\ Goto(p, IF p \in TwiceReleased THEN "again" ELSE "out")
       \/ step[p] = "refreed" /\ Goto(p, "out")
    /\ UNCHANGED <<alive, calm>>

(* More than max_age_sec pass: nobody ever renews the stamp. *)
Expire ==
    /\ lockFile.locked /\ ~lockFile.overdue
    /\ lockFile' = [lockFile EXCEPT !.overdue = TRUE]
    /\ UNCHANGED <<tmpFile, alive, step, calm>>

(* The process is killed, or its pid is used again. *)
Kill(p) ==
    /\ p \in alive /\ alive' = alive \ {p}
    /\ Goto(p, "out")
    /\ UNCHANGED <<lockFile, tmpFile, calm>>

Start(p) ==
    /\ p \notin alive /\ alive' = alive \cup {p}
    /\ UNCHANGED <<lockFile, tmpFile, step, calm>>

-----------------------------------------------------------------------------
RunLockInit ==
    /\ lockFile = NoClaim /\ tmpFile = NoClaim
    /\ alive = Pids
    /\ step = [p \in Pids |-> "out"]
    /\ calm = TRUE

CallStep(p) == TryAcquire(p) \/ StartRelease(p) \/ WriteTmp(p) \/ Replace(p)

RunLockNext ==
    \/ \E p \in Pids : CallStep(p)
    \/ Expire
    \/ \E p \in Pids : Kill(p) \/ Start(p)

(* The system calls return, and a live process that is without the lock asks *)
(* for it: each start of the depth feed does, and live_monitoring when the   *)
(* refused program is run again.                                             *)
RunLockFairness == \A p \in Pids : WF_runLockVars(CallStep(p))

RunLockSpec == RunLockInit /\ [][RunLockNext]_runLockVars /\ RunLockFairness

-----------------------------------------------------------------------------
(* Types, and only a live process is in a call or holds the lock.            *)
RunLockTypeOK ==
    /\ lockFile \in Claim \cup {NoClaim}
    /\ tmpFile \in Claim \cup {NoClaim}
    /\ alive \subseteq Pids
    /\ step \in [Pids -> Steps]
    /\ calm \in BOOLEAN
    /\ \A p \in Pids : p \notin alive => step[p] = "out"

(* What the lock promises, and on which conditions: while calls do not        *)
(* overlap, no claim outlives max_age_sec and nobody releases twice, at most  *)
(* one process holds the lock and the file names it.                          *)
ExclusiveWhenCalm ==
    calm => \A p \in Pids : step[p] = "held" =>
                /\ Owns(p)
                /\ \A q \in Pids \ {p} : step[q] # "held"

(* The claims of dead processes lock nobody out: when one process remains and *)
(* keeps asking, it gets the lock again and again.                            *)
SurvivorAcquires ==
    \A p \in Pids : <>[](alive = {p}) => []<>(step[p] = "held")
=============================================================================
