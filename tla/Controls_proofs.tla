-------------------------- MODULE Controls_proofs --------------------------
(***************************************************************************)
(* Proofs about the controls that stop a session or a connection: the run  *)
(* lock (RunLock), the risk halt (RiskHalt), the breaker of the depth feed *)
(* that every thread may trip and clear (FeedBreaker), and the threads     *)
(* that start, stop and watch the feed (DepthFeed).                        *)
(***************************************************************************)
EXTENDS RunLock, RiskHalt, FeedBreaker, DepthFeed, FiniteSetTheorems, TLAPS

-----------------------------------------------------------------------------
(***************************************************************************)
(* The run lock, for any set of processes: the types, and that the lock    *)
(* excludes for as long as its users are calm.                             *)
(***************************************************************************)

(* Every step keeps the types, and only live processes are anywhere.       *)
LEMMA RunLockTypesStep == RunLockTypeOK /\ [RunLockNext]_runLockVars => RunLockTypeOK'
<1> SUFFICES ASSUME RunLockTypeOK, [RunLockNext]_runLockVars PROVE RunLockTypeOK'
  OBVIOUS
<1> USE DEF RunLockTypeOK, Goto, Steps, Calling
<1>1. ASSUME NEW p \in Pids, TryAcquire(p) PROVE RunLockTypeOK'
  BY <1>1 DEF TryAcquire, Alone, InCall
<1>2. ASSUME NEW p \in Pids, StartRelease(p) PROVE RunLockTypeOK'
  BY <1>2 DEF StartRelease, Alone, InCall
<1>3. ASSUME NEW p \in Pids, WriteTmp(p) PROVE RunLockTypeOK'
  <2>1. ActiveClaim(p) \in Claim /\ ReleasedClaim(p) \in Claim
    BY DEF Claim, ActiveClaim, ReleasedClaim
  <2>2. tmpFile' \in Claim /\ step' \in [Pids -> Steps] /\ \A q \in Pids \ {p} : step'[q] = step[q]
    BY <1>3, <2>1 DEF WriteTmp
  <2> QED BY <1>3, <2>2 DEF WriteTmp
<1>4. ASSUME NEW p \in Pids, Replace(p) PROVE RunLockTypeOK'
  BY <1>4 DEF Replace
<1>5. CASE Expire
  <2>1. lockFile \in Claim
    BY <1>5 DEF Expire, NoClaim
  <2>2. lockFile' \in Claim
    BY <1>5, <2>1 DEF Expire, Claim
  <2> QED BY <1>5, <2>2 DEF Expire
<1>6. ASSUME NEW p \in Pids, Kill(p) \/ Start(p) PROVE RunLockTypeOK'
  BY <1>6 DEF Kill, Start
<1>7. CASE UNCHANGED runLockVars
  BY <1>7 DEF runLockVars
<1> QED BY <1>1, <1>2, <1>3, <1>4, <1>5, <1>6, <1>7 DEF RunLockNext, CallStep

(* The files and the steps are well formed in every reachable state.       *)
THEOREM RunLockTypes == RunLockSpec => []RunLockTypeOK
<1>1. RunLockInit => RunLockTypeOK
  BY DEF RunLockInit, RunLockTypeOK, Steps
<1> QED BY <1>1, RunLockTypesStep, PTL DEF RunLockSpec

-----------------------------------------------------------------------------
(* Whose claim stands in the lock file until his release is renamed over it. *)
Keeping == {"held", "free", "freed"}

(* While calm, one process at a time is in a call, what it has written to    *)
(* the temporary file is what it will rename, and nobody holds the lock that *)
(* it is about to claim.                                                     *)
CalmInv ==
    calm => /\ \A p, q \in Pids : InCall(p) /\ InCall(q) => p = q
            /\ \A p \in Pids :
                  /\ step[p] \notin {"refree", "refreed"}
                  /\ step[p] \in Keeping => Owns(p)
                  /\ step[p] \in {"claim", "claimed"} => \A q \in Pids : step[q] \notin Keeping
                  /\ step[p] = "claimed" => tmpFile = ActiveClaim(p)

(* Claims of different processes differ. *)
LEMMA OneOwner == ASSUME NEW p \in Pids, NEW q \in Pids, Owns(p), Owns(q) PROVE p = q
BY DEF Owns

(* A decision to acquire: with calm', nobody else is in a call, and a claim  *)
(* that is taken over is that of a dead process, which holds nothing.        *)
LEMMA TryKeepsCalm ==
    ASSUME RunLockTypeOK, CalmInv, NEW p \in Pids, TryAcquire(p) PROVE CalmInv'
<1> USE DEF CalmInv, RunLockTypeOK, Goto, InCall, Calling, Keeping, ActiveClaim
<1>1. CASE Blocks(p) /\ Goto(p, "refused") /\ UNCHANGED calm
  BY <1>1 DEF TryAcquire, Owns
<1>2. CASE Owns(p) /\ Goto(p, "held") /\ calm' = (calm /\ Alone(p))
  <2> SUFFICES ASSUME calm' PROVE CalmInv'
    OBVIOUS
  <2>1. calm /\ \A q \in Pids \ {p} : step[q] \notin Calling
    BY <1>2 DEF Alone
  <2>2. \A q \in Pids \ {p} : step[q] \notin Keeping
    BY <1>2, <2>1, OneOwner
  <2>3. step'[p] = "held" /\ \A q \in Pids \ {p} : step'[q] = step[q]
    BY <1>2
  <2> QED BY <1>2, <2>1, <2>2, <2>3 DEF TryAcquire, Owns
<1>3. CASE /\ ~Blocks(p) /\ ~Owns(p) /\ Goto(p, "claim")
           /\ calm' = (calm /\ Alone(p) /\ (lockFile.locked => lockFile.pid \notin alive))
  <2> SUFFICES ASSUME calm' PROVE CalmInv'
    OBVIOUS
  <2>1. calm /\ Alone(p) /\ (lockFile.locked => lockFile.pid \notin alive)
    BY <1>3
  <2>2. \A q \in Pids : step[q] \notin Keeping
    BY <2>1 DEF Owns
  <2> QED BY <1>3, <2>1, <2>2 DEF TryAcquire, Alone, Owns
<1> QED BY <1>1, <1>2, <1>3 DEF TryAcquire

(* A release that begins. *)
LEMMA ReleaseKeepsCalm ==
    ASSUME RunLockTypeOK, CalmInv, NEW p \in Pids, StartRelease(p) PROVE CalmInv'
<1> SUFFICES ASSUME calm' PROVE CalmInv'
  BY DEF CalmInv
<1> USE DEF CalmInv, RunLockTypeOK, Goto, InCall, Calling, Keeping
<1>1. step[p] = "held" /\ step'[p] = "free" /\ calm /\ Alone(p)
  BY DEF StartRelease
<1>2. \A q \in Pids \ {p} : step'[q] = step[q]
  BY DEF StartRelease
<1>3. \A q \in Pids \ {p} : step[q] \notin Keeping /\ step[q] \notin Calling
  BY <1>1, OneOwner DEF Alone
<1> QED BY <1>1, <1>2, <1>3 DEF StartRelease, Owns

(* The temporary file is written by the only process in a call. *)
LEMMA WriteKeepsCalm ==
    ASSUME RunLockTypeOK, CalmInv, NEW p \in Pids, WriteTmp(p) PROVE CalmInv'
<1> USE DEF CalmInv, RunLockTypeOK, Goto, InCall, Calling, Keeping, WriteTmp, Owns
<1>1. CASE step[p] = "claim" /\ tmpFile' = ActiveClaim(p) /\ Goto(p, "claimed")
  BY <1>1
<1>2. CASE step[p] = "free" /\ tmpFile' = ReleasedClaim(p) /\ Goto(p, "freed")
  BY <1>2
<1>3. CASE step[p] = "refree" /\ tmpFile' = ReleasedClaim(p) /\ Goto(p, "refreed")
  BY <1>3
<1> QED BY <1>1, <1>2, <1>3

(* The rename ends a call: the claimant holds the lock, or the owner is out. *)
LEMMA ReplaceKeepsCalm ==
    ASSUME RunLockTypeOK, CalmInv, NEW p \in Pids, Replace(p) PROVE CalmInv'
<1> SUFFICES ASSUME calm PROVE CalmInv'
  BY DEF Replace, CalmInv
<1> USE DEF CalmInv, RunLockTypeOK, Goto, InCall, Calling, Keeping, Owns
<1>0. calm' /\ \A q \in Pids \ {p} : step'[q] = step[q]
  BY DEF Replace
<1>1. CASE step[p] = "claimed"
  <2>1. tmpFile = ActiveClaim(p) /\ tmpFile # NoClaim
    BY <1>1 DEF ActiveClaim, NoClaim
  <2>2. step'[p] = "held" /\ lockFile' = ActiveClaim(p)
    BY <1>1, <2>1 DEF Replace
  <2>3. \A q \in Pids \ {p} : step[q] \notin Keeping /\ step[q] \notin Calling
    BY <1>1
  <2>4. lockFile'.locked /\ lockFile'.pid = p
    BY <2>2 DEF ActiveClaim
  <2> QED BY <1>0, <2>2, <2>3, <2>4
<1>2. CASE step[p] = "freed"
  <2>1. step'[p] \in {"again", "out"}
    BY <1>2 DEF Replace
  <2>2. \A q \in Pids \ {p} : step[q] \notin Keeping /\ step[q] \notin Calling
    BY <1>2, OneOwner
  <2> QED BY <1>0, <2>1, <2>2
<1>3. step[p] # "refreed"
  OBVIOUS
<1> QED BY <1>1, <1>2, <1>3 DEF Replace

(* Time, deaths and restarts. *)
LEMMA OthersKeepCalm ==
    ASSUME RunLockTypeOK, CalmInv, Expire \/ \E p \in Pids : Kill(p) \/ Start(p) PROVE CalmInv'
<1> USE DEF CalmInv, RunLockTypeOK, Goto, InCall, Calling, Keeping, Owns
<1>1. CASE Expire
  <2>1. lockFile \in Claim
    BY <1>1 DEF Expire, NoClaim
  <2>2. lockFile'.locked = lockFile.locked /\ lockFile'.pid = lockFile.pid
    BY <1>1, <2>1 DEF Expire, Claim
  <2> QED BY <1>1, <2>2 DEF Expire
<1>2. ASSUME NEW p \in Pids, Kill(p) PROVE CalmInv'
  BY <1>2 DEF Kill
<1>3. ASSUME NEW p \in Pids, Start(p) PROVE CalmInv'
  BY <1>3 DEF Start
<1> QED BY <1>1, <1>2, <1>3

(* What the lock promises, for any number of processes: while calls do not   *)
(* overlap, no claim outlives max_age_sec and nobody releases twice, at most *)
(* one process holds the lock and the file names it.                         *)
THEOREM RunLockExcludes == RunLockSpec => []ExclusiveWhenCalm
<1>1. RunLockInit => CalmInv
  BY DEF RunLockInit, CalmInv, InCall, Calling, Keeping
<1>2. RunLockTypeOK /\ CalmInv /\ [RunLockNext]_runLockVars => CalmInv'
  <2> SUFFICES ASSUME RunLockTypeOK, CalmInv, [RunLockNext]_runLockVars PROVE CalmInv'
    OBVIOUS
  <2>1. CASE UNCHANGED runLockVars
    BY <2>1 DEF runLockVars, CalmInv, InCall, Owns
  <2>2. CASE RunLockNext
    BY <2>2, TryKeepsCalm, ReleaseKeepsCalm, WriteKeepsCalm, ReplaceKeepsCalm, OthersKeepCalm
      DEF RunLockNext, CallStep
  <2> QED BY <2>1, <2>2
<1>3. CalmInv => ExclusiveWhenCalm
  BY OneOwner DEF CalmInv, ExclusiveWhenCalm, Keeping
<1> QED BY <1>1, <1>2, <1>3, RunLockTypes, PTL DEF RunLockSpec

-----------------------------------------------------------------------------
(***************************************************************************)
(* The risk halt, for every set of threads and reasons and every streak.  The*)
(* file says something reliable only when it is not being written, so the  *)
(* invariant has to follow a write through: while nothing is spoiled, one  *)
(* thread at most is writing, and when it finishes the file says exactly   *)
(* whether a halt is owed (OneWriter, FileTellsOwed).  For the thread that *)
(* clears it has to relate what was loaded to what the file says now       *)
(* (LoadedStands) and to the reasons it hides (RestHidden).                *)
(***************************************************************************)

USE RiskHaltAssumption

-----------------------------------------------------------------------------
(* Definitions *)

(* No thread is at work on the file between two sessions. *)
QuietBetween == ~session => \A t \in Threads : writer[t] = Idle

(* The reason a thread is entitled to clear, where it stands. *)
ClearedBy(t) == IF t = "cycle" /\ stage = "check" THEN "slo_failover" ELSE "db_write_fail"

(* A thread that is about to clear has loaded the reason it may clear. *)
LoadedItsReason == \A t \in Threads : writer[t].doing = "loaded" => writer[t].what = ClearedBy(t)

(* What it has loaded still stands if nobody has written since. *)
LoadedStands ==
    \A t \in Threads :
        writer[t].doing = "loaded" /\ ~haltOvertaken[t] => haltFile = writer[t].what /\ Halted

(* The reasons owed but not in the file are the hidden ones. *)
RestHidden == Halted => owed \subseteq hidden \cup {haltFile}

(* A write that nothing has spoiled is the only one, its text is whole, and  *)
(* a clear wipes out what was owed when it began.                            *)
OneWriter ==
    ~spoiled => \A t \in Writing :
        /\ Writing = {t} /\ ~writer[t].beaten
        /\ writer[t].what = "clear" => owed = {}

FileTellsOwed == ~spoiled /\ Writing = {} /\ owed # {} => Halted

HaltInv ==
    /\ HaltTypeOK
    /\ QuietBetween /\ LoadedItsReason /\ LoadedStands /\ RestHidden
    /\ OneWriter /\ FileTellsOwed

-----------------------------------------------------------------------------
(* The steps, by what they do to the file *)

LEMMA IdleFacts == Idle \in WriterStates /\ Idle.doing = "idle"
BY DEF Idle, WriterStates

(* "clear" and "unreadable" are no reasons. *)
LEMMA ReasonFacts ==
    /\ "clear" \notin Reasons /\ "unreadable" \notin Reasons
    /\ "readiness_gate_fail" \in Reasons
    /\ \A t \in Threads : RaisedBy[t] \subseteq Reasons
<1>1. \A t \in Threads : "clear" \notin RaisedBy[t] /\ "unreadable" \notin RaisedBy[t]
  OBVIOUS
<1>3. \A t \in Threads : RaisedBy[t] \subseteq Reasons
  BY DEF Reasons
<1>4. \A r \in Reasons : r = "readiness_gate_fail" \/ \E t \in Threads : r \in RaisedBy[t]
  BY DEF Reasons
<1>5. "readiness_gate_fail" \in Reasons
  BY DEF Reasons
<1>6. "clear" # "readiness_gate_fail" /\ "unreadable" # "readiness_gate_fail"
  OBVIOUS
<1> QED
  BY <1>1, <1>3, <1>4, <1>5, <1>6

(* A write that begins makes the file unreadable and overtakes whoever has   *)
(* loaded it.                                                                *)
LEMMA TruncateKeepsInv ==
    ASSUME HaltInv, session, NEW t \in Threads, NEW what \in Reasons \cup {"clear"},
           writer[t].doing # "writing", TruncateHalt(t, what), raises' \in 0 .. MaxRaises,
           UNCHANGED <<session, stage, okStreak, flat, sloMet>>
    PROVE  HaltInv'
<1> DEFINE w == [doing |-> "writing", what |-> what, beaten |-> FALSE]
<1>1. HaltTypeOK /\ writer \in [Threads -> WriterStates]
  BY DEF HaltInv, HaltTypeOK
<1>2. /\ w \in WriterStates /\ w.doing = "writing" /\ w.what = what /\ ~w.beaten
      /\ writer' = [writer EXCEPT ![t] = w]
  BY DEF TruncateHalt, WriterStates
<1> HIDE DEF w
<1>3. /\ writer' \in [Threads -> WriterStates] /\ writer'[t] = w
      /\ \A u \in Threads \ {t} : writer'[u] = writer[u]
  BY <1>1, <1>2
<1>4. /\ haltFile' = "unreadable" /\ ~Halted'
      /\ haltOvertaken' \in [Threads -> BOOLEAN]
      /\ \A u \in Threads \ {t} : haltOvertaken'[u]
      /\ spoiled' = (Writing \ {t} # {})
  BY <1>1, ReasonFacts DEF TruncateHalt, Halted, HaltTypeOK, Reasons
<1>5. owed' \subseteq Reasons /\ hidden' \subseteq owed' /\ (what = "clear" => owed' = {})
  BY <1>1 DEF TruncateHalt, HaltTypeOK
<1>6. HaltTypeOK'
  BY <1>1, <1>3, <1>4, <1>5 DEF HaltTypeOK, Contents, Reasons
<1>7. QuietBetween' /\ RestHidden'
  BY <1>4 DEF QuietBetween, RestHidden
<1>8. LoadedItsReason' /\ LoadedStands'
  BY <1>2, <1>3, <1>4 DEF HaltInv, LoadedItsReason, LoadedStands, ClearedBy
<1>9. Writing' = (Writing \ {t}) \cup {t}
  BY <1>2, <1>3 DEF Writing
<1>10. OneWriter' /\ FileTellsOwed'
  BY <1>2, <1>3, <1>4, <1>5, <1>9 DEF OneWriter, FileTellsOwed
<1> QED
  BY <1>6, <1>7, <1>8, <1>10 DEF HaltInv

LEMMA RaiseKeepsInv ==
    ASSUME HaltInv, NEW t \in Threads, NEW r \in RaisedBy[t], RaiseHalt(t, r)
    PROVE  HaltInv'
<1>1. r \in Reasons /\ raises' \in 0 .. MaxRaises
  BY ReasonFacts DEF RaiseHalt, HaltInv, HaltTypeOK
<1> QED
  BY <1>1, TruncateKeepsInv DEF RaiseHalt

LEMMA BeginClearKeepsInv ==
    ASSUME HaltInv, NEW t \in Threads, BeginClear(t)
    PROVE  HaltInv'
<1>1. session
  BY IdleFacts DEF BeginClear, HaltInv, QuietBetween, HaltTypeOK
<1> QED
  BY <1>1, TruncateKeepsInv DEF BeginClear, HaltInv, HaltTypeOK

(* A write that ends: a whole text unless another write has begun since.     *)
LEMMA FinishKeepsInv ==
    ASSUME HaltInv, NEW t \in Threads, FinishWrite(t)
    PROVE  HaltInv'
<1>1. /\ HaltTypeOK /\ writer \in [Threads -> WriterStates] /\ t \in Writing
      /\ writer[t].what \in Reasons \cup {"clear"}
  BY DEF HaltInv, HaltTypeOK, FinishWrite, Writing, WriterStates
<1>2. /\ writer' \in [Threads -> WriterStates] /\ writer'[t] = Idle
      /\ \A u \in Threads \ {t} :
            /\ writer'[u].doing = writer[u].doing
            /\ writer'[u].what = writer[u].what
            /\ writer[u].doing # "writing" => writer'[u] = writer[u]
  <2>1. ASSUME NEW u \in Threads \ {t}
        PROVE  /\ writer'[u] = [writer[u] EXCEPT !.beaten = @ \/ u \in Writing]
               /\ writer[u] \in WriterStates
    BY <1>1 DEF FinishWrite
  <2>2. ASSUME NEW u \in Threads \ {t}
        PROVE  /\ writer'[u] \in WriterStates /\ writer'[u].doing = writer[u].doing
               /\ writer'[u].what = writer[u].what
               /\ writer[u].doing # "writing" => writer'[u] = writer[u]
    <3>1. CASE writer[u].doing = "writing"
      <4>1. writer'[u] = [writer[u] EXCEPT !.beaten = TRUE]
        BY <2>1, <2>2, <3>1 DEF Writing
      <4> QED
        BY <2>1, <2>2, <3>1, <4>1 DEF WriterStates
    <3>2. CASE writer[u].doing # "writing"
      <4>1. u \notin Writing
        BY <3>2 DEF Writing
      <4>2. writer[u].beaten \in BOOLEAN
        BY <2>1, <2>2 DEF WriterStates
      <4>3. writer'[u] = [writer[u] EXCEPT !.beaten = writer[u].beaten]
        BY <2>1, <2>2, <4>1, <4>2
      <4>4. writer'[u] = writer[u]
        BY <2>1, <2>2, <4>3 DEF WriterStates
      <4> QED
        BY <2>1, <2>2, <4>4
    <3> QED
      BY <3>1, <3>2
  <2>3. writer'[t] = Idle /\ writer' = [u \in Threads |-> writer'[u]]
    BY DEF FinishWrite
  <2> QED
    BY <2>2, <2>3, IdleFacts
<1>3. /\ haltOvertaken' \in [Threads -> BOOLEAN]
      /\ \A u \in Threads \ {t} : haltOvertaken'[u]
      /\ session' = session /\ stage' = stage /\ spoiled' = spoiled /\ owed' = owed
      /\ hidden' = IF writer[t].what = "clear" THEN hidden ELSE owed \ {writer[t].what}
      /\ haltFile' = writer[t].what \/ (writer[t].beaten /\ haltFile' = "unreadable")
  BY <1>1 DEF FinishWrite, HaltTypeOK
<1>4. HaltTypeOK'
  BY <1>1, <1>2, <1>3 DEF HaltTypeOK, FinishWrite, Contents, Reasons
<1>5. session
  BY <1>1, IdleFacts DEF HaltInv, QuietBetween, Writing
<1>6. QuietBetween' /\ RestHidden'
  BY <1>3, <1>5, ReasonFacts DEF QuietBetween, RestHidden, Halted, Reasons
<1>7. LoadedItsReason' /\ LoadedStands'
  <2> SUFFICES ASSUME NEW u \in Threads, writer'[u].doing = "loaded"
               PROVE  writer'[u].what = ClearedBy(u) /\ haltOvertaken'[u]
    BY <1>3 DEF LoadedItsReason, LoadedStands, ClearedBy
  <2>1. u # t /\ writer[u].doing = "loaded" /\ writer'[u].what = writer[u].what
    BY <1>2, IdleFacts
  <2> QED
    BY <1>3, <2>1 DEF HaltInv, LoadedItsReason
<1>8. Writing' = Writing \ {t}
  <2>1. \A u \in Threads \ {t} : writer'[u].doing = "writing" <=> writer[u].doing = "writing"
    BY <1>2
  <2>2. writer'[t].doing # "writing"
    BY <1>2, IdleFacts
  <2> QED
    BY <2>1, <2>2 DEF Writing
<1>9. OneWriter' /\ FileTellsOwed'
  <2> SUFFICES ASSUME ~spoiled PROVE OneWriter' /\ FileTellsOwed'
    BY <1>3 DEF OneWriter, FileTellsOwed
  <2>1. Writing = {t} /\ ~writer[t].beaten /\ (writer[t].what = "clear" => owed = {})
    BY <1>1 DEF HaltInv, OneWriter
  <2>2. Writing' = {} /\ haltFile' = writer[t].what
    BY <1>3, <1>8, <2>1
  <2>3. owed' # {} => Halted'
    BY <1>1, <1>3, <2>1, <2>2 DEF Halted, Reasons
  <2> QED
    BY <2>2, <2>3 DEF OneWriter, FileTellsOwed
<1> QED
  BY <1>4, <1>6, <1>7, <1>9 DEF HaltInv

(* A decision to clear: the thread has loaded what the file says now. *)
LEMMA DecideKeepsInv ==
    ASSUME HaltInv, session, NEW t \in Threads, NEW r, writer[t].doing # "writing",
           Decide(t, r), r \notin {"clear", "unreadable"},
           r = IF t = "cycle" /\ stage' = "check" THEN "slo_failover" ELSE "db_write_fail",
           \A u \in Threads \ {t} : u = "cycle" => stage' = stage,
           stage' \in {"top", "check", "trade"}, okStreak' \in 0 .. Streak - 1,
           UNCHANGED <<haltFile, session, flat, sloMet, raises, owed, hidden, spoiled>>
    PROVE  HaltInv'
<1> DEFINE w == [doing |-> "loaded", what |-> r, beaten |-> FALSE]
<1>1. HaltTypeOK /\ writer \in [Threads -> WriterStates] /\ haltFile = r /\ r \in Reasons
  BY DEF HaltInv, HaltTypeOK, Decide, Contents
<1>2. /\ w \in WriterStates /\ w.doing = "loaded" /\ w.what = r
      /\ writer' = [writer EXCEPT ![t] = w]
  BY <1>1 DEF Decide, WriterStates
<1> HIDE DEF w
<1>3. /\ writer' \in [Threads -> WriterStates] /\ writer'[t] = w
      /\ \A u \in Threads \ {t} : writer'[u] = writer[u]
      /\ haltOvertaken' \in [Threads -> BOOLEAN]
      /\ \A u \in Threads \ {t} : haltOvertaken'[u] = haltOvertaken[u]
  BY <1>1, <1>2 DEF Decide, HaltTypeOK
<1>4. HaltTypeOK' /\ QuietBetween' /\ RestHidden'
  BY <1>1, <1>3 DEF HaltTypeOK, QuietBetween, HaltInv, RestHidden, Halted
<1>5. LoadedItsReason'
  BY <1>2, <1>3 DEF HaltInv, LoadedItsReason, ClearedBy
<1>6. LoadedStands'
  BY <1>1, <1>2, <1>3 DEF HaltInv, LoadedStands, Halted
<1>7. Writing' = Writing /\ \A u \in Writing : writer'[u] = writer[u]
  BY <1>2, <1>3 DEF Writing
<1>8. OneWriter' /\ FileTellsOwed'
  BY <1>7 DEF HaltInv, OneWriter, FileTellsOwed, Halted
<1> QED
  BY <1>4, <1>5, <1>6, <1>8 DEF HaltInv

LEMMA AuthKeepsInv ==
    ASSUME HaltInv, NEW t \in Threads, AuthClear(t)
    PROVE  HaltInv'
<1>1. stage \in {"top", "check", "trade"} /\ okStreak \in 0 .. Streak - 1
  BY DEF HaltInv, HaltTypeOK
<1>2. "db_write_fail" = IF t = "cycle" /\ stage' = "check" THEN "slo_failover" ELSE "db_write_fail"
  BY DEF AuthClear
<1> QED
  BY <1>1, <1>2, DecideKeepsInv DEF AuthClear, DecideOn

(* Steps that leave the file and the writers alone: the cycle moves between  *)
(* its stages only while it is idle.                                         *)
LEMMA CycleMovesKeepInv ==
    ASSUME HaltInv,
           writer["cycle"].doing = "idle" \/ stage' = stage,
           stage' \in {"top", "check", "trade"}, okStreak' \in 0 .. Streak - 1,
           flat' \in BOOLEAN, sloMet' \in BOOLEAN,
           UNCHANGED <<haltFile, session, writer, raises, owed, hidden, haltOvertaken, spoiled>>
    PROVE  HaltInv'
<1>1. HaltTypeOK' /\ QuietBetween' /\ LoadedStands' /\ RestHidden' /\ OneWriter' /\ FileTellsOwed'
  BY DEF HaltInv, HaltTypeOK, QuietBetween, LoadedStands, RestHidden, OneWriter, FileTellsOwed,
         Halted, Writing
<1>2. LoadedItsReason'
  BY DEF HaltInv, LoadedItsReason, ClearedBy
<1> QED
  BY <1>1, <1>2 DEF HaltInv

LEMMA CycleKeepsInv ==
    ASSUME HaltInv, CycleStep
    PROVE  HaltInv'
<1>1. HaltTypeOK /\ Streak \in Nat \ {0} /\ "cycle" \in Threads
  BY DEF HaltInv
<1>2. CASE SloClear
  <2> DEFINE n == CountHealthy("slo_failover")
  <2>1. n \in Nat /\ (n > 0 => haltFile = "slo_failover")
    BY <1>1 DEF CountHealthy, HaltTypeOK
  <2>2. CASE n >= Streak
    <3>1. Decide("cycle", "slo_failover") /\ okStreak' = 0
      BY <1>2, <2>2 DEF SloClear, DecideOn
    <3> QED
      BY <1>1, <1>2, <3>1, DecideKeepsInv DEF SloClear
  <2>3. CASE ~(n >= Streak)
    <3>1. okStreak' = n /\ UNCHANGED <<writer, haltOvertaken>>
      BY <1>2, <2>3 DEF SloClear
    <3>2. okStreak' \in 0 .. Streak - 1
      BY <1>1, <2>1, <2>3, <3>1
    <3> HIDE DEF n
    <3> QED
      BY <1>1, <1>2, <3>1, <3>2, CycleMovesKeepInv DEF SloClear, HaltTypeOK
  <2> QED
    BY <2>2, <2>3
<1>3. CASE CheckHalt \/ EndTradingCycle
  BY <1>1, <1>3, CycleMovesKeepInv DEF CheckHalt, EndTradingCycle, HaltTypeOK
<1> QED
  BY <1>2, <1>3 DEF CycleStep

(* The start of a session, while no thread touches the file. *)
LEMMA StartKeepsInv ==
    ASSUME HaltInv, StartSession
    PROVE  HaltInv'
<1> DEFINE cleared == haltFile = "db_write_fail" \/ (Halted /\ flat)
<1>1. /\ HaltTypeOK /\ ~session /\ Writing = {}
      /\ \A t \in Threads : writer[t] = Idle
      /\ UNCHANGED <<stage, writer, okStreak, flat, sloMet, raises, haltOvertaken>>
  BY IdleFacts DEF HaltInv, QuietBetween, StartSession, Writing
<1>2. QuietBetween' /\ LoadedItsReason' /\ LoadedStands' /\ OneWriter' /\ Writing' = {}
  BY <1>1, IdleFacts
  DEF QuietBetween, LoadedItsReason, LoadedStands, OneWriter, Writing
<1>3. CASE /\ session' = TRUE
           /\ haltFile' = IF cleared THEN "clear" ELSE haltFile
           /\ owed' = IF cleared THEN {} ELSE owed
           /\ hidden' = IF cleared THEN {} ELSE hidden
           /\ UNCHANGED spoiled
  <2>1. HaltTypeOK'
    BY <1>1, <1>3 DEF HaltTypeOK, Contents
  <2>2. RestHidden' /\ FileTellsOwed'
    BY <1>1, <1>3 DEF HaltInv, RestHidden, FileTellsOwed, Halted
  <2> QED
    BY <1>2, <2>1, <2>2 DEF HaltInv
<1>4. CASE /\ UNCHANGED session
           /\ haltFile' = "readiness_gate_fail"
           /\ owed' = {"readiness_gate_fail"} \cup (IF cleared THEN {} ELSE owed)
           /\ hidden' = IF cleared THEN {} ELSE owed
           /\ spoiled' = FALSE
  <2>1. HaltTypeOK'
    BY <1>1, <1>4, ReasonFacts DEF HaltTypeOK, Contents
  <2>2. RestHidden' /\ FileTellsOwed'
    BY <1>1, <1>4, ReasonFacts DEF RestHidden, FileTellsOwed, Halted
  <2> QED
    BY <1>2, <2>1, <2>2 DEF HaltInv
<1> QED
  BY <1>3, <1>4 DEF StartSession

(* A process that dies leaves the file as it is, and whole unless it died    *)
(* writing.                                                                  *)
LEMMA KillKeepsInv ==
    ASSUME HaltInv, KillSession
    PROVE  HaltInv'
<1>1. /\ HaltTypeOK /\ Streak \in Nat \ {0}
      /\ writer' = [t \in Threads |-> Idle] /\ spoiled' = (spoiled \/ Writing # {})
      /\ UNCHANGED <<haltFile, flat, sloMet, raises, owed, hidden, haltOvertaken>>
  BY DEF HaltInv, KillSession
<1>2. HaltTypeOK'
  <2>1. writer' \in [Threads -> WriterStates] /\ spoiled' \in BOOLEAN
    BY <1>1, IdleFacts
  <2>2. session' \in BOOLEAN
    BY DEF KillSession
  <2>3. stage' \in {"top", "check", "trade"} /\ okStreak' \in 0 .. Streak - 1
    BY DEF KillSession
  <2> QED
    BY <1>1, <2>1, <2>2, <2>3 DEF HaltTypeOK
<1>3. QuietBetween' /\ LoadedItsReason' /\ LoadedStands' /\ OneWriter' /\ Writing' = {}
  BY <1>1, IdleFacts
  DEF QuietBetween, LoadedItsReason, LoadedStands, OneWriter, Writing
<1>4. RestHidden' /\ FileTellsOwed'
  BY <1>1 DEF HaltInv, RestHidden, FileTellsOwed, Halted
<1> QED
  BY <1>2, <1>3, <1>4 DEF HaltInv

LEMMA InitHalt == HaltInit => HaltInv
<1> SUFFICES ASSUME HaltInit PROVE HaltInv
  OBVIOUS
<1>1. HaltTypeOK
  <2>1. writer \in [Threads -> WriterStates] /\ haltOvertaken \in [Threads -> BOOLEAN]
    BY IdleFacts DEF HaltInit
  <2>2. {session, flat, sloMet, spoiled} \subseteq BOOLEAN
    BY DEF HaltInit
  <2>3. okStreak \in 0 .. Streak - 1 /\ raises \in 0 .. MaxRaises /\ stage = "top"
    BY DEF HaltInit
  <2>4. haltFile \in Contents /\ owed \subseteq Reasons /\ hidden \subseteq owed
    BY DEF HaltInit, Contents
  <2> QED
    BY <2>1, <2>2, <2>3, <2>4 DEF HaltTypeOK
<1>2. /\ QuietBetween /\ LoadedItsReason /\ LoadedStands /\ RestHidden
      /\ OneWriter /\ FileTellsOwed
  BY IdleFacts DEF HaltInit, QuietBetween, LoadedItsReason, LoadedStands, RestHidden, OneWriter,
                   FileTellsOwed, Writing
<1> QED
  BY <1>1, <1>2 DEF HaltInv

LEMMA StepHalt ==
    ASSUME HaltInv, [HaltNext]_haltVars
    PROVE  HaltInv'
<1>1. ASSUME NEW t \in Threads, FinishWrite(t) \/ BeginClear(t) \/ AuthClear(t)
      PROVE  HaltInv'
  BY <1>1, FinishKeepsInv, BeginClearKeepsInv, AuthKeepsInv
<1>2. ASSUME NEW t \in Threads, NEW r \in RaisedBy[t], RaiseHalt(t, r)
      PROVE  HaltInv'
  BY <1>2, RaiseKeepsInv
<1>3. CASE CycleStep \/ StartSession \/ KillSession
  BY <1>3, CycleKeepsInv, StartKeepsInv, KillKeepsInv
<1>4. CASE Turn
  BY <1>4, CycleMovesKeepInv DEF Turn, HaltInv, HaltTypeOK
<1>5. CASE UNCHANGED haltVars
  BY <1>5, CycleMovesKeepInv DEF haltVars, HaltInv, HaltTypeOK
<1> QED
  BY <1>1, <1>2, <1>3, <1>4, <1>5 DEF HaltNext

(* The inductive invariant: what the file says, against who is writing it,   *)
(* what was loaded from it and what it owes.                                 *)
THEOREM HaltInvariant == HaltSpec => []HaltInv
BY InitHalt, StepHalt, PTL DEF HaltSpec

-----------------------------------------------------------------------------
(* The properties *)

(* File, writers, streak and histories stay well typed; in particular the    *)
(* streak never reaches the length that clears.                              *)
THEOREM HaltTypes == HaltSpec => []HaltTypeOK
<1>1. HaltInv => HaltTypeOK
  BY DEF HaltInv
<1> QED
  BY <1>1, HaltInvariant, PTL

(* A halt that was raised and not cleared stands, over any number of         *)
(* sessions, unless two writes overlapped or one was cut short.              *)
THEOREM HaltPersists == HaltSpec => []HaltStands
<1>1. HaltInv => HaltStands
  BY DEF HaltInv, FileTellsOwed, HaltStands
<1> QED
  BY <1>1, HaltInvariant, PTL

(* A running session clears no halt but the one it may clear, and those this *)
(* one had overwritten, unless a halt was raised after it read the file.     *)
THEOREM HaltClearsItsReason == HaltSpec => ClearsOnlyItsReason
<1>1. HaltInv /\ [HaltNext]_haltVars =>
        [\A t \in Threads :
            writer[t].doing = "loaded" /\ writer'[t].doing = "writing" =>
               \/ owed \subseteq hidden \cup (IF t = "cycle" /\ stage = "check"
                                                THEN {"slo_failover"} ELSE {"db_write_fail"})
               \/ haltOvertaken[t]]_haltVars
  <2> SUFFICES ASSUME HaltInv, NEW t \in Threads, writer[t].doing = "loaded", ~haltOvertaken[t]
               PROVE  owed \subseteq hidden \cup (IF t = "cycle" /\ stage = "check"
                                                  THEN {"slo_failover"} ELSE {"db_write_fail"})
    OBVIOUS
  <2>1. haltFile = ClearedBy(t) /\ Halted
    BY DEF HaltInv, LoadedItsReason, LoadedStands
  <2>2. owed \subseteq hidden \cup {ClearedBy(t)}
    BY <2>1 DEF HaltInv, RestHidden
  <2> QED
    BY <2>2 DEF ClearedBy
<1> QED
  BY <1>1, HaltInvariant, PTL DEF HaltSpec, ClearsOnlyItsReason

-----------------------------------------------------------------------------
(***************************************************************************)
(* The breaker.  A thread saves on the strength of what it has loaded, so  *)
(* the action property needs an invariant about loaded values: as long as  *)
(* nobody has saved in between, what a thread has loaded is still what the *)
(* file holds.                                                             *)
(***************************************************************************)

USE BreakerAssumption

BreakerEntry == [stage : {"idle", "save", "saving", "clear", "clearing"}, what : 0 .. MaxTrips]

(* BreakerTypeOK is not inductive: Write needs that a thread writes a trip   *)
(* that has been counted.                                                    *)
Counted == \A u \in Users : doing[u].what \in 0 .. trips

(* What was loaded is still there. *)
LoadedIsCurrent ==
    \A u \in Users : ~breakerOvertaken[u] =>
        /\ doing[u].stage = "save" => breaker = 0
        /\ doing[u].stage = "clear" => breaker = doing[u].what

BreakerInv == BreakerTypeOK /\ Counted /\ LoadedIsCurrent

(* Initially no thread holds anything. *)
LEMMA BreakerInitially == BreakerInit => BreakerInv
BY DEF BreakerInit, BreakerInv, BreakerTypeOK, Counted, LoadedIsCurrent, Resting

(* What Do does to the entry of the thread and to those of the others. *)
LEMMA DoEntries ==
    ASSUME BreakerTypeOK, NEW u \in Users, NEW STATE s, NEW STATE w, Do(u, s, w)
    PROVE  /\ doing'[u] = [stage |-> s, what |-> w]
           /\ \A v \in Users \ {u} : doing'[v] = doing[v]
           /\ doing' = [doing EXCEPT ![u] = [stage |-> s, what |-> w]]
BY DEF BreakerTypeOK, Do

(* Loads: the thread holds the next trip, or the one in the file. *)
LEMMA LoadsKeepInv ==
    ASSUME BreakerInv, NEW u \in Users, LoadForTrip(u) \/ LoadForClear(u)
    PROVE  BreakerInv'
<1> USE DEF BreakerInv
<1>1. CASE LoadForTrip(u)
  <2>1. /\ doing'[u] = [stage |-> "save", what |-> trips + 1]
        /\ \A v \in Users \ {u} : doing'[v] = doing[v]
        /\ doing' = [doing EXCEPT ![u] = [stage |-> "save", what |-> trips + 1]]
    BY <1>1, DoEntries DEF LoadForTrip
  <2>2. BreakerTypeOK'
    BY <1>1, <2>1 DEF LoadForTrip, BreakerTypeOK
  <2>3. Counted'
    BY <1>1, <2>1 DEF LoadForTrip, BreakerTypeOK, Counted
  <2>4. LoadedIsCurrent'
    BY <1>1, <2>1 DEF LoadForTrip, BreakerTypeOK, LoadedIsCurrent, Tripped
  <2> QED BY <2>2, <2>3, <2>4
<1>2. CASE LoadForClear(u)
  <2>1. /\ doing'[u] = [stage |-> "clear", what |-> breaker]
        /\ \A v \in Users \ {u} : doing'[v] = doing[v]
        /\ doing' = [doing EXCEPT ![u] = [stage |-> "clear", what |-> breaker]]
    BY <1>2, DoEntries DEF LoadForClear
  <2>2. BreakerTypeOK'
    BY <1>2, <2>1 DEF LoadForClear, BreakerTypeOK, MayClear, Tripped
  <2>3. Counted'
    BY <1>2, <2>1 DEF LoadForClear, BreakerTypeOK, Counted
  <2>4. LoadedIsCurrent'
    BY <1>2, <2>1 DEF LoadForClear, BreakerTypeOK, LoadedIsCurrent
  <2> QED BY <2>2, <2>3, <2>4
<1> QED BY <1>1, <1>2

(* Saves: whoever else holds a loaded value is overtaken. *)
LEMMA SavesKeepInv ==
    ASSUME BreakerInv, NEW u \in Users, TruncateBreaker(u) \/ Write(u)
    PROVE  BreakerInv'
<1> USE DEF BreakerInv
<1>1. CASE TruncateBreaker(u)
  <2> DEFINE next == IF doing[u].stage = "save" THEN "saving" ELSE "clearing"
  <2>1. /\ doing'[u] = [stage |-> next, what |-> doing[u].what]
        /\ \A v \in Users \ {u} : doing'[v] = doing[v]
        /\ doing' = [doing EXCEPT ![u] = [stage |-> next, what |-> doing[u].what]]
    BY <1>1, DoEntries DEF TruncateBreaker
  <2>2. BreakerTypeOK'
    BY <1>1, <2>1 DEF TruncateBreaker, BreakerTypeOK
  <2>3. Counted'
    BY <1>1, <2>1 DEF TruncateBreaker, BreakerTypeOK, Counted
  <2>4. LoadedIsCurrent'
    BY <1>1, <2>1 DEF TruncateBreaker, BreakerTypeOK, LoadedIsCurrent
  <2> QED BY <2>2, <2>3, <2>4
<1>2. CASE Write(u)
  <2>1. /\ doing'[u] = [stage |-> "idle", what |-> 0]
        /\ \A v \in Users \ {u} : doing'[v] = doing[v]
        /\ doing' = [doing EXCEPT ![u] = [stage |-> "idle", what |-> 0]]
    BY <1>2, DoEntries DEF Write
  <2>2. BreakerTypeOK'
    BY <1>2, <2>1 DEF Write, BreakerTypeOK, Counted
  <2>3. Counted'
    BY <1>2, <2>1 DEF Write, BreakerTypeOK, Counted
  <2>4. LoadedIsCurrent'
    BY <1>2, <2>1 DEF Write, BreakerTypeOK, LoadedIsCurrent
  <2> QED BY <2>2, <2>3, <2>4
<1> QED BY <1>1, <1>2

(* Every step keeps the invariant. *)
LEMMA BreakerStep == BreakerInv /\ [BreakerNext]_breakerVars => BreakerInv'
<1> SUFFICES ASSUME BreakerInv, [BreakerNext]_breakerVars PROVE BreakerInv'
  OBVIOUS
<1>1. CASE \E u \in Users : LoadForTrip(u) \/ Check(u)
  BY <1>1, LoadsKeepInv, SavesKeepInv DEF Check
<1>2. CASE BlockTimePasses
  BY <1>2 DEF BlockTimePasses, BreakerInv, BreakerTypeOK, Counted, LoadedIsCurrent, Tripped
<1>3. CASE FeedChanges
  BY <1>3 DEF FeedChanges, BreakerInv, BreakerTypeOK, Counted, LoadedIsCurrent
<1>4. CASE UNCHANGED breakerVars
  BY <1>4 DEF breakerVars, BreakerInv, BreakerTypeOK, Counted, LoadedIsCurrent
<1> QED BY <1>1, <1>2, <1>3, <1>4 DEF BreakerNext

(* BreakerInv holds in every reachable state. *)
LEMMA BreakerInvariant == BreakerSpec => []BreakerInv
<1>1. BreakerInit => BreakerInv
  BY BreakerInitially
<1>2. BreakerInv /\ [BreakerNext]_breakerVars => BreakerInv'
  BY BreakerStep
<1> QED BY <1>1, <1>2, PTL DEF BreakerSpec

(* The breaker file and what its users hold are well formed. *)
THEOREM BreakerTypes == BreakerSpec => []BreakerTypeOK
<1>1. BreakerInv => BreakerTypeOK
  BY DEF BreakerInv
<1> QED BY <1>1, BreakerInvariant, PTL

(* A standing trip is wiped out by the clear that has read it or by          *)
(* overlapping saves, and by nothing else.                                   *)
THEOREM BreakerKeepsTrips == BreakerSpec => StandingTripIsKept
<1> DEFINE Kept ==
      \A u \in Users :
          Tripped /\ doing'[u].stage \in {"saving", "clearing"} /\ doing[u] # doing'[u] =>
              \/ doing[u] = [stage |-> "clear", what |-> breaker]
              \/ breakerOvertaken[u]
<1>1. BreakerInv /\ [BreakerNext]_breakerVars => [Kept]_breakerVars
  <2> SUFFICES ASSUME BreakerInv, BreakerNext,
                      NEW u \in Users, Tripped, doing'[u].stage \in {"saving", "clearing"},
                      doing[u] # doing'[u], ~breakerOvertaken[u]
               PROVE  doing[u] = [stage |-> "clear", what |-> breaker]
    BY DEF BreakerInv
  <2>0. BreakerTypeOK /\ LoadedIsCurrent
    BY DEF BreakerInv
  <2>1. TruncateBreaker(u)
    <3>1. ASSUME NEW v \in Users, LoadForTrip(v) PROVE FALSE
      BY <2>0, <3>1, DoEntries DEF LoadForTrip
    <3>2. ASSUME NEW v \in Users, LoadForClear(v) PROVE FALSE
      <4>1. doing'[v] = [stage |-> "clear", what |-> breaker] /\ \A x \in Users \ {v} : doing'[x] = doing[x]
        BY <2>0, <3>2, DoEntries DEF LoadForClear
      <4> QED BY <4>1
    <3>3. ASSUME NEW v \in Users, Write(v) PROVE FALSE
      <4>1. doing'[v] = [stage |-> "idle", what |-> 0] /\ \A x \in Users \ {v} : doing'[x] = doing[x]
        BY <2>0, <3>3, DoEntries DEF Write
      <4> QED BY <4>1
    <3>4. ASSUME NEW v \in Users, TruncateBreaker(v) PROVE v = u
      BY <2>0, <3>4, DoEntries DEF TruncateBreaker
    <3>5. CASE BlockTimePasses \/ FeedChanges
      BY <3>5 DEF BlockTimePasses, FeedChanges
    <3> QED BY <3>1, <3>2, <3>3, <3>4, <3>5 DEF BreakerNext, Check
  <2>2. doing[u].stage \in {"save", "clear"}
    BY <2>1 DEF TruncateBreaker
  <2>3. doing[u].stage = "clear" /\ doing[u].what = breaker
    BY <2>0, <2>2 DEF LoadedIsCurrent, Tripped
  <2>4. doing[u] \in BreakerEntry
    BY <2>0 DEF BreakerTypeOK, BreakerEntry
  <2> QED BY <2>3, <2>4 DEF BreakerEntry
<1> QED BY <1>1, BreakerInvariant, PTL DEF BreakerSpec, StandingTripIsKept

-----------------------------------------------------------------------------
(***************************************************************************)
(* The feed.  A restart counts itself only when it is over, so the bound on*)
(* restarts needs the account of the one under way (RestartsAccounted).    *)
(* That a feed that is up is watched rests on who changes the stop event   *)
(* (UpIsWatched).  That no connection is orphaned and that a refusal is    *)
(* final hold as long as no start was overtaken by a stop; then one thread *)
(* at a time is starting the feed, and the ticker it has created is the one*)
(* the module names (OneStarts, StartsItsTicker, RefusedIsDown).           *)
(***************************************************************************)

USE FeedAssumption

-----------------------------------------------------------------------------
(* Definitions *)

(* A start that has created its ticker remembers it. *)
TickerInHand ==
    \A t \in FeedThreads : at[t] \in {"spawning", "connecting"} => whose[t] \in 1 .. made

(* 1 while a restart has stopped the feed and is not over. *)
UnderWay == IF holder # 0 /\ at[holder] # "stopping" THEN 1 ELSE 0

RestartsAccounted ==
    /\ begun = counted + raised + UnderWay
    /\ counted <= StormMax
    /\ holder # 0 => counted < StormMax

UpIsWatched ==
    ticker # 0 =>
        /\ stopEvent = "clear"
        /\ watchdogs # {} \/ \E t \in FeedThreads : at[t] = "spawning"

(* One thread at a time starts the feed, and nobody does while another that  *)
(* has stopped it waits for a watchdog.                                      *)
OneStarts ==
    \A t, u \in FeedThreads :
        (Starting(t) \/ at[t] = "joining") /\ Starting(u) => t = u

StartsItsTicker ==
    /\ open \subseteq {ticker}
    /\ \A t \in FeedThreads : at[t] \in {"spawning", "connecting"} => whose[t] = ticker

RefusedIsDown ==
    authLatch => /\ ticker = 0
                 /\ \A t \in FeedThreads : at[t] \notin {"creating", "spawning", "connecting"}

InTurn == ~overlapped => OneStarts /\ StartsItsTicker /\ RefusedIsDown

FeedInv ==
    /\ FeedTypeOK /\ TickerInHand
    /\ RestartsAccounted /\ UpIsWatched /\ InTurn
-----------------------------------------------------------------------------
(* The steps of a restart *)

LEMMA ThreadFacts ==
    /\ 0 \notin FeedThreads
    /\ Cycle \in FeedThreads /\ Async \in FeedThreads /\ Cycle # Async
    /\ Tickers \subseteq FeedThreads
BY DEF FeedThreads, Tickers, Outer, Cycle, Async

(* A restart is called from, and returns to, a place outside restarts.       *)
LEMMA CallerFacts ==
    ASSUME NEW t \in FeedThreads
    PROVE  Back(t) \in {"idle", "busy"} /\ Caller(t) \in {"idle", "busy", "called"}
BY DEF Back, Caller

(* A thread goes to its next stage and the others stay where they are.       *)
LEMMA StepFacts ==
    ASSUME FeedTypeOK, NEW t \in FeedThreads, NEW next \in Stages, Step(t, next)
    PROVE  /\ at' \in [FeedThreads -> Stages]
           /\ at'[t] = next
           /\ \A u \in FeedThreads \ {t} : at'[u] = at[u]
BY DEF Step, FeedTypeOK

(* Only the holder of the lock stops the feed for a restart. *)
LEMMA HolderFacts ==
    ASSUME FeedTypeOK, NEW t \in FeedThreads, at[t] \in {"stopping", "joining"}
    PROVE  holder = t
BY DEF FeedTypeOK

(* A step before the lock is taken, or the end of one: nothing but the       *)
(* thread's own place changes, and it is not in a restart or start.          *)
LEMMA OutsideKeepsInv ==
    ASSUME FeedInv, NEW t \in FeedThreads, NEW next \in {"idle", "busy", "called", "want"}, Step(t, next),
           at[t] \in {"idle", "busy", "called", "want"},
           UNCHANGED <<ticker, made, open, stopEvent, stopRequested, authLatch, watchdogs,
                       fresh, named, whose, holder, tripped, attempts, counted, history>>,
           closing' \subseteq closing
    PROVE  FeedInv'
<1>1. FeedTypeOK
  BY DEF FeedInv
<1>2. /\ at' \in [FeedThreads -> Stages] /\ at'[t] = next
      /\ \A u \in FeedThreads \ {t} : at'[u] = at[u]
  BY <1>1, StepFacts DEF Stages
<1>3. holder # t
  BY <1>1, ThreadFacts DEF FeedTypeOK, Starting
<1>4. FeedTypeOK'
  BY <1>1, <1>2, <1>3 DEF FeedTypeOK, history, Starting
<1>5. TickerInHand' /\ RestartsAccounted'
  BY <1>1, <1>2, <1>3 DEF FeedInv, TickerInHand, RestartsAccounted, UnderWay, history, FeedTypeOK
<1>6. UpIsWatched'
  BY <1>2 DEF FeedInv, UpIsWatched
<1>7. InTurn'
  BY <1>2 DEF FeedInv, InTurn, OneStarts, StartsItsTicker, RefusedIsDown, Starting, history
<1> QED
  BY <1>4, <1>5, <1>6, <1>7 DEF FeedInv

LEMMA CallKeepsInv ==
    ASSUME FeedInv, NEW t \in FeedThreads, CallRestart(t)
    PROVE  FeedInv'
<1> DEFINE next == IF authLatch THEN Back(t) ELSE "want"
<1>1. next \in {"idle", "busy", "called", "want"} /\ at[t] \in {"idle", "busy", "called", "want"}
  BY CallerFacts DEF CallRestart
<1>2. Step(t, next)
  BY DEF CallRestart
<1> HIDE DEF next
<1> QED
  BY <1>1, <1>2, OutsideKeepsInv DEF CallRestart, limits

(* The lock is taken only past the limits, so the restart may count itself.  *)
LEMMA TakeKeepsInv ==
    ASSUME FeedInv, NEW t \in FeedThreads, TakeRestartLock(t)
    PROVE  FeedInv'
<1>1. /\ FeedTypeOK /\ at[t] = "want" /\ holder = 0
      /\ UNCHANGED <<ticker, made, open, closing, stopEvent, stopRequested, authLatch,
                     watchdogs, fresh, named, whose, counted, history>>
  BY DEF FeedInv, TakeRestartLock
<1>2. PICK next \in {"idle", "busy", "stopping"} :
         /\ Step(t, next)
         /\ next # "stopping" => holder' = 0
         /\ next = "stopping" => holder' = t /\ counted < StormMax
         /\ tripped' \in BOOLEAN /\ attempts' \in 0 .. GuardMax
  <2>0. attempts \in 0 .. GuardMax /\ GuardMax \in Nat /\ tripped \in BOOLEAN
    BY <1>1 DEF FeedTypeOK
  <2>1. CASE Limited(t)
    <3>1. Step(t, Back(t)) /\ holder' = 0
      BY <1>1, <2>1 DEF Limited
    <3>2. tripped' \in BOOLEAN
      BY <2>0, <2>1 DEF Limited
    <3>3. attempts' \in 0 .. GuardMax
      BY <2>0, <2>1 DEF Limited
    <3> QED
      BY <3>1, <3>2, <3>3, CallerFacts
  <2>2. CASE Limit(t)
    <3>1. Step(t, "stopping") /\ holder' = t /\ counted < StormMax
      BY <2>2 DEF Limit
    <3>2. tripped' \in BOOLEAN
      BY <2>0, <2>2 DEF Limit
    <3>3. attempts' \in 0 .. GuardMax
      BY <2>0, <2>2 DEF Limit
    <3> QED
      BY <3>1, <3>2, <3>3
  <2> QED
    BY <2>1, <2>2 DEF TakeRestartLock
<1>3. /\ at' \in [FeedThreads -> Stages] /\ at'[t] = next
      /\ \A u \in FeedThreads \ {t} : at'[u] = at[u]
  BY <1>1, <1>2, StepFacts DEF Stages
<1>4. FeedTypeOK'
  BY <1>1, <1>2, <1>3, ThreadFacts DEF FeedTypeOK, history, Starting
<1>5. TickerInHand' /\ RestartsAccounted'
  BY <1>1, <1>2, <1>3, ThreadFacts
  DEF FeedInv, TickerInHand, RestartsAccounted, UnderWay, history, FeedTypeOK
<1>6. UpIsWatched'
  BY <1>1, <1>2, <1>3 DEF FeedInv, UpIsWatched
<1>7. InTurn'
  BY <1>1, <1>2, <1>3
  DEF FeedInv, InTurn, OneStarts, StartsItsTicker, RefusedIsDown, Starting, history
<1> QED
  BY <1>4, <1>5, <1>6, <1>7 DEF FeedInv

(* What stop_depth_ws leaves behind, whoever calls it. *)
LEMMA StopFacts ==
    ASSUME FeedInv, NEW t, StopFeed(t)
    PROVE  /\ stopRequested' \in BOOLEAN /\ overlapped' \in BOOLEAN
           /\ stopEvent' \in {"none", "clear", "set"}
           /\ ticker' = 0 /\ named' = 0
           /\ open' \subseteq 1 .. made /\ closing' \subseteq 1 .. made
           /\ ~overlapped' => /\ ~overlapped
                              /\ \A u \in FeedThreads \ {t} : ~Starting(u)
                              /\ open' = {}
<1>1. FeedTypeOK
  BY DEF FeedInv
<1>2. stopRequested' \in BOOLEAN /\ overlapped' \in BOOLEAN
  BY <1>1 DEF StopFeed, FeedTypeOK
<1>3. /\ stopEvent' \in {"none", "clear", "set"} /\ ticker' = 0 /\ named' = 0
      /\ open' \subseteq 1 .. made /\ closing' \subseteq 1 .. made
  BY <1>1 DEF StopFeed, FeedTypeOK
<1>4. ASSUME ~overlapped'
      PROVE  ~overlapped /\ (\A u \in FeedThreads \ {t} : ~Starting(u)) /\ open' = {}
  <2>1. ~overlapped /\ \A u \in FeedThreads \ {t} : ~Starting(u)
    BY <1>4 DEF StopFeed
  <2>2. open \subseteq {ticker}
    BY <2>1 DEF FeedInv, InTurn, StartsItsTicker
  <2> QED
    BY <2>1, <2>2 DEF StopFeed
<1> QED
  BY <1>2, <1>3, <1>4

LEMMA StopKeepsInv ==
    ASSUME FeedInv, NEW t \in FeedThreads, StopForRestart(t)
    PROVE  FeedInv'
<1>1. /\ FeedTypeOK /\ at[t] = "stopping" /\ holder = t
      /\ UNCHANGED <<made, authLatch, watchdogs, fresh, holder, limits, raised>>
      /\ whose' = [whose EXCEPT ![t] = named] /\ begun' = begun + 1
  BY HolderFacts DEF FeedInv, StopForRestart
<1>2. /\ stopRequested' \in BOOLEAN /\ overlapped' \in BOOLEAN
      /\ stopEvent' \in {"none", "clear", "set"}
      /\ ticker' = 0 /\ named' = 0
      /\ open' \subseteq 1 .. made /\ closing' \subseteq 1 .. made
      /\ ~overlapped' => /\ ~overlapped
                         /\ \A u \in FeedThreads \ {t} : ~Starting(u)
                         /\ open' = {}
  BY StopFacts DEF StopForRestart
<1>3. /\ at' \in [FeedThreads -> Stages] /\ at'[t] = "joining"
      /\ \A u \in FeedThreads \ {t} : at'[u] = at[u]
  BY <1>1, StepFacts DEF Stages, StopForRestart
<1>4. whose' \in [FeedThreads -> 0 .. made] /\ \A u \in FeedThreads \ {t} : whose'[u] = whose[u]
  BY <1>1 DEF FeedTypeOK
<1>5. FeedTypeOK'
  BY <1>1, <1>2, <1>3, <1>4, ThreadFacts DEF FeedTypeOK, limits, Starting
<1>6. TickerInHand' /\ UpIsWatched'
  BY <1>1, <1>2, <1>3, <1>4 DEF FeedInv, TickerInHand, UpIsWatched
<1>7. RestartsAccounted'
  BY <1>1, <1>3, ThreadFacts DEF FeedInv, RestartsAccounted, UnderWay, limits, FeedTypeOK
<1>8. InTurn'
  <2> SUFFICES ASSUME ~overlapped' PROVE OneStarts' /\ StartsItsTicker' /\ RefusedIsDown'
    BY DEF InTurn
  <2>1. \A u \in FeedThreads : at'[u] \notin {"starting", "creating", "spawning", "connecting"}
    BY <1>2, <1>3 DEF Starting
  <2> QED
    BY <1>2, <2>1 DEF OneStarts, StartsItsTicker, RefusedIsDown, Starting
<1> QED
  BY <1>5, <1>6, <1>7, <1>8 DEF FeedInv

LEMMA JoinKeepsInv ==
    ASSUME FeedInv, NEW t \in FeedThreads, JoinWatchdog(t)
    PROVE  FeedInv'
<1>1. /\ FeedTypeOK /\ at[t] = "joining" /\ holder = t
      /\ UNCHANGED <<ticker, made, open, closing, stopEvent, stopRequested, authLatch,
                     watchdogs, fresh, named, holder, limits, history>>
      /\ whose' = [whose EXCEPT ![t] = 0]
  BY HolderFacts DEF FeedInv, JoinWatchdog
<1>2. /\ at' \in [FeedThreads -> Stages] /\ at'[t] = "starting"
      /\ \A u \in FeedThreads \ {t} : at'[u] = at[u]
  BY <1>1, StepFacts DEF Stages, JoinWatchdog
<1>3. whose' \in [FeedThreads -> 0 .. made] /\ \A u \in FeedThreads \ {t} : whose'[u] = whose[u]
  BY <1>1 DEF FeedTypeOK
<1>4. FeedTypeOK'
  BY <1>1, <1>2, <1>3, ThreadFacts DEF FeedTypeOK, limits, history, Starting
<1>5. TickerInHand' /\ UpIsWatched'
  BY <1>1, <1>2, <1>3 DEF FeedInv, TickerInHand, UpIsWatched
<1>6. RestartsAccounted'
  BY <1>1, <1>2, ThreadFacts DEF FeedInv, RestartsAccounted, UnderWay, limits, history, FeedTypeOK
<1>7. InTurn'
  <2> SUFFICES ASSUME ~overlapped' PROVE OneStarts' /\ StartsItsTicker' /\ RefusedIsDown'
    BY DEF InTurn
  <2>1. OneStarts /\ StartsItsTicker /\ RefusedIsDown
    BY <1>1 DEF FeedInv, InTurn, history
  <2>2. \A u \in FeedThreads \ {t} : ~Starting(u) /\ at[u] # "joining"
    BY <1>1, <2>1, HolderFacts DEF OneStarts
  <2>3. OneStarts'
    BY <1>2, <2>2 DEF OneStarts, Starting
  <2>4. StartsItsTicker' /\ RefusedIsDown'
    BY <1>1, <1>2, <1>3, <2>1 DEF StartsItsTicker, RefusedIsDown
  <2> QED
    BY <2>3, <2>4
<1> QED
  BY <1>4, <1>5, <1>6, <1>7 DEF FeedInv

-----------------------------------------------------------------------------
(* The steps of a start *)

(* Whoever starts while nothing was overtaken starts alone. *)
LEMMA StartsAlone ==
    ASSUME FeedInv, NEW t \in FeedThreads, Starting(t), ~overlapped
    PROVE  \A u \in FeedThreads \ {t} : ~Starting(u) /\ at[u] # "joining"
BY DEF FeedInv, InTurn, OneStarts

LEMMA GiveUpKeepsInv ==
    ASSUME FeedInv, NEW t \in FeedThreads, GiveUpStart(t)
    PROVE  FeedInv'
<1>1. /\ FeedTypeOK /\ at[t] = "starting" /\ Starting(t)
      /\ UNCHANGED <<made, watchdogs, fresh, whose, tripped, attempts, begun, raised>>
      /\ counted' = (IF holder = t THEN counted + 1 ELSE counted)
      /\ holder' = (IF holder = t THEN 0 ELSE holder)
  BY DEF FeedInv, GiveUpStart, Starting
<1>2. /\ at' \in [FeedThreads -> Stages] /\ at'[t] \in {"idle", "busy"}
      /\ \A u \in FeedThreads \ {t} : at'[u] = at[u]
  BY <1>1, StepFacts, CallerFacts DEF Stages, GiveUpStart
<1>3. \/ UNCHANGED <<ticker, open, closing, stopEvent, stopRequested, named, authLatch, overlapped>>
      \/ authLatch' = TRUE /\ StopFeed(t)
  BY DEF GiveUpStart, RefuseSession
<1>4. /\ stopRequested' \in BOOLEAN /\ overlapped' \in BOOLEAN /\ authLatch' \in BOOLEAN
      /\ stopEvent' \in {"none", "clear", "set"}
      /\ ticker' \in 0 .. made /\ named' \in 0 .. made
      /\ open' \subseteq 1 .. made /\ closing' \subseteq 1 .. made
  <2>0. 0 \in 0 .. made
    BY <1>1 DEF FeedTypeOK
  <2> QED
    BY <1>1, <1>3, <2>0, StopFacts DEF FeedTypeOK
<1>5. FeedTypeOK'
  BY <1>1, <1>2, <1>4, ThreadFacts DEF FeedTypeOK, Starting
<1>6. TickerInHand' /\ RestartsAccounted'
  BY <1>1, <1>2, ThreadFacts
  DEF FeedInv, TickerInHand, RestartsAccounted, UnderWay, FeedTypeOK
<1>7. UpIsWatched'
  BY <1>1, <1>2, <1>3, StopFacts DEF FeedInv, UpIsWatched
<1>8. InTurn'
  <2> SUFFICES ASSUME ~overlapped' PROVE OneStarts' /\ StartsItsTicker' /\ RefusedIsDown'
    BY DEF InTurn
  <2>1. ~overlapped /\ open' \subseteq {ticker'} /\ (authLatch' => authLatch \/ ticker' = 0)
    BY <1>3, StopFacts DEF FeedInv, InTurn, StartsItsTicker
  <2>2. \A u \in FeedThreads \ {t} : ~Starting(u) /\ at[u] # "joining"
    BY <1>1, <2>1, StartsAlone
  <2>3. \A u \in FeedThreads :
           at'[u] \notin {"starting", "creating", "spawning", "connecting", "joining"}
    BY <1>2, <2>2 DEF Starting
  <2>4. authLatch' => ticker' = 0
    BY <1>3, <2>1, StopFacts DEF FeedInv, InTurn, RefusedIsDown
  <2> QED
    BY <2>1, <2>3, <2>4 DEF OneStarts, StartsItsTicker, RefusedIsDown, Starting
<1> QED
  BY <1>5, <1>6, <1>7, <1>8 DEF FeedInv

LEMMA BeginKeepsInv ==
    ASSUME FeedInv, NEW t \in FeedThreads, BeginStart(t)
    PROVE  FeedInv'
<1>1. /\ FeedTypeOK /\ at[t] = "starting"
      /\ UNCHANGED <<ticker, made, open, closing, stopEvent, watchdogs, fresh, named,
                     whose, holder, limits, history>>
      /\ stopRequested' = FALSE /\ authLatch' = FALSE
  BY DEF FeedInv, BeginStart
<1>2. /\ at' \in [FeedThreads -> Stages] /\ at'[t] = "creating"
      /\ \A u \in FeedThreads \ {t} : at'[u] = at[u]
  BY <1>1, StepFacts DEF Stages, BeginStart
<1>3. FeedTypeOK'
  BY <1>1, <1>2, ThreadFacts DEF FeedTypeOK, limits, history, Starting
<1>4. TickerInHand' /\ RestartsAccounted' /\ UpIsWatched'
  BY <1>1, <1>2, ThreadFacts
  DEF FeedInv, TickerInHand, RestartsAccounted, UnderWay, UpIsWatched, limits, history, FeedTypeOK
<1>5. InTurn'
  BY <1>1, <1>2
  DEF FeedInv, InTurn, OneStarts, StartsItsTicker, RefusedIsDown, Starting, history
<1> QED
  BY <1>3, <1>4, <1>5 DEF FeedInv

(* The ticker is created under the feed's own lock, and the old one closed.  *)
LEMMA CreateKeepsInv ==
    ASSUME FeedInv, NEW t \in FeedThreads, CreateTicker(t)
    PROVE  FeedInv'
<1>1. /\ FeedTypeOK /\ at[t] = "creating" /\ Starting(t)
      /\ UNCHANGED <<stopRequested, authLatch, watchdogs, fresh, named, limits, begun, overlapped>>
      /\ open' = open \ {ticker} /\ closing' = closing \cup (open \cap {ticker})
      /\ stopEvent' = "clear"
  BY DEF FeedInv, CreateTicker, Starting, NewStopEvent
<1>2. ~overlapped => /\ open' = {} /\ ~authLatch
                    /\ \A u \in FeedThreads \ {t} : ~Starting(u) /\ at[u] # "joining"
  BY <1>1, StartsAlone DEF FeedInv, InTurn, StartsItsTicker, RefusedIsDown
<1>3. CASE /\ made < MaxTickers
           /\ made' = made + 1 /\ ticker' = made + 1
           /\ whose' = [whose EXCEPT ![t] = made + 1]
           /\ Step(t, "spawning") /\ UNCHANGED <<holder, raised>>
  <2>1. /\ at' \in [FeedThreads -> Stages] /\ at'[t] = "spawning"
        /\ \A u \in FeedThreads \ {t} : at'[u] = at[u]
    BY <1>1, <1>3, StepFacts DEF Stages
  <2>2. /\ made' \in 0 .. MaxTickers /\ made \in Nat
        /\ 0 .. made \subseteq 0 .. made' /\ 1 .. made \subseteq 1 .. made'
        /\ made' \in 1 .. made'
    BY <1>1, <1>3 DEF FeedTypeOK
  <2>3. /\ whose' \in [FeedThreads -> 0 .. made'] /\ whose'[t] = made'
        /\ \A u \in FeedThreads \ {t} : whose'[u] = whose[u]
    BY <1>1, <1>3, <2>2 DEF FeedTypeOK
  <2>4. FeedTypeOK'
    BY <1>1, <1>3, <2>1, <2>2, <2>3, ThreadFacts DEF FeedTypeOK, limits, Starting
  <2>5. TickerInHand' /\ UpIsWatched'
    BY <1>1, <2>1, <2>2, <2>3 DEF FeedInv, TickerInHand, UpIsWatched
  <2>6. RestartsAccounted'
    BY <1>1, <1>3, <2>1, ThreadFacts DEF FeedInv, RestartsAccounted, UnderWay, limits, FeedTypeOK
  <2>7. InTurn'
    <3> SUFFICES ASSUME ~overlapped PROVE OneStarts' /\ StartsItsTicker' /\ RefusedIsDown'
      BY <1>1 DEF InTurn
    <3>1. OneStarts'
      BY <1>2, <2>1 DEF OneStarts, Starting
    <3>2. StartsItsTicker'
      BY <1>2, <1>3, <2>1, <2>3 DEF StartsItsTicker, Starting
    <3>3. RefusedIsDown'
      BY <1>1, <1>2 DEF RefusedIsDown
    <3> QED
      BY <3>1, <3>2, <3>3
  <2> QED
    BY <2>4, <2>5, <2>6, <2>7 DEF FeedInv
<1>4. CASE ticker' = 0 /\ Raise(t) /\ UNCHANGED <<made, whose>>
  <2>1. /\ at' \in [FeedThreads -> Stages] /\ at'[t] \in {"idle", "busy"}
        /\ \A u \in FeedThreads \ {t} : at'[u] = at[u]
    BY <1>1, <1>4, StepFacts, CallerFacts DEF Stages, Raise
  <2>2. /\ holder' = (IF holder = t THEN 0 ELSE holder)
        /\ raised' = (IF holder = t THEN raised + 1 ELSE raised)
    BY <1>4 DEF Raise
  <2>3. FeedTypeOK'
    <3>1. ticker' \in 0 .. made /\ made' = made /\ whose' = whose
      BY <1>1, <1>4 DEF FeedTypeOK
    <3>2. open' \subseteq 1 .. made /\ closing' \subseteq 1 .. made
      BY <1>1 DEF FeedTypeOK
    <3>3. holder' \in FeedThreads \cup {0} /\ raised' \in Nat
      BY <1>1, <2>2 DEF FeedTypeOK
    <3>4. /\ \A u \in FeedThreads \ {holder'} : at'[u] \notin {"stopping", "joining"}
          /\ holder' # 0 => at'[holder'] \in {"stopping", "joining"} \/ Starting(holder)'
      <4>1. \A u \in FeedThreads \ {holder} : at[u] \notin {"stopping", "joining"}
        BY <1>1 DEF FeedTypeOK
      <4>2. holder # 0 => at[holder] \in {"stopping", "joining"} \/ Starting(holder)
        BY <1>1 DEF FeedTypeOK
      <4>3. holder \in FeedThreads \cup {0}
        BY <1>1 DEF FeedTypeOK
      <4>4. CASE holder = t
        <5>1. holder' = 0 /\ \A u \in FeedThreads : at'[u] \notin {"stopping", "joining"}
          BY <2>1, <2>2, <4>1, <4>4
        <5> QED
          BY <5>1
      <4>5. CASE holder # t
        <5>1. holder' = holder /\ \A u \in FeedThreads \ {holder} : at'[u] \notin {"stopping", "joining"}
          BY <2>1, <2>2, <4>1, <4>5
        <5>2. holder # 0 => at'[holder] = at[holder]
          BY <2>1, <4>3, <4>5
        <5> QED
          BY <4>2, <5>1, <5>2 DEF Starting
      <4> QED
        BY <4>4, <4>5
    <3>5. {stopRequested', authLatch', tripped', overlapped'} \subseteq BOOLEAN
      <4>1. {stopRequested, authLatch, tripped, overlapped} \subseteq BOOLEAN
        BY <1>1 DEF FeedTypeOK
      <4> QED
        BY <1>1, <4>1 DEF limits
    <3>6. /\ made' \in 0 .. MaxTickers /\ named' \in 0 .. made'
          /\ watchdogs' \subseteq 1 .. made' /\ fresh' \subseteq 1 .. made'
          /\ whose' \in [FeedThreads -> 0 .. made']
          /\ attempts' \in 0 .. GuardMax /\ {counted', begun', raised'} \subseteq Nat
      BY <1>1, <3>1, <3>3 DEF FeedTypeOK, limits
    <3> QED
      BY <1>1, <2>1, <3>1, <3>2, <3>3, <3>4, <3>5, <3>6 DEF FeedTypeOK
  <2>4. TickerInHand' /\ UpIsWatched'
    BY <1>4, <2>1 DEF FeedInv, TickerInHand, UpIsWatched
  <2>5. RestartsAccounted'
    BY <1>1, <2>1, <2>2, ThreadFacts DEF FeedInv, RestartsAccounted, UnderWay, limits, FeedTypeOK
  <2>6. InTurn'
    BY <1>1, <1>2, <1>4, <2>1
    DEF InTurn, OneStarts, StartsItsTicker, RefusedIsDown, Starting
  <2> QED
    BY <2>3, <2>4, <2>5, <2>6 DEF FeedInv
<1> QED
  BY <1>3, <1>4 DEF CreateTicker

LEMMA SpawnKeepsInv ==
    ASSUME FeedInv, NEW t \in FeedThreads, SpawnWatchdog(t)
    PROVE  FeedInv'
<1>1. /\ FeedTypeOK /\ at[t] = "spawning"
      /\ UNCHANGED <<ticker, made, open, closing, stopEvent, stopRequested, authLatch,
                     whose, holder, limits, history>>
      /\ named' = whose[t]
      /\ watchdogs' = watchdogs \cup {whose[t]} /\ fresh' = fresh \cup {whose[t]}
  BY DEF FeedInv, SpawnWatchdog
<1>2. /\ at' \in [FeedThreads -> Stages] /\ at'[t] = "connecting"
      /\ \A u \in FeedThreads \ {t} : at'[u] = at[u]
  BY <1>1, StepFacts DEF Stages, SpawnWatchdog
<1>3. whose[t] \in 1 .. made
  BY <1>1 DEF FeedInv, TickerInHand
<1>4. FeedTypeOK'
  BY <1>1, <1>2, <1>3, ThreadFacts DEF FeedTypeOK, limits, history, Starting
<1>5. TickerInHand' /\ RestartsAccounted' /\ UpIsWatched'
  BY <1>1, <1>2, ThreadFacts
  DEF FeedInv, TickerInHand, RestartsAccounted, UnderWay, UpIsWatched, limits, history, FeedTypeOK
<1>6. InTurn'
  BY <1>1, <1>2
  DEF FeedInv, InTurn, OneStarts, StartsItsTicker, RefusedIsDown, Starting, history
<1> QED
  BY <1>4, <1>5, <1>6 DEF FeedInv

LEMMA ConnectKeepsInv ==
    ASSUME FeedInv, NEW t \in FeedThreads, ConnectTicker(t)
    PROVE  FeedInv'
<1>1. /\ FeedTypeOK /\ at[t] = "connecting" /\ Starting(t)
      /\ UNCHANGED <<ticker, made, closing, stopEvent, stopRequested, authLatch, watchdogs,
                     fresh, named, tripped, attempts, begun, overlapped>>
      /\ whose' = [whose EXCEPT ![t] = 0]
  BY DEF FeedInv, ConnectTicker, Starting
<1>2. /\ Step(t, Back(t))
      /\ holder' = (IF holder = t THEN 0 ELSE holder)
      /\ open' \in {open, open \cup {whose[t]}}
      /\ \/ raised' = raised /\ counted' = (IF holder = t THEN counted + 1 ELSE counted)
         \/ counted' = counted /\ raised' = (IF holder = t THEN raised + 1 ELSE raised)
  BY DEF ConnectTicker, Raise
<1>3. /\ at' \in [FeedThreads -> Stages] /\ at'[t] \in {"idle", "busy"}
      /\ \A u \in FeedThreads \ {t} : at'[u] = at[u]
  BY <1>1, <1>2, StepFacts, CallerFacts DEF Stages
<1>4. /\ whose' \in [FeedThreads -> 0 .. made] /\ whose[t] \in 1 .. made
      /\ \A u \in FeedThreads \ {t} : whose'[u] = whose[u]
  BY <1>1 DEF FeedTypeOK, FeedInv, TickerInHand
<1>5. FeedTypeOK'
  BY <1>1, <1>2, <1>3, <1>4, ThreadFacts DEF FeedTypeOK, Starting
<1>6. TickerInHand' /\ UpIsWatched'
  BY <1>1, <1>3, <1>4 DEF FeedInv, TickerInHand, UpIsWatched
<1>7. RestartsAccounted'
  BY <1>1, <1>2, <1>3, ThreadFacts DEF FeedInv, RestartsAccounted, UnderWay, FeedTypeOK
<1>8. InTurn'
  <2> SUFFICES ASSUME ~overlapped PROVE OneStarts' /\ StartsItsTicker' /\ RefusedIsDown'
    BY <1>1 DEF InTurn
  <2>1. \A u \in FeedThreads \ {t} : ~Starting(u) /\ at[u] # "joining"
    BY <1>1, StartsAlone
  <2>2. OneStarts /\ StartsItsTicker /\ RefusedIsDown
    BY DEF FeedInv, InTurn
  <2>3. \A u \in FeedThreads :
           at'[u] \notin {"starting", "creating", "spawning", "connecting", "joining"}
    BY <1>3, <2>1 DEF Starting
  <2>4. open' \subseteq {ticker'}
    BY <1>1, <1>2, <2>2 DEF StartsItsTicker
  <2> QED
    BY <1>1, <2>2, <2>3, <2>4 DEF OneStarts, StartsItsTicker, RefusedIsDown, Starting
<1> QED
  BY <1>5, <1>6, <1>7, <1>8 DEF FeedInv

-----------------------------------------------------------------------------
(* Watchdogs and callbacks *)

(* A step in which every thread stays where it is and the feed stays up or   *)
(* down as it was.                                                           *)
LEMMA AsideKeepsInv ==
    ASSUME FeedInv, tripped' \in BOOLEAN, attempts' \in 0 .. GuardMax,
           UNCHANGED <<ticker, made, open, stopEvent, stopRequested, authLatch, named,
                       at, whose, holder, counted, history>>,
           closing' \subseteq closing, fresh' \subseteq fresh, watchdogs' \subseteq watchdogs,
           watchdogs' = watchdogs \/ ticker = 0
    PROVE  FeedInv'
<1>1. FeedTypeOK'
  BY DEF FeedInv, FeedTypeOK, history, Starting
<1>2. TickerInHand' /\ RestartsAccounted'
  BY DEF FeedInv, TickerInHand, RestartsAccounted, UnderWay, history
<1>3. UpIsWatched'
  BY DEF FeedInv, UpIsWatched
<1>4. InTurn'
  BY DEF FeedInv, InTurn, OneStarts, StartsItsTicker, RefusedIsDown, Starting, history
<1> QED
  BY <1>1, <1>2, <1>3, <1>4 DEF FeedInv

LEMMA IterationKeepsInv ==
    ASSUME FeedInv, NEW w \in Tickers, BeginIteration(w) \/ EndIteration(w)
    PROVE  FeedInv'
<1>1. PICK next \in {"idle", "busy"} : Step(w, next) /\ at[w] \in {"idle", "busy"}
  BY DEF BeginIteration, EndIteration
<1>2. UNCHANGED <<ticker, made, open, stopEvent, stopRequested, authLatch, watchdogs,
                  fresh, named, whose, holder, tripped, attempts, counted, history>>
  BY DEF BeginIteration, EndIteration, limits
<1>3. closing' \subseteq closing
  BY DEF BeginIteration, EndIteration
<1> QED
  BY <1>1, <1>2, <1>3, ThreadFacts, OutsideKeepsInv

(* A watchdog ends only after the event was set, which took the feed down.   *)
LEMMA EndKeepsInv ==
    ASSUME FeedInv, NEW w \in Tickers, EndWatchdog(w)
    PROVE  FeedInv'
<1>1. ticker = 0
  BY DEF FeedInv, UpIsWatched, EndWatchdog
<1>2. tripped' \in BOOLEAN /\ attempts' \in 0 .. GuardMax
  <2>1. tripped \in BOOLEAN /\ attempts \in 0 .. GuardMax
    BY DEF FeedInv, FeedTypeOK
  <2> QED
    BY <2>1 DEF EndWatchdog, limits
<1> QED
  BY <1>1, <1>2, AsideKeepsInv DEF EndWatchdog, limits

LEMMA SeeKeepsInv ==
    ASSUME FeedInv, NEW w \in Tickers, SeeMarketOpen(w)
    PROVE  FeedInv'
<1>1. attempts' \in 0 .. GuardMax
  BY DEF SeeMarketOpen
<1>2. tripped' \in BOOLEAN
  <2>1. tripped \in BOOLEAN
    BY DEF FeedInv, FeedTypeOK
  <2> QED
    BY <2>1 DEF SeeMarketOpen
<1> QED
  BY <1>1, <1>2, AsideKeepsInv DEF SeeMarketOpen

LEMMA BreakerKeepsInv ==
    ASSUME FeedInv, TurnBreaker
    PROVE  FeedInv'
<1>1. attempts' \in 0 .. GuardMax
  BY DEF FeedInv, FeedTypeOK, TurnBreaker
<1>2. tripped' \in BOOLEAN
  BY DEF TurnBreaker
<1> QED
  BY <1>1, <1>2, AsideKeepsInv DEF TurnBreaker

LEMMA FatalKeepsInv ==
    ASSUME FeedInv, NEW k \in Tickers, FatalCallback(k)
    PROVE  FeedInv'
<1>1. UNCHANGED <<ticker, made, open, stopEvent, stopRequested, authLatch, watchdogs,
                  fresh, named, whose, holder, tripped, attempts, counted, history>>
  BY DEF FatalCallback, limits
<1>2. closing' \subseteq closing
  BY DEF FatalCallback
<1>3. CASE UNCHANGED at
  <2>1. tripped \in BOOLEAN /\ attempts \in 0 .. GuardMax
    BY DEF FeedInv, FeedTypeOK
  <2> QED
    BY <1>1, <1>2, <1>3, <2>1, AsideKeepsInv
<1>4. CASE at[Async] = "idle" /\ Step(Async, "called")
  BY <1>1, <1>2, <1>4, ThreadFacts, OutsideKeepsInv
<1> QED
  BY <1>3, <1>4 DEF FatalCallback

(* A refusal that meets a start is an overlap; else nobody starts the feed.  *)
LEMMA RefusalKeepsInv ==
    ASSUME FeedInv, NEW k \in Tickers, AuthCallback(k)
    PROVE  FeedInv'
<1>1. /\ FeedTypeOK /\ StopFeed(0) /\ authLatch' = TRUE
      /\ UNCHANGED <<made, watchdogs, fresh, at, whose, holder, tripped, attempts, counted,
                     begun, raised>>
  BY DEF FeedInv, AuthCallback, RefuseSession, limits
<1>2. /\ stopRequested' \in BOOLEAN /\ overlapped' \in BOOLEAN
      /\ stopEvent' \in {"none", "clear", "set"}
      /\ ticker' = 0 /\ named' = 0
      /\ open' \subseteq 1 .. made /\ closing' \subseteq 1 .. made
      /\ ~overlapped' => /\ ~overlapped
                         /\ \A u \in FeedThreads \ {0} : ~Starting(u)
                         /\ open' = {}
  BY <1>1, StopFacts
<1>3. FeedTypeOK'
  BY <1>1, <1>2 DEF FeedTypeOK, Starting
<1>4. TickerInHand' /\ RestartsAccounted' /\ UpIsWatched'
  BY <1>1, <1>2 DEF FeedInv, TickerInHand, RestartsAccounted, UnderWay, UpIsWatched
<1>5. InTurn'
  <2> SUFFICES ASSUME ~overlapped' PROVE OneStarts' /\ StartsItsTicker' /\ RefusedIsDown'
    BY DEF InTurn
  <2>1. \A u \in FeedThreads : at'[u] \notin {"starting", "creating", "spawning", "connecting"}
    BY <1>1, <1>2, ThreadFacts DEF Starting
  <2> QED
    BY <1>2, <2>1 DEF OneStarts, StartsItsTicker, RefusedIsDown, Starting
<1> QED
  BY <1>3, <1>4, <1>5 DEF FeedInv

-----------------------------------------------------------------------------
(* The invariant and what follows from it *)

LEMMA FeedInitInv == FeedInit => FeedInv
<1> SUFFICES ASSUME FeedInit PROVE FeedInv
  OBVIOUS
<1>1. \A t \in FeedThreads : at[t] = IF t = Cycle THEN "starting" ELSE "idle"
  BY DEF FeedInit
<1>2. FeedTypeOK
  <2>1. /\ at \in [FeedThreads -> Stages] /\ whose \in [FeedThreads -> 0 .. made]
        /\ \A t \in FeedThreads \ {holder} : at[t] \notin {"stopping", "joining"}
    BY DEF FeedInit, Stages
  <2>2. {stopRequested, authLatch, tripped, overlapped} \subseteq BOOLEAN
    BY DEF FeedInit
  <2>3. made \in 0 .. MaxTickers /\ attempts \in 0 .. GuardMax
    BY DEF FeedInit
  <2> QED
    BY <2>1, <2>2, <2>3 DEF FeedInit, FeedTypeOK
<1>3. TickerInHand /\ RestartsAccounted /\ UpIsWatched
  BY <1>1 DEF FeedInit, TickerInHand, RestartsAccounted, UnderWay, UpIsWatched
<1>4. InTurn
  BY <1>1 DEF FeedInit, InTurn, OneStarts, StartsItsTicker, RefusedIsDown, Starting
<1> QED
  BY <1>2, <1>3, <1>4 DEF FeedInv

LEMMA FeedStepInv == FeedInv /\ [FeedNext]_feedVars => FeedInv'
<1> SUFFICES ASSUME FeedInv, [FeedNext]_feedVars PROVE FeedInv'
  OBVIOUS
<1>1. CASE UNCHANGED feedVars
  BY <1>1 DEF feedVars, FeedInv, FeedTypeOK, TickerInHand, RestartsAccounted, UnderWay,
              UpIsWatched, InTurn, OneStarts, StartsItsTicker, RefusedIsDown, Starting
<1>2. ASSUME NEW t \in FeedThreads, CallRestart(t) PROVE FeedInv'
  BY <1>2, CallKeepsInv
<1>3. ASSUME NEW t \in FeedThreads, TakeRestartLock(t) PROVE FeedInv'
  BY <1>3, TakeKeepsInv
<1>4. ASSUME NEW t \in FeedThreads, RestartStep(t) PROVE FeedInv'
  <2>1. CASE StopForRestart(t)
    BY <2>1, StopKeepsInv
  <2>2. CASE JoinWatchdog(t)
    BY <2>2, JoinKeepsInv
  <2>3. CASE GiveUpStart(t)
    BY <2>3, GiveUpKeepsInv
  <2>4. CASE BeginStart(t)
    BY <2>4, BeginKeepsInv
  <2>5. CASE CreateTicker(t)
    BY <2>5, CreateKeepsInv
  <2>6. CASE SpawnWatchdog(t)
    BY <2>6, SpawnKeepsInv
  <2>7. CASE ConnectTicker(t)
    BY <2>7, ConnectKeepsInv
  <2> QED
    BY <1>4, <2>1, <2>2, <2>3, <2>4, <2>5, <2>6, <2>7 DEF RestartStep
<1>5. ASSUME NEW w \in Tickers,
             BeginIteration(w) \/ EndIteration(w) \/ EndWatchdog(w) \/ SeeMarketOpen(w)
      PROVE  FeedInv'
  BY <1>5, IterationKeepsInv, EndKeepsInv, SeeKeepsInv
<1>6. ASSUME NEW k \in Tickers, FatalCallback(k) \/ AuthCallback(k) PROVE FeedInv'
  BY <1>6, FatalKeepsInv, RefusalKeepsInv
<1>7. CASE TurnBreaker
  BY <1>7, BreakerKeepsInv
<1> QED
  BY <1>1, <1>2, <1>3, <1>4, <1>5, <1>6, <1>7 DEF FeedNext

(* The account of restarts, the watched feed and the starts in turn hold     *)
(* through every interleaving of cycle, watchdogs and callbacks.             *)
THEOREM FeedInvariant == FeedSpec => []FeedInv
BY FeedInitInv, FeedStepInv, PTL DEF FeedSpec

(* The types, and that the lock is held exactly by a restart past its limits. *)
THEOREM FeedTypes == FeedSpec => []FeedTypeOK
<1>1. FeedInv => FeedTypeOK
  BY DEF FeedInv
<1> QED
  BY <1>1, FeedInvariant, PTL

(* In one hour the feed is stopped for a restart at most StormMax times, and *)
(* once more for every start that raised.                                    *)
THEOREM FeedRestartsBounded == FeedSpec => []RestartsBounded
<1>1. FeedInv => RestartsBounded
  <2> SUFFICES ASSUME FeedInv PROVE RestartsBounded
    OBVIOUS
  <2>1. {counted, begun, raised} \subseteq Nat /\ StormMax \in Nat
    BY DEF FeedInv, FeedTypeOK
  <2> QED
    BY <2>1 DEF FeedInv, RestartsAccounted, UnderWay, RestartsBounded
<1> QED
  BY <1>1, FeedInvariant, PTL

(* Once no start is under way, a feed that is up has a watchdog that runs.   *)
THEOREM FeedIsWatched == FeedSpec => []WatchedWhileUp
<1>1. FeedInv => WatchedWhileUp
  BY DEF FeedInv, UpIsWatched, WatchedWhileUp, Starting
<1> QED
  BY <1>1, FeedInvariant, PTL

(* No connection outlives the ticker it belongs to, unless the feed was      *)
(* stopped in the middle of a start.                                         *)
THEOREM FeedNoOrphan == FeedSpec => []NoOrphanConnection
<1>1. FeedInv => NoOrphanConnection
  BY DEF FeedInv, InTurn, StartsItsTicker, NoOrphanConnection
<1> QED
  BY <1>1, FeedInvariant, PTL

-----------------------------------------------------------------------------
(* A refusal is final *)

(* The latch is set and no thread is past it: the state no step leaves. *)
Quiet == \A t \in FeedThreads : at[t] \in {"idle", "busy", "called"}
ShutDown == authLatch /\ ticker = 0 /\ Quiet

LEMMA ShutDownStays == ShutDown /\ [FeedNext]_feedVars => ShutDown'
<1> SUFFICES ASSUME ShutDown, [FeedNext]_feedVars PROVE ShutDown'
  OBVIOUS
<1>1. authLatch /\ ticker = 0 /\ \A t \in FeedThreads : at[t] \in {"idle", "busy", "called"}
  BY DEF ShutDown, Quiet
<1>2. CASE UNCHANGED feedVars
  BY <1>1, <1>2 DEF feedVars, ShutDown, Quiet
<1>3. ASSUME NEW t \in FeedThreads, CallRestart(t) PROVE ShutDown'
  <2>1. at' = [at EXCEPT ![t] = Back(t)] /\ UNCHANGED <<authLatch, ticker>>
    BY <1>1, <1>3 DEF CallRestart, Step
  <2>2. \A u \in FeedThreads : at'[u] \in {"idle", "busy", at[u]}
    BY <2>1, CallerFacts
  <2> QED
    BY <1>1, <2>1, <2>2 DEF ShutDown, Quiet
<1>4. ASSUME NEW t \in FeedThreads, TakeRestartLock(t) \/ RestartStep(t) PROVE FALSE
  BY <1>1, <1>4
  DEF TakeRestartLock, RestartStep, StopForRestart, JoinWatchdog, GiveUpStart, BeginStart,
      CreateTicker, SpawnWatchdog, ConnectTicker
<1>5. ASSUME NEW w \in Tickers,
             BeginIteration(w) \/ EndIteration(w) \/ EndWatchdog(w) \/ SeeMarketOpen(w)
      PROVE  ShutDown'
  <2>1. /\ UNCHANGED <<authLatch, ticker>>
        /\ UNCHANGED at \/ Step(w, "idle") \/ Step(w, "busy")
    BY <1>5 DEF BeginIteration, EndIteration, EndWatchdog, SeeMarketOpen
  <2>2. \A u \in FeedThreads : at'[u] \in {"idle", "busy", at[u]}
    <3>1. CASE UNCHANGED at
      BY <3>1
    <3>2. ASSUME NEW next \in {"idle", "busy"}, at' = [at EXCEPT ![w] = next]
          PROVE  \A u \in FeedThreads : at'[u] \in {"idle", "busy", at[u]}
      BY <3>2
    <3> QED
      BY <2>1, <3>1, <3>2 DEF Step
  <2> QED
    BY <1>1, <2>1, <2>2 DEF ShutDown, Quiet
<1>6. ASSUME NEW k \in Tickers, FatalCallback(k) \/ AuthCallback(k) PROVE ShutDown'
  BY <1>1, <1>6 DEF FatalCallback, AuthCallback, ShutDown, Quiet
<1>7. CASE TurnBreaker
  BY <1>1, <1>7 DEF TurnBreaker, ShutDown, Quiet
<1> QED
  BY <1>2, <1>3, <1>4, <1>5, <1>6, <1>7 DEF FeedNext

(* Once the session was refused and the restarts that were under way have    *)
(* ended, this process never brings the feed up again, unless the refusal    *)
(* met a start.                                                              *)
THEOREM FeedRefusalIsFinal == FeedSpec => RefusalIsFinal
<1>1. FeedInv /\ authLatch /\ ~overlapped /\ (\A t \in FeedThreads : at[t] \in {"idle", "busy", "called"})
      => ShutDown
  BY DEF FeedInv, InTurn, RefusedIsDown, ShutDown, Quiet
<1>2. ShutDown => authLatch /\ ticker = 0
  BY DEF ShutDown
<1> QED
  BY <1>1, <1>2, ShutDownStays, FeedInvariant, PTL DEF FeedSpec, RefusalIsFinal
-----------------------------------------------------------------------------
(* One watchdog *)

(* Between a stop and the next start the watchdog that was named is waited   *)
(* for, and the start that follows finds none: unless the wait for it is     *)
(* given up, or a refused session has already forgotten its name.            *)
WatchdogsInTurn ==
    ~overlapped =>
        /\ (\A t \in FeedThreads : at[t] # "joining" /\ ~Starting(t)) => watchdogs \subseteq {named}
        /\ \A t \in FeedThreads :
              /\ at[t] = "joining" => watchdogs \subseteq {whose[t]}
              /\ at[t] \in {"starting", "creating", "spawning"} => watchdogs = {}
              /\ at[t] = "connecting" => watchdogs \subseteq {named}

(* A join comes back only when the watchdog has ended.                       *)
JoinsInTime == \A t \in FeedThreads : JoinWatchdog(t) => whose[t] \notin watchdogs

LEMMA TurnsStay ==
    ASSUME FeedInv, WatchdogsInTurn, NEW t \in FeedThreads,
           at' \in [FeedThreads -> Stages], \A u \in FeedThreads \ {t} : at'[u] = at[u],
           at[t] \in {"idle", "busy", "called", "want", "stopping"},
           at'[t] \in {"idle", "busy", "called", "want", "stopping"},
           UNCHANGED <<watchdogs, named, whose, overlapped>>
    PROVE  WatchdogsInTurn'
BY DEF WatchdogsInTurn, Starting

LEMMA TurnsOnStop ==
    ASSUME FeedInv, WatchdogsInTurn, NEW t \in FeedThreads, StopForRestart(t)
    PROVE  WatchdogsInTurn'
<1>1. /\ FeedTypeOK /\ at[t] = "stopping"
      /\ at'[t] = "joining" /\ \A u \in FeedThreads \ {t} : at'[u] = at[u]
  BY StepFacts DEF FeedInv, StopForRestart, Stages
<1>2. /\ whose'[t] = named /\ watchdogs' = watchdogs
      /\ overlapped' = (overlapped \/ \E u \in FeedThreads \ {t} : Starting(u))
  BY <1>1 DEF StopForRestart, StopFeed, FeedTypeOK
<1>3. \A u \in FeedThreads : at[u] # "joining"
  BY <1>1, HolderFacts
<1>4. ~overlapped' => \A u \in FeedThreads : ~Starting(u)
  BY <1>1, <1>2 DEF Starting
<1>5. ~overlapped' => watchdogs \subseteq {named}
  BY <1>2, <1>3, <1>4 DEF WatchdogsInTurn
<1>6. ~overlapped' => \A u \in FeedThreads \ {t} : at'[u] # "joining" /\ ~Starting(u)'
  BY <1>1, <1>3, <1>4 DEF Starting
<1> QED
  BY <1>1, <1>2, <1>5, <1>6 DEF WatchdogsInTurn, Starting

(* The join ends with the watchdog, so the start that follows finds none.    *)
LEMMA TurnsOnJoin ==
    ASSUME FeedInv, WatchdogsInTurn, JoinsInTime, NEW t \in FeedThreads, JoinWatchdog(t)
    PROVE  WatchdogsInTurn'
<1>1. /\ FeedTypeOK /\ at[t] = "joining"
      /\ at'[t] = "starting" /\ \A u \in FeedThreads \ {t} : at'[u] = at[u]
      /\ UNCHANGED <<watchdogs, named, overlapped>>
  BY StepFacts DEF FeedInv, JoinWatchdog, Stages, history
<1>2. whose[t] \notin watchdogs
  BY DEF JoinsInTime
<1>3. ~overlapped => watchdogs = {}
  BY <1>1, <1>2 DEF WatchdogsInTurn
<1>4. ~overlapped => \A u \in FeedThreads \ {t} : at'[u] # "joining"
  BY <1>1, HolderFacts
<1> QED
  BY <1>1, <1>3, <1>4 DEF WatchdogsInTurn, Starting

(* A start that has not created its watchdog finds none. *)
LEMMA TurnsOnStart ==
    ASSUME FeedInv, WatchdogsInTurn, NEW t \in FeedThreads,
           at[t] \in {"starting", "creating"},
           at' \in [FeedThreads -> Stages], \A u \in FeedThreads \ {t} : at'[u] = at[u],
           at'[t] \in {"idle", "busy", "creating", "spawning"},
           \A u \in FeedThreads \ {t} : whose'[u] = whose[u],
           UNCHANGED <<watchdogs, named, overlapped>>
    PROVE  WatchdogsInTurn'
<1>1. ~overlapped => watchdogs = {}
  BY DEF WatchdogsInTurn
<1> QED
  BY <1>1 DEF WatchdogsInTurn, Starting

LEMMA TurnsOnSpawn ==
    ASSUME FeedInv, WatchdogsInTurn, NEW t \in FeedThreads, SpawnWatchdog(t)
    PROVE  WatchdogsInTurn'
<1>1. /\ FeedTypeOK /\ at[t] = "spawning"
      /\ at'[t] = "connecting" /\ \A u \in FeedThreads \ {t} : at'[u] = at[u]
      /\ named' = whose[t] /\ watchdogs' = watchdogs \cup {whose[t]}
      /\ UNCHANGED <<whose, overlapped>>
  BY StepFacts DEF FeedInv, SpawnWatchdog, Stages, history
<1>2. ~overlapped => watchdogs' = {named'}
  BY <1>1 DEF WatchdogsInTurn
<1>3. ~overlapped => \A u \in FeedThreads \ {t} : at'[u] # "joining" /\ ~Starting(u)'
  BY <1>1 DEF FeedInv, InTurn, OneStarts, Starting
<1> QED
  BY <1>1, <1>2, <1>3 DEF WatchdogsInTurn, Starting

LEMMA TurnsOnConnect ==
    ASSUME FeedInv, WatchdogsInTurn, NEW t \in FeedThreads, ConnectTicker(t)
    PROVE  WatchdogsInTurn'
<1>1. /\ FeedTypeOK /\ at[t] = "connecting"
      /\ at'[t] \in {"idle", "busy"} /\ \A u \in FeedThreads \ {t} : at'[u] = at[u]
      /\ UNCHANGED <<watchdogs, named, overlapped>>
  BY StepFacts, CallerFacts DEF FeedInv, ConnectTicker, Raise, Stages
<1>2. ~overlapped => \A u \in FeedThreads \ {t} : at'[u] # "joining" /\ ~Starting(u)'
  BY <1>1 DEF FeedInv, InTurn, OneStarts, Starting
<1>3. ~overlapped => watchdogs \subseteq {named}
  BY <1>1 DEF WatchdogsInTurn
<1> QED
  BY <1>1, <1>2, <1>3 DEF WatchdogsInTurn, Starting

LEMMA TurnsStep ==
    ASSUME FeedInv, WatchdogsInTurn, [JoinsInTime]_feedVars, ~authLatch', [FeedNext]_feedVars
    PROVE  WatchdogsInTurn'
<1>0. FeedTypeOK /\ at \in [FeedThreads -> Stages] /\ Async \in FeedThreads
  BY ThreadFacts DEF FeedInv, FeedTypeOK
<1>1. CASE UNCHANGED feedVars
  BY <1>1 DEF feedVars, WatchdogsInTurn, Starting
<1>2. ASSUME NEW t \in FeedThreads, CallRestart(t) PROVE WatchdogsInTurn'
  <2>1. /\ at[t] \in {"idle", "busy", "called"} /\ at' \in [FeedThreads -> Stages]
        /\ at'[t] \in {"idle", "busy", "want"} /\ \A u \in FeedThreads \ {t} : at'[u] = at[u]
    BY <1>0, <1>2, CallerFacts DEF CallRestart, Step, Stages
  <2> QED
    BY <1>2, <2>1, TurnsStay DEF CallRestart, history
<1>3. ASSUME NEW t \in FeedThreads, TakeRestartLock(t) PROVE WatchdogsInTurn'
  <2>1. Step(t, Back(t)) \/ Step(t, "stopping")
    BY <1>3 DEF TakeRestartLock, Limited, Limit
  <2>2. /\ at[t] = "want" /\ at' \in [FeedThreads -> Stages]
        /\ at'[t] \in {"idle", "busy", "stopping"} /\ \A u \in FeedThreads \ {t} : at'[u] = at[u]
    BY <1>0, <1>3, <2>1, CallerFacts DEF TakeRestartLock, Step, Stages
  <2> QED
    BY <1>3, <2>2, TurnsStay DEF TakeRestartLock, history
<1>4. ASSUME NEW t \in FeedThreads, GiveUpStart(t) PROVE WatchdogsInTurn'
  <2>1. /\ at[t] = "starting" /\ at' \in [FeedThreads -> Stages]
        /\ at'[t] \in {"idle", "busy"} /\ \A u \in FeedThreads \ {t} : at'[u] = at[u]
    BY <1>0, <1>4, StepFacts, CallerFacts DEF GiveUpStart, Stages
  <2>2. UNCHANGED <<watchdogs, named, whose, overlapped>>
    BY <1>4 DEF GiveUpStart, RefuseSession
  <2> QED
    BY <2>1, <2>2, TurnsOnStart
<1>5. ASSUME NEW t \in FeedThreads, BeginStart(t) PROVE WatchdogsInTurn'
  <2>1. /\ at[t] = "starting" /\ at' \in [FeedThreads -> Stages]
        /\ at'[t] = "creating" /\ \A u \in FeedThreads \ {t} : at'[u] = at[u]
    BY <1>0, <1>5, StepFacts DEF BeginStart, Stages
  <2> QED
    BY <1>5, <2>1, TurnsOnStart DEF BeginStart, history
<1>6. ASSUME NEW t \in FeedThreads, CreateTicker(t) PROVE WatchdogsInTurn'
  <2>1. Step(t, Back(t)) \/ Step(t, "spawning")
    BY <1>6 DEF CreateTicker, Raise
  <2>2. /\ at[t] = "creating" /\ at' \in [FeedThreads -> Stages]
        /\ at'[t] \in {"idle", "busy", "spawning"} /\ \A u \in FeedThreads \ {t} : at'[u] = at[u]
    BY <1>0, <1>6, <2>1, CallerFacts DEF CreateTicker, Step, Stages
  <2>3. \A u \in FeedThreads \ {t} : whose'[u] = whose[u]
    BY <1>0, <1>6 DEF CreateTicker, FeedTypeOK
  <2> QED
    BY <1>6, <2>2, <2>3, TurnsOnStart DEF CreateTicker
<1>7. ASSUME NEW w \in Tickers, EndWatchdog(w) \/ SeeMarketOpen(w) PROVE WatchdogsInTurn'
  <2>1. watchdogs' \subseteq watchdogs /\ UNCHANGED <<named, at, whose, overlapped>>
    BY <1>7 DEF EndWatchdog, SeeMarketOpen, history
  <2> QED
    BY <2>1 DEF WatchdogsInTurn, Starting
<1>8. ASSUME NEW k \in Tickers, FatalCallback(k) PROVE WatchdogsInTurn'
  <2>1. CASE at' = at
    BY <1>8, <2>1 DEF FatalCallback, history, WatchdogsInTurn, Starting
  <2>2. CASE at[Async] = "idle" /\ Step(Async, "called")
    <3>1. /\ at' \in [FeedThreads -> Stages] /\ at'[Async] = "called"
          /\ \A u \in FeedThreads \ {Async} : at'[u] = at[u]
      BY <1>0, <2>2, StepFacts DEF Stages
    <3> QED
      BY <1>0, <1>8, <2>2, <3>1, TurnsStay DEF FatalCallback, history
  <2> QED
    BY <1>8, <2>1, <2>2 DEF FatalCallback
<1>9. ASSUME NEW k \in Tickers, AuthCallback(k) PROVE FALSE
  BY <1>9 DEF AuthCallback, RefuseSession
<1>10. CASE TurnBreaker
  BY <1>10 DEF TurnBreaker, history, WatchdogsInTurn, Starting
<1>11. ASSUME NEW w \in Tickers, BeginIteration(w) \/ EndIteration(w) PROVE WatchdogsInTurn'
  <2>1. /\ at[w] \in {"idle", "busy"} /\ (Step(w, "idle") \/ Step(w, "busy"))
        /\ UNCHANGED <<watchdogs, named, whose, overlapped>>
    BY <1>11 DEF BeginIteration, EndIteration, history
  <2>2. /\ w \in FeedThreads /\ at' \in [FeedThreads -> Stages]
        /\ at'[w] \in {"idle", "busy"} /\ \A u \in FeedThreads \ {w} : at'[u] = at[u]
    BY <1>0, <2>1, ThreadFacts DEF Step, Stages
  <2> QED
    BY <2>1, <2>2, TurnsStay
<1>12. ASSUME NEW t \in FeedThreads, JoinWatchdog(t) PROVE WatchdogsInTurn'
  <2>1. at' # at
    BY <1>0, <1>12 DEF JoinWatchdog, Step
  <2>2. JoinsInTime
    BY <2>1 DEF feedVars
  <2> QED
    BY <1>12, <2>2, TurnsOnJoin
<1> QED
  BY <1>1, <1>2, <1>3, <1>4, <1>5, <1>6, <1>7, <1>8, <1>9, <1>10, <1>11, <1>12,
     TurnsOnStop, TurnsOnSpawn, TurnsOnConnect
  DEF FeedNext, RestartStep

(* As long as every join comes back because the watchdog has ended, and the  *)
(* session was not refused, one watchdog runs whenever nobody is starting or *)
(* stopping the feed.  A second one takes a join that is given up (on a slow *)
(* iteration or restart, or of the watchdog that restarts and cannot wait    *)
(* for itself), a refused session, or a stop in the middle of a start.       *)
THEOREM FeedOneWatchdog ==
    FeedSpec /\ [][JoinsInTime]_feedVars /\ []~authLatch => []OneWatchdog
<1>1. FeedInit => WatchdogsInTurn
  BY DEF FeedInit, WatchdogsInTurn
<1>2. FeedInv /\ WatchdogsInTurn /\ [JoinsInTime]_feedVars /\ ~authLatch' /\ [FeedNext]_feedVars
      => WatchdogsInTurn'
  BY TurnsStep
<1>3. WatchdogsInTurn => OneWatchdog
  <2> SUFFICES ASSUME WatchdogsInTurn, ~overlapped,
                      \A t \in FeedThreads : at[t] \in {"idle", "busy"}
               PROVE  Cardinality(watchdogs) <= 1
    BY DEF OneWatchdog
  <2>1. watchdogs = {} \/ watchdogs = {named}
    BY DEF WatchdogsInTurn, Starting
  <2>2. Cardinality({}) = 0 /\ Cardinality({named}) = 1
    BY FS_EmptySet, FS_Singleton
  <2>3. Cardinality(watchdogs) \in {0, 1}
    BY <2>1, <2>2, Zenon
  <2> QED
    BY <2>3
<1> QED
  BY <1>1, <1>2, <1>3, FeedInvariant, PTL DEF FeedSpec
=============================================================================
