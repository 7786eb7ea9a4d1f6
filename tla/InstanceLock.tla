---------------------------- MODULE InstanceLock ----------------------------
(***************************************************************************)
(* core/instance_lock.py: the flock on .runtime/locks/kite_session.lock    *)
(* that main.py and runtime_native/tradebot_main.py take before a LIVE or  *)
(* PAPER session and give back at exit.                                    *)
(*                                                                         *)
(* The file system is external: a path that names an inode or nothing, and *)
(* one exclusive advisory lock per inode.  Each system call of acquire and *)
(* release that another process can see is an action.  LOCK_UN and close   *)
(* are one, because the close shows nobody anything more; so are the       *)
(* exists() test and unlink, because both act on whatever the path names.  *)
(* A process that was killed can be started again.                         *)
(***************************************************************************)
CONSTANTS
    Procs,      \* processes that run main.py
    Releasers,  \* those that may end through atexit; the others are killed
    Inodes,     \* files that can exist at the same time
    NoFile,
    Nobody

ASSUME LockAssumption ==
    /\ Releasers \subseteq Procs
    /\ NoFile \notin Inodes
    /\ Nobody \notin Procs

VARIABLES
    path,    \* the inode lock_path names
    holder,  \* inode -> the process that holds its flock
    pc,      \* process -> where it is in acquire and release
    fd       \* process -> the inode its descriptor is open on

lockVars == <<path, holder, pc, fd>>

PC == {"out", "opened", "refused", "held", "unlocked"}

Unused(i) == i # path /\ \A q \in Procs : fd[q] # i

(* os.open(path, O_RDWR | O_CREAT) *)
OpenFile(p) ==
    /\ pc[p] \in {"out", "refused"}
    /\ path' \in IF path = NoFile THEN {i \in Inodes : Unused(i)} ELSE {path}
    /\ fd' = [fd EXCEPT ![p] = path']
    /\ pc' = [pc EXCEPT ![p] = "opened"]
    /\ UNCHANGED holder

(* Mutant of Flock: the lock is taken shared. *)
FlockShared(p) ==
    /\ pc[p] = "opened"
    /\ holder' = [holder EXCEPT ![fd[p]] = p]
    /\ pc' = [pc EXCEPT ![p] = "held"]
    /\ UNCHANGED <<path, fd>>

(* flock(LOCK_EX | LOCK_NB) *)
Flock(p) ==
    /\ pc[p] = "opened"
    /\ holder[fd[p]] = Nobody
    /\ holder' = [holder EXCEPT ![fd[p]] = p]
    /\ pc' = [pc EXCEPT ![p] = "held"]
    /\ UNCHANGED <<path, fd>>

(* BlockingIOError: close the file and report the holder. *)
Refuse(p) ==
    /\ pc[p] = "opened"
    /\ holder[fd[p]] # Nobody
    /\ fd' = [fd EXCEPT ![p] = NoFile]
    /\ pc' = [pc EXCEPT ![p] = "refused"]
    /\ UNCHANGED <<path, holder>>

(* Mutant of Unlock: release forgets LOCK_UN and the descriptor stays open. *)
UnlockForgotten(p) ==
    /\ p \in Releasers /\ pc[p] = "held"
    /\ pc' = [pc EXCEPT ![p] = "unlocked"]
    /\ UNCHANGED <<path, holder, fd>>

(* release: flock(LOCK_UN), close(fd) *)
Unlock(p) ==
    /\ p \in Releasers /\ pc[p] = "held"
    /\ holder' = [holder EXCEPT ![fd[p]] = Nobody]
    /\ fd' = [fd EXCEPT ![p] = NoFile]
    /\ pc' = [pc EXCEPT ![p] = "unlocked"]
    /\ UNCHANGED path

(* release: unlink whatever lock_path names by now, if anything *)
Unlink(p) ==
    /\ pc[p] = "unlocked"
    /\ path' = NoFile
    /\ pc' = [pc EXCEPT ![p] = "out"]
    /\ UNCHANGED <<holder, fd>>

(* The process is killed: the kernel closes its descriptor, which frees its *)
(* lock; the file stays.                                                    *)
Crash(p) ==
    /\ pc[p] \in {"opened", "held", "unlocked"}
    /\ holder' = [i \in Inodes |-> IF holder[i] = p THEN Nobody ELSE holder[i]]
    /\ fd' = [fd EXCEPT ![p] = NoFile]
    /\ pc' = [pc EXCEPT ![p] = "out"]
    /\ UNCHANGED path

-----------------------------------------------------------------------------
LockInit ==
    /\ path = NoFile
    /\ holder = [i \in Inodes |-> Nobody]
    /\ pc = [p \in Procs |-> "out"]
    /\ fd = [p \in Procs |-> NoFile]

LockNext ==
    \/ \E p \in Procs : OpenFile(p)
    \/ \E p \in Procs : Flock(p)
    \/ \E p \in Procs : Refuse(p)
    \/ \E p \in Procs : Unlock(p)
    \/ \E p \in Procs : Unlink(p)
    \/ \E p \in Procs : Crash(p)

LockSpec == LockInit /\ [][LockNext]_lockVars

-----------------------------------------------------------------------------
(* The lock table and the descriptors agree: a lock belongs to a process     *)
(* that has that very file open and is past its flock, and a process has a   *)
(* file open exactly between open and close.                                 *)
LockTypeOK ==
    /\ path \in Inodes \cup {NoFile}
    /\ holder \in [Inodes -> Procs \cup {Nobody}]
    /\ pc \in [Procs -> PC]
    /\ fd \in [Procs -> Inodes \cup {NoFile}]
    /\ \A p \in Procs : fd[p] # NoFile <=> pc[p] \in {"opened", "held"}

(* "Process-wide single-instance lock for Kite sessions": acquire succeeds   *)
(* in at most one process at a time.                                         *)
MutualExclusion ==
    \A p, q \in Procs : pc[p] = "held" /\ pc[q] = "held" => p = q

(* What the flock does guarantee while sessions come and go: two sessions    *)
(* run at once only when one of them holds a file that the lock path no      *)
(* longer names, because some release unlinked it.                           *)
SecondSessionNeedsUnlink ==
    \A p, q \in Procs :
        pc[p] = "held" /\ pc[q] = "held" /\ p # q => fd[p] # path \/ fd[q] # path

(* "stale lock files do not block forever": acquire refuses a process only   *)
(* while a live process holds the file it opened, whatever was killed or     *)
(* released before.                                                          *)
RefusedByLiveHolder ==
    [][\A p \in Procs : pc[p] = "opened" /\ pc'[p] = "refused" =>
            \E q \in Procs \ {p} : pc[q] = "held" /\ fd[q] = fd[p]]_lockVars
=============================================================================
