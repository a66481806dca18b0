---------------------------- MODULE AgentDirLock ----------------------------
(***************************************************************************)
(* The lock of the .agent directory (src/driver/agent-dir-lock.ts): a        *)
(* directory made with mkdir, whose owner.json names the holder, taken over  *)
(* with rename when it looks stale.  A caller is one acquire() of one        *)
(* operating system process, with a token of its own.  What a process does   *)
(* between two file system calls is invisible to the others, so a step is    *)
(* one such call; the recursive removal of a directory counts as one.        *)
(* Left out: errors of mkdir and of the removals.                            *)
(***************************************************************************)
EXTENDS Naturals, FiniteSets

CONSTANTS
    Callers,
    MaxCrashes,  \* how many processes may die
    Aging,       \* a lock may look older than staleMs
    None         \* no lock directory, no owner

ASSUME NoneIsNoCaller == None \notin Callers

ASSUME CrashesAreCounted == MaxCrashes \in Nat

ASSUME AgingIsChoice == Aging \in BOOLEAN

VARIABLES
    lock,   \* the lock directory: the caller that made it, its owner.json
    pc,     \* the next file system call of each caller
    saw,    \* the directory that was there when a caller read owner.json
    late    \* callers whose timeoutMs is over

lockVars == <<lock, pc, saw, late>>

Dir(by, owner) == [by |-> by, owner |-> owner]
Dirs == [by : Callers, owner : Callers \cup {None}]

NoDir == [by |-> None, owner |-> None]

Exists == lock # NoDir

Steps == {"idle", "mkdir", "write", "stat", "read_owner", "rename", "wait",
          "held", "remove", "released", "failed", "dead"}

(* Callers that are between the call of acquire and its end.                *)
Acquiring == {"mkdir", "write", "stat", "read_owner", "rename", "wait"}

LockInit ==
    /\ lock = NoDir
    /\ pc = [c \in Callers |-> "idle"]
    /\ saw = [c \in Callers |-> NoDir]
    /\ late = {}

Goto(c, step) == pc' = [pc EXCEPT ![c] = step]

-----------------------------------------------------------------------------

Acquire(c) ==
    /\ pc[c] = "idle"
    /\ Goto(c, "mkdir")
    /\ UNCHANGED <<lock, saw, late>>

(* tryCreateLock: the directory comes first ...                             *)
Mkdir(c) ==
    /\ pc[c] = "mkdir"
    /\ IF Exists
       THEN Goto(c, "stat") /\ UNCHANGED lock
       ELSE Goto(c, "write") /\ lock' = Dir(c, None)
    /\ UNCHANGED <<saw, late>>

WriteOwnerLeavingDir(c) ==
    /\ pc[c] = "write"
    /\ \/ /\ Exists /\ lock.owner = None
          /\ Goto(c, "held")
          /\ lock' = [lock EXCEPT !.owner = c]
       \/ Goto(c, "failed") /\ UNCHANGED lock
    /\ UNCHANGED <<saw, late>>

(* ... and then its owner.json, written with flag wx into whatever          *)
(* directory is there by now.  When the write fails, for that or for any    *)
(* other reason, the directory is removed.                                  *)
WriteOwner(c) ==
    /\ pc[c] = "write"
    /\ \/ /\ Exists /\ lock.owner = None
          /\ Goto(c, "held")
          /\ lock' = [lock EXCEPT !.owner = c]
       \/ Goto(c, "failed") /\ lock' = NoDir
    /\ UNCHANGED <<saw, late>>

(* tryStealStaleLock: the age of the directory, if it is still there ...    *)
Stat(c) ==
    /\ pc[c] = "stat"
    /\ Goto(c, IF Exists THEN "read_owner" ELSE "mkdir")
    /\ UNCHANGED <<lock, saw, late>>

OwnerIsForeign == lock.owner # None

OwnerIsDead == lock.owner # None /\ pc[lock.owner] = "dead"

(* ... its owner, and whether one of the two calls for a takeover.  The     *)
(* clock is read after both calls: how long they took counts as age.        *)
ReadOwner(c) ==
    /\ pc[c] = "read_owner"
    /\ saw' = [saw EXCEPT ![c] = lock]
    /\ \E tooOld \in {FALSE, Aging} :
           Goto(c, IF OwnerIsDead \/ tooOld THEN "rename" ELSE "wait")
    /\ UNCHANGED <<lock, late>>

(* The takeover moves away the directory that is there by now.              *)
Rename(c) ==
    /\ pc[c] = "rename"
    /\ IF Exists
       THEN Goto(c, "mkdir") /\ lock' = NoDir
       ELSE Goto(c, "wait") /\ UNCHANGED lock
    /\ UNCHANGED <<saw, late>>

WaitForever(c) ==
    /\ pc[c] = "wait"
    /\ Goto(c, "mkdir")
    /\ UNCHANGED <<lock, saw, late>>

(* Time out, or try again after retryMs.                                    *)
Wait(c) ==
    /\ pc[c] = "wait"
    /\ Goto(c, IF c \in late THEN "failed" ELSE "mkdir")
    /\ UNCHANGED <<lock, saw, late>>

(* releaseLock: the owner is read; unless it is somebody else ...           *)
Release(c) ==
    /\ pc[c] = "held"
    /\ Goto(c, IF lock.owner \in {c, None} THEN "remove" ELSE "released")
    /\ UNCHANGED <<lock, saw, late>>

(* ... the directory is removed.                                            *)
Remove(c) ==
    /\ pc[c] = "remove"
    /\ lock' = NoDir
    /\ Goto(c, "released")
    /\ UNCHANGED <<saw, late>>

TimeOut(c) ==
    /\ pc[c] \in Acquiring
    /\ c \notin late
    /\ late' = late \cup {c}
    /\ UNCHANGED <<lock, pc, saw>>

Dead == {c \in Callers : pc[c] = "dead"}

Crash(c) ==
    /\ Cardinality(Dead) < MaxCrashes
    /\ pc[c] \in Acquiring \cup {"held", "remove"}
    /\ Goto(c, "dead")
    /\ UNCHANGED <<lock, saw, late>>

(* The steps that the code of acquire takes by itself.                      *)
AcquireStep(c) ==
    \/ Mkdir(c) \/ WriteOwner(c) \/ Stat(c) \/ ReadOwner(c) \/ Rename(c)
    \/ Wait(c)

(* Everything but the end of what is done under the lock.                   *)
LockStep(c) ==
    Acquire(c) \/ AcquireStep(c) \/ Remove(c) \/ TimeOut(c) \/ Crash(c)

LockNext == \E c \in Callers : LockStep(c) \/ Release(c)

(* setTimeout and the clock make every caller go on and its time run out.   *)
LockFairness ==
    \A c \in Callers : WF_lockVars(AcquireStep(c)) /\ WF_lockVars(TimeOut(c))

LockSpec == LockInit /\ [][LockNext]_lockVars /\ LockFairness

-----------------------------------------------------------------------------
(***************************************************************************)
(* Properties                                                               *)
(***************************************************************************)

(* The type invariant of the lock: a directory that names who made it and   *)
(* who wrote owner.json, or none.                                           *)
LockTypeOK ==
    /\ lock \in Dirs \cup {NoDir}
    /\ pc \in [Callers -> Steps]
    /\ saw \in [Callers -> Dirs \cup {NoDir}]
    /\ late \subseteq Callers

(* agent-dir-lock.ts:118-139: mkdir lets one caller in at a time, also when *)
(* another one's write of owner.json fails and its directory is removed.    *)
MutualExclusion ==
    \A c, d \in Callers : pc[c] = "held" /\ pc[d] = "held" => c = d

(* When every caller has come to its end and none has died, the directory   *)
(* is gone: the next caller need not wait for it to get stale.              *)
NothingLeftBehind ==
    (\A c \in Callers : pc[c] \in {"idle", "released", "failed"}) => ~ Exists

(* acquire always returns or throws, whatever the others do, also when the  *)
(* lock was left by a dead process or half made.                            *)
AcquireEnds ==
    \A c \in Callers : pc[c] = "mkdir" ~> pc[c] \notin Acquiring

(* The comment on the algorithm (agent-dir-lock.ts:10-11): the directory    *)
(* moved away is the very one that was observed, a lock made again by       *)
(* somebody else is never removed.  The rename does not look again.         *)
StolenLockIsTheOneSeen ==
    [][\A c \in Callers :
           pc[c] = "rename" /\ pc'[c] = "mkdir" => lock.by = saw[c].by]_lockVars

=============================================================================
