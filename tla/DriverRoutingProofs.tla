------------------------ MODULE DriverRoutingProofs ------------------------
(***************************************************************************)
(* For every number of callers and documents: the lock of .agent leaves      *)
(* nothing behind; and as long as each takeover is one of a dead maker's     *)
(* directory, it is a lock and a routing update is never lost, whoever dies. *)
(* That this condition is met is what the algorithm promises and does not    *)
(* keep for three callers; three cases in which it is met follow.            *)
(***************************************************************************)
EXTENDS DriverRouting, FiniteSetTheorems, TLAPS

(* The takeover moves away a directory that nobody needs any more.          *)
RobsTheDead ==
    \A c \in Callers : pc[c] = "rename" /\ pc'[c] = "mkdir" => pc[lock.by] = "dead"

(* While it is alive, a caller has the directory that it made until it      *)
(* removes it, and nobody else writes owner.json there.                     *)
OwnsDir == {"write", "held", "remove"}

DirIsItsMakers ==
    \A c \in Callers :
        /\ pc[c] \in OwnsDir => lock.by = c
        /\ pc[c] = "write" => lock.owner = None
        /\ pc[c] \in {"held", "remove"} => lock.owner = c
        /\ lock.by = c => pc[c] \in OwnsDir \cup {"dead"} /\ lock.owner \in {c, None}

LockInvariant == LockTypeOK /\ DirIsItsMakers

(* When no lock looks stale, what a caller is about to take over was the    *)
(* directory of a dead maker when it looked.                                *)
SawTheDead ==
    \A c \in Callers :
        pc[c] = "rename" => saw[c].by \in Callers /\ pc[saw[c].by] = "dead"

(* A caller has done nothing under the lock before it has it.               *)
Starting == \A c \in Callers : pc[c] \in Acquiring \cup {"idle"} => step[c] = "load"

(* Between its comparison and its write, the file of the holder is the one  *)
(* that its client saw.                                                     *)
ComparedIsCurrent ==
    \A c \in Callers :
        pc[c] = "held" =>
            /\ step[c] \in {"read", "write"} => Effective(file) = expected[c]
            /\ step[c] = "write" => previous[c] = file

RoutingInvariant ==
    LockInvariant /\ RoutingTypeOK /\ Starting /\ ComparedIsCurrent /\ FileIsTheWriters

-----------------------------------------------------------------------------

LEMMA LockStarts == LockInit => LockInvariant /\ SawTheDead
BY NoneIsNoCaller
   DEF LockInit, LockInvariant, LockTypeOK, DirIsItsMakers, SawTheDead, OwnsDir,
       NoDir, Steps

(* A lock that nobody owns is no directory.                                 *)
LEMMA LockShape ==
    ASSUME LockTypeOK
    PROVE  /\ lock.by \in Callers \cup {None}
           /\ lock.owner \in Callers \cup {None}
           /\ Exists <=> lock.by \in Callers
           /\ ~ Exists => lock.owner = None
BY NoneIsNoCaller DEF LockTypeOK, Dirs, NoDir, Exists

LEMMA LockTypesKept ==
    ASSUME LockTypeOK, [LockNext]_lockVars
    PROVE  LockTypeOK'
<1>. USE NoneIsNoCaller DEF LockTypeOK
<1>1. CASE UNCHANGED lockVars
  BY <1>1 DEF lockVars
<1>2. ASSUME NEW c \in Callers, LockStep(c) \/ Release(c)
      PROVE  LockTypeOK'
  <2>1. CASE Acquire(c) \/ Stat(c) \/ Wait(c) \/ Release(c) \/ TimeOut(c) \/ Crash(c)
    BY <2>1 DEF Acquire, Stat, Wait, Release, TimeOut, Crash, Goto, Steps
  <2>2. CASE Mkdir(c)
    <3>1. Dir(c, None) \in Dirs
      BY DEF Dir, Dirs
    <3>. QED
      BY <2>2, <3>1 DEF Mkdir, Goto, Steps
  <2>3. CASE WriteOwner(c)
    <3>1. Exists => [lock EXCEPT !.owner = c] \in Dirs
      BY DEF Exists, Dirs
    <3>. QED
      BY <2>3, <3>1 DEF WriteOwner, Goto, Steps
  <2>4. CASE ReadOwner(c)
    <3>1. PICK tooOld \in {FALSE, Aging} :
              pc' = [pc EXCEPT ![c] = IF OwnerIsDead \/ tooOld THEN "rename" ELSE "wait"]
      BY <2>4, Zenon DEF ReadOwner, Goto
    <3>2. pc' = [pc EXCEPT ![c] = "rename"] \/ pc' = [pc EXCEPT ![c] = "wait"]
      BY <3>1, Zenon
    <3>. QED
      BY <2>4, <3>2 DEF ReadOwner, Steps
  <2>5. CASE Rename(c) \/ Remove(c)
    BY <2>5 DEF Rename, Remove, Goto, Steps
  <2>. QED
    BY <1>2, <2>1, <2>2, <2>3, <2>4, <2>5 DEF LockStep, AcquireStep
<1>. QED
  BY <1>1, <1>2 DEF LockNext

LEMMA LockStepKeeps ==
    ASSUME LockInvariant, [LockNext]_lockVars, [RobsTheDead]_lockVars
    PROVE  LockInvariant'
<1>. USE NoneIsNoCaller DEF LockInvariant
<1>s. /\ lock.by \in Callers \cup {None}
      /\ lock.owner \in Callers \cup {None}
      /\ Exists <=> lock.by \in Callers
      /\ ~ Exists => lock.owner = None
  BY LockShape
<1>t. LockTypeOK'
  BY LockTypesKept
<1>1. CASE UNCHANGED lockVars
  BY <1>1, <1>t DEF lockVars, DirIsItsMakers
<1>2. ASSUME NEW c \in Callers, LockStep(c) \/ Release(c), ~ UNCHANGED lockVars
      PROVE  DirIsItsMakers'
  <2>1. CASE Acquire(c) \/ Stat(c) \/ Wait(c) \/ TimeOut(c) \/ Crash(c) \/ Release(c)
    BY <2>1 DEF Acquire, Stat, Wait, TimeOut, Crash, Release, Goto, LockTypeOK,
                DirIsItsMakers, OwnsDir, Acquiring
  <2>2. CASE Mkdir(c) /\ Exists
    BY <2>2 DEF Mkdir, Goto, LockTypeOK, DirIsItsMakers, OwnsDir
  <2>3. CASE Mkdir(c) /\ ~ Exists
    <3>1. lock' = [by |-> c, owner |-> None] /\ pc' = [pc EXCEPT ![c] = "write"]
      BY <2>3 DEF Mkdir, Goto, Dir
    <3>2. \A d \in Callers : pc[d] \notin OwnsDir
      BY <2>3, <1>s DEF DirIsItsMakers
    <3>. QED
      BY <3>1, <3>2 DEF LockTypeOK, DirIsItsMakers, OwnsDir
  <2>4. CASE WriteOwner(c)
    <3>1. lock.by = c /\ pc[c] = "write"
      BY <2>4 DEF WriteOwner, DirIsItsMakers, OwnsDir
    <3>2. \A d \in Callers \ {c} : pc[d] \notin OwnsDir
      BY <3>1 DEF DirIsItsMakers
    <3>3. CASE pc' = [pc EXCEPT ![c] = "held"] /\ lock' = [lock EXCEPT !.owner = c]
      <4>1. lock \in Dirs
        BY <3>1 DEF LockTypeOK, NoDir
      <4>2. lock'.by = c /\ lock'.owner = c
        BY <3>3, <3>1, <4>1 DEF Dirs
      <4>. QED
        BY <4>2, <3>3, <3>2 DEF LockTypeOK, DirIsItsMakers, OwnsDir
    <3>4. CASE pc' = [pc EXCEPT ![c] = "failed"] /\ lock' = NoDir
      BY <3>4, <3>2 DEF LockTypeOK, DirIsItsMakers, OwnsDir, NoDir
    <3>. QED
      BY <2>4, <3>3, <3>4 DEF WriteOwner, Goto
  <2>5. CASE ReadOwner(c)
    <3>1. PICK to \in {"rename", "wait"} : pc' = [pc EXCEPT ![c] = to]
      <4>1. PICK tooOld \in {FALSE, Aging} :
                pc' = [pc EXCEPT ![c] = IF OwnerIsDead \/ tooOld THEN "rename" ELSE "wait"]
        BY <2>5, Zenon DEF ReadOwner, Goto
      <4>. QED
        BY <4>1, Zenon
    <3>. QED
      BY <2>5, <3>1 DEF ReadOwner, LockTypeOK, DirIsItsMakers, OwnsDir
  <2>6. CASE Rename(c) /\ ~ Exists
    BY <2>6 DEF Rename, Goto, LockTypeOK, DirIsItsMakers, OwnsDir
  <2>7. CASE Rename(c) /\ Exists
    <3>1. pc[c] = "rename" /\ pc' = [pc EXCEPT ![c] = "mkdir"] /\ lock' = NoDir
      BY <2>7 DEF Rename, Goto
    <3>2. pc[lock.by] = "dead"
      BY <3>1, <1>2 DEF RobsTheDead, LockTypeOK
    <3>3. \A d \in Callers : pc[d] \notin OwnsDir
      BY <3>2 DEF DirIsItsMakers, OwnsDir
    <3>. QED
      BY <3>1, <3>3 DEF LockTypeOK, DirIsItsMakers, OwnsDir, NoDir
  <2>8. CASE Remove(c)
    <3>1. lock.by = c
      BY <2>8 DEF Remove, DirIsItsMakers, OwnsDir
    <3>2. \A d \in Callers \ {c} : pc[d] \notin OwnsDir
      BY <3>1 DEF DirIsItsMakers
    <3>. QED
      BY <2>8, <3>2 DEF Remove, Goto, LockTypeOK, DirIsItsMakers, OwnsDir, NoDir
  <2>. QED
    BY <1>2, <2>1, <2>2, <2>3, <2>4, <2>5, <2>6, <2>7, <2>8 DEF LockStep, AcquireStep
<1>. QED
  BY <1>1, <1>2, <1>t DEF LockNext

LEMMA LockInvariantExcludes == LockInvariant => MutualExclusion
BY DEF LockInvariant, DirIsItsMakers, OwnsDir, MutualExclusion

(* The lock is a lock for any number of callers, whoever dies and however   *)
(* old a lock looks, as long as what a takeover moves away is the directory *)
(* of a dead maker (agent-dir-lock.ts:118-170).                             *)
THEOREM LockExcludes == LockSpec /\ [][RobsTheDead]_lockVars => []MutualExclusion
<1>1. LockInvariant /\ [LockNext]_lockVars /\ [RobsTheDead]_lockVars => LockInvariant'
  BY LockStepKeeps
<1>. QED
  BY <1>1, LockStarts, LockInvariantExcludes, PTL DEF LockSpec

-----------------------------------------------------------------------------
(* When takeovers are of the dead.                                          *)

LEMMA LookersSawTheDead ==
    ASSUME Aging = FALSE, LockInvariant, SawTheDead, [LockNext]_lockVars
    PROVE  SawTheDead'
<1>. USE NoneIsNoCaller DEF LockInvariant
<1>1. CASE UNCHANGED lockVars
  BY <1>1 DEF lockVars, SawTheDead
<1>2. ASSUME NEW c \in Callers, LockStep(c) \/ Release(c)
      PROVE  SawTheDead'
  <2>d. \A d \in Callers : pc[d] = "dead" => pc'[d] = "dead"
    BY <1>2 DEF LockStep, AcquireStep, Acquire, Mkdir, WriteOwner, Stat, ReadOwner,
                Rename, Wait, Release, Remove, TimeOut, Crash, Goto, LockTypeOK, Acquiring
  <2>1. CASE ReadOwner(c)
    <3>1. PICK tooOld \in {FALSE, Aging} :
              pc' = [pc EXCEPT ![c] = IF OwnerIsDead \/ tooOld THEN "rename" ELSE "wait"]
      BY <2>1, Zenon DEF ReadOwner, Goto
    <3>2. ~ tooOld
      BY <3>1, Zenon
    <3>3. CASE OwnerIsDead
      <4>1. lock.owner # None /\ pc[lock.owner] = "dead"
        BY <3>3 DEF OwnerIsDead
      <4>2. lock.by \in Callers
        BY <4>1, LockShape
      <4>3. lock.owner = lock.by
        BY <4>1, <4>2 DEF DirIsItsMakers
      <4>4. saw' = [saw EXCEPT ![c] = lock]
        BY <2>1 DEF ReadOwner
      <4>5. \A d \in Callers : d # c => saw'[d] = saw[d] /\ pc'[d] = pc[d]
        BY <4>4, <3>1 DEF LockTypeOK
      <4>6. saw'[c] = lock
        BY <4>4 DEF LockTypeOK
      <4>. QED
        BY <4>1, <4>2, <4>3, <4>5, <4>6, <2>d DEF SawTheDead
    <3>4. CASE ~ OwnerIsDead
      <4>1. pc' = [pc EXCEPT ![c] = "wait"]
        BY <3>1, <3>2, <3>4, Zenon
      <4>2. saw' = [saw EXCEPT ![c] = lock]
        BY <2>1 DEF ReadOwner
      <4>3. \A d \in Callers : d # c => saw'[d] = saw[d] /\ pc'[d] = pc[d]
        BY <4>1, <4>2 DEF LockTypeOK
      <4>4. pc'[c] = "wait"
        BY <4>1 DEF LockTypeOK
      <4>. QED
        BY <4>3, <4>4, <2>d DEF SawTheDead
    <3>. QED
      BY <3>3, <3>4
  <2>2. CASE ~ ReadOwner(c)
    <3>1. saw' = saw
      BY <1>2, <2>2 DEF LockStep, AcquireStep, Acquire, Mkdir, WriteOwner, Stat, Rename,
                        Wait, Release, Remove, TimeOut, Crash
    <3>2. \A d \in Callers : pc'[d] = "rename" => pc[d] = "rename"
      BY <1>2, <2>2 DEF LockStep, AcquireStep, Acquire, Mkdir, WriteOwner, Stat, Rename,
                        Wait, Release, Remove, TimeOut, Crash, Goto, LockTypeOK
    <3>. QED
      BY <3>1, <3>2, <2>d DEF SawTheDead
  <2>. QED
    BY <2>1, <2>2
<1>. QED
  BY <1>1, <1>2 DEF LockNext

(* The rename succeeds on a directory only.                                 *)
LEMMA RenameMovesADir ==
    ASSUME LockTypeOK, LockNext, NEW c \in Callers, pc[c] = "rename", pc'[c] = "mkdir"
    PROVE  lock.by \in Callers
<1>1. PICK d \in Callers : LockStep(d) \/ Release(d)
  BY DEF LockNext
<1>2. d = c
  BY <1>1 DEF LockStep, AcquireStep, Acquire, Mkdir, WriteOwner, Stat, ReadOwner, Rename,
              Wait, Release, Remove, TimeOut, Crash, Goto, LockTypeOK
<1>3. Rename(c)
  BY <1>1, <1>2 DEF LockStep, AcquireStep, Acquire, Mkdir, WriteOwner, Stat, ReadOwner,
                    Wait, Release, Remove, TimeOut, Crash, Goto, LockTypeOK, Acquiring
<1>4. Exists
  BY <1>3 DEF Rename, Goto, LockTypeOK
<1>. QED
  BY <1>4, LockShape

(* What the comment on the algorithm promises (agent-dir-lock.ts:10-11) is  *)
(* all that exclusion needs, with any number of callers and any deaths: the *)
(* new lock taken for the stale one is the only way two callers get in.     *)
THEOREM PromiseExcludes ==
    ASSUME Aging = FALSE
    PROVE  LockSpec /\ StolenLockIsTheOneSeen
               => [][RobsTheDead]_lockVars /\ []MutualExclusion
<1>. DEFINE Seen ==
         \A c \in Callers : pc[c] = "rename" /\ pc'[c] = "mkdir" => lock.by = saw[c].by
<1>1. LockInvariant /\ SawTheDead /\ [Seen]_lockVars => [RobsTheDead]_lockVars
  BY DEF SawTheDead, RobsTheDead
<1>2. LockInvariant /\ SawTheDead /\ [LockNext]_lockVars /\ [Seen]_lockVars
          => LockInvariant' /\ SawTheDead'
  BY <1>1, LockStepKeeps, LookersSawTheDead
<1>. QED
  BY <1>1, <1>2, LockStarts, LockInvariantExcludes, PTL DEF LockSpec, StolenLockIsTheOneSeen

(* Two callers keep the promise, whoever dies: there is nobody to make the  *)
(* lock again between the look and the rename.                              *)
THEOREM PairKeepsPromise ==
    ASSUME Aging = FALSE, NEW a, NEW b, Callers \subseteq {a, b}
    PROVE  LockSpec => StolenLockIsTheOneSeen /\ []MutualExclusion
<1>. DEFINE Seen ==
         \A c \in Callers : pc[c] = "rename" /\ pc'[c] = "mkdir" => lock.by = saw[c].by
<1>1. ASSUME LockInvariant, SawTheDead, LockNext, NEW c \in Callers,
             pc[c] = "rename", pc'[c] = "mkdir"
      PROVE  lock.by = saw[c].by
  <2>1. lock.by \in Callers
    BY <1>1, RenameMovesADir DEF LockInvariant
  <2>2. lock.by # c
    BY <1>1, <2>1 DEF LockInvariant, DirIsItsMakers, OwnsDir
  <2>3. saw[c].by \in Callers /\ saw[c].by # c
    BY <1>1 DEF SawTheDead
  <2>. QED
    BY <2>1, <2>2, <2>3
<1>2. LockInvariant /\ SawTheDead /\ [LockNext]_lockVars => [Seen]_lockVars
  BY <1>1
<1>. HIDE DEF Seen
<1>3. LockInvariant /\ SawTheDead /\ [Seen]_lockVars => [RobsTheDead]_lockVars
  BY DEF SawTheDead, RobsTheDead, Seen
<1>4. LockInvariant /\ SawTheDead /\ [LockNext]_lockVars => LockInvariant' /\ SawTheDead'
  BY <1>2, <1>3, LockStepKeeps, LookersSawTheDead
<1>5. LockSpec => [][Seen]_lockVars /\ []MutualExclusion
  BY <1>2, <1>4, LockStarts, LockInvariantExcludes, PTL DEF LockSpec
<1>. QED
  BY <1>5 DEF Seen, StolenLockIsTheOneSeen

(* With no deaths there is nothing to take over, for any number of callers. *)
THEOREM NobodyIsRobbed ==
    ASSUME Aging = FALSE, MaxCrashes = 0
    PROVE  LockSpec => [][RobsTheDead]_lockVars /\ []MutualExclusion
<1>. DEFINE NobodyDied == \A c \in Callers : pc[c] # "dead"
<1>1. LockInit => NobodyDied
  BY DEF LockInit
<1>2. ASSUME NobodyDied, LockInvariant, [LockNext]_lockVars
      PROVE  NobodyDied'
  <2>1. Cardinality(Dead) = 0
    <3>1. Dead = {}
      BY <1>2 DEF Dead
    <3>. QED
      BY <3>1, FS_EmptySet
  <2>2. \A c \in Callers : ~ Crash(c)
    BY <2>1 DEF Crash
  <2>3. CASE UNCHANGED lockVars
    BY <1>2, <2>3 DEF lockVars
  <2>4. ASSUME NEW c \in Callers, LockStep(c) \/ Release(c)
        PROVE  NobodyDied'
    <3>1. CASE ReadOwner(c)
      <4>1. PICK tooOld \in {FALSE, Aging} :
                pc' = [pc EXCEPT ![c] = IF OwnerIsDead \/ tooOld THEN "rename" ELSE "wait"]
        BY <3>1, Zenon DEF ReadOwner, Goto
      <4>2. pc' = [pc EXCEPT ![c] = "rename"] \/ pc' = [pc EXCEPT ![c] = "wait"]
        BY <4>1, Zenon
      <4>. QED
        BY <1>2, <4>2 DEF LockInvariant, LockTypeOK
    <3>2. CASE ~ ReadOwner(c)
      BY <1>2, <2>2, <2>4, <3>2
         DEF LockStep, AcquireStep, Acquire, Mkdir, WriteOwner, Stat, Rename, Wait, Release,
             Remove, TimeOut, Goto, LockInvariant, LockTypeOK
    <3>. QED
      BY <3>1, <3>2
  <2>. QED
    BY <1>2, <2>3, <2>4 DEF LockNext
<1>3. NobodyDied /\ SawTheDead => [RobsTheDead]_lockVars
  BY DEF SawTheDead, RobsTheDead
<1>4. NobodyDied /\ SawTheDead /\ LockInvariant /\ [LockNext]_lockVars
          => NobodyDied' /\ SawTheDead' /\ LockInvariant'
  BY <1>2, <1>3, LockStepKeeps, LookersSawTheDead
<1>. QED
  BY <1>1, <1>3, <1>4, LockStarts, LockInvariantExcludes, PTL DEF LockSpec

-----------------------------------------------------------------------------
(* Whoever holds the lock, steals it or dies: a directory without an owner  *)
(* has its maker still at work in it or dead, and one with an owner has     *)
(* that owner.                                                              *)
DirHasKeeper ==
    Exists => \/ lock.owner = None /\ pc[lock.by] \in {"write", "dead"}
              \/ lock.owner # None /\ pc[lock.owner] \in {"held", "remove", "dead"}

LEMMA KeeperKept ==
    ASSUME LockTypeOK, DirHasKeeper, [LockNext]_lockVars
    PROVE  DirHasKeeper'
<1>. USE NoneIsNoCaller
<1>s. /\ lock.by \in Callers \cup {None}
      /\ lock.owner \in Callers \cup {None}
      /\ Exists <=> lock.by \in Callers
      /\ ~ Exists => lock.owner = None
  BY LockShape
<1>1. CASE UNCHANGED lockVars
  BY <1>1 DEF lockVars, DirHasKeeper, Exists
<1>2. ASSUME NEW c \in Callers, LockStep(c) \/ Release(c)
      PROVE  DirHasKeeper'
  <2>1. ASSUME lock' = NoDir
        PROVE  DirHasKeeper'
    BY <2>1 DEF DirHasKeeper, Exists
  <2>2. CASE Mkdir(c) /\ ~ Exists
    BY <2>2 DEF Mkdir, Goto, Dir, DirHasKeeper, LockTypeOK
  <2>3. CASE WriteOwner(c)
    <3>1. CASE lock' = NoDir
      BY <3>1, <2>1
    <3>2. CASE pc' = [pc EXCEPT ![c] = "held"] /\ lock' = [lock EXCEPT !.owner = c]
               /\ Exists
      <4>1. lock \in Dirs
        BY <3>2 DEF LockTypeOK, Exists
      <4>2. lock'.owner = c /\ pc'[c] = "held"
        BY <3>2, <4>1 DEF Dirs, LockTypeOK
      <4>. QED
        BY <4>2 DEF DirHasKeeper
    <3>. QED
      BY <2>3, <3>1, <3>2 DEF WriteOwner, Goto
  <2>4. CASE Acquire(c) \/ Stat(c) \/ Wait(c) \/ Release(c) \/ TimeOut(c) \/ Crash(c)
    BY <2>4, <1>s DEF Acquire, Stat, Wait, Release, TimeOut, Crash, Goto, DirHasKeeper, Exists,
                      LockTypeOK, Acquiring
  <2>5. CASE ReadOwner(c)
    <3>1. \A d \in Callers : d # c => pc'[d] = pc[d]
      BY <2>5 DEF ReadOwner, Goto, LockTypeOK
    <3>2. pc[c] = "read_owner" /\ lock' = lock
      BY <2>5 DEF ReadOwner
    <3>. QED
      BY <3>1, <3>2, <1>s DEF DirHasKeeper, Exists
  <2>6. CASE (Mkdir(c) /\ Exists) \/ (Rename(c) /\ ~ Exists)
    BY <2>6, <1>s DEF Mkdir, Rename, Goto, DirHasKeeper, Exists, LockTypeOK
  <2>. QED
    BY <1>2, <2>1, <2>2, <2>3, <2>4, <2>5, <2>6 DEF LockStep, AcquireStep, Rename, Remove
<1>. QED
  BY <1>1, <1>2 DEF LockNext

(* What is in the directory, and where a caller is, keep their types, also  *)
(* with dead owners and takeovers.                                          *)
THEOREM LockTypes == LockSpec => []LockTypeOK
<1>1. LockInit => LockTypeOK
  BY LockStarts DEF LockInvariant
<1>2. LockTypeOK /\ [LockNext]_lockVars => LockTypeOK'
  BY LockTypesKept
<1>. QED
  BY <1>1, <1>2, PTL DEF LockSpec

(* Whatever is stolen from whom: once every caller has come to its end and  *)
(* none has died, the directory is gone (agent-dir-lock.ts:125-139).        *)
THEOREM LockIsTidy == LockSpec => []NothingLeftBehind
<1>1. LockInit => LockTypeOK /\ DirHasKeeper
  BY LockStarts DEF LockInvariant, LockInit, DirHasKeeper, Exists
<1>2. LockTypeOK /\ DirHasKeeper /\ [LockNext]_lockVars => (LockTypeOK /\ DirHasKeeper)'
  BY LockTypesKept, KeeperKept
<1>3. LockTypeOK /\ DirHasKeeper => NothingLeftBehind
  BY LockShape DEF DirHasKeeper, NothingLeftBehind
<1>. QED
  BY <1>1, <1>2, <1>3, PTL DEF LockSpec

-----------------------------------------------------------------------------

LEMMA RoutingStarts == RoutingInit => RoutingInvariant
BY LockStarts, BaseIsDocument
   DEF RoutingInit, LockInit, RoutingInvariant, RoutingTypeOK, Starting,
       ComparedIsCurrent, FileIsTheWriters, OperationSteps, Ends, Files

(* To the lock, what happens under it is a stutter.                         *)
LEMMA RoutingLocks ==
    ASSUME [RoutingNext]_vars
    PROVE  [LockNext]_lockVars
<1>1. CASE UNCHANGED vars
  BY <1>1 DEF vars
<1>2. ASSUME NEW c \in Callers, Begin(c) \/ Operation(c) \/ LockOnly(c)
      PROVE  [LockNext]_lockVars
  <2>1. CASE Begin(c)
    BY <2>1 DEF Begin, LockNext, LockStep
  <2>2. CASE Operation(c)
    BY <2>2 DEF Operation, LoadAndCompare, Refuse, ReadRaw, WriteFile, WriteFails,
                Reload, RestorePrevious, ReleaseLock, Under, LockNext
  <2>3. CASE LockOnly(c)
    BY <2>3 DEF LockOnly, LockNext, LockStep
  <2>. QED
    BY <1>2, <2>1, <2>2, <2>3
<1>. QED
  BY <1>1, <1>2 DEF RoutingNext

(* A step of one operation is one of its caller alone.                      *)
LEMMA OperationKeeps ==
    ASSUME RoutingInvariant, NEW c \in Callers, Operation(c),
           LockInvariant'
    PROVE  RoutingInvariant'
<1>. USE DEF RoutingInvariant
<1>m. \A d \in Callers \ {c} : pc[c] = "held" => pc[d] # "held"
  BY LockInvariantExcludes DEF MutualExclusion
<1>1. CASE LoadAndCompare(c)
  <2>. USE <1>1 DEF LoadAndCompare, Under, lockVars
  <2>1. RoutingTypeOK'
    BY DEF RoutingTypeOK, OperationSteps, Ends
  <2>2. Starting'
    BY DEF RoutingTypeOK, Starting, Acquiring
  <2>3. ComparedIsCurrent' /\ FileIsTheWriters'
    BY <1>m DEF RoutingTypeOK, ComparedIsCurrent, FileIsTheWriters, Effective
  <2>. QED
    BY <2>1, <2>2, <2>3
<1>2. CASE Refuse(c)
  <2>. USE <1>2 DEF Refuse, Under, lockVars
  <2>1. RoutingTypeOK'
    BY DEF RoutingTypeOK, OperationSteps, Ends
  <2>2. Starting'
    BY DEF RoutingTypeOK, Starting, Acquiring
  <2>3. ComparedIsCurrent' /\ FileIsTheWriters'
    BY <1>m DEF RoutingTypeOK, ComparedIsCurrent, FileIsTheWriters, Effective
  <2>. QED
    BY <2>1, <2>2, <2>3
<1>3. CASE ReadRaw(c)
  <2>. USE <1>3 DEF ReadRaw, Under, lockVars
  <2>1. RoutingTypeOK'
    BY DEF RoutingTypeOK, OperationSteps, Ends
  <2>2. Starting'
    BY DEF RoutingTypeOK, Starting, Acquiring
  <2>3. ComparedIsCurrent' /\ FileIsTheWriters'
    BY <1>m DEF RoutingTypeOK, ComparedIsCurrent, FileIsTheWriters, Effective
  <2>. QED
    BY <2>1, <2>2, <2>3
<1>4. CASE WriteFile(c)
  <2>. USE <1>4 DEF WriteFile, Under, lockVars
  <2>1. RoutingTypeOK'
    BY DEF RoutingTypeOK, OperationSteps, Ends
  <2>2. Starting'
    BY DEF RoutingTypeOK, Starting, Acquiring
  <2>3. ComparedIsCurrent' /\ FileIsTheWriters'
    BY <1>m DEF RoutingTypeOK, ComparedIsCurrent, FileIsTheWriters, Effective
  <2>. QED
    BY <2>1, <2>2, <2>3
<1>5. CASE WriteFails(c)
  <2>. USE <1>5 DEF WriteFails, Under, lockVars
  <2>1. RoutingTypeOK'
    BY DEF RoutingTypeOK, OperationSteps, Ends
  <2>2. Starting'
    BY DEF RoutingTypeOK, Starting, Acquiring
  <2>3. ComparedIsCurrent' /\ FileIsTheWriters'
    BY <1>m DEF RoutingTypeOK, ComparedIsCurrent, FileIsTheWriters, Effective
  <2>. QED
    BY <2>1, <2>2, <2>3
<1>6. CASE Reload(c)
  <2>. USE <1>6 DEF Reload, Under, lockVars
  <2>1. RoutingTypeOK'
    BY DEF RoutingTypeOK, OperationSteps, Ends
  <2>2. Starting'
    BY DEF RoutingTypeOK, Starting, Acquiring
  <2>3. ComparedIsCurrent' /\ FileIsTheWriters'
    BY <1>m DEF RoutingTypeOK, ComparedIsCurrent, FileIsTheWriters, Effective
  <2>. QED
    BY <2>1, <2>2, <2>3
<1>7. CASE RestorePrevious(c)
  <2>. USE <1>7 DEF RestorePrevious, Under, lockVars
  <2>1. RoutingTypeOK'
    BY DEF RoutingTypeOK, OperationSteps, Ends
  <2>2. Starting'
    BY DEF RoutingTypeOK, Starting, Acquiring
  <2>3. ComparedIsCurrent' /\ FileIsTheWriters'
    BY <1>m DEF RoutingTypeOK, ComparedIsCurrent, FileIsTheWriters, Effective
  <2>. QED
    BY <2>1, <2>2, <2>3
<1>8. CASE ReleaseLock(c)
  <2>. USE <1>8 DEF ReleaseLock, Release, Goto, routingVars
  <2>1. RoutingTypeOK'
    BY DEF RoutingTypeOK
  <2>2. Starting'
    BY DEF LockInvariant, LockTypeOK, Starting, Acquiring
  <2>3. ComparedIsCurrent' /\ FileIsTheWriters'
    BY DEF LockInvariant, LockTypeOK, ComparedIsCurrent, FileIsTheWriters
  <2>. QED
    BY <2>1, <2>2, <2>3
<1>. QED
  BY <1>1, <1>2, <1>3, <1>4, <1>5, <1>6, <1>7, <1>8 DEF Operation

LEMMA LockOnlyKeeps ==
    ASSUME RoutingInvariant, NEW c \in Callers, LockOnly(c), LockInvariant'
    PROVE  RoutingInvariant'
<1>. USE DEF RoutingInvariant
<1>1. UNCHANGED routingVars
  BY DEF LockOnly
<1>2. RoutingTypeOK'
  BY <1>1 DEF RoutingTypeOK, routingVars
<1>4. \A d \in Callers : pc'[d] # pc[d] =>
          \/ pc[d] = "write" /\ pc'[d] \in {"held", "failed"}
          \/ pc[d] \in Acquiring /\ pc'[d] \in Acquiring \cup {"failed"}
          \/ pc[d] = "remove" /\ pc'[d] = "released"
          \/ pc'[d] = "dead"
  BY DEF LockOnly, AcquireStep, Mkdir, WriteOwner, Stat, ReadOwner, Rename, Wait, Remove,
         TimeOut, Crash, Goto, Acquiring, LockInvariant, LockTypeOK
<1>5. Starting'
  BY <1>1, <1>4 DEF Starting, Acquiring, routingVars
<1>6. \A d \in Callers : pc'[d] = "held" => pc[d] = "held" \/ step[d] = "load"
  BY <1>4 DEF Starting, Acquiring
<1>7. ComparedIsCurrent' /\ FileIsTheWriters'
  BY <1>1, <1>6 DEF ComparedIsCurrent, FileIsTheWriters, routingVars, Effective
<1>. QED
  BY <1>2, <1>5, <1>7

LEMMA RoutingStepKeeps ==
    ASSUME RoutingInvariant, [RoutingNext]_vars, [RobsTheDead]_lockVars
    PROVE  RoutingInvariant'
<1>l. LockInvariant'
  BY RoutingLocks, LockStepKeeps DEF RoutingInvariant
<1>1. CASE UNCHANGED vars
  BY <1>1, <1>l DEF vars, lockVars, routingVars, RoutingInvariant, RoutingTypeOK, Starting,
                    ComparedIsCurrent, FileIsTheWriters, Effective
<1>2. ASSUME NEW c \in Callers, Begin(c)
      PROVE  RoutingInvariant'
  <2>. USE <1>2 DEF Begin, Acquire, Goto, RoutingInvariant
  <2>1. RoutingTypeOK'
    BY DEF RoutingTypeOK
  <2>2. Starting'
    BY DEF LockInvariant, LockTypeOK, Starting, Acquiring
  <2>3. ComparedIsCurrent' /\ FileIsTheWriters'
    BY DEF LockInvariant, LockTypeOK, RoutingTypeOK, ComparedIsCurrent, FileIsTheWriters,
           Effective
  <2>. QED
    BY <1>l, <2>1, <2>2, <2>3
<1>3. ASSUME NEW c \in Callers, Operation(c)
      PROVE  RoutingInvariant'
  BY <1>3, <1>l, OperationKeeps
<1>4. ASSUME NEW c \in Callers, LockOnly(c)
      PROVE  RoutingInvariant'
  BY <1>4, <1>l, LockOnlyKeeps
<1>. QED
  BY <1>1, <1>2, <1>3, <1>4 DEF RoutingNext

(* The routing file, its writers and their steps keep their types.          *)
THEOREM RoutingTypes == RoutingSpec => []RoutingTypeOK
<1>1. RoutingInit => RoutingTypeOK
  BY RoutingStarts DEF RoutingInvariant
<1>2. ASSUME RoutingTypeOK, [RoutingNext]_vars
      PROVE  RoutingTypeOK'
  <2>1. CASE UNCHANGED routingVars
    BY <1>2, <2>1 DEF routingVars, RoutingTypeOK
  <2>2. ASSUME NEW c \in Callers, Begin(c)
        PROVE  RoutingTypeOK'
    BY <1>2, <2>2 DEF Begin, RoutingTypeOK
  <2>3. ASSUME NEW c \in Callers, Operation(c), ~ ReleaseLock(c)
        PROVE  RoutingTypeOK'
    BY <1>2, <2>3 DEF Operation, LoadAndCompare, Refuse, ReadRaw, WriteFile, WriteFails,
                      Reload, RestorePrevious, Under, RoutingTypeOK, OperationSteps, Ends
  <2>. QED
    BY <1>2, <2>1, <2>2, <2>3 DEF RoutingNext, LockOnly, ReleaseLock, vars
<1>. QED
  BY <1>1, <1>2, PTL DEF RoutingSpec

(* An update that is told "saved" is on the disk when the lock is released, *)
(* and a restore puts back what the client saw, whichever processes died    *)
(* before (driver-routing-service.ts:446-455).                              *)
THEOREM SavedIsOnDisk == RoutingSpec /\ [][RobsTheDead]_lockVars => []FileIsTheWriters
<1>1. RoutingInvariant /\ [RoutingNext]_vars /\ [RobsTheDead]_lockVars => RoutingInvariant'
  BY RoutingStepKeeps
<1>2. RoutingInvariant => FileIsTheWriters
  BY DEF RoutingInvariant
<1>. QED
  BY <1>1, <1>2, RoutingStarts, PTL DEF RoutingSpec

(* Of any number of clients that start from one revision, none overwrites   *)
(* what another one saved or left when it died                              *)
(* (driver-routing-service.ts:393-396).                                     *)
THEOREM UpdatesAreNotLost == RoutingSpec /\ [][RobsTheDead]_lockVars => NoLostUpdate
<1>1. RoutingInvariant /\ [RoutingNext]_vars /\ [RobsTheDead]_lockVars => RoutingInvariant'
  BY RoutingStepKeeps
<1>2. ASSUME RoutingInvariant, [RoutingNext]_vars, NEW c \in Callers,
             step[c] = "write", step'[c] = "reload"
      PROVE  Effective(file) = expected[c]
  <2>1. ~ UNCHANGED vars
    BY <1>2 DEF vars, routingVars
  <2>2. ASSUME NEW d \in Callers, Begin(d) \/ Operation(d) \/ LockOnly(d)
        PROVE  pc[c] = "held"
    <3>1. CASE Begin(d) \/ LockOnly(d) \/ ReleaseLock(d)
      BY <1>2, <3>1 DEF Begin, LockOnly, ReleaseLock, routingVars
    <3>2. CASE ~ ReleaseLock(d) /\ Operation(d)
      <4>1. pc[d] = "held" /\ \A e \in Callers \ {d} : step'[e] = step[e]
        BY <1>2, <3>2
           DEF Operation, LoadAndCompare, Refuse, ReadRaw, WriteFile, WriteFails, Reload,
               RestorePrevious, Under, RoutingInvariant, RoutingTypeOK
      <4>. QED
        BY <1>2, <4>1, <3>2
    <3>. QED
      BY <2>2, <3>1, <3>2
  <2>3. pc[c] = "held"
    BY <1>2, <2>1, <2>2 DEF RoutingNext
  <2>. QED
    BY <1>2, <2>3 DEF RoutingInvariant, ComparedIsCurrent
<1>3. RoutingInvariant /\ [RoutingNext]_vars
          => [\A c \in Callers :
                 step[c] = "write" /\ step'[c] = "reload"
                     => Effective(file) = expected[c]]_vars
  BY <1>2
<1>. QED
  BY <1>1, <1>3, RoutingStarts, PTL DEF RoutingSpec, NoLostUpdate

LEMMA RoutingIsLocking == RoutingSpec => LockSpec
<1>1. [RoutingNext]_vars => [LockNext]_lockVars
  BY RoutingLocks
<1>. QED
  BY <1>1, PTL DEF RoutingSpec, RoutingInit, RoutingFairness, LockSpec

(* Two updates, as the run has them, for any documents and any deaths: they *)
(* exclude each other, and nothing is lost or wrongly reported.             *)
THEOREM PairUpdatesSafely ==
    ASSUME Aging = FALSE, NEW a, NEW b, Callers \subseteq {a, b}
    PROVE  RoutingSpec => []MutualExclusion /\ []FileIsTheWriters /\ NoLostUpdate
<1>1. LockSpec => StolenLockIsTheOneSeen
  BY PairKeepsPromise
<1>2. LockSpec /\ StolenLockIsTheOneSeen => [][RobsTheDead]_lockVars /\ []MutualExclusion
  BY PromiseExcludes
<1>. QED
  BY <1>1, <1>2, RoutingIsLocking, SavedIsOnDisk, UpdatesAreNotLost

=============================================================================
