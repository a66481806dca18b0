---------------------------- MODULE DriverRouting ----------------------------
(***************************************************************************)
(* The driver routing file of a project (src/driver/driver-routing-          *)
(* service.ts), changed by several backend processes under the lock of       *)
(* AgentDirLock: each caller is one updateRouting or resetRouting of one     *)
(* process, with the revision that its client saw earlier.  A revision is a  *)
(* hash of the effective routing, so a document stands for its revision.     *)
(* What is done under the lock is synchronous, but other processes see every *)
(* access to the file.  Left out: currentConfig, which each of these calls   *)
(* reads again from the disk; the mutex of one process, whose calls come one *)
(* after the other; the validation of a request, which is one refusal.       *)
(***************************************************************************)
EXTENDS AgentDirLock

CONSTANTS
    Docs,    \* the routing documents: default driver and roles
    BaseDoc, \* what the layers below the file say
    NoFile   \* no file in .agent

ASSUME BaseIsDocument == BaseDoc \in Docs /\ NoFile \notin Docs

VARIABLES
    file,      \* the routing file
    request,   \* what each caller wants: a document, or NoFile to reset
    expected,  \* its expected_revision
    previous,  \* its previousRaw
    step       \* where it is under the lock

routingVars == <<file, request, expected, previous, step>>
vars == <<lockVars, routingVars>>

Files == Docs \cup {NoFile}

Effective(f) == IF f = NoFile THEN BaseDoc ELSE f

(* The ends of an operation under the lock.                                 *)
Ends == {"saved", "conflict", "refused", "write_failed"}

OperationSteps == {"load", "read", "write", "reload", "restore"} \cup Ends

RoutingInit ==
    /\ LockInit
    /\ file \in Files
    /\ request = [c \in Callers |-> NoFile]
    /\ expected = [c \in Callers |-> BaseDoc]
    /\ previous = [c \in Callers |-> NoFile]
    /\ step = [c \in Callers |-> "load"]

(* A client asks for a change of a configuration that it got at any time.   *)
Begin(c) ==
    /\ Acquire(c)
    /\ \E f \in Files : request' = [request EXCEPT ![c] = f]
    /\ \E r \in Docs : expected' = [expected EXCEPT ![c] = r]
    /\ UNCHANGED <<file, previous, step>>

(* Every step under the lock leaves the lock alone.                         *)
Under(c, from, to) ==
    /\ pc[c] = "held"
    /\ step[c] = from
    /\ step' = [step EXCEPT ![c] = to]
    /\ UNCHANGED <<lockVars, request, expected>>

LoadWithoutCompare(c) ==
    /\ Under(c, "load", "read")
    /\ UNCHANGED <<file, previous>>

(* loadConfigSafely and assertRevision, against the disk.                   *)
LoadAndCompare(c) ==
    /\ Under(c, "load", IF expected[c] = Effective(file) THEN "read" ELSE "conflict")
    /\ UNCHANGED <<file, previous>>

(* The driver is locked, unknown or not selectable, or the disk unreadable. *)
Refuse(c) ==
    /\ \/ Under(c, "load", "refused")
       \/ Under(c, "read", "refused")
    /\ UNCHANGED <<file, previous>>

ReadRawAfterWrite(c) ==
    /\ Under(c, "read", "write")
    /\ previous' = [previous EXCEPT ![c] = request[c]]
    /\ UNCHANGED file

ReadRaw(c) ==
    /\ Under(c, "read", "write")
    /\ previous' = [previous EXCEPT ![c] = file]
    /\ UNCHANGED file

(* writeAtomic or remove: a rename or an unlink.                            *)
WriteFile(c) ==
    /\ Under(c, "write", "reload")
    /\ file' = request[c]
    /\ UNCHANGED previous

(* There is nothing to remove when there is no file.                        *)
WriteFails(c) ==
    /\ request[c] # NoFile \/ previous[c] # NoFile
    /\ Under(c, "write", "write_failed")
    /\ UNCHANGED <<file, previous>>

Reload(c) ==
    /\ \/ Under(c, "reload", "saved")
       \/ Under(c, "reload", "restore")
    /\ UNCHANGED <<file, previous>>

(* restorePrevious, which keeps a failure of its own to itself.             *)
RestorePrevious(c) ==
    /\ Under(c, "restore", "write_failed")
    /\ file' \in {previous[c], file}
    /\ UNCHANGED previous

ReleaseWhenDone(c) ==
    /\ step[c] \in {"saved", "conflict"}
    /\ Release(c)
    /\ UNCHANGED routingVars

(* withFileLock: the lock is released in every case.                        *)
ReleaseLock(c) ==
    /\ step[c] \in Ends
    /\ Release(c)
    /\ UNCHANGED routingVars

Operation(c) ==
    \/ LoadAndCompare(c) \/ Refuse(c) \/ ReadRaw(c) \/ WriteFile(c)
    \/ WriteFails(c) \/ Reload(c) \/ RestorePrevious(c) \/ ReleaseLock(c)

LockOnly(c) ==
    /\ \/ AcquireStep(c) \/ Remove(c) \/ TimeOut(c) \/ Crash(c)
    /\ UNCHANGED routingVars

RoutingNext == \E c \in Callers : Begin(c) \/ Operation(c) \/ LockOnly(c)

(* Synchronous code under the lock goes on by itself.                       *)
RoutingFairness ==
    /\ LockFairness
    /\ \A c \in Callers : WF_vars(Operation(c)) /\ WF_lockVars(Remove(c))

RoutingSpec == RoutingInit /\ [][RoutingNext]_vars /\ RoutingFairness

-----------------------------------------------------------------------------
(***************************************************************************)
(* Properties                                                               *)
(***************************************************************************)

(* The type invariant of the routing file and its writers.                  *)
RoutingTypeOK ==
    /\ file \in Files
    /\ request \in [Callers -> Files]
    /\ expected \in [Callers -> Docs]
    /\ previous \in [Callers -> Files]
    /\ step \in [Callers -> OperationSteps]

(* driver-routing-service.ts:393-396, expected_revision across processes:   *)
(* what a write replaces is what its client last saw.  A writer that holds  *)
(* an old revision never wipes out the change of another one.               *)
NoLostUpdate ==
    [][\A c \in Callers :
           step[c] = "write" /\ step'[c] = "reload"
               => Effective(file) = expected[c]]_vars

(* driver-routing-service.ts:446-455: a caller that is told "saved" leaves  *)
(* with its own document on the disk, and what it holds for a restore is    *)
(* what its client saw.                                                     *)
FileIsTheWriters ==
    \A c \in Callers :
        pc[c] = "held" =>
            /\ step[c] \in {"reload", "restore", "saved"} => file = request[c]
            /\ step[c] \in {"write", "reload", "restore"} =>
                   Effective(previous[c]) = expected[c]

(* driver-routing-service.ts:670-682: every update ends, with the lock      *)
(* released or never acquired, also when the lock was a dead process's.     *)
UpdateEnds ==
    \A c \in Callers :
        pc[c] = "mkdir" ~> pc[c] \in {"released", "failed", "dead"}

=============================================================================
