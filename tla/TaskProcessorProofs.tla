------------------------ MODULE TaskProcessorProofs --------------------------
(***************************************************************************)
(* Proofs about TaskProcessor, for every set of runs, agents, changesets    *)
(* and deliveries.                                                          *)
(***************************************************************************)
EXTENDS TaskProcessor, TLAPS

(* The two steps of a run's life that every handler is built from keep the  *)
(* table of runs well typed.                                                *)
LEMMA EndRunType ==
    ASSUME TypeOK, NEW r \in Runs, NEW s \in RunStatuses,
           IsActiveRun(r), EndRun(r, s)
    PROVE  runs' \in [Runs -> RunRecords]
<1>1. runs[r] \in RunRecords /\ runs[r] # NoRun
  BY DEF TypeOK, IsActiveRun, NoRun
<1>2. [runs[r] EXCEPT !.status = s] \in RunRecords
  BY <1>1 DEF RunRecords
<1>3. runs' = [runs EXCEPT ![r] = [runs[r] EXCEPT !.status = s]]
  BY DEF EndRun
<1>. QED
  BY <1>2, <1>3 DEF TypeOK

LEMMA SynthesizedInputsType ==
    ASSUME TypeOK, NEW c \in Cursors
    PROVE  \A input \in SynthesizedInputs(c) :
               /\ input \in CursorInputs \cup {NoInput}
               /\ input = NoInput \/ input.cursor = c
  BY DEF SynthesizedInputs, TypeOK, Cursors, CursorInputs, Input, NoInput

LEMMA BeginRunType ==
    ASSUME TypeOK, NEW r \in Runs, NEW parent \in Runs \cup {None},
           NEW input \in CursorInputs, BeginRun(r, parent, input)
    PROVE  TypeOK'
<1>1. [status |-> "running", parent |-> parent] \in RunRecords
  BY DEF RunRecords, RunStatuses
<1>2. runs' \in [Runs -> RunRecords]
  BY <1>1 DEF BeginRun, TypeOK
<1>3. input.cursor \in Cursors
  BY DEF CursorInputs, Cursors
<1>. QED
  BY <1>2, <1>3 DEF BeginRun, TypeOK, TaskStatuses, InterruptStates

LEMMA ResumeInputsType ==
    ASSUME TypeOK, checkpoint # NoCheckpoint
    PROVE  ResumeInputs \subseteq CursorInputs
<1>1. checkpoint.cursor \in Cursors
  BY DEF TypeOK, Checkpoints
<1>2. checkpoint.input \in CursorInputs \cup {NoInput}
  BY DEF TypeOK, Checkpoints
<1>3. cursorInput \in CursorInputs \cup {NoInput}
  BY DEF TypeOK
<1>4. NoInput.cursor \notin Cursors
  BY DEF NoInput, Input, Cursors
<1>. QED
  BY <1>1, <1>2, <1>3, <1>4, SynthesizedInputsType DEF ResumeInputs

(* What commitInterruptedRun stores as checkpoint and cursor input.         *)
LEMMA CommitInterruptedRunType ==
    ASSUME TypeOK, NEW r \in Runs,
           NEW type \in {"user_interrupted", "process_interrupted"},
           CommitInterruptedRun(r, type)
    PROVE  TypeOK'
<1>1. runs' \in [Runs -> RunRecords]
  BY EndRunType DEF CommitInterruptedRun, RunStatuses
<1>2. PICK input \in SafepointInputs :
          /\ checkpoint' = Checkpoint(r, cursor, input)
          /\ cursorInput' = IF input = NoInput THEN cursorInput ELSE input
  BY DEF CommitInterruptedRun
<1>3. input \in CursorInputs \cup {NoInput}
  BY <1>2, SynthesizedInputsType DEF SafepointInputs, TypeOK
<1>4. checkpoint' \in Checkpoints
  BY <1>2, <1>3 DEF Checkpoints, Checkpoint, TypeOK
<1>5. interruptState' \in InterruptStates
  BY DEF CommitInterruptedRun, InterruptStates, Interrupt
<1>. QED
  BY <1>1, <1>2, <1>3, <1>4, <1>5
     DEF CommitInterruptedRun, TypeOK, TaskStatuses, historyVars

LEMMA AdvanceStageType ==
    ASSUME TypeOK, NEW r \in Runs, AdvanceStageNext(r)
    PROVE  TypeOK'
<1>1. PICK c \in Cursors, i \in Invocations, next \in StageInputs,
           output \in Changesets, agent \in Agents \cup {None},
           overrideInput \in BOOLEAN, saved \in BOOLEAN :
               AdvanceStage(r, c, i, next, overrideInput, output, agent, saved)
  BY DEF AdvanceStageNext
<1>2. PICK input \in ResolveStageNextInput(c, next, overrideInput) :
        /\ input.cursor \in CursorTransitions[c]
        /\ ChangesetIdentity(input, output)
        /\ owner' = IF agent # None THEN agent
                    ELSE IF input.cursor = "execute_agent" THEN input.ref
                    ELSE owner
        /\ input.cursor = "mailbox_wait" => owner' # None
        /\ cursor' = input.cursor
        /\ cursorInput' = input
        /\ IF input.cursor = "done"
           THEN /\ status' = "completed"
                /\ finalOutput' = output
                /\ EndRun(r, "completed")
                /\ currentRun' = None
                /\ UNCHANGED checkpoint
           ELSE /\ checkpoint' = IF saved
                                 THEN Checkpoint(r, input.cursor, input)
                                 ELSE checkpoint
                /\ UNCHANGED <<status, finalOutput, runs, currentRun>>
        /\ gated' = IF c = "gate" THEN cursorInput.ref
                    ELSE IF c \in {"execute_agent", "council"} THEN None
                    ELSE gated
        /\ councilDone' = (councilDone \/ c = "council")
        /\ unguarded' = (unguarded \/ ~ saved)
  BY <1>1 DEF AdvanceStage
<1>3. input \in CursorInputs
  BY <1>2 DEF ResolveStageNextInput, StageInputs, CursorInputs, Input
<1>4. input.cursor \in Cursors
  BY <1>3 DEF CursorInputs, Cursors
<1>5. owner' \in Agents \cup {None}
  BY <1>2, <1>3 DEF CursorInputs, TypeOK
<1>6. gated' \in Changesets \cup {ZeroHash, None}
  <2>1. c = "gate" => cursorInput.ref \in Changesets \cup {ZeroHash}
    BY <1>1 DEF AdvanceStage, ActiveStageTarget, CursorInputs, NoInput, Input,
                TypeOK
  <2>. QED
    BY <1>2, <2>1 DEF TypeOK
<1>7. runs' \in [Runs -> RunRecords]
  <2>1. IsActiveRun(r)
    BY <1>1 DEF AdvanceStage, ActiveStageTarget, ActiveRunOwnership
  <2>. QED
    BY <1>2, <2>1, EndRunType DEF RunStatuses, TypeOK
<1>8. checkpoint' \in Checkpoints
  BY <1>2, <1>3, <1>4 DEF Checkpoints, Checkpoint, TypeOK
<1>9. /\ status' \in TaskStatuses \cup {"none"}
      /\ finalOutput' \in Changesets \cup {None}
      /\ currentRun' \in Runs \cup {None}
      /\ councilDone' \in BOOLEAN /\ unguarded' \in BOOLEAN
  BY <1>2 DEF TypeOK, TaskStatuses
<1>10. UNCHANGED <<errorCode, councilOverride, interruptState>>
       /\ activeStage' = NoStage
  BY <1>1 DEF AdvanceStage
<1>. QED
  BY <1>2, <1>3, <1>4, <1>5, <1>6, <1>7, <1>8, <1>9, <1>10 DEF TypeOK

LEMMA InitType == Init => TypeOK
  BY DEF Init, TypeOK, RunRecords, Cursors, InterruptStates, Checkpoints

LEMMA NextType == TypeOK /\ [Next]_vars => TypeOK'
<1>. SUFFICES ASSUME TypeOK, [Next]_vars PROVE TypeOK'
  OBVIOUS
<1>1. ASSUME NEW r \in Runs, BeginRunNext(r) PROVE TypeOK'
  <2>1. CASE BeginCreate(r) \/ BeginCouncilRefinement(r)
    <3>1. Input("select_agent", None) \in CursorInputs
      BY DEF CursorInputs, Input
    <3>. QED
      BY <2>1, <3>1, BeginRunType DEF BeginCreate, BeginCouncilRefinement
  <2>2. ASSUME NEW source \in Runs, NEW d \in Deliveries,
               BeginMailboxContinuation(r, source, d)
        PROVE  TypeOK'
    <3>1. Input("execute_agent", owner) \in CursorInputs
      BY <2>2 DEF BeginMailboxContinuation, CursorInputs, Input, TypeOK
    <3>. QED
      BY <2>2, <3>1, BeginRunType DEF BeginMailboxContinuation
  <2>3. ASSUME NEW strategy \in {"from_checkpoint", "restart_from_beginning"},
               BeginCheckpointResume(r, strategy)
        PROVE  TypeOK'
    <3>1. checkpoint.run \in Runs
      BY <2>3 DEF BeginCheckpointResume, TypeOK, Checkpoints
    <3>2. Input("select_agent", None) \in CursorInputs
      BY DEF CursorInputs, Input
    <3>3. PICK input \in CursorInputs : BeginRun(r, checkpoint.run, input)
      BY <2>3, <3>2, ResumeInputsType DEF BeginCheckpointResume
    <3>. QED
      BY <3>1, <3>3, BeginRunType
  <2>. QED
    BY <1>1, <2>1, <2>2, <2>3 DEF BeginRunNext
<1>2. ASSUME NEW r \in Runs, StageNext(r) PROVE TypeOK'
  <2>1. ASSUME NEW c \in Cursors \ {"mailbox_wait", "done"},
               NEW i \in Invocations, StartStage(r, c, i)
        PROVE  TypeOK'
    BY <2>1 DEF StartStage, TypeOK, taskVars, historyVars, Stages
  <2>2. ASSUME NEW c \in Cursors \ {"mailbox_wait", "done"},
               NEW i \in Invocations, NEW agent \in Agents \cup {None},
               FailStage(r, c, i, agent)
        PROVE  TypeOK'
    <3>1. runs' \in [Runs -> RunRecords]
      BY <2>2, EndRunType
         DEF FailStage, ActiveStageTarget, ActiveRunOwnership, RunStatuses
    <3>. QED
      BY <2>2, <3>1 DEF FailStage, TypeOK, TaskStatuses, Cursors,
                        CursorInputs, Input, historyVars
  <2>3. CASE AdvanceStageNext(r)
    BY <2>3, AdvanceStageType
  <2>4. CASE SetCouncilOverride(r)
    BY <2>4 DEF SetCouncilOverride, TypeOK, taskVars, historyVars
  <2>5. ASSUME NEW next \in {"execute_agent", "council", "gate", "deliver",
                             cursor},
               NEW winner \in Agents \cup {owner},
               RecordRunEvent(r, next, winner)
        PROVE  TypeOK'
    BY <2>5 DEF RecordRunEvent, TypeOK, Cursors, historyVars
  <2>. QED
    BY <1>2, <2>1, <2>2, <2>3, <2>4, <2>5 DEF StageNext
<1>3. ASSUME NEW r \in Runs, EndRunNext(r) PROVE TypeOK'
  <2>1. CASE CompleteRunForMailboxWait(r)
    <3>1. runs' \in [Runs -> RunRecords]
      BY <2>1, EndRunType
         DEF CompleteRunForMailboxWait, ActiveRunOwnership, RunStatuses
    <3>. QED
      BY <2>1, <3>1 DEF CompleteRunForMailboxWait, TypeOK, TaskStatuses,
                        InterruptStates, Interrupt, historyVars
  <2>2. CASE InterruptRun(r) \/ RecoverInterruptedTask(r)
    BY <2>2, CommitInterruptedRunType DEF InterruptRun, RecoverInterruptedTask
  <2>3. ASSUME NEW s \in FinishStatuses,
               NEW output \in Changesets \cup {None}, FinishRun(r, s, output)
        PROVE  TypeOK'
    <3>1. s \in {"completed", "failed", "cancelled"}
      BY DEF FinishStatuses
    <3>2. runs' \in [Runs -> RunRecords]
      BY <2>3, <3>1, EndRunType DEF FinishRun, RunStatuses
    <3>. QED
      BY <2>3, <3>1, <3>2 DEF FinishRun, TypeOK, TaskStatuses, Cursors,
                              CursorInputs, Input, historyVars
  <2>. QED
    BY <1>3, <2>1, <2>2, <2>3 DEF EndRunNext
<1>4. CASE BlockMailboxDeadlock
  BY <1>4 DEF BlockMailboxDeadlock, TypeOK, TaskStatuses, InterruptStates,
              Interrupt, historyVars
<1>5. CASE ExpireMailboxWait
  BY <1>5 DEF ExpireMailboxWait, TypeOK, TaskStatuses, InterruptStates,
              Interrupt, Cursors, CursorInputs, Input, historyVars
<1>6. CASE UNCHANGED vars
  BY <1>6 DEF vars, TypeOK
<1>. QED
  BY <1>1, <1>2, <1>3, <1>4, <1>5, <1>6 DEF Next

(* The aggregate stays well typed whatever calls the handlers receive.      *)
THEOREM TypeCorrect == Spec => []TypeOK
<1>1. Init => TypeOK
  BY InitType
<1>2. TypeOK /\ [Next]_vars => TypeOK'
  BY NextType
<1>. QED
  BY <1>1, <1>2, PTL DEF Spec

-----------------------------------------------------------------------------

(* The statuses a status can be entered from, read off ALLOWED_TRANSITIONS. *)
LEMMA TransitionSources ==
    ASSUME TypeOK
    PROVE  /\ MayTransition(status, "blocked") =>
                  status \in {"running", "waiting_help", "blocked"}
           /\ MayTransition(status, "failed") =>
                  status \in {"running", "waiting_help", "blocked", "failed"}
           /\ MayTransition(status, "cancelled") =>
                  status \in {"running", "waiting_help", "blocked", "cancelled"}
           /\ MayTransition(status, "completed") =>
                  status \in {"running", "completed"}
  BY DEF MayTransition, AllowedTransitions, TypeOK, TaskStatuses

(* Ending the active run leaves none active and touches no other run.       *)
LEMMA RunEnds ==
    ASSUME InductiveInvariant, NEW r \in Runs,
           NEW s \in RunStatuses \ {"running"}, IsActiveRun(r), EndRun(r, s)
    PROVE  /\ \A q \in Runs : ~ IsActiveRun(q)'
           /\ runs'[r].status = s
           /\ \A q \in Runs \ {r} : runs'[q] = runs[q]
<1>1. runs \in [Runs -> RunRecords]
  BY DEF InductiveInvariant, TypeOK
<1>2. runs[r] \in RunRecords /\ runs[r] # NoRun
  BY <1>1 DEF IsActiveRun, NoRun
<1>3. runs'[r].status = s
  BY <1>1, <1>2 DEF EndRun, RunRecords
<1>4. \A q \in Runs \ {r} : runs'[q] = runs[q]
  BY <1>1 DEF EndRun
<1>5. \A q \in Runs \ {r} : ~ IsActiveRun(q)
  BY DEF InductiveInvariant, OneActiveRun
<1>. QED
  BY <1>3, <1>4, <1>5 DEF IsActiveRun

-----------------------------------------------------------------------------

(* The parts of the invariant are expanded in the lemmas that preserve it.  *)
USE DEF OneActiveRun, ActiveRunIsTracked, InputMatchesCursor,
        InterruptedTaskIsResumable, InterruptedHasNoActiveRun,
        WaitKnowsOwner, WaitingTaskHasContext, TimeoutMeansFailed,
        ActiveStageOnCursor, CouncilOverrideHonoured, OutputMeansCompleted,
        CheckpointGated, OnlyGatedChangesetDelivered

(* A new run starts from a clean runtime state and the input its intent     *)
(* brings; only an input resumed from a checkpoint carries obligations.     *)
LEMMA BeginRunInductive ==
    ASSUME InductiveInvariant, NEW r \in Runs, BeginRunNext(r)
    PROVE  InductiveInvariant'
<1>1. TypeOK /\ TypeOK'
  BY NextType DEF InductiveInvariant, Next
<1>2. PICK parent \in Runs \cup {None}, input \in CursorInputs :
        /\ BeginRun(r, parent, input)
        /\ input.cursor = "mailbox_wait" => owner # None
        /\ (~ unguarded /\ input.cursor = "deliver"
              /\ input.ref # ZeroHash) => input.ref = gated
  <2>1. Input("select_agent", None) \in CursorInputs
    BY DEF CursorInputs, Input
  <2>2. CASE BeginCreate(r) \/ BeginCouncilRefinement(r)
    BY <2>1, <2>2 DEF BeginCreate, BeginCouncilRefinement, Input
  <2>3. ASSUME NEW source \in Runs, NEW d \in Deliveries,
               BeginMailboxContinuation(r, source, d)
        PROVE  \E parent \in Runs \cup {None}, input \in CursorInputs :
                 BeginRun(r, parent, input) /\ input.cursor = "execute_agent"
    <3>1. Input("execute_agent", owner) \in CursorInputs
      BY <1>1, <2>3 DEF BeginMailboxContinuation, CursorInputs, Input, TypeOK
    <3>. QED
      BY <2>3, <3>1 DEF BeginMailboxContinuation, Input
  <2>4. ASSUME NEW strategy \in {"from_checkpoint", "restart_from_beginning"},
               BeginCheckpointResume(r, strategy)
        PROVE  \E parent \in Runs \cup {None}, input \in CursorInputs :
                 /\ BeginRun(r, parent, input)
                 /\ \/ input \in {cursorInput, checkpoint.input}
                    \/ input.cursor = "select_agent"
                    \/ input \in SynthesizedInputs(checkpoint.cursor)
    <3>1. PICK input \in IF strategy = "from_checkpoint" THEN ResumeInputs
                         ELSE {Input("select_agent", None)} :
              BeginRun(r, checkpoint.run, input)
      BY <2>4 DEF BeginCheckpointResume
    <3>2. checkpoint # NoCheckpoint /\ checkpoint.run \in Runs
      BY <1>1, <2>4 DEF BeginCheckpointResume, TypeOK, Checkpoints
    <3>3. input \in CursorInputs
      BY <1>1, <2>1, <3>1, <3>2, ResumeInputsType
    <3>4. \/ input \in {cursorInput, checkpoint.input}
          \/ input.cursor = "select_agent"
          \/ input \in SynthesizedInputs(checkpoint.cursor)
      BY <3>1 DEF ResumeInputs, Input
    <3>. QED
      BY <3>1, <3>2, <3>3, <3>4
  <2>5. \A input \in SynthesizedInputs(checkpoint.cursor) :
            /\ input.cursor # "mailbox_wait"
            /\ input.cursor = "deliver" => input.ref = ZeroHash
    BY DEF SynthesizedInputs, Input, NoInput
  <2>. QED
    BY <2>2, <2>3, <2>4, <2>5 DEF BeginRunNext, InductiveInvariant
<1>3. /\ \A q \in Runs : IsActiveRun(q)' => q = r
      /\ IsActiveRun(r)'
  BY <1>1, <1>2 DEF BeginRun, NoActiveRun, IsActiveRun, TypeOK
<1>. QED
  BY <1>1, <1>2, <1>3
     DEF InductiveInvariant, BeginRun, NoInterrupt, Interrupt

(* A stage hands over along CursorTransitions, or completes the Task.       *)
LEMMA AdvanceStageInductive ==
    ASSUME InductiveInvariant, NEW r \in Runs, AdvanceStageNext(r)
    PROVE  InductiveInvariant'
<1>1. TypeOK /\ TypeOK'
  BY AdvanceStageType DEF InductiveInvariant
<1>2. PICK c \in Cursors, i \in Invocations, next \in StageInputs,
           output \in Changesets, agent \in Agents \cup {None},
           overrideInput \in BOOLEAN, saved \in BOOLEAN :
               AdvanceStage(r, c, i, next, overrideInput, output, agent, saved)
  BY DEF AdvanceStageNext
<1>3. PICK input \in ResolveStageNextInput(c, next, overrideInput) :
        /\ input.cursor \in CursorTransitions[c]
        /\ ChangesetIdentity(input, output)
        /\ owner' = IF agent # None THEN agent
                    ELSE IF input.cursor = "execute_agent" THEN input.ref
                    ELSE owner
        /\ input.cursor = "mailbox_wait" => owner' # None
        /\ cursor' = input.cursor
        /\ cursorInput' = input
        /\ IF input.cursor = "done"
           THEN /\ status' = "completed"
                /\ finalOutput' = output
                /\ EndRun(r, "completed")
                /\ currentRun' = None
                /\ UNCHANGED checkpoint
           ELSE /\ checkpoint' = IF saved
                                 THEN Checkpoint(r, input.cursor, input)
                                 ELSE checkpoint
                /\ UNCHANGED <<status, finalOutput, runs, currentRun>>
        /\ gated' = IF c = "gate" THEN cursorInput.ref
                    ELSE IF c \in {"execute_agent", "council"} THEN None
                    ELSE gated
        /\ councilDone' = (councilDone \/ c = "council")
        /\ unguarded' = (unguarded \/ ~ saved)
  BY <1>2 DEF AdvanceStage
<1>4. /\ IsActiveRun(r) /\ status = "running" /\ currentRun = r
      /\ cursor = c /\ cursorInput.cursor = c
      /\ activeStage' = NoStage
      /\ UNCHANGED <<errorCode, councilOverride, interruptState>>
  BY <1>2 DEF AdvanceStage, ActiveStageTarget, ActiveRunOwnership
<1>5. /\ interruptState.type \notin {"user_interrupted", "process_interrupted"}
      /\ finalOutput = None
  BY <1>1, <1>4 DEF InductiveInvariant, TypeOK
<1>6. /\ input.cursor = "done" => c = "deliver"
      /\ input.cursor = "deliver" => c = "gate"
      /\ input.cursor = "gate" => c \in {"execute_agent", "council"}
      /\ input.cursor \in Cursors
  BY <1>3 DEF CursorTransitions, Cursors
<1>7. owner # None => owner' # None
  <2>1. input.cursor = "execute_agent" => input.ref \in Agents
    BY <1>1, <1>3 DEF TypeOK, CursorInputs, NoInput, Input
  <2>. QED
    BY <1>3, <2>1, NoneIsNoValue
<1>8. councilOverride /\ c = "execute_agent" => input.cursor # "gate"
  BY <1>3 DEF ResolveStageNextInput, Input
<1>9. CASE input.cursor = "done"
  <2>1. \A q \in Runs : ~ IsActiveRun(q)'
    BY <1>3, <1>4, <1>9, RunEnds DEF RunStatuses
  <2>2. ~ unguarded => output = gated
    BY <1>3, <1>4, <1>6, <1>9, ZeroHashIsNoChangeset
       DEF InductiveInvariant, ChangesetIdentity
  <2>3. gated' = gated /\ (unguarded => unguarded')
    BY <1>3, <1>6, <1>9
  <2>4. /\ status' = "completed" /\ finalOutput' = output
        /\ currentRun' = None /\ checkpoint' = checkpoint
        /\ cursor' = "done" /\ cursorInput'.cursor = "done"
    BY <1>3, <1>9
  <2>. QED
    BY <1>1, <1>4, <1>5, <1>7, <2>1, <2>2, <2>3, <2>4
       DEF InductiveInvariant
<1>10. CASE input.cursor # "done"
  <2>1. /\ UNCHANGED <<status, finalOutput, runs, currentRun>>
        /\ checkpoint' \in {Checkpoint(r, input.cursor, input), checkpoint}
        /\ ~ unguarded' => checkpoint' = Checkpoint(r, input.cursor, input)
    BY <1>2, <1>3, <1>10
  <2>2. UNCHANGED IsActiveRun(r) /\ \A q \in Runs : UNCHANGED IsActiveRun(q)
    BY <2>1 DEF IsActiveRun
  <2>3. WaitKnowsOwner'
    BY <1>3, <1>7, <2>1 DEF InductiveInvariant, Checkpoint
  <2>4. CheckpointGated' /\ OnlyGatedChangesetDelivered'
    <3>1. input.cursor = "deliver" => gated' = input.ref
      BY <1>3, <1>4, <1>6 DEF ChangesetIdentity
    <3>2. ~ unguarded' => checkpoint'.input = input
      BY <2>1 DEF Checkpoint
    <3>3. finalOutput' = None /\ cursorInput' = input
      BY <1>3, <1>5, <2>1
    <3>. QED
      BY <3>1, <3>2, <3>3
  <2>5. CouncilOverrideHonoured'
    BY <1>3, <1>4, <1>6, <1>8 DEF InductiveInvariant
  <2>. QED
    BY <1>1, <1>3, <1>4, <1>5, <2>1, <2>2, <2>3, <2>4, <2>5
       DEF InductiveInvariant
<1>. QED
  BY <1>9, <1>10

(* The handlers of a stage in progress.                                     *)
LEMMA StageInductive ==
    ASSUME InductiveInvariant, NEW r \in Runs, StageNext(r)
    PROVE  InductiveInvariant'
<1>1. TypeOK /\ TypeOK'
  BY NextType DEF InductiveInvariant, Next
<1>2. ASSUME NEW c \in Cursors \ {"mailbox_wait", "done"},
             NEW i \in Invocations, StartStage(r, c, i)
      PROVE  InductiveInvariant'
  BY <1>1, <1>2
     DEF InductiveInvariant, StartStage, taskVars, historyVars, IsActiveRun,
         ActiveStageTarget, ActiveRunOwnership, CanResumeFromCheckpoint,
         HasWaitContext, WaitRun
<1>3. ASSUME NEW c \in Cursors \ {"mailbox_wait", "done"},
             NEW i \in Invocations, NEW agent \in Agents \cup {None},
             FailStage(r, c, i, agent)
      PROVE  InductiveInvariant'
  <2>1. \A q \in Runs : ~ IsActiveRun(q)'
    BY <1>3, RunEnds
       DEF FailStage, ActiveStageTarget, ActiveRunOwnership, RunStatuses
  <2>2. /\ interruptState.type
              \notin {"user_interrupted", "process_interrupted"}
        /\ finalOutput = None
    BY <1>3 DEF InductiveInvariant, FailStage, ActiveStageTarget,
                ActiveRunOwnership
  <2>. QED
    BY <1>1, <1>3, <2>1, <2>2
       DEF InductiveInvariant, FailStage, historyVars, Input
<1>4. CASE AdvanceStageNext(r)
  BY <1>4, AdvanceStageInductive
<1>5. CASE SetCouncilOverride(r)
  <2>1. cursorInput.cursor \notin {"gate", "deliver"}
    BY <1>5 DEF SetCouncilOverride, InductiveInvariant
  <2>. QED
    BY <1>1, <1>5, <2>1
       DEF InductiveInvariant, SetCouncilOverride, taskVars, historyVars,
           IsActiveRun, ActiveRunOwnership, CanResumeFromCheckpoint,
           HasWaitContext, WaitRun
<1>6. ASSUME NEW next \in {"execute_agent", "council", "gate", "deliver",
                           cursor},
             NEW winner \in Agents \cup {owner},
             RecordRunEvent(r, next, winner)
      PROVE  InductiveInvariant'
  <2>1. /\ interruptState.type
              \notin {"user_interrupted", "process_interrupted"}
        /\ status # "waiting_help"
    BY <1>6 DEF InductiveInvariant, RecordRunEvent
  <2>2. owner # None => owner' # None
    BY <1>6, NoneIsNoValue DEF RecordRunEvent
  <2>3. \A q \in Runs : IsActiveRun(q)' = IsActiveRun(q)
    BY <1>6 DEF RecordRunEvent, IsActiveRun
  <2>4. \/ UNCHANGED <<cursor, cursorInput>>
        \/ cursorInput' = NoInput /\ activeStage = NoStage
    BY <1>6 DEF RecordRunEvent, ProjectsCursor
  <2>5. UNCHANGED <<status, errorCode, finalOutput, runs, currentRun,
                    activeStage, councilOverride, interruptState,
                    checkpoint, gated, councilDone, unguarded>>
    BY <1>6 DEF RecordRunEvent, historyVars
  <2>6. NoInput.cursor = "none"
    BY DEF NoInput, Input
  <2>7. InputMatchesCursor' /\ ActiveStageOnCursor' /\ WaitKnowsOwner'
    BY <2>2, <2>4, <2>5, <2>6 DEF InductiveInvariant
  <2>8. CouncilOverrideHonoured' /\ CheckpointGated'
        /\ OnlyGatedChangesetDelivered'
    BY <2>4, <2>5, <2>6 DEF InductiveInvariant
  <2>9. OneActiveRun' /\ ActiveRunIsTracked'
    BY <1>1, <2>3, <2>5 DEF InductiveInvariant, TypeOK
  <2>. QED
    BY <1>1, <2>1, <2>5, <2>7, <2>8, <2>9 DEF InductiveInvariant
<1>. QED
  BY <1>2, <1>3, <1>4, <1>5, <1>6 DEF StageNext

(* Interruption and recovery leave a checkpoint of the stage cut off.       *)
LEMMA CommitInterruptedRunInductive ==
    ASSUME InductiveInvariant, NEW r \in Runs,
           NEW type \in {"user_interrupted", "process_interrupted"},
           CommitInterruptedRun(r, type)
    PROVE  InductiveInvariant'
<1>1. TypeOK /\ TypeOK'
  BY CommitInterruptedRunType DEF InductiveInvariant
<1>2. PICK input \in SafepointInputs :
        /\ checkpoint' = Checkpoint(r, cursor, input)
        /\ cursorInput' = IF input = NoInput THEN cursorInput ELSE input
  BY DEF CommitInterruptedRun
<1>3. /\ status' = "blocked" /\ currentRun' = None
      /\ interruptState' = Interrupt(type, r)
      /\ UNCHANGED <<errorCode, finalOutput, owner, cursor, activeStage,
                     councilOverride, gated, councilDone, unguarded>>
  BY DEF CommitInterruptedRun, historyVars
<1>4. /\ \A q \in Runs : ~ IsActiveRun(q)'
      /\ runs'[r].status = "interrupted"
  BY RunEnds DEF CommitInterruptedRun, RunStatuses
<1>5. /\ input = NoInput \/ input.cursor = cursor
      /\ input = cursorInput \/ input.cursor # "mailbox_wait"
      /\ input = cursorInput \/ input.cursor # "deliver"
           \/ input.ref = ZeroHash
  <2>1. CASE cursorInput.cursor = cursor
    BY <1>2, <2>1 DEF SafepointInputs
  <2>2. CASE cursorInput.cursor # cursor
    <3>1. input \in SynthesizedInputs(cursor)
      BY <1>2, <2>2 DEF SafepointInputs
    <3>. QED
      BY <1>1, <3>1 DEF SynthesizedInputs, Input, NoInput, TypeOK, Cursors
  <2>. QED
    BY <2>1, <2>2
<1>6. cursorInput.cursor # "none" => cursorInput.cursor = cursor
  BY DEF InductiveInvariant
<1>7. NoInput.cursor = "none" /\ NoInput.ref = None
  BY DEF NoInput, Input
<1>8. checkpoint' # NoCheckpoint
  BY <1>2, NoneIsNoValue DEF Checkpoint, NoCheckpoint
<1>9. InterruptedTaskIsResumable'
  BY <1>2, <1>3, <1>4, <1>8
     DEF CanResumeFromCheckpoint, Checkpoint, Interrupt
<1>10. OutputMeansCompleted' /\ TimeoutMeansFailed'
       /\ WaitingTaskHasContext' /\ CouncilOverrideHonoured'
  BY <1>1, <1>3, TransitionSources
     DEF InductiveInvariant, CommitInterruptedRun
<1>11. InputMatchesCursor' /\ ActiveStageOnCursor'
  BY <1>1, <1>2, <1>3, <1>5, <1>6, <1>7, TransitionSources
     DEF InductiveInvariant, CommitInterruptedRun
<1>12. WaitKnowsOwner'
  BY <1>2, <1>3, <1>5, <1>7 DEF InductiveInvariant, Checkpoint
<1>13. CheckpointGated' /\ OnlyGatedChangesetDelivered'
  BY <1>2, <1>3, <1>5, <1>7 DEF InductiveInvariant, Checkpoint
<1>. QED
  BY <1>1, <1>3, <1>4, <1>9, <1>10, <1>11, <1>12, <1>13
     DEF InductiveInvariant

(* The handlers that end a run.                                             *)
LEMMA EndRunInductive ==
    ASSUME InductiveInvariant, NEW r \in Runs, EndRunNext(r)
    PROVE  InductiveInvariant'
<1>1. TypeOK /\ TypeOK'
  BY NextType DEF InductiveInvariant, Next
<1>2. CASE CompleteRunForMailboxWait(r)
  <2>1. /\ \A q \in Runs : ~ IsActiveRun(q)'
        /\ runs'[r].status = "completed"
    BY <1>2, RunEnds
       DEF CompleteRunForMailboxWait, ActiveRunOwnership, RunStatuses
  <2>2. interruptState' = Interrupt("mailbox_wait", r) /\ r # None
    BY <1>2, NoneIsNoValue DEF CompleteRunForMailboxWait
  <2>3. WaitingTaskHasContext'
    BY <1>2, <2>1, <2>2
       DEF CompleteRunForMailboxWait, HasWaitContext, WaitRun, Interrupt,
           InductiveInvariant
  <2>4. /\ status = "running" /\ status' = "waiting_help"
        /\ cursorInput.cursor = "mailbox_wait" /\ currentRun' = None
        /\ UNCHANGED <<errorCode, finalOutput, owner, cursor, cursorInput,
                       activeStage, councilOverride, checkpoint, gated,
                       councilDone, unguarded>>
    BY <1>2 DEF CompleteRunForMailboxWait, ActiveRunOwnership, historyVars
  <2>5. InputMatchesCursor' /\ ActiveStageOnCursor' /\ WaitKnowsOwner'
        /\ TimeoutMeansFailed' /\ OutputMeansCompleted'
    BY <2>4 DEF InductiveInvariant
  <2>6. CouncilOverrideHonoured' /\ CheckpointGated'
        /\ OnlyGatedChangesetDelivered'
    BY <2>4 DEF InductiveInvariant
  <2>7. InterruptedTaskIsResumable' /\ InterruptedHasNoActiveRun'
    BY <2>2 DEF Interrupt
  <2>8. OneActiveRun' /\ ActiveRunIsTracked'
    BY <2>1, <2>4
  <2>. QED
    BY <1>1, <2>3, <2>5, <2>6, <2>7, <2>8 DEF InductiveInvariant
<1>3. CASE InterruptRun(r) \/ RecoverInterruptedTask(r)
  BY <1>3, CommitInterruptedRunInductive
     DEF InterruptRun, RecoverInterruptedTask
<1>4. ASSUME NEW s \in FinishStatuses,
             NEW output \in Changesets \cup {None}, FinishRun(r, s, output)
      PROVE  InductiveInvariant'
  <2>1. s \in {"completed", "failed", "cancelled"}
    BY DEF FinishStatuses
  <2>2. \A q \in Runs : ~ IsActiveRun(q)'
    BY <1>4, <2>1, RunEnds DEF FinishRun, RunStatuses
  <2>3. interruptState.type
            \notin {"user_interrupted", "process_interrupted"}
    BY <1>4 DEF FinishRun, InductiveInvariant
  <2>. QED
    BY <1>1, <1>4, <2>1, <2>2, <2>3
       DEF InductiveInvariant, FinishRun, historyVars, Input
<1>. QED
  BY <1>2, <1>3, <1>4 DEF EndRunNext

LEMMA InitInductive == Init => InductiveInvariant
<1>. SUFFICES ASSUME Init PROVE InductiveInvariant
  OBVIOUS
<1>1. \A r \in Runs : ~ IsActiveRun(r)
  BY DEF Init, IsActiveRun, NoRun
<1>2. /\ cursorInput.cursor = "none" /\ interruptState.type = "none"
      /\ checkpoint.input.cursor = "none"
  BY DEF Init, NoInput, NoInterrupt, NoCheckpoint, Input, Interrupt,
         Checkpoint
<1>. QED
  BY <1>1, <1>2, InitType DEF Init, InductiveInvariant

LEMMA NextInductive ==
    InductiveInvariant /\ [Next]_vars => InductiveInvariant'
<1>. SUFFICES ASSUME InductiveInvariant, [Next]_vars
             PROVE  InductiveInvariant'
  OBVIOUS
<1>1. TypeOK /\ TypeOK'
  BY NextType DEF InductiveInvariant
<1>2. ASSUME NEW r \in Runs,
             BeginRunNext(r) \/ StageNext(r) \/ EndRunNext(r)
      PROVE  InductiveInvariant'
  BY <1>2, BeginRunInductive, StageInductive, EndRunInductive
<1>3. CASE BlockMailboxDeadlock
  <2>1. status \in {"running", "waiting_help", "blocked"}
    BY <1>1, <1>3, TransitionSources DEF BlockMailboxDeadlock
  <2>. QED
    BY <1>1, <1>3, <2>1
       DEF InductiveInvariant, BlockMailboxDeadlock, historyVars,
           IsActiveRun, Interrupt
<1>4. CASE ExpireMailboxWait
  <2>1. status \in {"running", "waiting_help", "blocked", "failed"}
    BY <1>1, <1>4, TransitionSources DEF ExpireMailboxWait
  <2>. QED
    BY <1>1, <1>4, <2>1
       DEF InductiveInvariant, ExpireMailboxWait, historyVars,
           IsActiveRun, Interrupt, Input
<1>5. CASE UNCHANGED vars
  <2>1. InterruptedTaskIsResumable'
    BY <1>5 DEF InductiveInvariant, vars, CanResumeFromCheckpoint
  <2>2. WaitingTaskHasContext'
    BY <1>5 DEF InductiveInvariant, vars, HasWaitContext, WaitRun
  <2>3. OneActiveRun' /\ ActiveRunIsTracked' /\ InterruptedHasNoActiveRun'
    BY <1>5 DEF InductiveInvariant, vars, IsActiveRun
  <2>4. InputMatchesCursor' /\ WaitKnowsOwner' /\ TimeoutMeansFailed'
        /\ ActiveStageOnCursor' /\ CouncilOverrideHonoured'
        /\ OutputMeansCompleted'
    BY <1>5 DEF InductiveInvariant, vars
  <2>5. CheckpointGated' /\ OnlyGatedChangesetDelivered'
    BY <1>5 DEF InductiveInvariant, vars
  <2>. QED
    BY <1>1, <2>1, <2>2, <2>3, <2>4, <2>5 DEF InductiveInvariant
<1>. QED
  BY <1>2, <1>3, <1>4, <1>5 DEF Next

HIDE DEF OneActiveRun, ActiveRunIsTracked, InputMatchesCursor,
         InterruptedTaskIsResumable, InterruptedHasNoActiveRun,
         WaitKnowsOwner, WaitingTaskHasContext, TimeoutMeansFailed,
         ActiveStageOnCursor, CouncilOverrideHonoured, OutputMeansCompleted,
         CheckpointGated, OnlyGatedChangesetDelivered

-----------------------------------------------------------------------------

(* No order of calls, not even a crash between any two of them, breaks the  *)
(* invariants the handlers of TaskProcessor rely on.                        *)
THEOREM InvariantHolds == Spec => []InductiveInvariant
<1>1. Init => InductiveInvariant
  BY InitInductive
<1>2. InductiveInvariant /\ [Next]_vars => InductiveInvariant'
  BY NextInductive
<1>. QED
  BY <1>1, <1>2, PTL DEF Spec

(* beginRun never admits a second run while one is active.                  *)
THEOREM OneRun == Spec => []OneActiveRun
<1>1. InductiveInvariant => OneActiveRun
  BY DEF InductiveInvariant
<1>. QED
  BY <1>1, InvariantHolds, PTL

(* No handler but the expiry of a wait loses track of an active run.        *)
THEOREM RunsAreTracked == Spec => []ActiveRunIsTracked
<1>1. InductiveInvariant => ActiveRunIsTracked
  BY DEF InductiveInvariant
<1>. QED
  BY <1>1, InvariantHolds, PTL

(* A Task cut off by a user or a crash can be resumed at the very stage     *)
(* that was cut off.                                                        *)
THEOREM InterruptedTaskResumes == Spec => []InterruptedTaskIsResumable
<1>1. InductiveInvariant => InterruptedTaskIsResumable
  BY DEF InductiveInvariant
<1>. QED
  BY <1>1, InvariantHolds, PTL

(* A Task waiting for a reply can be continued.                             *)
THEOREM WaitingTaskContinues == Spec => []WaitingTaskHasContext
<1>1. InductiveInvariant => WaitingTaskHasContext
  BY DEF InductiveInvariant
<1>. QED
  BY <1>1, InvariantHolds, PTL

(* When safepoints are saved, a Task delivers the changeset its last gate   *)
(* passed.                                                                  *)
THEOREM GatedDelivery == Spec => []OnlyGatedChangesetDelivered
<1>1. InductiveInvariant => OnlyGatedChangesetDelivered
  BY DEF InductiveInvariant
<1>. QED
  BY <1>1, InvariantHolds, PTL

(* A persisted Council override is honoured before the gate.                *)
THEOREM CouncilIsHeard == Spec => []CouncilOverrideHonoured
<1>1. InductiveInvariant => CouncilOverrideHonoured
  BY DEF InductiveInvariant
<1>. QED
  BY <1>1, InvariantHolds, PTL

(* An active stage invocation keeps the cursor it was started on.           *)
THEOREM ActiveStageKeepsCursor == Spec => []ActiveStageOnCursor
<1>1. InductiveInvariant => ActiveStageOnCursor
  BY DEF InductiveInvariant
<1>. QED
  BY <1>1, InvariantHolds, PTL

-----------------------------------------------------------------------------

(* What starting and ending a run do to the live and the ended runs.        *)
LEMMA LifecycleStart ==
    ASSUME InductiveInvariant, NEW r \in Runs,
           NEW parent, NEW input, BeginRun(r, parent, input),
           status \in {"none", "waiting_help", "blocked", "completed"}
    PROVE  Lifecycle!Next
<1>1. /\ \A q \in Runs : ~ IsActiveRun(q)
      /\ runs[r] = NoRun /\ runs \in [Runs -> RunRecords]
      /\ runs' = [runs EXCEPT ![r] = [status |-> "running",
                                      parent |-> parent]]
      /\ status' = "running"
  BY DEF BeginRun, NoActiveRun, InductiveInvariant, TypeOK
<1>2. /\ runs'[r] # NoRun /\ IsActiveRun(r)'
      /\ \A q \in Runs \ {r} : runs'[q] = runs[q]
  BY <1>1 DEF IsActiveRun, NoRun
<1>3. {q \in Runs : IsActiveRun(q)} = {}
  BY <1>1
<1>4. {q \in Runs : IsActiveRun(q)'} = {r}
  BY <1>1, <1>2 DEF IsActiveRun
<1>5. {q \in Runs : runs'[q] # NoRun /\ ~ IsActiveRun(q)'}
          = {q \in Runs : runs[q] # NoRun /\ ~ IsActiveRun(q)}
  BY <1>1, <1>2 DEF IsActiveRun
<1>6. Lifecycle!Start(r)
  BY <1>1, <1>3, <1>4, <1>5
     DEF Lifecycle!Start, Lifecycle!StartablePhases, IsActiveRun
<1>. QED
  BY <1>6 DEF Lifecycle!Next

LEMMA LifecycleEnd ==
    ASSUME InductiveInvariant, NEW r \in Runs,
           NEW s \in RunStatuses \ {"running"}, IsActiveRun(r), EndRun(r, s),
           status' \in Lifecycle!NextPhases[status]
    PROVE  Lifecycle!Next
<1>1. /\ \A q \in Runs : ~ IsActiveRun(q)'
      /\ runs'[r].status = s
      /\ \A q \in Runs \ {r} : runs'[q] = runs[q]
  BY RunEnds
<1>2. {q \in Runs : IsActiveRun(q)} = {r}
  BY DEF InductiveInvariant, OneActiveRun
<1>3. {q \in Runs : IsActiveRun(q)'} = {}
  BY <1>1
<1>4. runs[r] # NoRun /\ runs'[r] # NoRun
  BY <1>1 DEF IsActiveRun, NoRun, RunStatuses
<1>5. {q \in Runs : runs'[q] # NoRun /\ ~ IsActiveRun(q)'}
          = {q \in Runs : runs[q] # NoRun /\ ~ IsActiveRun(q)} \cup {r}
  BY <1>1, <1>2, <1>4
<1>6. Lifecycle!End(r)
  BY <1>2, <1>3, <1>5 DEF Lifecycle!End, IsActiveRun
<1>. QED
  BY <1>6 DEF Lifecycle!Next

LEMMA LifecycleInit == Init => Lifecycle!Init
  BY DEF Init, Lifecycle!Init, IsActiveRun, NoRun

LEMMA LifecycleNext ==
    InductiveInvariant /\ [Next]_vars => [Lifecycle!Next]_Lifecycle!vars
<1>. SUFFICES ASSUME InductiveInvariant, [Next]_vars
             PROVE  [Lifecycle!Next]_Lifecycle!vars
  OBVIOUS
<1>1. TypeOK
  BY DEF InductiveInvariant
<1>2. ASSUME NEW r \in Runs, BeginRunNext(r)
      PROVE  Lifecycle!Next
  <2>1. PICK parent, input : BeginRun(r, parent, input)
    BY <1>2 DEF BeginRunNext, BeginCreate, BeginCouncilRefinement,
                BeginMailboxContinuation, BeginCheckpointResume
  <2>2. status \in {"none", "waiting_help", "blocked", "completed"}
    BY <1>2 DEF BeginRunNext, BeginCreate, BeginCouncilRefinement,
                BeginMailboxContinuation, BeginCheckpointResume
  <2>. QED
    BY <2>1, <2>2, LifecycleStart
<1>3. ASSUME NEW r \in Runs, StageNext(r)
      PROVE  [Lifecycle!Next]_Lifecycle!vars
  <2>1. CASE UNCHANGED <<status, runs>>
    BY <2>1 DEF Lifecycle!vars, IsActiveRun
  <2>2. ASSUME NEW c \in Cursors, NEW i \in Invocations,
               NEW agent \in Agents \cup {None},
               FailStage(r, c, i, agent)
        PROVE  Lifecycle!Next
    BY <2>2, LifecycleEnd
       DEF FailStage, ActiveStageTarget, ActiveRunOwnership, RunStatuses,
           Lifecycle!NextPhases
  <2>3. CASE /\ ActiveRunOwnership(r)
             /\ EndRun(r, "completed") /\ status' = "completed"
    BY <2>3, LifecycleEnd
       DEF ActiveRunOwnership, RunStatuses, Lifecycle!NextPhases
  <2>4. CASE AdvanceStageNext(r)
    BY <2>1, <2>3, <2>4
       DEF AdvanceStageNext, AdvanceStage, ActiveStageTarget
  <2>. QED
    BY <1>3, <2>1, <2>2, <2>4
       DEF StageNext, StartStage, SetCouncilOverride, RecordRunEvent, taskVars
<1>4. ASSUME NEW r \in Runs, EndRunNext(r)
      PROVE  Lifecycle!Next
  <2>1. CASE CompleteRunForMailboxWait(r)
    BY <2>1, LifecycleEnd
       DEF CompleteRunForMailboxWait, ActiveRunOwnership, RunStatuses,
           Lifecycle!NextPhases
  <2>2. CASE InterruptRun(r) \/ RecoverInterruptedTask(r)
    <3>1. IsActiveRun(r) /\ EndRun(r, "interrupted") /\ status' = "blocked"
          /\ MayTransition(status, "blocked")
      BY <2>2 DEF InterruptRun, RecoverInterruptedTask, CommitInterruptedRun
    <3>2. status \in {"running", "blocked"}
      BY <1>1, <3>1, TransitionSources
         DEF InductiveInvariant, ActiveRunIsTracked
    <3>. QED
      BY <3>1, <3>2, LifecycleEnd DEF RunStatuses, Lifecycle!NextPhases
  <2>3. ASSUME NEW s \in FinishStatuses,
               NEW output \in Changesets \cup {None}, FinishRun(r, s, output)
        PROVE  Lifecycle!Next
    <3>1. s \in {"completed", "failed", "cancelled"}
      BY DEF FinishStatuses
    <3>2. IsActiveRun(r) /\ EndRun(r, s) /\ status' = s
          /\ MayTransition(status, s)
      BY <2>3 DEF FinishRun
    <3>3. status \in {"running", "blocked", "failed"}
      BY <3>2 DEF InductiveInvariant, ActiveRunIsTracked
    <3>4. s \in Lifecycle!NextPhases[status]
      BY <1>1, <3>1, <3>2, <3>3, TransitionSources DEF Lifecycle!NextPhases
    <3>. QED
      BY <3>1, <3>2, <3>4, LifecycleEnd DEF RunStatuses
  <2>. QED
    BY <1>4, <2>1, <2>2, <2>3 DEF EndRunNext
<1>5. CASE BlockMailboxDeadlock \/ ExpireMailboxWait
  <2>1. UNCHANGED runs
    BY <1>5 DEF BlockMailboxDeadlock, ExpireMailboxWait
  <2>2. status' \in {"blocked", "failed"} /\ MayTransition(status, status')
        /\ status # "none"
    BY <1>5 DEF BlockMailboxDeadlock, ExpireMailboxWait
  <2>3. status' \in Lifecycle!NextPhases[status] \cap {"blocked", "failed"}
    BY <1>1, <2>2, TransitionSources DEF Lifecycle!NextPhases
  <2>. QED
    BY <2>1, <2>3 DEF Lifecycle!Next, Lifecycle!Suspend, IsActiveRun
<1>6. CASE UNCHANGED vars
  BY <1>6 DEF vars, Lifecycle!vars, IsActiveRun
<1>. QED
  BY <1>2, <1>3, <1>4, <1>5, <1>6 DEF Next

(* TaskProcessor implements the life of a Task: initial states map to       *)
(* initial states, every handler call to a step or a stutter.               *)
THEOREM Implements == Spec => ImplementsLifecycle
<1>1. Init => Lifecycle!Init
  BY LifecycleInit
<1>2. InductiveInvariant /\ [Next]_vars => [Lifecycle!Next]_Lifecycle!vars
  BY LifecycleNext
<1>. QED
  BY <1>1, <1>2, InvariantHolds, PTL
     DEF Spec, ImplementsLifecycle, Lifecycle!Spec

-----------------------------------------------------------------------------

(* TaskProcessor implements the Task that MailboxWait is written with.      *)

(* The view field by field, before and after a step.                        *)
LEMMA WaitingFields ==
    /\ Waiting.status = IF status \in {"none", "completed", "cancelled"}
                        THEN "ended" ELSE status
    /\ Waiting.error =
           IF errorCode \in {"collaboration_deadlock", "mailbox_timeout"}
           THEN errorCode ELSE "none"
    /\ Waiting.active = (\E r \in Runs : IsActiveRun(r))
    /\ Waiting.interrupted = (interruptState.run # None)
    /\ Waiting.resumable = (/\ checkpoint # NoCheckpoint
                            /\ runs[checkpoint.run].status = "interrupted")
    /\ Waiting.waitOn = IF cursorInput.cursor = "mailbox_wait"
                        THEN cursorInput.ref ELSE None
  BY DEF Waiting

LEMMA WaitingFieldsAfter ==
    /\ Waiting'.status = IF status' \in {"none", "completed", "cancelled"}
                         THEN "ended" ELSE status'
    /\ Waiting'.error =
           IF errorCode' \in {"collaboration_deadlock", "mailbox_timeout"}
           THEN errorCode' ELSE "none"
    /\ Waiting'.active = (\E r \in Runs : IsActiveRun(r)')
    /\ Waiting'.interrupted = (interruptState'.run # None)
    /\ Waiting'.resumable = (/\ checkpoint' # NoCheckpoint
                             /\ runs'[checkpoint'.run].status = "interrupted")
    /\ Waiting'.waitOn = IF cursorInput'.cursor = "mailbox_wait"
                         THEN cursorInput'.ref ELSE None
  BY DEF Waiting

LEMMA WaitingType == TypeOK => Waiting \in Wait!Tasks
  BY DEF Waiting, Wait!Tasks, Wait!Statuses, Wait!Alive, Wait!Errors, TypeOK,
         TaskStatuses, CursorInputs, NoInput, Input

LEMMA WaitingTypeAfter == TypeOK' => Waiting' \in Wait!Tasks
  BY DEF Waiting, Wait!Tasks, Wait!Statuses, Wait!Alive, Wait!Errors, TypeOK,
         TaskStatuses, CursorInputs, NoInput, Input

(* Two tasks that agree in every field are the same.                        *)
LEMMA SameTask ==
    ASSUME NEW t \in Wait!Tasks, NEW u \in Wait!Tasks,
           t.status = u.status, t.error = u.error, t.active = u.active,
           t.interrupted = u.interrupted, t.resumable = u.resumable,
           t.waitOn = u.waitOn
    PROVE  t = u
  BY DEF Wait!Tasks

(* A step that changes nothing the view is made of.                         *)
LEMMA WaitingUnchanged ==
    ASSUME UNCHANGED <<status, errorCode, runs, cursorInput, interruptState,
                       checkpoint>>
    PROVE  UNCHANGED Waiting
  BY DEF Waiting, IsActiveRun

LEMMA BegunView ==
    ASSUME InductiveInvariant, NEW r \in Runs, NEW parent \in Runs \cup {None},
           NEW input \in CursorInputs, BeginRun(r, parent, input)
    PROVE  /\ Waiting.active = FALSE /\ Waiting'.active = TRUE
           /\ Waiting'.resumable = Waiting.resumable
           /\ Waiting' = Wait!Begun(Waiting, IF input.cursor = "mailbox_wait"
                                             THEN input.ref ELSE None)
<1>1. TypeOK /\ TypeOK'
  BY BeginRunType DEF InductiveInvariant
<1>2. Waiting.active = FALSE
  BY WaitingFields DEF BeginRun, NoActiveRun
<1>3. Waiting'.active = TRUE
  BY <1>1, WaitingFieldsAfter DEF BeginRun, TypeOK, IsActiveRun
<1>4. Waiting'.resumable = Waiting.resumable
  <2>1. checkpoint # NoCheckpoint => checkpoint.run \in Runs
    BY <1>1 DEF TypeOK, Checkpoints
  <2>2. /\ UNCHANGED checkpoint
        /\ runs \in [Runs -> RunRecords]
        /\ runs[r].status # "interrupted" /\ runs'[r].status # "interrupted"
        /\ \A q \in Runs \ {r} : runs'[q] = runs[q]
    BY <1>1 DEF BeginRun, TypeOK, NoRun
  <2>. QED
    BY <2>1, <2>2, WaitingFields, WaitingFieldsAfter
<1>5. /\ Waiting'.status = "running" /\ Waiting'.error = "none"
      /\ Waiting'.interrupted = FALSE
      /\ Waiting'.waitOn = IF input.cursor = "mailbox_wait" THEN input.ref
                           ELSE None
  BY WaitingFieldsAfter DEF BeginRun, NoInterrupt, Interrupt
<1>6. Waiting \in Wait!Tasks /\ Waiting' \in Wait!Tasks
  BY <1>1, WaitingType, WaitingTypeAfter
<1>. QED
  BY <1>2, <1>3, <1>4, <1>5, <1>6 DEF Wait!Begun, Wait!Tasks

LEMMA EndedView ==
    ASSUME InductiveInvariant, NEW r \in Runs, NEW s \in RunStatuses \ {"running"},
           IsActiveRun(r), EndRun(r, s)
    PROVE  /\ Waiting.active = TRUE /\ Waiting'.active = FALSE
           /\ UNCHANGED checkpoint /\ s # "interrupted"
                  => Waiting'.resumable = Waiting.resumable
<1>1. /\ \A q \in Runs : ~ IsActiveRun(q)'
      /\ runs'[r].status = s
      /\ \A q \in Runs \ {r} : runs'[q] = runs[q]
  BY RunEnds
<1>2. checkpoint # NoCheckpoint => checkpoint.run \in Runs
  BY DEF InductiveInvariant, TypeOK, Checkpoints
<1>3. Waiting.active = TRUE /\ Waiting'.active = FALSE
  BY <1>1, WaitingFields, WaitingFieldsAfter
<1>4. ASSUME UNCHANGED checkpoint, s # "interrupted"
      PROVE  Waiting'.resumable = Waiting.resumable
  BY <1>1, <1>2, <1>4, WaitingFields, WaitingFieldsAfter DEF IsActiveRun
<1>. QED
  BY <1>3, <1>4

(* What a step owes to the view and to the invariant above.                 *)
WaitStep == unguarded' \/ Wait!TaskNext \/ UNCHANGED Waiting

LEMMA WaitBegin ==
    ASSUME InductiveInvariant, WaitInvariant, NEW r \in Runs, BeginRunNext(r)
    PROVE  WaitStep /\ WaitInvariant'
<1>1. TypeOK
  BY DEF InductiveInvariant
<1>2. Input("select_agent", None) \in CursorInputs
  BY DEF CursorInputs, Input
<1>3. ASSUME NEW parent \in Runs \cup {None}, NEW input \in CursorInputs,
             BeginRun(r, parent, input), input.cursor # "mailbox_wait"
      PROVE  WaitInvariant'
  BY <1>3, BegunView, WaitingFieldsAfter
     DEF BeginRun, WaitInvariant, RunningIsActive, ResumesTheWait
<1>4. CASE BeginCreate(r) \/ BeginCouncilRefinement(r)
  <2>1. BeginRun(r, None, Input("select_agent", None))
        /\ Waiting.status = "ended"
    BY <1>4, WaitingFields DEF BeginCreate, BeginCouncilRefinement
  <2>2. Waiting.active = FALSE /\ Waiting' = Wait!Begun(Waiting, None)
    BY <1>2, <2>1, BegunView DEF Input
  <2>3. Wait!TaskNext
    BY <2>1, <2>2 DEF Wait!TaskNext, Wait!Begin
  <2>. QED
    BY <1>2, <1>3, <2>1, <2>3 DEF WaitStep, Input
<1>5. ASSUME NEW source \in Runs, NEW d \in Deliveries,
             BeginMailboxContinuation(r, source, d)
      PROVE  WaitStep /\ WaitInvariant'
  <2>1. Input("execute_agent", owner) \in CursorInputs
    BY <1>1, <1>5 DEF BeginMailboxContinuation, CursorInputs, Input, TypeOK
  <2>2. BeginRun(r, source, Input("execute_agent", owner))
    BY <1>5 DEF BeginMailboxContinuation
  <2>3. /\ Waiting.status \in {"waiting_help", "blocked"}
        /\ Waiting.waitOn = d
    BY <1>5, WaitingFields DEF BeginMailboxContinuation, Input
  <2>4. Waiting.active = FALSE /\ Waiting' = Wait!Begun(Waiting, None)
    BY <2>1, <2>2, BegunView DEF Input
  <2>5. Wait!TaskNext
    BY <2>3, <2>4 DEF Wait!TaskNext, Wait!Continue, Wait!CanContinue
  <2>. QED
    BY <1>3, <2>1, <2>2, <2>5 DEF WaitStep, Input
<1>6. ASSUME NEW strategy \in {"from_checkpoint", "restart_from_beginning"},
             BeginCheckpointResume(r, strategy)
      PROVE  WaitStep /\ WaitInvariant'
  <2>1. PICK input \in IF strategy = "from_checkpoint" THEN ResumeInputs
                       ELSE {Input("select_agent", None)} :
            BeginRun(r, checkpoint.run, input)
    BY <1>6 DEF BeginCheckpointResume
  <2>2. /\ status = "blocked" /\ checkpoint # NoCheckpoint
        /\ runs[checkpoint.run].status = "interrupted"
        /\ checkpoint.run \in Runs
    BY <1>1, <1>6 DEF BeginCheckpointResume, TypeOK, Checkpoints
  <2>3. input \in CursorInputs
    BY <1>1, <1>2, <2>1, <2>2, ResumeInputsType
  <2>4. /\ Waiting.active = FALSE /\ Waiting'.active = TRUE
        /\ Waiting'.resumable = Waiting.resumable
        /\ Waiting' = Wait!Begun(Waiting, IF input.cursor = "mailbox_wait"
                                          THEN input.ref ELSE None)
    BY <2>1, <2>2, <2>3, BegunView
  <2>5. Waiting.status = "blocked" /\ Waiting.resumable = TRUE
    BY <2>2, WaitingFields
  <2>6. \A i \in SynthesizedInputs(checkpoint.cursor) :
            i.cursor # "mailbox_wait"
    BY DEF SynthesizedInputs, Input, NoInput
  <2>7. input.cursor = "mailbox_wait" =>
            \/ input = cursorInput /\ checkpoint.input.cursor # "mailbox_wait"
            \/ input = checkpoint.input
    BY <2>1, <2>6 DEF ResumeInputs, Input
  <2>8. /\ status' = "running" /\ errorCode' = "none"
        /\ cursorInput' = input /\ UNCHANGED <<checkpoint, unguarded>>
    BY <2>1 DEF BeginRun
  <2>9. WaitInvariant'
    BY <2>4, <2>7, <2>8
       DEF WaitInvariant, RunningIsActive, ResumesTheWait
  <2>10. ~ unguarded /\ input.cursor = "mailbox_wait" => input = cursorInput
    BY <2>2, <2>4, <2>5, <2>7 DEF WaitInvariant, ResumesTheWait
  <2>11. ~ unguarded =>
             (IF input.cursor = "mailbox_wait" THEN input.ref ELSE None)
                 \in {Waiting.waitOn, None}
    BY <2>10, WaitingFields
  <2>12. ~ unguarded => Wait!Resume
    BY <2>4, <2>5, <2>11 DEF Wait!Resume
  <2>. QED
    BY <2>8, <2>9, <2>12 DEF WaitStep, Wait!TaskNext
<1>. QED
  BY <1>4, <1>5, <1>6 DEF BeginRunNext

(* The end of a run that is not interrupted, as the view sees it.           *)
LEMMA WaitFinish ==
    ASSUME InductiveInvariant, TypeOK', WaitInvariant, NEW r \in Runs,
           NEW s \in RunStatuses \ {"running", "interrupted"},
           IsActiveRun(r), EndRun(r, s),
           UNCHANGED <<checkpoint, interruptState>>,
           status' \in {"completed", "failed", "cancelled"},
           status = "failed" => status' = "failed",
           errorCode' \notin {"collaboration_deadlock", "mailbox_timeout"},
           cursorInput'.cursor = "done"
    PROVE  WaitStep /\ WaitInvariant'
<1>1. Waiting \in Wait!Tasks /\ Waiting' \in Wait!Tasks
  BY WaitingType, WaitingTypeAfter DEF InductiveInvariant
<1>2. /\ Waiting.active = TRUE /\ Waiting'.active = FALSE
      /\ Waiting'.resumable = Waiting.resumable
  BY EndedView
<1>3. /\ Waiting'.status \in Wait!Outcomes(Waiting)
      /\ Waiting'.error = "none" /\ Waiting'.waitOn = None
      /\ Waiting'.interrupted = Waiting.interrupted
  BY WaitingFields, WaitingFieldsAfter DEF Wait!Outcomes
<1>4. Waiting' = Wait!Finished(Waiting, Waiting'.status)
  BY <1>1, <1>2, <1>3 DEF Wait!Finished, Wait!Tasks
<1>5. Wait!Finish
  BY <1>2, <1>3, <1>4 DEF Wait!Finish
<1>6. WaitInvariant'
  BY DEF WaitInvariant, RunningIsActive, ResumesTheWait
<1>. QED
  BY <1>5, <1>6 DEF WaitStep, Wait!TaskNext

LEMMA WaitAdvance ==
    ASSUME InductiveInvariant, WaitInvariant, NEW r \in Runs,
           AdvanceStageNext(r)
    PROVE  WaitStep /\ WaitInvariant'
<1>1. TypeOK /\ TypeOK'
  BY AdvanceStageType DEF InductiveInvariant
<1>2. PICK c \in Cursors, i \in Invocations, next \in StageInputs,
           output \in Changesets, agent \in Agents \cup {None},
           overrideInput \in BOOLEAN, saved \in BOOLEAN :
               AdvanceStage(r, c, i, next, overrideInput, output, agent, saved)
  BY DEF AdvanceStageNext
<1>3. PICK input \in ResolveStageNextInput(c, next, overrideInput) :
        /\ input.cursor \in CursorTransitions[c]
        /\ cursorInput' = input
        /\ IF input.cursor = "done"
           THEN /\ status' = "completed"
                /\ EndRun(r, "completed")
                /\ UNCHANGED checkpoint
           ELSE /\ checkpoint' = IF saved
                                 THEN Checkpoint(r, input.cursor, input)
                                 ELSE checkpoint
                /\ UNCHANGED <<status, runs>>
        /\ unguarded' = (unguarded \/ ~ saved)
  BY <1>2 DEF AdvanceStage
<1>4. /\ IsActiveRun(r) /\ status = "running" /\ cursorInput.cursor = c
      /\ UNCHANGED <<errorCode, interruptState>>
      /\ errorCode = "none"
  BY <1>2 DEF AdvanceStage, ActiveStageTarget, ActiveRunOwnership,
              WaitInvariant, RunningIsActive
<1>5. c # "mailbox_wait"
  BY <1>3 DEF CursorTransitions
<1>6. CASE input.cursor = "done"
  BY <1>1, <1>3, <1>4, <1>6, WaitFinish DEF RunStatuses
<1>7. CASE input.cursor # "done" /\ ~ saved
  <2>1. unguarded' /\ errorCode' = "none"
    BY <1>3, <1>4, <1>7
  <2>2. Waiting'.active
    BY <1>3, <1>4, <1>7, WaitingFieldsAfter DEF IsActiveRun
  <2>. QED
    BY <2>1, <2>2 DEF WaitStep, WaitInvariant, RunningIsActive, ResumesTheWait
<1>8. CASE input.cursor # "done" /\ saved
  <2>1. /\ UNCHANGED <<status, runs, errorCode, interruptState>>
        /\ checkpoint'.run = r
    BY <1>3, <1>4, <1>8 DEF Checkpoint
  <2>2. /\ Waiting.active = TRUE /\ Waiting'.active = TRUE
        /\ Waiting'.resumable = FALSE /\ Waiting.waitOn = None
        /\ Waiting.status = "running" /\ Waiting'.status = "running"
        /\ Waiting'.error = Waiting.error
        /\ Waiting'.interrupted = Waiting.interrupted
    BY <1>4, <1>5, <2>1, WaitingFields, WaitingFieldsAfter DEF IsActiveRun
  <2>3. Waiting'.waitOn \in Deliveries \cup {None}
    BY <1>1, WaitingTypeAfter DEF Wait!Tasks
  <2>4. Waiting' = Wait!Advanced(Waiting, Waiting'.waitOn)
    BY <1>1, <2>2, WaitingType, WaitingTypeAfter
       DEF Wait!Advanced, Wait!Tasks
  <2>5. Wait!Advance
    BY <2>2, <2>3, <2>4 DEF Wait!Advance
  <2>6. WaitInvariant'
    BY <1>4, <2>1, <2>2 DEF WaitInvariant, RunningIsActive, ResumesTheWait
  <2>. QED
    BY <2>5, <2>6 DEF WaitStep, Wait!TaskNext
<1>. QED
  BY <1>6, <1>7, <1>8

LEMMA WaitStage ==
    ASSUME InductiveInvariant, WaitInvariant, NEW r \in Runs, StageNext(r)
    PROVE  WaitStep /\ WaitInvariant'
<1>1. TypeOK /\ TypeOK'
  BY NextType DEF InductiveInvariant, Next
<1>2. ASSUME UNCHANGED <<status, errorCode, runs, cursorInput,
                         interruptState, checkpoint, unguarded>>
      PROVE  WaitStep /\ WaitInvariant'
  <2>1. UNCHANGED Waiting
    BY <1>2, WaitingUnchanged
  <2>. QED
    BY <1>2, <2>1
       DEF WaitStep, WaitInvariant, RunningIsActive, ResumesTheWait
<1>3. ASSUME NEW c \in Cursors \ {"mailbox_wait", "done"},
             NEW i \in Invocations, StartStage(r, c, i)
      PROVE  WaitStep /\ WaitInvariant'
  BY <1>2, <1>3 DEF StartStage, taskVars, historyVars
<1>4. ASSUME NEW c \in Cursors \ {"mailbox_wait", "done"},
             NEW i \in Invocations, NEW agent \in Agents \cup {None},
             FailStage(r, c, i, agent)
      PROVE  WaitStep /\ WaitInvariant'
  <2>1. /\ IsActiveRun(r) /\ EndRun(r, "failed") /\ status' = "failed"
        /\ errorCode' = "stage_failed" /\ cursorInput'.cursor = "done"
        /\ UNCHANGED <<checkpoint, interruptState>>
    BY <1>4 DEF FailStage, ActiveStageTarget, ActiveRunOwnership, Input
  <2>. QED
    BY <1>1, <2>1, WaitFinish DEF RunStatuses
<1>5. CASE AdvanceStageNext(r)
  BY <1>5, WaitAdvance
<1>6. CASE SetCouncilOverride(r)
  BY <1>2, <1>6 DEF SetCouncilOverride, taskVars, historyVars
<1>7. ASSUME NEW next \in {"execute_agent", "council", "gate", "deliver",
                           cursor},
             NEW winner \in Agents \cup {owner},
             RecordRunEvent(r, next, winner)
      PROVE  WaitStep /\ WaitInvariant'
  <2>1. /\ UNCHANGED <<status, errorCode, runs, interruptState, checkpoint,
                       unguarded>>
        /\ IsActiveRun(r)
    BY <1>7 DEF RecordRunEvent, historyVars
  <2>2. CASE UNCHANGED cursorInput
    BY <1>2, <2>1, <2>2
  <2>3. CASE cursorInput' = NoInput
    <3>1. /\ Waiting.active = TRUE /\ Waiting'.active = TRUE
          /\ Waiting'.waitOn = None
          /\ Waiting'.status = Waiting.status
          /\ Waiting'.error = Waiting.error
          /\ Waiting'.interrupted = Waiting.interrupted
          /\ Waiting'.resumable = Waiting.resumable
      BY <2>1, <2>3, WaitingFields, WaitingFieldsAfter
         DEF IsActiveRun, NoInput, Input
    <3>2. Waiting' = Wait!Forgotten(Waiting)
      BY <1>1, <3>1, WaitingType, WaitingTypeAfter
         DEF Wait!Forgotten, Wait!Tasks
    <3>3. WaitInvariant'
      BY <2>1, <2>3, <3>1
         DEF WaitInvariant, RunningIsActive, ResumesTheWait, NoInput, Input
    <3>. QED
      BY <3>1, <3>2, <3>3 DEF WaitStep, Wait!TaskNext, Wait!Forget
  <2>. QED
    BY <1>7, <2>2, <2>3 DEF RecordRunEvent
<1>. QED
  BY <1>3, <1>4, <1>5, <1>6, <1>7 DEF StageNext

LEMMA WaitInterrupt ==
    ASSUME InductiveInvariant, WaitInvariant, NEW r \in Runs,
           NEW type \in {"user_interrupted", "process_interrupted"},
           CommitInterruptedRun(r, type)
    PROVE  WaitStep /\ WaitInvariant'
<1>1. TypeOK /\ TypeOK'
  BY CommitInterruptedRunType DEF InductiveInvariant
<1>2. PICK input \in SafepointInputs :
          /\ checkpoint' = Checkpoint(r, cursor, input)
          /\ cursorInput' = IF input = NoInput THEN cursorInput ELSE input
  BY DEF CommitInterruptedRun
<1>3. /\ IsActiveRun(r) /\ EndRun(r, "interrupted")
      /\ MayTransition(status, "blocked")
      /\ status' = "blocked" /\ interruptState' = Interrupt(type, r)
      /\ UNCHANGED errorCode
  BY DEF CommitInterruptedRun
<1>4. status \in {"running", "blocked"}
  BY <1>1, <1>3, TransitionSources DEF InductiveInvariant, ActiveRunIsTracked
<1>5. Waiting.active = TRUE /\ Waiting'.active = FALSE
  BY <1>3, EndedView DEF RunStatuses
<1>6. Waiting'.resumable = TRUE
  <2>1. runs'[r].status = "interrupted"
    BY <1>3, RunEnds DEF RunStatuses
  <2>2. checkpoint' # NoCheckpoint /\ checkpoint'.run = r
    BY <1>2, NoneIsNoValue DEF Checkpoint, NoCheckpoint
  <2>. QED
    BY <2>1, <2>2, WaitingFieldsAfter
<1>7. Waiting'.interrupted = TRUE
  BY <1>3, NoneIsNoValue, WaitingFieldsAfter DEF Interrupt
<1>8. Waiting'.waitOn = Waiting.waitOn
  <2>1. CASE input = cursorInput \/ input = NoInput
    BY <1>2, <2>1, WaitingFields, WaitingFieldsAfter
  <2>2. CASE input # cursorInput /\ input # NoInput
    <3>1. cursorInput.cursor # cursor /\ input \in SynthesizedInputs(cursor)
      BY <1>2, <2>2 DEF SafepointInputs
    <3>2. cursorInput.cursor = "none"
      BY <3>1 DEF InductiveInvariant, InputMatchesCursor
    <3>3. input.cursor # "mailbox_wait"
      BY <3>1 DEF SynthesizedInputs, Input, NoInput
    <3>. QED
      BY <1>2, <2>2, <3>2, <3>3, WaitingFields, WaitingFieldsAfter
  <2>. QED
    BY <2>1, <2>2
<1>9. /\ Waiting.status = status /\ Waiting'.status = "blocked"
      /\ Waiting'.error = Waiting.error
  BY <1>3, <1>4, WaitingFields, WaitingFieldsAfter
<1>10. Waiting' = Wait!Interrupted(Waiting)
  BY <1>1, <1>5, <1>6, <1>7, <1>8, <1>9, WaitingType, WaitingTypeAfter
     DEF Wait!Interrupted, Wait!Tasks
<1>11. Wait!Interrupt
  BY <1>4, <1>5, <1>9, <1>10 DEF Wait!Interrupt, Wait!CanBeInterrupted
<1>12. WaitInvariant'
  BY <1>2, <1>3
     DEF WaitInvariant, RunningIsActive, ResumesTheWait, Checkpoint, NoInput,
         Input
<1>. QED
  BY <1>11, <1>12 DEF WaitStep, Wait!TaskNext

LEMMA WaitEndRun ==
    ASSUME InductiveInvariant, WaitInvariant, NEW r \in Runs, EndRunNext(r)
    PROVE  WaitStep /\ WaitInvariant'
<1>1. TypeOK /\ TypeOK'
  BY NextType DEF InductiveInvariant, Next
<1>2. CASE CompleteRunForMailboxWait(r)
  <2>1. /\ IsActiveRun(r) /\ EndRun(r, "completed")
        /\ status = "running" /\ status' = "waiting_help"
        /\ cursorInput.cursor = "mailbox_wait" /\ cursorInput.ref # None
        /\ interruptState' = Interrupt("mailbox_wait", r)
        /\ UNCHANGED <<errorCode, cursorInput, checkpoint, unguarded>>
    BY <1>1, <1>2, NoneIsNoValue
       DEF CompleteRunForMailboxWait, ActiveRunOwnership, historyVars, TypeOK,
           CursorInputs, NoInput, Input
  <2>2. /\ Waiting.active = TRUE /\ Waiting'.active = FALSE
        /\ Waiting'.resumable = Waiting.resumable
    <3>1. "completed" \in RunStatuses \ {"running"}
      BY DEF RunStatuses
    <3>2. UNCHANGED checkpoint
      BY <2>1
    <3>. QED
      BY <2>1, <3>1, <3>2, EndedView
  <2>3. /\ Waiting.status = "running" /\ Waiting'.status = "waiting_help"
        /\ Waiting.waitOn # None /\ Waiting'.waitOn = Waiting.waitOn
        /\ Waiting'.interrupted = TRUE /\ Waiting'.error = Waiting.error
    BY <2>1, NoneIsNoValue, WaitingFields, WaitingFieldsAfter DEF Interrupt
  <2>4. Waiting' = Wait!WaitCompleted(Waiting)
    BY <1>1, <2>2, <2>3, WaitingType, WaitingTypeAfter
       DEF Wait!WaitCompleted, Wait!Tasks
  <2>5. Wait!CompleteForWait
    BY <2>2, <2>3, <2>4 DEF Wait!CompleteForWait
  <2>6. WaitInvariant'
    BY <2>1, <2>2 DEF WaitInvariant, RunningIsActive, ResumesTheWait
  <2>. QED
    BY <2>5, <2>6 DEF WaitStep, Wait!TaskNext
<1>3. CASE InterruptRun(r) \/ RecoverInterruptedTask(r)
  BY <1>3, WaitInterrupt DEF InterruptRun, RecoverInterruptedTask
<1>4. ASSUME NEW s \in FinishStatuses,
             NEW output \in Changesets \cup {None}, FinishRun(r, s, output)
      PROVE  WaitStep /\ WaitInvariant'
  <2>1. s \in {"completed", "failed", "cancelled"}
    BY DEF FinishStatuses
  <2>2. /\ IsActiveRun(r) /\ EndRun(r, s) /\ status' = s
        /\ MayTransition(status, s)
        /\ errorCode' \in {"run_failed", "none"}
        /\ cursorInput'.cursor = "done"
        /\ UNCHANGED <<checkpoint, interruptState>>
    BY <1>4 DEF FinishRun, Input
  <2>3. status = "failed" => status' = "failed"
    BY <1>1, <2>1, <2>2, TransitionSources
  <2>. QED
    BY <1>1, <2>1, <2>2, <2>3, WaitFinish DEF RunStatuses
<1>. QED
  BY <1>2, <1>3, <1>4 DEF EndRunNext

LEMMA WaitBlock ==
    ASSUME InductiveInvariant, WaitInvariant, BlockMailboxDeadlock
    PROVE  WaitStep /\ WaitInvariant'
<1>1. TypeOK /\ TypeOK'
  BY NextType DEF InductiveInvariant, Next
<1>2. /\ status \in {"running", "waiting_help", "blocked"}
      /\ ~ (status = "blocked" /\ errorCode = "collaboration_deadlock")
  BY <1>1, TransitionSources DEF BlockMailboxDeadlock
<1>3. /\ status' = "blocked" /\ errorCode' = "collaboration_deadlock"
      /\ interruptState'.run = None
      /\ UNCHANGED <<runs, cursorInput, checkpoint, unguarded>>
  BY DEF BlockMailboxDeadlock, Interrupt, historyVars
<1>4. /\ Waiting.status = status /\ Waiting'.status = "blocked"
      /\ Waiting.error = "collaboration_deadlock"
             <=> errorCode = "collaboration_deadlock"
      /\ Waiting'.error = "collaboration_deadlock"
      /\ Waiting'.interrupted = FALSE
      /\ Waiting'.waitOn = Waiting.waitOn
      /\ Waiting'.active = Waiting.active
      /\ Waiting'.resumable = Waiting.resumable
  BY <1>2, <1>3, WaitingFields, WaitingFieldsAfter DEF IsActiveRun
<1>5. Waiting' = Wait!Deadlocked(Waiting)
  BY <1>1, <1>2, <1>4, WaitingType, WaitingTypeAfter
     DEF Wait!Deadlocked, Wait!Tasks, Wait!Alive
<1>6. WaitInvariant'
  BY <1>2, <1>3, <1>4 DEF WaitInvariant, RunningIsActive, ResumesTheWait
<1>. QED
  BY <1>5, <1>6 DEF WaitStep, Wait!TaskNext, Wait!Block

LEMMA WaitExpire ==
    ASSUME InductiveInvariant, WaitInvariant, ExpireMailboxWait
    PROVE  WaitStep /\ WaitInvariant'
<1>1. TypeOK /\ TypeOK'
  BY NextType DEF InductiveInvariant, Next
<1>2. status \in {"running", "waiting_help", "blocked", "failed"}
  BY <1>1, TransitionSources DEF ExpireMailboxWait
<1>3. /\ status' = "failed" /\ errorCode' = "mailbox_timeout"
      /\ interruptState'.run = None /\ cursorInput'.cursor = "done"
      /\ UNCHANGED <<runs, checkpoint>>
  BY DEF ExpireMailboxWait, Interrupt, Input
<1>4. /\ Waiting.status = status /\ Waiting'.status = "failed"
      /\ Waiting'.error = "mailbox_timeout"
      /\ Waiting'.interrupted = FALSE /\ Waiting'.waitOn = None
      /\ Waiting'.active = Waiting.active
      /\ Waiting'.resumable = Waiting.resumable
  BY <1>2, <1>3, WaitingFields, WaitingFieldsAfter DEF IsActiveRun
<1>5. Waiting' = Wait!Expired(Waiting)
  BY <1>1, <1>2, <1>4, WaitingType, WaitingTypeAfter
     DEF Wait!Expired, Wait!Tasks
<1>6. WaitInvariant'
  BY <1>3 DEF WaitInvariant, RunningIsActive, ResumesTheWait
<1>. QED
  BY <1>5, <1>6 DEF WaitStep, Wait!TaskNext, Wait!Expire

LEMMA WaitInit == Init => Wait!TaskInit /\ WaitInvariant
<1>. SUFFICES ASSUME Init PROVE Wait!TaskInit /\ WaitInvariant
  OBVIOUS
<1>1. /\ Waiting.status = "ended" /\ Waiting.error = "none"
      /\ Waiting.active = FALSE /\ Waiting.interrupted = FALSE
      /\ Waiting.resumable = FALSE /\ Waiting.waitOn = None
  BY WaitingFields
     DEF Init, IsActiveRun, NoRun, NoInterrupt, Interrupt, NoInput, Input
<1>2. Waiting = Wait!NoTask
  BY <1>1, InitType, WaitingType DEF Wait!NoTask, Wait!Tasks
<1>3. WaitInvariant
  BY <1>1 DEF Init, WaitInvariant, RunningIsActive, ResumesTheWait
<1>. QED
  BY <1>2, <1>3 DEF Wait!TaskInit

LEMMA WaitNext ==
    InductiveInvariant /\ WaitInvariant /\ [Next]_vars
        => WaitStep /\ WaitInvariant'
<1>. SUFFICES ASSUME InductiveInvariant, WaitInvariant, [Next]_vars
             PROVE  WaitStep /\ WaitInvariant'
  OBVIOUS
<1>1. ASSUME NEW r \in Runs,
             BeginRunNext(r) \/ StageNext(r) \/ EndRunNext(r)
      PROVE  WaitStep /\ WaitInvariant'
  BY <1>1, WaitBegin, WaitStage, WaitEndRun
<1>2. CASE BlockMailboxDeadlock \/ ExpireMailboxWait
  BY <1>2, WaitBlock, WaitExpire
<1>3. CASE UNCHANGED vars
  <2>1. UNCHANGED Waiting
    BY <1>3, WaitingUnchanged DEF vars
  <2>. QED
    BY <1>3, <2>1
       DEF vars, WaitStep, WaitInvariant, RunningIsActive, ResumesTheWait
<1>. QED
  BY <1>1, <1>2, <1>3 DEF Next

(* A resume goes back to the wait the Task is at, or to no wait.            *)
LEMMA WaitInvariantHolds == Spec => []WaitInvariant
<1>1. Init => WaitInvariant
  BY WaitInit
<1>2. InductiveInvariant /\ WaitInvariant /\ [Next]_vars => WaitInvariant'
  BY WaitNext
<1>. QED
  BY <1>1, <1>2, InvariantHolds, PTL DEF Spec

(* The handlers of TaskProcessor do to a wait what MailboxWait takes them   *)
(* to do, whoever calls them and in whatever order.                         *)
THEOREM WaitIsKept == Spec => KeepsWait
<1>1. Init => Wait!TaskInit
  BY WaitInit
<1>2. InductiveInvariant /\ WaitInvariant /\ [Next]_vars
          => [unguarded' \/ Wait!TaskNext \/ UNCHANGED Waiting]_vars
  BY WaitNext DEF WaitStep
<1>. QED
  BY <1>1, <1>2, InvariantHolds, WaitInvariantHolds, PTL DEF Spec, KeepsWait

(* As long as no safepoint is lost, TaskProcessor implements the Task of    *)
(* WaitingTask, which is the one MailboxWait is written with.               *)
THEOREM ImplementsWaitingTask == Spec /\ []~ unguarded => Wait!TaskSpec
<1>1. Spec => Wait!TaskInit
  BY WaitInit DEF Spec
<1>2. ~ unguarded' /\ [unguarded' \/ Wait!TaskNext \/ UNCHANGED Waiting]_vars
          => [Wait!TaskNext]_Waiting
  BY WaitingUnchanged DEF vars
<1>. QED
  BY <1>1, <1>2, WaitIsKept, PTL DEF KeepsWait, Wait!TaskSpec

=============================================================================
