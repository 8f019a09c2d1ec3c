------------------------ MODULE TrajectoryCollector ------------------------
(***************************************************************************)
(* The Ray actor AsyncTrajectoryCollector of                               *)
(* nemo_rl/algorithms/async_utils.py.  Three kinds of threads run in it:   *)
(*   - the actor's own thread takes the trainer's calls from mailbox, in   *)
(*     the order they were sent, one at a time;                            *)
(*   - the collection loop draws batches and reserves a target weight      *)
(*     version for each of them;                                           *)
(*   - one worker per prompt group rolls it out and pushes it.             *)
(* A thread is cut into steps where another thread can see a difference:   *)
(* at every lock, event, semaphore, remote call and read or write of an    *)
(* attribute another thread writes.                                        *)
(***************************************************************************)
EXTENDS ReplayBuffer, Sequences

CONSTANTS
    StartStep,              \* start_step: the step a run starts or resumes at
    BatchesPerEpoch,        \* bound: length of the dataloader
    MaxNumEpochs,           \* grpo.max_num_epochs
    InFlightWeightUpdates,  \* grpo.async_grpo.in_flight_weight_updates
    Faults                  \* what may go wrong in a run

ASSUME CollectorAssumption ==
    /\ StartStep \in Nat
    /\ BatchesPerEpoch \in Nat \ {0}
    /\ MaxNumEpochs \in Nat \ {0}
    /\ InFlightWeightUpdates \in BOOLEAN
    /\ Faults \subseteq {"rollout", "loader", "launch", "drain_timeout",
                       "refit", "validation", "wake_up", "must_save_by"}

VARIABLES
    (* attributes of the collector                                         *)
    running,
    currentWeightVersion,
    manualPauseCleared,       \* event _manual_pause_cleared
    refitPauseCleared,        \* event _refit_pause_cleared
    generationLimitCleared,   \* event _generation_limit_cleared
    lastLimitWarningVersion,  \* -1 stands for None
    generatingTargets,        \* reserved targets
    inflightThreads,          \* the groups whose workers are registered
    inflightSema,             \* value of the semaphore
    workerError,              \* _worker_error is not None
    currentEpoch,
    datasetExhausted,
    (* locals of the collection loop                                       *)
    loopPc,
    batch,          \* batches drawn so far, the last one being the current
    promptIdx,
    readVersion,    \* the weight version the loop is working with
    readLast,       \* last_target_weight_already_generated as it was read
    targetWeight,
    abandonedTargets,   \* history: targets some launch of which raised
    (* the workers, the actor thread and the outside                       *)
    worker,         \* one record per prompt group
    mailbox,        \* the trainer's calls that have not been taken yet
    actorPc,
    reply,          \* the result of a call the trainer waits for
    errorReports,   \* a report_worker_error call is on its way to the buffer
    alive,          \* the actor has not been killed
    engineWeights   \* the weight version policy_generation serves

pauseVars == <<manualPauseCleared, refitPauseCleared>>
limitVars == <<generationLimitCleared, lastLimitWarningVersion>>
epochVars == <<currentEpoch, datasetExhausted>>
threadVars == <<inflightThreads, inflightSema>>
attributeVars == <<running, currentWeightVersion, pauseVars, limitVars,
    generatingTargets, threadVars, workerError, epochVars>>
drawVars == <<batch, promptIdx>>
readVars == <<readVersion, readLast, targetWeight>>
loopVars == <<loopPc, drawVars, readVars, abandonedTargets>>
actorVars == <<mailbox, actorPc, reply>>
collectorVars == <<attributeVars, loopVars, actorVars, worker, errorReports,
    alive, engineWeights>>

Answer(kind) == [kind |-> kind, batches |-> 0]
NoReply == Answer("none")
NotReserved == -1
DummyWeights == -1   \* the engine starts with load_format "dummy"

(* A prompt group is named by its batch and its place in it.  The loader   *)
(* is built with drop_last, so every batch has NumPromptsPerStep prompts.  *)
Batches == 1 .. BatchesPerEpoch * MaxNumEpochs
Prompts == 0 .. NumPromptsPerStep - 1
Groups == Batches \X Prompts

MaxInflight == NumPromptsPerStep * MaxTrajectoryAgeSteps

CollectorInit ==
    /\ running = FALSE
    /\ currentWeightVersion = StartStep
    /\ manualPauseCleared = TRUE
    /\ refitPauseCleared = TRUE
    /\ generationLimitCleared = TRUE
    /\ lastLimitWarningVersion = -1
    /\ generatingTargets = {}
    /\ inflightThreads = {}
    /\ inflightSema = MaxInflight
    /\ workerError = FALSE
    /\ currentEpoch = 0
    /\ datasetExhausted = FALSE
    /\ loopPc = "unstarted"
    /\ batch = 0
    /\ promptIdx = 0
    /\ readVersion = StartStep
    /\ readLast = -1
    /\ targetWeight = NotReserved
    /\ abandonedTargets = {}
    /\ worker = [g \in Groups |-> [pc |-> "none", version |-> StartStep,
                                   target |-> StartStep, weights |-> DummyWeights]]
    /\ actorPc = "idle"
    /\ reply = NoReply
    /\ errorReports = FALSE
    /\ alive = TRUE
    /\ engineWeights = DummyWeights

-----------------------------------------------------------------------------
TargetWeightsOneTooFar(version) ==
    IF version = StartStep
    THEN StartStep .. StartStep + MaxTrajectoryAgeSteps + 1
    ELSE version + 1 .. version + MaxTrajectoryAgeSteps + 1

(* _calculate_target_weights: the steps a generation may be meant for.     *)
TargetWeights(version) ==
    IF version = StartStep
    THEN StartStep .. StartStep + MaxTrajectoryAgeSteps
    ELSE version + 1 .. version + MaxTrajectoryAgeSteps

(* The targets that the loop, by what it read, still has to generate.      *)
OpenTargets(version, last) ==
    {t \in TargetWeights(version) : t > last /\ t \notin generatingTargets}

Goto(pc) == loopPc' = pc

-----------------------------------------------------------------------------
(* _collection_loop.  Nothing but its last step changes running, so the    *)
(* tests of running inside it pass.                                        *)

(* The head of the for: the next batch, the next epoch or the end.         *)
DrawBatch ==
    /\ loopPc = "draw"
    /\ batch < (currentEpoch + 1) * BatchesPerEpoch
    /\ batch' = batch + 1
    /\ promptIdx' = 0
    /\ Goto("manual_pause")
    /\ UNCHANGED <<attributeVars, readVars>>

EndEpoch ==
    /\ loopPc = "draw"
    /\ batch = (currentEpoch + 1) * BatchesPerEpoch
    /\ currentEpoch' = currentEpoch + 1
    /\ IF currentEpoch + 1 < MaxNumEpochs
       THEN Goto("draw") /\ UNCHANGED datasetExhausted
       ELSE Goto("finally") /\ datasetExhausted' = TRUE
    /\ UNCHANGED <<running, currentWeightVersion, pauseVars, limitVars,
         generatingTargets, threadVars, workerError, drawVars, readVars>>

(* Drawing the next batch raises.  The except clause of the loop only      *)
(* prints it: the loop ends as it does when the data are used up, but      *)
(* nobody is told.                                                         *)
LoaderFails ==
    /\ loopPc = "draw"
    /\ "loader" \in Faults
    /\ Goto("finally")
    /\ UNCHANGED <<attributeVars, drawVars, readVars>>

StopCollection ==
    /\ loopPc = "finally"
    /\ running' = FALSE
    /\ Goto("ended")
    /\ UNCHANGED <<currentWeightVersion, pauseVars, limitVars,
         generatingTargets, threadVars, workerError, epochVars, drawVars,
         readVars>>

(* A wait on one of the three events: the loop goes on when it is set.     *)
PassGate(pc, cleared, next) ==
    /\ loopPc = pc
    /\ cleared
    /\ Goto(next)
    /\ UNCHANGED <<attributeVars, drawVars, readVars>>

PassManualPause   == PassGate("manual_pause", manualPauseCleared, "refit_pause")
PassRefitPause    == PassGate("refit_pause", refitPauseCleared, "limits")
PassLimitWait     == PassGate("limit_wait", generationLimitCleared, "recheck_pause")
RecheckManualPause == PassGate("recheck_pause", manualPauseCleared, "process")

(* The first two reads of _should_pause_for_generation_limits (from        *)
(* "limits") and of _process_batch (from "process"): the weight version,   *)
(* then, by a remote call, the last target generated.                      *)
ReadVersion(pc, next) ==
    /\ loopPc = pc
    /\ readVersion' = currentWeightVersion
    /\ Goto(next)
    /\ UNCHANGED <<attributeVars, drawVars, readLast, targetWeight>>

ReadLastTarget(pc, next) ==
    /\ loopPc = pc
    /\ readLast' = lastTarget
    /\ Goto(next)
    /\ UNCHANGED <<attributeVars, drawVars, readVersion, targetWeight>>

(* The rest of _should_pause_for_generation_limits, under the lock.        *)
CheckLimits ==
    /\ loopPc = "limits_check"
    /\ IF OpenTargets(readVersion, readLast) # {}
       THEN Goto("recheck_pause")
       ELSE Goto("limit_warning")
    /\ readLast' = -1
    /\ UNCHANGED <<attributeVars, drawVars, readVersion, targetWeight>>

(* The event is cleared only once per weight version, with the warning;    *)
(* the version is compared and noted in two reads.                         *)
WarnLimit ==
    /\ loopPc = "limit_warning"
    /\ Goto(IF lastLimitWarningVersion # currentWeightVersion
            THEN "limit_note" ELSE "limit_wait")
    /\ UNCHANGED <<attributeVars, drawVars, readVars>>

NoteLimit ==
    /\ loopPc = "limit_note"
    /\ lastLimitWarningVersion' = currentWeightVersion
    /\ Goto("limit_clear")
    /\ UNCHANGED <<running, currentWeightVersion, pauseVars,
         generationLimitCleared, generatingTargets, threadVars,
         workerError, epochVars, drawVars, readVars>>

ClearLimit ==
    /\ loopPc = "limit_clear"
    /\ generationLimitCleared' = FALSE
    /\ Goto("limit_wait")
    /\ UNCHANGED <<running, currentWeightVersion, pauseVars,
         lastLimitWarningVersion, generatingTargets, threadVars,
         workerError, epochVars, drawVars, readVars>>

(* The rest of _get_next_target_for_generation, under the lock: reserve    *)
(* the first open target.  Without one the batch is given up.              *)
ReserveTarget ==
    /\ loopPc = "reserve"
    /\ readLast' = -1
    /\ LET open == OpenTargets(readVersion, readLast)
       IN  IF open = {}
           THEN /\ Goto("draw")
                /\ UNCHANGED <<generatingTargets, targetWeight>>
           ELSE \E t \in open :
                  /\ \A u \in open : t <= u
                  /\ generatingTargets' = generatingTargets \cup {t}
                  /\ targetWeight' = t
                  /\ Goto("prompt")
    /\ UNCHANGED <<running, currentWeightVersion, pauseVars, limitVars,
         threadVars, workerError, epochVars, drawVars, readVersion>>

(* The for over the prompts of the batch.  The label of a group is read    *)
(* again only when the loop found a refit in progress and waited for it.   *)
TestRefit ==
    /\ loopPc = "prompt"
    /\ Goto(IF refitPauseCleared THEN "acquire" ELSE "prompt_refit_pause")
    /\ UNCHANGED <<attributeVars, drawVars, readVars>>

PassPromptRefitPause ==
    PassGate("prompt_refit_pause", refitPauseCleared, "prompt_version")

AcquireInflight ==
    /\ loopPc = "acquire"
    /\ inflightSema > 0
    /\ inflightSema' = inflightSema - 1
    /\ Goto("start_worker")
    /\ UNCHANGED <<running, currentWeightVersion, pauseVars, limitVars,
         generatingTargets, inflightThreads, workerError, epochVars,
         drawVars, readVars>>

(* The critical section of _start_worker_when_unpaused registers and       *)
(* starts the worker; the loop goes to the next prompt or past the last.   *)
RegisterAndStart ==
    /\ inflightThreads' = inflightThreads \cup {<<batch, promptIdx>>}
    /\ worker' = [worker EXCEPT ![<<batch, promptIdx>>] =
                    [pc |-> "rollout", version |-> readVersion,
                     target |-> targetWeight, weights |-> engineWeights]]
    /\ IF promptIdx + 1 < NumPromptsPerStep
       THEN /\ promptIdx' = promptIdx + 1
            /\ Goto("prompt")
            /\ UNCHANGED targetWeight
       ELSE /\ targetWeight' = NotReserved
            /\ Goto("prune")
            /\ UNCHANGED promptIdx
    /\ UNCHANGED <<running, currentWeightVersion, pauseVars, limitVars,
         generatingTargets, inflightSema, workerError, epochVars, batch,
         readVersion, readLast>>

StartWorkerUnchecked == loopPc = "start_worker" /\ RegisterAndStart

(* The test of the pause is in the same critical section.                  *)
StartWorkerWhenUnpaused ==
    /\ loopPc = "start_worker"
    /\ manualPauseCleared
    /\ RegisterAndStart

(* An exception in the for over the prompts ends the whole launch: the     *)
(* except clause of _process_batch prints it and the loop goes on with the *)
(* next batch, the reservation still made.  Cutting the prompt out of the  *)
(* batch raises before the semaphore is acquired; Thread.start raises      *)
(* after it, when the thread that will never run is registered already.    *)
LaunchFails ==
    /\ "launch" \in Faults
    /\ \/ loopPc = "acquire" /\ UNCHANGED <<inflightThreads, worker>>
       \/ /\ loopPc = "start_worker"
          /\ manualPauseCleared
          /\ inflightThreads' = inflightThreads \cup {<<batch, promptIdx>>}
          /\ worker' = [worker EXCEPT ![<<batch, promptIdx>>].pc = "unstarted"]
    /\ abandonedTargets' = abandonedTargets \cup {targetWeight}
    /\ targetWeight' = NotReserved
    /\ Goto("draw")
    /\ UNCHANGED <<running, currentWeightVersion, pauseVars, limitVars,
         generatingTargets, inflightSema, workerError, epochVars, drawVars,
         readVersion, readLast>>

(* The registered threads that is_alive() is true of.                      *)
EveryThread == inflightThreads
LiveThreads == {g \in inflightThreads : worker[g].pc \notin {"unstarted", "done"}}

(* _cleanup_finished_threads, at the end of a launch without an exception. *)
CleanupFinishedThreads ==
    /\ loopPc = "prune"
    /\ inflightThreads' = LiveThreads
    /\ Goto("draw")
    /\ UNCHANGED <<running, currentWeightVersion, pauseVars, limitVars,
         generatingTargets, inflightSema, workerError, epochVars, drawVars,
         readVars>>

LoopStep ==
    /\ alive
    /\ \/ LaunchFails
       \/ StartWorkerWhenUnpaused /\ UNCHANGED abandonedTargets
       \/ /\ \/ DrawBatch
             \/ EndEpoch
             \/ LoaderFails
             \/ StopCollection
             \/ PassManualPause
             \/ PassRefitPause
             \/ ReadVersion("limits", "limits_last")
             \/ ReadLastTarget("limits_last", "limits_check")
             \/ CheckLimits
             \/ WarnLimit
             \/ NoteLimit
             \/ ClearLimit
             \/ PassLimitWait
             \/ RecheckManualPause
             \/ ReadVersion("process", "process_last")
             \/ ReadLastTarget("process_last", "reserve")
             \/ ReserveTarget
             \/ TestRefit
             \/ PassPromptRefitPause
             \/ ReadVersion("prompt_version", "acquire")
             \/ AcquireInflight
             \/ CleanupFinishedThreads
          /\ UNCHANGED <<worker, abandonedTargets>>
    /\ UNCHANGED <<bufferVars, actorVars, errorReports, alive,
         engineWeights>>

-----------------------------------------------------------------------------
(* _run_prompt_group_worker                                                *)

At(g, pc) == worker[g].pc = pc
WorkerGoto(g, pc) == worker' = [worker EXCEPT ![g].pc = pc]

(* while self.running, tested when the rollout is done and after the sleep *)
(* that follows a full buffer: the worker leaves without its group only    *)
(* when collection has stopped.                                            *)
TestRunning(g, pc) ==
    /\ At(g, pc)
    /\ WorkerGoto(g, IF running THEN "push" ELSE "cleanup")
    /\ UNCHANGED <<attributeVars, bufferVars, errorReports>>

(* The except clauses: note the error, tell the buffer, do not wait.       *)
RolloutFails(g) ==
    /\ At(g, "rollout")
    /\ "rollout" \in Faults
    /\ workerError' = TRUE
    /\ errorReports' = TRUE
    /\ WorkerGoto(g, "cleanup")
    /\ UNCHANGED <<running, currentWeightVersion, pauseVars, limitVars,
         generatingTargets, threadVars, epochVars, bufferVars>>

PushGroup(g) ==
    /\ At(g, "push")
    /\ Push(g, worker[g].version, worker[g].target)
    /\ WorkerGoto(g, IF g[2] = 0 THEN "release" ELSE "cleanup")
    /\ UNCHANGED <<attributeVars, errorReports>>

PushFull(g) ==
    /\ At(g, "push")
    /\ IsFull
    /\ WorkerGoto(g, "backoff")
    /\ UNCHANGED <<attributeVars, bufferVars, errorReports>>

ReleaseReservationOnPushOnly(g, pc, next) ==
    /\ At(g, pc)
    /\ generatingTargets' = IF pc = "release"
                            THEN generatingTargets \ {worker[g].target}
                            ELSE generatingTargets
    /\ WorkerGoto(g, next)
    /\ UNCHANGED <<running, currentWeightVersion, pauseVars, limitVars,
         threadVars, workerError, epochVars, bufferVars, errorReports>>

(* The reservation is dropped after the first prompt's push, and again, by *)
(* every worker, in its finally clause.                                    *)
ReleaseReservation(g, pc, next) ==
    /\ At(g, pc)
    /\ generatingTargets' = generatingTargets \ {worker[g].target}
    /\ WorkerGoto(g, next)
    /\ UNCHANGED <<running, currentWeightVersion, pauseVars, limitVars,
         threadVars, workerError, epochVars, bufferVars, errorReports>>

DetachWithoutPermit(g) ==
    /\ At(g, "detach")
    /\ inflightThreads' = inflightThreads \ {g}
    /\ WorkerGoto(g, "done")
    /\ UNCHANGED <<running, currentWeightVersion, pauseVars, limitVars,
         generatingTargets, inflightSema, workerError, epochVars, bufferVars,
         errorReports>>

Detach(g) ==
    /\ At(g, "detach")
    /\ inflightThreads' = inflightThreads \ {g}
    /\ WorkerGoto(g, "post")
    /\ UNCHANGED <<running, currentWeightVersion, pauseVars, limitVars,
         generatingTargets, inflightSema, workerError, epochVars,
         bufferVars, errorReports>>

ReleaseInflight(g) ==
    /\ At(g, "post")
    /\ inflightSema' = inflightSema + 1
    /\ WorkerGoto(g, "done")
    /\ UNCHANGED <<running, currentWeightVersion, pauseVars, limitVars,
         generatingTargets, inflightThreads, workerError, epochVars,
         bufferVars, errorReports>>

WorkerStep(g) ==
    /\ alive
    /\ \/ TestRunning(g, "rollout")
       \/ TestRunning(g, "backoff")
       \/ RolloutFails(g)
       \/ PushGroup(g)
       \/ PushFull(g)
       \/ ReleaseReservation(g, "release", "cleanup")
       \/ ReleaseReservation(g, "cleanup", "detach")
       \/ Detach(g)
       \/ ReleaseInflight(g)
    /\ UNCHANGED <<loopVars, actorVars, alive, engineWeights>>

(* The fire-and-forget report_worker_error call reaches the buffer.        *)
DeliverErrorReport ==
    /\ alive
    /\ errorReports
    /\ errorReports' = FALSE
    /\ ReportWorkerError
    /\ UNCHANGED <<attributeVars, loopVars, actorVars, worker, alive,
         engineWeights>>

-----------------------------------------------------------------------------
(* The actor's thread.  A call takes its message from the head of mailbox; *)
(* what it still has to do afterwards is kept in actorPc.                  *)

Operations == {"start_collection", "set_weight_version", "pause",
    "pause_and_drain", "resume", "prepare_for_refit", "resume_after_refit",
    "is_exhausted", "get_dataloader_state"}

(* A call; only set_weight_version has an argument that matters.           *)
Call(op) == [op |-> op, arg |-> StartStep]

Takes(op) ==
    /\ actorPc = "idle"
    /\ mailbox # <<>>
    /\ Head(mailbox).op = op
    /\ mailbox' = Tail(mailbox)

StartCollection ==
    /\ Takes("start_collection")
    /\ running' = TRUE
    /\ Goto("draw")
    /\ UNCHANGED <<currentWeightVersion, pauseVars, limitVars,
         generatingTargets, threadVars, workerError, epochVars, drawVars,
         readVars, abandonedTargets, actorPc, reply>>

SetWeightVersion ==
    /\ Takes("set_weight_version")
    /\ currentWeightVersion' = Head(mailbox).arg
    /\ actorPc' = "signal_limit"
    /\ UNCHANGED <<running, pauseVars, limitVars, generatingTargets,
         threadVars, workerError, epochVars, loopVars, reply>>

SignalLimitCleared ==
    /\ actorPc = "signal_limit"
    /\ generationLimitCleared' = TRUE
    /\ actorPc' = "idle"
    /\ UNCHANGED <<running, currentWeightVersion, pauseVars,
         lastLimitWarningVersion, generatingTargets, threadVars,
         workerError, epochVars, loopVars, mailbox, reply>>

SetManualPause(op, cleared, pc) ==
    /\ Takes(op)
    /\ manualPauseCleared' = cleared
    /\ actorPc' = pc
    /\ UNCHANGED <<running, currentWeightVersion, refitPauseCleared,
         limitVars, generatingTargets, threadVars, workerError, epochVars,
         loopVars, reply>>

Pause         == SetManualPause("pause", FALSE, "idle")
PauseAndDrain == SetManualPause("pause_and_drain", FALSE, "draining")
Resume        == SetManualPause("resume", TRUE, "idle")

(* With in-flight weight updates nobody waits for the running rollouts.    *)
PrepareForRefit ==
    /\ Takes("prepare_for_refit")
    /\ refitPauseCleared' = FALSE
    /\ IF InFlightWeightUpdates
       THEN reply' = Answer("ok") /\ UNCHANGED actorPc
       ELSE actorPc' = "draining" /\ UNCHANGED reply
    /\ UNCHANGED <<running, currentWeightVersion, manualPauseCleared,
         limitVars, generatingTargets, threadVars, workerError, epochVars,
         loopVars>>

ResumeAfterRefit ==
    /\ Takes("resume_after_refit")
    /\ refitPauseCleared' = TRUE
    /\ UNCHANGED <<running, currentWeightVersion, manualPauseCleared,
         limitVars, generatingTargets, threadVars, workerError, epochVars,
         loopVars, actorPc, reply>>

(* wait_for_pending_generations drops the dead threads from the record     *)
(* each time it looks.  It returns once none is left, raises the error of  *)
(* a worker, and gives up when drain_no_progress_timeout_s passes with     *)
(* threads still alive.                                                    *)
FinishDrain ==
    /\ actorPc = "draining"
    /\ \/ workerError /\ reply' = Answer("error") /\ UNCHANGED inflightThreads
       \/ /\ ~workerError
          /\ inflightThreads' = LiveThreads
          /\ \/ LiveThreads = {} /\ reply' = Answer("ok")
             \/ "drain_timeout" \in Faults /\ LiveThreads # {} /\ reply' = Answer("error")
    /\ actorPc' = "idle"
    /\ UNCHANGED <<running, currentWeightVersion, pauseVars, limitVars,
         generatingTargets, inflightSema, workerError, epochVars, loopVars,
         mailbox>>

(* ... until then it looks again every half second.                        *)
PollDrain ==
    /\ actorPc = "draining"
    /\ ~workerError
    /\ LiveThreads # {}
    /\ inflightThreads' = LiveThreads
    /\ UNCHANGED <<running, currentWeightVersion, pauseVars, limitVars,
         generatingTargets, inflightSema, workerError, epochVars, loopVars,
         actorVars>>

IsExhaustedNever ==
    /\ Takes("is_exhausted")
    /\ reply' = Answer(IF currentEpoch > MaxNumEpochs THEN "exhausted" ELSE "more")
    /\ UNCHANGED <<attributeVars, loopVars, actorPc>>

IsExhausted ==
    /\ Takes("is_exhausted")
    /\ reply' = Answer(IF datasetExhausted THEN "exhausted" ELSE "more")
    /\ UNCHANGED <<attributeVars, loopVars, actorPc>>

(* The loader's state is where it has got to: the batches drawn so far.    *)
GetDataloaderState ==
    /\ Takes("get_dataloader_state")
    /\ reply' = [kind |-> "state", batches |-> batch]
    /\ UNCHANGED <<attributeVars, loopVars, actorPc>>

ActorStep ==
    /\ alive
    /\ \/ StartCollection
       \/ SetWeightVersion
       \/ SignalLimitCleared
       \/ Pause
       \/ PauseAndDrain
       \/ Resume
       \/ PrepareForRefit
       \/ ResumeAfterRefit
       \/ FinishDrain
       \/ PollDrain
       \/ IsExhausted
       \/ GetDataloaderState
    /\ UNCHANGED <<bufferVars, worker, errorReports, alive, engineWeights>>

=============================================================================
