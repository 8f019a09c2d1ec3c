----------------------------- MODULE AsyncGrpo -----------------------------
(***************************************************************************)
(* async_grpo_train of nemo_rl/algorithms/grpo.py, the driver, composed    *)
(* with the collector it calls through mailbox and the replay buffer both  *)
(* of them use.  The behaviour starts where the driver has created the two *)
(* actors and sent the collector its first two calls.                      *)
(*                                                                         *)
(* Definitions named for a mistake (MaxSizeWithoutSlack, TrainNotWaiting)  *)
(* are not part of the specification: each is a wrong form of the one that *)
(* follows it, kept to show that a property notices the mistake.           *)
(*                                                                         *)
(* A remote call of the driver to the buffer is one step: the driver does  *)
(* nothing until the answer is there.  A call to the collector is a        *)
(* message; a driver that waits for its answer waits for reply.            *)
(***************************************************************************)
EXTENDS TrajectoryCollector

CONSTANTS
    MaxNumSteps,        \* grpo.max_num_steps
    ValPeriod,          \* grpo.val_period, 0 for never
    ValAtStart,         \* grpo.val_at_start
    ValAtEnd,           \* grpo.val_at_end
    ValidationDrains,   \* val_reconfigures_engine or val_groups
    SavePeriod          \* checkpointing.save_period; 0: checkpointing disabled

ASSUME TrainerAssumption ==
    /\ MaxNumSteps \in Nat
    /\ StartStep < MaxNumSteps
    /\ MaxTarget = MaxNumSteps + MaxTrajectoryAgeSteps
    /\ ValPeriod \in Nat
    /\ ValAtStart \in BOOLEAN
    /\ ValAtEnd \in BOOLEAN
    /\ ValidationDrains \in BOOLEAN
    /\ SavePeriod \in Nat

VARIABLES
    trainerPc,
    step,
    weightVersion,
    policyWeights,      \* the weights of the policy: optimizer steps taken
    timedOut,           \* should_save_by_timeout
    saved               \* the last checkpoint: its step and the loader's state

progressVars == <<step, weightVersion, policyWeights, timedOut, saved>>
trainerVars == <<trainerPc, progressVars>>
vars == <<bufferVars, collectorVars, trainerVars>>

Init ==
    /\ BufferInit
    /\ CollectorInit
    /\ mailbox = <<Call("start_collection"),
                   [op |-> "set_weight_version", arg |-> StartStep]>>
    /\ trainerPc = "initial_refit"
    /\ step = StartStep
    /\ weightVersion = StartStep
    /\ policyWeights = StartStep
    /\ timedOut = FALSE
    /\ saved = [step |-> StartStep, batches |-> 0]

-----------------------------------------------------------------------------
(* Every action of the driver says what becomes of trainerPc, mailbox,     *)
(* reply and alive; TrainerStep says which other variables it may change.  *)

Send(calls) == mailbox' = mailbox \o calls /\ UNCHANGED reply

(* A driver that was waiting at pc finds its answer.                       *)
Answered(pc, kind) ==
    /\ trainerPc = pc
    /\ reply.kind = kind
    /\ reply' = NoReply
    /\ UNCHANGED mailbox

Silent == UNCHANGED <<mailbox, reply>>

Advance(pc) == trainerPc' = pc /\ UNCHANGED alive

(* The training loop ends, with or without an exception, and its finally   *)
(* clause kills the collector.  Before the loop nothing kills it.          *)
Leave(pc) == trainerPc' = pc /\ alive' = FALSE

RefitPreviousWeights == engineWeights' = weightVersion

(* refit_policy_generation ends: the engine serves the policy's weights.   *)
Refit == engineWeights' = policyWeights

-----------------------------------------------------------------------------
(* Before the training loop                                                *)

InitialRefit ==
    /\ trainerPc = "initial_refit"
    /\ Refit
    /\ IF ValAtStart /\ step = 0
       THEN IF ValidationDrains
            THEN Send(<<Call("pause_and_drain")>>) /\ Advance("initial_drain")
            ELSE Send(<<Call("pause")>>) /\ Advance("initial_validation")
       ELSE Silent /\ Advance("fill")

InitialRefitFails ==
    /\ trainerPc = "initial_refit"
    /\ "refit" \in Faults
    /\ Silent /\ Advance("failed")

InitialDrained ==
    Answered("initial_drain", "ok") /\ Advance("initial_validation")

InitialDrainFails ==
    Answered("initial_drain", "error") /\ Advance("failed")

(* An exception of the initial validation is swallowed: the same step.     *)
FinishInitialValidation ==
    /\ trainerPc = "initial_validation"
    /\ Send(<<Call("resume")>>) /\ Advance("fill")

(* The rollout engines, put to sleep for the validation, do not wake up.   *)
InitialWakeUpFails ==
    /\ trainerPc = "initial_validation"
    /\ ValidationDrains /\ "wake_up" \in Faults
    /\ Silent /\ Advance("failed")

(* The wait for the first step's worth of groups, of whatever target.      *)
FinishFill ==
    /\ trainerPc = "fill"
    /\ ~bufferError
    /\ Cardinality(trajectories) >= NumPromptsPerStep
    /\ Silent /\ Advance("sample")

FillWaits ==
    /\ trainerPc = "fill"
    /\ ~bufferError
    /\ Cardinality(trajectories) < NumPromptsPerStep
    /\ Silent /\ Advance("fill")

FillFails ==
    /\ trainerPc = "fill"
    /\ bufferError
    /\ Silent /\ Advance("failed")

-----------------------------------------------------------------------------
(* The training loop                                                       *)

SampleStep ==
    /\ trainerPc = "sample"
    /\ Sample(weightVersion)
    /\ Silent /\ Advance("train")

SampleFails ==
    /\ trainerPc = "sample"
    /\ SampleRaisesWorkerError \/ SampleRaisesOld(weightVersion)
    /\ Silent /\ Leave("failed")

SampleWaits ==
    /\ trainerPc = "sample"
    /\ SampleStalls(weightVersion)
    /\ Send(<<Call("is_exhausted")>>) /\ Advance("ask_exhausted")

SampleAgain ==
    Answered("ask_exhausted", "more") /\ Advance("sample")

StopExhausted ==
    Answered("ask_exhausted", "exhausted") /\ Leave("stopped")

TrainAnnouncingEarly ==
    /\ trainerPc = "train"
    /\ policyWeights' = policyWeights + 1
    /\ Send(<<[op |-> "set_weight_version", arg |-> weightVersion + 1],
             Call("prepare_for_refit")>>)
    /\ Advance("prepare_refit")

TrainNotWaiting ==
    /\ trainerPc = "train"
    /\ policyWeights' = policyWeights + 1
    /\ Send(<<Call("prepare_for_refit")>>) /\ Advance("refit")

Train ==
    /\ trainerPc = "train"
    /\ policyWeights' = policyWeights + 1
    /\ Send(<<Call("prepare_for_refit")>>) /\ Advance("prepare_refit")

PreparedForRefit ==
    Answered("prepare_refit", "ok") /\ Advance("refit")

(* A drain inside the loop raised.                                         *)
DrainFails ==
    /\ Answered("prepare_refit", "error") \/ Answered("drain", "error")
    /\ Leave("failed")

ValidationDue ==
    \/ ValPeriod > 0 /\ (step + 1) % ValPeriod = 0
    \/ ValAtEnd /\ step + 1 = MaxNumSteps

(* The end of the refit, the two calls that follow it, and the call that   *)
(* starts a validation when one is due.                                    *)
FinishRefit ==
    /\ trainerPc = "refit"
    /\ Refit
    /\ weightVersion' = weightVersion + 1
    /\ LET resumed == <<[op |-> "set_weight_version", arg |-> weightVersion + 1],
                        Call("resume_after_refit")>>
       IN  IF ValidationDue
           THEN IF ValidationDrains
                THEN Send(Append(resumed, Call("pause_and_drain"))) /\ Advance("drain")
                ELSE Send(Append(resumed, Call("pause"))) /\ Advance("validation")
           ELSE Send(resumed) /\ Advance("save")

RefitFails ==
    /\ trainerPc = "refit"
    /\ "refit" \in Faults
    /\ Silent /\ Leave("failed")

Drained ==
    Answered("drain", "ok") /\ Advance("validation")

FinishValidation ==
    /\ trainerPc = "validation"
    /\ Send(<<Call("resume")>>) /\ Advance("save")

ValidationFails ==
    /\ trainerPc = "validation"
    /\ "validation" \in Faults
    /\ Silent /\ Leave("failed")

SaveDue(byTimeout) ==
    SavePeriod > 0 /\ (step + 1 = MaxNumSteps \/ (step + 1) % SavePeriod = 0 \/ byTimeout)

DecideSave ==
    /\ trainerPc = "save"
    /\ \E byTimeout \in BOOLEAN :
         /\ byTimeout => "must_save_by" \in Faults
         /\ timedOut' = byTimeout
         /\ IF SaveDue(byTimeout)
            THEN Send(<<Call("get_dataloader_state")>>) /\ Advance("saving")
            ELSE Silent /\ Advance("stats")

SaveCheckpoint ==
    /\ saved' = [step |-> step + 1, batches |-> reply.batches]
    /\ Answered("saving", "state") /\ Advance("stats")

FinishStepOneTooMany ==
    /\ trainerPc = "stats"
    /\ ~bufferError
    /\ step' = step + 1
    /\ Silent
    /\ IF timedOut \/ step + 1 > MaxNumSteps THEN Leave("stopped") ELSE Advance("sample")

(* The buffer's size is asked for the log, and the call may raise; then    *)
(* the step is over.                                                       *)
FinishStep ==
    /\ trainerPc = "stats"
    /\ ~bufferError
    /\ step' = step + 1
    /\ Silent
    /\ IF timedOut \/ step + 1 >= MaxNumSteps THEN Leave("stopped") ELSE Advance("sample")

StatsFail ==
    /\ trainerPc = "stats"
    /\ bufferError
    /\ Silent /\ Leave("failed")

(* The actions that change neither the buffer, nor the engine, nor the     *)
(* progress of the run.                                                    *)
ControlStep ==
    \/ InitialRefitFails
    \/ InitialDrained
    \/ InitialDrainFails
    \/ FinishInitialValidation
    \/ InitialWakeUpFails
    \/ FinishFill
    \/ FillWaits
    \/ FillFails
    \/ SampleFails
    \/ SampleWaits
    \/ SampleAgain
    \/ StopExhausted
    \/ PreparedForRefit
    \/ DrainFails
    \/ RefitFails
    \/ Drained
    \/ FinishValidation
    \/ ValidationFails
    \/ StatsFail

TrainerStep ==
    /\ \/ ControlStep /\ UNCHANGED <<bufferVars, engineWeights, progressVars>>
       \/ InitialRefit /\ UNCHANGED <<bufferVars, progressVars>>
       \/ SampleStep /\ UNCHANGED <<engineWeights, progressVars>>
       \/ FinishRefit
          /\ UNCHANGED <<bufferVars, step, policyWeights, timedOut, saved>>
       \/ /\ \/ Train /\ UNCHANGED <<step, weightVersion, timedOut, saved>>
             \/ DecideSave /\ UNCHANGED <<step, weightVersion, policyWeights, saved>>
             \/ SaveCheckpoint
                /\ UNCHANGED <<step, weightVersion, policyWeights, timedOut>>
             \/ FinishStep
                /\ UNCHANGED <<weightVersion, policyWeights, timedOut, saved>>
          /\ UNCHANGED <<bufferVars, engineWeights>>
    /\ UNCHANGED <<attributeVars, loopVars, actorPc, worker, errorReports>>

-----------------------------------------------------------------------------
Halted == trainerPc \in {"stopped", "failed"}

(* A run that has ended stays as it is; any other state without a step is  *)
(* a deadlock of the program.                                              *)
Ended == Halted /\ UNCHANGED vars

CollectorStep ==
    \/ LoopStep
    \/ \E g \in Groups : WorkerStep(g)
    \/ DeliverErrorReport
    \/ ActorStep

Next ==
    \/ TrainerStep
    \/ CollectorStep /\ UNCHANGED trainerVars
    \/ Ended

Spec == Init /\ [][Next]_vars

(* Every thread is scheduled again and again, and every remote call        *)
(* arrives.  A worker's rollout ends, in success or failure.  The timeout  *)
(* of a drain, which is off unless configured, is not counted on.          *)
DrainTimesOut == FinishDrain /\ LiveThreads # {} /\ ~workerError

Fairness ==
    /\ WF_vars(TrainerStep)
    /\ WF_vars(LoopStep /\ UNCHANGED trainerVars)
    /\ \A g \in Groups : WF_vars(WorkerStep(g) /\ UNCHANGED trainerVars)
    /\ WF_vars(DeliverErrorReport /\ UNCHANGED trainerVars)
    /\ WF_vars(ActorStep /\ ~DrainTimesOut /\ UNCHANGED trainerVars)

FairSpec == Spec /\ Fairness

=============================================================================
