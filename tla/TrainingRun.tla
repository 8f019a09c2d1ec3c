----------------------------- MODULE TrainingRun -----------------------------
(***************************************************************************)
(* A training job of one of the trainers with a single thread of control,  *)
(* from start to end over any number of crashes and restarts: sft_train,   *)
(* dpo_train, rm_train, distillation_train and grpo_train.  Their loops    *)
(* are the same up to the differences that `config' and the operators      *)
(* below name.  A checkpoint holds the loop's counters, the policy and the *)
(* position of the data loader; a restart begins from the latest one.      *)
(*                                                                         *)
(* The weights are the sequence of the batches that the optimizer has      *)
(* seen, so that a batch skipped, repeated or trained out of order shows.  *)
(***************************************************************************)
EXTENDS CheckpointManager, Sequences

CONSTANTS
    Configs,             \* the configurations explored
    BatchesPerEpoch,     \* len(train_dataloader)
    MaxNumEpochs,        \* max_num_epochs
    NumPromptsPerStep,   \* grpo.num_prompts_per_step
    PromptsPerBatch,     \* the same, times grpo.batch_multiplier
    MaxGenBatches,       \* grpo.dynamic_sampling_max_gen_batches
    MaxRestarts          \* bound: starts after the first

\* One configuration: the trainer, the bound on its steps (Unlimited only for
\* rm), its periods, whether a timeout is set (checkpoint_must_save_by), whether
\* metric_name is a validation metric, and for grpo num_updates_per_rollout and
\* use_dynamic_sampling.
Unlimited == -1
Algorithms == {"sft", "dpo", "rm", "distillation", "grpo"}
IsConfig(c) ==
    /\ c.algorithm \in Algorithms
    /\ c.max_num_steps \in Nat \ {0} \/ (c.max_num_steps = Unlimited /\ c.algorithm = "rm")
    /\ c.save_period \in Nat \ {0}
    /\ c.val_period \in Nat
    /\ c.val_at_end \in BOOLEAN
    /\ c.must_save_by \in BOOLEAN
    /\ c.val_metric \in BOOLEAN
    /\ c.num_updates \in Nat \ {0}
    /\ c.dynamic_sampling \in BOOLEAN
    /\ c.algorithm # "grpo" => c.num_updates = 1 /\ ~c.dynamic_sampling

ASSUME TrainingAssumption ==
    /\ \A c \in Configs : IsConfig(c)
    /\ BatchesPerEpoch \in Nat \ {0}
    /\ MaxNumEpochs \in Nat
    /\ NumPromptsPerStep \in Nat \ {0}
    /\ PromptsPerBatch \in Nat
    /\ PromptsPerBatch >= NumPromptsPerStep
    /\ MaxGenBatches \in Nat \ {0}
    /\ MaxRestarts \in Nat

VARIABLES
    config,          \* fixed by Init
    pc,
    currentEpoch, currentStep, totalSteps,
    loader,          \* the data loader: its pass over the data and the batches
                     \* that it has yielded in that pass
    weights,         \* the batches trained on, one per optimizer step
    cacheSize,       \* prompts in batch_cache
    numGenBatches,   \* dynamic_sampling_num_gen_batches
    saveMetric,      \* the metric's entry in the save state
    timedOut,        \* should_save_by_timeout
    restarts

runVars == <<currentEpoch, currentStep, totalSteps, loader, weights,
             cacheSize, numGenBatches, saveMetric, timedOut>>
vars == <<checkpointVars, runVars, config, pc, restarts>>

-----------------------------------------------------------------------------

StepLimit(n) == config.max_num_steps # Unlimited /\ n >= config.max_num_steps

\* Wrong: the step counts itself as done already.
IsLastStepOneLate ==
    \/ StepLimit(totalSteps)
    \/ currentEpoch + 1 = MaxNumEpochs /\ currentStep = BatchesPerEpoch

IsLastStep ==
    \/ StepLimit(totalSteps + 1)
    \/ currentEpoch + 1 = MaxNumEpochs /\ currentStep + 1 = BatchesPerEpoch

Validates ==
    \/ config.val_period > 0 /\ (totalSteps + 1) % config.val_period = 0
    \/ config.val_at_end /\ IsLastStep

\* The metric of a step is named by the step: a validation metric exists only
\* in a step that validates.
Metric == IF config.val_metric /\ ~Validates THEN {} ELSE {totalSteps + 1}

\* sft, dpo and rm number the next step within its epoch; distillation and grpo
\* count the steps done.
SavedStep ==
    IF config.algorithm \in {"sft", "dpo", "rm"}
    THEN (currentStep + 1) % BatchesPerEpoch
    ELSE currentStep + 1

SaveState == [current_epoch |-> currentEpoch, current_step |-> SavedStep,
              total_steps |-> totalSteps + 1, metric |-> Metric]

\* Wrong: the period counts the steps of an epoch.
SavesByEpochStep == IsLastStep \/ (currentStep + 1) % config.save_period = 0

SavesByStep == IsLastStep \/ (totalSteps + 1) % config.save_period = 0

-----------------------------------------------------------------------------

FreshRun ==
    /\ currentEpoch = 0
    /\ currentStep = 0
    /\ totalSteps = 0
    /\ loader = [pass |-> 1, yielded |-> 0]
    /\ weights = <<>>
    /\ cacheSize = 0
    /\ numGenBatches = 0
    /\ saveMetric = {}
    /\ timedOut = FALSE

Init ==
    /\ CheckpointInit
    /\ config \in Configs
    /\ FreshRun
    /\ pc = "setup"
    /\ restarts = 0

\* Wrong: the data loader starts anew.
SetupFreshLoader ==
    /\ pc = "setup"
    /\ pc' = "epoch"
    /\ IF stepDirs = EmptyDir
       THEN UNCHANGED <<currentEpoch, currentStep, totalSteps, weights, saveMetric>>
       ELSE LET latest == stepDirs[LatestStep]
                info == latest["training_info.json"]
            IN  /\ currentEpoch' = info.current_epoch
                /\ currentStep' = info.current_step
                /\ totalSteps' = info.total_steps
                /\ saveMetric' = info.metric
                /\ weights' = latest["policy"]
    /\ UNCHANGED <<checkpointVars, config, loader, cacheSize, numGenBatches, timedOut, restarts>>

\* setup(): everything from the latest checkpoint, or from nothing.
Setup ==
    /\ pc = "setup"
    /\ pc' = "epoch"
    /\ IF stepDirs = EmptyDir
       THEN UNCHANGED <<currentEpoch, currentStep, totalSteps, loader, weights, saveMetric>>
       ELSE LET latest == stepDirs[LatestStep]
                info == latest["training_info.json"]
            IN  /\ currentEpoch' = info.current_epoch
                /\ currentStep' = info.current_step
                /\ totalSteps' = info.total_steps
                /\ saveMetric' = info.metric
                /\ weights' = latest["policy"]
                /\ loader' = latest["train_dataloader.pt"]
    /\ UNCHANGED <<checkpointVars, config, cacheSize, numGenBatches, timedOut, restarts>>

\* The head of the loop over the epochs.
StartEpoch ==
    /\ pc = "epoch"
    /\ pc' = IF currentEpoch < MaxNumEpochs /\ ~StepLimit(totalSteps)
             THEN "batch" ELSE "ended"
    /\ cacheSize' = 0
    /\ numGenBatches' = 0
    /\ UNCHANGED <<checkpointVars, config, currentEpoch, currentStep, totalSteps,
                   loader, weights, saveMetric, timedOut, restarts>>

Yield == loader' = [loader EXCEPT !.yielded = @ + 1]

DrawBatch ==
    /\ pc = "batch"
    /\ ~config.dynamic_sampling
    /\ loader.yielded < BatchesPerEpoch
    /\ Yield
    /\ pc' = "train"
    /\ UNCHANGED <<checkpointVars, config, currentEpoch, currentStep, totalSteps,
                   weights, cacheSize, numGenBatches, saveMetric, timedOut, restarts>>

\* With dynamic sampling: the prompts of the batch whose rewards differ join the
\* cache, and the step trains as soon as there are enough; too many batches in
\* one step are an error.
SampleBatch(informative) ==
    /\ pc = "batch"
    /\ config.dynamic_sampling
    /\ loader.yielded < BatchesPerEpoch
    /\ Yield
    /\ cacheSize' = cacheSize + informative
    /\ numGenBatches' = numGenBatches + 1
    /\ pc' = IF cacheSize' >= NumPromptsPerStep THEN "train"
             ELSE IF numGenBatches' <= MaxGenBatches THEN "batch"
             ELSE "raised"
    /\ UNCHANGED <<checkpointVars, config, currentEpoch, currentStep, totalSteps,
                   weights, saveMetric, timedOut, restarts>>

\* Wrong: the step goes on counting.
EndEpochKeepingStep ==
    /\ pc = "batch"
    /\ loader.yielded = BatchesPerEpoch
    /\ loader' = [pass |-> loader.pass + 1, yielded |-> 0]
    /\ currentEpoch' = currentEpoch + 1
    /\ pc' = "epoch"
    /\ UNCHANGED <<checkpointVars, config, currentStep, totalSteps, weights, cacheSize,
                   numGenBatches, saveMetric, timedOut, restarts>>

\* Wrong: the loader is not iterated anew, and a pass without a step is no epoch.
EndEpochOnSamePass ==
    /\ pc = "batch"
    /\ loader.yielded = BatchesPerEpoch
    /\ currentEpoch' = IF currentStep = 0 THEN currentEpoch ELSE currentEpoch + 1
    /\ currentStep' = 0
    /\ pc' = "epoch"
    /\ UNCHANGED <<checkpointVars, config, loader, totalSteps, weights, cacheSize,
                   numGenBatches, saveMetric, timedOut, restarts>>

\* The loader has no more batches; its next iteration is another pass.  What
\* the cache holds is dropped by StartEpoch.
EndEpoch ==
    /\ pc = "batch"
    /\ loader.yielded = BatchesPerEpoch
    /\ loader' = [pass |-> loader.pass + 1, yielded |-> 0]
    /\ currentEpoch' = currentEpoch + 1
    /\ currentStep' = 0
    /\ pc' = "epoch"
    /\ UNCHANGED <<checkpointVars, config, totalSteps, weights, cacheSize,
                   numGenBatches, saveMetric, timedOut, restarts>>

\* policy.train, num_updates times on the same batch; all but the last pass
\* count as steps here.
Train ==
    /\ pc = "train"
    /\ weights' = weights \o [i \in 1..config.num_updates |-> loader]
    /\ totalSteps' = totalSteps + config.num_updates - 1
    /\ pc' = "checkpoint"
    /\ UNCHANGED <<checkpointVars, config, currentEpoch, currentStep, loader,
                   cacheSize, numGenBatches, saveMetric, timedOut, restarts>>

\* The decision to save; the save state is updated only for a save.
DecideSave(timeout) ==
    /\ pc = "checkpoint"
    /\ timeout => config.must_save_by
    /\ timedOut' = timeout
    /\ IF SavesByStep \/ timeout
       THEN /\ InitTmpCheckpoint(totalSteps + 1, SaveState)
            /\ saveMetric' = Metric
            /\ pc' = "save"
       ELSE /\ UNCHANGED <<checkpointVars, saveMetric>>
            /\ pc' = "advance"
    /\ UNCHANGED <<config, currentEpoch, currentStep, totalSteps, loader, weights,
                   cacheSize, numGenBatches, restarts>>

\* The checkpoint is new (CountersAgree), so that no rename can fail.
SaveStep ==
    /\ pc = "save"
    /\ \/ SavePolicy(weights)
       \/ SaveDataloader(loader)
       \/ PutInPlace
       \/ RemoveStep
    /\ pc' = IF savePc' = "idle" THEN "advance" ELSE "save"
    /\ UNCHANGED <<runVars, config, restarts>>

\* The end of the loop's body.
Advance ==
    /\ pc = "advance"
    /\ cacheSize' = 0
    /\ numGenBatches' = 0
    /\ currentStep' = currentStep + 1
    /\ totalSteps' = totalSteps + 1
    /\ pc' = IF timedOut \/ StepLimit(totalSteps') THEN "ended" ELSE "batch"
    /\ UNCHANGED <<checkpointVars, config, currentEpoch, loader, weights,
                   saveMetric, timedOut, restarts>>

\* The process ends, wherever it is, by a crash, an error or of itself, and the
\* job is started again: only the disk is left.
Restart ==
    /\ pc # "setup"
    /\ restarts < MaxRestarts
    /\ restarts' = restarts + 1
    /\ LoseSave
    /\ pc' = "setup"
    /\ currentEpoch' = 0
    /\ currentStep' = 0
    /\ totalSteps' = 0
    /\ loader' = [pass |-> 1, yielded |-> 0]
    /\ weights' = <<>>
    /\ cacheSize' = 0
    /\ numGenBatches' = 0
    /\ saveMetric' = {}
    /\ timedOut' = FALSE
    /\ UNCHANGED config

Stopped == pc \in {"ended", "raised"} /\ UNCHANGED vars

RunStep ==
    \/ Setup
    \/ StartEpoch
    \/ DrawBatch
    \/ \E informative \in 0..PromptsPerBatch : SampleBatch(informative)
    \/ EndEpoch
    \/ Train
    \/ \E timeout \in BOOLEAN : DecideSave(timeout)
    \/ SaveStep
    \/ Advance

Next == RunStep \/ Restart \/ Stopped

Spec == Init /\ [][Next]_vars

\* The process runs; nothing forces a restart.
FairSpec == Spec /\ WF_vars(RunStep)
=============================================================================
