------------------------ MODULE TrainingRunProperties ------------------------
(***************************************************************************)
(* What a training job must keep over its crashes and restarts.            *)
(***************************************************************************)
EXTENDS TrainingRun

\* The number of batches of the uninterrupted data stream up to a loader state.
Drawn(l) == (l.pass - 1) * BatchesPerEpoch + l.yielded

\* Optimizer passes on one rollout follow each other; i counts from 1.
Rollout(i) == (i - 1) \div config.num_updates

\* Whatever crashes there were, the weights are those of a run without any:
\* each batch of the data was trained on once, in the order of the data, none
\* skipped and none repeated (each num_updates_per_rollout times in grpo).  With
\* dynamic sampling batches are left out, but none comes twice or too early.
TrainedInOrder ==
    \A i \in 1..Len(weights) :
        IF config.dynamic_sampling
        THEN i > 1 => IF Rollout(i) = Rollout(i - 1)
                      THEN weights[i] = weights[i - 1]
                      ELSE Drawn(weights[i]) > Drawn(weights[i - 1])
        ELSE Drawn(weights[i]) = Rollout(i) + 1

\* The counters agree with the policy and with the data loader wherever a step
\* begins, also right after a restart: as many steps as optimizer passes, the
\* epoch is the loader's pass, the step its position (with dynamic sampling at
\* most its position; sft, dpo and rm resume a finished epoch as step 0).  So
\* no save is of a step that has a checkpoint already, and the renames that a
\* crash could catch half done are never needed.
CountersAgree ==
    /\ pc = "batch" =>
        /\ totalSteps = Len(weights)
        /\ loader.pass = currentEpoch + 1
        /\ IF config.dynamic_sampling
           THEN currentStep <= loader.yielded
           ELSE \/ currentStep = loader.yielded
                \/ currentStep = 0 /\ loader.yielded = BatchesPerEpoch
    /\ pc = "save" /\ savePc = "finalize" => saveStep \notin DOMAIN stepDirs

\* The checkpoint that a restart takes is complete, and its three files are of
\* one moment of one run, at every moment of every save and removal.
WholeCheckpoint(n) ==
    /\ DOMAIN stepDirs[n] = Files
    /\ stepDirs[n]["training_info.json"].total_steps = n
    /\ Len(stepDirs[n]["policy"]) = n
    /\ stepDirs[n]["policy"][n] = stepDirs[n]["train_dataloader.pt"]

LatestIsWhole == stepDirs # EmptyDir => WholeCheckpoint(LatestStep)

\* A crash costs at most the optimizer steps of one save period; with several
\* passes per rollout, of as many periods.
SavedUpTo == IF stepDirs = EmptyDir THEN 0 ELSE LatestStep

LossBounded ==
    pc \in {"batch", "train", "checkpoint", "save"} =>
        Len(weights) - SavedUpTo <= config.save_period * config.num_updates

\* A job that has ended of itself left its last weights in a checkpoint, unless
\* dynamic sampling ran out of data in the middle of a step's batches (no step
\* is then known to be the last).
EndIsSaved ==
    pc = "ended" /\ ~config.dynamic_sampling => SavedUpTo = Len(weights)

\* What the weights become durable as: those of the latest checkpoint.
Durable ==
    IF stepDirs = EmptyDir \/ "policy" \notin DOMAIN stepDirs[LatestStep]
    THEN <<>>
    ELSE stepDirs[LatestStep]["policy"]

\* A process that has not read its checkpoint yet has no weights of its own.
Trained == IF pc = "setup" THEN Durable ELSE weights

\* Every trainer, with the seven or more file operations of a save, the pruning
\* and a crash between any two steps, implements training with atomic saves.
Abstract == INSTANCE DurableTraining WITH trained <- Trained, durable <- Durable
SavesAreAtomic == Abstract!Spec

\* A job that is not restarted for ever ends: no restart, in the middle of an
\* epoch or at its end, makes it loop without progress.
Ends == <>(pc \in {"ended", "raised"})

-----------------------------------------------------------------------------
(* The configurations of the runs. *)

Config(algorithm, max_num_steps, save_period, val_period, must_save_by) ==
    [algorithm |-> algorithm, max_num_steps |-> max_num_steps,
     save_period |-> save_period, val_period |-> val_period, val_at_end |-> TRUE,
     must_save_by |-> must_save_by, val_metric |-> TRUE, num_updates |-> 1,
     dynamic_sampling |-> FALSE]

ResumeConfigs ==
    {Config(algorithm, 3, 2, 2, TRUE) : algorithm \in Algorithms}
    \cup {Config("rm", Unlimited, 1, 2, FALSE), Config("grpo", 9, 3, 0, TRUE)}
    \cup {[Config("grpo", 7, save, 2, FALSE) EXCEPT
              !.num_updates = updates, !.dynamic_sampling = sampling] :
          save \in 2..3, updates \in 1..2, sampling \in BOOLEAN}
=============================================================================
