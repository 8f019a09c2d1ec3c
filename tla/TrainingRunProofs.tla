-------------------------- MODULE TrainingRunProofs --------------------------
(***************************************************************************)
(* For every trainer, every configuration and any number of crashes: the   *)
(* counters agree with the data loader, a restart finds a complete         *)
(* checkpoint, and training with its file operations implements training   *)
(* with atomic saves.                                                      *)
(*                                                                         *)
(* The argument: the counters, the weights and the position of the loader  *)
(* move together (ProgressInv); the three files of a save are written from *)
(* one moment of them (WrittenInv), so that the latest checkpoint restores *)
(* one such moment (LatestInv); a save is of a step beyond every           *)
(* checkpoint (BoundInv) and becomes the latest at the one rename, and the *)
(* pruning never touches the latest.                                       *)
(***************************************************************************)
EXTENDS TrainingRunProperties, SequenceTheorems, TLAPS

Loaders == [pass : Nat \ {0}, yielded : 0..BatchesPerEpoch]

\* A step and an epoch from which a loader in this position goes on.
Agree(epoch, step, l) ==
    /\ l.pass = epoch + 1
    /\ IF config.dynamic_sampling
       THEN step <= l.yielded
       ELSE \/ step = l.yielded
            \/ step = 0 /\ l.yielded = BatchesPerEpoch

GoodInfo(info, n, l) ==
    /\ info.total_steps = n
    /\ info.current_epoch \in Nat /\ info.current_step \in Nat
    /\ Agree(info.current_epoch, info.current_step, l)

GoodPolicy(policy, n, l) ==
    /\ policy \in Seq(Loaders)
    /\ Len(policy) = n
    /\ n > 0 /\ policy[n] = l

GoodCheckpoint(dir, n) ==
    /\ DOMAIN dir = Files
    /\ dir["train_dataloader.pt"] \in Loaders
    /\ GoodInfo(dir["training_info.json"], n, dir["train_dataloader.pt"])
    /\ GoodPolicy(dir["policy"], n, dir["train_dataloader.pt"])

-----------------------------------------------------------------------------

Before == {"epoch", "batch"}
After == {"checkpoint", "save", "advance"}
Writing == {"policy", "train_dataloader", "finalize"}
Pruning == {"remove_old", "removing"}

TypeInv ==
    /\ config \in Configs
    /\ pc \in Before \cup {"setup", "train"} \cup After \cup {"ended", "raised"}
    /\ savePc \in {"idle"} \cup Writing \cup Pruning
    /\ pc = "save" <=> savePc # "idle"
    /\ currentEpoch \in Nat /\ currentStep \in Nat /\ totalSteps \in Nat
    /\ loader \in Loaders
    /\ weights \in Seq(Loaders)
    /\ stepDirs = [n \in DOMAIN stepDirs |-> stepDirs[n]]
    /\ DOMAIN stepDirs \subseteq Nat
    /\ \A n \in DOMAIN tmpDirs : DOMAIN tmpDirs[n] \subseteq Files
    /\ savePc # "removing" => doomed = {}

\* Where the loop is, the loader is, and the optimizer.
ProgressInv ==
    /\ pc = "setup" => FreshRun
    /\ pc \in Before => Agree(currentEpoch, currentStep, loader)
    /\ pc \in After \cup {"train"} =>
          /\ loader.pass = currentEpoch + 1
          /\ IF config.dynamic_sampling
             THEN currentStep + 1 <= loader.yielded
             ELSE currentStep + 1 = loader.yielded
    /\ IF pc \in After
       THEN GoodPolicy(weights, totalSteps + 1, loader)
       ELSE Len(weights) = totalSteps

\* What a save has written so far is of this moment.
WrittenInv ==
    savePc \in Writing =>
        LET dir == tmpDirs[saveStep]
        IN  /\ saveStep = totalSteps + 1
            /\ saveStep \in DOMAIN tmpDirs
            /\ "training_info.json" \in DOMAIN dir
            /\ GoodInfo(dir["training_info.json"], saveStep, loader)
            /\ savePc # "policy" => "policy" \in DOMAIN dir /\ dir["policy"] = weights
            /\ savePc = "finalize" =>
                  /\ "train_dataloader.pt" \in DOMAIN dir
                  /\ dir["train_dataloader.pt"] = loader

\* No checkpoint is ahead of the run.
BoundInv ==
    /\ pc \notin {"setup"} =>
          \A n \in DOMAIN stepDirs :
              n <= IF pc = "advance" \/ savePc \in Pruning THEN totalSteps + 1 ELSE totalSteps
    /\ savePc \in Pruning =>
          /\ totalSteps + 1 \in DOMAIN stepDirs
          /\ stepDirs[totalSteps + 1]["policy"] = weights

\* There is a latest checkpoint, it is complete, and it is not being removed.
LatestInv ==
    DOMAIN stepDirs # {} =>
        \E n \in DOMAIN stepDirs :
            /\ \A m \in DOMAIN stepDirs : m <= n
            /\ GoodCheckpoint(stepDirs[n], n)
            /\ \A c \in doomed : c.step < n

Inv ==
    /\ TypeInv
    /\ ProgressInv
    /\ WrittenInv
    /\ BoundInv
    /\ LatestInv

-----------------------------------------------------------------------------
(* The latest checkpoint. *)

LEMMA LatestIsUnique ==
    ASSUME TypeInv, NEW n \in DOMAIN stepDirs, \A m \in DOMAIN stepDirs : m <= n
    PROVE  LatestStep = n
<1>1. LatestStep \in DOMAIN stepDirs /\ \A m \in DOMAIN stepDirs : m <= LatestStep
    BY DEF LatestStep
<1>2. LatestStep <= n /\ n <= LatestStep
    BY <1>1
<1>3. n \in Int /\ LatestStep \in Int
    BY <1>1 DEF TypeInv
<1> QED
    BY <1>2, <1>3

LEMMA NoCheckpoint == ASSUME TypeInv PROVE stepDirs = EmptyDir <=> DOMAIN stepDirs = {}
BY DEF TypeInv, EmptyDir

LEMMA LatestIsGood ==
    ASSUME TypeInv, LatestInv, stepDirs # EmptyDir
    PROVE  /\ LatestStep \in DOMAIN stepDirs /\ LatestStep \in Nat
           /\ GoodCheckpoint(stepDirs[LatestStep], LatestStep)
           /\ \A m \in DOMAIN stepDirs : m <= LatestStep
           /\ \A c \in doomed : c.step < LatestStep
<1>1. PICK n \in DOMAIN stepDirs :
        /\ \A m \in DOMAIN stepDirs : m <= n
        /\ GoodCheckpoint(stepDirs[n], n)
        /\ \A c \in doomed : c.step < n
    BY NoCheckpoint DEF LatestInv
<1>2. LatestStep = n
    BY <1>1, LatestIsUnique
<1> QED
    BY <1>1, <1>2 DEF TypeInv

LEMMA LatestStays ==
    ASSUME LatestInv, UNCHANGED <<stepDirs, config>>, doomed' \subseteq doomed
    PROVE  LatestInv'
BY DEF LatestInv, GoodCheckpoint, GoodInfo, GoodPolicy, Agree

-----------------------------------------------------------------------------
(* The loop of the trainers. *)

LEMMA InitInv == ASSUME Init PROVE Inv
<1> USE TrainingAssumption DEF Init, CheckpointInit, FreshRun, EmptyDir
<1>1. loader \in Loaders
    BY DEF Loaders
<1>2. weights \in Seq(Loaders) /\ Len(weights) = 0
    OBVIOUS
<1>3. TypeInv
    BY <1>1, <1>2 DEF TypeInv, Before, After, Writing, Pruning
<1>4. ProgressInv
    BY <1>2 DEF ProgressInv, Before, After
<1>5. WrittenInv /\ BoundInv /\ LatestInv
    BY DEF WrittenInv, BoundInv, LatestInv, Writing, Pruning
<1> QED
    BY <1>3, <1>4, <1>5 DEF Inv

LEMMA SetupInv == ASSUME Inv, Setup PROVE Inv'
<1> USE DEF Inv
<1>1. /\ pc = "setup" /\ pc' = "epoch" /\ savePc = "idle"
      /\ UNCHANGED <<checkpointVars, config, cacheSize, numGenBatches, timedOut, restarts>>
    BY DEF Setup, TypeInv
<1>2. LatestInv'
    BY <1>1, LatestStays DEF checkpointVars
<1>3. CASE stepDirs = EmptyDir
    <2>1. UNCHANGED <<currentEpoch, currentStep, totalSteps, loader, weights>>
        BY <1>3 DEF Setup
    <2>2. FreshRun
        BY <1>1 DEF ProgressInv
    <2>3. TypeInv'
        BY <1>1, <2>1 DEF TypeInv, checkpointVars, Before
    <2>4. ProgressInv'
        BY <1>1, <2>1, <2>2 DEF ProgressInv, FreshRun, Agree, Before, After
    <2>5. WrittenInv' /\ BoundInv'
        BY <1>1, <1>3 DEF WrittenInv, BoundInv, Writing, Pruning, checkpointVars, EmptyDir
    <2> QED
        BY <1>2, <2>3, <2>4, <2>5
<1>4. CASE stepDirs # EmptyDir
    <2> DEFINE latest == stepDirs[LatestStep]
               info == latest["training_info.json"]
    <2>1. /\ currentEpoch' = info.current_epoch /\ currentStep' = info.current_step
          /\ totalSteps' = info.total_steps /\ weights' = latest["policy"]
          /\ loader' = latest["train_dataloader.pt"]
        BY <1>4 DEF Setup
    <2>2. /\ GoodCheckpoint(latest, LatestStep) /\ LatestStep \in Nat
          /\ \A m \in DOMAIN stepDirs : m <= LatestStep
        BY <1>4, LatestIsGood
    <2> HIDE DEF latest
    <2>3. /\ currentEpoch' \in Nat /\ currentStep' \in Nat /\ totalSteps' = LatestStep
          /\ loader' \in Loaders /\ weights' \in Seq(Loaders) /\ Len(weights') = LatestStep
          /\ Agree(currentEpoch', currentStep', loader')
        BY <2>1, <2>2 DEF GoodCheckpoint, GoodInfo, GoodPolicy
    <2>4. TypeInv'
        BY <1>1, <2>2, <2>3 DEF TypeInv, checkpointVars, Before
    <2>5. ProgressInv'
        BY <1>1, <2>3 DEF ProgressInv, Agree, Before, After
    <2>6. WrittenInv' /\ BoundInv'
        BY <1>1, <2>2, <2>3 DEF WrittenInv, BoundInv, Writing, Pruning, checkpointVars
    <2> QED
        BY <1>2, <2>4, <2>5, <2>6
<1> QED
    BY <1>3, <1>4

\* A step of the loop that leaves the disk alone, outside saves.
LEMMA DiskStays ==
    ASSUME Inv, pc # "setup", pc # "save", pc' \notin {"setup", "save"},
           UNCHANGED <<checkpointVars, config>>, totalSteps' \in Nat, totalSteps \in Nat,
           IF pc = "advance" /\ pc' # "advance" THEN totalSteps' >= totalSteps + 1 ELSE totalSteps' >= totalSteps
    PROVE  WrittenInv' /\ BoundInv' /\ LatestInv'
<1>1. savePc = "idle" /\ savePc' = "idle"
    BY DEF Inv, TypeInv, checkpointVars
<1>2. LatestInv'
    BY LatestStays DEF Inv, checkpointVars
<1>3. DOMAIN stepDirs' = DOMAIN stepDirs /\ DOMAIN stepDirs \subseteq Nat
    BY DEF Inv, TypeInv, checkpointVars
<1>4. BoundInv'
    BY <1>1, <1>3 DEF Inv, BoundInv, Pruning
<1> QED
    BY <1>1, <1>2, <1>4 DEF WrittenInv, Writing

LEMMA StartEpochInv == ASSUME Inv, StartEpoch PROVE Inv'
<1>1. /\ pc = "epoch" /\ pc' \in {"batch", "ended"}
      /\ UNCHANGED <<checkpointVars, config, currentEpoch, currentStep, totalSteps, loader, weights>>
    BY DEF StartEpoch
<1>2. WrittenInv' /\ BoundInv' /\ LatestInv'
    BY <1>1, DiskStays DEF Inv, TypeInv
<1>3. TypeInv'
    BY <1>1 DEF Inv, TypeInv, checkpointVars, Before
<1>4. ProgressInv'
    BY <1>1 DEF Inv, ProgressInv, Agree, Before, After
<1> QED
    BY <1>2, <1>3, <1>4 DEF Inv

\* A batch is drawn, for a step or with dynamic sampling for the cache.
LEMMA DrawInv ==
    ASSUME Inv, DrawBatch \/ \E informative \in 0..PromptsPerBatch : SampleBatch(informative)
    PROVE  Inv'
<1>1. /\ pc = "batch" /\ pc' \in {"batch", "train", "raised"}
      /\ ~config.dynamic_sampling => pc' = "train"
      /\ loader.yielded < BatchesPerEpoch
      /\ loader' = [loader EXCEPT !.yielded = loader.yielded + 1]
      /\ UNCHANGED <<checkpointVars, config, currentEpoch, currentStep, totalSteps, weights>>
    BY DEF DrawBatch, SampleBatch, Yield
<1>2. /\ loader \in Loaders /\ currentStep \in Nat /\ currentEpoch \in Nat
      /\ Agree(currentEpoch, currentStep, loader) /\ Len(weights) = totalSteps
    BY <1>1 DEF Inv, TypeInv, ProgressInv, Before, After
<1>3. loader' \in Loaders /\ loader'.pass = loader.pass /\ loader'.yielded = loader.yielded + 1
    BY <1>1, <1>2, TrainingAssumption DEF Loaders
<1>4. WrittenInv' /\ BoundInv' /\ LatestInv'
    BY <1>1, DiskStays DEF Inv, TypeInv
<1>5. TypeInv'
    BY <1>1, <1>3 DEF Inv, TypeInv, checkpointVars, Before
<1>6. currentStep <= loader.yielded /\ loader.yielded \in Nat
    BY <1>2, TrainingAssumption DEF Agree, Loaders
<1>7. /\ loader'.pass = currentEpoch + 1
      /\ IF config.dynamic_sampling
         THEN currentStep + 1 <= loader'.yielded
         ELSE currentStep + 1 = loader'.yielded
    BY <1>1, <1>2, <1>3, <1>6, TrainingAssumption DEF Agree
<1>8. pc' = "batch" => Agree(currentEpoch, currentStep, loader')
    BY <1>1, <1>2, <1>6, <1>7, <1>3 DEF Agree
<1>9. ProgressInv'
    BY <1>1, <1>2, <1>7, <1>8 DEF ProgressInv, Agree, Before, After
<1> QED
    BY <1>4, <1>5, <1>9 DEF Inv

LEMMA EndEpochInv == ASSUME Inv, EndEpoch PROVE Inv'
<1>1. /\ pc = "batch" /\ pc' = "epoch"
      /\ loader' = [pass |-> loader.pass + 1, yielded |-> 0]
      /\ currentEpoch' = currentEpoch + 1 /\ currentStep' = 0
      /\ UNCHANGED <<checkpointVars, config, totalSteps, weights>>
    BY DEF EndEpoch
<1>2. /\ loader \in Loaders /\ currentEpoch \in Nat
      /\ Agree(currentEpoch, currentStep, loader) /\ Len(weights) = totalSteps
    BY <1>1 DEF Inv, TypeInv, ProgressInv, Before, After
<1>3. loader' \in Loaders
    BY <1>1, <1>2, TrainingAssumption DEF Loaders
<1>4. WrittenInv' /\ BoundInv' /\ LatestInv'
    BY <1>1, DiskStays DEF Inv, TypeInv
<1>5. TypeInv'
    BY <1>1, <1>3 DEF Inv, TypeInv, checkpointVars, Before
<1>6. Agree(currentEpoch', currentStep', loader')
    BY <1>1, <1>2 DEF Agree
<1>7. ProgressInv'
    BY <1>1, <1>2, <1>6 DEF ProgressInv, Agree, Before, After
<1> QED
    BY <1>4, <1>5, <1>7 DEF Inv

\* num_updates passes over one batch, of which the last is counted by Advance.
LEMMA TrainInv == ASSUME Inv, Train PROVE Inv'
<1> DEFINE more == [i \in 1..config.num_updates |-> loader]
<1>1. /\ pc = "train" /\ pc' = "checkpoint"
      /\ weights' = weights \o more
      /\ totalSteps' = totalSteps + config.num_updates - 1
      /\ UNCHANGED <<checkpointVars, config, currentEpoch, currentStep, loader>>
    BY DEF Train
<1>2. /\ loader \in Loaders /\ weights \in Seq(Loaders) /\ totalSteps \in Nat
      /\ Len(weights) = totalSteps
    BY <1>1 DEF Inv, TypeInv, ProgressInv, After
<1>3. config.num_updates \in Nat \ {0}
    BY TrainingAssumption DEF Inv, TypeInv, IsConfig
<1>4. /\ more \in Seq(Loaders) /\ Len(more) = config.num_updates
      /\ more[config.num_updates] = loader
    BY <1>2, <1>3
<1> HIDE DEF more
<1>a. /\ weights \o more \in Seq(Loaders)
      /\ Len(weights \o more) = totalSteps + config.num_updates
      /\ \A i \in 1..(totalSteps + config.num_updates) :
            (weights \o more)[i] = IF i <= totalSteps THEN weights[i] ELSE more[i - totalSteps]
    <2>1. /\ weights \o more \in Seq(Loaders)
          /\ Len(weights \o more) = Len(weights) + Len(more)
          /\ \A i \in 1..Len(weights) + Len(more) :
                (weights \o more)[i] = IF i <= Len(weights) THEN weights[i] ELSE more[i - Len(weights)]
        BY <1>2, <1>4, ConcatProperties
    <2> QED
        BY <1>2, <1>4, <2>1
<1>5. /\ weights' \in Seq(Loaders)
      /\ Len(weights') = totalSteps' + 1
      /\ totalSteps' \in Nat /\ totalSteps' >= totalSteps
    BY <1>1, <1>2, <1>3, <1>a
<1>6. weights'[totalSteps' + 1] = loader
    <2>1. totalSteps' + 1 = totalSteps + config.num_updates
        BY <1>1, <1>2, <1>3
    <2>2. (weights \o more)[totalSteps + config.num_updates] = more[config.num_updates]
        BY <1>2, <1>3, <1>a
    <2> QED
        BY <1>1, <1>4, <2>1, <2>2
<1>7. WrittenInv' /\ BoundInv' /\ LatestInv'
    BY <1>1, <1>2, <1>5, DiskStays
<1>8. TypeInv'
    BY <1>1, <1>5 DEF Inv, TypeInv, checkpointVars, After
<1>9. ProgressInv'
    BY <1>1, <1>5, <1>6 DEF Inv, ProgressInv, GoodPolicy, Before, After
<1> QED
    BY <1>7, <1>8, <1>9 DEF Inv

\* The next step in its epoch, as the trainers save it, is where the loader is.
LEMMA SavedStepAgrees ==
    ASSUME Inv, pc = "checkpoint"
    PROVE  SavedStep \in Nat /\ Agree(currentEpoch, SavedStep, loader)
<1>1. /\ loader.pass = currentEpoch + 1
      /\ IF config.dynamic_sampling
         THEN currentStep + 1 <= loader.yielded
         ELSE currentStep + 1 = loader.yielded
      /\ currentStep \in Nat /\ loader.yielded \in 0..BatchesPerEpoch
    BY DEF Inv, TypeInv, ProgressInv, After, Loaders
<1>2. CASE config.algorithm \in {"sft", "dpo", "rm"}
    <2>1. ~config.dynamic_sampling
        BY <1>2, TrainingAssumption DEF Inv, TypeInv, IsConfig
    <2>2. CASE currentStep + 1 < BatchesPerEpoch
        <3>1. (currentStep + 1) % BatchesPerEpoch = currentStep + 1
            BY <2>2, <1>1, TrainingAssumption
        <3> QED
            BY <3>1, <1>1, <1>2, <2>1 DEF SavedStep, Agree
    <2>3. CASE currentStep + 1 = BatchesPerEpoch
        <3>1. (currentStep + 1) % BatchesPerEpoch = 0
            BY <2>3, <1>1, TrainingAssumption
        <3> QED
            BY <3>1, <1>1, <1>2, <2>1, <2>3 DEF SavedStep, Agree
    <2> QED
        BY <2>1, <2>2, <2>3, <1>1, TrainingAssumption
<1>3. CASE config.algorithm \notin {"sft", "dpo", "rm"}
    BY <1>1, <1>3 DEF SavedStep, Agree
<1> QED
    BY <1>2, <1>3

LEMMA DecideSaveInv == ASSUME Inv, NEW timeout \in BOOLEAN, DecideSave(timeout) PROVE Inv'
<1>1. /\ pc = "checkpoint" /\ pc' \in {"save", "advance"} /\ savePc = "idle"
      /\ UNCHANGED <<config, currentEpoch, currentStep, totalSteps, loader, weights>>
    BY DEF DecideSave, Inv, TypeInv
<1>2. ProgressInv'
    BY <1>1 DEF Inv, ProgressInv, GoodPolicy, Before, After
<1>3. CASE pc' = "advance"
    <2>1. UNCHANGED checkpointVars
        BY <1>3 DEF DecideSave
    <2>2. WrittenInv' /\ BoundInv' /\ LatestInv'
        BY <1>1, <1>3, <2>1, DiskStays DEF Inv, TypeInv
    <2>3. TypeInv'
        BY <1>1, <1>3, <2>1 DEF Inv, TypeInv, checkpointVars, After
    <2> QED
        BY <1>2, <2>2, <2>3 DEF Inv
<1>4. CASE pc' = "save"
    <2> DEFINE n == totalSteps + 1
               leftover == IF n \in DOMAIN tmpDirs THEN tmpDirs[n] ELSE EmptyDir
               dir == Put(leftover, "training_info.json", SaveState)
    <2>1. InitTmpCheckpoint(n, SaveState)
        BY <1>4 DEF DecideSave
    <2>2. /\ savePc' = "policy" /\ saveStep' = n
          /\ tmpDirs' = Put(tmpDirs, n, dir)
          /\ UNCHANGED <<stepDirs, oldDirs, doomed>>
        BY <2>1 DEF InitTmpCheckpoint
    <2>3. /\ DOMAIN dir = DOMAIN leftover \cup {"training_info.json"}
          /\ dir["training_info.json"] = SaveState
        BY DEF Put
    <2>4. /\ DOMAIN tmpDirs' = DOMAIN tmpDirs \cup {n}
          /\ tmpDirs'[n] = dir
          /\ \A k \in DOMAIN tmpDirs : k # n => tmpDirs'[k] = tmpDirs[k]
        BY <2>2 DEF Put
    <2>5. DOMAIN leftover \subseteq Files
        BY DEF Inv, TypeInv, EmptyDir
    <2>6. GoodInfo(SaveState, n, loader)
        BY <1>1, SavedStepAgrees DEF SaveState, GoodInfo, Inv, TypeInv
    <2>7. \A k \in DOMAIN tmpDirs' : DOMAIN tmpDirs'[k] \subseteq Files
        BY <2>3, <2>4, <2>5 DEF Inv, TypeInv, Files
    <2> HIDE DEF dir, leftover
    <2>8. TypeInv'
        BY <1>1, <1>4, <2>2, <2>7 DEF Inv, TypeInv, After, Writing
    <2>9. WrittenInv'
        BY <1>1, <2>2, <2>3, <2>4, <2>6 DEF WrittenInv, GoodInfo, Agree
    <2>10. BoundInv'
        BY <1>1, <1>4, <2>2 DEF Inv, BoundInv, Pruning
    <2>11. LatestInv'
        BY <1>1, <2>2, LatestStays DEF Inv
    <2> QED
        BY <1>2, <2>8, <2>9, <2>10, <2>11 DEF Inv
<1> QED
    BY <1>1, <1>3, <1>4

LEMMA AdvanceInv == ASSUME Inv, Advance PROVE Inv'
<1>1. /\ pc = "advance" /\ pc' \in {"batch", "ended"}
      /\ currentStep' = currentStep + 1 /\ totalSteps' = totalSteps + 1
      /\ UNCHANGED <<checkpointVars, config, currentEpoch, loader, weights>>
    BY DEF Advance
<1>2. totalSteps \in Nat /\ currentStep \in Nat /\ Len(weights) = totalSteps + 1
    BY <1>1 DEF Inv, TypeInv, ProgressInv, GoodPolicy, After
<1>3. WrittenInv' /\ BoundInv' /\ LatestInv'
    BY <1>1, <1>2, DiskStays
<1>4. TypeInv'
    BY <1>1, <1>2 DEF Inv, TypeInv, checkpointVars, Before
<1>5. Agree(currentEpoch, currentStep', loader)
    BY <1>1 DEF Inv, ProgressInv, Agree, After
<1>6. ProgressInv'
    BY <1>1, <1>2, <1>5 DEF ProgressInv, Agree, Before, After
<1> QED
    BY <1>3, <1>4, <1>6 DEF Inv

LEMMA RestartInv == ASSUME Inv, Restart PROVE Inv'
<1>1. /\ pc' = "setup" /\ savePc' = "idle" /\ doomed' = {}
      /\ UNCHANGED <<diskVars, config>>
    BY DEF Restart, LoseSave
<1>2. FreshRun'
    BY DEF Restart, FreshRun
<1>3. loader' \in Loaders /\ weights' \in Seq(Loaders) /\ Len(weights') = 0
    BY <1>2, TrainingAssumption DEF FreshRun, Loaders
<1>4. TypeInv'
    BY <1>1, <1>2, <1>3 DEF Inv, TypeInv, diskVars, FreshRun
<1>5. ProgressInv'
    BY <1>1, <1>2, <1>3 DEF ProgressInv, FreshRun, Before, After
<1>6. WrittenInv' /\ BoundInv'
    BY <1>1 DEF WrittenInv, BoundInv, Writing, Pruning
<1>7. LatestInv'
    BY <1>1, LatestStays DEF Inv, diskVars
<1> QED
    BY <1>4, <1>5, <1>6, <1>7 DEF Inv

-----------------------------------------------------------------------------
(* A save. *)

LEMMA WriteInv ==
    ASSUME Inv, SaveStep, SavePolicy(weights) \/ SaveDataloader(loader)
    PROVE  Inv'
<1>1. /\ savePc \in {"policy", "train_dataloader"} /\ savePc' \in {"train_dataloader", "finalize"}
      /\ pc = "save" /\ pc' = "save"
      /\ UNCHANGED <<runVars, config, stepDirs, oldDirs, saveStep, doomed>>
    BY DEF SaveStep, SavePolicy, SaveDataloader, WriteFile
<1>2. /\ saveStep = totalSteps + 1 /\ saveStep \in DOMAIN tmpDirs
      /\ GoodInfo(tmpDirs[saveStep]["training_info.json"], saveStep, loader)
      /\ "training_info.json" \in DOMAIN tmpDirs[saveStep]
      /\ DOMAIN tmpDirs[saveStep] \subseteq Files
    BY <1>1 DEF Inv, TypeInv, WrittenInv, Writing
<1>3. DOMAIN tmpDirs' = DOMAIN tmpDirs /\ \A n \in DOMAIN tmpDirs : n # saveStep => tmpDirs'[n] = tmpDirs[n]
    BY DEF SavePolicy, SaveDataloader, WriteFile
<1>4. ProgressInv'
    BY <1>1 DEF Inv, ProgressInv, GoodPolicy, runVars, Before, After
<1>5. BoundInv' /\ LatestInv'
    <2>1. BoundInv'
        BY <1>1 DEF Inv, BoundInv, Pruning, runVars
    <2>2. LatestInv'
        BY <1>1, LatestStays DEF Inv
    <2> QED
        BY <2>1, <2>2
<1>6. CASE SavePolicy(weights)
    <2>1. /\ savePc' = "train_dataloader"
          /\ tmpDirs'[saveStep] = Put(tmpDirs[saveStep], "policy", weights)
        BY <1>2, <1>6 DEF SavePolicy, WriteFile
    <2>2. /\ DOMAIN tmpDirs'[saveStep] = DOMAIN tmpDirs[saveStep] \cup {"policy"}
          /\ tmpDirs'[saveStep]["policy"] = weights
          /\ tmpDirs'[saveStep]["training_info.json"] = tmpDirs[saveStep]["training_info.json"]
        BY <1>2, <2>1 DEF Put
    <2>3. WrittenInv'
        BY <1>1, <1>2, <1>3, <2>1, <2>2 DEF WrittenInv, GoodInfo, Agree, runVars
    <2>4. TypeInv'
        BY <1>1, <1>2, <1>3, <2>1, <2>2 DEF Inv, TypeInv, Files, runVars, Writing
    <2> QED
        BY <1>4, <1>5, <2>3, <2>4 DEF Inv
<1>7. CASE SaveDataloader(loader)
    <2>1. /\ savePc = "train_dataloader" /\ savePc' = "finalize"
          /\ tmpDirs'[saveStep] = Put(tmpDirs[saveStep], "train_dataloader.pt", loader)
        BY <1>2, <1>7 DEF SaveDataloader, WriteFile
    <2>2. /\ DOMAIN tmpDirs'[saveStep] = DOMAIN tmpDirs[saveStep] \cup {"train_dataloader.pt"}
          /\ tmpDirs'[saveStep]["train_dataloader.pt"] = loader
          /\ tmpDirs'[saveStep]["training_info.json"] = tmpDirs[saveStep]["training_info.json"]
          /\ "policy" \in DOMAIN tmpDirs[saveStep] =>
                tmpDirs'[saveStep]["policy"] = tmpDirs[saveStep]["policy"]
        BY <1>2, <2>1 DEF Put
    <2>3. "policy" \in DOMAIN tmpDirs[saveStep] /\ tmpDirs[saveStep]["policy"] = weights
        BY <2>1 DEF Inv, WrittenInv, Writing
    <2>4. WrittenInv'
        BY <1>1, <1>2, <1>3, <2>1, <2>2, <2>3 DEF WrittenInv, GoodInfo, Agree, runVars
    <2>5. TypeInv'
        BY <1>1, <1>2, <1>3, <2>1, <2>2 DEF Inv, TypeInv, Files, runVars, Writing
    <2> QED
        BY <1>4, <1>5, <2>4, <2>5 DEF Inv
<1> QED
    BY <1>6, <1>7

\* What is put in place is complete, new and the latest.
LEMMA PlacedIsGood ==
    ASSUME Inv, savePc = "finalize"
    PROVE  /\ saveStep = totalSteps + 1
           /\ saveStep \notin DOMAIN stepDirs
           /\ \A n \in DOMAIN stepDirs : n <= totalSteps
           /\ GoodCheckpoint(tmpDirs[saveStep], saveStep)
           /\ tmpDirs[saveStep]["policy"] = weights
<1>1. pc = "save" /\ totalSteps \in Nat /\ DOMAIN stepDirs \subseteq Nat
    BY DEF Inv, TypeInv
<1>2. /\ saveStep = totalSteps + 1 /\ saveStep \in DOMAIN tmpDirs
      /\ GoodInfo(tmpDirs[saveStep]["training_info.json"], saveStep, loader)
      /\ {"training_info.json", "policy", "train_dataloader.pt"} \subseteq DOMAIN tmpDirs[saveStep]
      /\ tmpDirs[saveStep]["policy"] = weights
      /\ tmpDirs[saveStep]["train_dataloader.pt"] = loader
    BY DEF Inv, WrittenInv, Writing
<1>3. \A n \in DOMAIN stepDirs : n <= totalSteps
    BY <1>1 DEF Inv, BoundInv, Pruning
<1>4. DOMAIN tmpDirs[saveStep] = Files
    BY <1>2 DEF Inv, TypeInv, Files
<1>5. GoodPolicy(weights, saveStep, loader) /\ loader \in Loaders
    BY <1>1, <1>2 DEF Inv, TypeInv, ProgressInv, After
<1> QED
    BY <1>1, <1>2, <1>3, <1>4, <1>5 DEF GoodCheckpoint

LEMMA FinalizeNewInv == ASSUME Inv, SaveStep, FinalizeNew PROVE Inv'
<1>1. /\ savePc = "finalize" /\ savePc' = "remove_old" /\ pc = "save" /\ pc' = "save"
      /\ stepDirs' = Put(stepDirs, saveStep, tmpDirs[saveStep])
      /\ tmpDirs' = Remove(tmpDirs, saveStep)
      /\ UNCHANGED <<runVars, config, oldDirs, saveStep, doomed>>
    BY DEF SaveStep, FinalizeNew, RenameTmpToStep
<1>2. /\ saveStep = totalSteps + 1 /\ totalSteps \in Nat
      /\ \A n \in DOMAIN stepDirs : n <= totalSteps
      /\ GoodCheckpoint(tmpDirs[saveStep], saveStep)
      /\ tmpDirs[saveStep]["policy"] = weights
      /\ doomed = {} /\ DOMAIN stepDirs \subseteq Nat
    BY <1>1, PlacedIsGood DEF Inv, TypeInv
<1>3. /\ DOMAIN stepDirs' = DOMAIN stepDirs \cup {saveStep}
      /\ stepDirs'[saveStep] = tmpDirs[saveStep]
      /\ stepDirs' = [n \in DOMAIN stepDirs' |-> stepDirs'[n]]
    BY <1>1 DEF Put
<1>4. /\ DOMAIN tmpDirs' \subseteq DOMAIN tmpDirs
      /\ \A n \in DOMAIN tmpDirs' : tmpDirs'[n] = tmpDirs[n]
    BY <1>1 DEF Remove, Restrict
<1>5. TypeInv'
    BY <1>1, <1>2, <1>3, <1>4 DEF Inv, TypeInv, runVars, Pruning
<1>6. ProgressInv'
    BY <1>1 DEF Inv, ProgressInv, GoodPolicy, runVars, Before, After
<1>7. WrittenInv'
    BY <1>1 DEF WrittenInv, Writing
<1>8. BoundInv'
    BY <1>1, <1>2, <1>3 DEF BoundInv, Pruning, runVars
<1>9. LatestInv'
    <2> DEFINE dir == tmpDirs[saveStep]
    <2>1. stepDirs'[saveStep] = dir /\ GoodCheckpoint(dir, saveStep)
        BY <1>2, <1>3
    <2>2. \A m \in DOMAIN stepDirs' : m <= saveStep
        BY <1>2, <1>3
    <2>3. saveStep' = saveStep /\ config' = config /\ doomed' = {} /\ saveStep \in DOMAIN stepDirs'
        BY <1>1, <1>2, <1>3
    <2> HIDE DEF dir
    <2> QED
        BY <2>1, <2>2, <2>3 DEF LatestInv, GoodCheckpoint, GoodInfo, GoodPolicy, Agree
<1> QED
    BY <1>5, <1>6, <1>7, <1>8, <1>9 DEF Inv

\* The steps of the pruning.
LEMMA PruneInv ==
    ASSUME Inv, SaveStep, savePc \in Pruning, savePc' \in Pruning \cup {"idle"},
           UNCHANGED <<tmpDirs, oldDirs, saveStep>>,
           DOMAIN stepDirs' \subseteq DOMAIN stepDirs,
           stepDirs' = [n \in DOMAIN stepDirs' |-> stepDirs'[n]],
           LatestStep \in DOMAIN stepDirs', stepDirs'[LatestStep] = stepDirs[LatestStep],
           \A c \in doomed' : c.step < LatestStep,
           savePc' # "removing" => doomed' = {}
    PROVE  Inv'
<1>1. /\ pc = "save" /\ pc' = (IF savePc' = "idle" THEN "advance" ELSE "save")
      /\ UNCHANGED <<runVars, config>>
    BY DEF SaveStep
<1>2. /\ totalSteps \in Nat /\ DOMAIN stepDirs \subseteq Nat
      /\ totalSteps + 1 \in DOMAIN stepDirs
      /\ stepDirs[totalSteps + 1]["policy"] = weights
      /\ \A n \in DOMAIN stepDirs : n <= totalSteps + 1
    BY <1>1 DEF Inv, TypeInv, BoundInv
<1>3. LatestStep = totalSteps + 1
    BY <1>2, LatestIsUnique DEF Inv
<1>4. GoodCheckpoint(stepDirs[LatestStep], LatestStep)
    BY <1>2, LatestIsGood, NoCheckpoint DEF Inv
<1>5. TypeInv'
    BY <1>1, <1>2 DEF Inv, TypeInv, runVars, After
<1>6. ProgressInv'
    BY <1>1 DEF Inv, ProgressInv, GoodPolicy, runVars, Before, After
<1>7. WrittenInv'
    BY DEF WrittenInv, Writing, Pruning
<1>8. BoundInv'
    BY <1>1, <1>2, <1>3 DEF BoundInv, Pruning, runVars
<1> HIDE DEF LatestStep
<1>9. LatestInv'
    <2> DEFINE n == totalSteps + 1
    <2>1. n \in DOMAIN stepDirs' /\ \A m \in DOMAIN stepDirs' : m <= n
        BY <1>2, <1>3
    <2>2. stepDirs'[n] = stepDirs[n] /\ GoodCheckpoint(stepDirs[n], n)
        BY <1>3, <1>4
    <2>3. \A c \in doomed' : c.step < n
        BY <1>3
    <2> HIDE DEF n
    <2> QED
        BY <1>1, <2>1, <2>2, <2>3 DEF LatestInv, GoodCheckpoint, GoodInfo, GoodPolicy, Agree
<1> QED
    BY <1>5, <1>6, <1>7, <1>8, <1>9 DEF Inv

\* None of its steps touches the latest checkpoint.
LEMMA PruneLeavesLatest ==
    ASSUME Inv, SaveStep, savePc \in Pruning
    PROVE  /\ savePc' \in Pruning \cup {"idle"}
           /\ UNCHANGED <<tmpDirs, oldDirs, saveStep>>
           /\ LatestStep \in DOMAIN stepDirs /\ LatestStep \in Nat
           /\ DOMAIN stepDirs' \subseteq DOMAIN stepDirs
           /\ stepDirs' = [n \in DOMAIN stepDirs' |-> stepDirs'[n]]
           /\ LatestStep \in DOMAIN stepDirs' /\ stepDirs'[LatestStep] = stepDirs[LatestStep]
           /\ \A c \in doomed' : c.step < LatestStep
           /\ savePc' # "removing" => doomed' = {}
<1>1. ChooseDoomed \/ RemoveDoomed \/ SaveDone
    BY DEF SaveStep, PutInPlace, RenameTmpOverStep, FinalizeNew, RemoveStep,
                RemoveReplaced, SavePolicy, SaveDataloader, WriteFile, Pruning
<1>2. totalSteps + 1 \in DOMAIN stepDirs
    BY DEF Inv, BoundInv
<1>3. /\ LatestStep \in DOMAIN stepDirs /\ LatestStep \in Nat
      /\ DOMAIN stepDirs \subseteq Nat
      /\ \A m \in DOMAIN stepDirs : m <= LatestStep
      /\ \A c \in doomed : c.step < LatestStep
    BY <1>2, LatestIsGood, NoCheckpoint DEF Inv, TypeInv
<1>4. CASE ChooseDoomed
    <2>1. /\ savePc' = "removing" /\ UNCHANGED <<stepDirs, tmpDirs, oldDirs, saveStep>>
          /\ doomed' \subseteq OutsideTopK
        BY <1>4 DEF ChooseDoomed, diskVars
    <2>2. \A c \in OutsideTopK : c.step < LatestStep
        <3> SUFFICES ASSUME NEW c \in OutsideTopK PROVE c.step < LatestStep
            OBVIOUS
        <3>1. PICK d \in History : d.step > c.step
            BY DEF OutsideTopK
        <3>2. c \in History
            BY DEF OutsideTopK
        <3>3. c.step \in DOMAIN stepDirs /\ d.step \in DOMAIN stepDirs
            BY <3>2 DEF History, HistorySteps
        <3> HIDE DEF LatestStep
        <3>4. c.step \in Nat /\ d.step \in Nat /\ d.step <= LatestStep
            BY <3>3, <1>3
        <3> QED
            BY <3>1, <3>4, <1>3
    <2>3. stepDirs' = [n \in DOMAIN stepDirs' |-> stepDirs'[n]]
        BY <2>1 DEF Inv, TypeInv
    <2> QED
        BY <1>3, <2>1, <2>2, <2>3 DEF Pruning
<1>5. CASE RemoveDoomed
    <2>1. PICK c \in doomed :
            \/ \E file \in DOMAIN stepDirs[c.step] :
                  /\ stepDirs' = [stepDirs EXCEPT ![c.step] = Remove(@, file)]
                  /\ UNCHANGED doomed
            \/ /\ stepDirs' = Remove(stepDirs, c.step)
               /\ doomed' = doomed \ {c}
        BY <1>5 DEF RemoveDoomed
    <2>2. /\ savePc = "removing" /\ savePc' = "removing"
          /\ UNCHANGED <<tmpDirs, oldDirs, saveStep>>
        BY <1>5 DEF RemoveDoomed
    <2> HIDE DEF LatestStep
    <2>3. c.step # LatestStep
        BY <1>3
    <2>4. /\ DOMAIN stepDirs' \subseteq DOMAIN stepDirs
          /\ stepDirs' = [n \in DOMAIN stepDirs' |-> stepDirs'[n]]
          /\ LatestStep \in DOMAIN stepDirs' /\ stepDirs'[LatestStep] = stepDirs[LatestStep]
        BY <1>3, <2>1, <2>3 DEF Remove, Restrict
    <2>5. \A d \in doomed' : d.step < LatestStep
        BY <1>3, <2>1
    <2> QED
        BY <1>3, <2>2, <2>4, <2>5 DEF Pruning
<1>6. CASE SaveDone
    <2>1. /\ doomed = {} /\ savePc' = "idle"
          /\ UNCHANGED <<stepDirs, tmpDirs, oldDirs, saveStep, doomed>>
        BY <1>6 DEF SaveDone, diskVars
    <2>2. stepDirs' = [n \in DOMAIN stepDirs' |-> stepDirs'[n]]
        BY <2>1 DEF Inv, TypeInv
    <2> QED
        BY <1>3, <2>1, <2>2
<1> QED
    BY <1>1, <1>4, <1>5, <1>6

LEMMA SaveStepInv == ASSUME Inv, SaveStep PROVE Inv'
<1>1. savePc \in Writing \cup Pruning
    BY DEF SaveStep, Inv, TypeInv
<1>2. CASE savePc \in Writing
    <2>1. SavePolicy(weights) \/ SaveDataloader(loader) \/ FinalizeNew
        BY <1>2 DEF SaveStep, PutInPlace, RenameTmpOverStep, RemoveStep, RemoveReplaced,
                    ChooseDoomed, RemoveDoomed, SaveDone, Writing
    <2> QED
        BY <2>1, WriteInv, FinalizeNewInv
<1>3. CASE savePc \in Pruning
    BY <1>3, PruneLeavesLatest, PruneInv
<1> QED
    BY <1>1, <1>2, <1>3

LEMMA StutterInv == ASSUME Inv, UNCHANGED vars PROVE Inv'
BY DEF Inv, TypeInv, ProgressInv, WrittenInv, BoundInv, LatestInv, GoodCheckpoint, GoodInfo,
       GoodPolicy, Agree, FreshRun, vars, checkpointVars, runVars

LEMMA StepInv == ASSUME Inv, [Next]_vars PROVE Inv'
<1>1. CASE RunStep
    BY <1>1, SetupInv, StartEpochInv, DrawInv, EndEpochInv, TrainInv, DecideSaveInv,
       SaveStepInv, AdvanceInv DEF RunStep
<1>2. CASE Restart
    BY <1>2, RestartInv
<1>3. CASE Stopped \/ UNCHANGED vars
    BY <1>3, StutterInv DEF Stopped
<1> QED
    BY <1>1, <1>2, <1>3 DEF Next

LEMMA AlwaysInv == Spec => []Inv
<1>1. Init => Inv
    BY InitInv
<1>2. Inv /\ [Next]_vars => Inv'
    BY StepInv
<1> QED
    BY <1>1, <1>2, PTL DEF Spec

-----------------------------------------------------------------------------

\* Wherever a step begins, also after any restart, the counters are those of the
\* policy and of the data loader, and no save is of a step that has a checkpoint.
THEOREM CountersAlwaysAgree == Spec => []CountersAgree
<1>1. Inv => CountersAgree
    <2> SUFFICES ASSUME Inv PROVE CountersAgree
        OBVIOUS
    <2>1. pc = "batch" => totalSteps = Len(weights) /\ Agree(currentEpoch, currentStep, loader)
        BY DEF Inv, ProgressInv, Before, After
    <2>2. pc = "save" /\ savePc = "finalize" => saveStep \notin DOMAIN stepDirs
        BY PlacedIsGood
    <2> QED
        BY <2>1, <2>2 DEF CountersAgree, Agree
<1> QED
    BY <1>1, AlwaysInv, PTL

\* The checkpoint that a restart takes has its three files, of one moment.
THEOREM LatestIsAlwaysWhole == Spec => []LatestIsWhole
<1>1. Inv => LatestIsWhole
    BY LatestIsGood DEF Inv, LatestIsWhole, WholeCheckpoint, GoodCheckpoint, GoodInfo, GoodPolicy
<1> QED
    BY <1>1, AlwaysInv, PTL

-----------------------------------------------------------------------------
(* The refinement. *)

LEMMA DurableIsLatest ==
    ASSUME Inv, stepDirs # EmptyDir
    PROVE  Durable = stepDirs[LatestStep]["policy"]
BY LatestIsGood DEF Inv, Durable, GoodCheckpoint, Files

\* A step outside saves and crashes, before the weights change.
LEMMA Stutters ==
    ASSUME UNCHANGED <<stepDirs, weights>>, pc # "setup", pc' # "setup"
    PROVE  UNCHANGED <<Trained, Durable>>
BY DEF Trained, Durable, LatestStep

LEMMA SetupRefines == ASSUME Inv, Setup PROVE UNCHANGED <<Trained, Durable>>
<1>1. pc = "setup" /\ pc' = "epoch" /\ UNCHANGED stepDirs
    BY DEF Setup, checkpointVars
<1>2. Durable' = Durable
    BY <1>1 DEF Durable, LatestStep
<1>3. weights' = Durable
    <2>1. CASE stepDirs = EmptyDir
        BY <1>1, <2>1 DEF Setup, Inv, ProgressInv, FreshRun, Durable
    <2>2. CASE stepDirs # EmptyDir
        BY <2>2, DurableIsLatest DEF Setup
    <2> QED
        BY <2>1, <2>2
<1> QED
    BY <1>1, <1>2, <1>3 DEF Trained

LEMMA TrainRefines == ASSUME Inv, Train PROVE Abstract!Train
<1> DEFINE more == [i \in 1..config.num_updates |-> loader]
<1>1. /\ pc = "train" /\ pc' = "checkpoint" /\ UNCHANGED stepDirs
      /\ weights' = weights \o more
    BY DEF Train, checkpointVars
<1>2. weights \in Seq(Loaders) /\ more \in Seq(Loaders)
    <2>1. loader \in Loaders /\ config.num_updates \in Nat
        BY TrainingAssumption DEF Inv, TypeInv, IsConfig
    <2> QED
        BY <2>1 DEF Inv, TypeInv
<1> HIDE DEF more
<1>3. /\ weights \o more \in Seq(Loaders)
      /\ Len(weights \o more) = Len(weights) + Len(more)
      /\ \A i \in 1..Len(weights) + Len(more) :
            (weights \o more)[i] = IF i <= Len(weights) THEN weights[i] ELSE more[i - Len(weights)]
    BY <1>2, ConcatProperties
<1> DEFINE whole == weights \o more
           n == Len(weights)
<1>4. n \in Nat /\ n <= Len(whole) /\ \A i \in 1..n : weights[i] \in Loaders /\ whole[i] = weights[i]
    BY <1>2, <1>3, LenProperties, ElementOfSeq
<1> HIDE DEF whole
<1>5. SubSeq(weights, 1, n) = SubSeq(whole, 1, n)
    <2>1. /\ SubSeq(weights, 1, n) \in Seq(Loaders)
          /\ Len(SubSeq(weights, 1, n)) = IF 1 <= n THEN n - 1 + 1 ELSE 0
          /\ \A i \in 1..(n - 1 + 1) : SubSeq(weights, 1, n)[i] = weights[1 + i - 1]
        BY <1>4, SubSeqProperties
    <2>2. /\ SubSeq(whole, 1, n) \in Seq(Loaders)
          /\ Len(SubSeq(whole, 1, n)) = IF 1 <= n THEN n - 1 + 1 ELSE 0
          /\ \A i \in 1..(n - 1 + 1) : SubSeq(whole, 1, n)[i] = whole[1 + i - 1]
        BY <1>4, SubSeqProperties
    <2>3. Len(SubSeq(weights, 1, n)) = n /\ Len(SubSeq(whole, 1, n)) = n
        BY <1>4, <2>1, <2>2
    <2>4. \A i \in 1..n : SubSeq(weights, 1, n)[i] = SubSeq(whole, 1, n)[i]
        BY <1>4, <2>1, <2>2
    <2> QED
        BY <2>1, <2>2, <2>3, <2>4, SeqEqual
<1>6. Trained = weights /\ Trained' = whole
    BY <1>1 DEF Trained, whole
<1>7. Durable' = Durable
    BY <1>1 DEF Durable, LatestStep
<1> QED
    BY <1>4, <1>5, <1>6, <1>7 DEF Abstract!Train, Abstract!IsPrefix

\* What a save puts in place is the latest checkpoint from then on.
LEMMA FinalizeIsLatest ==
    ASSUME Inv, SaveStep, FinalizeNew
    PROVE  /\ LatestStep' = saveStep /\ stepDirs' # EmptyDir
           /\ stepDirs'[saveStep] = tmpDirs[saveStep]
<1>1. /\ savePc = "finalize" /\ stepDirs' = Put(stepDirs, saveStep, tmpDirs[saveStep])
    BY DEF FinalizeNew, RenameTmpToStep
<1>2. /\ saveStep = totalSteps + 1 /\ totalSteps \in Nat
      /\ \A n \in DOMAIN stepDirs : n <= totalSteps
      /\ DOMAIN stepDirs \subseteq Nat
    BY <1>1, PlacedIsGood DEF Inv, TypeInv
<1>3. /\ DOMAIN stepDirs' = DOMAIN stepDirs \cup {saveStep}
      /\ stepDirs'[saveStep] = tmpDirs[saveStep]
    BY <1>1 DEF Put
<1>4. \A m \in DOMAIN stepDirs' : m <= saveStep
    BY <1>2, <1>3
<1>5. LatestStep' \in DOMAIN stepDirs' /\ \A m \in DOMAIN stepDirs' : m <= LatestStep'
    BY <1>3, <1>4 DEF LatestStep
<1>6. LatestStep' <= saveStep /\ saveStep <= LatestStep' /\ LatestStep' \in Int /\ saveStep \in Int
    BY <1>2, <1>3, <1>4, <1>5
<1> QED
    BY <1>3, <1>6 DEF EmptyDir

\* The one rename makes all that was trained durable.
LEMMA FinalizeRefines == ASSUME Inv, SaveStep, FinalizeNew PROVE Abstract!Save
<1>1. pc = "save" /\ pc' = "save" /\ savePc = "finalize" /\ UNCHANGED weights
    BY DEF SaveStep, FinalizeNew, RenameTmpToStep, runVars
<1>2. "policy" \in DOMAIN tmpDirs[saveStep] /\ tmpDirs[saveStep]["policy"] = weights
    BY <1>1, PlacedIsGood DEF GoodCheckpoint, Files
<1>3. Durable' = weights
    BY <1>2, FinalizeIsLatest DEF Durable
<1> QED
    BY <1>1, <1>3 DEF Abstract!Save, Trained

\* The pruning leaves the latest checkpoint the latest.
LEMMA PruneKeepsLatest ==
    ASSUME Inv, SaveStep, savePc \in Pruning
    PROVE  /\ stepDirs # EmptyDir /\ stepDirs' # EmptyDir
           /\ LatestStep' = LatestStep /\ stepDirs'[LatestStep] = stepDirs[LatestStep]
<1>1. /\ LatestStep \in DOMAIN stepDirs /\ LatestStep \in Nat
      /\ DOMAIN stepDirs' \subseteq DOMAIN stepDirs /\ DOMAIN stepDirs \subseteq Nat
      /\ LatestStep \in DOMAIN stepDirs' /\ stepDirs'[LatestStep] = stepDirs[LatestStep]
      /\ \A m \in DOMAIN stepDirs : m <= LatestStep
    BY PruneLeavesLatest, LatestIsGood, NoCheckpoint DEF Inv, TypeInv
<1> DEFINE n == LatestStep
<1>2. n \in DOMAIN stepDirs' /\ n \in Nat /\ \A m \in DOMAIN stepDirs' : m <= n
    BY <1>1
<1>3. stepDirs # EmptyDir /\ stepDirs' # EmptyDir
    BY <1>1 DEF EmptyDir
<1> HIDE DEF n
<1>4. LatestStep' \in DOMAIN stepDirs' /\ \A m \in DOMAIN stepDirs' : m <= LatestStep'
    BY <1>2 DEF LatestStep
<1>5. LatestStep' = n
    <2>1. LatestStep' <= n /\ n <= LatestStep' /\ LatestStep' \in Nat
        BY <1>1, <1>2, <1>4
    <2> QED
        BY <1>2, <2>1
<1> QED
    BY <1>1, <1>3, <1>5 DEF n

LEMMA PruneRefines == ASSUME Inv, SaveStep, savePc \in Pruning PROVE UNCHANGED <<Trained, Durable>>
<1>1. pc = "save" /\ pc' \in {"save", "advance"} /\ UNCHANGED weights
    BY DEF SaveStep, runVars
<1>2. Durable' = Durable
    BY PruneKeepsLatest DEF Durable
<1> QED
    BY <1>1, <1>2 DEF Trained

LEMMA SaveStepRefines ==
    ASSUME Inv, SaveStep
    PROVE  Abstract!Save \/ UNCHANGED <<Trained, Durable>>
<1>1. CASE savePc \in Pruning
    BY <1>1, PruneRefines
<1>2. CASE FinalizeNew
    BY <1>2, FinalizeRefines
<1>3. CASE savePc \notin Pruning /\ ~FinalizeNew
    <2>1. SavePolicy(weights) \/ SaveDataloader(loader)
        BY <1>3 DEF Inv, TypeInv, SaveStep, PutInPlace, RenameTmpOverStep, RemoveStep, RemoveReplaced,
                    ChooseDoomed, RemoveDoomed, SaveDone, Writing, Pruning
    <2>2. UNCHANGED <<stepDirs, weights>> /\ pc = "save" /\ pc' \in {"save", "advance"}
        BY <2>1 DEF SaveStep, SavePolicy, SaveDataloader, WriteFile, runVars
    <2> QED
        BY <2>2, Stutters
<1> QED
    BY <1>1, <1>2, <1>3

LEMMA RestartRefines == ASSUME Restart PROVE Abstract!Crash
<1>1. pc' = "setup" /\ UNCHANGED stepDirs
    BY DEF Restart, LoseSave, diskVars
<1>2. Durable' = Durable
    BY <1>1 DEF Durable, LatestStep
<1> QED
    BY <1>1, <1>2 DEF Abstract!Crash, Trained

LEMMA LoopRefines ==
    ASSUME Inv, \/ StartEpoch \/ EndEpoch \/ Advance
                \/ DrawBatch \/ \E informative \in 0..PromptsPerBatch : SampleBatch(informative)
                \/ \E timeout \in BOOLEAN : DecideSave(timeout)
    PROVE  UNCHANGED <<Trained, Durable>>
<1>1. UNCHANGED <<stepDirs, weights>> /\ pc # "setup" /\ pc' # "setup"
    BY DEF StartEpoch, EndEpoch, Advance, DrawBatch, SampleBatch, DecideSave,
           InitTmpCheckpoint, checkpointVars
<1> QED
    BY <1>1, Stutters

\* Training with its files, counters and prunings, killed at any moment and
\* started again, is training whose saves are atomic and whose crashes fall back
\* to the last save.
THEOREM SavesImplementAtomicSaves == Spec => SavesAreAtomic
<1>1. Init => Abstract!Init
    BY DEF Init, CheckpointInit, FreshRun, Abstract!Init, Trained, Durable
<1>2. Inv /\ [Next]_vars => [Abstract!Next]_<<Trained, Durable>>
    <2> SUFFICES ASSUME Inv, [Next]_vars
                 PROVE  Abstract!Next \/ UNCHANGED <<Trained, Durable>>
        OBVIOUS
    <2>1. CASE RunStep
        <3>1. CASE Setup
            BY <3>1, SetupRefines
        <3>2. CASE Train
            BY <3>2, TrainRefines DEF Abstract!Next
        <3>3. CASE SaveStep
            BY <3>3, SaveStepRefines DEF Abstract!Next
        <3>4. CASE ~(Setup \/ Train \/ SaveStep)
            BY <2>1, <3>4, LoopRefines DEF RunStep
        <3> QED
            BY <3>1, <3>2, <3>3, <3>4
    <2>2. CASE Restart
        BY <2>2, RestartRefines DEF Abstract!Next
    <2>3. CASE Stopped \/ UNCHANGED vars
        <3>1. UNCHANGED <<stepDirs, weights, pc>>
            BY <2>3 DEF Stopped, vars, checkpointVars, runVars
        <3>2. Durable' = Durable
            BY <3>1 DEF Durable, LatestStep
        <3> QED
            BY <3>1, <3>2 DEF Trained
    <2> QED
        BY <2>1, <2>2, <2>3 DEF Next
<1> QED
    BY <1>1, <1>2, AlwaysInv, PTL DEF Spec, SavesAreAtomic, Abstract!Spec

-----------------------------------------------------------------------------
(***************************************************************************)
(* The data and the checkpoints: batches are trained on once and in order, *)
(* a crash costs no more than the save period allows, and a job that ends  *)
(* of itself has saved its last weights.                                   *)
(*                                                                         *)
(* The argument: optimizer passes come in whole rollouts, and a save is due*)
(* whenever their number is a multiple of the period, so that between the  *)
(* latest checkpoint and the weights there is never a multiple that was    *)
(* passed over (PeriodInv).  The loader has drawn as many batches as there *)
(* are rollouts, in memory and in the latest checkpoint (OrderInv).  The   *)
(* last step is known before it is over, and saved (EndInv).               *)
(***************************************************************************)

(* Facts of arithmetic. *)

LEMMA Multiple == ASSUME NEW r \in Nat, NEW u \in Nat PROVE r * u \in Nat
OBVIOUS

LEMMA MultipleOfSum == ASSUME NEW r \in Nat, NEW u \in Nat PROVE (r + 1) * u = r * u + u
OBVIOUS

LEMMA MultipleDivides ==
    ASSUME NEW k \in Nat, NEW p \in Nat \ {0}, NEW u \in Nat \ {0}
    PROVE  ((k * p) * u) % p = 0
<1>1. (k * p) * u = (k * u) * p /\ k * u \in Nat
    OBVIOUS
<1>2. \A n \in Nat : (n * p) % p = 0
    BY SMTT(30)
<1> QED
    BY <1>1, <1>2

LEMMA MultipleIsMonotone ==
    ASSUME NEW r \in Nat, NEW s \in Nat, NEW u \in Nat, NEW p \in Nat, r - s <= p
    PROVE  r * u - s * u <= u * p
OBVIOUS

\* The passes on one rollout have one number.
LEMMA RolloutOf ==
    ASSUME config.num_updates \in Nat \ {0}, NEW r \in Nat, NEW t \in 1..config.num_updates
    PROVE  Rollout(r * config.num_updates + t) = r
<1> DEFINE u == config.num_updates
<1>1. \A v \in Nat \ {0} : \A d \in 0..(v - 1) : (r * v + d) \div v = r
    BY SMTT(30)
<1>2. t - 1 \in 0..(u - 1) /\ (r * u + t) - 1 = r * u + (t - 1)
    OBVIOUS
<1>3. (r * u + (t - 1)) \div u = r
    BY <1>1, <1>2
<1> QED
    BY <1>2, <1>3 DEF Rollout

-----------------------------------------------------------------------------
(* What is saved. *)

LEMMA SavedStays == ASSUME UNCHANGED stepDirs PROVE SavedUpTo' = SavedUpTo
BY DEF SavedUpTo, LatestStep

LEMMA PruneKeepsSaved ==
    ASSUME Inv, SaveStep, savePc \in Pruning
    PROVE  SavedUpTo' = SavedUpTo
<1>1. /\ stepDirs # EmptyDir /\ stepDirs' # EmptyDir
      /\ LatestStep' = LatestStep
    BY PruneKeepsLatest
<1> QED
    BY <1>1 DEF SavedUpTo

LEMMA FinalizeSaves ==
    ASSUME Inv, SaveStep, FinalizeNew
    PROVE  SavedUpTo' = Len(weights)
<1>1. stepDirs' # EmptyDir /\ LatestStep' = saveStep
    BY FinalizeIsLatest
<1>2. saveStep = totalSteps + 1 /\ pc = "save"
    BY PlacedIsGood DEF FinalizeNew, SaveStep
<1>3. Len(weights) = totalSteps + 1
    BY <1>2 DEF Inv, ProgressInv, GoodPolicy, After
<1> QED
    BY <1>1, <1>2, <1>3 DEF SavedUpTo

LEMMA PruningIsSaved == ASSUME Inv, savePc \in Pruning PROVE SavedUpTo = Len(weights)
<1>1. pc = "save" /\ totalSteps \in Nat /\ Len(weights) = totalSteps + 1
    BY DEF Inv, TypeInv, ProgressInv, GoodPolicy, After, Pruning
<1>2. /\ totalSteps + 1 \in DOMAIN stepDirs
      /\ \A n \in DOMAIN stepDirs : n <= totalSteps + 1
    BY <1>1 DEF Inv, BoundInv
<1>3. LatestStep = totalSteps + 1
    BY <1>2, LatestIsUnique DEF Inv
<1>4. stepDirs # EmptyDir
    BY <1>2 DEF EmptyDir
<1> QED
    BY <1>1, <1>3, <1>4 DEF SavedUpTo

LEMMA SetupTakesSaved == ASSUME Inv, Setup PROVE Len(weights') = SavedUpTo /\ SavedUpTo' = SavedUpTo
<1>1. pc = "setup" /\ UNCHANGED stepDirs
    BY DEF Setup, checkpointVars
<1>2. Len(weights') = SavedUpTo
    <2>1. CASE stepDirs = EmptyDir
        <3>1. weights' = weights /\ weights = <<>>
            BY <1>1, <2>1 DEF Setup, Inv, ProgressInv, FreshRun
        <3> QED
            BY <3>1, <2>1 DEF SavedUpTo
    <2>2. CASE stepDirs # EmptyDir
        <3>1. weights' = stepDirs[LatestStep]["policy"]
            BY <2>2 DEF Setup
        <3>2. GoodPolicy(stepDirs[LatestStep]["policy"], LatestStep, stepDirs[LatestStep]["train_dataloader.pt"])
            BY <2>2, LatestIsGood DEF Inv, GoodCheckpoint
        <3> QED
            BY <3>1, <3>2, <2>2 DEF SavedUpTo, GoodPolicy
    <2> QED
        BY <2>1, <2>2
<1> QED
    BY <1>1, <1>2, SavedStays

\* Every other step of the loop leaves both alone.
LEMMA LoopKeepsSaved ==
    ASSUME \/ StartEpoch \/ EndEpoch \/ Advance
           \/ DrawBatch \/ \E informative \in 0..PromptsPerBatch : SampleBatch(informative)
           \/ \E timeout \in BOOLEAN : DecideSave(timeout)
    PROVE  SavedUpTo' = SavedUpTo /\ UNCHANGED <<weights, config>>
<1>1. UNCHANGED <<stepDirs, weights, config>>
    BY DEF StartEpoch, EndEpoch, Advance, DrawBatch, SampleBatch, DecideSave,
           InitTmpCheckpoint, checkpointVars
<1> QED
    BY <1>1, SavedStays

LEMMA WriteKeepsSaved ==
    ASSUME SaveStep, SavePolicy(weights) \/ SaveDataloader(loader)
    PROVE  /\ SavedUpTo' = SavedUpTo /\ UNCHANGED <<stepDirs, weights, config>>
           /\ savePc \in Writing /\ savePc' \in Writing /\ pc = "save" /\ pc' = "save"
<1>1. /\ UNCHANGED <<stepDirs, weights, config>>
      /\ savePc \in Writing /\ savePc' \in Writing /\ pc = "save" /\ pc' = "save"
    BY DEF SaveStep, SavePolicy, SaveDataloader, WriteFile, runVars, Writing
<1> QED
    BY <1>1, SavedStays

LEMMA SaveStepCases ==
    ASSUME Inv, SaveStep
    PROVE  \/ SavePolicy(weights) \/ SaveDataloader(loader)
           \/ FinalizeNew
           \/ savePc \in Pruning
BY DEF Inv, TypeInv, SaveStep, PutInPlace, RenameTmpOverStep, RemoveStep, RemoveReplaced,
       ChooseDoomed, RemoveDoomed, SaveDone, Writing, Pruning

LEMMA ConfigIs ==
    ASSUME Inv
    PROVE  /\ config.num_updates \in Nat \ {0} /\ config.save_period \in Nat \ {0}
           /\ Len(weights) \in Nat
BY TrainingAssumption DEF Inv, TypeInv, IsConfig

\* The passes on a rollout, at the end of the weights.
LEMMA TrainAppends ==
    ASSUME Inv, Train
    PROVE  /\ Len(weights') = Len(weights) + config.num_updates
           /\ \A i \in 1..Len(weights') :
                 weights'[i] = IF i <= Len(weights) THEN weights[i] ELSE loader
<1> DEFINE more == [i \in 1..config.num_updates |-> loader]
<1>1. weights' = weights \o more
    BY DEF Train
<1>2. weights \in Seq(Loaders) /\ loader \in Loaders
    BY DEF Inv, TypeInv
<1>3. more \in Seq(Loaders) /\ Len(more) = config.num_updates /\ \A i \in 1..config.num_updates : more[i] = loader
    BY <1>2, ConfigIs
<1> HIDE DEF more
<1>4. /\ Len(weights \o more) = Len(weights) + Len(more)
      /\ \A i \in 1..Len(weights) + Len(more) :
            (weights \o more)[i] = IF i <= Len(weights) THEN weights[i] ELSE more[i - Len(weights)]
    BY <1>2, <1>3, ConcatProperties
<1> QED
    BY <1>1, <1>3, <1>4, ConfigIs

-----------------------------------------------------------------------------
(* What a crash costs. *)

\* A save is being decided on, or written.
Saving == pc = "checkpoint" \/ savePc \in Writing

\* s rollouts are saved, r are trained on, and k save periods are in what is
\* saved; no more of them are complete, but for one that is being saved.
Periods(s, r, k) ==
    /\ SavedUpTo = s * config.num_updates
    /\ k * config.save_period <= s /\ s < (k + 1) * config.save_period
    /\ pc # "setup" =>
          /\ Len(weights) = r * config.num_updates
          /\ s <= r /\ r <= (k + 1) * config.save_period
          /\ r < (k + 1) * config.save_period \/ Saving

PeriodInv == \E s, r, k \in Nat : Periods(s, r, k)

\* A step that neither trains nor saves nor lets a due save go by.
LEMMA PeriodsStay ==
    ASSUME PeriodInv, SavedUpTo' = SavedUpTo, UNCHANGED <<weights, config>>, pc # "setup",
           Saving => Saving'
    PROVE  PeriodInv'
<1>1. PICK s, r, k \in Nat : Periods(s, r, k)
    BY DEF PeriodInv
<1>2. Periods(s, r, k)'
    BY <1>1 DEF Periods
<1> QED
    BY <1>2 DEF PeriodInv

LEMMA InitPeriods == ASSUME Init PROVE PeriodInv
<1>1. SavedUpTo = 0 /\ pc = "setup" /\ config \in Configs
    BY DEF Init, CheckpointInit, SavedUpTo
<1>2. config.num_updates \in Nat /\ config.save_period \in Nat \ {0}
    BY <1>1, TrainingAssumption DEF IsConfig
<1>3. Periods(0, 0, 0)
    BY <1>1, <1>2 DEF Periods
<1> QED
    BY <1>3 DEF PeriodInv

\* A save that is not made is not due.
LEMMA DecidePeriods ==
    ASSUME Inv, PeriodInv, NEW timeout \in BOOLEAN, DecideSave(timeout)
    PROVE  PeriodInv'
<1>1. /\ pc = "checkpoint" /\ pc' \in {"save", "advance"}
      /\ SavedUpTo' = SavedUpTo /\ UNCHANGED <<weights, config>>
    BY LoopKeepsSaved DEF DecideSave
<1>2. CASE pc' = "save"
    <2>1. savePc' = "policy"
        BY <1>2 DEF DecideSave, InitTmpCheckpoint
    <2> QED
        BY <1>1, <2>1, PeriodsStay DEF Saving, Writing
<1>3. CASE pc' = "advance"
    <2>1. (totalSteps + 1) % config.save_period # 0
        BY <1>3 DEF DecideSave, SavesByStep
    <2>2. Len(weights) = totalSteps + 1
        BY <1>1 DEF Inv, ProgressInv, GoodPolicy, After
    <2>3. PICK s, r, k \in Nat : Periods(s, r, k)
        BY DEF PeriodInv
    <2>4. (((k + 1) * config.save_period) * config.num_updates) % config.save_period = 0
        BY ConfigIs, MultipleDivides
    <2>5. r # (k + 1) * config.save_period
        BY <1>1, <2>1, <2>2, <2>3, <2>4 DEF Periods
    <2>6. r < (k + 1) * config.save_period
        <3>1. (k + 1) * config.save_period \in Nat
            BY ConfigIs
        <3> QED
            BY <3>1, <1>1, <2>3, <2>5 DEF Periods
    <2>7. Periods(s, r, k)'
        BY <1>1, <2>3, <2>6 DEF Periods
    <2> QED
        BY <2>7 DEF PeriodInv
<1> QED
    BY <1>1, <1>2, <1>3

LEMMA TrainPeriods == ASSUME Inv, PeriodInv, Train PROVE PeriodInv'
<1>1. /\ pc = "train" /\ pc' = "checkpoint" /\ savePc = "idle"
      /\ UNCHANGED <<stepDirs, config>>
    BY DEF Inv, TypeInv, Train, checkpointVars
<1>2. Len(weights') = Len(weights) + config.num_updates
    BY TrainAppends
<1>3. PICK s, r, k \in Nat : Periods(s, r, k)
    BY DEF PeriodInv
<1>4. (r + 1) * config.num_updates = r * config.num_updates + config.num_updates
    BY ConfigIs, MultipleOfSum
<1>5. SavedUpTo' = SavedUpTo
    BY <1>1, SavedStays
<1>6. /\ SavedUpTo = s * config.num_updates
      /\ k * config.save_period <= s /\ s < (k + 1) * config.save_period
      /\ Len(weights) = r * config.num_updates
      /\ s <= r /\ r < (k + 1) * config.save_period
    BY <1>1, <1>3 DEF Periods, Saving, Writing
<1>7. r + 1 <= (k + 1) * config.save_period /\ s <= r + 1
    <2>1. (k + 1) * config.save_period \in Nat
        BY ConfigIs
    <2> QED
        BY <2>1, <1>6
<1>8. Saving'
    BY <1>1 DEF Saving
<1>9. Len(weights') = (r + 1) * config.num_updates
    BY <1>2, <1>4, <1>6
<1>10. Periods(s, r + 1, k)'
    BY <1>1, <1>5, <1>6, <1>7, <1>8, <1>9 DEF Periods
<1> QED
    BY <1>10 DEF PeriodInv

LEMMA FinalizePeriods == ASSUME Inv, PeriodInv, SaveStep, FinalizeNew PROVE PeriodInv'
<1>1. pc = "save" /\ UNCHANGED <<weights, config>>
    BY DEF SaveStep, runVars
<1>2. SavedUpTo' = Len(weights)
    BY FinalizeSaves
<1>3. PICK s, r, k \in Nat : Periods(s, r, k)
    BY DEF PeriodInv
<1>4. /\ k * config.save_period <= s
      /\ Len(weights) = r * config.num_updates
      /\ s <= r /\ r <= (k + 1) * config.save_period
    BY <1>1, <1>3 DEF Periods
<1>5. /\ k * config.save_period \in Nat /\ (k + 1) * config.save_period \in Nat
      /\ ((k + 1) + 1) * config.save_period = (k + 1) * config.save_period + config.save_period
    BY ConfigIs
<1>6. PICK j \in Nat : j * config.save_period <= r /\ r < (j + 1) * config.save_period
    <2>1. CASE r < (k + 1) * config.save_period
        BY <1>4, <1>5, <2>1
    <2>2. CASE r = (k + 1) * config.save_period
        <3>1. r < ((k + 1) + 1) * config.save_period
            BY <1>5, <2>2, ConfigIs
        <3> QED
            BY <2>2, <3>1
    <2> QED
        BY <1>4, <1>5, <2>1, <2>2
<1>7. Periods(r, r, j)'
    <2>1. r <= (j + 1) * config.save_period
        BY <1>6, ConfigIs
    <2> QED
        BY <1>1, <1>2, <1>4, <1>6, <2>1 DEF Periods
<1> QED
    BY <1>7 DEF PeriodInv

LEMMA SetupPeriods == ASSUME Inv, PeriodInv, Setup PROVE PeriodInv'
<1>1. Len(weights') = SavedUpTo /\ SavedUpTo' = SavedUpTo /\ config' = config
    BY SetupTakesSaved DEF Setup
<1>2. PICK s, r, k \in Nat : Periods(s, r, k)
    BY DEF PeriodInv
<1>3. s <= (k + 1) * config.save_period
    BY <1>2, ConfigIs DEF Periods
<1>4. Periods(s, s, k)'
    BY <1>1, <1>2, <1>3 DEF Periods
<1> QED
    BY <1>4 DEF PeriodInv

LEMMA RestartPeriods == ASSUME PeriodInv, Restart PROVE PeriodInv'
<1>1. pc' = "setup" /\ UNCHANGED <<stepDirs, config>>
    BY DEF Restart, LoseSave, diskVars
<1>2. SavedUpTo' = SavedUpTo
    BY <1>1, SavedStays
<1>3. PICK s, r, k \in Nat : Periods(s, r, k)
    BY DEF PeriodInv
<1>4. Periods(s, r, k)'
    BY <1>1, <1>2, <1>3 DEF Periods
<1> QED
    BY <1>4 DEF PeriodInv

LEMMA StepPeriods == ASSUME Inv, PeriodInv, [Next]_vars PROVE PeriodInv'
<1>1. CASE \/ StartEpoch \/ EndEpoch \/ Advance
           \/ DrawBatch \/ \E informative \in 0..PromptsPerBatch : SampleBatch(informative)
    <2>1. SavedUpTo' = SavedUpTo /\ UNCHANGED <<weights, config>>
        BY <1>1, LoopKeepsSaved
    <2>2. pc \in {"epoch", "batch", "advance"}
        BY <1>1 DEF StartEpoch, EndEpoch, Advance, DrawBatch, SampleBatch
    <2>3. ~Saving
        BY <2>2 DEF Saving, Inv, TypeInv, Writing
    <2> QED
        BY <2>1, <2>2, <2>3, PeriodsStay
<1>2. CASE SaveStep
    <2>1. CASE SavePolicy(weights) \/ SaveDataloader(loader)
        BY <1>2, <2>1, WriteKeepsSaved, PeriodsStay DEF Saving
    <2>2. CASE savePc \in Pruning
        <3>1. pc = "save" /\ UNCHANGED <<weights, config>> /\ ~Saving
            BY <1>2, <2>2 DEF SaveStep, runVars, Saving, Writing, Pruning
        <3> QED
            BY <3>1, <1>2, <2>2, PruneKeepsSaved, PeriodsStay
    <2> QED
        BY <1>2, <2>1, <2>2, FinalizePeriods, SaveStepCases
<1>3. CASE Stopped \/ UNCHANGED vars
    <2>1. UNCHANGED <<stepDirs, weights, config, pc, savePc>>
        BY <1>3 DEF Stopped, vars, checkpointVars, runVars
    <2>2. SavedUpTo' = SavedUpTo
        BY <2>1, SavedStays
    <2>3. PICK s, r, k \in Nat : Periods(s, r, k)
        BY DEF PeriodInv
    <2>4. Periods(s, r, k)'
        BY <2>1, <2>2, <2>3 DEF Periods, Saving
    <2> QED
        BY <2>4 DEF PeriodInv
<1> QED
    BY <1>1, <1>2, <1>3, DecidePeriods, TrainPeriods, SetupPeriods, RestartPeriods DEF Next, RunStep

LEMMA AlwaysPeriods == Spec => []PeriodInv
<1>1. Init => PeriodInv
    BY InitPeriods
<1>2. Inv /\ PeriodInv /\ [Next]_vars => PeriodInv'
    BY StepPeriods
<1> QED
    BY <1>1, <1>2, AlwaysInv, PTL DEF Spec

\* A crash costs no more optimizer passes than those of one save period, of the
\* rollouts that save_period counts in.
THEOREM LossIsBounded == Spec => []LossBounded
<1>1. Inv /\ PeriodInv => LossBounded
    <2> SUFFICES ASSUME Inv, PeriodInv, pc # "setup"
                 PROVE  Len(weights) - SavedUpTo <= config.save_period * config.num_updates
        BY DEF LossBounded
    <2>1. PICK s, r, k \in Nat : Periods(s, r, k)
        BY DEF PeriodInv
    <2>2. /\ SavedUpTo = s * config.num_updates /\ Len(weights) = r * config.num_updates
          /\ k * config.save_period <= s /\ r <= (k + 1) * config.save_period
        BY <2>1 DEF Periods
    <2>3. r - s <= config.save_period
        <3>1. /\ (k + 1) * config.save_period = k * config.save_period + config.save_period
              /\ k * config.save_period \in Nat
            BY ConfigIs
        <3> QED
            BY <2>2, <3>1, ConfigIs
    <2>4. r * config.num_updates - s * config.num_updates <= config.num_updates * config.save_period
        BY <2>3, ConfigIs, MultipleIsMonotone
    <2>5. config.num_updates * config.save_period = config.save_period * config.num_updates
        BY ConfigIs
    <2> QED
        BY <2>2, <2>4, <2>5
<1> QED
    BY <1>1, AlwaysInv, AlwaysPeriods, PTL

-----------------------------------------------------------------------------
(* The order of the data. *)

\* A sequence of batches trained on, as TrainedInOrder has it.
InOrder(ws) ==
    \A i \in 1..Len(ws) :
        IF config.dynamic_sampling
        THEN i > 1 => IF Rollout(i) = Rollout(i - 1)
                      THEN ws[i] = ws[i - 1]
                      ELSE Drawn(ws[i]) > Drawn(ws[i - 1])
        ELSE Drawn(ws[i]) = Rollout(i) + 1

\* A loader that has just yielded the last of them, or, with dynamic sampling,
\* batches that are left out ...
Reached(l, ws) ==
    IF config.dynamic_sampling
    THEN Len(ws) > 0 => Drawn(ws[Len(ws)]) <= Drawn(l)
    ELSE Len(ws) = Drawn(l) * config.num_updates

\* ... and one that has yielded the next.
Beyond(l, ws) ==
    IF config.dynamic_sampling
    THEN Len(ws) > 0 => Drawn(ws[Len(ws)]) < Drawn(l)
    ELSE Len(ws) = (Drawn(l) - 1) * config.num_updates

OrderInv ==
    /\ InOrder(weights)
    /\ pc \in Before \cup After => Reached(loader, weights)
    /\ pc = "train" => Beyond(loader, weights)
    /\ stepDirs # EmptyDir =>
          /\ InOrder(stepDirs[LatestStep]["policy"])
          /\ Reached(stepDirs[LatestStep]["train_dataloader.pt"], stepDirs[LatestStep]["policy"])

LEMMA DrawnIs == ASSUME NEW l \in Loaders PROVE Drawn(l) \in Nat
BY TrainingAssumption DEF Drawn, Loaders

LEMMA DrawnOfNext ==
    ASSUME NEW l \in Loaders
    PROVE  /\ Drawn([l EXCEPT !.yielded = l.yielded + 1]) = Drawn(l) + 1
           /\ l.yielded = BatchesPerEpoch => Drawn([pass |-> l.pass + 1, yielded |-> 0]) = Drawn(l)
<1> DEFINE next == [l EXCEPT !.yielded = l.yielded + 1]
           new == [pass |-> l.pass + 1, yielded |-> 0]
<1>1. l.pass \in Nat \ {0} /\ l.yielded \in Nat /\ BatchesPerEpoch \in Nat
    BY TrainingAssumption DEF Loaders
<1>2. next.pass = l.pass /\ next.yielded = l.yielded + 1
    BY DEF Loaders
<1>3. (l.pass - 1) * BatchesPerEpoch \in Int
    BY <1>1
<1>4. Drawn(next) = Drawn(l) + 1
    BY <1>1, <1>2, <1>3 DEF Drawn
<1>5. ((l.pass + 1) - 1) * BatchesPerEpoch = (l.pass - 1) * BatchesPerEpoch + BatchesPerEpoch
    BY <1>1
<1>6. l.yielded = BatchesPerEpoch => Drawn(new) = Drawn(l)
    BY <1>1, <1>3, <1>5 DEF Drawn
<1> QED
    BY <1>4, <1>6

\* The last checkpoint, if the disk has not changed.
LEMMA OrderOnDiskStays ==
    ASSUME OrderInv, UNCHANGED <<stepDirs, config>>
    PROVE  (stepDirs # EmptyDir =>
               /\ InOrder(stepDirs[LatestStep]["policy"])
               /\ Reached(stepDirs[LatestStep]["train_dataloader.pt"], stepDirs[LatestStep]["policy"]))'
BY DEF OrderInv, InOrder, Reached, LatestStep, Rollout

LEMMA InOrderStays == ASSUME OrderInv, UNCHANGED <<weights, config>> PROVE InOrder(weights)'
BY DEF OrderInv, InOrder, Rollout

LEMMA ReachedStays ==
    ASSUME Reached(loader, weights), UNCHANGED <<loader, weights, config>>
    PROVE  Reached(loader, weights)'
BY DEF Reached

LEMMA InitOrder == ASSUME Init PROVE OrderInv
<1>1. weights = <<>> /\ pc = "setup" /\ stepDirs = EmptyDir
    BY DEF Init, FreshRun, CheckpointInit
<1> QED
    BY <1>1 DEF OrderInv, InOrder, Before, After

LEMMA TrainOrder == ASSUME Inv, PeriodInv, OrderInv, Train PROVE OrderInv'
<1> DEFINE u == config.num_updates
           n == Len(weights)
<1>1. /\ pc = "train" /\ pc' = "checkpoint"
      /\ UNCHANGED <<stepDirs, config, loader>>
    BY DEF Train, checkpointVars
<1>2. /\ n \in Nat /\ u \in Nat \ {0}
      /\ Len(weights') = n + u
      /\ \A i \in 1..(n + u) : weights'[i] = IF i <= n THEN weights[i] ELSE loader
    BY ConfigIs, TrainAppends
<1>3. loader \in Loaders /\ Drawn(loader) \in Nat
    BY DrawnIs DEF Inv, TypeInv
<1>4. Beyond(loader, weights) /\ InOrder(weights)
    BY <1>1 DEF OrderInv
<1>5. PICK r \in Nat : n = r * u
    <2>1. PICK s, r, k \in Nat : Periods(s, r, k)
        BY DEF PeriodInv
    <2> QED
        BY <1>1, <2>1 DEF Periods
<1>6. \A i \in (n + 1)..(n + u) : Rollout(i) = r
    <2> SUFFICES ASSUME NEW i \in (n + 1)..(n + u) PROVE Rollout(i) = r
        OBVIOUS
    <2> DEFINE t == i - n
    <2>1. t \in 1..u /\ i = n + t
        BY <1>2
    <2> HIDE DEF t
    <2>2. Rollout(r * u + t) = r
        BY <1>2, <2>1, RolloutOf
    <2> QED
        BY <1>5, <2>1, <2>2
<1>7. CASE config.dynamic_sampling
    <2>1. n > 0 => Rollout(n) # r
        <3> SUFFICES ASSUME n > 0 PROVE Rollout(n) # r
            OBVIOUS
        <3>1. r - 1 \in Nat
            BY <1>2, <1>5
        <3>2. n = (r - 1) * u + u
            BY <1>2, <1>5, <3>1
        <3>3. Rollout((r - 1) * u + u) = r - 1
            <4>1. u \in 1..u
                BY <1>2
            <4> DEFINE q == r - 1
            <4>2. q \in Nat
                BY <3>1
            <4> HIDE DEF q
            <4>3. Rollout(q * u + u) = q
                BY <4>1, <4>2, RolloutOf
            <4> QED
                BY <4>3 DEF q
        <3> QED
            BY <3>1, <3>2, <3>3
    <2>2. ASSUME NEW i \in 1..(n + u), i > 1
          PROVE  IF Rollout(i) = Rollout(i - 1)
                 THEN weights'[i] = weights'[i - 1]
                 ELSE Drawn(weights'[i]) > Drawn(weights'[i - 1])
        <3>1. CASE i <= n
            <4> HIDE DEF n, u
            <4>1. i \in 1..n /\ i - 1 \in 1..n /\ i \in 1..(n + u) /\ i - 1 \in 1..(n + u) /\ i - 1 <= n
                BY <1>2, <2>2, <3>1
            <4>2. weights'[i] = weights[i] /\ weights'[i - 1] = weights[i - 1]
                BY <1>2, <3>1, <4>1
            <4> USE DEF n, u
            <4> QED
                BY <1>4, <1>7, <2>2, <4>1, <4>2 DEF InOrder
        <3>2. CASE i = n + 1
            <4> HIDE DEF n, u
            <4>1. n > 0 /\ i - 1 = n /\ weights'[i] = loader /\ weights'[n] = weights[n] /\ Rollout(i) = r
                <5>1. n > 0 /\ i - 1 = n /\ ~(i <= n) /\ n <= n /\ n \in 1..(n + u) /\ i \in (n + 1)..(n + u)
                    BY <1>2, <2>2, <3>2
                <5>2. weights'[i] = loader /\ weights'[n] = weights[n]
                    BY <1>2, <5>1
                <5> QED
                    BY <1>6, <5>1, <5>2
            <4> USE DEF n, u
            <4>2. Drawn(weights[n]) < Drawn(loader)
                BY <1>4, <1>7, <4>1 DEF Beyond
            <4>3. weights[n] \in Loaders
                <5>1. weights \in Seq(Loaders) /\ n \in 1..Len(weights)
                    BY <4>1, <1>2 DEF Inv, TypeInv
                <5> QED
                    BY <5>1, ElementOfSeq
            <4>4. Drawn(weights[n]) \in Nat
                BY <4>3, DrawnIs
            <4> QED
                BY <1>3, <2>1, <4>1, <4>2, <4>4
        <3>3. CASE i > n + 1
            <4>1. i \in (n + 1)..(n + u) /\ i - 1 \in (n + 1)..(n + u)
                BY <1>2, <2>2, <3>3
            <4>2. weights'[i] = loader /\ weights'[i - 1] = loader
                BY <1>2, <4>1
            <4> QED
                BY <1>6, <4>1, <4>2
        <3> QED
            BY <1>2, <3>1, <3>2, <3>3
    <2>3. InOrder(weights)'
        BY <1>1, <1>2, <1>7, <2>2 DEF InOrder, Rollout
    <2>4. Reached(loader, weights)'
        <3>1. weights'[n + u] = loader
            BY <1>2
        <3> QED
            BY <1>1, <1>2, <1>3, <1>7, <3>1 DEF Reached, Drawn
    <2> QED
        BY <1>1, <2>3, <2>4, OrderOnDiskStays DEF OrderInv
<1>8. CASE ~config.dynamic_sampling
    <2>1. n = (Drawn(loader) - 1) * u
        BY <1>4, <1>8 DEF Beyond
    <2>2. Drawn(loader) = r + 1
        <3> DEFINE d == Drawn(loader)
        <3> HIDE DEF d, u, n
        <3>1. \A a \in Int, b \in Nat, v \in Nat \ {0} : a * v = b * v => a = b
            OBVIOUS
        <3>2. d \in Nat /\ (d - 1) * u = r * u /\ d - 1 \in Int
            BY <1>3, <1>5, <2>1 DEF d
        <3>3. d - 1 = r
            BY <1>2, <3>1, <3>2
        <3> QED
            BY <3>2, <3>3 DEF d
    <2>3. ASSUME NEW i \in 1..(n + u) PROVE Drawn(weights'[i]) = Rollout(i) + 1
        <3>1. CASE i <= n
            <4>1. i \in 1..n /\ weights'[i] = weights[i]
                BY <1>2, <3>1
            <4> QED
                BY <1>4, <1>8, <4>1 DEF InOrder
        <3>2. CASE i > n
            <4>1. i \in (n + 1)..(n + u) /\ weights'[i] = loader
                BY <1>2, <3>2
            <4> QED
                BY <1>6, <2>2, <4>1
        <3> QED
            BY <1>2, <3>1, <3>2
    <2>4. InOrder(weights)'
        BY <1>1, <1>2, <1>8, <2>3 DEF InOrder, Rollout
    <2>5. n + u = Drawn(loader) * u
        <3>1. (r + 1) * u = r * u + u
            BY <1>2, MultipleOfSum
        <3> QED
            BY <1>5, <2>2, <3>1
    <2>6. Reached(loader, weights)'
        BY <1>1, <1>2, <1>8, <2>5 DEF Reached, Drawn
    <2> QED
        BY <1>1, <2>4, <2>6, OrderOnDiskStays DEF OrderInv
<1> QED
    BY <1>7, <1>8

LEMMA DrawOrder ==
    ASSUME Inv, OrderInv, DrawBatch \/ \E informative \in 0..PromptsPerBatch : SampleBatch(informative)
    PROVE  OrderInv'
<1>1. /\ pc = "batch" /\ pc' \in {"batch", "train", "raised"}
      /\ ~config.dynamic_sampling => pc' = "train"
      /\ loader' = [loader EXCEPT !.yielded = loader.yielded + 1]
      /\ UNCHANGED <<stepDirs, config, weights>>
    BY DEF DrawBatch, SampleBatch, Yield, checkpointVars
<1>2. loader \in Loaders /\ Len(weights) \in Nat /\ config.num_updates \in Nat
    BY ConfigIs DEF Inv, TypeInv
<1>3. Drawn(loader') = Drawn(loader) + 1 /\ Drawn(loader) \in Nat
    BY <1>1, <1>2, DrawnOfNext, DrawnIs
<1>4. Reached(loader, weights)
    BY <1>1 DEF OrderInv, Before
<1>5. config.dynamic_sampling /\ Len(weights) > 0 => Drawn(weights[Len(weights)]) \in Nat
    <2> SUFFICES ASSUME Len(weights) > 0 PROVE Drawn(weights[Len(weights)]) \in Nat
        OBVIOUS
    <2>1. weights \in Seq(Loaders) /\ Len(weights) \in 1..Len(weights)
        BY <1>2 DEF Inv, TypeInv
    <2>2. weights[Len(weights)] \in Loaders
        BY <2>1, ElementOfSeq
    <2> QED
        BY <2>2, DrawnIs
<1>6. Beyond(loader', weights) /\ (config.dynamic_sampling => Reached(loader', weights))
    BY <1>2, <1>3, <1>4, <1>5 DEF Beyond, Reached
<1>7. Beyond(loader, weights)' /\ (pc' = "batch" => Reached(loader, weights)')
    BY <1>1, <1>6 DEF Beyond, Reached
<1> QED
    BY <1>1, <1>7, OrderOnDiskStays, InOrderStays DEF OrderInv, Before, After

LEMMA EndEpochOrder == ASSUME Inv, OrderInv, EndEpoch PROVE OrderInv'
<1>1. /\ pc = "batch" /\ pc' = "epoch" /\ loader.yielded = BatchesPerEpoch
      /\ loader' = [pass |-> loader.pass + 1, yielded |-> 0]
      /\ UNCHANGED <<stepDirs, config, weights>>
    BY DEF EndEpoch, checkpointVars
<1>2. Drawn(loader') = Drawn(loader)
    BY <1>1, DrawnOfNext DEF Inv, TypeInv
<1>3. Reached(loader, weights)
    BY <1>1 DEF OrderInv, Before
<1>4. Reached(loader, weights)'
    BY <1>1, <1>2, <1>3 DEF Reached, Drawn
<1> QED
    BY <1>1, <1>4, OrderOnDiskStays, InOrderStays DEF OrderInv, Before

LEMMA QuietOrder ==
    ASSUME OrderInv, StartEpoch \/ Advance \/ \E timeout \in BOOLEAN : DecideSave(timeout)
    PROVE  OrderInv'
<1>1. /\ pc \in Before \cup After /\ pc' # "train"
      /\ UNCHANGED <<stepDirs, config, weights, loader>>
    BY DEF StartEpoch, Advance, DecideSave, InitTmpCheckpoint, checkpointVars, Before, After
<1> QED
    BY <1>1, OrderOnDiskStays, InOrderStays, ReachedStays DEF OrderInv

LEMMA SaveOrder == ASSUME Inv, OrderInv, SaveStep PROVE OrderInv'
<1>1. pc = "save" /\ pc' \in After /\ UNCHANGED <<config, weights, loader>>
    BY DEF SaveStep, runVars, After
<1>2. InOrder(weights) /\ Reached(loader, weights)
    BY <1>1 DEF OrderInv, After
<1>3. InOrder(weights)' /\ Reached(loader, weights)'
    BY <1>1, <1>2, InOrderStays, ReachedStays
<1>4. (stepDirs # EmptyDir =>
          /\ InOrder(stepDirs[LatestStep]["policy"])
          /\ Reached(stepDirs[LatestStep]["train_dataloader.pt"], stepDirs[LatestStep]["policy"]))'
    <2>1. CASE SavePolicy(weights) \/ SaveDataloader(loader)
        BY <1>1, <2>1, WriteKeepsSaved, OrderOnDiskStays
    <2>2. CASE FinalizeNew
        <3>1. LatestStep' = saveStep /\ stepDirs'[saveStep] = tmpDirs[saveStep]
            BY <2>2, FinalizeIsLatest
        <3>2. savePc = "finalize"
            BY <2>2 DEF FinalizeNew
        <3>3. tmpDirs[saveStep]["policy"] = weights /\ tmpDirs[saveStep]["train_dataloader.pt"] = loader
            BY <3>2 DEF Inv, WrittenInv, Writing
        <3>4. /\ stepDirs'[LatestStep']["policy"] = weights
              /\ stepDirs'[LatestStep']["train_dataloader.pt"] = loader
            BY <3>1, <3>3
        <3> QED
            BY <1>1, <1>2, <3>4 DEF InOrder, Reached, Rollout
    <2>3. CASE savePc \in Pruning
        <3>1. /\ stepDirs # EmptyDir
              /\ LatestStep' = LatestStep /\ stepDirs'[LatestStep] = stepDirs[LatestStep]
            BY <2>3, PruneKeepsLatest
        <3> DEFINE dir == stepDirs[LatestStep]
        <3>2. InOrder(dir["policy"]) /\ Reached(dir["train_dataloader.pt"], dir["policy"])
            BY <3>1 DEF OrderInv
        <3>3. stepDirs'[LatestStep'] = dir
            BY <3>1
        <3> HIDE DEF dir
        <3> QED
            BY <1>1, <3>2, <3>3 DEF InOrder, Reached, Rollout
    <2> QED
        BY <2>1, <2>2, <2>3, SaveStepCases
<1> QED
    BY <1>1, <1>3, <1>4 DEF OrderInv, After

\* A restart takes the order from the disk.
LEMMA SetupOrder == ASSUME Inv, OrderInv, Setup PROVE OrderInv'
<1>1. pc = "setup" /\ pc' = "epoch" /\ UNCHANGED <<stepDirs, config>>
    BY DEF Setup, checkpointVars
<1>2. CASE stepDirs = EmptyDir
    <2>1. loader' = [pass |-> 1, yielded |-> 0] /\ weights' = <<>>
        BY <1>1, <1>2 DEF Setup, Inv, ProgressInv, FreshRun
    <2>2. Drawn(loader') = 0
        BY <2>1, TrainingAssumption DEF Drawn
    <2>3. config.num_updates \in Nat
        BY ConfigIs
    <2>4. InOrder(weights)' /\ Reached(loader, weights)'
        BY <1>1, <2>1, <2>2, <2>3 DEF InOrder, Reached, Drawn
    <2> QED
        BY <1>1, <2>4, OrderOnDiskStays DEF OrderInv
<1>3. CASE stepDirs # EmptyDir
    <2>1. /\ weights' = stepDirs[LatestStep]["policy"]
          /\ loader' = stepDirs[LatestStep]["train_dataloader.pt"]
        BY <1>3 DEF Setup
    <2>2. InOrder(weights') /\ Reached(loader', weights')
        BY <1>3, <2>1 DEF OrderInv
    <2>3. InOrder(weights)' /\ Reached(loader, weights)'
        BY <1>1, <2>2 DEF InOrder, Reached, Drawn, Rollout
    <2> QED
        BY <1>1, <2>3, OrderOnDiskStays DEF OrderInv
<1> QED
    BY <1>2, <1>3

LEMMA RestartOrder == ASSUME OrderInv, Restart PROVE OrderInv'
<1>1. pc' = "setup" /\ weights' = <<>> /\ UNCHANGED <<stepDirs, config>>
    BY DEF Restart, LoseSave, diskVars
<1>2. InOrder(weights)'
    BY <1>1 DEF InOrder
<1> QED
    BY <1>1, <1>2, OrderOnDiskStays DEF OrderInv, Before, After

LEMMA StepOrder == ASSUME Inv, PeriodInv, OrderInv, [Next]_vars PROVE OrderInv'
<1>1. CASE Stopped \/ UNCHANGED vars
    <2>1. UNCHANGED <<stepDirs, weights, config, loader, pc>>
        BY <1>1 DEF Stopped, vars, checkpointVars, runVars
    <2>2. InOrder(weights)'
        BY <2>1, InOrderStays
    <2>3. Beyond(loader, weights) => Beyond(loader, weights)'
        BY <2>1 DEF Beyond
    <2> QED
        BY <2>1, <2>2, <2>3, OrderOnDiskStays, ReachedStays DEF OrderInv
<1> QED
    BY <1>1, DrawOrder, EndEpochOrder, QuietOrder, SaveOrder, SetupOrder, RestartOrder, TrainOrder
    DEF Next, RunStep

LEMMA AlwaysOrder == Spec => []OrderInv
<1>1. Init => OrderInv
    BY InitOrder
<1>2. Inv /\ PeriodInv /\ OrderInv /\ [Next]_vars => OrderInv'
    BY StepOrder
<1> QED
    BY <1>1, <1>2, AlwaysInv, AlwaysPeriods, PTL DEF Spec

\* Whatever crashes there were, each batch was trained on once, in the order of
\* the data, none skipped and none repeated; with dynamic sampling none twice and
\* none too early.
THEOREM DataIsTrainedInOrder == Spec => []TrainedInOrder
<1>1. OrderInv => TrainedInOrder
    BY DEF OrderInv, InOrder, TrainedInOrder
<1> QED
    BY <1>1, AlwaysOrder, PTL

-----------------------------------------------------------------------------
(* The end of a job. *)

AllSaved == SavedUpTo = Len(weights)
AtLastBatch == currentEpoch + 1 = MaxNumEpochs /\ loader.yielded = BatchesPerEpoch

\* No epoch and no step begins beyond the limits, and what comes last is saved
\* before the loop comes to its end.
EndInv ==
    ~config.dynamic_sampling =>
        /\ pc \in {"batch", "train"} \cup After => currentEpoch < MaxNumEpochs
        /\ pc \in {"batch", "train"} => ~StepLimit(totalSteps)
        /\ pc = "epoch" /\ (StepLimit(totalSteps) \/ currentEpoch >= MaxNumEpochs \/ AtLastBatch) => AllSaved
        /\ pc = "batch" /\ AtLastBatch => AllSaved
        /\ pc = "advance" /\ (timedOut \/ StepLimit(totalSteps + 1) \/ AtLastBatch) => AllSaved
        /\ pc = "ended" => AllSaved

LEMMA InitEnd == ASSUME Init PROVE EndInv
BY DEF Init, EndInv, After

LEMMA SetupEnd == ASSUME Inv, EndInv, Setup PROVE EndInv'
<1>1. pc' = "epoch" /\ AllSaved'
    BY SetupTakesSaved DEF Setup, AllSaved
<1> QED
    BY <1>1 DEF EndInv, After

LEMMA StartEpochEnd == ASSUME Inv, EndInv, StartEpoch PROVE EndInv'
<1>1. /\ pc = "epoch"
      /\ pc' = IF currentEpoch < MaxNumEpochs /\ ~StepLimit(totalSteps) THEN "batch" ELSE "ended"
      /\ UNCHANGED <<weights, config, currentEpoch, totalSteps, loader>>
    BY DEF StartEpoch
<1>2. AllSaved => AllSaved'
    BY LoopKeepsSaved DEF AllSaved
<1>3. currentEpoch \in Nat /\ MaxNumEpochs \in Nat
    BY TrainingAssumption DEF Inv, TypeInv
<1> QED
    BY <1>1, <1>2, <1>3 DEF EndInv, StepLimit, AtLastBatch, After

LEMMA DrawEnd ==
    ASSUME Inv, EndInv, DrawBatch \/ \E informative \in 0..PromptsPerBatch : SampleBatch(informative)
    PROVE  EndInv'
<1>1. /\ pc = "batch" /\ ~config.dynamic_sampling => pc' = "train"
      /\ UNCHANGED <<config, currentEpoch, totalSteps>>
    BY DEF DrawBatch, SampleBatch
<1> QED
    BY <1>1 DEF EndInv, StepLimit, DrawBatch, SampleBatch

LEMMA EndEpochEnd == ASSUME Inv, EndInv, EndEpoch PROVE EndInv'
<1>1. /\ pc = "batch" /\ pc' = "epoch" /\ loader.yielded = BatchesPerEpoch
      /\ loader'.yielded = 0 /\ currentEpoch' = currentEpoch + 1
      /\ UNCHANGED <<config, totalSteps>>
    BY DEF EndEpoch
<1>2. AllSaved => AllSaved'
    BY LoopKeepsSaved DEF AllSaved
<1>3. currentEpoch \in Nat /\ MaxNumEpochs \in Nat /\ BatchesPerEpoch # 0
    BY TrainingAssumption DEF Inv, TypeInv
<1> QED
    BY <1>1, <1>2, <1>3 DEF EndInv, StepLimit, AtLastBatch, After

LEMMA TrainEnd == ASSUME Inv, EndInv, Train PROVE EndInv'
<1>1. pc = "train" /\ pc' = "checkpoint" /\ UNCHANGED <<config, currentEpoch>>
    BY DEF Train
<1> QED
    BY <1>1 DEF EndInv, After

\* The last step, and one that has no time left, is saved.
LEMMA DecideEnd ==
    ASSUME Inv, EndInv, NEW timeout \in BOOLEAN, DecideSave(timeout)
    PROVE  EndInv'
<1>1. /\ pc = "checkpoint" /\ pc' \in {"save", "advance"} /\ timedOut' = timeout
      /\ UNCHANGED <<config, currentEpoch, currentStep, totalSteps, loader>>
    BY DEF DecideSave
<1>2. pc' = "advance" => ~timeout /\ ~IsLastStep
    BY DEF DecideSave, SavesByStep
<1>3. ~config.dynamic_sampling => currentStep + 1 = loader.yielded
    BY <1>1 DEF Inv, ProgressInv, After
<1> QED
    BY <1>1, <1>2, <1>3 DEF EndInv, StepLimit, AtLastBatch, After, IsLastStep

LEMMA SaveEnd == ASSUME Inv, EndInv, SaveStep PROVE EndInv'
<1>1. /\ pc = "save" /\ pc' \in {"save", "advance"} /\ UNCHANGED <<weights, config, currentEpoch>>
      /\ pc' = "advance" => savePc' = "idle"
    BY DEF SaveStep, runVars
<1>2. pc' = "advance" => AllSaved'
    <2> SUFFICES ASSUME pc' = "advance" PROVE AllSaved'
        OBVIOUS
    <2>1. savePc \in Pruning
        BY <1>1, SaveStepCases, WriteKeepsSaved DEF FinalizeNew, RenameTmpToStep, Writing
    <2>2. SavedUpTo' = SavedUpTo /\ SavedUpTo = Len(weights)
        BY <2>1, PruneKeepsSaved, PruningIsSaved
    <2> QED
        BY <1>1, <2>2 DEF AllSaved
<1> QED
    BY <1>1, <1>2 DEF EndInv, After

LEMMA AdvanceEnd == ASSUME Inv, EndInv, Advance PROVE EndInv'
<1>1. /\ pc = "advance" /\ totalSteps' = totalSteps + 1
      /\ pc' = IF timedOut \/ StepLimit(totalSteps + 1) THEN "ended" ELSE "batch"
      /\ UNCHANGED <<config, currentEpoch, loader>>
    BY DEF Advance, StepLimit
<1>2. AllSaved => AllSaved'
    BY LoopKeepsSaved DEF AllSaved
<1> QED
    BY <1>1, <1>2 DEF EndInv, StepLimit, AtLastBatch, After

LEMMA StepEnd == ASSUME Inv, EndInv, [Next]_vars PROVE EndInv'
<1>1. CASE Stopped \/ UNCHANGED vars
    <2>1. UNCHANGED <<stepDirs, weights, config, loader, pc, currentEpoch, totalSteps, timedOut>>
        BY <1>1 DEF Stopped, vars, checkpointVars, runVars
    <2>2. AllSaved => AllSaved'
        BY <2>1, SavedStays DEF AllSaved
    <2> QED
        BY <2>1, <2>2 DEF EndInv, StepLimit, AtLastBatch
<1>2. CASE Restart
    BY <1>2 DEF Restart, EndInv, After
<1> QED
    BY <1>1, <1>2, SetupEnd, StartEpochEnd, DrawEnd, EndEpochEnd, TrainEnd, DecideEnd, SaveEnd, AdvanceEnd
    DEF Next, RunStep

\* A job that has ended of itself has its last weights in a checkpoint.
THEOREM EndIsAlwaysSaved == Spec => []EndIsSaved
<1>1. Init => EndInv
    BY InitEnd
<1>2. Inv /\ EndInv /\ [Next]_vars => EndInv'
    BY StepEnd
<1>3. EndInv => EndIsSaved
    BY DEF EndInv, AllSaved, EndIsSaved
<1> QED
    BY <1>1, <1>2, <1>3, AlwaysInv, PTL DEF Spec
==============================================================================
