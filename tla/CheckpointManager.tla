-------------------------- MODULE CheckpointManager --------------------------
(***************************************************************************)
(* nemo_rl/utils/checkpoint.py: the directories of a training run on disk  *)
(* and the file operations that fill, replace and remove them.             *)
(*                                                                         *)
(* A directory is a function from the names of the files it holds to what  *)
(* was written in them; the three families of directories, tmp_step_N,     *)
(* step_N and old_step_N, are functions from the N that exist to their     *)
(* directories.  Each action is one operation of the file system, so that  *)
(* a crash can fall between any two; only shutil.rmtree, which removes the *)
(* files of a directory in an order of its own, is one action per file.    *)
(* What the files hold is the business of the modules that extend this     *)
(* one, except for the metric in training_info.json.                       *)
(***************************************************************************)
EXTENDS Integers, FiniteSets, Functions

CONSTANTS
    KeepTopK,        \* checkpointing.keep_top_k
    KeepAll,         \* keep_top_k is None: nothing is ever removed
    UseMetric,       \* checkpointing.metric_name is not None
    HigherIsBetter   \* checkpointing.higher_is_better

ASSUME CheckpointAssumption ==
    /\ KeepTopK \in Nat
    /\ KeepAll \in BOOLEAN
    /\ UseMetric \in BOOLEAN
    /\ HigherIsBetter \in BOOLEAN

VARIABLES
    tmpDirs,     \* tmp_step_N: checkpoints being written, and leftovers
    stepDirs,    \* step_N: the checkpoints
    oldDirs,     \* old_step_N: checkpoints being replaced, and leftovers
    savePc,      \* the point that a save has reached; "idle" outside saves
    saveStep,    \* the step it saves
    doomed       \* the checkpoints that remove_old_checkpoints has yet to remove

diskVars == <<tmpDirs, stepDirs, oldDirs>>
checkpointVars == <<tmpDirs, stepDirs, oldDirs, savePc, saveStep, doomed>>

Files == {"training_info.json", "policy", "train_dataloader.pt"}

EmptyDir == [file \in {} |-> {}]

CheckpointInit ==
    /\ tmpDirs = EmptyDir
    /\ stepDirs = EmptyDir
    /\ oldDirs = EmptyDir
    /\ savePc = "idle"
    /\ saveStep = 0
    /\ doomed = {}

-----------------------------------------------------------------------------
(* What a reader of the directory finds. *)

\* Wrong: the first one.
EarliestStep == CHOOSE n \in DOMAIN stepDirs : \A m \in DOMAIN stepDirs : m >= n

\* step_N names every N: the number decides, whatever the directory holds.
LatestStep == CHOOSE n \in DOMAIN stepDirs : \A m \in DOMAIN stepDirs : m <= n

\* Directories without training_info.json are not part of the history.
HistorySteps == {n \in DOMAIN stepDirs : "training_info.json" \in DOMAIN stepDirs[n]}

\* A metric is the set of its one value, or {} when the info has no such key.
MetricOf(n) == stepDirs[n]["training_info.json"].metric

History == {[step |-> n, metric |-> MetricOf(n)] : n \in HistorySteps}

\* A missing metric is minus or plus infinity, whichever is the worse.
Beats(x, y) ==
    \E v \in x : \A w \in y : IF HigherIsBetter THEN v > w ELSE v < w

\* The order of the sort in remove_old_checkpoints.
Precedes(c, d) ==
    \/ UseMetric /\ Beats(c.metric, d.metric)
    \/ (UseMetric => ~Beats(d.metric, c.metric)) /\ c.step > d.step

\* Wrong: the latest checkpoint is removed like any other.
OutsideTopKOrLatest ==
    {c \in History : Cardinality({d \in History : Precedes(d, c)}) >= KeepTopK}

\* Wrong: one checkpoint fewer is kept.
OutsideTopKLessOne ==
    {c \in History :
        /\ Cardinality({d \in History : Precedes(d, c)}) >= KeepTopK - 1
        /\ \E d \in History : d.step > c.step}

\* The part of the sorted history after its first keep_top_k, without the
\* latest checkpoint.
OutsideTopK ==
    {c \in History :
        /\ Cardinality({d \in History : Precedes(d, c)}) >= KeepTopK
        /\ \E d \in History : d.step > c.step}

-----------------------------------------------------------------------------
(* Saving. *)

Put(dir, name, contents) ==
    [x \in DOMAIN dir \cup {name} |-> IF x = name THEN contents ELSE dir[x]]

Remove(dir, name) == Restrict(dir, DOMAIN dir \ {name})

\* init_tmp_checkpoint.  The directory may be a leftover: its other files stay
\* until they are written again.
InitTmpCheckpoint(n, info) ==
    /\ savePc = "idle"
    /\ savePc' = "policy"
    /\ saveStep' = n
    /\ LET leftover == IF n \in DOMAIN tmpDirs THEN tmpDirs[n] ELSE EmptyDir
       IN  tmpDirs' = Put(tmpDirs, n, Put(leftover, "training_info.json", info))
    /\ UNCHANGED <<stepDirs, oldDirs, doomed>>

\* The files that the training loop itself puts in the directory.
WriteFile(pc, file, contents, next) ==
    /\ savePc = pc
    /\ savePc' = next
    /\ tmpDirs' = [tmpDirs EXCEPT ![saveStep] = Put(@, file, contents)]
    /\ UNCHANGED <<stepDirs, oldDirs, saveStep, doomed>>

\* Wrong: a policy that the leftover directory already has is not written again.
SavePolicyUnlessThere(weights) ==
    WriteFile("policy", "policy",
              IF "policy" \in DOMAIN tmpDirs[saveStep] THEN tmpDirs[saveStep]["policy"] ELSE weights,
              "train_dataloader")

SavePolicy(weights) == WriteFile("policy", "policy", weights, "train_dataloader")

SaveDataloader(state) ==
    WriteFile("train_dataloader", "train_dataloader.pt", state, "finalize")

RenameTmpToStep(next) ==
    /\ stepDirs' = Put(stepDirs, saveStep, tmpDirs[saveStep])
    /\ tmpDirs' = Remove(tmpDirs, saveStep)
    /\ savePc' = next

\* finalize_checkpoint, for a step that has no checkpoint yet ...
FinalizeNew ==
    /\ savePc = "finalize"
    /\ saveStep \notin DOMAIN stepDirs
    /\ RenameTmpToStep("remove_old")
    /\ UNCHANGED <<oldDirs, saveStep, doomed>>

\* ... and for one that has: the old checkpoint steps aside, the new one takes
\* its place, the old one is removed.  A directory can be renamed to an
\* existing one only if that is empty.
OldNameIsFree == saveStep \in DOMAIN oldDirs => DOMAIN oldDirs[saveStep] = {}

\* Wrong: the old checkpoint is deleted before the new one takes its place.
DeleteStepFirst ==
    /\ savePc = "finalize"
    /\ saveStep \in DOMAIN stepDirs
    /\ stepDirs' = Remove(stepDirs, saveStep)
    /\ savePc' = "rename_tmp"
    /\ UNCHANGED <<tmpDirs, oldDirs, saveStep, doomed>>

RenameStepToOld ==
    /\ savePc = "finalize"
    /\ saveStep \in DOMAIN stepDirs
    /\ OldNameIsFree
    /\ oldDirs' = Put(oldDirs, saveStep, stepDirs[saveStep])
    /\ stepDirs' = Remove(stepDirs, saveStep)
    /\ savePc' = "rename_tmp"
    /\ UNCHANGED <<tmpDirs, saveStep, doomed>>

\* The rename raises: step_N stays, and so does tmp_step_N.
OverwriteRaises ==
    /\ savePc = "finalize"
    /\ saveStep \in DOMAIN stepDirs
    /\ ~OldNameIsFree
    /\ savePc' = "idle"
    /\ UNCHANGED <<diskVars, saveStep, doomed>>

RenameTmpOverStep ==
    /\ savePc = "rename_tmp"
    /\ RenameTmpToStep("remove_replaced")
    /\ UNCHANGED <<oldDirs, saveStep, doomed>>

\* shutil.rmtree(old_step_N).
RemoveReplaced ==
    /\ savePc = "remove_replaced"
    /\ \/ \E file \in DOMAIN oldDirs[saveStep] :
              /\ oldDirs' = [oldDirs EXCEPT ![saveStep] = Remove(@, file)]
              /\ UNCHANGED savePc
       \/ /\ DOMAIN oldDirs[saveStep] = {}
          /\ oldDirs' = Remove(oldDirs, saveStep)
          /\ savePc' = "remove_old"
    /\ UNCHANGED <<tmpDirs, stepDirs, saveStep, doomed>>

\* remove_old_checkpoints: what goes is decided once ...
ChooseDoomed ==
    /\ savePc = "remove_old"
    /\ doomed' = IF KeepAll THEN {} ELSE OutsideTopK
    /\ savePc' = "removing"
    /\ UNCHANGED <<diskVars, saveStep>>

\* ... and removed in the order of the sort, shutil.rmtree(step_N) each.
RemoveDoomed ==
    /\ savePc = "removing"
    /\ \E c \in doomed :
          /\ \A d \in doomed \ {c} : Precedes(c, d)
          /\ \/ \E file \in DOMAIN stepDirs[c.step] :
                    /\ stepDirs' = [stepDirs EXCEPT ![c.step] = Remove(@, file)]
                    /\ UNCHANGED doomed
             \/ /\ DOMAIN stepDirs[c.step] = {}
                /\ stepDirs' = Remove(stepDirs, c.step)
                /\ doomed' = doomed \ {c}
    /\ UNCHANGED <<tmpDirs, oldDirs, savePc, saveStep>>

SaveDone ==
    /\ savePc = "removing"
    /\ doomed = {}
    /\ savePc' = "idle"
    /\ UNCHANGED <<diskVars, saveStep, doomed>>

\* The two steps that put step_N in place, and the others.
PutInPlace == FinalizeNew \/ RenameTmpOverStep

RemoveStep ==
    \/ RemoveReplaced
    \/ ChooseDoomed
    \/ RemoveDoomed
    \/ SaveDone

\* The process ends in the middle of whatever it was doing; the disk stays.
LoseSave ==
    /\ savePc' = "idle"
    /\ saveStep' = 0
    /\ doomed' = {}
    /\ UNCHANGED diskVars
=============================================================================
