--------------------------- MODULE CheckpointClient ---------------------------
(***************************************************************************)
(* A program that uses CheckpointManager as its interface allows: it saves *)
(* any step, again if it likes, and its process may end at any moment and  *)
(* be started again over the same directory.  The trainers only ever save  *)
(* new, higher steps (TrainingRun); overwriting is for other callers.      *)
(***************************************************************************)
EXTENDS CheckpointManager

CONSTANTS
    Steps,      \* the steps that are saved
    Metrics,    \* the values of the metric
    MaxSaves    \* bound: saves that are started

ASSUME ClientAssumption == Steps \subseteq Nat

VARIABLES
    metricAt,   \* the metric of each step, if it has one: saving a step again
                \* finds the same
    saves,      \* saves started; numbers what they write
    finished    \* step -> the number of the last save that put step_N in place

clientVars == <<checkpointVars, metricAt, saves, finished>>

Info(n) == [save |-> saves + 1, metric |-> metricAt[n]]

Init ==
    /\ CheckpointInit
    /\ metricAt \in [Steps -> {{}} \cup {{v} : v \in Metrics}]
    /\ saves = 0
    /\ finished = EmptyDir

StartSave ==
    /\ saves < MaxSaves
    /\ \E n \in Steps : InitTmpCheckpoint(n, Info(n))
    /\ saves' = saves + 1
    /\ UNCHANGED <<metricAt, finished>>

WriteFiles ==
    /\ SavePolicy(saves) \/ SaveDataloader(saves)
    /\ UNCHANGED <<metricAt, saves, finished>>

Finalize ==
    /\ PutInPlace
    /\ finished' = Put(finished, saveStep, saves)
    /\ UNCHANGED <<metricAt, saves>>

Replace ==
    /\ RenameStepToOld \/ OverwriteRaises
    /\ UNCHANGED <<metricAt, saves, finished>>

Clean ==
    /\ RemoveStep
    /\ UNCHANGED <<metricAt, saves, finished>>

Crash ==
    /\ savePc # "idle"
    /\ LoseSave
    /\ UNCHANGED <<metricAt, saves, finished>>

\* The program need not save again.
Rest == savePc = "idle" /\ UNCHANGED clientVars

Next == StartSave \/ WriteFiles \/ Finalize \/ Replace \/ Clean \/ Crash \/ Rest

Spec == Init /\ [][Next]_clientVars

-----------------------------------------------------------------------------
(* Properties. *)

\* A directory with every file of one save in it.
Whole(dir, save) ==
    /\ DOMAIN dir = Files
    /\ dir["training_info.json"].save = save
    /\ dir["policy"] = save
    /\ dir["train_dataloader.pt"] = save

\* The last finished save of step n is on disk, if only as old_step_n.
Survives(n) ==
    \/ n \in DOMAIN stepDirs /\ Whole(stepDirs[n], finished[n])
    \/ n \in DOMAIN oldDirs /\ Whole(oldDirs[n], finished[n])

Finished == {[step |-> n, metric |-> metricAt[n]] : n \in DOMAIN finished}

\* The keep_top_k best of all the checkpoints that were ever finished are on
\* disk in one piece, at every moment of every later save or removal and after
\* any crash (remove_old_checkpoints, finalize_checkpoint).
TopKSurvive ==
    \A c \in Finished :
        Cardinality({d \in Finished : Precedes(d, c)}) < KeepTopK => Survives(c.step)

\* So is the latest one, whatever its metric.
LatestSurvives ==
    \A n \in DOMAIN finished : (\A m \in DOMAIN finished : m <= n) => Survives(n)

\* No step_N ever mixes the files of two saves, although a save may write into
\* the leftover directory of an earlier one (init_tmp_checkpoint): what is in
\* step_N is of the last save of N that was finished.
NoMixedCheckpoint ==
    \A n \in DOMAIN stepDirs :
        /\ "training_info.json" \in DOMAIN stepDirs[n]
              => stepDirs[n]["training_info.json"].save = finished[n]
        /\ \A file \in DOMAIN stepDirs[n] \ {"training_info.json"} :
              stepDirs[n][file] = finished[n]
=============================================================================
