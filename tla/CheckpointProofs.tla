--------------------------- MODULE CheckpointProofs ---------------------------
(***************************************************************************)
(* Whatever is saved, again and again, and wherever the process is killed: *)
(* the checkpoints that matter survive, and none is a mixture of two saves.*)
(*                                                                         *)
(* The argument: a directory is only put in place when its three files are *)
(* of the current save (WrittenInv); a directory in place keeps the files  *)
(* of the last save that put it there, as long as it has them (PlacedInv); *)
(* what is removed is never a checkpoint to keep (DoomedInv), and a        *)
(* checkpoint that is no longer kept is never one to keep again, since     *)
(* more and more saves are finished.                                       *)
(***************************************************************************)
EXTENDS CheckpointClient, FiniteSetTheorems, TLAPS

\* The checkpoints to keep: the latest, and the best keep_top_k, of all that
\* were ever finished.
Kept(n) ==
    /\ n \in DOMAIN finished
    /\ \/ \A m \in DOMAIN finished : m <= n
       \/ Cardinality({d \in Finished : Precedes(d, [step |-> n, metric |-> metricAt[n]])}) < KeepTopK

SavingPcs == {"policy", "train_dataloader", "finalize", "rename_tmp"}

StepsInv ==
    /\ DOMAIN metricAt = Steps
    /\ savePc \in SavingPcs => saveStep \in Steps
    /\ DOMAIN stepDirs \subseteq DOMAIN finished
    /\ DOMAIN finished \subseteq Steps
    /\ IsFiniteSet(Finished)

\* A save has written what it has written itself, also into a leftover.
WrittenInv ==
    savePc \in SavingPcs =>
        LET dir == tmpDirs[saveStep]
        IN  /\ saveStep \in DOMAIN tmpDirs
            /\ "training_info.json" \in DOMAIN dir
            /\ dir["training_info.json"].save = saves
            /\ dir["training_info.json"].metric = metricAt[saveStep]
            /\ savePc # "policy" => "policy" \in DOMAIN dir /\ dir["policy"] = saves
            /\ savePc \in {"finalize", "rename_tmp"} => Whole(dir, saves)

LeftoverInv == \A n \in DOMAIN tmpDirs : DOMAIN tmpDirs[n] \subseteq Files

PlacedInv ==
    /\ \A n \in DOMAIN stepDirs :
          "training_info.json" \in DOMAIN stepDirs[n]
              => stepDirs[n]["training_info.json"].metric = metricAt[n]
    /\ savePc = "remove_replaced" => saveStep \in DOMAIN stepDirs

DoomedInv == \A c \in doomed : c.step \in DOMAIN finished /\ ~Kept(c.step)

KeptInv ==
    \A n \in DOMAIN finished : Kept(n) =>
        IF n \in DOMAIN stepDirs
        THEN Whole(stepDirs[n], finished[n])
        ELSE n \in DOMAIN oldDirs /\ Whole(oldDirs[n], finished[n])

Inv ==
    /\ StepsInv
    /\ WrittenInv
    /\ LeftoverInv
    /\ PlacedInv
    /\ DoomedInv
    /\ KeptInv
    /\ NoMixedCheckpoint

-----------------------------------------------------------------------------
(* What is kept. *)

Record(n) == [step |-> n, metric |-> metricAt[n]]

\* The more saves are finished, the fewer of the old ones are kept.
LEMMA KeptShrinks ==
    ASSUME IsFiniteSet(Finished), IsFiniteSet(Finished'),
           DOMAIN finished \subseteq DOMAIN finished', metricAt' = metricAt,
           NEW n \in DOMAIN finished, Kept(n)'
    PROVE  Kept(n)
<1> DEFINE Before(F) == {d \in F : Precedes(d, Record(n))}
<1>1. CASE \A m \in DOMAIN finished' : m <= n
    BY <1>1 DEF Kept
<1>2. CASE Cardinality(Before(Finished')) < KeepTopK
    <2>1. Finished \subseteq Finished'
        BY DEF Finished
    <2>2. Before(Finished) \subseteq Before(Finished')
        BY <2>1
    <2>3. IsFiniteSet(Before(Finished')) /\ IsFiniteSet(Before(Finished))
        BY FS_Subset
    <2>4. Cardinality(Before(Finished)) <= Cardinality(Before(Finished'))
        BY <2>2, <2>3, FS_Subset
    <2>5. Cardinality(Before(Finished)) \in Nat /\ Cardinality(Before(Finished')) \in Nat
        BY <2>3, FS_CardinalityType
    <2>6. KeepTopK \in Nat
        BY CheckpointAssumption
    <2>7. Cardinality(Before(Finished)) < KeepTopK
        BY <1>2, <2>4, <2>5, <2>6
    <2> QED
        BY <2>7 DEF Kept, Record
<1> QED
    BY <1>1, <1>2 DEF Kept, Record

\* As long as no save is finished the same checkpoints are kept.
LEMMA KeptStays ==
    ASSUME UNCHANGED <<metricAt, finished>>
    PROVE  /\ \A n : Kept(n)' <=> Kept(n)
           /\ Finished' = Finished
BY DEF Kept, Finished

-----------------------------------------------------------------------------
(* The invariant. *)

LEMMA InitInv == ASSUME Init PROVE Inv
<1> USE DEF Init, CheckpointInit, EmptyDir
<1>1. finished = EmptyDir /\ DOMAIN finished = {} /\ DOMAIN stepDirs = {} /\ DOMAIN tmpDirs = {}
    OBVIOUS
<1>2. DOMAIN metricAt = Steps
    OBVIOUS
<1>3. Finished = {}
    BY <1>1 DEF Finished
<1>4. IsFiniteSet(Finished)
    BY <1>3, FS_EmptySet
<1>5. StepsInv
    BY <1>1, <1>2, <1>4 DEF StepsInv, SavingPcs
<1>6. WrittenInv
    BY DEF WrittenInv, SavingPcs
<1>7. LeftoverInv /\ NoMixedCheckpoint /\ KeptInv
    BY <1>1 DEF LeftoverInv, NoMixedCheckpoint, KeptInv
<1>8. PlacedInv /\ DoomedInv
    BY <1>1 DEF PlacedInv, DoomedInv
<1> QED
    BY <1>5, <1>6, <1>7, <1>8 DEF Inv

\* init_tmp_checkpoint, whether it finds a leftover or not.
LEMMA StartSaveInv == ASSUME Inv, StartSave PROVE Inv'
<1> PICK n \in Steps : InitTmpCheckpoint(n, Info(n))
    BY DEF StartSave
<1> DEFINE leftover == IF n \in DOMAIN tmpDirs THEN tmpDirs[n] ELSE EmptyDir
           dir == Put(leftover, "training_info.json", Info(n))
<1>1. /\ tmpDirs' = Put(tmpDirs, n, dir)
      /\ savePc' = "policy" /\ saveStep' = n /\ saves' = saves + 1
      /\ UNCHANGED <<stepDirs, oldDirs, doomed, metricAt, finished>>
    BY DEF InitTmpCheckpoint, StartSave
<1>2. Finished' = Finished /\ \A k : Kept(k)' <=> Kept(k)
    BY <1>1, KeptStays
<1>3. /\ DOMAIN dir = DOMAIN leftover \cup {"training_info.json"}
      /\ dir["training_info.json"] = Info(n)
    BY DEF Put
<1>4. /\ DOMAIN tmpDirs' = DOMAIN tmpDirs \cup {n}
      /\ tmpDirs'[n] = dir
      /\ \A k \in DOMAIN tmpDirs : k # n => tmpDirs'[k] = tmpDirs[k]
    BY <1>1 DEF Put
<1>5. StepsInv'
    BY <1>1, <1>2 DEF Inv, StepsInv
<1>6. WrittenInv'
    BY <1>1, <1>3, <1>4 DEF WrittenInv, Info
<1>7. LeftoverInv'
    <2>1. DOMAIN leftover \subseteq Files
        BY DEF Inv, LeftoverInv, EmptyDir
    <2> QED
        BY <2>1, <1>3, <1>4 DEF Inv, LeftoverInv, Files
<1>8. PlacedInv' /\ NoMixedCheckpoint'
    BY <1>1 DEF Inv, PlacedInv, NoMixedCheckpoint
<1>9. DoomedInv' /\ KeptInv'
    BY <1>1, <1>2 DEF Inv, DoomedInv, KeptInv, Whole
<1> QED
    BY <1>5, <1>6, <1>7, <1>8, <1>9 DEF Inv

\* The policy and the data loader's state.
LEMMA WriteFilesInv == ASSUME Inv, WriteFiles PROVE Inv'
<1> PICK file \in {"policy", "train_dataloader.pt"}, pc \in {"policy", "train_dataloader"},
         next \in {"train_dataloader", "finalize"} :
            /\ WriteFile(pc, file, saves, next)
            /\ pc = "policy" => file = "policy" /\ next = "train_dataloader"
            /\ pc = "train_dataloader" => file = "train_dataloader.pt" /\ next = "finalize"
    BY DEF WriteFiles, SavePolicy, SaveDataloader
<1>1. /\ savePc = pc /\ savePc' = next
      /\ tmpDirs' = [tmpDirs EXCEPT ![saveStep] = Put(tmpDirs[saveStep], file, saves)]
      /\ UNCHANGED <<stepDirs, oldDirs, saveStep, doomed, metricAt, saves, finished>>
    BY DEF WriteFile, WriteFiles
<1>2. Finished' = Finished /\ \A k : Kept(k)' <=> Kept(k)
    BY <1>1, KeptStays
<1>3. saveStep \in DOMAIN tmpDirs /\ DOMAIN tmpDirs' = DOMAIN tmpDirs
    BY <1>1 DEF Inv, WrittenInv, SavingPcs
<1>4. /\ DOMAIN tmpDirs'[saveStep] = DOMAIN tmpDirs[saveStep] \cup {file}
      /\ tmpDirs'[saveStep][file] = saves
      /\ \A x \in DOMAIN tmpDirs[saveStep] : x # file => tmpDirs'[saveStep][x] = tmpDirs[saveStep][x]
      /\ \A k \in DOMAIN tmpDirs : k # saveStep => tmpDirs'[k] = tmpDirs[k]
    BY <1>1, <1>3 DEF Put
<1>5. StepsInv'
    BY <1>1, <1>2 DEF Inv, StepsInv, SavingPcs
<1>6. LeftoverInv'
    BY <1>3, <1>4 DEF Inv, LeftoverInv, Files
<1>7. WrittenInv'
    <2>1. CASE pc = "policy"
        BY <2>1, <1>1, <1>3, <1>4 DEF Inv, WrittenInv, SavingPcs
    <2>2. CASE pc = "train_dataloader"
        <3>1. /\ "training_info.json" \in DOMAIN tmpDirs[saveStep]
              /\ tmpDirs[saveStep]["training_info.json"].save = saves
              /\ tmpDirs[saveStep]["training_info.json"].metric = metricAt[saveStep]
              /\ "policy" \in DOMAIN tmpDirs[saveStep] /\ tmpDirs[saveStep]["policy"] = saves
            BY <2>2, <1>1 DEF Inv, WrittenInv, SavingPcs
        <3>2. DOMAIN tmpDirs'[saveStep] = Files
            BY <2>2, <3>1, <1>3, <1>4, <1>6 DEF LeftoverInv, Files
        <3> QED
            BY <2>2, <3>1, <3>2, <1>1, <1>3, <1>4 DEF WrittenInv, Whole
    <2> QED
        BY <2>1, <2>2
<1>8. PlacedInv' /\ NoMixedCheckpoint'
    BY <1>1 DEF Inv, PlacedInv, NoMixedCheckpoint
<1>9. DoomedInv' /\ KeptInv'
    BY <1>1, <1>2 DEF Inv, DoomedInv, KeptInv, Whole
<1> QED
    BY <1>5, <1>6, <1>7, <1>8, <1>9 DEF Inv

\* tmp_step_N becomes step_N; whatever was there had its files by then elsewhere.
LEMMA FinalizeInv == ASSUME Inv, Finalize PROVE Inv'
<1> DEFINE n == saveStep
<1>1. /\ savePc \in {"finalize", "rename_tmp"}
      /\ savePc' \in {"remove_old", "remove_replaced"}
      /\ stepDirs' = Put(stepDirs, n, tmpDirs[n])
      /\ tmpDirs' = Remove(tmpDirs, n)
      /\ finished' = Put(finished, n, saves)
      /\ UNCHANGED <<oldDirs, saveStep, doomed, metricAt, saves>>
    BY DEF Finalize, PutInPlace, FinalizeNew, RenameTmpOverStep, RenameTmpToStep
<1>2. /\ n \in Steps /\ Whole(tmpDirs[n], saves)
      /\ tmpDirs[n]["training_info.json"].metric = metricAt[n]
    BY <1>1 DEF Inv, StepsInv, WrittenInv, SavingPcs
<1>3. /\ DOMAIN stepDirs' = DOMAIN stepDirs \cup {n}
      /\ stepDirs'[n] = tmpDirs[n]
      /\ \A k \in DOMAIN stepDirs : k # n => stepDirs'[k] = stepDirs[k]
    BY <1>1 DEF Put
<1>4. /\ DOMAIN finished' = DOMAIN finished \cup {n}
      /\ finished'[n] = saves
      /\ \A k \in DOMAIN finished : k # n => finished'[k] = finished[k]
    BY <1>1 DEF Put
<1>5. /\ DOMAIN tmpDirs' = DOMAIN tmpDirs \ {n}
      /\ \A k \in DOMAIN tmpDirs' : tmpDirs'[k] = tmpDirs[k]
    BY <1>1 DEF Remove, Restrict
<1>6. IsFiniteSet(Finished')
    <2>1. Finished' = Finished \cup {Record(n)}
        BY <1>1, <1>4 DEF Finished, Record
    <2> QED
        BY <2>1, FS_AddElement DEF Inv, StepsInv
<1>7. \A k \in DOMAIN finished : Kept(k)' => Kept(k)
    BY <1>1, <1>4, <1>6, KeptShrinks DEF Inv, StepsInv
<1>8. StepsInv'
    BY <1>1, <1>2, <1>3, <1>4, <1>6 DEF Inv, StepsInv, SavingPcs
<1>9. WrittenInv'
    BY <1>1 DEF WrittenInv, SavingPcs
<1>10. LeftoverInv'
    BY <1>5 DEF Inv, LeftoverInv
<1>11. PlacedInv'
    BY <1>1, <1>2, <1>3 DEF Inv, PlacedInv
<1>12. DoomedInv'
    BY <1>1, <1>4, <1>7 DEF Inv, DoomedInv
<1>13. NoMixedCheckpoint'
    <2> SUFFICES ASSUME NEW k \in DOMAIN stepDirs'
                 PROVE  /\ "training_info.json" \in DOMAIN stepDirs'[k]
                              => stepDirs'[k]["training_info.json"].save = finished'[k]
                        /\ \A file \in DOMAIN stepDirs'[k] \ {"training_info.json"} :
                              stepDirs'[k][file] = finished'[k]
        BY DEF NoMixedCheckpoint
    <2>1. CASE k = n
        BY <2>1, <1>2, <1>3, <1>4 DEF Whole, Files
    <2>2. CASE k # n
        <3>1. k \in DOMAIN stepDirs /\ k \in DOMAIN finished
            BY <2>2, <1>3 DEF Inv, StepsInv
        <3> QED
            BY <3>1, <2>2, <1>3, <1>4 DEF Inv, NoMixedCheckpoint
    <2> QED
        BY <2>1, <2>2
<1>14. KeptInv'
    <2> SUFFICES ASSUME NEW k \in DOMAIN finished', Kept(k)'
                 PROVE  IF k \in DOMAIN stepDirs'
                        THEN Whole(stepDirs'[k], finished'[k])
                        ELSE k \in DOMAIN oldDirs' /\ Whole(oldDirs'[k], finished'[k])
        BY DEF KeptInv, Whole
    <2>1. CASE k = n
        BY <2>1, <1>2, <1>3, <1>4
    <2>2. CASE k # n
        <3>1. k \in DOMAIN finished /\ Kept(k)
            BY <2>2, <1>4, <1>7
        <3> QED
            BY <3>1, <2>2, <1>1, <1>3, <1>4 DEF Inv, KeptInv
    <2> QED
        BY <2>1, <2>2
<1> QED
    BY <1>8, <1>9, <1>10, <1>11, <1>12, <1>13, <1>14 DEF Inv

\* The old checkpoint steps aside in one piece, or stays.
LEMMA ReplaceInv == ASSUME Inv, Replace PROVE Inv'
<1>1. UNCHANGED <<tmpDirs, saveStep, doomed, metricAt, saves, finished>>
    BY DEF Replace, RenameStepToOld, OverwriteRaises, diskVars
<1>2. Finished' = Finished /\ \A k : Kept(k)' <=> Kept(k)
    BY <1>1, KeptStays
<1>3. LeftoverInv' /\ DoomedInv'
    BY <1>1, <1>2 DEF Inv, LeftoverInv, DoomedInv
<1>4. CASE OverwriteRaises
    <2>1. UNCHANGED <<stepDirs, oldDirs>> /\ savePc' = "idle"
        BY <1>4 DEF OverwriteRaises, diskVars
    <2>2. StepsInv' /\ WrittenInv' /\ PlacedInv' /\ NoMixedCheckpoint' /\ KeptInv'
        BY <2>1, <1>1, <1>2
           DEF Inv, StepsInv, WrittenInv, PlacedInv, NoMixedCheckpoint, KeptInv, SavingPcs, Whole
    <2> QED
        BY <2>2, <1>3 DEF Inv
<1>5. CASE RenameStepToOld
    <2>1. /\ savePc = "finalize" /\ savePc' = "rename_tmp" /\ saveStep \in DOMAIN stepDirs
          /\ stepDirs' = Remove(stepDirs, saveStep)
          /\ oldDirs' = Put(oldDirs, saveStep, stepDirs[saveStep])
        BY <1>5 DEF RenameStepToOld
    <2>2. /\ DOMAIN stepDirs' = DOMAIN stepDirs \ {saveStep}
          /\ \A k \in DOMAIN stepDirs' : stepDirs'[k] = stepDirs[k]
        BY <2>1 DEF Remove, Restrict
    <2>3. /\ DOMAIN oldDirs' = DOMAIN oldDirs \cup {saveStep}
          /\ oldDirs'[saveStep] = stepDirs[saveStep]
          /\ \A k \in DOMAIN oldDirs : k # saveStep => oldDirs'[k] = oldDirs[k]
        BY <2>1 DEF Put
    <2>4. StepsInv'
        BY <1>1, <1>2, <2>1, <2>2 DEF Inv, StepsInv, SavingPcs
    <2>5. WrittenInv'
        BY <1>1, <2>1 DEF Inv, WrittenInv, SavingPcs, Whole
    <2>6. PlacedInv' /\ NoMixedCheckpoint'
        BY <1>1, <2>1, <2>2 DEF Inv, PlacedInv, NoMixedCheckpoint
    <2>7. KeptInv'
        BY <1>1, <1>2, <2>1, <2>2, <2>3 DEF Inv, KeptInv, Whole
    <2> QED
        BY <1>3, <2>4, <2>5, <2>6, <2>7 DEF Inv
<1> QED
    BY <1>4, <1>5 DEF Replace

\* rmtree(old_step_N): by then step_N is there again.
LEMMA RemoveReplacedInv ==
    ASSUME Inv, RemoveReplaced, UNCHANGED <<metricAt, saves, finished>>
    PROVE  Inv'
<1>1. /\ savePc = "remove_replaced" /\ savePc' \in {"remove_replaced", "remove_old"}
      /\ UNCHANGED <<tmpDirs, stepDirs, saveStep, doomed>>
    BY DEF RemoveReplaced
<1>2. Finished' = Finished /\ \A k : Kept(k)' <=> Kept(k)
    BY KeptStays
<1>3. \A k \in DOMAIN oldDirs : k # saveStep => k \in DOMAIN oldDirs' /\ oldDirs'[k] = oldDirs[k]
    BY DEF RemoveReplaced, Remove, Restrict
<1>4. StepsInv' /\ WrittenInv' /\ LeftoverInv' /\ DoomedInv'
    BY <1>1, <1>2 DEF Inv, StepsInv, WrittenInv, LeftoverInv, DoomedInv, SavingPcs
<1>5. PlacedInv' /\ NoMixedCheckpoint'
    BY <1>1 DEF Inv, PlacedInv, NoMixedCheckpoint
<1>6. saveStep \in DOMAIN stepDirs
    BY <1>1 DEF Inv, PlacedInv
<1>7. KeptInv'
    BY <1>1, <1>2, <1>3, <1>6 DEF Inv, KeptInv, Whole
<1> QED
    BY <1>4, <1>5, <1>7 DEF Inv

\* What is outside the top k and not the latest of the checkpoints on disk is
\* not kept: all of them were finished.
LEMMA OutsideIsNotKept ==
    ASSUME Inv, NEW c \in OutsideTopK
    PROVE  c.step \in DOMAIN finished /\ ~Kept(c.step)
<1>1. /\ c \in History
      /\ Cardinality({d \in History : Precedes(d, c)}) >= KeepTopK
      /\ \E d \in History : d.step > c.step
    BY DEF OutsideTopK
<1>2. \A d \in History : d.step \in DOMAIN finished /\ d = Record(d.step)
    BY DEF Inv, StepsInv, PlacedInv, History, HistorySteps, MetricOf, Record
<1>3. History \subseteq Finished
    BY <1>2 DEF Finished, Record
<1> DEFINE Before(F) == {d \in F : Precedes(d, c)}
<1>4. Before(History) \subseteq Before(Finished)
    BY <1>3
<1>5. IsFiniteSet(Before(Finished)) /\ IsFiniteSet(Before(History))
    BY <1>4, FS_Subset DEF Inv, StepsInv
<1>6. /\ Cardinality(Before(History)) <= Cardinality(Before(Finished))
      /\ Cardinality(Before(History)) \in Nat /\ Cardinality(Before(Finished)) \in Nat
    BY <1>4, <1>5, FS_Subset, FS_CardinalityType
<1>7. ~(Cardinality(Before(Finished)) < KeepTopK)
    BY <1>1, <1>6, CheckpointAssumption
<1>8. \E m \in DOMAIN finished : ~(m <= c.step)
    <2>1. PICK d \in History : d.step > c.step
        BY <1>1
    <2>2. d.step \in DOMAIN finished /\ d.step \in Steps /\ c.step \in Steps
        BY <1>1, <1>2 DEF Inv, StepsInv
    <2>3. Steps \subseteq Int
        BY ClientAssumption
    <2>4. d.step \in Int /\ c.step \in Int
        BY <2>2, <2>3
    <2> QED
        BY <2>1, <2>2, <2>4
<1>9. c = Record(c.step) /\ c.step \in DOMAIN finished
    BY <1>1, <1>2
<1> HIDE DEF Before
<1>10. Before(Finished) = {d \in Finished : Precedes(d, [step |-> c.step, metric |-> metricAt[c.step]])}
    BY <1>9 DEF Before, Record
<1> QED
    BY <1>7, <1>8, <1>9, <1>10 DEF Kept

LEMMA ChooseDoomedInv ==
    ASSUME Inv, ChooseDoomed, UNCHANGED <<metricAt, saves, finished>>
    PROVE  Inv'
<1>1. /\ savePc' = "removing" /\ doomed' \subseteq OutsideTopK
      /\ UNCHANGED <<tmpDirs, stepDirs, oldDirs, saveStep>>
    BY DEF ChooseDoomed, diskVars
<1>2. Finished' = Finished /\ \A k : Kept(k)' <=> Kept(k)
    BY KeptStays
<1>3. StepsInv' /\ WrittenInv' /\ LeftoverInv'
    BY <1>1, <1>2 DEF Inv, StepsInv, WrittenInv, LeftoverInv, SavingPcs
<1>4. PlacedInv' /\ NoMixedCheckpoint' /\ KeptInv'
    BY <1>1, <1>2 DEF Inv, PlacedInv, NoMixedCheckpoint, KeptInv, Whole
<1>5. DoomedInv'
    BY <1>1, <1>2, OutsideIsNotKept DEF DoomedInv
<1> QED
    BY <1>3, <1>4, <1>5 DEF Inv

\* rmtree(step_N), a file at a time.
LEMMA RemoveDoomedInv ==
    ASSUME Inv, RemoveDoomed, UNCHANGED <<metricAt, saves, finished>>
    PROVE  Inv'
<1>1. /\ savePc = "removing" /\ doomed' \subseteq doomed
      /\ UNCHANGED <<tmpDirs, oldDirs, savePc, saveStep>>
    BY DEF RemoveDoomed
<1>2. Finished' = Finished /\ \A k : Kept(k)' <=> Kept(k)
    BY KeptStays
<1>3. PICK c \in doomed :
        /\ DOMAIN stepDirs \ {c.step} \subseteq DOMAIN stepDirs'
        /\ DOMAIN stepDirs' \subseteq DOMAIN stepDirs
        /\ \A k \in DOMAIN stepDirs' \ {c.step} : stepDirs'[k] = stepDirs[k]
        /\ c.step \in DOMAIN stepDirs' =>
              /\ DOMAIN stepDirs'[c.step] \subseteq DOMAIN stepDirs[c.step]
              /\ \A file \in DOMAIN stepDirs'[c.step] :
                    stepDirs'[c.step][file] = stepDirs[c.step][file]
    <2>1. PICK c \in doomed :
            \/ \E file \in DOMAIN stepDirs[c.step] :
                  stepDirs' = [stepDirs EXCEPT ![c.step] = Remove(stepDirs[c.step], file)]
            \/ stepDirs' = Remove(stepDirs, c.step)
        BY DEF RemoveDoomed
    <2>2. CASE \E file \in DOMAIN stepDirs[c.step] :
                  stepDirs' = [stepDirs EXCEPT ![c.step] = Remove(stepDirs[c.step], file)]
        BY <2>2 DEF Remove, Restrict
    <2>3. CASE stepDirs' = Remove(stepDirs, c.step)
        BY <2>3 DEF Remove, Restrict
    <2> QED
        BY <2>1, <2>2, <2>3
<1>4. StepsInv' /\ WrittenInv' /\ LeftoverInv' /\ DoomedInv'
    BY <1>1, <1>2, <1>3 DEF Inv, StepsInv, WrittenInv, LeftoverInv, DoomedInv, SavingPcs
<1>5. \A k \in DOMAIN stepDirs' :
         /\ k \in DOMAIN stepDirs
         /\ DOMAIN stepDirs'[k] \subseteq DOMAIN stepDirs[k]
         /\ \A file \in DOMAIN stepDirs'[k] : stepDirs'[k][file] = stepDirs[k][file]
    BY <1>3
<1>6. PlacedInv'
    BY <1>1, <1>5 DEF Inv, PlacedInv
<1>7. NoMixedCheckpoint'
    <2> SUFFICES ASSUME NEW k \in DOMAIN stepDirs'
                 PROVE  /\ "training_info.json" \in DOMAIN stepDirs'[k]
                              => stepDirs'[k]["training_info.json"].save = finished[k]
                        /\ \A file \in DOMAIN stepDirs'[k] \ {"training_info.json"} :
                              stepDirs'[k][file] = finished[k]
        BY DEF NoMixedCheckpoint
    <2> QED
        BY <1>5 DEF Inv, NoMixedCheckpoint
<1>8. ~Kept(c.step)
    BY DEF Inv, DoomedInv
<1>9. KeptInv'
    BY <1>1, <1>2, <1>3, <1>8 DEF Inv, KeptInv, Whole
<1> QED
    BY <1>4, <1>6, <1>7, <1>9 DEF Inv

\* The end of a save, or of the process, and steps in which nothing happens.
LEMMA EndInv ==
    ASSUME Inv, savePc' = "idle" \/ UNCHANGED <<savePc, saveStep>>,
           doomed' \subseteq doomed, UNCHANGED <<diskVars, metricAt, saves, finished>>
    PROVE  Inv'
<1>1. Finished' = Finished /\ \A k : Kept(k)' <=> Kept(k)
    BY KeptStays
<1>2. StepsInv' /\ WrittenInv' /\ LeftoverInv' /\ DoomedInv'
    BY <1>1 DEF Inv, StepsInv, WrittenInv, LeftoverInv, DoomedInv, SavingPcs, Whole, diskVars
<1>3. PlacedInv' /\ NoMixedCheckpoint' /\ KeptInv'
    BY <1>1 DEF Inv, PlacedInv, NoMixedCheckpoint, KeptInv, Whole, diskVars
<1> QED
    BY <1>2, <1>3 DEF Inv

LEMMA StepInv == ASSUME Inv, [Next]_clientVars PROVE Inv'
<1>1. CASE StartSave
    BY <1>1, StartSaveInv
<1>2. CASE WriteFiles
    BY <1>2, WriteFilesInv
<1>3. CASE Finalize
    BY <1>3, FinalizeInv
<1>4. CASE Replace
    BY <1>4, ReplaceInv
<1>5. CASE Clean
    <2>1. CASE RemoveReplaced
        BY <1>5, <2>1, RemoveReplacedInv DEF Clean
    <2>2. CASE ChooseDoomed
        BY <1>5, <2>2, ChooseDoomedInv DEF Clean
    <2>3. CASE RemoveDoomed
        BY <1>5, <2>3, RemoveDoomedInv DEF Clean
    <2>4. CASE SaveDone
        BY <1>5, <2>4, EndInv DEF Clean, SaveDone
    <2> QED
        BY <1>5, <2>1, <2>2, <2>3, <2>4 DEF Clean, RemoveStep
<1>6. CASE Crash
    BY <1>6, EndInv DEF Crash, LoseSave
<1>7. CASE Rest \/ UNCHANGED clientVars
    BY <1>7, EndInv DEF Rest, clientVars, checkpointVars, diskVars
<1> QED
    BY <1>1, <1>2, <1>3, <1>4, <1>5, <1>6, <1>7 DEF Next

LEMMA AlwaysInv == Spec => []Inv
BY InitInv, StepInv, PTL DEF Spec

-----------------------------------------------------------------------------
(* The theorems. *)

\* No checkpoint ever mixes the files of two saves, whatever leftover it was
\* written into (init_tmp_checkpoint, finalize_checkpoint).
THEOREM NeverMixed == Spec => []NoMixedCheckpoint
<1>1. Inv => NoMixedCheckpoint
    BY DEF Inv
<1> QED
    BY <1>1, AlwaysInv, PTL

\* The latest checkpoint that was ever finished is on disk in one piece, at
\* every moment of a later save, of an overwrite or of the pruning, and after
\* any number of crashes (finalize_checkpoint, remove_old_checkpoints).
THEOREM LatestAlwaysSurvives == Spec => []LatestSurvives
<1>1. Inv => LatestSurvives
    BY DEF Inv, KeptInv, Kept, LatestSurvives, Survives
<1> QED
    BY <1>1, AlwaysInv, PTL

\* So are the keep_top_k best, for every keep_top_k and either direction of the
\* metric (remove_old_checkpoints).
THEOREM TopKAlwaysSurvive == Spec => []TopKSurvive
<1>1. Inv => TopKSurvive
    <2> SUFFICES ASSUME Inv, NEW c \in Finished,
                        Cardinality({d \in Finished : Precedes(d, c)}) < KeepTopK
                 PROVE  Survives(c.step)
        BY DEF TopKSurvive
    <2>1. c.step \in DOMAIN finished /\ c = [step |-> c.step, metric |-> metricAt[c.step]]
        BY DEF Finished
    <2>2. Kept(c.step)
        BY <2>1 DEF Kept
    <2> QED
        BY <2>1, <2>2 DEF Inv, KeptInv, Survives
<1> QED
    BY <1>1, AlwaysInv, PTL
=============================================================================
