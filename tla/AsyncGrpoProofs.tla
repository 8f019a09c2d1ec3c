-------------------------- MODULE AsyncGrpoProofs --------------------------
(***************************************************************************)
(* Proofs about AsyncGrpo for every value of its constants.                *)
(***************************************************************************)
EXTENDS AsyncGrpoProperties, SequenceTheorems, FiniteSetTheorems, TLAPS

(* The points of the loop where it has a batch to launch.                  *)
BatchPcs == LoopPcs \ {"unstarted", "draw", "prune", "finally", "ended"}

(* What type correctness needs to know of the loop: it draws no batch when *)
(* the epochs are used up, and launches a batch only for a real target.    *)
LoopShape ==
    /\ loopPc \notin {"finally", "ended"} => currentEpoch < MaxNumEpochs
    /\ loopPc \in BatchPcs => batch \in Batches
    /\ loopPc \in Launching => targetWeight \in Targets

(* ... and of the driver: how the counters of a step relate at each point. *)
BeforeTrainPcs == {"initial_refit", "initial_drain", "initial_validation",
    "fill", "sample", "ask_exhausted", "train"}

TrainerShape ==
    /\ ~Halted => step < MaxNumSteps
    /\ trainerPc \in BeforeTrainPcs =>
          weightVersion = step /\ policyWeights = step
    /\ trainerPc \in {"prepare_refit", "refit"} =>
          weightVersion = step /\ policyWeights = step + 1
    /\ trainerPc \in RefittedPcs =>
          weightVersion = step + 1 /\ policyWeights = step + 1

(* ... and of the calls: start_collection is sent once, as the first call. *)
StartedOnce ==
    \A i \in 1 .. Len(mailbox) :
        mailbox[i].op = "start_collection" => i = 1 /\ loopPc = "unstarted"

TypeInv == TypeOK /\ LoopShape /\ TrainerShape /\ StartedOnce

USE DEF Steps, Targets, Versions

LEMMA ConstantTypes ==
    /\ NumPromptsPerStep \in Nat /\ NumPromptsPerStep > 0
    /\ MaxTrajectoryAgeSteps \in Nat /\ MaxTrajectoryAgeSteps > 0
    /\ StartStep \in Nat /\ MaxNumSteps \in Nat /\ StartStep < MaxNumSteps
    /\ MaxTarget = MaxNumSteps + MaxTrajectoryAgeSteps
    /\ BatchesPerEpoch \in Nat /\ BatchesPerEpoch > 0
    /\ MaxNumEpochs \in Nat /\ MaxNumEpochs > 0
BY BufferAssumption, CollectorAssumption, TrainerAssumption

LEMMA NextBatch ==
    ASSUME NEW e \in Nat, e < MaxNumEpochs,
           NEW b \in Nat, b < (e + 1) * BatchesPerEpoch
    PROVE  b + 1 \in Batches
<1>1. PICK k \in Nat : MaxNumEpochs = (e + 1) + k
  <2>1. MaxNumEpochs - (e + 1) \in Nat
    BY ConstantTypes
  <2> QED
    BY <2>1, ConstantTypes
<1>2. MaxNumEpochs * BatchesPerEpoch = (e + 1) * BatchesPerEpoch + k * BatchesPerEpoch
  BY <1>1, ConstantTypes
<1>3. k * BatchesPerEpoch \in Nat
  BY ConstantTypes
<1>4. (e + 1) * BatchesPerEpoch \in Nat
  BY ConstantTypes
<1> QED
  BY <1>2, <1>3, <1>4, ConstantTypes DEF Batches

LEMMA MaxInflightType == MaxInflight \in Nat
<1>1. \A n, a \in Nat : n * a \in Nat
  OBVIOUS
<1> QED
  BY <1>1, ConstantTypes DEF MaxInflight

LEMMA TypeInit == Init => TypeInv
<1> SUFFICES ASSUME Init PROVE TypeInv
  OBVIOUS
<1> USE ConstantTypes DEF Init, BufferInit, CollectorInit
<1>1. BufferTypeOK
  BY DEF BufferTypeOK
<1>2. AttributeTypeOK
  <2>1. inflightSema \in Nat
    BY MaxInflightType
  <2>2. currentWeightVersion \in Steps /\ currentEpoch \in 0 .. MaxNumEpochs
    OBVIOUS
  <2>3. lastLimitWarningVersion = -1
    OBVIOUS
  <2>4. /\ running \in BOOLEAN /\ manualPauseCleared \in BOOLEAN
        /\ refitPauseCleared \in BOOLEAN /\ generationLimitCleared \in BOOLEAN
        /\ workerError \in BOOLEAN /\ datasetExhausted \in BOOLEAN
    OBVIOUS
  <2>5. generatingTargets \subseteq Targets /\ inflightThreads \subseteq Groups
    OBVIOUS
  <2> QED
    BY <2>1, <2>2, <2>3, <2>4, <2>5 DEF AttributeTypeOK
<1>3. LoopTypeOK
  BY DEF LoopTypeOK, LoopPcs, Prompts, NotReserved
<1>4. ActorTypeOK
  <2>1. worker \in [Groups -> Workers]
    BY DEF Workers, WorkerPcs, DummyWeights
  <2>2. mailbox \in Seq(Messages)
    BY DEF Messages, Operations, Call
  <2>3. reply \in Replies
    BY DEF Replies, NoReply, Answer
  <2>4. abandonedTargets \subseteq Targets
    OBVIOUS
  <2> QED
    BY <2>1, <2>2, <2>3, <2>4 DEF ActorTypeOK, DummyWeights
<1>5. TrainerTypeOK
  <2>1. trainerPc \in TrainerPcs
    BY DEF TrainerPcs
  <2>2. saved \in [step : Steps, batches : Nat]
    OBVIOUS
  <2> QED
    BY <2>1, <2>2 DEF TrainerTypeOK
<1>6. LoopShape
  BY DEF LoopShape, BatchPcs, LoopPcs, Launching
<1>7. TrainerShape
  BY DEF TrainerShape, Halted, BeforeTrainPcs, RefittedPcs
<1>8. StartedOnce
  BY DEF StartedOnce, Call
<1> QED
  BY <1>1, <1>2, <1>3, <1>4, <1>5, <1>6, <1>7, <1>8 DEF TypeInv, TypeOK

-----------------------------------------------------------------------------
(* The collection loop                                                     *)

LEMMA OpenTargetsType ==
    ASSUME NEW v \in Steps, NEW last
    PROVE  OpenTargets(v, last) \subseteq Targets
BY ConstantTypes DEF OpenTargets, TargetWeights

LEMMA StartWorkerType ==
    ASSUME TypeInv, StartWorkerWhenUnpaused,
           UNCHANGED <<actorVars, abandonedTargets, errorReports, alive, engineWeights>>
    PROVE  AttributeTypeOK' /\ LoopTypeOK' /\ LoopShape' /\ ActorTypeOK'
<1> USE DEF TypeInv, TypeOK, LoopTypeOK, LoopShape, StartWorkerWhenUnpaused,
            RegisterAndStart
<1>1. <<batch, promptIdx>> \in Groups
  BY DEF Groups, BatchPcs, LoopPcs
<1>2. AttributeTypeOK'
  BY <1>1 DEF AttributeTypeOK, pauseVars, limitVars, epochVars
<1>3. ActorTypeOK'
  <2>1. [pc |-> "rollout", version |-> readVersion, target |-> targetWeight,
         weights |-> engineWeights] \in Workers
    BY DEF Workers, WorkerPcs, Launching, ActorTypeOK
  <2>2. worker' \in [Groups -> Workers]
    BY <2>1 DEF ActorTypeOK
  <2> QED
    BY <2>2 DEF ActorTypeOK, actorVars
<1>4. LoopTypeOK' /\ LoopShape'
  BY ConstantTypes DEF Prompts, NotReserved, LoopPcs, BatchPcs, Launching, Goto,
       epochVars
<1> QED
  BY <1>2, <1>3, <1>4

LEMMA LaunchFailsType ==
    ASSUME TypeInv, LaunchFails,
           UNCHANGED <<actorVars, errorReports, alive, engineWeights>>
    PROVE  AttributeTypeOK' /\ LoopTypeOK' /\ LoopShape' /\ ActorTypeOK'
<1> USE DEF TypeInv, TypeOK, LoopTypeOK, LoopShape
<1>1. loopPc \in {"acquire", "start_worker"}
  BY DEF LaunchFails
<1>2. <<batch, promptIdx>> \in Groups /\ targetWeight \in Targets
  BY <1>1 DEF Groups, BatchPcs, LoopPcs, Launching
<1>3. AttributeTypeOK'
  <2>1. inflightThreads' \subseteq Groups
    BY <1>2 DEF LaunchFails, AttributeTypeOK
  <2> QED
    BY <2>1 DEF LaunchFails, AttributeTypeOK, pauseVars, limitVars, epochVars
<1>4. worker' \in [Groups -> Workers]
  <2>1. worker \in [Groups -> Workers]
    BY DEF ActorTypeOK
  <2>2. worker[<<batch, promptIdx>>] \in Workers
    BY <1>2, <2>1
  <2>3. [worker[<<batch, promptIdx>>] EXCEPT !.pc = "unstarted"] \in Workers
    BY <2>2 DEF Workers, WorkerPcs
  <2> QED
    BY <2>1, <2>3 DEF LaunchFails
<1>5. abandonedTargets' \subseteq Targets
  BY <1>2 DEF LaunchFails, ActorTypeOK
<1>6. ActorTypeOK'
  BY <1>4, <1>5 DEF ActorTypeOK, actorVars
<1>7. LoopTypeOK' /\ LoopShape'
  BY <1>1 DEF LaunchFails, NotReserved, LoopPcs, BatchPcs, Launching, Goto,
       drawVars, epochVars
<1> QED
  BY <1>3, <1>6, <1>7

(* The steps of the loop that leave the workers alone.                     *)
LoopInv == AttributeTypeOK /\ LoopTypeOK /\ LoopShape

LEMMA GateType ==
    ASSUME LoopInv, NEW pc \in BatchPcs, NEW next \in BatchPcs,
           NEW cleared, PassGate(pc, cleared, next),
           next \in Launching => pc \in Launching
    PROVE  LoopInv'
<1> USE DEF LoopInv, PassGate, Goto, attributeVars
<1>1. AttributeTypeOK'
  BY DEF AttributeTypeOK, pauseVars, limitVars, epochVars, threadVars
<1>2. LoopTypeOK' /\ LoopShape'
  BY DEF LoopTypeOK, LoopShape, BatchPcs, drawVars, readVars, epochVars
<1> QED
  BY <1>1, <1>2

LEMMA ReadVersionType ==
    ASSUME LoopInv, NEW pc \in BatchPcs, NEW next \in BatchPcs,
           ReadVersion(pc, next), next \in Launching => pc \in Launching
    PROVE  LoopInv'
<1> USE DEF LoopInv, ReadVersion, Goto, attributeVars
<1>1. AttributeTypeOK'
  BY DEF AttributeTypeOK, pauseVars, limitVars, epochVars, threadVars
<1>2. LoopTypeOK' /\ LoopShape'
  BY DEF LoopTypeOK, LoopShape, BatchPcs, drawVars, epochVars, AttributeTypeOK
<1> QED
  BY <1>1, <1>2

LEMMA ReadLastTargetType ==
    ASSUME LoopInv, lastTarget \in Targets \cup {-1},
           NEW pc \in BatchPcs, NEW next \in BatchPcs \ Launching,
           ReadLastTarget(pc, next)
    PROVE  LoopInv'
<1> USE DEF LoopInv, ReadLastTarget, Goto, attributeVars
<1>1. AttributeTypeOK'
  BY DEF AttributeTypeOK, pauseVars, limitVars, epochVars, threadVars
<1>2. LoopTypeOK' /\ LoopShape'
  BY DEF LoopTypeOK, LoopShape, BatchPcs, drawVars, epochVars
<1> QED
  BY <1>1, <1>2

LEMMA DrawBatchType ==
    ASSUME LoopInv, DrawBatch
    PROVE  LoopInv'
<1> USE ConstantTypes DEF LoopInv, DrawBatch, Goto, attributeVars
<1>1. AttributeTypeOK'
  BY DEF AttributeTypeOK, pauseVars, limitVars, epochVars, threadVars
<1>2. currentEpoch \in Nat /\ currentEpoch < MaxNumEpochs
  BY DEF AttributeTypeOK, LoopShape
<1>3. batch \in Nat
  BY DEF LoopTypeOK, Batches
<1>4. batch + 1 \in Batches
  BY <1>2, <1>3, NextBatch
<1>5. LoopTypeOK' /\ LoopShape'
  BY <1>4 DEF LoopTypeOK, LoopShape, BatchPcs, LoopPcs, Launching, Prompts,
       readVars, epochVars
<1> QED
  BY <1>1, <1>5

LEMMA EndEpochType ==
    ASSUME LoopInv, EndEpoch
    PROVE  LoopInv'
<1> USE ConstantTypes DEF LoopInv, EndEpoch, Goto
<1>1. AttributeTypeOK'
  <2>1. currentEpoch' \in 0 .. MaxNumEpochs
    BY DEF AttributeTypeOK, LoopShape
  <2>2. datasetExhausted' \in BOOLEAN
    BY DEF AttributeTypeOK
  <2> QED
    BY <2>1, <2>2 DEF AttributeTypeOK, pauseVars, limitVars, threadVars
<1>2. LoopTypeOK' /\ LoopShape'
  BY DEF AttributeTypeOK, LoopTypeOK, LoopShape, LoopPcs, BatchPcs, Launching,
       drawVars, readVars
<1> QED
  BY <1>1, <1>2

LEMMA LoaderFailsType ==
    ASSUME LoopInv, LoaderFails
    PROVE  LoopInv'
<1> USE DEF LoopInv, LoaderFails, Goto, attributeVars
<1>1. AttributeTypeOK'
  BY DEF AttributeTypeOK, pauseVars, limitVars, epochVars, threadVars
<1>2. LoopTypeOK' /\ LoopShape'
  BY DEF LoopTypeOK, LoopShape, LoopPcs, BatchPcs, Launching, drawVars, readVars,
       epochVars
<1> QED
  BY <1>1, <1>2

LEMMA ReserveTargetType ==
    ASSUME LoopInv, ReserveTarget
    PROVE  LoopInv'
<1> USE DEF LoopInv, ReserveTarget, Goto
<1>1. OpenTargets(readVersion, readLast) \subseteq Targets
  BY OpenTargetsType DEF LoopTypeOK
<1>2. CASE OpenTargets(readVersion, readLast) = {}
  <2>1. AttributeTypeOK'
    BY <1>2 DEF AttributeTypeOK, pauseVars, limitVars, epochVars, threadVars
  <2>2. LoopTypeOK' /\ LoopShape'
    BY <1>2 DEF LoopTypeOK, LoopShape, LoopPcs, BatchPcs, Launching, drawVars,
         epochVars
  <2> QED
    BY <2>1, <2>2
<1>3. CASE OpenTargets(readVersion, readLast) # {}
  <2>1. PICK t \in OpenTargets(readVersion, readLast) :
          /\ generatingTargets' = generatingTargets \cup {t}
          /\ targetWeight' = t
          /\ loopPc' = "prompt"
    BY <1>3
  <2>2. t \in Targets
    BY <1>1
  <2>3. AttributeTypeOK'
    BY <2>1, <2>2 DEF AttributeTypeOK, pauseVars, limitVars, epochVars, threadVars
  <2>4. LoopTypeOK' /\ LoopShape'
    BY <2>1, <2>2 DEF LoopTypeOK, LoopShape, LoopPcs, BatchPcs, Launching,
         drawVars, epochVars
  <2> QED
    BY <2>3, <2>4
<1> QED
  BY <1>2, <1>3

LEMMA StopCollectionType ==
    ASSUME LoopInv, StopCollection
    PROVE  LoopInv'
<1> USE DEF LoopInv, StopCollection, Goto
<1>1. AttributeTypeOK'
  BY DEF AttributeTypeOK, pauseVars, limitVars, epochVars, threadVars
<1>2. LoopTypeOK' /\ LoopShape'
  BY DEF LoopTypeOK, LoopShape, LoopPcs, BatchPcs, Launching, drawVars, readVars,
       epochVars
<1> QED
  BY <1>1, <1>2

LEMMA CheckLimitsType ==
    ASSUME LoopInv, CheckLimits
    PROVE  LoopInv'
<1> USE DEF LoopInv, CheckLimits, Goto, attributeVars
<1>1. AttributeTypeOK'
  BY DEF AttributeTypeOK, pauseVars, limitVars, epochVars, threadVars
<1>2. LoopTypeOK' /\ LoopShape'
  BY DEF LoopTypeOK, LoopShape, LoopPcs, BatchPcs, Launching, drawVars, readVars,
       epochVars
<1> QED
  BY <1>1, <1>2

LEMMA WarnLimitType ==
    ASSUME LoopInv, WarnLimit
    PROVE  LoopInv'
<1> USE DEF LoopInv, WarnLimit, Goto, attributeVars
<1>1. AttributeTypeOK'
  BY DEF AttributeTypeOK, pauseVars, limitVars, epochVars, threadVars
<1>2. LoopTypeOK' /\ LoopShape'
  BY DEF LoopTypeOK, LoopShape, LoopPcs, BatchPcs, Launching, drawVars, readVars,
       epochVars
<1> QED
  BY <1>1, <1>2

LEMMA NoteLimitType ==
    ASSUME LoopInv, NoteLimit
    PROVE  LoopInv'
<1> USE DEF LoopInv, NoteLimit, Goto
<1>1. AttributeTypeOK'
  BY DEF AttributeTypeOK, pauseVars, limitVars, epochVars, threadVars
<1>2. LoopTypeOK' /\ LoopShape'
  BY DEF LoopTypeOK, LoopShape, LoopPcs, BatchPcs, Launching, drawVars, readVars,
       epochVars
<1> QED
  BY <1>1, <1>2

LEMMA ClearLimitType ==
    ASSUME LoopInv, ClearLimit
    PROVE  LoopInv'
<1> USE DEF LoopInv, ClearLimit, Goto
<1>1. AttributeTypeOK'
  BY DEF AttributeTypeOK, pauseVars, limitVars, epochVars, threadVars
<1>2. LoopTypeOK' /\ LoopShape'
  BY DEF LoopTypeOK, LoopShape, LoopPcs, BatchPcs, Launching, drawVars, readVars,
       epochVars
<1> QED
  BY <1>1, <1>2

LEMMA TestRefitType ==
    ASSUME LoopInv, TestRefit
    PROVE  LoopInv'
<1> USE DEF LoopInv, TestRefit, Goto, attributeVars
<1>1. AttributeTypeOK'
  BY DEF AttributeTypeOK, pauseVars, limitVars, epochVars, threadVars
<1>2. LoopTypeOK' /\ LoopShape'
  BY DEF LoopTypeOK, LoopShape, LoopPcs, BatchPcs, Launching, drawVars, readVars,
       epochVars
<1> QED
  BY <1>1, <1>2

LEMMA AcquireInflightType ==
    ASSUME LoopInv, AcquireInflight
    PROVE  LoopInv'
<1> USE DEF LoopInv, AcquireInflight, Goto
<1>1. AttributeTypeOK'
  BY DEF AttributeTypeOK, pauseVars, limitVars, epochVars, threadVars
<1>2. LoopTypeOK' /\ LoopShape'
  BY DEF LoopTypeOK, LoopShape, LoopPcs, BatchPcs, Launching, drawVars, readVars,
       epochVars
<1> QED
  BY <1>1, <1>2

LEMMA CleanupFinishedThreadsType ==
    ASSUME LoopInv, CleanupFinishedThreads
    PROVE  LoopInv'
<1> USE DEF LoopInv, CleanupFinishedThreads, Goto
<1>1. AttributeTypeOK'
  BY DEF AttributeTypeOK, LiveThreads, pauseVars, limitVars, epochVars
<1>2. LoopTypeOK' /\ LoopShape'
  BY DEF LoopTypeOK, LoopShape, LoopPcs, BatchPcs, Launching, drawVars, readVars,
       epochVars
<1> QED
  BY <1>1, <1>2

LEMMA LoopStepType ==
    ASSUME TypeInv, LoopStep, UNCHANGED trainerVars
    PROVE  TypeInv'
<1>1. BufferTypeOK'
  BY DEF TypeInv, TypeOK, LoopStep, BufferTypeOK, bufferVars
<1>2. TrainerTypeOK' /\ TrainerShape'
  BY DEF TypeInv, TypeOK, TrainerTypeOK, TrainerShape, trainerVars,
       progressVars, Halted
<1>3. LoopInv /\ lastTarget \in Targets \cup {-1}
  BY DEF TypeInv, TypeOK, LoopInv, BufferTypeOK
<1>4. loopPc # "unstarted"
  BY DEF LoopStep, LaunchFails, StartWorkerWhenUnpaused, DrawBatch, EndEpoch,
       LoaderFails, StopCollection, PassGate, PassManualPause, PassRefitPause,
       PassLimitWait, RecheckManualPause, PassPromptRefitPause, ReadVersion,
       ReadLastTarget, CheckLimits, WarnLimit, NoteLimit, ClearLimit,
       ReserveTarget, TestRefit, AcquireInflight, CleanupFinishedThreads
<1>5. StartedOnce'
  BY <1>4 DEF TypeInv, StartedOnce, LoopStep, actorVars
<1>6. LoopInv' /\ ActorTypeOK'
  <2>1. CASE StartWorkerWhenUnpaused /\ UNCHANGED abandonedTargets
    BY <2>1, StartWorkerType DEF LoopStep, LoopInv
  <2>2. ASSUME UNCHANGED <<worker, abandonedTargets>>
        PROVE  ActorTypeOK'
    BY <2>2 DEF TypeInv, TypeOK, LoopStep, ActorTypeOK, actorVars
  <2>3. CASE DrawBatch /\ UNCHANGED <<worker, abandonedTargets>>
    BY <2>2, <2>3, <1>3, DrawBatchType
  <2>4. CASE EndEpoch /\ UNCHANGED <<worker, abandonedTargets>>
    BY <2>2, <2>4, <1>3, EndEpochType
  <2>5. CASE StopCollection /\ UNCHANGED <<worker, abandonedTargets>>
    BY <2>2, <2>5, <1>3, StopCollectionType
  <2>6. CASE (PassManualPause \/ PassRefitPause \/ PassLimitWait
                \/ RecheckManualPause \/ PassPromptRefitPause) /\ UNCHANGED <<worker, abandonedTargets>>
    BY <2>2, <2>6, <1>3, GateType DEF PassManualPause, PassRefitPause,
         PassLimitWait, RecheckManualPause, PassPromptRefitPause, LoopPcs,
         BatchPcs, Launching
  <2>7. CASE (ReadVersion("limits", "limits_last")
                \/ ReadVersion("process", "process_last")
                \/ ReadVersion("prompt_version", "acquire")) /\ UNCHANGED <<worker, abandonedTargets>>
    BY <2>2, <2>7, <1>3, ReadVersionType DEF LoopPcs, BatchPcs, Launching
  <2>8. CASE (ReadLastTarget("limits_last", "limits_check")
                \/ ReadLastTarget("process_last", "reserve")) /\ UNCHANGED <<worker, abandonedTargets>>
    BY <2>2, <2>8, <1>3, ReadLastTargetType DEF LoopPcs, BatchPcs, Launching
  <2>9. CASE CheckLimits /\ UNCHANGED <<worker, abandonedTargets>>
    BY <2>2, <2>9, <1>3, CheckLimitsType
  <2>10. CASE WarnLimit /\ UNCHANGED <<worker, abandonedTargets>>
    BY <2>2, <2>10, <1>3, WarnLimitType
  <2>11. CASE ClearLimit /\ UNCHANGED <<worker, abandonedTargets>>
    BY <2>2, <2>11, <1>3, ClearLimitType
  <2>12. CASE ReserveTarget /\ UNCHANGED <<worker, abandonedTargets>>
    BY <2>2, <2>12, <1>3, ReserveTargetType
  <2>13. CASE TestRefit /\ UNCHANGED <<worker, abandonedTargets>>
    BY <2>2, <2>13, <1>3, TestRefitType
  <2>14. CASE AcquireInflight /\ UNCHANGED <<worker, abandonedTargets>>
    BY <2>2, <2>14, <1>3, AcquireInflightType
  <2>15. CASE LaunchFails
    BY <2>15, LaunchFailsType DEF LoopStep, LoopInv
  <2>16. CASE LoaderFails /\ UNCHANGED <<worker, abandonedTargets>>
    BY <2>2, <2>16, <1>3, LoaderFailsType
  <2>17. CASE NoteLimit /\ UNCHANGED <<worker, abandonedTargets>>
    BY <2>2, <2>17, <1>3, NoteLimitType
  <2>18. CASE CleanupFinishedThreads /\ UNCHANGED <<worker, abandonedTargets>>
    BY <2>2, <2>18, <1>3, CleanupFinishedThreadsType
  <2> QED
    BY <2>1, <2>3, <2>4, <2>5, <2>6, <2>7, <2>8, <2>9, <2>10, <2>11, <2>12,
       <2>13, <2>14, <2>15, <2>16, <2>17, <2>18 DEF LoopStep
<1> QED
  BY <1>1, <1>2, <1>5, <1>6 DEF TypeInv, TypeOK, LoopInv

-----------------------------------------------------------------------------
(* The workers                                                             *)

LEMMA WorkerGotoType ==
    ASSUME worker \in [Groups -> Workers], NEW g \in Groups,
           NEW pc \in WorkerPcs, WorkerGoto(g, pc)
    PROVE  worker' \in [Groups -> Workers]
<1>1. [worker[g] EXCEPT !.pc = pc] \in Workers
  BY DEF Workers
<1> QED
  BY <1>1 DEF WorkerGoto

LEMMA WorkerStepType ==
    ASSUME TypeInv, NEW g \in Groups, WorkerStep(g), UNCHANGED trainerVars
    PROVE  TypeInv'
<1>1. TrainerTypeOK' /\ TrainerShape'
  BY DEF TypeInv, TypeOK, TrainerTypeOK, TrainerShape, trainerVars,
       progressVars, Halted
<1>2. StartedOnce'
  BY DEF TypeInv, StartedOnce, WorkerStep, loopVars, actorVars
<1>3. LoopTypeOK'
  BY DEF TypeInv, TypeOK, LoopTypeOK, WorkerStep, loopVars, drawVars, readVars
<1> DEFINE Frame == BufferTypeOK' /\ AttributeTypeOK' /\ currentEpoch' = currentEpoch
                      /\ errorReports' \in BOOLEAN
<1>4. ASSUME worker' \in [Groups -> Workers], Frame
      PROVE  TypeInv'
  <2>1. ActorTypeOK'
    BY <1>4 DEF TypeInv, TypeOK, ActorTypeOK, WorkerStep, loopVars, actorVars
  <2>2. LoopShape'
    BY <1>4 DEF TypeInv, LoopShape, WorkerStep, loopVars, drawVars, readVars
  <2> QED
    BY <1>1, <1>2, <1>3, <1>4, <2>1, <2>2 DEF TypeInv, TypeOK
<1> USE DEF TypeInv, TypeOK
<1>5. worker' \in [Groups -> Workers]
  <2>1. worker \in [Groups -> Workers]
    BY DEF ActorTypeOK
  <2> QED
    BY <2>1, WorkerGotoType DEF WorkerStep, TestRunning, RolloutFails, PushGroup,
         PushFull, ReleaseReservation, Detach, ReleaseInflight, WorkerPcs
<1>6. CASE TestRunning(g, "rollout") \/ TestRunning(g, "backoff") \/ PushFull(g)
  BY <1>4, <1>5, <1>6 DEF TestRunning, PushFull, BufferTypeOK, AttributeTypeOK,
       ActorTypeOK, attributeVars, bufferVars, pauseVars, limitVars, threadVars,
       epochVars
<1>7. CASE RolloutFails(g)
  BY <1>4, <1>5, <1>7 DEF RolloutFails, BufferTypeOK, AttributeTypeOK,
       bufferVars, pauseVars, limitVars, threadVars, epochVars
<1>8. CASE PushGroup(g)
  <2>1. worker[g].version \in Steps /\ worker[g].target \in Targets
    BY DEF ActorTypeOK, Workers
  <2>2. worker[g].target \in Versions
    BY <2>1, ConstantTypes
  <2>3. pushed' \in [Versions -> Nat] /\ pushed[worker[g].target] + 1 \in Nat
    BY <1>8, <2>2 DEF PushGroup, Push, BufferTypeOK
  <2>4. BufferTypeOK'
    BY <1>8, <2>1, <2>3 DEF PushGroup, Push, BufferTypeOK, Entries
  <2>5. AttributeTypeOK' /\ currentEpoch' = currentEpoch /\ errorReports' \in BOOLEAN
    BY <1>8 DEF PushGroup, AttributeTypeOK, ActorTypeOK, attributeVars,
         pauseVars, limitVars, threadVars, epochVars
  <2> QED
    BY <1>4, <1>5, <2>4, <2>5
<1>9. CASE ReleaseReservation(g, "release", "cleanup")
             \/ ReleaseReservation(g, "cleanup", "detach")
  BY <1>4, <1>5, <1>9 DEF ReleaseReservation, BufferTypeOK, AttributeTypeOK,
       ActorTypeOK, bufferVars, pauseVars, limitVars, threadVars, epochVars
<1>10. CASE Detach(g)
  BY <1>4, <1>5, <1>10 DEF Detach, BufferTypeOK, AttributeTypeOK, ActorTypeOK,
       bufferVars, pauseVars, limitVars, threadVars, epochVars
<1>11. CASE ReleaseInflight(g)
  BY <1>4, <1>5, <1>11 DEF ReleaseInflight, BufferTypeOK, AttributeTypeOK,
       ActorTypeOK, bufferVars, pauseVars, limitVars, threadVars, epochVars
<1> QED
  BY <1>6, <1>7, <1>8, <1>9, <1>10, <1>11 DEF WorkerStep

LEMMA DeliverErrorReportType ==
    ASSUME TypeInv, DeliverErrorReport, UNCHANGED trainerVars
    PROVE  TypeInv'
<1> USE DEF TypeInv, TypeOK, DeliverErrorReport
<1>1. TrainerTypeOK' /\ TrainerShape'
  BY DEF TrainerTypeOK, TrainerShape, trainerVars, progressVars, Halted
<1>2. BufferTypeOK'
  BY DEF BufferTypeOK, ReportWorkerError
<1>3. AttributeTypeOK' /\ LoopShape' /\ LoopTypeOK'
  BY DEF AttributeTypeOK, LoopTypeOK, LoopShape, attributeVars, pauseVars,
       limitVars, threadVars, epochVars, loopVars, drawVars, readVars
<1>4. ActorTypeOK' /\ StartedOnce'
  BY DEF ActorTypeOK, StartedOnce, actorVars, loopVars
<1> QED
  BY <1>1, <1>2, <1>3, <1>4

-----------------------------------------------------------------------------
(* The actor's thread                                                      *)

(* Taking a call removes the first of the queue.                           *)
LEMMA TakesHead ==
    ASSUME mailbox \in Seq(Messages), NEW op, Takes(op)
    PROVE  /\ mailbox' \in Seq(Messages)
           /\ Len(mailbox') \in Nat
           /\ Len(mailbox) = Len(mailbox') + 1
           /\ \A i \in 1 .. Len(mailbox') : mailbox'[i] = mailbox[i + 1]
           /\ mailbox[1] = Head(mailbox) /\ mailbox[1].op = op
           /\ Head(mailbox) \in Messages
<1>1. mailbox # <<>> /\ Head(mailbox).op = op /\ mailbox' = Tail(mailbox)
  BY DEF Takes
<1>2. /\ Head(mailbox) \in Messages
      /\ Tail(mailbox) \in Seq(Messages)
      /\ Len(Tail(mailbox)) = Len(mailbox) - 1
      /\ \A i \in 1 .. Len(Tail(mailbox)) : Tail(mailbox)[i] = mailbox[i + 1]
  BY <1>1, HeadTailProperties
<1>3. Len(mailbox) \in Nat \ {0} /\ Head(mailbox) = mailbox[1]
  BY <1>1, EmptySeq
<1> QED
  BY <1>1, <1>2, <1>3

LEMMA TakesType ==
    ASSUME mailbox \in Seq(Messages), StartedOnce, NEW op, Takes(op)
    PROVE  /\ Head(mailbox) \in Messages
           /\ mailbox' \in Seq(Messages)
           /\ \A i \in 1 .. Len(mailbox') : mailbox'[i].op # "start_collection"
           /\ op = "start_collection" => loopPc = "unstarted"
<1>1. /\ mailbox' \in Seq(Messages)
      /\ Len(mailbox') \in Nat
      /\ Len(mailbox) = Len(mailbox') + 1
      /\ \A i \in 1 .. Len(mailbox') : mailbox'[i] = mailbox[i + 1]
      /\ mailbox[1] = Head(mailbox) /\ mailbox[1].op = op
      /\ Head(mailbox) \in Messages
  BY TakesHead
<1>2. ASSUME NEW i \in 1 .. Len(mailbox')
      PROVE  mailbox'[i].op # "start_collection"
  <2>1. i + 1 \in 1 .. Len(mailbox) /\ i + 1 # 1 /\ mailbox'[i] = mailbox[i + 1]
    BY <1>1
  <2> QED
    BY <2>1 DEF StartedOnce
<1>3. op = "start_collection" => loopPc = "unstarted"
  BY <1>1 DEF StartedOnce
<1> QED
  BY <1>1, <1>2, <1>3

LEMMA ActorStepType ==
    ASSUME TypeInv, ActorStep, UNCHANGED trainerVars
    PROVE  TypeInv'
<1> DEFINE NewActor == /\ mailbox' \in Seq(Messages)
                       /\ actorPc' \in {"idle", "signal_limit", "draining"}
                       /\ reply' \in Replies
                       /\ StartedOnce'
<1>1. BufferTypeOK' /\ TrainerTypeOK' /\ TrainerShape'
  BY DEF TypeInv, TypeOK, ActorStep, BufferTypeOK, bufferVars, TrainerTypeOK,
       TrainerShape, trainerVars, progressVars, Halted
<1>2. ASSUME NewActor PROVE ActorTypeOK'
  <2>1. abandonedTargets' = abandonedTargets
    BY DEF ActorStep, StartCollection, SetWeightVersion, SignalLimitCleared, Pause,
       PauseAndDrain, Resume, SetManualPause, PrepareForRefit, ResumeAfterRefit,
       FinishDrain, PollDrain, IsExhausted, GetDataloaderState, loopVars
  <2> QED
    BY <1>2, <2>1 DEF TypeInv, TypeOK, ActorStep, ActorTypeOK
<1>3. ASSUME NewActor, AttributeTypeOK', UNCHANGED loopVars, currentEpoch' = currentEpoch
      PROVE  TypeInv'
  <2>1. LoopTypeOK' /\ LoopShape'
    BY <1>3 DEF TypeInv, TypeOK, LoopTypeOK, LoopShape, loopVars, drawVars,
         readVars
  <2> QED
    BY <1>1, <1>2, <1>3, <2>1 DEF TypeInv, TypeOK
<1> USE DEF TypeInv, TypeOK
<1>4. /\ mailbox \in Seq(Messages) /\ reply \in Replies /\ StartedOnce
      /\ actorPc \in {"idle", "signal_limit", "draining"}
  BY DEF ActorTypeOK
<1>5. CASE StartCollection
  <2>1. loopPc = "unstarted" /\ NewActor
    BY <1>4, <1>5, TakesType DEF StartCollection, StartedOnce
  <2>2. AttributeTypeOK'
    BY <1>5 DEF StartCollection, AttributeTypeOK, pauseVars, limitVars,
         threadVars, epochVars
  <2>3. LoopTypeOK' /\ LoopShape'
    BY <1>5, <2>1 DEF StartCollection, Goto, LoopTypeOK, LoopShape, LoopPcs,
         BatchPcs, Launching, drawVars, readVars, epochVars
  <2> QED
    BY <1>1, <1>2, <2>1, <2>2, <2>3
<1>6. CASE SetWeightVersion
  <2>1. NewActor /\ currentWeightVersion' \in Steps
    BY <1>4, <1>6, TakesType DEF SetWeightVersion, StartedOnce, Messages
  <2>2. AttributeTypeOK' /\ currentEpoch' = currentEpoch
    BY <1>6, <2>1 DEF SetWeightVersion, AttributeTypeOK, pauseVars, limitVars,
         threadVars, epochVars
  <2> QED
    BY <1>3, <1>6, <2>1, <2>2 DEF SetWeightVersion
<1>7. CASE SignalLimitCleared
  <2>1. NewActor
    BY <1>4, <1>7 DEF SignalLimitCleared, StartedOnce, loopVars
  <2>2. AttributeTypeOK' /\ currentEpoch' = currentEpoch
    BY <1>7 DEF SignalLimitCleared, AttributeTypeOK, pauseVars, threadVars,
         epochVars
  <2> QED
    BY <1>3, <1>7, <2>1, <2>2 DEF SignalLimitCleared
<1>8. CASE Pause \/ PauseAndDrain \/ Resume
  <2>1. PICK op \in {"pause", "pause_and_drain", "resume"}, cleared \in BOOLEAN,
             pc \in {"idle", "draining"} : SetManualPause(op, cleared, pc)
    BY <1>8 DEF Pause, PauseAndDrain, Resume
  <2>2. NewActor
    BY <1>4, <2>1, TakesType DEF SetManualPause, StartedOnce
  <2>3. AttributeTypeOK' /\ currentEpoch' = currentEpoch
    BY <2>1 DEF SetManualPause, AttributeTypeOK, limitVars, threadVars, epochVars
  <2> QED
    BY <1>3, <2>1, <2>2, <2>3 DEF SetManualPause
<1>9. CASE PrepareForRefit
  <2>1. NewActor
    BY <1>4, <1>9, TakesType DEF PrepareForRefit, StartedOnce, Replies, Answer
  <2>2. AttributeTypeOK' /\ currentEpoch' = currentEpoch
    BY <1>9 DEF PrepareForRefit, AttributeTypeOK, limitVars, threadVars, epochVars
  <2> QED
    BY <1>3, <1>9, <2>1, <2>2 DEF PrepareForRefit
<1>10. CASE ResumeAfterRefit
  <2>1. NewActor
    BY <1>4, <1>10, TakesType DEF ResumeAfterRefit, StartedOnce
  <2>2. AttributeTypeOK' /\ currentEpoch' = currentEpoch
    BY <1>10 DEF ResumeAfterRefit, AttributeTypeOK, limitVars, threadVars,
         epochVars
  <2> QED
    BY <1>3, <1>10, <2>1, <2>2 DEF ResumeAfterRefit
<1>11. CASE FinishDrain \/ PollDrain
  <2>1. NewActor
    BY <1>4, <1>11 DEF FinishDrain, PollDrain, StartedOnce, Replies, Answer,
         actorVars, loopVars
  <2>2. AttributeTypeOK' /\ currentEpoch' = currentEpoch
    BY <1>11 DEF FinishDrain, PollDrain, LiveThreads, AttributeTypeOK,
         attributeVars, pauseVars, limitVars, threadVars, epochVars
  <2> QED
    BY <1>3, <1>11, <2>1, <2>2 DEF FinishDrain, PollDrain
<1>12. CASE IsExhausted \/ GetDataloaderState
  <2>1. NewActor
    BY <1>4, <1>12, TakesType DEF IsExhausted, GetDataloaderState, StartedOnce,
         Replies, Answer, LoopTypeOK, Batches
  <2>2. AttributeTypeOK' /\ currentEpoch' = currentEpoch
    BY <1>12 DEF IsExhausted, GetDataloaderState, AttributeTypeOK, attributeVars,
         pauseVars, limitVars, threadVars, epochVars
  <2> QED
    BY <1>3, <1>12, <2>1, <2>2 DEF IsExhausted, GetDataloaderState
<1> QED
  BY <1>5, <1>6, <1>7, <1>8, <1>9, <1>10, <1>11, <1>12 DEF ActorStep

-----------------------------------------------------------------------------
(* The driver                                                              *)

NotStart(calls) == \A i \in 1 .. Len(calls) : calls[i].op # "start_collection"

LEMMA SendType ==
    ASSUME mailbox \in Seq(Messages), StartedOnce, loopPc' = loopPc,
           NEW calls \in Seq(Messages), NotStart(calls),
           mailbox' = mailbox \o calls
    PROVE  mailbox' \in Seq(Messages) /\ StartedOnce'
<1>1. /\ mailbox' \in Seq(Messages)
      /\ Len(mailbox') = Len(mailbox) + Len(calls)
      /\ \A i \in 1 .. Len(mailbox) + Len(calls) :
            mailbox'[i] = IF i <= Len(mailbox) THEN mailbox[i]
                          ELSE calls[i - Len(mailbox)]
  BY ConcatProperties
<1>2. Len(mailbox) \in Nat /\ Len(calls) \in Nat
  BY LenProperties
<1>3. ASSUME NEW i \in 1 .. Len(mailbox'), mailbox'[i].op = "start_collection"
      PROVE  i = 1 /\ loopPc' = "unstarted"
  <2>1. CASE i <= Len(mailbox)
    BY <1>1, <1>2, <1>3, <2>1 DEF StartedOnce
  <2>2. CASE i > Len(mailbox)
    BY <1>1, <1>2, <1>3, <2>2 DEF NotStart
  <2> QED
    BY <1>2, <2>1, <2>2, <1>1
<1> QED
  BY <1>1, <1>3 DEF StartedOnce

(* The calls the driver sends in one step.                                 *)
LEMMA CallType ==
    ASSUME NEW op \in Operations
    PROVE  Call(op) \in Messages
BY ConstantTypes DEF Call, Messages

LEMMA OneCallType ==
    ASSUME NEW op \in Operations \ {"start_collection"}
    PROVE  <<Call(op)>> \in Seq(Messages) /\ NotStart(<<Call(op)>>)
BY CallType DEF NotStart, Call

LEMMA ResumedCallsType ==
    ASSUME NEW v \in Steps, NEW op \in Operations \ {"start_collection"}
    PROVE  LET resumed == <<[op |-> "set_weight_version", arg |-> v],
                            Call("resume_after_refit")>>
           IN  /\ resumed \in Seq(Messages) /\ NotStart(resumed)
               /\ Append(resumed, Call(op)) \in Seq(Messages)
               /\ NotStart(Append(resumed, Call(op)))
<1> DEFINE resumed == <<[op |-> "set_weight_version", arg |-> v],
                        Call("resume_after_refit")>>
<1>1. [op |-> "set_weight_version", arg |-> v] \in Messages
  BY DEF Messages, Operations
<1>2. Call("resume_after_refit") \in Messages /\ Call(op) \in Messages
  BY CallType DEF Operations
<1>3. resumed \in Seq(Messages) /\ NotStart(resumed)
  BY <1>1, <1>2 DEF NotStart, Call
<1> HIDE DEF resumed
<1>4. /\ Append(resumed, Call(op)) \in Seq(Messages)
      /\ Len(Append(resumed, Call(op))) = Len(resumed) + 1
      /\ \A i \in 1 .. Len(resumed) : Append(resumed, Call(op))[i] = resumed[i]
      /\ Append(resumed, Call(op))[Len(resumed) + 1] = Call(op)
  BY <1>2, <1>3, AppendProperties
<1>5. NotStart(Append(resumed, Call(op)))
  BY <1>3, <1>4, LenProperties DEF NotStart, Call
<1> QED
  BY <1>3, <1>4, <1>5 DEF resumed

(* What a step of the driver does to the queue of calls and the answer.    *)
LEMMA TrainerCallsType ==
    ASSUME TypeInv, TrainerStep
    PROVE  mailbox' \in Seq(Messages) /\ StartedOnce' /\ reply' \in Replies
<1> USE DEF TypeInv, TypeOK
<1>1. /\ mailbox \in Seq(Messages) /\ reply \in Replies /\ StartedOnce
      /\ UNCHANGED loopPc
  BY DEF ActorTypeOK, TrainerStep, loopVars
<1>2. ASSUME UNCHANGED mailbox, reply' \in Replies
      PROVE  mailbox' \in Seq(Messages) /\ StartedOnce' /\ reply' \in Replies
  BY <1>1, <1>2 DEF StartedOnce
<1>3. ASSUME NEW calls \in Seq(Messages), NotStart(calls), Send(calls)
      PROVE  mailbox' \in Seq(Messages) /\ StartedOnce' /\ reply' \in Replies
  BY <1>1, <1>3, SendType DEF Send
<1>4. ASSUME NEW op \in Operations \ {"start_collection"}, Send(<<Call(op)>>)
      PROVE  mailbox' \in Seq(Messages) /\ StartedOnce' /\ reply' \in Replies
  <2>1. <<Call(op)>> \in Seq(Messages) /\ NotStart(<<Call(op)>>)
    BY OneCallType
  <2> QED
    BY <1>3, <1>4, <2>1
<1>5. CASE Silent
  BY <1>1, <1>2, <1>5 DEF Silent
<1>6. CASE InitialDrained \/ InitialDrainFails \/ SampleAgain \/ StopExhausted
             \/ PreparedForRefit \/ DrainFails \/ Drained \/ SaveCheckpoint
  <2>1. UNCHANGED mailbox /\ reply' = NoReply
    BY <1>6 DEF InitialDrained, InitialDrainFails, SampleAgain, StopExhausted,
         PreparedForRefit, DrainFails, Drained, SaveCheckpoint, Answered
  <2>2. NoReply \in Replies
    BY DEF NoReply, Answer, Replies
  <2> QED
    BY <1>2, <2>1, <2>2
<1>7. CASE InitialRefit
  BY <1>4, <1>5, <1>7 DEF InitialRefit, Operations
<1>8. CASE FinishInitialValidation \/ FinishValidation
  BY <1>4, <1>8 DEF FinishInitialValidation, FinishValidation, Operations
<1>9. CASE SampleWaits
  BY <1>4, <1>9 DEF SampleWaits, Operations
<1>10. CASE Train
  BY <1>4, <1>10 DEF Train, Operations
<1>11. CASE FinishRefit
  <2> DEFINE resumed == <<[op |-> "set_weight_version", arg |-> weightVersion + 1],
                          Call("resume_after_refit")>>
  <2>1. weightVersion + 1 \in Steps
    BY <1>11, ConstantTypes DEF FinishRefit, TrainerShape, Halted, TrainerTypeOK
  <2>2. \/ Send(Append(resumed, Call("pause_and_drain")))
        \/ Send(Append(resumed, Call("pause")))
        \/ Send(resumed)
    BY <1>11 DEF FinishRefit
  <2>3. /\ resumed \in Seq(Messages) /\ NotStart(resumed)
        /\ \A op \in {"pause_and_drain", "pause"} :
              /\ Append(resumed, Call(op)) \in Seq(Messages)
              /\ NotStart(Append(resumed, Call(op)))
    BY <2>1, ResumedCallsType DEF Operations
  <2> HIDE DEF resumed
  <2> QED
    BY <1>3, <2>2, <2>3
<1>12. CASE DecideSave
  BY <1>4, <1>5, <1>12 DEF DecideSave, Operations
<1>13. CASE InitialRefitFails \/ InitialWakeUpFails \/ FinishFill \/ FillWaits
              \/ FillFails \/ SampleStep \/ SampleFails \/ RefitFails
              \/ ValidationFails \/ FinishStep \/ StatsFail
  BY <1>5, <1>13 DEF InitialRefitFails, InitialWakeUpFails, FinishFill, FillWaits,
       FillFails, SampleStep, SampleFails, RefitFails, ValidationFails, FinishStep,
       StatsFail
<1> QED
  BY <1>6, <1>7, <1>8, <1>9, <1>10, <1>11, <1>12, <1>13
     DEF TrainerStep, ControlStep

(* ... and to the driver's own variables.                                  *)
LEMMA TrainerProgressType ==
    ASSUME TypeInv, TrainerStep
    PROVE  /\ TrainerTypeOK' /\ TrainerShape'
           /\ alive' \in BOOLEAN
           /\ engineWeights' \in Steps \cup {DummyWeights}
<1> DEFINE Goal == /\ TrainerTypeOK' /\ TrainerShape'
                   /\ alive' \in BOOLEAN
                   /\ engineWeights' \in Steps \cup {DummyWeights}
<1> USE DEF TypeInv, TypeOK
<1>1. /\ TrainerTypeOK /\ TrainerShape /\ alive \in BOOLEAN
      /\ engineWeights \in Steps \cup {DummyWeights}
  BY DEF ActorTypeOK
<1>2. CASE ControlStep /\ UNCHANGED <<engineWeights, progressVars>>
  <2>1. alive' \in BOOLEAN /\ trainerPc' \in TrainerPcs
    BY <1>1, <1>2 DEF ControlStep, InitialRefitFails, InitialDrained,
         InitialDrainFails, FinishInitialValidation, InitialWakeUpFails, FinishFill,
         FillWaits, FillFails, SampleFails, SampleWaits, SampleAgain, StopExhausted,
         PreparedForRefit, DrainFails, RefitFails, Drained, FinishValidation,
         ValidationFails, StatsFail, Advance, Leave, TrainerPcs, WaitingPcs,
         RefittedPcs
  <2>2. \/ trainerPc' \in {"stopped", "failed"}
        \/ trainerPc \in BeforeTrainPcs /\ trainerPc' \in BeforeTrainPcs
        \/ trainerPc = "prepare_refit" /\ trainerPc' = "refit"
        \/ trainerPc \in RefittedPcs /\ trainerPc' \in RefittedPcs
    BY <1>2 DEF ControlStep, InitialRefitFails, InitialDrained,
         InitialDrainFails, FinishInitialValidation, InitialWakeUpFails, FinishFill,
         FillWaits, FillFails, SampleFails, SampleWaits, SampleAgain, StopExhausted,
         PreparedForRefit, DrainFails, RefitFails, Drained, FinishValidation,
         ValidationFails, StatsFail, Advance, Leave, Answered, BeforeTrainPcs,
         RefittedPcs
  <2>3. TrainerTypeOK'
    BY <1>1, <1>2, <2>1 DEF TrainerTypeOK, progressVars
  <2>4. TrainerShape'
    BY <1>1, <1>2, <2>2 DEF TrainerShape, Halted, progressVars, BeforeTrainPcs,
         RefittedPcs
  <2> QED
    BY <1>1, <1>2, <2>1, <2>3, <2>4
<1>3. CASE InitialRefit /\ UNCHANGED progressVars
  BY <1>1, <1>3 DEF InitialRefit, Refit, Advance, TrainerTypeOK, TrainerShape,
       TrainerPcs, WaitingPcs, RefittedPcs, BeforeTrainPcs, Halted, progressVars
<1>4. CASE SampleStep /\ UNCHANGED <<engineWeights, progressVars>>
  BY <1>1, <1>4 DEF SampleStep, Advance, TrainerTypeOK, TrainerShape,
       TrainerPcs, WaitingPcs, RefittedPcs, BeforeTrainPcs, Halted, progressVars
<1>5. CASE FinishRefit /\ UNCHANGED <<step, policyWeights, timedOut, saved>>
  BY <1>1, <1>5, ConstantTypes DEF FinishRefit, Refit, Advance, TrainerTypeOK,
       TrainerShape, TrainerPcs, WaitingPcs, RefittedPcs, BeforeTrainPcs, Halted
<1>6. CASE Train /\ UNCHANGED <<step, weightVersion, timedOut, saved, engineWeights>>
  BY <1>1, <1>6, ConstantTypes DEF Train, Advance, TrainerTypeOK,
       TrainerShape, TrainerPcs, WaitingPcs, RefittedPcs, BeforeTrainPcs, Halted
<1>7. CASE DecideSave
             /\ UNCHANGED <<step, weightVersion, policyWeights, saved, engineWeights>>
  BY <1>1, <1>7 DEF DecideSave, Advance, TrainerTypeOK, TrainerShape,
       TrainerPcs, WaitingPcs, RefittedPcs, BeforeTrainPcs, Halted
<1>8. CASE SaveCheckpoint
        /\ UNCHANGED <<step, weightVersion, policyWeights, timedOut, engineWeights>>
  <2>1. saved' \in [step : Steps, batches : Nat]
    BY <1>1, <1>8, ConstantTypes DEF SaveCheckpoint, Answered, TrainerTypeOK,
         TrainerShape, Halted, ActorTypeOK, Replies
  <2> QED
    BY <1>1, <1>8, <2>1 DEF SaveCheckpoint, Answered, Advance, TrainerTypeOK,
       TrainerShape, TrainerPcs, WaitingPcs, RefittedPcs, BeforeTrainPcs, Halted
<1>9. CASE FinishStep
        /\ UNCHANGED <<weightVersion, policyWeights, timedOut, saved, engineWeights>>
  <2>1. step < MaxNumSteps /\ weightVersion = step + 1 /\ policyWeights = step + 1
    BY <1>1, <1>9 DEF FinishStep, TrainerShape, RefittedPcs, Halted
  <2>2. step' = step + 1 /\ step' \in Steps
    BY <1>1, <1>9, <2>1, ConstantTypes DEF FinishStep, TrainerTypeOK
  <2>3. \/ trainerPc' = "stopped" /\ alive' = FALSE
        \/ trainerPc' = "sample" /\ alive' = alive /\ step + 1 < MaxNumSteps
    BY <1>1, <1>9, <2>2, ConstantTypes DEF FinishStep, Advance, Leave, TrainerTypeOK
  <2>4. TrainerTypeOK'
    BY <1>1, <1>9, <2>2, <2>3 DEF TrainerTypeOK, TrainerPcs
  <2>5. TrainerShape'
    BY <1>9, <2>1, <2>2, <2>3 DEF TrainerShape, RefittedPcs, BeforeTrainPcs, Halted
  <2> QED
    BY <1>1, <1>9, <2>3, <2>4, <2>5
<1> QED
  BY <1>2, <1>3, <1>4, <1>5, <1>6, <1>7, <1>8, <1>9 DEF TrainerStep

LEMMA TrainerStepType ==
    ASSUME TypeInv, TrainerStep
    PROVE  TypeInv'
<1> USE DEF TypeInv, TypeOK
<1>1. AttributeTypeOK' /\ LoopTypeOK' /\ LoopShape'
  BY DEF TrainerStep, AttributeTypeOK, LoopTypeOK, LoopShape, attributeVars,
       pauseVars, limitVars, threadVars, epochVars, loopVars, drawVars, readVars
<1>2. BufferTypeOK'
  BY DEF TrainerStep, BufferTypeOK, bufferVars, SampleStep, Sample
<1>3. ActorTypeOK'
  BY TrainerCallsType, TrainerProgressType DEF TrainerStep, ActorTypeOK, loopVars
<1> QED
  BY <1>1, <1>2, <1>3, TrainerCallsType, TrainerProgressType

-----------------------------------------------------------------------------
LEMMA TypeStep ==
    ASSUME TypeInv, [Next]_vars
    PROVE  TypeInv'
<1>1. CASE TrainerStep
  BY <1>1, TrainerStepType
<1>2. CASE CollectorStep /\ UNCHANGED trainerVars
  BY <1>2, LoopStepType, WorkerStepType, DeliverErrorReportType, ActorStepType
     DEF CollectorStep
<1>3. CASE UNCHANGED vars
  BY <1>3 DEF TypeInv, TypeOK, BufferTypeOK, AttributeTypeOK, LoopTypeOK,
       ActorTypeOK, TrainerTypeOK, LoopShape, TrainerShape, StartedOnce, Halted,
       vars, bufferVars, collectorVars, attributeVars, pauseVars, limitVars,
       threadVars, epochVars, loopVars, drawVars, readVars, actorVars,
       trainerVars, progressVars
<1> QED
  BY <1>1, <1>2, <1>3 DEF Next, Ended

LEMMA TypeInvariant == Spec => []TypeInv
BY TypeInit, TypeStep, PTL DEF Spec

(* Every variable has its type in every reachable state: the weight        *)
(* versions of the driver, the collector and the engine stay within the    *)
(* run, the target versions the collector reserves within                  *)
(* max_trajectory_age_steps of it, and no batch is drawn past the last     *)
(* epoch.                                                                  *)
THEOREM TypeCorrect == Spec => []TypeOK
BY TypeInvariant, PTL DEF TypeInv

-----------------------------------------------------------------------------
(* The driver's calls and the collector's answers pair up.                 *)

(* What a step of the actor's thread does to the queue and the answer.     *)
LEMMA ActorMoves ==
    ASSUME ActorStep
    PROVE  \/ \E op \in Operations \ Blocking :
                Takes(op) /\ reply' = reply /\ actorPc' \in {"idle", "signal_limit"}
           \/ \E op \in Blocking :
                /\ Takes(op)
                /\ \/ reply' # NoReply /\ actorPc' = "idle"
                   \/ reply' = reply /\ actorPc' = "draining"
           \/ actorPc = "signal_limit" /\ actorPc' = "idle" /\ UNCHANGED <<mailbox, reply>>
           \/ actorPc = "draining" /\ actorPc' = "idle" /\ reply' # NoReply
                /\ UNCHANGED mailbox
           \/ UNCHANGED actorVars
<1>1. CASE StartCollection \/ SetWeightVersion \/ Pause \/ Resume \/ ResumeAfterRefit
  BY <1>1 DEF StartCollection, SetWeightVersion, Pause, Resume, SetManualPause,
       ResumeAfterRefit, Takes, Operations, Blocking
<1>2. CASE PauseAndDrain
  BY <1>2 DEF PauseAndDrain, SetManualPause, Blocking
<1>3. CASE PrepareForRefit
  BY <1>3 DEF PrepareForRefit, Takes, Blocking, Answer, NoReply
<1>4. CASE IsExhausted
  BY <1>4 DEF IsExhausted, Takes, Blocking, Answer, NoReply
<1>5. CASE GetDataloaderState
  BY <1>5 DEF GetDataloaderState, Takes, Blocking, Answer, NoReply
<1>6. CASE SignalLimitCleared
  BY <1>6 DEF SignalLimitCleared
<1>7. CASE FinishDrain
  BY <1>7 DEF FinishDrain, Answer, NoReply
<1>8. CASE PollDrain
  BY <1>8 DEF PollDrain
<1> QED
  BY <1>1, <1>2, <1>3, <1>4, <1>5, <1>6, <1>7, <1>8 DEF ActorStep

LEMMA ActorKeepsCallsPairUp ==
    ASSUME TypeInv, CallsPairUp, ActorStep, UNCHANGED trainerVars
    PROVE  CallsPairUp'
<1>1. mailbox \in Seq(Messages) /\ Len(mailbox) \in Nat /\ trainerPc' = trainerPc
  BY LenProperties DEF TypeInv, TypeOK, ActorTypeOK, trainerVars
<1>2. (Len(mailbox) = 0 <=> mailbox = <<>>)
  BY <1>1, EmptySeq
<1>3. Awaited' = Awaited /\ (Halted' <=> Halted)
  BY <1>1 DEF Awaited, Halted
<1>4. CASE UNCHANGED actorVars
  BY <1>1, <1>3, <1>4 DEF CallsPairUp, CallQueued, CallBeingServed, CallAnswered,
       actorVars
<1>5. CASE actorPc = "signal_limit" /\ actorPc' = "idle" /\ UNCHANGED <<mailbox, reply>>
  BY <1>1, <1>3, <1>5 DEF CallsPairUp, CallQueued, CallBeingServed, CallAnswered
<1>6. CASE actorPc = "draining" /\ actorPc' = "idle" /\ reply' # NoReply
             /\ UNCHANGED mailbox
  BY <1>1, <1>3, <1>6 DEF CallsPairUp, CallQueued, CallBeingServed, CallAnswered
<1>7. ASSUME NEW op \in Operations, Takes(op),
             op \in Blocking =>
                \/ reply' # NoReply /\ actorPc' = "idle"
                \/ reply' = reply /\ actorPc' = "draining",
             op \notin Blocking =>
                reply' = reply /\ actorPc' \in {"idle", "signal_limit"}
      PROVE  CallsPairUp'
  <2>1. /\ mailbox' \in Seq(Messages)
        /\ Len(mailbox') \in Nat
        /\ Len(mailbox) = Len(mailbox') + 1
        /\ \A i \in 1 .. Len(mailbox') : mailbox'[i] = mailbox[i + 1]
        /\ mailbox[1].op = op
    BY <1>1, <1>7, TakesHead
  <2>2. /\ actorPc = "idle" /\ mailbox # <<>>
        /\ Len(mailbox') = 0 <=> mailbox' = <<>>
    BY <1>7, <2>1, EmptySeq DEF Takes
  <2>3. CASE trainerPc \notin WaitingPcs /\ ~Halted
    <3>1. op \notin Blocking
      BY <2>1, <2>3 DEF CallsPairUp
    <3>2. \A i \in 1 .. Len(mailbox') : mailbox'[i].op \notin Blocking
      BY <2>1, <2>3 DEF CallsPairUp
    <3> QED
      BY <1>1, <1>3, <1>7, <2>3, <3>1, <3>2 DEF CallsPairUp
  <2>4. CASE trainerPc \in WaitingPcs
    <3>1. CallQueued
      BY <2>2, <2>4 DEF CallsPairUp, CallBeingServed, CallAnswered
    <3>2. CASE Len(mailbox') = 0
      <4>1. op \in Blocking
        BY <2>1, <3>1, <3>2 DEF CallQueued, Awaited, Blocking
      <4> QED
        BY <1>1, <1>7, <2>2, <2>4, <3>1, <3>2, <4>1 DEF CallsPairUp, CallQueued,
           CallBeingServed, CallAnswered, Halted, WaitingPcs
    <3>3. CASE Len(mailbox') # 0
      <4>1. op \notin Blocking
        BY <2>1, <3>1, <3>3 DEF CallQueued
      <4>2. mailbox'[Len(mailbox')].op = Awaited
        BY <2>1, <3>1, <3>3 DEF CallQueued
      <4>3. \A i \in 1 .. Len(mailbox') - 1 : mailbox'[i].op \notin Blocking
        BY <2>1, <3>1, <3>3 DEF CallQueued
      <4>4. CallQueued'
        BY <1>3, <1>7, <2>2, <3>1, <3>3, <4>1, <4>2, <4>3 DEF CallQueued
      <4> QED
        BY <1>1, <2>4, <4>4 DEF CallsPairUp, Halted, WaitingPcs
    <3> QED
      BY <3>2, <3>3
  <2>5. CASE Halted
    BY <1>1, <1>3, <2>5 DEF CallsPairUp, Halted, WaitingPcs
  <2> QED
    BY <2>3, <2>4, <2>5
<1>8. CASE \E op \in Operations \ Blocking :
              Takes(op) /\ reply' = reply /\ actorPc' \in {"idle", "signal_limit"}
  BY <1>7, <1>8
<1>9. CASE \E op \in Blocking :
              /\ Takes(op)
              /\ \/ reply' # NoReply /\ actorPc' = "idle"
                 \/ reply' = reply /\ actorPc' = "draining"
  BY <1>7, <1>9 DEF Blocking, Operations
<1> QED
  BY <1>4, <1>5, <1>6, <1>8, <1>9, ActorMoves

NoBlocking(calls) == \A i \in 1 .. Len(calls) : calls[i].op \notin Blocking

(* The calls end with one that the driver waits for, and with no other.    *)
EndsBlocking(calls, op) ==
    /\ Len(calls) > 0
    /\ calls[Len(calls)].op = op
    /\ \A i \in 1 .. Len(calls) - 1 : calls[i].op \notin Blocking

LEMMA OneCallBlocking ==
    ASSUME NEW op \in Operations
    PROVE  /\ <<Call(op)>> \in Seq(Messages)
           /\ op \notin Blocking => NoBlocking(<<Call(op)>>)
           /\ EndsBlocking(<<Call(op)>>, op)
BY CallType DEF NoBlocking, EndsBlocking, Call

LEMMA ResumedCallsBlocking ==
    ASSUME NEW v \in Steps
    PROVE  LET resumed == <<[op |-> "set_weight_version", arg |-> v],
                            Call("resume_after_refit")>>
           IN  /\ resumed \in Seq(Messages) /\ NoBlocking(resumed)
               /\ Append(resumed, Call("pause")) \in Seq(Messages)
               /\ NoBlocking(Append(resumed, Call("pause")))
               /\ Append(resumed, Call("pause_and_drain")) \in Seq(Messages)
               /\ EndsBlocking(Append(resumed, Call("pause_and_drain")), "pause_and_drain")
<1> DEFINE resumed == <<[op |-> "set_weight_version", arg |-> v],
                        Call("resume_after_refit")>>
<1>1. resumed \in Seq(Messages) /\ NoBlocking(resumed)
  BY CallType DEF NoBlocking, Blocking, Call, Messages, Operations
<1>2. Call("pause").op = "pause" /\ Call("pause_and_drain").op = "pause_and_drain"
  BY DEF Call
<1>3. Call("pause") \in Messages /\ Call("pause_and_drain") \in Messages
  BY CallType DEF Operations
<1> HIDE DEF resumed
<1>4. ASSUME NEW m \in Messages
      PROVE  /\ Append(resumed, m) \in Seq(Messages)
             /\ Len(Append(resumed, m)) = Len(resumed) + 1
             /\ \A i \in 1 .. Len(resumed) : Append(resumed, m)[i].op \notin Blocking
             /\ Append(resumed, m)[Len(resumed) + 1] = m
  BY <1>1, AppendProperties DEF NoBlocking
<1>5. NoBlocking(Append(resumed, Call("pause")))
  BY <1>1, <1>2, <1>3, <1>4, LenProperties DEF NoBlocking, Blocking
<1>6. EndsBlocking(Append(resumed, Call("pause_and_drain")), "pause_and_drain")
  BY <1>1, <1>2, <1>3, <1>4, LenProperties DEF EndsBlocking
<1> QED
  BY <1>1, <1>3, <1>4, <1>5, <1>6 DEF resumed

(* What a step of the driver does to the queue and the answer.             *)
LEMMA TrainerMoves ==
    ASSUME TypeInv, TrainerStep
    PROVE  \/ /\ trainerPc \in WaitingPcs /\ trainerPc' \notin WaitingPcs
              /\ reply.kind # "none" /\ reply' = NoReply /\ UNCHANGED mailbox
           \/ /\ trainerPc \notin WaitingPcs /\ ~Halted /\ trainerPc' \notin WaitingPcs
              /\ UNCHANGED <<mailbox, reply>>
           \/ /\ trainerPc \notin WaitingPcs /\ ~Halted /\ trainerPc' \notin WaitingPcs
              /\ \E calls \in Seq(Messages) : Send(calls) /\ NoBlocking(calls)
           \/ /\ trainerPc \notin WaitingPcs /\ ~Halted /\ trainerPc' \in WaitingPcs
              /\ \E calls \in Seq(Messages) : Send(calls) /\ EndsBlocking(calls, Awaited')
<1> USE DEF WaitingPcs, Halted, Advance, Leave
<1>1. CASE InitialDrained \/ InitialDrainFails \/ SampleAgain \/ StopExhausted
             \/ PreparedForRefit \/ DrainFails \/ Drained \/ SaveCheckpoint
  BY <1>1 DEF InitialDrained, InitialDrainFails, SampleAgain, StopExhausted,
     PreparedForRefit, DrainFails, Drained, SaveCheckpoint, Answered
<1>2. CASE InitialRefitFails \/ InitialWakeUpFails \/ FinishFill \/ FillWaits
             \/ FillFails \/ SampleStep \/ SampleFails \/ RefitFails
             \/ ValidationFails \/ FinishStep \/ StatsFail
  BY <1>2 DEF InitialRefitFails, InitialWakeUpFails, FinishFill, FillWaits,
     FillFails, SampleStep, SampleFails, RefitFails, ValidationFails, FinishStep,
     StatsFail, Silent
<1>3. CASE InitialRefit
  <2>1. \/ trainerPc' = "fill" /\ UNCHANGED <<mailbox, reply>>
        \/ trainerPc' = "initial_drain" /\ Send(<<Call("pause_and_drain")>>)
        \/ trainerPc' = "initial_validation" /\ Send(<<Call("pause")>>)
    BY <1>3 DEF InitialRefit, Silent
  <2>2. /\ <<Call("pause_and_drain")>> \in Seq(Messages)
        /\ EndsBlocking(<<Call("pause_and_drain")>>, "pause_and_drain")
        /\ <<Call("pause")>> \in Seq(Messages) /\ NoBlocking(<<Call("pause")>>)
    BY OneCallBlocking DEF Operations, Blocking
  <2> QED
    BY <1>3, <2>1, <2>2 DEF InitialRefit, Awaited
<1>4. CASE FinishInitialValidation \/ FinishValidation
  <2>1. <<Call("resume")>> \in Seq(Messages) /\ NoBlocking(<<Call("resume")>>)
    BY OneCallBlocking DEF Operations, Blocking
  <2> QED
    BY <1>4, <2>1 DEF FinishInitialValidation, FinishValidation
<1>5. CASE SampleWaits
  <2>1. /\ <<Call("is_exhausted")>> \in Seq(Messages)
        /\ EndsBlocking(<<Call("is_exhausted")>>, "is_exhausted")
    BY OneCallBlocking DEF Operations
  <2> QED
    BY <1>5, <2>1 DEF SampleWaits, Awaited
<1>6. CASE Train
  <2>1. /\ <<Call("prepare_for_refit")>> \in Seq(Messages)
        /\ EndsBlocking(<<Call("prepare_for_refit")>>, "prepare_for_refit")
    BY OneCallBlocking DEF Operations
  <2> QED
    BY <1>6, <2>1 DEF Train, Awaited
<1>7. CASE FinishRefit
  <2> DEFINE resumed == <<[op |-> "set_weight_version", arg |-> weightVersion + 1],
                          Call("resume_after_refit")>>
  <2>1. weightVersion + 1 \in Steps
    BY <1>7, ConstantTypes DEF FinishRefit, TypeInv, TypeOK, TrainerShape,
       TrainerTypeOK
  <2>2. \/ trainerPc' = "drain" /\ Send(Append(resumed, Call("pause_and_drain")))
        \/ trainerPc' = "validation" /\ Send(Append(resumed, Call("pause")))
        \/ trainerPc' = "save" /\ Send(resumed)
    BY <1>7 DEF FinishRefit
  <2>3. /\ resumed \in Seq(Messages) /\ NoBlocking(resumed)
        /\ Append(resumed, Call("pause")) \in Seq(Messages)
        /\ NoBlocking(Append(resumed, Call("pause")))
        /\ Append(resumed, Call("pause_and_drain")) \in Seq(Messages)
        /\ EndsBlocking(Append(resumed, Call("pause_and_drain")), "pause_and_drain")
    BY <2>1, ResumedCallsBlocking
  <2> HIDE DEF resumed
  <2> QED
    BY <1>7, <2>2, <2>3 DEF FinishRefit, Awaited
<1>8. CASE DecideSave
  <2>1. /\ <<Call("get_dataloader_state")>> \in Seq(Messages)
        /\ EndsBlocking(<<Call("get_dataloader_state")>>, "get_dataloader_state")
    BY OneCallBlocking DEF Operations
  <2>2. \/ trainerPc' = "saving" /\ Send(<<Call("get_dataloader_state")>>)
        \/ trainerPc' = "stats" /\ UNCHANGED <<mailbox, reply>>
    BY <1>8 DEF DecideSave, Silent
  <2> QED
    BY <1>8, <2>1, <2>2 DEF DecideSave, Awaited
<1> QED
  BY <1>1, <1>2, <1>3, <1>4, <1>5, <1>6, <1>7, <1>8 DEF TrainerStep, ControlStep

LEMMA SentCalls ==
    ASSUME mailbox \in Seq(Messages), NoBlocking(mailbox),
           NEW calls \in Seq(Messages), mailbox' = mailbox \o calls
    PROVE  /\ NoBlocking(calls) => NoBlocking(mailbox')
           /\ \A op : EndsBlocking(calls, op) => EndsBlocking(mailbox', op) /\ mailbox' # <<>>
<1>1. /\ mailbox' \in Seq(Messages)
      /\ Len(mailbox') = Len(mailbox) + Len(calls)
      /\ \A i \in 1 .. Len(mailbox) + Len(calls) :
            mailbox'[i] = IF i <= Len(mailbox) THEN mailbox[i]
                          ELSE calls[i - Len(mailbox)]
  BY ConcatProperties
<1>2. Len(mailbox) \in Nat /\ Len(calls) \in Nat
  BY LenProperties
<1>3. ASSUME NoBlocking(calls)
      PROVE  NoBlocking(mailbox')
  <2>1. ASSUME NEW i \in 1 .. Len(mailbox')
        PROVE  mailbox'[i].op \notin Blocking
    <3>1. CASE i <= Len(mailbox)
      BY <1>1, <1>2, <2>1, <3>1 DEF NoBlocking
    <3>2. CASE i > Len(mailbox)
      <4>1. i - Len(mailbox) \in 1 .. Len(calls)
        BY <1>1, <1>2, <2>1, <3>2
      <4>2. mailbox'[i] = calls[i - Len(mailbox)]
        BY <1>1, <1>2, <2>1, <3>2
      <4> QED
        BY <1>3, <4>1, <4>2 DEF NoBlocking
    <3> QED
      BY <1>1, <1>2, <3>1, <3>2
  <2> QED
    BY <2>1 DEF NoBlocking
<1>4. ASSUME NEW op, EndsBlocking(calls, op)
      PROVE  EndsBlocking(mailbox', op) /\ mailbox' # <<>>
  <2>1. Len(mailbox') > 0 /\ mailbox' # <<>>
    BY <1>1, <1>2, <1>4, EmptySeq DEF EndsBlocking
  <2>2. mailbox'[Len(mailbox')].op = op
    <3>1. /\ Len(mailbox') \in 1 .. Len(mailbox) + Len(calls)
          /\ Len(mailbox') > Len(mailbox)
          /\ Len(mailbox') - Len(mailbox) = Len(calls)
      BY <1>1, <1>2, <1>4 DEF EndsBlocking
    <3>2. mailbox'[Len(mailbox')] = calls[Len(calls)]
      BY <1>1, <1>2, <3>1
    <3> QED
      BY <1>4, <3>2 DEF EndsBlocking
  <2>3. ASSUME NEW i \in 1 .. Len(mailbox') - 1
        PROVE  mailbox'[i].op \notin Blocking
    <3>1. CASE i <= Len(mailbox)
      BY <1>1, <1>2, <2>3, <3>1 DEF NoBlocking
    <3>2. CASE i > Len(mailbox)
      <4>1. i - Len(mailbox) \in 1 .. Len(calls) - 1
        BY <1>1, <1>2, <2>3, <3>2
      <4>2. mailbox'[i] = calls[i - Len(mailbox)]
        BY <1>1, <1>2, <2>3, <3>2
      <4> QED
        BY <1>4, <4>1, <4>2 DEF EndsBlocking
    <3> QED
      BY <1>1, <1>2, <3>1, <3>2
  <2> QED
    BY <2>1, <2>2, <2>3 DEF EndsBlocking
<1> QED
  BY <1>3, <1>4

LEMMA TrainerKeepsCallsPairUp ==
    ASSUME TypeInv, CallsPairUp, TrainerStep
    PROVE  CallsPairUp'
<1>1. mailbox \in Seq(Messages) /\ actorPc' = actorPc
  BY DEF TypeInv, TypeOK, ActorTypeOK, TrainerStep
<1>2. CASE /\ trainerPc \in WaitingPcs /\ trainerPc' \notin WaitingPcs
           /\ reply.kind # "none" /\ reply' = NoReply /\ UNCHANGED mailbox
  <2>1. CallAnswered
    BY <1>2 DEF CallsPairUp, CallQueued, CallBeingServed, NoReply, Answer
  <2> QED
    BY <1>1, <1>2, <2>1, EmptySeq DEF CallsPairUp, CallAnswered
<1>3. CASE /\ trainerPc \notin WaitingPcs /\ ~Halted /\ trainerPc' \notin WaitingPcs
           /\ UNCHANGED <<mailbox, reply>>
  BY <1>1, <1>3 DEF CallsPairUp
<1>4. ASSUME trainerPc \notin WaitingPcs, ~Halted, trainerPc' \notin WaitingPcs,
             NEW calls \in Seq(Messages), Send(calls), NoBlocking(calls)
      PROVE  CallsPairUp'
  <2>1. NoBlocking(mailbox) /\ actorPc # "draining" /\ reply = NoReply
    BY <1>4 DEF CallsPairUp, NoBlocking
  <2>2. NoBlocking(mailbox')
    BY <1>1, <1>4, <2>1, SentCalls DEF Send
  <2> QED
    BY <1>1, <1>4, <2>1, <2>2 DEF CallsPairUp, Send, NoBlocking
<1>5. ASSUME trainerPc \notin WaitingPcs, ~Halted, trainerPc' \in WaitingPcs,
             NEW calls \in Seq(Messages), Send(calls), EndsBlocking(calls, Awaited')
      PROVE  CallsPairUp'
  <2>1. NoBlocking(mailbox) /\ actorPc # "draining" /\ reply = NoReply
    BY <1>5 DEF CallsPairUp, NoBlocking
  <2>2. EndsBlocking(mailbox', Awaited') /\ mailbox' # <<>>
    BY <1>1, <1>5, <2>1, SentCalls DEF Send
  <2>3. CallQueued'
    BY <1>1, <1>5, <2>1, <2>2 DEF CallQueued, EndsBlocking, Send
  <2> QED
    BY <1>5, <2>3 DEF CallsPairUp
<1> QED
  BY <1>2, <1>3, <1>4, <1>5, TrainerMoves

LEMMA CallsPairUpInit == Init => CallsPairUp
<1> SUFFICES ASSUME Init PROVE CallsPairUp
  OBVIOUS
<1>1. \A i \in 1 .. Len(mailbox) : mailbox[i].op \notin Blocking
  BY DEF Init, Call, Blocking
<1>2. trainerPc = "initial_refit" /\ actorPc = "idle" /\ reply = NoReply
  BY DEF Init, CollectorInit
<1> QED
  BY <1>1, <1>2 DEF CallsPairUp, WaitingPcs

LEMMA CallsPairUpStep ==
    ASSUME TypeInv, CallsPairUp, [Next]_vars
    PROVE  CallsPairUp'
<1>1. CASE TrainerStep
  BY <1>1, TrainerKeepsCallsPairUp
<1>2. CASE ActorStep /\ UNCHANGED trainerVars
  BY <1>2, ActorKeepsCallsPairUp
<1>3. CASE UNCHANGED <<actorVars, trainerVars>>
  <2>1. UNCHANGED <<mailbox, actorPc, reply, trainerPc>>
    BY <1>3 DEF actorVars, trainerVars
  <2> QED
    BY <2>1 DEF CallsPairUp, CallQueued, CallBeingServed, CallAnswered, Awaited,
       Halted
<1>4. CASE (LoopStep \/ (\E g \in Groups : WorkerStep(g)) \/ DeliverErrorReport)
              /\ UNCHANGED trainerVars
  BY <1>3, <1>4 DEF LoopStep, WorkerStep, DeliverErrorReport
<1>5. CASE UNCHANGED vars
  BY <1>3, <1>5 DEF vars, collectorVars
<1> QED
  BY <1>1, <1>2, <1>4, <1>5 DEF Next, CollectorStep, Ended

(* The calls the driver waits for and the answers of the collector never   *)
(* get mixed up: at most one such call is under way, it is the last of the *)
(* queue, and an answer is taken by the caller it is meant for.            *)
THEOREM CallsPair == Spec => []CallsPairUp
BY CallsPairUpInit, CallsPairUpStep, TypeInvariant, PTL DEF Spec

-----------------------------------------------------------------------------
(* Drained validation: why nothing generates while the engine is being     *)
(* reconfigured or asleep.                                                 *)

(* A worker that is generating, or still has its group in hand, is in the  *)
(* in-flight set.                                                          *)
Registered ==
    \A g \in Groups : worker[g].pc \in RegisteredPcs => g \in inflightThreads

(* Nothing runs and nothing can start.                                     *)
Quiesced == ~manualPauseCleared /\ inflightThreads = {}

DrainingPcs == {"initial_drain", "drain"}

(* From the moment the actor serves pause_and_drain no worker starts; its  *)
(* answer says that none is left; and until the driver sends resume there  *)
(* is no call that could let one start.                                    *)
DrainInv ==
    /\ trainerPc \in DrainingPcs /\ actorPc = "draining" => ~manualPauseCleared
    /\ trainerPc \in DrainingPcs /\ reply.kind = "ok" => Quiesced
    /\ ValidationDrains /\ trainerPc \in {"initial_validation", "validation"} =>
          Quiesced /\ mailbox = <<>> /\ actorPc = "idle"

LEMMA RegisteredInit == Init => Registered
BY DEF Init, CollectorInit, Registered, RegisteredPcs

(* Only the loop adds a worker, and only when collection is not paused;    *)
(* the threads it drops do not run.                                        *)
LEMMA LoopRegisters ==
    ASSUME LoopStep
    PROVE  /\ UNCHANGED <<manualPauseCleared, actorVars>>
           /\ \/ UNCHANGED <<worker, inflightThreads>>
              \/ UNCHANGED worker /\ inflightThreads' = LiveThreads
              \/ /\ manualPauseCleared
                 /\ inflightThreads' = inflightThreads \cup {<<batch, promptIdx>>}
                 /\ \E w : worker' = [worker EXCEPT ![<<batch, promptIdx>>] = w]
<1>1. CASE StartWorkerWhenUnpaused
  BY <1>1 DEF LoopStep, StartWorkerWhenUnpaused, RegisterAndStart, pauseVars
<1>2. CASE LaunchFails
  BY <1>2 DEF LoopStep, LaunchFails, pauseVars
<1>3. CASE CleanupFinishedThreads /\ UNCHANGED worker
  BY <1>3 DEF LoopStep, CleanupFinishedThreads, pauseVars
<1>4. CASE ~StartWorkerWhenUnpaused /\ ~LaunchFails /\ ~CleanupFinishedThreads
  BY <1>4 DEF LoopStep, DrawBatch, EndEpoch, LoaderFails, StopCollection, PassGate,
     PassManualPause, PassRefitPause, PassLimitWait, RecheckManualPause,
     PassPromptRefitPause, ReadVersion, ReadLastTarget, CheckLimits, WarnLimit,
     NoteLimit, ClearLimit, ReserveTarget, TestRefit, AcquireInflight,
     attributeVars, pauseVars, threadVars
<1> QED
  BY <1>1, <1>2, <1>3, <1>4 DEF LoopStep

(* A worker leaves the in-flight set last of all.                          *)
LEMMA WorkerRegistered ==
    ASSUME TypeInv, NEW g \in Groups, WorkerStep(g)
    PROVE  /\ UNCHANGED <<manualPauseCleared, actorVars>>
           /\ inflightThreads' \in SUBSET inflightThreads
           /\ \E pc : /\ WorkerGoto(g, pc)
                      /\ pc \in RegisteredPcs =>
                            worker[g].pc \in RegisteredPcs /\ UNCHANGED inflightThreads
           /\ inflightThreads \ {g} \subseteq inflightThreads'
BY DEF WorkerStep, TestRunning, RolloutFails, PushGroup, PushFull,
   ReleaseReservation, Detach, ReleaseInflight, At, RegisteredPcs, attributeVars,
   pauseVars, threadVars

LEMMA RegisteredStep ==
    ASSUME TypeInv, Registered, [Next]_vars
    PROVE  Registered'
<1>0. worker \in [Groups -> Workers]
  BY DEF TypeInv, TypeOK, ActorTypeOK
<1>1. CASE UNCHANGED <<worker, inflightThreads>>
  BY <1>1 DEF Registered
<1>7. CASE UNCHANGED worker /\ inflightThreads' = LiveThreads
  BY <1>7 DEF Registered, LiveThreads, RegisteredPcs
<1>2. CASE LoopStep
  <2>1. CASE UNCHANGED <<worker, inflightThreads>>
    BY <1>1, <2>1
  <2>2. ASSUME NEW w, worker' = [worker EXCEPT ![<<batch, promptIdx>>] = w],
               inflightThreads' = inflightThreads \cup {<<batch, promptIdx>>}
        PROVE  Registered'
    BY <1>0, <2>2 DEF Registered
  <2> QED
    BY <1>2, <1>7, <2>1, <2>2, LoopRegisters
<1>3. ASSUME NEW g \in Groups, WorkerStep(g)
      PROVE  Registered'
  <2>1. PICK pc : /\ worker' = [worker EXCEPT ![g].pc = pc]
                  /\ pc \in RegisteredPcs =>
                        worker[g].pc \in RegisteredPcs /\ UNCHANGED inflightThreads
    BY <1>3, WorkerRegistered DEF WorkerGoto
  <2>2. inflightThreads \ {g} \subseteq inflightThreads'
    BY <1>3, WorkerRegistered
  <2>3. ASSUME NEW h \in Groups, worker'[h].pc \in RegisteredPcs
        PROVE  h \in inflightThreads'
    <3>1. CASE h = g
      <4>1. worker'[g].pc = pc
        BY <1>0, <2>1 DEF Workers
      <4> QED
        BY <2>1, <2>3, <3>1, <4>1 DEF Registered
    <3>2. CASE h # g
      <4>1. worker'[h] = worker[h]
        BY <1>0, <2>1, <3>2
      <4> QED
        BY <2>2, <2>3, <3>2, <4>1 DEF Registered
    <3> QED
      BY <3>1, <3>2
  <2> QED
    BY <2>3 DEF Registered
<1>4. CASE TrainerStep \/ DeliverErrorReport
  BY <1>1, <1>4 DEF TrainerStep, DeliverErrorReport, attributeVars, threadVars
<1>5. CASE ActorStep
  BY <1>1, <1>5, <1>7 DEF ActorStep, StartCollection, SetWeightVersion,
     SignalLimitCleared, Pause, PauseAndDrain, Resume, SetManualPause,
     PrepareForRefit, ResumeAfterRefit, FinishDrain, PollDrain, IsExhausted,
     GetDataloaderState, attributeVars, threadVars
<1>6. CASE UNCHANGED vars
  BY <1>1, <1>6 DEF vars, collectorVars, attributeVars, threadVars
<1> QED
  BY <1>2, <1>3, <1>4, <1>5, <1>6 DEF Next, CollectorStep, Ended

LEMMA DrainInit == Init => DrainInv
BY DEF Init, CollectorInit, DrainInv, DrainingPcs

(* The answer "ok" says that the collector has answered.                   *)
LEMMA OkIsAnAnswer ==
    ASSUME CallsPairUp, trainerPc \in WaitingPcs, reply.kind = "ok"
    PROVE  mailbox = <<>> /\ actorPc = "idle"
BY DEF CallsPairUp, CallQueued, CallBeingServed, CallAnswered, NoReply, Answer

LEMMA CollectorKeepsDrained ==
    ASSUME DrainInv, UNCHANGED <<trainerPc, manualPauseCleared, actorVars>>,
           inflightThreads' \in SUBSET inflightThreads \/ manualPauseCleared
    PROVE  DrainInv'
BY DEF DrainInv, Quiesced, actorVars

LEMMA ActorKeepsDrained ==
    ASSUME TypeInv, CallsPairUp, DrainInv, ActorStep, UNCHANGED trainerVars
    PROVE  DrainInv'
<1>1. trainerPc' = trainerPc
  BY DEF trainerVars
<1>2. ASSUME ValidationDrains, trainerPc \in {"initial_validation", "validation"}
      PROVE  FALSE
  BY <1>2 DEF DrainInv, ActorStep, StartCollection, SetWeightVersion,
     SignalLimitCleared, Pause, PauseAndDrain, Resume, SetManualPause,
     PrepareForRefit, ResumeAfterRefit, FinishDrain, PollDrain, IsExhausted,
     GetDataloaderState, Takes
<1>3. ASSUME trainerPc \in DrainingPcs
      PROVE  /\ actorPc' = "draining" => ~manualPauseCleared'
             /\ reply'.kind = "ok" => Quiesced'
  <2>1. trainerPc \in WaitingPcs /\ Awaited = "pause_and_drain"
    BY <1>3 DEF DrainingPcs, WaitingPcs, Awaited
  <2>2. CASE FinishDrain
    BY <1>3, <2>2 DEF FinishDrain, DrainInv, Quiesced, Answer, pauseVars
  <2>3. CASE PollDrain
    BY <1>3, <2>3 DEF PollDrain, LiveThreads, DrainInv, Quiesced, actorVars,
       pauseVars
  <2>4. CASE SignalLimitCleared
    BY <1>3, <2>4 DEF SignalLimitCleared, DrainInv, Quiesced, pauseVars, threadVars
  <2>5. ASSUME NEW op \in Operations, Takes(op)
        PROVE  /\ reply = NoReply /\ actorPc = "idle"
               /\ op \in Blocking => op = "pause_and_drain"
    <3>1. CallQueued
      BY <2>1, <2>5 DEF CallsPairUp, CallBeingServed, CallAnswered, Takes
    <3>2. mailbox \in Seq(Messages)
      BY DEF TypeInv, TypeOK, ActorTypeOK
    <3>3. Len(mailbox) \in Nat /\ Len(mailbox) >= 1 /\ mailbox[1].op = op
      BY <2>5, <3>2, TakesHead
    <3>4. CASE Len(mailbox) = 1
      BY <2>1, <2>5, <3>1, <3>3, <3>4 DEF CallQueued, Takes
    <3>5. CASE Len(mailbox) # 1
      <4>1. 1 \in 1 .. Len(mailbox) - 1
        <5>1. \A n \in Nat : n >= 1 /\ n # 1 => 1 \in 1 .. n - 1
          OBVIOUS
        <5> QED
          BY <3>3, <3>5, <5>1, Zenon
      <4>2. op \notin Blocking
        BY <3>1, <3>3, <4>1 DEF CallQueued
      <4> QED
        BY <2>5, <3>1, <4>2 DEF CallQueued, Takes
    <3> QED
      BY <3>4, <3>5
  <2>6. NoReply.kind # "ok"
    BY DEF NoReply, Answer
  <2>7. CASE StartCollection \/ SetWeightVersion \/ ResumeAfterRefit
    BY <2>5, <2>6, <2>7 DEF StartCollection, SetWeightVersion, ResumeAfterRefit,
       Operations
  <2>8. CASE Pause \/ PauseAndDrain \/ Resume
    BY <2>5, <2>6, <2>8 DEF Pause, PauseAndDrain, Resume, SetManualPause, Operations
  <2>9. CASE PrepareForRefit \/ IsExhausted \/ GetDataloaderState
    BY <2>5, <2>9 DEF PrepareForRefit, IsExhausted, GetDataloaderState, Operations,
       Blocking
  <2> QED
    BY <2>2, <2>3, <2>4, <2>7, <2>8, <2>9 DEF ActorStep
<1> QED
  BY <1>1, <1>2, <1>3 DEF DrainInv

LEMMA TrainerKeepsDrained ==
    ASSUME TypeInv, CallsPairUp, DrainInv, TrainerStep
    PROVE  DrainInv'
<1>1. UNCHANGED <<manualPauseCleared, inflightThreads, actorPc>>
  BY DEF TrainerStep, attributeVars, pauseVars, threadVars
<1>2. CASE trainerPc' \in DrainingPcs
  <2>1. trainerPc \notin WaitingPcs /\ ~Halted /\ reply' = reply
    BY <1>2, TrainerMoves DEF DrainingPcs, WaitingPcs, Send
  <2>2. actorPc # "draining" /\ reply.kind # "ok"
    BY <2>1 DEF CallsPairUp, NoReply, Answer
  <2> QED
    BY <1>1, <1>2, <2>1, <2>2 DEF DrainInv, DrainingPcs
<1>3. CASE trainerPc' \in {"initial_validation", "validation"} /\ ValidationDrains
  <2>1. /\ trainerPc \in DrainingPcs /\ reply.kind = "ok" /\ UNCHANGED mailbox
    BY <1>3 DEF TrainerStep, ControlStep, InitialRefit, InitialRefitFails, InitialDrained,
       InitialDrainFails, FinishInitialValidation, InitialWakeUpFails, FinishFill,
       FillWaits, FillFails, SampleStep, SampleFails, SampleWaits, SampleAgain,
       StopExhausted, Train, PreparedForRefit, DrainFails, FinishRefit, RefitFails,
       Drained, FinishValidation, ValidationFails, DecideSave, SaveCheckpoint,
       FinishStep, StatsFail, Advance, Leave, Answered, DrainingPcs
  <2>2. mailbox = <<>> /\ actorPc = "idle"
    BY <2>1, OkIsAnAnswer DEF DrainingPcs, WaitingPcs
  <2> QED
    BY <1>1, <1>3, <2>1, <2>2 DEF DrainInv, DrainingPcs, Quiesced
<1>4. CASE trainerPc' \notin DrainingPcs
             /\ ~(trainerPc' \in {"initial_validation", "validation"} /\ ValidationDrains)
  BY <1>4 DEF DrainInv
<1> QED
  BY <1>2, <1>3, <1>4

LEMMA DrainStep ==
    ASSUME TypeInv, CallsPairUp, DrainInv, [Next]_vars
    PROVE  DrainInv'
<1>1. CASE TrainerStep
  BY <1>1, TrainerKeepsDrained
<1>2. CASE ActorStep /\ UNCHANGED trainerVars
  BY <1>2, ActorKeepsDrained
<1>3. CASE LoopStep /\ UNCHANGED trainerVars
  BY <1>3, LoopRegisters, CollectorKeepsDrained DEF trainerVars, LiveThreads
<1>4. CASE (\E g \in Groups : WorkerStep(g)) /\ UNCHANGED trainerVars
  BY <1>4, WorkerRegistered, CollectorKeepsDrained DEF trainerVars
<1>5. CASE DeliverErrorReport /\ UNCHANGED trainerVars
  BY <1>5, CollectorKeepsDrained DEF DeliverErrorReport, trainerVars, attributeVars,
     pauseVars, threadVars
<1>6. CASE UNCHANGED vars
  BY <1>6, CollectorKeepsDrained DEF vars, collectorVars, trainerVars, attributeVars,
     pauseVars, threadVars
<1> QED
  BY <1>1, <1>2, <1>3, <1>4, <1>5, <1>6 DEF Next, CollectorStep, Ended

(* While a validation that reconfigures the engine or puts it to sleep     *)
(* runs, no rollout is being generated, however the calls of the driver,   *)
(* the launching of a batch and the workers interleave.                    *)
THEOREM ValidationIsDrained == Spec => []DrainedValidation
<1>1. DrainInv /\ Registered => DrainedValidation
  BY DEF DrainInv, Registered, Quiesced, DrainedValidation, At, RegisteredPcs
<1> QED
  BY <1>1, RegisteredInit, RegisteredStep, DrainInit, DrainStep, CallsPair,
     TypeInvariant, PTL DEF Spec

-----------------------------------------------------------------------------
(***************************************************************************)
(* The semaphore, the reservations, the weight versions and the ages of    *)
(* what is trained on.                                                     *)
(***************************************************************************)

(* The loop starts every prompt group once.                                *)

(* The groups that have a worker are those of earlier batches and, while   *)
(* the loop has a batch in hand, the prompts of it before promptIdx.       *)
Fresh ==
    \A g \in Groups : worker[g].pc # "none" =>
        /\ g[1] <= batch
        /\ g[1] = batch /\ loopPc \in BatchPcs => g[2] < promptIdx

(* What the launch of a worker does.                                       *)
LEMMA Launch ==
    ASSUME TypeInv, Fresh, StartWorkerWhenUnpaused
    PROVE  /\ <<batch, promptIdx>> \in Groups
           /\ worker[<<batch, promptIdx>>].pc = "none"
           /\ loopPc \in Launching /\ targetWeight \in Targets
           /\ worker' = [worker EXCEPT ![<<batch, promptIdx>>] =
                [pc |-> "rollout", version |-> readVersion,
                 target |-> targetWeight, weights |-> engineWeights]]
           /\ worker'[<<batch, promptIdx>>] =
                [pc |-> "rollout", version |-> readVersion,
                 target |-> targetWeight, weights |-> engineWeights]
           /\ \A h \in Groups \ {<<batch, promptIdx>>} : worker'[h] = worker[h]
           /\ UNCHANGED <<batch, readVersion, currentWeightVersion,
                          generatingTargets, inflightSema>>
           /\ \/ promptIdx' = promptIdx + 1 /\ loopPc' = "prompt"
                 /\ UNCHANGED targetWeight
              \/ loopPc' = "prune" /\ UNCHANGED promptIdx
<1> USE DEF TypeInv, TypeOK, StartWorkerWhenUnpaused, RegisterAndStart, Goto
<1>1. loopPc \in Launching /\ loopPc \in BatchPcs
  BY DEF Launching, BatchPcs, LoopPcs
<1>2. <<batch, promptIdx>> \in Groups
  BY <1>1 DEF Groups, LoopShape, LoopTypeOK
<1>3. promptIdx \in Int /\ batch \in Int
  BY <1>1, ConstantTypes DEF LoopShape, LoopTypeOK, Batches, Prompts
<1>4. worker[<<batch, promptIdx>>].pc = "none"
  BY <1>1, <1>2, <1>3 DEF Fresh
<1>5. worker \in [Groups -> Workers] /\ targetWeight \in Targets
  BY <1>1 DEF ActorTypeOK, LoopShape
<1> QED
  BY <1>1, <1>2, <1>4, <1>5

(* A launch that raises leaves at most a thread that never runs.           *)
LEMMA LaunchRaises ==
    ASSUME TypeInv, Fresh, LaunchFails
    PROVE  /\ <<batch, promptIdx>> \in Groups
           /\ loopPc \in Launching /\ loopPc' = "draw"
           /\ UNCHANGED <<batch, promptIdx, readVersion, currentWeightVersion,
                          generatingTargets, inflightSema>>
           /\ abandonedTargets' = abandonedTargets \cup {targetWeight}
           /\ \/ loopPc # "start_worker" /\ UNCHANGED worker
              \/ /\ loopPc = "start_worker"
                 /\ worker[<<batch, promptIdx>>].pc = "none"
                 /\ worker'[<<batch, promptIdx>>].pc = "unstarted"
           /\ \A h \in Groups \ {<<batch, promptIdx>>} : worker'[h] = worker[h]
           /\ \A h \in Groups : /\ Started(h) => worker'[h] = worker[h]
                               /\ worker'[h].version = worker[h].version
                               /\ worker'[h].target = worker[h].target
                               /\ worker'[h].weights = worker[h].weights
<1> DEFINE new == <<batch, promptIdx>>
<1>1. loopPc \in {"acquire", "start_worker"}
  BY DEF LaunchFails
<1>2. loopPc \in Launching /\ loopPc \in BatchPcs
  BY <1>1 DEF Launching, BatchPcs, LoopPcs
<1>3. new \in Groups
  BY <1>2 DEF Groups, TypeInv, TypeOK, LoopShape, LoopTypeOK
<1>4. promptIdx \in Int /\ batch \in Int
  BY <1>2, ConstantTypes DEF TypeInv, TypeOK, LoopShape, LoopTypeOK, Batches, Prompts
<1>5. worker[new].pc = "none"
  BY <1>2, <1>3, <1>4 DEF Fresh
<1>6. worker \in [Groups -> Workers] /\ worker[new] \in Workers
  BY <1>3 DEF TypeInv, TypeOK, ActorTypeOK
<1>7. /\ loopPc' = "draw"
      /\ UNCHANGED <<batch, promptIdx, readVersion, currentWeightVersion,
                     generatingTargets, inflightSema>>
      /\ abandonedTargets' = abandonedTargets \cup {targetWeight}
  BY DEF LaunchFails, Goto, drawVars
<1>8. CASE loopPc = "acquire"
  <2>1. UNCHANGED worker
    BY <1>8 DEF LaunchFails
  <2> QED
    BY <1>2, <1>3, <1>7, <1>8, <2>1
<1>9. CASE loopPc = "start_worker"
  <2>1. worker' = [worker EXCEPT ![new] = [worker[new] EXCEPT !.pc = "unstarted"]]
    BY <1>9 DEF LaunchFails
  <2> HIDE DEF new
  <2>2. \A h \in Groups \ {new} : worker'[h] = worker[h]
    BY <1>6, <2>1
  <2>3. worker'[new] = [worker[new] EXCEPT !.pc = "unstarted"]
    BY <1>3, <1>6, <2>1
  <2>4. /\ worker'[new].pc = "unstarted"
        /\ worker'[new].version = worker[new].version
        /\ worker'[new].target = worker[new].target
        /\ worker'[new].weights = worker[new].weights
    BY <1>6, <2>3 DEF Workers
  <2>5. ~Started(new)
    BY <1>5 DEF Started
  <2>6. \A h \in Groups : /\ Started(h) => worker'[h] = worker[h]
                         /\ worker'[h].version = worker[h].version
                         /\ worker'[h].target = worker[h].target
                         /\ worker'[h].weights = worker[h].weights
    BY <2>2, <2>4, <2>5
  <2> QED
    BY <1>2, <1>3, <1>5, <1>7, <1>9, <2>2, <2>4, <2>6 DEF new
<1> QED
  BY <1>1, <1>8, <1>9

(* The other steps of the loop: they leave the workers alone.              *)
LEMMA LoopMoves ==
    ASSUME LoopStep, ~StartWorkerWhenUnpaused, ~LaunchFails
    PROVE  /\ UNCHANGED <<worker, abandonedTargets>>
           /\ \/ DrawBatch \/ EndEpoch \/ StopCollection \/ ReserveTarget
              \/ AcquireInflight
              \/ /\ loopPc' \in BatchPcs => loopPc \in BatchPcs
                 /\ loopPc' \in Launching <=> loopPc \in Launching
                 /\ loopPc # "start_worker" /\ loopPc' # "start_worker"
                 /\ UNCHANGED <<batch, promptIdx, targetWeight, inflightSema,
                                generatingTargets, currentWeightVersion>>
                 /\ readVersion' \in {readVersion, currentWeightVersion}
<1> USE DEF BatchPcs, LoopPcs, Launching, Goto, drawVars, readVars,
            attributeVars, threadVars
<1>1. CASE PassManualPause \/ PassRefitPause \/ PassLimitWait
             \/ RecheckManualPause \/ PassPromptRefitPause
  BY <1>1 DEF LoopStep, PassGate, PassManualPause, PassRefitPause, PassLimitWait,
     RecheckManualPause, PassPromptRefitPause
<1>2. CASE ReadVersion("limits", "limits_last") \/ ReadVersion("process", "process_last")
             \/ ReadVersion("prompt_version", "acquire")
  BY <1>2 DEF LoopStep, ReadVersion
<1>3. CASE ReadLastTarget("limits_last", "limits_check")
             \/ ReadLastTarget("process_last", "reserve")
  BY <1>3 DEF LoopStep, ReadLastTarget
<1>4. CASE CheckLimits \/ WarnLimit \/ NoteLimit \/ ClearLimit \/ TestRefit
  BY <1>4 DEF LoopStep, CheckLimits, WarnLimit, NoteLimit, ClearLimit, TestRefit
<1>5. CASE LoaderFails \/ CleanupFinishedThreads
  BY <1>5 DEF LoopStep, LoaderFails, CleanupFinishedThreads
<1> QED
  BY <1>1, <1>2, <1>3, <1>4, <1>5 DEF LoopStep

(* A step of a worker changes only its own record, and of that only pc.    *)
LEMMA WorkerMoves ==
    ASSUME TypeInv, NEW g \in Groups, WorkerStep(g)
    PROVE  /\ Started(g) /\ Started(g)' /\ worker[g].pc # "none"
           /\ worker'[g].version = worker[g].version
           /\ worker'[g].target = worker[g].target
           /\ worker'[g].weights = worker[g].weights
           /\ \A h \in Groups \ {g} : worker'[h] = worker[h]
           /\ UNCHANGED <<loopVars, actorVars, currentWeightVersion, engineWeights>>
<1>1. worker \in [Groups -> Workers]
  BY DEF TypeInv, TypeOK, ActorTypeOK
<1>2. \E pc \in WorkerPcs \ {"none", "unstarted"} : WorkerGoto(g, pc) /\ Started(g)
  BY DEF WorkerStep, TestRunning, RolloutFails, PushGroup, PushFull,
     ReleaseReservation, Detach, ReleaseInflight, At, WorkerPcs, Started
<1>3. UNCHANGED <<loopVars, actorVars, currentWeightVersion, engineWeights>>
  BY DEF WorkerStep, TestRunning, RolloutFails, PushGroup, PushFull,
     ReleaseReservation, Detach, ReleaseInflight, attributeVars
<1>4. PICK pc \in WorkerPcs \ {"none", "unstarted"} :
         worker' = [worker EXCEPT ![g].pc = pc] /\ Started(g)
  BY <1>2 DEF WorkerGoto
<1>5. worker'[g] = [worker[g] EXCEPT !.pc = pc] /\ worker[g] \in Workers
  BY <1>1, <1>4
<1>6. /\ worker'[g].pc = pc
      /\ worker'[g].version = worker[g].version
      /\ worker'[g].target = worker[g].target
      /\ worker'[g].weights = worker[g].weights
  BY <1>5 DEF Workers
<1>7. \A h \in Groups \ {g} : worker'[h] = worker[h]
  BY <1>1, <1>4
<1>8. Started(g)' /\ worker[g].pc # "none"
  BY <1>4, <1>6 DEF Started
<1> QED
  BY <1>3, <1>4, <1>6, <1>7, <1>8

(* What the steps of everybody else leave alone.                           *)
LEMMA OtherMoves ==
    ASSUME [Next]_vars, ~LoopStep, ~\E g \in Groups : WorkerStep(g)
    PROVE  /\ UNCHANGED <<worker, drawVars, readVars, abandonedTargets,
                          generatingTargets, inflightSema>>
           /\ \/ loopPc' = loopPc
              \/ loopPc' = "draw" /\ StartCollection
<1> USE DEF attributeVars, loopVars, threadVars
<1>1. CASE TrainerStep
  BY <1>1 DEF TrainerStep
<1>2. CASE DeliverErrorReport
  BY <1>2 DEF DeliverErrorReport
<1>3. CASE ActorStep
  BY <1>3 DEF ActorStep, StartCollection, SetWeightVersion, SignalLimitCleared,
     Pause, PauseAndDrain, Resume, SetManualPause, PrepareForRefit,
     ResumeAfterRefit, FinishDrain, PollDrain, IsExhausted, GetDataloaderState, Goto
<1>4. CASE UNCHANGED vars
  BY <1>4 DEF vars, collectorVars
<1> QED
  BY <1>1, <1>2, <1>3, <1>4 DEF Next, CollectorStep, Ended

(* Collection starts once.                                                 *)
LEMMA StartedFromUnstarted ==
    ASSUME TypeInv, StartCollection
    PROVE  loopPc = "unstarted"
BY TakesType DEF StartCollection, TypeInv, TypeOK, ActorTypeOK

LEMMA FreshInit == Init => Fresh
BY DEF Init, CollectorInit, Fresh

LEMMA FreshStep ==
    ASSUME TypeInv, Fresh, [Next]_vars
    PROVE  Fresh'
<1>1. /\ batch \in Int /\ promptIdx \in Int
      /\ \A g \in Groups : g[1] \in Int /\ g[2] \in Int /\ g = <<g[1], g[2]>>
  BY ConstantTypes DEF TypeInv, TypeOK, LoopTypeOK, Groups, Batches, Prompts
<1>2. CASE StartWorkerWhenUnpaused
  <2> SUFFICES ASSUME NEW g \in Groups, worker'[g].pc # "none"
               PROVE  /\ g[1] <= batch'
                      /\ g[1] = batch' /\ loopPc' \in BatchPcs => g[2] < promptIdx'
    BY DEF Fresh
  <2>1. loopPc' \in BatchPcs => promptIdx' = promptIdx + 1
    BY <1>2, Launch DEF BatchPcs
  <2>2. loopPc \in BatchPcs /\ batch' = batch
    BY <1>2, Launch DEF Launching, BatchPcs, LoopPcs
  <2>3. CASE g = <<batch, promptIdx>>
    BY <1>1, <2>1, <2>2, <2>3
  <2>4. CASE g # <<batch, promptIdx>>
    <3>1. worker[g].pc # "none"
      BY <1>2, <2>4, Launch
    <3> QED
      BY <1>1, <2>1, <2>2, <3>1 DEF Fresh
  <2> QED
    BY <2>3, <2>4
<1>6. CASE LaunchFails
  <2>1. loopPc' \notin BatchPcs /\ loopPc \in BatchPcs /\ batch' = batch
    BY <1>6, LaunchRaises DEF BatchPcs, Launching, LoopPcs
  <2>2. \A g \in Groups : worker'[g] = worker[g] \/ g = <<batch, promptIdx>>
    BY <1>6, LaunchRaises
  <2> QED
    BY <1>1, <2>1, <2>2 DEF Fresh
<1>3. CASE LoopStep /\ ~StartWorkerWhenUnpaused /\ ~LaunchFails
  <2>1. UNCHANGED worker
    BY <1>3, LoopMoves
  <2>2. CASE DrawBatch
    BY <1>1, <2>1, <2>2 DEF DrawBatch, Fresh
  <2>3. CASE EndEpoch \/ StopCollection
    BY <2>1, <2>3 DEF EndEpoch, StopCollection, Goto, drawVars, Fresh, BatchPcs
  <2>4. CASE ReserveTarget \/ AcquireInflight
    BY <2>1, <2>4 DEF ReserveTarget, AcquireInflight, Goto, drawVars, Fresh,
       BatchPcs, LoopPcs
  <2>5. CASE (loopPc' \in BatchPcs => loopPc \in BatchPcs) /\ UNCHANGED <<batch, promptIdx>>
    BY <2>1, <2>5 DEF Fresh
  <2> QED
    BY <1>3, <2>2, <2>3, <2>4, <2>5, LoopMoves
<1>4. CASE \E g \in Groups : WorkerStep(g)
  BY <1>4, WorkerMoves DEF Fresh, loopVars, drawVars
<1>5. CASE ~LoopStep /\ ~\E g \in Groups : WorkerStep(g)
  BY <1>5, OtherMoves DEF Fresh, drawVars, BatchPcs
<1> QED
  BY <1>2, <1>3, <1>4, <1>5, <1>6

LEMMA FreshInvariant == Spec => []Fresh
BY FreshInit, FreshStep, TypeInvariant, PTL DEF Spec

-----------------------------------------------------------------------------
(* The permits of the in-flight semaphore                                  *)

HoldingPcs == RegisteredPcs \cup {"post", "unstarted"}
Holding == {g \in Groups : worker[g].pc \in HoldingPcs}

LEMMA GroupsFinite == IsFiniteSet(Groups)
<1>1. BatchesPerEpoch * MaxNumEpochs \in Int
  BY ConstantTypes
<1>2. IsFiniteSet(Batches)
  BY <1>1, FS_Interval DEF Batches
<1>3. IsFiniteSet(Prompts)
  BY ConstantTypes, FS_Interval DEF Prompts
<1> QED
  BY <1>2, <1>3, FS_Product DEF Groups

LEMMA HoldingFinite == IsFiniteSet(Holding) /\ Cardinality(Holding) \in Nat
<1>1. Holding \in SUBSET Groups
  BY DEF Holding
<1> QED
  BY <1>1, GroupsFinite, FS_Subset, FS_CardinalityType

LEMMA PermitsInit == Init => PermitsAccounted
<1> SUFFICES ASSUME Init PROVE PermitsAccounted
  OBVIOUS
<1>1. {g \in Groups : worker[g].pc \in RegisteredPcs \cup {"post", "unstarted"}} = {}
  BY DEF Init, CollectorInit, RegisteredPcs
<1>2. inflightSema = MaxInflight /\ loopPc # "start_worker"
  BY DEF Init, CollectorInit
<1> QED
  BY <1>1, <1>2, MaxInflightType, FS_EmptySet DEF PermitsAccounted

LEMMA PermitsStep ==
    ASSUME TypeInv, Fresh, PermitsAccounted, [Next]_vars
    PROVE  PermitsAccounted'
<1> DEFINE InHand == IF loopPc = "start_worker" THEN 1 ELSE 0
<1>1. inflightSema + Cardinality(Holding) + InHand = MaxInflight
  BY DEF PermitsAccounted, Holding, HoldingPcs
<1>2. SUFFICES inflightSema' + Cardinality(Holding') + InHand' = MaxInflight
  BY DEF PermitsAccounted, Holding, HoldingPcs
<1>3. /\ inflightSema \in Nat /\ MaxInflight \in Nat /\ Cardinality(Holding) \in Nat
      /\ IsFiniteSet(Holding) /\ worker \in [Groups -> Workers]
  BY MaxInflightType, HoldingFinite DEF TypeInv, TypeOK, AttributeTypeOK, ActorTypeOK
<1>4. ASSUME UNCHANGED <<inflightSema, worker>>,
             loopPc = "start_worker" <=> loopPc' = "start_worker"
      PROVE  inflightSema' + Cardinality(Holding') + InHand' = MaxInflight
  <2>1. Holding' = Holding
    BY <1>4 DEF Holding
  <2> QED
    BY <1>1, <1>4, <2>1
<1>5. CASE StartWorkerWhenUnpaused
  <2> DEFINE g == <<batch, promptIdx>>
  <2>1. g \in Groups /\ worker[g].pc = "none" /\ worker'[g].pc = "rollout"
    BY <1>5, Launch
  <2>2. \A h \in Groups \ {g} : worker'[h] = worker[h]
    BY <1>5, Launch
  <2>3. UNCHANGED inflightSema /\ loopPc = "start_worker" /\ loopPc' # "start_worker"
    BY <1>5, Launch DEF StartWorkerWhenUnpaused
  <2> HIDE DEF g
  <2>4. Holding' = Holding \cup {g} /\ g \notin Holding
    BY <2>1, <2>2 DEF Holding, HoldingPcs, RegisteredPcs
  <2>5. Cardinality(Holding') = Cardinality(Holding) + 1
    BY <1>3, <2>4, FS_AddElement
  <2> QED
    BY <1>1, <1>3, <2>3, <2>5
<1>6. CASE LoopStep /\ ~StartWorkerWhenUnpaused /\ ~LaunchFails
  <2>1. UNCHANGED worker
    BY <1>6, LoopMoves
  <2>2. CASE AcquireInflight
    <3>1. Holding' = Holding
      BY <2>1 DEF Holding
    <3> QED
      BY <1>1, <1>3, <2>2, <3>1 DEF AcquireInflight, Goto
  <2>3. CASE DrawBatch \/ EndEpoch \/ StopCollection \/ ReserveTarget
    BY <1>4, <2>1, <2>3 DEF DrawBatch, EndEpoch, StopCollection, ReserveTarget,
       Goto, attributeVars, threadVars
  <2>4. CASE UNCHANGED inflightSema /\ loopPc # "start_worker"
               /\ loopPc' # "start_worker"
    BY <1>4, <2>1, <2>4
  <2> QED
    BY <1>6, <2>2, <2>3, <2>4, LoopMoves
<1>9. CASE LaunchFails
  <2> DEFINE g == <<batch, promptIdx>>
  <2>1. g \in Groups /\ UNCHANGED inflightSema /\ loopPc' # "start_worker"
    BY <1>9, LaunchRaises
  <2>2. CASE loopPc # "start_worker" /\ UNCHANGED worker
    BY <1>4, <2>1, <2>2
  <2>3. CASE /\ loopPc = "start_worker"
             /\ worker[g].pc = "none" /\ worker'[g].pc = "unstarted"
    <3>1. \A h \in Groups \ {g} : worker'[h] = worker[h]
      BY <1>9, LaunchRaises
    <3> HIDE DEF g
    <3>2. Holding' = Holding \cup {g} /\ g \notin Holding
      BY <2>1, <2>3, <3>1 DEF Holding, HoldingPcs, RegisteredPcs
    <3>3. Cardinality(Holding') = Cardinality(Holding) + 1
      BY <1>3, <3>2, FS_AddElement
    <3> QED
      BY <1>1, <1>3, <2>1, <2>3, <3>3
  <2> QED
    BY <1>9, <2>2, <2>3, LaunchRaises
<1>7. ASSUME NEW g \in Groups, WorkerStep(g)
      PROVE  inflightSema' + Cardinality(Holding') + InHand' = MaxInflight
  <2>1. /\ UNCHANGED loopPc
        /\ \A h \in Groups \ {g} : worker'[h] = worker[h]
    BY <1>7, WorkerMoves DEF loopVars
  <2>2. CASE ReleaseInflight(g)
    <3>1. g \in Holding /\ worker'[g].pc = "done" /\ inflightSema' = inflightSema + 1
      BY <1>3, <2>2 DEF ReleaseInflight, At, WorkerGoto, Holding, HoldingPcs, Workers
    <3>2. Holding' = Holding \ {g}
      BY <2>1, <3>1 DEF Holding, HoldingPcs, RegisteredPcs
    <3>3. Cardinality(Holding') = Cardinality(Holding) - 1
      BY <1>3, <3>1, <3>2, FS_RemoveElement
    <3> QED
      BY <1>1, <1>3, <2>1, <3>1, <3>3
  <2>3. CASE ~ReleaseInflight(g)
    <3>1. /\ UNCHANGED inflightSema
          /\ \E pc \in HoldingPcs : WorkerGoto(g, pc)
          /\ worker[g].pc \in HoldingPcs
      BY <1>7, <2>3 DEF WorkerStep, TestRunning, RolloutFails, PushGroup, PushFull,
         ReleaseReservation, Detach, At, HoldingPcs, RegisteredPcs, attributeVars,
         threadVars
    <3>2. worker'[g].pc \in HoldingPcs
      BY <1>3, <3>1 DEF WorkerGoto, Workers
    <3>3. Holding' = Holding
      BY <2>1, <3>1, <3>2 DEF Holding
    <3> QED
      BY <1>1, <2>1, <3>1, <3>3
  <2> QED
    BY <2>2, <2>3
<1>8. CASE ~LoopStep /\ ~\E g \in Groups : WorkerStep(g)
  <2>1. UNCHANGED worker /\ UNCHANGED inflightSema
    BY <1>8, OtherMoves DEF threadVars
  <2>2. loopPc' = "start_worker" <=> loopPc = "start_worker"
    BY <1>8, OtherMoves, StartedFromUnstarted
  <2> QED
    BY <1>4, <2>1, <2>2
<1> QED
  BY <1>5, <1>6, <1>7, <1>8, <1>9

(* Every permit of the semaphore is free, in the loop's hand, held by one  *)
(* worker, or lost with a thread that was registered and could not be      *)
(* started: no other failure loses one, and none is given back twice.      *)
THEOREM PermitsAreAccounted == Spec => []PermitsAccounted
BY PermitsInit, PermitsStep, FreshInvariant, TypeInvariant, PTL DEF Spec

-----------------------------------------------------------------------------
(* The reservations                                                        *)

ReservingPcs == {"rollout", "push", "backoff", "release", "cleanup"}

(* Somebody will drop the reservation of t, or a launch for it raised.     *)
Minded(t) ==
    \/ t \in abandonedTargets
    \/ loopPc \in Launching /\ targetWeight = t
    \/ \E g \in Groups : worker[g].target = t /\ worker[g].pc \in ReservingPcs

LEMMA LeakInit == Init => ReservationsAccounted
BY DEF Init, CollectorInit, ReservationsAccounted

LEMMA LeakStep ==
    ASSUME TypeInv, Fresh, ReservationsAccounted, [Next]_vars
    PROVE  ReservationsAccounted'
<1>1. \A t \in generatingTargets : Minded(t)
  BY DEF ReservationsAccounted, Minded, ReservingPcs
<1>2. SUFFICES ASSUME NEW t \in generatingTargets'
               PROVE  Minded(t)'
  BY DEF ReservationsAccounted, Minded, ReservingPcs
<1>3. worker \in [Groups -> Workers]
  BY DEF TypeInv, TypeOK, ActorTypeOK
<1>4. CASE StartWorkerWhenUnpaused /\ UNCHANGED abandonedTargets
  <2> DEFINE new == <<batch, promptIdx>>
  <2>1. /\ new \in Groups /\ worker[new].pc = "none"
        /\ worker'[new].pc = "rollout" /\ worker'[new].target = targetWeight
        /\ \A h \in Groups \ {new} : worker'[h] = worker[h]
        /\ t \in generatingTargets
    BY <1>4, Launch
  <2> HIDE DEF new
  <2>2. CASE targetWeight = t
    BY <2>1, <2>2 DEF Minded, ReservingPcs
  <2>3. CASE targetWeight # t /\ t \notin abandonedTargets
    <3>1. PICK g \in Groups : worker[g].target = t /\ worker[g].pc \in ReservingPcs
      BY <1>1, <2>1, <2>3 DEF Minded
    <3>2. g # new
      BY <2>1, <3>1 DEF ReservingPcs
    <3> QED
      BY <2>1, <3>1, <3>2 DEF Minded
  <2> QED
    BY <1>4, <2>2, <2>3 DEF Minded
<1>5. CASE LoopStep /\ ~StartWorkerWhenUnpaused /\ ~LaunchFails
  <2>1. UNCHANGED <<worker, abandonedTargets>>
    BY <1>5, LoopMoves
  <2>2. ASSUME t \in generatingTargets,
               loopPc \in Launching =>
                  loopPc' \in Launching /\ targetWeight' = targetWeight
        PROVE  Minded(t)'
    BY <1>1, <2>1, <2>2 DEF Minded
  <2>3. CASE DrawBatch \/ EndEpoch \/ StopCollection
    BY <2>2, <2>3 DEF DrawBatch, EndEpoch, StopCollection, attributeVars, Launching
  <2>4. CASE AcquireInflight
    BY <2>2, <2>4 DEF AcquireInflight, Launching, Goto, readVars
  <2>5. CASE ReserveTarget
    <3>1. \/ t \in generatingTargets /\ loopPc \notin Launching
          \/ loopPc' = "prompt" /\ targetWeight' = t
      BY <2>5 DEF ReserveTarget, Goto, Launching
    <3> QED
      BY <2>2, <3>1 DEF Minded, Launching
  <2>6. CASE /\ loopPc' \in Launching <=> loopPc \in Launching
             /\ UNCHANGED <<targetWeight, generatingTargets>>
    BY <2>2, <2>6
  <2> QED
    BY <1>5, <2>3, <2>4, <2>5, <2>6, LoopMoves
<1>6. ASSUME NEW g \in Groups, WorkerStep(g)
      PROVE  Minded(t)'
  <2>1. /\ UNCHANGED <<loopPc, targetWeight, abandonedTargets>>
        /\ \A h \in Groups \ {g} : worker'[h] = worker[h]
        /\ worker'[g].target = worker[g].target
    BY <1>6, WorkerMoves DEF loopVars, readVars
  <2>2. t \in generatingTargets
    BY <1>6 DEF WorkerStep, TestRunning, RolloutFails, PushGroup, PushFull,
       ReleaseReservation, Detach, ReleaseInflight, attributeVars
  <2>3. CASE worker[g].target = t /\ worker[g].pc \in ReservingPcs
    <3>1. worker'[g].pc \in ReservingPcs
      <4>1. ~ReleaseReservation(g, "cleanup", "detach")
        BY <2>3 DEF ReleaseReservation
      <4>2. \E pc \in ReservingPcs : WorkerGoto(g, pc)
        BY <1>6, <2>3, <4>1 DEF WorkerStep, TestRunning, RolloutFails, PushGroup,
           PushFull, ReleaseReservation, Detach, ReleaseInflight, At, ReservingPcs
      <4> QED
        BY <1>3, <4>2 DEF WorkerGoto, Workers
    <3> QED
      BY <2>1, <2>3, <3>1 DEF Minded
  <2>4. CASE ~(worker[g].target = t /\ worker[g].pc \in ReservingPcs)
    BY <1>1, <2>1, <2>2, <2>4 DEF Minded
  <2> QED
    BY <2>3, <2>4
<1>7. CASE ~LoopStep /\ ~\E g \in Groups : WorkerStep(g)
  <2>1. UNCHANGED <<worker, targetWeight, generatingTargets, abandonedTargets>>
    BY <1>7, OtherMoves DEF readVars
  <2>2. loopPc' = loopPc \/ loopPc = "unstarted"
    BY <1>7, OtherMoves, StartedFromUnstarted
  <2> QED
    BY <1>1, <2>1, <2>2 DEF Minded, Launching
<1>8. CASE LaunchFails
  <2>1. /\ t \in generatingTargets
        /\ abandonedTargets' = abandonedTargets \cup {targetWeight}
        /\ \A h \in Groups : worker[h].pc \in ReservingPcs => worker'[h] = worker[h]
    BY <1>8, LaunchRaises DEF Started, ReservingPcs
  <2> QED
    BY <1>1, <2>1 DEF Minded
<1> QED
  BY <1>4, <1>5, <1>6, <1>7, <1>8 DEF LoopStep

(* A target version stays reserved with nobody who would drop the          *)
(* reservation only when an exception ended one of its launches: no failed *)
(* rollout, full buffer, pause or end of the data does that.               *)
THEOREM ReservationsAreAccounted == Spec => []ReservationsAccounted
BY LeakInit, LeakStep, FreshInvariant, TypeInvariant, PTL DEF Spec

(* Both together: a permit or a reservation is lost only to a launch that  *)
(* raised.                                                                 *)
THEOREM OnlyLaunchesLose == Spec => []OnlyLaunchesLeak
BY PermitsAreAccounted, ReservationsAreAccounted, PTL DEF OnlyLaunchesLeak

-----------------------------------------------------------------------------
(* The weight versions                                                     *)

Announces(m) == m.op = "set_weight_version"

(* Every announcement in the queue is of the driver's version; without one *)
(* in the queue the collector has heard of it, with one it may be one      *)
(* behind.  A driver that refits has an answer behind which nothing is     *)
(* queued, so that no second announcement can be sent while one waits.     *)
VersionInv ==
    /\ trainerPc = "refit" => mailbox = <<>>
    /\ \A i \in 1 .. Len(mailbox) : Announces(mailbox[i]) => mailbox[i].arg = weightVersion
    /\ currentWeightVersion \in {weightVersion, weightVersion - 1}
    /\ (\A i \in 1 .. Len(mailbox) : ~Announces(mailbox[i])) =>
          currentWeightVersion = weightVersion
    /\ engineWeights \in {DummyWeights, weightVersion}

LEMMA VersionInit == Init => VersionInv
<1> SUFFICES ASSUME Init PROVE VersionInv
  OBVIOUS
<1>1. Len(mailbox) = 2 /\ Announces(mailbox[2]) /\ mailbox[2].arg = StartStep
  BY DEF Init, Announces
<1>2. ~Announces(mailbox[1])
  BY DEF Init, Announces, Call
<1> QED
  BY <1>1, <1>2 DEF Init, CollectorInit, VersionInv

NoAnnouncement(calls) == \A i \in 1 .. Len(calls) : ~Announces(calls[i])

(* Apart from the end of a refit, what the driver sends announces nothing. *)
LEMMA SilentCalls ==
    ASSUME TypeInv, TrainerStep, ~FinishRefit
    PROVE  /\ UNCHANGED weightVersion
           /\ \/ UNCHANGED mailbox
              \/ \E calls \in Seq(Messages) :
                    mailbox' = mailbox \o calls /\ NoAnnouncement(calls)
           /\ trainerPc' = "refit" => PreparedForRefit
           /\ UNCHANGED engineWeights \/ InitialRefit
<1>1. UNCHANGED weightVersion
  BY DEF TrainerStep, progressVars
<1>2. UNCHANGED engineWeights \/ InitialRefit
  BY DEF TrainerStep
<1>3. ASSUME NEW op \in Operations \ {"set_weight_version"}
      PROVE  <<Call(op)>> \in Seq(Messages) /\ NoAnnouncement(<<Call(op)>>)
  BY CallType DEF NoAnnouncement, Announces, Call
<1>4. \/ UNCHANGED mailbox
      \/ \E op \in Operations \ {"set_weight_version"} : Send(<<Call(op)>>)
  BY DEF TrainerStep, ControlStep, InitialRefit, InitialRefitFails, InitialDrained,
     InitialDrainFails, FinishInitialValidation, InitialWakeUpFails, FinishFill,
     FillWaits, FillFails, SampleStep, SampleFails, SampleWaits, SampleAgain,
     StopExhausted, Train, PreparedForRefit, DrainFails, RefitFails, Drained,
     FinishValidation, ValidationFails, DecideSave, SaveCheckpoint, FinishStep,
     StatsFail, Answered, Silent, Operations
<1>5. trainerPc' = "refit" => PreparedForRefit
  BY DEF TrainerStep, ControlStep, InitialRefit, InitialRefitFails, InitialDrained,
     InitialDrainFails, FinishInitialValidation, InitialWakeUpFails, FinishFill,
     FillWaits, FillFails, SampleStep, SampleFails, SampleWaits, SampleAgain,
     StopExhausted, Train, PreparedForRefit, DrainFails, RefitFails, Drained,
     FinishValidation, ValidationFails, DecideSave, SaveCheckpoint, FinishStep,
     StatsFail, Advance, Leave
<1> QED
  BY <1>1, <1>2, <1>3, <1>4, <1>5 DEF Send

(* What the end of a refit sends.                                          *)
LEMMA RefitCalls ==
    ASSUME TypeInv, mailbox = <<>>, FinishRefit
    PROVE  /\ weightVersion' = weightVersion + 1 /\ engineWeights' = weightVersion'
           /\ trainerPc' # "refit"
           /\ Len(mailbox') \in {2, 3}
           /\ Announces(mailbox'[1]) /\ mailbox'[1].arg = weightVersion + 1
           /\ \A i \in 2 .. Len(mailbox') : ~Announces(mailbox'[i])
<1> DEFINE resumed == <<[op |-> "set_weight_version", arg |-> weightVersion + 1],
                        Call("resume_after_refit")>>
<1>1. /\ weightVersion' = weightVersion + 1
      /\ engineWeights' = policyWeights /\ policyWeights = weightVersion + 1
      /\ trainerPc' # "refit"
  BY DEF FinishRefit, Refit, Advance, TypeInv, TrainerShape
<1>2. weightVersion + 1 \in Steps
  BY ConstantTypes DEF FinishRefit, TypeInv, TypeOK, TrainerShape, TrainerTypeOK
<1>3. resumed \in Seq(Messages)
  BY <1>2, ResumedCallsBlocking
<1>4. /\ Len(resumed) = 2 /\ Announces(resumed[1])
      /\ resumed[1].arg = weightVersion + 1 /\ ~Announces(resumed[2])
  BY DEF Announces, Call
<1>5. \/ mailbox' = mailbox \o resumed
      \/ \E op \in {"pause", "pause_and_drain"} :
            mailbox' = mailbox \o Append(resumed, Call(op))
  BY DEF FinishRefit, Send
<1> HIDE DEF resumed
<1>6. CASE mailbox' = mailbox \o resumed
  <2>1. mailbox' = resumed
    BY <1>3, <1>6
  <2>2. Len(mailbox') = 2
    BY <1>4, <2>1, Zenon
  <2>3. \A i \in 2 .. Len(mailbox') : i = 2
    BY <2>2
  <2> QED
    BY <1>1, <1>4, <2>1, <2>2, <2>3, Zenon
<1>7. ASSUME NEW op \in {"pause", "pause_and_drain"},
             mailbox' = mailbox \o Append(resumed, Call(op))
      PROVE  /\ Len(mailbox') = 3
             /\ Announces(mailbox'[1]) /\ mailbox'[1].arg = weightVersion + 1
             /\ \A i \in 2 .. Len(mailbox') : ~Announces(mailbox'[i])
  <2>1. Call(op) \in Messages /\ ~Announces(Call(op))
    BY CallType DEF Operations, Call, Announces
  <2>2. Append(resumed, Call(op)) \in Seq(Messages)
    BY <1>3, <2>1, AppendProperties
  <2>3. mailbox' = Append(resumed, Call(op))
    <3> DEFINE all == Append(resumed, Call(op))
    <3>1. all \in Seq(Messages) /\ mailbox' = <<>> \o all
      BY <1>7, <2>2
    <3> HIDE DEF all
    <3>2. mailbox' = all
      BY <3>1, ConcatEmptySeq
    <3> QED
      BY <3>2 DEF all
  <2>4. /\ Len(Append(resumed, Call(op))) = Len(resumed) + 1
        /\ \A i \in 1 .. Len(resumed) : Append(resumed, Call(op))[i] = resumed[i]
        /\ Append(resumed, Call(op))[Len(resumed) + 1] = Call(op)
    BY <1>3, <2>1, AppendProperties
  <2>5. /\ Len(mailbox') = 3
        /\ mailbox'[1] = resumed[1] /\ mailbox'[2] = resumed[2]
        /\ mailbox'[3] = Call(op)
    BY <1>4, <2>3, <2>4
  <2>6. \A i \in 2 .. Len(mailbox') : i = 2 \/ i = 3
    BY <2>5
  <2>7. ~Announces(mailbox'[2]) /\ ~Announces(mailbox'[3])
    BY <1>4, <2>1, <2>5, Zenon
  <2>8. Announces(mailbox'[1]) /\ mailbox'[1].arg = weightVersion + 1
    BY <1>4, <2>5, Zenon
  <2> QED
    BY <2>5, <2>6, <2>7, <2>8, Zenon
<1> QED
  BY <1>1, <1>4, <1>5, <1>6, <1>7

LEMMA WeightVersionType ==
    ASSUME TypeInv
    PROVE  weightVersion \in Int /\ weightVersion >= 0
<1>1. StartStep \in Nat /\ MaxNumSteps \in Nat
  BY ConstantTypes
<1>2. weightVersion \in StartStep .. MaxNumSteps
  BY DEF TypeInv, TypeOK, TrainerTypeOK
<1> QED
  BY <1>1, <1>2

LEMMA TrainerKeepsVersions ==
    ASSUME TypeInv, CallsPairUp, VersionInv, TrainerStep
    PROVE  VersionInv'
<1>0. mailbox \in Seq(Messages) /\ UNCHANGED currentWeightVersion
  BY DEF TypeInv, TypeOK, ActorTypeOK, TrainerStep, attributeVars
<1>1. /\ mailbox \in Seq(Messages) /\ UNCHANGED currentWeightVersion
      /\ weightVersion \in Int /\ Len(mailbox) \in Nat
  BY <1>0, WeightVersionType, LenProperties
<1>2. CASE FinishRefit
  <2>1. mailbox = <<>>
    BY <1>2 DEF FinishRefit, VersionInv
  <2>2. currentWeightVersion = weightVersion
    BY <2>1 DEF VersionInv
  <2>3. /\ weightVersion' = weightVersion + 1 /\ engineWeights' = weightVersion'
        /\ trainerPc' # "refit"
        /\ Len(mailbox') \in {2, 3}
        /\ Announces(mailbox'[1]) /\ mailbox'[1].arg = weightVersion + 1
        /\ \A i \in 2 .. Len(mailbox') : ~Announces(mailbox'[i])
    BY <1>2, <2>1, RefitCalls
  <2>4. \A i \in 1 .. Len(mailbox') :
            Announces(mailbox'[i]) => mailbox'[i].arg = weightVersion'
    <3>1. \A i \in 1 .. Len(mailbox') : i = 1 \/ i \in 2 .. Len(mailbox')
      BY <2>3
    <3> QED
      BY <2>3, <3>1
  <2>5. ~\A i \in 1 .. Len(mailbox') : ~Announces(mailbox'[i])
    BY <2>3
  <2>6. currentWeightVersion' = weightVersion' - 1
    BY <1>1, <2>2, <2>3
  <2> QED
    BY <2>3, <2>4, <2>5, <2>6 DEF VersionInv, Announces
<1>3. CASE ~FinishRefit
  <2>1. UNCHANGED weightVersion /\ (trainerPc' = "refit" => PreparedForRefit)
    BY <1>3, SilentCalls
  <2>2. trainerPc' = "refit" => mailbox' = <<>>
    BY <2>1, OkIsAnAnswer DEF PreparedForRefit, Answered, WaitingPcs
  <2>3. engineWeights' \in {DummyWeights, weightVersion'}
    <3>1. CASE UNCHANGED engineWeights
      BY <2>1, <3>1 DEF VersionInv
    <3>2. CASE InitialRefit
      BY <2>1, <3>2 DEF InitialRefit, Refit, TypeInv, TrainerShape, BeforeTrainPcs
    <3> QED
      BY <1>3, <3>1, <3>2, SilentCalls
  <2>4. CASE UNCHANGED mailbox
    BY <1>1, <2>1, <2>2, <2>3, <2>4 DEF VersionInv
  <2>5. ASSUME NEW calls \in Seq(Messages), mailbox' = mailbox \o calls,
               NoAnnouncement(calls)
        PROVE  VersionInv'
    <3>1. /\ Len(mailbox') = Len(mailbox) + Len(calls) /\ Len(calls) \in Nat
          /\ \A i \in 1 .. Len(mailbox) + Len(calls) :
                mailbox'[i] = IF i <= Len(mailbox) THEN mailbox[i]
                              ELSE calls[i - Len(mailbox)]
      BY <1>1, <2>5, ConcatProperties, LenProperties
    <3>2. ASSUME NEW i \in 1 .. Len(mailbox'), Announces(mailbox'[i])
          PROVE  i \in 1 .. Len(mailbox) /\ mailbox'[i] = mailbox[i]
      <4>1. CASE i <= Len(mailbox)
        BY <1>1, <3>1, <3>2, <4>1
      <4>2. CASE i > Len(mailbox)
        <5>1. i - Len(mailbox) \in 1 .. Len(calls)
          BY <1>1, <3>1, <3>2, <4>2
        <5>2. mailbox'[i] = calls[i - Len(mailbox)]
          BY <1>1, <3>1, <3>2, <4>2
        <5> QED
          BY <2>5, <3>2, <5>1, <5>2 DEF NoAnnouncement
      <4> QED
        BY <1>1, <3>1, <4>1, <4>2
    <3>3. \A i \in 1 .. Len(mailbox) :
             i \in 1 .. Len(mailbox') /\ mailbox'[i] = mailbox[i]
      BY <1>1, <3>1
    <3>4. \A i \in 1 .. Len(mailbox') :
             Announces(mailbox'[i]) => mailbox'[i].arg = weightVersion'
      BY <2>1, <3>2 DEF VersionInv
    <3>5. (\A i \in 1 .. Len(mailbox') : ~Announces(mailbox'[i])) =>
             currentWeightVersion' = weightVersion'
      BY <1>1, <2>1, <3>3 DEF VersionInv
    <3> QED
      BY <1>1, <2>1, <2>2, <2>3, <3>4, <3>5 DEF VersionInv
  <2> QED
    BY <1>3, <2>4, <2>5, SilentCalls
<1> QED
  BY <1>2, <1>3

LEMMA ActorKeepsVersions ==
    ASSUME TypeInv, VersionInv, ActorStep, UNCHANGED trainerVars
    PROVE  VersionInv'
<1>1. /\ mailbox \in Seq(Messages) /\ Len(mailbox) \in Nat
      /\ UNCHANGED <<trainerPc, weightVersion, engineWeights>>
  BY LenProperties DEF TypeInv, TypeOK, ActorTypeOK, trainerVars, progressVars,
     ActorStep
<1>2. CASE UNCHANGED <<mailbox, currentWeightVersion>>
  BY <1>1, <1>2 DEF VersionInv
<1>3. ASSUME NEW op \in Operations, Takes(op),
             currentWeightVersion' =
                IF op = "set_weight_version" THEN Head(mailbox).arg
                ELSE currentWeightVersion
      PROVE  VersionInv'
  <2>1. /\ Len(mailbox') \in Nat
        /\ Len(mailbox) = Len(mailbox') + 1
        /\ \A i \in 1 .. Len(mailbox') : mailbox'[i] = mailbox[i + 1]
        /\ mailbox[1] = Head(mailbox) /\ mailbox[1].op = op
    BY <1>1, <1>3, TakesHead
  <2>2. \A i \in 1 .. Len(mailbox') : i + 1 \in 1 .. Len(mailbox)
    BY <2>1
  <2>3. \A i \in 1 .. Len(mailbox') :
           Announces(mailbox'[i]) => mailbox'[i].arg = weightVersion'
    BY <1>1, <2>1, <2>2 DEF VersionInv
  <2>4. trainerPc' # "refit"
    BY <1>1, <1>3 DEF VersionInv, Takes
  <2>5. 1 \in 1 .. Len(mailbox)
    BY <2>1
  <2>6. CASE op = "set_weight_version"
    <3>1. currentWeightVersion' = weightVersion'
      BY <1>1, <1>3, <2>1, <2>5, <2>6 DEF VersionInv, Announces
    <3> QED
      BY <1>1, <2>3, <2>4, <3>1 DEF VersionInv
  <2>7. CASE op # "set_weight_version"
    <3>1. ASSUME \A i \in 1 .. Len(mailbox') : ~Announces(mailbox'[i])
          PROVE  \A j \in 1 .. Len(mailbox) : ~Announces(mailbox[j])
      <4> SUFFICES ASSUME NEW j \in 1 .. Len(mailbox)
                   PROVE  ~Announces(mailbox[j])
        OBVIOUS
      <4>1. CASE j = 1
        BY <2>1, <2>7, <4>1 DEF Announces
      <4>2. CASE j # 1
        <5>1. j - 1 \in 1 .. Len(mailbox') /\ (j - 1) + 1 = j
          BY <2>1, <4>2
        <5> QED
          BY <2>1, <3>1, <5>1
      <4> QED
        BY <4>1, <4>2
    <3> QED
      BY <1>1, <1>3, <2>3, <2>4, <2>7, <3>1 DEF VersionInv
  <2> QED
    BY <2>6, <2>7
<1>4. CASE SetWeightVersion
  <2>1. Takes("set_weight_version") /\ currentWeightVersion' = Head(mailbox).arg
    BY <1>4 DEF SetWeightVersion
  <2> QED
    BY <1>3, <2>1 DEF Operations
<1>5. CASE StartCollection \/ Pause \/ PauseAndDrain \/ Resume \/ PrepareForRefit
             \/ ResumeAfterRefit \/ IsExhausted \/ GetDataloaderState
  <2>1. \E op \in Operations \ {"set_weight_version"} : Takes(op)
    BY <1>5 DEF StartCollection, Pause, PauseAndDrain, Resume, SetManualPause,
       PrepareForRefit, ResumeAfterRefit, IsExhausted, GetDataloaderState, Operations
  <2>2. UNCHANGED currentWeightVersion
    BY <1>5 DEF StartCollection, Pause, PauseAndDrain, Resume, SetManualPause,
       PrepareForRefit, ResumeAfterRefit, IsExhausted, GetDataloaderState,
       attributeVars
  <2> QED
    BY <1>3, <2>1, <2>2
<1>6. CASE SignalLimitCleared \/ FinishDrain \/ PollDrain
  BY <1>2, <1>6 DEF SignalLimitCleared, FinishDrain, PollDrain, attributeVars,
     actorVars
<1> QED
  BY <1>4, <1>5, <1>6 DEF ActorStep

LEMMA VersionStep ==
    ASSUME TypeInv, CallsPairUp, VersionInv, [Next]_vars
    PROVE  VersionInv'
<1>1. CASE TrainerStep
  BY <1>1, TrainerKeepsVersions
<1>2. CASE ActorStep /\ UNCHANGED trainerVars
  BY <1>2, ActorKeepsVersions
<1>3. ASSUME UNCHANGED <<trainerPc, weightVersion, mailbox, currentWeightVersion,
                         engineWeights>>
      PROVE  VersionInv'
  BY <1>3 DEF VersionInv
<1>4. CASE LoopStep /\ UNCHANGED trainerVars
  BY <1>3, <1>4, LoopMoves DEF LoopStep, StartWorkerWhenUnpaused, RegisterAndStart,
     LaunchFails, DrawBatch, EndEpoch, StopCollection, ReserveTarget, AcquireInflight,
     attributeVars, trainerVars, progressVars, actorVars
<1>5. CASE (\E g \in Groups : WorkerStep(g)) /\ UNCHANGED trainerVars
  BY <1>3, <1>5, WorkerMoves DEF trainerVars, progressVars, actorVars
<1>6. CASE DeliverErrorReport /\ UNCHANGED trainerVars
  BY <1>3, <1>6 DEF DeliverErrorReport, trainerVars, progressVars, actorVars,
     attributeVars
<1>7. CASE UNCHANGED vars
  BY <1>3, <1>7 DEF vars, collectorVars, trainerVars, progressVars, actorVars,
     attributeVars
<1> QED
  BY <1>1, <1>2, <1>4, <1>5, <1>6, <1>7 DEF Next, CollectorStep, Ended

LEMMA VersionInvariant == Spec => []VersionInv
BY VersionInit, VersionStep, CallsPair, TypeInvariant, PTL DEF Spec

(* The collector labels what it generates with the driver's weight version *)
(* or the one before, and never with a version that the engine does not    *)
(* have yet, although the two learn of a refit at different times.         *)
THEOREM VersionsLagByOne == Spec => []CollectorVersionLag
<1>1. ASSUME TypeInv, VersionInv
      PROVE  CollectorVersionLag
  <2>1. weightVersion \in Int
    BY <1>1, WeightVersionType
  <2>2. /\ currentWeightVersion \in {weightVersion, weightVersion - 1}
        /\ engineWeights \in {DummyWeights, weightVersion}
    BY <1>1 DEF VersionInv
  <2> QED
    BY <2>1, <2>2 DEF CollectorVersionLag
<1> QED
  BY <1>1, VersionInvariant, TypeInvariant, PTL

-----------------------------------------------------------------------------
(* The ages                                                                *)

(* No worker waits for an older step than its label allows, and none is    *)
(* labelled with a version that its rollout's weights do not have (the     *)
(* weights of an engine before its first refit aside).                     *)
WorkerAge(w, current) ==
    /\ w.target <= w.version + MaxTrajectoryAgeSteps
    /\ w.weights # DummyWeights => w.version <= w.weights /\ w.weights <= current

(* The labels of an entry are those of the worker that pushed it.          *)
Labelled(e, w) ==
    /\ w.pc \notin {"none", "unstarted"}
    /\ e.version = w.version
    /\ e.target = w.target

AgeInv ==
    /\ readVersion <= currentWeightVersion
    /\ loopPc \in Launching => targetWeight <= readVersion + MaxTrajectoryAgeSteps
    /\ \A g \in Groups : WorkerAge(worker[g], weightVersion)
    /\ \A e \in trajectories : Labelled(e, worker[e.group])

LEMMA AgeInit == Init => AgeInv
<1> SUFFICES ASSUME Init PROVE AgeInv
  OBVIOUS
<1>1. /\ \A g \in Groups : worker[g] =
            [pc |-> "none", version |-> StartStep, target |-> StartStep,
             weights |-> DummyWeights]
      /\ trajectories = {} /\ loopPc = "unstarted"
      /\ readVersion = StartStep /\ currentWeightVersion = StartStep
  BY DEF Init, BufferInit, CollectorInit
<1>2. StartStep <= StartStep + MaxTrajectoryAgeSteps /\ StartStep <= StartStep
  BY ConstantTypes
<1>3. \A g \in Groups : WorkerAge(worker[g], weightVersion)
  BY <1>1, <1>2 DEF WorkerAge
<1> QED
  BY <1>1, <1>2, <1>3 DEF AgeInv, Launching

(* The versions only grow.                                                 *)
LEMMA VersionsGrow ==
    ASSUME TypeInv, CallsPairUp, VersionInv, [Next]_vars
    PROVE  /\ weightVersion <= weightVersion'
           /\ currentWeightVersion <= currentWeightVersion'
<1>1. weightVersion \in Int /\ currentWeightVersion \in {weightVersion, weightVersion - 1}
  BY WeightVersionType DEF VersionInv
<1>2. CASE UNCHANGED <<weightVersion, currentWeightVersion>>
  BY <1>1, <1>2
<1>3. CASE TrainerStep
  <2>1. UNCHANGED currentWeightVersion
    BY <1>3 DEF TrainerStep, attributeVars
  <2>2. weightVersion' = weightVersion \/ weightVersion' = weightVersion + 1
    BY <1>3, SilentCalls DEF FinishRefit
  <2> QED
    BY <1>1, <2>1, <2>2
<1>4. CASE ActorStep /\ UNCHANGED trainerVars
  <2>1. UNCHANGED weightVersion
    BY <1>4 DEF trainerVars, progressVars
  <2>2. CASE SetWeightVersion
    <3>1. mailbox \in Seq(Messages)
      BY DEF TypeInv, TypeOK, ActorTypeOK
    <3>2. /\ Len(mailbox) = Len(mailbox') + 1 /\ Len(mailbox') \in Nat
          /\ mailbox[1] = Head(mailbox) /\ mailbox[1].op = "set_weight_version"
      BY <2>2, <3>1, TakesHead DEF SetWeightVersion
    <3>3. 1 \in 1 .. Len(mailbox)
      BY <3>2
    <3>4. currentWeightVersion' = weightVersion
      BY <2>2, <3>2, <3>3 DEF SetWeightVersion, VersionInv, Announces
    <3> QED
      BY <1>1, <2>1, <3>4
  <2>3. CASE ~SetWeightVersion
    <3>1. UNCHANGED currentWeightVersion
      BY <1>4, <2>3 DEF ActorStep, StartCollection, SignalLimitCleared, Pause,
         PauseAndDrain, Resume, SetManualPause, PrepareForRefit, ResumeAfterRefit,
         FinishDrain, PollDrain, IsExhausted, GetDataloaderState, attributeVars
    <3> QED
      BY <1>1, <2>1, <3>1
  <2> QED
    BY <2>2, <2>3
<1>5. CASE LoopStep /\ UNCHANGED trainerVars
  BY <1>2, <1>5, LoopMoves DEF StartWorkerWhenUnpaused, RegisterAndStart,
     LaunchFails, DrawBatch, EndEpoch, StopCollection, ReserveTarget, AcquireInflight,
     attributeVars, trainerVars, progressVars
<1>6. CASE (\E g \in Groups : WorkerStep(g)) /\ UNCHANGED trainerVars
  BY <1>2, <1>6, WorkerMoves DEF trainerVars, progressVars
<1>7. CASE DeliverErrorReport /\ UNCHANGED trainerVars
  BY <1>2, <1>7 DEF DeliverErrorReport, trainerVars, progressVars, attributeVars
<1>8. CASE UNCHANGED vars
  BY <1>2, <1>8 DEF vars, collectorVars, trainerVars, progressVars, attributeVars
<1> QED
  BY <1>3, <1>4, <1>5, <1>6, <1>7, <1>8 DEF Next, CollectorStep, Ended

(* What is pushed, and what a step of anybody does to the buffer.          *)
LEMMA BufferMoves ==
    ASSUME TypeInv, [Next]_vars
    PROVE  \/ trajectories' \subseteq trajectories
           \/ \E g \in Groups : \E n :
                /\ WorkerStep(g)
                /\ trajectories' = trajectories \cup
                     {[group |-> g, version |-> worker[g].version,
                       target |-> worker[g].target, rank |-> n]}
<1>1. CASE UNCHANGED trajectories
  BY <1>1
<1>2. CASE TrainerStep
  BY <1>2 DEF TrainerStep, SampleStep, Sample, bufferVars
<1>3. ASSUME NEW g \in Groups, WorkerStep(g)
      PROVE  \/ UNCHANGED trajectories
             \/ \E n : trajectories' = trajectories \cup
                     {[group |-> g, version |-> worker[g].version,
                       target |-> worker[g].target, rank |-> n]}
  BY <1>3 DEF WorkerStep, TestRunning, RolloutFails, PushGroup, Push, PushFull,
     ReleaseReservation, Detach, ReleaseInflight, bufferVars
<1>4. CASE LoopStep \/ ActorStep \/ DeliverErrorReport
  BY <1>4 DEF LoopStep, ActorStep, DeliverErrorReport, ReportWorkerError, bufferVars
<1>5. CASE UNCHANGED vars
  BY <1>5 DEF vars, bufferVars
<1> QED
  BY <1>1, <1>2, <1>3, <1>4, <1>5 DEF Next, CollectorStep, Ended

LEMMA AgeStep ==
    ASSUME TypeInv, Fresh, CallsPairUp, VersionInv, AgeInv, [Next]_vars
    PROVE  AgeInv'
<1>1. /\ weightVersion \in Int /\ currentWeightVersion \in Int
      /\ readVersion \in Int /\ MaxTrajectoryAgeSteps \in Int
  BY WeightVersionType, ConstantTypes DEF VersionInv, TypeInv, TypeOK, LoopTypeOK
<1>2. worker \in [Groups -> Workers] /\ worker' \in [Groups -> Workers]
  BY TypeStep DEF TypeInv, TypeOK, ActorTypeOK
<1>3. weightVersion' \in Int /\ currentWeightVersion' \in Int
  <2>1. TypeInv' /\ VersionInv'
    BY TypeStep, VersionStep
  <2>2. weightVersion' \in StartStep .. MaxNumSteps
    BY <2>1 DEF TypeInv, TypeOK, TrainerTypeOK
  <2>3. currentWeightVersion' \in StartStep .. MaxNumSteps
    BY <2>1 DEF TypeInv, TypeOK, AttributeTypeOK
  <2> QED
    BY <2>2, <2>3
<1>4. weightVersion <= weightVersion' /\ currentWeightVersion <= currentWeightVersion'
  BY VersionsGrow
(* A worker's record that keeps its labels keeps their age.                *)
<1>5. ASSUME NEW g \in Groups, worker'[g].version = worker[g].version,
             worker'[g].target = worker[g].target,
             worker'[g].weights = worker[g].weights
      PROVE  WorkerAge(worker'[g], weightVersion')
  <2>1. worker[g].weights # DummyWeights => worker[g].weights \in Int
    BY <1>2 DEF Workers
  <2>2. WorkerAge(worker[g], weightVersion)
    BY DEF AgeInv
  <2> QED
    BY <1>1, <1>3, <1>4, <1>5, <2>1, <2>2 DEF WorkerAge
<1>6. \A g \in Groups : WorkerAge(worker'[g], weightVersion')
  <2>1. CASE StartWorkerWhenUnpaused
    <3> DEFINE new == <<batch, promptIdx>>
    <3>1. /\ new \in Groups /\ loopPc \in Launching
          /\ \A h \in Groups \ {new} : worker'[h] = worker[h]
          /\ worker'[new] = [pc |-> "rollout", version |-> readVersion,
                 target |-> targetWeight, weights |-> engineWeights]
      BY <2>1, Launch
    <3> HIDE DEF new
    <3>2. targetWeight <= readVersion + MaxTrajectoryAgeSteps
      BY <3>1 DEF AgeInv
    <3>3. readVersion <= currentWeightVersion
      BY DEF AgeInv
    <3>4. engineWeights \in {DummyWeights, weightVersion}
          /\ currentWeightVersion \in {weightVersion, weightVersion - 1}
      BY DEF VersionInv
    <3>5. engineWeights # DummyWeights =>
             readVersion <= engineWeights /\ engineWeights <= weightVersion'
      BY <1>1, <1>3, <1>4, <3>3, <3>4
    <3>6. WorkerAge([pc |-> "rollout", version |-> readVersion,
                     target |-> targetWeight, weights |-> engineWeights],
                    weightVersion')
      BY <3>2, <3>5 DEF WorkerAge
    <3>7. WorkerAge(worker'[new], weightVersion')
      BY <3>1, <3>6, Zenon
    <3> QED
      BY <1>5, <3>1, <3>7
  <2>2. CASE LoopStep /\ ~StartWorkerWhenUnpaused /\ ~LaunchFails
    BY <1>5, <2>2, LoopMoves
  <2>3. CASE \E g \in Groups : WorkerStep(g)
    BY <1>5, <2>3, WorkerMoves
  <2>4. CASE ~LoopStep /\ ~\E g \in Groups : WorkerStep(g)
    BY <1>5, <2>4, OtherMoves
  <2>5. CASE LaunchFails
    BY <1>5, <2>5, LaunchRaises
  <2> QED
    BY <2>1, <2>2, <2>3, <2>4, <2>5
<1>7. \A e \in trajectories' : Labelled(e, worker'[e.group])
  <2>1. ASSUME NEW e \in trajectories
        PROVE  Labelled(e, worker'[e.group])
    <3>1. e.group \in Groups /\ Labelled(e, worker[e.group])
      BY DEF AgeInv, TypeInv, TypeOK, BufferTypeOK, Entries
    <3>2. CASE StartWorkerWhenUnpaused
      <4>1. e.group # <<batch, promptIdx>>
        BY <3>1, <3>2, Launch DEF Labelled
      <4> QED
        BY <3>1, <3>2, <4>1, Launch DEF Labelled
    <3>3. CASE LoopStep /\ ~StartWorkerWhenUnpaused /\ ~LaunchFails
      BY <3>1, <3>3, LoopMoves DEF Labelled
    <3>4. ASSUME NEW g \in Groups, WorkerStep(g)
          PROVE  Labelled(e, worker'[e.group])
      <4>1. CASE g = e.group
        BY <3>1, <3>4, <4>1, WorkerMoves DEF Labelled, Started
      <4>2. CASE g # e.group
        BY <3>1, <3>4, <4>2, WorkerMoves DEF Labelled
      <4> QED
        BY <4>1, <4>2
    <3>5. CASE ~LoopStep /\ ~\E g \in Groups : WorkerStep(g)
      BY <3>1, <3>5, OtherMoves DEF Labelled
    <3>6. CASE LaunchFails
      BY <3>1, <3>6, LaunchRaises DEF Labelled, Started
    <3> QED
      BY <3>2, <3>3, <3>4, <3>5, <3>6
  <2>2. ASSUME NEW g \in Groups, WorkerStep(g), NEW n
        PROVE  Labelled([group |-> g, version |-> worker[g].version,
                         target |-> worker[g].target, rank |-> n], worker'[g])
    BY <2>2, WorkerMoves DEF Labelled, Started
  <2>3. CASE trajectories' \subseteq trajectories
    BY <2>1, <2>3
  <2>4. ASSUME NEW g \in Groups, WorkerStep(g), NEW n,
               trajectories' = trajectories \cup
                     {[group |-> g, version |-> worker[g].version,
                       target |-> worker[g].target, rank |-> n]}
        PROVE  \A e \in trajectories' : Labelled(e, worker'[e.group])
    <3> DEFINE new == [group |-> g, version |-> worker[g].version,
                       target |-> worker[g].target, rank |-> n]
    <3>1. new.group = g /\ Labelled(new, worker'[g])
      BY <2>2, <2>4
    <3>2. \A e \in trajectories' : e \in trajectories \/ e = new
      BY <2>4
    <3> HIDE DEF new
    <3> QED
      BY <2>1, <3>1, <3>2
  <2> QED
    BY <2>3, <2>4, BufferMoves
<1>8. readVersion' <= currentWeightVersion'
  <2>1. readVersion' \in {readVersion, currentWeightVersion}
    <3>1. CASE StartWorkerWhenUnpaused
      BY <3>1, Launch
    <3>2. CASE LoopStep /\ ~StartWorkerWhenUnpaused /\ ~LaunchFails
      BY <3>2, LoopMoves DEF DrawBatch, EndEpoch, StopCollection, ReserveTarget,
         AcquireInflight, readVars
    <3>3. CASE \E g \in Groups : WorkerStep(g)
      BY <3>3, WorkerMoves DEF loopVars, readVars
    <3>4. CASE ~LoopStep /\ ~\E g \in Groups : WorkerStep(g)
      BY <3>4, OtherMoves DEF readVars
    <3>5. CASE LaunchFails
      BY <3>5, LaunchRaises
    <3> QED
      BY <3>1, <3>2, <3>3, <3>4, <3>5
  <2> QED
    BY <1>1, <1>3, <1>4, <2>1 DEF AgeInv
<1>9. loopPc' \in Launching => targetWeight' <= readVersion' + MaxTrajectoryAgeSteps
  <2> SUFFICES ASSUME loopPc' \in Launching
               PROVE  targetWeight' <= readVersion' + MaxTrajectoryAgeSteps
    OBVIOUS
  <2>1. ASSUME loopPc \in Launching, targetWeight' = targetWeight,
               readVersion' \in {readVersion, currentWeightVersion}
        PROVE  targetWeight' <= readVersion' + MaxTrajectoryAgeSteps
    <3>1. /\ targetWeight \in Int /\ readVersion <= currentWeightVersion
          /\ targetWeight <= readVersion + MaxTrajectoryAgeSteps
      BY <2>1, ConstantTypes DEF AgeInv, TypeInv, LoopShape
    <3>2. readVersion' = readVersion \/ readVersion' = currentWeightVersion
      BY <2>1
    <3>3. targetWeight <= currentWeightVersion + MaxTrajectoryAgeSteps
      BY <1>1, <3>1
    <3>4. targetWeight <= readVersion' + MaxTrajectoryAgeSteps
      BY <3>1, <3>2, <3>3, Zenon
    <3> QED
      BY <2>1, <3>4, Zenon
  <2>2. CASE StartWorkerWhenUnpaused
    BY <2>1, <2>2, Launch DEF Launching
  <2>3. CASE LoopStep /\ ~StartWorkerWhenUnpaused /\ ~LaunchFails
    <3>1. CASE DrawBatch \/ EndEpoch \/ StopCollection
      BY <3>1 DEF DrawBatch, EndEpoch, StopCollection, Goto, Launching
    <3>2. CASE AcquireInflight
      BY <2>1, <3>2 DEF AcquireInflight, Goto, Launching, readVars
    <3>3. CASE ReserveTarget
      <4>1. targetWeight' \in OpenTargets(readVersion, readLast) /\ UNCHANGED readVersion
        BY <3>3 DEF ReserveTarget, Goto, Launching
      <4>2. StartStep \in Int
        BY ConstantTypes
      <4>3. targetWeight' \in TargetWeights(readVersion)
        BY <4>1 DEF OpenTargets
      <4> QED
        BY <1>1, <4>1, <4>2, <4>3 DEF TargetWeights
    <3>4. CASE /\ loopPc' \in Launching <=> loopPc \in Launching
               /\ UNCHANGED targetWeight
               /\ readVersion' \in {readVersion, currentWeightVersion}
      BY <2>1, <3>4, Zenon
    <3> QED
      BY <2>3, <3>1, <3>2, <3>3, <3>4, LoopMoves
  <2>4. CASE \E g \in Groups : WorkerStep(g)
    BY <2>1, <2>4, WorkerMoves DEF loopVars, readVars
  <2>5. CASE ~LoopStep /\ ~\E g \in Groups : WorkerStep(g)
    BY <2>1, <2>5, OtherMoves DEF readVars, Launching
  <2>6. CASE LaunchFails
    BY <2>6, LaunchRaises DEF Launching
  <2> QED
    BY <2>2, <2>3, <2>4, <2>5, <2>6
<1> QED
  BY <1>6, <1>7, <1>8, <1>9 DEF AgeInv

LEMMA AgeInvariant == Spec => []AgeInv
BY AgeInit, AgeStep, FreshInvariant, VersionInvariant, CallsPair, TypeInvariant, PTL
   DEF Spec

(* A group in the buffer is meant for a step at most                       *)
(* max_trajectory_age_steps after the version it is labelled with.         *)
THEOREM LabelsAreWithinAge == Spec => []LabelWithinAge
<1>1. ASSUME TypeInv, AgeInv
      PROVE  LabelWithinAge
  BY <1>1 DEF AgeInv, Labelled, WorkerAge, LabelWithinAge, TypeInv, TypeOK,
     BufferTypeOK, Entries
<1> QED
  BY <1>1, AgeInvariant, TypeInvariant, PTL

(* No step is trained on what weights older than                           *)
(* max_trajectory_age_steps generated, or weights newer than those it      *)
(* updates.                                                                *)
THEOREM TrainedIsWithinAge == Spec => TrainedWithinAge
<1>1. ASSUME TypeInv, AgeInv, [Next]_vars, trainerPc = "sample", trainerPc' = "train",
             NEW e \in trajectories \ trajectories',
             worker[e.group].weights # DummyWeights
      PROVE  /\ policyWeights - MaxTrajectoryAgeSteps <= worker[e.group].weights
             /\ worker[e.group].weights <= policyWeights
  <2> DEFINE w == worker[e.group]
  <2>1. e \in Selected(weightVersion)
    BY <1>1, BufferMoves DEF Next, CollectorStep, Ended, TrainerStep, ControlStep,
       InitialRefit, SampleStep, Sample, FinishRefit, Train, DecideSave,
       SaveCheckpoint, FinishStep, InitialRefitFails, InitialDrained,
       InitialDrainFails, FinishInitialValidation, InitialWakeUpFails, FinishFill,
       FillWaits, FillFails, SampleFails, SampleWaits, SampleAgain, StopExhausted,
       PreparedForRefit, DrainFails, RefitFails, Drained, FinishValidation,
       ValidationFails, StatsFail, Answered, Advance, Leave, trainerVars, vars,
       bufferVars
  <2>2. e.target = weightVersion /\ e.group \in Groups
    BY <1>1, <2>1 DEF Selected, IntendedTrajectories, TypeInv, TypeOK,
       BufferTypeOK, Entries
  <2>3. policyWeights = weightVersion
    BY <1>1 DEF TypeInv, TrainerShape, BeforeTrainPcs
  <2>4. w.target = weightVersion /\ WorkerAge(w, weightVersion)
    BY <1>1, <2>2 DEF AgeInv, Labelled
  <2>5. /\ weightVersion \in Int /\ MaxTrajectoryAgeSteps \in Int
        /\ w.version \in Int /\ w.weights \in Int
    <3>1. w \in Workers
      BY <1>1, <2>2 DEF TypeInv, TypeOK, ActorTypeOK
    <3>2. w.version \in Steps /\ w.weights \in Steps
      BY <1>1, <3>1 DEF Workers
    <3> QED
      BY <1>1, <3>2, WeightVersionType, ConstantTypes
  <2> QED
    BY <1>1, <2>3, <2>4, <2>5 DEF WorkerAge
<1>2. ASSUME TypeInv, AgeInv, [Next]_vars
      PROVE  [trainerPc = "sample" /\ trainerPc' = "train" =>
                \A e \in trajectories \ trajectories' :
                   LET w == worker[e.group].weights
                   IN  w # DummyWeights =>
                         policyWeights - MaxTrajectoryAgeSteps <= w /\ w <= policyWeights]_vars
  BY <1>1, <1>2
<1> QED
  BY <1>2, AgeInvariant, TypeInvariant, PTL DEF Spec, TrainedWithinAge

-----------------------------------------------------------------------------
(***************************************************************************)
(* The size of the replay buffer.  As long as no target version is         *)
(* generated twice, late_arrival_slack is enough: the buffer never fills   *)
(* and never holds an entry too old for its step.                          *)
(***************************************************************************)

(* A worker that has pushed its group, or that has left without it.        *)
PastPcs == {"release", "cleanup", "detach", "post", "done"}

(* The first target version that the driver still has to draw: from the    *)
(* sample on until its refit it is one ahead of the driver's version.      *)
NextTarget ==
    IF trainerPc \in {"train", "prepare_refit", "refit"}
    THEN weightVersion + 1 ELSE weightVersion

(* A whole batch was generated for t, and nothing of it is still to come.  *)
Finished(t, workers) ==
    \E b \in Batches : \A p \in Prompts :
        workers[<<b, p>>].pc \in PastPcs /\ workers[<<b, p>>].target = t

(* Every group has one entry at most, from a worker that has pushed.       *)
EntriesInv ==
    /\ \A e \in trajectories : worker[e.group].pc \in PastPcs
    /\ \A e, f \in trajectories : e.group = f.group => e = f

(* No label is from the future.                                            *)
LabelInv == \A g \in Groups : worker[g].version <= currentWeightVersion

(* Whatever was drawn was drawn whole.                                     *)
OnceInv ==
    ~GeneratedTwice =>
        /\ \A t \in Targets : t < NextTarget => Finished(t, worker)
        /\ \A e \in trajectories : NextTarget <= e.target
        /\ \A g \in Groups : ~At(g, "backoff")

BufferInv == EntriesInv /\ LabelInv /\ OnceInv

LEMMA BufferInvInit == Init => BufferInv
<1> SUFFICES ASSUME Init PROVE BufferInv
  OBVIOUS
<1>1. /\ trajectories = {} /\ weightVersion = StartStep
      /\ trainerPc = "initial_refit" /\ currentWeightVersion = StartStep
      /\ \A g \in Groups : worker[g].pc = "none" /\ worker[g].version = StartStep
  BY DEF Init, BufferInit, CollectorInit
<1>2. NextTarget = StartStep
  BY <1>1 DEF NextTarget
<1>3. \A t \in Targets : ~(t < NextTarget)
  BY <1>2, ConstantTypes
<1>4. LabelInv
  BY <1>1, ConstantTypes DEF LabelInv
<1> QED
  BY <1>1, <1>3, <1>4 DEF BufferInv, EntriesInv, OnceInv, At

-----------------------------------------------------------------------------
(* How the workers move                                                    *)

(* Nobody returns to a worker it has been: labels stay, and a worker that  *)
(* is past its push stays past it.                                         *)
LEMMA WorkersAdvance ==
    ASSUME TypeInv, Fresh, [Next]_vars, NEW g \in Groups, Started(g)
    PROVE  /\ Started(g)'
           /\ worker'[g].target = worker[g].target
           /\ worker'[g].version = worker[g].version
           /\ worker[g].pc \in PastPcs => worker'[g].pc \in PastPcs
<1>1. CASE worker'[g] = worker[g]
  BY <1>1 DEF Started
<1>2. CASE StartWorkerWhenUnpaused
  BY <1>1, <1>2, Launch DEF Started
<1>3. CASE LoopStep /\ ~StartWorkerWhenUnpaused /\ ~LaunchFails
  BY <1>1, <1>3, LoopMoves
<1>4. ASSUME NEW h \in Groups, WorkerStep(h)
      PROVE  /\ Started(g)'
             /\ worker'[g].target = worker[g].target
             /\ worker'[g].version = worker[g].version
             /\ worker[g].pc \in PastPcs => worker'[g].pc \in PastPcs
  <2>1. CASE h # g
    BY <1>1, <1>4, <2>1, WorkerMoves
  <2>2. CASE h = g
    <3>1. worker[g].pc \in PastPcs => \E pc \in PastPcs : WorkerGoto(g, pc)
      BY <1>4, <2>2 DEF WorkerStep, TestRunning, RolloutFails, PushGroup, PushFull,
         ReleaseReservation, Detach, ReleaseInflight, At, PastPcs
    <3>2. worker \in [Groups -> Workers]
      BY DEF TypeInv, TypeOK, ActorTypeOK
    <3>3. worker[g].pc \in PastPcs => worker'[g].pc \in PastPcs
      BY <3>1, <3>2 DEF WorkerGoto, Workers
    <3> QED
      BY <1>4, <2>2, <3>3, WorkerMoves
  <2> QED
    BY <2>1, <2>2
<1>5. CASE ~LoopStep /\ ~\E h \in Groups : WorkerStep(h)
  BY <1>1, <1>5, OtherMoves
<1>6. CASE LaunchFails
  BY <1>1, <1>6, LaunchRaises
<1> QED
  BY <1>2, <1>3, <1>4, <1>5, <1>6

(* A target that was generated twice remains so.                           *)
LEMMA TwiceStays ==
    ASSUME TypeInv, Fresh, [Next]_vars, GeneratedTwice
    PROVE  GeneratedTwice'
<1>1. PICK g \in Groups, h \in Groups :
         /\ Started(g) /\ Started(h)
         /\ g[1] # h[1] /\ worker[g].target = worker[h].target
  BY DEF GeneratedTwice
<1>2. /\ Started(g)' /\ Started(h)'
      /\ worker'[g].target = worker'[h].target
  BY <1>1, WorkersAdvance
<1> QED
  BY <1>1, <1>2 DEF GeneratedTwice

LEMMA FinishedStays ==
    ASSUME TypeInv, Fresh, [Next]_vars, NEW t, Finished(t, worker)
    PROVE  Finished(t, worker')
<1>1. PICK b \in Batches : \A p \in Prompts :
         worker[<<b, p>>].pc \in PastPcs /\ worker[<<b, p>>].target = t
  BY DEF Finished
<1>2. ASSUME NEW p \in Prompts
      PROVE  worker'[<<b, p>>].pc \in PastPcs /\ worker'[<<b, p>>].target = t
  <2>1. <<b, p>> \in Groups /\ Started(<<b, p>>)
    BY <1>1 DEF Groups, PastPcs, Started
  <2> QED
    BY <1>1, <2>1, WorkersAdvance
<1> QED
  BY <1>2 DEF Finished

(* Only one batch is generated for a target.                               *)
LEMMA OneBatch ==
    ASSUME ~GeneratedTwice, NEW g \in Groups, NEW h \in Groups,
           Started(g), Started(h),
           worker[g].target = worker[h].target
    PROVE  g[1] = h[1]
BY DEF GeneratedTwice

(* A worker that has not pushed works for a target still to be drawn.      *)
LEMMA StillWanted ==
    ASSUME TypeInv, OnceInv, ~GeneratedTwice, NEW g \in Groups,
           worker[g].pc \in {"rollout", "push", "backoff"}
    PROVE  NextTarget <= worker[g].target
<1>1. worker[g].target \in Targets /\ NextTarget \in Int
  BY WeightVersionType DEF TypeInv, TypeOK, ActorTypeOK, Workers, NextTarget
<1>2. worker[g].target \in Int
  BY <1>1, ConstantTypes
<1>3. ASSUME worker[g].target < NextTarget
      PROVE  FALSE
  <2>1. PICK b \in Batches : \A p \in Prompts :
           /\ worker[<<b, p>>].pc \in PastPcs
           /\ worker[<<b, p>>].target = worker[g].target
    BY <1>1, <1>3 DEF OnceInv, Finished
  <2>2. g[2] \in Prompts /\ g = <<g[1], g[2]>>
    BY DEF Groups
  <2>3. <<b, g[2]>> \in Groups /\ Started(<<b, g[2]>>)
        /\ worker[<<b, g[2]>>].target = worker[g].target
    BY <2>1, <2>2 DEF Groups, PastPcs, Started
  <2>4. Started(g)
    BY DEF Started
  <2>5. <<b, g[2]>>[1] = g[1]
    BY <2>3, <2>4, OneBatch
  <2>6. g = <<b, g[2]>>
    BY <2>2, <2>5
  <2>7. worker[g].pc \in PastPcs
    BY <2>1, <2>2, <2>6
  <2> QED
    BY <2>7 DEF PastPcs
<1> QED
  BY <1>1, <1>2, <1>3

-----------------------------------------------------------------------------
(* Counting                                                                *)

Window == weightVersion .. weightVersion + MaxTrajectoryAgeSteps

LEMMA PromptsCount == IsFiniteSet(Prompts) /\ Cardinality(Prompts) = NumPromptsPerStep
<1>1. NumPromptsPerStep - 1 \in Int /\ ~(0 > NumPromptsPerStep - 1)
  BY ConstantTypes
<1> QED
  BY <1>1, ConstantTypes, FS_Interval DEF Prompts

LEMMA WindowCount ==
    ASSUME TypeInv
    PROVE  /\ IsFiniteSet(Window \X Prompts)
           /\ Cardinality(Window \X Prompts) =
                (MaxTrajectoryAgeSteps + 1) * NumPromptsPerStep
<1>1. weightVersion \in Int /\ MaxTrajectoryAgeSteps \in Int
      /\ MaxTrajectoryAgeSteps > 0
  BY WeightVersionType, ConstantTypes
<1>2. /\ weightVersion + MaxTrajectoryAgeSteps \in Int
      /\ ~(weightVersion > weightVersion + MaxTrajectoryAgeSteps)
      /\ weightVersion + MaxTrajectoryAgeSteps - weightVersion + 1 = MaxTrajectoryAgeSteps + 1
  BY <1>1
<1>3. IsFiniteSet(Window) /\ Cardinality(Window) = MaxTrajectoryAgeSteps + 1
  BY <1>1, <1>2, FS_Interval DEF Window
<1> QED
  BY <1>3, PromptsCount, FS_Product

(* Twice the steps that may be ahead hold more than those and the current. *)
LEMMA SlackArithmetic ==
    ASSUME NEW n \in Nat, n > 0, NEW a \in Nat, a > 0
    PROVE  (a + 1) * n - 1 < n * a * 2
<1>1. PICK k \in Nat : a = k + 1
  <2>1. a - 1 \in Nat /\ a = (a - 1) + 1
    OBVIOUS
  <2> QED
    BY <2>1
<1>2. (a + 1) * n = k * n + n + n
  BY <1>1
<1>3. n * a = k * n + n
  BY <1>1
<1>4. k * n \in Nat
  OBVIOUS
<1> QED
  BY <1>2, <1>3, <1>4

(* Where an entry stands among what the window can hold.                   *)
Place(e) == <<e.target, e.group[2]>>

LEMMA EntryTypes ==
    ASSUME TypeInv, AgeInv, LabelInv, VersionInv, NEW e \in trajectories
    PROVE  /\ e.group \in Groups /\ e.target \in Int /\ e.rank \in Int
           /\ e.version \in Int
           /\ Started(e.group)
           /\ e.target = worker[e.group].target
           /\ e.version = worker[e.group].version
           /\ e.target <= weightVersion + MaxTrajectoryAgeSteps
           /\ e.target <= e.version + MaxTrajectoryAgeSteps
           /\ e.version <= weightVersion
           /\ e.group[2] \in Prompts /\ e.group = <<e.group[1], e.group[2]>>
<1>1. e \in Entries
  BY DEF TypeInv, TypeOK, BufferTypeOK
<1>2. e.group \in Groups /\ e.target \in Targets /\ e.rank \in Nat /\ e.version \in Steps
  BY <1>1 DEF Entries
<1>3. /\ Started(e.group)
      /\ e.target = worker[e.group].target
      /\ e.version = worker[e.group].version
  BY DEF AgeInv, Labelled, Started
<1>4. e.target \in Int /\ e.version \in Int /\ e.rank \in Int
  BY <1>2, ConstantTypes
<1>5. worker[e.group].version <= currentWeightVersion
      /\ worker[e.group].target <= worker[e.group].version + MaxTrajectoryAgeSteps
  BY <1>2 DEF AgeInv, LabelInv, WorkerAge
<1>6. weightVersion \in Int /\ currentWeightVersion \in {weightVersion, weightVersion - 1}
      /\ MaxTrajectoryAgeSteps \in Int
  BY WeightVersionType, ConstantTypes DEF VersionInv
<1>7. e.version <= weightVersion /\ e.target <= weightVersion + MaxTrajectoryAgeSteps
  BY <1>3, <1>4, <1>5, <1>6
<1>8. e.group[2] \in Prompts /\ e.group = <<e.group[1], e.group[2]>>
  BY <1>2 DEF Groups
<1> QED
  BY <1>2, <1>3, <1>4, <1>5, <1>7, <1>8

(* While a worker has a group to push there is room for it.                *)
LEMMA RoomForOne ==
    ASSUME TypeInv, VersionInv, AgeInv, BufferInv, ~GeneratedTwice,
           NEW g \in Groups, worker[g].pc = "push"
    PROVE  ~IsFull
<1> USE DEF BufferInv
<1> DEFINE mine == <<worker[g].target, g[2]>>
           Others == (Window \X Prompts) \ {mine}
           place == [e \in trajectories |-> Place(e)]
<1>1. weightVersion \in Int /\ NextTarget \in Int /\ weightVersion <= NextTarget
      /\ MaxTrajectoryAgeSteps \in Int
  BY WeightVersionType, ConstantTypes DEF NextTarget
<1>2. ASSUME NEW e \in trajectories, NEW h \in Groups, Started(h),
             Place(e) = <<worker[h].target, h[2]>>
      PROVE  e.group = h
  <2>1. /\ e.target = worker[h].target /\ e.group[2] = h[2]
        /\ e.group \in Groups /\ Started(e.group)
        /\ e.target = worker[e.group].target
    BY <1>2, EntryTypes DEF Place
  <2>2. e.group[1] = h[1]
    BY <1>2, <2>1, OneBatch
  <2> QED
    BY <1>2, <2>1, <2>2 DEF Groups
<1>3. ASSUME NEW e \in trajectories
      PROVE  Place(e) \in Others
  <2>1. /\ e.target \in Int /\ e.group[2] \in Prompts
        /\ e.target <= weightVersion + MaxTrajectoryAgeSteps
    BY EntryTypes
  <2>2. NextTarget <= e.target
    BY DEF OnceInv
  <2>3. Place(e) \in Window \X Prompts
    BY <1>1, <2>1, <2>2 DEF Place, Window
  <2>4. Place(e) # mine
    <3>1. ASSUME Place(e) = mine
          PROVE  FALSE
      <4>1. e.group = g
        BY <1>2, <3>1 DEF Started
      <4>2. worker[e.group].pc \in PastPcs
        BY DEF EntriesInv
      <4> QED
        BY <4>1, <4>2 DEF PastPcs
    <3> QED
      BY <3>1
  <2> QED
    BY <2>3, <2>4
<1>4. \A e, f \in trajectories : Place(e) = Place(f) => e = f
  <2> SUFFICES ASSUME NEW e \in trajectories, NEW f \in trajectories,
                      Place(e) = Place(f)
               PROVE  e = f
    OBVIOUS
  <2>1. f.group \in Groups /\ Started(f.group)
        /\ f.target = worker[f.group].target
    BY EntryTypes
  <2>2. Place(e) = <<worker[f.group].target, f.group[2]>>
    BY <2>1 DEF Place
  <2>3. e.group = f.group
    BY <1>2, <2>1, <2>2
  <2> QED
    BY <2>3 DEF EntriesInv
<1>5. place \in Injection(trajectories, Others)
  BY <1>3, <1>4 DEF Injection, IsInjective
<1>6. mine \in Window \X Prompts
  <2>1. worker[g].target \in Targets
    BY DEF TypeInv, TypeOK, ActorTypeOK, Workers
  <2>2. worker[g].target \in Int /\ worker[g].version \in Int
    BY <2>1, ConstantTypes DEF TypeInv, TypeOK, ActorTypeOK, Workers
  <2>3. NextTarget <= worker[g].target
    BY StillWanted
  <2>4. /\ worker[g].target <= worker[g].version + MaxTrajectoryAgeSteps
        /\ worker[g].version <= currentWeightVersion
    BY DEF AgeInv, WorkerAge, LabelInv
  <2>5. currentWeightVersion \in {weightVersion, weightVersion - 1}
    BY DEF VersionInv
  <2>6. worker[g].target \in Window
    BY <1>1, <2>2, <2>3, <2>4, <2>5 DEF Window
  <2>7. g[2] \in Prompts
    BY DEF Groups
  <2> QED
    BY <2>6, <2>7
<1> HIDE DEF mine, place
<1>7. IsFiniteSet(Others) /\
      Cardinality(Others) = (MaxTrajectoryAgeSteps + 1) * NumPromptsPerStep - 1
  BY <1>6, WindowCount, FS_RemoveElement
<1> HIDE DEF Others
<1>8. /\ IsFiniteSet(trajectories)
      /\ Cardinality(trajectories) <= (MaxTrajectoryAgeSteps + 1) * NumPromptsPerStep - 1
  BY <1>5, <1>7, FS_Injection
<1>9. Cardinality(trajectories) \in Nat
  BY <1>8, FS_CardinalityType
<1>10. (MaxTrajectoryAgeSteps + 1) * NumPromptsPerStep - 1 < MaxSize
  BY ConstantTypes, SlackArithmetic DEF MaxSize
<1>11. /\ MaxSize \in Int
       /\ (MaxTrajectoryAgeSteps + 1) * NumPromptsPerStep - 1 \in Int
  BY ConstantTypes DEF MaxSize
<1>12. Cardinality(trajectories) < MaxSize
  BY <1>8, <1>9, <1>10, <1>11
<1> QED
  BY <1>9, <1>11, <1>12 DEF IsFull

-----------------------------------------------------------------------------
(* A step that is drawn is a whole batch, and nothing is left of it.       *)

LEMMA DrawnWhole ==
    ASSUME TypeInv, VersionInv, AgeInv, BufferInv, ~GeneratedTwice, SampleStep
    PROVE  /\ Finished(weightVersion, worker)
           /\ \A e \in trajectories' : e.target # weightVersion
<1> USE DEF BufferInv
<1> DEFINE Drawn == IntendedTrajectories(weightVersion)
           place == [e \in Drawn |-> e.group[2]]
<1>1. /\ NextTarget = weightVersion /\ weightVersion \in Int
      /\ OldTrajectories(weightVersion) = {}
      /\ Cardinality(Drawn) >= NumPromptsPerStep
      /\ trajectories' = trajectories \ Selected(weightVersion)
  BY WeightVersionType DEF SampleStep, Sample, NextTarget
<1>2. ASSUME NEW e \in Drawn
      PROVE  e \in trajectories /\ e.target = weightVersion
  BY DEF IntendedTrajectories, ValidTrajectories
<1>3. ASSUME NEW e \in trajectories, e.target = weightVersion
      PROVE  e \in Drawn
  <2>1. e.version \in Int /\ e.version <= weightVersion
    BY EntryTypes
  <2>2. MinValidVersion(weightVersion) \in Int
    BY <1>1, ConstantTypes DEF MinValidVersion
  <2>3. ~(e.version < MinValidVersion(weightVersion))
    BY <1>1 DEF OldTrajectories
  <2>4. MinValidVersion(weightVersion) <= e.version
    BY <2>1, <2>2, <2>3
  <2> QED
    BY <1>3, <2>1, <2>4 DEF IntendedTrajectories, ValidTrajectories
<1>4. ASSUME NEW e \in Drawn, NEW f \in Drawn
      PROVE  e.group[1] = f.group[1] /\ (e.group[2] = f.group[2] => e = f)
  <2>1. e \in trajectories /\ f \in trajectories /\ e.target = f.target
    BY <1>2
  <2>2. /\ e.group \in Groups /\ Started(e.group)
        /\ f.group \in Groups /\ Started(f.group)
        /\ worker[e.group].target = worker[f.group].target
        /\ e.group = <<e.group[1], e.group[2]>>
        /\ f.group = <<f.group[1], f.group[2]>>
    BY <2>1, EntryTypes
  <2>3. e.group[1] = f.group[1]
    BY <2>2, OneBatch
  <2>4. e.group[2] = f.group[2] => e.group = f.group
    BY <2>2, <2>3
  <2> QED
    BY <2>1, <2>3, <2>4 DEF EntriesInv
<1>5. place \in Injection(Drawn, Prompts)
  <2>1. \A e \in Drawn : e.group[2] \in Prompts
    BY <1>2, EntryTypes
  <2> QED
    BY <1>4, <2>1 DEF Injection, IsInjective
<1> HIDE DEF place, Drawn
<1>6. IsFiniteSet(Drawn) /\ Cardinality(Drawn) <= NumPromptsPerStep
  BY <1>5, PromptsCount, FS_Injection
<1>7. Cardinality(Drawn) = NumPromptsPerStep
  <2>1. Cardinality(Drawn) \in Nat
    BY <1>6, FS_CardinalityType
  <2> QED
    BY <1>1, <1>6, <2>1, ConstantTypes
<1>8. place \in Surjection(Drawn, Prompts)
  BY <1>5, <1>7, PromptsCount, FS_Injection
<1>9. Finished(weightVersion, worker)
  <2>1. 0 \in Prompts
    BY ConstantTypes DEF Prompts
  <2>2. PICK e \in Drawn : place[e] = 0
    BY <1>8, <2>1 DEF Surjection
  <2>3. e \in trajectories /\ e.group[1] \in Batches
    BY <1>2, <2>2, EntryTypes DEF Groups
  <2>4. ASSUME NEW p \in Prompts
        PROVE  /\ worker[<<e.group[1], p>>].pc \in PastPcs
               /\ worker[<<e.group[1], p>>].target = weightVersion
    <3>1. PICK f \in Drawn : place[f] = p
      BY <1>8, <2>4 DEF Surjection
    <3>2. f.group[2] = p /\ f.group[1] = e.group[1]
      BY <1>4, <3>1 DEF place
    <3>3. f \in trajectories /\ f.target = weightVersion
      BY <1>2
    <3>4. f.group = <<e.group[1], p>> /\ worker[f.group].target = weightVersion
      BY <3>2, <3>3, EntryTypes
    <3>5. worker[f.group].pc \in PastPcs
      BY <3>3 DEF EntriesInv
    <3> QED
      BY <3>4, <3>5
  <2> QED
    BY <2>3, <2>4 DEF Finished
<1>10. ASSUME NEW e \in trajectories', e.target = weightVersion
       PROVE  FALSE
  <2>1. e \in Drawn /\ e \notin Selected(weightVersion)
    BY <1>1, <1>3, <1>10
  <2> DEFINE Before == {f \in Drawn : f.rank < e.rank}
  <2>2. e.rank \in Int
    BY <1>2, <2>1, EntryTypes
  <2>3. e \notin Before /\ Before \in SUBSET Drawn /\ Before # Drawn
    BY <2>1, <2>2
  <2>4. IsFiniteSet(Before) /\ Cardinality(Before) <= Cardinality(Drawn)
        /\ Cardinality(Before) # Cardinality(Drawn)
    BY <1>6, <2>3, FS_Subset
  <2>5. Cardinality(Before) \in Nat
    BY <2>4, FS_CardinalityType
  <2>6. Cardinality(Before) < NumPromptsPerStep
    BY <1>7, <2>4, <2>5, ConstantTypes
  <2>7. e \in Selected(weightVersion)
    BY <2>1, <2>6 DEF Selected, Drawn
  <2> QED
    BY <2>1, <2>7
<1> QED
  BY <1>9, <1>10

-----------------------------------------------------------------------------
(* The invariant                                                           *)

LEMMA EntriesStep ==
    ASSUME TypeInv, Fresh, EntriesInv, [Next]_vars
    PROVE  EntriesInv'
<1>1. \A e \in trajectories : e.group \in Groups
  BY DEF TypeInv, TypeOK, BufferTypeOK, Entries
<1>2. \A e \in trajectories : worker'[e.group].pc \in PastPcs
  <2> SUFFICES ASSUME NEW e \in trajectories
               PROVE  worker'[e.group].pc \in PastPcs
    OBVIOUS
  <2>1. e.group \in Groups /\ worker[e.group].pc \in PastPcs
    BY <1>1 DEF EntriesInv
  <2>2. Started(e.group)
    BY <2>1 DEF PastPcs, Started
  <2> QED
    BY <2>1, <2>2, WorkersAdvance
<1>3. CASE trajectories' \subseteq trajectories
  BY <1>2, <1>3 DEF EntriesInv
<1>4. ASSUME NEW g \in Groups, NEW n, WorkerStep(g),
             trajectories' = trajectories \cup
                {[group |-> g, version |-> worker[g].version,
                  target |-> worker[g].target, rank |-> n]},
             ~(trajectories' \subseteq trajectories)
      PROVE  EntriesInv'
  <2> DEFINE new == [group |-> g, version |-> worker[g].version,
                     target |-> worker[g].target, rank |-> n]
  <2>1. PushGroup(g)
    BY <1>4 DEF WorkerStep, TestRunning, RolloutFails, PushFull,
       ReleaseReservation, Detach, ReleaseInflight, bufferVars
  <2>2. worker \in [Groups -> Workers]
    BY DEF TypeInv, TypeOK, ActorTypeOK
  <2>3. worker[g].pc = "push" /\ worker'[g].pc \in PastPcs
    BY <2>1, <2>2 DEF PushGroup, At, WorkerGoto, PastPcs, Workers
  <2>4. \A e \in trajectories : e.group # g
    BY <2>3 DEF EntriesInv, PastPcs
  <2>5. new.group = g
    OBVIOUS
  <2> HIDE DEF new
  <2>6. trajectories' = trajectories \cup {new}
    BY <1>4 DEF new
  <2>7. \A e \in trajectories' : worker'[e.group].pc \in PastPcs
    BY <1>2, <2>3, <2>5, <2>6
  <2>8. \A e, f \in trajectories' : e.group = f.group => e = f
    BY <2>4, <2>5, <2>6 DEF EntriesInv
  <2> QED
    BY <2>7, <2>8 DEF EntriesInv
<1> QED
  BY <1>3, <1>4, BufferMoves

LEMMA LabelStep ==
    ASSUME TypeInv, Fresh, CallsPairUp, VersionInv, AgeInv, LabelInv, [Next]_vars
    PROVE  LabelInv'
<1>1. ASSUME NEW g \in Groups, worker'[g].version = worker[g].version
      PROVE  worker'[g].version <= currentWeightVersion'
  <2>1. worker[g].version \in Steps /\ currentWeightVersion \in Steps
    BY DEF TypeInv, TypeOK, ActorTypeOK, AttributeTypeOK, Workers
  <2>2. currentWeightVersion' \in Steps
    BY TypeStep DEF TypeInv, TypeOK, AttributeTypeOK
  <2>3. /\ worker[g].version \in Int /\ currentWeightVersion \in Int
        /\ currentWeightVersion' \in Int
    BY <2>1, <2>2
  <2>4. worker[g].version <= currentWeightVersion
    BY DEF LabelInv
  <2>5. currentWeightVersion <= currentWeightVersion'
    BY VersionsGrow
  <2>6. worker[g].version <= currentWeightVersion'
    BY <2>3, <2>4, <2>5
  <2> QED
    BY <1>1, <2>6, Zenon
<1>2. CASE StartWorkerWhenUnpaused
  <2>1. readVersion <= currentWeightVersion' /\ <<batch, promptIdx>> \in Groups
    BY <1>2, Launch DEF AgeInv
  <2>2. worker'[<<batch, promptIdx>>].version = readVersion
    BY <1>2, Launch
  <2>3. \A h \in Groups \ {<<batch, promptIdx>>} : worker'[h] = worker[h]
    BY <1>2, Launch
  <2> QED
    BY <1>1, <2>1, <2>2, <2>3, Zenon DEF LabelInv
<1>3. CASE LoopStep /\ ~StartWorkerWhenUnpaused /\ ~LaunchFails
  BY <1>1, <1>3, LoopMoves DEF LabelInv
<1>4. CASE \E g \in Groups : WorkerStep(g)
  BY <1>1, <1>4, WorkerMoves DEF LabelInv
<1>5. CASE ~LoopStep /\ ~\E g \in Groups : WorkerStep(g)
  BY <1>1, <1>5, OtherMoves DEF LabelInv
<1>6. CASE LaunchFails
  BY <1>1, <1>6, LaunchRaises DEF LabelInv
<1> QED
  BY <1>2, <1>3, <1>4, <1>5, <1>6

(* The driver's next target moves on only when it draws a step.            *)
LEMMA NextTargetMoves ==
    ASSUME TypeInv, [Next]_vars
    PROVE  \/ NextTarget' <= NextTarget
           \/ SampleStep /\ NextTarget = weightVersion /\ NextTarget' = weightVersion + 1
                /\ UNCHANGED worker
<1>1. weightVersion \in Int
  BY WeightVersionType
<1>2. CASE UNCHANGED <<trainerPc, weightVersion>>
  BY <1>1, <1>2 DEF NextTarget
<1>3. CASE SampleStep /\ TrainerStep
  <2>1. trainerPc = "sample" /\ trainerPc' = "train"
    BY <1>3 DEF SampleStep, Advance
  <2>2. UNCHANGED weightVersion
    BY <1>3, <2>1, SilentCalls DEF FinishRefit
  <2>3. UNCHANGED worker
    BY <1>3 DEF TrainerStep
  <2> QED
    BY <1>1, <1>3, <2>1, <2>2, <2>3 DEF NextTarget
<1>4. CASE FinishRefit
  BY <1>1, <1>4 DEF FinishRefit, Advance, NextTarget
<1>5. CASE TrainerStep /\ ~SampleStep /\ ~FinishRefit
  <2>1. UNCHANGED weightVersion
    BY <1>5 DEF TrainerStep, progressVars
  <2>2. trainerPc' \in {"train", "prepare_refit", "refit"} =>
           trainerPc \in {"train", "prepare_refit", "refit"}
    BY <1>5 DEF TrainerStep, ControlStep,
       InitialRefit, Train, DecideSave, SaveCheckpoint, FinishStep,
       InitialRefitFails, InitialDrained, InitialDrainFails,
       FinishInitialValidation, InitialWakeUpFails, FinishFill, FillWaits,
       FillFails, SampleFails, SampleWaits, SampleAgain, StopExhausted,
       PreparedForRefit, DrainFails, RefitFails, Drained, FinishValidation,
       ValidationFails, StatsFail, Answered, Advance, Leave
  <2> QED
    BY <1>1, <2>1, <2>2 DEF NextTarget
<1>6. CASE CollectorStep /\ UNCHANGED trainerVars
  BY <1>2, <1>6 DEF trainerVars, progressVars
<1>7. CASE UNCHANGED vars
  BY <1>2, <1>7 DEF vars, trainerVars, progressVars
<1> QED
  BY <1>3, <1>4, <1>5, <1>6, <1>7 DEF Next, Ended

LEMMA OnceStep ==
    ASSUME TypeInv, Fresh, CallsPairUp, VersionInv, AgeInv, BufferInv, [Next]_vars,
           ~GeneratedTwice'
    PROVE  /\ \A t \in Targets : t < NextTarget' => Finished(t, worker')
           /\ \A e \in trajectories' : NextTarget' <= e.target
           /\ \A g \in Groups : worker'[g].pc # "backoff"
<1>1. ~GeneratedTwice
  BY TwiceStays
<1>2. /\ \A t \in Targets : t < NextTarget => Finished(t, worker)
      /\ \A e \in trajectories : NextTarget <= e.target
      /\ \A g \in Groups : worker[g].pc # "backoff"
  BY <1>1 DEF BufferInv, OnceInv, At
<1>3. NextTarget \in Int /\ weightVersion \in Int
  BY WeightVersionType DEF NextTarget
<1>4. NextTarget' \in Int
  <2>1. weightVersion' \in StartStep .. MaxNumSteps
    BY TypeStep DEF TypeInv, TypeOK, TrainerTypeOK
  <2> QED
    BY <2>1, ConstantTypes DEF NextTarget
<1>5. \A t \in Targets : t \in Int
  BY ConstantTypes
<1>6. \A t \in Targets : t < NextTarget' => Finished(t, worker')
  <2> SUFFICES ASSUME NEW t \in Targets, t < NextTarget'
               PROVE  Finished(t, worker')
    OBVIOUS
  <2>1. CASE t < NextTarget
    BY <1>2, <2>1, FinishedStays
  <2>2. CASE SampleStep /\ NextTarget = weightVersion
               /\ NextTarget' = weightVersion + 1 /\ ~(t < NextTarget)
    <3>1. t = weightVersion
      BY <1>3, <1>5, <2>2
    <3> QED
      BY <1>1, <2>2, <3>1, DrawnWhole, FinishedStays
  <2> QED
    BY <1>3, <1>4, <1>5, <2>1, <2>2, NextTargetMoves
<1>7. \A e \in trajectories' : NextTarget' <= e.target
  <2> SUFFICES ASSUME NEW e \in trajectories'
               PROVE  NextTarget' <= e.target
    OBVIOUS
  <2>1. e.target \in Int
    <3>1. e \in Entries
      BY TypeStep DEF TypeInv, TypeOK, BufferTypeOK
    <3> QED
      BY <1>5, <3>1 DEF Entries
  <2>2. CASE SampleStep /\ NextTarget = weightVersion
               /\ NextTarget' = weightVersion + 1
    <3>1. e \in trajectories /\ e.target # weightVersion
      BY <1>1, <2>2, DrawnWhole DEF SampleStep, Sample
    <3> QED
      BY <1>2, <1>3, <2>1, <2>2, <3>1
  <2>3. CASE NextTarget' <= NextTarget
    <3>1. CASE e \in trajectories
      BY <1>2, <1>3, <1>4, <2>1, <2>3, <3>1
    <3>2. ASSUME NEW g \in Groups, WorkerStep(g), NEW n, e \notin trajectories,
                 trajectories' = trajectories \cup
                    {[group |-> g, version |-> worker[g].version,
                      target |-> worker[g].target, rank |-> n]}
          PROVE  NextTarget' <= e.target
      <4>1. PushGroup(g)
        BY <3>2 DEF WorkerStep, TestRunning, RolloutFails, PushFull,
           ReleaseReservation, Detach, ReleaseInflight, bufferVars
      <4>2. e.target = worker[g].target
        BY <3>2
      <4>3. NextTarget <= worker[g].target
        BY <1>1, <4>1, StillWanted DEF PushGroup, At, BufferInv
      <4> QED
        BY <1>3, <1>4, <2>1, <2>3, <4>2, <4>3
    <3> QED
      BY <3>1, <3>2, BufferMoves
  <2> QED
    BY <2>2, <2>3, NextTargetMoves
<1>8. \A g \in Groups : worker'[g].pc # "backoff"
  <2> SUFFICES ASSUME NEW g \in Groups
               PROVE  worker'[g].pc # "backoff"
    OBVIOUS
  <2>1. CASE worker'[g] = worker[g]
    BY <1>2, <2>1
  <2>2. ASSUME NEW h \in Groups, WorkerStep(h)
        PROVE  worker'[g].pc # "backoff"
    <3>1. CASE h # g
      BY <2>1, <2>2, <3>1, WorkerMoves
    <3>2. CASE h = g
      <4>1. ~PushFull(g)
        BY <1>1, RoomForOne DEF PushFull, At
      <4>2. \E pc \in WorkerPcs \ {"backoff"} : WorkerGoto(g, pc)
        BY <2>2, <3>2, <4>1 DEF WorkerStep, TestRunning, RolloutFails, PushGroup,
           ReleaseReservation, Detach, ReleaseInflight, WorkerPcs
      <4>3. worker \in [Groups -> Workers]
        BY DEF TypeInv, TypeOK, ActorTypeOK
      <4> QED
        BY <4>2, <4>3 DEF WorkerGoto, Workers
    <3> QED
      BY <3>1, <3>2
  <2>3. CASE StartWorkerWhenUnpaused
    <3>1. worker'[<<batch, promptIdx>>].pc = "rollout"
          /\ \A h \in Groups \ {<<batch, promptIdx>>} : worker'[h] = worker[h]
      BY <2>3, Launch
    <3> QED
      BY <2>1, <3>1
  <2>4. CASE LoopStep /\ ~StartWorkerWhenUnpaused /\ ~LaunchFails
    BY <2>1, <2>4, LoopMoves
  <2>5. CASE ~LoopStep /\ ~\E h \in Groups : WorkerStep(h)
    BY <2>1, <2>5, OtherMoves
  <2>6. CASE LaunchFails
    <3>1. worker'[<<batch, promptIdx>>].pc # "backoff"
          /\ \A h \in Groups \ {<<batch, promptIdx>>} : worker'[h] = worker[h]
      BY <1>2, <2>6, LaunchRaises
    <3> QED
      BY <2>1, <3>1
  <2> QED
    BY <2>2, <2>3, <2>4, <2>5, <2>6
<1> QED
  BY <1>6, <1>7, <1>8

LEMMA BufferStep ==
    ASSUME TypeInv, Fresh, CallsPairUp, VersionInv, AgeInv, BufferInv, [Next]_vars
    PROVE  BufferInv'
<1>1. EntriesInv' /\ LabelInv'
  BY EntriesStep, LabelStep DEF BufferInv
<1>2. OnceInv'
  BY OnceStep DEF OnceInv, At
<1> QED
  BY <1>1, <1>2 DEF BufferInv

(* Unless some target version was generated twice, no worker finds the     *)
(* buffer full and the driver never meets an entry too old for its step.   *)
THEOREM GeneratedOnceSuffices == Spec => []GeneratedOnceFits
<1>1. ASSUME TypeInv, VersionInv, AgeInv, BufferInv
      PROVE  GeneratedOnceFits
  <2> SUFFICES ASSUME ~GeneratedTwice, trainerPc = "sample",
                      NEW e \in OldTrajectories(weightVersion)
               PROVE  FALSE
    BY <1>1 DEF GeneratedOnceFits, BufferInv, OnceInv
  <2>1. e \in trajectories /\ e.version < MinValidVersion(weightVersion)
    BY DEF OldTrajectories
  <2>2. NextTarget <= e.target /\ NextTarget = weightVersion
    BY <1>1, <2>1 DEF BufferInv, OnceInv, NextTarget
  <2>3. /\ e.target \in Int /\ e.version \in Int
        /\ e.target <= e.version + MaxTrajectoryAgeSteps
    BY <1>1, <2>1, EntryTypes DEF BufferInv
  <2>4. e.version >= 0
    <3>1. e.version \in Steps
      BY <1>1, <2>1 DEF TypeInv, TypeOK, BufferTypeOK, Entries
    <3> QED
      BY <3>1, ConstantTypes
  <2>5. weightVersion \in Int /\ MaxTrajectoryAgeSteps \in Int
    BY <1>1, WeightVersionType, ConstantTypes
  <2> QED
    BY <2>1, <2>2, <2>3, <2>4, <2>5 DEF MinValidVersion
<1> QED
  BY <1>1, BufferInvInit, BufferStep, FreshInvariant, AgeInvariant,
     VersionInvariant, CallsPair, TypeInvariant, PTL DEF Spec
============================================================================
