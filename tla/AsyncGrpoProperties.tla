------------------------ MODULE AsyncGrpoProperties ------------------------
(***************************************************************************)
(* What asynchronous GRPO has to guarantee, stated of AsyncGrpo.           *)
(***************************************************************************)
EXTENDS AsyncGrpo

Steps == StartStep .. MaxNumSteps
Targets == StartStep .. MaxTarget

LoopPcs == {"unstarted", "draw", "manual_pause", "refit_pause", "limits",
    "limits_last", "limits_check", "limit_warning", "limit_note",
    "limit_clear", "limit_wait", "recheck_pause", "process", "process_last", "reserve",
    "prompt", "prompt_refit_pause", "prompt_version", "acquire",
    "start_worker", "prune", "finally", "ended"}

(* The loop holds a reservation: it is launching the prompts of a batch.   *)
Launching == {"prompt", "prompt_refit_pause", "prompt_version", "acquire",
    "start_worker"}

WorkerPcs == {"none", "unstarted", "rollout", "push", "backoff", "release", "cleanup",
    "detach", "post", "done"}

(* A worker between its registration and its removal from the in-flight    *)
(* set.                                                                    *)
RegisteredPcs == {"rollout", "push", "backoff", "release", "cleanup", "detach"}

(* The points where the driver waits for the answer of a call.             *)
WaitingPcs == {"initial_drain", "prepare_refit", "drain", "ask_exhausted", "saving"}

(* ... where it has refitted for the next step and not counted it yet      *)
RefittedPcs == {"drain", "validation", "save", "saving", "stats"}

TrainerPcs == {"initial_refit", "initial_validation", "fill", "sample", "train",
    "refit", "stopped", "failed"} \cup WaitingPcs \cup RefittedPcs

TrainingLoopPcs == TrainerPcs \ {"initial_refit", "initial_drain",
    "initial_validation", "fill", "stopped", "failed"}

Messages == [op : Operations, arg : Steps]

Replies == [kind : {"none", "ok", "error", "exhausted", "more", "state"},
            batches : Nat]

Entries == [group : Groups, version : Steps, target : Targets, rank : Nat]

Workers == [pc : WorkerPcs, version : Steps, target : Targets,
            weights : Steps \cup {DummyWeights}]

BufferTypeOK ==
    /\ trajectories \subseteq Entries
    /\ pushed \in [Versions -> Nat]
    /\ lastTarget \in Targets \cup {-1}
    /\ bufferError \in BOOLEAN

AttributeTypeOK ==
    /\ running \in BOOLEAN
    /\ currentWeightVersion \in Steps
    /\ manualPauseCleared \in BOOLEAN
    /\ refitPauseCleared \in BOOLEAN
    /\ generationLimitCleared \in BOOLEAN
    /\ lastLimitWarningVersion \in Steps \cup {-1}
    /\ generatingTargets \subseteq Targets
    /\ inflightThreads \subseteq Groups
    /\ inflightSema \in Nat
    /\ workerError \in BOOLEAN
    /\ currentEpoch \in 0 .. MaxNumEpochs
    /\ datasetExhausted \in BOOLEAN

LoopTypeOK ==
    /\ loopPc \in LoopPcs
    /\ batch \in Batches \cup {0}
    /\ promptIdx \in Prompts
    /\ readVersion \in Steps
    /\ readLast \in Targets \cup {-1}
    /\ targetWeight \in Targets \cup {NotReserved}

ActorTypeOK ==
    /\ worker \in [Groups -> Workers]
    /\ abandonedTargets \subseteq Targets
    /\ mailbox \in Seq(Messages)
    /\ actorPc \in {"idle", "signal_limit", "draining"}
    /\ reply \in Replies
    /\ errorReports \in BOOLEAN
    /\ alive \in BOOLEAN
    /\ engineWeights \in Steps \cup {DummyWeights}

TrainerTypeOK ==
    /\ trainerPc \in TrainerPcs
    /\ step \in Steps
    /\ weightVersion \in Steps
    /\ policyWeights \in Steps
    /\ timedOut \in BOOLEAN
    /\ saved \in [step : Steps, batches : Nat]

(* Every variable has its type; weight versions stay within the run and    *)
(* target versions within max_trajectory_age_steps of it.                  *)
TypeOK ==
    /\ BufferTypeOK
    /\ AttributeTypeOK
    /\ LoopTypeOK
    /\ ActorTypeOK
    /\ TrainerTypeOK

-----------------------------------------------------------------------------
(* Pausing and draining                                                    *)

(* While a validation that reconfigures the engine, or puts it to sleep,   *)
(* runs, no rollout is being generated: pause_and_drain returns only when  *)
(* nothing generates and nothing can start until resume.                   *)
DrainedValidation ==
    ValidationDrains /\ trainerPc \in {"initial_validation", "validation"}
        => \A g \in Groups : ~At(g, "rollout")

Blocking == {"pause_and_drain", "prepare_for_refit", "is_exhausted",
    "get_dataloader_state"}

(* The call whose answer the driver waits for.                             *)
Awaited ==
    CASE trainerPc \in {"initial_drain", "drain"} -> "pause_and_drain"
      [] trainerPc = "prepare_refit" -> "prepare_for_refit"
      [] trainerPc = "ask_exhausted" -> "is_exhausted"
      [] OTHER -> "get_dataloader_state"

CallQueued ==
    /\ mailbox # <<>>
    /\ mailbox[Len(mailbox)].op = Awaited
    /\ \A i \in 1 .. Len(mailbox) - 1 : mailbox[i].op \notin Blocking
    /\ actorPc # "draining"
    /\ reply = NoReply

CallBeingServed ==
    /\ mailbox = <<>>
    /\ actorPc = "draining"
    /\ reply = NoReply

CallAnswered ==
    /\ mailbox = <<>>
    /\ actorPc = "idle"
    /\ reply # NoReply

(* The driver's calls and the collector's answers pair up.  While the      *)
(* driver waits its call is queued behind calls that nobody waits for, or  *)
(* being served, or answered with nothing left in the queue; when it does  *)
(* not wait there is no such call and no answer for a later call to take.  *)
CallsPairUp ==
    /\ trainerPc \in WaitingPcs => CallQueued \/ CallBeingServed \/ CallAnswered
    /\ trainerPc \notin WaitingPcs /\ ~Halted =>
          /\ \A i \in 1 .. Len(mailbox) : mailbox[i].op \notin Blocking
          /\ actorPc # "draining"
          /\ reply = NoReply

-----------------------------------------------------------------------------
(* Versions and ages                                                       *)

(* The collector's weight version is never ahead of the driver's and, when *)
(* the driver draws a batch or prepares a refit, at most one behind it;    *)
(* and the engine serves no older weights than the collector labels with,  *)
(* once the first refit has replaced its dummy weights.                    *)
CollectorVersionLag ==
    /\ currentWeightVersion <= weightVersion
    /\ weightVersion <= currentWeightVersion + 1
    /\ engineWeights # DummyWeights => currentWeightVersion <= engineWeights

(* A group is labelled no more than max_trajectory_age_steps before the    *)
(* step it is meant for, however often its worker waited for a refit, for  *)
(* a pause or for the semaphore: so sample's age filter removes nothing.   *)
LabelWithinAge ==
    \A e \in trajectories : e.target <= e.version + MaxTrajectoryAgeSteps

(* What a step trains on was generated, whatever its label says, with      *)
(* weights at most max_trajectory_age_steps older than the weights it      *)
(* updates and never newer ones (rollouts that an engine without its first *)
(* refit generated aside).                                                 *)
TrainedWithinAge ==
    [][trainerPc = "sample" /\ trainerPc' = "train" =>
         \A e \in trajectories \ trajectories' :
            LET w == worker[e.group].weights
            IN  w # DummyWeights =>
                    policyWeights - MaxTrajectoryAgeSteps <= w /\ w <= policyWeights]_vars

-----------------------------------------------------------------------------
(* Reservations, the buffer and the semaphore                              *)

(* A target stays reserved only while the loop or a worker that will drop  *)
(* the reservation is busy with it, or because an exception ended one of   *)
(* its launches: a failed rollout, a worker that stops without pushing, a  *)
(* full buffer or a failing loader leaves no target reserved for ever,     *)
(* which nobody would generate again.                                      *)
ReservationsAccounted ==
    \A t \in generatingTargets :
        \/ t \in abandonedTargets
        \/ loopPc \in Launching /\ targetWeight = t
        \/ \E g \in Groups : worker[g].target = t /\
              worker[g].pc \in {"rollout", "push", "backoff", "release", "cleanup"}

(* Every permit of the in-flight semaphore is free, held by the loop, held *)
(* by one worker, on its error paths too, or gone with a thread that was   *)
(* registered and could not be started: nothing else loses one, and none   *)
(* is given back twice.                                                    *)
PermitsAccounted ==
    inflightSema
        + Cardinality({g \in Groups : worker[g].pc \in RegisteredPcs \cup {"post", "unstarted"}})
        + (IF loopPc = "start_worker" THEN 1 ELSE 0) = MaxInflight

(* Whatever fails, times out or stops, a reservation or a permit is lost   *)
(* only to a launch that raised (_process_batch swallows the exception):   *)
(* _release_reservation and the finally clause of the worker return all    *)
(* the others.                                                             *)
OnlyLaunchesLeak == ReservationsAccounted /\ PermitsAccounted

(* The group's worker runs or has run.                                     *)
Started(g) == worker[g].pc \notin {"none", "unstarted"}

(* Two batches were launched for one target.                               *)
GeneratedTwice ==
    \E g, h \in Groups :
        /\ Started(g) /\ Started(h)
        /\ g[1] # h[1]
        /\ worker[g].target = worker[h].target

(* Unless some target was generated twice, the size the driver gives the   *)
(* buffer is enough, so that no worker ever finds it full, and sample's    *)
(* "unexpected old trajectories", which would end the run, are not there.  *)
GeneratedOnceFits ==
    ~GeneratedTwice =>
        /\ \A g \in Groups : ~At(g, "backoff")
        /\ trainerPc = "sample" => OldTrajectories(weightVersion) = {}

-----------------------------------------------------------------------------
(* Progress                                                                *)

(* A failed rollout does not go unnoticed: it stops the run, through the   *)
(* buffer's next answer or through a drain.  So does the end of the data:  *)
(* when all epochs are consumed the training loop ends instead of waiting  *)
(* for groups nobody will generate.  A loop that its own data loader ended *)
(* with an exception tells nobody, and the trainer does wait.              *)
RunStops ==
    /\ workerError ~> Halted
    /\ (datasetExhausted /\ trainerPc \in TrainingLoopPcs) ~> Halted

(* A drain returns, or else a worker it waits for has found the buffer     *)
(* full; a thread that could not be started does not hold it up.           *)
DrainReturns ==
    actorPc = "draining" ~>
        (actorPc # "draining" \/ ~alive \/ \E g \in Groups : At(g, "backoff"))

-----------------------------------------------------------------------------
(* What the repository says of the program and the runs refute             *)

(* prepare_for_refit pauses new generation starts and, without in-flight   *)
(* weight updates, "waits for all pending generations to complete before   *)
(* refit": nothing generates while the weights are replaced.               *)
DrainedRefit ==
    ~InFlightWeightUpdates /\ trainerPc = "refit"
        => \A g \in Groups : ~At(g, "rollout")

(* The version of a group is "the weight-version used for generation of a  *)
(* trajectory": the engine served it, or later ones, when the group's      *)
(* rollout started.                                                        *)
LabelIsWeightsUsed ==
    \A g \in Groups : Started(g) => worker[g].version <= worker[g].weights

(* sample returns None "to stall training until the remaining trajectories *)
(* are generated": a waiting step is trained in the end, or the run stops. *)
WaitingStepIsTrained ==
    trainerPc = "sample" ~> (trainerPc = "train" \/ Halted)

=============================================================================
