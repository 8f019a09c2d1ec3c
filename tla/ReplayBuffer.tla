---------------------------- MODULE ReplayBuffer ----------------------------
(***************************************************************************)
(* The replay buffer of asynchronous GRPO: the Ray actor ReplayBuffer of   *)
(* nemo_rl/algorithms/async_utils.py.  One entry is one prompt group: a    *)
(* prompt with its num_generations_per_prompt rollouts.                    *)
(*                                                                         *)
(* The code keeps three parallel lists (trajectories, trajectory_versions, *)
(* target_weight_versions) that it always changes together under _lock, so *)
(* the model keeps one set of entries.  Of the list's order the code only  *)
(* uses the order of the entries with one target (sample is first-in       *)
(* first-out within a target): the field rank of an entry is its place in  *)
(* that order.  The payload of a trajectory is its identity, group.        *)
(*                                                                         *)
(* The actor runs one method at a time, so every method is one step.       *)
(***************************************************************************)
EXTENDS Integers, FiniteSets

CONSTANTS
    NumPromptsPerStep,      \* grpo.num_prompts_per_step
    MaxTrajectoryAgeSteps,  \* grpo.async_grpo.max_trajectory_age_steps
    MaxTarget               \* bound: no target weight version above this one

ASSUME BufferAssumption ==
    /\ NumPromptsPerStep \in Nat \ {0}
    /\ MaxTrajectoryAgeSteps \in Nat \ {0}
    /\ MaxTarget \in Nat

VARIABLES
    trajectories,   \* the entries now in the buffer
    pushed,         \* history: how many groups were ever pushed per target
    lastTarget,     \* last_target_weight_already_generated
    bufferError     \* _worker_error is not None

bufferVars == <<trajectories, pushed, lastTarget, bufferError>>

Versions == 0 .. MaxTarget

(* optimal_buffer_size, computed by async_grpo_train for the buffer it     *)
(* creates: late_arrival_slack is 2.                                       *)
MaxSize == NumPromptsPerStep * MaxTrajectoryAgeSteps * 2

BufferInit ==
    /\ trajectories = {}
    /\ pushed = [t \in Versions |-> 0]
    /\ lastTarget = -1
    /\ bufferError = FALSE

-----------------------------------------------------------------------------
(* push_with_wait_signal: "full" leaves the buffer alone.                  *)
IsFull == Cardinality(trajectories) >= MaxSize

Push(group, version, target) ==
    /\ ~IsFull
    /\ trajectories' = trajectories \cup
         {[group |-> group, version |-> version, target |-> target,
           rank |-> pushed[target] + 1]}
    /\ pushed' = [pushed EXCEPT ![target] = @ + 1]
    /\ lastTarget' = IF target > lastTarget THEN target ELSE lastTarget
    /\ UNCHANGED bufferError

ReportWorkerErrorLost == UNCHANGED bufferVars

(* report_worker_error                                                     *)
ReportWorkerError ==
    /\ bufferError' = TRUE
    /\ UNCHANGED <<trajectories, pushed, lastTarget>>

-----------------------------------------------------------------------------
(* sample(num_prompt_groups = NumPromptsPerStep, current_weight_version,   *)
(*        max_age_steps = MaxTrajectoryAgeSteps)                           *)

MinValidVersionOneTooHigh(current) ==
    IF current >= MaxTrajectoryAgeSteps THEN current - MaxTrajectoryAgeSteps + 1 ELSE 0

MinValidVersion(current) ==
    IF current > MaxTrajectoryAgeSteps THEN current - MaxTrajectoryAgeSteps ELSE 0

OldTrajectories(current) ==
    {e \in trajectories : e.version < MinValidVersion(current)}

ValidTrajectories(current) ==
    {e \in trajectories : MinValidVersion(current) <= e.version /\ e.version <= current}

IntendedTrajectories(current) ==
    {e \in ValidTrajectories(current) : e.target = current}

(* The first NumPromptsPerStep intended entries in list order.             *)
Selected(current) ==
    {e \in IntendedTrajectories(current) :
        Cardinality({f \in IntendedTrajectories(current) : f.rank < e.rank})
            < NumPromptsPerStep}

(* The call raises: a failed rollout was reported ...                      *)
SampleRaisesWorkerError == bufferError

(* ... or an entry has fallen out of the age window.                       *)
SampleRaisesOld(current) ==
    ~bufferError /\ OldTrajectories(current) # {}

(* The call returns None: nothing changes and the trainer stalls.          *)
SampleStalls(current) ==
    /\ ~bufferError
    /\ OldTrajectories(current) = {}
    /\ Cardinality(IntendedTrajectories(current)) < NumPromptsPerStep

(* The call returns a full step and removes it from the buffer.            *)
Sample(current) ==
    /\ ~bufferError
    /\ OldTrajectories(current) = {}
    /\ Cardinality(IntendedTrajectories(current)) >= NumPromptsPerStep
    /\ trajectories' = trajectories \ Selected(current)
    /\ UNCHANGED <<pushed, lastTarget, bufferError>>

=============================================================================
