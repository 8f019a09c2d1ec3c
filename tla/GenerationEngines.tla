-------------------------- MODULE GenerationEngines --------------------------
(***************************************************************************)
(* What an engine group (VllmGeneration, SGLangGeneration) does with the   *)
(* memory of the devices, and where the policy workers keep their own.     *)
(*                                                                         *)
(* An engine is a record: which of its two allocations it holds, the       *)
(* version of the weights in it, and the one flag that its driver object   *)
(* keeps, _is_sleeping for vLLM, _weights_released_by_sleep for SGLang.     *)
(* All operators are functions of an engine and return the engine after.   *)
(***************************************************************************)
EXTENDS Integers

Backends == {"vllm", "sglang"}
Tags == {"weights", "kv_cache"}

\* The contents of memory that was never written, or freed and taken again.
Garbage == -1

Allocate(e, tags) == [e EXCEPT !.memory = @ \cup tags]

\* vLLM sleeps at level 1: the weights wait on the CPU.  SGLang's memory saver
\* gives up the contents with the memory.
Release(backend, e) ==
    IF backend = "vllm" THEN [e EXCEPT !.memory = {}]
    ELSE [e EXCEPT !.memory = {}, !.holds = IF "weights" \in e.memory THEN Garbage ELSE @]

PrepareForGeneration(backend, colocated, e, tags) ==
    IF ~colocated THEN e
    ELSE IF backend = "vllm" THEN [Allocate(e, tags) EXCEPT !.flag = FALSE]
    ELSE Allocate(e, tags)

\* A vLLM group that is not colocated only drops its prefix cache.
FinishGeneration(backend, colocated, e) ==
    IF colocated THEN [Release(backend, e) EXCEPT !.flag = TRUE] ELSE e

Sleep(backend, colocated, e) ==
    IF backend = "vllm"
    THEN IF e.flag THEN e ELSE [Release(backend, e) EXCEPT !.flag = TRUE]
    ELSE FinishGeneration(backend, colocated, e)

WakeUp(backend, colocated, e) ==
    IF backend = "vllm"
    THEN IF e.flag THEN [Allocate(e, Tags) EXCEPT !.flag = FALSE] ELSE e
    ELSE PrepareForGeneration(backend, colocated, e, Tags)

NeedsWeightRefit(backend, e) == backend = "sglang" /\ e.flag

MarkWeightsFresh(backend, e) == IF backend = "sglang" THEN [e EXCEPT !.flag = FALSE] ELSE e

Awake(e) == e.memory = Tags

-----------------------------------------------------------------------------
(* A policy is the set of what it has on the device. *)

PolicyParts == {"params", "optimizer"}

PrepareForLpInference(policy, offloadOptimizer) ==
    IF offloadOptimizer THEN {"params"} ELSE policy \cup {"params"}

PrepareForTraining(policy, colocated, offloadOptimizer) ==
    policy \cup {"params"} \cup (IF colocated \/ offloadOptimizer THEN {"optimizer"} ELSE {})

OffloadBeforeRefit(policy) == policy \ {"optimizer"}

OffloadAfterRefit(policy) == {}
=============================================================================
