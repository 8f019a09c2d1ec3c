------------------------------- MODULE StepData -------------------------------
(***************************************************************************)
(* The data of one step of a trainer.  Of grpo_train: the rollouts of a    *)
(* batch of prompts, the mask of truncated samples, the log-probabilities  *)
(* under the policy and the reference policy, and the training passes.  Of *)
(* distillation_train: the rollouts, the highest logits of the teacher and *)
(* a training pass of the student.  Of sft_train, rm_train and dpo_train:  *)
(* a batch of the dataset, for DPO its log-probabilities under the         *)
(* reference policy, a training pass, and a validation, whose last batch   *)
(* may be short.  Of run_env_eval: texts, verdicts and scores.  Everything *)
(* that is computed for a row must come back to that row, although the     *)
(* batch is regrouped by task, by worker, by length and by microbatch.     *)
(***************************************************************************)
EXTENDS Advantages, Evaluation

CONSTANT Configs    \* the configurations explored

Offline == {"sft", "dpo", "rm"}

IsDatum(trainer, datum) ==
    IF trainer = "sft" THEN datum.messages \in Seq(Nat)
    ELSE datum.context \in Seq(Nat) /\ Len(datum.context) % 2 = 1 /\ datum.ranks[1] # datum.ranks[2]

Devices(mesh) == mesh.pp * mesh.dp * mesh.cp * mesh.tp
IsMesh(mesh) == {mesh.pp, mesh.dp, mesh.cp, mesh.tp} \subseteq Nat \ {0}

\* A policy, with the rounding of c.  Context parallelism cuts every row in 2 * cp;
\* of the DTensor workers the first does not do it with packed sequences.
IsPolicy(policy, c) ==
    /\ policy.batching \in {"plain", "dynamic", "packed"}
    /\ policy.worker \in {"dtensor", "automodel", "megatron"}
    /\ IsMesh(policy.mesh) /\ VocabSize % policy.mesh.tp = 0
    /\ policy.mesh.cp > 1 =>
          /\ c.round % (2 * policy.mesh.cp) = 0 /\ c.divisor % (2 * policy.mesh.cp) = 0
          /\ policy.batching = "packed" => policy.worker = "megatron"
    /\ policy.mesh.pp > 1 => policy.worker = "megatron"

IsConfig(c) ==
    /\ c.program \in Offline \cup {"grpo", "distillation", "eval"}
    /\ c.prompts \in Seq(Nat \ {0}) /\ Len(c.tasks) = Len(c.prompts) /\ c.system \in Nat
    /\ \A k \in DOMAIN c.prompts : c.tasks[k] \in {"code", "game"} => c.prompts[k] < MaxSeqLen
    /\ IF c.program \in Offline THEN Len(c.data) \in Nat \ {0} ELSE c.prompts # <<>>
    /\ Len(c.data) \in Nat /\ Len(c.val.data) \in Nat
    /\ \A d \in DOMAIN c.data : IsDatum(c.program, c.data[d])
    /\ \A d \in DOMAIN c.val.data : IsDatum(c.program, c.val.data[d])
    /\ c.generations \in Nat \ {0} /\ c.maxTurns \in Nat \ {0}
    /\ c.environment.lens \subseteq Nat
    /\ c.environment.workers \in Nat \ {0} /\ c.environment.maxMoves \in Nat
    /\ \A k \in DOMAIN c.tasks : Actions(c.tasks[k]) \cap c.environment.actions \notin {{}, {"unparsable"}}
    /\ c.generation.backend \in Backends
    /\ c.generation.backend = "megatron" => c.worker = "megatron"
    /\ c.overlong_filtering \in BOOLEAN /\ c.reference \in BOOLEAN
    /\ c.estimator.name \in Estimators
    /\ {c.estimator.leaveOneOut, c.estimator.minusBaseline, c.estimator.klInReward} \subseteq BOOLEAN
    /\ {c.gbs, c.microBatch, c.val.batch, c.val.microBatch} \subseteq Nat \ {0}
    /\ c.updates \in Nat \ {0} /\ c.tokens.train \in Nat /\ c.tokens.logprobs \in Nat
    /\ c.algorithm \in Algorithms /\ IsPolicy(c, c) /\ IsPolicy(c.teacher, c)
    /\ c.topk \in 1..VocabSize /\ c.kl_type \in {"forward", "reverse", "mixed"} /\ c.zero_outside_topk \in BOOLEAN
    /\ c.program = "distillation" => /\ ~c.fuse /\ ~c.reference
                                     /\ Devices(c.teacher.mesh) = Devices(c.mesh)
    /\ c.round \in Nat \ {0} /\ c.divisor \in Nat \ {0} /\ c.chunk \in Nat
    /\ c.sampling \in BOOLEAN /\ c.fuse \in BOOLEAN
    /\ c.fuse => c.worker = "megatron"
    \* what the trainers and shard_by_batch_size assert
    /\ (IF c.program \in Offline THEN Len(c.data) ELSE Len(c.prompts) * c.generations) % c.gbs = 0
    /\ c.gbs % (c.mesh.dp * c.microBatch) = 0
    /\ c.val.batch % (c.mesh.dp * c.val.microBatch) = 0
    /\ c.program = "dpo" => c.batching = "plain"
    /\ c.program = "eval" =>
          /\ ~EvaluationRefused(c) /\ c.eval.verifier \in Verdicts /\ c.eval.answers \subseteq Answers
          /\ c.eval.prompts \in Nat \ {0} /\ \A k \in DOMAIN c.tasks : c.tasks[k] = "math"
    /\ c.program = "rm" => c.batching # "packed" /\ c.worker # "megatron" /\ c.mesh.cp = 1

ASSUME StepAssumption == \A c \in Configs : IsConfig(c)

VARIABLES
    passes               \* the training passes done

vars == <<pc, rolloutVars, policyVars, passes, evaluation>>

-----------------------------------------------------------------------------
(* The data of the offline trainers: the heap holds the rows of the        *)
(* training batch and, after them, those of the validation set.            *)

Collated(data) == IF Pairs THEN PreferenceCollate(data) ELSE Collate(data)
DataRows == Collated(config.data) \o Collated(config.val.data)
Excluded(ids, dataRows) == {k \in DOMAIN ids : dataRows[ids[k]].loss_multiplier = 0}

OfflineInit ==
    /\ \E dataRows \in {DataRows}, ids \in {Span(1, Len(config.data) * PerDatum)} :
          /\ message_log = [i \in DOMAIN dataRows |-> dataRows[i].log]
          /\ logOf = [i \in DOMAIN dataRows |-> i]
          /\ batch = ids
          /\ masked = Excluded(ids, dataRows)
    /\ extra_env_info = <<>> /\ credited = <<>> /\ truncated = <<>> /\ turns = <<>>
    /\ active = <<>> /\ finished = {}

OnlineInit == RolloutInit /\ masked = {}

\* _should_use_async_rollouts
UsesAsyncRollouts == config.generation.backend = "vllm_async"

\* Where a batch begins, and what is done with it once it has what it needs.
LossCall == IF validated > 0 THEN "validate" ELSE "train"
FirstCall == IF config.program = "dpo" THEN "get_reference_policy_logprobs" ELSE "train"

\* The rows of the j-th batch of the validation, and whether they are too few.
ValidationRows(j) ==
    LET first == Len(config.data) + (j - 1) * config.val.batch
        items == Min({config.val.batch, Len(config.val.data) - (j - 1) * config.val.batch})
    IN  Span(first * PerDatum + 1, (first + items) * PerDatum)
IsPartial(size) ==
    IF config.program = "dpo" THEN size % (Dp * config.val.microBatch * PerDatum) # 0
    ELSE size < config.val.batch * PerDatum

-----------------------------------------------------------------------------

Init ==
    /\ config \in Configs
    /\ IF config.program \in Offline
       THEN OfflineInit /\ pc = FirstCall
       ELSE OnlineInit /\ pc = IF config.program = "eval" THEN "evaluate"
                               ELSE IF UsesAsyncRollouts THEN "async" ELSE "generate"
    /\ PolicyInit /\ passes = 0 /\ evaluation = Idle

Rollout == RolloutStep /\ UNCHANGED <<policyVars, passes>>

\* The prompts that were too long do not count, and with overlong_filtering the
\* conversations that were truncated.
MaskTruncated ==
    /\ pc = "mask"
    /\ masked' = {k \in DOMAIN batch : \/ Datum(PromptOf(batch[k])).loss_multiplier = 0
                                       \/ config.program = "grpo" /\ config.overlong_filtering /\ truncated[batch[k]]}
    /\ pc' = IF config.program = "distillation" THEN "get_topk_logits" ELSE "get_logprobs"
    /\ UNCHANGED <<rolloutVars, call, program, at, weights, valid, grads, rows, applied,
                   prevLogprobs, referenceLogprobs, teacherTopk, validated, passes>>

Calls == {"get_logprobs", "get_reference_policy_logprobs", "get_topk_logits"} \cup Losses

\* The advantages are computed before the first training pass.
NoAdvantages == pc = "train" /\ passes = 0 /\ config.program = "grpo" /\ EstimatorRaises

StartCall ==
    /\ pc \in Calls /\ call = NoCall /\ ~NoAdvantages
    /\ Dispatch(pc)
    /\ UNCHANGED <<pc, rolloutVars, passes>>

CallRaises ==
    /\ pc \in Calls /\ call = NoCall /\ ~NoAdvantages
    /\ DispatchFails(pc)
    /\ pc' = "raised"
    /\ UNCHANGED <<rolloutVars, passes>>

AdvantagesRaise ==
    /\ call = NoCall /\ NoAdvantages
    /\ pc' = "raised"
    /\ UNCHANGED <<rolloutVars, policyVars, passes>>

WorkRaises ==
    /\ call # NoCall /\ CallStepRaises
    /\ pc' = "raised"
    /\ UNCHANGED <<rolloutVars, passes>>

Work == call # NoCall /\ CallStep /\ UNCHANGED <<pc, rolloutVars, passes>>

\* The driver takes the results of a call.
FinishCall(name) ==
    /\ pc = name /\ call # NoCall /\ CallDone
    /\ call' = NoCall
    /\ UNCHANGED <<rolloutVars, program, at, weights, valid, grads, rows, masked, validated, applied>>

TakeLogprobs ==
    /\ FinishCall("get_logprobs")
    /\ prevLogprobs' = Results
    /\ pc' = IF config.reference THEN "get_reference_policy_logprobs" ELSE "train"
    /\ UNCHANGED <<referenceLogprobs, teacherTopk, passes>>

TakeReferenceLogprobs ==
    /\ FinishCall("get_reference_policy_logprobs")
    /\ referenceLogprobs' = Results
    /\ pc' = LossCall
    /\ UNCHANGED <<prevLogprobs, teacherTopk, passes>>

TakeTopkLogits ==
    /\ FinishCall("get_topk_logits")
    /\ teacherTopk' = Results
    /\ pc' = "train"
    /\ UNCHANGED <<prevLogprobs, referenceLogprobs, passes>>

FinishPass ==
    /\ FinishCall("train")
    /\ passes' = passes + 1
    /\ pc' = IF passes + 1 < config.updates THEN "train" ELSE "validation"
    /\ UNCHANGED <<prevLogprobs, referenceLogprobs, teacherTopk>>

FinishValidation ==
    /\ FinishCall("validate")
    /\ pc' = "validation"
    /\ UNCHANGED <<prevLogprobs, referenceLogprobs, teacherTopk, passes>>

\* validate: the next batch of the validation set, filled up if it is the last
\* and short.
NextValidationBatch ==
    /\ pc = "validation" /\ validated * config.val.batch < Len(config.val.data)
    /\ validated' = validated + 1
    /\ \E ids \in {ValidationRows(validated + 1)} :
          /\ batch' = IF IsPartial(Len(ids)) THEN PadLastBatch(ids, Dp, config.val.microBatch * PerDatum) ELSE ids
          /\ masked' = Excluded(ids, DataRows) \cup ((Len(ids) + 1)..Len(batch'))
    /\ referenceLogprobs' = <<>> /\ applied' = <<>>
    /\ pc' = IF config.program = "dpo" THEN "get_reference_policy_logprobs" ELSE "validate"
    /\ UNCHANGED <<config, message_log, logOf, extra_env_info, credited, truncated, turns, active, finished,
                   call, program, at, weights, valid, grads, rows, prevLogprobs, teacherTopk, passes>>

EndStep ==
    /\ pc = "validation" /\ validated * config.val.batch >= Len(config.val.data)
    /\ pc' = "done"
    /\ UNCHANGED <<rolloutVars, policyVars, passes>>

TrainingStep ==
    \/ Rollout \/ MaskTruncated
    \/ StartCall \/ CallRaises \/ AdvantagesRaise \/ Work \/ WorkRaises
    \/ TakeLogprobs \/ TakeReferenceLogprobs \/ TakeTopkLogits \/ FinishPass
    \/ FinishValidation \/ NextValidationBatch \/ EndStep

Evaluate == EvaluationStep /\ UNCHANGED <<policyVars, passes>>

Stopped == pc \in {"done", "evaluated", "raised", "failed"} /\ UNCHANGED vars

Next ==
    \/ TrainingStep /\ UNCHANGED evaluation
    \/ Evaluate
    \/ Stopped

Spec == Init /\ [][Next]_vars
=============================================================================
