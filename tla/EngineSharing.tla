---------------------------- MODULE EngineSharing ----------------------------
(***************************************************************************)
(* Who holds the devices in grpo_train and distillation_train: the policy  *)
(* while it trains, the rollout engines while they generate, and in a      *)
(* validation one engine group after the other, with a transfer of the     *)
(* weights before each of them.                                            *)
(*                                                                         *)
(* The driver is sequential; `pc' is its place between two calls on        *)
(* engines and policies.  Only a transfer has two processes at work.       *)
(***************************************************************************)
EXTENDS WeightTransfer, GenerationEngines

CONSTANTS
    Configs,       \* the configurations explored
    MaxVariants,   \* bound: validation decodes
    MaxVersion,    \* bound: training steps
    NumEngines,    \* the engines of the rollout group
    NumKnobs,      \* the decode knobs that a reconfiguration writes, one after the other
    Faults         \* what else may go wrong: a subset of {"validation", "reconfigure"}

\* A validation decode is "plain" (the rollout engines as they are), "soft" (the
\* rollout engines, reconfigured), or "group" (engines of its own).
IsConfig(c) ==
    /\ c.algorithm \in {"grpo", "distillation"}
    /\ c.backend \in Backends
    /\ c.colocated \in BOOLEAN
    /\ c.backend = "sglang" => c.colocated
    /\ c.offload_optimizer_for_logprob \in BOOLEAN
    /\ c.variants \in Seq({"plain", "soft", "group"})
    /\ Len(c.variants) \in 1..MaxVariants
    /\ c.algorithm = "distillation" => c.variants = <<"plain">> /\ c.backend = "vllm"

ASSUME EngineAssumption ==
    /\ \A c \in Configs : IsConfig(c)
    /\ MaxVariants \in Nat /\ MaxVersion \in Nat
    /\ NumEngines \in Nat \ {0} /\ NumKnobs \in Nat \ {0}
    /\ Faults \subseteq {"validation", "reconfigure"}

VARIABLES
    config,         \* fixed by Init
    pc,
    engines,        \* per engine group; Rollout, and the variants of kind "group"
    decode,         \* of each rollout engine, the decode that each knob is set for
    restore,        \* restore_dllm_overrides: empty, or the knobs to write back
    halfWritten,    \* history: a reconfiguration raised, partway or not
    policy,         \* what the policy has on the device ...
    teacher,        \* ... and the teacher of a distillation
    version,        \* of the policy's weights
    stale,          \* POLICY_GENERATION_STALE
    refitReturn,    \* where the driver goes on after a refit
    site,           \* the validation under way: before the first step, or in one
    variant,        \* its decode
    rolloutHolds,   \* rollout_holds_device
    slept,          \* rollout_slept_for_validation
    raised,         \* an exception is under way in the current decode
    torn            \* a secondary decode of this validation failed in its refit

decodeVars == <<decode, restore, halfWritten>>
driverVars == <<config, pc, engines, decodeVars, policy, teacher, version, stale, refitReturn,
                site, variant, rolloutHolds, slept, raised, torn>>
vars == <<transferVars, driverVars>>

Rollout == 0
Kind == config.variants[variant]
Groups == {i \in DOMAIN config.variants : config.variants[i] = "group"}
UsesRollout == \E i \in DOMAIN config.variants : config.variants[i] # "group"

\* All knobs of an engine, and of all of them, set for decode `v'.
KnobsOf(v) == [k \in 1..NumKnobs |-> v]
Decoded(v) == [w \in 1..NumEngines |-> KnobsOf(v)]

\* What reconfigure_dllm leaves when engine w has written its first n[w] knobs.
Reconfigured(knobs, n) ==
    [w \in 1..NumEngines |->
        [k \in 1..NumKnobs |-> IF k <= n[w] THEN knobs[k] ELSE decode[w][k]]]
Written == [1..NumEngines -> 0..NumKnobs]
Wholly == [w \in 1..NumEngines |-> NumKnobs]

SleepOf(g) == Sleep(config.backend, config.colocated, engines[g])
WakeUpOf(g) == WakeUp(config.backend, config.colocated, engines[g])
PrepareOf(g, tags) == PrepareForGeneration(config.backend, config.colocated, engines[g], tags)
FinishOf(g) == FinishGeneration(config.backend, config.colocated, engines[g])
LpInference(p) == PrepareForLpInference(p, config.offload_optimizer_for_logprob)

-----------------------------------------------------------------------------

\* setup(): the validation groups start first and go to sleep, then the rollout
\* engines, then the policy; the engines' weights are dummies.
Asleep == [memory |-> {}, holds |-> Garbage, flag |-> TRUE]

Init ==
    /\ config \in Configs
    /\ TransferInit({Rollout} \cup Groups)
    /\ pc = "start"
    /\ engines = [g \in {Rollout} \cup Groups |->
                    IF g = Rollout /\ ~config.colocated
                    THEN [Asleep EXCEPT !.memory = Tags, !.flag = FALSE]
                    ELSE Asleep]
    /\ decode = Decoded(Rollout) /\ restore = {} /\ halfWritten = FALSE
    /\ policy = PolicyParts
    /\ teacher = {}
    /\ version = 0
    /\ stale = TRUE
    /\ refitReturn = "none"
    /\ site = "none"
    /\ variant = 0
    /\ rolloutHolds = FALSE
    /\ slept = FALSE
    /\ raised = FALSE
    /\ torn = FALSE

-----------------------------------------------------------------------------
(* refit_policy_generation *)

Sockets == IF ~config.colocated THEN <<"producing", "consuming">>
           ELSE IF config.backend = "vllm" THEN <<"packing", "receiving">>
           ELSE <<"posting", "done">>

\* `p' is the policy as the caller leaves it, `e' the engine.
StartRefit(g, p, e, return) ==
    /\ policy' = IF config.colocated THEN OffloadBeforeRefit(p) ELSE p
    /\ engines' = [engines EXCEPT ![g] =
                     PrepareForGeneration(config.backend, config.colocated, e, {"weights"})]
    /\ StartTransfer(g, Sockets[1], Sockets[2])
    /\ refitReturn' = return
    /\ pc' = "transfer"

Transfer ==
    /\ pc = "transfer"
    /\ TransferStep
    /\ UNCHANGED driverVars

\* What is in the engine, whether or not the transfer went well.
Received == IF AllLoaded THEN version ELSE Garbage

\* Wrong: the policy stays where it is.
EndRefitInPlace ==
    /\ pc = "transfer"
    /\ TransferOver /\ TransferSucceeded
    /\ engines' = [engines EXCEPT ![group] =
                     MarkWeightsFresh(config.backend, [@ EXCEPT !.holds = Received])]
    /\ pc' = IF config.colocated THEN "refit_kv" ELSE refitReturn
    /\ stale' = (stale /\ group # Rollout)
    /\ UNCHANGED <<transferVars, config, policy, decodeVars, teacher, version, refitReturn, site,
                   variant, rolloutHolds, slept, raised, torn>>

EndRefit ==
    /\ pc = "transfer"
    /\ TransferOver /\ TransferSucceeded
    /\ engines' = [engines EXCEPT ![group] =
                     MarkWeightsFresh(config.backend, [@ EXCEPT !.holds = Received])]
    /\ policy' = IF config.colocated THEN OffloadAfterRefit(policy) ELSE policy
    /\ pc' = IF config.colocated THEN "refit_kv" ELSE refitReturn
    /\ stale' = (stale /\ group # Rollout)
    /\ UNCHANGED <<transferVars, config, decodeVars, teacher, version, refitReturn, site,
                   variant, rolloutHolds, slept, raised, torn>>

WakeKvCache ==
    /\ pc = "refit_kv"
    /\ engines' = [engines EXCEPT ![group] = PrepareOf(group, {"kv_cache"})]
    /\ pc' = refitReturn
    /\ UNCHANGED <<transferVars, config, decodeVars, policy, teacher, version, stale, refitReturn,
                   site, variant, rolloutHolds, slept, raised, torn>>

\* A ray.get raises, or not every receiver returned True.  In the refit of a
\* validation group the exception is the decode's; elsewhere it ends the run.
RefitFails ==
    /\ pc = "transfer"
    /\ TransferOver /\ ~TransferSucceeded
    /\ engines' = [engines EXCEPT ![group].holds = Garbage]
    /\ raised' = TRUE
    /\ torn' = (torn \/ group # Rollout)
    /\ pc' = IF group = Rollout THEN "failed" ELSE "end_variant"
    /\ UNCHANGED <<transferVars, config, decodeVars, policy, teacher, version, stale, refitReturn,
                   site, variant, rolloutHolds, slept>>

-----------------------------------------------------------------------------
(* Rollouts. *)

NeedsRefit ==
    \/ stale
    \/ config.algorithm = "grpo" /\ NeedsWeightRefit(config.backend, engines[Rollout])

\* When the weights in the engine are current, grpo_train makes room for it;
\* distillation_train does not, nor does the validation before the first step.
PrepareCurrentEngine(makeRoom) ==
    /\ policy' = IF makeRoom /\ config.colocated THEN OffloadAfterRefit(policy) ELSE policy
    /\ engines' = [engines EXCEPT ![Rollout] = PrepareOf(Rollout, Tags)]

\* Wrong: only the version of the policy is asked for.
PrepareRolloutIgnoringRelease ==
    /\ pc = "step"
    /\ IF stale
       THEN StartRefit(Rollout, policy, engines[Rollout], "rollout")
       ELSE /\ PrepareCurrentEngine(config.algorithm = "grpo")
            /\ pc' = "rollout"
            /\ UNCHANGED <<transferVars, refitReturn>>
    /\ UNCHANGED <<config, decodeVars, teacher, version, stale, site, variant, rolloutHolds,
                   slept, raised, torn>>

PrepareRollout ==
    /\ pc = "step"
    /\ IF NeedsRefit
       THEN StartRefit(Rollout, policy, engines[Rollout], "rollout")
       ELSE /\ PrepareCurrentEngine(config.algorithm = "grpo")
            /\ pc' = "rollout"
            /\ UNCHANGED <<transferVars, refitReturn>>
    /\ UNCHANGED <<config, decodeVars, teacher, version, stale, site, variant, rolloutHolds,
                   slept, raised, torn>>

\* The rollouts end; with dynamic sampling there may be more of them.
FinishRollout ==
    /\ pc = "rollout"
    /\ engines' = [engines EXCEPT ![Rollout] = FinishOf(Rollout)]
    /\ \/ pc' = "logprobs"
       \/ pc' = "step" /\ config.algorithm = "grpo"
    /\ UNCHANGED <<transferVars, config, decodeVars, policy, teacher, version, stale, refitReturn,
                   site, variant, rolloutHolds, slept, raised, torn>>

\* Log-probabilities: of the policy itself, or of the teacher.
PrepareLogprobs ==
    /\ pc = "logprobs"
    /\ IF config.algorithm = "grpo"
       THEN policy' = LpInference(policy) /\ UNCHANGED teacher
       ELSE teacher' = LpInference(teacher) /\ UNCHANGED policy
    /\ pc' = "prepare_training"
    /\ UNCHANGED <<transferVars, config, engines, decodeVars, version, stale, refitReturn, site,
                   variant, rolloutHolds, slept, raised, torn>>

PrepareTraining ==
    /\ pc = "prepare_training"
    /\ teacher' = OffloadAfterRefit(teacher)
    /\ policy' = PrepareForTraining(policy, config.colocated, config.offload_optimizer_for_logprob)
    /\ stale' = TRUE
    /\ pc' = "train"
    /\ UNCHANGED <<transferVars, config, engines, decodeVars, version, refitReturn, site, variant,
                   rolloutHolds, slept, raised, torn>>

\* The optimizer; then a validation is due, or not.
Train ==
    /\ pc = "train"
    /\ version < MaxVersion
    /\ version' = version + 1
    /\ \/ pc' = "validate" /\ site' = "step"
       \/ pc' = "checkpoint" /\ UNCHANGED site
    /\ UNCHANGED <<transferVars, config, engines, decodeVars, policy, teacher, stale, refitReturn,
                   variant, rolloutHolds, slept, raised, torn>>

\* A checkpoint is due, or not.
Checkpoint ==
    /\ pc = "checkpoint"
    /\ policy' \in {policy, PrepareForTraining(policy, config.colocated,
                                               config.offload_optimizer_for_logprob)}
    /\ pc' = IF version < MaxVersion THEN "step" ELSE "ended"
    /\ UNCHANGED <<transferVars, config, engines, decodeVars, teacher, version, stale, refitReturn,
                   site, variant, rolloutHolds, slept, raised, torn>>

-----------------------------------------------------------------------------
(* Validation. *)

Start ==
    /\ pc = "start"
    /\ \/ pc' = "validate" /\ site' = "start"
       \/ pc' = "step" /\ UNCHANGED site
    /\ UNCHANGED <<transferVars, config, engines, decodeVars, policy, teacher, version, stale,
                   refitReturn, variant, rolloutHolds, slept, raised, torn>>

\* The rollout engines are prepared if some decode needs them; if none does, and
\* they would not be asleep of themselves, they are put to sleep.
PrepareValidation ==
    /\ pc = "validate"
    /\ variant' = 1
    /\ rolloutHolds' = UsesRollout
    /\ slept' = (~UsesRollout /\ ~config.colocated)
    /\ torn' = FALSE
    /\ IF UsesRollout /\ NeedsRefit
       THEN StartRefit(Rollout, policy, engines[Rollout], "variant")
       ELSE /\ IF UsesRollout
               THEN PrepareCurrentEngine(site = "step" /\ config.algorithm = "grpo")
               ELSE /\ engines' = IF config.colocated THEN engines
                                  ELSE [engines EXCEPT ![Rollout] = SleepOf(Rollout)]
                    /\ UNCHANGED policy
            /\ pc' = "variant"
            /\ UNCHANGED <<transferVars, refitReturn>>
    /\ UNCHANGED <<config, decodeVars, teacher, version, stale, site, raised>>

\* Wrong: the rollout engines keep the device.
HandOverWithoutSleep ==
    /\ pc = "variant" /\ variant <= Len(config.variants) /\ Kind = "group"
    /\ rolloutHolds' = FALSE
    /\ engines' = engines
    /\ pc' = "prepare_group"
    /\ UNCHANGED <<transferVars, config, decodeVars, policy, teacher, version, stale, refitReturn,
                   site, variant, slept, raised, torn>>

\* A decode with engines of its own: the rollout engines give up the device ...
HandOver ==
    /\ pc = "variant" /\ variant <= Len(config.variants) /\ Kind = "group"
    /\ rolloutHolds' = FALSE
    /\ engines' = IF rolloutHolds THEN [engines EXCEPT ![Rollout] = SleepOf(Rollout)] ELSE engines
    /\ pc' = "prepare_group"
    /\ UNCHANGED <<transferVars, config, decodeVars, policy, teacher, version, stale, refitReturn,
                   site, variant, slept, raised, torn>>

\* Wrong: the policy is taken to be on the device.
PrepareValGenerationAsIs ==
    /\ pc = "prepare_group"
    /\ StartRefit(variant, policy,
                  IF config.colocated THEN engines[variant] ELSE WakeUpOf(variant), "val_pass")
    /\ UNCHANGED <<config, decodeVars, teacher, version, stale, site, variant, rolloutHolds, slept,
                   raised, torn>>

\* ... and _prepare_val_generation wakes and refits the group.
PrepareValGeneration ==
    /\ pc = "prepare_group"
    /\ StartRefit(variant,
                  IF config.colocated THEN LpInference(policy) ELSE policy,
                  IF config.colocated THEN engines[variant] ELSE WakeUpOf(variant),
                  "val_pass")
    /\ UNCHANGED <<config, decodeVars, teacher, version, stale, site, variant, rolloutHolds, slept,
                   raised, torn>>

\* A decode on the rollout engines takes the device back; "Waking restores the
\* weights offloaded by `sleep`, so no refit."
TakeBack ==
    /\ pc = "variant" /\ variant <= Len(config.variants) /\ Kind # "group"
    /\ engines' = IF rolloutHolds THEN engines ELSE [engines EXCEPT ![Rollout] = WakeUpOf(Rollout)]
    /\ rolloutHolds' = TRUE
    /\ \/ /\ Kind = "plain"
          /\ pc' = "val_pass"
          /\ UNCHANGED <<decodeVars, raised>>
       \/ /\ Kind = "soft"
          /\ pc' = "val_pass"
          /\ decode' = Reconfigured(KnobsOf(variant), Wholly)
          /\ restore' = {decode[1]}      \* results[0]
          /\ UNCHANGED <<halfWritten, raised>>
       \* Some engine raises; what the engines wrote stays, and there is nothing
       \* to restore it from.
       \/ /\ Kind = "soft" /\ "reconfigure" \in Faults
          /\ pc' = "end_variant"
          /\ \E n \in Written : decode' = Reconfigured(KnobsOf(variant), n)
          /\ halfWritten' = TRUE
          /\ raised' = TRUE
          /\ UNCHANGED restore
    /\ UNCHANGED <<transferVars, config, policy, teacher, version, stale, refitReturn, site,
                   variant, slept, torn>>

ValPass ==
    /\ pc = "val_pass"
    /\ raised' \in {FALSE} \cup (IF "validation" \in Faults THEN {TRUE} ELSE {})
    /\ pc' = "end_variant"
    /\ UNCHANGED <<transferVars, config, engines, decodeVars, policy, teacher, version, stale,
                   refitReturn, site, variant, rolloutHolds, slept, torn>>

\* The first decode's exception goes on; that of a secondary one is swallowed.
AfterVariant ==
    IF raised /\ variant = 1
    THEN pc' = "failed" /\ UNCHANGED <<variant, raised>>
    ELSE pc' = "variant" /\ variant' = variant + 1 /\ raised' = FALSE

\* The knobs are written back, if there are any to write ...
RestoreDecode ==
    /\ decode' = IF restore = {} THEN decode
                 ELSE Reconfigured(CHOOSE knobs \in restore : TRUE, Wholly)
    /\ UNCHANGED halfWritten
    /\ AfterVariant

\* ... "so a failed restore is fatal".
RestoreFails ==
    /\ restore # {} /\ "reconfigure" \in Faults
    /\ \E n \in Written : decode' = Reconfigured(CHOOSE knobs \in restore : TRUE, n)
    /\ halfWritten' = TRUE
    /\ pc' = "failed"
    /\ UNCHANGED <<variant, raised>>

\* Wrong: a decode that failed is left as it is.
EndVariantUnlessRaised ==
    /\ pc = "end_variant"
    /\ engines' = IF Kind = "group" /\ ~raised
                  THEN [engines EXCEPT ![variant] = SleepOf(variant)] ELSE engines
    /\ restore' = {}
    /\ IF raised THEN UNCHANGED <<decode, halfWritten>> /\ AfterVariant
       ELSE RestoreDecode \/ RestoreFails
    /\ UNCHANGED <<transferVars, config, policy, teacher, version, stale, refitReturn, site,
                   rolloutHolds, slept, torn>>

\* The `finally' clause.
EndVariant ==
    /\ pc = "end_variant"
    /\ engines' = IF Kind = "group" THEN [engines EXCEPT ![variant] = SleepOf(variant)] ELSE engines
    /\ restore' = {}
    /\ RestoreDecode \/ RestoreFails
    /\ UNCHANGED <<transferVars, config, policy, teacher, version, stale, refitReturn, site,
                   rolloutHolds, slept, torn>>

\* The end of validate(), and what its caller does after it.
FinishValidation ==
    /\ pc = "variant" /\ variant > Len(config.variants)
    /\ engines' = [engines EXCEPT ![Rollout] =
                     IF UsesRollout
                     THEN FinishGeneration(config.backend, config.colocated,
                                           IF rolloutHolds THEN @ ELSE WakeUpOf(Rollout))
                     ELSE IF slept THEN WakeUpOf(Rollout) ELSE @]
    /\ policy' = IF Groups = {} THEN policy ELSE LpInference(policy)
    /\ pc' = IF site = "start" THEN "step" ELSE "checkpoint"
    /\ rolloutHolds' = FALSE /\ slept' = FALSE /\ torn' = FALSE /\ variant' = 0
    /\ site' = "none" /\ refitReturn' = "none"
    /\ UNCHANGED <<transferVars, config, decodeVars, teacher, version, stale, raised>>

-----------------------------------------------------------------------------

DriverStep ==
    \/ Start
    \/ PrepareRollout \/ FinishRollout \/ PrepareLogprobs \/ PrepareTraining \/ Train
    \/ Checkpoint
    \/ EndRefit \/ WakeKvCache \/ RefitFails
    \/ PrepareValidation
    \/ HandOver \/ PrepareValGeneration
    \/ TakeBack \/ ValPass \/ EndVariant \/ FinishValidation

Ended == pc \in {"ended", "failed"} /\ UNCHANGED vars

Next == Transfer \/ DriverStep \/ Ended

Spec == Init /\ [][Next]_vars

\* The two workers of a transfer both run.
FairSpec ==
    /\ Spec
    /\ WF_vars(pc = "transfer" /\ SenderStep /\ UNCHANGED driverVars)
    /\ WF_vars(pc = "transfer" /\ ReceiverStep /\ UNCHANGED driverVars)
    /\ WF_vars(pc = "transfer" /\ Broadcast /\ UNCHANGED driverVars)
    /\ WF_vars(DriverStep)
=============================================================================
