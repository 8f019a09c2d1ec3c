----------------------- MODULE EngineSharingProperties -----------------------
(***************************************************************************)
(* Device memory is never held twice, and nothing is generated with any    *)
(* weights but the policy's own.                                           *)
(***************************************************************************)
EXTENDS EngineSharing

\* At no moment does more than one engine group hold any memory on the devices.
OneGroupOnDevice ==
    \A g, h \in DOMAIN engines : engines[g].memory # {} /\ engines[h].memory # {} => g = h

\* Nothing of a policy is on the devices beside a colocated engine's KV cache,
\* which takes what is left of them.  (A secondary decode whose refit failed
\* leaves the policy there until its validation ends.)
KvAlone ==
    config.colocated /\ ~torn /\ (\E g \in DOMAIN engines : "kv_cache" \in engines[g].memory)
        => policy = {} /\ teacher = {}

\* The engine groups, and in grpo the policy beside them, are sized as if each
\* owned the devices: every hand-over takes the former owner off them first,
\* whatever failed before it (_swap_val_engine_group, prepare_for_generation).
DeviceHasOneOwner == OneGroupOnDevice /\ (config.algorithm = "grpo" => KvAlone)

\* Training data comes from the current policy, whatever validations, failed
\* transfers and sleeps were in between; and all engines decode it as configured,
\* as long as no reconfiguration has raised: one that does leaves the knobs it has
\* written, and validate restores nothing, though "leaving the engine on a validation
\* policy would corrupt every subsequent rollout" (grpo.py:3296).
RolloutsOnPolicy ==
    pc = "rollout" =>
        /\ Awake(engines[Rollout])
        /\ engines[Rollout].holds = version
        /\ halfWritten \/ decode = Decoded(Rollout)

\* Every decode of a validation measures the current policy, on the engines and
\* with the decode it is named for; again as long as no reconfiguration has
\* raised, and but for the weights of SGLang engines that slept for a decode on
\* engines of its own: theirs are gone, where "waking restores the weights"
\* (grpo.py:3242).
ValEngine == IF Kind = "group" THEN variant ELSE Rollout
SleptWithoutWeights ==
    /\ config.backend = "sglang" /\ Kind # "group"
    /\ \E i \in 1..(variant - 1) : config.variants[i] = "group"
ValidatesOnPolicy ==
    pc = "val_pass" =>
        /\ Awake(engines[ValEngine])
        /\ SleptWithoutWeights \/ engines[ValEngine].holds = version
        /\ halfWritten \/ decode = Decoded(IF Kind = "soft" THEN variant ELSE Rollout)

\* Weights are streamed over IPC from the device, so the parameters are there
\* as long as a transfer runs.
StreamsFromDevice ==
    pc = "transfer" /\ config.backend = "vllm" => "params" \in policy


-----------------------------------------------------------------------------
Config(algorithm, backend, colocated, offload, variants) ==
    [algorithm |-> algorithm, backend |-> backend, colocated |-> colocated,
     offload_optimizer_for_logprob |-> offload, variants |-> variants]

Mixes == {<<"plain">>, <<"soft">>, <<"plain", "soft">>, <<"group">>, <<"soft", "group">>, <<"group", "soft">>,
          <<"group", "group">>, <<"soft", "group", "soft">>}

SharingConfigs ==
    {c \in {Config("grpo", backend, colocated, offload, mix) :
               backend \in Backends, colocated \in BOOLEAN, offload \in BOOLEAN, mix \in Mixes} :
        c.backend = "sglang" => c.colocated}
    \cup {Config("distillation", "vllm", colocated, TRUE, <<"plain">>) : colocated \in BOOLEAN}

ParamSizes == <<2, 1, 1, 1>>
=============================================================================
