----------------------------- MODULE ProgramSetup -----------------------------
(***************************************************************************)
(* The setup functions of the programs as scripts: which clusters they ask *)
(* for, which configurations they refuse, and the order in which they      *)
(* start worker groups, wait for them, put them to sleep and connect them. *)
(*                                                                         *)
(* A configuration (mix) is a record                                       *)
(*   program   grpo, distillation, sft, dpo, rm or eval                    *)
(*   policy    dtensor_v1, dtensor_v2, megatron, or diffusion (Megatron    *)
(*             with a worker class of models/policy/workers for diffusion  *)
(*             models); `mp' the product of its parallel sizes; `clash',   *)
(*             `resume' as in WorkerStart                                  *)
(*   gen       none, vllm, sglang or megatron; `gmp' its devices per engine*)
(*   colocated, nodes, gpus, infNodes, infGpus, rmNodes, rmGpus            *)
(*   vals      how many validation groups, `budgeted' those that say how   *)
(*             they share the memory; files: the converted weights         *)
(*   sameVocab whether the teacher has the vocabulary of the student       *)
(***************************************************************************)
EXTENDS WorkerStart, ClusterPlacement

IsMix(mix) ==
    /\ mix.program \in {"grpo", "distillation", "sft", "dpo", "rm", "eval"}
    /\ mix.policy \in {"dtensor_v1", "dtensor_v2", "megatron", "diffusion"}
    /\ mix.gen \in {"none", "vllm", "sglang", "megatron"}
    /\ mix.clash \in {"none", "packing", "sequence"}
    /\ mix.files \in {"none", "partial", "whole"}
    /\ {mix.colocated, mix.resume, mix.packs, mix.sameVocab} \subseteq BOOLEAN
    /\ {mix.nodes, mix.gpus, mix.mp, mix.gmp} \subseteq Nat \ {0}
    /\ {mix.infNodes, mix.infGpus, mix.rmNodes, mix.rmGpus} \subseteq Nat
    /\ mix.vals \in 0..2 /\ mix.budgeted \subseteq {"val 1", "val 2"}
    /\ mix.program \in {"grpo", "distillation"} => mix.gen # "none"
    /\ mix.program = "distillation" => mix.gen # "sglang"
    /\ mix.vals > 0 => mix.program = "grpo" /\ mix.gen # "megatron"
    /\ mix.rmGpus > 0 => mix.rmNodes > 0
    /\ mix.rmNodes > 0 => mix.program = "grpo"
    /\ mix.program \notin {"grpo", "distillation"} => mix.colocated

-----------------------------------------------------------------------------
(* Clusters *)

PolicyNodes(mix) == IF mix.nodes = 1 THEN 1 ELSE mix.nodes - mix.rmNodes

\* The reward model takes devices of the policy's node only when there is one node.
RewardShare(mix) == IF mix.nodes = 1 THEN mix.rmGpus ELSE 0

TrainGpus(mix) ==
    IF mix.colocated \/ PolicyNodes(mix) > 1
    THEN mix.gpus - (IF mix.colocated THEN RewardShare(mix) ELSE 0)
    ELSE mix.gpus - mix.infGpus - RewardShare(mix)

TrainNodes(mix) ==
    IF mix.colocated \/ PolicyNodes(mix) = 1 THEN PolicyNodes(mix)
    ELSE PolicyNodes(mix) - mix.infNodes

\* Wrong: a device is shared by the policy and the rollout engines only.
CapacityWithoutValidation(mix) ==
    IF mix.program = "grpo" THEN IF mix.gen = "megatron" THEN 1 ELSE 2
    ELSE IF mix.program = "distillation" THEN 3 ELSE 1

\* max_colocated_worker_groups of the cluster that the policy shares.
SharedCapacity(mix) ==
    CASE mix.program = "grpo" -> IF mix.gen = "megatron" THEN 1 ELSE 2 + mix.vals
      [] mix.program = "distillation" -> IF mix.gen = "megatron" THEN 1 ELSE 3
      [] OTHER -> 1

\* The capacities of the train and inference clusters that do not share devices.
OwnCapacity(mix) == IF mix.program = "distillation" THEN 3 ELSE 1
EngineCapacity(mix) == IF mix.program = "distillation" THEN 3 ELSE 1 + mix.vals

Clusters(mix) ==
    [train |-> Cluster(TrainNodes(mix), TrainGpus(mix),
                       IF mix.colocated THEN SharedCapacity(mix) ELSE OwnCapacity(mix)),
     inference |-> Cluster(IF PolicyNodes(mix) = 1 THEN 1 ELSE mix.infNodes,
                           mix.infGpus, EngineCapacity(mix)),
     reward |-> Cluster(mix.rmNodes, mix.rmGpus, 1)]

Machine(mix) == (1..mix.nodes) \X (1..mix.gpus)

-----------------------------------------------------------------------------
(* Configurations that are refused before anything is started *)

SplitRefused(mix) ==
    \/ mix.gen = "megatron"
    \/ IF PolicyNodes(mix) = 1
       THEN mix.infGpus = 0 \/ mix.infNodes \notin {0, 1} \/ TrainGpus(mix) <= 0
       ELSE mix.infNodes = 0 \/ mix.infGpus # mix.gpus

\* check_vocab_equality, once the clusters are planned and before anything is placed.
VocabDiffers(mix) == mix.program = "distillation" /\ ~mix.sameVocab

Refused(mix) ==
    \/ VocabDiffers(mix)
    \/ mix.program = "grpo" /\ mix.vals > 0 /\ mix.gen = "sglang" /\ ~mix.colocated
    \/ mix.program = "grpo" /\ PolicyNodes(mix) <= 0
    \/ mix.program = "grpo" /\ mix.colocated /\ TrainGpus(mix) <= 0
    \/ mix.program \in {"grpo", "distillation"} /\ ~mix.colocated /\ SplitRefused(mix)
    \/ mix.program = "eval" /\ mix.gen # "vllm"
    \/ mix.program = "dpo" /\ mix.packs

-----------------------------------------------------------------------------
(* Worker groups *)

ValGroups(mix) == {g \in {"val 1", "val 2"} : mix.vals >= (IF g = "val 1" THEN 1 ELSE 2)}

GroupNames == {"policy", "teacher", "rollout", "val 1", "val 2", "reward"}
EngineNames == {"rollout", "val 1", "val 2"}

PolicyGroup(mix, reference, resumes) ==
    [kind |-> mix.policy, size |-> 1, reference |-> reference, resumes |-> resumes,
     clash |-> mix.clash]

Group(mix, g) ==
    CASE g = "policy" ->
           PolicyGroup(mix, mix.program \in {"grpo", "dpo"}, mix.resume)
      [] g = "teacher" -> PolicyGroup(mix, FALSE, FALSE)
      [] g = "reward" -> [PolicyGroup(mix, FALSE, FALSE) EXCEPT !.kind = "dtensor_v2",
                                                                !.clash = "none"]
      [] OTHER -> [PolicyGroup(mix, FALSE, FALSE) EXCEPT !.kind = mix.gen,
                                                         !.size = mix.gmp]

ClusterOf(mix, g) ==
    CASE g = "reward" -> "reward"
      [] g \in EngineNames /\ ~mix.colocated -> "inference"
      [] OTHER -> "train"

\* Policy.__init__: the world must be a multiple of the parallel sizes.  VllmGeneration
\* asks the same; SGLang leaves the devices over that make no server.
Fits(mix, g) ==
    LET world == WorldSize(Clusters(mix)[ClusterOf(mix, g)])
    IN CASE g \in EngineNames /\ mix.gen = "vllm" -> world % mix.gmp = 0
         [] g \in EngineNames /\ mix.gen # "vllm" -> world >= mix.gmp
         [] g = "reward" -> TRUE
         [] OTHER -> world >= mix.mp /\ world % mix.mp = 0

\* _assert_val_group_shares_memory, asked for each validation group just before it is
\* started: SGLang needs its memory saver, vLLM a share of the memory of its own.
SharesMemory(mix, g) == g \in {"val 1", "val 2"} => g \in mix.budgeted

\* Engines that do not fit on a node need one placement group over the nodes, and
\* their cluster is filled node by node when it is not shared.
NeedsUnified(mix, g) ==
    g \in EngineNames /\ mix.gen = "vllm"
    /\ mix.gmp > Clusters(mix)[ClusterOf(mix, g)].perNode

Strategy(mix, g) == IF g \in EngineNames /\ ~mix.colocated THEN "PACK" ELSE "SPREAD"

-----------------------------------------------------------------------------
(* Scripts *)

Op(op, g) == [op |-> op, group |-> g]

StartOps(g) == <<Op("place", g), Op("start", g)>>

\* VllmGeneration returns when its engines are up, SGLangGeneration before.
EngineOps(mix, g) == StartOps(g) \o If(mix.gen = "vllm", Op("wait", g))

\* finish_generation puts engines to sleep only where the devices are shared.
RolloutOps(mix) ==
    EngineOps(mix, "rollout") \o If(mix.colocated, Op("sleep", "rollout"))

ValGroupOps(mix, g) ==
    IF g \in ValGroups(mix) THEN EngineOps(mix, g) \o <<Op("sleep", g)>> ELSE <<>>

ValidationOps(mix) == ValGroupOps(mix, "val 1") \o ValGroupOps(mix, "val 2")

\* Wrong: the teacher stays where it is.
TeacherStays == StartOps("teacher") \o <<Op("wait", "teacher")>>

\* offload_after_refit
TeacherOps == StartOps("teacher") \o <<Op("sleep", "teacher")>>

\* The engine groups that are refitted.
Refitted(mix) == {"rollout"} \union ValGroups(mix)

\* Wrong: the ports of all groups first.
ConnectAfterPorts(mix) ==
    LET each(op) == If("rollout" \in Refitted(mix), Op(op, "rollout"))
                    \o If("val 1" \in Refitted(mix), Op(op, "val 1"))
                    \o If("val 2" \in Refitted(mix), Op(op, "val 2"))
    IN IF mix.colocated THEN <<>> ELSE each("port") \o each("connect")

\* One collective per engine group, each made before the next port is looked for.
ConnectGroup(mix, g) ==
    IF mix.colocated \/ g \notin Refitted(mix) THEN <<>> ELSE <<Op("port", g), Op("connect", g)>>

ConnectOps(mix) ==
    ConnectGroup(mix, "rollout") \o ConnectGroup(mix, "val 1") \o ConnectGroup(mix, "val 2")

\* What the main thread does in a phase, and a second one beside it.
InMain(script) == [main |-> script, policy |-> <<>>]

\* grpo.setup: validation groups and rollout engines first, on clean devices; beside
\* the policy when they have devices of their own.
GrpoPhases(mix) ==
    LET ending == <<Op("wait", "policy")>> \o ConnectOps(mix) \o <<Op("wait", "policy")>>
    IN IF mix.gen = "megatron" THEN <<InMain(StartOps("policy")), InMain(ending)>>
       ELSE <<InMain(ValidationOps(mix)),
              IF mix.colocated
              THEN InMain(RolloutOps(mix) \o StartOps("policy"))
              ELSE [main |-> RolloutOps(mix), policy |-> StartOps("policy")],
              InMain(ending)>>

\* distillation.setup: the teacher, put aside, then the engines, then the student.
DistillationPhases(mix) ==
    LET student == IF mix.gen = "megatron" THEN StartOps("policy")
                   ELSE RolloutOps(mix) \o StartOps("policy") \o <<Op("wait", "policy")>>
    IN <<InMain(TeacherOps \o student), InMain(ConnectOps(mix))>>

\* The setup functions that start a policy and nothing else.  The call after its
\* constructor (print_node_ip_and_gpu_id) waits for all its workers.
PolicyOps == StartOps("policy") \o <<Op("wait", "policy")>>
SftPhases == <<InMain(PolicyOps)>>
DpoPhases == <<InMain(PolicyOps)>>
RmPhases == <<InMain(PolicyOps)>>

\* evals/eval.py's setup has no policy.
EvalPhases(mix) == <<InMain(EngineOps(mix, "rollout"))>>

\* A sequence of phases, each of which is left when all its threads have ended.
Phases(mix) ==
    CASE mix.program = "grpo" -> GrpoPhases(mix)
      [] mix.program = "distillation" -> DistillationPhases(mix)
      [] mix.program = "sft" -> SftPhases
      [] mix.program = "dpo" -> DpoPhases
      [] mix.program = "rm" -> RmPhases
      [] OTHER -> EvalPhases(mix)

\* The reward model environment is an actor that starts its own worker group while
\* the driver goes on.
RewardScript(mix) == IF mix.rmGpus > 0 THEN StartOps("reward") ELSE <<>>
=============================================================================
