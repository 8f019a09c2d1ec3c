------------------------------ MODULE WorkerStart ------------------------------
(***************************************************************************)
(* What a worker does in its __init__, for each kind of worker: the order  *)
(* of its collectives, of the loading of the base weights, of the copy     *)
(* kept as the reference model and of the restoring of a checkpoint.       *)
(*                                                                         *)
(* A start-up program is a sequence of steps [do, all]; a step with `all'  *)
(* is a collective of the whole group.  A group is                         *)
(* [kind, size, reference, resumes, clash]: `reference' and `resumes' say  *)
(* whether a reference copy is kept and a checkpoint restored, `clash'     *)
(* what context parallelism was configured with that excludes it: sequence *)
(* packing, sequence parallelism, or "none".                               *)
(***************************************************************************)
EXTENDS Integers, Sequences

Local(do) == [do |-> do, all |-> FALSE]
Collective(do) == [do |-> do, all |-> TRUE]
If(condition, step) == IF condition THEN <<step>> ELSE <<>>

\* The optimizer and the scheduler, and then what a checkpoint has of them and of the
\* weights.
Resume(group) == If(group.resumes, Collective("restore"))

\* An empty model over the mesh, that gets its weights from rank 0.
DTensorModel == <<Collective("mesh"), Collective("broadcast")>>

\* DTensorPolicyWorker: rank 0 reads the base weights and broadcasts them; the
\* reference is copied before the checkpoint is restored.
DTensorStart(group) ==
    <<Collective("rendezvous"), Local("options")>> \o DTensorModel
    \o If(group.reference, Local("copy")) \o Resume(group)

\* setup_model_and_optimizer: the model with its base weights, then the checkpoint.
AutomodelModel(group) ==
    <<Local("options"), Collective("pretrained")>> \o Resume(group)

\* DTensorPolicyWorkerV2: the reference is a copy of what that has left.
DTensorV2Start(group) ==
    <<Local("check"), Collective("rendezvous")>>
    \o AutomodelModel(group) \o If(group.reference, Local("copy"))

\* import_model_from_hf_name: all ranks build the model together, then write it.
Conversion == <<Collective("convert"), Collective("converted")>>

\* setup_model_and_optimizer of Megatron
MegatronModel == <<Collective("build"), Collective("load")>>

\* MegatronPolicyWorker: each rank looks for the converted weights by itself.
MegatronStart(group) ==
    <<Collective("rendezvous"), Local("look")>> \o Conversion
    \o <<Local("config")>> \o MegatronModel
    \o If(group.reference, Collective("pretrained reference"))

\* DiffusionMegatronPolicyWorker: first its device has to be there.
DiffusionStart(group) == <<Local("device")>> \o MegatronStart(group)

\* VllmGenerationWorker and SGLangGenerationWorker: the first worker of a tied group
\* launches the engine on all the bundles of the group, the others do nothing.
EngineStart(leader) == IF leader THEN <<Local("reserve"), Local("engine")>> ELSE <<>>

StartProgram(group, leader) ==
    CASE group.kind = "dtensor_v1" -> DTensorStart(group)
      [] group.kind = "dtensor_v2" -> DTensorV2Start(group)
      [] group.kind = "megatron" -> MegatronStart(group)
      [] group.kind = "diffusion" -> DiffusionStart(group)
      [] OTHER -> EngineStart(leader)

IsEngine(group) == group.kind \in {"vllm", "sglang"}

-----------------------------------------------------------------------------
(* A worker is [at, weights, reference, place]: its position in the        *)
(* program (0 until Ray has placed it), what is on its device, its         *)
(* reference, and what it was told when it was created.                    *)

Waiting == 0
Failed == -1
NewWorker(place) == [at |-> Waiting, weights |-> "none", reference |-> "none", place |-> place]

\* The steps that raise.
StepRaises(step, group, files) ==
    \/ step.do = "check" /\ group.clash = "packing"
    \/ step.do = "options" /\ group.clash # "none"
    \/ step.do = "config" /\ files # "whole"

\* What a step leaves on the device.
Loaded(step, worker, group) ==
    CASE step.do \in {"broadcast", "pretrained", "convert"} -> "base"
      [] step.do = "restore" -> "checkpoint"
      [] step.do = "converted" -> "none"
      [] step.do = "build" -> "blank"
      [] step.do = "load" -> IF group.resumes THEN "checkpoint" ELSE "base"
      [] step.do = "engine" -> "dummy"
      [] OTHER -> worker.weights

Kept(step, worker) ==
    CASE step.do = "copy" -> worker.weights
      [] step.do = "pretrained reference" -> "base"
      [] OTHER -> worker.reference

\* handle_model_import skips the conversion when the directory is there.
Skipped(step, files) == IF step.do = "look" /\ files # "none" THEN Len(Conversion) ELSE 0

AfterStep(step, worker, group, files) ==
    [worker EXCEPT !.at = @ + 1 + Skipped(step, files),
                   !.weights = Loaded(step, worker, group),
                   !.reference = Kept(step, worker)]

\* The directory of the converted weights: it is there, without its run_config, from
\* the moment the ranks begin to write it.
FilesAfter(step, files) ==
    CASE step.do = "convert" -> "partial"
      [] step.do = "converted" -> "whole"
      [] OTHER -> files
=============================================================================
