---------------------------- MODULE WorkerDispatch ----------------------------
(***************************************************************************)
(* nemo_rl/distributed/worker_groups.py and named_sharding.py: a call on a *)
(* group of workers that stand on a mesh.  Each worker is given its part   *)
(* of the data, and of the workers that compute the same one answers.      *)
(*                                                                         *)
(* A mesh is the sequence of its axes, outermost first; workers are        *)
(* counted from 0, coordinates too.  A call is a record of sets of axes:   *)
(* sharded, replicated and output_is_replicated.                           *)
(***************************************************************************)
EXTENDS Integers, Sequences, SequencesExt, FiniteSetsExt

\* The mesh of the training workers.
PolicyMesh(pp, dp, cp, tp) ==
    <<[name |-> "pipeline_parallel", size |-> pp], [name |-> "data_parallel", size |-> dp],
      [name |-> "context_parallel", size |-> cp], [name |-> "tensor_parallel", size |-> tp]>>

\* ... and that of the vLLM workers.
GenerationMesh(dp, pp, tp) ==
    <<[name |-> "data_parallel", size |-> dp], [name |-> "pipeline_parallel", size |-> pp],
      [name |-> "tensor_parallel", size |-> tp]>>

\* SGLang's servers distribute their models by themselves.
SglangMesh(servers, devices) ==
    <<[name |-> "data_parallel", size |-> servers], [name |-> "tensor_parallel", size |-> devices]>>

WorldSize(mesh) ==
    LET size[k \in 0..Len(mesh)] == IF k = 0 THEN 1 ELSE mesh[k].size * size[k - 1]
    IN  size[Len(mesh)]
Workers(mesh) == 0..(WorldSize(mesh) - 1)
Names(mesh) == {mesh[k].name : k \in DOMAIN mesh}

\* get_worker_coords: the workers fill the mesh in row-major order.
Coordinate(mesh, w, name) ==
    LET k == CHOOSE k \in DOMAIN mesh : mesh[k].name = name
    IN  (w \div WorldSize(SubSeq(mesh, k + 1, Len(mesh)))) % mesh[k].size

\* On a free axis, neither sharded nor replicated, only index 0 is called.
Called(mesh, call) ==
    {w \in Workers(mesh) :
        \A name \in Names(mesh) \ (call.sharded \cup call.replicated) : Coordinate(mesh, w, name) = 0}

Returning(mesh, call) ==
    {w \in Called(mesh, call) :
        \A name \in call.output_is_replicated : Coordinate(mesh, w, name) = 0}

\* The slice that worker w gets; data is sharded on one axis in every call.
SliceOf(mesh, w, data) == data[Coordinate(mesh, w, "data_parallel") + 1]

\* get_results and from_batches: the answers end to end, in the order of the
\* workers; result[w] is a sequence of rows.
GetResults(mesh, call, result) ==
    LET returning == Returning(mesh, call)
    IN  FlattenSeq([k \in 1..WorldSize(mesh) |-> IF k - 1 \in returning THEN result[k - 1] ELSE <<>>])

-----------------------------------------------------------------------------
(* The calls. *)

\* Policy.get_logprobs, get_reference_policy_logprobs and train.
PolicyCall ==
    [sharded |-> {"data_parallel"},
     replicated |-> {"context_parallel", "tensor_parallel", "pipeline_parallel"},
     output_is_replicated |-> {"context_parallel", "tensor_parallel", "pipeline_parallel"}]

\* Policy.generate.
PolicyGenerateCall ==
    [sharded |-> {"data_parallel"}, replicated |-> {"tensor_parallel", "pipeline_parallel"},
     output_is_replicated |-> {"tensor_parallel", "pipeline_parallel"}]

\* VllmGeneration.generate runs on the first worker of each model only.
GenerateCall == [sharded |-> {"data_parallel"}, replicated |-> {}, output_is_replicated |-> {}]
=============================================================================
