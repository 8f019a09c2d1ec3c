------------------------------ MODULE PolicyStep ------------------------------
(***************************************************************************)
(* One call of Policy.get_logprobs, get_reference_policy_logprobs,         *)
(* get_topk_logits (of the teacher) or train (models/policy/lm_policy.py;  *)
(* "validate" is train with eval_mode) and                                 *)
(* what the training workers do in it:                                     *)
(* the DTensor worker ("dtensor"), its second version on Automodel         *)
(* ("automodel") and the Megatron worker ("megatron").                     *)
(*                                                                         *)
(* A worker's part of a call is a program, the sequence of its operations: *)
(*   "sizes"  all_reduce of the sizes of the shards                        *)
(*   "valid"  all_reduce of the valid samples and tokens of a global batch;*)
(*            zero_grad                                                    *)
(*   "count"  all_reduce of the number of microbatches                     *)
(*   "micro"  a microbatch, forward and in train backward                  *)
(*   "step"   reduction of the gradients, and the optimizer's step         *)
(*   "broadcast" of the results of Megatron's last stage                   *)
(*   "gather" Megatron's exchange of the results among the workers that    *)
(*            share the layers                                             *)
(*   "loss"   all_reduce of the losses                                     *)
(*   "swap", "restore"  the reference model's weights, in and out          *)
(* An operation is done by all its participants together, or by none: a    *)
(* microbatch by the workers that hold parts of one model, or, if the model*)
(* is sharded over the data-parallel ranks too, by all of them.            *)
(***************************************************************************)
EXTENDS Rollouts, TopkLogits

VARIABLES
    call,        \* the call under way: its name, and its sharding
    program, at, \* per worker: its operations, and the next one
    weights,     \* per worker: what it computes with
    valid,       \* per worker: global_valid_seqs and global_valid_toks
    grads,       \* per worker: what is in its gradients, [samples, terms]
    rows,        \* per worker: what it has computed, <<sample, weights, scores>>
    prevLogprobs, referenceLogprobs,   \* train_data["prev_logprobs"], ["reference_policy_logprobs"]
    teacherTopk, \* train_data["teacher_topk_logits"] and ["teacher_topk_indices"]
    masked,      \* the rows whose loss_multiplier is 0
    validated,   \* the batches of the validation begun
    applied      \* per step of the optimizer, or loss of a validation: what went
                 \* into it, per replica

dataVars == <<prevLogprobs, referenceLogprobs, teacherTopk, masked, validated>>
policyVars == <<call, program, at, weights, valid, grads, rows, applied, dataVars>>

\* The policy that is called: the teacher is one of its own, on the same devices.
Acting == IF pc = "get_topk_logits" THEN config.teacher
          ELSE [worker |-> config.worker, batching |-> config.batching, mesh |-> config.mesh]

Mesh == PolicyMesh(Acting.mesh.pp, Acting.mesh.dp, Acting.mesh.cp, Acting.mesh.tp)
Dp == Acting.mesh.dp
Ranks == Workers(Mesh)

\* The workers that hold the other shards for worker w.
DpGroup(w) ==
    {v \in Ranks : \A name \in Names(Mesh) \ {"data_parallel"} :
                       Coordinate(Mesh, v, name) = Coordinate(Mesh, w, name)}
Replicas == {w \in Ranks : Coordinate(Mesh, w, "data_parallel") = 0}

\* The samples of the returned batch, and how long their conversations are.
Lengths == Kept([k \in DOMAIN batch |-> Length(Log(batch[k]))])

\* batched_message_log_to_flat_message: the rows are padded to one width.  The
\* tokens of the assistant count in the loss, or those of the last message.
Width == RoundUp(Max(Range(Lengths)), config.divisor)
RowOf(k, width) == LET length == Lengths[k] IN Kept([p \in 1..width |-> IF p <= length THEN <<k, p>> ELSE Pad])
TokenMask(k) == LossMask(Log(batch[k]), config.program = "dpo")

\* A pair of answers is two rows.
Pairs == config.program \in {"dpo", "rm"}
PerDatum == IF Pairs THEN 2 ELSE 1

NoCall == [name |-> "none"]

-----------------------------------------------------------------------------
(* The data of a call. *)

Args(tokens) ==
    [round |-> IF Acting.batching = "packed" THEN config.divisor ELSE config.round, width |-> Width, maxTokens |-> tokens, algorithm |-> config.algorithm]

\* use_dynamic_batches, use_sequence_packing, or neither.
Sharded(lengths, shards, batchSize, args) ==
    CASE Acting.batching = "plain" -> {PlainSharding([k \in DOMAIN batch |-> k], shards, batchSize)}
      [] Acting.batching = "dynamic" -> DynamicSharding(lengths, shards, batchSize, args)
      [] Acting.batching = "packed" -> PackedShardings(lengths, shards, batchSize, args)
Shardings(batchSize, tokens) ==
    UNION {Sharded(lengths, Dp, batchSize, args) : lengths \in {Lengths}, args \in {Args(tokens)}}

\* train_mb_tokens and logprob_mb_tokens, and the global batch and microbatch
\* sizes, which the trainers double for pairs.
Losses == {"train", "validate"}
TokensOf(name) == IF name \in Losses THEN config.tokens.train ELSE config.tokens.logprobs
BatchSizeOf(name) == IF name = "train" THEN config.gbs * PerDatum ELSE Len(batch)

\* How the methods of Policy shard the data: train in global batches, the others
\* all of it.
TrainBatch(name) == [size |-> BatchSizeOf(name), tokens |-> config.tokens.train]
LogprobsBatch == [size |-> Len(batch), tokens |-> config.tokens.logprobs]
ReferenceBatch == [size |-> Len(batch), tokens |-> config.tokens.logprobs]
TopkBatch == [size |-> Len(batch), tokens |-> config.tokens.logprobs]
BatchFor(name) ==
    CASE name \in Losses -> TrainBatch(name)
      [] name = "get_logprobs" -> LogprobsBatch
      [] name = "get_reference_policy_logprobs" -> ReferenceBatch
      [] name = "get_topk_logits" -> TopkBatch
ShardingsFor(name) == UNION {Shardings(b.size, b.tokens) : b \in {BatchFor(name)}}
MicroBatchSize == (IF validated > 0 THEN config.val.microBatch ELSE config.microBatch) * PerDatum

-----------------------------------------------------------------------------
(* Programs. *)

Op(name) == [op |-> name, rows |-> <<>>, width |-> 0, packTo |-> 0, dummy |-> FALSE]
Micro(mb, packTo, dummy) ==
    [op |-> "micro", rows |-> mb.samples, width |-> mb.width, packTo |-> packTo, dummy |-> dummy]

ShardOf(w) == Coordinate(Mesh, w, "data_parallel") + 1

\* With a pipeline, Megatron pads packed microbatches to the longest of the batch.
PackTo(mbs) ==
    LET Packed(samples) == FoldLeft(LAMBDA n, k : n + RoundUp(Lengths[k], config.divisor), 0, samples)
    IN  IF Acting.mesh.pp = 1 THEN 0 ELSE Max({Packed(mb.samples) : mb \in Range(mbs)})

\* A worker's microbatches of a batch, of those of all shards.  Packed, the workers
\* count theirs, and those with fewer repeat some as dummies; Megatron does not.
OwnMicrobatches(all, w) ==
    LET own == all[ShardOf(w)]
        most == Max({Len(all[s]) : s \in 1..Dp})
        packTo == IF Acting.batching = "packed" THEN PackTo(own) ELSE 0
        real == [k \in DOMAIN own |-> Micro(own[k], packTo, FALSE)]
        dummies == [d \in 1..(most - Len(own)) |-> Micro(own[((d - 1) % Len(own)) + 1], packTo, TRUE)]
    IN  IF Acting.batching = "packed" /\ Acting.worker # "megatron"
        THEN <<Op("count")>> \o real \o dummies
        ELSE real

\* train: every worker learns from the sizes how many global batches there are.
GlobalBatches(sharding, name) ==
    LET total == FoldLeft(LAMBDA n, s : n + Len(sharding.rows[s]), 0, Span(1, Dp))
    IN  total \div BatchSizeOf(name)

\* The rows of a shard in a batch: a share of the global one, or all of it.
LocalRows(sharding, s, name) ==
    IF name \in Losses THEN BatchSizeOf(name) \div Dp ELSE Len(sharding.rows[s])

\* The microbatches of all shards, batch by batch.
Microbatches(sharding, name) ==
    [g \in 1..(IF name \in Losses THEN GlobalBatches(sharding, name) ELSE 1) |->
        Kept([s \in 1..Dp |->
            MicroBatches(sharding, s, g, LocalRows(sharding, s, name), MicroBatchSize, Width)])]

\* A global batch; in eval_mode nothing is learnt from it.
GlobalBatchOps(sharding, micros, w, g, name) ==
    <<[Op("valid") EXCEPT !.rows = GetBatch(sharding, ShardOf(w), g, LocalRows(sharding, ShardOf(w), name))]>>
        \o OwnMicrobatches(micros[g], w)
        \o (IF name = "train" THEN <<Op("step")>> ELSE <<>>)

\* Megatron's workers then agree on how the step went, and those of the last
\* stage tell the others the losses.
MegatronBatchOps(ops) == Append(ops, Op("gather"))

TrainProgram(sharding, micros, w, name) ==
    LET Complete(ops) == IF Acting.worker = "megatron" THEN MegatronBatchOps(ops) ELSE ops
        OfBatch(g) == Complete(GlobalBatchOps(sharding, micros, w, g, name))
    IN  <<Op("sizes")>> \o FlattenSeq([g \in DOMAIN micros |-> OfBatch(g)]) \o <<Op("loss")>>

\* get_logprobs: the whole shard is one batch.  The first version of the DTensor
\* worker unshards the model for it.
WholeShard(micros, w) == OwnMicrobatches(micros[1], w)
DTensorLogprobsProgram(micros, w) == <<Op("unshard")>> \o WholeShard(micros, w)

\* Megatron's last stage has the results, and tells the others.
MegatronLogprobsProgram(micros, w) == Append(WholeShard(micros, w), Op("broadcast"))

LogprobsProgram(micros, w) ==
    CASE Acting.worker = "dtensor" -> DTensorLogprobsProgram(micros, w)
      [] Acting.worker = "automodel" -> WholeShard(micros, w)
      [] Acting.worker = "megatron" -> MegatronLogprobsProgram(micros, w)

\* get_topk_logits: nobody unshards.
TopkProgram(micros, w) ==
    IF Acting.worker = "megatron" THEN Append(WholeShard(micros, w), Op("broadcast")) ELSE WholeShard(micros, w)

Program(name, sharding, micros, w) ==
    CASE name \in Losses -> TrainProgram(sharding, micros, w, name)
      [] name = "get_logprobs" -> LogprobsProgram(micros, w)
      [] name = "get_topk_logits" -> TopkProgram(micros, w)
      [] name = "get_reference_policy_logprobs" ->
            <<Op("swap")>> \o LogprobsProgram(micros, w) \o <<Op("restore")>>

\* FSDP gathers the parameters for every microbatch, unless the first version of
\* the DTensor worker has unsharded them; Megatron's workers hold their own.
ShardedOverReplicas == Acting.worker = "automodel" \/ (Acting.worker = "dtensor" /\ call.name \in Losses \cup {"get_topk_logits"})

\* The workers that hold the parts of one model, and its data.
ModelGroup(w) == {v \in Ranks : ShardOf(v) = ShardOf(w)}

\* Those of them that see the same part of the sequences.
LayerGroup(w) ==
    {v \in ModelGroup(w) : Coordinate(Mesh, v, "context_parallel") = Coordinate(Mesh, w, "context_parallel")}

\* The stages of one pipeline.
Pipeline(w) == {v \in LayerGroup(w) : Coordinate(Mesh, v, "tensor_parallel") = Coordinate(Mesh, w, "tensor_parallel")}

\* Who takes part in the operation that worker w comes to.
Participants(w, op) ==
    CASE op \in {"swap", "restore"} -> {w}
      [] op = "gather" -> LayerGroup(w)
      [] op = "broadcast" -> Pipeline(w)
      [] op = "micro" /\ ~ShardedOverReplicas -> ModelGroup(w)
      [] OTHER -> Ranks

-----------------------------------------------------------------------------
(* Running a call. *)

PolicyInit ==
    /\ call = NoCall
    /\ program = [w \in Ranks |-> <<>>] /\ at = [w \in Ranks |-> 1]
    /\ weights = [w \in Ranks |-> "policy"]
    /\ valid = [w \in Ranks |-> [seqs |-> 0, toks |-> 0]]
    /\ grads = [w \in Ranks |-> <<>>]
    /\ rows = [w \in Ranks |-> <<>>]
    /\ prevLogprobs = <<>> /\ referenceLogprobs = <<>> /\ teacherTopk = <<>> /\ applied = <<>>
    /\ validated = 0

\* The data is sharded and the calls are sent.
Dispatch(name) ==
    \E sharding \in ShardingsFor(name) : \E micros \in {Kept(Microbatches(sharding, name))} :
        /\ call' = [name |-> name, sharding |-> sharding]
        /\ program' = [w \in Ranks |-> Program(name, sharding, micros, w)]
        /\ at' = [w \in Ranks |-> 1]
        /\ rows' = [w \in Ranks |-> <<>>]
        /\ applied' = IF name \in Losses THEN <<>> ELSE applied
        /\ UNCHANGED <<weights, valid, grads, dataVars>>

\* The assertion on a sequence that fits no microbatch, or a packer's ValueError.
DispatchFails(name) ==
    /\ ShardingsFor(name) = {}
    /\ UNCHANGED policyVars

Running(w) == at[w] <= Len(program[w])
Current(w) == program[w][at[w]]
Unmasked(samples) == SelectSeq(samples, LAMBDA k : k \notin masked)

\* What of its global batch worker w would have count; the first token of a row
\* has no log-probability.  The data of reward models has no token_mask.
ValidIn(w) ==
    LET samples == Unmasked(Current(w).rows)
    IN  [seqs |-> Len(samples),
         toks |-> IF config.program = "rm" THEN Len(samples) * Width
                  ELSE FoldLeft(LAMBDA n, k : n + Cardinality(TokenMask(k) \ {1}), 0, samples)]

SumOver(workers, f(_)) == FoldSet(LAMBDA w, n : f(w) + n, 0, workers)

\* The microbatch of an operation, and how the workers are set up for it.
MicrobatchOf(o) ==
    [rows |-> Kept([i \in DOMAIN o.rows |-> RowOf(o.rows[i], o.width)]),
     lengths |-> Kept([i \in DOMAIN o.rows |-> Lengths[o.rows[i]]]),
     packTo |-> o.packTo]
Setup ==
    [worker |-> Acting.worker, packed |-> Acting.batching = "packed", fuse |-> config.fuse,
     multiple |-> config.divisor, atLeast |-> config.tokens.train,
     tp |-> Acting.mesh.tp, cp |-> Acting.mesh.cp, sampling |-> config.sampling, chunk |-> config.chunk,
     k |-> config.topk, entropy |-> config.zero_outside_topk /\ config.kl_type # "forward"]

\* What stands beside the score of each token after the first: with which
\* weights it had been computed, and the score then.
After(row) == [p \in 1..(Width - 1) |-> <<row[2], row[3][p + 1]>>]

\* add_ref_logprobs_to_data has rolled the row, and the loss leaves its end off.
RolledAfter(row) == [p \in 1..(Width - 1) |-> <<row[2], Front(Roll(row[3]))[p]>>]

Channels(k) ==
    CASE config.program = "grpo" ->
            <<After(prevLogprobs[k])>> \o (IF config.reference THEN <<After(referenceLogprobs[k])>> ELSE <<>>)
      [] config.program = "dpo" -> <<RolledAfter(referenceLogprobs[k])>>
      [] config.program = "sft" -> <<>>

\* The terms of the rows of a microbatch: of its tokens, or the reward of it all.
TermsOf(o) ==
    IF config.program = "rm" THEN [i \in DOMAIN o.rows |-> <<Tokens(MicrobatchOf(o), i)>>]
    ELSE IF config.program = "distillation"
    THEN DistillationTerms(MicrobatchOf(o), Setup, [i \in DOMAIN o.rows |-> TokenMask(o.rows[i])],
                           Kept([i \in DOMAIN o.rows |-> <<teacherTopk[o.rows[i]][2], teacherTopk[o.rows[i]][3]>>]))
    ELSE LossTerms(MicrobatchOf(o), Setup, [i \in DOMAIN o.rows |-> TokenMask(o.rows[i])],
                   Kept([i \in DOMAIN o.rows |-> Channels(o.rows[i])]))

\* split_output_tensor: every second row beside the one before it.  If there are
\* not as many, a single one stands beside all, and none beside none.
SplitRows(count) ==
    LET chosen == [u \in 1..((count + 1) \div 2) |-> (2 * u) - 1]
        rejected == [u \in 1..(count \div 2) |-> 2 * u]
    IN  IF Len(rejected) = 0 THEN <<>>
        ELSE [u \in DOMAIN chosen |-> <<chosen[u], rejected[IF Len(rejected) = 1 THEN 1 ELSE u]>>]
SplitRaises(count) == count % 2 = 1 /\ count > 3

\* What the loss is made of: the rows, or pairs of them.
Units(o) == IF Pairs THEN SplitRows(Len(o.rows)) ELSE [i \in DOMAIN o.rows |-> <<i>>]

\* What a microbatch leaves behind: gradients of its valid samples, a pair being
\* as valid as its first, or the log-probabilities of all of them; nothing if it
\* is a dummy.
GradientsOf(terms, o) ==
    SelectSeq([u \in DOMAIN Units(o) |->
                  [samples |-> At(o.rows, Units(o)[u]), terms |-> FlattenSeq(At(terms, Units(o)[u]))]],
              LAMBDA gradient : gradient.samples[1] \notin masked)
Gradients(o) == IF o.dummy THEN <<>> ELSE GradientsOf(Kept(TermsOf(o)), o)

RowsWith(theirs, scores, o) == [i \in DOMAIN o.rows |-> <<o.rows[i], theirs, scores[i]>>]
Logprobs(o, theirs) ==
    IF o.dummy THEN <<>> ELSE RowsWith(theirs, LogprobsOf(MicrobatchOf(o), Setup, Width), o)

\* get_topk_logits: the first version of the DTensor worker keeps what it gets of
\* a dummy too.
DTensorTopkRows(o) == RowsWith("teacher", TopkOf(MicrobatchOf(o), Setup, Width), o)
TopkRows(o) == IF o.dummy /\ Acting.worker # "dtensor" THEN <<>> ELSE DTensorTopkRows(o)

\* All participants of the operation have come to it.
Ready(w) ==
    /\ Running(w)
    /\ \A v \in Participants(w, Current(w).op) : Running(v) /\ Current(v).op = Current(w).op

Raises(w) ==
    /\ Current(w).op = "micro"
    /\ CASE config.program = "rm" -> SplitRaises(Len(Current(w).rows))
         [] call.name = "get_topk_logits" -> TopkRaises(Setup)
         [] config.program = "distillation" /\ call.name = "train" -> EntropyRaises(MicrobatchOf(Current(w)), Setup)
         [] OTHER -> MicrobatchRaises(MicrobatchOf(Current(w)), Setup, call.name \in Losses)

\* The participants of w's operation do it.
Meet(w, op) ==
    /\ Running(w) /\ Current(w).op = op /\ Ready(w)
    /\ at' = [v \in Ranks |-> IF v \in Participants(w, op) THEN at[v] + 1 ELSE at[v]]

Compute(w) ==
    LET group == Participants(w, "micro")
    IN  /\ Meet(w, "micro") /\ \A v \in group : ~Raises(v)
        /\ grads' = [v \in Ranks |->
               IF v \in group /\ call.name \in Losses THEN grads[v] \o Gradients(Current(v)) ELSE grads[v]]
        /\ rows' = [v \in Ranks |->
               IF v \notin group \/ call.name \in Losses THEN rows[v]
               ELSE rows[v] \o IF call.name = "get_topk_logits" THEN TopkRows(Current(v)) ELSE Logprobs(Current(v), weights[v])]
        /\ UNCHANGED <<call, program, weights, valid, dataVars, applied>>

\* use_reference_model: a worker exchanges its weights by itself.
SwapWeights(w) ==
    /\ \/ Meet(w, "swap") /\ weights' = [weights EXCEPT ![w] = "reference"]
       \/ Meet(w, "restore") /\ weights' = [weights EXCEPT ![w] = "policy"]
    /\ UNCHANGED <<call, program, valid, grads, rows, dataVars, applied>>

GlobalValid(w) ==
    [seqs |-> SumOver(DpGroup(w), LAMBDA v : ValidIn(v).seqs),
     toks |-> SumOver(DpGroup(w), LAMBDA v : ValidIn(v).toks)]

\* Wrong: no zero_grad.
ReduceValidOnTop(w) ==
    /\ Meet(w, "valid")
    /\ valid' = [v \in Ranks |-> GlobalValid(v)]
    /\ UNCHANGED <<call, program, weights, grads, rows, dataVars, applied>>

\* The start of a global batch.
ReduceValid(w) ==
    /\ Meet(w, "valid")
    /\ valid' = [v \in Ranks |-> GlobalValid(v)]
    /\ grads' = [v \in Ranks |-> <<>>]
    /\ UNCHANGED <<call, program, weights, rows, dataVars, applied>>

\* What the replicas have, put together.
Contributions ==
    [r \in Replicas |->
        [gradients |-> FlattenSeq([s \in 1..Dp |-> grads[CHOOSE v \in DpGroup(r) : ShardOf(v) = s]]),
         valid |-> valid[r]]]

OptimizerStep(w) ==
    /\ Meet(w, "step")
    /\ applied' = Append(applied, Contributions)
    /\ UNCHANGED <<call, program, weights, valid, grads, rows, dataVars>>

\* global_loss, of the one global batch of a validation.
ReduceLoss(w) ==
    /\ Meet(w, "loss")
    /\ applied' = IF call.name = "validate" THEN Append(applied, Contributions) ELSE applied
    /\ UNCHANGED <<call, program, weights, valid, grads, rows, dataVars>>

MeetOnly(w) ==
    /\ \E op \in {"sizes", "count", "gather", "broadcast", "unshard"} : Meet(w, op)
    /\ UNCHANGED <<call, program, weights, valid, grads, rows, dataVars, applied>>

\* Of the workers that do something together the first stands for all.
CallStep ==
    \E w \in {w \in Ranks : Running(w) /\ w = Min(Participants(w, Current(w).op))} :
        SwapWeights(w) \/ Compute(w) \/ ReduceValid(w) \/ OptimizerStep(w)
        \/ ReduceLoss(w) \/ MeetOnly(w)

\* A microbatch raises, and with it the call.
CallStepRaises ==
    /\ \E w \in Ranks : Running(w) /\ Ready(w) /\ Raises(w)
    /\ call' = NoCall
    /\ UNCHANGED <<program, at, weights, valid, grads, rows, dataVars, applied>>

CallDone == \A w \in Ranks : ~Running(w)

\* What the driver gets: the rows of the workers that answer, end to end, and
\* put back where they came from if the sharding moved them.
Results ==
    LET answered == GetResults(Mesh, PolicyCall, rows)
    IN  IF Acting.batching = "plain" THEN answered
        ELSE ReorderData(answered, call.sharding.sorted)
=============================================================================
