--------------------------- MODULE DiffusionPolicy ---------------------------
(***************************************************************************)
(* The log-probabilities of one training step of a diffusion model: the    *)
(* calls of get_logprobs, get_reference_policy_logprobs and train that     *)
(* grpo.py makes, and what the Megatron workers of the diffusion           *)
(* algorithms do in them (models/policy/workers/*_megatron_policy_worker). *)
(*                                                                         *)
(* Each data-parallel rank has its part of a call as a list of operations: *)
(*   "sizes"    all_reduce of the sizes of the shards                      *)
(*   "valid"    all_reduce of the valid samples and tokens, zero_grad      *)
(*   "levels"   all_reduce(MAX) of the number of levels (trace)            *)
(*   "kept"     all_reduce of the tokens kept (fast)                       *)
(*   "after"    all_reduce of the tokens after the end (trace)             *)
(*   "build"    the microbatches are built, by each rank for itself        *)
(*   "forward"  one microbatch                                             *)
(*   "step", "loss"  the optimizer's step; all_reduce of the losses        *)
(* All but "build" are done by all ranks together.                         *)
(***************************************************************************)
EXTENDS RevealViews, BatchSharding

CONSTANT Configs    \* the configurations explored

IsReply(r) ==
    /\ r.len \in Nat /\ r.eos \in 0..r.len
    /\ r.step \in [1..r.len -> Nat] /\ r.entropy \in [1..r.len -> Nat]
    /\ Cardinality({r.entropy[p] : p \in 1..r.len}) = r.len

\* The parameters of an estimator, those that its type has.
IsEstimator(e) ==
    \/ e.type \in {"trace", "diffu"}
    \/ e.type = "sampled" /\ e.draws \in Nat \ {0}
    \/ e.type = "block" /\ e.width \in Nat \ {0}
    \/ e.type = "fast" /\ e.kept \in Nat \ {0}
    \/ e.type = "coupled" /\ e.pairs \in Nat \ {0}
    \/ e.type = "espo" /\ e.pairs \in Nat \ {0} /\ e.group \in Nat \ {0}
    \/ /\ e.type = "just" /\ e.schedule \in {"sparse", "fixed_response_window"}
       /\ e.window \in Nat /\ {e.multiple, e.trainMultiple} \subseteq Nat \ {0}

IsConfig(c) ==
    /\ {c.dp, c.microBatch, c.gbs, Len(c.replies)} \subseteq Nat \ {0}
    /\ DOMAIN c.replies = 1..Len(c.replies)
    /\ \A k \in DOMAIN c.replies : IsReply(c.replies[k])
    /\ c.dropped \subseteq SUBSET DOMAIN c.replies
    /\ c.mismatched \subseteq SUBSET DOMAIN c.replies
    /\ c.reference \in BOOLEAN
    /\ c.unscoreable \subseteq (DOMAIN c.replies) \X Nat     \* tokens the recompute finds impossible
    /\ Len(c.replies) % c.gbs = 0 /\ c.gbs % (c.dp * c.microBatch) = 0
    /\ IsEstimator(c.estimator)

ASSUME DiffusionAssumption == \A c \in Configs : IsConfig(c)

VARIABLES
    config,
    pc,          \* the call under way, or where the driver is
    dropped,     \* the samples whose loss_multiplier is 0
    seeds,       \* train_data["coupled_grpo_seed"], ["trace_level_sample_seed"]
    prev, ref,   \* train_data["prev_logprobs"], ["reference_policy_logprobs"], with their pairs
    todo,        \* per rank: the operations still to do
    levels,      \* per rank: the number of levels
    valid,       \* per rank: global_valid_seqs and global_valid_toks
    scored,      \* per rank: what the forwards of a call have scored
    grads,       \* per rank: the terms of the loss in its gradients
    applied      \* per step of the optimizer: all terms, and the normalizer

vars == <<config, pc, dropped, seeds, prev, ref, todo, levels, valid, scored, grads, applied>>

Estimator == config.estimator
Ranks == 1..config.dp
Rows == DOMAIN config.replies
Pairs == IF Estimator.type \in {"coupled", "espo"} THEN 0..(Estimator.pairs - 1) ELSE {0}

Empty == [len |-> 0, eos |-> 0, step |-> <<>>, entropy |-> <<>>]
Reply(s) == IF s \in dropped THEN Empty ELSE config.replies[s]

SumOf(rows, f(_)) == FoldLeft(LAMBDA n, s : n + f(s), 0, rows)

-----------------------------------------------------------------------------
(* The operations of a call. *)

Op(name, rows) == [op |-> name, rows |-> rows, micro |-> <<>>]

IsTrace == Estimator.type \in {"trace", "sampled"}
ReduceLevels(rows) == IF IsTrace THEN <<Op("levels", rows)>> ELSE <<>>

\* The whole shard is one batch.
LogprobsOps(rows) == ReduceLevels(rows) \o <<Op("build", rows)>>

\* Wrong: the normalizer is the number of tokens of the replies.
NoCorrection(rows) == <<>>

\* The tokens that are counted but not trained on; trace and its sampled
\* variant take them off, fast counts those it keeps instead.
Correction(rows) ==
    CASE Estimator.type = "fast" -> <<Op("kept", rows)>>
      [] IsTrace -> <<Op("after", rows)>>
      [] OTHER -> <<>>

GlobalBatchOps(rows) ==
    <<Op("valid", rows)>> \o ReduceLevels(rows) \o Correction(rows)
        \o <<Op("build", rows), Op("step", rows)>>

TrainOps(sharding, r) ==
    <<Op("sizes", sharding.rows[r])>>
        \o FlattenSeq([g \in 1..(Len(config.replies) \div config.gbs) |->
               GlobalBatchOps(GetBatch(sharding, r, g, config.gbs \div config.dp))])
        \o <<Op("loss", <<>>)>>

Sharding(batchSize) == PlainSharding([k \in Rows |-> k], config.dp, batchSize)

CallOps(name, r) ==
    IF name = "train" THEN TrainOps(Sharding(config.gbs), r)
    ELSE LogprobsOps(Sharding(Len(config.replies)).rows[r])

-----------------------------------------------------------------------------
(* Building microbatches. *)

\* Wrong: seeded where the rows are, by their place in the shard.
SeedInShard(rows, k) == seeds[k]

\* The seed that came with the k-th row.
SeedOf(rows, k) == seeds[rows[k]]

RowOf(rows, k, level) ==
    [of |-> rows[k], at |-> k, view |-> LevelView(Estimator, Reply(rows[k]), SeedOf(rows, k), level)]

\* The number of levels: agreed on, or fixed; none are drawn when there are none.
LevelsOf(r) ==
    CASE Estimator.type = "trace" -> levels[r]
      [] Estimator.type = "sampled" -> IF levels[r] = 0 THEN 0 ELSE Estimator.draws
      [] OTHER -> LevelCount(Estimator)

LeftmostRows(rows) ==
    FlattenSeq([k \in DOMAIN rows |->
        LET views == LeftmostViews(Estimator, Reply(rows[k]))
        IN  [p \in DOMAIN views |-> [of |-> rows[k], at |-> k, view |-> views[p]]]])

LeftmostMicrobatches(rows) ==
    LET own == LeftmostRows(rows)
        multiple == IF pc = "train" THEN Estimator.trainMultiple ELSE Estimator.multiple
    IN  IF own = <<>> THEN <<>> ELSE Chunks(PadRows(own, multiple), multiple)

IsSampleMajor == pc = "train" /\ Estimator.type = "espo"

Microbatches(rows, r) ==
    LET atLevels == [l \in 1..LevelsOf(r) |-> [k \in DOMAIN rows |-> RowOf(rows, k, l - 1)]]
    IN  CASE Estimator.type = "just" -> LeftmostMicrobatches(rows)
          [] Estimator.type # "just" /\ IsSampleMajor ->
                SampleMajor(atLevels, Len(rows), Estimator.group)
          [] OTHER -> LevelMajor(atLevels, config.microBatch)

\* espo: a shard of the batch that its groups do not divide.
BuildRaises(rows) == IsSampleMajor /\ Len(rows) % Estimator.group # 0

-----------------------------------------------------------------------------
(* What a microbatch leaves behind. *)

SameBlock(reveal, p) == {q \in reveal : Block(q) = Block(p)}

\* A scored token: what it saw of its own block.
Score(row, p) ==
    [at |-> row.at, of |-> row.of, pos |-> p, pair |-> row.view.pair,
     context |-> SameBlock(row.view.reveal, p)]

InOrderOf(positions) == SetToSortSeq(positions, <)

ScoresOf(micro) ==
    FlattenSeq([i \in DOMAIN micro |->
        LET positions == InOrderOf(micro[i].view.score)
        IN  [k \in DOMAIN positions |-> Score(micro[i], positions[k])]])

\* The stored log-probabilities of a pair; those of pair 0 when it has none
\* of its own (make_coupled_level_view).
Stored(logprobs, s, pair) ==
    IF pair \in DOMAIN logprobs[s] THEN logprobs[s][pair] ELSE logprobs[s][0]

At(scores, p) == SelectSeq(scores, LAMBDA e : e.pos = p)

\* A token in the loss, with the stored log-probabilities it is compared to.
LossToken(row, p) ==
    [of |-> row.of, pos |-> p, pair |-> row.view.pair, over |-> row.view.over,
     context |-> SameBlock(row.view.reveal, p),
     prev |-> At(Stored(prev, row.of, row.view.pair), p),
     ref |-> IF ref = <<>> THEN <<>> ELSE At(Stored(ref, row.of, row.view.pair), p)]

\* just_grpo masks a row whose behaviour log-probability is not finite.
Unscoreable(s) ==
    IF Estimator.type = "just" THEN {p \in Tokens(Reply(s)) : <<s, p>> \in config.unscoreable} ELSE {}

LossTokens(row) ==
    LET positions == InOrderOf(row.view.loss \ Unscoreable(row.of))
    IN  [k \in DOMAIN positions |-> LossToken(row, positions[k])]

\* The terms of the loss: the tokens one by one or, with espo, sequences,
\* each as many consecutive rows as there are levels (ESPOLossPostProcessor);
\* those of a sample whose sample_mask is 0 are multiplied by it.
TermsOf(micro) ==
    IF Estimator.type = "espo"
    THEN LET count == 2 * Estimator.pairs
             groups == [g \in 1..(Len(micro) \div count) |->
                           SubSeq(micro, (g - 1) * count + 1, g * count)]
             counted == SelectSeq(groups, LAMBDA group : group[1].of \notin dropped)
         IN  [g \in DOMAIN counted |-> FlattenSeq([i \in 1..count |-> LossTokens(counted[g][i])])]
    ELSE LET tokens == FlattenSeq([i \in DOMAIN micro |-> LossTokens(micro[i])])
         IN  [k \in DOMAIN tokens |-> <<tokens[k]>>]

-----------------------------------------------------------------------------
(* Running a call. *)

Running(r) == todo[r] # <<>>
Current(r) == Head(todo[r])

\* All ranks have come to the operation.
Meet(op) ==
    /\ \A r \in Ranks : Running(r) /\ Current(r).op = op
    /\ todo' = [r \in Ranks |-> Tail(todo[r])]

SumOverRanks(f(_)) == FoldSet(LAMBDA r, n : f(r) + n, 0, Ranks)

ReplyLength(s) == Reply(s).len
ValidSeqs(r) == Len(SelectSeq(Current(r).rows, LAMBDA s : s \notin dropped))
ValidTokens(r) == SumOf(Current(r).rows, ReplyLength)

\* process_global_batch, and zero_grad.
ReduceValid ==
    /\ Meet("valid")
    /\ valid' = [r \in Ranks |-> [seqs |-> SumOverRanks(ValidSeqs), tokens |-> SumOverRanks(ValidTokens)]]
    /\ grads' = [r \in Ranks |-> <<>>]
    /\ UNCHANGED <<config, pc, dropped, seeds, prev, ref, levels, scored, applied>>

LocalLevels(r) == Max({Depth(Reply(s)) : s \in Range(Current(r).rows)})

\* Wrong: each rank counts the levels of its own samples.
CountLevelsAlone ==
    /\ Meet("levels")
    /\ levels' = [r \in Ranks |-> LocalLevels(r)]
    /\ UNCHANGED <<config, pc, dropped, seeds, prev, ref, valid, scored, grads, applied>>

CountLevels ==
    /\ Meet("levels")
    /\ levels' = [r \in Ranks |-> Max({LocalLevels(q) : q \in Ranks})]
    /\ UNCHANGED <<config, pc, dropped, seeds, prev, ref, valid, scored, grads, applied>>

KeptOf(s) == Cardinality(Kept(Reply(s), Estimator.kept))
AfterEndOf(s) == Cardinality(AfterEnd(Reply(s)))
KeptTokens(r) == SumOf(Current(r).rows, KeptOf)
TokensAfterEnd(r) == SumOf(Current(r).rows, AfterEndOf)

\* _fast_global_valid_toks and _valid_toks_correction.
CorrectValid ==
    /\ \/ /\ Meet("kept")
          /\ valid' = [r \in Ranks |-> [valid[r] EXCEPT !.tokens = SumOverRanks(KeptTokens)]]
       \/ /\ Meet("after")
          /\ valid' = [r \in Ranks |-> [valid[r] EXCEPT !.tokens = @ - SumOverRanks(TokensAfterEnd)]]
    /\ UNCHANGED <<config, pc, dropped, seeds, prev, ref, levels, scored, grads, applied>>

Build(r) ==
    /\ Running(r) /\ Current(r).op = "build"
    /\ ~BuildRaises(Current(r).rows)
    /\ LET micros == Microbatches(Current(r).rows, r)
       IN  todo' = [todo EXCEPT ![r] =
                       [k \in DOMAIN micros |-> [Op("forward", <<>>) EXCEPT !.micro = micros[k]]] \o Tail(@)]
    /\ UNCHANGED <<config, pc, dropped, seeds, prev, ref, levels, valid, scored, grads, applied>>

\* The ValueError ends the run.
BuildFails(r) ==
    /\ Running(r) /\ Current(r).op = "build"
    /\ BuildRaises(Current(r).rows)
    /\ pc' = "raised"
    /\ todo' = [q \in Ranks |-> <<>>]
    /\ UNCHANGED <<config, dropped, seeds, prev, ref, levels, valid, scored, grads, applied>>

Forward ==
    /\ Meet("forward")
    /\ IF pc = "train"
       THEN /\ grads' = [r \in Ranks |-> grads[r] \o TermsOf(Current(r).micro)]
            /\ UNCHANGED scored
       ELSE /\ scored' = [r \in Ranks |-> scored[r] \o ScoresOf(Current(r).micro)]
            /\ UNCHANGED grads
    /\ UNCHANGED <<config, pc, dropped, seeds, prev, ref, levels, valid, applied>>

\* _coupled_pair_count_scale: coupled has every token once per pair.
Scale == IF Estimator.type = "coupled" THEN Estimator.pairs ELSE 1

\* espo's loss is one of sequences, the others' of tokens.
OptimizerStep ==
    /\ Meet("step")
    /\ applied' = Append(applied,
           [terms |-> FlattenSeq([r \in Ranks |-> grads[r]]),
            rows |-> FlattenSeq([r \in Ranks |-> Current(r).rows]),
            normalizer |-> Scale * (IF Estimator.type = "espo" THEN valid[1].seqs ELSE valid[1].tokens)])
    /\ UNCHANGED <<config, pc, dropped, seeds, prev, ref, levels, valid, scored, grads>>

MeetOnly ==
    /\ Meet("sizes") \/ Meet("loss")
    /\ UNCHANGED <<config, pc, dropped, seeds, prev, ref, levels, valid, scored, grads, applied>>

WorkerStep ==
    \/ ReduceValid \/ CountLevels \/ CorrectValid \/ Forward \/ OptimizerStep \/ MeetOnly
    \/ \E r \in Ranks : Build(r) \/ BuildFails(r)

-----------------------------------------------------------------------------
(* The driver. *)

Start(name) ==
    /\ pc' = name
    /\ todo' = [r \in Ranks |-> CallOps(name, r)]
    /\ levels' = [r \in Ranks |-> 0]
    /\ scored' = [r \in Ranks |-> <<>>]

Init ==
    /\ config \in Configs
    /\ pc = "seed"
    /\ dropped \in config.dropped
    /\ seeds = <<>> /\ prev = <<>> /\ ref = <<>> /\ applied = <<>>
    /\ todo = [r \in Ranks |-> <<>>] /\ levels = [r \in Ranks |-> 0]
    /\ valid = [r \in Ranks |-> [seqs |-> 0, tokens |-> 0]]
    /\ scored = [r \in Ranks |-> <<>>] /\ grads = [r \in Ranks |-> <<>>]

\* maybe_set_coupled_grpo_seed, maybe_set_trace_level_seed: one seed per row of
\* the batch, for all calls of the step.
SetSeeds ==
    /\ pc = "seed"
    /\ seeds' = [k \in Rows |-> config.seedBase + k - 1]
    /\ Start("get_logprobs")
    /\ UNCHANGED <<config, dropped, prev, ref, valid, grads, applied>>

CallDone == \A r \in Ranks : ~Running(r)

\* The shards' results in their order.  The levels of a pair are summed, each
\* pair has a result of its own.
Gathered ==
    FlattenSeq([r \in Ranks |->
        [k \in 1..(Len(config.replies) \div config.dp) |->
            [pair \in Pairs |-> SelectSeq(scored[r], LAMBDA e : e.at = k /\ e.pair = pair)]]])

\* What train_data keeps of a result: "logprobs" and, with
\* _maybe_capture_coupled_pair_logprobs, those of the other pairs.
Captured(logprobs) == logprobs

TakeLogprobs ==
    /\ pc = "get_logprobs" /\ CallDone
    /\ prev' = Captured(Gathered)
    /\ IF config.reference
       THEN Start("get_reference_policy_logprobs")
       ELSE pc' = "mask" /\ UNCHANGED <<todo, levels, scored>>
    /\ UNCHANGED <<config, dropped, seeds, ref, valid, grads, applied>>

TakeReferenceLogprobs ==
    /\ pc = "get_reference_policy_logprobs" /\ CallDone
    /\ ref' = Captured(Gathered)
    /\ pc' = "mask"
    /\ UNCHANGED <<config, dropped, seeds, prev, todo, levels, valid, scored, grads, applied>>

\* compute_and_apply_seq_logprob_error_masking: samples whose log-probabilities
\* are too far from those of the generation are left out.
MaskMismatched ==
    /\ pc = "mask"
    /\ \E samples \in config.mismatched : dropped' = dropped \cup samples
    /\ Start("train")
    /\ UNCHANGED <<config, seeds, prev, ref, valid, grads, applied>>

FinishTrain ==
    /\ pc = "train" /\ CallDone
    /\ pc' = "done"
    /\ UNCHANGED <<config, dropped, seeds, prev, ref, todo, levels, valid, scored, grads, applied>>

Stopped == pc \in {"done", "raised"} /\ UNCHANGED vars

Next ==
    \/ SetSeeds \/ TakeLogprobs \/ TakeReferenceLogprobs \/ MaskMismatched \/ FinishTrain
    \/ WorkerStep
    \/ Stopped

Spec == Init /\ [][Next]_vars
=============================================================================
