------------------------- MODULE DiffusionProperties -------------------------
(***************************************************************************)
(* What the estimators of the diffusion algorithms promise, and the        *)
(* configurations on which it is checked.                                  *)
(***************************************************************************)
EXTENDS DiffusionPolicy

\* Committed in the order of a confident decoder: several tokens per step,
\* out of order, with the gap that a forced commit leaves, an end in the
\* middle of a block, and depths that differ between the shards.
Trajectories ==
    <<[len |-> 5, eos |-> 0, step |-> <<0, 1, 0, 0, 3>>, entropy |-> <<5, 1, 4, 2, 3>>],
      [len |-> 4, eos |-> 2, step |-> <<2, 0, 1, 0>>,    entropy |-> <<1, 2, 4, 3>>],
      [len |-> 1, eos |-> 0, step |-> <<0>>,             entropy |-> <<1>>],
      [len |-> 3, eos |-> 3, step |-> <<0, 0, 0>>,       entropy |-> <<3, 2, 1>>]>>

\* The same replies, committed from left to right.
Leftmost ==
    [k \in DOMAIN Trajectories |->
        [Trajectories[k] EXCEPT !.step = [p \in 1..Trajectories[k].len |-> Offset(p)]]]

\* Two shards and one global batch, all of whose samples count at first.
OnTrajectories(estimator) ==
    [replies |-> Trajectories, estimator |-> estimator, dp |-> 2, gbs |-> 4, microBatch |-> 1,
     seedBase |-> 3, reference |-> TRUE, dropped |-> {{}, {2}}, mismatched |-> {{}, {3}},
     unscoreable |-> {}]
FromLeft(estimator) == [OnTrajectories(estimator) EXCEPT !.replies = Leftmost]

\* Two global batches, so that other samples share a shard in train.
InTwoBatches(c) == [c EXCEPT !.gbs = 2, !.reference = FALSE]

Trace == [type |-> "trace"]
Sampled(draws) == [type |-> "sampled", draws |-> draws]
BlockReveal(width) == [type |-> "block", width |-> width]
Fast(kept) == [type |-> "fast", kept |-> kept]
Just(schedule, trainMultiple) ==
    [type |-> "just", schedule |-> schedule, window |-> 5, multiple |-> 4, trainMultiple |-> trainMultiple]
Coupled(pairs) == [type |-> "coupled", pairs |-> pairs]
Espo(pairs, group) == [type |-> "espo", pairs |-> pairs, group |-> group]
Diffu == [type |-> "diffu"]

FromTrajectories == {OnTrajectories(Trace), OnTrajectories(Sampled(2)), OnTrajectories(Diffu)}
FromTheLeft ==
    {FromLeft(BlockReveal(1)), [FromLeft(BlockReveal(2)) EXCEPT !.microBatch = 2],
     FromLeft(Fast(1)), FromLeft(Fast(2)),
     FromLeft(Just("fixed_response_window", 1)), FromLeft(Just("fixed_response_window", 4)),
     [FromLeft(Just("fixed_response_window", 3)) EXCEPT !.unscoreable = {<<1, 5>>, <<4, 2>>}],
     [FromLeft(Just("sparse", 1)) EXCEPT !.dp = 1], [FromLeft(Just("sparse", 4)) EXCEPT !.dp = 1],
     [FromLeft(Just("sparse", 8)) EXCEPT !.dp = 1, !.unscoreable = {<<2, 4>>, <<4, 3>>}]}
FromPairs ==
    {OnTrajectories(Coupled(1)), [OnTrajectories(Coupled(2)) EXCEPT !.microBatch = 2],
     OnTrajectories(Espo(1, 1)), OnTrajectories(Espo(2, 2))}

DiffusionConfigs ==
    LET configs == FromTrajectories \cup FromTheLeft \cup FromPairs
        halves == {c \in configs : c.microBatch = 1}
    IN  configs \cup {InTwoBatches(c) : c \in halves}
                \cup {InTwoBatches([c EXCEPT !.seedBase = base]) :
                         c \in {c \in halves : c.estimator.type \in {"sampled", "coupled", "espo"}},
                         base \in 0..7}
                \cup {InTwoBatches(OnTrajectories(Espo(1, 2)))}

-----------------------------------------------------------------------------

\* Of the tokens of its block, a token was committed on those that an earlier
\* step had committed.
GenerationContext(s, p) ==
    {q \in BlockTokens(config.replies[s], Block(p)) :
        config.replies[s].step[q] < config.replies[s].step[p]}

\* A score is on what the decoder had seen: exactly, or less by what the
\* estimator is known to leave out.
IsReplay(s, e) ==
    LET seen == GenerationContext(s, e.pos)
    IN  CASE Estimator.type \in {"trace", "sampled", "fast", "just"} -> e.context = seen
          [] Estimator.type = "block" ->
                e.context \subseteq seen /\ Cardinality(seen \ e.context) < Estimator.width
          [] Estimator.type = "diffu" -> e.context = {}
          [] Estimator.type \in {"coupled", "espo"} -> e.pos \notin e.context

\* The tokens that an estimator must score: all; those of as many levels as are
\* drawn; or in each block the end of the reply and the highest entropies.
IsCoverage(s, positions) ==
    LET reply == config.replies[s]
        left == Tokens(reply) \ positions
    IN  CASE Estimator.type = "sampled" ->
                /\ \A p \in positions, q \in left : reply.step[p] # reply.step[q]
                /\ Cardinality({reply.step[p] : p \in positions}) = Min({Estimator.draws, Depth(reply)})
          [] Estimator.type = "fast" ->
                /\ \A b \in {Block(p) : p \in Tokens(reply)} :
                      Cardinality(positions \cap BlockTokens(reply, b))
                          = Min({Estimator.kept, Cardinality(BlockTokens(reply, b))})
                /\ reply.eos \notin left
                /\ \A p \in positions \ {reply.eos}, q \in left :
                      Block(p) = Block(q) => reply.entropy[p] > reply.entropy[q]
          [] OTHER -> left = {}

Places(entries) == {entries[k].pos : k \in DOMAIN entries}

\* get_logprobs replays the generation: each token that the estimator covers is
\* scored once per pair, under its own sample, on the context in which the
\* decoder committed it (trace_grpo_logprobs.py:26-31, block_just_grpo_logprobs.py:320).
ReplaysGeneration ==
    \A logprobs \in {prev, ref} \ {<<>>} : \A s \in Rows \ dropped : \A pair \in Pairs :
        LET entries == Stored(logprobs, s, pair)
        IN  /\ Len(entries) = Cardinality(Places(entries))
            /\ IsCoverage(s, Places(entries))
            /\ \A k \in DOMAIN entries : entries[k].of = s /\ IsReplay(s, entries[k])

\* The tokens of the terms of a loss.
TokensOf(terms) == FlattenSeq(terms)

\* "every pass draws the SAME": what a token in the loss is compared to was
\* computed for that token, once, and under the same mask, although the rows
\* are cut into other shards and global batches in train and samples may have
\* been left out since (maybe_set_coupled_grpo_seed, maybe_set_trace_level_seed,
\* _maybe_capture_coupled_pair_logprobs).
SameMaskInRatio ==
    \A r \in Ranks : \A k \in DOMAIN grads[r] : \A i \in DOMAIN grads[r][k] :
        LET t == grads[r][k][i]
        IN  \A stored \in {t.prev} \cup (IF config.reference THEN {t.ref} ELSE {}) :
                /\ Len(stored) = 1
                /\ stored[1].of = t.of /\ stored[1].context = t.context /\ stored[1].pair = t.pair

\* The tokens of a sample that must be in the loss.
InLoss(s) ==
    CASE Estimator.type = "trace" -> Tokens(Reply(s)) \ AfterEnd(Reply(s))
      [] Estimator.type \in {"sampled", "fast"} -> Places(prev[s][0]) \ (IF IsTrace THEN AfterEnd(Reply(s)) ELSE {})
      [] OTHER -> Tokens(Reply(s)) \ Unscoreable(s)

\* just_grpo fills the rows of a rank up to a multiple by its last row, with
\* that row's mask: its token counts as many more times, although "each reveal row
\* contributes exactly one token" (just_grpo_logprobs.py:219).
WithRows(rows) == SelectSeq(rows, LAMBDA s : Estimator.schedule # "sparse" \/ Reply(s).len > 0)
RowCount(s) == IF Estimator.schedule = "sparse" THEN Reply(s).len ELSE Estimator.window
Refill(rows, s, p) ==
    IF /\ Estimator.type = "just" /\ WithRows(rows) # <<>>
       /\ s = Last(WithRows(rows)) /\ p = RowCount(s)
    THEN (Estimator.trainMultiple - (SumOf(rows, RowCount) % Estimator.trainMultiple))
            % Estimator.trainMultiple
    ELSE 0

\* An optimizer step takes in each of these tokens once per pair, or as often
\* as just_grpo repeats it, and divides by as many: by the tokens kept, without
\* those after the end, once for each of the pairs (for just_grpo, by all
\* tokens, masked or not, once each); or, for espo, by sequences, each of them
\* complete and of one sample.  A draw of some levels weighs its tokens by the
\* share it has drawn.
LossMatchesNormalizer ==
    \A g \in DOMAIN applied :
        LET step == applied[g]
            tokens == TokensOf(step.terms)
            samples == Range(step.rows) \ dropped
            expected == UNION {{<<s, p, pair>> : p \in InLoss(s), pair \in Pairs} : s \in samples}
            Times(t) == 1 + FoldLeft(LAMBDA n, rows : n + Refill(rows, t[1], t[2]), 0,
                                     Chunks(step.rows, config.gbs \div config.dp))
            Found(t) == Len(SelectSeq(tokens, LAMBDA k : <<k.of, k.pos, k.pair>> = t))
        IN  /\ {<<tokens[k].of, tokens[k].pos, tokens[k].pair>> : k \in DOMAIN tokens} = expected
            /\ \A t \in expected : Found(t) = Times(t)
            /\ Estimator.type \notin {"sampled", "just"} => Len(step.terms) = step.normalizer
            /\ Estimator.type = "just" =>
                  step.normalizer = Cardinality(expected)
                                      + FoldSet(LAMBDA s, n : n + Cardinality(Unscoreable(s)), 0, samples)
            /\ Estimator.type = "sampled" =>
                  \A k \in DOMAIN tokens :
                      LET depth == Depth(config.replies[tokens[k].of])
                      IN  tokens[k].over = <<depth, Min({depth, Estimator.draws})>>
            /\ Estimator.type = "espo" =>
                  \A k \in DOMAIN step.terms :
                      /\ Cardinality({step.terms[k][i].of : i \in DOMAIN step.terms[k]}) = 1
                      /\ Len(step.terms[k]) = Estimator.pairs * config.replies[step.terms[k][1].of].len

\* The data-parallel ranks run the same number of forwards: none is left alone
\* in a collective operation, whatever the lengths and depths of its samples
\* (count_reveal_levels; reveal_schedule "fixed_response_window").
RanksMeet ==
    ~CallDone =>
        \/ \E r \in Ranks : Running(r) /\ Current(r).op = "build"
        \/ \A r, q \in Ranks : Running(r) /\ Current(r).op = Current(q).op
=============================================================================
