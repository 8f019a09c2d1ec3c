----------------------------- MODULE RevealViews -----------------------------
(***************************************************************************)
(* How the reply of a diffusion decoder is scored: nemo_rl/algorithms/     *)
(* *_logprobs.py.  A reply was committed block by block, within a block    *)
(* several tokens per denoising step.  It is scored on views of itself: a  *)
(* view reveals some of its tokens, masks the rest, and scores some of the *)
(* masked ones.  The estimators differ in their views.                     *)
(*                                                                         *)
(* A reply is a record: len, its number of tokens; step and entropy of     *)
(* each token; and eos, the place of the first end-of-sequence token, 0    *)
(* when there is none.  Tokens after it are the tail that the decoder      *)
(* committed with the rest of the block.  A sample whose loss_multiplier   *)
(* is 0 counts as an empty reply.                                          *)
(*                                                                         *)
(* An estimator is a record: its type, and of width (tokens per level),    *)
(* kept (offsets per block), draws, pairs, schedule, window and samples    *)
(* per microbatch those that the type has.  Where the code pads the noisy  *)
(* side, and with what, is left out, and so is the clean side, on which a  *)
(* token sees all of the earlier blocks whatever the view reveals.         *)
(***************************************************************************)
EXTENDS Integers, FiniteSets, Sequences, SequencesExt, FiniteSetsExt

CONSTANTS
    BlockSize,     \* of the decoder
    PairStride     \* COUPLED_PAIR_SEED_STRIDE

ASSUME RevealAssumption == BlockSize \in Nat \ {0} /\ PairStride \in Nat \ {0}

Tokens(reply) == 1..reply.len
Block(p) == (p - 1) \div BlockSize
Offset(p) == (p - 1) % BlockSize
BlockTokens(reply, b) == {p \in Tokens(reply) : Block(p) = b}

CeilDiv(a, b) == (a + b - 1) \div b

\* What is scored is in the loss, unless a type says otherwise; `over' is the
\* part of the reply that the draws cover, as <<levels, levels drawn>>.
View(reveal, score) ==
    [reveal |-> reveal, score |-> score, loss |-> score, pair |-> 0, over |-> <<1, 1>>]

-----------------------------------------------------------------------------
(* trace_grpo: the levels are the steps of the decoder, without gaps. *)

Steps(reply) == {reply.step[p] : p \in Tokens(reply)}
RevealLevel(reply, p) == Cardinality({s \in Steps(reply) : s < reply.step[p]})
Depth(reply) == Cardinality(Steps(reply))

\* Committed after the end of the reply: context, never in the loss.
AfterEnd(reply) == {p \in Tokens(reply) : reply.eos > 0 /\ p > reply.eos}

\* Wrong: a token sees those of its own step.
TraceViewWithOwnStep(reply, level) ==
    LET score == {p \in Tokens(reply) : RevealLevel(reply, p) = level}
    IN  [View({p \in Tokens(reply) : RevealLevel(reply, p) <= level}, score)
            EXCEPT !.loss = score \ AfterEnd(reply)]

TraceView(reply, level) ==
    LET score == {p \in Tokens(reply) : RevealLevel(reply, p) = level}
    IN  [View({p \in Tokens(reply) : RevealLevel(reply, p) < level}, score)
            EXCEPT !.loss = score \ AfterEnd(reply)]

\* num_level_samples: the j-th level drawn for a reply, or its depth, which
\* scores nothing, when it has no more levels.
DrawnLevel(reply, draws, seed, j) ==
    IF j < Min({draws, Depth(reply)}) THEN (seed + j) % Depth(reply) ELSE Depth(reply)

SampledView(reply, draws, seed, j) ==
    [TraceView(reply, DrawnLevel(reply, draws, seed, j))
        EXCEPT !.over = <<Depth(reply), Min({draws, Depth(reply)})>>]

-----------------------------------------------------------------------------
(* just_grpo_block_reveal: every block from the left, `width' tokens at a  *)
(* time; and its fast variant, the `kept' offsets of each block with the   *)
(* highest entropy.                                                        *)

BlockLevels(width) == CeilDiv(BlockSize, width)

BlockView(reply, width, level) ==
    View({p \in Tokens(reply) : Offset(p) < level * width},
         {p \in Tokens(reply) : Offset(p) \div width = level})

\* The end of the reply is always among the kept tokens of its block.
Outranks(reply, p, q) ==
    p = reply.eos \/ (q # reply.eos /\ reply.entropy[p] > reply.entropy[q])

IsKept(reply, kept, p) ==
    Cardinality({q \in BlockTokens(reply, Block(p)) \ {p} : Outranks(reply, q, p)}) < kept

Kept(reply, kept) == {p \in Tokens(reply) : IsKept(reply, kept, p)}

\* At a level each block is at its own offset, the next one that is kept.
FastView(reply, kept, level) ==
    LET score == {p \in Kept(reply, kept) :
                     Cardinality({q \in Kept(reply, kept) : Block(q) = Block(p) /\ q < p}) = level}
    IN  View({p \in Tokens(reply) : \E q \in score : Block(q) = Block(p) /\ p < q}, score)

-----------------------------------------------------------------------------
(* coupled_grpo and espo_block_aware: pairs of levels, one masks a random  *)
(* part of the reply and the other the rest.                               *)

\* torch.rand under a seed: which tokens fall below the ratio.
Drawn(seed, p) == (seed \div 2^(p - 1)) % 2 = 1

CoupledView(reply, seed, level) ==
    LET pair == level \div 2
        even == {p \in Tokens(reply) : Drawn(seed + pair * PairStride, p)}
        masked == IF level % 2 = 0 THEN even ELSE Tokens(reply) \ even
    IN  [View(Tokens(reply) \ masked, masked) EXCEPT !.pair = pair]

\* diffu_grpo: everything is masked.
DiffuView(reply) == View({}, Tokens(reply))

-----------------------------------------------------------------------------

\* The levels of an estimator that do not depend on the replies.
LevelCount(e) ==
    CASE e.type = "block" -> BlockLevels(e.width)
      [] e.type = "fast" -> e.kept
      [] e.type \in {"coupled", "espo"} -> 2 * e.pairs
      [] e.type = "diffu" -> 1

LevelView(e, reply, seed, level) ==
    CASE e.type = "trace" -> TraceView(reply, level)
      [] e.type = "sampled" -> SampledView(reply, e.draws, seed, level)
      [] e.type = "block" -> BlockView(reply, e.width, level)
      [] e.type = "fast" -> FastView(reply, e.kept, level)
      [] e.type \in {"coupled", "espo"} -> CoupledView(reply, seed, level)
      [] e.type = "diffu" -> DiffuView(reply)

-----------------------------------------------------------------------------
(* just_grpo_leftmost_reveal: one row for every token, which sees all of   *)
(* the tokens before it.                                                   *)

LeftmostView(reply, p) ==
    View({q \in Tokens(reply) : q < p}, {p} \cap Tokens(reply))

\* fixed_response_window: as many rows for every sample.
LeftmostViews(e, reply) ==
    [p \in 1..(IF e.schedule = "sparse" THEN reply.len ELSE e.window) |-> LeftmostView(reply, p)]

\* pad_reveal_batch_to_multiple: the last row again.  Its log-probability is
\* trimmed, just_grpo_loss_mask is kept.
PadRows(rows, multiple) ==
    rows \o [k \in 1..(CeilDiv(Len(rows), multiple) * multiple - Len(rows)) |->
                [Last(rows) EXCEPT !.view.score = {}]]

-----------------------------------------------------------------------------
(* Microbatches: a row is the sample it scores, the place of that sample   *)
(* in the worker's batch, and a view.                                      *)

\* data.size // mbs
Chunks(rows, mbs) ==
    [k \in 1..(Len(rows) \div mbs) |-> SubSeq(rows, (k - 1) * mbs + 1, k * mbs)]

\* rows[l][k] is the row of the batch's k-th sample at level l.  All samples of
\* a batch at each level in turn (RevealLevelSchedule).
LevelMajor(rows, mbs) == FlattenSeq([l \in DOMAIN rows |-> Chunks(rows[l], mbs)])

\* All levels of `group' samples together (ESPORevealSchedule).
SampleMajor(rows, size, group) ==
    [g \in 1..(size \div group) |->
        [i \in 1..(group * Len(rows)) |->
            rows[((i - 1) % Len(rows)) + 1][(g - 1) * group + ((i - 1) \div Len(rows)) + 1]]]
=============================================================================
