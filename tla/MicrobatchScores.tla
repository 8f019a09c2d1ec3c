--------------------------- MODULE MicrobatchScores ---------------------------
(***************************************************************************)
(* What the training workers make of a microbatch: how its rows are packed *)
(* and cut for the ranks, and how the log-probabilities of its tokens get  *)
(* back into rows, in get_logprobs and in the loss.                        *)
(*                                                                         *)
(* A microbatch is a record: rows, the tokens of its samples, padded;      *)
(* lengths, theirs without padding; and packTo, the length that packed     *)
(* sequences are padded to for pipeline parallelism, or 0.  A setup is the *)
(* worker, "dtensor", "automodel" or "megatron", packed and fuse (BOOLEAN),*)
(* multiple (make_sequence_length_divisible_by), atLeast (train_mb_tokens) *)
(* and what TokenLogprobs needs.                                           *)
(***************************************************************************)
EXTENDS TokenLogprobs

\* The first token has no log-probability; it is given zero.
WithFirst(scores) == <<Zero>> \o scores
EachWithFirst(rows) == [i \in DOMAIN rows |-> WithFirst(rows[i])]
PadRows(rows, width) == [i \in DOMAIN rows |-> PadRow(rows[i], width, Zero)]

Tokens(mb, i) == UpTo(mb.rows[i], mb.lengths[i])
RowWidth(mb) == Len(mb.rows[1])

-----------------------------------------------------------------------------
(* Megatron. *)

\* The padded lengths in _pack_sequences_for_megatron: what is missing to packTo
\* is given to the last sequence.
PaddedLengths(mb, setup) ==
    LET padded == [i \in DOMAIN mb.lengths |-> RoundUp(mb.lengths[i], setup.multiple)]
    IN  IF mb.packTo = 0 THEN padded
        ELSE Append(Front(padded), mb.packTo - FoldLeft(+, 0, Front(padded)))

\* input_ids and input_ids_cp_sharded of a packed microbatch.
MegatronRow(mb, starts) ==
    FlattenSeq([i \in DOMAIN mb.rows |-> PadRow(Tokens(mb, i), starts[i + 1] - starts[i], Pad)])
MegatronShard(row, starts, r, cp) ==
    FlattenSeq([i \in 1..(Len(starts) - 1) |-> TokensOnRank(Sequence(row, i, starts, 1), r, cp)])
MegatronShards(mb, starts, cp) ==
    LET row == MegatronRow(mb, starts)
    IN  Kept([r \in 1..cp |-> MegatronShard(row, starts, r - 1, cp)])

\* ... and of one that is not packed, per rank.
UnpackedShards(mb, cp) ==
    Kept([r \in 1..cp |-> Kept([b \in DOMAIN mb.rows |-> TokensOnRank(mb.rows[b], r - 1, cp)])])

MegatronLogprobs(mb, setup) ==
    LET starts == Starts(PaddedLengths(mb, setup))
        row == MegatronRow(mb, starts)
        targets == Kept([r \in 1..setup.cp |-> RolledTargets(row, starts, r - 1, setup.cp)])
    IN  EachWithFirst(Kept(IF setup.packed
                           THEN PackedLogprobs(MegatronShards(mb, starts, setup.cp), targets, starts, RowWidth(mb), setup)
                           ELSE ParallelLogprobs(UnpackedShards(mb, setup.cp), mb.rows, setup)))

\* The loss of packed sequences, one by one: the logits of each from where it
\* starts on the rank, its data up to its padded length.
MegatronSequenceScores(mb, setup) ==
    LET starts == Starts(PaddedLengths(mb, setup))
        shards == MegatronShards(mb, starts, setup.cp)
        Columns(i) == [r \in 1..setup.cp |-> <<Sequence(shards[r], i, starts, setup.cp)>>]
    IN  [i \in DOMAIN mb.rows |->
            ParallelLogprobs(Columns(i), <<UpTo(mb.rows[i], starts[i + 1] - starts[i])>>, setup)[1]]

\* _pack_input_ids.  What it takes for the lengths without padding is
\* cu_seqlens_q, which holds those with.
PackInputIds(mb, starts, r, cp) ==
    LET Length(i) == starts[i + 1] - starts[i]
    IN  FlattenSeq([i \in DOMAIN mb.rows |->
            TokensOnRank(Roll(PadRow(UpTo(mb.rows[i], Length(i)), Length(i), Pad)), r, cp)])

\* ... so that a sequence padded beyond the batch does not fit its place.
FusionRaises(mb, setup) ==
    \E i \in DOMAIN mb.rows : PaddedLengths(mb, setup)[i] > RowWidth(mb)

\* prepare_packed_loss_input: all at once.
FusedScores(mb, setup) ==
    LET starts == Starts(PaddedLengths(mb, setup))
        targets == Kept([r \in 1..setup.cp |-> PackInputIds(mb, starts, r - 1, setup.cp)])
    IN  PackedLogprobs(MegatronShards(mb, starts, setup.cp), targets, starts, RowWidth(mb), setup)

MegatronScores(mb, setup) ==
    IF ~setup.packed THEN ParallelLogprobs(UnpackedShards(mb, setup.cp), mb.rows, setup)
    ELSE IF setup.fuse THEN FusedScores(mb, setup) ELSE MegatronSequenceScores(mb, setup)

-----------------------------------------------------------------------------
(* DTensor and Automodel. *)

\* The logits are DTensors if something is parallel.
IsLocal(setup) == setup.tp = 1 /\ setup.cp = 1
LocalLogprobs(columns, rows) ==
    [b \in DOMAIN rows |-> [k \in 1..(Len(columns[b]) - 1) |-> <<<<columns[b][k], rows[b][k + 1]>>>>]]

RowLogprobs(columns, rows, setup) ==
    IF IsLocal(setup) THEN LocalLogprobs(columns, rows) ELSE ShardedLogprobs(columns, rows, setup)

\* pack_sequences: one row, of at least min_seq_len tokens.
PackSequences(mb, atLeast) ==
    PadRow(FlattenSeq([i \in DOMAIN mb.rows |-> Tokens(mb, i)]), atLeast, Pad)

\* The scores of a packed row are dealt out; each but the first of a sequence.
UnpackedLogprobs(token, mb) ==
    LET starts == Starts(mb.lengths)
    IN  [i \in DOMAIN mb.rows |-> WithFirst(SubSeq(token, starts[i] + 2, starts[i + 1]))]

\* get_logprobs; only Automodel pads the row here.
RowsOf(scores, mb, setup) ==
    IF setup.packed THEN UnpackedLogprobs(WithFirst(scores[1]), mb)
    ELSE [i \in DOMAIN mb.rows |-> UpTo(WithFirst(scores[i]), mb.lengths[i])]
DTensorLogprobs(mb, setup) ==
    LET row == PackSequences(mb, IF setup.worker = "automodel" THEN setup.atLeast ELSE 0)
        scored == IF setup.packed THEN <<row>> ELSE mb.rows
    IN  RowsOf(Kept(RowLogprobs(scored, scored, setup)), mb, setup)

\* The loss; of packed sequences one by one.
DTensorScores(mb, setup) ==
    LET starts == Starts(mb.lengths)
        row == PackSequences(mb, setup.atLeast)
    IN  IF setup.packed
        THEN [i \in DOMAIN mb.rows |-> RowLogprobs(<<Sequence(row, i, starts, 1)>>, <<Tokens(mb, i)>>, setup)[1]]
        ELSE RowLogprobs(mb.rows, mb.rows, setup)

-----------------------------------------------------------------------------
(* Any worker. *)

\* get_logprobs: a row of scores for each sample, padded to the batch.
LogprobsOf(mb, setup, width) ==
    PadRows(Kept(IF setup.worker = "megatron" THEN MegatronLogprobs(mb, setup) ELSE DTensorLogprobs(mb, setup)), width)

\* train: what the loss is made of, for each sample the scores of the tokens that
\* count, each with what stands beside it in the channels.  No chunks here.
LossScores(mb, setup) == Kept(IF setup.worker = "megatron" THEN MegatronScores(mb, setup) ELSE DTensorScores(mb, setup))
TermsOfScores(scores, mask, channels) ==
    LET Counting(i) == SelectSeq(Span(1, Len(scores[i])), LAMBDA k : k + 1 \in mask[i])
        Term(i, k) == <<scores[i][k]>> \o [c \in DOMAIN channels[i] |-> channels[i][c][k]]
    IN  [i \in DOMAIN scores |-> [n \in DOMAIN Counting(i) |-> Term(i, Counting(i)[n])]]
LossTerms(mb, setup, mask, channels) == TermsOfScores(LossScores(mb, [setup EXCEPT !.chunk = 0]), mask, channels)

\* The batches of rows <<count, width>> that are scored at once.
ScoredShapes(mb, setup, training) ==
    LET padded == PaddedLengths(mb, setup)
        row == PackSequences(mb, IF training \/ setup.worker = "automodel" THEN setup.atLeast ELSE 0)
    IN  CASE ~setup.packed -> {<<Len(mb.rows), RowWidth(mb) \div setup.cp>>}
          [] setup.packed /\ setup.worker = "megatron" ->
                IF training /\ ~setup.fuse
                THEN {<<1, padded[i] \div setup.cp>> : i \in DOMAIN padded}
                ELSE {<<1, FoldLeft(+, 0, padded) \div setup.cp>>}
          [] setup.packed /\ setup.worker # "megatron" ->
                IF training THEN {<<1, mb.lengths[i]>> : i \in DOMAIN mb.lengths}
                ELSE {<<1, Len(row)>>}

MicrobatchRaises(mb, setup, training) ==
    \/ \E shape \in ScoredShapes(mb, setup, training) :
          ScoringRaises(shape[1], shape[2], IF training THEN [setup EXCEPT !.chunk = 0] ELSE setup)
    \/ training /\ setup.fuse /\ setup.worker = "megatron" /\ setup.packed /\ FusionRaises(mb, setup)
=============================================================================
