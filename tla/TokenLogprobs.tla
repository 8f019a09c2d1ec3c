---------------------------- MODULE TokenLogprobs ----------------------------
(***************************************************************************)
(* nemo_rl/distributed/model_utils.py: the log-probabilities of tokens     *)
(* from logits that are cut along the sequence (context parallelism, cp)   *)
(* and along the vocabulary (tensor parallelism, tp).                      *)
(*                                                                         *)
(* A token is <<sample, position>>, a row a sequence of tokens.  The       *)
(* logits of a place in a row are known by the token there, their column.  *)
(* A score is the sum of the log-probabilities that went into it, each as  *)
(* <<column, target>>: of a place it should be one, of the token after it. *)
(* Ranks count from 0, and so do the parts of the vocabulary.              *)
(***************************************************************************)
EXTENDS BatchSharding

Pad == <<0, 0>>
Zero == <<>>         \* the score of nothing

VocabSize == 4
Id(token) == IF token = Pad THEN 0 ELSE ((token[1] + token[2]) % 3) + 1

\* The same sequence; TLC keeps its elements instead of computing them again.
Kept(sequence) == sequence \o <<>>

PadRow(row, width, with) == Kept([k \in 1..Max({Len(row), width}) |-> IF k <= Len(row) THEN row[k] ELSE with])
UpTo(row, n) == SubSeq(row, 1, Min({n, Len(row)}))

\* target.roll(shifts=-1)
Roll(row) == Append(Tail(row), Head(row))

\* A whole from the rows of its consecutive parts, and a part of it.
Part(row, r, size) == SubSeq(row, r * size + 1, (r + 1) * size)

-----------------------------------------------------------------------------
(* Context parallelism. *)

\* _get_tokens_on_this_cp_rank: of 2 * cp chunks, one from either end.
TokensOnRank(row, r, cp) ==
    LET size == Len(row) \div (2 * cp)
    IN  IF cp = 1 THEN row ELSE Part(row, r, size) \o Part(row, (2 * cp) - r - 1, size)

\* AllGatherCPTensor: the halves of the shards in the order of their chunks.
AllGather(shards) ==
    LET cp == Len(shards)
        half(r) == (Len(shards[r + 1]) + 1) \div 2
        Chunk(i) == IF i < cp THEN UpTo(shards[i + 1], half(i))
                    ELSE LET r == (2 * cp) - i - 1
                         IN  SubSeq(shards[r + 1], half(r) + 1, Len(shards[r + 1]))
    IN  FlattenSeq([i \in 1..(2 * cp) |-> Chunk(i - 1)])

-----------------------------------------------------------------------------
(* The vocabulary.  Every operator takes matrices of columns and targets,  *)
(* and what it is to do, [tp, cp, sampling, chunk]; chunk is 0 for none.   *)

\* The ids of a part of the vocabulary.
VocabInterval(t, tp) == ((VocabSize \div tp) * t)..((VocabSize \div tp) * (t + 1) - 1)

\* A rank leaves zero where the target is not in its part; the parts are added.
VocabParallelScore(column, target, tp) ==
    FlattenSeq([t \in 1..tp |->
        IF Id(target) \in VocabInterval(t - 1, tp) THEN <<<<column, target>>>> ELSE Zero])

DistributedLogprob(columns, targets, tp) ==
    Kept([k \in DOMAIN columns |-> VocabParallelScore(columns[k], targets[k], tp)])

Chunks(row, size) ==
    [c \in 1..((Len(row) + size - 1) \div size) |->
        SubSeq(row, (c - 1) * size + 1, Min({Len(row), c * size}))]

ChunkedDistributedLogprob(columns, targets, tp, size) ==
    FlattenSeq([c \in DOMAIN Chunks(columns, size) |->
        DistributedLogprob(Chunks(columns, size)[c], Chunks(targets, size)[c], tp)])

\* To filter by top-k and top-p a rank needs whole columns: the ranks exchange
\* theirs (all_to_all_vp2sq), each scores a slice of the tokens against all of
\* the vocabulary, and the slices are gathered.
LogprobWithSampling(columns, targets, tp) ==
    LET size == Len(columns) \div tp
        OfRank(r) == LET mine == Part(columns, r, size)
                         theirs == Part(targets, r, size)
                     IN  Kept([k \in 1..size |-> <<<<mine[k], theirs[k]>>>>])
    IN  FlattenSeq([r \in 1..tp |-> OfRank(r - 1)])

ChunkedLogprobWithSampling(columns, targets, tp, size) ==
    FlattenSeq([c \in DOMAIN Chunks(columns, size) |->
        LogprobWithSampling(Chunks(columns, size)[c], Chunks(targets, size)[c], tp)])

View(flat, width) == Kept([b \in 1..(Len(flat) \div width) |-> Part(flat, b - 1, width)])

\* The ValueErrors on batches of `count' rows of `width' places.
ScoringRaises(count, width, args) ==
    args.sampling /\ \/ (count * width) % args.tp # 0
                     \/ args.chunk # 0 /\ (args.chunk * count) % args.tp # 0

Scores(columns, targets, args) ==
    LET count == Len(columns)
        sampled == IF args.chunk = 0
                   THEN LogprobWithSampling(FlattenSeq(columns), FlattenSeq(targets), args.tp)
                   ELSE ChunkedLogprobWithSampling(FlattenSeq(columns), FlattenSeq(targets),
                                                   args.tp, args.chunk * count)
    IN  IF args.sampling THEN View(sampled, Len(columns[1]))
        ELSE Kept([b \in 1..count |->
                 IF args.chunk = 0 THEN DistributedLogprob(columns[b], targets[b], args.tp)
                 ELSE ChunkedDistributedLogprob(columns[b], targets[b], args.tp, args.chunk)])

-----------------------------------------------------------------------------
(* Whole rows. *)

At(row, places) == Kept([k \in DOMAIN places |-> row[places[k]]])

\* A row of what each rank has, put together.
Gathered(shards) == IF Len(shards) = 1 THEN shards[1] ELSE AllGather(shards)

\* from_parallel_logits_to_logprobs; columns[r] is the matrix of a cp rank.  The
\* target is rolled before it is cut: the token after the last one of a chunk
\* is in another.
ParallelScores(columns, target, args) ==
    LET width == Len(columns[1][1]) * args.cp
        padded == Kept([b \in DOMAIN target |-> PadRow(Roll(target[b]), width, Pad)])
    IN  Kept([r \in 1..args.cp |->
            Scores(columns[r], [b \in DOMAIN target |-> TokensOnRank(padded[b], r - 1, args.cp)], args)])
GatheredRows(scores, target) ==
    [b \in DOMAIN target |-> UpTo(Gathered([r \in DOMAIN scores |-> scores[r][b]]), Len(target[b]) - 1)]
ParallelLogprobs(columns, target, args) == GatheredRows(ParallelScores(columns, target, args), target)

\* Of the places 1..width, those whose tokens lie on each rank.
PlacesOfRanks(width, cp) == Kept([r \in 1..cp |-> TokensOnRank(Span(1, width), r - 1, cp)])

\* The scores of the ranks, in the order of the sequence.
InSequence(scores, places) ==
    LET Whole(b) == FlattenSeq([r \in DOMAIN scores |-> scores[r][b]])
    IN  [b \in DOMAIN scores[1] |-> Front(Kept(ReorderData(Whole(b), FlattenSeq(places))))]

\* ... of targets that PyTorch has cut as it has the columns.
ScoresOfRanks(columns, targets, places, args) ==
    Kept([r \in 1..args.cp |->
        Scores([b \in DOMAIN columns |-> At(columns[b], places[r])],
               [b \in DOMAIN targets |-> Part(targets[b], r - 1, Len(places[r]))], args)])

\* Wrong: the targets are cut in the order of the sequence.
ShardedLogprobsUnindexed(columns, target, args) ==
    LET places == PlacesOfRanks(Len(target[1]), args.cp)
    IN  InSequence(ScoresOfRanks(columns, [b \in DOMAIN target |-> Roll(target[b])], places, args), places)

\* dtensor_from_parallel_logits_to_logprobs.  PyTorch has cut the buffers, the
\* index of the sequence among them, all in the same way; the target is put in
\* order by the index, rolled, and cut as the logits are.
ShardedLogprobs(columns, target, args) ==
    LET places == PlacesOfRanks(Len(target[1]), args.cp)
        seqIndex == FlattenSeq(places)
        Rolled(b) == At(Roll(Kept(ReorderData(At(target[b], seqIndex), seqIndex))), seqIndex)
    IN  InSequence(ScoresOfRanks(columns, Kept([b \in DOMAIN target |-> Rolled(b)]), places, args), places)

-----------------------------------------------------------------------------
(* Sequences laid end to end; `starts' are where they begin and where the  *)
(* last ends, counted from 0.                                              *)

Starts(lengths) == Kept([i \in 1..(Len(lengths) + 1) |-> FoldLeft(+, 0, UpTo(lengths, i - 1))])

\* Sequence i of rows cut for cp ranks.
Sequence(row, i, starts, cp) == SubSeq(row, (starts[i] \div cp) + 1, starts[i + 1] \div cp)

\* Each sequence is rolled and cut by itself.
RolledTargets(row, starts, r, cp) ==
    FlattenSeq([i \in 1..(Len(starts) - 1) |-> TokensOnRank(Roll(Sequence(row, i, starts, 1)), r, cp)])

\* from_parallel_logits_to_logprobs_packed_sequences; `targets' are those of
\* each rank, rolled.
SequencesOf(scores, starts, width) ==
    LET Whole(i) == Gathered([r \in DOMAIN scores |-> Sequence(scores[r], i, starts, Len(scores))])
    IN  [i \in 1..(Len(starts) - 1) |->
            PadRow(UpTo(Front(Whole(i)), width - 1), width - 1, Zero)]
PackedLogprobs(columns, targets, starts, width, args) ==
    SequencesOf(Kept([r \in 1..args.cp |-> Scores(<<columns[r]>>, <<targets[r]>>, args)[1]]), starts, width)
=============================================================================
