---------------------------- MODULE BatchSharding ----------------------------
(***************************************************************************)
(* nemo_rl/distributed/batched_data_dict.py: a batch is cut into shards,   *)
(* one per data-parallel rank, a shard into global batches, and these into *)
(* microbatches.  A batch is the sequence of its rows; here rows are       *)
(* numbers of samples, counted from 1, and their lengths in tokens.        *)
(*                                                                         *)
(* A sharding is a record: rows, for each shard, the samples it gets;      *)
(* micro, for each shard and global batch, its microbatches, each as the   *)
(* positions <<first, last>> within the global batch and, batched          *)
(* dynamically, its length (absent for plain shards); and sorted, the list *)
(* of indices that undoes a reordering.                                    *)
(***************************************************************************)
EXTENDS SequencePacking

RoundUp(n, multiple) == ((n + multiple - 1) \div multiple) * multiple

\* The positions first..last.
Span(first, last) == [k \in 1..(last - first + 1) |-> first + k - 1]

PlainShard(data, s, shards, batchSize) ==
    LET size == batchSize \div shards
    IN  FlattenSeq([c \in 1..(Len(data) \div batchSize) |->
            LET start == (c - 1) * batchSize + (s - 1) * size
            IN  SubSeq(data, start + 1, start + size)])

\* shard_by_batch_size(shards, batch_size).
PlainSharding(data, shards, batchSize) ==
    [rows |-> [s \in 1..shards |-> PlainShard(data, s, shards, batchSize)]]

\* shard_by_batch_size(shards, allow_uneven_shards=True): the last shards may
\* be short, or empty.
UnevenShards(data, shards) ==
    LET size == (Len(data) + shards - 1) \div shards
    IN  [s \in 1..shards |-> SubSeq(data, (s - 1) * size + 1, Min({s * size, Len(data)}))]

-----------------------------------------------------------------------------
(* Dynamic batching: each chunk is sorted by length and dealt out to the   *)
(* shards, so that they get sequences of about the same length.            *)

\* indices[i::shards]
Stride(list, s, shards) ==
    [k \in 1..((Len(list) - s) \div shards + 1) |-> list[s + (k - 1) * shards]]

SortedChunk(lengths, c, shards, batchSize) ==
    LET chunk == ((c - 1) * batchSize + 1)..(c * batchSize)
        sorted == Ascending(chunk, lengths)
    IN  FlattenSeq([s \in 1..shards |-> Stride(sorted, s, shards)])

\* Wrong: the shards count their tokens each for itself.
RankLengthOfShard(sharding, s, k, lengths, round, width) ==
    Min({RoundUp(lengths[sharding.rows[s][k]], round), width})

\* The length of the k-th rows of all shards in a microbatch: the longest of
\* them, rounded up, but never more than the width of the batch.
RankLength(sharding, s, k, lengths, round, width) ==
    Min({RoundUp(Max({lengths[rows[k]] : rows \in Range(sharding.rows)}), round), width})

\* Wrong: the row that is to join is not counted.
FitsWithoutRow(mb, longest, maxTokens) == (mb[2] - mb[1] + 1) * longest <= maxTokens

\* A microbatch of the positions mb may grow by a row if it then has room.
FitsWithRow(mb, longest, maxTokens) == (mb[2] - mb[1] + 2) * longest <= maxTokens

\* Row k of a shard joins the last microbatch or begins another; longest is the
\* length of the longest row of the last one.
Grow(done, k, len, maxTokens) ==
    LET longest == Max({done.longest, len})
        mb == Last(done.mbs)
    IN  IF done.mbs # <<>> /\ FitsWithRow(mb, longest, maxTokens)
        THEN [mbs |-> Append(Front(done.mbs), <<mb[1], k, longest>>), longest |-> longest]
        ELSE [mbs |-> Append(done.mbs, <<k, k, len>>), longest |-> len]

\* The microbatches of one global batch of shard s.
DynamicMicrobatches(sharding, s, c, local, lengths, args) ==
    LET LengthOf(k) == RankLength(sharding, s, (c - 1) * local + k, lengths, args.round, args.width)
    IN  FoldLeft(LAMBDA done, k : Grow(done, k, LengthOf(k), args.maxTokens),
                 [mbs |-> <<>>, longest |-> 0], Span(1, local)).mbs

\* The assertion on single rows: none may be longer than a microbatch.
DynamicRaises(sharding, lengths, args) ==
    \E s \in DOMAIN sharding.rows : \E k \in DOMAIN sharding.rows[s] :
        RankLength(sharding, s, k, lengths, args.round, args.width) > args.maxTokens

DynamicSharding(lengths, shards, batchSize, args) ==
    LET chunks == Len(lengths) \div batchSize
        local == batchSize \div shards
        sorted == FlattenSeq([c \in 1..chunks |-> SortedChunk(lengths, c, shards, batchSize)])
        plain == PlainSharding(sorted, shards, batchSize)
    IN  IF DynamicRaises(plain, lengths, args) THEN {}
        ELSE {[rows |-> plain.rows,
               micro |-> [s \in 1..shards |->
                             [c \in 1..chunks |->
                                 DynamicMicrobatches(plain, s, c, local, lengths, args)]],
               sorted |-> sorted]}

-----------------------------------------------------------------------------
(* Sequence packing: each chunk is packed into bins of padded sequences,   *)
(* which are dealt out to the shards; a bin is a microbatch.               *)

BinsOfShard(bins, s, shards) == Stride(bins, s, shards)

\* The positions that bins, laid end to end, take.
Positions(bins) ==
    [b \in DOMAIN bins |->
        LET before == Len(FlattenSeq(SubSeq(bins, 1, b - 1)))
        IN  <<before + 1, before + Len(bins[b])>>]

\* dealt[s][c] are the bins of chunk c, of indices into that chunk, that shard s gets.
Numbered(bins, c, batchSize) ==
    [b \in DOMAIN bins |-> [k \in DOMAIN bins[b] |-> bins[b][k] + (c - 1) * batchSize]]
RowsOfBins(dealt, batchSize) ==
    [s \in DOMAIN dealt |->
        FlattenSeq(FlattenSeq([c \in DOMAIN dealt[s] |-> Numbered(dealt[s][c], c, batchSize)]))]
PackedSharding(dealt, rows) ==
    [rows |-> rows,
     micro |-> [s \in DOMAIN dealt |-> [c \in DOMAIN dealt[s] |-> Positions(dealt[s][c])]],
     sorted |-> FlattenSeq(rows)]

\* The sequences with an element of each set of a sequence of sets.
OneMore(chosen, set) == {Append(c, x) : c \in chosen, x \in set}
OneOfEach(sets) == FoldLeft(LAMBDA chosen, set : OneMore(chosen, set), {<<>>}, sets)

\* The shardings that shard_by_batch_size may return with
\* sequence_packing_args; the chunks are packed one by one.
PaddedChunk(lengths, c, batchSize, round) ==
    [k \in 1..batchSize |-> RoundUp(lengths[(c - 1) * batchSize + k], round)]
PackedChunks(lengths, shards, batchSize, args) ==
    OneOfEach([c \in 1..(Len(lengths) \div batchSize) |->
        Packings(args.algorithm, PaddedChunk(lengths, c, batchSize, args.round), args.maxTokens, shards)])
Dealt(packed, shards) == [s \in 1..shards |-> [c \in DOMAIN packed |-> BinsOfShard(packed[c], s, shards)]]
PackedShardings(lengths, shards, batchSize, args) ==
    UNION {{PackedSharding(dealt, rows) : rows \in {RowsOfBins(dealt, batchSize)}} :
               dealt \in {Dealt(packed, shards) : packed \in PackedChunks(lengths, shards, batchSize, args)}}

-----------------------------------------------------------------------------
(* What a rank does with its shard. *)

\* get_batch: the rows of global batch g of a shard, with batches of `local'
\* rows or, when packed, as many as its bins hold.
GetBatch(sharding, s, g, local) ==
    IF "micro" \in DOMAIN sharding
    THEN LET Count(c) == Last(sharding.micro[s][c])[2]
             before == FoldLeft(LAMBDA n, c : n + Count(c), 0, Span(1, g - 1))
         IN  SubSeq(sharding.rows[s], before + 1, before + Count(g))
    ELSE SubSeq(sharding.rows[s], (g - 1) * local + 1, g * local)

\* The microbatches of that batch: their samples, mbs rows each when nothing else
\* was arranged, and the width that their rows are cut to, at first `width'.
MicroBatches(sharding, s, g, local, mbs, width) ==
    LET batch == GetBatch(sharding, s, g, local)
        cuts == IF "micro" \in DOMAIN sharding THEN sharding.micro[s][g]
                ELSE [k \in 1..(Len(batch) \div mbs) |-> <<(k - 1) * mbs + 1, k * mbs>>]
    IN  [k \in DOMAIN cuts |->
            [samples |-> SubSeq(batch, cuts[k][1], cuts[k][2]),
             width |-> IF Len(cuts[k]) = 3 THEN cuts[k][3] ELSE width]]

\* reorder_data: row k goes where it came from.
ReorderData(data, sorted) ==
    [i \in DOMAIN data |-> data[CHOOSE k \in DOMAIN sorted : sorted[k] = i]]
=============================================================================
