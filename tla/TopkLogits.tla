------------------------------ MODULE TopkLogits ------------------------------
(***************************************************************************)
(* Distillation: the highest logits of the teacher at every place, with    *)
(* their token ids (get_topk_logits), and the logits of the student at     *)
(* those ids (get_distillation_topk_logprobs_from_logits).  As in          *)
(* TokenLogprobs the logits are cut along the sequence and the vocabulary. *)
(*                                                                         *)
(* A logit of the teacher is <<column, id, index>>: whose it is, which one *)
(* of the column, and the token id it is reported under.  A setup has also *)
(* k, and entropy: whether the loss wants that of the student.             *)
(***************************************************************************)
EXTENDS MicrobatchScores

\* An order of the vocabulary that differs from column to column.
Logit(column, id) == ((id * (2 * column[2] + 1)) + column[1]) % VocabSize

Highest(entries, k) == UpTo(SortSeq(entries, LAMBDA a, b : Logit(a[1], a[2]) > Logit(b[1], b[2])), k)

\* A rank knows the ids of its part from the part's size and its own number.
LocalTopk(column, t, tp, k) ==
    LET size == VocabSize \div tp
    IN  Highest([j \in 1..size |-> <<column, (size * t) + j - 1, (j - 1) + (t * size)>>], Min({k, size}))

DistributedVocabTopk(columns, tp, k) ==
    [c \in DOMAIN columns |->
        Highest(FlattenSeq([t \in 1..tp |-> LocalTopk(columns[c], t - 1, tp, k)]), Min({k, VocabSize}))]

ChunkedVocabTopk(columns, setup) ==
    Kept(IF setup.chunk = 0 THEN DistributedVocabTopk(columns, setup.tp, setup.k)
         ELSE FlattenSeq([c \in DOMAIN Chunks(columns, setup.chunk) |->
                  DistributedVocabTopk(Chunks(columns, setup.chunk)[c], setup.tp, setup.k)]))

-----------------------------------------------------------------------------
(* The teacher. *)

\* The rows of the DTensor workers: with context parallelism cut by PyTorch, as
\* the tokens are.  No chunks here.
RowTopk(columns, setup) ==
    LET places == PlacesOfRanks(Len(columns), setup.cp)
        Topk(row) == ChunkedVocabTopk(row, [setup EXCEPT !.chunk = 0])
    IN  IF setup.cp = 1 THEN Topk(columns)
        ELSE AllGather(Kept([r \in 1..setup.cp |-> Topk(At(columns, places[r]))]))

\* get_topk_logits; only Automodel pads a packed row.
DTensorTopk(mb, setup) ==
    LET starts == Starts(mb.lengths)
        packed == RowTopk(PackSequences(mb, IF setup.worker = "automodel" THEN setup.atLeast ELSE 0), setup)
    IN  [i \in DOMAIN mb.rows |->
            IF setup.packed THEN SubSeq(packed, starts[i] + 1, starts[i + 1]) ELSE RowTopk(mb.rows[i], setup)]

\* TopkLogitsPostProcessor of Megatron: packed sequences are gathered one by one
\* and taken from where they begin.
MegatronTopk(mb, setup) ==
    LET starts == Starts(PaddedLengths(mb, setup))
        shards == MegatronShards(mb, starts, setup.cp)
        topk == Kept([r \in 1..setup.cp |-> ChunkedVocabTopk(shards[r], setup)])
        Whole(i) == IF setup.cp = 1 THEN Sequence(topk[1], i, starts, 1)
                    ELSE AllGather([r \in 1..setup.cp |-> Sequence(topk[r], i, starts, setup.cp)])
    IN  [i \in DOMAIN mb.rows |->
            IF setup.packed THEN UpTo(Whole(i), mb.lengths[i]) ELSE ChunkedVocabTopk(mb.rows[i], setup)]

\* "Context Parallelism (CP>1) requires sequence packing to be enabled."
TopkRaises(setup) == setup.worker = "megatron" /\ setup.cp > 1 /\ ~setup.packed

\* A row for each sample, padded to the batch.
TopkOf(mb, setup, width) ==
    PadRows(IF setup.worker = "megatron" THEN MegatronTopk(mb, setup) ELSE DTensorTopk(mb, setup), width)

-----------------------------------------------------------------------------
(* The student. *)

\* gather_logits_at_global_indices, and with zero_outside_topk
\* ChunkedDistributedGatherLogprob: a rank leaves zero where an id is not in its
\* part; the parts are added.
AtIndices(column, indices, tp) == [n \in DOMAIN indices |->
    FlattenSeq([t \in 1..tp |->
        IF indices[n] \in VocabInterval(t - 1, tp) THEN <<<<column, indices[n]>>>> ELSE Zero])]

\* ChunkedDistributedEntropy: a sum over the parts.
Entropy(column, tp) ==
    FlattenSeq([t \in 1..tp |-> [j \in 1..(VocabSize \div tp) |-> <<column, ((t - 1) * (VocabSize \div tp)) + j - 1>>]])

\* columns[r] is the row of a cp rank, of which `indices' are for the first places.
StudentTopk(columns, indices, setup) ==
    LET width == Len(columns[1]) * setup.cp
        padded == PadRow(indices, width, [n \in 1..setup.k |-> 0])
        OnRank(r) == LET mine == IF setup.cp = 1 THEN indices ELSE TokensOnRank(padded, r - 1, setup.cp)
                     IN  Kept([c \in DOMAIN mine |-> AtIndices(columns[r][c], mine[c], setup.tp)])
        whole == IF setup.cp = 1 THEN OnRank(1) ELSE AllGather([r \in 1..setup.cp |-> OnRank(r)])
    IN  UpTo(whole, Len(indices))

StudentEntropy(columns, count, setup) ==
    LET OnRank(r) == [c \in DOMAIN columns[r] |-> Entropy(columns[r][c], setup.tp)]
    IN  IF setup.cp = 1 THEN OnRank(1) ELSE UpTo(AllGather([r \in 1..setup.cp |-> OnRank(r)]), count)

\* get_distillation_topk_logprobs_from_logits: the student's logits at the ids of
\* the teacher's, beside them; of the last place there is no next token.
TopkLogprobs(columns, teacher, setup) ==
    LET indices == [p \in DOMAIN teacher |->
                       [n \in 1..setup.k |-> IF teacher[p] = Zero THEN 0 ELSE teacher[p][n][3]]]
    IN  [student |-> Kept(Front(StudentTopk(columns, indices, setup))),
         teacher |-> Front(teacher),
         entropy |-> IF setup.entropy THEN Kept(Front(StudentEntropy(columns, Len(indices), setup))) ELSE <<>>]

\* The columns of row i of a microbatch that the loss takes on each rank.
ColumnsOf(mb, i, setup) ==
    IF setup.worker = "megatron"
    THEN LET starts == Starts(PaddedLengths(mb, setup))
         IN  IF ~setup.packed THEN [r \in 1..setup.cp |-> TokensOnRank(mb.rows[i], r - 1, setup.cp)]
             ELSE [r \in 1..setup.cp |-> Sequence(MegatronShards(mb, starts, setup.cp)[r], i, starts, setup.cp)]
    ELSE IF setup.packed THEN <<Tokens(mb, i)>>
         ELSE [r \in 1..setup.cp |-> At(mb.rows[i], PlacesOfRanks(RowWidth(mb), setup.cp)[r])]

\* What the data of row i is cut to.
DataWidth(mb, i, setup) ==
    IF ~setup.packed THEN RowWidth(mb)
    ELSE IF setup.worker = "megatron" THEN Min({RowWidth(mb), PaddedLengths(mb, setup)[i]}) ELSE mb.lengths[i]

\* The entropy is not cut to the data: without context parallelism the last
\* sequence, padded for a pipeline beyond the batch, has too much of it.
EntropyRaises(mb, setup) ==
    setup.entropy /\ setup.cp = 1 /\
        \E i \in DOMAIN mb.rows : Len(ColumnsOf(mb, i, setup)[1]) # DataWidth(mb, i, setup)

\* DistillationLossFn: for each token that counts, the logits of the place before
\* it, the student's beside the teacher's, <<weights, row>>.
RowTerms(topk, teacherWeights, setup, mask) ==
    LET counting == SelectSeq(Span(1, Len(topk.student)), LAMBDA p : p + 1 \in mask)
        Term(p) == <<topk.student[p], <<teacherWeights, topk.teacher[p]>>,
                     IF setup.entropy THEN topk.entropy[p] ELSE Zero>>
    IN  [n \in DOMAIN counting |-> Term(counting[n])]
DistillationTerms(mb, setup, mask, teacher) ==
    [i \in DOMAIN mb.rows |->
        RowTerms(TopkLogprobs(Kept(ColumnsOf(mb, i, setup)), UpTo(teacher[i][2], DataWidth(mb, i, setup)), setup),
                 teacher[i][1], setup, mask[i])]
=============================================================================
