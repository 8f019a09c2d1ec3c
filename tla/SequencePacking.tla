--------------------------- MODULE SequencePacking ---------------------------
(***************************************************************************)
(* nemo_rl/data/packing/algorithms.py: which sequences share a microbatch. *)
(* A packer gets the (padded) lengths of a list of sequences and returns   *)
(* bins, lists of indices into that list.  Indices count from 1.           *)
(***************************************************************************)
EXTENDS Integers, Sequences, SequencesExt, FiniteSetsExt

Algorithms == {"concatenative", "first_fit_decreasing", "first_fit_shuffle",
               "modified_first_fit_decreasing"}

Weight(bin, lengths) == FoldLeft(LAMBDA sum, i : sum + lengths[i], 0, bin)

\* The indices up to n that are in a set, sorted: each goes behind those that stay
\* before it.  Python's sort is stable.
Insert(sorted, i, indices, before) ==
    IF i \in indices
    THEN InsertAt(sorted, Cardinality({k \in DOMAIN sorted : <<sorted[k], i>> \in before}) + 1, i)
    ELSE sorted
SortedBy(indices, n, before) ==
    FoldLeft(LAMBDA sorted, i : Insert(sorted, i, indices, before), <<>>, [i \in 1..n |-> i])

PairsOf(list) == (DOMAIN list) \X (DOMAIN list)
Ascending(indices, lengths) ==
    SortedBy(indices, Len(lengths), {p \in PairsOf(lengths) : lengths[p[1]] <= lengths[p[2]]})
Descending(indices, lengths) ==
    SortedBy(indices, Len(lengths), {p \in PairsOf(lengths) : lengths[p[1]] >= lengths[p[2]]})

-----------------------------------------------------------------------------

\* Bin k gets another sequence, or a new bin has it if there is none to take it.
Place(bins, k, i) == IF k = 0 THEN Append(bins, <<i>>) ELSE [bins EXCEPT ![k] = Append(@, i)]

\* The last bin, if it has room.
LastWithRoom(bins, i, lengths, capacity) ==
    IF bins = <<>> \/ Weight(Last(bins), lengths) + lengths[i] > capacity THEN 0 ELSE Len(bins)
IntoLast(bins, i, lengths, capacity) == Place(bins, LastWithRoom(bins, i, lengths, capacity), i)
Concatenative(lengths, capacity) ==
    FoldLeft(LAMBDA bins, i : IntoLast(bins, i, lengths, capacity), <<>>, [i \in DOMAIN lengths |-> i])

\* Each sequence, in the given order, into the first bin that has room.
FirstWithRoom(bins, i, lengths, capacity) ==
    SelectInSeq(bins, LAMBDA bin : Weight(bin, lengths) + lengths[i] <= capacity)
IntoFirst(bins, i, lengths, capacity) == Place(bins, FirstWithRoom(bins, i, lengths, capacity), i)
FirstFit(order, lengths, capacity) ==
    FoldLeft(LAMBDA bins, i : IntoFirst(bins, i, lengths, capacity), <<>>, order)

\* sort(reverse=True) on the pairs: of equal lengths the higher index first.
DecreasingOrder(lengths) ==
    SortedBy(DOMAIN lengths, Len(lengths), {p \in PairsOf(lengths) : lengths[p[1]] > lengths[p[2]]})

FirstFitDecreasing(lengths, capacity) == FirstFit(DecreasingOrder(lengths), lengths, capacity)

\* One result for every order that random.shuffle may produce.
FirstFitShuffle(lengths, capacity) ==
    {FirstFit(order, lengths, capacity) : order \in SetToSeqs(DOMAIN lengths)}

-----------------------------------------------------------------------------
(* ModifiedFirstFitDecreasingPacker, phase by phase.  What has been packed  *)
(* and what has not is a record: bins, and the indices that are left.       *)

Large(lengths, capacity) == {i \in DOMAIN lengths : 2 * lengths[i] > capacity}
Medium(lengths, capacity) == {i \in DOMAIN lengths : 3 * lengths[i] > capacity} \ Large(lengths, capacity)
Small(lengths, capacity) ==
    {i \in DOMAIN lengths : 6 * lengths[i] > capacity}
        \ (Large(lengths, capacity) \cup Medium(lengths, capacity))

\* Phases 1 and 2: a bin for each large sequence, with the largest medium one
\* that fits.
StartBin(packed, i, lengths, capacity) ==
    LET medium == Descending(packed.left \cap Medium(lengths, capacity), lengths)
        k == SelectInSeq(medium, LAMBDA j : lengths[i] + lengths[j] <= capacity)
        bin == IF k = 0 THEN <<i>> ELSE <<i, medium[k]>>
    IN  [bins |-> Append(packed.bins, bin), left |-> packed.left \ Range(bin)]
StartBins(lengths, capacity) ==
    FoldLeft(LAMBDA packed, i : StartBin(packed, i, lengths, capacity),
             [bins |-> <<>>, left |-> DOMAIN lengths],
             Descending(Large(lengths, capacity), lengths))

\* Phase 3: from the last bin to the first, those without a medium sequence get
\* the smallest small one and the largest that fits beside it.
AddSmallPair(packed, b, lengths, capacity) ==
    LET bin == packed.bins[b]
        small == Ascending(packed.left \cap Small(lengths, capacity), lengths)
        room == capacity - Weight(bin, lengths)
        fitting == {k \in 2..Len(small) : lengths[small[1]] + lengths[small[k]] <= room}
        pair == <<small[1], small[Max(fitting)]>>
    IN  IF Range(bin) \cap Medium(lengths, capacity) # {} \/ fitting = {}
        THEN packed
        ELSE [bins |-> [packed.bins EXCEPT ![b] = @ \o pair], left |-> packed.left \ Range(pair)]

\* Phase 4: each bin in turn takes what fits, the largest first.
Take(taken, i, lengths, capacity) ==
    IF Weight(taken, lengths) + lengths[i] <= capacity THEN Append(taken, i) ELSE taken
TakeWhatFits(bin, left, lengths, capacity) ==
    FoldLeft(LAMBDA taken, i : Take(taken, i, lengths, capacity), bin, Descending(left, lengths))
FillBin(packed, b, lengths, capacity) ==
    LET full == TakeWhatFits(packed.bins[b], packed.left, lengths, capacity)
    IN  [bins |-> [packed.bins EXCEPT ![b] = full], left |-> packed.left \ Range(full)]

\* Phase 5: the leftovers into bins of their own, kept in the order of their
\* weight; only the lightest is tried.
InsertByWeight(bins, bin, lengths) ==
    LET k == Cardinality({j \in DOMAIN bins : Weight(bins[j], lengths) <= Weight(bin, lengths)})
    IN  InsertAt(bins, k + 1, bin)

PackLeftover(bins, i, lengths, capacity) ==
    IF lengths[i] <= capacity - Weight(Head(bins), lengths)
    THEN InsertByWeight(Tail(bins), Append(Head(bins), i), lengths)
    ELSE InsertByWeight(bins, <<i>>, lengths)
PackLeftovers(left, lengths, capacity) ==
    FoldLeft(LAMBDA bins, i : PackLeftover(bins, i, lengths, capacity), <<<<>>>>, Descending(left, lengths))

\* The phases in turn; the one result they have.
AddSmallPairs(packed, lengths, capacity) ==
    FoldLeft(LAMBDA p, b : AddSmallPair(p, b, lengths, capacity), packed,
             Reverse([b \in DOMAIN packed.bins |-> b]))
FillBins(packed, lengths, capacity) ==
    FoldLeft(LAMBDA p, b : FillBin(p, b, lengths, capacity), packed, [b \in DOMAIN packed.bins |-> b])

KeepBin(kept, bin) == IF bin = <<>> THEN kept ELSE Append(kept, bin)
WithoutEmpty(bins) == FoldLeft(LAMBDA kept, bin : KeepBin(kept, bin), <<>>, bins)

ModifiedFirstFitDecreasing(lengths, capacity) ==
    {WithoutEmpty(filled.bins \o PackLeftovers(filled.left, lengths, capacity)) :
        filled \in {FillBins(paired, lengths, capacity) :
                       paired \in {AddSmallPairs(started, lengths, capacity) :
                                      started \in {StartBins(lengths, capacity)}}}}

-----------------------------------------------------------------------------

\* Wrong: a count that is right already is rounded up too.
TargetBinCountNextMultiple(count, shards) == ((Max({count, shards}) \div shards) + 1) * shards

\* How many bins there must be: min_bin_count and bin_count_multiple are both
\* the number of shards.
TargetBinCount(count, shards) ==
    LET atLeast == Max({count, shards})
    IN  ((atLeast + shards - 1) \div shards) * shards

\* A last sequence out of the bins that are longest (at first), until each new
\* bin has one.
LongestFirst(bins) ==
    SortedBy(DOMAIN bins, Len(bins), {p \in PairsOf(bins) : Len(bins[p[1]]) > Len(bins[p[2]])})
MoveOne(bins, source) ==
    LET b == source[SelectInSeq(source, LAMBDA s : Len(bins[s]) > 1)]
    IN  Append([bins EXCEPT ![b] = Front(@)], <<Last(bins[b])>>)
AdjustBinCount(bins, shards) ==
    FoldLeft(LAMBDA adjusted, new : MoveOne(adjusted, LongestFirst(bins)), bins,
             [n \in 1..(TargetBinCount(Len(bins), shards) - Len(bins)) |-> n])

Implementations(algorithm, lengths, capacity) ==
    CASE algorithm = "concatenative" -> {Concatenative(lengths, capacity)}
      [] algorithm = "first_fit_decreasing" -> {FirstFitDecreasing(lengths, capacity)}
      [] algorithm = "first_fit_shuffle" -> FirstFitShuffle(lengths, capacity)
      [] algorithm = "modified_first_fit_decreasing" -> ModifiedFirstFitDecreasing(lengths, capacity)

\* Fewer sequences than bins raise.
Adjusted(packings, count, shards) ==
    {AdjustBinCount(bins, shards) : bins \in {b \in packings : TargetBinCount(Len(b), shards) <= count}}

\* What pack() may return; nothing where it raises, as it does for a sequence too
\* long for a bin.
Packings(algorithm, padded, capacity, shards) ==
    UNION {IF \E i \in DOMAIN lengths : lengths[i] > capacity THEN {}
           ELSE Adjusted(Implementations(algorithm, lengths, capacity), Len(lengths), shards) :
               lengths \in {padded}}
=============================================================================
