--------------------------- MODULE DiffusionProofs ---------------------------
(***************************************************************************)
(* For every number of ranks, size of the batch, estimator and depth of    *)
(* the replies: the data-parallel ranks of the diffusion policy meet in    *)
(* every collective.                                                       *)
(*                                                                         *)
(* The argument: a rank's list of operations is compared with another's by *)
(* the names of the operations and by how many rows each has, never by     *)
(* which rows.  The ranks start with the same list, for every shard has as *)
(* many rows.  A build replaces itself by one forward for each microbatch, *)
(* and how many these are depends on the number of rows, on the estimator  *)
(* and on the levels the ranks have agreed upon (LevelsInv).  A rank       *)
(* builds while another has not: so two lists agree as they are when both  *)
(* or neither have their build before them, and otherwise once the build   *)
(* is done (LockstepInv), which needs that no build follows another at     *)
(* once (ListInv).                                                         *)
(***************************************************************************)
EXTENDS DiffusionProperties, ShardingLemmas

\* The sparse schedule scores as many rows as a rank's replies are long; the fixed
\* one is there to keep the ranks on one schedule (just_grpo_logprobs.py:56-60).
\* Nothing refuses sparse with several ranks: that it is not used is assumed.
SparseIsAlone ==
  \A c \in Configs : c.estimator.type = "just" /\ c.estimator.schedule = "sparse" => c.dp = 1

\* Two lists of operations do the same, on as many rows.
SameOps(a, b) ==
  /\ IsSeq(a) /\ IsSeq(b) /\ Len(a) = Len(b)
  /\ \A k \in 1..Len(a) : a[k].op = b[k].op /\ Len(a[k].rows) = Len(b[k].rows)

\* The rank is about to build its microbatches.
Builds(r) == Running(r) /\ Current(r).op = "build"

\* A list after its build, and the list to come.
Forwards(micros) == [k \in DOMAIN micros |-> [Op("forward", <<>>) EXCEPT !.micro = micros[k]]]

Built(r) == Forwards(Microbatches(Current(r).rows, r)) \o Tail(todo[r])

Afterwards(r) == IF Builds(r) THEN Built(r) ELSE todo[r]

\* Levels are counted and microbatches built for rows of the batch, and a build is
\* followed by something else.
WellFormed(list) ==
  /\ \A k \in 1..Len(list) :
        list[k].op \in {"levels", "build"} => list[k].rows \in Seq(Rows) /\ list[k].rows # <<>>
  /\ \A k \in 1..(Len(list) - 1) : list[k].op = "build" => list[k + 1].op # "build"

ConfigInv ==
  /\ config \in Configs
  /\ todo = [r \in Ranks |-> todo[r]] /\ levels = [r \in Ranks |-> levels[r]]

ListInv == \A r \in Ranks : IsSeq(todo[r]) /\ WellFormed(todo[r])

LevelsInv == \A r, q \in Ranks : levels[r] \in Nat /\ levels[r] = levels[q]

\* The ranks have the same before them, whoever has built already.
LockstepInv ==
  \A r, q \in Ranks :
     IF Builds(r) <=> Builds(q) THEN SameOps(todo[r], todo[q])
     ELSE SameOps(Afterwards(r), Afterwards(q))

\* The inductive invariant.
LInv == ConfigInv /\ ListInv /\ LevelsInv /\ LockstepInv

-----------------------------------------------------------------------------
(* Arithmetic. *)

\* The quotient of two natural numbers is one.
LEMMA DivNat == ASSUME NEW a \in Nat, NEW b \in Nat \ {0} PROVE a \div b \in Nat
OBVIOUS

\* Division with remainder.
LEMMA DivAtMost == ASSUME NEW a \in Nat, NEW b \in Nat \ {0} PROVE (a \div b) * b <= a /\ a < (a \div b) * b + b
OBVIOUS

\* Rounding up covers the dividend.
LEMMA CeilDivCovers ==
  ASSUME NEW n \in Nat, NEW m \in Nat \ {0}
  PROVE  CeilDiv(n, m) \in Nat /\ CeilDiv(n, m) * m - n \in Nat
<1> DEFINE a == n + m - 1
<1>1. a \in Nat
  OBVIOUS
<1>2. a \div m \in Nat /\ a < (a \div m) * m + m
  BY ONLY <1>1, DivNat, DivAtMost, m \in Nat \ {0}
<1>3. (a \div m) * m \in Nat
  BY ONLY <1>2, m \in Nat
<1>4. (a \div m) * m - n \in Nat
  BY <1>2, <1>3
<1> QED BY <1>2, <1>4 DEF CeilDiv

-----------------------------------------------------------------------------
(* How many microbatches there are. *)

\* The whole microbatches of some rows are as many as the division gives.
LEMMA ChunksSeq ==
  ASSUME NEW rows, Len(rows) \in Nat, NEW mbs \in Nat \ {0}
  PROVE  IsSeq(Chunks(rows, mbs)) /\ Len(Chunks(rows, mbs)) = Len(rows) \div mbs
<1> DEFINE n == Len(rows) \div mbs
           f == [k \in 1..n |-> SubSeq(rows, (k - 1) * mbs + 1, k * mbs)]
<1>1. n \in Nat
  BY DivNat
<1>2. f = [k \in 1..n |-> f[k]]
  OBVIOUS
<1>3. Chunks(rows, mbs) = f
  BY DEF Chunks
<1> HIDE DEF f, n
<1>4. IsSeq(f) /\ Len(f) = n
  BY ONLY <1>1, <1>2, FunctionIsSeq
<1> QED BY <1>3, <1>4 DEF n

\* Padding rounds the number of rows up to the multiple.
LEMMA PadSeq ==
  ASSUME NEW rows, IsSeq(rows), NEW multiple \in Nat \ {0}
  PROVE  IsSeq(PadRows(rows, multiple)) /\ Len(PadRows(rows, multiple)) = CeilDiv(Len(rows), multiple) * multiple
<1> DEFINE n == CeilDiv(Len(rows), multiple) * multiple - Len(rows)
           f == [k \in 1..n |-> [Last(rows) EXCEPT !.view.score = {}]]
<1>1. n \in Nat /\ Len(rows) \in Nat /\ CeilDiv(Len(rows), multiple) \in Nat
  BY CeilDivCovers DEF IsSeq
<1>2. f = [k \in 1..n |-> f[k]]
  OBVIOUS
<1>3. PadRows(rows, multiple) = rows \o f
  BY DEF PadRows
<1>4. n + Len(rows) = CeilDiv(Len(rows), multiple) * multiple
  <2>1. CeilDiv(Len(rows), multiple) * multiple \in Nat
    BY ONLY <1>1, multiple \in Nat
  <2> QED BY ONLY <1>1, <2>1
<1> HIDE DEF f, n
<1>5. IsSeq(f) /\ Len(f) = n
  BY ONLY <1>1, <1>2, FunctionIsSeq
<1>6. IsSeq(rows \o f) /\ Len(rows \o f) = Len(rows) + Len(f)
  BY ONLY <1>5, ConcatSeq, IsSeq(rows)
<1> QED BY ONLY <1>1, <1>3, <1>4, <1>5, <1>6

\* Chunks of each level in turn: as many for lists of levels of the same sizes.
LEMMA LevelMajorSeq ==
  ASSUME NEW rows, IsSeq(rows), \A l \in 1..Len(rows) : IsSeq(rows[l]), NEW mbs \in Nat \ {0}
  PROVE  IsSeq(LevelMajor(rows, mbs))
<1> DEFINE f == [l \in DOMAIN rows |-> Chunks(rows[l], mbs)]
<1>1. DOMAIN rows = 1..Len(rows) /\ Len(rows) \in Nat
  BY DEF IsSeq
<1>2. f = [l \in 1..Len(rows) |-> f[l]]
  BY <1>1
<1>3. \A l \in 1..Len(rows) : IsSeq(f[l])
  BY <1>1, ChunksSeq DEF IsSeq
<1>4. LevelMajor(rows, mbs) = FlattenSeq(f)
  BY DEF LevelMajor
<1> HIDE DEF f
<1>5. IsSeq(f) /\ Len(f) = Len(rows)
  BY ONLY <1>1, <1>2, FunctionIsSeq
<1> QED BY ONLY <1>3, <1>4, <1>5, FlattenIsSeq

\* Level-major lists of microbatches of as many rows are as long.
LEMMA LevelMajorLength ==
  ASSUME NEW rows, NEW cols, IsSeq(rows), IsSeq(cols), Len(rows) = Len(cols),
         \A l \in 1..Len(rows) : IsSeq(rows[l]) /\ IsSeq(cols[l]) /\ Len(rows[l]) = Len(cols[l]),
         NEW mbs \in Nat \ {0}
  PROVE  Len(LevelMajor(rows, mbs)) = Len(LevelMajor(cols, mbs))
<1> DEFINE f == [l \in DOMAIN rows |-> Chunks(rows[l], mbs)]
           g == [l \in DOMAIN cols |-> Chunks(cols[l], mbs)]
<1>1. DOMAIN rows = 1..Len(rows) /\ Len(rows) \in Nat /\ DOMAIN cols = 1..Len(rows)
  BY DEF IsSeq
<1>2. f = [l \in 1..Len(rows) |-> f[l]] /\ g = [l \in 1..Len(rows) |-> g[l]]
  BY <1>1
<1>3. \A l \in 1..Len(rows) : IsSeq(f[l]) /\ IsSeq(g[l]) /\ Len(f[l]) = Len(g[l])
  <2> SUFFICES ASSUME NEW l \in 1..Len(rows) PROVE IsSeq(f[l]) /\ IsSeq(g[l]) /\ Len(f[l]) = Len(g[l])
    OBVIOUS
  <2>1. Len(rows[l]) \in Nat /\ Len(cols[l]) = Len(rows[l])
    BY DEF IsSeq
  <2>2. IsSeq(Chunks(rows[l], mbs)) /\ Len(Chunks(rows[l], mbs)) = Len(rows[l]) \div mbs
    BY ONLY <2>1, ChunksSeq, mbs \in Nat \ {0}
  <2>3. IsSeq(Chunks(cols[l], mbs)) /\ Len(Chunks(cols[l], mbs)) = Len(cols[l]) \div mbs
    BY ONLY <2>1, ChunksSeq, mbs \in Nat \ {0}
  <2>4. f[l] = Chunks(rows[l], mbs) /\ g[l] = Chunks(cols[l], mbs)
    BY <1>1
  <2> HIDE DEF f, g
  <2> QED BY ONLY <2>1, <2>2, <2>3, <2>4
<1>4. LevelMajor(rows, mbs) = FlattenSeq(f) /\ LevelMajor(cols, mbs) = FlattenSeq(g)
  BY DEF LevelMajor
<1> HIDE DEF f, g
<1>5. IsSeq(f) /\ Len(f) = Len(rows) /\ IsSeq(g) /\ Len(g) = Len(rows)
  BY ONLY <1>1, <1>2, FunctionIsSeq
<1>6. \A l \in 1..Len(f) : IsSeq(f[l]) /\ IsSeq(g[l]) /\ Len(f[l]) = Len(g[l])
  BY ONLY <1>3, <1>5
<1> QED BY ONLY <1>4, <1>5, <1>6, FlattenLength

\* A sample-major list has size over group microbatches.
LEMMA SampleMajorSeq ==
  ASSUME NEW rows, NEW size \in Nat, NEW group \in Nat \ {0}
  PROVE  IsSeq(SampleMajor(rows, size, group)) /\ Len(SampleMajor(rows, size, group)) = size \div group
<1> DEFINE f == SampleMajor(rows, size, group)
           n == size \div group
<1>1. n \in Nat
  BY DivNat
<1>2. f = [k \in 1..n |-> f[k]]
  BY DEF SampleMajor
<1> HIDE DEF f, n
<1>3. IsSeq(f) /\ Len(f) = n
  BY ONLY <1>1, <1>2, FunctionIsSeq
<1> QED BY <1>3 DEF f, n

\* What an invariant state knows of its configuration.
LEMMA Configured ==
  ASSUME ConfigInv
  PROVE  IsConfig(config) /\ IsEstimator(Estimator) /\ config.microBatch \in Nat \ {0}
         /\ config.dp \in Nat \ {0} /\ config.gbs \in Nat \ {0}
         /\ Len(config.replies) \in Nat \ {0} /\ Rows = 1..Len(config.replies)
         /\ \A s \in Rows : Reply(s).len \in Nat
<1>1. IsConfig(config)
  BY DiffusionAssumption DEF ConfigInv
<1>2. \A s \in Rows : Reply(s).len \in Nat
  BY <1>1 DEF IsConfig, IsReply, Reply, Rows, Empty
<1> QED BY <1>1, <1>2 DEF IsConfig, Estimator, Rows

\* The views of a leftmost row, and the rows themselves.
LEMMA LeftmostSeq ==
  ASSUME ConfigInv, Estimator.type = "just", NEW rows \in Seq(Rows)
  PROVE  IsSeq(LeftmostRows(rows))
<1> DEFINE length(k) == IF Estimator.schedule = "sparse" THEN Reply(rows[k]).len ELSE Estimator.window
           row(k, p) == [of |-> rows[k], at |-> k, view |-> LeftmostViews(Estimator, Reply(rows[k]))[p]]
           f == [k \in DOMAIN rows |-> [p \in 1..length(k) |-> row(k, p)]]
<1>1. \A k \in DOMAIN rows : length(k) \in Nat /\ DOMAIN LeftmostViews(Estimator, Reply(rows[k])) = 1..length(k)
  BY Configured DEF IsEstimator, LeftmostViews
<1>2. LeftmostRows(rows) = FlattenSeq(f)
  <2>1. LeftmostRows(rows) =
          FlattenSeq([k \in DOMAIN rows |-> [p \in DOMAIN LeftmostViews(Estimator, Reply(rows[k])) |-> row(k, p)]])
    BY DEF LeftmostRows
  <2>2. \A k \in DOMAIN rows :
           [p \in DOMAIN LeftmostViews(Estimator, Reply(rows[k])) |-> row(k, p)] = [p \in 1..length(k) |-> row(k, p)]
    BY <1>1
  <2> QED BY ONLY <2>1, <2>2
<1>3. DOMAIN rows = 1..Len(rows) /\ Len(rows) \in Nat
  OBVIOUS
<1>4. \A k \in 1..Len(rows) : IsSeq(f[k])
  <2> SUFFICES ASSUME NEW k \in 1..Len(rows) PROVE IsSeq(f[k])
    OBVIOUS
  <2> DEFINE g == [p \in 1..length(k) |-> row(k, p)]
  <2>1. f[k] = g /\ g = [p \in 1..length(k) |-> g[p]] /\ length(k) \in Nat
    BY <1>1, <1>3
  <2> HIDE DEF g, f, length
  <2> QED BY ONLY <2>1, FunctionIsSeq
<1>5. f = [k \in 1..Len(rows) |-> f[k]]
  BY <1>3
<1> HIDE DEF f
<1>6. IsSeq(f) /\ Len(f) = Len(rows)
  BY ONLY <1>3, <1>5, FunctionIsSeq
<1> QED BY ONLY <1>2, <1>4, <1>6, FlattenIsSeq

\* With a fixed window, every sample has as many.
LEMMA LeftmostLength ==
  ASSUME ConfigInv, Estimator.type = "just", Estimator.schedule # "sparse",
         NEW rows \in Seq(Rows), NEW cols \in Seq(Rows), Len(rows) = Len(cols)
  PROVE  Len(LeftmostRows(rows)) = Len(LeftmostRows(cols))
<1> DEFINE row(list, k, p) == [of |-> list[k], at |-> k, view |-> LeftmostViews(Estimator, Reply(list[k]))[p]]
           f(list) == [k \in DOMAIN list |-> [p \in 1..Estimator.window |-> row(list, k, p)]]
<1>1. Estimator.window \in Nat
  BY Configured DEF IsEstimator
<1>2. ASSUME NEW list \in Seq(Rows)
      PROVE  /\ LeftmostRows(list) = FlattenSeq(f(list))
             /\ IsSeq(f(list)) /\ Len(f(list)) = Len(list)
             /\ \A k \in 1..Len(list) : IsSeq(f(list)[k]) /\ Len(f(list)[k]) = Estimator.window
  <2>1. LeftmostRows(list) = FlattenSeq(f(list))
    <3>1. \A k \in DOMAIN list : DOMAIN LeftmostViews(Estimator, Reply(list[k])) = 1..Estimator.window
      BY DEF LeftmostViews
    <3>2. LeftmostRows(list) =
            FlattenSeq([k \in DOMAIN list |-> [p \in DOMAIN LeftmostViews(Estimator, Reply(list[k])) |-> row(list, k, p)]])
      BY DEF LeftmostRows
    <3>3. \A k \in DOMAIN list :
             [p \in DOMAIN LeftmostViews(Estimator, Reply(list[k])) |-> row(list, k, p)] = [p \in 1..Estimator.window |-> row(list, k, p)]
      BY <3>1
    <3> QED BY ONLY <3>2, <3>3
  <2>2. DOMAIN list = 1..Len(list) /\ Len(list) \in Nat
    OBVIOUS
  <2>3. ASSUME NEW k \in 1..Len(list) PROVE IsSeq(f(list)[k]) /\ Len(f(list)[k]) = Estimator.window
    <3> DEFINE g == [p \in 1..Estimator.window |-> row(list, k, p)]
    <3>1. f(list)[k] = g /\ g = [p \in 1..Estimator.window |-> g[p]]
      BY <2>2
    <3> HIDE DEF g, f
    <3> QED BY ONLY <3>1, <1>1, FunctionIsSeq
  <2>4. f(list) = [k \in 1..Len(list) |-> f(list)[k]]
    BY <2>2
  <2> HIDE DEF f
  <2> QED BY ONLY <2>1, <2>2, <2>3, <2>4, FunctionIsSeq
<1> HIDE DEF f
<1>3. /\ LeftmostRows(rows) = FlattenSeq(f(rows))
      /\ IsSeq(f(rows)) /\ Len(f(rows)) = Len(rows)
      /\ \A k \in 1..Len(rows) : IsSeq(f(rows)[k]) /\ Len(f(rows)[k]) = Estimator.window
  BY ONLY <1>2, rows \in Seq(Rows)
<1>4. /\ LeftmostRows(cols) = FlattenSeq(f(cols))
      /\ IsSeq(f(cols)) /\ Len(f(cols)) = Len(rows)
      /\ \A k \in 1..Len(rows) : IsSeq(f(cols)[k]) /\ Len(f(cols)[k]) = Estimator.window
  BY ONLY <1>2, cols \in Seq(Rows), Len(rows) = Len(cols)
<1> QED BY ONLY <1>3, <1>4, FlattenLength

\* The levels a rank builds for are a natural number.
LEMMA LevelsAreNat ==
  ASSUME ConfigInv, LevelsInv, NEW r \in Ranks, Estimator.type # "just"
  PROVE  LevelsOf(r) \in Nat
<1>1. levels[r] \in Nat
  BY DEF LevelsInv
<1>2. IsEstimator(Estimator)
  BY Configured
<1>3. CASE Estimator.type = "trace"
  BY <1>1, <1>3 DEF LevelsOf
<1>4. CASE Estimator.type = "sampled"
  BY <1>1, <1>2, <1>4 DEF LevelsOf, IsEstimator
<1>5. CASE Estimator.type = "block"
  <2>1. Estimator.width \in Nat \ {0} /\ BlockSize \in Nat
    BY <1>2, <1>5, RevealAssumption DEF IsEstimator
  <2>2. CeilDiv(BlockSize, Estimator.width) \in Nat
    BY ONLY <2>1, CeilDivCovers
  <2> QED BY <1>5, <2>2 DEF LevelsOf, LevelCount, BlockLevels
<1>6. CASE Estimator.type = "fast"
  BY <1>2, <1>6 DEF LevelsOf, IsEstimator, LevelCount
<1>7. CASE Estimator.type \in {"coupled", "espo"}
  <2>1. Estimator.pairs \in Nat
    BY <1>2, <1>7 DEF IsEstimator
  <2>2. LevelsOf(r) = 2 * Estimator.pairs
    BY <1>7 DEF LevelsOf, LevelCount
  <2> QED BY ONLY <2>1, <2>2
<1>8. CASE Estimator.type = "diffu"
  BY <1>8 DEF LevelsOf, LevelCount
<1> QED BY <1>2, <1>3, <1>4, <1>5, <1>6, <1>7, <1>8 DEF IsEstimator

\* The rows of each level of a batch.
RowsAtLevels(rows, r) == [l \in 1..LevelsOf(r) |-> [k \in DOMAIN rows |-> RowOf(rows, k, l - 1)]]

\* For every level a rank takes each of its rows once.
LEMMA AtLevelsSeq ==
  ASSUME ConfigInv, LevelsInv, NEW r \in Ranks, Estimator.type # "just", NEW rows \in Seq(Rows)
  PROVE  /\ IsSeq(RowsAtLevels(rows, r)) /\ Len(RowsAtLevels(rows, r)) = LevelsOf(r)
         /\ \A l \in 1..LevelsOf(r) : IsSeq(RowsAtLevels(rows, r)[l]) /\ Len(RowsAtLevels(rows, r)[l]) = Len(rows)
<1> DEFINE f == RowsAtLevels(rows, r)
<1>1. LevelsOf(r) \in Nat /\ DOMAIN rows = 1..Len(rows) /\ Len(rows) \in Nat
  BY LevelsAreNat
<1>2. f = [l \in 1..LevelsOf(r) |-> f[l]]
  BY DEF RowsAtLevels
<1>3. ASSUME NEW l \in 1..LevelsOf(r) PROVE IsSeq(f[l]) /\ Len(f[l]) = Len(rows)
  <2> DEFINE g == [k \in 1..Len(rows) |-> RowOf(rows, k, l - 1)]
  <2>1. f[l] = g /\ g = [k \in 1..Len(rows) |-> g[k]]
    BY <1>1 DEF RowsAtLevels
  <2> HIDE DEF f, g
  <2> QED BY ONLY <1>1, <2>1, FunctionIsSeq
<1> HIDE DEF f
<1>4. IsSeq(f) /\ Len(f) = LevelsOf(r)
  BY ONLY <1>1, <1>2, FunctionIsSeq
<1> QED BY <1>3, <1>4 DEF f

\* How many microbatches there are of some rows, if all ranks build as many.
LEMMA MicrobatchesSeq ==
  ASSUME ConfigInv, LevelsInv, NEW r \in Ranks, NEW rows \in Seq(Rows)
  PROVE  IsSeq(Microbatches(rows, r))
<1>1. IsEstimator(Estimator) /\ config.microBatch \in Nat \ {0} /\ Len(rows) \in Nat
  BY Configured
<1>2. CASE Estimator.type = "just"
  <2> DEFINE own == LeftmostRows(rows)
             multiple == IF pc = "train" THEN Estimator.trainMultiple ELSE Estimator.multiple
  <2>1. Microbatches(rows, r) = IF own = <<>> THEN <<>> ELSE Chunks(PadRows(own, multiple), multiple)
    BY <1>2 DEF Microbatches, LeftmostMicrobatches
  <2>2. IsSeq(own) /\ multiple \in Nat \ {0}
    BY <1>1, <1>2, LeftmostSeq DEF IsEstimator
  <2> HIDE DEF own, multiple
  <2>3. Len(PadRows(own, multiple)) \in Nat
    BY ONLY <2>2, PadSeq DEF IsSeq
  <2>4. IsSeq(Chunks(PadRows(own, multiple), multiple))
    BY ONLY <2>2, <2>3, ChunksSeq
  <2> QED BY ONLY <2>1, <2>4, EmptyIsSeq
<1>3. CASE Estimator.type # "just" /\ IsSampleMajor
  <2>1. Microbatches(rows, r) = SampleMajor(RowsAtLevels(rows, r), Len(rows), Estimator.group)
    BY <1>3 DEF Microbatches, RowsAtLevels
  <2>2. Estimator.group \in Nat \ {0}
    BY <1>1, <1>3 DEF IsEstimator, IsSampleMajor
  <2> QED BY ONLY <1>1, <2>1, <2>2, SampleMajorSeq
<1>4. CASE Estimator.type # "just" /\ ~IsSampleMajor
  <2>1. Microbatches(rows, r) = LevelMajor(RowsAtLevels(rows, r), config.microBatch)
    BY <1>4 DEF Microbatches, RowsAtLevels
  <2>2. /\ IsSeq(RowsAtLevels(rows, r)) 
        /\ \A l \in 1..Len(RowsAtLevels(rows, r)) : IsSeq(RowsAtLevels(rows, r)[l])
    BY <1>4, AtLevelsSeq
  <2> QED BY ONLY <1>1, <2>1, <2>2, LevelMajorSeq
<1> QED BY ONLY <1>2, <1>3, <1>4

\* Two ranks with as many rows, and the same agreed levels, build as many
\* microbatches, whatever their replies are.
LEMMA MicrobatchesAsMany ==
  ASSUME ConfigInv, LevelsInv, SparseIsAlone, NEW r \in Ranks, NEW q \in Ranks, r # q,
         NEW rows \in Seq(Rows), NEW cols \in Seq(Rows), Len(rows) = Len(cols)
  PROVE  Len(Microbatches(rows, r)) = Len(Microbatches(cols, q))
<1>1. IsEstimator(Estimator) /\ config.microBatch \in Nat \ {0} /\ Len(rows) \in Nat
  BY Configured
<1>2. CASE Estimator.type = "just"
  <2> DEFINE Own(list) == LeftmostRows(list)
             multiple == IF pc = "train" THEN Estimator.trainMultiple ELSE Estimator.multiple
  <2>1. ASSUME NEW list \in Seq(Rows), NEW p \in Ranks
        PROVE  /\ Microbatches(list, p) = IF Own(list) = <<>> THEN <<>> ELSE Chunks(PadRows(Own(list), multiple), multiple)
               /\ IsSeq(Own(list))
    BY <1>2, LeftmostSeq DEF Microbatches, LeftmostMicrobatches
  <2>2. multiple \in Nat \ {0}
    BY <1>1, <1>2 DEF IsEstimator
  <2>3. Estimator.schedule # "sparse"
    <3>1. config.dp # 1
      BY DEF Ranks
    <3> QED BY <3>1, <1>2 DEF SparseIsAlone, ConfigInv, Estimator
  <2>4. Len(Own(rows)) = Len(Own(cols))
    BY <1>2, <2>3, LeftmostLength
  <2> HIDE DEF Own, multiple
  <2>5. ASSUME NEW list \in Seq(Rows), NEW p \in Ranks
        PROVE  Len(Microbatches(list, p)) = IF Len(Own(list)) = 0 THEN 0 ELSE (CeilDiv(Len(Own(list)), multiple) * multiple) \div multiple
    <3>1. IsSeq(Own(list))
      BY ONLY <2>1, <2>5
    <3>2. IsSeq(PadRows(Own(list), multiple)) /\ Len(PadRows(Own(list), multiple)) = CeilDiv(Len(Own(list)), multiple) * multiple
      BY ONLY <2>2, <3>1, PadSeq
    <3>3. Len(PadRows(Own(list), multiple)) \in Nat
      BY ONLY <3>2 DEF IsSeq
    <3>4. Len(Chunks(PadRows(Own(list), multiple), multiple)) = Len(PadRows(Own(list), multiple)) \div multiple
      BY ONLY <2>2, <3>3, ChunksSeq
    <3>5. Own(list) = <<>> <=> Len(Own(list)) = 0
      BY ONLY <3>1, NoneIsEmpty
    <3>6. Microbatches(list, p) = IF Own(list) = <<>> THEN <<>> ELSE Chunks(PadRows(Own(list), multiple), multiple)
      BY ONLY <2>1, <2>5
    <3> QED BY ONLY <3>2, <3>4, <3>5, <3>6, EmptyIsSeq
  <2> QED BY ONLY <2>4, <2>5, rows \in Seq(Rows), cols \in Seq(Rows), r \in Ranks, q \in Ranks
<1>3. CASE Estimator.type # "just" /\ IsSampleMajor
  <2>1. /\ Microbatches(rows, r) = SampleMajor(RowsAtLevels(rows, r), Len(rows), Estimator.group)
        /\ Microbatches(cols, q) = SampleMajor(RowsAtLevels(cols, q), Len(rows), Estimator.group)
    BY <1>3 DEF Microbatches, RowsAtLevels
  <2>2. Estimator.group \in Nat \ {0}
    BY <1>1, <1>3 DEF IsEstimator, IsSampleMajor
  <2> QED BY ONLY <1>1, <2>1, <2>2, SampleMajorSeq
<1>4. CASE Estimator.type # "just" /\ ~IsSampleMajor
  <2>1. /\ Microbatches(rows, r) = LevelMajor(RowsAtLevels(rows, r), config.microBatch)
        /\ Microbatches(cols, q) = LevelMajor(RowsAtLevels(cols, q), config.microBatch)
    BY <1>4 DEF Microbatches, RowsAtLevels
  <2>2. LevelsOf(r) = LevelsOf(q)
    BY DEF LevelsInv, LevelsOf
  <2>3. /\ IsSeq(RowsAtLevels(rows, r)) /\ Len(RowsAtLevels(rows, r)) = LevelsOf(r)
        /\ \A l \in 1..LevelsOf(r) : IsSeq(RowsAtLevels(rows, r)[l]) /\ Len(RowsAtLevels(rows, r)[l]) = Len(rows)
    BY <1>4, AtLevelsSeq
  <2>4. /\ IsSeq(RowsAtLevels(cols, q)) /\ Len(RowsAtLevels(cols, q)) = LevelsOf(q)
        /\ \A l \in 1..LevelsOf(q) : IsSeq(RowsAtLevels(cols, q)[l]) /\ Len(RowsAtLevels(cols, q)[l]) = Len(cols)
    BY <1>4, AtLevelsSeq
  <2>5. Len(RowsAtLevels(rows, r)) = Len(RowsAtLevels(cols, q))
    BY ONLY <2>2, <2>3, <2>4
  <2>6. \A l \in 1..Len(RowsAtLevels(rows, r)) :
           /\ IsSeq(RowsAtLevels(rows, r)[l]) /\ IsSeq(RowsAtLevels(cols, q)[l])
           /\ Len(RowsAtLevels(rows, r)[l]) = Len(RowsAtLevels(cols, q)[l])
    BY ONLY <2>2, <2>3, <2>4, Len(rows) = Len(cols)
  <2>7. Len(LevelMajor(RowsAtLevels(rows, r), config.microBatch)) = Len(LevelMajor(RowsAtLevels(cols, q), config.microBatch))
    BY ONLY <1>1, <2>3, <2>4, <2>5, <2>6, LevelMajorLength
  <2> QED BY ONLY <2>1, <2>7
<1> QED BY ONLY <1>2, <1>3, <1>4

-----------------------------------------------------------------------------
(* The shards, and the batches of a shard. *)

\* Products and quotients.
LEMMA MulMonotone == ASSUME NEW a \in Nat, NEW b \in Nat, NEW c \in Nat, a <= b PROVE a * c <= b * c /\ a * c \in Nat
<1>1. b * c = a * c + (b - a) * c /\ (b - a) * c \in Nat /\ a * c \in Nat
  OBVIOUS
<1> QED BY <1>1

\* Products of natural numbers.
LEMMA MulCommutes == ASSUME NEW a \in Nat, NEW b \in Nat PROVE a * b = b * a /\ a * b \in Nat
OBVIOUS

\* A quotient by something no larger is positive.
LEMMA DivPositive == ASSUME NEW a \in Nat, NEW b \in Nat \ {0}, b <= a PROVE a \div b \in Nat \ {0}
OBVIOUS

\* A number goes into itself once.
LEMMA DivOfItself == ASSUME NEW a \in Nat \ {0} PROVE a \div a = 1
OBVIOUS

\* A multiple is no smaller.
LEMMA MultipleIsLarger == ASSUME NEW a \in Nat \ {0}, NEW b \in Nat \ {0}, a % b = 0 PROVE b <= a
OBVIOUS

\* The sizes that the configuration makes divide each other are positive.
LEMMA Sizes ==
  ASSUME ConfigInv
  PROVE  /\ config.dp <= config.gbs /\ config.gbs <= Len(config.replies)
         /\ config.gbs \div config.dp \in Nat \ {0}
         /\ Len(config.replies) \div config.gbs \in Nat \ {0}
         /\ Len(config.replies) \div config.dp \in Nat \ {0}
<1>1. /\ config.dp \in Nat \ {0} /\ config.microBatch \in Nat \ {0} /\ config.gbs \in Nat \ {0}
      /\ Len(config.replies) \in Nat \ {0}
      /\ Len(config.replies) % config.gbs = 0 /\ config.gbs % (config.dp * config.microBatch) = 0
  BY Configured DEF IsConfig
<1>2. config.dp * config.microBatch \in Nat \ {0} /\ config.dp <= config.dp * config.microBatch
  BY ONLY <1>1
<1>3. config.dp * config.microBatch <= config.gbs
  BY ONLY <1>1, <1>2, MultipleIsLarger
<1>4. config.gbs <= Len(config.replies)
  BY ONLY <1>1, MultipleIsLarger
<1>5. config.dp <= config.gbs /\ config.dp <= Len(config.replies)
  BY ONLY <1>1, <1>2, <1>3, <1>4
<1> QED BY ONLY <1>1, <1>4, <1>5, DivPositive

Numbers == [k \in Rows |-> k]

\* Counting the rows of the batch gives a sequence.
LEMMA NumbersSeq ==
  ASSUME ConfigInv
  PROVE  IsSeq(Numbers) /\ Len(Numbers) = Len(config.replies) /\ \A k \in 1..Len(config.replies) : Numbers[k] = k
<1>1. Rows = 1..Len(config.replies) /\ Len(config.replies) \in Nat
  BY Configured
<1>2. Numbers = [k \in 1..Len(config.replies) |-> Numbers[k]]
  BY <1>1 DEF Numbers
<1>3. \A k \in 1..Len(config.replies) : Numbers[k] = k
  BY <1>1 DEF Numbers
<1> HIDE DEF Numbers
<1> QED BY ONLY <1>1, <1>2, <1>3, FunctionIsSeq

\* A shard has as many rows as any other, all of them rows of the batch.
LEMMA ShardRows ==
  ASSUME ConfigInv, NEW r \in Ranks, NEW B \in Nat \ {0}
  PROVE  /\ PlainShard(Numbers, r, config.dp, B) \in Seq(Rows)
         /\ Len(PlainShard(Numbers, r, config.dp, B)) = (Len(config.replies) \div B) * (B \div config.dp)
<1> DEFINE n == Len(config.replies)
           count == n \div B
           size == B \div config.dp
           Beginning(c) == (c - 1) * B + (r - 1) * size
           f == [c \in 1..count |-> SubSeq(Numbers, Beginning(c) + 1, Beginning(c) + size)]
<1>1. /\ n \in Nat /\ count \in Nat /\ size \in Nat /\ B \in Nat \ {0}
      /\ r \in Nat /\ r >= 1 /\ r <= config.dp /\ config.dp \in Nat \ {0}
  <2>1. n \in Nat /\ config.dp \in Nat \ {0}
    BY Configured
  <2>2. r \in Nat /\ r >= 1 /\ r <= config.dp
    BY <2>1 DEF Ranks
  <2>3. n \div B \in Nat /\ B \div config.dp \in Nat
    BY ONLY <2>1, DivNat, B \in Nat \ {0}
  <2> QED BY <2>1, <2>2, <2>3
<1>2. count * B <= n /\ config.dp * size <= B
  <2>1. (n \div B) * B <= n
    BY ONLY <1>1, DivAtMost
  <2>2. (B \div config.dp) * config.dp <= B
    BY ONLY <1>1, DivAtMost
  <2>3. config.dp * size = size * config.dp
    BY ONLY <1>1, MulCommutes
  <2> QED BY <2>1, <2>2, <2>3
<1>3. PlainShard(Numbers, r, config.dp, B) = FlattenSeq(f)
  <2>1. Len(Numbers) = n
    BY NumbersSeq
  <2> QED BY <2>1 DEF PlainShard
<1>4. f = [c \in 1..count |-> f[c]]
  OBVIOUS
<1>5. ASSUME NEW c \in 1..count PROVE f[c] \in Seq(Rows) /\ IsSeq(f[c]) /\ Len(f[c]) = size
  <2> HIDE DEF n, count, size
  <2>1. /\ (c - 1) * B \in Nat /\ (r - 1) * size \in Nat
        /\ c * B = (c - 1) * B + B /\ r * size = (r - 1) * size + size
    BY ONLY <1>1, c \in 1..count
  <2>2. c * B <= count * B /\ r * size <= config.dp * size
    BY ONLY <1>1, MulMonotone, c \in 1..count
  <2>3. Beginning(c) \in Nat /\ Beginning(c) + size <= n
    <3>1. c * B \in Nat /\ count * B \in Nat /\ r * size \in Nat /\ config.dp * size \in Nat
      BY ONLY <1>1, c \in 1..count
    <3> QED BY ONLY <1>1, <1>2, <2>1, <2>2, <3>1
  <2>4. f[c] = SubSeq(Numbers, Beginning(c) + 1, Beginning(c) + size)
    OBVIOUS
  <2> HIDE DEF Beginning, f
  <2>5. /\ IsSeq(SubSeq(Numbers, Beginning(c) + 1, Beginning(c) + size))
        /\ Len(SubSeq(Numbers, Beginning(c) + 1, Beginning(c) + size)) = (Beginning(c) + size) - (Beginning(c) + 1) + 1
        /\ \A i \in 1..((Beginning(c) + size) - (Beginning(c) + 1) + 1) :
              SubSeq(Numbers, Beginning(c) + 1, Beginning(c) + size)[i] = Numbers[(Beginning(c) + 1) + i - 1]
    <3>1. Beginning(c) + 1 \in Int /\ Beginning(c) + size \in Int /\ Beginning(c) + 1 <= (Beginning(c) + size) + 1
      BY ONLY <1>1, <2>3
    <3> QED BY ONLY <3>1, SubSeqIsSeq
  <2>6. (Beginning(c) + size) - (Beginning(c) + 1) + 1 = size
    BY ONLY <1>1, <2>3
  <2>7. \A i \in 1..size : f[c][i] \in Rows
    <3> SUFFICES ASSUME NEW i \in 1..size PROVE f[c][i] \in Rows
      OBVIOUS
    <3>1. (Beginning(c) + 1) + i - 1 \in 1..n
      BY ONLY <1>1, <2>3, i \in 1..size
    <3>2. f[c][i] = Numbers[(Beginning(c) + 1) + i - 1]
      BY ONLY <2>4, <2>5, <2>6, i \in 1..size
    <3>3. Numbers[(Beginning(c) + 1) + i - 1] \in Rows
      BY <3>1, Configured DEF Numbers, n
    <3> QED BY <3>2, <3>3
  <2>8. IsSeq(f[c]) /\ Len(f[c]) = size
    BY ONLY <2>4, <2>5, <2>6
  <2> QED BY ONLY <2>7, <2>8, IsSeqSeq
<1> HIDE DEF n, count, size, f
<1>6. IsSeq(f) /\ Len(f) = count
  BY ONLY <1>1, <1>4, FunctionIsSeq
<1>7. FlattenSeq(f) \in Seq(Rows)
  BY ONLY <1>5, <1>6, FlattenElements
<1>8. Len(FlattenSeq(f)) = count * size
  BY ONLY <1>1, <1>5, <1>6, FlattenUniform
<1> QED BY <1>3, <1>7, <1>8 DEF n, count, size

\* Every rank gets as many rows of a global batch, all of them of the batch.
LEMMA ShardOf ==
  ASSUME ConfigInv, NEW r \in Ranks, NEW B \in Nat \ {0}
  PROVE  /\ Sharding(B).rows[r] \in Seq(Rows)
         /\ Len(Sharding(B).rows[r]) = (Len(config.replies) \div B) * (B \div config.dp)
<1>1. Sharding(B).rows[r] = PlainShard(Numbers, r, config.dp, B)
  BY DEF Sharding, PlainSharding, Numbers, Ranks
<1> QED BY <1>1, ShardRows

\* The global batches of a shard.
LEMMA BatchRows ==
  ASSUME ConfigInv, NEW r \in Ranks, NEW g \in 1..(Len(config.replies) \div config.gbs)
  PROVE  /\ GetBatch(Sharding(config.gbs), r, g, config.gbs \div config.dp) \in Seq(Rows)
         /\ Len(GetBatch(Sharding(config.gbs), r, g, config.gbs \div config.dp)) = config.gbs \div config.dp
<1> DEFINE rows == Sharding(config.gbs).rows[r]
           count == Len(config.replies) \div config.gbs
           local == config.gbs \div config.dp
<1>1. /\ config.gbs \in Nat \ {0} /\ count \in Nat /\ local \in Nat /\ g \in 1..count
      /\ rows \in Seq(Rows) /\ Len(rows) = count * local
  BY Configured, Sizes, ShardOf
<1>2. GetBatch(Sharding(config.gbs), r, g, local) = SubSeq(rows, (g - 1) * local + 1, g * local)
  BY DEF GetBatch, Sharding, PlainSharding
<1> HIDE DEF rows, count, local
<1>3. /\ (g - 1) * local \in Nat /\ g * local = (g - 1) * local + local /\ g * local <= count * local
  <2>1. g \in Nat /\ g - 1 \in Nat /\ g <= count
    BY ONLY <1>1
  <2>2. (g - 1) * local \in Nat /\ g * local = (g - 1) * local + local
    BY ONLY <1>1, <2>1
  <2>3. g * local <= count * local
    BY ONLY <1>1, <2>1, MulMonotone
  <2> QED BY ONLY <2>2, <2>3
<1>4. PICK from \in Nat, to \in Nat : from = (g - 1) * local /\ to = g * local
  <2>1. g * local \in Nat
    BY ONLY <1>1, <1>3
  <2> QED BY ONLY <1>3, <2>1
<1>5. to = from + local /\ to <= Len(rows)
  BY ONLY <1>1, <1>3, <1>4
<1>6. SubSeq(rows, from + 1, to) \in Seq(Rows) /\ Len(SubSeq(rows, from + 1, to)) = local
  BY ONLY <1>1, <1>5, from \in Nat, to \in Nat
<1>7. GetBatch(Sharding(config.gbs), r, g, local) = SubSeq(rows, from + 1, to)
  BY ONLY <1>2, <1>4
<1> QED BY ONLY <1>6, <1>7 DEF local

-----------------------------------------------------------------------------
(* Lists of operations. *)

\* Doing the same twice.
LEMMA SameOpsConcat ==
  ASSUME NEW a, NEW b, NEW c, NEW d, SameOps(a, b), SameOps(c, d)
  PROVE  SameOps(a \o c, b \o d)
<1> DEFINE R == {<<a[i], b[i]>> : i \in 1..Len(a)} \cup {<<c[i], d[i]>> : i \in 1..Len(c)}
<1>1. \A p \in R : p[1].op = p[2].op /\ Len(p[1].rows) = Len(p[2].rows)
  BY DEF SameOps
<1>2. Alike(a, b, R) /\ Alike(c, d, R)
  BY DEF SameOps, Alike
<1> HIDE DEF R
<1>3. Alike(a \o c, b \o d, R)
  BY ONLY <1>2, ConcatAlike
<1> QED BY <1>1, <1>3 DEF Alike, SameOps

\* Doing the same for every global batch.
LEMMA SameOpsFlatten ==
  ASSUME NEW s, NEW t, IsSeq(s), IsSeq(t), Len(s) = Len(t), \A i \in 1..Len(s) : SameOps(s[i], t[i])
  PROVE  SameOps(FlattenSeq(s), FlattenSeq(t))
<1> DEFINE R == UNION {{<<s[i][j], t[i][j]>> : j \in 1..Len(s[i])} : i \in 1..Len(s)}
<1>1. \A p \in R : p[1].op = p[2].op /\ Len(p[1].rows) = Len(p[2].rows)
  <2> SUFFICES ASSUME NEW p \in R PROVE p[1].op = p[2].op /\ Len(p[1].rows) = Len(p[2].rows)
    OBVIOUS
  <2>1. PICK i \in 1..Len(s) : p \in {<<s[i][j], t[i][j]>> : j \in 1..Len(s[i])}
    OBVIOUS
  <2>2. PICK j \in 1..Len(s[i]) : p = <<s[i][j], t[i][j]>>
    BY <2>1
  <2> HIDE DEF R
  <2> QED BY <2>2 DEF SameOps
<1>2. \A i \in 1..Len(s) : Alike(s[i], t[i], R)
  <2>1. ASSUME NEW i \in 1..Len(s), NEW j \in 1..Len(s[i]) PROVE <<s[i][j], t[i][j]>> \in R
    <3>1. <<s[i][j], t[i][j]>> \in {<<s[i][k], t[i][k]>> : k \in 1..Len(s[i])}
      OBVIOUS
    <3> QED BY <3>1
  <2> HIDE DEF R
  <2> QED BY <2>1 DEF Alike, SameOps
<1>3. Len(s) \in Nat /\ (Len(s) = 0 => s = <<>> /\ t = <<>>)
  BY NoneIsEmpty DEF IsSeq
<1> HIDE DEF R
<1>4. Alike(FlattenSeq(s), FlattenSeq(t), R)
  BY ONLY <1>2, <1>3, Len(s) = Len(t), FlattenAlike
<1> QED BY <1>1, <1>4 DEF Alike, SameOps

\* What is left to do stays the same, and so is the next operation.
LEMMA SameOpsTail ==
  ASSUME NEW a, NEW b, SameOps(a, b), a # <<>>
  PROVE  SameOps(Tail(a), Tail(b)) /\ b # <<>> /\ Head(a).op = Head(b).op /\ Len(Head(a).rows) = Len(Head(b).rows)
<1>1. IsSeq(a) /\ IsSeq(b) /\ b # <<>> /\ Len(a) = Len(b)
  BY NoneIsEmpty DEF SameOps
<1>2. /\ Len(a) > 0 /\ Head(a) = a[1] /\ IsSeq(Tail(a)) /\ Len(Tail(a)) = Len(a) - 1
      /\ \A i \in 1..(Len(a) - 1) : Tail(a)[i] = a[i + 1]
  BY ONLY <1>1, a # <<>>, TailSeq
<1>3. /\ Len(b) > 0 /\ Head(b) = b[1] /\ IsSeq(Tail(b)) /\ Len(Tail(b)) = Len(b) - 1
      /\ \A i \in 1..(Len(b) - 1) : Tail(b)[i] = b[i + 1]
  BY ONLY <1>1, TailSeq
<1>4. Len(a) \in Nat
  BY <1>1 DEF IsSeq
<1>5. \A k \in 1..Len(a) : a[k].op = b[k].op /\ Len(a[k].rows) = Len(b[k].rows)
  BY DEF SameOps
<1>6. ASSUME NEW i \in 1..(Len(a) - 1)
      PROVE Tail(a)[i].op = Tail(b)[i].op /\ Len(Tail(a)[i].rows) = Len(Tail(b)[i].rows)
  <2>1. i + 1 \in 1..Len(a)
    BY <1>4
  <2> QED BY ONLY <1>1, <1>2, <1>3, <1>5, <2>1, i \in 1..(Len(a) - 1)
<1>7. 1 \in 1..Len(a)
  BY ONLY <1>2, <1>4
<1> QED BY ONLY <1>1, <1>2, <1>3, <1>5, <1>6, <1>7 DEF SameOps

\* A list, and two joined, of which the first does not end with a build.
LEMMA WellFormedTail ==
  ASSUME NEW a, IsSeq(a), a # <<>>, WellFormed(a)
  PROVE  WellFormed(Tail(a)) /\ (Head(a).op = "build" /\ Tail(a) # <<>> => Head(Tail(a)).op # "build")
<1>1. /\ Len(a) > 0 /\ Head(a) = a[1] /\ IsSeq(Tail(a)) /\ Len(Tail(a)) = Len(a) - 1
      /\ \A i \in 1..(Len(a) - 1) : Tail(a)[i] = a[i + 1]
  BY TailSeq
<1>2. Len(a) \in Nat
  BY DEF IsSeq
<1>3. \A k \in 1..Len(Tail(a)) :
         Tail(a)[k].op \in {"levels", "build"} => Tail(a)[k].rows \in Seq(Rows) /\ Tail(a)[k].rows # <<>>
  <2> SUFFICES ASSUME NEW k \in 1..Len(Tail(a)), Tail(a)[k].op \in {"levels", "build"}
               PROVE Tail(a)[k].rows \in Seq(Rows) /\ Tail(a)[k].rows # <<>>
    OBVIOUS
  <2>1. k + 1 \in 1..Len(a) /\ Tail(a)[k] = a[k + 1]
    BY <1>1, <1>2
  <2> QED BY <2>1 DEF WellFormed
<1>4. \A k \in 1..(Len(Tail(a)) - 1) : Tail(a)[k].op = "build" => Tail(a)[k + 1].op # "build"
  <2> SUFFICES ASSUME NEW k \in 1..(Len(Tail(a)) - 1), Tail(a)[k].op = "build" PROVE Tail(a)[k + 1].op # "build"
    OBVIOUS
  <2>1. k + 1 \in 1..(Len(a) - 1) /\ Tail(a)[k] = a[k + 1] /\ Tail(a)[k + 1] = a[(k + 1) + 1]
    BY <1>1, <1>2
  <2> QED BY <2>1 DEF WellFormed
<1>5. ASSUME Head(a).op = "build", Tail(a) # <<>> PROVE Head(Tail(a)).op # "build"
  <2>1. Len(Tail(a)) > 0 /\ Head(Tail(a)) = Tail(a)[1]
    BY ONLY <1>1, <1>5, TailSeq
  <2>2. 1 \in 1..(Len(a) - 1)
    BY ONLY <1>1, <1>2, <2>1
  <2>3. Head(Tail(a)) = a[1 + 1]
    BY ONLY <1>1, <2>1, <2>2
  <2> QED BY <1>1, <1>5, <2>2, <2>3 DEF WellFormed
<1> QED BY <1>3, <1>4, <1>5 DEF WellFormed

\* Lists are joined after an operation that is no build.
LEMMA WellFormedConcat ==
  ASSUME NEW a, NEW b, IsSeq(a), IsSeq(b), WellFormed(a), WellFormed(b),
         Len(a) > 0 => a[Len(a)].op # "build"
  PROVE  WellFormed(a \o b)
<1> DEFINE c == a \o b
<1>1. /\ IsSeq(c) /\ Len(c) = Len(a) + Len(b)
      /\ \A i \in 1..Len(a) : c[i] = a[i]
      /\ \A i \in 1..Len(b) : c[Len(a) + i] = b[i]
  BY ConcatSeq
<1>2. Len(a) \in Nat /\ Len(b) \in Nat
  BY DEF IsSeq
<1> HIDE DEF c
<1>3. ASSUME NEW k \in 1..Len(c)
      PROVE  \/ k \in 1..Len(a) /\ c[k] = a[k]
             \/ k - Len(a) \in 1..Len(b) /\ c[k] = b[k - Len(a)]
  <2>1. CASE k <= Len(a)
    BY ONLY <1>1, <1>2, <2>1, k \in 1..Len(c)
  <2>2. CASE k > Len(a)
    <3>1. k - Len(a) \in 1..Len(b) /\ Len(a) + (k - Len(a)) = k
      BY ONLY <1>1, <1>2, <2>2, k \in 1..Len(c)
    <3>2. c[Len(a) + (k - Len(a))] = b[k - Len(a)]
      BY ONLY <1>1, <3>1
    <3> QED BY ONLY <3>1, <3>2
  <2> QED BY ONLY <1>1, <1>2, <2>1, <2>2, k \in 1..Len(c)
<1>4. \A k \in 1..Len(c) : c[k].op \in {"levels", "build"} => c[k].rows \in Seq(Rows) /\ c[k].rows # <<>>
  BY <1>3 DEF WellFormed
<1>5. ASSUME NEW k \in 1..(Len(c) - 1), c[k].op = "build" PROVE c[k + 1].op # "build"
  <2>1. CASE k + 1 <= Len(a)
    <3>1. k \in 1..(Len(a) - 1) /\ k \in 1..Len(a) /\ k + 1 \in 1..Len(a)
      BY ONLY <1>1, <1>2, <2>1, k \in 1..(Len(c) - 1)
    <3>2. c[k] = a[k] /\ c[k + 1] = a[k + 1]
      BY ONLY <1>1, <3>1
    <3> QED BY <1>5, <3>1, <3>2 DEF WellFormed
  <2>2. CASE k = Len(a)
    <3>1. Len(a) > 0 /\ Len(a) \in 1..Len(a)
      BY ONLY <1>1, <1>2, <2>2, k \in 1..(Len(c) - 1)
    <3>2. c[k] = a[Len(a)]
      BY ONLY <1>1, <2>2, <3>1
    <3> QED BY <1>5, <3>1, <3>2
  <2>3. CASE k > Len(a)
    <3>1. /\ k - Len(a) \in 1..(Len(b) - 1) /\ k - Len(a) \in 1..Len(b) /\ (k - Len(a)) + 1 \in 1..Len(b)
          /\ Len(a) + (k - Len(a)) = k /\ Len(a) + ((k - Len(a)) + 1) = k + 1
      BY ONLY <1>1, <1>2, <2>3, k \in 1..(Len(c) - 1)
    <3>2. c[Len(a) + (k - Len(a))] = b[k - Len(a)] /\ c[Len(a) + ((k - Len(a)) + 1)] = b[(k - Len(a)) + 1]
      BY ONLY <1>1, <3>1
    <3>3. c[k] = b[k - Len(a)] /\ c[k + 1] = b[(k - Len(a)) + 1]
      BY ONLY <3>1, <3>2
    <3> QED BY <1>5, <3>1, <3>3 DEF WellFormed
  <2> QED BY ONLY <1>1, <1>2, <2>1, <2>2, <2>3, k \in 1..(Len(c) - 1)
<1> QED BY <1>4, <1>5 DEF WellFormed, c

\* A list that does not end with a build.
Finished(list) == IsSeq(list) /\ WellFormed(list) /\ (Len(list) > 0 => list[Len(list)].op # "build")

\* Finished lists join to a finished one.
LEMMA FinishedConcat ==
  ASSUME NEW a, NEW b, Finished(a), Finished(b)
  PROVE  Finished(a \o b)
<1>1. IsSeq(a) /\ IsSeq(b) /\ Len(a) \in Nat /\ Len(b) \in Nat
  BY DEF Finished, IsSeq
<1> DEFINE c == a \o b
<1>2. /\ IsSeq(c) /\ Len(c) = Len(a) + Len(b)
      /\ \A i \in 1..Len(a) : c[i] = a[i]
      /\ \A i \in 1..Len(b) : c[Len(a) + i] = b[i]
  BY <1>1, ConcatSeq
<1>3. WellFormed(c)
  BY <1>1, WellFormedConcat DEF Finished
<1> HIDE DEF c
<1>4. ASSUME Len(c) > 0 PROVE c[Len(c)].op # "build"
  <2>1. CASE Len(b) > 0
    <3>1. Len(b) \in 1..Len(b)
      BY <1>1, <2>1
    <3>2. c[Len(c)] = b[Len(b)]
      BY ONLY <1>2, <3>1
    <3> QED BY <2>1, <3>2 DEF Finished
  <2>2. CASE Len(b) = 0
    <3>1. Len(c) = Len(a) /\ Len(a) \in 1..Len(a)
      BY ONLY <1>1, <1>2, <1>4, <2>2
    <3>2. c[Len(c)] = a[Len(a)]
      BY ONLY <1>2, <3>1
    <3> QED BY <3>1, <3>2 DEF Finished
  <2> QED BY ONLY <1>1, <2>1, <2>2
<1>5. Finished(c)
  BY <1>2, <1>3, <1>4 DEF Finished
<1> QED BY <1>5 DEF c

\* Nothing to do is finished.
LEMMA FinishedEmpty == Finished(<<>>)
BY EmptyIsSeq DEF Finished, WellFormed

\* A list of one operation.
LEMMA OneOp ==
  ASSUME NEW name, NEW rows, NEW cols, Len(rows) = Len(cols),
         name \in {"levels", "build"} => rows \in Seq(Rows) /\ rows # <<>>
  PROVE  /\ SameOps(<<Op(name, rows)>>, <<Op(name, cols)>>)
         /\ IsSeq(<<Op(name, rows)>>) /\ WellFormed(<<Op(name, rows)>>)
         /\ name # "build" => Finished(<<Op(name, rows)>>)
<1>1. /\ IsSeq(<<Op(name, rows)>>) /\ Len(<<Op(name, rows)>>) = 1 /\ <<Op(name, rows)>>[1] = Op(name, rows)
      /\ IsSeq(<<Op(name, cols)>>) /\ Len(<<Op(name, cols)>>) = 1 /\ <<Op(name, cols)>>[1] = Op(name, cols)
  BY SingleIsSeq
<1>2. Op(name, rows).op = name /\ Op(name, rows).rows = rows /\ Op(name, cols).op = name /\ Op(name, cols).rows = cols
  BY DEF Op
<1>3. SameOps(<<Op(name, rows)>>, <<Op(name, cols)>>)
  BY <1>1, <1>2 DEF SameOps
<1>4. WellFormed(<<Op(name, rows)>>)
  BY <1>1, <1>2 DEF WellFormed
<1> QED BY <1>1, <1>2, <1>3, <1>4 DEF Finished

\* Nothing to do is the same for all.
LEMMA SameOpsEmpty == SameOps(<<>>, <<>>)
BY EmptyIsSeq DEF SameOps

\* Agreeing on the levels is the same operation for as many rows.
LEMMA ReduceLevelsOps ==
  ASSUME NEW rows \in Seq(Rows), NEW cols \in Seq(Rows), Len(rows) = Len(cols), rows # <<>>
  PROVE  SameOps(ReduceLevels(rows), ReduceLevels(cols)) /\ Finished(ReduceLevels(rows))
<1>1. SameOps(<<Op("levels", rows)>>, <<Op("levels", cols)>>) /\ Finished(<<Op("levels", rows)>>)
  BY OneOp
<1> QED BY <1>1, SameOpsEmpty, FinishedEmpty DEF ReduceLevels

\* So is fetching the engine's masks.
LEMMA CorrectionOps ==
  ASSUME NEW rows, NEW cols, Len(rows) = Len(cols)
  PROVE  SameOps(Correction(rows), Correction(cols)) /\ Finished(Correction(rows))
<1>1. SameOps(<<Op("kept", rows)>>, <<Op("kept", cols)>>) /\ Finished(<<Op("kept", rows)>>)
  BY OneOp
<1>2. SameOps(<<Op("after", rows)>>, <<Op("after", cols)>>) /\ Finished(<<Op("after", rows)>>)
  BY OneOp
<1>3. CASE Estimator.type = "fast"
  <2>1. Correction(rows) = <<Op("kept", rows)>> /\ Correction(cols) = <<Op("kept", cols)>>
    BY <1>3 DEF Correction, IsTrace
  <2> QED BY ONLY <1>1, <2>1
<1>4. CASE IsTrace
  <2>1. Correction(rows) = <<Op("after", rows)>> /\ Correction(cols) = <<Op("after", cols)>>
    BY <1>4 DEF Correction, IsTrace
  <2> QED BY ONLY <1>2, <2>1
<1>5. CASE Estimator.type # "fast" /\ ~IsTrace
  <2>1. Correction(rows) = <<>> /\ Correction(cols) = <<>>
    BY <1>5 DEF Correction
  <2> QED BY ONLY <2>1, SameOpsEmpty, FinishedEmpty
<1> QED BY ONLY <1>3, <1>4, <1>5

\* So are a build and its optimizer step.
LEMMA BuildAndStepOps ==
  ASSUME NEW rows \in Seq(Rows), NEW cols \in Seq(Rows), Len(rows) = Len(cols), rows # <<>>
  PROVE  /\ SameOps(<<Op("build", rows), Op("step", rows)>>, <<Op("build", cols), Op("step", cols)>>)
         /\ Finished(<<Op("build", rows), Op("step", rows)>>)
<1>1. SameOps(<<Op("build", rows)>>, <<Op("build", cols)>>) /\ SameOps(<<Op("step", rows)>>, <<Op("step", cols)>>)
  BY OneOp
<1>2. /\ <<Op("build", rows)>> \o <<Op("step", rows)>> = <<Op("build", rows), Op("step", rows)>>
      /\ <<Op("build", cols)>> \o <<Op("step", cols)>> = <<Op("build", cols), Op("step", cols)>>
  BY TwoJoined
<1>3. SameOps(<<Op("build", rows), Op("step", rows)>>, <<Op("build", cols), Op("step", cols)>>)
  <2>1. SameOps(<<Op("build", rows)>> \o <<Op("step", rows)>>, <<Op("build", cols)>> \o <<Op("step", cols)>>)
    BY ONLY <1>1, SameOpsConcat
  <2> QED BY ONLY <1>2, <2>1
<1> DEFINE a == <<Op("build", rows), Op("step", rows)>>
<1>4. IsSeq(a) /\ Len(a) = 2 /\ a[1] = Op("build", rows) /\ a[2] = Op("step", rows)
  BY PairIsSeq
<1> HIDE DEF a
<1>5. a[1].op = "build" /\ a[1].rows = rows /\ a[2].op = "step"
  BY ONLY <1>4 DEF Op
<1>6. Finished(a)
  BY <1>4, <1>5 DEF Finished, WellFormed
<1> QED BY <1>3, <1>6 DEF a

\* The operations of a global batch, of a call.
LEMMA BatchOps ==
  ASSUME NEW rows \in Seq(Rows), NEW cols \in Seq(Rows), Len(rows) = Len(cols), rows # <<>>
  PROVE  SameOps(GlobalBatchOps(rows), GlobalBatchOps(cols)) /\ Finished(GlobalBatchOps(rows)) /\ GlobalBatchOps(rows) # <<>>
<1> DEFINE a1 == <<Op("valid", rows)>>
           a2 == ReduceLevels(rows)
           a3 == Correction(rows)
           a4 == <<Op("build", rows), Op("step", rows)>>
           b1 == <<Op("valid", cols)>>
           b2 == ReduceLevels(cols)
           b3 == Correction(cols)
           b4 == <<Op("build", cols), Op("step", cols)>>
<1>1. SameOps(a1, b1) /\ Finished(a1)
  BY OneOp
<1>2. SameOps(a2, b2) /\ Finished(a2)
  BY ReduceLevelsOps
<1>3. SameOps(a3, b3) /\ Finished(a3)
  BY CorrectionOps
<1>4. SameOps(a4, b4) /\ Finished(a4)
  BY BuildAndStepOps
<1>5. Len(a4) = 2
  BY PairIsSeq
<1>6. GlobalBatchOps(rows) = ((a1 \o a2) \o a3) \o a4 /\ GlobalBatchOps(cols) = ((b1 \o b2) \o b3) \o b4
  BY DEF GlobalBatchOps
<1> HIDE DEF a1, a2, a3, a4, b1, b2, b3, b4
<1>7. SameOps(a1 \o a2, b1 \o b2) /\ Finished(a1 \o a2)
  BY ONLY <1>1, <1>2, SameOpsConcat, FinishedConcat
<1>8. SameOps((a1 \o a2) \o a3, (b1 \o b2) \o b3) /\ Finished((a1 \o a2) \o a3)
  BY ONLY <1>3, <1>7, SameOpsConcat, FinishedConcat
<1>9. SameOps(((a1 \o a2) \o a3) \o a4, ((b1 \o b2) \o b3) \o b4) /\ Finished(((a1 \o a2) \o a3) \o a4)
  BY ONLY <1>4, <1>8, SameOpsConcat, FinishedConcat
<1>10. IsSeq((a1 \o a2) \o a3) /\ IsSeq(a4)
  BY ONLY <1>4, <1>8 DEF Finished
<1>11. Len(((a1 \o a2) \o a3) \o a4) = Len((a1 \o a2) \o a3) + Len(a4) /\ Len((a1 \o a2) \o a3) \in Nat
  BY ONLY <1>10, ConcatSeq DEF IsSeq
<1>12. ((a1 \o a2) \o a3) \o a4 # <<>>
  BY ONLY <1>5, <1>11, EmptyIsSeq
<1> QED BY ONLY <1>6, <1>9, <1>12

\* All ranks start the training with the same list, of as many rows.
LEMMA TrainOpsAlike ==
  ASSUME ConfigInv, NEW r \in Ranks, NEW q \in Ranks
  PROVE  SameOps(TrainOps(Sharding(config.gbs), r), TrainOps(Sharding(config.gbs), q))
         /\ IsSeq(TrainOps(Sharding(config.gbs), r)) /\ WellFormed(TrainOps(Sharding(config.gbs), r))
<1> DEFINE sharding == Sharding(config.gbs)
           count == Len(config.replies) \div config.gbs
           local == config.gbs \div config.dp
           batch(p, g) == GetBatch(sharding, p, g, local)
           f(p) == [g \in 1..count |-> GlobalBatchOps(batch(p, g))]
           a == <<Op("sizes", sharding.rows[r])>>
           b == <<Op("sizes", sharding.rows[q])>>
           e == <<Op("loss", <<>>)>>
<1>1. count \in Nat /\ count > 0 /\ local \in Nat /\ local > 0
  BY Sizes
<1>2. TrainOps(sharding, r) = (a \o FlattenSeq(f(r))) \o e /\ TrainOps(sharding, q) = (b \o FlattenSeq(f(q))) \o e
  BY DEF TrainOps
<1>3. SameOps(a, b) /\ Finished(a)
  <2>1. Len(sharding.rows[r]) = Len(sharding.rows[q])
    BY ShardOf, Configured
  <2> HIDE DEF sharding
  <2> QED BY <2>1, OneOp
<1>4. SameOps(e, e) /\ Finished(e)
  BY OneOp
<1>5. \A p \in Ranks, g \in 1..count : batch(p, g) \in Seq(Rows) /\ Len(batch(p, g)) = local
  BY BatchRows
<1> HIDE DEF sharding, count, local, batch, a, b, e
<1>6. \A g \in 1..count : /\ SameOps(GlobalBatchOps(batch(r, g)), GlobalBatchOps(batch(q, g)))
                          /\ Finished(GlobalBatchOps(batch(r, g)))
  <2> SUFFICES ASSUME NEW g \in 1..count
               PROVE SameOps(GlobalBatchOps(batch(r, g)), GlobalBatchOps(batch(q, g))) /\ Finished(GlobalBatchOps(batch(r, g)))
    OBVIOUS
  <2>1. /\ batch(r, g) \in Seq(Rows) /\ batch(q, g) \in Seq(Rows)
        /\ Len(batch(r, g)) = Len(batch(q, g)) /\ Len(batch(r, g)) > 0
    BY <1>1, <1>5
  <2>2. batch(r, g) # <<>>
    BY ONLY <2>1, EmptyIsSeq
  <2> QED BY ONLY <2>1, <2>2, BatchOps
<1>7. IsSeq(f(r)) /\ Len(f(r)) = count /\ IsSeq(f(q)) /\ Len(f(q)) = count
  <2>1. f(r) = [g \in 1..count |-> f(r)[g]] /\ f(q) = [g \in 1..count |-> f(q)[g]]
    OBVIOUS
  <2> HIDE DEF f
  <2> QED BY ONLY <1>1, <2>1, FunctionIsSeq
<1>8. \A g \in 1..Len(f(r)) : SameOps(f(r)[g], f(q)[g]) /\ Finished(f(r)[g])
  BY <1>6, <1>7
<1> HIDE DEF f
<1>9. SameOps(FlattenSeq(f(r)), FlattenSeq(f(q)))
  BY ONLY <1>7, <1>8, SameOpsFlatten
<1>10. Finished(FlattenSeq(f(r)))
  <2> DEFINE T == UNION {{f(r)[g][k] : k \in 1..Len(f(r)[g])} : g \in 1..Len(f(r))}
             W == {x \in Seq(T) : Finished(x)}
  <2>1. ASSUME NEW g \in 1..Len(f(r)) PROVE f(r)[g] \in W
    <3>1. IsSeq(f(r)[g]) /\ Finished(f(r)[g])
      BY <1>8 DEF Finished
    <3>2. ASSUME NEW k \in 1..Len(f(r)[g]) PROVE f(r)[g][k] \in T
      <4>1. f(r)[g][k] \in {f(r)[g][j] : j \in 1..Len(f(r)[g])}
        OBVIOUS
      <4> QED BY <4>1
    <3> HIDE DEF T
    <3>3. f(r)[g] \in Seq(T)
      BY ONLY <3>1, <3>2, IsSeqSeq
    <3> QED BY <3>1, <3>3
  <2> HIDE DEF T
  <2>2. ASSUME NEW x \in W, NEW y \in W PROVE x \o y \in W
    <3>1. x \in Seq(T) /\ y \in Seq(T) /\ Finished(x) /\ Finished(y)
      OBVIOUS
    <3>2. x \o y \in Seq(T)
      BY ONLY <3>1
    <3>3. Finished(x \o y)
      BY ONLY <3>1, FinishedConcat
    <3> QED BY <3>2, <3>3
  <2>3. Len(f(r)) > 0
    BY ONLY <1>1, <1>7
  <2> HIDE DEF W
  <2>4. FlattenSeq(f(r)) \in W
    BY ONLY <1>7, <2>1, <2>2, <2>3, FlattenClosed
  <2> QED BY <2>4 DEF W
<1>11. SameOps(a \o FlattenSeq(f(r)), b \o FlattenSeq(f(q))) /\ Finished(a \o FlattenSeq(f(r)))
  BY ONLY <1>3, <1>9, <1>10, SameOpsConcat, FinishedConcat
<1>12. /\ SameOps((a \o FlattenSeq(f(r))) \o e, (b \o FlattenSeq(f(q))) \o e)
       /\ Finished((a \o FlattenSeq(f(r))) \o e)
  BY ONLY <1>4, <1>11, SameOpsConcat, FinishedConcat
<1> QED BY <1>2, <1>12 DEF Finished, sharding

\* And each log-probability call.
LEMMA LogprobsOpsAlike ==
  ASSUME NEW rows \in Seq(Rows), NEW cols \in Seq(Rows), Len(rows) = Len(cols), rows # <<>>
  PROVE  SameOps(LogprobsOps(rows), LogprobsOps(cols)) /\ IsSeq(LogprobsOps(rows)) /\ WellFormed(LogprobsOps(rows))
<1> DEFINE a == <<Op("build", rows)>>
           b == <<Op("build", cols)>>
<1>1. SameOps(a, b) /\ IsSeq(a) /\ WellFormed(a)
  BY OneOp
<1>2. SameOps(ReduceLevels(rows), ReduceLevels(cols)) /\ Finished(ReduceLevels(rows))
  BY ReduceLevelsOps
<1>3. LogprobsOps(rows) = ReduceLevels(rows) \o a /\ LogprobsOps(cols) = ReduceLevels(cols) \o b
  BY DEF LogprobsOps
<1> HIDE DEF a, b
<1>4. SameOps(ReduceLevels(rows) \o a, ReduceLevels(cols) \o b)
  BY ONLY <1>1, <1>2, SameOpsConcat
<1>5. IsSeq(ReduceLevels(rows) \o a) /\ WellFormed(ReduceLevels(rows) \o a)
  BY ONLY <1>1, <1>2, WellFormedConcat, ConcatSeq DEF Finished
<1> QED BY ONLY <1>3, <1>4, <1>5

\* All ranks get the same work of a call.
LEMMA CallOpsAlike ==
  ASSUME ConfigInv, NEW name, NEW r \in Ranks, NEW q \in Ranks
  PROVE  SameOps(CallOps(name, r), CallOps(name, q)) /\ IsSeq(CallOps(name, r)) /\ WellFormed(CallOps(name, r))
<1>1. CASE name = "train"
  BY <1>1, TrainOpsAlike DEF CallOps
<1>2. CASE name # "train"
  <2> DEFINE n == Len(config.replies)
             rows == Sharding(n).rows[r]
             cols == Sharding(n).rows[q]
  <2>1. n \in Nat \ {0} /\ n \div n = 1 /\ n \div config.dp \in Nat \ {0}
    BY Configured, Sizes, DivOfItself
  <2>2. rows \in Seq(Rows) /\ cols \in Seq(Rows) /\ Len(rows) = n \div config.dp /\ Len(cols) = n \div config.dp
    <3> HIDE DEF n
    <3>1. \A p \in Ranks : Sharding(n).rows[p] \in Seq(Rows) /\ Len(Sharding(n).rows[p]) = (Len(config.replies) \div n) * (n \div config.dp)
      BY <2>1, ShardOf
    <3>2. (Len(config.replies) \div n) * (n \div config.dp) = n \div config.dp
      <4>1. Len(config.replies) \div n = 1
        BY <2>1 DEF n
      <4>2. PICK m \in Nat : m = n \div config.dp
        BY ONLY <2>1
      <4> QED BY ONLY <4>1, <4>2
    <3> QED BY <3>1, <3>2
  <2>3. CallOps(name, r) = LogprobsOps(rows) /\ CallOps(name, q) = LogprobsOps(cols)
    BY <1>2 DEF CallOps
  <2> HIDE DEF n, rows, cols
  <2>4. rows # <<>>
    BY <2>1, <2>2
  <2> QED BY ONLY <2>2, <2>3, <2>4, LogprobsOpsAlike
<1> QED BY <1>1, <1>2

-----------------------------------------------------------------------------
(* The steps. *)

\* A reply has a natural number of reveal levels.
LEMMA DepthNat == ASSUME ConfigInv, NEW s \in Rows PROVE Depth(Reply(s)) \in Nat
<1>1. Reply(s).len \in Nat
  BY Configured
<1>2. Steps(Reply(s)) = {Reply(s).step[p] : p \in 1..Reply(s).len}
  BY DEF Steps, Tokens
<1>3. IsFiniteSet({Reply(s).step[p] : p \in 1..Reply(s).len})
  BY ONLY <1>1, ElementsFinite
<1> QED BY <1>2, <1>3, FS_CardinalityType DEF Depth

\* So have the rows of a rank together.
LEMMA LocalLevelsNat ==
  ASSUME ConfigInv, NEW r \in Ranks, Current(r).rows \in Seq(Rows), Current(r).rows # <<>>
  PROVE  LocalLevels(r) \in Nat
<1> DEFINE rows == Current(r).rows
           f == [i \in 1..Len(rows) |-> Depth(Reply(rows[i]))]
           T == {f[i] : i \in 1..Len(rows)}
<1>1. rows \in Seq(Rows) /\ Len(rows) \in Nat /\ Len(rows) > 0 /\ DOMAIN rows = 1..Len(rows)
  OBVIOUS
<1>2. LocalLevels(r) = Max({Depth(Reply(s)) : s \in Range(rows)})
  BY DEF LocalLevels
<1> HIDE DEF rows
<1>3. {Depth(Reply(s)) : s \in Range(rows)} = T
  BY <1>1 DEF Range
<1>4. T \subseteq Nat
  BY <1>1, DepthNat
<1>5. f[1] \in T
  BY <1>1
<1> HIDE DEF f
<1>6. IsFiniteSet(T)
  BY ONLY <1>1, ElementsFinite
<1> HIDE DEF T
<1>7. Max(T) \in T
  BY ONLY <1>4, <1>5, <1>6, MaxOf
<1> QED BY <1>2, <1>3, <1>4, <1>7

\* So has the maximum over the ranks over which they all-reduce.
LEMMA AgreedLevelsNat ==
  ASSUME ConfigInv, \A r \in Ranks : Current(r).rows \in Seq(Rows) /\ Current(r).rows # <<>>
  PROVE  Max({LocalLevels(q) : q \in Ranks}) \in Nat
<1> DEFINE f == [q \in 1..config.dp |-> LocalLevels(q)]
           T == {f[q] : q \in 1..config.dp}
<1>1. config.dp \in Nat /\ config.dp > 0 /\ Ranks = 1..config.dp
  BY Configured DEF Ranks
<1>2. {LocalLevels(q) : q \in Ranks} = T
  BY <1>1
<1>3. T \subseteq Nat
  BY <1>1, LocalLevelsNat
<1>4. f[1] \in T
  BY <1>1
<1> HIDE DEF f
<1>5. IsFiniteSet(T)
  BY ONLY <1>1, ElementsFinite
<1> HIDE DEF T
<1>6. Max(T) \in T
  BY ONLY <1>3, <1>4, <1>5, MaxOf
<1> QED BY <1>2, <1>3, <1>6

\* It holds at the start.
LEMMA InitLockstep == Init => LInv
<1> SUFFICES ASSUME Init PROVE LInv
  OBVIOUS
<1>1. ConfigInv
  BY DEF Init, ConfigInv
<1>2. \A r \in Ranks : todo[r] = <<>> /\ levels[r] = 0
  BY DEF Init
<1>3. ListInv
  BY <1>2, FinishedEmpty DEF ListInv, Finished
<1>4. LevelsInv
  BY <1>2 DEF LevelsInv
<1>5. LockstepInv
  BY <1>2, SameOpsEmpty DEF LockstepInv, Builds, Running
<1> QED BY <1>1, <1>3, <1>4, <1>5 DEF LInv

\* A call starts on all ranks.
LEMMA StartKeeps ==
  ASSUME ConfigInv, config' = config, NEW name, Start(name)
  PROVE  LInv'
<1>1. Ranks' = Ranks /\ Rows' = Rows
  BY DEF Ranks, Rows
<1>2. todo' = [r \in Ranks |-> CallOps(name, r)] /\ levels' = [r \in Ranks |-> 0]
  BY DEF Start
<1>3. ConfigInv'
  BY <1>1, <1>2 DEF ConfigInv
<1>4. ListInv'
  <2> SUFFICES ASSUME NEW r \in Ranks PROVE IsSeq(todo'[r]) /\ WellFormed(todo[r])'
    BY <1>1 DEF ListInv
  <2>1. PICK list : list = CallOps(name, r)
    OBVIOUS
  <2>2. IsSeq(list) /\ WellFormed(list) /\ todo'[r] = list
    BY <1>2, <2>1, CallOpsAlike
  <2> QED BY <1>1, <2>2 DEF WellFormed
<1>5. LevelsInv'
  BY <1>1, <1>2 DEF LevelsInv
<1>6. ASSUME NEW r \in Ranks, NEW q \in Ranks
      PROVE  SameOps(todo'[r], todo'[q]) /\ (Builds(r)' <=> Builds(q)')
  <2>1. SameOps(todo'[r], todo'[q])
    BY <1>2, CallOpsAlike
  <2>2. SameOps(todo'[q], todo'[r])
    BY <1>2, CallOpsAlike
  <2>3. Builds(r)' <=> Builds(q)'
    BY <2>1, <2>2, SameOpsTail DEF Builds, Running, Current
  <2> QED BY <2>1, <2>3
<1>7. LockstepInv'
  BY <1>1, <1>6 DEF LockstepInv
<1> QED BY <1>3, <1>4, <1>5, <1>7 DEF LInv

\* Doing the same is symmetric.
LEMMA SameOpsReversed == ASSUME NEW a, NEW b, SameOps(a, b) PROVE SameOps(b, a)
BY DEF SameOps

\* All ranks do an operation together.
LEMMA MeetKeeps ==
  ASSUME LInv, config' = config, NEW op, op # "build", Meet(op), LevelsInv', levels' = [r \in Ranks |-> levels'[r]]
  PROVE  LInv'
<1>1. Ranks' = Ranks /\ Rows' = Rows
  BY DEF Ranks, Rows
<1>2. \A r \in Ranks : todo[r] # <<>> /\ Head(todo[r]).op = op
  BY DEF Meet, Running, Current
<1>3. todo' = [r \in Ranks |-> Tail(todo[r])]
  BY DEF Meet
<1>4. ConfigInv'
  BY <1>1, <1>3 DEF ConfigInv, LInv
<1>5. ListInv'
  <2> SUFFICES ASSUME NEW r \in Ranks PROVE IsSeq(todo'[r]) /\ WellFormed(todo[r])'
    BY <1>1 DEF ListInv
  <2>1. IsSeq(todo[r]) /\ WellFormed(todo[r])
    BY DEF LInv, ListInv
  <2>2. IsSeq(Tail(todo[r])) /\ WellFormed(Tail(todo[r]))
    BY ONLY <1>2, <2>1, TailSeq, WellFormedTail, r \in Ranks
  <2> QED BY <1>1, <1>3, <2>2 DEF WellFormed
<1>6. ASSUME NEW r \in Ranks, NEW q \in Ranks
      PROVE  SameOps(todo'[r], todo'[q]) /\ (Builds(r)' <=> Builds(q)')
  <2>1. SameOps(todo[r], todo[q])
    BY <1>2 DEF LInv, LockstepInv, Builds, Current
  <2>2. SameOps(todo'[r], todo'[q])
    BY <1>2, <1>3, <2>1, SameOpsTail
  <2>3. SameOps(todo'[q], todo'[r])
    BY ONLY <2>2, SameOpsReversed
  <2>4. Builds(r)' <=> Builds(q)'
    BY <2>2, <2>3, SameOpsTail DEF Builds, Running, Current
  <2> QED BY <2>2, <2>4
<1>7. LockstepInv'
  BY <1>1, <1>6 DEF LockstepInv
<1> QED BY <1>4, <1>5, <1>7 DEF LInv

\* The forwards that take the place of a build.
LEMMA ForwardsSeq ==
  ASSUME NEW micros, IsSeq(micros)
  PROVE  /\ IsSeq(Forwards(micros)) /\ Len(Forwards(micros)) = Len(micros) /\ Finished(Forwards(micros))
         /\ \A k \in 1..Len(micros) : Forwards(micros)[k].op = "forward" /\ Len(Forwards(micros)[k].rows) = 0
<1> DEFINE f == Forwards(micros)
<1>1. DOMAIN micros = 1..Len(micros) /\ Len(micros) \in Nat
  BY DEF IsSeq
<1>2. f = [k \in 1..Len(micros) |-> f[k]]
  BY <1>1 DEF Forwards
<1>3. \A k \in 1..Len(micros) : f[k].op = "forward" /\ f[k].rows = <<>>
  BY <1>1 DEF Forwards, Op
<1> HIDE DEF f
<1>4. IsSeq(f) /\ Len(f) = Len(micros)
  BY ONLY <1>1, <1>2, FunctionIsSeq
<1>5. \A k \in 1..Len(micros) : f[k].op = "forward" /\ Len(f[k].rows) = 0
  BY <1>3, EmptyIsSeq
<1>6. Finished(f)
  BY <1>1, <1>3, <1>4 DEF Finished, WellFormed
<1> QED BY <1>4, <1>5, <1>6 DEF f

\* As many microbatches, as many forwards.
LEMMA ForwardsAlike ==
  ASSUME NEW micros, NEW others, IsSeq(micros), IsSeq(others), Len(micros) = Len(others)
  PROVE  SameOps(Forwards(micros), Forwards(others))
BY ForwardsSeq DEF SameOps

\* The list after a build is well formed and does not start with another.
LEMMA BuiltSeq ==
  ASSUME LInv, NEW r \in Ranks, Builds(r)
  PROVE  /\ IsSeq(Built(r)) /\ WellFormed(Built(r))
         /\ Built(r) # <<>> => Head(Built(r)).op # "build"
<1> DEFINE micros == Microbatches(Current(r).rows, r)
           f == Forwards(micros)
           t == Tail(todo[r])
<1>1. IsSeq(todo[r]) /\ todo[r] # <<>> /\ WellFormed(todo[r]) /\ Head(todo[r]).op = "build"
  BY DEF LInv, ListInv, Builds, Running, Current
<1>2. Current(r).rows \in Seq(Rows)
  <2>1. Current(r) = todo[r][1] /\ 1 \in 1..Len(todo[r])
    BY <1>1, TailSeq DEF Current, IsSeq
  <2> QED BY <1>1, <2>1 DEF WellFormed, Current
<1>3. IsSeq(micros)
  BY <1>2, MicrobatchesSeq DEF LInv
<1>4. IsSeq(t) /\ WellFormed(t) /\ (t # <<>> => Head(t).op # "build")
  BY <1>1, TailSeq, WellFormedTail
<1>5. Built(r) = f \o t
  BY DEF Built
<1> HIDE DEF micros, t
<1>6. /\ IsSeq(f) /\ Len(f) = Len(micros) /\ Finished(f)
      /\ \A k \in 1..Len(micros) : f[k].op = "forward"
  BY <1>3, ForwardsSeq
<1> HIDE DEF f
<1>7. IsSeq(f \o t) /\ WellFormed(f \o t)
  BY <1>4, <1>6, WellFormedConcat, ConcatSeq DEF Finished
<1>8. ASSUME f \o t # <<>> PROVE Head(f \o t).op # "build"
  <2>1. /\ Len(f \o t) = Len(f) + Len(t)
        /\ \A i \in 1..Len(f) : (f \o t)[i] = f[i]
        /\ \A i \in 1..Len(t) : (f \o t)[Len(f) + i] = t[i]
    BY ONLY <1>4, <1>6, ConcatSeq
  <2>2. Len(f \o t) > 0 /\ Head(f \o t) = (f \o t)[1]
    BY ONLY <1>7, <1>8, TailSeq
  <2>3. Len(f) \in Nat /\ Len(t) \in Nat
    BY ONLY <1>4, <1>6 DEF IsSeq
  <2>4. CASE Len(f) > 0
    <3>1. 1 \in 1..Len(f)
      BY ONLY <2>3, <2>4
    <3>2. (f \o t)[1] = f[1] /\ f[1].op = "forward"
      BY ONLY <1>6, <2>1, <3>1
    <3> DEFINE h == Head(f \o t)
    <3>3. h = f[1]
      BY ONLY <2>2, <3>2
    <3> HIDE DEF h
    <3>4. h.op = "forward"
      BY ONLY <3>2, <3>3
    <3>5. h.op # "build"
      BY ONLY <3>4
    <3> QED BY ONLY <3>5 DEF h
  <2>5. CASE Len(f) = 0
    <3>1. Len(t) > 0 /\ 1 \in 1..Len(t) /\ Len(f) + 1 = 1
      BY ONLY <2>1, <2>2, <2>3, <2>5
    <3>2. t # <<>>
      BY ONLY <3>1, EmptyIsSeq
    <3>3. Head(t) = t[1]
      BY ONLY <1>4, <3>2, TailSeq
    <3>4. Head(f \o t) = Head(t)
      BY ONLY <2>1, <2>2, <3>1, <3>3
    <3> QED BY ONLY <1>4, <3>2, <3>4
  <2>6. Len(f) > 0 \/ Len(f) = 0
    BY ONLY <2>3
  <2> QED BY <2>4, <2>5, <2>6
<1> QED BY ONLY <1>5, <1>7, <1>8

\* A rank builds its microbatches, as many as any other that has still to do so.
LEMMA BuildKeeps ==
  ASSUME LInv, SparseIsAlone, NEW r \in Ranks, Build(r)
  PROVE  LInv'
<1>1. Ranks' = Ranks /\ Rows' = Rows
  BY DEF Ranks, Rows, Build
<1>2. Builds(r)
  BY DEF Build, Builds
<1>3. todo' = [todo EXCEPT ![r] = Built(r)]
  BY DEF Build, Built, Forwards
<1>4. todo = [p \in Ranks |-> todo[p]]
  BY DEF LInv, ConfigInv
<1>5. todo'[r] = Built(r) /\ \A q \in Ranks : q # r => todo'[q] = todo[q]
  BY <1>3, <1>4
<1>6. ConfigInv'
  BY <1>1, <1>3 DEF ConfigInv, LInv, Build
<1>7. LevelsInv'
  BY <1>1 DEF LevelsInv, LInv, Build
<1>8. /\ IsSeq(Built(r)) /\ WellFormed(Built(r))
      /\ Built(r) # <<>> => Head(Built(r)).op # "build"
  BY <1>2, BuiltSeq
<1>9. ListInv'
  <2> SUFFICES ASSUME NEW q \in Ranks PROVE IsSeq(todo'[q]) /\ WellFormed(todo[q])'
    BY <1>1 DEF ListInv
  <2>1. PICK list : list = todo'[q]
    OBVIOUS
  <2>2. IsSeq(list) /\ WellFormed(list)
    <3>1. CASE q = r
      BY ONLY <1>5, <1>8, <2>1, <3>1
    <3>2. CASE q # r
      BY <1>5, <2>1, <3>2 DEF LInv, ListInv
    <3> QED BY <3>1, <3>2
  <2> QED BY <1>1, <2>1, <2>2 DEF WellFormed
<1>10. ~Builds(r)'
  BY <1>5, <1>8 DEF Builds, Running, Current
<1>11. \A q \in Ranks : q # r => (Builds(q)' <=> Builds(q)) /\ Built(q)' = Built(q) /\ Afterwards(q)' = Afterwards(q)
  <2> SUFFICES ASSUME NEW q \in Ranks, q # r
               PROVE (Builds(q)' <=> Builds(q)) /\ Built(q)' = Built(q) /\ Afterwards(q)' = Afterwards(q)
    OBVIOUS
  <2>1. todo'[q] = todo[q]
    BY <1>5
  <2>2. Current(q)' = Current(q) /\ (Builds(q)' <=> Builds(q))
    BY <2>1 DEF Current, Builds, Running
  <2>3. PICK rows : rows = Current(q).rows
    OBVIOUS
  <2>4. config' = config /\ pc' = pc /\ dropped' = dropped /\ seeds' = seeds /\ levels' = levels
    BY DEF Build
  <2>5. Microbatches(rows, q)' = Microbatches(rows, q)
    BY <2>4 DEF Microbatches, LevelsOf, Estimator, RowOf, Reply, SeedOf, IsSampleMajor, LeftmostMicrobatches, LeftmostRows
  <2>6. Built(q)' = Built(q)
    BY <2>1, <2>2, <2>3, <2>5 DEF Built
  <2> QED BY <2>1, <2>2, <2>6 DEF Afterwards
<1>12. ASSUME NEW q \in Ranks, q # r
       PROVE  IF Builds(q)' THEN SameOps(Built(r), Built(q)) ELSE SameOps(Built(r), todo'[q])
  <2>1. CASE ~Builds(q)
    <3>1. SameOps(Afterwards(r), Afterwards(q))
      BY <1>2, <2>1 DEF LInv, LockstepInv
    <3> QED BY <1>2, <1>5, <1>11, <1>12, <2>1, <3>1 DEF Afterwards
  <2>2. CASE Builds(q)
    <3>1. SameOps(todo[r], todo[q]) /\ todo[r] # <<>>
      BY <1>2, <2>2 DEF LInv, LockstepInv, Builds, Running
    <3>2. SameOps(Tail(todo[r]), Tail(todo[q])) /\ Len(Current(r).rows) = Len(Current(q).rows)
      BY <3>1, SameOpsTail DEF Current
    <3>3. ASSUME NEW p \in Ranks, Builds(p) PROVE Current(p).rows \in Seq(Rows)
      <4>1. IsSeq(todo[p]) /\ todo[p] # <<>> /\ WellFormed(todo[p]) /\ Head(todo[p]).op = "build"
        BY <3>3 DEF LInv, ListInv, Builds, Running, Current
      <4>2. Current(p) = todo[p][1] /\ 1 \in 1..Len(todo[p])
        BY <4>1, TailSeq DEF Current, IsSeq
      <4> QED BY <4>1, <4>2 DEF WellFormed, Current
    <3>4. Current(r).rows \in Seq(Rows) /\ Current(q).rows \in Seq(Rows)
      BY <1>2, <2>2, <3>3
    <3>5. /\ IsSeq(Microbatches(Current(r).rows, r)) /\ IsSeq(Microbatches(Current(q).rows, q))
          /\ Len(Microbatches(Current(r).rows, r)) = Len(Microbatches(Current(q).rows, q))
      BY <1>12, <3>2, <3>4, MicrobatchesSeq, MicrobatchesAsMany DEF LInv
    <3>6. SameOps(Forwards(Microbatches(Current(r).rows, r)), Forwards(Microbatches(Current(q).rows, q)))
      BY ONLY <3>5, ForwardsAlike
    <3>7. SameOps(Built(r), Built(q))
      BY <3>2, <3>6, SameOpsConcat DEF Built
    <3> QED BY <1>11, <1>12, <2>2, <3>7
  <2> QED BY <2>1, <2>2
<1>13. SameOps(Built(r), Built(r))
  BY <1>8 DEF SameOps
<1>14. ASSUME NEW p \in Ranks, NEW q \in Ranks
       PROVE  IF Builds(p)' <=> Builds(q)' THEN SameOps(todo'[p], todo'[q]) ELSE SameOps(Afterwards(p)', Afterwards(q)')
  <2>1. CASE p = r /\ q = r
    BY <1>5, <1>13, <2>1
  <2>2. CASE p = r /\ q # r
    BY <1>5, <1>10, <1>11, <1>12, <2>2 DEF Afterwards
  <2>3. CASE p # r /\ q = r
    BY <1>5, <1>10, <1>11, <1>12, <2>3, SameOpsReversed DEF Afterwards
  <2>4. CASE p # r /\ q # r
    BY <1>5, <1>11, <2>4 DEF LInv, LockstepInv
  <2> QED BY <2>1, <2>2, <2>3, <2>4
<1>15. LockstepInv'
  BY <1>1, <1>14 DEF LockstepInv
<1> QED BY <1>6, <1>7, <1>9, <1>15 DEF LInv

\* Ranks with nothing left to do are in lockstep.
LEMMA EmptyKeeps ==
  ASSUME ConfigInv, LevelsInv, config' = config, levels' = levels, todo' = [r \in Ranks |-> <<>>]
  PROVE  LInv'
<1>1. Ranks' = Ranks /\ Rows' = Rows
  BY DEF Ranks, Rows
<1>2. ConfigInv' /\ LevelsInv'
  BY <1>1 DEF ConfigInv, LevelsInv
<1>3. ListInv'
  <2> SUFFICES ASSUME NEW r \in Ranks PROVE IsSeq(todo'[r]) /\ WellFormed(todo[r])'
    BY <1>1 DEF ListInv
  <2>1. todo'[r] = <<>>
    OBVIOUS
  <2> QED BY <2>1, EmptyIsSeq DEF WellFormed
<1>4. LockstepInv'
  BY <1>1, SameOpsEmpty DEF LockstepInv, Builds, Running
<1> QED BY <1>2, <1>3, <1>4 DEF LInv

\* Counting the levels leaves all ranks with the maximum.
LEMMA CountLevelsKeeps == ASSUME LInv, CountLevels PROVE LInv'
<1>1. Ranks' = Ranks /\ config' = config
  BY DEF Ranks, CountLevels
<1>2. Meet("levels")
  BY DEF CountLevels
<1>3. \A r \in Ranks : Current(r).rows \in Seq(Rows) /\ Current(r).rows # <<>>
  <2> SUFFICES ASSUME NEW r \in Ranks PROVE Current(r).rows \in Seq(Rows) /\ Current(r).rows # <<>>
    OBVIOUS
  <2>1. IsSeq(todo[r]) /\ todo[r] # <<>> /\ WellFormed(todo[r]) /\ Head(todo[r]).op = "levels"
    BY <1>2 DEF LInv, ListInv, Meet, Running, Current
  <2>2. Current(r) = todo[r][1] /\ 1 \in 1..Len(todo[r])
    BY <2>1, TailSeq DEF Current, IsSeq
  <2> QED BY <2>1, <2>2 DEF WellFormed, Current
<1>4. Max({LocalLevels(q) : q \in Ranks}) \in Nat
  BY <1>3, AgreedLevelsNat DEF LInv
<1>5. levels' = [r \in Ranks |-> Max({LocalLevels(q) : q \in Ranks})]
  BY DEF CountLevels
<1>6. LevelsInv' /\ levels' = [r \in Ranks |-> levels'[r]]
  BY <1>1, <1>4, <1>5 DEF LevelsInv
<1> QED BY <1>1, <1>2, <1>6, MeetKeeps

\* Meeting in any other collective takes one operation off every list.
LEMMA OtherMeetKeeps ==
  ASSUME LInv, config' = config, levels' = levels, NEW op, op # "build", Meet(op)
  PROVE  LInv'
<1>1. Ranks' = Ranks
  BY DEF Ranks
<1>2. LevelsInv' /\ levels' = [r \in Ranks |-> levels'[r]]
  BY <1>1 DEF LInv, LevelsInv, ConfigInv
<1> QED BY <1>2, MeetKeeps

\* Every step keeps the invariant.
LEMMA NextLockstep == ASSUME LInv, SparseIsAlone, [Next]_vars PROVE LInv'
<1>1. CASE SetSeeds
  BY <1>1, StartKeeps DEF SetSeeds, LInv
<1>2. CASE TakeLogprobs
  <2>1. CASE config.reference
    BY <1>2, <2>1, StartKeeps DEF TakeLogprobs, LInv
  <2>2. CASE ~config.reference
    <3>1. config' = config /\ todo' = todo /\ levels' = levels
      BY <1>2, <2>2 DEF TakeLogprobs
    <3>2. CallDone
      BY <1>2 DEF TakeLogprobs
    <3>3. todo' = [r \in Ranks |-> <<>>]
      BY <3>1, <3>2 DEF CallDone, Running, LInv, ConfigInv
    <3> QED BY <3>1, <3>3, EmptyKeeps DEF LInv
  <2> QED BY <2>1, <2>2
<1>3. CASE TakeReferenceLogprobs
  <2>1. config' = config /\ todo' = todo /\ levels' = levels /\ CallDone
    BY <1>3 DEF TakeReferenceLogprobs
  <2>2. todo' = [r \in Ranks |-> <<>>]
    BY <2>1 DEF CallDone, Running, LInv, ConfigInv
  <2> QED BY <2>1, <2>2, EmptyKeeps DEF LInv
<1>4. CASE MaskMismatched
  BY <1>4, StartKeeps DEF MaskMismatched, LInv
<1>5. CASE FinishTrain
  <2>1. config' = config /\ todo' = todo /\ levels' = levels /\ CallDone
    BY <1>5 DEF FinishTrain
  <2>2. todo' = [r \in Ranks |-> <<>>]
    BY <2>1 DEF CallDone, Running, LInv, ConfigInv
  <2> QED BY <2>1, <2>2, EmptyKeeps DEF LInv
<1>6. CASE ReduceValid
  BY <1>6, OtherMeetKeeps DEF ReduceValid
<1>7. CASE CountLevels
  BY <1>7, CountLevelsKeeps
<1>8. CASE CorrectValid
  BY <1>8, OtherMeetKeeps DEF CorrectValid
<1>9. CASE Forward
  BY <1>9, OtherMeetKeeps DEF Forward
<1>10. CASE OptimizerStep
  BY <1>10, OtherMeetKeeps DEF OptimizerStep
<1>11. CASE MeetOnly
  BY <1>11, OtherMeetKeeps DEF MeetOnly
<1>12. ASSUME NEW r \in Ranks, Build(r) PROVE LInv'
  BY <1>12, BuildKeeps
<1>13. ASSUME NEW r \in Ranks, BuildFails(r) PROVE LInv'
  BY <1>13, EmptyKeeps DEF BuildFails, LInv
<1>14. CASE UNCHANGED vars
  <2>1. Ranks' = Ranks /\ Rows' = Rows /\ todo' = todo /\ levels' = levels /\ config' = config
    BY <1>14 DEF vars, Ranks, Rows
  <2>2. ConfigInv' /\ LevelsInv' /\ ListInv'
    BY <2>1 DEF LInv, ConfigInv, LevelsInv, ListInv, WellFormed
  <2>3. LockstepInv'
    <3>1. \A r \in Ranks : (Builds(r)' <=> Builds(r)) /\ Afterwards(r)' = Afterwards(r)
      <4> SUFFICES ASSUME NEW r \in Ranks PROVE (Builds(r)' <=> Builds(r)) /\ Afterwards(r)' = Afterwards(r)
        OBVIOUS
      <4>1. Current(r)' = Current(r) /\ (Builds(r)' <=> Builds(r))
        BY <2>1 DEF Current, Builds, Running
      <4>2. PICK rows : rows = Current(r).rows
        OBVIOUS
      <4>3. Microbatches(rows, r)' = Microbatches(rows, r)
        BY <1>14 DEF vars, Microbatches, LevelsOf, Estimator, RowOf, Reply, SeedOf, IsSampleMajor,
              LeftmostMicrobatches, LeftmostRows
      <4> QED BY <2>1, <4>1, <4>2, <4>3 DEF Afterwards, Built
    <3> QED BY <2>1, <3>1 DEF LInv, LockstepInv
  <2> QED BY <2>2, <2>3 DEF LInv
<1>15. CASE Stopped
  BY <1>14, <1>15 DEF Stopped
<1> QED BY <1>1, <1>2, <1>3, <1>4, <1>5, <1>6, <1>7, <1>8, <1>9, <1>10, <1>11, <1>12, <1>13, <1>14, <1>15
        DEF Next, WorkerStep

\* And it is what RanksMeet asks.
LEMMA LockstepMeets == LInv => RanksMeet
<1> SUFFICES ASSUME LInv, ~CallDone, ~\E r \in Ranks : Running(r) /\ Current(r).op = "build",
                    NEW r \in Ranks, NEW q \in Ranks
             PROVE  Running(r) /\ Current(r).op = Current(q).op
  BY DEF RanksMeet
<1>1. \A p \in Ranks : ~Builds(p)
  BY DEF Builds
<1>2. PICK p \in Ranks : Running(p)
  BY DEF CallDone
<1>3. SameOps(todo[p], todo[r]) /\ SameOps(todo[r], todo[q])
  BY <1>1 DEF LInv, LockstepInv
<1>4. todo[p] # <<>>
  BY <1>2 DEF Running
<1>5. todo[r] # <<>>
  BY ONLY <1>3, <1>4, SameOpsTail
<1>6. Head(todo[r]).op = Head(todo[q]).op
  BY ONLY <1>3, <1>5, SameOpsTail
<1> QED BY <1>5, <1>6 DEF Running, Current

\* The data-parallel ranks run the same number of forwards and meet in every
\* collective: for every number of ranks, samples and levels, and every length and
\* depth of the replies.
THEOREM RanksAlwaysMeet ==
  ASSUME SparseIsAlone
  PROVE  Spec => []RanksMeet
<1>1. Init => LInv
  BY InitLockstep
<1>2. LInv /\ [Next]_vars => LInv'
  BY NextLockstep
<1>3. LInv => RanksMeet
  BY LockstepMeets
<1> QED BY <1>1, <1>2, <1>3, PTL DEF Spec
=============================================================================
