--------------------------- MODULE StepDataProofs ---------------------------
(***************************************************************************)
(* For every configuration: no worker waits in a call of the policy for one*)
(* that is in another operation, or has finished.                          *)
(*                                                                         *)
(* The argument: the workers of a call have programs of the same           *)
(* operations, in the same order (ProgramsSame).  A program depends on the *)
(* number of global batches and on the number of microbatches of each, and *)
(* these on how many rows a shard has, on the sizes of the configuration,  *)
(* and with packed or dynamic batches on how the whole batch was cut: the  *)
(* sharding gives every shard as many rows and as many microbatches,       *)
(* whatever the lengths are (CutsAreEven), so that the dummies of the      *)
(* workers with fewer are never needed.  That the last batch of a          *)
(* validation is filled up makes it one that can be shared out (DataInv).  *)
(* From there on a worker that has done an operation has done it with all  *)
(* who take part in it (InStep), so that one that has done least is ready. *)
(***************************************************************************)
EXTENDS StepDataProperties, ShardingLemmas

-----------------------------------------------------------------------------
(* Sequences of a configuration, and the sizes of a mesh. *)

\* Keeping a sequence does not change it.
LEMMA KeptIsSame == ASSUME NEW s, IsSeq(s) PROVE Kept(s) = s
<1> DEFINE T == {s[i] : i \in 1..Len(s)}
<1>1. s \in Seq(T)
  BY IsSeqSeq
<1> HIDE DEF T
<1> QED BY <1>1 DEF Kept

\* A multiple, divided.
LEMMA MultipleDivided == ASSUME NEW a \in Nat, NEW b \in Nat \ {0} PROVE (a * b) \div b = a
<1>1. PICK x, q : x = a * b /\ q = x \div b
  OBVIOUS
<1>2. x \in Nat
  BY <1>1
<1>3. q \in Nat /\ q * b <= x /\ x < q * b + b
  BY ONLY <1>1, <1>2, b \in Nat \ {0}, Divided
<1>4. ~(q < a)
  <2>1. SUFFICES ASSUME q + 1 <= a PROVE FALSE
    BY <1>3
  <2>2. PICK d \in Nat : a = q + 1 + d
    BY <1>3, <2>1
  <2>3. a * b = q * b + b + d * b /\ d * b \in Nat /\ q * b \in Nat
    BY <1>3, <2>2
  <2> QED BY <1>1, <1>3, <2>3
<1>5. ~(a < q)
  <2>1. SUFFICES ASSUME a + 1 <= q PROVE FALSE
    BY <1>3
  <2>2. PICK d \in Nat : q = a + 1 + d
    BY <1>3, <2>1
  <2>3. q * b = a * b + b + d * b /\ d * b \in Nat /\ a * b \in Nat
    BY <2>2
  <2> QED BY <1>1, <1>3, <2>3
<1> QED BY <1>1, <1>3, <1>4, <1>5

\* The axes of a mesh have workers.
IsAxes(mesh, n) == n \in Nat /\ Len(mesh) = n /\ \A k \in 1..n : mesh[k].size \in Nat \ {0}

\* f[k] is the number of workers on the first k axes.
IsWorldSize(f, mesh, n) ==
  f = [k \in 0..n |-> IF k = 0 THEN 1 ELSE mesh[k].size * f[k - 1]]

\* These numbers exist.
LEMMA WorldSizesExist == ASSUME NEW mesh, NEW n \in Nat PROVE \E f : IsWorldSize(f, mesh, n)
<1> DEFINE S == {k \in Nat : \E f : IsWorldSize(f, mesh, k)}
<1>1. 0 \in S
  <2> DEFINE f == [i \in 0..0 |-> 1]
  <2>1. IsWorldSize(f, mesh, 0)
    BY DEF IsWorldSize
  <2> QED BY <2>1
<1>2. ASSUME NEW k \in Nat, k \in S PROVE k + 1 \in S
  <2>1. PICK f : IsWorldSize(f, mesh, k)
    BY <1>2
  <2> DEFINE g == [i \in 0..(k + 1) |-> IF i = k + 1 THEN mesh[i].size * f[k] ELSE f[i]]
  <2>2. ASSUME NEW i \in 0..(k + 1) PROVE g[i] = IF i = 0 THEN 1 ELSE mesh[i].size * g[i - 1]
    <3>1. CASE i = k + 1
      <4>1. i # 0 /\ i - 1 = k /\ k \in 0..(k + 1) /\ k # k + 1
        BY <3>1
      <4>2. g[i - 1] = f[k] /\ g[i] = mesh[i].size * f[k]
        BY <3>1, <4>1
      <4> HIDE DEF g
      <4> QED BY <4>1, <4>2
    <3>2. CASE i # k + 1
      <4>1. i \in 0..k /\ g[i] = f[i] /\ (i # 0 => g[i - 1] = f[i - 1])
        BY <3>2
      <4>2. f[i] = IF i = 0 THEN 1 ELSE mesh[i].size * f[i - 1]
        BY <2>1, <4>1 DEF IsWorldSize
      <4> HIDE DEF g
      <4> QED BY <4>1, <4>2
    <3> QED BY <3>1, <3>2
  <2>3. g = [i \in 0..(k + 1) |-> g[i]]
    OBVIOUS
  <2> HIDE DEF g
  <2>4. IsWorldSize(g, mesh, k + 1)
    BY <2>2, <2>3 DEF IsWorldSize
  <2> QED BY <2>4
<1> HIDE DEF S
<1>3. n \in S
  BY <1>1, <1>2, Induction
<1> QED BY <1>3 DEF S

\* There are workers on a mesh.
LEMMA WorldSizePositive == ASSUME NEW mesh, NEW n, IsAxes(mesh, n) PROVE WorldSize(mesh) \in Nat \ {0}
<1> DEFINE f == CHOOSE f : f = [k \in 0..Len(mesh) |-> IF k = 0 THEN 1 ELSE mesh[k].size * f[k - 1]]
<1>1. n \in Nat /\ Len(mesh) = n /\ \A k \in 1..n : mesh[k].size \in Nat \ {0}
  BY DEF IsAxes
<1>2. IsWorldSize(f, mesh, n)
  <2>1. \E g : IsWorldSize(g, mesh, n)
    BY ONLY <1>1, WorldSizesExist
  <2>2. f = CHOOSE g : g = [k \in 0..n |-> IF k = 0 THEN 1 ELSE mesh[k].size * g[k - 1]]
    BY <1>1
  <2> HIDE DEF f
  <2> QED BY ONLY <2>1, <2>2 DEF IsWorldSize
<1>3. WorldSize(mesh) = f[n]
  BY <1>1 DEF WorldSize
<1> HIDE DEF f
<1> DEFINE S == {k \in Nat : k \in 0..n => f[k] \in Nat \ {0}}
<1>4. 0 \in S
  BY <1>1, <1>2 DEF IsWorldSize
<1>5. ASSUME NEW k \in Nat, k \in S PROVE k + 1 \in S
  <2>1. SUFFICES ASSUME k + 1 \in 0..n PROVE f[k + 1] \in Nat \ {0}
    OBVIOUS
  <2>2. k \in 0..n /\ k + 1 \in 1..n
    BY <1>1, <2>1
  <2>3. f[k + 1] = mesh[k + 1].size * f[k]
    BY <1>1, <1>2, <2>1, <2>2 DEF IsWorldSize
  <2>4. PICK a \in Nat \ {0}, b \in Nat \ {0} : a = mesh[k + 1].size /\ b = f[k]
    BY <1>1, <1>5, <2>2
  <2>5. a * b \in Nat \ {0}
    OBVIOUS
  <2> QED BY <2>3, <2>4, <2>5
<1> HIDE DEF S
<1>6. n \in S
  BY <1>1, <1>4, <1>5, Induction
<1> QED BY <1>1, <1>3, <1>6 DEF S

-----------------------------------------------------------------------------
(* What holds of the data. *)

\* Where the driver is before there is a batch to compute with.
Early == {"generate", "environment", "async", "evaluate", "texts", "texts_async", "verify", "score"}

\* What holds of the configuration and the batch: it is not empty when something
\* is to be computed of it, and a batch of the validation can be shared out.
DataInv ==
  /\ config \in Configs
  /\ validated \in Nat
  /\ pc \in Early => validated = 0 /\ config.program \notin Offline
  /\ pc \in {"mask"} \cup Calls => IsSeq(batch) /\ Len(batch) > 0
  /\ pc = "validate" => validated > 0
  /\ validated > 0 => \E m \in Nat : Len(batch) = m * config.mesh.dp

\* What the configuration says of the policy that is called.
LEMMA PolicyCalled ==
  ASSUME DataInv
  PROVE  /\ IsConfig(config) /\ Dp \in Nat \ {0} /\ config.mesh.dp \in Nat \ {0}
         /\ {Acting.mesh.pp, Acting.mesh.dp, Acting.mesh.cp, Acting.mesh.tp} \subseteq Nat \ {0}
         /\ Acting.batching \in {"plain", "dynamic", "packed"}
         /\ Acting.worker \in {"dtensor", "automodel", "megatron"}
         /\ pc # "get_topk_logits" => Dp = config.mesh.dp
<1>1. IsConfig(config)
  BY StepAssumption DEF DataInv
<1>2. IsPolicy(config, config) /\ IsPolicy(config.teacher, config)
  BY <1>1 DEF IsConfig
<1>3. CASE pc = "get_topk_logits"
  <2>1. Acting = config.teacher
    BY <1>3 DEF Acting
  <2> QED BY <1>1, <1>2, <1>3, <2>1 DEF IsPolicy, IsMesh, Dp
<1>4. CASE pc # "get_topk_logits"
  <2>1. Acting.mesh = config.mesh /\ Acting.batching = config.batching /\ Acting.worker = config.worker
    BY <1>4 DEF Acting
  <2> QED BY <1>1, <1>2, <2>1 DEF IsPolicy, IsMesh, Dp
<1> QED BY <1>3, <1>4

\* A worker has one of the shards.
LEMMA ShardOfWorker ==
  ASSUME DataInv, NEW w \in Ranks
  PROVE  w \in Nat /\ ShardOf(w) \in 1..Dp
<1>1. {Acting.mesh.pp, Acting.mesh.dp, Acting.mesh.cp, Acting.mesh.tp} \subseteq Nat \ {0} /\ Dp \in Nat \ {0}
  BY PolicyCalled
<1>2. PICK pp \in Nat \ {0}, dp \in Nat \ {0}, cp \in Nat \ {0}, tp \in Nat \ {0} :
         pp = Acting.mesh.pp /\ dp = Acting.mesh.dp /\ cp = Acting.mesh.cp /\ tp = Acting.mesh.tp
  BY <1>1
<1>3. PICK mesh : mesh = Mesh
  OBVIOUS
<1>4. mesh = <<[name |-> "pipeline_parallel", size |-> pp], [name |-> "data_parallel", size |-> dp],
               [name |-> "context_parallel", size |-> cp], [name |-> "tensor_parallel", size |-> tp]>>
  BY <1>2, <1>3 DEF Mesh, PolicyMesh
<1>5. /\ Len(mesh) = 4 /\ DOMAIN mesh = 1..4
      /\ mesh[1].name = "pipeline_parallel" /\ mesh[2].name = "data_parallel"
      /\ mesh[3].name = "context_parallel" /\ mesh[4].name = "tensor_parallel"
      /\ mesh[1].size = pp /\ mesh[2].size = dp /\ mesh[3].size = cp /\ mesh[4].size = tp
  BY <1>4
<1>6. WorldSize(mesh) \in Nat \ {0}
  <2>1. IsAxes(mesh, 4)
    <3>1. \A k \in 1..4 : k = 1 \/ k = 2 \/ k = 3 \/ k = 4
      OBVIOUS
    <3> QED BY <1>5, <3>1 DEF IsAxes
  <2> QED BY ONLY <2>1, WorldSizePositive
<1>7. w \in Nat
  <2>1. w \in 0..(WorldSize(mesh) - 1)
    BY <1>3 DEF Ranks, Workers
  <2> QED BY <1>6, <2>1
<1>8. (CHOOSE k \in DOMAIN mesh : mesh[k].name = "data_parallel") = 2
  <2>1. \A k \in DOMAIN mesh : mesh[k].name = "data_parallel" <=> k = 2
    <3>1. \A k \in 1..4 : k = 1 \/ k = 2 \/ k = 3 \/ k = 4
      OBVIOUS
    <3> QED BY <1>5, <3>1
  <2>2. 2 \in DOMAIN mesh
    BY <1>5
  <2> QED BY ONLY <2>1, <2>2
<1>9. PICK after : after = SubSeq(mesh, 3, 4)
  OBVIOUS
<1>10. WorldSize(after) \in Nat \ {0}
  <2>1. Len(after) = 2 /\ \A i \in 1..2 : after[i] = mesh[i + 2]
    <3>1. IsSeq(SubSeq(mesh, 3, 4)) /\ Len(SubSeq(mesh, 3, 4)) = 4 - 3 + 1 /\ \A i \in 1..(4 - 3 + 1) : SubSeq(mesh, 3, 4)[i] = mesh[3 + i - 1]
      BY SubSeqIsSeq
    <3> QED BY <1>9, <3>1
  <2>2. IsAxes(after, 2)
    <3>1. \A k \in 1..2 : k = 1 \/ k = 2
      OBVIOUS
    <3> QED BY <1>5, <2>1, <3>1 DEF IsAxes
  <2> QED BY ONLY <2>2, WorldSizePositive
<1>11. Coordinate(mesh, w, "data_parallel") = (w \div WorldSize(after)) % dp
  <2>1. Coordinate(mesh, w, "data_parallel") = (w \div WorldSize(SubSeq(mesh, 2 + 1, Len(mesh)))) % mesh[2].size
    BY ONLY <1>8 DEF Coordinate
  <2>2. SubSeq(mesh, 2 + 1, Len(mesh)) = after
    BY <1>5, <1>9
  <2> QED BY <1>5, <2>1, <2>2
<1>12. PICK size \in Nat \ {0} : size = WorldSize(after)
  BY <1>10
<1>13. (w \div size) % dp \in 0..(dp - 1)
  <2>1. PICK q : q = w \div size
    OBVIOUS
  <2>2. q \in Nat
    BY <1>7, <2>1
  <2> QED BY <2>1, <2>2
<1> QED BY <1>2, <1>3, <1>7, <1>11, <1>12, <1>13 DEF ShardOf, Dp

\* How many rows the batch has is how many lengths it has.
LEMMA LengthsIsSeq ==
  ASSUME IsSeq(batch)
  PROVE  IsSeq(Lengths) /\ Len(Lengths) = Len(batch)
<1>1. PICK n, f : n = Len(batch) /\ f = [k \in DOMAIN batch |-> Length(Log(batch[k]))]
  OBVIOUS
<1>2. n \in Nat /\ f = [k \in 1..n |-> f[k]]
  BY <1>1 DEF IsSeq
<1>3. IsSeq(f) /\ Len(f) = n
  BY ONLY <1>2, FunctionIsSeq
<1>4. Kept(f) = f
  BY ONLY <1>3, KeptIsSame
<1> QED BY <1>1, <1>3, <1>4 DEF Lengths

-----------------------------------------------------------------------------
(* How many rows and global batches there are. *)

\* The steps of it.
RowsCounted(g, sharding, name) ==
              /\ g[0] = 0 /\ GlobalBatches(sharding, name) = g[Dp] \div BatchSizeOf(name)
              /\ \A k \in 1..Dp : g[k] = g[k - 1] + Len(sharding.rows[k])

\* GlobalBatches, step by step.
LEMMA GlobalBatchesSteps ==
  ASSUME NEW sharding,
         NEW name,
         Dp \in Nat
  PROVE  \E g : RowsCounted(g, sharding, name)
<1> DEFINE Rule(it, m) == it = [s \in SUBSET (1..m) |->
                                  IF s = {} THEN 0 ELSE it[s \ {Max(s)}] + Len(sharding.rows[Max(s)])]
           Chosen(it) == it = [s \in SUBSET (1..Dp) |->
                                 IF s = {} THEN 0 ELSE it[s \ {Max(s)}] + Len(sharding.rows[Span(1, Dp)[Max(s)]])]
           it == CHOOSE it : Chosen(it)
           S == {k \in Nat : \E f : Rule(f, k)}
<1>1. Dp \in Nat /\ DOMAIN Span(1, Dp) = 1..Dp /\ \A k \in 1..Dp : Span(1, Dp)[k] = k
  BY DEF Span
<1>2. 0 \in S
  <2> DEFINE f == [s \in SUBSET (1..0) |-> 0]
  <2>1. \A s \in SUBSET (1..0) : s = {}
    OBVIOUS
  <2>2. Rule(f, 0)
    BY <2>1
  <2> QED BY <2>2
<1>3. ASSUME NEW k \in Nat, k \in S PROVE k + 1 \in S
  <2>1. PICK f : Rule(f, k)
    BY <1>3
  <2> DEFINE h == [s \in SUBSET (1..(k + 1)) |-> IF k + 1 \in s THEN f[s \ {k + 1}] + Len(sharding.rows[(k + 1)]) ELSE f[s]]
  <2>2. ASSUME NEW s \in SUBSET (1..(k + 1))
        PROVE  h[s] = IF s = {} THEN 0 ELSE h[s \ {Max(s)}] + Len(sharding.rows[Max(s)])
    <3>1. s # {} => Max(s) \in s /\ \A x \in s : x <= Max(s)
      <4>1. k + 1 \in Nat
        OBVIOUS
      <4> QED BY ONLY <4>1, s \in SUBSET (1..(k + 1)), LargestIn
    <3>2. CASE k + 1 \in s
      <4>1. s \ {k + 1} \in SUBSET (1..k) /\ s \ {k + 1} \in SUBSET (1..(k + 1)) /\ s # {} /\ k + 1 \notin s \ {k + 1}
        BY ONLY <3>2, k \in Nat, s \in SUBSET (1..(k + 1))
      <4>2. Max(s) = k + 1
        <5>1. Max(s) \in 1..(k + 1) /\ k + 1 <= Max(s)
          BY ONLY <3>1, <3>2, <4>1, s \in SUBSET (1..(k + 1))
        <5> QED BY ONLY <5>1, k \in Nat
      <4>3. h[s \ {k + 1}] = f[s \ {k + 1}]
        BY <4>1
      <4>4. h[s] = f[s \ {k + 1}] + Len(sharding.rows[(k + 1)])
        BY <3>2
      <4> HIDE DEF h
      <4> QED BY ONLY <4>1, <4>2, <4>3, <4>4
    <3>3. CASE k + 1 \notin s
      <4>1. s \in SUBSET (1..k)
        BY <3>3
      <4>2. h[s] = f[s]
        BY <3>3
      <4>3. f[s] = IF s = {} THEN 0 ELSE f[s \ {Max(s)}] + Len(sharding.rows[Max(s)])
        BY <2>1, <4>1
      <4>4. s # {} => s \ {Max(s)} \in SUBSET (1..(k + 1)) /\ k + 1 \notin s \ {Max(s)}
        BY <3>3
      <4>5. s # {} => h[s \ {Max(s)}] = f[s \ {Max(s)}]
        BY <4>4
      <4> HIDE DEF h
      <4> QED BY ONLY <4>2, <4>3, <4>5
    <3> QED BY <3>2, <3>3
  <2>3. h = [s \in SUBSET (1..(k + 1)) |-> h[s]]
    OBVIOUS
  <2> HIDE DEF h
  <2>4. Rule(h, k + 1)
    BY <2>2, <2>3
  <2> HIDE DEF Rule
  <2> QED BY <2>4
<1>4. PICK f : Rule(f, Dp)
  <2>1. \A k \in Nat : k \in S
    <3> HIDE DEF S
    <3> QED BY <1>2, <1>3, Induction
  <2> QED BY <1>1, <2>1
<1>5. \A s \in SUBSET (1..Dp) : s # {} => Max(s) \in 1..Dp
  BY <1>1, LargestIn
<1>6. Chosen(f)
  <2>1. \A s \in SUBSET (1..Dp) : s # {} => Span(1, Dp)[Max(s)] = Max(s)
    BY <1>1, <1>5
  <2>2. \A s \in SUBSET (1..Dp) : f[s] = IF s = {} THEN 0 ELSE f[s \ {Max(s)}] + Len(sharding.rows[Span(1, Dp)[Max(s)]])
    BY <1>4, <2>1
  <2>3. f = [s \in SUBSET (1..Dp) |-> f[s]]
    BY <1>4
  <2> QED BY <2>2, <2>3
<1>7. Chosen(it)
  BY <1>6
<1>8. GlobalBatches(sharding, name) = it[1..Dp] \div BatchSizeOf(name)
  BY <1>1 DEF GlobalBatches, FoldLeft, MapThenFoldSet
<1> HIDE DEF it
<1> DEFINE g == [k \in 0..Dp |-> it[1..k]]
<1>9. g[0] = 0 /\ g[Dp] = it[1..Dp]
  <2>1. 1..0 = {} /\ 0 \in 0..Dp /\ Dp \in 0..Dp
    BY <1>1
  <2> QED BY <1>7, <2>1
<1>10. ASSUME NEW k \in 1..Dp PROVE g[k] = g[k - 1] + Len(sharding.rows[k])
  <2>1. 1..k \in SUBSET (1..Dp) /\ 1..k # {} /\ Max(1..k) = k /\ (1..k) \ {k} = 1..(k - 1)
    BY ONLY <1>1, k \in 1..Dp, FirstNumbers
  <2>2. it[1..k] = it[(1..k) \ {Max(1..k)}] + Len(sharding.rows[Span(1, Dp)[Max(1..k)]])
    BY <1>7, <2>1
  <2>3. it[1..k] = it[1..(k - 1)] + Len(sharding.rows[k])
    BY <1>1, <2>1, <2>2
  <2>4. k \in 0..Dp /\ k - 1 \in 0..Dp
    BY <1>1
  <2> QED BY <2>3, <2>4
<1> HIDE DEF g
<1> QED BY <1>8, <1>9, <1>10 DEF RowsCounted

\* How many global batches the workers make of the shards.
LEMMA GlobalBatchCount ==
  ASSUME NEW sharding, NEW name, Dp \in Nat \ {0}, NEW count, AllRows(sharding, Dp, count)
  PROVE  GlobalBatches(sharding, name) = count \div BatchSizeOf(name)
<1>1. PICK n, f : n = Dp /\ f = RowCounts(sharding, Dp)
  OBVIOUS
<1>2. n \in Nat /\ n = Dp
  BY <1>1
<1>3. PICK g : RowsCounted(g, sharding, name)
  <2>1. Dp \in Nat
    OBVIOUS
  <2>2. \E g : RowsCounted(g, sharding, name)
    BY ONLY <2>1, GlobalBatchesSteps
  <2> QED BY <2>2
<1>4. /\ g[0] = 0 /\ GlobalBatches(sharding, name) = g[n] \div BatchSizeOf(name)
      /\ \A k \in 1..n : g[k] = g[k - 1] + Len(sharding.rows[k])
  BY <1>2, <1>3 DEF RowsCounted
<1>5. \A k \in 1..n : f[k] = Len(sharding.rows[k]) /\ f[k] \in Int
  BY <1>1 DEF AllRows, RowCounts
<1>6. SumTo(f, 0) = 0 /\ \A k \in 1..n : SumTo(f, k) = SumTo(f, k - 1) + f[k]
  <2>1. \A k \in 1..n : f[k] \in Int
    BY <1>5
  <2> QED BY ONLY <1>2, <2>1, SumRule
<1> DEFINE P == {k \in 0..n : g[k] = SumTo(f, k)}
<1>7. 0 \in P /\ \A k \in 1..n : k - 1 \in P => k \in P
  BY <1>2, <1>4, <1>5, <1>6
<1> HIDE DEF P
<1>8. \A k \in 0..n : k \in P
  BY ONLY <1>2, <1>7, StepByStep
<1>9. g[n] = SumTo(f, n)
  BY <1>2, <1>8 DEF P
<1> QED BY <1>1, <1>4, <1>9 DEF AllRows

\* The sizes that a call works with are positive, and the batches of a training
\* or a validation can be shared out.
LEMMA BatchSizes ==
  ASSUME DataInv, pc \in Calls
  PROVE  /\ PerDatum \in {1, 2} /\ MicroBatchSize \in Nat \ {0}
         /\ BatchSizeOf(pc) \in Nat \ {0} /\ BatchFor(pc).size = BatchSizeOf(pc)
         /\ pc \notin Losses => BatchSizeOf(pc) = Len(batch)
         /\ pc \in Losses => \E m \in Nat : BatchSizeOf(pc) = m * Dp
<1>1. IsConfig(config) /\ Dp \in Nat \ {0} /\ config.mesh.dp \in Nat \ {0} /\ (pc # "get_topk_logits" => Dp = config.mesh.dp)
  BY PolicyCalled
<1>2. /\ config.gbs \in Nat \ {0} /\ config.microBatch \in Nat \ {0} /\ config.val.microBatch \in Nat \ {0}
      /\ config.gbs % (config.mesh.dp * config.microBatch) = 0
  BY <1>1 DEF IsConfig
<1>3. PerDatum \in {1, 2}
  BY DEF PerDatum
<1>4. MicroBatchSize \in Nat \ {0}
  <2>1. PICK a, b : a = PerDatum /\ b = (IF validated > 0 THEN config.val.microBatch ELSE config.microBatch)
    OBVIOUS
  <2>2. a \in Nat \ {0} /\ b \in Nat \ {0}
    BY <1>2, <1>3, <2>1
  <2>3. b * a \in Nat \ {0}
    BY ONLY <2>2
  <2> QED BY <2>1, <2>3 DEF MicroBatchSize
<1>5. Len(batch) \in Nat \ {0}
  BY DEF DataInv, IsSeq
<1>6. CASE pc = "train"
  <2>1. BatchSizeOf(pc) = config.gbs * PerDatum
    BY <1>6 DEF BatchSizeOf
  <2>2. BatchFor(pc).size = BatchSizeOf(pc) /\ pc \in Losses
    BY <1>6 DEF BatchFor, TrainBatch, Losses
  <2>3. PICK gbs \in Nat \ {0}, dp \in Nat \ {0}, mb \in Nat \ {0}, p \in Nat \ {0} :
           gbs = config.gbs /\ dp = config.mesh.dp /\ mb = config.microBatch /\ p = PerDatum
    BY <1>1, <1>2, <1>3
  <2>4. PICK b \in Nat \ {0}, q \in Nat : b = dp * mb /\ q = gbs \div b /\ gbs = q * b
    <3>1. PICK b : b = dp * mb
      OBVIOUS
    <3>2. b \in Nat \ {0}
      BY <3>1
    <3>3. gbs % b = 0
      BY <1>2, <2>3, <3>1
    <3>4. gbs = (gbs \div b) * b /\ gbs \div b \in Nat
      BY ONLY <3>2, <3>3, gbs \in Nat \ {0}
    <3> QED BY <3>1, <3>2, <3>4
  <2>5. gbs * p = (q * mb * p) * dp /\ q * mb * p \in Nat /\ gbs * p \in Nat \ {0}
    <3>1. gbs = q * (dp * mb)
      BY <2>4
    <3>2. q * (dp * mb) * p = (q * mb * p) * dp
      OBVIOUS
    <3> QED BY <3>1, <3>2
  <2> QED BY <1>1, <1>3, <1>4, <1>6, <2>1, <2>2, <2>3, <2>5
<1>7. CASE pc # "train"
  <2>1. BatchSizeOf(pc) = Len(batch)
    BY <1>7 DEF BatchSizeOf
  <2>2. BatchFor(pc).size = BatchSizeOf(pc)
    BY <1>7, <2>1 DEF Calls, Losses, BatchFor, TrainBatch, LogprobsBatch, ReferenceBatch, TopkBatch
  <2>3. pc \in Losses => pc = "validate"
    BY <1>7 DEF Losses
  <2>4. pc \in Losses => \E m \in Nat : BatchSizeOf(pc) = m * Dp
    BY <1>1, <2>1, <2>3 DEF DataInv
  <2> QED BY <1>3, <1>4, <1>5, <2>1, <2>2, <2>4
<1> QED BY <1>6, <1>7

-----------------------------------------------------------------------------
(* Every shard is cut alike. *)

\* The microbatches of cuts that are there: a microbatch for each.
LEMMA MicroBatchesCut ==
  ASSUME NEW sharding, NEW s, NEW g, NEW local, NEW mbs, NEW width,
         "micro" \in DOMAIN sharding, IsSeq(sharding.micro[s][g])
  PROVE  /\ IsSeq(MicroBatches(sharding, s, g, local, mbs, width))
         /\ Len(MicroBatches(sharding, s, g, local, mbs, width)) = Len(sharding.micro[s][g])
<1>1. PICK cuts, n, f : /\ cuts = sharding.micro[s][g] /\ n = Len(cuts)
                        /\ f = MicroBatches(sharding, s, g, local, mbs, width)
  OBVIOUS
<1>2. n \in Nat /\ DOMAIN cuts = 1..n
  BY <1>1 DEF IsSeq
<1>3. f = [k \in 1..n |-> f[k]]
  <2>1. f = [k \in DOMAIN cuts |->
               [samples |-> SubSeq(GetBatch(sharding, s, g, local), cuts[k][1], cuts[k][2]),
                width |-> IF Len(cuts[k]) = 3 THEN cuts[k][3] ELSE width]]
    BY <1>1 DEF MicroBatches
  <2> QED BY <1>2, <2>1
<1>4. IsSeq(f) /\ Len(f) = n
  BY ONLY <1>2, <1>3, FunctionIsSeq
<1> QED BY <1>1, <1>4

\* The microbatches of a plain batch: as many as it has times their size.
LEMMA MicroBatchesPlain ==
  ASSUME NEW sharding, NEW s, NEW g \in Nat \ {0}, NEW local \in Nat, NEW mbs \in Nat \ {0}, NEW width,
         ~ ("micro" \in DOMAIN sharding), NEW n, n = local \div mbs
  PROVE  /\ IsSeq(MicroBatches(sharding, s, g, local, mbs, width))
         /\ Len(MicroBatches(sharding, s, g, local, mbs, width)) = n
<1>1. PICK from : from = (g - 1) * local
  OBVIOUS
<1>2. from \in Nat /\ g * local = from + local
  <2>1. PICK h \in Nat : g = h + 1
    <3>1. g - 1 \in Nat /\ g = (g - 1) + 1
      OBVIOUS
    <3> QED BY <3>1
  <2>2. (h + 1) * local = h * local + local /\ h * local \in Nat
    OBVIOUS
  <2> QED BY <1>1, <2>1, <2>2
<1>3. PICK piece : piece = GetBatch(sharding, s, g, local)
  OBVIOUS
<1>4. Len(piece) = local
  <2>1. piece = SubSeq(sharding.rows[s], from + 1, from + local)
    BY <1>1, <1>2, <1>3 DEF GetBatch
  <2>2. IsSeq(SubSeq(sharding.rows[s], from + 1, from + local)) /\ Len(SubSeq(sharding.rows[s], from + 1, from + local)) = local
    BY ONLY <1>2, local \in Nat, PieceLength
  <2> QED BY <2>1, <2>2
<1>5. PICK cuts, f : /\ cuts = [k \in 1..(Len(piece) \div mbs) |-> <<(k - 1) * mbs + 1, k * mbs>>]
                        /\ f = MicroBatches(sharding, s, g, local, mbs, width)
  OBVIOUS
<1>6. n \in Nat /\ DOMAIN cuts = 1..n
  BY <1>4, <1>5
<1>7. f = [k \in 1..n |-> f[k]]
  <2>1. f = [k \in DOMAIN cuts |->
               [samples |-> SubSeq(piece, cuts[k][1], cuts[k][2]),
                width |-> IF Len(cuts[k]) = 3 THEN cuts[k][3] ELSE width]]
    BY <1>3, <1>5 DEF MicroBatches
  <2> QED BY <1>6, <2>1
<1>8. IsSeq(f) /\ Len(f) = n
  BY ONLY <1>6, <1>7, FunctionIsSeq
<1> QED BY <1>5, <1>8

\* What a call may make of the batch.
LEMMA ShardingKinds ==
  ASSUME DataInv, pc \in Calls, NEW sharding \in ShardingsFor(pc)
  PROVE  \E args : args.algorithm \in Algorithms /\ sharding \in Sharded(Lengths, Dp, BatchSizeOf(pc), args)
<1>1. PICK size, tokens : size = BatchFor(pc).size /\ tokens = BatchFor(pc).tokens
  OBVIOUS
<1>2. sharding \in Shardings(size, tokens)
  BY <1>1 DEF ShardingsFor
<1>3. PICK args : args = Args(tokens)
  OBVIOUS
<1>4. sharding \in Sharded(Lengths, Dp, size, args)
  BY <1>2, <1>3 DEF Shardings
<1>5. args.algorithm = config.algorithm
  BY <1>3 DEF Args
<1>6. config.algorithm \in Algorithms
  BY PolicyCalled DEF IsConfig
<1>7. size = BatchSizeOf(pc)
  BY <1>1, BatchSizes
<1> QED BY <1>4, <1>5, <1>6, <1>7

\* In how many batches a call goes through the shards.
Batches(sharding) == IF pc \in Losses THEN GlobalBatches(sharding, pc) ELSE 1

\* Every shard has as many microbatches of a batch as the first.
LEMMA CutsAreEven ==
  ASSUME DataInv, pc \in Calls, NEW sharding \in ShardingsFor(pc)
  PROVE  /\ Batches(sharding) \in Nat
         /\ \A g \in 1..Batches(sharding), s \in 1..Dp :
               LET mine(t) == MicroBatches(sharding, t, g, LocalRows(sharding, t, pc), MicroBatchSize, Width)
               IN  IsSeq(mine(s)) /\ Len(mine(s)) = Len(mine(1))
<1> DEFINE mine(g, t) == MicroBatches(sharding, t, g, LocalRows(sharding, t, pc), MicroBatchSize, Width)
<1>1. /\ MicroBatchSize \in Nat \ {0} /\ BatchSizeOf(pc) \in Nat \ {0}
      /\ pc \notin Losses => BatchSizeOf(pc) = Len(batch)
      /\ pc \in Losses => \E m \in Nat : BatchSizeOf(pc) = m * Dp
  BY BatchSizes
<1>2. Dp \in Nat \ {0} /\ Acting.batching \in {"plain", "dynamic", "packed"}
  BY PolicyCalled
<1>3. PICK args : args.algorithm \in Algorithms /\ sharding \in Sharded(Lengths, Dp, BatchSizeOf(pc), args)
  BY ShardingKinds
<1>4. PICK size \in Nat \ {0}, shards \in Nat \ {0} : size = BatchSizeOf(pc) /\ shards = Dp
  BY <1>1, <1>2
<1>5. IsSeq(batch) /\ Len(batch) \in Nat
  BY DEF DataInv, IsSeq
<1>6. IsSeq(Lengths) /\ Len(Lengths) = Len(batch)
  BY <1>5, LengthsIsSeq
<1>7. CASE Acting.batching = "plain"
  <2>1. PICK data : data = [k \in DOMAIN batch |-> k]
    OBVIOUS
  <2>2. Len(data) \in Nat
    BY <1>5, <2>1 DEF IsSeq
  <2>3. sharding = PlainSharding(data, shards, size)
    BY <1>3, <1>4, <1>7, <2>1 DEF Sharded
  <2>4. ~ ("micro" \in DOMAIN sharding)
    BY <2>3 DEF PlainSharding
  <2>5. PICK n : n = (Len(data) \div size) * (size \div shards)
    OBVIOUS
  <2>6. n \in Nat
    BY <2>2, <2>5
  <2>7. AllRows(sharding, shards, shards * n) /\ \A s \in 1..shards : Len(sharding.rows[s]) = n
    <3>1. sharding.rows = PlainSharding(data, shards, size).rows
      BY <2>3
    <3>2. /\ AllRows(sharding, shards, shards * ((Len(data) \div size) * (size \div shards)))
          /\ EachHas(sharding, shards, (Len(data) \div size) * (size \div shards))
      BY ONLY <3>1, <2>2, shards \in Nat \ {0}, size \in Nat \ {0}, PlainRows
    <3> QED BY <2>5, <3>2 DEF EachHas
  <2>8. Batches(sharding) \in Nat
    <3>1. GlobalBatches(sharding, pc) = (shards * n) \div BatchSizeOf(pc)
      <4>1. AllRows(sharding, Dp, shards * n)
        BY <1>4, <2>7
      <4> QED BY ONLY <1>2, <4>1, GlobalBatchCount
    <3>2. shards * n \in Nat
      BY <2>6
    <3>3. (shards * n) \div size \in Nat
      BY ONLY <3>2, size \in Nat \ {0}
    <3> QED BY <1>4, <3>1, <3>3 DEF Batches
  <2>9. PICK local : local = IF pc \in Losses THEN size \div shards ELSE n
    OBVIOUS
  <2>10. local \in Nat
    <3>1. size \div shards \in Nat
      OBVIOUS
    <3> QED BY <2>6, <2>9, <3>1
  <2>11. \A s \in 1..Dp : LocalRows(sharding, s, pc) = local
    BY <1>4, <2>7, <2>9 DEF LocalRows
  <2>12. ASSUME NEW g \in 1..Batches(sharding), NEW s \in 1..Dp
         PROVE  IsSeq(mine(g, s)) /\ Len(mine(g, s)) = local \div MicroBatchSize
    <3>1. g \in Nat \ {0}
      BY <2>8
    <3>2. PICK mbs, width, m : mbs = MicroBatchSize /\ width = Width /\ m = local \div mbs
      OBVIOUS
    <3>3. mbs \in Nat \ {0}
      BY <1>1, <3>2
    <3>4. /\ IsSeq(MicroBatches(sharding, s, g, local, mbs, width))
          /\ Len(MicroBatches(sharding, s, g, local, mbs, width)) = m
      <4>1. m = local \div mbs
        BY <3>2
      <4> QED BY ONLY <2>4, <2>10, <3>1, <3>3, <4>1, MicroBatchesPlain
    <3>5. mine(g, s) = MicroBatches(sharding, s, g, local, mbs, width)
      BY <2>11, <3>2
    <3> HIDE DEF mine
    <3> QED BY <3>2, <3>4, <3>5
  <2>13. 1 \in 1..Dp
    BY <1>2
  <2>14. \A g \in 1..Batches(sharding), s \in 1..Dp : IsSeq(mine(g, s)) /\ Len(mine(g, s)) = Len(mine(g, 1))
    <3> HIDE DEF mine
    <3> QED BY <2>12, <2>13
  <2> QED BY <2>8, <2>14
<1>8. CASE Acting.batching \in {"dynamic", "packed"}
  <2>1. PICK chunks : chunks = Len(Lengths) \div size
    OBVIOUS
  <2>2. chunks \in Nat
    BY <1>5, <1>6, <2>1
  <2>3. EvenCuts(sharding, shards, chunks) /\ (pc \in Losses => AllRows(sharding, shards, chunks * size))
    <3>1. CASE Acting.batching = "dynamic"
      <4>1. sharding \in DynamicSharding(Lengths, shards, size, args)
        BY <1>3, <1>4, <3>1 DEF Sharded
      <4>2. /\ EvenCuts(sharding, shards, chunks)
            /\ \A m \in Nat : size = m * shards => AllRows(sharding, shards, chunks * size)
        BY ONLY <1>6, <2>1, <4>1, shards \in Nat \ {0}, size \in Nat \ {0}, DynamicEven
      <4>3. ASSUME pc \in Losses PROVE AllRows(sharding, shards, chunks * size)
        <5>1. PICK m \in Nat : size = m * shards
          BY <1>1, <1>4, <4>3
        <5> QED BY <4>2, <5>1
      <4> QED BY <4>2, <4>3
    <3>2. CASE Acting.batching = "packed"
      <4>1. sharding \in PackedShardings(Lengths, shards, size, args)
        BY <1>3, <1>4, <3>2 DEF Sharded
      <4>2. Len(Lengths) \in Nat /\ args.algorithm \in Algorithms
        BY <1>3, <1>5, <1>6
      <4>3. EvenCuts(sharding, shards, chunks) /\ AllRows(sharding, shards, chunks * size)
        BY ONLY <2>1, <4>1, <4>2, shards \in Nat \ {0}, size \in Nat \ {0}, PackedEven
      <4> QED BY <4>3
    <3> QED BY <1>8, <3>1, <3>2
  <2>4. Batches(sharding) = chunks
    <3>1. CASE pc \in Losses
      <4>1. AllRows(sharding, Dp, chunks * size)
        BY <1>4, <2>3, <3>1
      <4>2. GlobalBatches(sharding, pc) = (chunks * size) \div BatchSizeOf(pc)
        BY ONLY <1>2, <4>1, GlobalBatchCount
      <4>3. (chunks * size) \div size = chunks
        BY ONLY <2>2, size \in Nat \ {0}, MultipleDivided
      <4> QED BY <1>4, <3>1, <4>2, <4>3 DEF Batches
    <3>2. CASE pc \notin Losses
      <4>1. size = Len(Lengths)
        BY <1>1, <1>4, <1>6, <3>2
      <4>2. chunks = 1
        <5>1. size \div size = 1
          OBVIOUS
        <5> QED BY <2>1, <4>1, <5>1
      <4> QED BY <3>2, <4>2 DEF Batches
    <3> QED BY <3>1, <3>2
  <2>5. ASSUME NEW g \in 1..Batches(sharding), NEW s \in 1..Dp
        PROVE  IsSeq(mine(g, s)) /\ Len(mine(g, s)) = Len(sharding.micro[1][g])
    <3>1. "micro" \in DOMAIN sharding
      BY <2>3 DEF EvenCuts
    <3>2. IsSeq(sharding.micro[s][g]) /\ Len(sharding.micro[s][g]) = Len(sharding.micro[1][g])
      BY <1>4, <2>3, <2>4 DEF EvenCuts
    <3>3. PICK local, mbs, width : local = LocalRows(sharding, s, pc) /\ mbs = MicroBatchSize /\ width = Width
      OBVIOUS
    <3>4. /\ IsSeq(MicroBatches(sharding, s, g, local, mbs, width))
          /\ Len(MicroBatches(sharding, s, g, local, mbs, width)) = Len(sharding.micro[s][g])
      BY ONLY <3>1, <3>2, MicroBatchesCut
    <3>5. mine(g, s) = MicroBatches(sharding, s, g, local, mbs, width)
      BY <3>3
    <3> HIDE DEF mine
    <3> QED BY <3>2, <3>4, <3>5
  <2>6. 1 \in 1..Dp
    BY <1>2
  <2>7. \A g \in 1..Batches(sharding), s \in 1..Dp : IsSeq(mine(g, s)) /\ Len(mine(g, s)) = Len(mine(g, 1))
    <3> HIDE DEF mine
    <3> QED BY <2>5, <2>6
  <2> QED BY <2>2, <2>4, <2>7
<1> QED BY <1>2, <1>7, <1>8

-----------------------------------------------------------------------------
(* Programs with the same operations. *)

\* Two programs have the same operations.
SameOps(a, b) ==
  /\ IsSeq(a) /\ IsSeq(b) /\ Len(a) = Len(b)
  /\ \A k \in 1..Len(a) : a[k].op = b[k].op

\* Single operations.
LEMMA SameOpsOne == ASSUME NEW a, NEW b, a.op = b.op PROVE SameOps(<<a>>, <<b>>)
<1>1. IsSeq(<<a>>) /\ Len(<<a>>) = 1 /\ <<a>>[1] = a
  BY SingleIsSeq
<1>2. IsSeq(<<b>>) /\ Len(<<b>>) = 1 /\ <<b>>[1] = b
  BY SingleIsSeq
<1>3. ASSUME NEW k \in 1..1 PROVE <<a>>[k].op = <<b>>[k].op
  <2>1. k = 1
    OBVIOUS
  <2> QED BY <1>1, <1>2, <2>1
<1> QED BY <1>1, <1>2, <1>3 DEF SameOps

\* Nothing at all.
LEMMA SameOpsNone == SameOps(<<>>, <<>>)
BY EmptyIsSeq DEF SameOps

\* One program after another.
LEMMA SameOpsConcat ==
  ASSUME NEW a, NEW b, NEW c, NEW d, SameOps(a, b), SameOps(c, d)
  PROVE  SameOps(a \o c, b \o d)
<1> DEFINE R == {<<a[i], b[i]>> : i \in 1..Len(a)} \cup {<<c[i], d[i]>> : i \in 1..Len(c)}
<1>1. \A p \in R : p[1].op = p[2].op
  BY DEF SameOps
<1>2. Alike(a, b, R) /\ Alike(c, d, R)
  BY DEF SameOps, Alike
<1> HIDE DEF R
<1>3. Alike(a \o c, b \o d, R)
  BY ONLY <1>2, ConcatAlike
<1> QED BY <1>1, <1>3 DEF Alike, SameOps

\* One more operation.
LEMMA SameOpsAppend ==
  ASSUME NEW a, NEW b, SameOps(a, b), NEW e PROVE SameOps(Append(a, e), Append(b, e))
<1>1. ASSUME NEW c, IsSeq(c) PROVE Append(c, e) = c \o <<e>>
  <2> DEFINE T == {c[i] : i \in 1..Len(c)} \cup {e}
  <2>1. c \in Seq(T) /\ e \in T
    BY <1>1, IsSeqSeq
  <2> HIDE DEF T
  <2> QED BY <2>1
<1>2. Append(a, e) = a \o <<e>> /\ Append(b, e) = b \o <<e>>
  BY <1>1 DEF SameOps
<1>3. SameOps(<<e>>, <<e>>)
  BY SameOpsOne
<1>4. SameOps(a \o <<e>>, b \o <<e>>)
  BY ONLY <1>3, SameOps(a, b), SameOpsConcat
<1> QED BY <1>2, <1>4

\* The programs of all global batches, joined.
LEMMA SameOpsFlatten ==
  ASSUME NEW s, NEW t, IsSeq(s), IsSeq(t), Len(s) = Len(t), \A i \in 1..Len(s) : SameOps(s[i], t[i])
  PROVE  SameOps(FlattenSeq(s), FlattenSeq(t))
<1> DEFINE R == UNION {{<<s[i][j], t[i][j]>> : j \in 1..Len(s[i])} : i \in 1..Len(s)}
<1>1. \A p \in R : p[1].op = p[2].op
  <2> SUFFICES ASSUME NEW p \in R PROVE p[1].op = p[2].op
    OBVIOUS
  <2>1. PICK i \in 1..Len(s) : p \in {<<s[i][j], t[i][j]>> : j \in 1..Len(s[i])}
    OBVIOUS
  <2>2. PICK j \in 1..Len(s[i]) : p = <<s[i][j], t[i][j]>>
    BY <2>1
  <2> HIDE DEF R
  <2> QED BY <2>2 DEF SameOps
<1>2. \A i \in 1..Len(s) : Alike(s[i], t[i], R)
  <2>1. ASSUME NEW i \in 1..Len(s), NEW j \in 1..Len(s[i]) PROVE <<s[i][j], t[i][j]>> \in R
    <3>1. <<s[i][j], t[i][j]>> \in {<<s[i][k], t[i][k]>> : k \in 1..Len(s[i])}
      OBVIOUS
    <3> QED BY <3>1
  <2> HIDE DEF R
  <2> QED BY <2>1 DEF Alike, SameOps
<1>3. Len(s) \in Nat /\ (Len(s) = 0 => s = <<>> /\ t = <<>>)
  BY NoneIsEmpty DEF IsSeq
<1> HIDE DEF R
<1>4. Alike(FlattenSeq(s), FlattenSeq(t), R)
  BY ONLY <1>2, <1>3, Len(s) = Len(t), FlattenAlike
<1> QED BY <1>1, <1>4 DEF Alike, SameOps

-----------------------------------------------------------------------------

\* The shards have as many microbatches of every batch as one another.
EvenBatches(micros) ==
  /\ IsSeq(micros)
  /\ \A g \in 1..Len(micros), s \in 1..Dp : IsSeq(micros[g][s]) /\ Len(micros[g][s]) = Len(micros[g][1])

\* And so they have in a call.
LEMMA MicrobatchesEven ==
  ASSUME DataInv, pc \in Calls, NEW sharding \in ShardingsFor(pc), NEW micros, micros = Kept(Microbatches(sharding, pc))
  PROVE  EvenBatches(micros) /\ Len(micros) = Batches(sharding)
<1> DEFINE Mine(g, t) == MicroBatches(sharding, t, g, LocalRows(sharding, t, pc), MicroBatchSize, Width)
<1>1. PICK n, raw : n = Batches(sharding) /\ raw = Microbatches(sharding, pc)
  OBVIOUS
<1>2. n \in Nat /\ \A g \in 1..n, s \in 1..Dp : IsSeq(Mine(g, s)) /\ Len(Mine(g, s)) = Len(Mine(g, 1))
  BY <1>1, CutsAreEven
<1>3. PICK dp \in Nat : dp = Dp /\ dp > 0
  BY PolicyCalled
<1>4. raw = [g \in 1..n |-> Kept([s \in 1..dp |-> Mine(g, s)])]
  BY <1>1, <1>3 DEF Microbatches, Batches
<1> HIDE DEF Mine
<1>5. IsSeq(raw) /\ Len(raw) = n
  <2>1. raw = [g \in 1..n |-> raw[g]]
    BY <1>4
  <2> QED BY ONLY <1>2, <2>1, FunctionIsSeq
<1>6. micros = raw
  <2>1. Kept(raw) = raw
    BY ONLY <1>5, KeptIsSame
  <2> QED BY <1>1, <2>1
<1>7. ASSUME NEW g \in 1..n, NEW s \in 1..dp PROVE micros[g][s] = Mine(g, s)
  <2>1. PICK f : f = [t \in 1..dp |-> Mine(g, t)]
    OBVIOUS
  <2>2. f = [t \in 1..dp |-> f[t]]
    BY <2>1
  <2>3. IsSeq(f)
    BY ONLY <2>2, dp \in Nat, FunctionIsSeq
  <2>4. Kept(f) = f
    BY ONLY <2>3, KeptIsSame
  <2>5. raw[g] = Kept([t \in 1..dp |-> Mine(g, t)])
    BY <1>4
  <2> QED BY <1>6, <2>1, <2>4, <2>5
<1>8. 1 \in 1..dp
  BY <1>3
<1>9. ASSUME NEW g \in 1..Len(micros), NEW s \in 1..Dp
      PROVE  IsSeq(micros[g][s]) /\ Len(micros[g][s]) = Len(micros[g][1])
  <2>1. g \in 1..n /\ s \in 1..dp
    BY <1>3, <1>5, <1>6
  <2>2. micros[g][s] = Mine(g, s) /\ micros[g][1] = Mine(g, 1)
    BY <1>7, <1>8, <2>1
  <2>3. IsSeq(Mine(g, s)) /\ Len(Mine(g, s)) = Len(Mine(g, 1))
    BY <1>2, <2>1
  <2> QED BY <2>2, <2>3
<1> QED BY <1>1, <1>5, <1>6, <1>9 DEF EvenBatches

\* The microbatches of two workers: none has to repeat any.
LEMMA OwnOpsSame ==
  ASSUME DataInv, NEW micros, EvenBatches(micros), NEW g \in 1..Len(micros), NEW v \in Ranks, NEW w \in Ranks
  PROVE  SameOps(OwnMicrobatches(micros[g], v), OwnMicrobatches(micros[g], w))
<1>1. PICK all, n : all = micros[g] /\ n = Len(all[1])
  OBVIOUS
<1>2. Dp \in Nat \ {0}
  BY PolicyCalled
<1>3. \A s \in 1..Dp : IsSeq(all[s]) /\ Len(all[s]) = n
  BY <1>1 DEF EvenBatches
<1>4. n \in Nat /\ 1 \in 1..Dp
  <2>1. 1 \in 1..Dp
    BY <1>2
  <2>2. IsSeq(all[1])
    BY <1>3, <2>1
  <2>3. Len(all[1]) \in Nat
    BY <2>2 DEF IsSeq
  <2> QED BY <1>1, <2>1, <2>3
<1>5. Max({Len(all[s]) : s \in 1..Dp}) = n
  <2>1. PICK T : T = {Len(all[s]) : s \in 1..Dp}
    OBVIOUS
  <2>2. T = {n}
    BY <1>3, <1>4, <2>1
  <2>3. T \subseteq Nat /\ T # {} /\ IsFiniteSet(T)
    BY <1>4, <2>2, FS_Singleton
  <2>4. Max(T) \in T
    BY ONLY <2>3, MaxOf
  <2> QED BY <2>1, <2>2, <2>4
<1> DEFINE PackedTo(u) == IF Acting.batching = "packed" THEN PackTo(all[ShardOf(u)]) ELSE 0
           Real(u) == [k \in DOMAIN all[ShardOf(u)] |-> Micro(all[ShardOf(u)][k], PackedTo(u), FALSE)]
           Dummies(u) == [d \in 1..(Max({Len(all[s]) : s \in 1..Dp}) - Len(all[ShardOf(u)])) |->
                            Micro(all[ShardOf(u)][((d - 1) % Len(all[ShardOf(u)])) + 1], PackedTo(u), TRUE)]
<1>6. \A u \in Ranks : OwnMicrobatches(all, u) = IF Acting.batching = "packed" /\ Acting.worker # "megatron"
                                                  THEN <<Op("count")>> \o Real(u) \o Dummies(u)
                                                  ELSE Real(u)
  BY DEF OwnMicrobatches
<1>7. ASSUME NEW u \in Ranks
      PROVE  /\ IsSeq(Real(u)) /\ Len(Real(u)) = n /\ \A k \in 1..n : Real(u)[k].op = "micro"
             /\ IsSeq(Dummies(u)) /\ Len(Dummies(u)) = 0
  <2>1. PICK own : own = all[ShardOf(u)]
    OBVIOUS
  <2>2. ShardOf(u) \in 1..Dp
    BY ShardOfWorker
  <2>3. DOMAIN own = 1..n /\ Len(own) = n
    BY <1>3, <2>1, <2>2 DEF IsSeq
  <2>4. PICK f, h : f = Real(u) /\ h = Dummies(u)
    OBVIOUS
  <2>5. f = [k \in 1..n |-> Micro(own[k], PackedTo(u), FALSE)]
    <3> HIDE DEF PackedTo
    <3> QED BY <2>1, <2>3, <2>4
  <2>6. \A k \in 1..n : f[k].op = "micro"
    <3> HIDE DEF PackedTo
    <3> QED BY <2>5 DEF Micro
  <2>7. f = [k \in 1..n |-> f[k]]
    BY <2>5
  <2>8. IsSeq(f) /\ Len(f) = n
    BY ONLY <1>4, <2>7, FunctionIsSeq
  <2>9. n - n = 0
    BY <1>4
  <2>10. h = [d \in 1..0 |-> h[d]]
    <3>1. DOMAIN h = 1..(n - n)
      BY <1>5, <2>1, <2>3, <2>4
    <3>2. h = [d \in DOMAIN h |-> h[d]]
      <4> HIDE DEF PackedTo
      <4> QED BY <2>4
    <3> QED BY <2>9, <3>1, <3>2
  <2>11. IsSeq(h) /\ Len(h) = 0
    <3>1. 0 \in Nat
      OBVIOUS
    <3> QED BY ONLY <2>10, <3>1, FunctionIsSeq
  <2> HIDE DEF Real, Dummies
  <2> QED BY <2>4, <2>6, <2>8, <2>11
<1> HIDE DEF Real, Dummies, PackedTo
<1>8. SameOps(Real(v), Real(w))
  BY <1>7 DEF SameOps
<1>9. SameOps(Dummies(v), Dummies(w))
  BY <1>7 DEF SameOps
<1>10. SameOps(<<Op("count")>>, <<Op("count")>>)
  BY SameOpsOne
<1>11. SameOps(<<Op("count")>> \o Real(v), <<Op("count")>> \o Real(w))
  BY ONLY <1>8, <1>10, SameOpsConcat
<1>12. SameOps(<<Op("count")>> \o Real(v) \o Dummies(v), <<Op("count")>> \o Real(w) \o Dummies(w))
  BY ONLY <1>9, <1>11, SameOpsConcat
<1>13. CASE Acting.batching = "packed" /\ Acting.worker # "megatron"
  <2>1. /\ OwnMicrobatches(all, v) = <<Op("count")>> \o Real(v) \o Dummies(v)
        /\ OwnMicrobatches(all, w) = <<Op("count")>> \o Real(w) \o Dummies(w)
    BY <1>6, <1>13
  <2> QED BY <1>1, <1>12, <2>1
<1>14. CASE ~(Acting.batching = "packed" /\ Acting.worker # "megatron")
  <2>1. OwnMicrobatches(all, v) = Real(v) /\ OwnMicrobatches(all, w) = Real(w)
    BY <1>6, <1>14
  <2> QED BY <1>1, <1>8, <2>1
<1> QED BY <1>13, <1>14

-----------------------------------------------------------------------------
(* The programs of the calls. *)

\* A global batch of two workers.
LEMMA GlobalBatchSame ==
  ASSUME DataInv, NEW micros, EvenBatches(micros), NEW g \in 1..Len(micros), NEW v \in Ranks, NEW w \in Ranks,
         NEW sharding, NEW name
  PROVE  SameOps(GlobalBatchOps(sharding, micros, v, g, name), GlobalBatchOps(sharding, micros, w, g, name))
<1> DEFINE Valid(u) == [Op("valid") EXCEPT !.rows = GetBatch(sharding, ShardOf(u), g, LocalRows(sharding, ShardOf(u), name))]
           Own(u) == OwnMicrobatches(micros[g], u)
           Ending == IF name = "train" THEN <<Op("step")>> ELSE <<>>
<1>1. SameOps(Own(v), Own(w))
  BY OwnOpsSame
<1>2. Valid(v).op = Valid(w).op
  BY DEF Op
<1>3. GlobalBatchOps(sharding, micros, v, g, name) = <<Valid(v)>> \o Own(v) \o Ending
  BY DEF GlobalBatchOps
<1>4. GlobalBatchOps(sharding, micros, w, g, name) = <<Valid(w)>> \o Own(w) \o Ending
  BY DEF GlobalBatchOps
<1>5. SameOps(Ending, Ending)
  BY SameOpsOne, SameOpsNone
<1> HIDE DEF Valid, Own, Ending
<1>6. SameOps(<<Valid(v)>>, <<Valid(w)>>)
  BY ONLY <1>2, SameOpsOne
<1>7. SameOps(<<Valid(v)>> \o Own(v), <<Valid(w)>> \o Own(w))
  BY ONLY <1>1, <1>6, SameOpsConcat
<1>8. SameOps(<<Valid(v)>> \o Own(v) \o Ending, <<Valid(w)>> \o Own(w) \o Ending)
  BY ONLY <1>5, <1>7, SameOpsConcat
<1> QED BY <1>3, <1>4, <1>8

\* A training or a validation of two workers.
LEMMA TrainProgramSame ==
  ASSUME DataInv, NEW micros, EvenBatches(micros), NEW v \in Ranks, NEW w \in Ranks, NEW sharding, NEW name
  PROVE  SameOps(TrainProgram(sharding, micros, v, name), TrainProgram(sharding, micros, w, name))
<1> DEFINE Ops(u, g) == GlobalBatchOps(sharding, micros, u, g, name)
           Complete(u, g) == IF Acting.worker = "megatron" THEN MegatronBatchOps(Ops(u, g)) ELSE Ops(u, g)
           All(u) == [g \in DOMAIN micros |-> Complete(u, g)]
<1>1. \A u \in Ranks : TrainProgram(sharding, micros, u, name) = <<Op("sizes")>> \o FlattenSeq(All(u)) \o <<Op("loss")>>
  BY DEF TrainProgram
<1>2. PICK n : n = Len(micros)
  OBVIOUS
<1>3. n \in Nat /\ DOMAIN micros = 1..n
  BY <1>2 DEF EvenBatches, IsSeq
<1>4. ASSUME NEW g \in 1..n PROVE SameOps(Complete(v, g), Complete(w, g))
  <2>1. SameOps(Ops(v, g), Ops(w, g))
    BY <1>2, GlobalBatchSame
  <2> HIDE DEF Ops
  <2>2. SameOps(Append(Ops(v, g), Op("gather")), Append(Ops(w, g), Op("gather")))
    BY ONLY <2>1, SameOpsAppend
  <2> QED BY <2>1, <2>2 DEF MegatronBatchOps
<1> HIDE DEF Complete
<1>5. ASSUME NEW u \in Ranks PROVE IsSeq(All(u)) /\ Len(All(u)) = n /\ \A g \in 1..n : All(u)[g] = Complete(u, g)
  <2>1. PICK f : f = All(u)
    OBVIOUS
  <2>2. f = [g \in 1..n |-> f[g]]
    BY <1>3, <2>1
  <2>3. IsSeq(f) /\ Len(f) = n
    BY ONLY <1>3, <2>2, FunctionIsSeq
  <2> QED BY <1>3, <2>1, <2>3
<1> HIDE DEF All
<1>6. SameOps(FlattenSeq(All(v)), FlattenSeq(All(w)))
  <2>1. PICK s, t : s = All(v) /\ t = All(w)
    OBVIOUS
  <2>2. IsSeq(s) /\ IsSeq(t) /\ Len(s) = Len(t) /\ \A i \in 1..Len(s) : SameOps(s[i], t[i])
    BY <1>4, <1>5, <2>1
  <2>3. SameOps(FlattenSeq(s), FlattenSeq(t))
    BY ONLY <2>2, SameOpsFlatten
  <2> QED BY <2>1, <2>3
<1>7. SameOps(<<Op("sizes")>>, <<Op("sizes")>>) /\ SameOps(<<Op("loss")>>, <<Op("loss")>>)
  BY SameOpsOne
<1>8. SameOps(<<Op("sizes")>> \o FlattenSeq(All(v)), <<Op("sizes")>> \o FlattenSeq(All(w)))
  BY ONLY <1>6, <1>7, SameOpsConcat
<1>9. SameOps(<<Op("sizes")>> \o FlattenSeq(All(v)) \o <<Op("loss")>>, <<Op("sizes")>> \o FlattenSeq(All(w)) \o <<Op("loss")>>)
  BY ONLY <1>7, <1>8, SameOpsConcat
<1> QED BY <1>1, <1>9

\* The log-probabilities.
LEMMA LogprobsProgramSame ==
  ASSUME DataInv, NEW micros, EvenBatches(micros), Len(micros) = 1, NEW v \in Ranks, NEW w \in Ranks
  PROVE  /\ SameOps(WholeShard(micros, v), WholeShard(micros, w))
         /\ SameOps(LogprobsProgram(micros, v), LogprobsProgram(micros, w))
         /\ SameOps(TopkProgram(micros, v), TopkProgram(micros, w))
<1> DEFINE Whole(u) == WholeShard(micros, u)
<1>1. SameOps(Whole(v), Whole(w))
  <2>1. 1 \in 1..Len(micros)
    OBVIOUS
  <2> QED BY <2>1, OwnOpsSame DEF WholeShard
<1>2. Acting.worker \in {"dtensor", "automodel", "megatron"}
  BY PolicyCalled
<1>3. \A u \in Ranks : /\ DTensorLogprobsProgram(micros, u) = <<Op("unshard")>> \o Whole(u)
                       /\ MegatronLogprobsProgram(micros, u) = Append(Whole(u), Op("broadcast"))
                       /\ TopkProgram(micros, u) = IF Acting.worker = "megatron" THEN Append(Whole(u), Op("broadcast")) ELSE Whole(u)
  BY DEF DTensorLogprobsProgram, MegatronLogprobsProgram, TopkProgram
<1>4. \A u \in Ranks : /\ Acting.worker = "dtensor" => LogprobsProgram(micros, u) = DTensorLogprobsProgram(micros, u)
                       /\ Acting.worker = "automodel" => LogprobsProgram(micros, u) = Whole(u)
                       /\ Acting.worker = "megatron" => LogprobsProgram(micros, u) = MegatronLogprobsProgram(micros, u)
  BY DEF LogprobsProgram
<1> HIDE DEF Whole
<1>5. SameOps(<<Op("unshard")>>, <<Op("unshard")>>)
  BY SameOpsOne
<1>6. SameOps(<<Op("unshard")>> \o Whole(v), <<Op("unshard")>> \o Whole(w))
  BY ONLY <1>1, <1>5, SameOpsConcat
<1>7. SameOps(Append(Whole(v), Op("broadcast")), Append(Whole(w), Op("broadcast")))
  BY ONLY <1>1, SameOpsAppend
<1>8. SameOps(LogprobsProgram(micros, v), LogprobsProgram(micros, w))
  BY <1>1, <1>2, <1>3, <1>4, <1>6, <1>7
<1>9. SameOps(TopkProgram(micros, v), TopkProgram(micros, w))
  BY <1>1, <1>3, <1>7
<1> QED BY <1>1, <1>8, <1>9 DEF Whole

\* In every call the workers have the same operations.
LEMMA ProgramsSame ==
  ASSUME DataInv, pc \in Calls, NEW sharding \in ShardingsFor(pc), NEW micros, micros = Kept(Microbatches(sharding, pc)),
         NEW v \in Ranks, NEW w \in Ranks
  PROVE  SameOps(Program(pc, sharding, micros, v), Program(pc, sharding, micros, w))
<1>1. EvenBatches(micros) /\ Len(micros) = Batches(sharding)
  BY MicrobatchesEven
<1>2. CASE pc \in Losses
  <2>1. \A u \in Ranks : Program(pc, sharding, micros, u) = TrainProgram(sharding, micros, u, pc)
    BY <1>2 DEF Program, Losses
  <2>2. SameOps(TrainProgram(sharding, micros, v, pc), TrainProgram(sharding, micros, w, pc))
    BY <1>1, TrainProgramSame
  <2> QED BY <2>1, <2>2
<1>3. CASE pc \notin Losses
  <2>1. Len(micros) = 1
    BY <1>1, <1>3 DEF Batches
  <2>2. /\ SameOps(LogprobsProgram(micros, v), LogprobsProgram(micros, w))
        /\ SameOps(TopkProgram(micros, v), TopkProgram(micros, w))
    BY <1>1, <2>1, LogprobsProgramSame
  <2>3. CASE pc = "get_logprobs"
    <3>1. \A u \in Ranks : Program(pc, sharding, micros, u) = LogprobsProgram(micros, u)
      BY <1>3, <2>3 DEF Program, Losses
    <3> QED BY <2>2, <3>1
  <2>4. CASE pc = "get_topk_logits"
    <3>1. \A u \in Ranks : Program(pc, sharding, micros, u) = TopkProgram(micros, u)
      BY <1>3, <2>4 DEF Program, Losses
    <3> QED BY <2>2, <3>1
  <2>5. CASE pc = "get_reference_policy_logprobs"
    <3>1. \A u \in Ranks : Program(pc, sharding, micros, u) = <<Op("swap")>> \o LogprobsProgram(micros, u) \o <<Op("restore")>>
      BY <1>3, <2>5 DEF Program, Losses
    <3>2. SameOps(<<Op("swap")>>, <<Op("swap")>>) /\ SameOps(<<Op("restore")>>, <<Op("restore")>>)
      BY SameOpsOne
    <3>3. SameOps(<<Op("swap")>> \o LogprobsProgram(micros, v), <<Op("swap")>> \o LogprobsProgram(micros, w))
      BY ONLY <2>2, <3>2, SameOpsConcat
    <3>4. SameOps(<<Op("swap")>> \o LogprobsProgram(micros, v) \o <<Op("restore")>>,
                  <<Op("swap")>> \o LogprobsProgram(micros, w) \o <<Op("restore")>>)
      BY ONLY <3>2, <3>3, SameOpsConcat
    <3> QED BY <3>1, <3>4
  <2> QED BY <1>3, <2>3, <2>4, <2>5 DEF Calls
<1> QED BY <1>2, <1>3

-----------------------------------------------------------------------------
(* The steps that keep what holds of the data. *)

\* A list of consecutive numbers.
LEMMA SpanIsSeq ==
  ASSUME NEW from \in Int, NEW to \in Int, from <= to + 1
  PROVE  IsSeq(Span(from, to)) /\ Len(Span(from, to)) = to - from + 1
<1>1. PICK n, f : n = to - from + 1 /\ f = Span(from, to)
  OBVIOUS
<1>2. n \in Nat /\ f = [k \in 1..n |-> f[k]]
  BY <1>1 DEF Span
<1>3. IsSeq(f) /\ Len(f) = n
  BY ONLY <1>2, FunctionIsSeq
<1> QED BY <1>1, <1>3

\* Numbers are rounded up to a multiple.
LEMMA RoundedUp ==
  ASSUME NEW n \in Nat, NEW m \in Nat \ {0}
  PROVE  /\ n <= RoundUp(n, m) /\ RoundUp(n, m) \in Nat
         /\ \E q \in Nat : RoundUp(n, m) = q * m
<1>1. PICK a, q : a = n + m - 1 /\ q = a \div m
  OBVIOUS
<1>2. a \in Nat
  BY <1>1
<1>3. q \in Nat /\ q * m <= a /\ a < q * m + m
  BY ONLY <1>1, <1>2, m \in Nat \ {0}, Divided
<1>4. PICK x \in Nat : x = q * m
  BY <1>3
<1>5. RoundUp(n, m) = x
  BY <1>1, <1>4 DEF RoundUp
<1>6. n <= x
  BY <1>1, <1>3, <1>4
<1> QED BY <1>3, <1>4, <1>5, <1>6

-----------------------------------------------------------------------------

\* The samples of an online program are not none.
LEMMA SamplesAreSome ==
  ASSUME DataInv, config.program \notin Offline
  PROVE  NumSamples \in Nat \ {0}
<1>1. IsConfig(config)
  BY PolicyCalled
<1>2. config.prompts \in Seq(Nat \ {0}) /\ config.prompts # <<>> /\ config.generations \in Nat \ {0}
  BY <1>1 DEF IsConfig
<1>3. PICK a, b : a = Len(config.prompts) /\ b = config.generations
  OBVIOUS
<1>4. a \in Nat \ {0} /\ b \in Nat \ {0}
  BY <1>2, <1>3
<1>5. a * b \in Nat \ {0}
  BY <1>4
<1> QED BY <1>3, <1>5 DEF NumSamples

\* The list of all samples.
LEMMA AllSamples ==
  ASSUME DataInv, config.program \notin Offline
  PROVE  IsSeq([i \in Samples |-> i]) /\ Len([i \in Samples |-> i]) > 0
<1>1. PICK n, f : n = NumSamples /\ f = [i \in Samples |-> i]
  OBVIOUS
<1>2. n \in Nat /\ n > 0
  BY <1>1, SamplesAreSome
<1>3. f = [i \in 1..n |-> f[i]]
  BY <1>1 DEF Samples
<1>4. IsSeq(f) /\ Len(f) = n
  BY ONLY <1>2, <1>3, FunctionIsSeq
<1> QED BY <1>1, <1>2, <1>4

\* A step that leaves the batch as it is.
LEMMA DataKept ==
  ASSUME DataInv, UNCHANGED <<config, batch, validated>>,
         pc' \in Early => pc \in Early,
         pc' \in {"mask"} \cup Calls => pc \in {"mask"} \cup Calls,
         pc' = "validate" => validated > 0
  PROVE  DataInv'
BY DEF DataInv, Early, Offline, Calls, Losses

\* The first state.
LEMMA InitData == Init => DataInv
<1> SUFFICES ASSUME Init PROVE DataInv
  OBVIOUS
<1>1. config \in Configs /\ validated = 0
  BY DEF Init, PolicyInit
<1>2. IsConfig(config)
  BY <1>1, StepAssumption
<1>3. CASE config.program \in Offline
  <2>1. pc = FirstCall /\ batch = Span(1, Len(config.data) * PerDatum)
    BY <1>3 DEF Init, OfflineInit
  <2>2. pc \in {"train", "get_reference_policy_logprobs"}
    BY <2>1 DEF FirstCall
  <2>3. PICK a, b : a = Len(config.data) /\ b = PerDatum
    OBVIOUS
  <2>4. a \in Nat \ {0} /\ b \in {1, 2}
    BY <1>2, <1>3, <2>3 DEF IsConfig, PerDatum
  <2>5. PICK n \in Nat : n = a * b /\ n > 0
    <3>1. a * b \in Nat /\ a * b > 0
      BY <2>4
    <3> QED BY <3>1
  <2>6. IsSeq(Span(1, n)) /\ Len(Span(1, n)) = n - 1 + 1
    <3>1. 1 \in Int /\ n \in Int /\ 1 <= n + 1
      OBVIOUS
    <3> QED BY ONLY <3>1, SpanIsSeq
  <2>7. IsSeq(batch) /\ Len(batch) > 0
    BY <2>1, <2>3, <2>5, <2>6
  <2> QED BY <1>1, <2>2, <2>7 DEF DataInv, Early
<1>4. CASE config.program \notin Offline
  <2>1. pc \in {"evaluate", "async", "generate"}
    BY <1>4 DEF Init
  <2> QED BY <1>1, <1>4, <2>1 DEF DataInv, Calls, Losses
<1> QED BY <1>3, <1>4

\* The rollout of a batch.
LEMMA RolloutData == ASSUME DataInv, Rollout PROVE DataInv'
<1>1. validated' = validated
  BY DEF Rollout, policyVars, dataVars
<1> USE DEF Early, Calls, Losses
<1>2. CASE GenerateTurn
  <2>1. UNCHANGED <<config, batch>> /\ pc = "generate" /\ pc' = "environment"
    BY <1>2 DEF GenerateTurn
  <2> QED BY <1>1, <2>1, DataKept
<1>3. CASE EnvironmentTurn
  <2>1. UNCHANGED <<config, batch>> /\ pc = "environment" /\ pc' = "generate"
    BY <1>3 DEF EnvironmentTurn
  <2> QED BY <1>1, <2>1, DataKept
<1>4. CASE RolloutRaises
  <2>1. UNCHANGED <<config, batch>> /\ pc' = "raised"
    BY <1>4 DEF RolloutRaises, rolloutVars
  <2> QED BY <1>1, <2>1, DataKept
<1>5. CASE CodeFails
  <2>1. UNCHANGED <<config, batch>> /\ pc' = "failed"
    BY <1>5 DEF CodeFails, rolloutVars
  <2> QED BY <1>1, <2>1, DataKept
<1>6. CASE FinishSyncRollout \/ FinishAsyncRollout
  <2>1. config' = config /\ pc \in Early /\ batch' = [i \in Samples |-> i] /\ pc' = "mask"
    BY <1>6 DEF FinishSyncRollout, FinishAsyncRollout
  <2>2. validated = 0 /\ config.program \notin Offline
    BY <2>1 DEF DataInv
  <2>3. IsSeq(batch') /\ Len(batch') > 0
    BY <2>1, <2>2, AllSamples
  <2> QED BY <1>1, <2>1, <2>2, <2>3 DEF DataInv
<1>7. CASE \E i \in Samples : SampleTurn(i) \/ GenerationFails(i)
  <2>1. UNCHANGED <<config, batch, pc>>
    BY <1>7 DEF SampleTurn, GenerationFails
  <2> QED BY <1>1, <2>1, DataKept DEF DataInv
<1> QED BY <1>2, <1>3, <1>4, <1>5, <1>6, <1>7 DEF Rollout, RolloutStep

\* An evaluation.
LEMMA EvaluateData == ASSUME DataInv, Evaluate PROVE DataInv'
<1>1. validated' = validated /\ config' = config
  BY DEF Evaluate, EvaluationStep, policyVars, dataVars
<1> USE DEF Early, Calls, Losses
<1>2. CASE NextEvaluationBatch
  <2>1. pc = "evaluate" /\ pc' \in {"texts", "texts_async"}
    BY <1>2 DEF NextEvaluationBatch
  <2>2. validated = 0 /\ config.program \notin Offline
    BY <2>1 DEF DataInv
  <2> QED BY <1>1, <2>1, <2>2 DEF DataInv
<1>3. CASE ~NextEvaluationBatch
  <2>1. /\ batch' = batch
        /\ pc' \in Early => pc \in Early
        /\ pc' \in {"verify", "texts_async", "score", "evaluate", "evaluated", "raised", "failed"}
    BY <1>3 DEF Evaluate, EvaluationStep, GenerateTexts, TextArrives, AllTextsHere, TextFails, Verify, AddScore,
                ScoreRefused, FinishEvaluation, TakeTexts
  <2> QED BY <1>1, <2>1, DataKept
<1> QED BY <1>2, <1>3

-----------------------------------------------------------------------------
(* The rows of a validation. *)

\* The smaller of two numbers.
LEMMA MinOfTwo ==
  ASSUME NEW a \in Nat, NEW b \in Nat
  PROVE  Min({a, b}) \in {a, b} /\ Min({a, b}) <= a /\ Min({a, b}) <= b
<1>1. \E x \in {a, b} : \A y \in {a, b} : x <= y
  <2>1. a <= b \/ b <= a
    OBVIOUS
  <2> QED BY <2>1
<1> QED BY <1>1 DEF Min

\* A multiple, by what it is divided by.
LEMMA MultipleIs == ASSUME NEW a \in Nat, NEW b \in Nat \ {0}, a % b = 0 PROVE \E q \in Nat : a = q * b
<1>1. a = (a \div b) * b /\ a \div b \in Nat
  OBVIOUS
<1> QED BY <1>1

\* The next rows of the validation set.
LEMMA ValidationRowsAre ==
  ASSUME DataInv, pc = "validation", validated * config.val.batch < Len(config.val.data)
  PROVE  \E items \in Nat \ {0} :
            /\ IsSeq(ValidationRows(validated + 1)) /\ Len(ValidationRows(validated + 1)) = items * PerDatum
            /\ items <= config.val.batch
<1>1. IsConfig(config) /\ config.mesh.dp \in Nat \ {0}
  BY PolicyCalled
<1>2. config.val.batch \in Nat \ {0} /\ Len(config.val.data) \in Nat
  BY <1>1 DEF IsConfig
<1>3. validated \in Nat
  BY DEF DataInv
<1>4. PICK vb, done, p : vb = config.val.batch /\ done = validated * vb /\ p = PerDatum
  OBVIOUS
<1>5. vb \in Nat \ {0} /\ done \in Nat /\ p \in {1, 2} /\ done < Len(config.val.data)
  BY <1>2, <1>3, <1>4 DEF PerDatum
<1>6. PICK left : left = Len(config.val.data) - done
  OBVIOUS
<1>7. left \in Nat \ {0}
  BY <1>2, <1>5, <1>6
<1>8. PICK items : items = Min({vb, left})
  OBVIOUS
<1>9. items \in Nat \ {0} /\ items <= vb
  <2>1. vb \in Nat /\ left \in Nat
    BY <1>5, <1>7
  <2>2. Min({vb, left}) \in {vb, left} /\ Min({vb, left}) <= vb /\ Min({vb, left}) <= left
    BY ONLY <2>1, MinOfTwo
  <2> QED BY <1>5, <1>7, <1>8, <2>2
<1>10. PICK size, begin : size = Len(config.data) /\ begin = size + done
  OBVIOUS
<1>11. begin \in Int
  <2>1. Len(config.data) \in Nat
    BY <1>1 DEF IsConfig
  <2> QED BY <1>5, <1>10, <2>1
<1>12. ValidationRows(validated + 1) = Span(begin * p + 1, (begin + items) * p)
  <2>1. PICK j : j = validated + 1
    OBVIOUS
  <2>2. PICK a : a = j - 1
    OBVIOUS
  <2>3. a = validated
    BY <1>3, <2>1, <2>2
  <2>4. ValidationRows(j)
          = LET first == size + a * vb
                count == Min({vb, Len(config.val.data) - a * vb})
            IN  Span(first * p + 1, (first + count) * p)
    BY ONLY <1>4, <1>10, <2>2 DEF ValidationRows
  <2>5. ValidationRows(j) = Span(begin * p + 1, (begin + items) * p)
    BY ONLY <1>4, <1>6, <1>8, <1>10, <2>3, <2>4
  <2> QED BY ONLY <2>1, <2>5
<1>13. PICK from, to : from = begin * p + 1 /\ to = (begin + items) * p
  OBVIOUS
<1>14. from \in Int /\ to \in Int /\ to - from + 1 = items * p /\ from <= to + 1
  <2>1. p = 1 \/ p = 2
    BY <1>5
  <2>2. CASE p = 1
    BY <1>9, <1>11, <1>13, <2>2
  <2>3. CASE p = 2
    BY <1>9, <1>11, <1>13, <2>3
  <2> QED BY <2>1, <2>2, <2>3
<1>15. IsSeq(Span(from, to)) /\ Len(Span(from, to)) = to - from + 1
  BY ONLY <1>14, SpanIsSeq
<1> QED BY <1>4, <1>9, <1>12, <1>13, <1>14, <1>15

-----------------------------------------------------------------------------
(* The batches of a validation, and every step. *)

\* A multiple of a product is one of its factor.
LEMMA FactorOfMultiple ==
  ASSUME NEW q \in Nat, NEW dp \in Nat, NEW k \in Nat
  PROVE  \E m \in Nat : q * (k * dp) = m * dp
<1>1. PICK m \in Nat : m = q * k
  OBVIOUS
<1>2. q * (k * dp) = m * dp
  BY <1>1
<1> QED BY <1>2

\* A batch that is filled up.
LEMMA PaddedRows ==
  ASSUME NEW ids, IsSeq(ids), NEW dp \in Nat \ {0}, NEW mbs \in Nat \ {0}
  PROVE  /\ IsSeq(PadLastBatch(ids, dp, mbs)) /\ Len(PadLastBatch(ids, dp, mbs)) >= Len(ids)
         /\ \E m \in Nat : Len(PadLastBatch(ids, dp, mbs)) = m * dp
<1>1. PICK n, unit : n = Len(ids) /\ unit = mbs * dp
  OBVIOUS
<1>2. n \in Nat
  BY <1>1 DEF IsSeq
<1>3. unit \in Nat \ {0}
  BY <1>1
<1>4. /\ n <= RoundUp(n, unit) /\ RoundUp(n, unit) \in Nat
      /\ \E q \in Nat : RoundUp(n, unit) = q * unit
  BY ONLY <1>2, <1>3, RoundedUp
<1>5. PICK more \in Nat : more = RoundUp(n, unit) - n
  BY <1>2, <1>4
<1>6. PICK f : f = [k \in 1..more |-> ids[n]]
  OBVIOUS
<1>7. IsSeq(f) /\ Len(f) = more
  <2>1. f = [k \in 1..more |-> f[k]]
    BY <1>6
  <2> QED BY ONLY <2>1, more \in Nat, FunctionIsSeq
<1>8. PadLastBatch(ids, dp, mbs) = ids \o f
  BY <1>1, <1>5, <1>6 DEF PadLastBatch
<1>9. IsSeq(ids \o f) /\ Len(ids \o f) = Len(ids) + Len(f)
  BY <1>7, ConcatSeq
<1>10. Len(ids \o f) = RoundUp(n, unit)
  BY <1>1, <1>2, <1>4, <1>5, <1>7, <1>9
<1>11. PICK q \in Nat : RoundUp(n, unit) = q * (mbs * dp)
  BY <1>1, <1>4
<1>12. \E m \in Nat : q * (mbs * dp) = m * dp
  BY ONLY q \in Nat, dp \in Nat \ {0}, mbs \in Nat \ {0}, FactorOfMultiple
<1> QED BY <1>1, <1>4, <1>8, <1>9, <1>10, <1>11, <1>12

\* The next batch of the validation.
LEMMA ValidationData == ASSUME DataInv, NextValidationBatch PROVE DataInv'
<1>1. /\ pc = "validation" /\ validated * config.val.batch < Len(config.val.data)
      /\ validated' = validated + 1 /\ config' = config
      /\ pc' \in {"get_reference_policy_logprobs", "validate"}
  BY DEF NextValidationBatch
<1>2. PICK ids : /\ ids = ValidationRows(validated + 1)
                 /\ batch' = IF IsPartial(Len(ids)) THEN PadLastBatch(ids, Dp, config.val.microBatch * PerDatum) ELSE ids
  BY DEF NextValidationBatch
<1>3. \E items \in Nat \ {0} :
            /\ IsSeq(ValidationRows(validated + 1)) /\ Len(ValidationRows(validated + 1)) = items * PerDatum
            /\ items <= config.val.batch
  BY <1>1, ValidationRowsAre
<1>4. PICK items \in Nat \ {0} : IsSeq(ids) /\ Len(ids) = items * PerDatum /\ items <= config.val.batch
  BY <1>2, <1>3
<1>5. IsConfig(config) /\ Dp \in Nat \ {0} /\ Dp = config.mesh.dp
  BY <1>1, PolicyCalled
<1>6. PICK vb \in Nat \ {0}, mb \in Nat \ {0}, p \in Nat \ {0}, dp \in Nat \ {0} :
         vb = config.val.batch /\ mb = config.val.microBatch /\ p = PerDatum /\ dp = Dp
  <2>1. {config.val.batch, config.val.microBatch} \subseteq Nat \ {0}
    BY <1>5 DEF IsConfig
  <2>2. PerDatum \in Nat \ {0}
    BY DEF PerDatum
  <2> QED BY <1>5, <2>1, <2>2
<1>7. vb % (dp * mb) = 0
  BY <1>5, <1>6 DEF IsConfig
<1>8. PICK size \in Nat \ {0} : size = Len(ids) /\ size = items * p
  <2>1. items * p \in Nat \ {0}
    OBVIOUS
  <2> QED BY <1>4, <1>6, <2>1
<1>9. PICK step \in Nat \ {0} : step = mb * p
  <2>1. mb * p \in Nat \ {0}
    OBVIOUS
  <2> QED BY <2>1
<1>10. IsSeq(batch') /\ Len(batch') > 0 /\ \E m \in Nat : Len(batch') = m * dp
  <2>1. CASE IsPartial(Len(ids))
    <3>1. batch' = PadLastBatch(ids, dp, step)
      BY <1>2, <1>6, <1>9, <2>1
    <3>2. /\ IsSeq(PadLastBatch(ids, dp, step)) /\ Len(PadLastBatch(ids, dp, step)) >= Len(ids)
          /\ \E m \in Nat : Len(PadLastBatch(ids, dp, step)) = m * dp
      BY ONLY <1>4, dp \in Nat \ {0}, step \in Nat \ {0}, PaddedRows
    <3>3. PICK m \in Nat : Len(batch') = m * dp /\ Len(batch') >= size
      BY <1>8, <3>1, <3>2
    <3>4. m * dp \in Nat
      OBVIOUS
    <3> QED BY <3>1, <3>2, <3>3, <3>4
  <2>2. CASE ~IsPartial(Len(ids)) /\ config.program = "dpo"
    <3>1. PICK unit \in Nat \ {0} : unit = dp * mb * p
      <4>1. dp * mb \in Nat \ {0}
        OBVIOUS
      <4>2. dp * mb * p \in Nat \ {0}
        BY <4>1
      <4> QED BY <4>2
    <3>2. size % unit = 0
      BY <1>6, <1>8, <2>2, <3>1 DEF IsPartial
    <3>3. PICK q \in Nat : size = q * unit
      BY <3>2, MultipleIs
    <3>4. unit = step * dp
      BY <1>9, <3>1
    <3>5. \E m \in Nat : q * (step * dp) = m * dp
      BY FactorOfMultiple
    <3> QED BY <1>2, <1>4, <1>8, <2>2, <3>3, <3>4, <3>5
  <2>3. CASE ~IsPartial(Len(ids)) /\ config.program # "dpo"
    <3>1. ~(items * p < vb * p)
      BY <1>6, <1>8, <2>3 DEF IsPartial
    <3>2. items = vb
      <4>1. items <= vb
        BY <1>4, <1>6
      <4>2. p = 1 \/ p = 2
        BY <1>6 DEF PerDatum
      <4> QED BY <3>1, <4>1, <4>2
    <3>3. PICK unit \in Nat \ {0} : unit = dp * mb
      <4>1. dp * mb \in Nat \ {0}
        OBVIOUS
      <4> QED BY <4>1
    <3>4. vb % unit = 0
      BY <1>7, <3>3
    <3>5. PICK q \in Nat : vb = q * unit
      BY <3>4, MultipleIs
    <3>6. PICK r \in Nat : r = p * q
      OBVIOUS
    <3>7. size = r * (mb * dp)
      <4>1. vb = q * (mb * dp)
        BY <3>3, <3>5
      <4>2. size = p * vb
        BY <1>8, <3>2
      <4> QED BY <3>6, <4>1, <4>2
    <3>8. \E m \in Nat : r * (mb * dp) = m * dp
      BY FactorOfMultiple
    <3> QED BY <1>2, <1>4, <1>8, <2>3, <3>7, <3>8
  <2> QED BY <2>1, <2>2, <2>3
<1>11. validated \in Nat
  BY DEF DataInv
<1> QED BY <1>1, <1>5, <1>6, <1>10, <1>11 DEF DataInv, Early

\* Every step keeps it.
LEMMA NextData == ASSUME DataInv, [Next]_vars PROVE DataInv'
<1> USE DEF Early, Calls, Losses
<1>1. CASE UNCHANGED vars
  <2>1. UNCHANGED <<config, batch, validated, pc>>
    BY <1>1 DEF vars, policyVars, dataVars, rolloutVars
  <2> QED BY <2>1, DataKept DEF DataInv
<1>2. CASE Evaluate
  BY <1>2, EvaluateData
<1>3. CASE Stopped
  <2>1. UNCHANGED <<config, batch, validated, pc>>
    BY <1>3 DEF Stopped, vars, policyVars, dataVars, rolloutVars
  <2> QED BY <2>1, DataKept DEF DataInv
<1>4. CASE TrainingStep
  <2>1. CASE Rollout
    BY <2>1, RolloutData
  <2>2. CASE NextValidationBatch
    BY <2>2, ValidationData
  <2>3. CASE MaskTruncated
    <3>1. UNCHANGED <<config, batch, validated>> /\ pc = "mask" /\ pc' \in {"get_topk_logits", "get_logprobs"}
      BY <2>3 DEF MaskTruncated, rolloutVars
    <3> QED BY <3>1, DataKept
  <2>4. CASE StartCall
    <3>1. UNCHANGED <<config, batch, pc>>
      BY <2>4 DEF StartCall, rolloutVars
    <3>2. validated' = validated
      BY <2>4 DEF StartCall, Dispatch, dataVars
    <3> QED BY <3>1, <3>2, DataKept DEF DataInv
  <2>5. CASE CallRaises \/ AdvantagesRaise \/ WorkRaises
    <3>1. UNCHANGED <<config, batch>> /\ pc' = "raised"
      BY <2>5 DEF CallRaises, AdvantagesRaise, WorkRaises, rolloutVars
    <3>2. validated' = validated
      BY <2>5 DEF CallRaises, AdvantagesRaise, WorkRaises, DispatchFails, CallStepRaises, policyVars, dataVars
    <3> QED BY <3>1, <3>2, DataKept
  <2>6. CASE Work
    <3>1. UNCHANGED <<config, batch, pc>>
      BY <2>6 DEF Work, rolloutVars
    <3>2. validated' = validated
      BY <2>6 DEF Work, CallStep, SwapWeights, Compute, ReduceValid, OptimizerStep, ReduceLoss, MeetOnly, dataVars
    <3> QED BY <3>1, <3>2, DataKept DEF DataInv
  <2>7. CASE TakeLogprobs \/ TakeTopkLogits
    <3>1. /\ UNCHANGED <<config, batch, validated>> /\ pc \in Calls
          /\ pc' \in {"train", "get_reference_policy_logprobs"}
      BY <2>7 DEF TakeLogprobs, TakeTopkLogits, FinishCall, rolloutVars
    <3> QED BY <3>1, DataKept
  <2>8. CASE TakeReferenceLogprobs
    <3>1. UNCHANGED <<config, batch, validated>> /\ pc \in Calls /\ pc' = LossCall
      BY <2>8 DEF TakeReferenceLogprobs, FinishCall, rolloutVars
    <3>2. pc' \in {"train", "validate"} /\ (pc' = "validate" => validated > 0)
      BY <3>1 DEF LossCall
    <3> QED BY <3>1, <3>2, DataKept
  <2>9. CASE FinishPass \/ FinishValidation
    <3>1. /\ UNCHANGED <<config, batch, validated>> /\ pc \in Calls
          /\ pc' \in {"train", "validation"}
      BY <2>9 DEF FinishPass, FinishValidation, FinishCall, rolloutVars
    <3> QED BY <3>1, DataKept
  <2>10. CASE EndStep
    <3>1. UNCHANGED <<config, batch, validated>> /\ pc' = "done"
      BY <2>10 DEF EndStep, rolloutVars, policyVars, dataVars
    <3> QED BY <3>1, DataKept
  <2> QED BY <1>4, <2>1, <2>2, <2>3, <2>4, <2>5, <2>6, <2>7, <2>8, <2>9, <2>10 DEF TrainingStep
<1> QED BY <1>1, <1>2, <1>3, <1>4 DEF Next

-----------------------------------------------------------------------------
(* What holds while a call runs. *)

\* Those who take part in an operation agree on who does.
LEMMA ParticipantsAgree ==
  ASSUME NEW w \in Ranks, NEW op, NEW v \in Participants(w, op)
  PROVE  v \in Ranks /\ w \in Participants(v, op) /\ Participants(v, op) = Participants(w, op)
<1> DEFINE cp(u) == Coordinate(Mesh, u, "context_parallel")
           tp(u) == Coordinate(Mesh, u, "tensor_parallel")
<1>1. /\ \A u \in Ranks : ModelGroup(u) = {x \in Ranks : ShardOf(x) = ShardOf(u)}
      /\ \A u \in Ranks : LayerGroup(u) = {x \in Ranks : ShardOf(x) = ShardOf(u) /\ cp(x) = cp(u)}
      /\ \A u \in Ranks : Pipeline(u) = {x \in Ranks : ShardOf(x) = ShardOf(u) /\ cp(x) = cp(u) /\ tp(x) = tp(u)}
  BY DEF ModelGroup, LayerGroup, Pipeline
<1> HIDE DEF cp, tp
<1>2. CASE op \in {"swap", "restore"}
  <2>1. \A u \in Ranks : Participants(u, op) = {u}
    BY <1>2 DEF Participants
  <2> QED BY <2>1
<1>3. CASE op = "gather"
  <2>1. \A u \in Ranks : Participants(u, op) = LayerGroup(u)
    BY <1>3 DEF Participants
  <2> QED BY <1>1, <2>1
<1>4. CASE op = "broadcast"
  <2>1. \A u \in Ranks : Participants(u, op) = Pipeline(u)
    BY <1>4 DEF Participants
  <2> QED BY <1>1, <2>1
<1>5. CASE op = "micro" /\ ~ShardedOverReplicas
  <2>1. \A u \in Ranks : Participants(u, op) = ModelGroup(u)
    BY <1>5 DEF Participants
  <2> QED BY <1>1, <2>1
<1>6. CASE op \notin {"swap", "restore", "gather", "broadcast"} /\ ~(op = "micro" /\ ~ShardedOverReplicas)
  <2>1. \A u \in Ranks : Participants(u, op) = Ranks
    BY <1>6 DEF Participants
  <2> QED BY <2>1
<1> QED BY <1>2, <1>3, <1>4, <1>5, <1>6

\* While a call runs the workers have the same operations before them; what a worker
\* has done all who take part in it have done.
InStep ==
  /\ \A w \in Ranks : at[w] \in Nat \ {0} /\ at[w] <= Len(program[w]) + 1
  /\ \A v, w \in Ranks : SameOps(program[v], program[w])
  /\ \A w \in Ranks : \A k \in 1..(at[w] - 1) : \A v \in Participants(w, program[w][k].op) : at[v] > k
CallInv == call # NoCall => pc \in Calls /\ InStep

\* Workers that take part in an operation that one of them is at are all at it, or
\* have yet to come to it.
LEMMA NobodyAhead ==
  ASSUME InStep, NEW w \in Ranks, Running(w), NEW v \in Participants(w, Current(w).op)
  PROVE  v \in Ranks /\ at[v] <= at[w]
<1>1. PICK k, op : k = at[w] /\ op = program[w][k].op
  OBVIOUS
<1>2. Current(w).op = op
  BY <1>1 DEF Current
<1>3. v \in Ranks /\ w \in Participants(v, op)
  BY <1>2, ParticipantsAgree
<1>4. k \in 1..Len(program[w]) /\ at[v] \in Nat /\ at[w] = k
  BY <1>1, <1>3 DEF InStep, Running
<1>5. program[v][k].op = op
  <2>1. SameOps(program[w], program[v])
    BY <1>3 DEF InStep
  <2> QED BY <1>1, <1>4, <2>1 DEF SameOps
<1>6. ASSUME at[v] > k PROVE FALSE
  <2>1. k \in 1..(at[v] - 1)
    BY <1>4, <1>6
  <2>2. at[w] > k
    BY <1>3, <1>5, <2>1 DEF InStep
  <2> QED BY <1>4, <2>2
<1> QED BY <1>3, <1>4, <1>6

\* While a call is not done there is an operation to which all its participants
\* have come: that of a worker that has done least.
LEMMA LeastIsReady ==
  ASSUME InStep, ~CallDone
  PROVE  \E w \in Ranks : Ready(w)
<1>1. PICK some \in Ranks : Running(some)
  BY DEF CallDone
<1> DEFINE T == {at[w] : w \in Ranks}
<1>2. T \subseteq Nat /\ T # {}
  BY <1>1 DEF InStep
<1> HIDE DEF T
<1>3. \E n \in T : \A m \in T : n <= m
  BY ONLY <1>2, Least
<1>4. PICK w \in Ranks : \A v \in Ranks : at[w] <= at[v]
  BY <1>3 DEF T
<1>5. /\ at[w] \in Nat /\ at[some] \in Nat /\ at[w] <= at[some]
      /\ Len(program[w]) = Len(program[some]) /\ Len(program[w]) \in Nat
  <2>1. SameOps(program[w], program[some])
    BY DEF InStep
  <2> QED BY <1>4, <2>1 DEF InStep, SameOps, IsSeq
<1>6. Running(w)
  BY <1>1, <1>5 DEF Running
<1>7. ASSUME NEW v \in Participants(w, Current(w).op)
      PROVE  Running(v) /\ Current(v).op = Current(w).op
  <2>1. v \in Ranks /\ at[v] <= at[w]
    BY <1>6, NobodyAhead
  <2>2. at[v] \in Nat /\ at[w] \in Nat \ {0} /\ at[w] <= at[v]
    BY <1>4, <2>1 DEF InStep
  <2>3. at[v] = at[w]
    BY <2>1, <2>2
  <2>4. SameOps(program[w], program[v])
    BY <2>1 DEF InStep
  <2>5. Len(program[w]) = Len(program[v]) /\ \A k \in 1..Len(program[w]) : program[w][k].op = program[v][k].op
    BY <2>4 DEF SameOps
  <2>6. at[w] \in 1..Len(program[w])
    BY <1>5, <1>6, <2>2 DEF Running
  <2>7. Running(v)
    BY <1>6, <2>3, <2>5 DEF Running
  <2>8. program[w][at[w]].op = program[v][at[w]].op
    BY <2>5, <2>6
  <2> QED BY <2>3, <2>7, <2>8 DEF Current
<1> QED BY <1>6, <1>7 DEF Ready

\* The participants of an operation do it together.
LEMMA MeetKeepsStep ==
  ASSUME InStep, NEW w \in Ranks, NEW op, Meet(w, op), UNCHANGED <<call, program, pc, config>>
  PROVE  InStep'
<1>1. Ranks' = Ranks /\ program' = program /\ \A x, o : Participants(x, o)' = Participants(x, o)
  BY DEF Ranks, Mesh, Acting, Participants, ShardedOverReplicas, ModelGroup, LayerGroup, Pipeline, ShardOf
<1>2. PICK group, k : group = Participants(w, op) /\ k = at[w]
  OBVIOUS
<1>3. /\ Running(w) /\ Current(w).op = op
      /\ \A v \in group : Running(v) /\ Current(v).op = op
      /\ at' = [v \in Ranks |-> IF v \in group THEN at[v] + 1 ELSE at[v]]
  BY <1>2 DEF Meet, Ready
<1>4. ASSUME NEW v \in group
      PROVE  v \in Ranks /\ Participants(v, op) = group /\ w \in group /\ at[v] = k
  <2>1. v \in Ranks /\ w \in Participants(v, op) /\ Participants(v, op) = Participants(w, op)
    BY <1>2, ParticipantsAgree
  <2>2. v \in Participants(w, Current(w).op) /\ w \in Participants(v, Current(v).op) /\ Running(v)
    BY <1>2, <1>3, <2>1
  <2>3. at[v] <= at[w]
    BY <1>3, <2>2, NobodyAhead
  <2>4. at[w] <= at[v]
    BY <2>1, <2>2, NobodyAhead
  <2>5. at[v] \in Nat /\ at[w] \in Nat
    BY <2>1 DEF InStep
  <2> QED BY <1>2, <2>1, <2>3, <2>4, <2>5
<1>5. \A x \in Ranks : at[x] \in Nat \ {0} /\ at[x] <= Len(program[x]) + 1 /\ Len(program[x]) \in Nat
  <2>1. \A x \in Ranks : SameOps(program[x], program[x])
    BY DEF InStep
  <2> QED BY <2>1 DEF InStep, SameOps, IsSeq
<1>6. \A x \in Ranks : /\ at'[x] \in {at[x], at[x] + 1}
                       /\ x \in group => at'[x] = at[x] + 1
                       /\ x \notin group => at'[x] = at[x]
  BY <1>3
<1>7. ASSUME NEW x \in Ranks PROVE at'[x] \in Nat \ {0} /\ at'[x] <= Len(program[x]) + 1
  <2>1. CASE x \in group
    <3>1. at[x] <= Len(program[x])
      BY <1>3, <2>1 DEF Running
    <3> QED BY <1>5, <1>6, <2>1, <3>1
  <2>2. CASE x \notin group
    BY <1>5, <1>6, <2>2
  <2> QED BY <2>1, <2>2
<1>8. ASSUME NEW x \in Ranks, NEW j \in 1..(at'[x] - 1), NEW y \in Participants(x, program[x][j].op)
      PROVE  at'[y] > j
  <2>1. y \in Ranks
    BY ParticipantsAgree
  <2>2. CASE j \in 1..(at[x] - 1)
    <3>1. at[y] > j
      BY <2>2 DEF InStep
    <3>2. at[y] \in Nat /\ at'[y] \in {at[y], at[y] + 1} /\ j \in Int
      BY <1>5, <1>6, <2>1, <2>2
    <3> QED BY <3>1, <3>2
  <2>3. CASE j \notin 1..(at[x] - 1)
    <3>1. j = at[x] /\ x \in group
      BY <1>5, <1>6, <2>3
    <3>2. program[x][j].op = op
      BY <1>3, <3>1 DEF Current
    <3>3. y \in group /\ at[x] = k
      BY <1>4, <3>1, <3>2
    <3>4. at[y] = k /\ at'[y] = at[y] + 1
      BY <1>4, <1>6, <2>1, <3>3
    <3> QED BY <1>5, <2>1, <3>1, <3>3, <3>4
  <2> QED BY <2>2, <2>3
<1>9. \A u, v \in Ranks : SameOps(program[u], program[v])
  BY DEF InStep
<1> QED BY <1>1, <1>7, <1>8, <1>9 DEF InStep

-----------------------------------------------------------------------------
(* The theorem. *)

\* A call begins.
LEMMA CallStarts == ASSUME DataInv, StartCall PROVE CallInv'
<1>1. pc \in Calls /\ Dispatch(pc) /\ UNCHANGED <<pc, config>>
  BY DEF StartCall, rolloutVars
<1>2. PICK sharding \in ShardingsFor(pc) : \E micros \in {Kept(Microbatches(sharding, pc))} :
        /\ program' = [w \in Ranks |-> Program(pc, sharding, micros, w)]
        /\ at' = [w \in Ranks |-> 1]
  BY <1>1 DEF Dispatch
<1>3. PICK micros : /\ micros = Kept(Microbatches(sharding, pc))
                    /\ program' = [w \in Ranks |-> Program(pc, sharding, micros, w)]
                    /\ at' = [w \in Ranks |-> 1]
  BY <1>2
<1>4. Ranks' = Ranks
  BY <1>1 DEF Ranks, Mesh, Acting
<1>5. ASSUME NEW v \in Ranks, NEW w \in Ranks
      PROVE  SameOps(program'[v], program'[w])
  <2>1. SameOps(Program(pc, sharding, micros, v), Program(pc, sharding, micros, w))
    BY <1>1, <1>3, ProgramsSame
  <2> QED BY <1>3, <2>1
<1>6. ASSUME NEW w \in Ranks
      PROVE  at'[w] \in Nat \ {0} /\ at'[w] <= Len(program'[w]) + 1 /\ 1..(at'[w] - 1) = {}
  <2>1. Len(program'[w]) \in Nat
    BY <1>5 DEF SameOps, IsSeq
  <2>2. at'[w] = 1
    BY <1>3
  <2> QED BY <2>1, <2>2
<1>7. InStep'
  <2>1. \A w \in Ranks' : \A k \in 1..(at'[w] - 1) : \A v \in Participants(w, program[w][k].op)' : at'[v] > k
    BY <1>4, <1>6
  <2> QED BY <1>4, <1>5, <1>6, <2>1 DEF InStep
<1> QED BY <1>1, <1>7 DEF CallInv

\* A step of a call.
LEMMA CallGoesOn == ASSUME CallInv, Work PROVE CallInv'
<1>1. call # NoCall /\ CallStep /\ UNCHANGED <<pc, config>>
  BY DEF Work, rolloutVars
<1>2. PICK w \in Ranks : SwapWeights(w) \/ Compute(w) \/ ReduceValid(w) \/ OptimizerStep(w) \/ ReduceLoss(w) \/ MeetOnly(w)
  BY <1>1 DEF CallStep
<1>3. \E op : Meet(w, op) /\ UNCHANGED <<call, program>>
  <2>1. CASE SwapWeights(w)
    BY <2>1 DEF SwapWeights
  <2>2. CASE Compute(w)
    BY <2>2 DEF Compute
  <2>3. CASE ReduceValid(w)
    BY <2>3 DEF ReduceValid
  <2>4. CASE OptimizerStep(w)
    BY <2>4 DEF OptimizerStep
  <2>5. CASE ReduceLoss(w)
    BY <2>5 DEF ReduceLoss
  <2>6. CASE MeetOnly(w)
    BY <2>6 DEF MeetOnly
  <2> QED BY <1>2, <2>1, <2>2, <2>3, <2>4, <2>5, <2>6
<1>4. PICK op : Meet(w, op) /\ UNCHANGED <<call, program>>
  BY <1>3
<1>5. pc \in Calls /\ InStep
  BY <1>1 DEF CallInv
<1>6. InStep'
  BY <1>1, <1>4, <1>5, MeetKeepsStep
<1> QED BY <1>1, <1>5, <1>6 DEF CallInv

\* A step of something else, while there is no call.
LEMMA NoCallKept == ASSUME CallInv, pc \notin Calls, call' = call PROVE CallInv'
BY DEF CallInv, NoCall

\* Every step keeps it.
LEMMA NextCall == ASSUME DataInv, CallInv, [Next]_vars PROVE CallInv'
<1>1. CASE UNCHANGED vars
  <2>1. UNCHANGED <<config, pc, call, program, at>>
    BY <1>1 DEF vars, policyVars, dataVars, rolloutVars
  <2>2. Ranks' = Ranks /\ \A x, o : Participants(x, o)' = Participants(x, o)
    BY <2>1 DEF Ranks, Mesh, Acting, Participants, ShardedOverReplicas, ModelGroup, LayerGroup, Pipeline, ShardOf
  <2>3. InStep => InStep'
    BY <2>1, <2>2 DEF InStep
  <2> QED BY <2>1, <2>3 DEF CallInv, NoCall
<1>2. CASE Stopped
  <2>1. call' = call /\ pc \notin Calls
    BY <1>2 DEF Stopped, vars, policyVars, Calls, Losses
  <2> QED BY <2>1, NoCallKept
<1>3. CASE Evaluate
  <2>1. call' = call /\ pc \in Early
    BY <1>3 DEF Evaluate, EvaluationStep, policyVars, Early, NextEvaluationBatch, GenerateTexts, TextArrives, AllTextsHere, TextFails,
                Verify, AddScore, ScoreRefused, FinishEvaluation, TakeTexts
  <2> QED BY <2>1, NoCallKept DEF Early, Calls, Losses
<1>4. CASE TrainingStep
  <2>1. CASE Rollout
    <3>1. call' = call /\ pc \in Early
      BY <2>1 DEF Rollout, RolloutStep, policyVars, Early, GenerateTurn, EnvironmentTurn, RolloutRaises, CodeFails, FinishSyncRollout,
                  FinishAsyncRollout, SampleTurn, GenerationFails
    <3> QED BY <3>1, NoCallKept DEF Early, Calls, Losses
  <2>2. CASE MaskTruncated \/ NextValidationBatch \/ EndStep
    <3>1. call' = call /\ pc \in {"mask", "validation"}
      BY <2>2 DEF MaskTruncated, NextValidationBatch, EndStep, policyVars
    <3> QED BY <3>1, NoCallKept DEF Calls, Losses
  <2>3. CASE StartCall
    BY <2>3, CallStarts
  <2>4. CASE Work
    BY <2>4, CallGoesOn
  <2>5. CASE CallRaises \/ AdvantagesRaise
    <3>1. call = NoCall /\ call' = call
      BY <2>5 DEF CallRaises, AdvantagesRaise, DispatchFails, policyVars
    <3> QED BY <3>1 DEF CallInv, NoCall
  <2>6. CASE WorkRaises
    BY <2>6 DEF WorkRaises, CallStepRaises, CallInv, NoCall
  <2>7. CASE TakeLogprobs \/ TakeReferenceLogprobs \/ TakeTopkLogits \/ FinishPass \/ FinishValidation
    BY <2>7 DEF TakeLogprobs, TakeReferenceLogprobs, TakeTopkLogits, FinishPass, FinishValidation, FinishCall, CallInv, NoCall
  <2> QED BY <1>4, <2>1, <2>2, <2>3, <2>4, <2>5, <2>6, <2>7 DEF TrainingStep
<1> QED BY <1>1, <1>2, <1>3, <1>4 DEF Next

\* No worker waits in an operation for one that is in another, or has finished.
THEOREM WorkersAlwaysMeet == Spec => []WorkersMeet
<1>1. Init => DataInv /\ CallInv
  BY InitData DEF Init, PolicyInit, CallInv
<1>2. DataInv /\ CallInv /\ [Next]_vars => (DataInv /\ CallInv)'
  BY NextData, NextCall
<1>3. CallInv => WorkersMeet
  BY LeastIsReady DEF CallInv, WorkersMeet
<1> QED BY <1>1, <1>2, <1>3, PTL DEF Spec
=============================================================================
