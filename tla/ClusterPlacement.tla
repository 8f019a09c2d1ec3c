-------------------------- MODULE ClusterPlacement --------------------------
(***************************************************************************)
(* RayVirtualCluster and the choice of the workers of a group: which       *)
(* devices the bundles of a cluster's placement groups lie on, and which   *)
(* bundles, in which order, the workers of a policy, of a vLLM engine      *)
(* group or of an SGLang server group take.                                *)
(*                                                                         *)
(* A device is <<node, gpu>>; a placement group is a sequence of devices,  *)
(* one per bundle; Ray's scheduler, which is not part of this code, is any *)
(* choice that honours the strategy.                                       *)
(***************************************************************************)
EXTENDS Integers, Sequences, FiniteSets, FiniteSetsExt, SequencesExt, Functions

\* A cluster is [nodes, perNode, capacity]: the length and the elements of
\* bundle_ct_per_node_list, which are all the same, and max_colocated_worker_groups.
Cluster(nodes, gpus, capacity) == [nodes |-> nodes, perNode |-> gpus, capacity |-> capacity]

WorldSize(cluster) == cluster.nodes * cluster.perNode

NodesOf(devices) == {d[1] : d \in devices}

Width(D) == Cardinality(NodesOf(D))

Even(D) ==
    LET load(node) == Cardinality({d \in D : d[1] = node})
    IN \A a, b \in NodesOf(D) : load(a) - load(b) \in {-1, 0, 1}

\* Ray, PACK: as few nodes as the free devices allow.
Packed(D, free) ==
    /\ D \subseteq free
    /\ \A E \in kSubset(Cardinality(D), free) : Width(D) <= Width(E)

\* Ray, SPREAD: as many nodes as the free devices allow, and then evenly.
Spread(D, free) ==
    LET choices == kSubset(Cardinality(D), free)
        widest == {E \in choices : \A F \in choices : Width(F) <= Width(E)}
        fair == {E \in widest : Even(E)}
    IN D \in (IF fair = {} THEN widest ELSE fair)

\* _create_placement_groups_internal: where the bundles of one group of all bundles, or
\* of one group per node, may lie; each group is packed on what the others have left.
Together(cluster, strategy, free) ==
    {<<D>> : D \in {E \in kSubset(WorldSize(cluster), free) :
                       IF strategy = "PACK" THEN Packed(E, free) ELSE Spread(E, free)}}

LeftBy(parts, i, free) == free \ UNION {parts[j] : j \in 1..(i - 1)}

PerNode(cluster, free) ==
    {parts \in [1..cluster.nodes -> kSubset(cluster.perNode, free)] :
        \A i \in 1..cluster.nodes : Packed(parts[i], LeftBy(parts, i, free))}

\* The orders in which the bundles of the groups may lie on their devices.
Orders(parts) ==
    {pgs \in [DOMAIN parts -> UNION {SetToSeqs(parts[i]) : i \in DOMAIN parts}] :
        \A i \in DOMAIN parts : pgs[i] \in SetToSeqs(parts[i])}

\* The placement groups that a cluster may get.
Placements(cluster, strategy, unified, free) ==
    UNION {Orders(parts) : parts \in IF unified THEN Together(cluster, strategy, free)
                                     ELSE PerNode(cluster, free)}

DeviceOf(pgs, pg, bundle) == IF Len(pgs) = 1 THEN pgs[1][bundle] ELSE pgs[pg][bundle]

DeviceBefore(d, e) == d[1] < e[1] \/ (d[1] = e[1] /\ d[2] < e[2])

-----------------------------------------------------------------------------
(* The bundles of a worker group: a sequence of tied groups                *)
(* [pg, bundles], each of which is one data-parallel shard.                *)

Tied(pg, bundles) == [pg |-> pg, bundles |-> bundles]

\* The placement groups of a cluster are of one length (every setup function asks for
\* the same number of devices on every node), and `size' consecutive bundles of a
\* placement group make a tied group.
SlicesPerNode(pgs, size) ==
    LET perNode == Len(pgs[1]) \div size
    IN [k \in 1..(Len(pgs) * perNode) |->
            LET first == ((k - 1) % perNode) * size
            IN Tied(((k - 1) \div perNode) + 1, [j \in 1..size |-> first + j])]

\* RayWorkerGroup.__init__ without bundle_indices_list.
OnePerBundle(pgs) == SlicesPerNode(pgs, 1)

\* The i-th member of a set, where `before' has for each member those before it.
Nth(S, i, before) == CHOOSE b \in S : Cardinality(before[b]) = i - 1

\* The numbers below each number of a set.
Below(S) == [b \in S |-> {c \in S : c < b}]

\* The bundles whose devices come before a bundle's own.
EarlierDevices(pg) ==
    [b \in DOMAIN pg |-> {c \in DOMAIN pg : DeviceBefore(pg[c], pg[b])}]

\* Wrong: the bundles in the order in which Ray placed them.
UnsortedBundles(pg) == [i \in DOMAIN pg |-> i]

\* _get_sorted_bundle_indices
SortedBundles(pg) == [i \in DOMAIN pg |-> Nth(DOMAIN pg, i, EarlierDevices(pg))]

\* Policy.__init__: over the bundles of a unified group in the order of the devices.
PolicyBundles(cluster, pgs, unified) ==
    IF ~unified THEN OnePerBundle(pgs)
    ELSE [i \in DOMAIN pgs[1] |->
             Tied(((i - 1) \div cluster.perNode) + 1, <<SortedBundles(pgs[1])[i]>>)]

\* get_node_bundles: the bundles of a node in their order.
NodeBundles(pg, node) == {b \in DOMAIN pg : pg[b][1] = node}

EvenNodes(pg) ==
    Cardinality({Cardinality(NodeBundles(pg, node)) : node \in NodesOf(Range(pg))}) = 1

\* allocate_worker_groups: the bundles node by node, cut into engines that may go from
\* one node to the next; an engine is counted to the node that it begins on.
EngineSlices(pg, size) ==
    LET nodes == NodesOf(Range(pg))
        perNode == Len(pg) \div Cardinality(nodes)
        index(i) == ((i - 1) \div perNode) + 1
        bundles(i) == NodeBundles(pg, Nth(nodes, index(i), Below(nodes)))
        flat(i) == Nth(bundles(i), ((i - 1) % perNode) + 1, Below(bundles(i)))
    IN [k \in 1..(Len(pg) \div size) |->
            Tied(index((k - 1) * size + 1), [j \in 1..size |-> flat((k - 1) * size + j)])]

\* VllmGeneration: <<>> where the code raises.
EngineBundles(pgs, size) ==
    IF size = 1 THEN OnePerBundle(pgs)
    ELSE IF Len(pgs) # 1 THEN SlicesPerNode(pgs, size)
    ELSE IF EvenNodes(pgs[1]) THEN EngineSlices(pgs[1], size) ELSE <<>>

\* SGLangGeneration._allocate_bundles_for_servers
ServerBundles(pgs, size, servers) ==
    LET all == SlicesPerNode(pgs, size)
    IN IF Len(all) < servers THEN <<>> ELSE SubSeq(all, 1, servers)

-----------------------------------------------------------------------------
(* _create_workers_from_bundle_indices *)

\* The workers in the order of their ranks (RANK = position - 1).
Workers(tied, pgs) ==
    LET size == Len(tied[1].bundles)
    IN [i \in 1..(Len(tied) * size) |->
            LET group == tied[((i - 1) \div size) + 1]
                bundle == group.bundles[((i - 1) % size) + 1]
            IN [shard |-> (i - 1) \div size,
                leader |-> (i - 1) % size = 0,
                nodeRank |-> group.pg - 1,
                bundle |-> bundle,
                size |-> size,
                device |-> DeviceOf(pgs, group.pg, bundle)]]

\* An SGLang server is shown all devices of its node and counts from the number of its
\* first bundle; a worker of a diffusion policy is shown the one device of its node that
\* has the number of its bundle.
PinnedKinds == {"sglang", "diffusion"}

\* The device that a process of a worker runs on, whether its node has it or not.
DeviceUsed(w, kind) ==
    IF kind \in PinnedKinds THEN <<w.device[1], w.bundle>> ELSE w.device

\* The address that the group meets at is a port of the node of the first bundle.
MasterNode(pgs, unified) ==
    IF unified THEN pgs[1][SortedBundles(pgs[1])[1]][1] ELSE pgs[1][1][1]

\* VllmGenerationWorker.configure_worker: the seed of a leader's engine.
Seed(w) == w.nodeRank * 1024
           + (IF w.size = 1 THEN w.bundle - 1 ELSE (w.bundle - 1) \div w.size)

\* What a worker, or each process of its engine, takes of a device, in parts of a
\* device: Ray gives a worker a share of its own, vLLM divides the share of a tied
\* group among its processes, and neither an SGLang server nor a worker that is pinned to
\* its device takes anything that Ray counts.
Part == 48
Share(kind, cluster, size) ==
    CASE kind = "vllm" -> Part \div (cluster.capacity * size)
      [] kind = "diffusion" \/ (kind = "sglang" /\ size > 1) -> 0
      [] OTHER -> Part \div cluster.capacity
=============================================================================
