--------------------------- MODULE StartupProperties ---------------------------
(***************************************************************************)
(* What the start of a run must establish, and the configurations that are *)
(* started.                                                                *)
(***************************************************************************)
EXTENDS Startup

-----------------------------------------------------------------------------
(* Configurations *)

Plain ==
    [program |-> "grpo", policy |-> "dtensor_v2", mp |-> 1, gen |-> "vllm", gmp |-> 1,
     colocated |-> TRUE, nodes |-> 1, gpus |-> 2, infNodes |-> 0, infGpus |-> 0,
     rmNodes |-> 0, rmGpus |-> 0, vals |-> 0, resume |-> FALSE, clash |-> "none",
     packs |-> FALSE, files |-> "none", sameVocab |-> TRUE, budgeted |-> {"val 1", "val 2"}]

TwoNodes == [Plain EXCEPT !.nodes = 2]
Split == [Plain EXCEPT !.colocated = FALSE, !.infGpus = 1]
SplitNodes == [TwoNodes EXCEPT !.colocated = FALSE, !.infNodes = 1, !.infGpus = 2]
Distillation == [Plain EXCEPT !.program = "distillation", !.policy = "dtensor_v1"]

GrpoMixes == <<
    Plain,
    [Plain EXCEPT !.policy = "dtensor_v1", !.resume = TRUE, !.gmp = 2, !.vals = 1],
    [Plain EXCEPT !.policy = "megatron", !.mp = 2, !.gen = "megatron"],
    [Plain EXCEPT !.policy = "megatron", !.resume = TRUE, !.files = "whole", !.vals = 1],
    [Plain EXCEPT !.gen = "sglang", !.gmp = 2, !.vals = 2, !.resume = TRUE],
    [Plain EXCEPT !.rmNodes = 1, !.rmGpus = 1],
    [TwoNodes EXCEPT !.gmp = 4, !.mp = 2, !.policy = "dtensor_v1"],
    [TwoNodes EXCEPT !.gmp = 2, !.mp = 4],
    [TwoNodes EXCEPT !.rmNodes = 1, !.rmGpus = 2],
    [Plain EXCEPT !.policy = "diffusion", !.gen = "sglang", !.resume = TRUE],
    [TwoNodes EXCEPT !.policy = "diffusion"],
    [Plain EXCEPT !.gen = "sglang", !.rmNodes = 1, !.rmGpus = 1] >>

SplitMixes == <<
    Split,
    [Split EXCEPT !.vals = 2, !.resume = TRUE, !.policy = "megatron"],
    [Split EXCEPT !.gpus = 3, !.infGpus = 2, !.gmp = 2],
    [Split EXCEPT !.gpus = 3, !.rmNodes = 1, !.rmGpus = 1],
    SplitNodes,
    [SplitNodes EXCEPT !.nodes = 3, !.infNodes = 2, !.gpus = 1, !.infGpus = 1,
                       !.gmp = 2, !.vals = 1],
    [SplitNodes EXCEPT !.policy = "diffusion"],
    [TwoNodes EXCEPT !.colocated = FALSE, !.infGpus = 1, !.rmNodes = 1, !.rmGpus = 2] >>

\* Clusters that share a node with a group whose processes are pinned by bundle numbers.
PinnedMixes == <<
    [Split EXCEPT !.policy = "diffusion"],
    [Split EXCEPT !.policy = "diffusion", !.gpus = 3, !.infGpus = 2, !.gmp = 2] >>

\* SGLang on devices of its own, which nothing refuses without validation groups,
\* though it "has no non-colocated refit path at all" (grpo.py:707).
ServerMixes == << [Split EXCEPT !.gen = "sglang"] >>

OtherMixes == <<
    [Distillation EXCEPT !.resume = TRUE],
    [Distillation EXCEPT !.colocated = FALSE, !.infGpus = 1, !.policy = "dtensor_v2"],
    [Plain EXCEPT !.program = "sft", !.policy = "megatron", !.mp = 2],
    [Plain EXCEPT !.program = "dpo", !.policy = "dtensor_v1", !.resume = TRUE],
    [TwoNodes EXCEPT !.program = "rm", !.gen = "none", !.mp = 2],
    [Plain EXCEPT !.program = "eval", !.gmp = 2] >>

\* Configurations that are refused, or fail as soon as their workers meet them.
FailingMixes == <<
    [Plain EXCEPT !.policy = "megatron", !.files = "partial"],
    [Plain EXCEPT !.clash = "packing"],
    [Plain EXCEPT !.clash = "sequence"],
    [Plain EXCEPT !.clash = "sequence", !.policy = "dtensor_v1"],
    [TwoNodes EXCEPT !.policy = "diffusion", !.gpus = 1, !.gmp = 2],
    [Plain EXCEPT !.mp = 3],
    [Split EXCEPT !.gmp = 2],
    [TwoNodes EXCEPT !.gpus = 3, !.gmp = 2],
    [Split EXCEPT !.infGpus = 2],
    [SplitNodes EXCEPT !.infGpus = 1],
    [Split EXCEPT !.gen = "sglang", !.vals = 1],
    [TwoNodes EXCEPT !.rmNodes = 2, !.rmGpus = 2],
    [TwoNodes EXCEPT !.program = "distillation", !.gmp = 4],
    [Plain EXCEPT !.program = "eval", !.gen = "sglang"],
    [Plain EXCEPT !.vals = 2, !.budgeted = {"val 1"}],
    [Distillation EXCEPT !.sameVocab = FALSE],
    [Plain EXCEPT !.program = "dpo", !.packs = TRUE] >>

\* A program that goes on from a checkpoint, with each kind of policy.
ResumedMixes == <<
    [Plain EXCEPT !.resume = TRUE],
    [Plain EXCEPT !.resume = TRUE, !.policy = "dtensor_v1"],
    [Plain EXCEPT !.resume = TRUE, !.policy = "megatron"] >>

AllMixes ==
    GrpoMixes \o SplitMixes \o PinnedMixes \o ServerMixes \o OtherMixes \o FailingMixes

-----------------------------------------------------------------------------
(* Properties *)

Created(g) == crew[g] # <<>>

\* The weights that a run goes on with.
StartsFrom == IF mix.resume THEN "checkpoint" ELSE "base"

PolicyIsLoaded ==
    Created("policy") =>
        \A r \in Ranks("policy") : IsUp("policy", r) /\ crew["policy"][r].weights = StartsFrom

\* Every start ends: with an exception, or with all ranks of the policy up and holding
\* the weights the run goes on with, and all engine groups connected that are refitted
\* over NCCL.  Nothing waits for a device that is not given back, for a rank that has
\* gone another way, or for a thread that has failed.
SetupEnds ==
    <>[](\/ Failing
         \/ /\ Done /\ PolicyIsLoaded
            /\ (mix.program = "grpo" /\ ~mix.colocated) =>
                 Refitted(mix) = connected)

\* Ray has put each placement group of a cluster on a node of its own.  It packs the
\* groups that are asked for node by node, but it may still divide one among nodes, or
\* put two on one node.
OnOwnNodes(pgs) ==
    /\ \A i \in DOMAIN pgs : Cardinality(NodesOf(Range(pgs[i]))) = 1
    /\ \A i, j \in DOMAIN pgs : i # j => NodesOf(Range(pgs[i])) # NodesOf(Range(pgs[j]))

\* The ranks of a group lie on devices of their own; no two engines of a group sample
\* with the same seed; the workers of a policy meet at an address of the node of its
\* rank 0.  And, as long as its cluster is one placement group over the nodes, or Ray
\* has put each of its placement groups on a node of its own: NODE_RANK is the same for
\* two ranks of one node and differs between nodes; an engine that fits on a node does
\* not leave it, nor does a model-parallel group of the policy.
RanksAreWhole ==
    \A g \in GroupNames :
        LET place(r) == crew[g][r].place
            node(r) == place(r).device[1]
            perNode == ClusterRecord(g).perNode
            cells == IF IsEngine(TypeOf(g)) THEN TypeOf(g).size ELSE mix.mp
            where == placed[ClusterOf(mix, g)]
            lies == where.unified \/ OnOwnNodes(where.pgs)
        IN /\ (~IsEngine(TypeOf(g)) /\ Ranks(g) # {}) =>
                MasterNode(where.pgs, where.unified) = node(1)
           /\ \A q, r \in Ranks(g) :
                q # r =>
                  /\ place(q).device # place(r).device
                  /\ (q \in Leaders(g) /\ r \in Leaders(g)) =>
                       /\ lies =>
                            (place(q).nodeRank = place(r).nodeRank) = (node(q) = node(r))
                       /\ IsEngine(TypeOf(g)) => Seed(place(q)) # Seed(place(r))
                  /\ (/\ lies /\ g # "reward" /\ perNode % cells = 0
                      /\ (q - 1) \div cells = (r - 1) \div cells)
                     => node(q) = node(r)

\* The collective of each refit is on a port that no other collective has, and, for
\* engines that join it, over all devices of the policy and of the engine group, each
\* with a rank of its own.  SGLang's engines join none: theirs never forms (SetupEnds).
RefitWorldIsWhole ==
    \A g \in EngineNames : ports[g] # 0 =>
        /\ g \in Joining(g) => IsInjective(RefitWorld(g)) /\ AllMeet(g)
        /\ \A h \in EngineNames \ {g} : ports[h] # 0 => ports[h] # ports[g]

Occupants(device) ==
    {g \in GroupNames \ asleep :
        \E r \in Ranks(g) : RunsOn(g, r) = device /\ crew[g][r].weights # "none"}

ClusterNodes(c) == NodesOf(UNION {Range(placed[c].pgs[i]) : i \in DOMAIN placed[c].pgs})

\* No group that is pinned by bundle numbers shares a node with a second cluster.
PinnedApart ==
    \A g \in GroupNames : Created(g) /\ TypeOf(g).kind \in PinnedKinds =>
        \A c \in DOMAIN placed \ {ClusterOf(mix, g)} :
            ClusterNodes(c) \intersect ClusterNodes(ClusterOf(mix, g)) = {}

\* While a run starts, two groups never have their weights on one device at once, as
\* long as no SGLang engines and no diffusion policy share a node with a second cluster:
\* those choose their devices by the numbers of their bundles, whichever Ray gave them.
OneGroupPerDevice ==
    PinnedApart => \A device \in Machine(mix) : Cardinality(Occupants(device)) <= 1

\* The reference model is the model before any training.
ReferenceIsBase ==
    \A r \in Ranks("policy") : crew["policy"][r].reference \in {"none", "base"}
=============================================================================
