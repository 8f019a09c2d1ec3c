-------------------------------- MODULE Startup --------------------------------
(***************************************************************************)
(* The start of a run: the driver's threads go through the script of their *)
(* program; every worker goes through the start-up program of its kind as  *)
(* soon as Ray has placed it; the collectives of a group happen when all   *)
(* its ranks have come to them.                                            *)
(*                                                                         *)
(* A call that waits for workers raises as soon as one of them has failed; *)
(* what a worker group, once created, still lacks is waited for by the     *)
(* first such call and not by its creation.                                *)
(***************************************************************************)
EXTENDS ProgramSetup

CONSTANTS
    Mixes,      \* a sequence of the configurations that are started
    MaxFaults   \* how many workers may fail while they start

ASSUME StartupAssumption ==
    /\ \A i \in DOMAIN Mixes : IsMix(Mixes[i])
    /\ MaxFaults \in Nat

VARIABLES
    chosen,     \* which configuration is started
    phase,      \* the phase of the driver, one more than there are when it is done
    at,         \* how far each of the driver's threads is in its script
    raised,     \* the threads that have raised
    placed,     \* the placement groups of each cluster, and whether they are one
    crew,       \* per worker group, its workers in the order of their ranks
    asleep,     \* the groups that have given up their memory
    ports,      \* the port found for the collective of each engine group, 0 if none
    connected,  \* the engine groups that are connected to the policy
    files,      \* the converted weights: none, partial or whole
    faults

vars == <<chosen, phase, at, raised, placed, crew, asleep, ports, connected, files, faults>>

mix == Mixes[chosen]

Threads == {"main", "policy", "reward"}
Ports == 1..3
NoGroups == [pgs |-> <<>>, unified |-> FALSE]

Init ==
    /\ chosen \in DOMAIN Mixes
    /\ phase = 1
    /\ at = [t \in Threads |-> 1]
    /\ raised = IF Refused(mix) THEN {"main"} ELSE {}
    /\ placed = [c \in {"train", "inference", "reward"} |-> NoGroups]
    /\ crew = [g \in GroupNames |-> <<>>]
    /\ asleep = {}
    /\ ports = [g \in EngineNames |-> 0]
    /\ connected = {}
    /\ files = mix.files
    /\ faults = 0

-----------------------------------------------------------------------------
(* Worker groups *)

\* What depends on the configuration alone.
Plans ==
    [i \in DOMAIN Mixes |->
        [phases |-> Phases(Mixes[i]), clusters |-> Clusters(Mixes[i]),
         groups |-> [g \in GroupNames |-> Group(Mixes[i], g)],
        programs |-> [g \in GroupNames |->
                         [leader \in BOOLEAN |-> StartProgram(Group(Mixes[i], g), leader)]]]]

TypeOf(g) == Plans[chosen].groups[g]
ClusterNamed(c) == Plans[chosen].clusters[c]
ClusterRecord(g) == ClusterNamed(ClusterOf(mix, g))

\* A worker: what it was told when it was created (`place') and where it is.
Ranks(g) == DOMAIN crew[g]
DeviceAt(g, r) == crew[g][r].place.device
RunsOn(g, r) == DeviceUsed(crew[g][r].place, TypeOf(g).kind)
Leads(g, r) == crew[g][r].place.leader
Leaders(g) == {r \in Ranks(g) : Leads(g, r)}

ProgramOf(g, r) == Plans[chosen].programs[g][Leads(g, r)]
Running(g, r) == crew[g][r].at \in DOMAIN ProgramOf(g, r)
IsUp(g, r) == crew[g][r].at = Len(ProgramOf(g, r)) + 1
Step(g, r) == ProgramOf(g, r)[crew[g][r].at]

\* The bundles that a group is created on.
Bundles(g) ==
    LET where == placed[ClusterOf(mix, g)]
        cluster == ClusterRecord(g)
    IN CASE ~IsEngine(TypeOf(g)) -> PolicyBundles(cluster, where.pgs, where.unified)
         [] TypeOf(g).kind = "vllm" -> EngineBundles(where.pgs, mix.gmp)
         [] OTHER -> ServerBundles(where.pgs, mix.gmp, WorldSize(cluster) \div mix.gmp)

NewCrew(workers) == [r \in DOMAIN workers |-> NewWorker(workers[r])]

ShareOf(g) == Share(TypeOf(g).kind, ClusterRecord(g), TypeOf(g).size)

\* A worker of a tied engine group takes nothing; the processes of its engine do.
Holds(g, r) ==
    IF IsEngine(TypeOf(g)) /\ TypeOf(g).size > 1
    THEN \E l \in Leaders(g) : crew[g][l].place.shard = crew[g][r].place.shard
                               /\ crew[g][l].at > 1
    ELSE crew[g][r].at > 0

Takers(g, device) == {r \in Ranks(g) : DeviceAt(g, r) = device /\ Holds(g, r)}

Taken(device) ==
    MapThenSumSet(LAMBDA g : ShareOf(g) * Cardinality(Takers(g, device)),
                  {g \in GroupNames : Ranks(g) # {}})

HasRoom(g, r) == Taken(DeviceAt(g, r)) + ShareOf(g) <= Part

Shard(g, r) == {q \in Ranks(g) : crew[g][q].place.shard = crew[g][r].place.shard}

-----------------------------------------------------------------------------
(* Workers *)

\* Ray starts an actor when its bundle has the share that it asks for.
StartActor(g, r) ==
    /\ crew[g][r].at = Waiting
    /\ (IsEngine(TypeOf(g)) /\ TypeOf(g).size > 1) \/ HasRoom(g, r)
    /\ crew' = [crew EXCEPT ![g][r].at = 1]
    /\ UNCHANGED <<files, faults>>

Advanced(g, r) == AfterStep(Step(g, r), crew[g][r], TypeOf(g), files)

\* CUDA shows a worker no device when it is pinned to one that its node does not have.
LacksDevice(g, r) == Step(g, r).do = "device" /\ RunsOn(g, r) \notin Machine(mix)

LocalStep(g, r) ==
    /\ Running(g, r)
    /\ ~Step(g, r).all
    /\ (Step(g, r).do = "reserve" /\ TypeOf(g).size > 1) =>
         \A q \in Shard(g, r) : HasRoom(g, q)
    /\ crew' = IF StepRaises(Step(g, r), TypeOf(g), files) \/ LacksDevice(g, r)
               THEN [crew EXCEPT ![g][r].at = Failed]
               ELSE [crew EXCEPT ![g][r] = Advanced(g, r)]
    /\ files' = FilesAfter(Step(g, r), files)
    /\ UNCHANGED faults

CollectiveStep(g) ==
    /\ Ranks(g) # {}
    /\ \A r \in Ranks(g) : Running(g, r) /\ crew[g][r].at = crew[g][1].at
    /\ Step(g, 1).all
    /\ crew' = [crew EXCEPT ![g] = [r \in Ranks(g) |-> Advanced(g, r)]]
    /\ files' = FilesAfter(Step(g, 1), files)
    /\ UNCHANGED faults

WorkerFails(g, r) ==
    /\ faults < MaxFaults
    /\ Running(g, r)
    /\ faults' = faults + 1
    /\ crew' = [crew EXCEPT ![g][r].at = Failed]
    /\ UNCHANGED files

GroupStep(g) ==
    /\ CollectiveStep(g) \/ \E r \in Ranks(g) : StartActor(g, r) \/ LocalStep(g, r)
    /\ UNCHANGED <<chosen, phase, at, raised, placed, asleep, ports, connected>>

Fault ==
    /\ \E g \in GroupNames : \E r \in Ranks(g) : WorkerFails(g, r)
    /\ UNCHANGED <<chosen, phase, at, raised, placed, asleep, ports, connected>>

-----------------------------------------------------------------------------
(* The driver *)

Program == Plans[chosen].phases

Script(t) ==
    IF t = "reward" THEN RewardScript(mix)
    ELSE IF phase > Len(Program) THEN <<>> ELSE Program[phase][t]

Finished(t) == at[t] > Len(Script(t)) \/ t \in raised

\* Leaving the pool of threads waits for the one that is still running.
Joined == Finished("main") /\ Finished("policy")
Done == phase > Len(Program)
Failing == Joined /\ raised \intersect {"main", "policy"} # {}
Current(t) == Script(t)[at[t]]

\* The workers that a call is made on: the first of each engine, all of a policy.
Called(g) == IF IsEngine(TypeOf(g)) THEN Leaders(g) ELSE Ranks(g)
AllUp(g) == \A r \in Called(g) : IsUp(g, r)
OneFailed(g) == \E r \in Called(g) : crew[g][r].at = Failed

\* VllmGeneration's last assertion: as many engines as the world makes.
Complete(g) ==
    TypeOf(g).kind = "vllm" =>
        Cardinality(Leaders(g)) * TypeOf(g).size = WorldSize(ClusterRecord(g))

Proceeds(t) == at' = [at EXCEPT ![t] = @ + 1] /\ UNCHANGED raised
Raises(t) == raised' = raised \union {t} /\ UNCHANGED at

FreeDevices ==
    Machine(mix) \ UNION {UNION {Range(placed[c].pgs[i]) : i \in DOMAIN placed[c].pgs}
                          : c \in DOMAIN placed}

\* _init_placement_groups keeps the groups that the cluster has; TimeoutError or
\* ResourceInsufficientError when it cannot get any.
Place(t, g) ==
    LET c == ClusterOf(mix, g)
        unified == NeedsUnified(mix, g)
        ways == Placements(ClusterRecord(g), Strategy(mix, g), unified, FreeDevices)
    IN /\ IF ~Fits(mix, g) \/ ~SharesMemory(mix, g) THEN Raises(t) /\ UNCHANGED placed
          ELSE IF placed[c].pgs # <<>> THEN Proceeds(t) /\ UNCHANGED placed
          ELSE \/ Raises(t) /\ ways = {} /\ UNCHANGED placed
               \/ /\ Proceeds(t)
                  /\ \E pgs \in ways :
                        placed' = [placed EXCEPT ![c] = [pgs |-> pgs, unified |-> unified]]
       /\ UNCHANGED <<crew, asleep, ports, connected>>

Start(t, g) ==
    /\ \E bundles \in {Bundles(g)} :
          \/ Raises(t) /\ bundles = <<>> /\ UNCHANGED crew
          \/ /\ Proceeds(t) /\ bundles # <<>>
             /\ \E workers \in {Workers(bundles, placed[ClusterOf(mix, g)].pgs)} :
                   crew' = [crew EXCEPT ![g] = NewCrew(workers)]
    /\ UNCHANGED <<placed, asleep, ports, connected>>

Wait(t, g, sleeps) ==
    /\ \/ (OneFailed(g) \/ (AllUp(g) /\ ~Complete(g))) /\ Raises(t) /\ UNCHANGED asleep
       \/ /\ AllUp(g) /\ Complete(g)
          /\ Proceeds(t)
          /\ asleep' = IF sleeps THEN asleep \union {g} ELSE asleep
    /\ UNCHANGED <<placed, crew, ports, connected>>

\* The port is free when it is found, and taken when rank 0 has bound it.
FindPort(t, g) ==
    /\ \E p \in Ports \ {ports[h] : h \in connected} : ports' = [ports EXCEPT ![g] = p]
    /\ Proceeds(t)
    /\ UNCHANGED <<placed, crew, asleep, connected>>

\* The rank of a process of an engine in the collective of the refit.
RefitRank(g, r) ==
    LET perEngine == Cardinality(Ranks(g)) \div Cardinality(Leaders(g))
    IN WorldSize(ClusterNamed("train")) + crew[g][r].place.shard * perEngine
       + Cardinality({q \in Shard(g, r) : q < r})

RefitWorld(g) ==
    [i \in 1..Cardinality(Ranks("policy")) |-> i - 1]
    \o (IF TypeOf(g).kind = "sglang" THEN <<>>
        ELSE [r \in 1..Cardinality(Ranks(g)) |-> RefitRank(g, r)])

RefitSize ==
    WorldSize(ClusterNamed("train")) + WorldSize(ClusterNamed("inference"))

\* The group forms when all ranks of its world have come.  Where one never comes, the
\* store that the others meet at raises when its time is over.
AllMeet(g) == Range(RefitWorld(g)) = 0..(RefitSize - 1)

\* SGLangGeneration.init_collective calls nobody.
Joining(g) == IF TypeOf(g).kind = "sglang" THEN {"policy"} ELSE {"policy", g}

Connect(t, g) ==
    /\ \/ /\ \/ \E h \in Joining(g) : OneFailed(h)
             \/ (\A h \in Joining(g) : AllUp(h)) /\ ~AllMeet(g)
          /\ Raises(t)
          /\ UNCHANGED connected
       \/ /\ (\A h \in Joining(g) : AllUp(h)) /\ AllMeet(g)
          /\ connected' = connected \union {g}
          /\ Proceeds(t)
    /\ UNCHANGED <<placed, crew, asleep, ports>>

ThreadStep(t) ==
    /\ ~Finished(t)
    /\ LET g == Current(t).group
       IN CASE Current(t).op = "place" -> Place(t, g)
            [] Current(t).op = "start" -> Start(t, g)
            [] Current(t).op = "wait" -> Wait(t, g, FALSE)
            [] Current(t).op = "sleep" -> Wait(t, g, TRUE)
            [] Current(t).op = "port" -> FindPort(t, g)
            [] OTHER -> Connect(t, g)
    /\ UNCHANGED <<chosen, phase, files, faults>>

\* A pool of threads is left when all have ended, and raises what one of them raised.
NextPhase ==
    /\ ~Done /\ Joined /\ ~Failing
    /\ phase' = phase + 1
    /\ at' = [at EXCEPT !["main"] = 1, !["policy"] = 1]
    /\ UNCHANGED <<chosen, raised, placed, crew, asleep, ports, connected, files, faults>>

Progress ==
    \/ \E g \in GroupNames : GroupStep(g)
    \/ \E t \in Threads : ThreadStep(t)
    \/ NextPhase

Next == Progress \/ Fault

Spec == Init /\ [][Next]_vars /\ WF_vars(Progress)
=============================================================================
