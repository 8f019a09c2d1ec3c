------------------------------ MODULE Environments ------------------------------
(***************************************************************************)
(* nemo_rl/environments: what the step of an environment makes of a group  *)
(* of conversations.  A group is the sequence of its samples and that of   *)
(* what the environment keeps for them (metadata); most environments deal  *)
(* both out to workers of their own.  A result says whose reply was judged,*)
(* with whose metadata.                                                    *)
(***************************************************************************)
EXTENDS BatchSharding, WorkerDispatch

\* chunk_list_to_workers; there may be more workers than elements.
ChunkListToWorkers(list, workers) ==
    LET size == (Len(list) + workers - 1) \div workers
    IN  [w \in 1..workers |-> SubSeq(list, (w - 1) * size + 1, Min({w * size, Len(list)}))]

\* A worker takes a reply and its metadata at a time.
Judge(samples, metadata) ==
    [k \in DOMAIN samples |-> [of |-> samples[k], with |-> metadata[k]]]

\* MathEnvironment.step; the results of the workers end to end.
VerifierStep(samples, metadata, workers) ==
    LET responses == ChunkListToWorkers(samples, workers)
        truths == ChunkListToWorkers(metadata, workers)
    IN  FlattenSeq([w \in 1..workers |-> Judge(responses[w], truths[w])])

\* VLMEnvironment.step and CodeJaccardEnvironment.step.
VlmStep(samples, metadata, workers) == VerifierStep(samples, metadata, workers)
JaccardStep(samples, metadata, workers) == VerifierStep(samples, metadata, workers)

\* ReasoningGymEnvironment.step has no workers.
ReasoningGymStep(samples, metadata) == Judge(samples, metadata)

\* HFMultiRewardVerifyWorker.verify: a list per reward.
Rewards == 1..3
MultiJudge(samples, metadata) == [r \in Rewards |-> Judge(samples, metadata)]

\* MathMultiRewardEnvironment.step: the lists of the workers are put together
\* reward by reward and transposed; a result is of a sample if all of its rewards
\* are.
MultiRewardStep(samples, metadata, workers) ==
    LET responses == ChunkListToWorkers(samples, workers)
        truths == ChunkListToWorkers(metadata, workers)
        results == [r \in Rewards |->
                       FlattenSeq([w \in 1..workers |-> MultiJudge(responses[w], truths[w])[r]])]
    IN  [k \in DOMAIN results[1] |->
            IF \A r \in Rewards : results[r][k] = results[1][k] THEN results[1][k]
            ELSE [of |-> 0, with |-> 0]]

\* score, of a worker of the reward model: the head gives each of its rows one logit.
Score(samples) == Judge(samples, samples)

\* RewardModelEnvironment.step: the conversations are scored by a model of its
\* own, each replica an equal share.
RewardModelStep(samples, dp) ==
    LET mesh == PolicyMesh(1, dp, 1, 1)
        shards == PlainSharding(samples, dp, Len(samples)).rows
    IN  GetResults(mesh, PolicyCall, [w \in Workers(mesh) |-> Score(SliceOf(mesh, w, shards))])

\* What cannot be shared out equally raises in shard_by_batch_size; and where a
\* replica has one row, the last squeeze leaves a scalar, which from_batches
\* cannot put together with others.
ScoreRaises(task, count, dp) == task = "reward_model" /\ (count % dp # 0 \/ count = dp)

\* CodeEnvironment.step; SlidingPuzzleEnv.step, one conversation at a time.
CodeStep(samples, metadata, workers) == VerifierStep(samples, metadata, workers)
GameStep(samples, metadata) == Judge(samples, metadata)

Step(task, samples, workers) ==
    CASE task = "math" -> VerifierStep(samples, samples, workers)
      [] task = "vlm" -> VlmStep(samples, samples, workers)
      [] task = "jaccard" -> JaccardStep(samples, samples, workers)
      [] task = "reasoning_gym" -> ReasoningGymStep(samples, samples)
      [] task = "multi_reward" -> MultiRewardStep(samples, samples, workers)
      [] task = "reward_model" -> RewardModelStep(samples, workers)
      [] task = "code" -> CodeStep(samples, samples, workers)
      [] task = "game" -> GameStep(samples, samples)

-----------------------------------------------------------------------------
(* What a reply may do: be answered once and for all; run code, with a     *)
(* value or in silence, or none; move in a game, solve it, look at it, or  *)
(* say nothing that the environment understands.                           *)

Verifiers == {"math", "multi_reward", "vlm", "jaccard", "reasoning_gym"}
Actions(task) ==
    CASE task \in Verifiers \cup {"reward_model"} -> {"answer"}
      [] task = "code" -> {"evaluate", "run", "none", "unparsable"}
      [] task = "game" -> {"move", "solve", "view", "none"}

\* The moves made are counted in the metadata of a conversation, [of, moves]; it
\* may be taken away.
Nothing == [of |-> 0, moves |-> 0]
Moved(metadata) == [metadata EXCEPT !.moves = @ + 1]

\* CodeExecutionWorker.execute: the variables are kept between steps; a step
\* ends the conversation when it has a value (terminate_on_evaluation).
Execute(action, metadata) ==
    [terminated |-> action = "evaluate",
     metadata |-> IF action \in {"evaluate", "run"} THEN Moved(metadata) ELSE metadata]

\* SlidingPuzzleRunner.process_turn.
ProcessTurn(action, metadata, maxMoves) ==
    IF metadata.moves >= maxMoves THEN [terminated |-> TRUE, metadata |-> Nothing]
    ELSE CASE action = "none" -> [terminated |-> FALSE, metadata |-> Nothing]
           [] action = "view" -> [terminated |-> FALSE, metadata |-> metadata]
           [] action = "move" -> [terminated |-> FALSE, metadata |-> Moved(metadata)]
           [] action = "solve" -> [terminated |-> TRUE, metadata |-> Nothing]

Effect(task, action, metadata, maxMoves) ==
    CASE task \in Verifiers -> [terminated |-> TRUE, metadata |-> metadata]
      [] task = "reward_model" -> [terminated |-> TRUE, metadata |-> Nothing]
      [] task = "code" -> Execute(action, metadata)
      [] task = "game" -> ProcessTurn(action, metadata, maxMoves)
=============================================================================
