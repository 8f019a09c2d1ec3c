------------------------------- MODULE Rollouts -------------------------------
(***************************************************************************)
(* nemo_rl/experience/rollouts.py: conversations of a batch of samples     *)
(* with their environments, turn by turn.  run_multi_turn_rollout has all  *)
(* samples that are still active generated together and waits for all of   *)
(* them; run_async_multi_turn_rollout lets each sample go on by itself.    *)
(*                                                                         *)
(* A message has a role, the sample it was made for (a prompt: the number  *)
(* of the prompt) and its length in tokens.  message_log is a heap: it     *)
(* maps the list objects to the messages in them, and logOf[i] is the      *)
(* object that sample i refers to.                                         *)
(***************************************************************************)
EXTENDS DataProcessing, Environments

CONSTANT RolloutFaults    \* a subset of {"generation"}

ASSUME RolloutAssumption == RolloutFaults \subseteq {"generation"}

VARIABLES
    config,          \* of the step, fixed by Init
    pc,              \* where the driver is
    message_log, logOf,
    extra_env_info,  \* per sample, what its environment keeps of it: [of, moves]
    credited,        \* per sample, the rewards added up in total_reward: for whom, in which turn
    truncated,       \* per sample
    turns,           \* per sample, begun
    active,          \* the samples that go on, in order (synchronous rollouts)
    finished,        \* the samples that are done (asynchronous rollouts)
    batch            \* the samples as the rollout returns them

rolloutVars == <<config, message_log, logOf, extra_env_info, credited, truncated, turns, active,
                 finished, batch>>

NumSamples == Len(config.prompts) * config.generations
Samples == 1..NumSamples
PromptOf(i) == (i - 1) \div config.generations + 1
TaskOf(i) == config.tasks[PromptOf(i)]

Log(i) == message_log[logOf[i]]

\* What the loader gives for prompt p.
Datum(p) == PromptDatum(config.tasks[p], p, config.system, config.prompts[p])

-----------------------------------------------------------------------------

\* Wrong: the samples of a prompt share its list.
CopyOfShared(i) == PromptOf(i)

\* repeat_interleave: every sample gets a copy of the prompt's list.
CopyOf(i) == i

RolloutInit ==
    /\ message_log = [o \in {CopyOf(i) : i \in Samples} |->
           Datum(PromptOf(CHOOSE i \in Samples : CopyOf(i) = o)).logs[1]]
    /\ logOf = [i \in Samples |-> CopyOf(i)]
    /\ extra_env_info = [i \in Samples |-> [of |-> i, moves |-> 0]]
    /\ credited = [i \in Samples |-> <<>>]
    /\ truncated = [i \in Samples |-> FALSE]
    /\ turns = [i \in Samples |-> 0]
    /\ active = [i \in Samples |-> i]
    /\ finished = {}
    /\ batch = <<>>

\* What an environment may answer: an observation of some length, to an action.
Outcomes(i) == [len : config.environment.lens, action : Actions(TaskOf(i)) \cap config.environment.actions]

\* The end of an episode, and what the environment keeps.
EffectOn(outcome, i, metadata) == Effect(TaskOf(i), outcome.action, metadata, config.environment.maxMoves)

\* Wrong: the reply is not counted.
RoomBeforeReply(messages) == MaxSeqLen - Length(Front(messages))

\* The tokens left for an observation, after the reply.
Room(messages) == MaxSeqLen - Length(messages)

\* An observation that leaves no room is cut, and ends the conversation.
Observation(messages, i, outcome) == Message("environment", i, Min({outcome.len, Room(messages)}))
Overflows(messages, outcome) == outcome.len >= Room(messages)

-----------------------------------------------------------------------------
(* run_multi_turn_rollout *)

\* The requests: the conversations that go on, as rows of one width.
Requests ==
    LET width == Max({Length(Log(i)) : i \in Range(active)})
        Row(i) == [p \in 1..Length(Log(i)) |-> <<i, p>>]
    IN  Kept([k \in DOMAIN active |->
            [tokens |-> PadRow(Row(active[k]), width, Pad), length |-> Length(Log(active[k]))]])

RepliesTo(i) == Replies(config.generation.backend, Length(Log(i)))

\* generate_responses: the k-th reply is put into the list of the k-th active
\* sample.
GenerateTurn ==
    LET backend == config.generation.backend
        requests == Requests
        choices == [i \in Range(active) |-> RepliesTo(i)]
    IN  /\ pc = "generate" /\ active # <<>>
        /\ turns[active[1]] < config.maxTurns
        /\ ~PolicyGenerateRaises(backend, requests, config.generation.dp)
        /\ \E reply \in [Range(active) -> UNION Range(choices)] :
              LET outputs == Kept(Generated(backend, requests, config.generation.dp, config.generation.tp, reply))
                  cut(k) == ReportsTruncation(backend) /\ reply[outputs[k].output_ids[1][1]].cut
              IN  /\ \A i \in Range(active) : reply[i] \in choices[i]
                  /\ message_log' = FoldLeft(LAMBDA heap, k :
                         [heap EXCEPT ![logOf[active[k]]] =
                             Append(@, ReplyMessage(outputs[k], requests[k].length))],
                         message_log, [k \in DOMAIN active |-> k])
                  /\ truncated' = [i \in Samples |->
                         truncated[i] \/ \E k \in DOMAIN active : active[k] = i /\ cut(k)]
        /\ pc' = "environment"
        /\ UNCHANGED <<config, logOf, extra_env_info, credited, turns, active, finished, batch>>

\* The positions of the active samples, task by task, in the order in which the
\* tasks come up.
TaskGroups ==
    LET tasks == SetToSortSeq({TaskOf(i) : i \in Range(active)},
                     LAMBDA s, t : SelectInSeq(active, LAMBDA i : TaskOf(i) = s)
                                     < SelectInSeq(active, LAMBDA i : TaskOf(i) = t))
    IN  Kept([t \in DOMAIN tasks |->
            SelectSeq([k \in DOMAIN active |-> k], LAMBDA k : TaskOf(active[k]) = tasks[t])])

\* calculate_rewards: the results of all environments end to end, before they
\* are sorted.
AllResults(groups) ==
    FlattenSeq([t \in DOMAIN groups |->
        Step(TaskOf(active[groups[t][1]]), At(active, groups[t]), config.environment.workers)])

\* Wrong: the results are left in the order of the tasks.
ResultsUnsorted == AllResults(TaskGroups)

\* ... and sorted by the positions of their samples.
ResultsOfActive ==
    LET groups == TaskGroups IN Kept(ReorderData(AllResults(groups), FlattenSeq(groups)))

\* One reward of some samples and several of others make no tensor.
MixedRewards == {TaskOf(i) = "multi_reward" : i \in Range(active)} = BOOLEAN

StepRaises ==
    \/ MixedRewards
    \/ \E task \in {TaskOf(i) : i \in Range(active)} :
          ScoreRaises(task, Cardinality({k \in DOMAIN active : TaskOf(active[k]) = task}),
                      config.environment.workers)

\* What the environments of the active samples answer.
OutcomesOfActive ==
    {outcome \in [Range(active) -> UNION {Outcomes(i) : i \in Range(active)}] :
        \A i \in Range(active) : outcome[i] \in Outcomes(i)}

\* What the k-th of the results does to the k-th active sample.
Answer(k, result, outcome) ==
    LET i == active[k]
    IN  [sample |-> i, of |-> result.of,
         observation |-> Observation(Log(i), result.of, outcome),
         overflows |-> Overflows(Log(i), outcome),
         effect |-> EffectOn(outcome, result.of, extra_env_info[result.with])]

Ends(answer) == answer.overflows \/ answer.effect.terminated

\* It is added to the sample's list and its reward, and what the environment keeps
\* replaces what it kept, if the sample goes on.
EnvironmentTurn ==
    /\ pc = "environment" /\ ~StepRaises
    /\ \E results \in {ResultsOfActive}, outcome \in OutcomesOfActive :
          LET answers == Kept([k \in DOMAIN active |-> Answer(k, results[k], outcome[results[k].of])])
              To(i) == {answer \in Range(answers) : answer.sample = i}
          IN  /\ \A i \in Range(active) : outcome[i].action # "unparsable"
              /\ message_log' = FoldLeft(LAMBDA heap, answer :
                     [heap EXCEPT ![logOf[answer.sample]] = Append(@, answer.observation)],
                     message_log, answers)
              /\ credited' = [i \in Samples |->
                     credited[i] \o SetToSeq({[of |-> answer.of, turn |-> turns[i] + 1] : answer \in To(i)})]
              /\ truncated' = [i \in Samples |-> truncated[i] \/ \E answer \in To(i) : answer.overflows]
              /\ active' = SelectSeq(active, LAMBDA i : \A answer \in To(i) : ~Ends(answer))
              /\ extra_env_info' = [i \in Samples |->
                     LET kept == {answer.effect.metadata : answer \in {a \in To(i) : ~Ends(a)}} \ {Nothing}
                     IN  IF kept = {} THEN extra_env_info[i] ELSE CHOOSE metadata \in kept : TRUE]
    /\ turns' = [i \in Samples |-> IF i \in Range(active) THEN turns[i] + 1 ELSE turns[i]]
    /\ pc' = "generate"
    /\ UNCHANGED <<config, logOf, finished, batch>>

\* Requests or conversations that the workers cannot share out evenly, or rewards
\* of two kinds.
RolloutRaises ==
    /\ \/ /\ pc = "generate" /\ active # <<>> /\ turns[active[1]] < config.maxTurns
          /\ PolicyGenerateRaises(config.generation.backend, Requests, config.generation.dp)
       \/ pc = "environment" /\ StepRaises
       \/ /\ pc = "async"
          /\ \E i \in Samples \ finished : ScoreRaises(TaskOf(i), 1, config.environment.workers)
    /\ pc' = "raised"
    /\ UNCHANGED rolloutVars

\* The code in a reply does not parse: the step of all conversations fails with
\* it (ast.parse stands outside the try in execute), and the rollout.
CodeFails ==
    /\ \/ /\ pc = "environment"
          /\ \E i \in Range(active) : \E outcome \in Outcomes(i) : outcome.action = "unparsable"
       \/ /\ pc = "async"
          /\ \E i \in Samples \ finished : \E outcome \in Outcomes(i) : outcome.action = "unparsable"
    /\ pc' = "failed"
    /\ UNCHANGED rolloutVars

FinishSyncRollout ==
    /\ pc = "generate"
    /\ active # <<>> => turns[active[1]] = config.maxTurns
    /\ batch' = [i \in Samples |-> i]
    /\ pc' = "mask"
    /\ UNCHANGED <<config, message_log, logOf, extra_env_info, credited, truncated, turns, active, finished>>

-----------------------------------------------------------------------------
(* run_async_multi_turn_rollout: a task per sample, and each works on a      *)
(* copy of its own.  The reply, the step of the environment and the next     *)
(* request are one action: calculate_rewards does not yield.                 *)

Waiting == Samples \ finished

\* The sample ends, or asks for the next reply.
EndOrGoOn(i, ends) ==
    finished' = finished \cup {j \in {i} : ends \/ turns[i] + 1 = config.maxTurns}

\* async_generate_response_for_sample_turn: a batch of one request.
RequestOf(i) ==
    LET length == Length(Log(i)) IN [tokens |-> [p \in 1..length |-> <<i, p>>], length |-> length]

\* generate_responses_async
ReplyTo(i, reply) == ReplyMessage(VllmAsyncOutput(RequestOf(i), [j \in {i} |-> reply]), Length(Log(i)))

SampleTurn(i) ==
    /\ pc = "async" /\ i \in Waiting /\ ~ScoreRaises(TaskOf(i), 1, config.environment.workers)
    /\ \E reply \in Replies("vllm_async", Length(Log(i))), outcome \in Outcomes(i) :
          LET answered == Append(Log(i), ReplyTo(i, reply))
              cut == reply.cut \/ Overflows(answered, outcome)
              result == Step(TaskOf(i), <<i>>, config.environment.workers)[1]
              effect == EffectOn(outcome, i, extra_env_info[result.with])
          IN  /\ outcome.action # "unparsable"
              /\ message_log' = [message_log EXCEPT
                     ![logOf[i]] = Append(answered, Observation(answered, i, outcome))]
              /\ credited' = [credited EXCEPT ![i] = Append(@, [of |-> result.of, turn |-> turns[i] + 1])]
              /\ truncated' = [truncated EXCEPT ![i] = cut]
              /\ extra_env_info' = [extra_env_info EXCEPT ![i] =
                     IF ~cut /\ ~effect.terminated /\ effect.metadata # Nothing THEN effect.metadata ELSE @]
              /\ EndOrGoOn(i, effect.terminated \/ cut)
    /\ turns' = [turns EXCEPT ![i] = @ + 1]
    /\ UNCHANGED <<config, pc, logOf, active, batch>>

\* An exception of the engine, or a reply too late: the sample ends as it is.
GenerationFails(i) ==
    /\ pc = "async" /\ i \in Waiting /\ "generation" \in RolloutFaults
    /\ finished' = finished \cup {i}
    /\ turns' = [turns EXCEPT ![i] = @ + 1]
    /\ UNCHANGED <<config, pc, message_log, logOf, extra_env_info, credited, truncated, active, batch>>

\* asyncio.gather returns the results in the order of the samples.
FinishAsyncRollout ==
    /\ pc = "async" /\ Waiting = {}
    /\ batch' = [i \in Samples |-> i]
    /\ pc' = "mask"
    /\ UNCHANGED <<config, message_log, logOf, extra_env_info, credited, truncated, turns, active, finished>>

RolloutStep ==
    \/ GenerateTurn \/ EnvironmentTurn \/ RolloutRaises \/ CodeFails \/ FinishSyncRollout
    \/ \E i \in Samples : SampleTurn(i) \/ GenerationFails(i)
    \/ FinishAsyncRollout
=============================================================================
