-------------------------- MODULE StepDataProperties --------------------------
(***************************************************************************)
(* What must hold of the data of a step, and the configurations on which   *)
(* it is checked.                                                          *)
(***************************************************************************)
EXTENDS StepData

\* Meshes for training, and a plain step, which the configurations vary.
OneShardEach == [pp |-> 1, dp |-> 2, cp |-> 1, tp |-> 1]
TwoOfEachShard == [OneShardEach EXCEPT !.tp = 2]
TwoOfEachRow == [OneShardEach EXCEPT !.cp = 2]
OneModel == [pp |-> 1, dp |-> 1, cp |-> 2, tp |-> 2]

Conversation ==
    [program |-> "grpo", data |-> <<>>, val |-> [data |-> <<>>, batch |-> 2, microBatch |-> 1],
     system |-> 0, prompts |-> <<1, 2>>, tasks |-> <<"code", "game">>, generations |-> 1,
     maxTurns |-> 2, overlong_filtering |-> TRUE, reference |-> FALSE, updates |-> 1,
     estimator |-> [name |-> "grpo", leaveOneOut |-> TRUE, minusBaseline |-> TRUE, klInReward |-> FALSE],
     environment |-> [lens |-> {0, 2}, actions |-> {"evaluate", "run", "move", "solve"},
                      workers |-> 2, maxMoves |-> 1],
     generation |-> [backend |-> "vllm", dp |-> 2, tp |-> 2], gbs |-> 2, microBatch |-> 1,
     tokens |-> [train |-> 6, logprobs |-> 8], round |-> 2, divisor |-> 2,
     batching |-> "plain", algorithm |-> "concatenative", worker |-> "dtensor",
     mesh |-> OneShardEach, sampling |-> FALSE, chunk |-> 0, fuse |-> FALSE,
     teacher |-> [worker |-> "dtensor", batching |-> "plain", mesh |-> OneShardEach],
     topk |-> 2, zero_outside_topk |-> FALSE, kl_type |-> "forward",
     eval |-> [metric |-> "pass@k", k |-> 1, prompts |-> 1, verifier |-> "math", answers |-> {}]]

\* Two turns, with either kind of rollouts; two samples of one prompt, in a game;
\* several rewards beside one; three samples of which the first and the last go to
\* one environment; and what the other engines and environments do.
Conversations ==
    {Conversation,
     [Conversation EXCEPT !.generation.backend = "vllm_async", !.environment.lens = {2},
                          !.environment.actions = @ \cup {"unparsable"}],
     [Conversation EXCEPT !.generation.backend = "vllm_async",
                          !.tasks = <<"reward_model", "game">>, !.environment.actions = {"answer", "move"},
                          !.environment.workers = 1],
     [Conversation EXCEPT !.prompts = <<1>>, !.tasks = <<"game">>, !.generations = 2, !.maxTurns = 3,
                          !.environment.lens = {0}, !.environment.actions = {"move", "none", "view"}],
     [Conversation EXCEPT !.tasks = <<"multi_reward", "code">>, !.environment.actions = {"answer", "run"},
                          !.environment.lens = {0}],
     [Conversation EXCEPT !.generation.backend = "vllm_async", !.tasks = <<"multi_reward", "code">>,
                          !.generations = 2, !.estimator.name = "gdpo", !.maxTurns = 1, !.gbs = 4,
                          !.environment.lens = {0}, !.environment.actions = {"answer", "run"}],
     [Conversation EXCEPT !.prompts = <<1, 2, 1>>, !.tasks = <<"vlm", "code", "vlm">>, !.maxTurns = 1, !.environment.lens = {1, 2}, !.environment.actions = {"answer", "none"}, !.gbs = 3, !.mesh.dp = 1]}
    \cup {[Conversation EXCEPT !.generation.backend = backend, !.worker = "megatron",
                               !.prompts = <<2, 3, 2, 2>>, !.tasks = given[1], !.gbs = 4,
                               !.environment.lens = {1}, !.environment.actions = {"answer", "evaluate", "run"},
                               !.environment.workers = given[2]] :
             backend \in {"sglang", "megatron"},
             given \in {<<<<"reward_model", "code", "math", "reward_model">>, 1>>,
                        <<<<"reward_model", "reward_model", "reward_model", "reward_model">>, 2>>,
                        <<<<"reward_model", "code", "code", "reasoning_gym">>, 1>>}}

\* One turn of four samples, so that their lengths vary, and all of a step.
FourSamples ==
    [Conversation EXCEPT !.prompts = <<1, 3>>, !.tasks = <<"math", "reward_model">>,
                         !.generations = 2, !.maxTurns = 1,
                         !.environment.lens = {0}, !.environment.actions = {"answer"},
                         !.environment.workers = 1, !.reference = TRUE, !.updates = 2,
                         !.generation.dp = 3, !.generation.tp = 1, !.gbs = 4]

Rearrangements ==
    {[FourSamples EXCEPT !.microBatch = 2, !.worker = "automodel", !.mesh = TwoOfEachShard,
                         !.tasks = <<"multi_reward", "multi_reward">>, !.estimator.name = "gdpo"],
     [FourSamples EXCEPT !.batching = "dynamic", !.tasks = <<"vlm", "jaccard">>, !.estimator.leaveOneOut = FALSE],
     [FourSamples EXCEPT !.batching = "dynamic", !.gbs = 2, !.worker = "megatron",
                         !.estimator.name = "reinforce_plus_plus", !.estimator.klInReward = TRUE],
     [FourSamples EXCEPT !.batching = "dynamic", !.worker = "automodel", !.mesh = TwoOfEachShard,
                         !.estimator.name = "reinforce_plus_plus", !.estimator.minusBaseline = FALSE]}
    \cup {[FourSamples EXCEPT !.batching = "packed", !.algorithm = algorithm, !.updates = 1] :
             algorithm \in Algorithms \ {"first_fit_shuffle"}}
    \cup {[FourSamples EXCEPT !.batching = "packed", !.algorithm = "first_fit_shuffle", !.prompts = <<1, 4>>,
                              !.reference = FALSE, !.updates = 1],
          [FourSamples EXCEPT !.batching = "packed", !.gbs = 2, !.worker = "automodel"],
          [FourSamples EXCEPT !.batching = "packed", !.worker = "megatron",
                              !.algorithm = "modified_first_fit_decreasing"]}

\* Rows and the vocabulary cut for several ranks, by each kind of worker, with
\* chunks and with the filter of sampling.
Wide ==
    [FourSamples EXCEPT !.round = 4, !.divisor = 4, !.tokens = [train |-> 8, logprobs |-> 16],
                        !.reference = FALSE, !.updates = 1]
CutRows ==
    {[Wide EXCEPT !.worker = worker, !.mesh = OneModel, !.microBatch = 2, !.chunk = 3] :
        worker \in {"dtensor", "automodel", "megatron"}}
    \cup {[Wide EXCEPT !.batching = "dynamic", !.worker = worker, !.mesh = TwoOfEachRow] :
             worker \in {"automodel", "megatron"}}
    \cup {[Wide EXCEPT !.worker = worker, !.mesh = OneModel, !.sampling = TRUE, !.chunk = chunk] :
             worker \in {"dtensor", "megatron"}, chunk \in {0, 2}}

\* ... and packed: with a pipeline, and with the loss of a microbatch in one.
PackedRows ==
    {[Wide EXCEPT !.batching = "packed", !.worker = "megatron", !.mesh = OneModel, !.fuse = fuse, !.chunk = 3] :
        fuse \in BOOLEAN}
    \cup {[Wide EXCEPT !.batching = "packed", !.worker = "megatron", !.fuse = fuse,
                       !.tokens.train = 12, !.mesh = [pp |-> 2, dp |-> 1, cp |-> 2, tp |-> 1]] : fuse \in BOOLEAN}
    \cup {[Wide EXCEPT !.batching = "packed", !.worker = worker, !.sampling = sampling,
                       !.mesh = [TwoOfEachShard EXCEPT !.dp = 1]] :
             worker \in {"dtensor", "automodel"}, sampling \in BOOLEAN}

\* A training microbatch that is too small for the longest sequences.
SmallBudget ==
    {[FourSamples EXCEPT !.batching = batching, !.reference = FALSE, !.tokens.train = 4] :
        batching \in {"dynamic", "packed"}}

\* A prompt that is too long, of each kind, beside one that is not; two samples of
\* each.
LongPrompts ==
    {[Conversation EXCEPT !.prompts = <<1, 7>>, !.tasks = tasks, !.system = 1, !.maxTurns = 1, !.generations = 2,
                          !.environment.lens = {0}, !.environment.actions = {"answer"}, !.gbs = 4] :
        tasks \in {<<"jaccard", "math">>, <<"math", "vlm">>, <<"vlm", "reasoning_gym">>, <<"math", "jaccard">>}}

\* A dialog may have several replies, and be as long as the limit.
Learning ==
    [Conversation EXCEPT !.prompts = <<>>, !.tasks = <<>>, !.gbs = 4, !.val.batch = 4]
Dialogs ==
    [Learning EXCEPT !.program = "sft",
        !.data = <<[messages |-> <<1, 2>>], [messages |-> <<1, 1, 1, 1>>], [messages |-> <<2, 3>>], [messages |-> <<1, 1>>]>>,
        !.val.data = <<[messages |-> <<1, 1>>], [messages |-> <<2, 2>>], [messages |-> <<1, 3>>],
                       [messages |-> <<1, 2>>], [messages |-> <<1, 1>>], [messages |-> <<4, 2>>]>>]
Preference(context, completions, ranks) == [context |-> context, completions |-> completions, ranks |-> ranks]
Preferences ==
    [Learning EXCEPT !.gbs = 2, !.val.batch = 2, !.reference = TRUE,
        !.data = <<Preference(<<1>>, <<2, 1>>, <<1, 2>>), Preference(<<1, 1, 1>>, <<1, 3>>, <<1, 0>>)>>,
        !.val.data = <<Preference(<<1>>, <<3, 1>>, <<0, 1>>), Preference(<<2>>, <<1, 2>>, <<2, 0>>),
                       Preference(<<2>>, <<3, 1>>, <<3, 0>>)>>]

OfflineData ==
    {[Dialogs EXCEPT !.worker = worker, !.batching = batching] :
        worker \in {"dtensor", "automodel", "megatron"}, batching \in {"plain", "dynamic", "packed"}}
    \cup {[Preferences EXCEPT !.program = "dpo", !.worker = worker] : worker \in {"dtensor", "automodel", "megatron"}}
    \cup {[Preferences EXCEPT !.program = "dpo", !.worker = worker, !.round = 4, !.divisor = 4,
                              !.mesh = OneModel] : worker \in {"automodel", "megatron"}}
    \cup {[Preferences EXCEPT !.program = "rm", !.batching = batching, !.worker = worker, !.microBatch = microBatch,
                              !.val.microBatch = microBatch, !.mesh.dp = 2 \div microBatch] :
             worker \in {"dtensor", "automodel"}, batching \in {"plain", "dynamic"}, microBatch \in 1..2}
    \cup {[Preferences EXCEPT !.program = "rm", !.batching = "dynamic", !.mesh.dp = 1, !.gbs = 3,
                              !.tokens.train = 20, !.data = Append(@, Preference(<<1>>, <<3, 1>>, <<1, 2>>))]}

\* A student and its teacher, cut alike and not.
Distillation ==
    [FourSamples EXCEPT !.program = "distillation", !.reference = FALSE, !.updates = 1, !.round = 4, !.divisor = 4,
                        !.tokens = [train |-> 8, logprobs |-> 16], !.microBatch = 1]
Teacher(worker, batching, mesh) == [worker |-> worker, batching |-> batching, mesh |-> mesh]
OneStage == [pp |-> 2, dp |-> 1, cp |-> 1, tp |-> 2]
Students ==
    {[Distillation EXCEPT !.worker = pair[1], !.batching = pair[2], !.mesh = OneModel, !.zero_outside_topk = TRUE,
                          !.kl_type = "reverse", !.teacher = Teacher(pair[1], pair[3], TwoOfEachShard)] :
        pair \in {<<"dtensor", "plain", "dynamic">>, <<"automodel", "dynamic", "packed">>,
                  <<"megatron", "packed", "plain">>}}
    \cup {[Distillation EXCEPT !.worker = pair[1], !.batching = pair[2], !.mesh = TwoOfEachShard, !.chunk = 3,
                               !.teacher = Teacher(pair[3], pair[4], OneModel)] :
             pair \in {<<"dtensor", "packed", "megatron", "packed">>, <<"automodel", "packed", "automodel", "dynamic">>,
                       <<"megatron", "dynamic", "dtensor", "plain">>, <<"megatron", "plain", "megatron", "plain">>}}
    \cup {[Distillation EXCEPT !.worker = "megatron", !.batching = "packed", !.mesh = OneStage, !.topk = 3, !.tokens.train = 12,
                               !.zero_outside_topk = zero, !.kl_type = "mixed",
                               !.teacher = Teacher("dtensor", "packed", [OneShardEach EXCEPT !.dp = 4])] :
             zero \in BOOLEAN}

\* Two or three texts to a prompt, the prompts at once or one after the other.
EvaluationOf(metric, k, prompts, answers) ==
    [Conversation EXCEPT !.program = "eval", !.tasks = <<"math", "math">>, !.gbs = 1, !.mesh.dp = 1,
                         !.environment.actions = {"answer"},
                         !.generations = IF prompts = 1 THEN 3 ELSE 2,
                         !.eval = [metric |-> metric, k |-> k, prompts |-> prompts, verifier |-> "math",
                                   answers |-> answers]]
Asynchronously(c) == [c EXCEPT !.generation.backend = "vllm_async"]
OfOnePrompt(c) == [c EXCEPT !.prompts = <<1>>, !.tasks = <<"math">>]
Evaluations ==
    {EvaluationOf("pass@k", k, 2, {"right", "wrong", "none"}) : k \in 1..2}
    \cup {[EvaluationOf("pass@k", 1, 2, {"right", "wrong", "none"}) EXCEPT !.generations = 1],
          EvaluationOf("cons@k", 2, 1, {"right", "wrong", "other"}),
          OfOnePrompt(EvaluationOf("cons@k", 3, 1, {"right", "wrong", "error"})),
          OfOnePrompt([EvaluationOf("cons@k", 2, 1, {"right", "wrong", "none"})
                          EXCEPT !.eval.verifier = "english_multichoice"]),
          Asynchronously(EvaluationOf("pass@k", 2, 2, {"right", "wrong"})),
          Asynchronously(OfOnePrompt(EvaluationOf("cons@k", 2, 1, {"right", "none"})))}

StepConfigs ==
    Evaluations \cup Students \cup Conversations \cup Rearrangements \cup CutRows \cup PackedRows \cup SmallBudget \cup LongPrompts
        \cup OfflineData

-----------------------------------------------------------------------------

\* A conversation is the sample's own prompt, its own replies, whole and with the
\* log-probabilities that they were generated with, and what its own environment
\* said to them in turn, although the replies of a batch come from several workers
\* in padded rows and the observations from several environments and their workers
\* (generate_responses, calculate_rewards), and the samples of a prompt start
\* from one list of messages (repeat_interleave).
ConversationsAreOwn ==
    \A i \in Samples :
        LET prompt == Datum(PromptOf(i)).logs[1]
        IN  /\ SubSeq(Log(i), 1, Len(prompt)) = prompt
            /\ \A k \in (Len(prompt) + 1)..Len(Log(i)) :
                  LET m == Log(i)[k]
                  IN  /\ m.role = IF (k - Len(prompt)) % 2 = 1 THEN "assistant" ELSE "environment"
                      /\ m.of = i \/ (m.role = "assistant" /\ m.len = 0 /\ config.program # "eval")

\* total_reward adds up the rewards of the sample's own turns, each of them once;
\* a turn without an answer earns nothing.
RewardsAreOwn ==
    \A i \in Samples :
        /\ \A k \in DOMAIN credited[i] : credited[i][k] = [of |-> i, turn |-> k]
        /\ Len(credited[i]) = Len(SelectSeq(Log(i), LAMBDA m : m.role = "environment"))

\* What an environment keeps of a conversation it gets back with that one, and
\* in a game no more moves are made than max_moves.
GamesAreOwn ==
    \A i \in Samples :
        /\ extra_env_info[i].of = i /\ extra_env_info[i].moves <= turns[i]
        /\ TaskOf(i) = "game" => extra_env_info[i].moves <= config.environment.maxMoves

\* The score of a prompt is the share of the choices of k of its own tests in which
\* one is right, or in which the right answer is the most common one; of several most
\* common ones either may count.
OwnTests(p) == {i \in Samples : PromptOf(i) = p}
OwnAnswer(i) == AnswerOf(Said(i))
Share(p, Counts(_)) ==
    Cardinality({s \in kSubset(config.eval.k, OwnTests(p)) : Counts(s)})
        * (Unit \div Cardinality(kSubset(config.eval.k, OwnTests(p))))
MostCommon(s) ==
    LET votes(a) == Cardinality({i \in s : OwnAnswer(i) = a})
    IN  {a \in {OwnAnswer(i) : i \in s} : \A i \in s : votes(OwnAnswer(i)) <= votes(a)}
Sure(s) ==
    IF config.eval.metric = "pass@k" THEN \E i \in s : Said(i) = "right" ELSE MostCommon(s) = {"right"}
Possible(s) ==
    IF config.eval.metric = "pass@k" THEN \E i \in s : Said(i) = "right" ELSE "right" \in MostCommon(s)

\* The exception is a text without an answer: HFVerifyWorker.verify gives it two
\* rewards, and those of the later tests count for others.
ScoresAreOwn ==
    pc = "evaluated" =>
        \/ config.eval.verifier = "math" /\ Tests > 1 /\ \E i \in Samples : Said(i) = "none"
        \/ LET sum(Counts(_)) == FoldLeft(LAMBDA n, p : n + Share(p, Counts), 0, Span(1, Len(config.prompts)))
           IN  sum(Sure) <= evaluation.score /\ evaluation.score <= sum(Possible)

\* No conversation outgrows max_total_sequence_length, and none that goes on
\* has filled it: every request leaves the engine room for a token
\* (the assertion on tokens_left_for_obs in run_multi_turn_rollout).
FitsContext ==
    /\ \A i \in DOMAIN logOf : Length(Log(i)) <= MaxSeqLen
    /\ pc = "generate" => \A i \in Range(active) : Length(Log(i)) < MaxSeqLen
    /\ pc = "async" => \A i \in Waiting : Length(Log(i)) < MaxSeqLen

\* The score of the token at position p of sample k: the log-probability of that
\* token given those before it, and nothing else.
OwnScore(k, p) == <<<<<<k, p - 1>>, <<k, p>>>>>>

\* The reward of a sample that counts is compared to those of all samples of its
\* own prompt, or of all others, although what their conversations have in common
\* is found again by its length, and that of the prompts that were made smaller
\* is not the length of what is left of them (extract_initial_prompt_messages,
\* calculate_baseline_and_std_per_prompt); each of several rewards is; and the
\* penalty of a token is its own (calculate_kl).
AdvantagesAreOwn ==
    pc = "train" /\ call = NoCall /\ config.program = "grpo" =>
        \E promptIds \in {PromptIds} : \A k \in DOMAIN batch \ masked : \E advantage \in {AdvantageOf(promptIds, k)} :
            LET i == batch[k]
                samples == {j \in Samples : PromptOf(j) = PromptOf(i)}
                others == IF config.generations > 1 THEN samples \ {i} ELSE samples
                rewards == {advantage.compared[c] : c \in DOMAIN advantage.compared}
            IN  /\ rewards \subseteq
                      {[reward |-> i, baseline |->
                           CASE config.estimator.name # "reinforce_plus_plus" ->
                                   IF config.estimator.leaveOneOut THEN others ELSE samples
                             [] config.estimator.minusBaseline -> samples
                             [] OTHER -> {}]}
                /\ \A p \in DOMAIN advantage.kl \ {1} : advantage.kl[p] = <<OwnScore(k, p), OwnScore(k, p)>>

\* So what a sample says, what it earns and what that is compared to are its own
\* (run_multi_turn_rollout, run_async_multi_turn_rollout, run_env_eval, grpo_train).
SamplesAreOwn == ConversationsAreOwn /\ RewardsAreOwn /\ GamesAreOwn /\ ScoresAreOwn /\ AdvantagesAreOwn

\* The row of sample k: zero for the first token, its own score for every other.
OwnRow(row, k, theirs) ==
    /\ row[1] = k /\ row[2] = theirs
    /\ row[3][1] = Zero
    /\ \A p \in 2..Lengths[k] : row[3][p] = OwnScore(k, p)

\* The ids of the highest logits of a place, the highest first.
OwnIds(column) ==
    [n \in 1..config.topk |->
        CHOOSE id \in 0..(VocabSize - 1) :
            Cardinality({other \in 0..(VocabSize - 1) : Logit(column, other) > Logit(column, id)}) = n - 1]
OwnTopk(column) == [n \in 1..config.topk |-> <<column, OwnIds(column)[n], OwnIds(column)[n]>>]

\* Every row of train_data gets its own log-probabilities, each token its own,
\* those under the policy and those under the reference policy with the right
\* weights, however the batch was sorted, packed and spread over the workers,
\* and its rows and the vocabulary cut.
LogprobsAreOwn ==
    /\ prevLogprobs # <<>> =>
          /\ Len(prevLogprobs) = Len(batch)
          /\ \A k \in DOMAIN batch : OwnRow(prevLogprobs[k], k, "policy")
    /\ referenceLogprobs # <<>> =>
          /\ Len(referenceLogprobs) = Len(batch)
          /\ \A k \in DOMAIN batch : OwnRow(referenceLogprobs[k], k, "reference")
    /\ teacherTopk # <<>> =>
          /\ Len(teacherTopk) = Len(batch)
          /\ \A k \in DOMAIN batch :
                /\ teacherTopk[k][1] = k /\ teacherTopk[k][2] = "teacher"
                /\ \A p \in 1..Lengths[k] : teacherTopk[k][3][p] = OwnTopk(<<k, p>>)
    /\ pc \in Losses => \A w \in Ranks : weights[w] = "policy"
    /\ pc = "train" /\ config.program = "grpo" => prevLogprobs # <<>>

\* The rows of the g-th global batch that are not masked; a validation is one
\* global batch.
GlobalBatchSize == IF validated > 0 THEN Len(batch) ELSE config.gbs * PerDatum
GlobalBatch(g) == {k \in DOMAIN batch : (k - 1) \div GlobalBatchSize + 1 = g /\ k \notin masked}

\* What the loss is to be made of: rows, or pairs of rows; and of each row the
\* tokens that count, each with its score, beside those it is to be compared to,
\* or the row as a whole.
OwnUnits(g) == IF Pairs THEN {<<k, k + 1>> : k \in {k \in GlobalBatch(g) : k % 2 = 1}} ELSE {<<k>> : k \in GlobalBatch(g)}
ComparedTo ==
    CASE config.program = "grpo" -> IF config.reference THEN <<"policy", "reference">> ELSE <<"policy">>
      [] config.program = "dpo" -> <<"reference">>
      [] config.program \in {"sft", "rm"} -> <<>>
OwnDistillation(column) ==
    <<[n \in 1..config.topk |-> <<<<column, OwnIds(column)[n]>>>>], <<"teacher", OwnTopk(column)>>,
      IF Setup.entropy THEN [id \in 1..VocabSize |-> <<column, id - 1>>] ELSE Zero>>
OwnTerm(k, p) ==
    IF config.program = "distillation" THEN OwnDistillation(<<k, p - 1>>)
    ELSE <<OwnScore(k, p)>> \o [c \in DOMAIN ComparedTo |-> <<ComparedTo[c], OwnScore(k, p)>>]
OwnTerms(k) ==
    IF config.program = "rm" THEN {[p \in 1..Lengths[k] |-> <<k, p>>]} ELSE {OwnTerm(k, p) : p \in TokenMask(k)}

\* A pair is two answers to one question, the first of which is preferred.
IsPreference(pair) ==
    LET data == IF validated > 0 THEN config.val.data ELSE config.data
        of(k) == Log(batch[k])[1].of
        rank(k) == data[of(k)[1]].ranks[of(k)[2]]
    IN  of(pair[1])[1] = of(pair[2])[1] /\ rank(pair[1]) < rank(pair[2])

IsOwn(gradient) ==
    LET own == [i \in DOMAIN gradient.samples |-> OwnTerms(gradient.samples[i])]
    IN  /\ Range(gradient.terms) = UNION Range(own)
        /\ Len(gradient.terms) = FoldLeft(LAMBDA n, terms : n + Cardinality(terms), 0, own)
        /\ Pairs => IsPreference(gradient.samples)

\* Each step of the optimizer takes in each valid row of its global batch once
\* and in it each token that counts once, its score then beside its score now;
\* each pair of preferred and rejected answers once, with both of them; and
\* normalises by the number of these rows and of these tokens.  So does the loss
\* of a validation, whatever its last batch was filled up with.  A pass has
\* trained on all rows when it is over.  The exception is a reward model with
\* dynamic batching, which rm.py does not refuse as dpo.py does: sorted by length,
\* answers stand beside those to other questions.
EachTrainedOnce ==
    /\ \A g \in DOMAIN applied : \A r \in Replicas :
          LET step == applied[g][r]
              terms == FoldLeft(LAMBDA n, gradient : n + Len(gradient.terms), 0, step.gradients)
          IN  /\ ~(config.program = "rm" /\ config.batching = "dynamic") =>
                    /\ Len(step.gradients) = Cardinality(OwnUnits(g))
                    /\ {gradient.samples : gradient \in Range(step.gradients)} = OwnUnits(g)
                    /\ \A gradient \in Range(step.gradients) : IsOwn(gradient)
              /\ step.valid.seqs = Cardinality(GlobalBatch(g))
              /\ config.program # "rm" => step.valid.toks = terms
    /\ pc = "done" => Len(applied) = Len(batch) \div GlobalBatchSize

\* What a microbatch takes on the device: its rows padded to the longest, or the
\* padded rows end to end when they are packed.
TokensOnDevice(o) ==
    IF Acting.batching = "dynamic" THEN Len(o.rows) * o.width
    ELSE FoldLeft(LAMBDA n, k : n + RoundUp(Lengths[k], config.divisor), 0, o.rows)

\* No microbatch of a call exceeds the token budget of that call, train_mb_tokens
\* or logprob_mb_tokens.
WithinTokenBudget ==
    call # NoCall /\ Acting.batching # "plain" =>
        \A w \in Ranks :
            Running(w) /\ Current(w).op = "micro" => TokensOnDevice(Current(w)) <= TokensOf(call.name)

\* A step never fails for the way it is cut, with these exceptions: a sequence
\* that fits no microbatch; a packed row that tensor parallel ranks cannot share
\* out to filter it for sampling, which the divisor that the error message names
\* does not help; a sequence that, for a pipeline, was padded beyond the batch (PackInputIds,
\* EntropyRaises); a teacher of Megatron with context parallelism that does not pack;
\* a vote on texts of which one has no answer; a batch in which some samples get one
\* reward and others several, or GDPO if nobody gets several; an odd number of answers in a microbatch of a reward model with dynamic batching;
\* and conversations that Megatron's engines or the reward model cannot share out
\* evenly, as some of a batch have ended or have another task, or of which a
\* replica of the reward model gets one.  There are always enough sequences for
\* the bins of the shards.
ShardingNeverFails ==
    pc = "raised" =>
        \/ \E k \in DOMAIN batch :
              RoundUp(Lengths[k], IF config.batching = "packed" THEN config.divisor ELSE config.round)
                  > Min({config.tokens.train, config.tokens.logprobs})
        \/ config.batching = "packed" /\ config.worker # "megatron" /\ config.sampling /\ config.mesh.tp > 1
        \/ config.batching = "packed" /\ config.fuse /\ config.mesh.pp > 1
        \/ config.program = "rm" /\ config.batching = "dynamic"
        \/ config.program = "eval" /\ config.eval.verifier = "math" /\ \E i \in Range(batch) : Said(i) = "none"
        \/ config.program = "distillation" /\
              \/ config.teacher.worker = "megatron" /\ config.teacher.batching # "packed" /\ config.teacher.mesh.cp > 1
              \/ config.batching = "packed" /\ config.mesh.pp > 1 /\ config.mesh.cp = 1 /\ Setup.entropy
        \/ config.estimator.name = "gdpo" /\ ~\E i \in Samples : credited[i] # <<>> /\ TaskOf(i) = "multi_reward"
        \/ {TaskOf(i) = "multi_reward" : i \in Samples} = BOOLEAN
        \/ config.generation.backend = "megatron" /\ Len(active) % config.generation.dp # 0
        \/ LET scored == Cardinality({i \in Range(active) : TaskOf(i) = "reward_model"})
           IN  scored % config.environment.workers # 0 \/ scored = config.environment.workers

\* No worker waits in an operation for one that is in another, or has finished,
\* whatever was packed for whom: until a call is done, all participants of some
\* operation have come to it.
WorkersMeet == call # NoCall /\ ~CallDone => \E w \in Ranks : Ready(w)
=============================================================================
