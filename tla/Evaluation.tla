------------------------------ MODULE Evaluation ------------------------------
(***************************************************************************)
(* nemo_rl/evals/eval.py: run_env_eval asks the engines for several texts  *)
(* to every prompt, has an environment judge them, and adds up the scores  *)
(* of the prompts, batch by batch.                                         *)
(*                                                                         *)
(* config.eval has the metric, k, the prompts of a batch, the verifier of  *)
(* the math environment and what a text may say: the right answer, another *)
(* one, none that can be read, or one on which the verifier fails.  Scores *)
(* are whole numbers of 1 / Unit.                                          *)
(***************************************************************************)
EXTENDS Rollouts

VARIABLES
    evaluation    \* [batches, arrived, verdict, score]

Metrics == {"pass@k", "cons@k"}
Verdicts == {"math", "english_multichoice"}
Answers == {"right", "wrong", "other", "none", "error"}
NoAnswer == "none"

Idle == [batches |-> 0, arrived |-> <<>>, verdict |-> [rewards |-> <<>>, answers |-> <<>>], score |-> 0]

\* num_tests_per_prompt
Tests == config.generations

\* What setup asserts.
EvaluationRefused(c) ==
    \/ c.eval.metric \notin Metrics
    \/ c.eval.k < 1 \/ c.generations < c.eval.k
    \/ c.generation.backend \notin {"vllm", "vllm_async"}

-----------------------------------------------------------------------------
(* The texts. *)

\* eval_collate_fn and repeat_interleave: the tests of the prompts of the j-th batch.
BatchOf(j) ==
    Span((j - 1) * config.eval.prompts * Tests + 1, Min({j * config.eval.prompts * Tests, NumSamples}))

NextEvaluationBatch ==
    /\ pc = "evaluate" /\ evaluation.batches * config.eval.prompts < Len(config.prompts)
    /\ batch' = BatchOf(evaluation.batches + 1)
    /\ evaluation' = [evaluation EXCEPT !.batches = @ + 1, !.arrived = <<>>]
    /\ pc' = IF config.generation.backend = "vllm" THEN "texts" ELSE "texts_async"
    /\ UNCHANGED message_log

\* A text is known by the test that it was made for.
Text(i, answer) == [role |-> "assistant", of |-> i, len |-> 0, says |-> answer]

\* VllmGenerationWorker.generate_text: the engine answers in the order of the prompts.
WorkerTexts(tests, answer) == [n \in DOMAIN tests |-> Text(tests[n], answer[tests[n]])]

\* VllmGeneration.generate_text
GenerateText(tests, answer) ==
    LET mesh == GenerationMesh(config.generation.dp, 1, config.generation.tp)
        shards == UnevenShards(tests, config.generation.dp)
    IN  GetResults(mesh, GenerateCall,
            [w \in Workers(mesh) |-> WorkerTexts(SliceOf(mesh, w, shards), answer)])

\* The n-th text goes to the n-th conversation of the batch.
Appended(texts) ==
    FoldLeft(LAMBDA heap, n : [heap EXCEPT ![logOf[batch[n]]] = Append(@, texts[n])],
             message_log, [n \in DOMAIN texts |-> n])

TakeTexts(texts) ==
    /\ message_log' = Appended(texts)
    /\ pc' = "verify"

GenerateTexts ==
    /\ pc = "texts"
    /\ \E answer \in [Range(batch) -> config.eval.answers] : TakeTexts(GenerateText(batch, answer))
    /\ UNCHANGED <<batch, evaluation>>

\* generate_text_async: the n-th prompt of the batch has its text; they come as they
\* are ready, through one worker.
TextArrives ==
    /\ pc = "texts_async"
    /\ \E n \in DOMAIN batch, answer \in config.eval.answers :
          /\ \A r \in Range(evaluation.arrived) : r.index # n
          /\ evaluation' = [evaluation EXCEPT !.arrived =
                 Append(@, [index |-> n, text |-> Text(batch[n], answer)])]
    /\ UNCHANGED <<pc, batch, message_log>>

\* _generate_texts sorts them by their indices.
SortedTexts ==
    LET sorted == SortSeq(evaluation.arrived, LAMBDA a, b : a.index < b.index)
    IN  [n \in DOMAIN sorted |-> sorted[n].text]

AllTextsHere ==
    /\ pc = "texts_async" /\ Len(evaluation.arrived) = Len(batch)
    /\ TakeTexts(SortedTexts)
    /\ UNCHANGED <<batch, evaluation>>

\* A request fails: the others are cancelled, and the program ends.
TextFails ==
    /\ pc = "texts_async" /\ Len(evaluation.arrived) < Len(batch) /\ "generation" \in RolloutFaults
    /\ pc' = "failed"
    /\ UNCHANGED <<batch, message_log, evaluation>>

-----------------------------------------------------------------------------
(* The verdicts. *)

\* The reply that is judged, with the truth of a conversation.
Said(i) == Last(Log(i)).says
Reads(of, with) ==
    IF Said(of) = "right" /\ PromptOf(of) # PromptOf(with) THEN "other" ELSE Said(of)

Reward(says) == IF says = "right" THEN 1 ELSE 0
AnswerOf(says) == IF says = "error" THEN NoAnswer ELSE says

\* HFVerifyWorker.verify: a text without an answer has its reward already when the
\* answer is asked for, and gets another in the handler of the exception.
HFVerify(says) ==
    [rewards |-> IF says = "none" THEN <<0, 0>> ELSE <<Reward(says)>>, answers |-> <<AnswerOf(says)>>]

\* EnglishMultichoiceVerifyWorker.verify
MultichoiceVerify(says) == [rewards |-> <<Reward(says)>>, answers |-> <<AnswerOf(says)>>]

VerifyOne(says) == IF config.eval.verifier = "math" THEN HFVerify(says) ELSE MultichoiceVerify(says)

\* step of the environment, with return_extracted_answer: a worker for each chunk, the
\* rewards end to end, and the answers.
Verify ==
    /\ pc = "verify"
    /\ \E judged \in {VerifierStep(batch, batch, config.environment.workers)} :
          LET verdict(n) == VerifyOne(Reads(judged[n].of, judged[n].with))
          IN  evaluation' = [evaluation EXCEPT !.verdict =
                 [rewards |-> FlattenSeq([n \in DOMAIN judged |-> verdict(n).rewards]),
                  answers |-> FlattenSeq([n \in DOMAIN judged |-> verdict(n).answers])]]
    /\ pc' = "score"
    /\ UNCHANGED <<batch, message_log>>

-----------------------------------------------------------------------------
(* The scores. *)

Product(s) == FoldLeft(LAMBDA x, y : x * y, 1, s)
Factorial(n) == Product(Span(1, n))
Unit == Factorial(Tests)

\* split
Groups(s) ==
    [g \in 1..((Len(s) + Tests - 1) \div Tests) |->
        SubSeq(s, (g - 1) * Tests + 1, Min({g * Tests, Len(s)}))]
Total(s) == FoldLeft(LAMBDA x, y : x + y, 0, s)

\* eval_single_chunk: 1 - (1 - k / (n - c + 1)) ... (1 - k / n)
PassAtK(rewards) ==
    LET n == Tests
        c == Total(rewards)
        k == config.eval.k
    IN  IF n - c < k THEN Unit
        ELSE Unit - Factorial(n - c) * Product([i \in 1..c |-> n - c + i - k])

\* majority_vote: of several most common answers, the one that comes first.
MajorityVote(answers) ==
    LET count(a) == Cardinality({n \in DOMAIN answers : answers[n] = a})
        first == CHOOSE n \in DOMAIN answers :
            /\ \A m \in DOMAIN answers : count(answers[m]) <= count(answers[n])
            /\ \A m \in 1..(n - 1) : count(answers[m]) < count(answers[n])
    IN  answers[first]

\* eval_single_cons_k: the k-element subsets whose vote is a rewarded answer, of all.
ConsAtK(rewards, answers) ==
    LET k == config.eval.k
        subsets == kSubset(k, DOMAIN answers)
        vote(s) == LET chosen == SetToSortSeq(s, <) IN MajorityVote([j \in DOMAIN chosen |-> answers[chosen[j]]])
        correct == {s \in subsets : rewards[SelectInSeq(answers, LAMBDA a : a = vote(s))] = 1}
    IN  Cardinality(correct) * (Unit \div Cardinality(subsets))

ScoreOf(verdict) ==
    LET rewards == Groups(verdict.rewards)
        answers == Groups(verdict.answers)
    IN  Total([g \in DOMAIN rewards |->
            IF config.eval.metric = "pass@k" THEN PassAtK(rewards[g]) ELSE ConsAtK(rewards[g], answers[g])])

\* eval_cons_k asserts that there are as many answers as rewards.
Uneven(verdict) == config.eval.metric = "cons@k" /\ Len(verdict.answers) # Len(verdict.rewards)

AddScore ==
    /\ pc = "score" /\ ~Uneven(evaluation.verdict)
    /\ evaluation' = [evaluation EXCEPT !.score = @ + ScoreOf(evaluation.verdict)]
    /\ pc' = "evaluate"
    /\ UNCHANGED <<batch, message_log>>

ScoreRefused ==
    /\ pc = "score" /\ Uneven(evaluation.verdict)
    /\ pc' = "raised"
    /\ UNCHANGED <<batch, message_log, evaluation>>

FinishEvaluation ==
    /\ pc = "evaluate" /\ evaluation.batches * config.eval.prompts >= Len(config.prompts)
    /\ pc' = "evaluated"
    /\ UNCHANGED <<batch, message_log, evaluation>>

EvaluationStep ==
    /\ \/ NextEvaluationBatch \/ GenerateTexts \/ TextArrives \/ AllTextsHere \/ TextFails
       \/ Verify \/ AddScore \/ ScoreRefused \/ FinishEvaluation
    /\ UNCHANGED <<config, logOf, extra_env_info, credited, truncated, turns, active, finished>>
=============================================================================
