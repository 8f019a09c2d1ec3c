--------------------------- MODULE GenerationBackends ---------------------------
(***************************************************************************)
(* What the generation workers make of a batch of requests.  A request is  *)
(* a row of tokens, padded to the longest of the batch, and its length; an *)
(* output is a row with the reply behind the input, the log-probabilities  *)
(* at the places of their tokens, and its length without padding.  The     *)
(* callers cut the reply out again by the two lengths.                     *)
(*                                                                         *)
(* Tokens are <<sample, position>>, and the log-probability of a token is  *)
(* known by the token.  An engine sees only the prompt it is given: it     *)
(* goes on with the conversation whose beginning that is, and reply[i]     *)
(* says how far if it is the one of sample i.                              *)
(***************************************************************************)
EXTENDS TokenLogprobs, WorkerDispatch

CONSTANTS
    MaxSeqLen,       \* max_total_sequence_length, max_model_len, context_length
    MaxNewTokens     \* max_new_tokens, unless the backend is Megatron

ASSUME BackendAssumption == MaxSeqLen \in Nat \ {0, 1} /\ MaxNewTokens \in Nat \ {0}

Backends == {"vllm", "vllm_async", "sglang", "megatron"}

\* The sample whose tokens these are, from position `first' on, or 0.
OwnerOf(tokens, first) ==
    IF tokens # <<>> /\ \A k \in DOMAIN tokens : tokens[k] = <<tokens[1][1], first + k - 1>>
    THEN tokens[1][1] ELSE 0

\* format_prompt_for_vllm_generation: the row without its padding.
Prompt(request) == UpTo(request.tokens, request.length)

\* SGLang is not given more than its context holds.
SglangPrompt(request) == UpTo(request.tokens, Min({request.length, MaxSeqLen - 1}))

\* How long a reply to a prompt of `length' tokens may be: as long as there is
\* room; SGLang leaves one place, and to Megatron max_new_tokens is the length of
\* prompt and reply together (num_tokens_total).
VllmLimit(length) == Max({0, Min({MaxNewTokens, MaxSeqLen - length})})
SglangLimit(length) == Min({MaxNewTokens, Max({0, MaxSeqLen - length - 1})})
MegatronLimit(length) == MaxSeqLen - length

Limit(backend, length) ==
    CASE backend \in {"vllm", "vllm_async"} -> VllmLimit(length)
      [] backend = "sglang" -> SglangLimit(length)
      [] backend = "megatron" -> MegatronLimit(length)

\* What an engine may answer: a reply that stops, or one cut at the limit.
Replies(backend, length) ==
    LET limit == Limit(backend, length)
    IN  {r \in [len : Min({1, limit})..limit, cut : BOOLEAN] : r.cut => r.len = limit /\ limit > 0}

\* Only vLLM's workers report that a reply was cut.
ReportsTruncation(backend) == backend \in {"vllm", "vllm_async"}

Continuation(prompt, reply) ==
    LET i == OwnerOf(prompt, 1) IN Kept([k \in 1..reply[i].len |-> <<i, Len(prompt) + k>>])

-----------------------------------------------------------------------------
(* The rows that the workers return. *)

Zeros(n) == [k \in 1..n |-> Zero]

\* The reply goes behind the input, padding or not, and its log-probabilities
\* to the same places.
OutputRow(input, answer, width) ==
    [output_ids |-> PadRow(input \o answer, width, Pad),
     logprobs |-> PadRow(Zeros(Len(input)) \o answer, width, Zero),
     length |-> Len(input) + Len(answer)]

\* VllmGenerationWorker.generate: the engine answers in the order of the requests;
\* rows of the padded input and the longest reply.
VllmAnswers(requests, reply) ==
    Kept([b \in DOMAIN requests |-> Continuation(Prompt(requests[b]), reply)])
VllmOutputs(requests, reply) ==
    LET answers == VllmAnswers(requests, reply)
        width == Len(requests[1].tokens) + Max({Len(answers[b]) : b \in DOMAIN answers})
    IN  [b \in DOMAIN requests |-> OutputRow(Prompt(requests[b]), answers[b], width)]

\* VllmAsyncGenerationWorker.generate_async: one row, as long as it is; no engine
\* is asked when there is no room.
InputOnly(request) == OutputRow(Prompt(request), <<>>, request.length)
VllmAsyncAnswer(request, reply) == Continuation(Prompt(request), reply)
VllmAsyncOutput(request, reply) ==
    LET answer == VllmAsyncAnswer(request, reply)
    IN  IF VllmLimit(request.length) = 0 THEN InputOnly(request)
        ELSE OutputRow(Prompt(request), answer, request.length + Len(answer))

\* SGLangGenerationWorker._generate_async: the requests of a batch end in any order,
\* and the result of each is put where its number says.
SglangAnswers(requests, reply) ==
    Kept([b \in DOMAIN requests |-> Continuation(SglangPrompt(requests[b]), reply)])

\* SGLangGenerationWorker.generate: rows of the longest output, or the padded
\* input.
SglangOutputs(requests, reply) ==
    LET answers == SglangAnswers(requests, reply)
        width == Max({Len(requests[1].tokens)} \cup {requests[b].length + Len(answers[b]) : b \in DOMAIN answers})
    IN  [b \in DOMAIN requests |-> OutputRow(Prompt(requests[b]), answers[b], width)]

\* MegatronPolicyWorkerImpl.generate: the requests that have ended are sorted by
\* their numbers.  The engine scores the prompt too, from its second token on.
MegatronAnswers(requests, reply) ==
    LET Row(request) == Prompt(request) \o Continuation(Prompt(request), reply)
    IN  Kept([b \in DOMAIN requests |-> [tokens |-> Row(requests[b]), logprobs |-> Tail(Row(requests[b]))]])

\* All scores stand one place to the right.
MegatronOutputs(requests, reply) ==
    LET out == MegatronAnswers(requests, reply)
        width == Len(requests[1].tokens) + Max({Len(out[b].tokens) - requests[b].length : b \in DOMAIN out})
    IN  [b \in DOMAIN requests |->
            [output_ids |-> PadRow(out[b].tokens, width, Pad),
             logprobs |-> PadRow(<<Zero>> \o out[b].logprobs, width, Zero),
             length |-> Len(out[b].tokens)]]

\* from_batches: the rows of all workers, padded to the longest.
FromBatches(outputs) ==
    LET width == Max({Len(outputs[b].output_ids) : b \in DOMAIN outputs})
    IN  [b \in DOMAIN outputs |->
            [output_ids |-> PadRow(outputs[b].output_ids, width, Pad),
             logprobs |-> PadRow(outputs[b].logprobs, width, Zero),
             length |-> outputs[b].length]]

-----------------------------------------------------------------------------
(* The call. *)

\* VllmGeneration.generate: the first worker of each model is called, and the
\* last may be left without a request.
VllmGenerate(requests, dp, tp, reply) ==
    LET mesh == GenerationMesh(dp, 1, tp)
        shards == UnevenShards(requests, dp)
        OfWorker(shard) == IF shard = <<>> THEN <<>> ELSE VllmOutputs(shard, reply)
    IN  GetResults(mesh, GenerateCall, [w \in Workers(mesh) |-> OfWorker(SliceOf(mesh, w, shards))])

\* SGLangGeneration.generate: the same with its servers.
SglangGenerate(requests, dp, tp, reply) ==
    LET mesh == SglangMesh(dp, tp)
        shards == UnevenShards(requests, dp)
        OfWorker(shard) == IF shard = <<>> THEN <<>> ELSE SglangOutputs(shard, reply)
    IN  GetResults(mesh, GenerateCall, [w \in Workers(mesh) |-> OfWorker(SliceOf(mesh, w, shards))])

\* Policy.generate: the training workers generate, all of them, with shards of the
\* same size.
PolicyGenerate(requests, dp, tp, reply) ==
    LET mesh == PolicyMesh(1, dp, 1, tp)
        shards == PlainSharding(requests, dp, Len(requests)).rows
    IN  GetResults(mesh, PolicyGenerateCall,
            [w \in Workers(mesh) |-> MegatronOutputs(SliceOf(mesh, w, shards), reply)])

\* ... or shard_by_batch_size raises.
PolicyGenerateRaises(backend, requests, dp) == backend = "megatron" /\ Len(requests) % dp # 0

Generated(backend, requests, dp, tp, reply) ==
    FromBatches(CASE backend = "vllm" -> VllmGenerate(requests, dp, tp, reply)
                  [] backend = "sglang" -> SglangGenerate(requests, dp, tp, reply)
                  [] backend = "megatron" -> PolicyGenerate(requests, dp, tp, reply))

\* generate_responses: the message that is cut out of an output.  It is known by
\* the sample whose reply it is, whole and with its own log-probabilities.
ReplyMessage(output, inputLength) ==
    LET tokens == SubSeq(output.output_ids, inputLength + 1, output.length)
        logprobs == SubSeq(output.logprobs, inputLength + 1, output.length)
    IN  [role |-> "assistant", of |-> IF logprobs = tokens THEN OwnerOf(tokens, inputLength + 1) ELSE 0,
         len |-> Len(tokens)]
=============================================================================
