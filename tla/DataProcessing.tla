----------------------------- MODULE DataProcessing -----------------------------
(***************************************************************************)
(* nemo_rl/data: what the processors make of an item of a dataset, and the *)
(* collate functions of several.  A conversation is a sequence of messages,*)
(* each with a role, whom it is for and its length in tokens.  An item     *)
(* becomes one or, of a pair of answers, two conversations, the length it  *)
(* had and a loss_multiplier, which is 0 if it is too long to be used.     *)
(***************************************************************************)
EXTENDS GenerationBackends

Message(role, i, len) == [role |-> role, of |-> i, len |-> len]
Length(messages) == FoldLeft(LAMBDA n, m : n + m.len, 0, messages)

\* "make smaller and mask out"
MakeSmaller(messages) ==
    [m \in DOMAIN messages |-> [messages[m] EXCEPT !.len = Min({@, 4, MaxSeqLen \div Len(messages)})]]

\* Only a conversation that is shorter than the limit stays as it is.
Processed(messages) ==
    IF Length(messages) >= MaxSeqLen
    THEN [logs |-> <<MakeSmaller(messages)>>, length |-> Length(messages), loss_multiplier |-> 0]
    ELSE [logs |-> <<messages>>, length |-> Length(messages), loss_multiplier |-> 1]

-----------------------------------------------------------------------------
(* Prompts: `len' is the length of what the user says, `system' that of the *)
(* system prompt, or 0.                                                     *)

\* math_hf_data_processor: one message.
MathHfPrompt(p, system, len) == Processed(<<Message("user", p, system + len)>>)

\* math_data_processor: the system prompt is a message of its own.
MathPrompt(p, system, len) ==
    IF system = 0 THEN MathHfPrompt(p, system, len)
    ELSE Processed(<<Message("system", p, system), Message("user", p, len)>>)

\* reasoning_gym_data_processor
ReasoningGymPrompt(p, system, len) == MathHfPrompt(p, system, len)

\* vlm_hf_data_processor takes no system prompt.
VlmPrompt(p, len) == MathHfPrompt(p, 0, len)

\* helpsteer3_data_processor: the answer is a message of the prompt, without
\* tokens, as the first message holds those of all; no more than its share is left.
HelpsteerPrompt(p, len) ==
    LET messages == <<Message("user", p, len), Message("assistant", p, 0)>>
        cut == [m \in DOMAIN messages |-> [messages[m] EXCEPT !.len = Min({@, MaxSeqLen \div Len(messages)})]]
    IN  IF len >= MaxSeqLen THEN [logs |-> <<cut>>, length |-> len, loss_multiplier |-> 0]
        ELSE [logs |-> <<messages>>, length |-> len, loss_multiplier |-> 1]

\* The prompts of a task; those of games and code are made without a processor.
PromptDatum(task, p, system, len) ==
    CASE task \in {"math", "multi_reward"} -> MathPrompt(p, system, len)
      [] task = "reward_model" -> MathHfPrompt(p, system, len)
      [] task = "reasoning_gym" -> ReasoningGymPrompt(p, system, len)
      [] task = "vlm" -> VlmPrompt(p, len)
      [] task = "jaccard" -> HelpsteerPrompt(p, len)
      [] task \in {"code", "game"} -> [logs |-> <<<<Message("user", p, len)>>>>, length |-> len, loss_multiplier |-> 1]

-----------------------------------------------------------------------------
(* Conversations to learn from.  A dialog is the lengths of its messages;   *)
(* a preference has a context, two completions and their ranks.             *)

Dialog(lens, of) ==
    [m \in DOMAIN lens |-> Message(IF m % 2 = 1 THEN "user" ELSE "assistant", of, lens[m])]

SftProcessor(datum, d) == Processed(Dialog(datum.messages, <<d, 1>>))

\* preference_preprocessor: lower rank is preferred; ties raise.
PreferencePreprocessor(datum, d) ==
    LET chosen == IF datum.ranks[1] < datum.ranks[2] THEN 1 ELSE 2
        Conversation(c) == Dialog(Append(datum.context, datum.completions[c]), <<d, c>>)
        logs == <<Conversation(chosen), Conversation(3 - chosen)>>
    IN  IF Max({Length(logs[1]), Length(logs[2])}) > MaxSeqLen
        THEN [logs |-> <<MakeSmaller(logs[1]), MakeSmaller(logs[2])>>, loss_multiplier |-> 0]
        ELSE [logs |-> logs, loss_multiplier |-> 1]

\* rl_collate_fn: a row for each item.
Collate(data) ==
    Kept([d \in DOMAIN data |->
        LET item == SftProcessor(data[d], d) IN [log |-> item.logs[1], loss_multiplier |-> item.loss_multiplier]])

\* preference_collate_fn: the chosen and the rejected conversations in turn.
PreferenceCollate(data) ==
    FlattenSeq([d \in DOMAIN data |->
        LET item == PreferencePreprocessor(data[d], d)
        IN  [c \in 1..2 |-> [log |-> item.logs[c], loss_multiplier |-> item.loss_multiplier]]])

\* add_loss_mask_to_message_log: the positions that count.
LossMask(log, only_unmask_final) ==
    UNION {LET before == Length(SubSeq(log, 1, m - 1)) IN (before + 1)..(before + log[m].len) :
               m \in {m \in DOMAIN log : IF only_unmask_final THEN m = Len(log) ELSE log[m].role = "assistant"}}

\* maybe_pad_last_batch: the last row is repeated; the copies are masked.
PadLastBatch(rows, dp, mbs) ==
    rows \o [k \in 1..(RoundUp(Len(rows), mbs * dp) - Len(rows)) |-> rows[Len(rows)]]
=============================================================================
