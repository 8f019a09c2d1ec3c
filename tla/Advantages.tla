------------------------------- MODULE Advantages -------------------------------
(***************************************************************************)
(* The advantages of a batch of grpo_train and what they are made of       *)
(* (algorithms/grpo.py, utils.py, advantage_estimator.py): which rewards   *)
(* the reward of a sample is compared to.  A reward is named by the sample *)
(* that earned it.  The samples of one prompt are found again by the       *)
(* tokens that their conversations begin with.                             *)
(***************************************************************************)
EXTENDS PolicyStep

\* _create_advantage_estimator takes no other; Reinforce++ leaves nobody out.
Estimators == {"grpo", "gdpo", "reinforce_plus_plus"}

\* extract_initial_prompt_messages: the messages that begin before the length that
\* the prompt had, which is its length before it was made smaller.
InitialPrompt(log, length) ==
    SubSeq(log, 1, Cardinality({m \in DOMAIN log : Length(SubSeq(log, 1, m - 1)) < length}))

\* prompt_ids_for_adv: the tokens of these messages, as rows of one width.
PromptTokens(i) ==
    LET messages == InitialPrompt(Log(i), Datum(PromptOf(i)).length)
    IN  FlattenSeq([m \in DOMAIN messages |->
            [p \in 1..messages[m].len |-> <<messages[m].role, messages[m].of, p>>]])
Padded(tokens) ==
    LET width == Max({Len(tokens[k]) : k \in DOMAIN tokens})
    IN  [k \in DOMAIN tokens |-> PadRow(tokens[k], width, Pad)]
PromptIds == Kept(Padded(Kept([k \in DOMAIN batch |-> PromptTokens(batch[k])])))

\* calculate_baseline_and_std_per_prompt: the rewards with the same prompt, or the
\* other ones of them; one by itself is its own baseline.  Samples that are masked
\* count like all others.
Baseline(promptIds, k, leaveOneOut) ==
    LET group == {j \in DOMAIN batch : promptIds[j] = promptIds[k]}
    IN  {batch[j] : j \in IF leaveOneOut /\ group # {k} THEN group \ {k} ELSE group}

Compared(promptIds, k, leaveOneOut) ==
    [reward |-> batch[k], baseline |-> Baseline(promptIds, k, leaveOneOut)]

\* get_gdpo_reward_component_keys: "reward1", "reward2", ... are there if a sample
\* has earned several rewards.
RewardComponents ==
    IF \E i \in Samples : TaskOf(i) = "multi_reward" /\ credited[i] # <<>> THEN Rewards ELSE {}

\* calculate_kl, of a token.
KlOf(k, p) == <<prevLogprobs[k][3][p], referenceLogprobs[k][3][p]>>

\* compute_advantage of the three estimators: what a row's advantage is the sum of.
GRPOAdvantage(promptIds, k) ==
    [compared |-> <<Compared(promptIds, k, config.estimator.leaveOneOut)>>, kl |-> <<>>]
GDPOAdvantage(promptIds, k) ==
    [compared |-> [r \in RewardComponents |-> Compared(promptIds, k, config.estimator.leaveOneOut)],
     kl |-> <<>>]
ReinforcePlusPlusAdvantage(promptIds, k) ==
    [compared |-> IF config.estimator.minusBaseline THEN <<Compared(promptIds, k, FALSE)>>
                  ELSE <<[reward |-> batch[k], baseline |-> {}]>>,
     kl |-> IF config.estimator.klInReward /\ config.reference
            THEN [p \in 1..Lengths[k] |-> KlOf(k, p)] ELSE <<>>]

\* train_data["advantages"], of a row.
AdvantageOf(promptIds, k) ==
    CASE config.estimator.name = "grpo" -> GRPOAdvantage(promptIds, k)
      [] config.estimator.name = "gdpo" -> GDPOAdvantage(promptIds, k)
      [] config.estimator.name = "reinforce_plus_plus" -> ReinforcePlusPlusAdvantage(promptIds, k)

\* GDPO does not do with one reward.
EstimatorRaises == config.estimator.name = "gdpo" /\ Cardinality(RewardComponents) < 2
=============================================================================
