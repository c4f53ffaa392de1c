------------------------------- MODULE MCRules -------------------------------
(***************************************************************************)
(* The rules of DagRules and ScoreRules on every input of small sets of    *)
(* them: a behaviour draws one input and stops.  input.about names the     *)
(* rule the input is for, input.of is the input.                           *)
(***************************************************************************)
EXTENDS RulePromises

CONSTANTS MaxNodes,     \* nodes of a DAG
          MaxDeps,      \* dependencies of a node
          Rewards,      \* rewards of patterns
          MaxForced     \* MAX_FORCED_REPLY_LEN

ASSUME RulesAssumption ==
  MaxNodes \in Nat /\ MaxDeps \in Nat /\ Rewards \subseteq Nat /\ MaxForced \in Nat

VARIABLE input

-----------------------------------------------------------------------------
(* The inputs.                                                             *)

\* Lists of at most MaxDeps dependencies, with repetitions, or the missing node alone;
\* the order of a list plays no part.
DepLists(n) ==
  {<<0>>} \cup {d \in UNION {[1 .. k -> 1 .. n] : k \in 0 .. MaxDeps} :
                 \A i \in 1 .. Len(d) - 1 : d[i] <= d[i + 1]}

\* Node lists in any order, with repeated ids, self-dependencies, dependencies on the
\* missing node 0, and cycles.
Graphs(n) ==
  {[i \in 1 .. n |-> Node(id[i], "NOOP", deps[i], 1)] :
     id \in [1 .. n -> 1 .. n], deps \in [1 .. n -> DepLists(n)]}

\* Acyclic graphs on one id per node, wide enough to tell levels from antichains.
WideGraphs ==
  {[i \in 1 .. 5 |-> Node(i, "NOOP", SetToSeq(e[i]), 1)] :
     e \in {f \in [1 .. 5 -> SUBSET (1 .. 4)] : \A i \in 1 .. 5 : f[i] \subseteq 1 .. i - 1}}

Pattern(id, dag, reward, success, known) ==
  [id |-> id, dag |-> dag, reward |-> reward, success |-> success, latency |-> known, cost |-> known]

NoReply == SubSeq(ChatDag, 1, 3)     \* a DAG without the mandatory ENFORCE and PERSIST nodes
Terse == [ChatDag EXCEPT ![3].attempts = 1]

PatternSets ==
  LET P(id) == {Pattern(id, d, r, s, s) : d \in {Terse, CodeChangeDag, NoReply},
                                          r \in Rewards, s \in {None, 900}}
  IN  {<<p, q>> : p \in P(1), q \in P(2)}

Configs == [allowSynthesis : BOOLEAN, minPatternReward : {500, 600},
            weights : {DefaultWeights, [quality |-> 100, latency |-> 0, cost |-> 0, risk |-> 0]}]

Bounds == [max_parallelism : {None}, max_depth : {None, 2}, allow_pattern_reuse : BOOLEAN,
           allow_pattern_modification : BOOLEAN, allow_dag_synthesis : {TRUE}]

Contexts == [dagType : {"code_change", "direct_reply", "research", "other"},
             riskLevel : {"low", "medium", "high"}, regulated : BOOLEAN]

Retries == [max_attempts : {Absent, NotANumber, 0, 1, 2, 3}, backoff_ms : {Absent, -1, 0, 2, 5},
            maxattempts : {Absent, NotANumber, 0, 2}, backoffms : {Absent, 1, 4}]

Identities == [dag_id : {Absent, 1}, dagid : {Absent, 2}, run_id : {Absent, 3}, runid : {Absent, 4}]

Event(t, attempt, value) ==
  [type |-> t, node |-> 1, attempt |-> attempt, ok |-> TRUE, value |-> value, ts |-> 0]

Logs == {<<Event("NODE_STARTED", a, Nothing), Event("LLM_COMPLETED", 1, l), e>> :
           a \in 1 .. 5, l \in {Nothing, 0, 4000, 8000, 20000},
           e \in {Event("NODE_STARTED", 1, Nothing), Event("VALIDATION_ERROR", 1, Nothing),
                  Event("LLM_COMPLETED", 1, 100)}}

Value == {NoMatch} \cup [len : 0 .. MaxForced + 1, punct : BOOLEAN, ends : BOOLEAN]

Undrawn == [about |-> "nothing"]

Draw(rule, S) == input = Undrawn /\ \E x \in S : input' = [about |-> rule, of |-> x]

DrawOrder    == Draw("order", UNION {Graphs(n) : n \in 1 .. MaxNodes})
DrawWidth    == Draw("width", WideGraphs)
DrawPlan     == Draw("plan", PatternSets \X Configs \X Bounds)
DrawPolicy   == Draw("policy", Contexts \X BOOLEAN)
DrawRetry    == Draw("retry", Retries)
DrawIdentity == Draw("identity", Identities)
DrawReward   == Draw("reward", Logs \X BOOLEAN)
DrawTrust    == Draw("trust", {Nothing, 1000, 5000, 6000, 9500} \X (-2 .. 100) \X {0, 7900, 8750, One})
DrawReply    == Draw("reply", [match : [1 .. 3 -> Value], always : {"no", "ok", "ok."}])

Init == input = Undrawn
Next == \/ DrawOrder \/ DrawWidth \/ DrawPlan \/ DrawPolicy \/ DrawRetry \/ DrawIdentity
        \/ DrawReward \/ DrawTrust \/ DrawReply
Spec == Init /\ [][Next]_input

-----------------------------------------------------------------------------
(* Properties: each puts the promises about one question together.         *)

\* The executor's order exists exactly when it can, and is the first of its kind.
OrderIsRight ==
  input.about = "order" => OrderAgrees(input.of) /\ OrderIsFirst(input.of)

\* What is chosen to run: the planner's candidate, by its width among other checks, and
\* the verdict of the policy gate on it.
ChoiceIsSound ==
  /\ input.about = "width" => WidthBounds(input.of)
  /\ input.about = "plan" => WinnerIsSound(input.of[1], input.of[2], input.of[3])
  /\ input.about = "policy" => PolicyTable(input.of[1], input.of[2])

\* What a run earns its agent: the route of its reward and the step of the trust.
RewardIsFair ==
  /\ input.about = "reward" => RoutingOfVerdict(input.of[1], input.of[2])
  /\ input.about = "trust" => TrustIsDamped(input.of[1], input.of[2], input.of[3])

\* What comes from outside is brought into its limits: retries, ids and forced replies.
InputIsFitted ==
  /\ input.about = "retry" => RetryFits(input.of, 2)
  /\ input.about = "identity" => IdentityFits(input.of)
  /\ input.about = "reply" => ForcedReplyFits(input.of, MaxForced + 2, MaxForced)

=============================================================================
