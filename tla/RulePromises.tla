----------------------------- MODULE RulePromises -----------------------------
(***************************************************************************)
(* What the rules of DagRules and ScoreRules promise for one input, each   *)
(* against a definition that does not repeat the rule.  TLC evaluates the  *)
(* promises on small inputs (MCRules), RuleProofs proves them.             *)
(***************************************************************************)
EXTENDS DagRules, ScoreRules

Before(dag, o) == \* o is an order of the nodes in which dependencies come first
  \A i \in DOMAIN o : DepsOf(dag, o[i]) \subseteq {o[j] : j \in 1 .. i - 1}

Orders(dag) == {o \in [DOMAIN dag -> Ids(dag)] : IsInjective(o) /\ Before(dag, o)}

Smaller(o, p) == \E i \in DOMAIN o : o[i] < p[i] /\ \A j \in 1 .. i - 1 : o[j] = p[j]

WellFormed(dag) == ~DuplicateId(dag) /\ ~MissingDependency(dag)

\* The executor's order exists exactly for the DAGs that are well formed and have an
\* order at all, and isCycleFree, which the planner checks candidates with, accepts
\* exactly the DAGs the executor can run when every id is used once.
OrderAgrees(dag) ==
  LET runnable == StableTopologicalOrder(dag) # Invalid
  IN  /\ runnable <=> WellFormed(dag) /\ Orders(dag) # {}
      /\ ~DuplicateId(dag) => (IsCycleFree(dag) <=> runnable)

\* The order depends on the set of the nodes alone: it is the smallest, compared id by
\* id, of the orders in which dependencies come first, however the DAG lists its nodes.
OrderIsFirst(dag) ==
  LET o == StableTopologicalOrder(dag)
      orders == Orders(dag)
  IN  o # Invalid => o \in orders /\ \A p \in orders : ~Smaller(p, o)

-----------------------------------------------------------------------------
Ancestors(dag, id) ==
  LET up[k \in 0 .. Len(dag)] ==
        IF k = 0 THEN DepsOf(dag, id)
        ELSE up[k - 1] \cup UNION {DepsOf(dag, x) : x \in up[k - 1]}
  IN  up[Len(dag)]

\* Sets of nodes that could run at once, were nodes run in parallel.
Antichains(dag) ==
  LET above == [id \in Ids(dag) |-> Ancestors(dag, id)]
  IN  {S \in SUBSET Ids(dag) : \A x, y \in S : x \notin above[y]}

Width(dag) == Max({Cardinality(S) : S \in Antichains(dag)})

\* What computeMaxParallelism counts, the nodes of a level, never exceeds what could
\* run at once, and is 1 for the DAGs that are chains and for them only.
WidthBounds(dag) ==
  LET levels == ComputeMaxParallelism(dag)
      width  == Width(dag)
  IN  levels <= width /\ (levels = 1 <=> width = 1)

\* The planner's choice among any candidates is a valid one that no valid one
\* outscores, and there is none only when no candidate is valid.
ChoiceIsBest(plan, w) ==
  /\ w = NoWinner <=> \A i \in DOMAIN plan : ~plan[i].valid
  /\ w # NoWinner => /\ w.valid /\ w \in Range(plan)
                      /\ \A i \in DOMAIN plan : plan[i].valid => plan[i].total <= w.total
                      /\ RunnerUpScore(plan, w) <= w.total

\* What the worker's own memory says of a pattern: toPatternEvidence knows no more.
Plain(id, dag) ==
  [id |-> id, dag |-> dag, reward |-> 500, success |-> None, latency |-> None, cost |-> None]

\* With the default weights and the evidence that the worker's own memory yields, the
\* planner keeps to the default DAG; a synthesised one never wins, whatever the
\* weights, since it is the default DAG with lower scores.
DefaultStands(w, patterns, config, c) ==
  /\ w.source # "SYNTHESIZED"
  /\ (/\ config.weights = DefaultWeights
      /\ \A i \in DOMAIN patterns : patterns[i] = Plain(patterns[i].id, patterns[i].dag)
      /\ IsValid(ChatDag, c)) => w.source = "DEFAULT"

\* The choice of the planner is the best one, does not depend on the order in which the
\* memory lists the patterns, and is the default DAG where nothing better is known.
WinnerIsSound(patterns, config, c) ==
  LET plan == BuildCandidates(ChatDag, patterns, config, c)
      w    == SelectWinner(plan)
  IN  /\ ChoiceIsBest(plan, w)
      /\ w = SelectWinner(BuildCandidates(ChatDag, Reverse(patterns), config, c))
      /\ DefaultStands(w, patterns, config, c)

\* A code change is blocked exactly when the workflow is off, although the first rule
\* of the list blocks every code change; with the workflow on it is reviewed exactly
\* when its risk is high or its domain regulated; nothing else is ever held up.
PolicyTable(ctx, on) ==
  LET verdict == EvaluatePolicy(ctx, on)
  IN  /\ verdict = "BLOCKED" <=> ctx.dagType = "code_change" /\ ~on
      /\ verdict = "REQUIRE_REVIEW" <=>
           ctx.dagType = "code_change" /\ on /\ (ctx.riskLevel = "high" \/ ctx.regulated)

-----------------------------------------------------------------------------
\* A retry that was normalised once comes out of a second normalisation unchanged and
\* within the executor's limits, and a canonical field that was within them is kept.  A
\* canonical retry is accepted with any delay, and one that is too long is shortened.
RetryFits(retry, maxBackoff) ==
  LET r == NormalizeRetry(retry, maxBackoff)
  IN  /\ r # Rejected => /\ r.max_attempts \in 1 .. 2 /\ r.backoff_ms \in 0 .. maxBackoff
                         /\ NormalizeRetry(r, maxBackoff) = r
                         /\ retry.max_attempts \in 1 .. 2 => r.max_attempts = retry.max_attempts
      /\ retry.max_attempts \in 1 .. 2 /\ retry.backoff_ms \in Nat =>
           /\ r # Rejected
           /\ r.backoff_ms = IF retry.backoff_ms > maxBackoff THEN maxBackoff ELSE retry.backoff_ms

\* The ids of a DAG, normalised, stay what they are, and where a field was given under
\* both of its names the canonical one is kept.
IdentityFits(spec) ==
  LET s == NormalizeIdentity(spec)
  IN  s # Rejected => /\ NormalizeIdentity(s) = s
                      /\ spec.dag_id # Absent => s.dag_id = spec.dag_id
                      /\ spec.run_id # Absent => s.run_id = spec.run_id

\* A forced reply is never empty and never longer than the limit and one mark; the
\* first pattern that yields a value of a fitting length decides; and the reply of the
\* model is left alone when none does.
ForcedReplyFits(msg, raw, maxLen) ==
  LET reply == EnforceReplyConstraints(msg, raw, maxLen)
  IN  IF reply.forced
      THEN /\ reply.len \in 1 .. Max({maxLen + 1, 3})
           /\ msg.always = "no" => \E i \in DOMAIN msg.match :
                /\ msg.match[i].len \in 1 .. maxLen
                /\ reply.len \in msg.match[i].len .. msg.match[i].len + 1
                /\ \A j \in 1 .. i - 1 : msg.match[j].len \notin 1 .. maxLen
      ELSE /\ reply.len = raw
           /\ msg.always = "no" /\ \A i \in DOMAIN msg.match : msg.match[i].len \notin 1 .. maxLen

-----------------------------------------------------------------------------
\* A run whose DAG succeeded without a validation error goes on, however slow it was
\* and however often its nodes were tried; any other one is stopped.  The routes
\* between the two are out of reach of the scores.
RoutingOfVerdict(events, dagOk) ==
  LET ok    == dagOk /\ \A i \in DOMAIN events : events[i].type # "VALIDATION_ERROR"
      score == ArtifactScore(events, dagOk)
      route == DeriveRouting(score, HardGate(events, dagOk))
  IN  /\ ok <=> route \in {"proceed", "proceed_with_warning"}
      /\ ~ok <=> route = "hard_stop" /\ score = 0

\* Trust stays between its bounds and moves from the decayed trust towards the score
\* by less than a sixth of the way; decay alone never raises it, also when the clock
\* of the record is ahead.
TrustIsDamped(old, days, score) ==
  LET before == TrustBefore(old, days)
      after  == TrustAfter(before, score)
  IN  /\ after \in TrustMin .. TrustMax
      /\ old # Nothing => before <= old
      /\ score >= before => after >= Min({before, TrustMax}) /\ 6 * (after - before) <= score - before
      /\ score <= before => after <= before /\ 6 * (before - after) <= before - score + 6
=============================================================================
