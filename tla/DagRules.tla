------------------------------- MODULE DagRules -------------------------------
(***************************************************************************)
(* What the runtime computes from a DAG before it runs it: the order of    *)
(* execution (dag-executor.ts), the checks, scores and choice of the       *)
(* meta-planner (meta-planner/), the policy verdict (policy-gate.ts) and   *)
(* the normalisation of a DAG that comes from outside (contracts/dag.ts).  *)
(* All of it is free of state, so this module has operators only.          *)
(*                                                                         *)
(* A DAG is a sequence of nodes [id, kind, deps, attempts]: ids are        *)
(* numbers, in the order in which the code sorts their names, and deps is  *)
(* a sequence, which may repeat an id or name a node that is not there.    *)
(* Scores are in thousandths, weights in hundredths.                       *)
(***************************************************************************)
EXTENDS Integers, Sequences, SequencesExt, FiniteSets, FiniteSetsExt, Functions

Node(id, kind, deps, attempts) ==
  [id |-> id, kind |-> kind, deps |-> deps, attempts |-> attempts]

Ids(dag) == {dag[i].id : i \in DOMAIN dag}

Times(x, s) == Cardinality({i \in DOMAIN s : s[i] = x})

\* The numbers of a finite set from the smallest to the greatest.
InOrder(S) ==
  CHOOSE p \in [1 .. Cardinality(S) -> S] : \A i, j \in DOMAIN p : i < j => p[i] < p[j]

\* filter: the elements at some positions of a list, in their order.
AtPositions(s, positions) ==
  LET p == InOrder(positions) IN [k \in DOMAIN p |-> s[p[k]]]

SumOver(S, f(_)) == FoldSet(LAMBDA x, sum : f(x) + sum, 0, S)

MissingDependency(dag) == \E i \in DOMAIN dag : ~(Range(dag[i].deps) \subseteq Ids(dag))
DuplicateId(dag) == Cardinality(Ids(dag)) < Len(dag)

\* In-degrees are counted per dependency entry, over all nodes of one id.
InDegree(dag, id) == SumOver({i \in DOMAIN dag : dag[i].id = id}, LAMBDA i : Len(dag[i].deps))

\* Mutant: a dependency that is listed twice is counted off once.
EdgesOnce(dag, dep, id) == Cardinality({i \in DOMAIN dag : dag[i].id = id /\ dep \in Range(dag[i].deps)})

\* How often id depends on dep.
Edges(dag, dep, id) ==
  SumOver({i \in DOMAIN dag : dag[i].id = id}, LAMBDA i : Times(dep, dag[i].deps))

TakeFirst(ready) == Min(ready)

\* Kahn's algorithm: out is the order so far, deg the in-degrees left, ready the nodes to
\* take next, smallest first.
KahnStart(dag) ==
  [out |-> <<>>, deg |-> [id \in Ids(dag) |-> InDegree(dag, id)],
   ready |-> {id \in Ids(dag) : InDegree(dag, id) = 0}]

KahnRound(dag, was) ==
  IF was.ready = {} THEN was
  ELSE LET id  == TakeFirst(was.ready)
           deg == [x \in Ids(dag) |-> was.deg[x] - Edges(dag, id, x)]
       IN  [out |-> Append(was.out, id), deg |-> deg,
            ready |-> (was.ready \ {id}) \cup {x \in Ids(dag) : was.deg[x] > 0 /\ deg[x] = 0}]

Kahn(dag) ==
  LET after[k \in 0 .. Len(dag)] ==
        IF k = 0 THEN KahnStart(dag) ELSE KahnRound(dag, after[k - 1])
  IN  after[Len(dag)]

Invalid == <<>>     \* stableTopologicalOrder throws DAG_INVALID

StableTopologicalOrder(dag) ==
  IF DuplicateId(dag) \/ MissingDependency(dag) \/ Len(Kahn(dag).out) < Len(dag)
  THEN Invalid
  ELSE Kahn(dag).out

\* The queue of isCycleFree is first-in first-out, which changes the order in which
\* nodes are processed but not how many are.
IsCycleFree(dag) == ~MissingDependency(dag) /\ Len(Kahn(dag).out) = Len(dag)

-----------------------------------------------------------------------------
(* constraints.ts.                                                         *)

Mandatory == {"PLAN_DAG", "PERSIST_USER_MESSAGE", "LLM_CHAT", "ENFORCE_REPLY_CONSTRAINTS",
              "PERSIST_ASSISTANT_MESSAGE"}

Kinds(dag) == {dag[i].kind : i \in DOMAIN dag}

HasMandatoryNodes(dag) == Mandatory \subseteq Kinds(dag)

\* The first node of an id is the one that find() returns.
DepsOf(dag, id) == Range(dag[CHOOSE i \in DOMAIN dag :
                               dag[i].id = id /\ \A j \in 1 .. i - 1 : dag[j].id # id].deps)

\* getDepth, for DAGs without a cycle (with one the candidate is invalid anyway): a
\* missing node counts as depth 0 for those that depend on it.
Depths(dag) ==
  LET upTo[k \in 0 .. Len(dag)] ==
        IF k = 0 THEN [id \in Ids(dag) |-> 0]
        ELSE [id \in Ids(dag) |->
                Max({0} \cup {1 + (IF d \in Ids(dag) THEN upTo[k - 1][d] ELSE 0) : d \in DepsOf(dag, id)})]
  IN  upTo[Len(dag)]

ComputeMaxParallelism(dag) ==
  LET depth == Depths(dag)
  IN  Max({Cardinality({x \in Ids(dag) : depth[x] = depth[id]}) : id \in Ids(dag)})

None == -1     \* a field that is undefined

CheckConstraintsCompatible(dag, c) == c.max_depth # None => Len(dag) <= c.max_depth * 3

\* validateCandidate and isValidCandidate.
IsValid(dag, c) ==
  /\ HasMandatoryNodes(dag) /\ IsCycleFree(dag) /\ CheckConstraintsCompatible(dag, c)
  /\ ComputeMaxParallelism(dag) <= (IF c.max_parallelism = None THEN 10 ELSE c.max_parallelism)

-----------------------------------------------------------------------------
(* candidate-builder.ts and scoring.ts.  A pattern is a procedure of M3    *)
(* seen by the planner: [id, dag, reward, success, latency, cost], the     *)
(* last three None when unknown.  id is its place in the order of ids.     *)

DefaultWeights == [quality |-> 40, latency |-> 25, cost |-> 15, risk |-> 20]

Scores(q, l, c, r) == [quality |-> q, latency |-> l, cost |-> c, risk |-> r]

\* Mutant: a pattern is predicted to be worth its reward, and as safe as the default.
HopefulScores(source, p) ==
  IF source = "DEFAULT" THEN Scores(500, 600, 700, 800)
  ELSE IF source = "SYNTHESIZED" THEN Scores(400, 500, 500, 300)
  ELSE Scores(Min({1000, (p.reward * 11) \div 10}), 700, 700, 800)

PredictScores(source, p) ==
  CASE source = "DEFAULT" -> Scores(500, 600, 700, 800)
    [] source = "M3_REUSE" ->
         Scores(Min({1000, (p.reward * 11) \div 10}),
                IF p.latency # None THEN 600 ELSE 500,
                IF p.cost # None THEN 600 ELSE 500,
                IF p.success # None THEN p.success ELSE 500)
    [] source = "M3_MODIFIED" -> Scores(450, 500, 500, 400)
    [] source = "SYNTHESIZED" -> Scores(400, 500, 500, 300)

Total(w, s) == w.quality * s.quality + w.latency * s.latency + w.cost * s.cost + w.risk * s.risk

\* pattern is 0 for a candidate that is based on none.
Candidate(source, mode, dag, pattern, p, config, c) ==
  [source |-> source, mode |-> mode, dag |-> dag, pattern |-> pattern,
   scores |-> PredictScores(source, p), valid |-> IsValid(dag, c),
   total |-> Total(config.weights, PredictScores(source, p))]

BoostRetry(dag) ==
  [i \in DOMAIN dag |-> IF dag[i].kind = "LLM_CHAT" /\ dag[i].attempts < 2
                        THEN [dag[i] EXCEPT !.attempts = 2] ELSE dag[i]]

NoPattern == [id |-> 0, reward |-> 0, success |-> None, latency |-> None, cost |-> None]

Reusable(patterns, config) ==
  AtPositions(patterns, {i \in DOMAIN patterns : patterns[i].reward >= config.minPatternReward})
Modifiable(patterns, config) ==
  AtPositions(patterns, {i \in DOMAIN patterns : /\ patterns[i].reward < config.minPatternReward
                                                 /\ patterns[i].reward >= 300})

\* buildCandidates: the default, the patterns to reuse, the patterns to modify, and
\* the synthesised DAG, which is a copy of the default.
BuildCandidates(default, patterns, config, c) ==
  LET reuse  == IF c.allow_pattern_reuse THEN Reusable(patterns, config) ELSE <<>>
      modify == IF c.allow_pattern_modification THEN Modifiable(patterns, config) ELSE <<>>
      synthesize == config.allowSynthesis /\ c.allow_dag_synthesis /\ reuse = <<>>
  IN  <<Candidate("DEFAULT", "BYPASS", default, 0, NoPattern, config, c)>>
      \o [i \in DOMAIN reuse |->
            Candidate("M3_REUSE", "REUSE", reuse[i].dag, reuse[i].id, reuse[i], config, c)]
      \o [i \in DOMAIN modify |->
            Candidate("M3_MODIFIED", "MODIFY", BoostRetry(modify[i].dag), modify[i].id,
                      modify[i], config, c)]
      \o IF synthesize
         THEN <<Candidate("SYNTHESIZED", "SYNTHESIZE", default, 0, NoPattern, config, c)>>
         ELSE <<>>

\* The order of candidate_id, a hash of source, run and pattern: arbitrary, but the
\* same for the same candidate whatever the order of the evidence.
Hash(c) == (IF c.source \in {"DEFAULT", "M3_MODIFIED"} THEN 1 ELSE 0) + c.pattern * 3

\* Mutant: the last tie-break is left to the order of the candidates.
TiesAsTheyCome(a, b) == a.total > b.total

\* The comparison of selectWinner: total, then risk, latency, number of nodes, id.
Beats(a, b) ==
  IF a.total # b.total THEN a.total > b.total
  ELSE IF a.scores.risk # b.scores.risk THEN a.scores.risk > b.scores.risk
  ELSE IF a.scores.latency # b.scores.latency THEN a.scores.latency > b.scores.latency
  ELSE IF Len(a.dag) # Len(b.dag) THEN Len(a.dag) < Len(b.dag)
  ELSE Hash(a) < Hash(b)

Valid(candidates) == AtPositions(candidates, {i \in DOMAIN candidates : candidates[i].valid})

NoWinner == [source |-> "NONE"]

\* selectWinner: the sort is stable.
SelectWinner(candidates) ==
  LET valid == Valid(candidates)
  IN  IF valid = <<>> THEN NoWinner
      ELSE valid[Min({i \in DOMAIN valid : \A j \in DOMAIN valid : ~Beats(valid[j], valid[i])})]

RunnerUpScore(candidates, winner) ==
  LET others == {c \in Range(Valid(candidates)) : c # winner}
  IN  IF others = {} THEN None ELSE Max({c.total : c \in others})

-----------------------------------------------------------------------------
(* policy-gate.ts.                                                         *)

CodeChangeKinds == {"CODEBASE_ANALYZE", "PATCH_PLAN", "PATCH_APPLY_SIMULATED"}

ClassifyDagType(kinds) == IF kinds \cap CodeChangeKinds # {} THEN "code_change" ELSE "direct_reply"

\* BUILTIN_RULES, in their order; ctx is [dagType, riskLevel, regulated].
BuiltinRules == <<"BLOCK_CODE_CHANGE_IF_DISABLED", "REQUIRE_REVIEW_HIGH_RISK_CODE",
                  "ALLOW_CODE_CHANGE_LOW_RISK", "ALLOW_DIRECT_REPLY", "ALLOW_RESEARCH">>

Applies(rule, ctx) ==
  LET code  == ctx.dagType = "code_change"
      risky == ctx.riskLevel = "high" \/ ctx.regulated
  IN  \/ rule = "BLOCK_CODE_CHANGE_IF_DISABLED" /\ code
      \/ rule = "REQUIRE_REVIEW_HIGH_RISK_CODE" /\ code /\ risky
      \/ rule = "ALLOW_CODE_CHANGE_LOW_RISK" /\ code /\ ~risky
      \/ rule = "ALLOW_DIRECT_REPLY" /\ ctx.dagType \in {"direct_reply", "chat"}
      \/ rule = "ALLOW_RESEARCH" /\ ctx.dagType = "research"

VerdictOf(rule) ==
  CASE rule = "BLOCK_CODE_CHANGE_IF_DISABLED" -> "BLOCKED"
    [] rule = "REQUIRE_REVIEW_HIGH_RISK_CODE" -> "REQUIRE_REVIEW"
    [] OTHER -> "ALLOWED"

\* The last rule that applies wins, after the switch of the whole workflow.
EvaluatePolicy(ctx, codeChangeEnabled) ==
  LET matching == {i \in DOMAIN BuiltinRules : Applies(BuiltinRules[i], ctx)}
  IN  IF ctx.dagType = "code_change" /\ ~codeChangeEnabled THEN "BLOCKED"
      ELSE IF matching = {} THEN "ALLOWED" ELSE VerdictOf(BuiltinRules[Max(matching)])

-----------------------------------------------------------------------------
(* The DAGs the code plans by itself.                                      *)

\* planDagForRun.
ChatDag == <<Node(1, "PLAN_DAG", <<>>, 1), Node(2, "PERSIST_USER_MESSAGE", <<1>>, 1),
             Node(3, "LLM_CHAT", <<2>>, 2), Node(4, "ENFORCE_REPLY_CONSTRAINTS", <<3>>, 1),
             Node(5, "PERSIST_ASSISTANT_MESSAGE", <<4>>, 1)>>

\* planCodeChangeDag.
CodeChangeDag == <<Node(1, "PLAN_DAG", <<>>, 1), Node(2, "PERSIST_USER_MESSAGE", <<1>>, 1),
                   Node(6, "CODEBASE_ANALYZE", <<2>>, 1), Node(7, "PATCH_PLAN", <<6>>, 1),
                   Node(8, "PATCH_APPLY_SIMULATED", <<7>>, 1), Node(9, "BUILD_VERIFY", <<8>>, 1),
                   Node(10, "TEST_VERIFY", <<9>>, 1), Node(11, "PATCH_REVIEW", <<10>>, 1),
                   Node(3, "LLM_CHAT", <<11>>, 2), Node(4, "ENFORCE_REPLY_CONSTRAINTS", <<3>>, 1),
                   Node(5, "PERSIST_ASSISTANT_MESSAGE", <<4>>, 1)>>

-----------------------------------------------------------------------------
(* Normalisation (contracts/dag.ts).  A field of the input is Absent,      *)
(* NotANumber, or a number above both.  A retry is the record of its four  *)
(* fields.                                                                 *)

Absent == -1000
NotANumber == -1001

Rejected == [rejected |-> TRUE]     \* parse throws

Or(x, y) == IF x = Absent THEN y ELSE x      \* x ?? y

ClampInt(x, lo, hi, fallback) ==
  IF x \in {Absent, NotANumber} THEN fallback ELSE Max({lo, Min({x, hi})})

\* The schema of a count, and that of a delay, which has no upper bound.
InSchema(x, lo, hi) == x = Absent \/ (x # NotANumber /\ x >= lo /\ x <= hi)
IsDelay(x) == x = Absent \/ (x # NotANumber /\ x >= 0)

\* The union of zDagNodeInput.retry returns what its first member that accepts the
\* value makes of it.  zDagNodeRetry has a default for both of its fields and strips
\* every other one; zDagNodeRetryLegacy lets fields it does not know pass as they are.
ParseRetry(r) ==
  IF InSchema(r.max_attempts, 1, 2) /\ IsDelay(r.backoff_ms)
  THEN [max_attempts |-> Or(r.max_attempts, 1), backoff_ms |-> Or(r.backoff_ms, 0),
        maxattempts |-> Absent, backoffms |-> Absent]
  ELSE IF InSchema(r.maxattempts, 1, 2) /\ IsDelay(r.backoffms)
  THEN r
  ELSE Rejected

\* normalizeDagNodeInput, for the retry; MaxBackoff stands for 60000.
NormalizeRetry(r, maxBackoff) ==
  LET parsed == ParseRetry(r)
  IN  IF parsed = Rejected THEN Rejected
      ELSE [max_attempts |-> ClampInt(Or(parsed.max_attempts, parsed.maxattempts), 1, 2, 1),
            backoff_ms   |-> ClampInt(Or(parsed.backoff_ms, parsed.backoffms), 0, maxBackoff, 0),
            maxattempts  |-> Absent, backoffms |-> Absent]

\* Mutant: the legacy name wins over the canonical one.
LegacyFirst(n, canonical, legacy) == Or(n[legacy], n[canonical])

Alias(n, canonical, legacy) == Or(n[canonical], n[legacy])

\* normalizeDagSpecInput, for the four identifying fields.
NormalizeIdentity(s) ==
  LET id == [dag_id |-> Alias(s, "dag_id", "dagid"), run_id |-> Alias(s, "run_id", "runid")]
  IN  IF Absent \in {id.dag_id, id.run_id} THEN Rejected
      ELSE [dag_id |-> id.dag_id, run_id |-> id.run_id, dagid |-> Absent, runid |-> Absent]
==============================================================================
