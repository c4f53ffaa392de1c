------------------------------ MODULE RunPipeline ------------------------------
(***************************************************************************)
(* What the worker does with a run around the execution of its DAG         *)
(* (apps/worker/src/index.ts), over several runs that share one log, one   *)
(* memory and the trust in one agent: it plans, asks the policy gate,      *)
(* executes, rewards, evaluates the plan and writes an episode.            *)
(*                                                                         *)
(* log        run_logs, in the order of the appends                        *)
(* episodes   episodic_memories: [id, run, ok, reward]                     *)
(* procedures the ids of the templates in procedural_memories              *)
(* job        the BullMQ job of each run; stalls counts its redeliveries   *)
(* worker     the memory of the worker process, which takes one job at a   *)
(*            time: run, pc, plan, ok, score (of the reward block) and     *)
(*            reward (what the block returned)                             *)
(*                                                                         *)
(* The executor is seen from outside (DagExecutor has the loop): it logs   *)
(* DAG_PLANNED, attempts and DAG_COMPLETED once, whoever calls it.  The    *)
(* milestones of a run and the cancel requests of its user are in          *)
(* RunLifecycle, the retrieval of memory is in Memory.  Events that        *)
(* nothing reads and whose failure is that of the step after them are left *)
(* out: those of the planner but for its evaluation, REWARD_AGENT_STARTED, *)
(* MEMORY_WRITE_REQUESTED and MEMORY_SKIPPED.                              *)
(***************************************************************************)
EXTENDS DagRules, ScoreRules

CONSTANTS Runs,
          Templates,      \* ids of code-change templates that a client may save
          MaxStalls,      \* maxStalledCount of BullMQ
          MaxCrashes,     \* bound on crashes
          MaxFaults,      \* bound on failed database calls
          MaxDay          \* bound on the days that pass

ASSUME PipelineAssumption ==
  /\ "none" \notin Runs /\ Templates \subseteq Nat \ {0}
  /\ MaxStalls \in Nat /\ MaxCrashes \in Nat /\ MaxFaults \in Nat /\ MaxDay \in Nat

VARIABLES log, episodes, procedures, job, stalls, worker, config, day, crashes, faults

stores == <<episodes, procedures>>
queue  == <<job, stalls>>
world  == <<config, day, crashes>>
vars   == <<log, stores, queue, worker, world, faults>>

-----------------------------------------------------------------------------
(* Plans.                                                                  *)

QualityOnly == [quality |-> 100, latency |-> 0, cost |-> 0, risk |-> 0]

\* createMetaPlannerConfig, and enable_code_change_workflow of createPhase7Config: the
\* planner's defaults, a planner that reuses what it can, and none.
Configs ==
  {[enabled |-> TRUE, allowSynthesis |-> FALSE, minPatternReward |-> 600, weights |-> DefaultWeights,
    codeChange |-> TRUE],
   [enabled |-> TRUE, allowSynthesis |-> FALSE, minPatternReward |-> 500, weights |-> QualityOnly,
    codeChange |-> FALSE],
   [enabled |-> FALSE, allowSynthesis |-> FALSE, minPatternReward |-> 600, weights |-> DefaultWeights,
    codeChange |-> FALSE]}

\* constraints: {} - everything is allowed.
NoConstraints == [max_parallelism |-> None, max_depth |-> None, allow_pattern_reuse |-> TRUE,
                  allow_pattern_modification |-> TRUE, allow_dag_synthesis |-> TRUE]

\* toPatternEvidence knows a reward of 0.5 for every pattern, and nothing else.
ToPatternEvidence(t) ==
  [id |-> t, dag |-> CodeChangeDag, reward |-> 500, success |-> None, latency |-> None, cost |-> None]

\* retrievePlannerContext: equal rewards, so the patterns are in the order of their ids.
PatternsOf(saved) == LET ids == InOrder(saved) IN [i \in DOMAIN ids |-> ToPatternEvidence(ids[i])]

Fallback == [source |-> "DEFAULT", pattern |-> 0, fallback |-> TRUE]

Decide(saved) ==
  LET w == SelectWinner(BuildCandidates(ChatDag, PatternsOf(saved), config, NoConstraints))
  IN  IF ~config.enabled \/ w = NoWinner THEN Fallback
      ELSE [source |-> w.source, pattern |-> w.pattern, fallback |-> FALSE]

DagOf(plan) ==
  CASE plan.source = "M3_REUSE" -> CodeChangeDag
    [] plan.source = "M3_MODIFIED" -> BoostRetry(CodeChangeDag)
    [] OTHER -> ChatDag

Verdict(plan) ==
  EvaluatePolicy([dagType |-> ClassifyDagType(Kinds(DagOf(plan))), riskLevel |-> "medium",
                  regulated |-> FALSE], config.codeChange)

-----------------------------------------------------------------------------
(* The log and the worker.                                                 *)

\* plan is that of the nodes, which the code does not log; ts is kept for the updates
\* of the trust only, the one place that reads it.
Event(t) == [type |-> t, run |-> worker.run, ts |-> 0, node |-> 0, attempt |-> 0, ok |-> FALSE,
             value |-> Nothing, from |-> Nothing, plan |-> Fallback]

\* The events of a run, each at its place in the log.
LogOf(r) == [i \in {j \in DOMAIN log : log[j].run = r} |-> log[i]]
Logged(r, t) == \E i \in DOMAIN log : log[i].run = r /\ log[i].type = t
First(r, t) == LogOf(r)[Min(Of(LogOf(r), t))]

\* Mutant: a cancel request is looked for in the milestones only.
CancelForgotten(r) == Logged(r, "RUN_CANCELLED")

IsRunCancelled(r) == Logged(r, "RUN_CANCEL_REQUESTED")

NoRun == [run |-> "none", pc |-> "idle", plan |-> Fallback, ok |-> FALSE, score |-> Nothing,
          reward |-> Nothing]

At(pc) == worker.pc = pc
To(pc) == [worker EXCEPT !.pc = pc]

\* An append that reports failure may have been committed.
Appends(e, next, failed) ==
  /\ \/ log' = Append(log, e) /\ worker' = next /\ UNCHANGED faults
     \/ /\ faults < MaxFaults /\ faults' = faults + 1
        /\ log' \in {log, Append(log, e)} /\ worker' = failed
  /\ UNCHANGED <<stores, queue, world>>

Moves(next) == worker' = next /\ UNCHANGED <<log, stores, queue, world, faults>>

\* The handler returns, or throws and leaves a job without a further attempt.
Leaves(state) ==
  /\ job' = [job EXCEPT ![worker.run] = state] /\ worker' = NoRun
  /\ UNCHANGED <<stores, stalls, world>>

Init ==
  /\ log = <<>> /\ episodes = {} /\ procedures = {}
  /\ job = [r \in Runs |-> "waiting"] /\ stalls = [r \in Runs |-> 0]
  /\ worker = NoRun /\ config \in Configs /\ day = 0 /\ crashes = 0 /\ faults = 0

Take(r) ==
  /\ At("idle") /\ job[r] = "waiting"
  /\ IF Logged(r, "RUN_COMPLETED") \/ IsRunCancelled(r)
     THEN job' = [job EXCEPT ![r] = "done"] /\ UNCHANGED worker
     ELSE job' = [job EXCEPT ![r] = "active"] /\ worker' = [NoRun EXCEPT !.run = r, !.pc = "plan"]
  /\ UNCHANGED <<log, stores, stalls, world, faults>>

\* The read of the log, or one of the appends before the try block, fails: the handler throws.
TakeFails(r) ==
  /\ At("idle") /\ job[r] = "waiting" /\ faults < MaxFaults
  /\ job' = [job EXCEPT ![r] = "failed"] /\ faults' = faults + 1
  /\ UNCHANGED <<log, stores, stalls, worker, world>>

\* metaPlanner.plan: a failed read of the memory counts as no pattern.
Plan ==
  /\ At("plan")
  /\ \/ worker' = [worker EXCEPT !.pc = "policy", !.plan = Decide(procedures)] /\ UNCHANGED faults
     \/ /\ faults < MaxFaults /\ faults' = faults + 1
        /\ worker' = [worker EXCEPT !.pc = "policy", !.plan = Decide({})]
  /\ UNCHANGED <<log, stores, queue, world>>

\* A verdict that cannot be logged is not enforced.
Policy ==
  /\ At("policy")
  /\ Appends(Event("POLICY_EVALUATED"),
             To(IF Verdict(worker.plan) = "BLOCKED" THEN "block" ELSE "execute"), To("execute"))

Block ==
  /\ At("block")
  /\ Appends(Event("RUN_CANCEL_REQUESTED"), To("finish"), To("execute"))

-----------------------------------------------------------------------------
(* executeDag.  Every plan has the run's id as its dag_id, so what one     *)
(* plan logged is found by the next.                                       *)

\* The look for a cancel request, and the start of the executor.
BeginDag ==
  /\ At("execute")
  /\ IF IsRunCancelled(worker.run) THEN Moves(To("finish"))
     ELSE IF Logged(worker.run, "DAG_COMPLETED")
     THEN Moves([worker EXCEPT !.pc = "reward", !.ok = First(worker.run, "DAG_COMPLETED").ok])
     ELSE IF Logged(worker.run, "DAG_PLANNED") THEN Moves(To("nodes"))
     ELSE Appends([Event("DAG_PLANNED") EXCEPT !.plan = worker.plan], To("nodes"), To("finish"))

\* A read of the log right before the executor, by it or right after it fails: the run
\* fails, whatever the verdict of its DAG.
ReadFails ==
  /\ worker.pc \in {"execute", "reward"} /\ faults < MaxFaults
  /\ worker' = [worker EXCEPT !.pc = "finish", !.ok = FALSE] /\ faults' = faults + 1
  /\ UNCHANGED <<log, stores, queue, world>>

Tried(r) == Cardinality(Of(LogOf(r), "NODE_STARTED"))

\* One event stands for the nodes that a delivery of the job starts.
StartNodes ==
  /\ At("nodes") /\ Tried(worker.run) <= stalls[worker.run]
  /\ Appends([Event("NODE_STARTED") EXCEPT !.attempt = 1, !.plan = worker.plan], To("nodes"), To("finish"))

CompleteDag(ok) ==
  /\ At("nodes") /\ Tried(worker.run) > 0
  /\ Appends([Event("DAG_COMPLETED") EXCEPT !.ok = ok],
             [worker EXCEPT !.pc = "reward", !.ok = ok], To("finish"))

-----------------------------------------------------------------------------
(* runRewardBlock, evaluatePlannerDecision and maybeWriteFromRun.          *)

AlreadyRewarded(r) == Logged(r, "REWARD_COMPUTED")

\* Mutant: a run that was rewarded before yields no score.
NoScore(r) == Nothing

LoggedScore(r) == First(r, "REWARD_COMPUTED").value

Score ==
  /\ At("reward")
  /\ IF AlreadyRewarded(worker.run)
     THEN Moves([worker EXCEPT !.pc = "evaluate", !.reward = LoggedScore(worker.run)])
     ELSE LET score == ArtifactScore(LogOf(worker.run), worker.ok)
          IN  Appends([Event("REWARD_COMPUTED") EXCEPT !.value = score],
                      [worker EXCEPT !.pc = "trust", !.score = score], To("evaluate"))

Updates == Of(log, "TRUST_UPDATED")

Newest == log[Max(Updates)]

\* Mutant: the trust does not decay between the runs.
NoDays(e) == 0

DaysSince(e) == day - e.ts

UpdateTrust ==
  /\ At("trust")
  /\ LET before == IF Updates = {} THEN TrustBefore(Nothing, 0)
                   ELSE TrustBefore(Newest.value, DaysSince(Newest))
     IN  Appends([Event("TRUST_UPDATED") EXCEPT !.from = before, !.ts = day,
                                              !.value = TrustAfter(before, worker.score)],
                 To("rewarded"), To("evaluate"))

\* The score reaches the worker only when the whole block has succeeded.
CompleteReward ==
  /\ At("rewarded")
  /\ Appends(Event("REWARD_AGENT_COMPLETED"),
             [worker EXCEPT !.pc = "evaluate", !.reward = worker.score], To("evaluate"))

EvaluatedEvents == LogOf(worker.run)

Evaluate ==
  /\ At("evaluate")
  /\ IF worker.plan.fallback THEN Moves(To("exists"))
     ELSE Appends([Event("META_PLANNER_EVALUATED") EXCEPT !.value = ActualReward(EvaluatedEvents)],
                  To("exists"), To("exists"))

\* randomUUID: every delivery of a job has an id of its own for the episode.
RecordId == stalls[worker.run]

\* Mutant: episodes are compared by their own id.
SameRecord(r) == \E e \in episodes : e.run = r /\ e.id = RecordId

ExistsForRun(r) == \E e \in episodes : e.run = r

\* Mutant: an existing episode is looked for, and announced in the log, before the insert.
AnnounceFirst(found) == "written"

AfterExists(found) == IF found THEN "written" ELSE "insert"

CheckEpisode ==
  /\ At("exists")
  /\ \/ Moves(To(AfterExists(ExistsForRun(worker.run))))
     \/ /\ faults < MaxFaults /\ faults' = faults + 1 /\ worker' = To("finish")
        /\ UNCHANGED <<log, stores, queue, world>>

Episode == [id |-> RecordId, run |-> worker.run, ok |-> worker.ok, reward |-> worker.reward]

InsertEpisode ==
  /\ At("insert")
  /\ \/ episodes' = episodes \cup {Episode} /\ worker' = To("written") /\ UNCHANGED faults
     \/ /\ faults < MaxFaults /\ faults' = faults + 1
        /\ episodes' \in {episodes, episodes \cup {Episode}} /\ worker' = To("finish")
  /\ UNCHANGED <<log, procedures, queue, world>>

AnnounceEpisode ==
  /\ At("written")
  /\ Appends([Event("MEMORY_WRITTEN") EXCEPT !.value = RecordId], To("finish"), To("finish"))

\* An append outside the try block: if it fails the handler throws.
ThrowsAtLogging(e) ==
  /\ faults < MaxFaults /\ faults' = faults + 1
  /\ Leaves("failed") /\ log' \in {log, Append(log, e)}

\* A cancelled run is to say so, with the node that is active.  One may be if a delivery
\* has started nodes; without one the schema rejects the event, and the handler throws.
LogCancelled ==
  /\ At("finish") /\ IsRunCancelled(worker.run)
  /\ \/ Leaves("failed") /\ UNCHANGED <<log, faults>>
     \/ /\ Tried(worker.run) > 0
        /\ \/ /\ log' = Append(log, Event("RUN_CANCELLED")) /\ worker' = To("complete")
              /\ UNCHANGED <<stores, queue, world, faults>>
           \/ ThrowsAtLogging(Event("RUN_CANCELLED"))

\* A run that says it was cancelled is completed as failed.
Finish ==
  /\ At("complete") \/ (At("finish") /\ ~IsRunCancelled(worker.run))
  /\ LET e == [Event("RUN_COMPLETED") EXCEPT !.ok = worker.ok /\ ~At("complete")]
     IN  \/ Leaves("done") /\ log' = Append(log, e) /\ UNCHANGED faults
         \/ ThrowsAtLogging(e)

-----------------------------------------------------------------------------
(* The rest of the world.                                                  *)

\* Mutant: a stalled job is not handed out again.
StaysActive(r) == "active"

AfterStall(r) == IF stalls[r] < MaxStalls THEN "waiting" ELSE "failed"

\* The process dies; BullMQ hands the stalled job out again while it may.
Crash ==
  /\ ~At("idle") /\ crashes < MaxCrashes
  /\ crashes' = crashes + 1
  /\ job' = [job EXCEPT ![worker.run] = AfterStall(worker.run)]
  /\ stalls' = [stalls EXCEPT ![worker.run] = Min({@ + 1, MaxStalls})]
  /\ worker' = NoRun
  /\ UNCHANGED <<log, stores, config, day, faults>>

\* POST /memory/write of a template; the planner alone reads them, so saving one during a
\* job is saving it before the next plan.
SaveTemplate(t) ==
  /\ t \notin procedures /\ At("idle")
  /\ procedures' = procedures \cup {t}
  /\ UNCHANGED <<log, episodes, queue, worker, world, faults>>

\* Days that pass before they are looked at.
NextDay ==
  /\ day < MaxDay /\ At("trust")
  /\ day' = day + 1
  /\ UNCHANGED <<log, stores, queue, worker, config, crashes, faults>>

Work == \/ \E r \in Runs : Take(r) \/ TakeFails(r)
        \/ Plan \/ Policy \/ Block
        \/ BeginDag \/ ReadFails \/ StartNodes \/ \E ok \in BOOLEAN : CompleteDag(ok)
        \/ Score \/ UpdateTrust \/ CompleteReward \/ Evaluate
        \/ CheckEpisode \/ InsertEpisode \/ AnnounceEpisode
        \/ LogCancelled \/ Finish

Next == Work \/ Crash \/ NextDay \/ \E t \in Templates : SaveTemplate(t)

Spec == Init /\ [][Next]_vars

Symmetry == Permutations(Runs)

-----------------------------------------------------------------------------
(* Properties.                                                             *)

Types == {"POLICY_EVALUATED", "RUN_CANCEL_REQUESTED", "DAG_PLANNED", "NODE_STARTED", "DAG_COMPLETED",
          "REWARD_COMPUTED", "TRUST_UPDATED", "REWARD_AGENT_COMPLETED", "META_PLANNER_EVALUATED",
          "MEMORY_WRITTEN", "RUN_CANCELLED", "RUN_COMPLETED"}

\* The variables keep their types, and the job of the worker's run is the active one.
TypeOK ==
  /\ \A i \in DOMAIN log : log[i].run \in Runs /\ log[i].type \in Types /\ log[i].ts \in 0 .. day
  /\ \A e \in episodes : e.run \in Runs /\ e.ok \in BOOLEAN /\ e.reward \in {Nothing} \cup (0 .. One)
  /\ procedures \subseteq Templates
  /\ stalls \in [Runs -> 0 .. MaxStalls]
  /\ job \in [Runs -> {"waiting", "active", "done", "failed"}]
  /\ \A r \in Runs : job[r] = "active" <=> worker.run = r

\* writeEpisode checks and inserts in two steps, and a job may be delivered again after
\* either: a run still has at most one episode.
EpisodeOncePerRun == \A e, f \in episodes : e.run = f.run => e = f

\* The episode of a run has the verdict that the log has, and its reward, unless a call
\* failed, is the one that the log has.
EpisodeMatchesLog ==
  \A e \in episodes :
    /\ Logged(e.run, "DAG_COMPLETED")
    /\ \A i \in DOMAIN log : log[i].run = e.run =>
         /\ log[i].type = "DAG_COMPLETED" => e.ok = log[i].ok
         /\ log[i].type = "REWARD_COMPUTED" =>
              e.reward = log[i].value \/ (e.reward = Nothing /\ faults > 0)

\* MEMORY_WRITTEN is in the log only when the run has an episode.
WrittenHasEpisode ==
  \A i \in DOMAIN log : log[i].type = "MEMORY_WRITTEN" => ExistsForRun(log[i].run)

\* The updates of the trust form one chain over all runs: each starts from the last one,
\* decayed by the days between them, and moves by the reward that its run has logged.
TrustChain ==
  \A i \in Updates :
    LET earlier == {j \in Updates : j < i}
        rewards == {j \in 1 .. i - 1 : log[j].run = log[i].run /\ log[j].type = "REWARD_COMPUTED"}
    IN  /\ log[i].from = IF earlier = {} THEN ColdStart
                         ELSE TrustBefore(log[Max(earlier)].value, log[i].ts - log[Max(earlier)].ts)
        /\ rewards # {} /\ log[i].value = TrustAfter(log[i].from, log[Max(rewards)].value)

\* A run is rewarded and moves the trust at most once, and only for the verdict that is
\* in the log, however often its job is delivered.
RewardedOnce ==
  \A i \in DOMAIN log : log[i].type \in {"REWARD_COMPUTED", "TRUST_UPDATED"} =>
    /\ \A j \in DOMAIN log : log[j].run = log[i].run /\ log[j].type = log[i].type => j = i
    /\ Logged(log[i].run, "DAG_COMPLETED")
    /\ log[i].type = "REWARD_COMPUTED" =>
         (log[i].value > 0 <=> First(log[i].run, "DAG_COMPLETED").ok)

\* With the default weights a redelivered job executes the DAG that the log says was
\* planned, though it plans again and templates may have been saved in between.
OneDagPerRun ==
  config.weights = DefaultWeights =>
    \A i \in DOMAIN log : log[i].type = "NODE_STARTED" =>
      DagOf(log[i].plan) = DagOf(First(log[i].run, "DAG_PLANNED").plan)

\* After a block by the policy gate no node of the run starts, also when its job is
\* delivered again and would then be planned with a DAG that the gate allows.
BlockedStays ==
  \A i, j \in DOMAIN log :
    i < j /\ log[i].run = log[j].run /\ log[i].type = "RUN_CANCEL_REQUESTED" => log[j].type # "NODE_STARTED"

\* The planner is measured against the reward that the run has in the log by then.
EvaluatedByReward ==
  \A i \in Of(log, "META_PLANNER_EVALUATED") :
    LET rewards == {j \in 1 .. i - 1 : log[j].run = log[i].run /\ log[j].type = "REWARD_COMPUTED"}
    IN  log[i].value = IF rewards = {} THEN Nothing ELSE log[Max(rewards)].value

\* The reward of a run is one number, whichever delivery of the job computed it: in the
\* log, in the episode and in the evaluation of the planner.
RewardReadBack == EpisodeMatchesLog /\ EvaluatedByReward

\* A run moves the trust once, from where the run before it left it.
TrustMovesOnce == RewardedOnce /\ TrustChain

==============================================================================
