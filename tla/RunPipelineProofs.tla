--------------------------- MODULE RunPipelineProofs ---------------------------
(***************************************************************************)
(* Theorems about RunPipeline, for every set of runs and templates, every  *)
(* configuration of the planner and every bound on redeliveries, crashes   *)
(* and failed calls.                                                       *)
(***************************************************************************)
EXTENDS RunPipeline, RuleProofs

Fields == {"run", "pc", "plan", "ok", "score", "reward"}

IsSeq(s) == \E S : s \in Seq(S)

\* What is true of the stores at the step at which the worker is, besides the properties
\* themselves: between the check and the insert no episode of the run appears, the
\* announcement follows an episode, and nodes run only in a run that is not cancelled.
IInv ==
  /\ IsSeq(log) /\ DOMAIN worker = Fields
  /\ EpisodeOncePerRun /\ WrittenHasEpisode /\ BlockedStays
  /\ At("insert") => ~ExistsForRun(worker.run)
  /\ At("written") => ExistsForRun(worker.run)
  /\ At("nodes") => ~IsRunCancelled(worker.run)

-----------------------------------------------------------------------------
(* An append to the log.                                                   *)

\* Every row stays where it was, and the new one is the last.
LEMMA AppendRow ==
  ASSUME NEW s, IsSeq(s), NEW e
  PROVE  /\ IsSeq(Append(s, e)) /\ Len(s) \in Nat /\ DOMAIN s = 1 .. Len(s)
         /\ DOMAIN Append(s, e) = 1 .. Len(s) + 1
         /\ \A i \in DOMAIN s : Append(s, e)[i] = s[i]
         /\ Append(s, e)[Len(s) + 1] = e
<1>1. PICK S : s \in Seq(S)
  BY DEF IsSeq
<1>2. s \in Seq(S \cup {e})
  BY <1>1
<1>3. Append(s, e) \in Seq(S \cup {e})
  BY <1>2
<1>4. IsSeq(Append(s, e))
  BY <1>3, Zenon DEF IsSeq
<1> QED BY <1>2, <1>4

\* An append adds its own event to those that are logged of the run, and no other.
LEMMA AppendLogs ==
  ASSUME IsSeq(log), NEW e, log' \in {log, Append(log, e)}, NEW r, NEW t
  PROVE  /\ Logged(r, t) => Logged(r, t)'
         /\ Logged(r, t)' => Logged(r, t) \/ (e.run = r /\ e.type = t)
BY AppendRow DEF Logged

\* An append keeps the three properties of the log if the event is not one of those
\* they are about, or comes at the right time.
LEMMA AppendKeeps ==
  ASSUME IsSeq(log), WrittenHasEpisode, BlockedStays,
         NEW e, log' \in {log, Append(log, e)}, episodes \subseteq episodes',
         e.type = "MEMORY_WRITTEN" => ExistsForRun(e.run)',
         e.type = "NODE_STARTED" => ~IsRunCancelled(e.run)
  PROVE  IsSeq(log)' /\ WrittenHasEpisode' /\ BlockedStays'
<1>1. IsSeq(log)'
  <2>1. CASE log' = log
    BY <2>1 DEF IsSeq
  <2>2. CASE log' = Append(log, e)
    BY <2>2, AppendRow, Zenon
  <2> QED BY <2>1, <2>2
<1>2. WrittenHasEpisode'
  BY AppendRow DEF WrittenHasEpisode, ExistsForRun
<1>3. BlockedStays'
  <2>1. CASE log' = log
    BY <2>1 DEF BlockedStays
  <2>2. CASE log' = Append(log, e)
    <3> SUFFICES ASSUME NEW i \in DOMAIN log', NEW j \in DOMAIN log', i < j,
                        log'[i].run = log'[j].run, log'[i].type = "RUN_CANCEL_REQUESTED"
                 PROVE  log'[j].type # "NODE_STARTED"
      BY DEF BlockedStays
    <3>1. i \in DOMAIN log /\ log'[i] = log[i]
      BY <2>2, AppendRow
    <3>2. CASE j \in DOMAIN log
      <4>1. log'[j] = log[j]
        BY <2>2, <3>2, AppendRow
      <4> QED BY <3>1, <3>2, <4>1 DEF BlockedStays
    <3>3. CASE j \notin DOMAIN log
      <4>1. log'[j] = e
        BY <2>2, <3>3, AppendRow
      <4>2. e.type = "NODE_STARTED" => FALSE
        BY <3>1, <4>1 DEF IsRunCancelled, Logged
      <4> QED BY <4>1, <4>2
    <3> QED BY <3>2, <3>3
  <2> QED BY <2>1, <2>2
<1> QED BY <1>1, <1>2, <1>3

\* Appends, for an event of the worker's run that is neither the start of a node nor the
\* announcement of an episode, to a step that is none of the three.
LEMMA PlainAppend ==
  ASSUME IInv, NEW e, NEW next, NEW failed, Appends(e, next, failed),
         e.type \notin {"NODE_STARTED", "MEMORY_WRITTEN"},
         DOMAIN next = Fields, DOMAIN failed = Fields,
         {next.pc, failed.pc} \cap {"insert", "written", "nodes"} = {}
  PROVE  IInv'
<1>1. log' \in {log, Append(log, e)} /\ worker' \in {next, failed} /\ UNCHANGED episodes
  BY DEF Appends, stores
<1>2. IsSeq(log)' /\ WrittenHasEpisode' /\ BlockedStays'
  BY <1>1, AppendKeeps DEF IInv
<1> QED BY <1>1, <1>2 DEF IInv, At, EpisodeOncePerRun

\* A step that writes nothing, to a step that is none of the three.
LEMMA PlainMove ==
  ASSUME IInv, UNCHANGED <<log, episodes>>, DOMAIN worker' = Fields,
         worker' # worker => worker'.pc \notin {"insert", "written", "nodes"}
  PROVE  IInv'
BY DEF IInv, At, EpisodeOncePerRun, WrittenHasEpisode, BlockedStays, ExistsForRun, IsRunCancelled, Logged

-----------------------------------------------------------------------------
(* The invariant.                                                          *)

LEMMA InitIInv == Init => IInv
<1> SUFFICES ASSUME Init PROVE IInv
  OBVIOUS
<1>1. log = <<>> /\ episodes = {} /\ worker = NoRun
  BY DEF Init
<1>2. IsSeq(log)
  <2>1. log \in Seq({})
    BY <1>1
  <2> QED BY <2>1, Zenon DEF IsSeq
<1> QED BY <1>1, <1>2 DEF IInv, NoRun, Fields, At, EpisodeOncePerRun, WrittenHasEpisode, BlockedStays

LEMMA BeginDagKeeps == IInv /\ BeginDag => IInv'
<1> SUFFICES ASSUME IInv, BeginDag PROVE IInv'
  OBVIOUS
<1> USE DEF To, Moves, stores
<1>1. CASE IsRunCancelled(worker.run) /\ Moves(To("finish"))
  BY <1>1, PlainMove DEF IInv, Fields
<1>2. CASE Moves([worker EXCEPT !.pc = "reward", !.ok = First(worker.run, "DAG_COMPLETED").ok])
  BY <1>2, PlainMove DEF IInv, Fields
<1>3. CASE ~IsRunCancelled(worker.run) /\ Moves(To("nodes"))
  <2>1. worker'.pc = "nodes" /\ worker'.run = worker.run /\ DOMAIN worker' = Fields
        /\ UNCHANGED <<log, episodes>>
    BY <1>3 DEF IInv, Fields
  <2> QED BY <1>3, <2>1
      DEF IInv, At, EpisodeOncePerRun, WrittenHasEpisode, BlockedStays, ExistsForRun, IsRunCancelled, Logged
<1>4. CASE /\ ~IsRunCancelled(worker.run)
           /\ Appends([Event("DAG_PLANNED") EXCEPT !.plan = worker.plan], To("nodes"), To("finish"))
  <2> DEFINE e == [Event("DAG_PLANNED") EXCEPT !.plan = worker.plan]
  <2>1. e.type = "DAG_PLANNED" /\ e.run = worker.run
    BY DEF Event
  <2>2. /\ log' \in {log, Append(log, e)} /\ UNCHANGED episodes
        /\ worker' \in {To("nodes"), To("finish")}
    BY <1>4 DEF Appends
  <2>3. worker'.pc \in {"nodes", "finish"} /\ worker'.run = worker.run /\ DOMAIN worker' = Fields
    BY <2>2 DEF IInv, Fields
  <2> HIDE DEF e
  <2>4. IsSeq(log)' /\ WrittenHasEpisode' /\ BlockedStays'
    BY <2>1, <2>2, AppendKeeps DEF IInv
  <2>5. ~IsRunCancelled(worker.run)'
    BY <1>4, <2>1, <2>2, <2>3, AppendLogs DEF IInv, IsRunCancelled
  <2> QED BY <2>2, <2>3, <2>4, <2>5 DEF IInv, At, EpisodeOncePerRun
<1> QED BY <1>1, <1>2, <1>3, <1>4 DEF BeginDag

LEMMA StartNodesKeeps == IInv /\ StartNodes => IInv'
<1> SUFFICES ASSUME IInv, StartNodes PROVE IInv'
  OBVIOUS
<1> DEFINE e == [Event("NODE_STARTED") EXCEPT !.attempt = 1, !.plan = worker.plan]
<1>1. e.type = "NODE_STARTED" /\ e.run = worker.run
  BY DEF Event
<1>2. /\ log' \in {log, Append(log, e)} /\ UNCHANGED episodes
      /\ worker' \in {To("nodes"), To("finish")} /\ ~IsRunCancelled(worker.run)
  BY DEF StartNodes, Appends, stores, IInv
<1>3. worker'.pc \in {"nodes", "finish"} /\ worker'.run = worker.run /\ DOMAIN worker' = Fields
  BY <1>2 DEF IInv, Fields, To
<1> HIDE DEF e
<1>4. IsSeq(log)' /\ WrittenHasEpisode' /\ BlockedStays'
  BY <1>1, <1>2, AppendKeeps DEF IInv
<1>5. ~IsRunCancelled(worker.run)'
  BY <1>1, <1>2, <1>3, AppendLogs DEF IInv, IsRunCancelled
<1> QED BY <1>2, <1>3, <1>4, <1>5 DEF IInv, At, EpisodeOncePerRun

LEMMA CheckEpisodeKeeps == IInv /\ CheckEpisode => IInv'
<1> SUFFICES ASSUME IInv, CheckEpisode PROVE IInv'
  OBVIOUS
<1>1. CASE Moves(To(AfterExists(ExistsForRun(worker.run))))
  <2>1. /\ worker'.pc = AfterExists(ExistsForRun(worker.run)) /\ worker'.run = worker.run
        /\ DOMAIN worker' = Fields /\ UNCHANGED <<log, episodes>>
    BY <1>1 DEF Moves, To, stores, IInv, Fields
  <2> QED BY <2>1
      DEF IInv, At, AfterExists, EpisodeOncePerRun, WrittenHasEpisode, BlockedStays, ExistsForRun
<1>2. CASE worker' = To("finish") /\ UNCHANGED <<log, stores>>
  BY <1>2, PlainMove DEF To, stores, IInv, Fields
<1> QED BY <1>1, <1>2 DEF CheckEpisode

LEMMA InsertEpisodeKeeps == IInv /\ InsertEpisode => IInv'
<1> SUFFICES ASSUME IInv, InsertEpisode PROVE IInv'
  OBVIOUS
<1>1. /\ UNCHANGED log /\ ~ExistsForRun(worker.run)
      /\ episodes' \in {episodes, episodes \cup {Episode}}
      /\ \/ worker' = To("finish")
         \/ worker' = To("written") /\ episodes' = episodes \cup {Episode}
  BY DEF InsertEpisode, IInv
<1>2. worker'.run = worker.run /\ DOMAIN worker' = Fields /\ Episode.run = worker.run
  BY <1>1 DEF To, Episode, IInv, Fields
<1>3. EpisodeOncePerRun'
  BY <1>1, <1>2 DEF IInv, EpisodeOncePerRun, ExistsForRun
<1>4. WrittenHasEpisode' /\ BlockedStays'
  BY <1>1 DEF IInv, WrittenHasEpisode, BlockedStays, ExistsForRun
<1>5. worker'.pc = "finish" \/ (worker'.pc = "written" /\ ExistsForRun(worker.run)')
  BY <1>1, <1>2 DEF To, IInv, Fields, ExistsForRun
<1> QED BY <1>1, <1>2, <1>3, <1>4, <1>5 DEF IInv, At

LEMMA AnnounceEpisodeKeeps == IInv /\ AnnounceEpisode => IInv'
<1> SUFFICES ASSUME IInv, AnnounceEpisode PROVE IInv'
  OBVIOUS
<1> DEFINE e == [Event("MEMORY_WRITTEN") EXCEPT !.value = RecordId]
<1>1. e.type = "MEMORY_WRITTEN" /\ e.run = worker.run
  BY DEF Event
<1>2. /\ log' \in {log, Append(log, e)} /\ UNCHANGED episodes /\ ExistsForRun(worker.run)
      /\ worker' = To("finish")
  BY DEF AnnounceEpisode, Appends, stores, IInv
<1>3. worker'.pc = "finish" /\ DOMAIN worker' = Fields
  BY <1>2 DEF IInv, Fields, To
<1> HIDE DEF e
<1>4. IsSeq(log)' /\ WrittenHasEpisode' /\ BlockedStays'
  BY <1>1, <1>2, AppendKeeps DEF IInv, ExistsForRun
<1> QED BY <1>2, <1>3, <1>4 DEF IInv, At, EpisodeOncePerRun

\* The two appends at the end of the handler, of an event that no step waits for.
LEMMA EndKeeps ==
  ASSUME IInv, NEW e, e.type \in {"RUN_CANCELLED", "RUN_COMPLETED"},
         log' \in {log, Append(log, e)}, UNCHANGED episodes, worker' \in {NoRun, To("complete")}
  PROVE  IInv'
<1>1. IsSeq(log)' /\ WrittenHasEpisode' /\ BlockedStays'
  BY AppendKeeps DEF IInv
<1>2. DOMAIN worker' = Fields /\ worker'.pc \in {"idle", "complete"}
  BY DEF IInv, NoRun, To, Fields
<1> QED BY <1>1, <1>2 DEF IInv, At, EpisodeOncePerRun

LEMMA LogCancelledKeeps == IInv /\ LogCancelled => IInv'
<1> SUFFICES ASSUME IInv, LogCancelled PROVE IInv'
  OBVIOUS
<1> DEFINE e == Event("RUN_CANCELLED")
<1>1. e.type = "RUN_CANCELLED"
  BY DEF Event
<1>2. log' \in {log, Append(log, e)} /\ UNCHANGED episodes /\ worker' \in {NoRun, To("complete")}
  BY DEF LogCancelled, ThrowsAtLogging, Leaves, stores
<1> HIDE DEF e
<1> QED BY <1>1, <1>2, EndKeeps

LEMMA FinishKeeps == IInv /\ Finish => IInv'
<1> SUFFICES ASSUME IInv, Finish PROVE IInv'
  OBVIOUS
<1> DEFINE e == [Event("RUN_COMPLETED") EXCEPT !.ok = worker.ok /\ ~At("complete")]
<1>1. e.type = "RUN_COMPLETED"
  BY DEF Event
<1>2. log' \in {log, Append(log, e)} /\ UNCHANGED episodes /\ worker' = NoRun
  BY DEF Finish, ThrowsAtLogging, Leaves, stores
<1> HIDE DEF e
<1> QED BY <1>1, <1>2, EndKeeps

\* The appends of the other steps.
LEMMA OtherAppendsKeep ==
  IInv /\ (Policy \/ Block \/ (\E ok \in BOOLEAN : CompleteDag(ok)) \/ UpdateTrust \/ CompleteReward) => IInv'
<1> SUFFICES ASSUME IInv,
                    Policy \/ Block \/ (\E ok \in BOOLEAN : CompleteDag(ok)) \/ UpdateTrust \/ CompleteReward
             PROVE  IInv'
  OBVIOUS
<1>0. /\ \A pc : To(pc).pc = pc /\ DOMAIN To(pc) = Fields
      /\ \A ok : LET next == [worker EXCEPT !.pc = "reward", !.ok = ok]
                 IN  next.pc = "reward" /\ DOMAIN next = Fields
  BY DEF IInv, To, Fields
<1>1. CASE Policy
  <2>1. PICK pc \in {"block", "execute"} : Appends(Event("POLICY_EVALUATED"), To(pc), To("execute"))
    BY <1>1 DEF Policy
  <2>2. Event("POLICY_EVALUATED").type = "POLICY_EVALUATED"
    BY DEF Event
  <2> QED BY <1>0, <2>1, <2>2, PlainAppend
<1>2. CASE Block
  <2>1. Event("RUN_CANCEL_REQUESTED").type = "RUN_CANCEL_REQUESTED"
    BY DEF Event
  <2> QED BY <1>0, <1>2, <2>1, PlainAppend DEF Block
<1>3. CASE \E ok \in BOOLEAN : CompleteDag(ok)
  <2>1. PICK ok \in BOOLEAN : CompleteDag(ok)
    BY <1>3
  <2> DEFINE e == [Event("DAG_COMPLETED") EXCEPT !.ok = ok]
             next == [worker EXCEPT !.pc = "reward", !.ok = ok]
  <2>2. e.type = "DAG_COMPLETED"
    BY DEF Event
  <2>3. Appends(e, next, To("finish"))
    BY <2>1, Zenon DEF CompleteDag
  <2>4. next.pc = "reward" /\ DOMAIN next = Fields
    BY <1>0
  <2> HIDE DEF e, next
  <2> QED BY <1>0, <2>2, <2>3, <2>4, PlainAppend
<1>4. CASE UpdateTrust
  <2>1. PICK before : Appends([Event("TRUST_UPDATED") EXCEPT !.from = before, !.ts = day,
                                  !.value = TrustAfter(before, worker.score)],
                              To("rewarded"), To("evaluate"))
    BY <1>4 DEF UpdateTrust
  <2> DEFINE e == [Event("TRUST_UPDATED") EXCEPT !.from = before, !.ts = day,
                     !.value = TrustAfter(before, worker.score)]
  <2>2. e.type = "TRUST_UPDATED" /\ Appends(e, To("rewarded"), To("evaluate"))
    BY <2>1 DEF Event
  <2> HIDE DEF e
  <2> QED BY <1>0, <2>2, PlainAppend
<1>5. CASE CompleteReward
  <2> DEFINE e == Event("REWARD_AGENT_COMPLETED")
             next == [worker EXCEPT !.pc = "evaluate", !.reward = worker.score]
  <2>1. e.type = "REWARD_AGENT_COMPLETED"
    BY DEF Event
  <2>2. next.pc = "evaluate" /\ DOMAIN next = Fields
    BY DEF IInv, Fields
  <2>3. Appends(e, next, To("evaluate"))
    BY <1>5, Zenon DEF CompleteReward
  <2> HIDE DEF e, next
  <2> QED BY <1>0, <2>1, <2>2, <2>3, PlainAppend
<1> QED BY <1>1, <1>2, <1>3, <1>4, <1>5

\* The two steps that append unless there is nothing to do.
LEMMA ScoreEvaluateKeep == IInv /\ (Score \/ Evaluate) => IInv'
<1> SUFFICES ASSUME IInv, Score \/ Evaluate PROVE IInv'
  OBVIOUS
<1>0. DOMAIN worker = Fields
  BY DEF IInv
<1>1. CASE Score
  <2>1. CASE Moves([worker EXCEPT !.pc = "evaluate", !.reward = LoggedScore(worker.run)])
    BY <1>0, <2>1, PlainMove DEF Moves, stores, Fields
  <2>2. CASE \E score : Appends([Event("REWARD_COMPUTED") EXCEPT !.value = score],
                                [worker EXCEPT !.pc = "trust", !.score = score], To("evaluate"))
    <3>1. PICK score : Appends([Event("REWARD_COMPUTED") EXCEPT !.value = score],
                               [worker EXCEPT !.pc = "trust", !.score = score], To("evaluate"))
      BY <2>2
    <3> DEFINE e == [Event("REWARD_COMPUTED") EXCEPT !.value = score]
               next == [worker EXCEPT !.pc = "trust", !.score = score]
    <3>2. e.type = "REWARD_COMPUTED"
      BY DEF Event
    <3>3. next.pc = "trust" /\ DOMAIN next = Fields
      BY <1>0 DEF Fields
    <3>4. To("evaluate").pc = "evaluate" /\ DOMAIN To("evaluate") = Fields
      BY <1>0 DEF To, Fields
    <3>5. Appends(e, next, To("evaluate"))
      BY <3>1
    <3> HIDE DEF e, next
    <3> QED BY <3>2, <3>3, <3>4, <3>5, PlainAppend
  <2> QED BY <1>1, <2>1, <2>2 DEF Score
<1>2. CASE Evaluate
  <2>1. CASE Moves(To("exists"))
    <3>1. worker' = To("exists") /\ UNCHANGED <<log, episodes>> /\ worker'.pc = "exists"
      BY <1>0, <2>1 DEF Moves, To, stores, Fields
    <3> QED BY <3>1, <1>0, PlainMove DEF To
  <2>2. CASE Appends([Event("META_PLANNER_EVALUATED") EXCEPT !.value = ActualReward(EvaluatedEvents)],
                     To("exists"), To("exists"))
    BY <1>0, <2>2, PlainAppend DEF Event, To, Fields
  <2> QED BY <1>2, <2>1, <2>2 DEF Evaluate
<1> QED BY <1>1, <1>2

\* The steps that write neither events nor episodes.
LEMMA OthersKeep ==
  IInv /\ ((\E r \in Runs : Take(r) \/ TakeFails(r)) \/ Plan \/ ReadFails \/ Crash \/ NextDay
           \/ (\E t \in Templates : SaveTemplate(t)) \/ UNCHANGED vars) => IInv'
<1> SUFFICES ASSUME IInv, (\E r \in Runs : Take(r) \/ TakeFails(r)) \/ Plan \/ ReadFails \/ Crash \/ NextDay
                          \/ (\E t \in Templates : SaveTemplate(t)) \/ UNCHANGED vars
             PROVE  IInv'
  OBVIOUS
<1>0. DOMAIN worker = Fields /\ DOMAIN NoRun = Fields
  BY DEF IInv, NoRun, Fields
<1>1. UNCHANGED <<log, episodes>>
  BY DEF Take, TakeFails, Plan, ReadFails, Crash, NextDay, SaveTemplate, stores, vars
<1>2. DOMAIN worker' = Fields /\ (worker' = worker \/ worker'.pc \in {"plan", "policy", "finish", "idle"})
  <2>1. CASE \E r \in Runs : Take(r) \/ TakeFails(r)
    BY <1>0, <2>1 DEF Take, TakeFails, Fields, NoRun
  <2>2. CASE Plan \/ ReadFails
    BY <1>0, <2>2 DEF Plan, ReadFails, Fields
  <2>3. CASE Crash
    BY <1>0, <2>3 DEF Crash, NoRun
  <2>4. CASE NextDay \/ (\E t \in Templates : SaveTemplate(t)) \/ UNCHANGED vars
    BY <1>0, <2>4 DEF NextDay, SaveTemplate, vars
  <2> QED BY <2>1, <2>2, <2>3, <2>4
<1> QED BY <1>1, <1>2, PlainMove

LEMMA NextIInv == IInv /\ [Next]_vars => IInv'
BY BeginDagKeeps, StartNodesKeeps, CheckEpisodeKeeps, InsertEpisodeKeeps, AnnounceEpisodeKeeps,
   LogCancelledKeeps, FinishKeeps, OtherAppendsKeep, ScoreEvaluateKeep, OthersKeep
   DEF Next, Work

LEMMA Inductive == Spec => []IInv
BY InitIInv, NextIInv, PTL DEF Spec

-----------------------------------------------------------------------------
(***************************************************************************)
(* The second part of the invariant: what is in the log once, and what the *)
(* worker carries from the log to its next writes.                         *)
(***************************************************************************)
\* The i-th event is one of type t of the run.
Row(r, t, i) == i \in DOMAIN log /\ log[i].run = r /\ log[i].type = t

\* Events that a run has once.
Single == {"DAG_COMPLETED", "REWARD_COMPUTED", "TRUST_UPDATED"}

RowInv ==
  \A i \in DOMAIN log :
    /\ log[i].run \in Runs /\ log[i].type \in Types /\ log[i].ts \in 0 .. day
    /\ log[i].type = "NODE_STARTED" => log[i].attempt = 1
    /\ log[i].type = "DAG_COMPLETED" => log[i].ok \in BOOLEAN
    /\ log[i].type = "REWARD_COMPUTED" => log[i].value \in 0 .. One

OnceInv ==
  \A t \in Single : \A i, j \in DOMAIN log : Row(log[i].run, t, i) /\ Row(log[i].run, t, j) => i = j

\* A reward was computed for the verdict, and an update of the trust for a reward.
RewardInv ==
  \A i \in DOMAIN log : log[i].type = "REWARD_COMPUTED" =>
    \E j \in DOMAIN log : Row(log[i].run, "DAG_COMPLETED", j) /\ (log[i].value > 0 <=> log[j].ok = TRUE)

\* The updates of the trust, and the rewards of the run, that come before the i-th event.
UpdatesBefore(i) == {j \in Updates : j < i}
RewardsBefore(i) == {j \in 1 .. i - 1 : log[j].run = log[i].run /\ log[j].type = "REWARD_COMPUTED"}

\* The i-th event moves the trust from the update before it, by the reward of its run.
IsMove(i) ==
  /\ \E j \in 1 .. i - 1 :
       Row(log[i].run, "REWARD_COMPUTED", j) /\ log[i].value = TrustAfter(log[i].from, log[j].value)
  /\ log[i].from = IF UpdatesBefore(i) = {} THEN ColdStart
                   ELSE TrustBefore(log[Max(UpdatesBefore(i))].value, log[i].ts - log[Max(UpdatesBefore(i))].ts)

TrustInv == \A i \in Updates : IsMove(i)

\* The run is in the log with this reward.
HasScore(r, score) == \E i \in DOMAIN log : Row(r, "REWARD_COMPUTED", i) /\ log[i].value = score

\* A reward that was handed on is the one in the log, or is missing after a failed call.
IsReward(r, reward) ==
  \/ reward = Nothing /\ faults > 0
  \/ HasScore(r, reward)

IsVerdict(r, ok) == \E i \in DOMAIN log : Row(r, "DAG_COMPLETED", i) /\ log[i].ok = ok

EpisodeInv == \A e \in episodes : e.run \in Runs /\ IsVerdict(e.run, e.ok) /\ IsReward(e.run, e.reward)

Ending == {"evaluate", "exists", "insert", "written", "finish", "complete"}

HasJob ==
  /\ At("idle") => worker = NoRun
  /\ ~At("idle") => worker.run \in Runs /\ job[worker.run] = "active"

Carries ==
  /\ worker.pc \notin Ending => worker.reward = Nothing
  /\ At("nodes") => ~Logged(worker.run, "DAG_COMPLETED")
  /\ worker.pc \in {"reward", "trust", "rewarded", "evaluate", "exists", "insert"} =>
       IsVerdict(worker.run, worker.ok)
  /\ At("trust") => ~Logged(worker.run, "TRUST_UPDATED")
  /\ worker.pc \in {"trust", "rewarded"} =>
       HasScore(worker.run, worker.score)
  /\ worker.pc \in {"evaluate", "exists", "insert"} => IsReward(worker.run, worker.reward)

QueueInv ==
  /\ procedures \subseteq Templates /\ day \in Nat /\ faults \in Nat
  /\ stalls \in [Runs -> 0 .. MaxStalls]
  /\ job \in [Runs -> {"waiting", "active", "done", "failed"}]
  /\ \A r \in Runs : job[r] = "active" => worker.run = r

LogInv   == RowInv /\ OnceInv /\ RewardInv /\ TrustInv /\ EvaluatedByReward
StoryInv == LogInv /\ EpisodeInv /\ HasJob /\ Carries /\ QueueInv

-----------------------------------------------------------------------------
(* The log.                                                                *)

\* What is said of the log says the same of the longer log.
LEMMA RowKept ==
  ASSUME IsSeq(log), NEW e, log' \in {log, Append(log, e)}
  PROVE  /\ \A i \in DOMAIN log : i \in DOMAIN log' /\ log'[i] = log[i]
         /\ \A r, t, i : Row(r, t, i) => Row(r, t, i)'
         /\ \A i \in DOMAIN log' : i \in DOMAIN log \/ (i = Len(log) + 1 /\ log'[i] = e)
         /\ \A i \in DOMAIN log : i \in Nat \ {0} /\ i < Len(log) + 1
         /\ Len(log) \in Nat
<1>1. \A i \in DOMAIN log : i \in DOMAIN log' /\ log'[i] = log[i]
  BY AppendRow
<1>2. \A r, t, i : Row(r, t, i) => Row(r, t, i)'
  BY <1>1 DEF Row
<1> QED BY <1>1, <1>2, AppendRow

\* An event that may come next.
Licence(e) ==
  /\ e.run \in Runs /\ e.type \in Types /\ e.ts \in 0 .. day
  /\ e.type = "NODE_STARTED" => e.attempt = 1
  /\ e.type = "DAG_COMPLETED" => e.ok \in BOOLEAN
  /\ e.type = "REWARD_COMPUTED" =>
       e.value \in 0 .. One /\ \E ok : IsVerdict(e.run, ok) /\ (e.value > 0 <=> ok = TRUE)
  /\ e.type \in Single => ~Logged(e.run, e.type)
  /\ e.type = "TRUST_UPDATED" =>
       /\ \E j \in DOMAIN log : Row(e.run, "REWARD_COMPUTED", j) /\ e.value = TrustAfter(e.from, log[j].value)
       /\ e.from = IF Updates = {} THEN ColdStart ELSE TrustBefore(Newest.value, e.ts - Newest.ts)
  /\ e.type = "META_PLANNER_EVALUATED" => e.value = ActualReward(LogOf(e.run))

LEMMA RowsKept ==
  ASSUME IsSeq(log), LogInv, NEW e, Licence(e), log' = Append(log, e), day' = day
  PROVE  RowInv' /\ OnceInv' /\ RewardInv'
<1>1. RowInv'
  <2> SUFFICES ASSUME NEW i \in DOMAIN log'
               PROVE  /\ log'[i].run \in Runs /\ log'[i].type \in Types /\ log'[i].ts \in 0 .. day
                      /\ log'[i].type = "NODE_STARTED" => log'[i].attempt = 1
                      /\ log'[i].type = "DAG_COMPLETED" => log'[i].ok \in BOOLEAN
                      /\ log'[i].type = "REWARD_COMPUTED" => log'[i].value \in 0 .. One
    BY DEF RowInv
  <2>1. CASE i \in DOMAIN log
    BY <2>1, RowKept DEF LogInv, RowInv
  <2>2. CASE log'[i] = e
    BY <2>2 DEF Licence
  <2> QED BY <2>1, <2>2, RowKept
<1>2. OnceInv'
  <2> SUFFICES ASSUME NEW t \in Single, NEW i \in DOMAIN log', NEW j \in DOMAIN log',
                      Row(log[i].run, t, i)', Row(log[i].run, t, j)'
               PROVE  i = j
    BY DEF OnceInv
  <2>0. log'[i].type = t /\ log'[j].type = t /\ log'[j].run = log'[i].run
    BY DEF Row
  <2>1. CASE i \in DOMAIN log /\ j \in DOMAIN log
    <3>1. Row(log[i].run, t, i) /\ Row(log[i].run, t, j)
      BY <2>0, <2>1, RowKept DEF Row
    <3> QED BY <2>1, <3>1 DEF LogInv, OnceInv
  <2>2. ASSUME NEW k \in DOMAIN log, NEW l, log'[l] = e, log'[k].type = t, log'[l].type = t,
               log'[k].run = log'[l].run
        PROVE  FALSE
    <3>1. log[k].type = e.type /\ log[k].run = e.run /\ e.type \in Single
      BY <2>2, RowKept
    <3>2. Logged(e.run, e.type)
      BY <3>1 DEF Logged
    <3> QED BY <3>1, <3>2 DEF Licence
  <2> QED BY <2>0, <2>1, <2>2, RowKept
<1>3. RewardInv'
  <2> SUFFICES ASSUME NEW i \in DOMAIN log', log'[i].type = "REWARD_COMPUTED"
               PROVE  \E j \in DOMAIN log' : Row(log[i].run, "DAG_COMPLETED", j)' /\ (log'[i].value > 0 <=> log'[j].ok = TRUE)
    BY DEF RewardInv
  <2>1. CASE i \in DOMAIN log
    <3>1. log'[i] = log[i]
      BY <2>1, RowKept
    <3>2. PICK j \in DOMAIN log : Row(log[i].run, "DAG_COMPLETED", j) /\ (log[i].value > 0 <=> log[j].ok = TRUE)
      BY <2>1, <3>1 DEF LogInv, RewardInv
    <3>3. j \in DOMAIN log' /\ log'[j] = log[j]
      BY RowKept
    <3>4. Row(log[i].run, "DAG_COMPLETED", j)'
      BY <3>1, <3>2, <3>3 DEF Row
    <3> QED BY <3>1, <3>2, <3>3, <3>4
  <2>2. CASE log'[i] = e
    <3>1. PICK ok : IsVerdict(e.run, ok) /\ (e.value > 0 <=> ok = TRUE)
      BY <2>2 DEF Licence
    <3>2. PICK j \in DOMAIN log : Row(e.run, "DAG_COMPLETED", j) /\ log[j].ok = ok
      BY <3>1 DEF IsVerdict
    <3>3. j \in DOMAIN log' /\ log'[j] = log[j]
      BY RowKept
    <3>4. Row(log[i].run, "DAG_COMPLETED", j)'
      BY <2>2, <3>2, <3>3 DEF Row
    <3> QED BY <2>2, <3>1, <3>2, <3>3, <3>4
  <2>3. i \in DOMAIN log \/ log'[i] = e
    BY RowKept
  <2> QED BY <2>1, <2>2, <2>3
<1> QED BY <1>1, <1>2, <1>3

\* What lies before an old event stays, and before the new one lies everything else.
LEMMA BeforeKept ==
  ASSUME IsSeq(log), NEW e, log' = Append(log, e)
  PROVE  /\ \A i \in DOMAIN log : UpdatesBefore(i)' = UpdatesBefore(i) /\ RewardsBefore(i)' = RewardsBefore(i)
         /\ \A i : i = Len(log) + 1 =>
              /\ UpdatesBefore(i)' = Updates
              /\ RewardsBefore(i)' = {j \in DOMAIN log : log[j].run = e.run /\ log[j].type = "REWARD_COMPUTED"}
<1>0. PICK n \in Nat : n = Len(log) /\ DOMAIN log = 1 .. n /\ DOMAIN log' = 1 .. n + 1 /\ log'[n + 1] = e
  BY AppendRow
<1>1. \A i \in 1 .. n : log'[i] = log[i]
  BY <1>0, AppendRow
<1>2. \A i \in 1 .. n : \A j : j \in Updates' /\ j < i <=> j \in Updates /\ j < i
  BY <1>0, <1>1 DEF Updates, Of
<1>3. \A i \in 1 .. n : UpdatesBefore(i)' = UpdatesBefore(i)
  BY <1>2 DEF UpdatesBefore
<1>4. \A i \in 1 .. n : RewardsBefore(i)' = RewardsBefore(i)
  BY <1>0, <1>1 DEF RewardsBefore
<1>5. UpdatesBefore(n + 1)' = Updates
  BY <1>0, <1>1 DEF Updates, Of, UpdatesBefore
<1>6. RewardsBefore(n + 1)' = {j \in DOMAIN log : log[j].run = e.run /\ log[j].type = "REWARD_COMPUTED"}
  BY <1>0, <1>1 DEF RewardsBefore
<1> QED BY <1>0, <1>3, <1>4, <1>5, <1>6

\* The newest of the updates before an event, and of the rewards, is one of them.
LEMMA NewestIn ==
  ASSUME IsSeq(log)
  PROVE  /\ Updates # {} => Max(Updates) \in Updates
         /\ \A i \in DOMAIN log : UpdatesBefore(i) # {} => Max(UpdatesBefore(i)) \in UpdatesBefore(i)
         /\ \A i \in DOMAIN log : RewardsBefore(i) # {} => Max(RewardsBefore(i)) \in RewardsBefore(i)
<1>1. Len(log) \in Nat /\ DOMAIN log = 1 .. Len(log)
  BY AppendRow
<1>2. /\ Updates \in SUBSET (0 .. Len(log))
      /\ \A i \in DOMAIN log : UpdatesBefore(i) \in SUBSET (0 .. Len(log))
      /\ \A i \in DOMAIN log : RewardsBefore(i) \in SUBSET (0 .. Len(log))
  BY <1>1 DEF Updates, Of, UpdatesBefore, RewardsBefore
<1> QED BY <1>1, <1>2, MaxIn

LEMMA TrustKept ==
  ASSUME IsSeq(log), LogInv, NEW e, Licence(e), log' = Append(log, e)
  PROVE  TrustInv'
<1> SUFFICES ASSUME NEW i \in Updates' PROVE IsMove(i)'
  BY DEF TrustInv
<1>0. i \in DOMAIN log' /\ log'[i].type = "TRUST_UPDATED"
  BY DEF Updates, Of
<1>1. CASE i \in DOMAIN log
  <2>1. i \in Updates /\ log'[i] = log[i]
    BY <1>0, <1>1, RowKept DEF Updates, Of
  <2>2. IsMove(i)
    BY <2>1 DEF LogInv, TrustInv
  <2>3. PICK j \in 1 .. i - 1 :
          Row(log[i].run, "REWARD_COMPUTED", j) /\ log[i].value = TrustAfter(log[i].from, log[j].value)
    BY <2>2 DEF IsMove
  <2>4. log'[j] = log[j] /\ Row(log[i].run, "REWARD_COMPUTED", j)'
    BY <2>1, <2>3, RowKept DEF Row
  <2>5. UpdatesBefore(i)' = UpdatesBefore(i)
    BY <1>1, BeforeKept
  <2>6. CASE UpdatesBefore(i) = {}
    BY <2>1, <2>2, <2>3, <2>4, <2>5, <2>6 DEF IsMove
  <2>7. CASE UpdatesBefore(i) # {}
    <3> DEFINE m == Max(UpdatesBefore(i))
    <3>1. m \in DOMAIN log
      BY <1>1, <2>7, NewestIn DEF UpdatesBefore, Updates, Of
    <3>2. Max(UpdatesBefore(i)') = m
      BY <2>5
    <3>3. log[i].from = TrustBefore(log[m].value, log[i].ts - log[m].ts)
      BY <2>2, <2>7 DEF IsMove
    <3> HIDE DEF m
    <3>4. log'[m] = log[m]
      BY <3>1, RowKept
    <3> QED BY <2>1, <2>3, <2>4, <2>5, <2>7, <3>2, <3>3, <3>4 DEF IsMove
  <2> QED BY <2>6, <2>7
<1>2. CASE i = Len(log) + 1 /\ log'[i] = e
  <2>1. PICK j \in DOMAIN log : Row(e.run, "REWARD_COMPUTED", j) /\ e.value = TrustAfter(e.from, log[j].value)
    BY <1>0, <1>2 DEF Licence
  <2>2. j \in 1 .. i - 1 /\ log'[j] = log[j] /\ Row(log[i].run, "REWARD_COMPUTED", j)'
    <3>1. Len(log) \in Nat /\ DOMAIN log = 1 .. Len(log)
      BY AppendRow
    <3>2. log'[j] = log[j] /\ j \in DOMAIN log'
      BY RowKept
    <3> QED BY <1>2, <2>1, <3>1, <3>2 DEF Row
  <2>3. UpdatesBefore(i)' = Updates
    BY <1>2, BeforeKept
  <2>4. CASE Updates = {}
    BY <1>0, <1>2, <2>1, <2>2, <2>3, <2>4 DEF IsMove, Licence
  <2>5. CASE Updates # {}
    <3> DEFINE m == Max(Updates)
    <3>1. m \in DOMAIN log
      BY <2>5, NewestIn DEF Updates, Of
    <3>2. e.from = TrustBefore(log[m].value, e.ts - log[m].ts)
      BY <1>0, <1>2, <2>5 DEF Licence, Newest
    <3>3. Max(UpdatesBefore(i)') = m
      BY <2>3
    <3> HIDE DEF m
    <3>4. log'[m] = log[m]
      BY <3>1, RowKept
    <3> QED BY <1>2, <2>1, <2>2, <2>3, <2>5, <3>2, <3>3, <3>4 DEF IsMove
  <2> QED BY <2>4, <2>5
<1> QED BY <1>0, <1>1, <1>2, RowKept

\* The rewards that evaluatePlannerDecision looks through are those of the run.
LEMMA RewardOfRun ==
  ASSUME IsSeq(log), NEW r
  PROVE  LET rewards == {j \in DOMAIN log : log[j].run = r /\ log[j].type = "REWARD_COMPUTED"}
         IN  /\ ActualReward(LogOf(r)) = IF rewards = {} THEN Nothing ELSE log[Max(rewards)].value
             /\ rewards # {} => Max(rewards) \in rewards
<1> DEFINE rewards == {j \in DOMAIN log : log[j].run = r /\ log[j].type = "REWARD_COMPUTED"}
<1>1. Of(LogOf(r), "REWARD_COMPUTED") = rewards
  BY DEF Of, LogOf
<1>2. rewards # {} => Max(rewards) \in rewards
  <2>1. Len(log) \in Nat /\ DOMAIN log = 1 .. Len(log)
    BY AppendRow
  <2>2. rewards \in SUBSET (0 .. Len(log))
    BY <2>1
  <2> HIDE DEF rewards
  <2> QED BY <2>1, <2>2, MaxIn
<1>3. \A j \in rewards : LogOf(r)[j] = log[j]
  BY DEF LogOf
<1> HIDE DEF rewards
<1>4. ActualReward(LogOf(r)) = IF rewards = {} THEN Nothing ELSE log[Max(rewards)].value
  BY <1>1, <1>2, <1>3 DEF ActualReward
<1> QED BY <1>2, <1>4 DEF rewards

\* The i-th event, an evaluation, has the last reward before it.
IsEvaluation(i) ==
  log[i].value = IF RewardsBefore(i) = {} THEN Nothing ELSE log[Max(RewardsBefore(i))].value

LEMMA EvaluationsAre == EvaluatedByReward <=> \A i \in Of(log, "META_PLANNER_EVALUATED") : IsEvaluation(i)
BY DEF EvaluatedByReward, IsEvaluation, RewardsBefore

LEMMA EvaluatedKept ==
  ASSUME IsSeq(log), LogInv, NEW e, Licence(e), log' = Append(log, e)
  PROVE  EvaluatedByReward'
<1>1. ASSUME NEW i \in DOMAIN log', log'[i].type = "META_PLANNER_EVALUATED"
      PROVE  IsEvaluation(i)'
  <2>1. CASE i \in DOMAIN log
    <3>1. log'[i] = log[i] /\ RewardsBefore(i)' = RewardsBefore(i)
      BY <2>1, RowKept, BeforeKept
    <3>2. IsEvaluation(i)
      BY <1>1, <2>1, <3>1, EvaluationsAre DEF LogInv, Of
    <3>3. CASE RewardsBefore(i) = {}
      BY <3>1, <3>2, <3>3 DEF IsEvaluation
    <3>4. CASE RewardsBefore(i) # {}
      <4> DEFINE m == Max(RewardsBefore(i))
      <4>1. m \in DOMAIN log
        <5>1. Len(log) \in Nat /\ DOMAIN log = 1 .. Len(log)
          BY AppendRow
        <5> QED BY <2>1, <3>4, <5>1, NewestIn DEF RewardsBefore
      <4>2. Max(RewardsBefore(i)') = m /\ log[i].value = log[m].value
        BY <3>1, <3>2, <3>4 DEF IsEvaluation
      <4> HIDE DEF m
      <4>3. log'[m] = log[m]
        BY <4>1, RowKept
      <4> QED BY <3>1, <3>4, <4>2, <4>3 DEF IsEvaluation
    <3> QED BY <3>3, <3>4
  <2>2. CASE i = Len(log) + 1 /\ log'[i] = e
    <3> DEFINE rewards == {j \in DOMAIN log : log[j].run = e.run /\ log[j].type = "REWARD_COMPUTED"}
    <3>1. RewardsBefore(i)' = rewards
      BY <2>2, BeforeKept
    <3>2. /\ e.value = IF rewards = {} THEN Nothing ELSE log[Max(rewards)].value
          /\ rewards # {} => Max(rewards) \in DOMAIN log
      <4>1. e.value = ActualReward(LogOf(e.run))
        BY <1>1, <2>2 DEF Licence
      <4> QED BY <4>1, RewardOfRun
    <3> HIDE DEF rewards
    <3>3. rewards # {} => log'[Max(rewards)] = log[Max(rewards)]
      BY <3>2, RowKept
    <3>4. Max(RewardsBefore(i)') = Max(rewards)
      BY <3>1
    <3> QED BY <2>2, <3>1, <3>2, <3>3, <3>4 DEF IsEvaluation
  <2> QED BY <2>1, <2>2, RowKept
<1>2. \A i \in Of(log, "META_PLANNER_EVALUATED")' : IsEvaluation(i)'
  BY <1>1 DEF Of
<1> QED BY <1>2 DEF EvaluatedByReward, IsEvaluation, RewardsBefore

\* A licensed append, that may fail, keeps what is said of the log and of the episodes.
LEMMA LogKept ==
  ASSUME IsSeq(log), LogInv, NEW e, Licence(e), log' \in {log, Append(log, e)}, day' = day
  PROVE  LogInv'
<1>1. CASE log' = log
  <2>1. RowInv' /\ OnceInv' /\ RewardInv'
    BY <1>1 DEF LogInv, RowInv, OnceInv, RewardInv, Row
  <2>2. TrustInv'
    BY <1>1 DEF LogInv, TrustInv, IsMove, Updates, UpdatesBefore, Row
  <2>3. EvaluatedByReward'
    BY <1>1 DEF LogInv, EvaluatedByReward
  <2> QED BY <2>1, <2>2, <2>3 DEF LogInv
<1>2. CASE log' = Append(log, e)
  BY <1>2, RowsKept, TrustKept, EvaluatedKept DEF LogInv
<1> QED BY <1>1, <1>2

\* A verdict and a reward that are in the log stay there.
LEMMA Kept ==
  ASSUME IsSeq(log), NEW e, log' \in {log, Append(log, e)}, faults \in Nat, faults' \in {faults, faults + 1}
  PROVE  /\ \A r, ok : IsVerdict(r, ok) => IsVerdict(r, ok)'
         /\ \A r, reward : IsReward(r, reward) => IsReward(r, reward)'
<1>1. ASSUME NEW r, NEW ok, IsVerdict(r, ok)
      PROVE  IsVerdict(r, ok)'
  <2>1. PICK i \in DOMAIN log : Row(r, "DAG_COMPLETED", i) /\ log[i].ok = ok
    BY <1>1 DEF IsVerdict
  <2> QED BY <2>1, RowKept DEF IsVerdict
<1>2. ASSUME NEW r, NEW reward, IsReward(r, reward)
      PROVE  IsReward(r, reward)'
  <2>1. CASE reward = Nothing /\ faults > 0
    BY <2>1 DEF IsReward
  <2>2. CASE HasScore(r, reward)
    <3>1. PICK i \in DOMAIN log : Row(r, "REWARD_COMPUTED", i) /\ log[i].value = reward
      BY <2>2 DEF HasScore
    <3>2. log'[i] = log[i] /\ i \in DOMAIN log' /\ Row(r, "REWARD_COMPUTED", i)'
      <4>1. \A j \in DOMAIN log : j \in DOMAIN log' /\ log'[j] = log[j]
        BY RowKept
      <4>2. Row(r, "REWARD_COMPUTED", i) => Row(r, "REWARD_COMPUTED", i)'
        BY RowKept
      <4> QED BY <3>1, <4>1, <4>2
    <3>3. log'[i].value = reward
      BY <3>1, <3>2
    <3> QED BY <3>2, <3>3 DEF IsReward, HasScore
  <2> QED BY <1>2, <2>1, <2>2 DEF IsReward
<1> QED BY <1>1, <1>2

LEMMA EpisodesKept ==
  ASSUME IsSeq(log), EpisodeInv, NEW e, log' \in {log, Append(log, e)},
         faults \in Nat, faults' \in {faults, faults + 1}, UNCHANGED episodes
  PROVE  EpisodeInv'
BY Kept DEF EpisodeInv

-----------------------------------------------------------------------------
(* What the steps read from the log.                                       *)

\* The first of the events of a type of the run is one of them.
LEMMA FirstIsRow ==
  ASSUME IsSeq(log), NEW r, NEW t, Logged(r, t)
  PROVE  \E i \in DOMAIN log : Row(r, t, i) /\ First(r, t) = log[i]
<1> DEFINE rows == Of(LogOf(r), t)
<1>1. rows = {i \in DOMAIN log : log[i].run = r /\ log[i].type = t}
  BY DEF Of, LogOf
<1>2. \A i \in rows : LogOf(r)[i] = log[i]
  BY DEF Of, LogOf
<1>3. rows # {} /\ rows \in SUBSET Nat
  BY <1>1, AppendRow DEF Logged
<1> HIDE DEF rows
<1>4. Min(rows) \in rows
  BY <1>3, MinIn
<1> DEFINE m == Min(rows)
<1>5. First(r, t) = LogOf(r)[m]
  BY DEF First, rows
<1> HIDE DEF m
<1>6. m \in rows
  BY <1>4 DEF m
<1> QED BY <1>1, <1>2, <1>5, <1>6 DEF Row

\* A run has a positive reward exactly if its DAG succeeded: no event of the run is a
\* VALIDATION_ERROR or an LLM_COMPLETED, and no node is tried twice in one delivery.
LEMMA ScoreIs ==
  ASSUME IsSeq(log), RowInv, NEW r, NEW ok \in BOOLEAN
  PROVE  ArtifactScore(LogOf(r), ok) \in 0 .. One /\ (ArtifactScore(LogOf(r), ok) > 0 <=> ok = TRUE)
<1>1. Of(LogOf(r), "VALIDATION_ERROR") = {} /\ Of(LogOf(r), "LLM_COMPLETED") = {}
  BY DEF Of, LogOf, RowInv, Types
<1>2. HardGate(LogOf(r), ok) <=> ok = FALSE
  BY <1>1 DEF HardGate, Syn
<1>3. PerfShare(LogOf(r)) = 250
  BY <1>1 DEF PerfShare
<1>4. ReworkShare(LogOf(r)) = 0
  <2>1. \A i \in Of(LogOf(r), "NODE_STARTED") : LogOf(r)[i].attempt = 1
    BY DEF Of, LogOf, RowInv
  <2>2. {1} \cup {LogOf(r)[i].attempt : i \in Of(LogOf(r), "NODE_STARTED")} = {1}
    BY <2>1
  <2>3. Max({1}) = 1
    BY MaxIn
  <2>4. MaxAttempts(LogOf(r)) = 1
    BY <2>2, <2>3 DEF MaxAttempts
  <2>5. (1000 * (1 - 1)) \div 3 = 0
    OBVIOUS
  <2>6. Min({0, 1000}) = 0
    BY MinIn
  <2> QED BY <2>4, <2>5, <2>6 DEF ReworkShare
<1>5. Clamp(3500 + 3500 + 1000 + 250 + 250 - 0, 0, One) = 8500
  <2>1. Min({10000, 8500}) = 8500
    <3>1. Min({10000, 8500}) \in {10000, 8500} /\ Min({10000, 8500}) <= 8500
      BY MinIn
    <3> QED BY <3>1
  <2>2. Max({0, 8500}) = 8500
    <3>1. {0, 8500} \in SUBSET (0 .. 8500) /\ {0, 8500} # {}
      OBVIOUS
    <3>2. Max({0, 8500}) \in {0, 8500} /\ Max({0, 8500}) >= 8500
      BY <3>1, MaxIn
    <3> QED BY <3>2
  <2>3. 3500 + 3500 + 1000 + 250 + 250 - 0 = 8500
    OBVIOUS
  <2> QED BY <2>1, <2>2, <2>3 DEF Clamp, One
<1>6. ArtifactScore(LogOf(r), ok) = IF ok THEN 8500 ELSE 0
  BY <1>2, <1>3, <1>4, <1>5 DEF ArtifactScore
<1> QED BY <1>6 DEF One

\* A run that was not rewarded has not moved the trust.
LEMMA NoMoveYet ==
  ASSUME IsSeq(log), LogInv, NEW r, ~Logged(r, "REWARD_COMPUTED")
  PROVE  ~Logged(r, "TRUST_UPDATED")
<1> SUFFICES ASSUME Logged(r, "TRUST_UPDATED") PROVE FALSE
  OBVIOUS
<1>1. PICK i \in DOMAIN log : log[i].run = r /\ log[i].type = "TRUST_UPDATED"
  BY DEF Logged
<1>2. IsMove(i)
  BY <1>1 DEF LogInv, TrustInv, Updates, Of
<1>3. PICK j \in 1 .. i - 1 : Row(r, "REWARD_COMPUTED", j)
  BY <1>1, <1>2 DEF IsMove
<1> QED BY <1>3 DEF Row, Logged

-----------------------------------------------------------------------------
(* The steps.                                                              *)

\* The worker stays with its job.
LEMMA Stays ==
  ASSUME QueueInv, HasJob, ~At("idle"), worker'.run = worker.run, worker'.pc # "idle",
         UNCHANGED <<queue, procedures, day>>, faults' \in {faults, faults + 1}
  PROVE  HasJob' /\ QueueInv'
BY DEF QueueInv, HasJob, At, queue

\* An append moves the worker to one of two states, the second after a failed call.
LEMMA AppendStep ==
  ASSUME IInv, StoryInv, ~At("idle"), NEW e, Licence(e), NEW next, NEW failed, Appends(e, next, failed),
         next.run = worker.run, failed.run = worker.run, next.pc # "idle", failed.pc # "idle"
  PROVE  /\ LogInv' /\ EpisodeInv' /\ HasJob' /\ QueueInv'
         /\ worker' = next \/ (worker' = failed /\ faults' > 0)
         /\ log' = Append(log, e) \/ (worker' = failed /\ log' = log)
<1>1. /\ log' \in {log, Append(log, e)} /\ faults' \in {faults, faults + 1} /\ faults \in Nat
      /\ UNCHANGED <<queue, procedures, episodes, day>>
      /\ worker' = next \/ (worker' = failed /\ faults' > 0)
      /\ log' = Append(log, e) \/ (worker' = failed /\ log' = log)
  BY DEF Appends, stores, world, StoryInv, QueueInv
<1>2. LogInv' /\ EpisodeInv'
  BY <1>1, LogKept, EpisodesKept DEF IInv, StoryInv
<1>3. HasJob' /\ QueueInv'
  BY <1>1, Stays DEF StoryInv
<1> QED BY <1>1, <1>2, <1>3

\* A step that leaves the log and the episodes alone.
LEMMA QuietStep ==
  ASSUME IInv, StoryInv, ~At("idle"), worker'.run = worker.run, worker'.pc # "idle",
         UNCHANGED <<log, episodes, queue, procedures, day>>, faults' \in {faults, faults + 1}
  PROVE  LogInv' /\ EpisodeInv' /\ HasJob' /\ QueueInv'
<1>1. HasJob' /\ QueueInv'
  BY Stays DEF StoryInv
<1>2. PICK e : e = [run |-> worker.run, type |-> "POLICY_EVALUATED", ts |-> 0]
  OBVIOUS
<1>3. Licence(e)
  BY <1>2 DEF Licence, Types, Single, StoryInv, HasJob, QueueInv
<1>4. LogInv' /\ EpisodeInv'
  BY <1>3, LogKept, EpisodesKept DEF IInv, StoryInv, QueueInv
<1> QED BY <1>1, <1>4

PlainTypes == {"POLICY_EVALUATED", "RUN_CANCEL_REQUESTED", "DAG_PLANNED", "REWARD_AGENT_COMPLETED",
               "MEMORY_WRITTEN", "RUN_CANCELLED", "RUN_COMPLETED"}

LEMMA PlainLicence ==
  ASSUME HasJob, QueueInv, ~At("idle"), NEW e, e.run = worker.run, e.ts = 0, e.type \in PlainTypes
  PROVE  Licence(e)
BY DEF Licence, PlainTypes, Types, Single, HasJob, QueueInv

\* The verdict and the reward that the worker has stay those of the log.
LEMMA VerdictOn ==
  ASSUME IInv, NEW e, log' \in {log, Append(log, e)}, IsVerdict(worker.run, worker.ok),
         worker'.run = worker.run, worker'.ok = worker.ok
  PROVE  IsVerdict(worker.run, worker.ok)'
<1>1. PICK i \in DOMAIN log : log[i].run = worker.run /\ log[i].type = "DAG_COMPLETED" /\ log[i].ok = worker.ok
  BY DEF IsVerdict, Row
<1>2. i \in DOMAIN log' /\ log'[i] = log[i]
  BY RowKept DEF IInv
<1> QED BY <1>1, <1>2 DEF IsVerdict, Row

LEMMA ScoreOn ==
  ASSUME IInv, NEW e, log' \in {log, Append(log, e)}, NEW score, worker'.run = worker.run,
         HasScore(worker.run, score)
  PROVE  \E i \in DOMAIN log' : log'[i].run = worker.run /\ log'[i].type = "REWARD_COMPUTED" /\ log'[i].value = score
<1>1. PICK i \in DOMAIN log : log[i].run = worker.run /\ log[i].type = "REWARD_COMPUTED" /\ log[i].value = score
  BY DEF Row, HasScore
<1>2. i \in DOMAIN log' /\ log'[i] = log[i]
  BY RowKept DEF IInv
<1> QED BY <1>1, <1>2 DEF Row

LEMMA RewardOn ==
  ASSUME IInv, NEW e, log' \in {log, Append(log, e)}, IsReward(worker.run, worker.reward),
         faults \in Nat, faults' \in {faults, faults + 1},
         worker'.run = worker.run, worker'.reward = worker.reward
  PROVE  IsReward(worker.run, worker.reward)'
<1>1. CASE worker.reward = Nothing /\ faults > 0
  BY <1>1 DEF IsReward
<1>2. CASE HasScore(worker.run, worker.reward)
  <2>1. \E i \in DOMAIN log' :
          log'[i].run = worker.run /\ log'[i].type = "REWARD_COMPUTED" /\ log'[i].value = worker.reward
    BY <1>2, ScoreOn
  <2> QED BY <2>1 DEF IsReward, HasScore, Row
<1> QED BY <1>1, <1>2 DEF IsReward

LEMMA PlanStory == IInv /\ StoryInv /\ Plan => StoryInv'
<1> SUFFICES ASSUME IInv, StoryInv, Plan PROVE StoryInv'
  OBVIOUS
<1>1. /\ worker'.run = worker.run /\ worker'.pc = "policy" /\ worker'.reward = worker.reward
      /\ At("plan") /\ faults' \in {faults, faults + 1}
      /\ UNCHANGED <<log, episodes, queue, procedures, day>>
  BY DEF Plan, stores, world, IInv, Fields
<1>2. ~At("idle")
  BY <1>1 DEF At
<1>3. LogInv' /\ EpisodeInv' /\ HasJob' /\ QueueInv'
  BY <1>1, <1>2, QuietStep
<1>4. Carries'
  BY <1>1 DEF StoryInv, Carries, At, Ending
<1> QED BY <1>3, <1>4 DEF StoryInv

LEMMA ReadFailsStory == IInv /\ StoryInv /\ ReadFails => StoryInv'
<1> SUFFICES ASSUME IInv, StoryInv, ReadFails PROVE StoryInv'
  OBVIOUS
<1>1. /\ worker'.run = worker.run /\ worker'.pc = "finish" /\ worker.pc \in {"execute", "reward"}
      /\ faults' \in {faults, faults + 1} /\ UNCHANGED <<log, episodes, queue, procedures, day>>
  BY DEF ReadFails, stores, world, IInv, Fields
<1>2. ~At("idle")
  BY <1>1 DEF At
<1>3. LogInv' /\ EpisodeInv' /\ HasJob' /\ QueueInv'
  BY <1>1, <1>2, QuietStep
<1>4. Carries'
  BY <1>1 DEF Carries, At, Ending
<1> QED BY <1>3, <1>4 DEF StoryInv

LEMMA PolicyStory == IInv /\ StoryInv /\ (Policy \/ Block) => StoryInv'
<1> SUFFICES ASSUME IInv, StoryInv, Policy \/ Block PROVE StoryInv'
  OBVIOUS
<1>1. PICK e, next : /\ e.run = worker.run /\ e.ts = 0 /\ e.type \in PlainTypes
                     /\ Appends(e, To(next), To("execute")) /\ next \in {"block", "execute", "finish"}
  <2>1. CASE Policy
    <3> DEFINE e == Event("POLICY_EVALUATED")
               next == IF Verdict(worker.plan) = "BLOCKED" THEN "block" ELSE "execute"
    <3>1. e.run = worker.run /\ e.ts = 0 /\ e.type \in PlainTypes
      BY DEF Event, PlainTypes
    <3>2. Appends(e, To(next), To("execute")) /\ next \in {"block", "execute", "finish"}
      BY <2>1, Zenon DEF Policy
    <3> HIDE DEF e, next
    <3> QED BY <3>1, <3>2
  <2>2. CASE Block
    <3> DEFINE e == Event("RUN_CANCEL_REQUESTED")
    <3>1. e.run = worker.run /\ e.ts = 0 /\ e.type \in PlainTypes
      BY DEF Event, PlainTypes
    <3>2. Appends(e, To("finish"), To("execute"))
      BY <2>2, Zenon DEF Block
    <3> HIDE DEF e
    <3> QED BY <3>1, <3>2
  <2> QED BY <2>1, <2>2
<1>2. At("policy") \/ At("block")
  BY DEF Policy, Block
<1>3. ~At("idle") /\ worker.pc \in {"policy", "block"}
  BY <1>2 DEF At
<1>4. /\ \A pc : To(pc).run = worker.run /\ To(pc).pc = pc /\ To(pc).reward = worker.reward
      /\ worker.reward = Nothing
  BY <1>3 DEF To, IInv, Fields, StoryInv, Carries, Ending
<1>5. Licence(e)
  BY <1>1, <1>3, PlainLicence DEF StoryInv
<1>6. /\ LogInv' /\ EpisodeInv' /\ HasJob' /\ QueueInv'
      /\ worker' \in {To(next), To("execute")}
  BY <1>1, <1>3, <1>4, <1>5, AppendStep
<1>7. Carries'
  BY <1>1, <1>4, <1>6 DEF Carries, At, Ending
<1> QED BY <1>6, <1>7 DEF StoryInv

LEMMA BeginDagStory == IInv /\ StoryInv /\ BeginDag => StoryInv'
<1> SUFFICES ASSUME IInv, StoryInv, BeginDag PROVE StoryInv'
  OBVIOUS
<1>0. ~At("idle") /\ worker.pc = "execute" /\ worker.reward = Nothing /\ DOMAIN worker = Fields
  BY DEF BeginDag, At, StoryInv, Carries, Ending, IInv
<1>1. CASE Moves(To("finish"))
  <2>1. /\ worker'.run = worker.run /\ worker'.pc = "finish" /\ faults' = faults
        /\ UNCHANGED <<log, episodes, queue, procedures, day>>
    BY <1>0, <1>1 DEF Moves, To, stores, world, Fields
  <2>2. LogInv' /\ EpisodeInv' /\ HasJob' /\ QueueInv'
    BY <1>0, <2>1, QuietStep DEF StoryInv, QueueInv
  <2>3. Carries'
    BY <2>1 DEF Carries, At, Ending
  <2> QED BY <2>2, <2>3 DEF StoryInv
<1>2. CASE Moves([worker EXCEPT !.pc = "reward", !.ok = First(worker.run, "DAG_COMPLETED").ok])
           /\ Logged(worker.run, "DAG_COMPLETED")
  <2> DEFINE ok == First(worker.run, "DAG_COMPLETED").ok
  <2>0. IsVerdict(worker.run, ok)
    BY <1>2, FirstIsRow DEF IInv, IsVerdict
  <2>1. /\ worker'.run = worker.run /\ worker'.pc = "reward" /\ worker'.ok = ok /\ faults' = faults
        /\ worker'.reward = Nothing /\ UNCHANGED <<log, episodes, queue, procedures, day>>
    BY <1>0, <1>2 DEF Moves, stores, world, Fields
  <2> HIDE DEF ok
  <2>2. LogInv' /\ EpisodeInv' /\ HasJob' /\ QueueInv'
    BY <1>0, <2>1, QuietStep DEF StoryInv, QueueInv
  <2>3. IsVerdict(worker.run, worker.ok)'
    BY <2>0, <2>1 DEF IsVerdict, Row
  <2>4. Carries'
    BY <2>1, <2>3 DEF Carries, At, Ending
  <2> QED BY <2>2, <2>4 DEF StoryInv
<1>3. CASE Moves(To("nodes")) /\ ~Logged(worker.run, "DAG_COMPLETED")
  <2>1. /\ worker'.run = worker.run /\ worker'.pc = "nodes" /\ faults' = faults
        /\ worker'.reward = Nothing /\ UNCHANGED <<log, episodes, queue, procedures, day>>
    BY <1>0, <1>3 DEF Moves, To, stores, world, Fields
  <2>2. LogInv' /\ EpisodeInv' /\ HasJob' /\ QueueInv'
    BY <1>0, <2>1, QuietStep DEF StoryInv, QueueInv
  <2>3. ~Logged(worker.run, "DAG_COMPLETED")'
    BY <1>3, <2>1 DEF Logged
  <2>4. Carries'
    BY <2>1, <2>3 DEF Carries, At, Ending
  <2> QED BY <2>2, <2>4 DEF StoryInv
<1>4. CASE /\ ~Logged(worker.run, "DAG_COMPLETED")
           /\ Appends([Event("DAG_PLANNED") EXCEPT !.plan = worker.plan], To("nodes"), To("finish"))
  <2> DEFINE e == [Event("DAG_PLANNED") EXCEPT !.plan = worker.plan]
  <2>1. e.run = worker.run /\ e.ts = 0 /\ e.type = "DAG_PLANNED" /\ Appends(e, To("nodes"), To("finish"))
    BY <1>4 DEF Event
  <2> HIDE DEF e
  <2>2. \A pc : To(pc).run = worker.run /\ To(pc).pc = pc /\ To(pc).reward = Nothing
    BY <1>0 DEF To, Fields
  <2>3. Licence(e)
    BY <1>0, <2>1, PlainLicence DEF StoryInv, PlainTypes
  <2>4. /\ LogInv' /\ EpisodeInv' /\ HasJob' /\ QueueInv'
        /\ worker' \in {To("nodes"), To("finish")} /\ log' \in {log, Append(log, e)}
    BY <1>0, <2>1, <2>2, <2>3, AppendStep
  <2>5. ~Logged(worker.run, "DAG_COMPLETED")'
    BY <1>4, <2>1, <2>2, <2>4, AppendLogs DEF IInv
  <2>6. Carries'
    BY <2>2, <2>4, <2>5 DEF Carries, At, Ending
  <2> QED BY <2>4, <2>6 DEF StoryInv
<1> QED BY <1>1, <1>2, <1>3, <1>4 DEF BeginDag

LEMMA StartNodesStory == IInv /\ StoryInv /\ StartNodes => StoryInv'
<1> SUFFICES ASSUME IInv, StoryInv, StartNodes PROVE StoryInv'
  OBVIOUS
<1> DEFINE e == [Event("NODE_STARTED") EXCEPT !.attempt = 1, !.plan = worker.plan]
<1>0. /\ ~At("idle") /\ worker.pc = "nodes" /\ worker.reward = Nothing /\ DOMAIN worker = Fields
      /\ ~Logged(worker.run, "DAG_COMPLETED")
  BY DEF StartNodes, At, StoryInv, Carries, Ending, IInv
<1>1. /\ e.run = worker.run /\ e.ts = 0 /\ e.type = "NODE_STARTED" /\ e.attempt = 1
      /\ Appends(e, To("nodes"), To("finish"))
  BY DEF Event, StartNodes
<1> HIDE DEF e
<1>2. \A pc : To(pc).run = worker.run /\ To(pc).pc = pc /\ To(pc).reward = Nothing
  BY <1>0 DEF To, Fields
<1>3. Licence(e)
  BY <1>0, <1>1 DEF Licence, StoryInv, HasJob, QueueInv, Types, Single
<1>4. /\ LogInv' /\ EpisodeInv' /\ HasJob' /\ QueueInv'
      /\ worker' \in {To("nodes"), To("finish")} /\ log' \in {log, Append(log, e)}
  BY <1>0, <1>1, <1>2, <1>3, AppendStep
<1>5. ~Logged(worker.run, "DAG_COMPLETED")'
  BY <1>0, <1>1, <1>2, <1>4, AppendLogs DEF IInv
<1>6. Carries'
  BY <1>2, <1>4, <1>5 DEF Carries, At, Ending
<1> QED BY <1>4, <1>6 DEF StoryInv

LEMMA CompleteDagStory == ASSUME IInv, StoryInv, NEW ok \in BOOLEAN, CompleteDag(ok) PROVE StoryInv'
<1> DEFINE e == [Event("DAG_COMPLETED") EXCEPT !.ok = ok]
           next == [worker EXCEPT !.pc = "reward", !.ok = ok]
<1>0. /\ ~At("idle") /\ worker.pc = "nodes" /\ worker.reward = Nothing /\ DOMAIN worker = Fields
      /\ ~Logged(worker.run, "DAG_COMPLETED")
  BY DEF CompleteDag, At, StoryInv, Carries, Ending, IInv
<1>1. /\ e.run = worker.run /\ e.ts = 0 /\ e.type = "DAG_COMPLETED" /\ e.ok = ok
      /\ Appends(e, next, To("finish"))
  BY DEF Event, CompleteDag
<1>2. /\ To("finish").run = worker.run /\ To("finish").pc = "finish"
      /\ next.run = worker.run /\ next.pc = "reward" /\ next.reward = Nothing /\ next.ok = ok
  BY <1>0 DEF To, Fields
<1> HIDE DEF e, next
<1>3. Licence(e)
  BY <1>0, <1>1 DEF Licence, StoryInv, HasJob, QueueInv, Types, Single
<1>4. /\ LogInv' /\ EpisodeInv' /\ HasJob' /\ QueueInv'
      /\ worker' = To("finish") \/ (worker' = next /\ log' = Append(log, e))
  <2>1. next # To("finish")
    BY <1>2
  <2> QED BY <1>0, <1>1, <1>2, <1>3, <2>1, AppendStep
<1>5. CASE worker' = To("finish")
  <2>1. Carries'
    BY <1>2, <1>5 DEF Carries, At, Ending
  <2> QED BY <1>4, <2>1 DEF StoryInv
<1>6. CASE worker' = next /\ log' = Append(log, e)
  <2>1. PICK i \in DOMAIN log' : log'[i] = e
    BY <1>6, AppendRow DEF IInv
  <2>2. IsVerdict(worker.run, worker.ok)'
    BY <1>1, <1>2, <1>6, <2>1 DEF IsVerdict, Row
  <2>3. Carries'
    BY <1>2, <1>6, <2>2 DEF Carries, At, Ending
  <2> QED BY <1>4, <2>3 DEF StoryInv
<1> QED BY <1>4, <1>5, <1>6

LEMMA ScoreStory == IInv /\ StoryInv /\ Score => StoryInv'
<1> SUFFICES ASSUME IInv, StoryInv, Score PROVE StoryInv'
  OBVIOUS
<1>0. /\ ~At("idle") /\ worker.pc = "reward" /\ worker.reward = Nothing /\ DOMAIN worker = Fields
      /\ IsVerdict(worker.run, worker.ok)
  BY DEF Score, At, StoryInv, Carries, Ending, IInv
<1>1. CASE AlreadyRewarded(worker.run)
           /\ Moves([worker EXCEPT !.pc = "evaluate", !.reward = LoggedScore(worker.run)])
  <2> DEFINE reward == LoggedScore(worker.run)
  <2>1. HasScore(worker.run, reward)
    BY <1>1, FirstIsRow DEF IInv, AlreadyRewarded, LoggedScore, HasScore
  <2>2. /\ worker'.run = worker.run /\ worker'.pc = "evaluate" /\ worker'.ok = worker.ok /\ faults' = faults
        /\ worker'.reward = reward /\ UNCHANGED <<log, episodes, queue, procedures, day>>
    BY <1>0, <1>1 DEF Moves, stores, world, Fields
  <2> HIDE DEF reward
  <2>3. LogInv' /\ EpisodeInv' /\ HasJob' /\ QueueInv'
    BY <1>0, <2>2, QuietStep DEF StoryInv, QueueInv
  <2>4. IsVerdict(worker.run, worker.ok)'
    BY <1>0, <2>2 DEF IsVerdict, Row
  <2>5. IsReward(worker.run, worker.reward)'
    BY <2>1, <2>2 DEF IsReward, HasScore, Row
  <2>6. Carries'
    BY <2>2, <2>4, <2>5 DEF Carries, At, Ending
  <2> QED BY <2>3, <2>6 DEF StoryInv
<1>2. CASE /\ ~AlreadyRewarded(worker.run)
           /\ LET score == ArtifactScore(LogOf(worker.run), worker.ok)
              IN  Appends([Event("REWARD_COMPUTED") EXCEPT !.value = score],
                          [worker EXCEPT !.pc = "trust", !.score = score], To("evaluate"))
  <2> DEFINE score == ArtifactScore(LogOf(worker.run), worker.ok)
             e == [Event("REWARD_COMPUTED") EXCEPT !.value = score]
             next == [worker EXCEPT !.pc = "trust", !.score = score]
  <2>1. /\ e.run = worker.run /\ e.ts = 0 /\ e.type = "REWARD_COMPUTED" /\ e.value = score
        /\ Appends(e, next, To("evaluate"))
    BY <1>2 DEF Event
  <2>2. /\ To("evaluate").run = worker.run /\ To("evaluate").pc = "evaluate"
        /\ To("evaluate").reward = Nothing /\ To("evaluate").ok = worker.ok
        /\ next.run = worker.run /\ next.pc = "trust" /\ next.reward = Nothing /\ next.ok = worker.ok
        /\ next.score = score
    BY <1>0 DEF To, Fields
  <2>3. worker.ok \in BOOLEAN
    BY <1>0 DEF IsVerdict, Row, StoryInv, LogInv, RowInv
  <2>4. score \in 0 .. One /\ (score > 0 <=> worker.ok = TRUE)
    BY <2>3, ScoreIs DEF IInv, StoryInv, LogInv
  <2> HIDE DEF e, next, score
  <2>5. ~Logged(worker.run, "REWARD_COMPUTED") /\ ~Logged(worker.run, "TRUST_UPDATED")
    BY <1>2, NoMoveYet DEF AlreadyRewarded, IInv, StoryInv
  <2>6. Licence(e)
    BY <1>0, <2>1, <2>4, <2>5 DEF Licence, StoryInv, HasJob, QueueInv, Types, Single
  <2>7. /\ LogInv' /\ EpisodeInv' /\ HasJob' /\ QueueInv'
        /\ \/ worker' = To("evaluate") /\ faults' > 0
           \/ worker' = next /\ log' = Append(log, e)
        /\ log' \in {log, Append(log, e)} /\ faults' \in {faults, faults + 1}
    <3>1. next # To("evaluate")
      BY <2>2
    <3>2. faults' \in {faults, faults + 1}
      BY <2>1 DEF Appends
    <3> QED BY <1>0, <2>1, <2>2, <2>6, <3>1, <3>2, AppendStep
  <2>8. IsVerdict(worker.run, worker.ok)'
    BY <1>0, <2>2, <2>7, VerdictOn
  <2>9. CASE worker' = To("evaluate") /\ faults' > 0
    <3>1. IsReward(worker.run, worker.reward)'
      BY <2>2, <2>9 DEF IsReward
    <3>2. Carries'
      BY <2>2, <2>8, <2>9, <3>1 DEF Carries, At, Ending
    <3> QED BY <2>7, <3>2 DEF StoryInv
  <2>10. CASE worker' = next /\ log' = Append(log, e)
    <3>1. PICK i \in DOMAIN log' : log'[i] = e
      BY <2>10, AppendRow DEF IInv
    <3>2. Row(worker.run, "REWARD_COMPUTED", i)' /\ log'[i].value = worker'.score
      BY <2>1, <2>2, <2>10, <3>1 DEF Row
    <3>3. ~Logged(worker.run, "TRUST_UPDATED")'
      BY <2>1, <2>2, <2>5, <2>10, AppendLogs DEF IInv
    <3>4. Carries'
      BY <2>2, <2>8, <2>10, <3>1, <3>2, <3>3 DEF Carries, At, Ending, HasScore
    <3> QED BY <2>7, <3>4 DEF StoryInv
  <2> QED BY <2>7, <2>9, <2>10
<1> QED BY <1>1, <1>2 DEF Score

LEMMA UpdateTrustStory == IInv /\ StoryInv /\ UpdateTrust => StoryInv'
<1> SUFFICES ASSUME IInv, StoryInv, UpdateTrust PROVE StoryInv'
  OBVIOUS
<1>0. /\ ~At("idle") /\ worker.pc = "trust" /\ worker.reward = Nothing /\ DOMAIN worker = Fields
      /\ IsVerdict(worker.run, worker.ok) /\ ~Logged(worker.run, "TRUST_UPDATED")
      /\ HasScore(worker.run, worker.score)
  BY DEF UpdateTrust, At, StoryInv, Carries, Ending, IInv
<1> DEFINE before == IF Updates = {} THEN TrustBefore(Nothing, 0)
                     ELSE TrustBefore(Newest.value, DaysSince(Newest))
           e == [Event("TRUST_UPDATED") EXCEPT !.from = before, !.ts = day,
                                               !.value = TrustAfter(before, worker.score)]
<1>1. /\ e.run = worker.run /\ e.ts = day /\ e.type = "TRUST_UPDATED" /\ e.from = before
      /\ e.value = TrustAfter(before, worker.score)
      /\ Appends(e, To("rewarded"), To("evaluate"))
  BY DEF Event, UpdateTrust
<1>2. before = IF Updates = {} THEN ColdStart ELSE TrustBefore(Newest.value, day - Newest.ts)
  BY DEF TrustBefore, DaysSince
<1>3. \A pc : /\ To(pc).run = worker.run /\ To(pc).pc = pc /\ To(pc).ok = worker.ok
              /\ To(pc).reward = Nothing /\ To(pc).score = worker.score
  BY <1>0 DEF To, Fields
<1> HIDE DEF e, before
<1>4. Licence(e)
  BY <1>0, <1>1, <1>2 DEF Licence, HasScore, StoryInv, HasJob, QueueInv, Types, Single
<1>5. /\ LogInv' /\ EpisodeInv' /\ HasJob' /\ QueueInv'
      /\ worker' = To("rewarded") \/ (worker' = To("evaluate") /\ faults' > 0)
      /\ log' \in {log, Append(log, e)}
  BY <1>0, <1>1, <1>3, <1>4, AppendStep
<1>6. worker'.run = worker.run /\ worker'.ok = worker.ok /\ worker'.score = worker.score
      /\ worker'.reward = Nothing
  BY <1>3, <1>5
<1>7. IsVerdict(worker.run, worker.ok)'
  BY <1>0, <1>5, <1>6, VerdictOn
<1>8. HasScore(worker.run, worker.score)'
  <2>1. \E i \in DOMAIN log' :
          log'[i].run = worker.run /\ log'[i].type = "REWARD_COMPUTED" /\ log'[i].value = worker.score
    <3>1. log' \in {log, Append(log, e)} /\ worker'.run = worker.run
      BY <1>5, <1>6, ZenonT(60)
    <3> QED BY <1>0, <3>1, ScoreOn, SMTT(60)
  <2> QED BY <1>6, <2>1 DEF Row, HasScore
<1>9. worker'.pc = "evaluate" => IsReward(worker.run, worker.reward)'
  BY <1>3, <1>5, <1>6 DEF IsReward
<1>10. worker'.pc \in {"rewarded", "evaluate"}
  BY <1>3, <1>5
<1>11. Carries'
  BY <1>6, <1>7, <1>8, <1>9, <1>10 DEF Carries, At, Ending
<1> QED BY <1>5, <1>11 DEF StoryInv

LEMMA CompleteRewardStory == IInv /\ StoryInv /\ CompleteReward => StoryInv'
<1> SUFFICES ASSUME IInv, StoryInv, CompleteReward PROVE StoryInv'
  OBVIOUS
<1>0. /\ ~At("idle") /\ worker.pc = "rewarded" /\ worker.reward = Nothing /\ DOMAIN worker = Fields
      /\ IsVerdict(worker.run, worker.ok)
      /\ HasScore(worker.run, worker.score)
  BY DEF CompleteReward, At, StoryInv, Carries, Ending, IInv
<1> DEFINE e == Event("REWARD_AGENT_COMPLETED")
           next == [worker EXCEPT !.pc = "evaluate", !.reward = worker.score]
<1>1. /\ e.run = worker.run /\ e.ts = 0 /\ e.type \in PlainTypes
  BY DEF Event, PlainTypes
<1>2. Appends(e, next, To("evaluate"))
  BY Zenon DEF CompleteReward
<1>3. /\ To("evaluate").run = worker.run /\ To("evaluate").pc = "evaluate"
      /\ To("evaluate").ok = worker.ok /\ To("evaluate").reward = Nothing
      /\ next.run = worker.run /\ next.pc = "evaluate" /\ next.ok = worker.ok /\ next.reward = worker.score
  BY <1>0 DEF To, Fields
<1> HIDE DEF e, next
<1>4. Licence(e)
  BY <1>0, <1>1, PlainLicence DEF StoryInv
<1>5. /\ LogInv' /\ EpisodeInv' /\ HasJob' /\ QueueInv'
      /\ worker' = next \/ (worker' = To("evaluate") /\ faults' > 0)
      /\ log' \in {log, Append(log, e)}
  BY <1>0, <1>2, <1>3, <1>4, AppendStep
<1>6. worker'.run = worker.run /\ worker'.ok = worker.ok /\ worker'.pc = "evaluate"
  BY <1>3, <1>5
<1>7. IsVerdict(worker.run, worker.ok)'
  BY <1>0, <1>5, <1>6, VerdictOn
<1>8. IsReward(worker.run, worker.reward)'
  <2>1. \E i \in DOMAIN log' :
          log'[i].run = worker.run /\ log'[i].type = "REWARD_COMPUTED" /\ log'[i].value = worker.score
    <3>1. log' \in {log, Append(log, e)} /\ worker'.run = worker.run
      BY <1>5, <1>6, ZenonT(60)
    <3> QED BY <1>0, <3>1, ScoreOn, SMTT(60)
  <2> QED BY <1>3, <1>5, <1>6, <2>1 DEF IsReward, HasScore, Row
<1>9. Carries'
  BY <1>6, <1>7, <1>8 DEF Carries, At, Ending
<1> QED BY <1>5, <1>9 DEF StoryInv

LEMMA EvaluateStory == IInv /\ StoryInv /\ Evaluate => StoryInv'
<1> SUFFICES ASSUME IInv, StoryInv, Evaluate PROVE StoryInv'
  OBVIOUS
<1>0. /\ ~At("idle") /\ worker.pc = "evaluate" /\ DOMAIN worker = Fields
      /\ IsVerdict(worker.run, worker.ok) /\ IsReward(worker.run, worker.reward) /\ faults \in Nat
  BY DEF Evaluate, At, StoryInv, Carries, Ending, IInv, QueueInv
<1>1. /\ To("exists").run = worker.run /\ To("exists").pc = "exists" /\ To("exists").ok = worker.ok
      /\ To("exists").reward = worker.reward
  BY <1>0 DEF To, Fields
<1>2. CASE Moves(To("exists"))
  <2>1. /\ worker' = To("exists") /\ faults' = faults
        /\ UNCHANGED <<log, episodes, queue, procedures, day>>
    BY <1>2 DEF Moves, stores, world
  <2>2. LogInv' /\ EpisodeInv' /\ HasJob' /\ QueueInv'
    BY <1>0, <1>1, <2>1, QuietStep
  <2>3. Carries'
    BY <1>0, <1>1, <2>1 DEF Carries, At, Ending, IsVerdict, IsReward, HasScore, Row
  <2> QED BY <2>2, <2>3 DEF StoryInv
<1>3. CASE Appends([Event("META_PLANNER_EVALUATED") EXCEPT !.value = ActualReward(EvaluatedEvents)],
                   To("exists"), To("exists"))
  <2> DEFINE e == [Event("META_PLANNER_EVALUATED") EXCEPT !.value = ActualReward(EvaluatedEvents)]
  <2>1. /\ e.run = worker.run /\ e.ts = 0 /\ e.type = "META_PLANNER_EVALUATED"
        /\ e.value = ActualReward(LogOf(worker.run)) /\ Appends(e, To("exists"), To("exists"))
    BY <1>3 DEF Event, EvaluatedEvents
  <2> HIDE DEF e
  <2>2. Licence(e)
    BY <1>0, <2>1 DEF Licence, StoryInv, HasJob, QueueInv, Types, Single
  <2>3. /\ LogInv' /\ EpisodeInv' /\ HasJob' /\ QueueInv' /\ worker' = To("exists")
        /\ log' \in {log, Append(log, e)}
    BY <1>0, <1>1, <2>1, <2>2, AppendStep
  <2>4. faults' \in {faults, faults + 1}
    BY <2>1 DEF Appends
  <2>5. IsVerdict(worker.run, worker.ok)' /\ IsReward(worker.run, worker.reward)'
    BY <1>0, <1>1, <2>3, <2>4, VerdictOn, RewardOn
  <2>6. Carries'
    BY <1>1, <2>3, <2>5 DEF Carries, At, Ending
  <2> QED BY <2>3, <2>6 DEF StoryInv
<1> QED BY <1>2, <1>3 DEF Evaluate

LEMMA CheckEpisodeStory == IInv /\ StoryInv /\ CheckEpisode => StoryInv'
<1> SUFFICES ASSUME IInv, StoryInv, CheckEpisode PROVE StoryInv'
  OBVIOUS
<1>0. /\ ~At("idle") /\ worker.pc = "exists" /\ DOMAIN worker = Fields
      /\ IsVerdict(worker.run, worker.ok) /\ IsReward(worker.run, worker.reward) /\ faults \in Nat
  BY DEF CheckEpisode, At, StoryInv, Carries, Ending, IInv, QueueInv
<1>1. PICK pc \in {"written", "insert", "finish"} :
        /\ worker' = To(pc) /\ faults' \in {faults, faults + 1}
        /\ UNCHANGED <<log, episodes, queue, procedures, day>>
  BY DEF CheckEpisode, Moves, AfterExists, stores, world
<1>2. /\ worker'.run = worker.run /\ worker'.pc = pc /\ worker'.ok = worker.ok
      /\ worker'.reward = worker.reward
  BY <1>0, <1>1 DEF To, Fields
<1>3. LogInv' /\ EpisodeInv' /\ HasJob' /\ QueueInv'
  BY <1>0, <1>1, <1>2, QuietStep
<1>4. IsVerdict(worker.run, worker.ok)' /\ IsReward(worker.run, worker.reward)'
  <2>1. PICK e : e = "event"
    OBVIOUS
  <2> QED BY <1>0, <1>1, <1>2, VerdictOn, RewardOn
<1>5. Carries'
  BY <1>1, <1>2, <1>4 DEF Carries, At, Ending
<1> QED BY <1>3, <1>5 DEF StoryInv

LEMMA InsertEpisodeStory == IInv /\ StoryInv /\ InsertEpisode => StoryInv'
<1> SUFFICES ASSUME IInv, StoryInv, InsertEpisode PROVE StoryInv'
  OBVIOUS
<1>0. /\ ~At("idle") /\ worker.pc = "insert" /\ DOMAIN worker = Fields /\ worker.run \in Runs
      /\ IsVerdict(worker.run, worker.ok) /\ IsReward(worker.run, worker.reward) /\ faults \in Nat
  BY DEF InsertEpisode, At, StoryInv, Carries, Ending, IInv, QueueInv, HasJob
<1>1. PICK pc \in {"written", "finish"} :
        /\ worker' = To(pc) /\ faults' \in {faults, faults + 1}
        /\ episodes' \in {episodes, episodes \cup {Episode}}
        /\ UNCHANGED <<log, queue, procedures, day>>
  BY DEF InsertEpisode, stores, world
<1>2. worker'.run = worker.run /\ worker'.pc = pc
  BY <1>0, <1>1 DEF To, Fields
<1>3. HasJob' /\ QueueInv'
  BY <1>0, <1>1, <1>2, Stays DEF StoryInv
<1>4. PICK e : e = [run |-> worker.run, type |-> "POLICY_EVALUATED", ts |-> 0]
  OBVIOUS
<1>5. Licence(e)
  BY <1>0, <1>4, PlainLicence DEF StoryInv, PlainTypes
<1>6. LogInv'
  BY <1>1, <1>5, LogKept DEF IInv, StoryInv
<1>7. EpisodeInv'
  <2>1. ASSUME NEW f \in episodes' PROVE (f.run \in Runs /\ IsVerdict(f.run, f.ok) /\ IsReward(f.run, f.reward))
    <3>1. Episode.run = worker.run /\ Episode.ok = worker.ok /\ Episode.reward = worker.reward
      BY DEF Episode
    <3>2. f \in episodes \/ f = Episode
      BY <1>1, <2>1
    <3> QED BY <1>0, <3>1, <3>2 DEF StoryInv, EpisodeInv
  <2>2. ASSUME NEW f \in episodes' PROVE (f.run \in Runs /\ IsVerdict(f.run, f.ok)' /\ IsReward(f.run, f.reward)')
    BY <1>0, <1>1, <2>1, <2>2 DEF IsVerdict, IsReward, HasScore, Row
  <2> QED BY <2>2 DEF EpisodeInv
<1>8. Carries'
  BY <1>1, <1>2 DEF Carries, At, Ending
<1> QED BY <1>3, <1>6, <1>7, <1>8 DEF StoryInv

LEMMA AnnounceEpisodeStory == IInv /\ StoryInv /\ AnnounceEpisode => StoryInv'
<1> SUFFICES ASSUME IInv, StoryInv, AnnounceEpisode PROVE StoryInv'
  OBVIOUS
<1> DEFINE e == [Event("MEMORY_WRITTEN") EXCEPT !.value = RecordId]
<1>0. ~At("idle") /\ worker.pc = "written" /\ DOMAIN worker = Fields
  BY DEF AnnounceEpisode, At, IInv
<1>1. /\ e.run = worker.run /\ e.ts = 0 /\ e.type \in PlainTypes /\ Appends(e, To("finish"), To("finish"))
  BY DEF Event, PlainTypes, AnnounceEpisode
<1> HIDE DEF e
<1>2. To("finish").run = worker.run /\ To("finish").pc = "finish"
  BY <1>0 DEF To, Fields
<1>3. Licence(e)
  BY <1>0, <1>1, PlainLicence DEF StoryInv
<1>4. LogInv' /\ EpisodeInv' /\ HasJob' /\ QueueInv' /\ worker' = To("finish")
  BY <1>0, <1>1, <1>2, <1>3, AppendStep
<1>5. Carries'
  BY <1>2, <1>4 DEF Carries, At, Ending
<1> QED BY <1>4, <1>5 DEF StoryInv

\* The handler gives the job back, after a last event or none.
LEMMA LeaveStory ==
  ASSUME IInv, StoryInv, ~At("idle"), NEW e, e.run = worker.run, e.ts = 0, e.type \in PlainTypes,
         NEW state \in {"done", "failed"}, Leaves(state),
         log' \in {log, Append(log, e)}, faults' \in {faults, faults + 1}
  PROVE  StoryInv'
<1>0. worker.run \in Runs /\ faults \in Nat
  BY DEF StoryInv, QueueInv, HasJob
<1>1. LogInv' /\ EpisodeInv'
  <2>1. Licence(e)
    BY PlainLicence DEF StoryInv
  <2>2. UNCHANGED <<episodes, day>>
    BY DEF Leaves, stores, world
  <2> QED BY <1>0, <2>1, <2>2, LogKept, EpisodesKept DEF IInv, StoryInv
<1>2. HasJob' /\ Carries'
  BY DEF Leaves, HasJob, Carries, At, Ending, NoRun
<1>3. QueueInv'
  BY <1>0 DEF Leaves, StoryInv, QueueInv, stores, world
<1> QED BY <1>1, <1>2, <1>3 DEF StoryInv

LEMMA LogCancelledStory == IInv /\ StoryInv /\ LogCancelled => StoryInv'
<1> SUFFICES ASSUME IInv, StoryInv, LogCancelled PROVE StoryInv'
  OBVIOUS
<1> DEFINE e == Event("RUN_CANCELLED")
<1>0. ~At("idle") /\ DOMAIN worker = Fields
  BY DEF LogCancelled, At, IInv
<1>1. /\ e.run = worker.run /\ e.ts = 0 /\ e.type \in PlainTypes
  BY DEF Event, PlainTypes
<1>2. CASE Leaves("failed") /\ (UNCHANGED <<log, faults>> \/ ThrowsAtLogging(e))
  <2>1. log' \in {log, Append(log, e)} /\ faults' \in {faults, faults + 1}
    BY <1>2 DEF ThrowsAtLogging
  <2> HIDE DEF e
  <2> QED BY <1>0, <1>1, <1>2, <2>1, LeaveStory
<1>3. CASE /\ log' = Append(log, e) /\ worker' = To("complete")
           /\ UNCHANGED <<stores, queue, world, faults>>
  <2>1. worker'.run = worker.run /\ worker'.pc = "complete"
    BY <1>0, <1>3 DEF To, Fields
  <2>2. UNCHANGED <<episodes, queue, procedures, day, faults>> /\ faults \in Nat
    BY <1>3 DEF stores, world, StoryInv, QueueInv
  <2> HIDE DEF e
  <2>3. Licence(e)
    BY <1>0, <1>1, PlainLicence DEF StoryInv
  <2>4. LogInv' /\ EpisodeInv'
    BY <1>3, <2>2, <2>3, LogKept, EpisodesKept DEF IInv, StoryInv
  <2>5. HasJob' /\ QueueInv'
    BY <1>0, <2>1, <2>2, Stays DEF StoryInv
  <2>6. Carries'
    BY <2>1 DEF Carries, At, Ending
  <2> QED BY <2>4, <2>5, <2>6 DEF StoryInv
<1> QED BY <1>2, <1>3 DEF LogCancelled, ThrowsAtLogging

LEMMA FinishStory == IInv /\ StoryInv /\ Finish => StoryInv'
<1> SUFFICES ASSUME IInv, StoryInv, Finish PROVE StoryInv'
  OBVIOUS
<1> DEFINE e == [Event("RUN_COMPLETED") EXCEPT !.ok = worker.ok /\ ~At("complete")]
<1>0. ~At("idle") /\ faults \in Nat
  BY DEF Finish, At, StoryInv, QueueInv
<1>1. /\ e.run = worker.run /\ e.ts = 0 /\ e.type \in PlainTypes
  BY DEF Event, PlainTypes
<1>2. PICK state \in {"done", "failed"} :
        Leaves(state) /\ log' \in {log, Append(log, e)} /\ faults' \in {faults, faults + 1}
  BY <1>0 DEF Finish, ThrowsAtLogging
<1> HIDE DEF e
<1> QED BY <1>0, <1>1, <1>2, LeaveStory

\* The world outside the worker: a delivery, a crash, a day, a template that is saved.
LEMMA WorldStory ==
  IInv /\ StoryInv /\ ((\E r \in Runs : Take(r) \/ TakeFails(r)) \/ Crash \/ NextDay
                       \/ (\E t \in Templates : SaveTemplate(t)) \/ UNCHANGED vars) => StoryInv'
<1> SUFFICES ASSUME IInv, StoryInv, (\E r \in Runs : Take(r) \/ TakeFails(r)) \/ Crash \/ NextDay
                                    \/ (\E t \in Templates : SaveTemplate(t)) \/ UNCHANGED vars
             PROVE  StoryInv'
  OBVIOUS
<1>1. /\ log' = log /\ episodes' = episodes /\ day' \in {day, day + 1} /\ day \in Nat
      /\ faults \in Nat /\ faults' \in {faults, faults + 1}
  BY DEF Take, TakeFails, Crash, NextDay, SaveTemplate, stores, world, vars, StoryInv, QueueInv
<1>2. LogInv'
  <2>1. RowInv'
    BY <1>1 DEF StoryInv, LogInv, RowInv
  <2>2. OnceInv' /\ RewardInv'
    BY <1>1 DEF StoryInv, LogInv, OnceInv, RewardInv, Row
  <2>3. TrustInv'
    BY <1>1 DEF StoryInv, LogInv, TrustInv, IsMove, Updates, UpdatesBefore, Row
  <2>4. EvaluatedByReward'
    BY <1>1 DEF StoryInv, LogInv, EvaluatedByReward
  <2> QED BY <2>1, <2>2, <2>3, <2>4 DEF LogInv
<1>3. EpisodeInv'
  BY <1>1 DEF StoryInv, EpisodeInv, IsVerdict, IsReward, HasScore, Row
<1>4. CASE \E r \in Runs : Take(r)
  <2>1. PICK r \in Runs : Take(r)
    BY <1>4
  <2>2. worker = NoRun /\ ~(\E q \in Runs : job[q] = "active")
    <3>1. worker = NoRun
      BY <2>1 DEF Take, StoryInv, HasJob
    <3>2. worker.run = "none"
      BY <3>1 DEF NoRun
    <3> QED BY <3>1, <3>2, PipelineAssumption DEF StoryInv, QueueInv
  <2>3. UNCHANGED <<procedures, day, stalls, faults>>
    BY <2>1 DEF Take, stores, world
  <2>4. \/ worker' = NoRun /\ job' = [job EXCEPT ![r] = "done"]
        \/ worker' = [NoRun EXCEPT !.run = r, !.pc = "plan"] /\ job' = [job EXCEPT ![r] = "active"]
    BY <2>1, <2>2 DEF Take
  <2>5. QueueInv'
    BY <2>2, <2>3, <2>4 DEF StoryInv, QueueInv, NoRun
  <2>6. HasJob' /\ Carries'
    <3>1. CASE worker' = NoRun
      BY <3>1 DEF HasJob, Carries, At, NoRun, Ending
    <3>2. CASE worker' = [NoRun EXCEPT !.run = r, !.pc = "plan"] /\ job' = [job EXCEPT ![r] = "active"]
      <4>1. worker'.run = r /\ worker'.pc = "plan" /\ worker'.reward = Nothing
        BY <3>2 DEF NoRun
      <4>2. job'[r] = "active"
        BY <3>2 DEF StoryInv, QueueInv
      <4> QED BY <4>1, <4>2 DEF HasJob, Carries, At, Ending
    <3> QED BY <2>4, <3>1, <3>2
  <2> QED BY <1>2, <1>3, <2>5, <2>6 DEF StoryInv
<1>t. CASE \E r \in Runs : TakeFails(r)
  <2>1. PICK r \in Runs : TakeFails(r)
    BY <1>t
  <2>2. /\ worker = NoRun /\ UNCHANGED <<worker, procedures, day, stalls>>
        /\ job' = [job EXCEPT ![r] = "failed"] /\ job[r] # "active"
    BY <2>1 DEF TakeFails, stores, world, StoryInv, HasJob
  <2>3. QueueInv'
    BY <1>1, <2>2 DEF StoryInv, QueueInv
  <2>4. HasJob' /\ Carries'
    BY <2>2 DEF HasJob, Carries, At, NoRun, Ending
  <2> QED BY <1>2, <1>3, <2>3, <2>4 DEF StoryInv
<1>5. CASE Crash
  <2>1. /\ worker' = NoRun /\ job' = [job EXCEPT ![worker.run] = AfterStall(worker.run)]
        /\ stalls' = [stalls EXCEPT ![worker.run] = Min({@ + 1, MaxStalls})]
        /\ worker.run \in Runs /\ UNCHANGED <<procedures, day, faults>>
    BY <1>5 DEF Crash, stores, At, StoryInv, HasJob
  <2>2. Min({stalls[worker.run] + 1, MaxStalls}) \in 0 .. MaxStalls
    <3>1. stalls[worker.run] \in 0 .. MaxStalls /\ MaxStalls \in Nat
      BY <2>1, PipelineAssumption DEF StoryInv, QueueInv
    <3>2. {stalls[worker.run] + 1, MaxStalls} \in SUBSET Nat
      BY <3>1
    <3> QED BY <3>1, <3>2, MinIn
  <2>3. AfterStall(worker.run) \in {"waiting", "failed"}
    BY DEF AfterStall
  <2>4. QueueInv'
    BY <2>1, <2>2, <2>3 DEF StoryInv, QueueInv
  <2>5. HasJob' /\ Carries'
    BY <2>1 DEF HasJob, Carries, At, NoRun, Ending
  <2> QED BY <1>2, <1>3, <2>4, <2>5 DEF StoryInv
<1>6. CASE NextDay \/ (\E t \in Templates : SaveTemplate(t)) \/ UNCHANGED vars
  <2>1. UNCHANGED <<worker, job, stalls, faults>> /\ procedures' \subseteq procedures \cup Templates
    BY <1>6 DEF NextDay, SaveTemplate, stores, queue, vars
  <2>2. QueueInv' /\ HasJob'
    BY <1>1, <2>1 DEF StoryInv, QueueInv, HasJob, At
  <2>3. Carries'
    BY <1>1, <2>1 DEF StoryInv, Carries, At, Logged, IsVerdict, IsReward, HasScore, Row
  <2> QED BY <1>2, <1>3, <2>2, <2>3 DEF StoryInv
<1> QED BY <1>4, <1>t, <1>5, <1>6

LEMMA InitStory == Init => StoryInv
<1> SUFFICES ASSUME Init PROVE StoryInv
  OBVIOUS
<1>1. log = <<>> /\ episodes = {} /\ worker = NoRun
  BY DEF Init
<1>2. LogInv
  BY <1>1 DEF LogInv, RowInv, OnceInv, RewardInv, TrustInv, Updates, Of, EvaluatedByReward
<1>3. EpisodeInv /\ HasJob /\ Carries
  BY <1>1 DEF EpisodeInv, HasJob, Carries, At, NoRun, Ending
<1>4. QueueInv
  BY <1>1, PipelineAssumption DEF Init, QueueInv
<1> QED BY <1>2, <1>3, <1>4 DEF StoryInv

LEMMA NextStory == IInv /\ StoryInv /\ [Next]_vars => StoryInv'
<1> SUFFICES ASSUME IInv, StoryInv, [Next]_vars PROVE StoryInv'
  OBVIOUS
<1>1. CASE \E ok \in BOOLEAN : CompleteDag(ok)
  BY <1>1, CompleteDagStory
<1>2. CASE \/ (\E r \in Runs : Take(r) \/ TakeFails(r)) \/ Crash \/ NextDay
           \/ (\E t \in Templates : SaveTemplate(t)) \/ UNCHANGED vars
  BY <1>2, WorldStory
<1>3. CASE Plan \/ Policy \/ Block \/ BeginDag \/ ReadFails \/ StartNodes
  BY <1>3, PlanStory, PolicyStory, BeginDagStory, ReadFailsStory, StartNodesStory
<1>4. CASE Score \/ UpdateTrust \/ CompleteReward \/ Evaluate
  BY <1>4, ScoreStory, UpdateTrustStory, CompleteRewardStory, EvaluateStory
<1>5. CASE CheckEpisode \/ InsertEpisode \/ AnnounceEpisode \/ LogCancelled \/ Finish
  BY <1>5, CheckEpisodeStory, InsertEpisodeStory, AnnounceEpisodeStory, LogCancelledStory, FinishStory
<1> QED BY <1>1, <1>2, <1>3, <1>4, <1>5 DEF Next, Work

LEMMA StoryHolds == Spec => [](IInv /\ StoryInv)
<1>1. Init => IInv /\ StoryInv
  BY InitIInv, InitStory
<1>2. IInv /\ StoryInv /\ [Next]_vars => (IInv /\ StoryInv)'
  BY NextIInv, NextStory
<1> QED BY <1>1, <1>2, PTL DEF Spec

-----------------------------------------------------------------------------
(* What the invariant says of the properties.                              *)

\* The invariant gives the types.
LEMMA StoryTypes == IInv /\ StoryInv => TypeOK
<1> SUFFICES ASSUME IInv, StoryInv PROVE TypeOK
  OBVIOUS
<1>1. \A i \in DOMAIN log : log[i].run \in Runs /\ log[i].type \in Types /\ log[i].ts \in 0 .. day
  BY DEF StoryInv, LogInv, RowInv
<1>2. \A e \in episodes : e.run \in Runs /\ e.ok \in BOOLEAN /\ e.reward \in {Nothing} \cup (0 .. One)
  <2> TAKE e \in episodes
  <2>1. e.run \in Runs /\ IsVerdict(e.run, e.ok) /\ IsReward(e.run, e.reward)
    BY DEF StoryInv, EpisodeInv
  <2>2. e.ok \in BOOLEAN
    BY <2>1 DEF IsVerdict, Row, StoryInv, LogInv, RowInv
  <2>3. e.reward = Nothing \/ e.reward \in 0 .. One
    BY <2>1 DEF IsReward, HasScore, Row, StoryInv, LogInv, RowInv
  <2> QED BY <2>1, <2>2, <2>3
<1>3. \A r \in Runs : job[r] = "active" <=> worker.run = r
  <2> TAKE r \in Runs
  <2>1. job[r] = "active" => worker.run = r
    BY DEF StoryInv, QueueInv
  <2>2. CASE At("idle")
    BY <2>1, <2>2, PipelineAssumption DEF StoryInv, HasJob, NoRun
  <2>3. CASE ~At("idle")
    BY <2>1, <2>3 DEF StoryInv, HasJob
  <2> QED BY <2>2, <2>3
<1> QED BY <1>1, <1>2, <1>3 DEF TypeOK, StoryInv, QueueInv

\* It gives one number for the reward of a run.
LEMMA StoryRewards == IInv /\ StoryInv => RewardReadBack
<1> SUFFICES ASSUME IInv, StoryInv PROVE RewardReadBack
  OBVIOUS
<1>1. EpisodeMatchesLog
  <2> SUFFICES ASSUME NEW e \in episodes
               PROVE  /\ Logged(e.run, "DAG_COMPLETED")
                      /\ \A i \in DOMAIN log : log[i].run = e.run =>
                           /\ log[i].type = "DAG_COMPLETED" => e.ok = log[i].ok
                           /\ log[i].type = "REWARD_COMPUTED" =>
                                e.reward = log[i].value \/ (e.reward = Nothing /\ faults > 0)
    BY DEF EpisodeMatchesLog
  <2>1. IsVerdict(e.run, e.ok) /\ IsReward(e.run, e.reward)
    BY DEF StoryInv, EpisodeInv
  <2>2. PICK j \in DOMAIN log : Row(e.run, "DAG_COMPLETED", j) /\ log[j].ok = e.ok
    BY <2>1 DEF IsVerdict
  <2>3. ASSUME NEW i \in DOMAIN log, log[i].run = e.run, log[i].type = "DAG_COMPLETED"
        PROVE  e.ok = log[i].ok
    BY <2>2, <2>3 DEF StoryInv, LogInv, OnceInv, Single, Row
  <2>4. ASSUME NEW i \in DOMAIN log, log[i].run = e.run, log[i].type = "REWARD_COMPUTED"
        PROVE  e.reward = log[i].value \/ (e.reward = Nothing /\ faults > 0)
    <3>1. CASE HasScore(e.run, e.reward)
      <4>1. PICK k \in DOMAIN log : Row(e.run, "REWARD_COMPUTED", k) /\ log[k].value = e.reward
        BY <3>1 DEF HasScore
      <4> QED BY <2>4, <4>1 DEF StoryInv, LogInv, OnceInv, Single, Row
    <3> QED BY <2>1, <3>1 DEF IsReward
  <2> QED BY <2>2, <2>3, <2>4 DEF Row, Logged
<1> QED BY <1>1 DEF RewardReadBack, StoryInv, LogInv

\* It gives the one move of the trust.
LEMMA StoryTrust == IInv /\ StoryInv => TrustMovesOnce
<1> SUFFICES ASSUME IInv, StoryInv PROVE TrustMovesOnce
  OBVIOUS
<1>1. RewardedOnce
  <2> SUFFICES ASSUME NEW i \in DOMAIN log, log[i].type \in {"REWARD_COMPUTED", "TRUST_UPDATED"}
               PROVE  /\ \A j \in DOMAIN log : log[j].run = log[i].run /\ log[j].type = log[i].type => j = i
                      /\ Logged(log[i].run, "DAG_COMPLETED")
                      /\ log[i].type = "REWARD_COMPUTED" =>
                           (log[i].value > 0 <=> First(log[i].run, "DAG_COMPLETED").ok)
    BY DEF RewardedOnce
  <2>1. \A j \in DOMAIN log : log[j].run = log[i].run /\ log[j].type = log[i].type => j = i
    BY DEF StoryInv, LogInv, OnceInv, Single, Row
  <2>2. \E k \in DOMAIN log : log[k].run = log[i].run /\ log[k].type = "REWARD_COMPUTED"
    <3>1. CASE log[i].type = "TRUST_UPDATED"
      <4>1. IsMove(i)
        BY <3>1 DEF StoryInv, LogInv, TrustInv, Updates, Of
      <4> QED BY <4>1 DEF IsMove, Row
    <3> QED BY <3>1
  <2>3. PICK k \in DOMAIN log : log[k].run = log[i].run /\ log[k].type = "REWARD_COMPUTED"
    BY <2>2
  <2>4. PICK j \in DOMAIN log : Row(log[i].run, "DAG_COMPLETED", j) /\ (log[k].value > 0 <=> log[j].ok = TRUE)
    BY <2>3 DEF StoryInv, LogInv, RewardInv
  <2>5. Logged(log[i].run, "DAG_COMPLETED")
    BY <2>4 DEF Row, Logged
  <2>6. PICK n \in DOMAIN log : /\ Row(log[i].run, "DAG_COMPLETED", n)
                                /\ First(log[i].run, "DAG_COMPLETED") = log[n]
    BY <2>5, FirstIsRow DEF IInv
  <2>7. n = j /\ log[n].ok \in BOOLEAN
    BY <2>4, <2>6 DEF StoryInv, LogInv, OnceInv, RowInv, Single, Row
  <2>8. log[i].type = "REWARD_COMPUTED" => k = i
    BY <2>1, <2>3
  <2> QED BY <2>1, <2>4, <2>5, <2>6, <2>7, <2>8
<1>2. TrustChain
  <2> SUFFICES ASSUME NEW i \in Updates
               PROVE  /\ log[i].from = IF UpdatesBefore(i) = {} THEN ColdStart
                                       ELSE TrustBefore(log[Max(UpdatesBefore(i))].value,
                                                        log[i].ts - log[Max(UpdatesBefore(i))].ts)
                      /\ RewardsBefore(i) # {}
                      /\ log[i].value = TrustAfter(log[i].from, log[Max(RewardsBefore(i))].value)
    BY DEF TrustChain, UpdatesBefore, RewardsBefore
  <2>1. IsMove(i)
    BY DEF StoryInv, LogInv, TrustInv
  <2>2. PICK j \in 1 .. i - 1 :
          Row(log[i].run, "REWARD_COMPUTED", j) /\ log[i].value = TrustAfter(log[i].from, log[j].value)
    BY <2>1 DEF IsMove
  <2>3. j \in RewardsBefore(i)
    BY <2>2 DEF RewardsBefore, Row
  <2>4. Max(RewardsBefore(i)) \in RewardsBefore(i)
    BY <2>3, NewestIn DEF IInv, Updates, Of
  <2>5. \A k \in RewardsBefore(i) : k \in DOMAIN log
    BY AppendRow DEF RewardsBefore, IInv, Updates, Of
  <2>6. \A k \in RewardsBefore(i) : k = j
    BY <2>2, <2>5 DEF RewardsBefore, StoryInv, LogInv, OnceInv, Single, Row
  <2>7. log[Max(RewardsBefore(i))] = log[j]
    BY <2>4, <2>6
  <2> QED BY <2>1, <2>2, <2>3, <2>7 DEF IsMove
<1> QED BY <1>1, <1>2 DEF TrustMovesOnce

-----------------------------------------------------------------------------
(***************************************************************************)
(* The third part of the invariant: with the default weights every plan is *)
(* the default one, in the log and in the worker, and nodes start in runs  *)
(* whose DAG is in the log.                                                *)
(***************************************************************************)
PlanInv ==
  /\ config \in Configs /\ procedures \subseteq Templates /\ IsFiniteSet(procedures)
  /\ config.weights = DefaultWeights =>
       /\ worker.plan.source = "DEFAULT"
       /\ \A i \in DOMAIN log : log[i].plan.source = "DEFAULT"
  /\ At("nodes") => Logged(worker.run, "DAG_PLANNED")
  /\ \A i \in DOMAIN log : log[i].type = "NODE_STARTED" => Logged(log[i].run, "DAG_PLANNED")

\* The eleven nodes of planCodeChangeDag are nodes.
LEMMA CodeChangeDagIs == CodeChangeDag \in Seq(DagNode)
<1>1. <<>> \in Seq(Nat) /\ \A x \in Nat : <<x>> \in Seq(Nat)
  OBVIOUS
<1>2. \A id \in Nat, kind \in NodeKinds, deps \in Seq(Nat), n \in Nat : Node(id, kind, deps, n) \in DagNode
  BY DEF Node, DagNode
<1>3. Mandatory \cup {"CODEBASE_ANALYZE", "PATCH_PLAN", "PATCH_APPLY_SIMULATED", "BUILD_VERIFY",
                      "TEST_VERIFY", "PATCH_REVIEW"} \subseteq NodeKinds
  BY DEF Mandatory, NodeKinds
<1>4. /\ Node(1, "PLAN_DAG", <<>>, 1) \in DagNode
      /\ Node(2, "PERSIST_USER_MESSAGE", <<1>>, 1) \in DagNode
      /\ Node(6, "CODEBASE_ANALYZE", <<2>>, 1) \in DagNode
      /\ Node(7, "PATCH_PLAN", <<6>>, 1) \in DagNode
      /\ Node(8, "PATCH_APPLY_SIMULATED", <<7>>, 1) \in DagNode
      /\ Node(9, "BUILD_VERIFY", <<8>>, 1) \in DagNode
  BY <1>1, <1>2, <1>3 DEF Mandatory
<1>5. /\ Node(10, "TEST_VERIFY", <<9>>, 1) \in DagNode
      /\ Node(11, "PATCH_REVIEW", <<10>>, 1) \in DagNode
      /\ Node(3, "LLM_CHAT", <<11>>, 2) \in DagNode
      /\ Node(4, "ENFORCE_REPLY_CONSTRAINTS", <<3>>, 1) \in DagNode
      /\ Node(5, "PERSIST_ASSISTANT_MESSAGE", <<4>>, 1) \in DagNode
  BY <1>1, <1>2, <1>3 DEF Mandatory
<1> QED BY <1>4, <1>5 DEF CodeChangeDag

\* What the memory of the worker says of its templates is evidence for the planner, and
\* plain: a reward of 0.5 and nothing else.
LEMMA PatternsAre ==
  ASSUME NEW saved \in SUBSET (Nat \ {0}), IsFiniteSet(saved)
  PROVE  /\ PatternsOf(saved) \in Seq(Evidence)
         /\ \A i \in DOMAIN PatternsOf(saved) :
              PatternsOf(saved)[i] = Plain(PatternsOf(saved)[i].id, PatternsOf(saved)[i].dag)
<1>1. PICK n \in Nat : n = Cardinality(saved)
  BY FS_CardinalityType
<1>2. PICK ids : ids = InOrder(saved) /\ ids \in [1 .. n -> saved]
  BY <1>1, InOrderIs
<1>3. \A t \in Nat \ {0} : ToPatternEvidence(t) \in Evidence /\ ToPatternEvidence(t) = Plain(t, CodeChangeDag)
  BY CodeChangeDagIs DEF ToPatternEvidence, Evidence, Plain
<1>4. PICK p : p = PatternsOf(saved) /\ p = [i \in 1 .. n |-> ToPatternEvidence(ids[i])]
  BY <1>2 DEF PatternsOf
<1>5. \A i \in 1 .. n : p[i] \in Evidence /\ p[i] = Plain(ids[i], CodeChangeDag)
  BY <1>2, <1>3, <1>4
<1>6. \A t : Plain(t, CodeChangeDag).id = t /\ Plain(t, CodeChangeDag).dag = CodeChangeDag
  BY DEF Plain
<1>7. p \in [1 .. n -> Evidence]
  BY <1>4, <1>5
<1>8. p \in Seq(Evidence)
  BY <1>7
<1> QED BY <1>4, <1>5, <1>6, <1>8

\* The planner reads three fields of its configuration.
LEMMA PlannerReads ==
  ASSUME NEW patterns, NEW c, NEW a, NEW b, a.allowSynthesis = b.allowSynthesis,
         a.minPatternReward = b.minPatternReward, a.weights = b.weights
  PROVE  BuildCandidates(ChatDag, patterns, a, c) = BuildCandidates(ChatDag, patterns, b, c)
<1>1. Reusable(patterns, a) = Reusable(patterns, b) /\ Modifiable(patterns, a) = Modifiable(patterns, b)
  BY DEF Reusable, Modifiable
<1>2. \A source, mode, dag, pattern, p :
        Candidate(source, mode, dag, pattern, p, a, c) = Candidate(source, mode, dag, pattern, p, b, c)
  BY DEF Candidate
<1> DEFINE Reuse(x)   == IF c.allow_pattern_reuse THEN Reusable(patterns, x) ELSE <<>>
           Modify(x)  == IF c.allow_pattern_modification THEN Modifiable(patterns, x) ELSE <<>>
           Default(x) == <<Candidate("DEFAULT", "BYPASS", ChatDag, 0, NoPattern, x, c)>>
           Reused(x)  == [i \in DOMAIN Reuse(x) |->
                           Candidate("M3_REUSE", "REUSE", Reuse(x)[i].dag, Reuse(x)[i].id, Reuse(x)[i], x, c)]
           Modified(x) == [i \in DOMAIN Modify(x) |->
                            Candidate("M3_MODIFIED", "MODIFY", BoostRetry(Modify(x)[i].dag),
                                      Modify(x)[i].id, Modify(x)[i], x, c)]
           Synthesized(x) ==
             IF x.allowSynthesis /\ c.allow_dag_synthesis /\ Reuse(x) = <<>>
             THEN <<Candidate("SYNTHESIZED", "SYNTHESIZE", ChatDag, 0, NoPattern, x, c)>>
             ELSE <<>>
<1>3. PICK r, m : r = Reuse(a) /\ r = Reuse(b) /\ m = Modify(a) /\ m = Modify(b)
  BY <1>1
<1>4. Default(a) = Default(b)
  BY <1>2
<1>5. Reused(a) = Reused(b)
  <2>1. \A x : r = Reuse(x) => Reused(x) = [i \in DOMAIN r |->
                                 Candidate("M3_REUSE", "REUSE", r[i].dag, r[i].id, r[i], x, c)]
    BY ZenonT(60)
  <2> QED BY <1>2, <1>3, <2>1
<1>6. Modified(a) = Modified(b)
  <2>1. \A x : m = Modify(x) => Modified(x) = [i \in DOMAIN m |->
                                 Candidate("M3_MODIFIED", "MODIFY", BoostRetry(m[i].dag), m[i].id, m[i], x, c)]
    BY ZenonT(60)
  <2> QED BY <1>2, <1>3, <2>1
<1>7. Synthesized(a) = Synthesized(b)
  BY <1>2, <1>3
<1>8. \A x : BuildCandidates(ChatDag, patterns, x, c) = Default(x) \o Reused(x) \o Modified(x) \o Synthesized(x)
  BY ZenonT(60) DEF BuildCandidates
<1> HIDE DEF Default, Reused, Modified, Synthesized
<1> QED BY <1>4, <1>5, <1>6, <1>7, <1>8, ZenonT(60)

\* With the default weights the planner decides for the default DAG, whatever templates
\* have been saved.
LEMMA DefaultIsDecided ==
  ASSUME config \in Configs, config.weights = DefaultWeights,
         NEW saved \in SUBSET (Nat \ {0}), IsFiniteSet(saved)
  PROVE  Decide(saved).source = "DEFAULT"
<1>1. PICK w : w = SelectWinner(BuildCandidates(ChatDag, PatternsOf(saved), config, NoConstraints))
  OBVIOUS
<1>2. PICK p \in Seq(Evidence) :
        p = PatternsOf(saved) /\ \A i \in DOMAIN p : p[i] = Plain(p[i].id, p[i].dag)
  BY PatternsAre
<1>3. PICK b : b = [allowSynthesis |-> config.allowSynthesis,
                    minPatternReward |-> config.minPatternReward, weights |-> config.weights]
  OBVIOUS
<1>4. b \in PlannerConfig
  <2>0. PICK on, m, w0, code :
          /\ m = 500 \/ m = 600
          /\ config = [enabled |-> on, allowSynthesis |-> FALSE, minPatternReward |-> m, weights |-> w0,
                       codeChange |-> code]
    BY SMT DEF Configs
  <2>1. config.allowSynthesis \in BOOLEAN /\ config.minPatternReward \in Nat
    BY <2>0
  <2>2. DefaultWeights \in FourNats
    BY DEF DefaultWeights, FourNats
  <2> QED BY <1>3, <2>1, <2>2 DEF PlannerConfig
<1>5. b.allowSynthesis = config.allowSynthesis /\ b.minPatternReward = config.minPatternReward
      /\ b.weights = config.weights
  BY <1>3
<1>6. w = SelectWinner(BuildCandidates(ChatDag, p, b, NoConstraints))
  BY <1>1, <1>2, <1>5, PlannerReads
<1>7. IsValid(ChatDag, NoConstraints)
  BY ChatDagIsValid DEF NoConstraints
<1>8. DefaultStands(w, p, b, NoConstraints)
  BY <1>4, <1>6, DefaultStandsAlways
<1>9. w.source = "DEFAULT"
  BY <1>2, <1>5, <1>7, <1>8, Zenon DEF DefaultStands
<1>10. Decide(saved) = Fallback \/ Decide(saved) = [source |-> w.source, pattern |-> w.pattern, fallback |-> FALSE]
  BY <1>1, Zenon DEF Decide
<1> QED BY <1>9, <1>10 DEF Fallback

\* An append or none, with a plan that the invariant allows in the row and the worker.
LEMMA PlanKept ==
  ASSUME IsSeq(log), PlanInv, NEW e, log' \in {log, Append(log, e)}, UNCHANGED <<config, procedures>>,
         config.weights = DefaultWeights => e.plan.source = "DEFAULT" /\ worker'.plan.source = "DEFAULT",
         e.type = "NODE_STARTED" => Logged(e.run, "DAG_PLANNED"),
         At("nodes")' => Logged(worker.run, "DAG_PLANNED")'
  PROVE  PlanInv'
<1>1. config' \in Configs /\ procedures' \subseteq Templates /\ IsFiniteSet(procedures')
  BY DEF PlanInv
<1>2. /\ \A i \in DOMAIN log' : (i \in DOMAIN log /\ log'[i] = log[i]) \/ log'[i] = e
      /\ \A r, t : Logged(r, t) => Logged(r, t)'
  BY RowKept, AppendLogs
<1>3. config'.weights = DefaultWeights =>
        worker'.plan.source = "DEFAULT" /\ \A i \in DOMAIN log' : log'[i].plan.source = "DEFAULT"
  BY <1>2 DEF PlanInv
<1>4. \A i \in DOMAIN log' : log'[i].type = "NODE_STARTED" => Logged(log[i].run, "DAG_PLANNED")'
  <2> SUFFICES ASSUME NEW i \in DOMAIN log', log'[i].type = "NODE_STARTED"
               PROVE  \E j \in DOMAIN log' : log'[j].run = log'[i].run /\ log'[j].type = "DAG_PLANNED"
    BY DEF Logged
  <2>1. Logged(log'[i].run, "DAG_PLANNED")
    BY <1>2 DEF PlanInv
  <2>2. PICK j \in DOMAIN log : log[j].run = log'[i].run /\ log[j].type = "DAG_PLANNED"
    BY <2>1 DEF Logged
  <2>3. j \in DOMAIN log' /\ log'[j] = log[j]
    BY RowKept
  <2> QED BY <2>2, <2>3
<1> QED BY <1>1, <1>3, <1>4 DEF PlanInv

\* An action that appends, or moves on, with the plan the worker has.
LEMMA PlanCarried ==
  ASSUME IInv, PlanInv, NEW e, log' \in {log, Append(log, e)}, UNCHANGED <<config, procedures>>,
         e.plan \in {Fallback, worker.plan}, worker'.plan \in {Fallback, worker.plan},
         e.type # "NODE_STARTED", worker'.pc # "nodes"
  PROVE  PlanInv'
<1>1. config.weights = DefaultWeights => e.plan.source = "DEFAULT" /\ worker'.plan.source = "DEFAULT"
  BY DEF PlanInv, Fallback
<1>2. ~At("nodes")'
  BY DEF At
<1> QED BY <1>1, <1>2, PlanKept DEF IInv

\* The fields of an event, and of the worker after a move.
LEMMA EventIs ==
  /\ \A t : Event(t).run = worker.run /\ Event(t).type = t /\ Event(t).plan = Fallback
  /\ \A t : DOMAIN Event(t) = {"type", "run", "ts", "node", "attempt", "ok", "value", "from", "plan"}
  /\ IInv => \A pc : To(pc).plan = worker.plan /\ To(pc).pc = pc /\ To(pc).run = worker.run
BY DEF Event, IInv, Fields, To

LEMMA PlanOfBeginDag == IInv /\ PlanInv /\ BeginDag => PlanInv'
<1> SUFFICES ASSUME IInv, PlanInv, BeginDag PROVE PlanInv'
  OBVIOUS
<1>1. CASE \/ Moves(To("finish"))
           \/ Moves([worker EXCEPT !.pc = "reward", !.ok = First(worker.run, "DAG_COMPLETED").ok])
  <2>1. PICK next : Moves(next) /\ \/ next = To("finish")
                                   \/ \E ok : next = [worker EXCEPT !.pc = "reward", !.ok = ok]
    BY <1>1, Zenon
  <2>2. next.plan = worker.plan /\ next.pc # "nodes"
    <3>1. CASE next = To("finish")
      BY <3>1, EventIs
    <3>2. CASE \E ok : next = [worker EXCEPT !.pc = "reward", !.ok = ok]
      BY <3>2 DEF IInv, Fields
    <3> QED BY <2>1, <3>1, <3>2
  <2>3. worker'.plan = worker.plan /\ worker'.pc # "nodes" /\ UNCHANGED <<log, config, procedures>>
    BY <2>1, <2>2 DEF Moves, stores, world
  <2> QED BY <2>3, PlanCarried, EventIs
<1>2. CASE Moves(To("nodes")) /\ Logged(worker.run, "DAG_PLANNED")
  <2>1. worker'.plan = worker.plan /\ worker'.run = worker.run /\ UNCHANGED <<log, config, procedures>>
    BY <1>2, EventIs DEF Moves, stores, world
  <2>2. Logged(worker.run, "DAG_PLANNED")'
    BY <1>2, <2>1 DEF Logged
  <2>3. config.weights = DefaultWeights => worker'.plan.source = "DEFAULT"
    BY <2>1 DEF PlanInv
  <2>4. PICK e : e = Event("POLICY_EVALUATED")
    OBVIOUS
  <2>5. e.plan.source = "DEFAULT" /\ e.type # "NODE_STARTED"
    BY <2>4, EventIs DEF Fallback
  <2> QED BY <2>1, <2>2, <2>3, <2>5, PlanKept DEF IInv
<1>3. CASE Appends([Event("DAG_PLANNED") EXCEPT !.plan = worker.plan], To("nodes"), To("finish"))
  <2>1. PICK e : e = [Event("DAG_PLANNED") EXCEPT !.plan = worker.plan]
    OBVIOUS
  <2>2. e.plan = worker.plan /\ e.run = worker.run /\ e.type = "DAG_PLANNED"
    BY <2>1, EventIs
  <2>3. /\ UNCHANGED <<config, procedures>>
        /\ \/ log' = Append(log, e) /\ worker' = To("nodes")
           \/ log' \in {log, Append(log, e)} /\ worker' = To("finish")
    BY <1>3, <2>1 DEF Appends, stores, world
  <2>4. CASE log' = Append(log, e) /\ worker' = To("nodes")
    <3>1. worker'.plan = worker.plan /\ worker'.run = worker.run
      BY <2>4, EventIs
    <3>2. PICK i \in DOMAIN log' : log'[i] = e
      BY <2>4, AppendRow DEF IInv
    <3>3. Logged(worker.run, "DAG_PLANNED")'
      BY <2>2, <3>1, <3>2 DEF Logged
    <3>4. config.weights = DefaultWeights => e.plan.source = "DEFAULT" /\ worker'.plan.source = "DEFAULT"
      BY <2>2, <3>1 DEF PlanInv
    <3> QED BY <2>2, <2>3, <2>4, <3>3, <3>4, PlanKept DEF IInv
  <2>5. CASE log' \in {log, Append(log, e)} /\ worker' = To("finish")
    BY <2>2, <2>3, <2>5, PlanCarried, EventIs
  <2> QED BY <2>3, <2>4, <2>5
<1> QED BY <1>1, <1>2, <1>3 DEF BeginDag

LEMMA PlanOfStartNodes == IInv /\ PlanInv /\ StartNodes => PlanInv'
<1> SUFFICES ASSUME IInv, PlanInv, StartNodes PROVE PlanInv'
  OBVIOUS
<1>1. PICK e : e = [Event("NODE_STARTED") EXCEPT !.attempt = 1, !.plan = worker.plan]
  OBVIOUS
<1>2. e.plan = worker.plan /\ e.run = worker.run /\ e.type = "NODE_STARTED"
  BY <1>1, EventIs
<1>3. /\ UNCHANGED <<config, procedures>> /\ log' \in {log, Append(log, e)}
      /\ worker' \in {To("nodes"), To("finish")}
  BY <1>1 DEF StartNodes, Appends, stores, world
<1>4. worker'.plan = worker.plan /\ worker'.run = worker.run
  BY <1>3, EventIs
<1>5. Logged(worker.run, "DAG_PLANNED")
  BY DEF StartNodes, PlanInv
<1>6. Logged(worker.run, "DAG_PLANNED")'
  <2>1. PICK i \in DOMAIN log : log[i].run = worker.run /\ log[i].type = "DAG_PLANNED"
    BY <1>5 DEF Logged
  <2>2. i \in DOMAIN log' /\ log'[i] = log[i]
    BY <1>3, RowKept DEF IInv
  <2> QED BY <1>4, <2>1, <2>2 DEF Logged
<1>7. config.weights = DefaultWeights => e.plan.source = "DEFAULT" /\ worker'.plan.source = "DEFAULT"
  BY <1>2, <1>4 DEF PlanInv
<1> QED BY <1>2, <1>3, <1>5, <1>6, <1>7, PlanKept DEF IInv

\* Every other step of a job carries the plan along.
LEMMA PlanOfJob ==
  IInv /\ PlanInv /\ (Policy \/ Block \/ (\E ok \in BOOLEAN : CompleteDag(ok)) \/ Score \/ UpdateTrust
                      \/ CompleteReward \/ Evaluate \/ CheckEpisode \/ InsertEpisode \/ AnnounceEpisode
                      \/ ReadFails \/ LogCancelled \/ Finish) => PlanInv'
<1> SUFFICES ASSUME IInv, PlanInv,
                    Policy \/ Block \/ (\E ok \in BOOLEAN : CompleteDag(ok)) \/ Score \/ UpdateTrust
                    \/ CompleteReward \/ Evaluate \/ CheckEpisode \/ InsertEpisode \/ AnnounceEpisode
                    \/ ReadFails \/ LogCancelled \/ Finish
             PROVE  PlanInv'
  OBVIOUS
<1> DEFINE Carry(e) == /\ log' \in {log, Append(log, e)} /\ UNCHANGED <<config, procedures>>
                       /\ e.plan = Fallback /\ e.type # "NODE_STARTED"
                       /\ worker'.plan \in {Fallback, worker.plan} /\ worker'.pc # "nodes"
<1>0. ASSUME NEW e, Carry(e) PROVE PlanInv'
  BY <1>0, PlanCarried
<1>q. ASSUME UNCHANGED <<log, config, procedures>>,
             worker'.plan \in {Fallback, worker.plan}, worker'.pc # "nodes"
      PROVE  PlanInv'
  <2>1. Carry(Event("POLICY_EVALUATED"))
    BY <1>q, EventIs
  <2> QED BY <2>1, <1>0
<1>a. ASSUME NEW e, NEW next, NEW failed, Appends(e, next, failed), e.plan = Fallback, e.type # "NODE_STARTED",
             next.plan = worker.plan, failed.plan = worker.plan, next.pc # "nodes", failed.pc # "nodes"
      PROVE  PlanInv'
  <2>1. Carry(e)
    BY <1>a DEF Appends, stores, world
  <2> HIDE DEF Carry
  <2> QED BY <2>1, <1>0
<1>m. ASSUME NEW next, Moves(next), next.plan = worker.plan, next.pc # "nodes"
      PROVE  PlanInv'
  BY <1>m, <1>q DEF Moves, stores, world
<1> HIDE DEF Carry
<1>1. CASE Policy \/ Block
  BY <1>1, <1>a, EventIs DEF Policy, Block
<1>2. CASE \E ok \in BOOLEAN : CompleteDag(ok)
  <2>0. PICK ok \in BOOLEAN : CompleteDag(ok)
    BY <1>2
  <2>1. PICK e, next : /\ e = [Event("DAG_COMPLETED") EXCEPT !.ok = ok]
                       /\ next = [worker EXCEPT !.pc = "reward", !.ok = ok]
    OBVIOUS
  <2>2. e.plan = Fallback /\ e.type = "DAG_COMPLETED"
    BY <2>1, EventIs
  <2>3. next.plan = worker.plan /\ next.pc = "reward"
    BY <2>1 DEF IInv, Fields
  <2>4. Appends(e, next, To("finish"))
    BY <2>0, <2>1 DEF CompleteDag
  <2> QED BY <1>a, <2>2, <2>3, <2>4, EventIs
<1>3. CASE Score
  <2>1. CASE Moves([worker EXCEPT !.pc = "evaluate", !.reward = LoggedScore(worker.run)])
    <3>1. PICK next : next = [worker EXCEPT !.pc = "evaluate", !.reward = LoggedScore(worker.run)]
      OBVIOUS
    <3>2. next.plan = worker.plan /\ next.pc = "evaluate"
      BY <3>1 DEF IInv, Fields
    <3> QED BY <1>m, <2>1, <3>1, <3>2
  <2>2. CASE \E score : Appends([Event("REWARD_COMPUTED") EXCEPT !.value = score],
                                [worker EXCEPT !.pc = "trust", !.score = score], To("evaluate"))
    <3>1. PICK score, e, next :
            /\ e = [Event("REWARD_COMPUTED") EXCEPT !.value = score]
            /\ next = [worker EXCEPT !.pc = "trust", !.score = score]
            /\ Appends(e, next, To("evaluate"))
      BY <2>2
    <3>2. e.plan = Fallback /\ e.type = "REWARD_COMPUTED"
      BY <3>1, EventIs
    <3>3. next.plan = worker.plan /\ next.pc = "trust"
      BY <3>1 DEF IInv, Fields
    <3>4. Appends(e, next, To("evaluate"))
      BY <3>1
    <3> QED BY <1>a, <3>2, <3>3, <3>4, EventIs
  <2> QED BY <1>3, <2>1, <2>2, Zenon DEF Score
<1>4. CASE UpdateTrust
  <2>1. PICK from, value, e :
          /\ e = [Event("TRUST_UPDATED") EXCEPT !.from = from, !.ts = day, !.value = value]
          /\ Appends(e, To("rewarded"), To("evaluate"))
    BY <1>4, Zenon DEF UpdateTrust
  <2>2. e.plan = Fallback /\ e.type = "TRUST_UPDATED"
    BY <2>1, EventIs
  <2>3. Appends(e, To("rewarded"), To("evaluate"))
    BY <2>1
  <2> QED BY <1>a, <2>2, <2>3, EventIs
<1>5. CASE CompleteReward
  <2>1. PICK e, next : e = Event("REWARD_AGENT_COMPLETED")
                       /\ next = [worker EXCEPT !.pc = "evaluate", !.reward = worker.score]
    OBVIOUS
  <2>2. e.plan = Fallback /\ e.type = "REWARD_AGENT_COMPLETED"
    BY <2>1, EventIs
  <2>3. next.plan = worker.plan /\ next.pc = "evaluate"
    BY <2>1 DEF IInv, Fields
  <2>4. Appends(e, next, To("evaluate"))
    BY <1>5, <2>1 DEF CompleteReward
  <2> QED BY <1>a, <2>2, <2>3, <2>4, EventIs
<1>6. CASE Evaluate
  <2>1. CASE Moves(To("exists"))
    BY <1>m, <2>1, EventIs
  <2>2. PICK e : e = [Event("META_PLANNER_EVALUATED") EXCEPT !.value = ActualReward(EvaluatedEvents)]
    OBVIOUS
  <2>3. e.plan = Fallback /\ e.type = "META_PLANNER_EVALUATED"
    BY <2>2, EventIs
  <2>4. CASE Appends(e, To("exists"), To("exists"))
    BY <1>a, <2>3, <2>4, EventIs
  <2> QED BY <1>6, <2>1, <2>2, <2>4, Zenon DEF Evaluate
<1>7. CASE CheckEpisode
  <2>1. AfterExists(ExistsForRun(worker.run)) # "nodes"
    BY DEF AfterExists
  <2>2. PICK pc : pc # "nodes" /\ worker' = To(pc) /\ UNCHANGED <<log, config, procedures>>
    BY <1>7, <2>1 DEF CheckEpisode, Moves, stores, world
  <2> QED BY <1>q, <2>2, EventIs
<1>8. CASE InsertEpisode
  <2>1. worker' \in {To("written"), To("finish")} /\ UNCHANGED <<log, config, procedures>>
    BY <1>8 DEF InsertEpisode, world
  <2> QED BY <1>q, <2>1, EventIs
<1>9. CASE AnnounceEpisode
  <2>1. PICK e : e = [Event("MEMORY_WRITTEN") EXCEPT !.value = RecordId]
    OBVIOUS
  <2>2. e.plan = Fallback /\ e.type = "MEMORY_WRITTEN"
    BY <2>1, EventIs
  <2>3. Appends(e, To("finish"), To("finish"))
    BY <1>9, <2>1 DEF AnnounceEpisode
  <2> QED BY <1>a, <2>2, <2>3, EventIs
<1>10. CASE Finish
  <2>1. PICK e : e = [Event("RUN_COMPLETED") EXCEPT !.ok = worker.ok /\ ~At("complete")]
    OBVIOUS
  <2>2. e.plan = Fallback /\ e.type = "RUN_COMPLETED"
    BY <2>1, EventIs
  <2>3. log' \in {log, Append(log, e)} /\ worker' = NoRun /\ UNCHANGED <<config, procedures>>
    BY <1>10, <2>1 DEF Finish, ThrowsAtLogging, Leaves, stores, world
  <2>4. Carry(e)
    BY <2>2, <2>3 DEF Carry, NoRun
  <2> QED BY <1>0, <2>4
<1>11. CASE LogCancelled
  <2>1. PICK e : e = Event("RUN_CANCELLED")
    OBVIOUS
  <2>2. e.plan = Fallback /\ e.type = "RUN_CANCELLED"
    BY <2>1, EventIs
  <2>3. /\ log' \in {log, Append(log, e)} /\ UNCHANGED <<config, procedures>>
        /\ worker' = NoRun \/ worker' = To("complete")
    BY <1>11, <2>1 DEF LogCancelled, ThrowsAtLogging, Leaves, stores, world
  <2>4. worker'.plan \in {Fallback, worker.plan} /\ worker'.pc # "nodes"
    BY <2>3, EventIs DEF NoRun
  <2>5. Carry(e)
    BY <2>2, <2>3, <2>4 DEF Carry
  <2> QED BY <1>0, <2>5
<1>12. CASE ReadFails
  <2>1. worker'.plan = worker.plan /\ worker'.pc = "finish" /\ UNCHANGED <<log, config, procedures>>
    BY <1>12 DEF ReadFails, stores, world, IInv, Fields
  <2> QED BY <1>q, <2>1
<1> QED BY <1>1, <1>2, <1>3, <1>4, <1>5, <1>6, <1>7, <1>8, <1>9, <1>10, <1>11, <1>12

\* The planner decides anew in every delivery, for the templates that are saved by then.
LEMMA PlanOfPlan == IInv /\ PlanInv /\ Plan => PlanInv'
<1> SUFFICES ASSUME IInv, PlanInv, Plan PROVE PlanInv'
  OBVIOUS
<1>1. PICK saved \in {procedures, {}} :
        worker' = [worker EXCEPT !.pc = "policy", !.plan = Decide(saved)] /\ UNCHANGED <<log, config, procedures>>
  BY DEF Plan, stores, world
<1>2. worker'.plan = Decide(saved) /\ worker'.pc = "policy"
  BY <1>1 DEF IInv, Fields
<1>3. saved \in SUBSET (Nat \ {0}) /\ IsFiniteSet(saved)
  <2>1. IsFiniteSet({})
    BY FS_EmptySet
  <2> QED BY <1>1, <2>1, PipelineAssumption DEF PlanInv
<1>4. config.weights = DefaultWeights => worker'.plan.source = "DEFAULT"
  BY <1>2, <1>3, DefaultIsDecided DEF PlanInv
<1>5. PICK e : e = Event("POLICY_EVALUATED")
  OBVIOUS
<1>6. e.plan.source = "DEFAULT" /\ e.type # "NODE_STARTED"
  BY <1>5, EventIs DEF Fallback
<1>7. ~At("nodes")'
  BY <1>2 DEF At
<1> QED BY <1>1, <1>4, <1>6, <1>7, PlanKept DEF IInv

LEMMA PlanOfWorld ==
  IInv /\ PlanInv /\ ((\E r \in Runs : Take(r) \/ TakeFails(r)) \/ Crash \/ NextDay
                      \/ (\E t \in Templates : SaveTemplate(t)) \/ UNCHANGED vars) => PlanInv'
<1> SUFFICES ASSUME IInv, PlanInv, (\E r \in Runs : Take(r) \/ TakeFails(r)) \/ Crash \/ NextDay
                                   \/ (\E t \in Templates : SaveTemplate(t)) \/ UNCHANGED vars
             PROVE  PlanInv'
  OBVIOUS
<1>1. CASE (\E r \in Runs : Take(r) \/ TakeFails(r)) \/ Crash
  <2>1. UNCHANGED <<log, config, procedures>>
    BY <1>1 DEF Take, TakeFails, Crash, stores, world
  <2>2. \/ At("idle") /\ worker' = worker
        \/ \E r \in Runs : worker' = [NoRun EXCEPT !.run = r, !.pc = "plan"]
        \/ worker' = NoRun
    <3>1. CASE \E r \in Runs : TakeFails(r)
      BY <3>1 DEF TakeFails
    <3>2. CASE (\E r \in Runs : Take(r)) \/ Crash
      BY <3>2, Zenon DEF Take, Crash
    <3> QED BY <1>1, <3>1, <3>2
  <2>3. worker'.plan \in {Fallback, worker.plan} /\ worker'.pc # "nodes"
    <3>1. CASE At("idle") /\ worker' = worker
      BY <3>1 DEF At
    <3>2. CASE \E r \in Runs : worker' = [NoRun EXCEPT !.run = r, !.pc = "plan"]
      BY <3>2 DEF NoRun
    <3>3. CASE worker' = NoRun
      BY <3>3 DEF NoRun
    <3> QED BY <2>2, <3>1, <3>2, <3>3
  <2> QED BY <2>1, <2>3, PlanCarried, EventIs
<1>2. CASE NextDay \/ (\E t \in Templates : SaveTemplate(t)) \/ UNCHANGED vars
  <2>1. UNCHANGED <<log, worker, config>>
    BY <1>2 DEF NextDay, SaveTemplate, vars, world
  <2>2. procedures' \subseteq Templates /\ IsFiniteSet(procedures')
    <3>1. procedures' = procedures \/ \E t \in Templates : procedures' = procedures \cup {t}
      BY <1>2 DEF NextDay, SaveTemplate, vars, stores
    <3> QED BY <3>1, FS_AddElement DEF PlanInv
  <2> QED BY <2>1, <2>2 DEF PlanInv, At, Logged
<1> QED BY <1>1, <1>2

LEMMA PlanHolds == Spec => [](IInv /\ PlanInv)
<1>1. Init => PlanInv
  <2> SUFFICES ASSUME Init PROVE PlanInv
    OBVIOUS
  <2>1. log = <<>> /\ procedures = {} /\ worker = NoRun /\ config \in Configs
    BY DEF Init
  <2>2. IsFiniteSet({})
    BY FS_EmptySet
  <2> QED BY <2>1, <2>2 DEF PlanInv, NoRun, Fallback, At
<1>2. IInv /\ PlanInv /\ [Next]_vars => PlanInv'
  BY PlanOfPlan, PlanOfBeginDag, PlanOfStartNodes, PlanOfJob, PlanOfWorld DEF Next, Work
<1> QED BY <1>1, <1>2, InitIInv, NextIInv, PTL DEF Spec

\* With one source for all plans there is one DAG, also for the first row of its plan.
LEMMA PlanIsOne == IInv /\ PlanInv => OneDagPerRun
<1> SUFFICES ASSUME IInv, PlanInv, config.weights = DefaultWeights,
                    NEW i \in DOMAIN log, log[i].type = "NODE_STARTED"
             PROVE  DagOf(log[i].plan) = DagOf(First(log[i].run, "DAG_PLANNED").plan)
  BY DEF OneDagPerRun
<1>1. Logged(log[i].run, "DAG_PLANNED")
  BY DEF PlanInv
<1>2. PICK j \in DOMAIN log : First(log[i].run, "DAG_PLANNED") = log[j]
  BY <1>1, FirstIsRow DEF IInv
<1>3. log[i].plan.source = "DEFAULT" /\ log[j].plan.source = "DEFAULT"
  BY DEF PlanInv
<1> QED BY <1>2, <1>3 DEF DagOf

-----------------------------------------------------------------------------
(* The theorems.                                                           *)

\* The check and the insert of writeEpisode are two steps, and a job is delivered again
\* after a crash between any two: no run gets a second episode.
THEOREM OneEpisode == Spec => []EpisodeOncePerRun
<1>1. IInv => EpisodeOncePerRun
  BY DEF IInv
<1> QED BY <1>1, Inductive, PTL

\* The log announces an episode only of a run that has one.
THEOREM AnnouncedExists == Spec => []WrittenHasEpisode
<1>1. IInv => WrittenHasEpisode
  BY DEF IInv
<1> QED BY <1>1, Inductive, PTL

\* A run that the policy gate has blocked starts no node, whatever a later delivery plans.
THEOREM BlockIsKept == Spec => []BlockedStays
<1>1. IInv => BlockedStays
  BY DEF IInv
<1> QED BY <1>1, Inductive, PTL

\* Every event, episode, job and template is one that the code could have written, and
\* the job of the worker's run is the only active one.
THEOREM TypeCorrect == Spec => []TypeOK
BY StoryTypes, StoryHolds, PTL

\* Whichever delivery of a job computed it, the reward of a run is the same number in the
\* log, in the episode and in the evaluation of the planner, unless a call has failed.
THEOREM OneReward == Spec => []RewardReadBack
BY StoryRewards, StoryHolds, PTL

\* A run moves the trust in the agent at most once: from where the last update left it,
\* decayed by the days since, and by the reward that the run has in the log, which is
\* positive exactly if the DAG succeeded.
THEOREM OneMove == Spec => []TrustMovesOnce
BY StoryTrust, StoryHolds, PTL

\* With the default weights of the planner a job that is delivered again executes the DAG
\* that its first delivery planned, whichever templates have been saved in between.
THEOREM OneDag == Spec => []OneDagPerRun
BY PlanIsOne, PlanHolds, PTL
==============================================================================
