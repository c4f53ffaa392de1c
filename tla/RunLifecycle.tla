---------------------------- MODULE RunLifecycle ----------------------------
(***************************************************************************)
(* One run from POST /runs to RUN_COMPLETED: the handlers of               *)
(* apps/api/src/routes/runs.ts and phase7.ts, the BullMQ queue, and the    *)
(* job handler of apps/worker/src/index.ts.  They share nothing but the    *)
(* event log and the queue, and each of them reads the log, waits, and     *)
(* appends to it.                                                          *)
(*                                                                         *)
(* log       rows of run_logs that decide the course of the run            *)
(* job       the BullMQ job whose id is the run id; stalls counts its      *)
(*           redeliveries                                                  *)
(* caller    where POST /runs and each POST /execute is                    *)
(* canceller where each POST /cancel is                                    *)
(* pc, seen, ok, error   the memory of the worker process                  *)
(* inFlight  the heartbeat timer of the handler waits for its append       *)
(*                                                                         *)
(* The DAG is a chain of nodes of one attempt (DagExecutor has the loop);  *)
(* memory retrieval, planning, evaluation and memory write append events   *)
(* that nothing here reads, and the handler survives their failure: they   *)
(* are left out.                                                           *)
(***************************************************************************)
EXTENDS Integers, Sequences, FiniteSets

CONSTANTS Executes,     \* the POST /runs/:runId/execute requests
          Cancels,      \* the POST /runs/:runId/cancel requests
          NumNodes,     \* nodes of the DAG
          PolicyGate,   \* enable_policy_gate
          RunTimeout,   \* run_timeout_ms > 0
          MaxStalls,    \* maxStalledCount of the queue
          MaxCrashes,   \* bound on the crashes of the worker
          MaxBeats,     \* bound on the heartbeats that are logged
          MaxFaults     \* bound on failed database and queue calls

ASSUME LifecycleAssumption ==
  /\ NumNodes \in Nat \ {0}
  /\ PolicyGate \in BOOLEAN /\ RunTimeout \in BOOLEAN
  /\ MaxStalls \in Nat /\ MaxCrashes \in Nat /\ MaxBeats \in Nat /\ MaxFaults \in Nat
  /\ "create" \notin Executes

VARIABLES log, job, stalls, caller, canceller, pc, seen, ok, error, inFlight, crashes, faults

api    == <<caller, canceller>>
queue  == <<job, stalls>>
memory == <<seen, ok, error>>
bounds == <<crashes, faults>>
vars   == <<log, queue, api, pc, memory, inFlight, bounds>>

Caller == {"create"} \cup Executes

-----------------------------------------------------------------------------
(* Events.  arg is the new status, the verdict, the source of a cancel     *)
(* request, or the node active at a cancellation or timeout.               *)

Event(t, a) == [type |-> t, arg |-> a, node |-> 0]
NodeEvent(t, n) == [type |-> t, arg |-> "", node |-> n]
Status(s) == Event("RUN_STATUS_CHANGED", s)

Verdict(b) == IF b THEN "ok" ELSE "failed"

Rows(t) == {i \in DOMAIN log : log[i].type = t}
Logged(t) == Rows(t) # {}
LoggedAs(t, a) == \E i \in Rows(t) : log[i].arg = a

\* cancelled_at_node and active_node are z.string().optional(): zRunEvent
\* rejects the null that stands for no node, and append throws.
Accepts(e) == e.type \in {"RUN_CANCELLED", "RUN_TIMEOUT_REACHED"} => e.arg # "null"

\* keyForRunEvent and keyForNewEvent.
Key(e) == IF e.type = "RUN_STATUS_CHANGED" THEN <<e.type, e.arg>> ELSE <<e.type, "">>

IsRunCancelled   == Logged("RUN_CANCEL_REQUESTED")
HasTerminalEvent == Logged("RUN_COMPLETED") \/ Logged("RUN_CANCELLED")

LastOf(S) == CHOOSE i \in S : \A j \in S : j <= i

\* getRunCompletedOk, for a log with a terminal event.
RunCompletedOk ==
  log[LastOf(Rows("RUN_COMPLETED") \cup Rows("RUN_CANCELLED"))] = Event("RUN_COMPLETED", "ok")

\* deriveRunStatusFromEvents.
DerivedStatus(l) ==
  LET changes == {i \in DOMAIN l : l[i].type = "RUN_STATUS_CHANGED"}
      ends    == {i \in DOMAIN l : l[i].type = "RUN_COMPLETED"}
  IN  IF changes # {} THEN l[LastOf(changes)].arg
      ELSE IF \E i \in DOMAIN l : l[i].type = "RUN_ENQUEUED" THEN "QUEUED"
      ELSE IF ends = {} THEN "CREATED"
      ELSE IF l[LastOf(ends)].arg = "ok" THEN "SUCCEEDED" ELSE "FAILED"

\* classifyFailedRun: the first class that applies.  Nothing in the repository
\* appends RUN_STALE_DETECTED, the chain of this model is valid, and each of
\* its nodes fails once: so STALE, VALIDATION_ERROR and DEAD_LETTER do not occur.
FailureClass ==
  IF IsRunCancelled \/ Logged("RUN_CANCELLED") THEN "CANCELLED"
  ELSE IF Logged("RUN_STALE_DETECTED") THEN "STALE"
  ELSE IF Logged("RUN_TIMEOUT_REACHED") THEN "TRANSIENT"
  ELSE IF LoggedAs("POLICY_EVALUATED", "BLOCKED") \/ Logged("VALIDATION_ERROR") THEN "PERMANENT"
  ELSE IF \E i, j \in Rows("NODE_FAILED") : i # j /\ log[i].node = log[j].node THEN "DEAD_LETTER"
  ELSE "TRANSIENT"

\* getActiveNodeId: a node that started and neither succeeded nor failed.
ActiveNode ==
  IF \E i \in Rows("NODE_STARTED") :
       \A j \in Rows("NODE_SUCCEEDED") \cup Rows("NODE_FAILED") : log[j].node # log[i].node
  THEN "active" ELSE "null"

-----------------------------------------------------------------------------
(* Calls that may fail.  A failed append may have been committed.          *)

Fault == faults < MaxFaults /\ faults' = faults + 1

Write(e) == Accepts(e) /\ log' = Append(log, e) /\ UNCHANGED faults
WriteFails(e) == \/ Accepts(e) /\ Fault /\ log' \in {log, Append(log, e)}
                 \/ ~Accepts(e) /\ UNCHANGED <<log, faults>>
NoWrite == UNCHANGED <<log, faults>>

-----------------------------------------------------------------------------
Init ==
  /\ log = <<>>
  /\ job = "absent" /\ stalls = 0
  /\ caller = [c \in Caller |-> "idle"]
  /\ canceller = [c \in Cancels |-> "idle"]
  /\ pc = "off" /\ seen = {} /\ ok = FALSE /\ error = "none" /\ inFlight = FALSE
  /\ crashes = 0 /\ faults = 0

-----------------------------------------------------------------------------
(* The API.  A request that fails at a call ends there: so does one whose  *)
(* process dies.                                                           *)

CallerGoes(c, s) == caller' = [caller EXCEPT ![c] = s]
WorkerAlone == UNCHANGED <<pc, memory, inFlight, crashes>>

\* POST /runs.
Create ==
  /\ caller["create"] = "idle"
  /\ \/ Write(Event("RUN_CREATED", "")) /\ CallerGoes("create", "record")
     \/ WriteFails(Event("RUN_CREATED", "")) /\ CallerGoes("create", "done")
  /\ UNCHANGED <<queue, canceller>> /\ WorkerAlone

\* The body of the request says whether to execute the run at once.
RecordMessage ==
  /\ caller["create"] = "record"
  /\ LET e == Event("USER_MESSAGE_RECORDED", "")
     IN  \/ Write(e) /\ \E next \in {"queue", "done"} : CallerGoes("create", next)
         \/ WriteFails(e) /\ CallerGoes("create", "done")
  /\ UNCHANGED <<queue, canceller>> /\ WorkerAlone

\* POST /runs/:runId/execute reads the log: it answers with the status of a
\* run that is under way, 404 or 409 for one that is not recorded.
Execute(c) ==
  /\ caller[c] = "idle" /\ c \in Executes
  /\ \/ /\ CallerGoes(c, IF /\ DerivedStatus(log) = "CREATED"
                            /\ Logged("RUN_CREATED") /\ Logged("USER_MESSAGE_RECORDED")
                         THEN "queue" ELSE "done")
        /\ UNCHANGED faults
     \/ Fault /\ CallerGoes(c, "done")
  /\ UNCHANGED <<log, queue, canceller>> /\ WorkerAlone

MarkQueued(c) ==
  /\ caller[c] = "queue"
  /\ \/ Write(Status("QUEUED")) /\ CallerGoes(c, "add")
     \/ WriteFails(Status("QUEUED")) /\ CallerGoes(c, "done")
  /\ UNCHANGED <<queue, canceller>> /\ WorkerAlone

\* The run id is the job id: the queue ignores a second job.
AddJob(c) ==
  /\ caller[c] = "add"
  /\ \/ /\ job' = IF job = "absent" THEN "waiting" ELSE job
        /\ CallerGoes(c, "announce")
        /\ UNCHANGED faults
     \/ Fault /\ CallerGoes(c, "done") /\ UNCHANGED job
  /\ UNCHANGED <<log, stalls, canceller>> /\ WorkerAlone

Announce(c) ==
  /\ caller[c] = "announce"
  /\ Write(Event("RUN_ENQUEUED", "")) \/ WriteFails(Event("RUN_ENQUEUED", ""))
  /\ CallerGoes(c, "done")
  /\ UNCHANGED <<queue, canceller>> /\ WorkerAlone

\* POST /runs/:runId/cancel reads the log: there is a run, and it has neither
\* ended nor been cancelled.
Cancel(c) ==
  /\ canceller[c] = "idle"
  /\ canceller' = [canceller EXCEPT ![c] =
       IF log # <<>> /\ ~HasTerminalEvent /\ ~IsRunCancelled THEN "append" ELSE "done"]
  /\ UNCHANGED <<log, queue, caller, faults>> /\ WorkerAlone

RequestCancel(c) ==
  /\ canceller[c] = "append"
  /\ LET e == Event("RUN_CANCEL_REQUESTED", "API") IN Write(e) \/ WriteFails(e)
  /\ canceller' = [canceller EXCEPT ![c] = "done"]
  /\ UNCHANGED <<queue, caller>> /\ WorkerAlone

-----------------------------------------------------------------------------
(* The queue and the life of the worker.  A job whose worker died is given *)
(* out again while its stall count allows, and fails after that; a job     *)
(* whose handler threw has no further attempt.                             *)

ApiAlone == UNCHANGED api
Forget   == seen' = {} /\ ok' = FALSE /\ error' = "none"

Take ==
  /\ pc = "off" /\ job = "waiting"
  /\ job' = "active" /\ pc' = "check"
  /\ UNCHANGED <<log, stalls, memory, inFlight, bounds>> /\ ApiAlone

Acknowledge ==
  /\ pc \in {"return", "throw"}
  /\ job' = IF pc = "return" THEN "completed" ELSE "failed"
  /\ pc' = "off" /\ Forget
  /\ UNCHANGED <<log, stalls, inFlight, bounds>> /\ ApiAlone

Crash ==
  /\ pc # "off" /\ crashes < MaxCrashes
  /\ crashes' = crashes + 1
  /\ pc' = "off" /\ Forget /\ inFlight' = FALSE
  /\ IF stalls < MaxStalls THEN job' = "waiting" /\ stalls' = stalls + 1
     ELSE job' = "failed" /\ UNCHANGED stalls
  /\ UNCHANGED <<log, faults>> /\ ApiAlone

-----------------------------------------------------------------------------
(* The job handler.                                                        *)

Goes(s) == pc' = s
Raises(e) == error' = e /\ pc' = "catch"
HandlerAlone == UNCHANGED <<queue, inFlight, crashes>> /\ ApiAlone

\* Mutant: the handler of a redelivered job does not look for an end.
CheckCancelOnly ==
  /\ pc = "check"
  /\ IF IsRunCancelled THEN Goes("return") /\ UNCHANGED seen
     ELSE seen' = {Key(log[i]) : i \in DOMAIN log} /\ Goes("running")
  /\ NoWrite /\ UNCHANGED <<ok, error>> /\ HandlerAlone

\* Mutant: a job that was begun before is taken for a duplicate.
CheckBegun ==
  /\ pc = "check"
  /\ IF HasTerminalEvent \/ IsRunCancelled \/ Logged("WORKER_STARTED")
     THEN Goes("return") /\ UNCHANGED seen
     ELSE seen' = {Key(log[i]) : i \in DOMAIN log} /\ Goes("running")
  /\ NoWrite /\ UNCHANGED <<ok, error>> /\ HandlerAlone

\* A run that has ended, or that was cancelled, is not executed: the handler
\* returns and logs nothing.
Check ==
  /\ pc = "check"
  /\ \/ /\ IF HasTerminalEvent THEN ok' = RunCompletedOk /\ Goes("return") /\ UNCHANGED seen
           ELSE /\ UNCHANGED ok
                /\ IF IsRunCancelled THEN Goes("return") /\ UNCHANGED seen
                   ELSE seen' = {Key(log[i]) : i \in DOMAIN log} /\ Goes("running")
        /\ NoWrite
     \/ Fault /\ Goes("throw") /\ UNCHANGED <<log, seen, ok>>
  /\ UNCHANGED error /\ HandlerAlone

\* Mutant: appendOnce appends again.
AppendAgain(e, next) ==
  /\ \/ Write(e) /\ seen' = seen \cup {Key(e)} /\ Goes(next)
     \/ WriteFails(e) /\ UNCHANGED seen /\ Goes("throw")

\* Mutant: appendOnce adds the key before it appends.
RememberFirst(e, next) ==
  IF Key(e) \in seen THEN NoWrite /\ UNCHANGED seen /\ Goes(next)
  ELSE /\ seen' = seen \cup {Key(e)}
       /\ \/ Write(e) /\ Goes(next)
          \/ WriteFails(e) /\ Goes("throw")

AppendOnce(e, next) ==
  IF Key(e) \in seen THEN NoWrite /\ UNCHANGED seen /\ Goes(next)
  ELSE \/ Write(e) /\ seen' = seen \cup {Key(e)} /\ Goes(next)
       \/ WriteFails(e) /\ UNCHANGED seen /\ Goes("throw")

MarkRunning ==
  /\ pc = "running"
  /\ AppendOnce(Status("RUNNING"), "started")
  /\ UNCHANGED <<ok, error>> /\ HandlerAlone

MarkStarted ==
  /\ pc = "started"
  /\ AppendOnce(Event("WORKER_STARTED", ""), IF PolicyGate THEN "policy" ELSE "timeout")
  /\ UNCHANGED <<ok, error>> /\ HandlerAlone

\* A failure to log the verdict is not fatal, and the run goes on.
EvaluatePolicy ==
  /\ pc = "policy"
  /\ \E v \in {"ALLOWED", "BLOCKED"} :
       LET e == Event("POLICY_EVALUATED", v)
       IN  \/ Write(e) /\ Goes(IF v = "BLOCKED" THEN "block" ELSE "timeout")
           \/ WriteFails(e) /\ Goes("timeout")
  /\ UNCHANGED memory /\ HandlerAlone

\* The same catch takes a failure to log the cancel request for a failed
\* evaluation: the run that was blocked goes on.
Block ==
  /\ pc = "block"
  /\ LET e == Event("RUN_CANCEL_REQUESTED", "POLICY")
     IN  \/ Write(e) /\ Raises("controlled")
         \/ WriteFails(e) /\ Goes("timeout") /\ UNCHANGED error
  /\ UNCHANGED <<seen, ok>> /\ HandlerAlone

\* The time since the first WORKER_STARTED may have exceeded the limit,
\* most likely in a redelivered job.  The event of that is logged with
\* active_node null, which is an error of its own.
CheckTimeout ==
  /\ pc = "timeout"
  /\ \/ NoWrite /\ Goes("cancelled?") /\ UNCHANGED error
     \/ RunTimeout /\ Fault /\ UNCHANGED log /\ Raises("runtime")
     \/ RunTimeout /\ WriteFails(Event("RUN_TIMEOUT_REACHED", "null")) /\ Raises("runtime")
  /\ UNCHANGED <<seen, ok>> /\ HandlerAlone

\* Mutant: the request to cancel is looked for only when the job is taken.
SkipCancelCheck ==
  /\ pc = "cancelled?"
  /\ NoWrite /\ Goes("dag")
  /\ UNCHANGED memory /\ HandlerAlone

CheckCancel ==
  /\ pc = "cancelled?"
  /\ \/ /\ NoWrite
        /\ IF IsRunCancelled THEN Raises("controlled") ELSE Goes("dag") /\ UNCHANGED error
     \/ Fault /\ UNCHANGED log /\ Raises("runtime")
  /\ UNCHANGED <<seen, ok>> /\ HandlerAlone

-----------------------------------------------------------------------------
(* executeDag, on a chain.  A failed node ends it.                         *)

Succeeded == Cardinality({log[i].node : i \in Rows("NODE_SUCCEEDED")})
DagEnded  == Logged("NODE_FAILED") \/ Succeeded = NumNodes

DagWrites(e) ==
  /\ pc = "dag" /\ ~Logged("DAG_COMPLETED")
  /\ \/ Write(e) /\ UNCHANGED <<pc, error>>
     \/ WriteFails(e) /\ Raises("runtime")
  /\ UNCHANGED <<seen, ok>> /\ HandlerAlone

StartNode ==
  /\ ~DagEnded /\ ActiveNode = "null"
  /\ DagWrites(NodeEvent("NODE_STARTED", Succeeded + 1))

EndNode ==
  /\ ActiveNode = "active"
  /\ \E t \in {"NODE_SUCCEEDED", "NODE_FAILED"} : DagWrites(NodeEvent(t, Succeeded + 1))

CompleteDag ==
  /\ DagEnded
  /\ DagWrites(Event("DAG_COMPLETED", Verdict(Succeeded = NumNodes)))

\* Mutant: a DAG that is found completed is taken for a good one.
ReturnOk ==
  /\ pc = "dag" /\ Logged("DAG_COMPLETED")
  /\ ok' = TRUE
  /\ Goes("reward")
  /\ NoWrite /\ UNCHANGED <<seen, error>> /\ HandlerAlone

ReturnFromDag ==
  /\ pc = "dag" /\ Logged("DAG_COMPLETED")
  /\ ok' = LoggedAs("DAG_COMPLETED", "ok")
  /\ Goes("reward")
  /\ NoWrite /\ UNCHANGED <<seen, error>> /\ HandlerAlone

-----------------------------------------------------------------------------
(* runRewardBlock.  Its failure is not fatal, that of the read before it   *)
(* is: the run fails though the DAG has succeeded.                         *)

BeginReward ==
  /\ pc = "reward"
  /\ \/ /\ NoWrite /\ UNCHANGED error
        /\ Goes(IF Logged("REWARD_COMPUTED") THEN "terminal" ELSE "compute")
     \/ Fault /\ UNCHANGED log /\ Raises("runtime")
  /\ UNCHANGED <<seen, ok>> /\ HandlerAlone

ComputeReward ==
  /\ pc = "compute"
  /\ LET e == Event("REWARD_COMPUTED", "")
     IN  \/ Write(e) /\ Goes("trust")
         \/ WriteFails(e) /\ Goes("terminal")
  /\ UNCHANGED memory /\ HandlerAlone

UpdateTrust ==
  /\ pc = "trust"
  /\ LET e == Event("TRUST_UPDATED", "") IN Write(e) \/ WriteFails(e)
  /\ Goes("terminal")
  /\ UNCHANGED memory /\ HandlerAlone

-----------------------------------------------------------------------------
(* The end of the handler.                                                 *)

Catch ==
  /\ pc = "catch"
  /\ ok' = FALSE
  /\ IF error = "controlled" THEN NoWrite /\ Goes("terminal")
     ELSE LET e == Event("RUNTIME_ERROR", "")
          IN  \/ Write(e) /\ Goes("terminal")
              \/ WriteFails(e) /\ Goes("throw")
  /\ UNCHANGED <<seen, error>> /\ HandlerAlone

CheckTerminal ==
  /\ pc = "terminal"
  /\ \/ /\ NoWrite
        /\ Goes(IF HasTerminalEvent THEN "return" ELSE IF ok THEN "final" ELSE "classify")
     \/ Fault /\ UNCHANGED log /\ Goes("throw")
  /\ UNCHANGED memory /\ HandlerAlone

Classify ==
  /\ pc = "classify"
  /\ LET e == Event("RUN_CLASSIFIED_FAILED", FailureClass) IN Write(e) \/ WriteFails(e)
  /\ Goes("final")
  /\ UNCHANGED memory /\ HandlerAlone

\* One more look for a request to cancel.
FinalCheck ==
  /\ pc = "final"
  /\ \/ /\ NoWrite
        /\ Goes(IF IsRunCancelled /\ ~Logged("RUN_CANCELLED") THEN "cancel" ELSE "status")
     \/ Fault /\ UNCHANGED log /\ Goes("throw")
  /\ UNCHANGED memory /\ HandlerAlone

MarkCancelled ==
  /\ pc = "cancel"
  /\ LET e == Event("RUN_CANCELLED", ActiveNode)
     IN  \/ Write(e) /\ ok' = FALSE /\ Goes("status")
         \/ WriteFails(e) /\ UNCHANGED ok /\ Goes("throw")
  /\ UNCHANGED <<seen, error>> /\ HandlerAlone

\* Mutant: the run completes before its status is final.
CompleteFirst ==
  /\ pc = "status"
  /\ AppendOnce(Event("RUN_COMPLETED", Verdict(ok)), "complete")
  /\ UNCHANGED <<ok, error>> /\ HandlerAlone

MarkEnd ==
  /\ pc = "status"
  /\ AppendOnce(Status(IF ok THEN "SUCCEEDED" ELSE "FAILED"), "complete")
  /\ UNCHANGED <<ok, error>> /\ HandlerAlone

Complete ==
  /\ pc = "complete"
  /\ AppendOnce(Event("RUN_COMPLETED", Verdict(ok)), "return")
  /\ UNCHANGED <<ok, error>> /\ HandlerAlone

-----------------------------------------------------------------------------
(* The heartbeat of startRunHeartbeat: a timer that runs from              *)
(* WORKER_STARTED to the end of the try block, whatever the handler waits  *)
(* for, and that is stopped before the final events.  It begins no append  *)
(* while another is under way, but stopping it does not wait for that one: *)
(* its row may come after RUN_COMPLETED.  A failed append is forgotten.    *)

Heartbeat == Event("WORKER_HEARTBEAT", "")

Beating == {"policy", "block", "timeout", "cancelled?", "dag", "reward", "compute", "trust", "catch"}

Beat ==
  /\ pc \in Beating /\ ~inFlight
  /\ Cardinality(Rows("WORKER_HEARTBEAT")) < MaxBeats
  /\ inFlight' = TRUE
  /\ UNCHANGED <<log, queue, pc, memory, bounds>> /\ ApiAlone

EndBeat ==
  /\ inFlight /\ inFlight' = FALSE
  /\ Write(Heartbeat) \/ WriteFails(Heartbeat)
  /\ UNCHANGED <<queue, pc, memory, crashes>> /\ ApiAlone

-----------------------------------------------------------------------------
ApiStep ==
  \/ Create \/ RecordMessage
  \/ \E c \in Caller : Execute(c) \/ MarkQueued(c) \/ AddJob(c) \/ Announce(c)
  \/ \E c \in Cancels : Cancel(c) \/ RequestCancel(c)

WorkerStep ==
  \/ Take \/ Acknowledge
  \/ Check \/ MarkRunning \/ MarkStarted \/ EvaluatePolicy \/ Block
  \/ CheckTimeout \/ CheckCancel
  \/ StartNode \/ EndNode \/ CompleteDag \/ ReturnFromDag
  \/ BeginReward \/ ComputeReward \/ UpdateTrust
  \/ Catch \/ CheckTerminal \/ Classify \/ FinalCheck
  \/ MarkCancelled \/ MarkEnd \/ Complete

\* Every request was answered, and the queue has no job to give out.
Quiet ==
  /\ \A c \in Caller : caller[c] = "done"
  /\ \A c \in Cancels : canceller[c] = "done"
  /\ pc = "off" /\ job # "waiting"

Done == Quiet /\ UNCHANGED vars

Next == ApiStep \/ WorkerStep \/ Beat \/ EndBeat \/ Crash \/ Done

Spec == Init /\ [][Next]_vars

\* The worker process is restarted when it dies, and each of its calls returns.
FairSpec == Spec /\ WF_vars(WorkerStep)

-----------------------------------------------------------------------------
(* Properties.                                                             *)

StatusName == {"QUEUED", "RUNNING", "SUCCEEDED", "FAILED"}

EventSet ==
  [type : {"RUN_CREATED", "USER_MESSAGE_RECORDED", "RUN_ENQUEUED", "WORKER_STARTED",
           "REWARD_COMPUTED", "TRUST_UPDATED", "RUNTIME_ERROR", "WORKER_HEARTBEAT"},
   arg : {""}, node : {0}]
  \cup [type : {"RUN_STATUS_CHANGED"}, arg : StatusName, node : {0}]
  \cup [type : {"RUN_COMPLETED", "DAG_COMPLETED"}, arg : {"ok", "failed"}, node : {0}]
  \cup [type : {"RUN_CANCEL_REQUESTED"}, arg : {"API", "POLICY"}, node : {0}]
  \cup [type : {"RUN_CANCELLED"}, arg : {"active"}, node : {0}]
  \cup [type : {"POLICY_EVALUATED"}, arg : {"ALLOWED", "BLOCKED"}, node : {0}]
  \cup [type : {"RUN_CLASSIFIED_FAILED"}, node : {0},
          arg : {"CANCELLED", "STALE", "TRANSIENT", "PERMANENT", "DEAD_LETTER"}]
  \cup [type : {"NODE_STARTED", "NODE_SUCCEEDED", "NODE_FAILED"}, arg : {""}, node : 1..NumNodes]

Control == {"off", "check", "running", "started", "policy", "block", "timeout",
            "cancelled?", "dag", "reward", "compute", "trust", "catch", "terminal",
            "classify", "final", "cancel", "status", "complete", "return", "throw"}

\* Every variable keeps its type.
TypeOK ==
  /\ log \in Seq(EventSet)
  /\ job \in {"absent", "waiting", "active", "completed", "failed"}
  /\ stalls \in 0..MaxStalls
  /\ caller \in [Caller -> {"idle", "record", "queue", "add", "announce", "done"}]
  /\ canceller \in [Cancels -> {"idle", "append", "done"}]
  /\ pc \in Control
  /\ \A k \in seen : \E i \in DOMAIN log : Key(log[i]) = k
  /\ ok \in BOOLEAN
  /\ error \in {"none", "controlled", "runtime"}
  /\ inFlight \in BOOLEAN
  /\ crashes \in 0..MaxCrashes
  /\ faults \in 0..MaxFaults

AtMostOne(S) == \A i, j \in S : i = j

\* "exactly 1 RUN_COMPLETED event" and one WORKER_STARTED, after crashes and
\* redeliveries at any point: and one end of the DAG, one reward, one update
\* of the trust.
LoggedOnce ==
  \A t \in {"WORKER_STARTED", "RUN_COMPLETED", "RUN_CANCELLED", "DAG_COMPLETED",
            "REWARD_COMPUTED", "TRUST_UPDATED"} : AtMostOne(Rows(t))

DagEvents == {"NODE_STARTED", "NODE_SUCCEEDED", "NODE_FAILED"}

\* A run that completes with ok has a DAG that did, with all its events before
\* that end; whoever asked to cancel the run did so after it; no RUN_CANCELLED
\* is logged; and the run was rewarded unless a call failed or the worker died.
OkIsEarned ==
  LoggedAs("RUN_COMPLETED", "ok") =>
    /\ \E d \in Rows("DAG_COMPLETED") :
         /\ log[d].arg = "ok"
         /\ \A i \in DOMAIN log : log[i].type \in DagEvents => i < d
         /\ \A c \in Rows("RUN_CANCEL_REQUESTED") : d < c
    /\ ~Logged("RUN_CANCELLED")
    /\ Logged("TRUST_UPDATED") \/ faults > 0 \/ crashes > 0

\* The status that GET /status derives is the verdict once the run has
\* completed, unless two requests queued the run.
StatusIsVerdict ==
  Logged("RUN_COMPLETED") /\ AtMostOne({i \in DOMAIN log : log[i] = Status("QUEUED")}) =>
    DerivedStatus(log) = IF LoggedAs("RUN_COMPLETED", "ok") THEN "SUCCEEDED" ELSE "FAILED"

\* A run cancelled before its worker started starts no node, and neither does
\* one that the policy gate has cancelled, whoever takes the job next.
CancelHolds ==
  \A i \in Rows("RUN_CANCEL_REQUESTED"), j \in Rows("NODE_STARTED") :
    i < j => log[i].arg = "API" /\ \E s \in Rows("WORKER_STARTED") : s < i

\* Once the run has completed no delivery of its job appends anything, and no
\* heartbeat begins: what may still be logged is the heartbeat that was under
\* way, and the event of an API request that read the log before.
WorkerLeavesTheEnd ==
  [][Logged("RUN_COMPLETED") =>
       /\ inFlight' => inFlight
       /\ log' # log => UNCHANGED <<pc, queue>>]_vars

\* A job that was queued runs to RUN_COMPLETED, unless it was cancelled, a call
\* failed, or its worker died more often than the queue allows.
EventuallyCompletes ==
  job = "waiting" ~>
    \/ Logged("RUN_COMPLETED")
    \/ IsRunCancelled \/ faults > 0 \/ crashes > MaxStalls

-----------------------------------------------------------------------------
(* What the repository says of runs, and the code does not do.             *)

JobEnded == pc = "off" /\ job \in {"completed", "failed"}

\* "cancelled runs emit RUN_CANCELLED events" (docs/SMOKE_TESTS.md:80): a run
\* that was cancelled and did not complete.
CancelledRunsSaySo ==
  JobEnded /\ IsRunCancelled => Logged("RUN_CANCELLED") \/ Logged("RUN_COMPLETED")

\* "if already enqueued/running/done, return current status with no side
\* effects" (runs.ts:227): a run is queued once.
QueuedOnce == AtMostOne({i \in DOMAIN log : log[i] = Status("QUEUED")})

=============================================================================
