------------------------- MODULE RunLifecycleProofs -------------------------
(***************************************************************************)
(* Theorems about RunLifecycle, for every number of requests and nodes,    *)
(* with and without policy gate and timeout, and for every bound on        *)
(* redeliveries, crashes and failed calls.                                 *)
(***************************************************************************)
EXTENDS RunLifecycle, FiniteSetTheorems, TLAPS

\* Where the handler works on the run: past Check and before it returns or throws.
Live == Control \ {"off", "check", "return", "throw"}

\* An ended run is not worked on: Check sends its job back.
EndInv ==
  /\ Logged("RUN_COMPLETED") => pc \notin Live
  /\ Logged("RUN_CANCELLED") => pc \notin Live \ {"status", "complete"}

\* What MarkStarted knows and leaves: appendOnce has the key of every WORKER_STARTED.
StartInv ==
  /\ Logged("WORKER_STARTED") /\ pc \in Live => <<"WORKER_STARTED", "">> \in seen
  /\ pc \in Live \ {"running", "started"} => Logged("WORKER_STARTED")

\* No call has failed and no worker has died.
Clean == crashes = 0 /\ faults = 0

\* The job is active as long as a handler runs, and before the first execution nothing
\* was rewarded.
JobInv ==
  /\ pc # "off" <=> job = "active"
  /\ Logged("REWARD_COMPUTED") /\ Clean =>
       \/ pc \in {"trust", "catch", "terminal", "classify", "final", "cancel", "status",
                  "complete", "return", "throw"}
       \/ pc = "off" /\ job \in {"completed", "failed"}

\* Reward and trust: each is computed where it is not logged yet.
RewardInv ==
  /\ pc = "compute" => ~Logged("REWARD_COMPUTED")
  /\ pc = "trust" => Logged("REWARD_COMPUTED") /\ ~Logged("TRUST_UPDATED")
  /\ Logged("TRUST_UPDATED") => Logged("REWARD_COMPUTED")

\* What ok stands for while the handler goes on with it.
OkInv ==
  /\ ok = TRUE => pc \in {"reward", "compute", "trust", "catch", "terminal", "final", "cancel",
                   "status", "complete", "return", "throw"}
  /\ ok = TRUE /\ pc \in Live => LoggedAs("DAG_COMPLETED", "ok")
  /\ ok = TRUE /\ pc \in {"status", "complete"} => ~Logged("RUN_CANCELLED")
  /\ ok = TRUE /\ pc \in {"terminal", "final", "cancel", "status", "complete"} /\ Clean =>
       Logged("TRUST_UPDATED")

\* In a DAG that executes, whoever asked to cancel the run came after its start.
CancelInv ==
  pc = "dag" => \A i \in Rows("RUN_CANCEL_REQUESTED") :
                  log[i].arg = "API" /\ \E s \in Rows("WORKER_STARTED") : s < i

HandlerInv == EndInv /\ StartInv /\ JobInv /\ RewardInv /\ OkInv

\* What an ok stands for, but for the order of the events.
Rewarded ==
  LoggedAs("RUN_COMPLETED", "ok") =>
    /\ LoggedAs("DAG_COMPLETED", "ok")
    /\ ~Logged("RUN_CANCELLED")
    /\ Logged("TRUST_UPDATED") \/ faults > 0 \/ crashes > 0

\* The order: the end of a DAG comes after its other events, and a run that is about to
\* complete with ok, or has, was cancelled after that end if at all.
CancelledLate == \A d \in Rows("DAG_COMPLETED"), c \in Rows("RUN_CANCEL_REQUESTED") : d < c

SaysOk == ok = TRUE /\ pc \in {"status", "complete"}

OkOrder ==
  /\ \A d \in Rows("DAG_COMPLETED") : \A i \in DOMAIN log : log[i].type \in DagEvents => i < d
  /\ SaysOk \/ LoggedAs("RUN_COMPLETED", "ok") => CancelledLate

\* The rows of a final status and of QUEUED, and the last of all status rows.
Finals == {i \in Rows("RUN_STATUS_CHANGED") : log[i].arg \in {"SUCCEEDED", "FAILED"}}
IsLastStatus(r) == r \in Rows("RUN_STATUS_CHANGED") /\ \A j \in Rows("RUN_STATUS_CHANGED") : j <= r
EndStatus(b) == IF b THEN "SUCCEEDED" ELSE "FAILED"
Queued == {i \in DOMAIN log : log[i] = Status("QUEUED")}

\* Where MarkEnd is still to come, now or in a redelivery.
BeforeEnd == job = "waiting" \/ pc \in (Live \cup {"check"}) \ {"complete"}

\* Who queues, runs and ends the run.
QueueInv ==
  /\ \A c \in Caller : caller[c] \in {"add", "announce"} => Queued # {}
  /\ job # "absent" => Queued # {}
  /\ Rows("RUN_STATUS_CHANGED") # Queued => job # "absent"
  /\ pc \in Live \ {"running"} => LoggedAs("RUN_STATUS_CHANGED", "RUNNING")
  /\ pc \in Live => \A s \in StatusName \ {"QUEUED"} :
       LoggedAs("RUN_STATUS_CHANGED", s) => <<"RUN_STATUS_CHANGED", s>> \in seen
  /\ Finals # {} => LoggedAs("RUN_STATUS_CHANGED", "RUNNING")

\* QUEUED, RUNNING and a final status come in this order; an execution adds a final
\* status at most, and a queue that redelivers once allows two executions.
OrderInv ==
  /\ AtMostOne(Queued) => \A i \in Queued, j \in Rows("RUN_STATUS_CHANGED") \ Queued : i < j
  /\ \A i \in Rows("RUN_STATUS_CHANGED"), j \in Finals : log[i].arg = "RUNNING" => i < j
  /\ stalls = 0 => AtMostOne(Finals)
  /\ BeforeEnd => AtMostOne(Finals) /\ (stalls = 0 => Finals = {})

LastSays(s) == \E r \in Finals : IsLastStatus(r) /\ log[r].arg = s

VerdictInv ==
  AtMostOne(Queued) =>
    /\ pc = "complete" => LastSays(EndStatus(ok))
    /\ \A v \in Rows("RUN_COMPLETED") : LastSays(EndStatus(log[v].arg = "ok"))

StatusInv == QueueInv /\ OrderInv /\ VerdictInv

-----------------------------------------------------------------------------
(* Types.                                                                  *)

SeenIsLogged == \A k \in seen : \E i \in DOMAIN log : Key(log[i]) = k

\* Write and WriteFails leave the log alone or append the event, and count the faults.
LEMMA Writes ==
  ASSUME TypeOK, NEW e, Write(e) \/ WriteFails(e)
  PROVE  /\ log' \in {log, Append(log, e)} /\ faults' \in 0..MaxFaults
         /\ log' # log => Accepts(e)
         /\ UNCHANGED faults \/ Fault
         /\ Write(e) => log' # log
BY LifecycleAssumption DEF Write, WriteFails, Fault, TypeOK

LEMMA LogGrows ==
  ASSUME TypeOK, NEW e \in EventSet, log' \in {log, Append(log, e)}
  PROVE  /\ log' \in Seq(EventSet)
         /\ seen' \subseteq seen => SeenIsLogged'
         /\ log' # log /\ seen' \subseteq seen \cup {Key(e)} => SeenIsLogged'
<1>1. log \in Seq(EventSet) /\ SeenIsLogged
  BY DEF TypeOK, SeenIsLogged
<1>2. CASE log' = log
  BY <1>1, <1>2 DEF SeenIsLogged
<1>3. CASE log' = Append(log, e)
  <2>1. /\ Append(log, e) \in Seq(EventSet) /\ DOMAIN log' = 1 .. Len(log) + 1
        /\ Len(log) \in Nat /\ DOMAIN log = 1 .. Len(log)
        /\ \A i \in DOMAIN log : log'[i] = log[i]
        /\ log'[Len(log) + 1] = e
    BY <1>1, <1>3
  <2>2. ASSUME NEW k \in seen PROVE \E i \in DOMAIN log' : Key(log'[i]) = k
    <3>1. PICK i \in DOMAIN log : Key(log[i]) = k
      BY <1>1, <2>2 DEF SeenIsLogged
    <3> QED BY <2>1, <3>1
  <2>3. Len(log) + 1 \in DOMAIN log' /\ Key(log'[Len(log) + 1]) = Key(e)
    BY <2>1
  <2>4. seen' \subseteq seen \cup {Key(e)} => SeenIsLogged'
    BY <2>2, <2>3 DEF SeenIsLogged
  <2> QED BY <1>3, <2>1, <2>4
<1> QED BY <1>2, <1>3

\* Every event that an action appends is one of EventSet.
LEMMA Events ==
  /\ \A t \in {"RUN_CREATED", "USER_MESSAGE_RECORDED", "RUN_ENQUEUED", "WORKER_STARTED",
               "REWARD_COMPUTED", "TRUST_UPDATED", "RUNTIME_ERROR", "WORKER_HEARTBEAT"} :
       Event(t, "") \in EventSet
  /\ \A s \in StatusName : Status(s) \in EventSet
  /\ \A b \in BOOLEAN : Event("RUN_COMPLETED", Verdict(b)) \in EventSet
                        /\ Event("DAG_COMPLETED", Verdict(b)) \in EventSet
  /\ \A a \in {"API", "POLICY"} : Event("RUN_CANCEL_REQUESTED", a) \in EventSet
  /\ Event("RUN_CANCELLED", "active") \in EventSet
  /\ \A v \in {"ALLOWED", "BLOCKED"} : Event("POLICY_EVALUATED", v) \in EventSet
  /\ Event("RUN_CLASSIFIED_FAILED", FailureClass) \in EventSet
  /\ \A t \in {"NODE_STARTED", "NODE_SUCCEEDED", "NODE_FAILED"}, n \in 1..NumNodes :
       NodeEvent(t, n) \in EventSet
<1>1. FailureClass \in {"CANCELLED", "STALE", "TRANSIENT", "PERMANENT", "DEAD_LETTER"}
  BY DEF FailureClass
<1> QED BY <1>1 DEF EventSet, Event, Status, NodeEvent, Verdict, StatusName

\* The nodes that succeeded are counted; while one is to start, or is active, another
\* is left.
LEMMA NodeIsLeft ==
  ASSUME TypeOK, ~DagEnded \/ (ActiveNode = "active" /\ ~Logged("DAG_COMPLETED"))
  PROVE  Succeeded + 1 \in 1..NumNodes
<1> DEFINE S == {log[i].node : i \in Rows("NODE_SUCCEEDED")}
<1>1. \A i \in DOMAIN log : log[i] \in EventSet
  BY DEF TypeOK
<1>2. S \subseteq 1..NumNodes
  BY <1>1 DEF Rows, EventSet
<1>3. IsFiniteSet(1..NumNodes) /\ Cardinality(1..NumNodes) = NumNodes
  BY FS_Interval, LifecycleAssumption
<1>4. /\ IsFiniteSet(S) /\ Cardinality(S) \in Nat /\ Cardinality(S) <= NumNodes
      /\ S # 1..NumNodes => Cardinality(S) # NumNodes
  BY <1>2, <1>3, FS_Subset, FS_CardinalityType
<1>5. CASE ~DagEnded
  BY <1>4, <1>5, LifecycleAssumption DEF DagEnded, Succeeded
<1>6. CASE ActiveNode = "active"
  <2>1. PICK i \in Rows("NODE_STARTED") :
          \A j \in Rows("NODE_SUCCEEDED") \cup Rows("NODE_FAILED") : log[j].node # log[i].node
    BY <1>6, Zenon DEF ActiveNode
  <2>2. log[i].node \in 1..NumNodes /\ log[i].node \notin S
    BY <1>1, <2>1 DEF Rows, EventSet
  <2> QED BY <1>4, <2>2, LifecycleAssumption DEF Succeeded
<1> QED BY <1>5, <1>6

\* The variables that no append has a part in.
RestOK ==
  /\ job \in {"absent", "waiting", "active", "completed", "failed"}
  /\ stalls \in 0..MaxStalls
  /\ caller \in [Caller -> {"idle", "record", "queue", "add", "announce", "done"}]
  /\ canceller \in [Cancels -> {"idle", "append", "done"}]
  /\ pc \in Control
  /\ ok \in BOOLEAN
  /\ error \in {"none", "controlled", "runtime"}
  /\ inFlight \in BOOLEAN
  /\ crashes \in 0..MaxCrashes

LEMMA WriteKeepsType ==
  ASSUME TypeOK, RestOK', NEW e, Accepts(e) => e \in EventSet, Write(e) \/ WriteFails(e),
         seen' \subseteq seen \/ (log' # log /\ seen' \subseteq seen \cup {Key(e)})
  PROVE  TypeOK'
<1>1. log' \in Seq(EventSet) /\ SeenIsLogged'
  <2>1. CASE log' = log
    BY <2>1 DEF SeenIsLogged, TypeOK
  <2>2. CASE log' # log
    BY <2>2, Writes, LogGrows
  <2> QED BY <2>1, <2>2
<1>2. faults' \in 0..MaxFaults
  BY Writes
<1> QED BY <1>1, <1>2 DEF TypeOK, SeenIsLogged, RestOK

LEMMA ReadKeepsType ==
  ASSUME TypeOK, RestOK', UNCHANGED log, UNCHANGED faults \/ Fault,
         seen' \subseteq seen \cup {Key(log[i]) : i \in DOMAIN log}
  PROVE  TypeOK'
<1>1. faults' \in 0..MaxFaults
  BY LifecycleAssumption DEF Fault, TypeOK
<1>2. SeenIsLogged'
  BY DEF TypeOK, SeenIsLogged
<1> QED BY <1>1, <1>2 DEF TypeOK, SeenIsLogged, RestOK

LEMMA AppendOnceKeepsType ==
  ASSUME TypeOK, RestOK', NEW e \in EventSet, NEW next, AppendOnce(e, next)
  PROVE  TypeOK'
<1>1. CASE Key(e) \in seen
  BY <1>1, ReadKeepsType DEF AppendOnce, NoWrite
<1>2. CASE Write(e) /\ seen' = seen \cup {Key(e)}
  <2>1. log' # log
    BY <1>2 DEF Write, TypeOK
  <2> QED BY <1>2, <2>1, WriteKeepsType
<1>3. CASE WriteFails(e) /\ UNCHANGED seen
  BY <1>3, WriteKeepsType
<1> QED BY <1>1, <1>2, <1>3 DEF AppendOnce

LEMMA ApiTypes == TypeOK /\ ApiStep => TypeOK'
<1> SUFFICES ASSUME TypeOK, ApiStep PROVE TypeOK'
  OBVIOUS
<1> USE DEF WorkerAlone, memory, queue, CallerGoes, Caller
<1>1. CASE Create
  <2>1. RestOK'
    BY <1>1 DEF Create, RestOK, TypeOK
  <2> QED BY <1>1, <2>1, WriteKeepsType, Events DEF Create
<1>2. CASE RecordMessage
  <2>1. RestOK'
    BY <1>2 DEF RecordMessage, RestOK, TypeOK
  <2> QED BY <1>2, <2>1, WriteKeepsType, Events DEF RecordMessage
<1>3. ASSUME NEW c \in Caller, Execute(c) PROVE TypeOK'
  <2>1. RestOK'
    BY <1>3 DEF Execute, RestOK, TypeOK
  <2> QED BY <1>3, <2>1, ReadKeepsType DEF Execute
<1>4. ASSUME NEW c \in Caller, MarkQueued(c) PROVE TypeOK'
  <2>1. RestOK'
    BY <1>4 DEF MarkQueued, RestOK, TypeOK
  <2> QED BY <1>4, <2>1, WriteKeepsType, Events DEF MarkQueued, StatusName
<1>5. ASSUME NEW c \in Caller, AddJob(c) PROVE TypeOK'
  <2>1. RestOK'
    BY <1>5 DEF AddJob, RestOK, TypeOK
  <2> QED BY <1>5, <2>1, ReadKeepsType DEF AddJob
<1>6. ASSUME NEW c \in Caller, Announce(c) PROVE TypeOK'
  <2>1. RestOK'
    BY <1>6 DEF Announce, RestOK, TypeOK
  <2> QED BY <1>6, <2>1, WriteKeepsType, Events DEF Announce
<1>7. ASSUME NEW c \in Cancels, Cancel(c) PROVE TypeOK'
  <2>1. RestOK'
    BY <1>7 DEF Cancel, RestOK, TypeOK
  <2> QED BY <1>7, <2>1, ReadKeepsType DEF Cancel
<1>8. ASSUME NEW c \in Cancels, RequestCancel(c) PROVE TypeOK'
  <2>1. RestOK'
    BY <1>8 DEF RequestCancel, RestOK, TypeOK
  <2> QED BY <1>8, <2>1, WriteKeepsType, Events DEF RequestCancel
<1> QED BY <1>1, <1>2, <1>3, <1>4, <1>5, <1>6, <1>7, <1>8 DEF ApiStep

\* Take, Acknowledge and Crash, and the steps of the handler that only read.
LEMMA ReadTypes ==
  TypeOK /\ (\/ Take \/ Acknowledge \/ Crash \/ Check \/ CheckCancel \/ ReturnFromDag
             \/ BeginReward \/ CheckTerminal \/ FinalCheck) => TypeOK'
<1> SUFFICES ASSUME TypeOK,
                    \/ Take \/ Acknowledge \/ Crash \/ Check \/ CheckCancel \/ ReturnFromDag
                    \/ BeginReward \/ CheckTerminal \/ FinalCheck
             PROVE  TypeOK'
  OBVIOUS
<1> USE DEF HandlerAlone, ApiAlone, memory, queue, api, bounds, Forget, Goes, Raises, NoWrite
<1>1. CASE Take
  <2>1. RestOK'
    BY <1>1 DEF Take, RestOK, TypeOK, Control
  <2> QED BY <1>1, <2>1, ReadKeepsType DEF Take
<1>2. CASE Acknowledge
  <2>1. RestOK'
    BY <1>2 DEF Acknowledge, RestOK, TypeOK, Control
  <2> QED BY <1>2, <2>1, ReadKeepsType DEF Acknowledge
<1>3. CASE Crash
  <2>1. RestOK'
    <3>1. stalls' \in 0..MaxStalls /\ crashes' \in 0..MaxCrashes
      BY <1>3, LifecycleAssumption DEF Crash, TypeOK
    <3> QED BY <1>3, <3>1 DEF Crash, RestOK, TypeOK, Control
  <2> QED BY <1>3, <2>1, ReadKeepsType DEF Crash
<1>4. CASE Check
  <2>1. RestOK'
    BY <1>4 DEF Check, RestOK, TypeOK, Control, RunCompletedOk
  <2> QED BY <1>4, <2>1, ReadKeepsType DEF Check
<1>5. CASE CheckCancel
  <2>1. RestOK'
    BY <1>5 DEF CheckCancel, RestOK, TypeOK, Control
  <2> QED BY <1>5, <2>1, ReadKeepsType DEF CheckCancel
<1>6. CASE ReturnFromDag
  <2>1. RestOK'
    BY <1>6 DEF ReturnFromDag, RestOK, TypeOK, Control, LoggedAs
  <2> QED BY <1>6, <2>1, ReadKeepsType DEF ReturnFromDag
<1>7. CASE BeginReward
  <2>1. RestOK'
    BY <1>7 DEF BeginReward, RestOK, TypeOK, Control
  <2> QED BY <1>7, <2>1, ReadKeepsType DEF BeginReward
<1>8. CASE CheckTerminal
  <2>1. RestOK'
    BY <1>8 DEF CheckTerminal, RestOK, TypeOK, Control
  <2> QED BY <1>8, <2>1, ReadKeepsType DEF CheckTerminal
<1>9. CASE FinalCheck
  <2>1. RestOK'
    BY <1>9 DEF FinalCheck, RestOK, TypeOK, Control
  <2> QED BY <1>9, <2>1, ReadKeepsType DEF FinalCheck
<1> QED BY <1>1, <1>2, <1>3, <1>4, <1>5, <1>6, <1>7, <1>8, <1>9

\* The steps of the handler that append.
LEMMA WriteTypes ==
  TypeOK /\ (\/ MarkRunning \/ MarkStarted \/ EvaluatePolicy \/ Block \/ CheckTimeout
             \/ StartNode \/ EndNode \/ CompleteDag \/ ComputeReward \/ UpdateTrust
             \/ Catch \/ Classify \/ MarkCancelled \/ MarkEnd \/ Complete) => TypeOK'
<1> SUFFICES ASSUME TypeOK,
                    \/ MarkRunning \/ MarkStarted \/ EvaluatePolicy \/ Block \/ CheckTimeout
                    \/ StartNode \/ EndNode \/ CompleteDag \/ ComputeReward \/ UpdateTrust
                    \/ Catch \/ Classify \/ MarkCancelled \/ MarkEnd \/ Complete
             PROVE  TypeOK'
  OBVIOUS
<1> USE DEF HandlerAlone, ApiAlone, memory, queue, api, Goes, Raises, NoWrite
<1>1. CASE MarkRunning
  <2>1. RestOK'
    BY <1>1 DEF MarkRunning, RestOK, TypeOK, Control, AppendOnce
  <2> QED BY <1>1, <2>1, AppendOnceKeepsType, Events DEF MarkRunning, StatusName
<1>2. CASE MarkStarted
  <2>1. RestOK'
    BY <1>2 DEF MarkStarted, RestOK, TypeOK, Control, AppendOnce
  <2> QED BY <1>2, <2>1, AppendOnceKeepsType, Events DEF MarkStarted
<1>3. CASE EvaluatePolicy
  <2>1. RestOK'
    BY <1>3 DEF EvaluatePolicy, RestOK, TypeOK, Control
  <2> QED BY <1>3, <2>1, WriteKeepsType, ReadKeepsType, Events DEF EvaluatePolicy
<1>4. CASE Block
  <2>1. RestOK'
    BY <1>4 DEF Block, RestOK, TypeOK, Control
  <2> QED BY <1>4, <2>1, WriteKeepsType, ReadKeepsType, Events DEF Block
<1>5. CASE CheckTimeout
  <2>1. RestOK'
    BY <1>5 DEF CheckTimeout, RestOK, TypeOK, Control
  <2> QED BY <1>5, <2>1, WriteKeepsType, ReadKeepsType, Events DEF CheckTimeout, Accepts, Event
<1>6. CASE StartNode
  <2>1. RestOK'
    BY <1>6 DEF StartNode, RestOK, TypeOK, Control, DagWrites
  <2> QED BY <1>6, <2>1, WriteKeepsType, ReadKeepsType, Events, NodeIsLeft DEF StartNode, DagWrites
<1>7. CASE EndNode
  <2>1. RestOK'
    BY <1>7 DEF EndNode, RestOK, TypeOK, Control, DagWrites
  <2> QED BY <1>7, <2>1, WriteKeepsType, ReadKeepsType, Events, NodeIsLeft DEF EndNode, DagWrites
<1>8. CASE CompleteDag
  <2>1. RestOK'
    BY <1>8 DEF CompleteDag, RestOK, TypeOK, Control, DagWrites
  <2> QED BY <1>8, <2>1, WriteKeepsType, ReadKeepsType, Events DEF CompleteDag, DagWrites
<1>9. CASE ComputeReward
  <2>1. RestOK'
    BY <1>9 DEF ComputeReward, RestOK, TypeOK, Control
  <2> QED BY <1>9, <2>1, WriteKeepsType, ReadKeepsType, Events DEF ComputeReward
<1>10. CASE UpdateTrust
  <2>1. RestOK'
    BY <1>10 DEF UpdateTrust, RestOK, TypeOK, Control
  <2> QED BY <1>10, <2>1, WriteKeepsType, ReadKeepsType, Events DEF UpdateTrust
<1>11. CASE Catch
  <2>1. RestOK'
    BY <1>11 DEF Catch, RestOK, TypeOK, Control
  <2> QED BY <1>11, <2>1, WriteKeepsType, ReadKeepsType, Events DEF Catch
<1>12. CASE Classify
  <2>1. RestOK'
    BY <1>12 DEF Classify, RestOK, TypeOK, Control
  <2> QED BY <1>12, <2>1, WriteKeepsType, ReadKeepsType, Events DEF Classify
<1>13. CASE MarkCancelled
  <2>1. RestOK'
    BY <1>13 DEF MarkCancelled, RestOK, TypeOK, Control
  <2> QED BY <1>13, <2>1, WriteKeepsType, ReadKeepsType, Events DEF MarkCancelled, Accepts, Event, ActiveNode
<1>14. CASE MarkEnd
  <2>1. RestOK'
    BY <1>14 DEF MarkEnd, RestOK, TypeOK, Control, AppendOnce
  <2> QED BY <1>14, <2>1, AppendOnceKeepsType, Events DEF MarkEnd, StatusName
<1>15. CASE Complete
  <2>1. RestOK'
    BY <1>15 DEF Complete, RestOK, TypeOK, Control, AppendOnce
  <2>2. ok \in BOOLEAN
    BY DEF TypeOK
  <2> QED BY <1>15, <2>1, <2>2, AppendOnceKeepsType, Events DEF Complete
<1> QED BY <1>1, <1>2, <1>3, <1>4, <1>5, <1>6, <1>7, <1>8, <1>9, <1>10, <1>11, <1>12, <1>13, <1>14, <1>15

\* The heartbeat appends its own event, and leaves everything but its flag alone.
LEMMA HeartBeats ==
  TypeOK /\ (Beat \/ EndBeat) =>
    /\ UNCHANGED <<queue, pc, memory, api, crashes>>
    /\ UNCHANGED faults \/ Fault
    /\ log' \in {log, Append(log, Heartbeat)}
    /\ Heartbeat \in EventSet /\ Heartbeat.type = "WORKER_HEARTBEAT"
<1> SUFFICES ASSUME TypeOK, Beat \/ EndBeat
             PROVE  /\ UNCHANGED <<queue, pc, memory, api, crashes>>
                    /\ UNCHANGED faults \/ Fault
                    /\ log' \in {log, Append(log, Heartbeat)}
  BY Events DEF Heartbeat, Event
<1>1. CASE Beat
  BY <1>1 DEF Beat, ApiAlone, bounds
<1>2. CASE EndBeat
  BY <1>2, Writes DEF EndBeat, ApiAlone
<1> QED BY <1>1, <1>2

LEMMA BeatTypes == TypeOK /\ (Beat \/ EndBeat) => TypeOK'
<1> SUFFICES ASSUME TypeOK, Beat \/ EndBeat PROVE TypeOK'
  OBVIOUS
<1>1. RestOK' /\ UNCHANGED seen
  BY HeartBeats DEF Beat, EndBeat, RestOK, TypeOK, queue, memory, api
<1>2. CASE Beat
  BY <1>1, <1>2, ReadKeepsType DEF Beat, bounds
<1>3. CASE EndBeat
  BY <1>1, <1>3, HeartBeats, WriteKeepsType DEF EndBeat
<1> QED BY <1>2, <1>3

LEMMA InitType == Init => TypeOK
<1> SUFFICES ASSUME Init PROVE TypeOK
  OBVIOUS
<1>1. log \in Seq(EventSet) /\ SeenIsLogged /\ faults \in 0..MaxFaults
  BY LifecycleAssumption DEF Init, SeenIsLogged
<1>2. RestOK
  <2>1. stalls \in 0..MaxStalls /\ crashes \in 0..MaxCrashes
    BY LifecycleAssumption DEF Init
  <2>2. /\ caller \in [Caller -> {"idle", "record", "queue", "add", "announce", "done"}]
        /\ canceller \in [Cancels -> {"idle", "append", "done"}]
    BY Zenon DEF Init
  <2> QED BY <2>1, <2>2, Zenon DEF Init, RestOK, Control
<1> QED BY <1>1, <1>2 DEF RestOK, SeenIsLogged, TypeOK

LEMMA NextType == TypeOK /\ [Next]_vars => TypeOK'
<1> SUFFICES ASSUME TypeOK, [Next]_vars PROVE TypeOK'
  OBVIOUS
<1>1. CASE ApiStep
  BY <1>1, ApiTypes
<1>2. CASE WorkerStep \/ Crash
  BY <1>2, ReadTypes, WriteTypes DEF WorkerStep
<1>3. CASE UNCHANGED vars
  <2>1. RestOK'
    BY <1>3 DEF vars, queue, api, memory, bounds, RestOK, TypeOK
  <2>2. UNCHANGED <<log, seen, faults>>
    BY <1>3 DEF vars, queue, api, memory, bounds
  <2> QED BY <2>1, <2>2, ReadKeepsType
<1> QED BY <1>1, <1>2, <1>3, BeatTypes DEF Next, Done

\* Every variable of the log, the queue, the requests and the handler keeps its type:
\* in particular no event is appended that zRunEvent rejects, and no node is started
\* beyond those of the DAG.
THEOREM TypeCorrect == Spec => []TypeOK
<1> QED BY InitType, NextType, PTL DEF Spec

-----------------------------------------------------------------------------
(* What is logged, and what the handler knows of it.                       *)

\* An append adds its event to what is logged, and nothing else.
LEMMA Appends ==
  ASSUME TypeOK, NEW e \in EventSet, log' \in {log, Append(log, e)}
  PROVE  /\ \A t : Logged(t) => Logged(t)'
         /\ \A t : Logged(t)' => Logged(t) \/ (log' # log /\ e.type = t)
         /\ log' # log => Logged(e.type)'
         /\ \A t, a : LoggedAs(t, a) => LoggedAs(t, a)'
         /\ \A t, a : LoggedAs(t, a)' => LoggedAs(t, a) \/ (log' # log /\ e.type = t /\ e.arg = a)
<1>1. CASE log' = log
  BY <1>1 DEF Logged, LoggedAs, Rows
<1>2. CASE log' = Append(log, e)
  <2>1. /\ DOMAIN log' = 1 .. Len(log) + 1 /\ DOMAIN log = 1 .. Len(log) /\ Len(log) \in Nat
        /\ \A i \in DOMAIN log : log'[i] = log[i]
        /\ log'[Len(log) + 1] = e /\ Len(log) + 1 \notin DOMAIN log /\ log' # log
    BY <1>2 DEF TypeOK
  <2>2. \A t : /\ Rows(t) \subseteq Rows(t)'
               /\ Rows(t)' \subseteq Rows(t) \cup (IF e.type = t THEN {Len(log) + 1} ELSE {})
    BY <2>1 DEF Rows
  <2>3. Len(log) + 1 \in Rows(e.type)'
    BY <2>1 DEF Rows
  <2>5. \A t : Rows(t) \subseteq DOMAIN log
    BY DEF Rows
  <2>6. /\ \A t : Logged(t) => Logged(t)'
        /\ \A t : Logged(t)' => Logged(t) \/ e.type = t
        /\ Logged(e.type)'
    BY <2>2, <2>3 DEF Logged
  <2>7. \A t, a : LoggedAs(t, a) => LoggedAs(t, a)'
    BY <2>1, <2>2, <2>5 DEF LoggedAs
  <2>8. \A t, a : LoggedAs(t, a)' => LoggedAs(t, a) \/ (e.type = t /\ e.arg = a)
    BY <2>1, <2>2, <2>5 DEF LoggedAs
  <2> QED BY <2>1, <2>6, <2>7, <2>8
<1> QED BY <1>1, <1>2

\* Where the log stays as it is, so does what is logged.
LEMMA NoAppend ==
  ASSUME log' = log
  PROVE  /\ \A t : Logged(t)' <=> Logged(t)
         /\ \A t, a : LoggedAs(t, a)' <=> LoggedAs(t, a)
BY DEF Logged, LoggedAs, Rows

\* appendOnce skips only what is logged.
LEMMA SeenLogged ==
  ASSUME TypeOK, NEW t, NEW a, <<t, a>> \in seen
  PROVE  IF t = "RUN_STATUS_CHANGED" THEN LoggedAs(t, a) ELSE Logged(t)
<1>1. PICK i \in DOMAIN log : Key(log[i]) = <<t, a>>
  BY DEF TypeOK
<1> QED BY <1>1 DEF Key, Logged, LoggedAs, Rows

\* The keys that Check collects are those of every event.
LEMMA KeysOfLog ==
  ASSUME NEW t, Logged(t), t # "RUN_STATUS_CHANGED"
  PROVE  <<t, "">> \in {Key(log[i]) : i \in DOMAIN log}
BY DEF Logged, Rows, Key

\* A failed append is counted.
LEMMA CleanAfter ==
  ASSUME TypeOK, NEW e, WriteFails(e), Accepts(e)
  PROVE  ~Clean'
BY DEF TypeOK, WriteFails, Fault, Clean

LEMMA CrashMarks == TypeOK /\ Crash => ~Clean'
BY DEF TypeOK, Crash, Clean

LEMMA CleanBefore ==
  ASSUME TypeOK, UNCHANGED crashes, UNCHANGED faults \/ Fault
  PROVE  Clean' => Clean /\ UNCHANGED faults
BY DEF TypeOK, Fault, Clean

\* A request of the API, or the heartbeat: the handler's memory stays, and no event that
\* the handler logs itself is appended.
LEMMA ApiKeepsHandler ==
  ASSUME TypeOK, HandlerInv, UNCHANGED <<pc, seen, ok, crashes>>, UNCHANGED faults \/ Fault,
         job' = job \/ (job = "absent" /\ job' = "waiting"),
         NEW e \in EventSet, log' \in {log, Append(log, e)},
         e.type \in {"RUN_CREATED", "USER_MESSAGE_RECORDED", "RUN_ENQUEUED",
                     "RUN_STATUS_CHANGED", "RUN_CANCEL_REQUESTED", "WORKER_HEARTBEAT"}
  PROVE  HandlerInv'
<1>1. \A t : t \in {"RUN_COMPLETED", "RUN_CANCELLED", "WORKER_STARTED", "REWARD_COMPUTED",
                    "TRUST_UPDATED"} => (Logged(t)' <=> Logged(t))
  BY Appends
<1>2. LoggedAs("DAG_COMPLETED", "ok")' <=> LoggedAs("DAG_COMPLETED", "ok")
  BY Appends
<1>3. Clean' => Clean
  BY CleanBefore
<1> QED BY <1>1, <1>2, <1>3
    DEF HandlerInv, EndInv, StartInv, JobInv, RewardInv, OkInv

LEMMA ApiHandler == TypeOK /\ HandlerInv /\ ApiStep => HandlerInv'
<1> SUFFICES ASSUME TypeOK, HandlerInv, ApiStep PROVE HandlerInv'
  OBVIOUS
<1> USE DEF WorkerAlone, memory, queue
<1>1. CASE Create
  <2>1. Event("RUN_CREATED", "") \in EventSet
    BY Events DEF StatusName
  <2>2. log' \in {log, Append(log, Event("RUN_CREATED", ""))} /\ (UNCHANGED faults \/ Fault)
    BY <1>1, Writes DEF Create
  <2> QED BY <1>1, <2>1, <2>2, ApiKeepsHandler DEF Create, Event, Status
<1>2. CASE RecordMessage
  <2>1. Event("USER_MESSAGE_RECORDED", "") \in EventSet
    BY Events DEF StatusName
  <2>2. log' \in {log, Append(log, Event("USER_MESSAGE_RECORDED", ""))} /\ (UNCHANGED faults \/ Fault)
    BY <1>2, Writes DEF RecordMessage
  <2> QED BY <1>2, <2>1, <2>2, ApiKeepsHandler DEF RecordMessage, Event, Status
<1>3. ASSUME NEW c \in Caller, Execute(c) PROVE HandlerInv'
  <2>1. log' = log /\ (UNCHANGED faults \/ Fault)
    BY <1>3 DEF Execute, Fault
  <2> QED BY <1>3, <2>1, ApiKeepsHandler, Events DEF Execute, Event
<1>4. ASSUME NEW c \in Caller, MarkQueued(c) PROVE HandlerInv'
  <2>1. Status("QUEUED") \in EventSet
    BY Events DEF StatusName
  <2>2. log' \in {log, Append(log, Status("QUEUED"))} /\ (UNCHANGED faults \/ Fault)
    BY <1>4, Writes DEF MarkQueued
  <2> QED BY <1>4, <2>1, <2>2, ApiKeepsHandler DEF MarkQueued, Event, Status
<1>5. ASSUME NEW c \in Caller, AddJob(c) PROVE HandlerInv'
  <2>1. log' = log /\ (UNCHANGED faults \/ Fault)
    BY <1>5 DEF AddJob, Fault
  <2> QED BY <1>5, <2>1, ApiKeepsHandler, Events DEF AddJob, Event
<1>6. ASSUME NEW c \in Caller, Announce(c) PROVE HandlerInv'
  <2>1. Event("RUN_ENQUEUED", "") \in EventSet
    BY Events DEF StatusName
  <2>2. log' \in {log, Append(log, Event("RUN_ENQUEUED", ""))} /\ (UNCHANGED faults \/ Fault)
    BY <1>6, Writes DEF Announce
  <2> QED BY <1>6, <2>1, <2>2, ApiKeepsHandler DEF Announce, Event, Status
<1>7. ASSUME NEW c \in Cancels, Cancel(c) PROVE HandlerInv'
  <2>1. log' = log /\ (UNCHANGED faults \/ Fault)
    BY <1>7 DEF Cancel, Fault
  <2> QED BY <1>7, <2>1, ApiKeepsHandler, Events DEF Cancel, Event
<1>8. ASSUME NEW c \in Cancels, RequestCancel(c) PROVE HandlerInv'
  <2>1. Event("RUN_CANCEL_REQUESTED", "API") \in EventSet
    BY Events DEF StatusName
  <2>2. log' \in {log, Append(log, Event("RUN_CANCEL_REQUESTED", "API"))} /\ (UNCHANGED faults \/ Fault)
    BY <1>8, Writes DEF RequestCancel
  <2> QED BY <1>8, <2>1, <2>2, ApiKeepsHandler DEF RequestCancel, Event, Status
<1> QED BY <1>1, <1>2, <1>3, <1>4, <1>5, <1>6, <1>7, <1>8 DEF ApiStep

\* Of what the invariant of the handler speaks of nothing is logged, but perhaps t.
SameBut(t) ==
  /\ t # "RUN_COMPLETED" => (Logged("RUN_COMPLETED")' <=> Logged("RUN_COMPLETED"))
  /\ t # "RUN_CANCELLED" => (Logged("RUN_CANCELLED")' <=> Logged("RUN_CANCELLED"))
  /\ t # "WORKER_STARTED" => (Logged("WORKER_STARTED")' <=> Logged("WORKER_STARTED"))
  /\ t # "REWARD_COMPUTED" => (Logged("REWARD_COMPUTED")' <=> Logged("REWARD_COMPUTED"))
  /\ t # "TRUST_UPDATED" => (Logged("TRUST_UPDATED")' <=> Logged("TRUST_UPDATED"))
  /\ Logged(t) => Logged(t)'
  /\ LoggedAs("DAG_COMPLETED", "ok") => LoggedAs("DAG_COMPLETED", "ok")'

SameLogged == SameBut("")

LEMMA OneEvent ==
  ASSUME TypeOK, NEW e \in EventSet, log' \in {log, Append(log, e)}
  PROVE  SameBut(e.type) /\ (log' # log => Logged(e.type)')
BY Appends DEF SameBut

LEMMA OtherEvents ==
  ASSUME TypeOK, NEW e \in EventSet, log' \in {log, Append(log, e)},
         e.type \notin {"RUN_COMPLETED", "RUN_CANCELLED", "WORKER_STARTED", "REWARD_COMPUTED",
                        "TRUST_UPDATED"}
  PROVE  SameLogged
BY Appends DEF SameLogged, SameBut

LEMMA NoEvent == log' = log => SameLogged
BY NoAppend DEF SameLogged, SameBut

\* The steps of the handler that log nothing of it.
LEMMA PlainStepHandler ==
  TypeOK /\ HandlerInv /\ (\/ Take \/ Acknowledge \/ Crash \/ Check \/ MarkRunning \/ Block
                           \/ CheckTimeout \/ CheckCancel \/ ReturnFromDag \/ BeginReward
                           \/ Catch \/ CheckTerminal \/ Classify \/ FinalCheck \/ MarkEnd) => HandlerInv'
<1> SUFFICES ASSUME TypeOK, HandlerInv,
                    \/ Take \/ Acknowledge \/ Crash \/ Check \/ MarkRunning \/ Block
                    \/ CheckTimeout \/ CheckCancel \/ ReturnFromDag \/ BeginReward
                    \/ Catch \/ CheckTerminal \/ Classify \/ FinalCheck \/ MarkEnd
             PROVE  HandlerInv'
  OBVIOUS
<1>0. ok \in BOOLEAN /\ pc \in Control
  BY DEF TypeOK
<1> USE DEF HandlerAlone, ApiAlone, memory, queue, api, bounds, Forget, Goes, Raises, NoWrite,
            HandlerInv, EndInv, StartInv, JobInv, RewardInv, OkInv, Live, Control, SameBut
<1>1. CASE Take
  <2>1. SameLogged /\ (Clean' => Clean)
    BY <1>1, NoEvent, CleanBefore DEF Take
  <2> QED BY <1>0, <1>1, <2>1 DEF Take, SameLogged
<1>2. CASE Acknowledge
  <2>1. SameLogged /\ (Clean' => Clean)
    BY <1>2, NoEvent, CleanBefore DEF Acknowledge
  <2> QED BY <1>0, <1>2, <2>1 DEF Acknowledge, SameLogged
<1>3. CASE Crash
  <2>1. SameLogged
    BY <1>3, NoEvent DEF Crash
  <2>2. ~Clean'
    BY <1>3, CrashMarks
  <2> QED BY <1>0, <1>3, <2>1, <2>2 DEF Crash, SameLogged
<1>4. CASE Check
  <2>1. SameLogged /\ (Clean' => Clean)
    BY <1>4, NoEvent, CleanBefore DEF Check
  <2>2. pc' = "running" /\ Logged("WORKER_STARTED") => <<"WORKER_STARTED", "">> \in seen'
    BY <1>4, KeysOfLog DEF Check
  <2> QED BY <1>0, <1>4, <2>1, <2>2 DEF Check, SameLogged, HasTerminalEvent
<1>5. CASE MarkRunning
  <2>1. Status("RUNNING") \in EventSet
    BY <1>0, Events DEF StatusName
  <2>2. log' \in {log, Append(log, Status("RUNNING"))} /\ (Clean' => Clean)
    BY <1>0, <1>5, Writes, CleanBefore DEF MarkRunning, AppendOnce
  <2>3. SameLogged
    BY <2>1, <2>2, OtherEvents DEF Event, Status
  <2> QED BY <1>0, <1>5, <2>2, <2>3 DEF MarkRunning, AppendOnce, SameLogged
<1>6. CASE Block
  <2>1. Event("RUN_CANCEL_REQUESTED", "POLICY") \in EventSet
    BY <1>0, Events DEF StatusName
  <2>2. log' \in {log, Append(log, Event("RUN_CANCEL_REQUESTED", "POLICY"))} /\ (Clean' => Clean)
    BY <1>0, <1>6, Writes, CleanBefore DEF Block
  <2>3. SameLogged
    BY <2>1, <2>2, OtherEvents DEF Event, Status
  <2> QED BY <1>0, <1>6, <2>2, <2>3 DEF Block, SameLogged
<1>7. CASE CheckTimeout
  <2>1. SameLogged /\ (Clean' => Clean)
    BY <1>7, NoEvent, CleanBefore DEF CheckTimeout, WriteFails, Accepts, Event
  <2> QED BY <1>0, <1>7, <2>1 DEF CheckTimeout, SameLogged
<1>8. CASE CheckCancel
  <2>1. SameLogged /\ (Clean' => Clean)
    BY <1>8, NoEvent, CleanBefore DEF CheckCancel
  <2> QED BY <1>0, <1>8, <2>1 DEF CheckCancel, SameLogged
<1>9. CASE ReturnFromDag
  <2>1. SameLogged /\ (Clean' => Clean)
    BY <1>9, NoEvent, CleanBefore DEF ReturnFromDag
  <2> QED BY <1>0, <1>9, <2>1 DEF ReturnFromDag, SameLogged
<1>10. CASE BeginReward
  <2>1. SameLogged /\ (Clean' => Clean)
    BY <1>10, NoEvent, CleanBefore DEF BeginReward
  <2> QED BY <1>0, <1>10, <2>1 DEF BeginReward, SameLogged
<1>11. CASE Catch
  <2>1. Event("RUNTIME_ERROR", "") \in EventSet
    BY <1>0, Events DEF StatusName
  <2>2. log' \in {log, Append(log, Event("RUNTIME_ERROR", ""))} /\ (Clean' => Clean)
    BY <1>0, <1>11, Writes, CleanBefore DEF Catch
  <2>3. SameLogged
    BY <2>1, <2>2, OtherEvents DEF Event, Status
  <2> QED BY <1>0, <1>11, <2>2, <2>3 DEF Catch, SameLogged
<1>12. CASE CheckTerminal
  <2>1. SameLogged /\ (Clean' => Clean)
    BY <1>12, NoEvent, CleanBefore DEF CheckTerminal
  <2> QED BY <1>0, <1>12, <2>1 DEF CheckTerminal, SameLogged
<1>13. CASE Classify
  <2>1. Event("RUN_CLASSIFIED_FAILED", FailureClass) \in EventSet
    BY <1>0, Events DEF StatusName
  <2>2. log' \in {log, Append(log, Event("RUN_CLASSIFIED_FAILED", FailureClass))} /\ (Clean' => Clean)
    BY <1>0, <1>13, Writes, CleanBefore DEF Classify
  <2>3. SameLogged
    BY <2>1, <2>2, OtherEvents DEF Event, Status
  <2> QED BY <1>0, <1>13, <2>2, <2>3 DEF Classify, SameLogged
<1>14. CASE FinalCheck
  <2>1. SameLogged /\ (Clean' => Clean)
    BY <1>14, NoEvent, CleanBefore DEF FinalCheck
  <2> QED BY <1>0, <1>14, <2>1 DEF FinalCheck, SameLogged
<1>15. CASE MarkEnd
  <2>1. Status(IF ok THEN "SUCCEEDED" ELSE "FAILED") \in EventSet
    BY <1>0, Events DEF StatusName
  <2>2. log' \in {log, Append(log, Status(IF ok THEN "SUCCEEDED" ELSE "FAILED"))} /\ (Clean' => Clean)
    BY <1>0, <1>15, Writes, CleanBefore DEF MarkEnd, AppendOnce
  <2>3. SameLogged
    BY <2>1, <2>2, OtherEvents DEF Event, Status
  <2> QED BY <1>0, <1>15, <2>2, <2>3 DEF MarkEnd, AppendOnce, SameLogged
<1> QED BY <1>1, <1>2, <1>3, <1>4, <1>5, <1>6, <1>7, <1>8, <1>9, <1>10, <1>11, <1>12, <1>13, <1>14, <1>15

\* The others, each with what it logs and what the handler knows then.
LEMMA LoggingStepHandler ==
  TypeOK /\ HandlerInv /\ (\/ MarkStarted \/ EvaluatePolicy \/ StartNode \/ EndNode \/ CompleteDag
                           \/ ComputeReward \/ UpdateTrust \/ MarkCancelled \/ Complete) => HandlerInv'
<1> SUFFICES ASSUME TypeOK, HandlerInv,
                    \/ MarkStarted \/ EvaluatePolicy \/ StartNode \/ EndNode \/ CompleteDag
                    \/ ComputeReward \/ UpdateTrust \/ MarkCancelled \/ Complete
             PROVE  HandlerInv'
  OBVIOUS
<1>0. ok \in BOOLEAN /\ pc \in Control
  BY DEF TypeOK
<1> USE DEF HandlerAlone, ApiAlone, memory, queue, api, bounds, Goes, Raises, NoWrite,
            HandlerInv, EndInv, StartInv, JobInv, RewardInv, OkInv, Live, Control, SameBut
<1>1. CASE MarkStarted
  <2>1. Event("WORKER_STARTED", "") \in EventSet
    BY <1>0, Events
  <2>2. log' \in {log, Append(log, Event("WORKER_STARTED", ""))} /\ (Clean' => Clean)
    BY <1>0, <1>1, Writes, CleanBefore DEF MarkStarted, AppendOnce
  <2>3. SameBut("WORKER_STARTED") /\ (Write(Event("WORKER_STARTED", "")) => Logged("WORKER_STARTED")') 
    BY <2>1, <2>2, OneEvent, Writes DEF Event, Accepts
  <2> QED BY <1>0, <1>1, <2>2, <2>3, SeenLogged DEF MarkStarted, AppendOnce, Event, Key
<1>2. CASE EvaluatePolicy
  <2>1. PICK v \in {"ALLOWED", "BLOCKED"} :
          Write(Event("POLICY_EVALUATED", v)) \/ WriteFails(Event("POLICY_EVALUATED", v))
    BY <1>2 DEF EvaluatePolicy
  <2>2. Event("POLICY_EVALUATED", v) \in EventSet
    BY Events
  <2>3. SameLogged /\ (Clean' => Clean)
    BY <1>2, <2>1, <2>2, Writes, OtherEvents, CleanBefore DEF EvaluatePolicy, Event
  <2> QED BY <1>0, <1>2, <2>3 DEF EvaluatePolicy, SameLogged
<1>3. CASE StartNode
  <2>1. NodeEvent("NODE_STARTED", Succeeded + 1) \in EventSet
    BY <1>3, NodeIsLeft, Events DEF StartNode, DagWrites
  <2>2. SameLogged /\ (Clean' => Clean)
    BY <1>3, <2>1, Writes, OtherEvents, CleanBefore DEF StartNode, DagWrites, NodeEvent
  <2> QED BY <1>0, <1>3, <2>2 DEF StartNode, DagWrites, SameLogged
<1>4. CASE EndNode
  <2>0. PICK t \in {"NODE_SUCCEEDED", "NODE_FAILED"} : DagWrites(NodeEvent(t, Succeeded + 1))
    BY <1>4 DEF EndNode
  <2>1. NodeEvent(t, Succeeded + 1) \in EventSet
    BY <1>4, <2>0, NodeIsLeft, Events DEF EndNode, DagWrites
  <2>2. SameLogged /\ (Clean' => Clean)
    BY <1>4, <2>0, <2>1, Writes, OtherEvents, CleanBefore DEF EndNode, DagWrites, NodeEvent
  <2> QED BY <1>0, <1>4, <2>0, <2>2 DEF EndNode, DagWrites, SameLogged
<1>5. CASE CompleteDag
  <2>1. Event("DAG_COMPLETED", Verdict(Succeeded = NumNodes)) \in EventSet
    BY <1>0, Events
  <2>2. log' \in {log, Append(log, Event("DAG_COMPLETED", Verdict(Succeeded = NumNodes)))} /\ (Clean' => Clean)
    BY <1>0, <1>5, Writes, CleanBefore DEF CompleteDag, DagWrites
  <2>3. SameLogged
    BY <2>1, <2>2, OtherEvents DEF Event
  <2> QED BY <1>0, <1>5, <2>2, <2>3 DEF CompleteDag, DagWrites, SameLogged
<1>6. CASE ComputeReward
  <2>1. Event("REWARD_COMPUTED", "") \in EventSet
    BY <1>0, Events
  <2>2. log' \in {log, Append(log, Event("REWARD_COMPUTED", ""))} /\ (Clean' => Clean)
    BY <1>0, <1>6, Writes, CleanBefore DEF ComputeReward
  <2>3. SameBut("REWARD_COMPUTED") /\ (Write(Event("REWARD_COMPUTED", "")) => Logged("REWARD_COMPUTED")') /\ (WriteFails(Event("REWARD_COMPUTED", "")) => ~Clean')
    BY <2>1, <2>2, OneEvent, Writes, CleanAfter DEF Event, Accepts
  <2> QED BY <1>0, <1>6, <2>2, <2>3 DEF ComputeReward, Event, Key
<1>7. CASE UpdateTrust
  <2>1. Event("TRUST_UPDATED", "") \in EventSet
    BY <1>0, Events
  <2>2. log' \in {log, Append(log, Event("TRUST_UPDATED", ""))} /\ (Clean' => Clean)
    BY <1>0, <1>7, Writes, CleanBefore DEF UpdateTrust
  <2>3. SameBut("TRUST_UPDATED") /\ (Write(Event("TRUST_UPDATED", "")) => Logged("TRUST_UPDATED")') /\ (WriteFails(Event("TRUST_UPDATED", "")) => ~Clean')
    BY <2>1, <2>2, OneEvent, Writes, CleanAfter DEF Event, Accepts
  <2> QED BY <1>0, <1>7, <2>2, <2>3 DEF UpdateTrust, Event, Key
<1>8. CASE MarkCancelled
  <2>1. Event("RUN_CANCELLED", "active") \in EventSet
    BY Events
  <2>2. Event("RUN_CANCELLED", ActiveNode) = Event("RUN_CANCELLED", "active") \/ ~Accepts(Event("RUN_CANCELLED", ActiveNode))
    BY DEF ActiveNode, Accepts, Event
  <2>3. log' \in {log, Append(log, Event("RUN_CANCELLED", "active"))} /\ (Clean' => Clean)
    BY <1>8, <2>2, Writes, CleanBefore DEF MarkCancelled
  <2>4. SameBut("RUN_CANCELLED")
    BY <2>1, <2>3, OneEvent DEF Event
  <2> QED BY <1>0, <1>8, <2>3, <2>4 DEF MarkCancelled
<1>9. CASE Complete
  <2>1. Event("RUN_COMPLETED", Verdict(ok)) \in EventSet
    BY <1>0, Events
  <2>2. log' \in {log, Append(log, Event("RUN_COMPLETED", Verdict(ok)))} /\ (Clean' => Clean)
    BY <1>0, <1>9, Writes, CleanBefore DEF Complete, AppendOnce
  <2>3. SameBut("RUN_COMPLETED") /\ (Write(Event("RUN_COMPLETED", Verdict(ok))) => Logged("RUN_COMPLETED")') 
    BY <2>1, <2>2, OneEvent, Writes DEF Event, Accepts
  <2> QED BY <1>0, <1>9, <2>2, <2>3 DEF Complete, AppendOnce, Event, Key
<1> QED BY <1>1, <1>2, <1>3, <1>4, <1>5, <1>6, <1>7, <1>8, <1>9

-----------------------------------------------------------------------------
(* LoggedOnce, OkIsEarned and CancelHolds.                                 *)

\* Who may change the status, and to what.
StatusLicence(s) ==
  \/ s = "QUEUED" /\ UNCHANGED <<pc, seen, ok, queue>>
  \/ /\ \/ s = "RUNNING" /\ pc = "running"
        \/ s = EndStatus(ok) /\ pc = "status" /\ pc' \in {"complete", "throw"}
     /\ UNCHANGED job
     /\ <<"RUN_STATUS_CHANGED", s>> \notin seen
     /\ pc' \in Live => <<"RUN_STATUS_CHANGED", s>> \in seen'

\* Where each event may be appended.
Licence(e) ==
  /\ pc \in Live \/ UNCHANGED <<pc, queue>>
  /\ e.type = "WORKER_STARTED" => pc = "started" /\ <<"WORKER_STARTED", "">> \notin seen
  /\ e.type \in DagEvents \cup {"DAG_COMPLETED"} => pc = "dag" /\ ~Logged("DAG_COMPLETED")
  /\ e.type = "REWARD_COMPUTED" => pc = "compute"
  /\ e.type = "TRUST_UPDATED" => pc = "trust"
  /\ e.type = "RUN_CANCELLED" => pc = "cancel"
  /\ e.type = "RUN_COMPLETED" => pc = "complete" /\ e.arg = Verdict(ok)
  /\ e.type = "RUN_CANCEL_REQUESTED" => \/ e.arg = "API" /\ UNCHANGED pc
                                        \/ e.arg = "POLICY" /\ pc = "block"
  /\ e.type = "RUN_STATUS_CHANGED" => StatusLicence(e.arg)

Licensed == log' = log \/ \E e \in EventSet : log' = Append(log, e) /\ Licence(e)

LEMMA ApiLicensed == TypeOK /\ ApiStep => Licensed
<1> SUFFICES ASSUME TypeOK, ApiStep PROVE Licensed
  OBVIOUS
<1> USE DEF WorkerAlone, memory
<1>1. CASE Create
  <2>1. Event("RUN_CREATED", "") \in EventSet
    BY Events
  <2>2. log' \in {log, Append(log, Event("RUN_CREATED", ""))}
    BY <1>1, Writes DEF Create
  <2>3. Licence(Event("RUN_CREATED", ""))
    BY <1>1 DEF Create, Licence, DagEvents, Event
  <2> QED BY <2>1, <2>2, <2>3 DEF Licensed
<1>2. CASE RecordMessage
  <2>1. Event("USER_MESSAGE_RECORDED", "") \in EventSet
    BY Events
  <2>2. log' \in {log, Append(log, Event("USER_MESSAGE_RECORDED", ""))}
    BY <1>2, Writes DEF RecordMessage
  <2>3. Licence(Event("USER_MESSAGE_RECORDED", ""))
    BY <1>2 DEF RecordMessage, Licence, DagEvents, Event
  <2> QED BY <2>1, <2>2, <2>3 DEF Licensed
<1>3. ASSUME NEW c \in Caller, MarkQueued(c) PROVE Licensed
  <2>1. Status("QUEUED") \in EventSet
    BY Events DEF StatusName
  <2>2. log' \in {log, Append(log, Status("QUEUED"))}
    BY <1>3, Writes DEF MarkQueued
  <2>3. Licence(Status("QUEUED"))
    BY <1>3 DEF MarkQueued, Licence, DagEvents, StatusLicence, Event, Status
  <2> QED BY <2>1, <2>2, <2>3 DEF Licensed
<1>4. ASSUME NEW c \in Caller, Announce(c) PROVE Licensed
  <2>1. Event("RUN_ENQUEUED", "") \in EventSet
    BY Events
  <2>2. log' \in {log, Append(log, Event("RUN_ENQUEUED", ""))}
    BY <1>4, Writes DEF Announce
  <2>3. Licence(Event("RUN_ENQUEUED", ""))
    BY <1>4 DEF Announce, Licence, DagEvents, Event
  <2> QED BY <2>1, <2>2, <2>3 DEF Licensed
<1>5. ASSUME NEW c \in Cancels, RequestCancel(c) PROVE Licensed
  <2>1. Event("RUN_CANCEL_REQUESTED", "API") \in EventSet
    BY Events
  <2>2. log' \in {log, Append(log, Event("RUN_CANCEL_REQUESTED", "API"))}
    BY <1>5, Writes DEF RequestCancel
  <2>3. Licence(Event("RUN_CANCEL_REQUESTED", "API"))
    BY <1>5 DEF RequestCancel, Licence, DagEvents, Event
  <2> QED BY <2>1, <2>2, <2>3 DEF Licensed
<1>6. CASE \/ \E c \in Caller : Execute(c) \/ AddJob(c)
           \/ \E c \in Cancels : Cancel(c)
  BY <1>6 DEF Execute, AddJob, Cancel, Licensed
<1> QED BY <1>1, <1>2, <1>3, <1>4, <1>5, <1>6 DEF ApiStep

LEMMA WorkerLicensed == TypeOK /\ (WorkerStep \/ Crash) => Licensed
<1> SUFFICES ASSUME TypeOK, WorkerStep \/ Crash PROVE Licensed
  OBVIOUS
<1>0. ok \in BOOLEAN
  BY DEF TypeOK
<1>1. CASE MarkRunning
  <2> DEFINE e == Status("RUNNING")
  <2>1. e \in EventSet
    BY Events DEF StatusName
  <2>2. log' \in {log, Append(log, e)}
    BY <1>1, Writes DEF MarkRunning, AppendOnce, NoWrite
  <2>3. log' # log => Licence(e)
    BY <1>1, Writes DEF MarkRunning, AppendOnce, StatusLicence,
       Licence, DagEvents, Event, NodeEvent, Status, Key, Live, Control, NoWrite, Goes, HandlerAlone, queue
  <2> QED BY <2>1, <2>2, <2>3 DEF Licensed
<1>2. CASE MarkStarted
  <2> DEFINE e == Event("WORKER_STARTED", "")
  <2>1. e \in EventSet
    BY Events
  <2>2. log' \in {log, Append(log, e)}
    BY <1>2, Writes DEF MarkStarted, AppendOnce, NoWrite
  <2>3. log' # log => Licence(e)
    BY <1>2, Writes
    DEF MarkStarted, AppendOnce, Licence, DagEvents, Event, NodeEvent, Status, Key, Live, Control, NoWrite
  <2> QED BY <2>1, <2>2, <2>3 DEF Licensed
<1>3. CASE EvaluatePolicy
  <2>0. PICK v \in {"ALLOWED", "BLOCKED"} : Write(Event("POLICY_EVALUATED", v)) \/ WriteFails(Event("POLICY_EVALUATED", v))
    BY <1>3 DEF EvaluatePolicy
  <2> DEFINE e == Event("POLICY_EVALUATED", v)
  <2>1. e \in EventSet
    BY Events
  <2>2. log' \in {log, Append(log, e)}
    BY <1>3, <2>0, Writes DEF EvaluatePolicy
  <2>3. log' # log => Licence(e)
    BY <1>3, <2>0, Writes
    DEF EvaluatePolicy, Licence, DagEvents, Event, NodeEvent, Status, Key, Live, Control, NoWrite
  <2> QED BY <2>1, <2>2, <2>3 DEF Licensed
<1>4. CASE Block
  <2> DEFINE e == Event("RUN_CANCEL_REQUESTED", "POLICY")
  <2>1. e \in EventSet
    BY Events
  <2>2. log' \in {log, Append(log, e)}
    BY <1>4, Writes DEF Block
  <2>3. log' # log => Licence(e)
    BY <1>4, Writes
    DEF Block, Licence, DagEvents, Event, NodeEvent, Status, Key, Live, Control, NoWrite
  <2> QED BY <2>1, <2>2, <2>3 DEF Licensed
<1>5. CASE StartNode
  <2> DEFINE e == NodeEvent("NODE_STARTED", Succeeded + 1)
  <2>1. e \in EventSet
    BY <1>5, NodeIsLeft, Events DEF StartNode, DagWrites
  <2>2. log' \in {log, Append(log, e)}
    BY <1>5, Writes DEF StartNode, DagWrites
  <2>3. log' # log => Licence(e)
    BY <1>5, Writes
    DEF StartNode, DagWrites, Licence, DagEvents, Event, NodeEvent, Status, Key, Live, Control, NoWrite
  <2> QED BY <2>1, <2>2, <2>3 DEF Licensed
<1>6. CASE EndNode
  <2>0. PICK t \in {"NODE_SUCCEEDED", "NODE_FAILED"} : DagWrites(NodeEvent(t, Succeeded + 1))
    BY <1>6 DEF EndNode
  <2> DEFINE e == NodeEvent(t, Succeeded + 1)
  <2>1. e \in EventSet
    BY <1>6, <2>0, NodeIsLeft, Events DEF EndNode, DagWrites
  <2>2. log' \in {log, Append(log, e)}
    BY <1>6, <2>0, Writes DEF EndNode, DagWrites
  <2>3. log' # log => Licence(e)
    BY <1>6, <2>0, Writes
    DEF EndNode, DagWrites, Licence, DagEvents, Event, NodeEvent, Status, Key, Live, Control, NoWrite
  <2> QED BY <2>1, <2>2, <2>3 DEF Licensed
<1>7. CASE CompleteDag
  <2> DEFINE e == Event("DAG_COMPLETED", Verdict(Succeeded = NumNodes))
  <2>1. e \in EventSet
    BY Events
  <2>2. log' \in {log, Append(log, e)}
    BY <1>7, Writes DEF CompleteDag, DagWrites
  <2>3. log' # log => Licence(e)
    BY <1>7, Writes
    DEF CompleteDag, DagWrites, Licence, DagEvents, Event, NodeEvent, Status, Key, Live, Control, NoWrite
  <2> QED BY <2>1, <2>2, <2>3 DEF Licensed
<1>8. CASE ComputeReward
  <2> DEFINE e == Event("REWARD_COMPUTED", "")
  <2>1. e \in EventSet
    BY Events
  <2>2. log' \in {log, Append(log, e)}
    BY <1>8, Writes DEF ComputeReward
  <2>3. log' # log => Licence(e)
    BY <1>8, Writes
    DEF ComputeReward, Licence, DagEvents, Event, NodeEvent, Status, Key, Live, Control, NoWrite
  <2> QED BY <2>1, <2>2, <2>3 DEF Licensed
<1>9. CASE UpdateTrust
  <2> DEFINE e == Event("TRUST_UPDATED", "")
  <2>1. e \in EventSet
    BY Events
  <2>2. log' \in {log, Append(log, e)}
    BY <1>9, Writes DEF UpdateTrust
  <2>3. log' # log => Licence(e)
    BY <1>9, Writes
    DEF UpdateTrust, Licence, DagEvents, Event, NodeEvent, Status, Key, Live, Control, NoWrite
  <2> QED BY <2>1, <2>2, <2>3 DEF Licensed
<1>10. CASE Catch
  <2> DEFINE e == Event("RUNTIME_ERROR", "")
  <2>1. e \in EventSet
    BY Events
  <2>2. log' \in {log, Append(log, e)}
    BY <1>10, Writes DEF Catch, NoWrite
  <2>3. log' # log => Licence(e)
    BY <1>10, Writes
    DEF Catch, Licence, DagEvents, Event, NodeEvent, Status, Key, Live, Control, NoWrite
  <2> QED BY <2>1, <2>2, <2>3 DEF Licensed
<1>11. CASE Classify
  <2> DEFINE e == Event("RUN_CLASSIFIED_FAILED", FailureClass)
  <2>1. e \in EventSet
    BY Events
  <2>2. log' \in {log, Append(log, e)}
    BY <1>11, Writes DEF Classify
  <2>3. log' # log => Licence(e)
    BY <1>11, Writes
    DEF Classify, Licence, DagEvents, Event, NodeEvent, Status, Key, Live, Control, NoWrite
  <2> QED BY <2>1, <2>2, <2>3 DEF Licensed
<1>12. CASE MarkEnd
  <2> DEFINE e == Status(EndStatus(ok))
  <2>1. e \in EventSet
    BY <1>0, Events DEF StatusName, EndStatus
  <2>2. log' \in {log, Append(log, e)}
    BY <1>12, Writes DEF MarkEnd, AppendOnce, NoWrite, EndStatus
  <2>3. log' # log => Licence(e)
    BY <1>12, Writes DEF MarkEnd, AppendOnce, EndStatus,
       StatusLicence, Licence, DagEvents, Event, NodeEvent, Status, Key, Live, Control, NoWrite, Goes,
       HandlerAlone, queue
  <2> QED BY <2>1, <2>2, <2>3 DEF Licensed
<1>13. CASE Complete
  <2> DEFINE e == Event("RUN_COMPLETED", Verdict(ok))
  <2>1. e \in EventSet
    BY <1>0, Events
  <2>2. log' \in {log, Append(log, e)}
    BY <1>13, Writes DEF Complete, AppendOnce, NoWrite
  <2>3. log' # log => Licence(e)
    BY <1>13, Writes
    DEF Complete, AppendOnce, Licence, DagEvents, Event, NodeEvent, Status, Key, Live, Control, NoWrite
  <2> QED BY <2>1, <2>2, <2>3 DEF Licensed
<1>14. CASE MarkCancelled
  <2>1. Event("RUN_CANCELLED", "active") \in EventSet
    BY Events
  <2>2. Event("RUN_CANCELLED", ActiveNode) = Event("RUN_CANCELLED", "active") \/ ~Accepts(Event("RUN_CANCELLED", ActiveNode))
    BY DEF ActiveNode, Accepts, Event
  <2>3. log' \in {log, Append(log, Event("RUN_CANCELLED", "active"))}
    BY <1>14, <2>2, Writes DEF MarkCancelled
  <2>4. Licence(Event("RUN_CANCELLED", "active"))
    BY <1>14 DEF MarkCancelled, Licence, DagEvents, Event, Live, Control
  <2> QED BY <2>1, <2>3, <2>4 DEF Licensed
<1>15. CASE \/ Take \/ Acknowledge \/ Crash \/ Check \/ CheckCancel \/ ReturnFromDag
            \/ BeginReward \/ CheckTerminal \/ FinalCheck
  BY <1>15 DEF Take, Acknowledge, Crash, Check, CheckCancel, ReturnFromDag, BeginReward,
               CheckTerminal, FinalCheck, NoWrite, Licensed
<1>16. CASE CheckTimeout
  BY <1>16 DEF CheckTimeout, NoWrite, WriteFails, Accepts, Event, Licensed
<1> QED BY <1>1, <1>2, <1>3, <1>4, <1>5, <1>6, <1>7, <1>8, <1>9, <1>10, <1>11, <1>12, <1>13,
           <1>14, <1>15, <1>16 DEF WorkerStep

LEMMA InitHandler == Init => HandlerInv
<1> SUFFICES ASSUME Init PROVE HandlerInv
  OBVIOUS
<1>1. \A t : ~Logged(t)
  BY DEF Init, Logged, Rows
<1> QED BY <1>1 DEF Init, HandlerInv, EndInv, StartInv, JobInv, RewardInv, OkInv, Live

LEMMA NextHandler == TypeOK /\ HandlerInv /\ [Next]_vars => HandlerInv'
<1> SUFFICES ASSUME TypeOK, HandlerInv, [Next]_vars PROVE HandlerInv'
  OBVIOUS
<1>1. CASE ApiStep
  BY <1>1, ApiHandler
<1>2. CASE WorkerStep \/ Crash
  BY <1>2, PlainStepHandler, LoggingStepHandler DEF WorkerStep
<1>3. CASE UNCHANGED vars
  <2>1. UNCHANGED <<pc, seen, ok, job, crashes, faults>> /\ log' = log
    BY <1>3 DEF vars, memory, bounds, queue
  <2>2. /\ \A t : Logged(t)' <=> Logged(t)
        /\ \A t, a : LoggedAs(t, a)' <=> LoggedAs(t, a)
    BY <2>1, NoAppend
  <2>3. Clean' <=> Clean
    BY <2>1 DEF Clean
  <2> QED BY <2>1, <2>2, <2>3 DEF HandlerInv, EndInv, StartInv, JobInv, RewardInv, OkInv
<1>4. CASE Beat \/ EndBeat
  BY <1>4, HeartBeats, ApiKeepsHandler DEF memory, queue
<1> QED BY <1>1, <1>2, <1>3, <1>4 DEF Next, Done

\* Every step logs what the handler may log there, and failures are not forgotten.
LEMMA NextLicensed == TypeOK /\ [Next]_vars => Licensed
<1> SUFFICES ASSUME TypeOK, [Next]_vars PROVE Licensed
  OBVIOUS
<1>1. CASE UNCHANGED vars
  BY <1>1 DEF vars, Licensed
<1>2. CASE Beat \/ EndBeat
  <2>1. Licence(Heartbeat)
    BY <1>2, HeartBeats DEF Licence, DagEvents
  <2> QED BY <1>2, <2>1, HeartBeats DEF Licensed
<1> QED BY <1>1, <1>2, ApiLicensed, WorkerLicensed DEF Next, Done

LEMMA CleanStays == TypeOK /\ [Next]_vars => (Clean' => Clean)
<1> SUFFICES ASSUME TypeOK, [Next]_vars PROVE Clean' => Clean
  OBVIOUS
<1>1. CASE UNCHANGED vars
  BY <1>1 DEF vars, bounds, Clean
<1>2. CASE Crash
  BY <1>2, CrashMarks
<1>3. CASE ApiStep
  <2>1. UNCHANGED crashes /\ (UNCHANGED faults \/ Fault)
    BY <1>3, Writes DEF ApiStep, Create, RecordMessage, Execute, MarkQueued, AddJob, Announce,
       Cancel, RequestCancel, WorkerAlone
  <2> QED BY <2>1, CleanBefore
<1>4. CASE WorkerStep
  <2>1. UNCHANGED crashes
    BY <1>4 DEF WorkerStep, Take, Acknowledge, Check, MarkRunning, MarkStarted, EvaluatePolicy,
       Block, CheckTimeout, CheckCancel, StartNode, EndNode, CompleteDag, DagWrites, ReturnFromDag,
       BeginReward, ComputeReward, UpdateTrust, Catch, CheckTerminal, Classify, FinalCheck,
       MarkCancelled, MarkEnd, Complete, HandlerAlone, bounds
  <2>2. UNCHANGED faults \/ Fault
    BY <1>4, Writes DEF WorkerStep, Take, Acknowledge, Check, MarkRunning, MarkStarted,
       EvaluatePolicy, Block, CheckTimeout, CheckCancel, StartNode, EndNode, CompleteDag, DagWrites,
       ReturnFromDag, BeginReward, ComputeReward, UpdateTrust, Catch, CheckTerminal, Classify,
       FinalCheck, MarkCancelled, MarkEnd, Complete, HandlerAlone, bounds, NoWrite, AppendOnce
  <2> QED BY <2>1, <2>2, CleanBefore
<1>5. CASE Beat \/ EndBeat
  BY <1>5, HeartBeats, CleanBefore
<1> QED BY <1>1, <1>2, <1>3, <1>4, <1>5 DEF Next, Done

\* An append puts its event on a row of its own, after all others.
LEMMA RowsGrow ==
  ASSUME TypeOK, NEW e \in EventSet, log' = Append(log, e)
  PROVE  /\ \A t : Rows(t)' = Rows(t) \cup (IF e.type = t THEN {Len(log) + 1} ELSE {})
         /\ \A t : \A i \in Rows(t) : log'[i] = log[i] /\ i < Len(log) + 1
         /\ log'[Len(log) + 1] = e
<1>1. /\ DOMAIN log' = 1 .. Len(log) + 1 /\ DOMAIN log = 1 .. Len(log) /\ Len(log) \in Nat
      /\ \A i \in DOMAIN log : log'[i] = log[i]
      /\ log'[Len(log) + 1] = e
  BY DEF TypeOK
<1> QED BY <1>1 DEF Rows

\* The events of LoggedOnce are appended only where they are not logged.
LEMMA NotYetLogged ==
  ASSUME TypeOK, HandlerInv, NEW e \in EventSet, Licence(e),
         e.type \in {"WORKER_STARTED", "RUN_COMPLETED", "RUN_CANCELLED", "DAG_COMPLETED",
                     "REWARD_COMPUTED", "TRUST_UPDATED"}
  PROVE  ~Logged(e.type)
BY DEF Licence, HandlerInv, EndInv, StartInv, RewardInv, Live, Control

LEMMA NextLoggedOnce == TypeOK /\ HandlerInv /\ LoggedOnce /\ [Next]_vars => LoggedOnce'
<1> SUFFICES ASSUME TypeOK, HandlerInv, LoggedOnce, [Next]_vars PROVE LoggedOnce'
  OBVIOUS
<1>1. CASE log' = log
  BY <1>1 DEF LoggedOnce, AtMostOne, Rows
<1>2. ASSUME NEW e \in EventSet, log' = Append(log, e), Licence(e) PROVE LoggedOnce'
  <2>1. \A t : Rows(t)' = Rows(t) \cup (IF e.type = t THEN {Len(log) + 1} ELSE {})
    BY <1>2, RowsGrow
  <2>2. ASSUME NEW t \in {"WORKER_STARTED", "RUN_COMPLETED", "RUN_CANCELLED", "DAG_COMPLETED",
                          "REWARD_COMPUTED", "TRUST_UPDATED"}
        PROVE  AtMostOne(Rows(t)')
    <3>1. CASE e.type = t
      <4>1. Rows(t) = {}
        BY <1>2, <3>1, NotYetLogged DEF Logged
      <4> QED BY <2>1, <3>1, <4>1 DEF AtMostOne
    <3>2. CASE e.type # t
      BY <2>1, <3>2 DEF LoggedOnce, AtMostOne
    <3> QED BY <3>1, <3>2
  <2> QED BY <2>2 DEF LoggedOnce, AtMostOne
<1> QED BY <1>1, <1>2, NextLicensed DEF Licensed

\* The worker logs WORKER_STARTED, RUN_COMPLETED, RUN_CANCELLED, DAG_COMPLETED and the
\* two events of the reward at most once, whatever its crashes, the redeliveries of the
\* job and the appends that fail after they were committed.
THEOREM OnceEach == Spec => []LoggedOnce
<1>1. Init => LoggedOnce
  BY DEF Init, LoggedOnce, AtMostOne, Rows
<1> QED BY <1>1, InitType, NextType, InitHandler, NextHandler, NextLoggedOnce, PTL DEF Spec

LEMMA NextRewarded == TypeOK /\ HandlerInv /\ Rewarded /\ [Next]_vars => Rewarded'
<1> SUFFICES ASSUME TypeOK, HandlerInv, Rewarded, [Next]_vars PROVE Rewarded'
  OBVIOUS
<1> DEFINE Earned == /\ LoggedAs("DAG_COMPLETED", "ok") /\ ~Logged("RUN_CANCELLED")
                     /\ Logged("TRUST_UPDATED") \/ ~Clean
<1>0. /\ Rewarded <=> (LoggedAs("RUN_COMPLETED", "ok") => Earned)
      /\ Earned' /\ TypeOK' => Rewarded'
      /\ Clean' => Clean
  BY CleanStays DEF Rewarded, Clean, TypeOK
<1>1. CASE log' = log
  <2>1. /\ LoggedAs("RUN_COMPLETED", "ok")' => LoggedAs("RUN_COMPLETED", "ok")
        /\ Earned => Earned'
    BY <1>0, <1>1, NoAppend
  <2> QED BY <1>0, <2>1, NextType DEF Rewarded
<1>2. ASSUME NEW e \in EventSet, log' = Append(log, e), Licence(e) PROVE Rewarded'
  <2>1. Logged("RUN_COMPLETED") /\ Logged("RUN_CANCELLED")' => Logged("RUN_CANCELLED")
    BY <1>2, Appends DEF Licence, HandlerInv, EndInv, Live, Control
  <2>2. CASE LoggedAs("RUN_COMPLETED", "ok")
    <3>1. Logged("RUN_COMPLETED")
      BY <2>2 DEF LoggedAs, Logged
    <3>2. Earned'
      BY <1>0, <1>2, <2>1, <2>2, <3>1, Appends
    <3> QED BY <1>0, <3>2, NextType
  <2>3. CASE ~LoggedAs("RUN_COMPLETED", "ok") /\ LoggedAs("RUN_COMPLETED", "ok")'
    <3>1. e.type = "RUN_COMPLETED" /\ e.arg = "ok"
      BY <1>2, <2>3, Appends
    <3>2. pc = "complete" /\ ok = TRUE
      BY <1>2, <3>1 DEF Licence, Verdict, TypeOK
    <3>3. Earned
      BY <3>2 DEF HandlerInv, OkInv, Live, Control
    <3>4. Earned'
      BY <1>0, <1>2, <3>1, <3>3, Appends
    <3> QED BY <1>0, <3>4, NextType
  <2>4. CASE ~LoggedAs("RUN_COMPLETED", "ok")'
    BY <2>4 DEF Rewarded
  <2> QED BY <2>2, <2>3, <2>4
<1> QED BY <1>1, <1>2, NextLicensed DEF Licensed

\* FinalCheck sends only a run that nobody has cancelled to a good end.
LEMMA EntersEnd ==
  TypeOK /\ HandlerInv /\ [Next]_vars /\ SaysOk' => SaysOk \/ (log' = log /\ ~IsRunCancelled)
<1> SUFFICES ASSUME TypeOK, HandlerInv, [Next]_vars, SaysOk', ~SaysOk
             PROVE  log' = log /\ ~IsRunCancelled
  OBVIOUS
<1> USE DEF SaysOk
<1>1. CASE UNCHANGED vars \/ ApiStep \/ Beat \/ EndBeat
  BY <1>1 DEF vars, ApiStep, Create, RecordMessage, Execute, MarkQueued, AddJob, Announce,
     Cancel, RequestCancel, WorkerAlone, Beat, EndBeat, memory
<1>2. CASE FinalCheck
  <2>1. pc = "final" /\ pc' = "status" /\ log' = log
    BY <1>2 DEF FinalCheck, NoWrite, Goes
  <2>2. ~Logged("RUN_CANCELLED")
    BY <2>1 DEF HandlerInv, EndInv, Live, Control
  <2> QED BY <1>2, <2>1, <2>2 DEF FinalCheck, Goes
<1>3. CASE MarkCancelled
  BY <1>3 DEF MarkCancelled, Goes
<1>4. CASE Crash \/ Take \/ Acknowledge
  BY <1>4 DEF Crash, Take, Acknowledge
<1>5. CASE WorkerStep /\ ~FinalCheck /\ ~MarkCancelled /\ ~Take /\ ~Acknowledge
  BY <1>5 DEF WorkerStep, Check, MarkRunning, MarkStarted, EvaluatePolicy,
     Block, CheckTimeout, CheckCancel, StartNode, EndNode, CompleteDag, DagWrites, ReturnFromDag,
     BeginReward, ComputeReward, UpdateTrust, Catch, CheckTerminal, Classify,
     MarkEnd, Complete, Goes, Raises, AppendOnce
<1> QED BY <1>1, <1>2, <1>3, <1>4, <1>5 DEF Next, Done

LEMMA NextOkOrder == TypeOK /\ HandlerInv /\ OkOrder /\ [Next]_vars => OkOrder'
<1> SUFFICES ASSUME TypeOK, HandlerInv, OkOrder, [Next]_vars PROVE OkOrder'
  OBVIOUS
<1>1. CASE log' = log
  <2>1. /\ Rows("DAG_COMPLETED")' = Rows("DAG_COMPLETED")
        /\ Rows("RUN_CANCEL_REQUESTED")' = Rows("RUN_CANCEL_REQUESTED")
        /\ LoggedAs("RUN_COMPLETED", "ok")' => LoggedAs("RUN_COMPLETED", "ok")
    BY <1>1, NoAppend DEF Rows
  <2>2. SaysOk' => CancelledLate
    BY EntersEnd DEF OkOrder, IsRunCancelled, Logged, CancelledLate
  <2> QED BY <1>1, <2>1, <2>2 DEF OkOrder, CancelledLate
<1>2. ASSUME NEW e \in EventSet, log' = Append(log, e), Licence(e) PROVE OkOrder'
  <2> DEFINE n == Len(log) + 1
  <2>1. /\ \A t : Rows(t)' = Rows(t) \cup (IF e.type = t THEN {n} ELSE {})
        /\ \A t : \A i \in Rows(t) : log'[i] = log[i] /\ i < n
        /\ log'[n] = e
    BY <1>2, RowsGrow
  <2>2. /\ DOMAIN log' = DOMAIN log \cup {n} /\ \A i \in DOMAIN log : log'[i] = log[i] /\ i < n
        /\ log' # log
    BY <1>2 DEF TypeOK
  <2>3. \A d \in Rows("DAG_COMPLETED")' : \A i \in DOMAIN log' : log'[i].type \in DagEvents => i < d
    <3>1. CASE e.type \in DagEvents \cup {"DAG_COMPLETED"}
      <4>1. Rows("DAG_COMPLETED") = {}
        BY <1>2, <3>1 DEF Licence, Logged
      <4> QED BY <2>1, <2>2, <3>1, <4>1 DEF DagEvents
    <3>2. CASE e.type \notin DagEvents \cup {"DAG_COMPLETED"}
      <4>1. Rows("DAG_COMPLETED")' = Rows("DAG_COMPLETED")
        BY <2>1, <3>2
      <4> QED BY <2>1, <2>2, <3>2, <4>1 DEF OkOrder
    <3> QED BY <3>1, <3>2
  <2>4. ASSUME SaysOk' \/ LoggedAs("RUN_COMPLETED", "ok")' PROVE CancelledLate'
    <3>1. CASE SaysOk \/ LoggedAs("RUN_COMPLETED", "ok")
      <4>1. CancelledLate
        BY <3>1 DEF OkOrder
      <4>2. pc # "dag"
        BY <3>1 DEF SaysOk, HandlerInv, EndInv, Live, Control, LoggedAs, Logged
      <4>3. Rows("DAG_COMPLETED")' = Rows("DAG_COMPLETED")
        BY <1>2, <2>1, <4>2 DEF Licence
      <4> QED BY <2>1, <4>1, <4>3 DEF CancelledLate
    <3>2. CASE ~SaysOk /\ ~LoggedAs("RUN_COMPLETED", "ok")
      <4>1. LoggedAs("RUN_COMPLETED", "ok")'
        BY <2>2, <2>4, <3>2, EntersEnd
      <4>2. e.type = "RUN_COMPLETED" /\ e.arg = "ok"
        BY <1>2, <3>2, <4>1, Appends
      <4>3. SaysOk
        BY <1>2, <4>2 DEF Licence, Verdict, TypeOK, SaysOk
      <4> QED BY <3>2, <4>3
    <3> QED BY <3>1, <3>2
  <2> QED BY <2>3, <2>4 DEF OkOrder
<1> QED BY <1>1, <1>2, NextLicensed DEF Licensed

\* A run is reported as ok only for a DAG that succeeded, all of whose events come before
\* its end; a request to cancel the run comes after that end if at all, and no
\* RUN_CANCELLED is logged; the run misses its update of the trust only if a call failed
\* or a worker died.
THEOREM OkEarned == Spec => []OkIsEarned
<1>1. Init => Rewarded /\ OkOrder
  BY DEF Init, Rewarded, OkOrder, LoggedAs, Rows, SaysOk
<1>2. Rewarded /\ OkOrder => OkIsEarned
  <2> SUFFICES ASSUME Rewarded, OkOrder, LoggedAs("RUN_COMPLETED", "ok")
               PROVE  /\ \E d \in Rows("DAG_COMPLETED") :
                           /\ log[d].arg = "ok"
                           /\ \A i \in DOMAIN log : log[i].type \in DagEvents => i < d
                           /\ \A c \in Rows("RUN_CANCEL_REQUESTED") : d < c
                      /\ ~Logged("RUN_CANCELLED")
                      /\ Logged("TRUST_UPDATED") \/ faults > 0 \/ crashes > 0
    BY DEF OkIsEarned
  <2>1. PICK d \in Rows("DAG_COMPLETED") : log[d].arg = "ok"
    BY DEF Rewarded, LoggedAs
  <2>2. /\ \A i \in DOMAIN log : log[i].type \in DagEvents => i < d
        /\ \A c \in Rows("RUN_CANCEL_REQUESTED") : d < c
    BY <2>1 DEF OkOrder, CancelledLate
  <2> QED BY <2>1, <2>2 DEF Rewarded
<1> QED BY <1>1, <1>2, InitType, NextType, InitHandler, NextHandler, NextRewarded, NextOkOrder,
        PTL DEF Spec

\* Once the run has completed no heartbeat begins, and what is still appended, by a
\* heartbeat that was under way or by a request, leaves worker and queue alone.
THEOREM EndIsLeft == Spec => WorkerLeavesTheEnd
<1>1. TypeOK /\ HandlerInv /\ [Next]_vars =>
        [Logged("RUN_COMPLETED") => /\ inFlight' => inFlight
                                    /\ log' # log => UNCHANGED <<pc, queue>>]_vars
  <2> SUFFICES ASSUME TypeOK, HandlerInv, [Next]_vars, Logged("RUN_COMPLETED")
               PROVE  /\ inFlight' => inFlight
                      /\ log' # log => UNCHANGED <<pc, queue>>
    OBVIOUS
  <2>1. ASSUME log' # log PROVE UNCHANGED <<pc, queue>>
    <3>1. PICK e \in EventSet : Licence(e)
      BY <2>1, NextLicensed DEF Licensed
    <3> QED BY <3>1 DEF Licence, HandlerInv, EndInv
  <2>2. ~Beat
    BY DEF Beat, Beating, HandlerInv, EndInv, Live, Control
  <2>3. CASE ApiStep \/ WorkerStep
    <3>1. UNCHANGED inFlight
      BY <2>3 DEF ApiStep, Create, RecordMessage, Execute, MarkQueued, AddJob, Announce,
         Cancel, RequestCancel, WorkerAlone, WorkerStep, Take, Acknowledge, Check, MarkRunning,
         MarkStarted, EvaluatePolicy, Block, CheckTimeout, CheckCancel, StartNode, EndNode,
         CompleteDag, DagWrites, ReturnFromDag, BeginReward, ComputeReward, UpdateTrust, Catch,
         CheckTerminal, Classify, FinalCheck, MarkCancelled, MarkEnd, Complete, HandlerAlone
    <3> QED BY <2>1, <3>1
  <2>4. CASE Crash \/ EndBeat \/ UNCHANGED vars
    BY <2>1, <2>4 DEF Crash, EndBeat, vars
  <2> QED BY <2>1, <2>2, <2>3, <2>4 DEF Next, Done
<1> QED BY <1>1, InitType, NextType, InitHandler, NextHandler, PTL DEF Spec, WorkerLeavesTheEnd

\* What CheckCancel finds, and no request before it has done otherwise.
LEMMA EntersDag ==
  TypeOK /\ [Next]_vars /\ pc' = "dag" => \/ pc = "dag"
                                          \/ log' = log /\ ~IsRunCancelled
<1> SUFFICES ASSUME TypeOK, [Next]_vars, pc' = "dag", pc # "dag"
             PROVE  log' = log /\ ~IsRunCancelled
  OBVIOUS
<1>1. CASE UNCHANGED vars \/ ApiStep \/ Beat \/ EndBeat
  BY <1>1 DEF vars, ApiStep, Create, RecordMessage, Execute, MarkQueued, AddJob, Announce,
     Cancel, RequestCancel, WorkerAlone, Beat, EndBeat
<1>2. CASE CheckCancel
  BY <1>2 DEF CheckCancel, NoWrite, Goes, Raises
<1>3. CASE WorkerStep /\ ~CheckCancel
  BY <1>3 DEF WorkerStep, Take, Acknowledge, Check, MarkRunning, MarkStarted, EvaluatePolicy,
     Block, CheckTimeout, StartNode, EndNode, CompleteDag, DagWrites, ReturnFromDag,
     BeginReward, ComputeReward, UpdateTrust, Catch, CheckTerminal, Classify, FinalCheck,
     MarkCancelled, MarkEnd, Complete, Goes, Raises, AppendOnce
<1>4. CASE Crash
  BY <1>4 DEF Crash
<1> QED BY <1>1, <1>2, <1>3, <1>4 DEF Next, Done

LEMMA NextCancel == TypeOK /\ HandlerInv /\ CancelInv /\ CancelHolds /\ [Next]_vars
                      => CancelInv' /\ CancelHolds'
<1> SUFFICES ASSUME TypeOK, HandlerInv, CancelInv, CancelHolds, [Next]_vars
             PROVE  CancelInv' /\ CancelHolds'
  OBVIOUS
<1>1. CASE log' = log
  <2>1. \A t : Rows(t)' = Rows(t)
    BY <1>1 DEF Rows
  <2>2. CancelHolds'
    BY <1>1, <2>1 DEF CancelHolds
  <2>3. ASSUME pc' = "dag" PROVE pc = "dag" \/ Rows("RUN_CANCEL_REQUESTED") = {}
    BY <2>3, EntersDag DEF IsRunCancelled, Logged
  <2> QED BY <1>1, <2>1, <2>2, <2>3 DEF CancelInv
<1>2. ASSUME NEW e \in EventSet, log' = Append(log, e), Licence(e)
      PROVE  CancelInv' /\ CancelHolds'
  <2> DEFINE n == Len(log) + 1
             Early(i) == log[i].arg = "API" /\ \E s \in Rows("WORKER_STARTED") : s < i
  <2>0. log' # log
    BY <1>2 DEF TypeOK
  <2>1. /\ \A t : Rows(t)' = Rows(t) \cup (IF e.type = t THEN {n} ELSE {})
        /\ \A t : \A i \in Rows(t) : log'[i] = log[i] /\ i < n
        /\ log'[n] = e
    BY <1>2, RowsGrow
  <2>2. n \notin Rows("RUN_CANCEL_REQUESTED") /\ \A t : \A i \in Rows(t) : i < n /\ ~(n < i)
    <3>1. \A i \in DOMAIN log : i \in Int
      BY DEF TypeOK
    <3> QED BY <2>1, <3>1 DEF Rows, TypeOK
  <2>3. ASSUME NEW i \in Rows("RUN_CANCEL_REQUESTED"), Early(i)
        PROVE  log'[i].arg = "API" /\ \E s \in Rows("WORKER_STARTED")' : s < i
    BY <2>1, <2>3
  <2>4. CASE e.type = "NODE_STARTED"
    <3>1. pc = "dag"
      BY <1>2, <2>4 DEF Licence, DagEvents
    <3>2. /\ Rows("RUN_CANCEL_REQUESTED")' = Rows("RUN_CANCEL_REQUESTED")
          /\ \A i \in Rows("RUN_CANCEL_REQUESTED") : Early(i)
      BY <2>1, <2>4, <3>1 DEF CancelInv
    <3> QED BY <2>3, <3>2 DEF CancelInv, CancelHolds
  <2>5. CASE e.type = "RUN_CANCEL_REQUESTED"
    <3>1. /\ Rows("NODE_STARTED")' = Rows("NODE_STARTED")
          /\ Rows("RUN_CANCEL_REQUESTED")' = Rows("RUN_CANCEL_REQUESTED") \cup {n}
      BY <2>1, <2>5
    <3>2. CancelHolds'
      BY <2>2, <2>3, <3>1 DEF CancelHolds
    <3>3. ASSUME pc' = "dag" PROVE CancelInv'
      <4>1. pc = "dag" /\ e.arg = "API"
        BY <1>2, <2>0, <2>5, <3>3, EntersDag DEF Licence
      <4>2. PICK s \in Rows("WORKER_STARTED") : s < n
        BY <2>1, <4>1 DEF HandlerInv, StartInv, Live, Control, Logged
      <4>3. s \in Rows("WORKER_STARTED")' /\ log'[n].arg = "API"
        BY <2>1, <4>1, <4>2
      <4> QED BY <2>3, <3>1, <4>1, <4>2, <4>3 DEF CancelInv
    <3> QED BY <3>2, <3>3 DEF CancelInv
  <2>6. CASE e.type \notin {"NODE_STARTED", "RUN_CANCEL_REQUESTED"}
    <3>1. /\ Rows("NODE_STARTED")' = Rows("NODE_STARTED")
          /\ Rows("RUN_CANCEL_REQUESTED")' = Rows("RUN_CANCEL_REQUESTED")
      BY <2>1, <2>6
    <3>2. CancelHolds'
      BY <2>3, <3>1 DEF CancelHolds
    <3>3. pc' = "dag" => pc = "dag"
      BY <2>0, EntersDag
    <3> QED BY <2>3, <3>1, <3>2, <3>3 DEF CancelInv
  <2> QED BY <2>4, <2>5, <2>6
<1> QED BY <1>1, <1>2, NextLicensed DEF Licensed

\* A request to cancel that was logged before the worker started keeps every node from
\* starting, and so does the policy gate's: after them nodes start only if the request
\* is one of the API and came while the run was under way.
THEOREM CancelIsHeld == Spec => []CancelHolds
<1>1. Init => CancelInv /\ CancelHolds
  BY DEF Init, CancelInv, CancelHolds, Rows
<1> QED BY <1>1, InitType, NextType, InitHandler, NextHandler, NextCancel, PTL DEF Spec

-----------------------------------------------------------------------------
(* StatusIsVerdict.                                                        *)

\* What a step does to requests, job and handler, as far as the status goes.
Queues ==
  /\ \A c \in Caller : caller'[c] \in {"add", "announce"} =>
       caller[c] \in {"add", "announce"} \/ log' = Append(log, Status("QUEUED"))
  /\ job' # "absent" => job # "absent" \/ \E c \in Caller : caller[c] = "add"
  /\ job # "absent" => job' # "absent"

Runs ==
  /\ pc' \in Live => \/ pc \in Live /\ seen \subseteq seen'
                     \/ log' = log /\ seen' = {Key(log[i]) : i \in DOMAIN log}
  /\ pc' \in Live \ {"running"} => \/ pc \in Live \ {"running"}
                                   \/ log' = log /\ <<"RUN_STATUS_CHANGED", "RUNNING">> \in seen
                                   \/ log' = Append(log, Status("RUNNING"))

Ends ==
  pc' = "complete" =>
    /\ ok' = ok
    /\ \/ pc = "complete"
       \/ pc = "status" /\ log' = log /\ <<"RUN_STATUS_CHANGED", EndStatus(ok)>> \in seen
       \/ pc = "status" /\ log' = Append(log, Status(EndStatus(ok)))

Redelivers ==
  /\ BeforeEnd' => \/ BeforeEnd /\ UNCHANGED stalls
                   \/ job = "absent"
                   \/ stalls = 0 /\ stalls' # 0
  /\ stalls' = 0 => stalls = 0

LEMMA ApiSteers == TypeOK /\ ApiStep => Queues /\ Runs /\ Ends /\ Redelivers
<1> SUFFICES ASSUME TypeOK, ApiStep PROVE Queues /\ Runs /\ Ends /\ Redelivers
  OBVIOUS
<1>0. UNCHANGED <<pc, seen, ok, stalls>> /\ (job # "absent" => UNCHANGED job)
  BY DEF ApiStep, Create, RecordMessage, Execute, MarkQueued, AddJob, Announce, Cancel,
     RequestCancel, WorkerAlone, memory, queue
<1>1. Runs /\ Ends /\ Redelivers
  BY <1>0 DEF Runs, Ends, Redelivers, BeforeEnd
<1>2. Queues
  <2>1. job' # "absent" => job # "absent" \/ \E c \in Caller : caller[c] = "add"
    BY DEF ApiStep, Create, RecordMessage, Execute, MarkQueued, AddJob, Announce, Cancel,
       RequestCancel, queue
  <2>2. ASSUME NEW c \in Caller, caller'[c] \in {"add", "announce"}
        PROVE  caller[c] \in {"add", "announce"} \/ log' = Append(log, Status("QUEUED"))
    <3> USE <2>2 DEF CallerGoes, TypeOK
    <3>1. CASE Create \/ RecordMessage
      BY <3>1 DEF Create, RecordMessage, Caller
    <3>2. CASE \E d \in Caller : Execute(d) \/ AddJob(d) \/ Announce(d)
      BY <3>2 DEF Execute, AddJob, Announce
    <3>3. CASE \E d \in Caller : MarkQueued(d)
      BY <3>3 DEF MarkQueued, Write
    <3>4. CASE \E d \in Cancels : Cancel(d) \/ RequestCancel(d)
      BY <3>4 DEF Cancel, RequestCancel
    <3> QED BY <3>1, <3>2, <3>3, <3>4 DEF ApiStep
  <2> QED BY <1>0, <2>1, <2>2 DEF Queues
<1> QED BY <1>1, <1>2

LEMMA WorkerSteers ==
  ASSUME MaxStalls <= 1
  PROVE  TypeOK /\ JobInv /\ (WorkerStep \/ Crash) => Queues /\ Runs /\ Ends /\ Redelivers
<1> SUFFICES ASSUME TypeOK, JobInv, WorkerStep \/ Crash
             PROVE  Queues /\ Runs /\ Ends /\ Redelivers
  OBVIOUS
<1>0. Queues
  BY DEF Queues, JobInv, HandlerAlone, ApiAlone, api, queue, WorkerStep, Crash, Take, Acknowledge,
     Check, MarkRunning, MarkStarted, EvaluatePolicy, Block, CheckTimeout, CheckCancel, StartNode,
     EndNode, CompleteDag, DagWrites, ReturnFromDag, BeginReward, ComputeReward, UpdateTrust,
     Catch, CheckTerminal, Classify, FinalCheck, MarkCancelled, MarkEnd, Complete
<1>1. CASE Take \/ Acknowledge
  BY <1>0, <1>1 DEF Take, Acknowledge, Runs, Ends, Redelivers, BeforeEnd, Live, Control
<1>2. CASE Crash
  <2>1. pc' = "off" /\ (job' = "waiting" => stalls = 0 /\ stalls' # 0) /\ (stalls' = 0 => stalls = 0)
    BY <1>2, LifecycleAssumption DEF Crash, TypeOK
  <2> QED BY <1>0, <2>1 DEF Runs, Ends, Redelivers, BeforeEnd, Live, Control
<1>3. CASE Check
  BY <1>0, <1>3 DEF Check, NoWrite, Goes, HandlerAlone, queue, Runs, Ends, Redelivers,
     BeforeEnd, Live, Control
<1>4. CASE MarkRunning
  BY <1>0, <1>4 DEF MarkRunning, AppendOnce, Write, NoWrite, Goes, HandlerAlone, queue, Key,
     Status, Event, Runs, Ends, Redelivers, BeforeEnd, Live, Control
<1>5. CASE MarkEnd
  <2>1. /\ pc = "status" /\ pc' \in {"complete", "throw"} /\ seen \subseteq seen'
        /\ UNCHANGED <<ok, stalls>>
    BY <1>5 DEF MarkEnd, AppendOnce, Goes, HandlerAlone, queue
  <2>2. pc' = "complete" => \/ log' = log /\ <<"RUN_STATUS_CHANGED", EndStatus(ok)>> \in seen
                            \/ log' = Append(log, Status(EndStatus(ok)))
    BY <1>5 DEF MarkEnd, AppendOnce, Write, NoWrite, Goes, Key, Status, Event, EndStatus
  <2>3. job' # "waiting"
    BY <1>5 DEF MarkEnd, HandlerAlone, queue, JobInv
  <2> QED BY <1>0, <2>1, <2>2, <2>3 DEF Runs, Ends, Redelivers, BeforeEnd, Live, Control
<1>6. CASE Complete
  BY <1>0, <1>6 DEF Complete, AppendOnce, Goes, HandlerAlone, queue, JobInv, Runs, Ends,
     Redelivers, BeforeEnd, Live, Control
<1>7. CASE \/ MarkStarted \/ EvaluatePolicy \/ Block \/ CheckTimeout \/ CheckCancel \/ StartNode
           \/ EndNode \/ CompleteDag \/ ReturnFromDag \/ BeginReward \/ ComputeReward \/ UpdateTrust
           \/ Catch \/ CheckTerminal \/ Classify \/ FinalCheck \/ MarkCancelled
  <2>1. UNCHANGED stalls /\ seen \subseteq seen'
    BY <1>7 DEF HandlerAlone, queue, memory, MarkStarted, EvaluatePolicy, Block, CheckTimeout,
       CheckCancel, StartNode, EndNode, CompleteDag, DagWrites, ReturnFromDag, BeginReward,
       ComputeReward, UpdateTrust, Catch, CheckTerminal, Classify, FinalCheck, MarkCancelled,
       AppendOnce
  <2>2. pc \in Live \ {"running", "complete"} /\ pc' # "complete"
    BY <1>7 DEF Goes, Raises, MarkStarted, EvaluatePolicy, Block, CheckTimeout,
       CheckCancel, StartNode, EndNode, CompleteDag, DagWrites, ReturnFromDag, BeginReward,
       ComputeReward, UpdateTrust, Catch, CheckTerminal, Classify, FinalCheck, MarkCancelled,
       AppendOnce, Live, Control
  <2> QED BY <1>0, <2>1, <2>2 DEF Runs, Ends, Redelivers, BeforeEnd
<1> QED BY <1>1, <1>2, <1>3, <1>4, <1>5, <1>6, <1>7 DEF WorkerStep

LEMMA NextSteers ==
  ASSUME MaxStalls <= 1
  PROVE  TypeOK /\ HandlerInv /\ [Next]_vars => Queues /\ Runs /\ Ends /\ Redelivers
<1> SUFFICES ASSUME TypeOK, HandlerInv, [Next]_vars
             PROVE  Queues /\ Runs /\ Ends /\ Redelivers
  OBVIOUS
<1>1. CASE UNCHANGED vars
  BY <1>1 DEF vars, queue, api, memory, Queues, Runs, Ends, Redelivers, BeforeEnd
<1>2. CASE Beat \/ EndBeat
  BY <1>2, HeartBeats DEF queue, api, memory, Queues, Runs, Ends, Redelivers, BeforeEnd
<1> QED BY <1>1, <1>2, ApiSteers, WorkerSteers DEF Next, Done, HandlerInv

LEMMA QueuedForm ==
  ASSUME NEW e \in EventSet
  PROVE  e = Status("QUEUED") <=> e.type = "RUN_STATUS_CHANGED" /\ e.arg = "QUEUED"
<1>1. e.type = "RUN_STATUS_CHANGED" => e = Status(e.arg)
  BY DEF EventSet, Status, Event
<1>2. Status("QUEUED").type = "RUN_STATUS_CHANGED" /\ Status("QUEUED").arg = "QUEUED"
  BY DEF Status, Event
<1> QED BY <1>1, <1>2

\* The status rows: QUEUED, RUNNING and the final ones.
LEMMA StatusRows ==
  ASSUME TypeOK
  PROVE  /\ \A i \in Rows("RUN_STATUS_CHANGED") : log[i] = Status(log[i].arg)
                                                  /\ log[i].arg \in StatusName /\ i \in Nat
         /\ Queued = {i \in Rows("RUN_STATUS_CHANGED") : log[i].arg = "QUEUED"}
<1>1. \A i \in DOMAIN log : log[i] \in EventSet /\ i \in Nat
  BY DEF TypeOK
<1>2. \A i \in Rows("RUN_STATUS_CHANGED") : log[i] = Status(log[i].arg) /\ log[i].arg \in StatusName
  BY <1>1 DEF Rows, EventSet, Status, Event
<1> QED BY <1>1, <1>2 DEF Queued, Rows, Status, Event

\* The status stays.
StatusStays ==
  /\ Rows("RUN_STATUS_CHANGED")' = Rows("RUN_STATUS_CHANGED")
  /\ Queued' = Queued /\ Finals' = Finals
  /\ \A i \in Rows("RUN_STATUS_CHANGED") : log'[i] = log[i]
  /\ \A s : LoggedAs("RUN_STATUS_CHANGED", s)' <=> LoggedAs("RUN_STATUS_CHANGED", s)
  /\ \A s \in StatusName : log' # Append(log, Status(s))

\* Row n is the new status s.
StatusBecomes(s, n) ==
  /\ log' = Append(log, Status(s))
  /\ Rows("RUN_STATUS_CHANGED")' = Rows("RUN_STATUS_CHANGED") \cup {n}
  /\ \A i \in Rows("RUN_STATUS_CHANGED") : log'[i] = log[i] /\ i \in Nat /\ i < n /\ ~(n < i)
  /\ n \in Nat /\ log'[n].arg = s
  /\ Queued' = Queued \cup (IF s = "QUEUED" THEN {n} ELSE {})
  /\ Finals' = Finals \cup (IF s \in {"SUCCEEDED", "FAILED"} THEN {n} ELSE {})
  /\ \A t : LoggedAs("RUN_STATUS_CHANGED", t)' <=> LoggedAs("RUN_STATUS_CHANGED", t) \/ t = s
  /\ Rows("RUN_COMPLETED")' = Rows("RUN_COMPLETED")
  /\ \A i \in Rows("RUN_COMPLETED") : log'[i] = log[i]

LEMMA OldStatus ==
  ASSUME TypeOK, TypeOK', NEW e \in EventSet, e.type # "RUN_STATUS_CHANGED",
         log' \in {log, Append(log, e)}
  PROVE  StatusStays
<1>1. /\ Rows("RUN_STATUS_CHANGED")' = Rows("RUN_STATUS_CHANGED")
      /\ \A i \in Rows("RUN_STATUS_CHANGED") : log'[i] = log[i]
  BY RowsGrow DEF Rows
<1>2. Queued' = Queued
  <2>1. Queued' = {i \in Rows("RUN_STATUS_CHANGED")' : log'[i].arg = "QUEUED"}
    <3>1. \A i \in DOMAIN log' : log'[i] \in EventSet
      BY DEF TypeOK
    <3> QED BY <3>1, QueuedForm DEF Queued, Rows
  <2> QED BY <1>1, <2>1, StatusRows
<1>3. Finals' = Finals
  BY <1>1 DEF Finals
<1>4. \A s : LoggedAs("RUN_STATUS_CHANGED", s)' <=> LoggedAs("RUN_STATUS_CHANGED", s)
  BY <1>1 DEF LoggedAs
<1>5. \A s \in StatusName : log' # Append(log, Status(s))
  <2> SUFFICES ASSUME NEW s \in StatusName, log' = Append(log, Status(s)) PROVE FALSE
    OBVIOUS
  <2>1. log' # log /\ log'[Len(log) + 1] = Status(s)
    BY DEF TypeOK
  <2>2. log'[Len(log) + 1] = e
    BY <2>1 DEF TypeOK
  <2> QED BY <2>1, <2>2 DEF Status, Event
<1> QED BY <1>1, <1>2, <1>3, <1>4, <1>5 DEF StatusStays

LEMMA NewStatus ==
  ASSUME TypeOK, TypeOK', NEW s \in StatusName, log' = Append(log, Status(s))
  PROVE  StatusBecomes(s, Len(log) + 1)
<1> DEFINE n == Len(log) + 1
<1>1. Status(s) \in EventSet /\ Status(s).type = "RUN_STATUS_CHANGED" /\ Status(s).arg = s
  BY Events DEF Status, Event
<1>2. /\ Rows("RUN_STATUS_CHANGED")' = Rows("RUN_STATUS_CHANGED") \cup {n}
      /\ Rows("RUN_COMPLETED")' = Rows("RUN_COMPLETED")
      /\ \A t : \A i \in Rows(t) : log'[i] = log[i] /\ i < n
      /\ log'[n] = Status(s) /\ log'[n].arg = s
  BY <1>1, RowsGrow, ZenonT(60)
<1>3. /\ n \in Nat /\ \A i \in Rows("RUN_STATUS_CHANGED") : i \in Nat /\ i < n /\ ~(n < i)
      /\ n \notin Rows("RUN_STATUS_CHANGED")
  <2>1. n \in Nat
    BY DEF TypeOK
  <2> QED BY <1>2, <2>1, StatusRows
<1>4. Queued' = Queued \cup (IF s = "QUEUED" THEN {n} ELSE {})
  <2>1. Queued' = {i \in Rows("RUN_STATUS_CHANGED")' : log'[i].arg = "QUEUED"}
    <3>1. \A i \in DOMAIN log' : log'[i] \in EventSet
      BY DEF TypeOK
    <3> QED BY <3>1, QueuedForm DEF Queued, Rows
  <2> QED BY <1>2, <2>1, StatusRows
<1>5. Finals' = Finals \cup (IF s \in {"SUCCEEDED", "FAILED"} THEN {n} ELSE {})
  BY <1>2 DEF Finals
<1>6. \A t : LoggedAs("RUN_STATUS_CHANGED", t)' <=> LoggedAs("RUN_STATUS_CHANGED", t) \/ t = s
  BY <1>2 DEF LoggedAs
<1> QED BY <1>2, <1>3, <1>4, <1>5, <1>6 DEF StatusBecomes

LEMMA StatusStep ==
  ASSUME TypeOK, [Next]_vars
  PROVE  \/ StatusStays
         \/ \E s \in StatusName, n \in Nat : StatusBecomes(s, n) /\ StatusLicence(s)
<1>0. TypeOK'
  BY NextType
<1>1. CASE log' = log
  BY <1>0, <1>1, OldStatus, Events DEF Event
<1>2. ASSUME NEW e \in EventSet, log' = Append(log, e), Licence(e), e.type # "RUN_STATUS_CHANGED"
      PROVE  StatusStays
  BY <1>0, <1>2, OldStatus
<1>3. ASSUME NEW e \in EventSet, log' = Append(log, e), Licence(e), e.type = "RUN_STATUS_CHANGED"
      PROVE  \E s \in StatusName, n \in Nat : StatusBecomes(s, n) /\ StatusLicence(s)
  <2>1. e = Status(e.arg) /\ e.arg \in StatusName
    BY <1>3 DEF EventSet, Status, Event
  <2>2. StatusBecomes(e.arg, Len(log) + 1) /\ Len(log) + 1 \in Nat
    BY <1>0, <1>3, <2>1, NewStatus DEF TypeOK
  <2>3. StatusLicence(e.arg)
    BY <1>3 DEF Licence
  <2> QED BY <2>1, <2>2, <2>3
<1> QED BY <1>1, <1>2, <1>3, NextLicensed DEF Licensed

LEMMA InitStatus == Init => StatusInv
<1> SUFFICES ASSUME Init PROVE StatusInv
  OBVIOUS
<1>1. log = <<>> /\ job = "absent" /\ pc = "off" /\ \A c \in Caller : caller[c] = "idle"
  BY DEF Init
<1>2. \A t : Rows(t) = {}
  BY <1>1 DEF Rows
<1>3. Queued = {} /\ Finals = {}
  BY <1>1, <1>2 DEF Queued, Finals
<1> QED BY <1>1, <1>2, <1>3
    DEF StatusInv, QueueInv, OrderInv, VerdictInv, BeforeEnd, AtMostOne, Live, Control

LEMMA NextQueueInv ==
  ASSUME TypeOK, JobInv, QueueInv, Queues, Runs,
         \/ StatusStays
         \/ \E s \in StatusName, n \in Nat : StatusBecomes(s, n) /\ StatusLicence(s)
  PROVE  QueueInv'
<1>1. \A s \in StatusName \ {"QUEUED"} :
        /\ <<"RUN_STATUS_CHANGED", s>> \in seen => LoggedAs("RUN_STATUS_CHANGED", s)
        /\ LoggedAs("RUN_STATUS_CHANGED", s)
             => <<"RUN_STATUS_CHANGED", s>> \in {Key(log[i]) : i \in DOMAIN log}
  <2>1. ASSUME NEW s \in StatusName, LoggedAs("RUN_STATUS_CHANGED", s)
        PROVE  <<"RUN_STATUS_CHANGED", s>> \in {Key(log[i]) : i \in DOMAIN log}
    BY <2>1 DEF LoggedAs, Rows, Key
  <2> QED BY <2>1, SeenLogged
<1>2. "RUNNING" \in StatusName \ {"QUEUED"}
  BY DEF StatusName
<1>3. CASE StatusStays
  <2> USE <1>3 DEF StatusStays
  <2>1. \A c \in Caller : caller'[c] \in {"add", "announce"} => caller[c] \in {"add", "announce"}
    BY DEF Queues, StatusName
  <2>2. job' # "absent" => Queued' # {}
    BY DEF QueueInv, Queues
  <2>3. Rows("RUN_STATUS_CHANGED")' # Queued' => job' # "absent"
    BY DEF QueueInv, Queues
  <2>4. pc' \in Live \ {"running"} => LoggedAs("RUN_STATUS_CHANGED", "RUNNING")'
    BY <1>1, <1>2 DEF QueueInv, Runs
  <2>5. pc' \in Live => \A s \in StatusName \ {"QUEUED"} :
          LoggedAs("RUN_STATUS_CHANGED", s)' => <<"RUN_STATUS_CHANGED", s>> \in seen'
    BY <1>1 DEF QueueInv, Runs
  <2> QED BY <2>1, <2>2, <2>3, <2>4, <2>5 DEF QueueInv
<1>4. ASSUME NEW s \in StatusName, NEW n \in Nat, StatusBecomes(s, n), StatusLicence(s)
      PROVE  QueueInv'
  <2> USE <1>4 DEF StatusBecomes
  <2>0. s # "QUEUED" => job # "absent" /\ pc \in Live /\ pc # "off"
    BY DEF StatusLicence, JobInv, EndStatus, Live, Control
  <2>1. \A c \in Caller : caller'[c] \in {"add", "announce"} => Queued' # {}
    <3>1. CASE s = "QUEUED"
      BY <3>1
    <3>2. CASE s # "QUEUED"
      BY <2>0, <3>2 DEF QueueInv
    <3> QED BY <3>1, <3>2
  <2>2. job' # "absent" => Queued' # {}
    <3>1. CASE s = "QUEUED"
      BY <3>1
    <3>2. CASE s # "QUEUED"
      BY <2>0, <3>2 DEF QueueInv
    <3> QED BY <3>1, <3>2
  <2>3. Rows("RUN_STATUS_CHANGED")' # Queued' => job' # "absent"
    <3>1. CASE s = "QUEUED"
      BY <3>1 DEF QueueInv, Queues
    <3>2. CASE s # "QUEUED"
      BY <2>0, <3>2 DEF Queues
    <3> QED BY <3>1, <3>2
  <2>4. pc' \in Live \ {"running"} => LoggedAs("RUN_STATUS_CHANGED", "RUNNING")'
    <3>1. s \in {"SUCCEEDED", "FAILED"} => pc \in Live \ {"running"}
      BY DEF StatusLicence, EndStatus, Live, Control
    <3>2. s = "QUEUED" => UNCHANGED pc
      BY DEF StatusLicence, EndStatus
    <3> QED BY <1>2, <3>1, <3>2 DEF QueueInv, StatusName
  <2>5. pc' \in Live => \A t \in StatusName \ {"QUEUED"} :
          LoggedAs("RUN_STATUS_CHANGED", t)' => <<"RUN_STATUS_CHANGED", t>> \in seen'
    <3>1. s = "QUEUED" => UNCHANGED <<pc, seen>>
      BY DEF StatusLicence, EndStatus
    <3>2. s # "QUEUED" /\ pc' \in Live =>
            /\ pc \in Live /\ <<"RUN_STATUS_CHANGED", s>> \in seen'
            /\ seen \subseteq seen' \/ seen' = {Key(log[i]) : i \in DOMAIN log}
      BY <2>0 DEF StatusLicence, Runs
    <3> QED BY <1>1, <3>1, <3>2 DEF QueueInv
  <2>6. Finals' # {} => LoggedAs("RUN_STATUS_CHANGED", "RUNNING")'
    <3>1. s \in {"SUCCEEDED", "FAILED"} => pc \in Live \ {"running"}
      BY DEF StatusLicence, EndStatus, Live, Control
    <3> QED BY <3>1 DEF QueueInv
  <2> QED BY <2>1, <2>2, <2>3, <2>4, <2>5, <2>6 DEF QueueInv
<1> QED BY <1>3, <1>4

LEMMA NextOrderInv ==
  ASSUME TypeOK, JobInv, QueueInv, OrderInv, Redelivers, QueueInv',
         \/ StatusStays
         \/ \E s \in StatusName, n \in Nat : StatusBecomes(s, n) /\ StatusLicence(s)
  PROVE  OrderInv'
<1>1. Finals \subseteq Rows("RUN_STATUS_CHANGED") /\ Queued \subseteq Rows("RUN_STATUS_CHANGED")
  BY StatusRows DEF Finals
<1>2. job = "absent" => Finals = {}
  <2>1. job = "absent" => Rows("RUN_STATUS_CHANGED") = Queued
    BY DEF QueueInv
  <2> QED BY <2>1, StatusRows DEF Finals
<1>3. CASE StatusStays
  <2> USE <1>3 DEF StatusStays
  <2>1. AtMostOne(Queued)' => \A i \in Queued', j \in Rows("RUN_STATUS_CHANGED")' \ Queued' : i < j
    BY DEF OrderInv, AtMostOne
  <2>2. \A i \in Rows("RUN_STATUS_CHANGED")', j \in Finals' : log'[i].arg = "RUNNING" => i < j
    BY DEF OrderInv
  <2>3. stalls' = 0 => AtMostOne(Finals')
    BY DEF OrderInv, Redelivers
  <2>4. BeforeEnd' => AtMostOne(Finals') /\ (stalls' = 0 => Finals' = {})
    BY <1>2 DEF OrderInv, Redelivers, AtMostOne
  <2> QED BY <2>1, <2>2, <2>3, <2>4 DEF OrderInv, AtMostOne
<1>4. ASSUME NEW s \in StatusName, NEW n \in Nat, StatusBecomes(s, n), StatusLicence(s)
      PROVE  OrderInv'
  <2> USE <1>4 DEF StatusBecomes
  <2>1. AtMostOne(Queued') => \A i \in Queued', j \in Rows("RUN_STATUS_CHANGED")' \ Queued' : i < j
    <3>1. CASE s = "QUEUED"
      <4> SUFFICES ASSUME AtMostOne(Queued') PROVE Rows("RUN_STATUS_CHANGED")' = Queued'
        OBVIOUS
      <4>1. Queued = {}
        <5>1. n \in Queued' /\ n \notin Queued
          BY <1>1, <3>1
        <5> QED BY <3>1, <5>1 DEF AtMostOne
      <4>2. job = "absent" /\ Rows("RUN_STATUS_CHANGED") = Queued
        BY <4>1 DEF QueueInv
      <4> QED BY <3>1, <4>2
    <3>2. CASE s # "QUEUED"
      BY <1>1, <3>2 DEF OrderInv
    <3> QED BY <3>1, <3>2
  <2>2. \A i \in Rows("RUN_STATUS_CHANGED")', j \in Finals' : log'[i].arg = "RUNNING" => i < j
    <3>1. CASE s = "RUNNING"
      <4>1. ~LoggedAs("RUN_STATUS_CHANGED", "RUNNING")
        BY <3>1 DEF StatusLicence, QueueInv, StatusName, EndStatus, Live, Control
      <4>2. Finals' = {}
        BY <3>1, <4>1 DEF QueueInv
      <4> QED BY <4>2
    <3>2. CASE s # "RUNNING"
      BY <1>1, <3>2 DEF OrderInv
    <3> QED BY <3>1, <3>2
  <2>3. CASE s \in {"SUCCEEDED", "FAILED"}
    <3>1. pc = "status" /\ BeforeEnd
      BY <2>3 DEF StatusLicence, BeforeEnd, Live, Control
    <3>2. stalls = 0 => AtMostOne(Finals')
      BY <2>3, <3>1 DEF OrderInv, AtMostOne
    <3>3. ~BeforeEnd'
      BY <2>3, <3>1 DEF StatusLicence, JobInv, BeforeEnd, Live, Control
    <3> QED BY <2>1, <2>2, <3>2, <3>3 DEF OrderInv, AtMostOne, Redelivers
  <2>4. CASE s \notin {"SUCCEEDED", "FAILED"}
    <3>1. Finals' = Finals
      BY <2>4
    <3>2. stalls' = 0 => AtMostOne(Finals')
      BY <3>1 DEF OrderInv, Redelivers
    <3>3. BeforeEnd' => AtMostOne(Finals') /\ (stalls' = 0 => Finals' = {})
      BY <1>2, <3>1 DEF OrderInv, Redelivers, AtMostOne
    <3> QED BY <2>1, <2>2, <3>2, <3>3 DEF OrderInv, AtMostOne
  <2> QED BY <2>3, <2>4
<1> QED BY <1>3, <1>4

LEMMA NextVerdictInv ==
  ASSUME TypeOK, HandlerInv, QueueInv, OrderInv, VerdictInv, Ends, [Next]_vars,
         \/ StatusStays
         \/ \E s \in StatusName, n \in Nat : StatusBecomes(s, n) /\ StatusLicence(s)
  PROVE  VerdictInv'
<1> DEFINE Last(r) == \A j \in Rows("RUN_STATUS_CHANGED")' : j <= r
           Says(s) == \E r \in Finals' : r \in Rows("RUN_STATUS_CHANGED")' /\ Last(r) /\ log'[r].arg = s
<1> SUFFICES ASSUME AtMostOne(Queued')
             PROVE  /\ pc' = "complete" => Says(EndStatus(ok'))
                    /\ \A v \in Rows("RUN_COMPLETED")' : Says(EndStatus(log'[v].arg = "ok"))
  BY DEF VerdictInv, AtMostOne, LastSays, IsLastStatus, EndStatus
<1>1. Finals \subseteq Rows("RUN_STATUS_CHANGED") /\ Queued \subseteq Rows("RUN_STATUS_CHANGED")
  BY StatusRows DEF Finals
<1>2. CASE StatusStays
  <2> USE <1>2 DEF StatusStays
  <2>1. AtMostOne(Queued)
    OBVIOUS
  <2>2. pc' = "complete" => LastSays(EndStatus(ok)) /\ ok' = ok
    <3> SUFFICES ASSUME pc' = "complete", pc # "complete"
                 PROVE  LastSays(EndStatus(ok)) /\ ok' = ok
      BY <2>1 DEF Ends, VerdictInv
    <3>1. /\ pc = "status" /\ ok' = ok /\ EndStatus(ok) \in StatusName \ {"QUEUED"}
          /\ <<"RUN_STATUS_CHANGED", EndStatus(ok)>> \in seen
          /\ EndStatus(ok) \in {"SUCCEEDED", "FAILED"}
      BY DEF Ends, EndStatus, StatusName
    <3>2. PICK r \in Rows("RUN_STATUS_CHANGED") : log[r].arg = EndStatus(ok)
      BY <3>1, SeenLogged DEF LoggedAs
    <3>3. r \in Finals
      BY <3>1, <3>2 DEF Finals
    <3>4. AtMostOne(Finals)
      BY <3>1 DEF OrderInv, BeforeEnd, Live, Control
    <3>5. ASSUME NEW j \in Rows("RUN_STATUS_CHANGED") PROVE j <= r
      <4>0. j \in Nat /\ r \in Nat /\ log[j].arg \in StatusName
        BY StatusRows
      <4>1. CASE j \in Finals
        BY <3>3, <3>4, <4>0, <4>1 DEF AtMostOne
      <4>2. CASE log[j].arg = "RUNNING"
        BY <3>3, <4>0, <4>2 DEF OrderInv
      <4>3. CASE log[j].arg = "QUEUED"
        <5>1. j \in Queued /\ r \notin Queued
          BY <3>1, <3>2, <4>3, StatusRows
        <5> QED BY <2>1, <4>0, <5>1 DEF OrderInv
      <4> QED BY <4>0, <4>1, <4>2, <4>3 DEF StatusName, Finals
    <3> QED BY <3>1, <3>2, <3>3, <3>5 DEF LastSays, IsLastStatus
  <2>3. ASSUME NEW v \in Rows("RUN_COMPLETED")' PROVE LastSays(EndStatus(log'[v].arg = "ok"))
    <3>1. CASE v \in Rows("RUN_COMPLETED") /\ log'[v] = log[v]
      BY <2>1, <3>1 DEF VerdictInv
    <3>2. CASE ~(v \in Rows("RUN_COMPLETED") /\ log'[v] = log[v])
      <4>1. PICK e \in EventSet : log' = Append(log, e) /\ Licence(e)
        BY <3>2, NextLicensed DEF Licensed, Rows
      <4>2. /\ Rows("RUN_COMPLETED")' = Rows("RUN_COMPLETED")
                 \cup (IF e.type = "RUN_COMPLETED" THEN {Len(log) + 1} ELSE {})
            /\ \A i \in Rows("RUN_COMPLETED") : log'[i] = log[i]
            /\ log'[Len(log) + 1] = e
        BY <4>1, RowsGrow
      <4>3. e.type = "RUN_COMPLETED" /\ log'[v] = e
        BY <3>2, <4>2
      <4>4. pc = "complete" /\ e.arg = Verdict(ok)
        BY <4>1, <4>3 DEF Licence
      <4>5. LastSays(EndStatus(ok)) /\ EndStatus(ok) = EndStatus(log'[v].arg = "ok")
        BY <2>1, <4>3, <4>4 DEF VerdictInv, Verdict, EndStatus
      <4> QED BY <4>5
    <3> QED BY <3>1, <3>2
  <2>4. \A s : LastSays(s) => Says(s)
    BY DEF LastSays, IsLastStatus, Finals
  <2> QED BY <2>2, <2>3, <2>4
<1>3. ASSUME NEW s \in StatusName, NEW n \in Nat, StatusBecomes(s, n), StatusLicence(s)
      PROVE  /\ pc' = "complete" => Says(EndStatus(ok'))
             /\ \A v \in Rows("RUN_COMPLETED")' : Says(EndStatus(log'[v].arg = "ok"))
  <2> USE <1>3 DEF StatusBecomes
  <2>1. CASE s = "QUEUED"
    <3>1. Queued = {}
      <4>1. n \in Queued' /\ n \notin Queued
        BY <1>1, <2>1
      <4> QED BY <2>1, <4>1 DEF AtMostOne
    <3>2. job = "absent" /\ Finals = {} /\ pc = "off" /\ pc' = pc
      BY <2>1, <3>1, StatusRows DEF QueueInv, Finals, HandlerInv, JobInv, StatusLicence, EndStatus
    <3>3. AtMostOne(Queued)
      BY <3>1 DEF AtMostOne
    <3>4. Rows("RUN_COMPLETED") = {}
      BY <3>2, <3>3 DEF VerdictInv, LastSays
    <3> QED BY <3>2, <3>4
  <2>2. CASE s # "QUEUED"
    <3>1. pc \in Live
      BY <2>2 DEF StatusLicence, Live, Control
    <3>2. Rows("RUN_COMPLETED")' = {}
      BY <3>1 DEF HandlerInv, EndInv, Logged
    <3>3. ASSUME pc' = "complete" PROVE Says(EndStatus(ok'))
      <4>1. s = EndStatus(ok) /\ s \in {"SUCCEEDED", "FAILED"} /\ ok' = ok
        BY <2>2, <3>3 DEF Ends, EndStatus, StatusLicence
      <4>2. n \in Finals' /\ n \in Rows("RUN_STATUS_CHANGED")'
            /\ \A j \in Rows("RUN_STATUS_CHANGED")' : j <= n
        BY <4>1
      <4> QED BY <4>1, <4>2 DEF LastSays, IsLastStatus
    <3> QED BY <3>2, <3>3
  <2> QED BY <2>1, <2>2
<1> QED BY <1>2, <1>3

LEMMA NextStatus ==
  ASSUME MaxStalls <= 1
  PROVE  TypeOK /\ HandlerInv /\ StatusInv /\ [Next]_vars => StatusInv'
<1> SUFFICES ASSUME TypeOK, HandlerInv, StatusInv, [Next]_vars PROVE StatusInv'
  OBVIOUS
<1>1. Queues /\ Runs /\ Ends /\ Redelivers
  BY NextSteers
<1>2. \/ StatusStays
      \/ \E s \in StatusName, n \in Nat : StatusBecomes(s, n) /\ StatusLicence(s)
  BY StatusStep
<1>3. QueueInv'
  BY <1>1, <1>2, NextQueueInv DEF StatusInv, HandlerInv
<1>4. OrderInv'
  BY <1>1, <1>2, <1>3, NextOrderInv DEF StatusInv, HandlerInv
<1>5. VerdictInv'
  BY <1>1, <1>2, NextVerdictInv DEF StatusInv
<1> QED BY <1>3, <1>4, <1>5 DEF StatusInv

\* What GET /status derives is the status of the last row.
LEMMA LastStatusIsVerdict == TypeOK /\ LoggedOnce /\ VerdictInv => StatusIsVerdict
<1> SUFFICES ASSUME TypeOK, LoggedOnce, VerdictInv, Logged("RUN_COMPLETED"), AtMostOne(Queued)
             PROVE  DerivedStatus(log) = EndStatus(LoggedAs("RUN_COMPLETED", "ok"))
  BY DEF StatusIsVerdict, Queued, EndStatus
<1>1. PICK v \in Rows("RUN_COMPLETED") : LastSays(EndStatus(log[v].arg = "ok"))
  BY DEF Logged, VerdictInv
<1>2. LoggedAs("RUN_COMPLETED", "ok") <=> log[v].arg = "ok"
  BY <1>1 DEF LoggedAs, LoggedOnce, AtMostOne
<1>3. PICK r \in Finals : IsLastStatus(r) /\ log[r].arg = EndStatus(log[v].arg = "ok")
  BY <1>1 DEF LastSays
<1>4. LastOf(Rows("RUN_STATUS_CHANGED")) = r
  <2>1. \A i \in Rows("RUN_STATUS_CHANGED") : i \in Nat
    BY StatusRows
  <2>2. /\ r \in Rows("RUN_STATUS_CHANGED")
        /\ \A i \in Rows("RUN_STATUS_CHANGED") :
             (\A j \in Rows("RUN_STATUS_CHANGED") : j <= i) => i = r
    BY <1>3, <2>1 DEF IsLastStatus
  <2> QED BY <1>3, <2>2, Zenon DEF LastOf, IsLastStatus
<1>5. DerivedStatus(log) = log[r].arg
  BY <1>3, <1>4, Zenon DEF DerivedStatus, Rows, IsLastStatus
<1> QED BY <1>2, <1>3, <1>5 DEF EndStatus

\* Under a queue that gives a stalled job out again at most once, as BullMQ does unless told
\* otherwise, the derived status of a completed run is its verdict, through crashes, failed
\* calls and late requests; only a run that two requests have queued may differ.
THEOREM StatusIsRight ==
  ASSUME MaxStalls <= 1
  PROVE  Spec => []StatusIsVerdict
<1>1. Init => LoggedOnce
  BY DEF Init, LoggedOnce, AtMostOne, Rows
<1>2. StatusInv => VerdictInv
  BY DEF StatusInv
<1>3. TypeOK /\ HandlerInv /\ StatusInv /\ [Next]_vars => StatusInv'
  BY NextStatus
<1> QED BY <1>1, <1>2, <1>3, InitType, NextType, InitHandler, NextHandler, NextLoggedOnce, InitStatus,
           LastStatusIsVerdict, PTL DEF Spec

=============================================================================
