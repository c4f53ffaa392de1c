---------------------------- MODULE DagExecutor ----------------------------
(***************************************************************************)
(* executeDag and runNode of packages/runtime/src/dag-executor.ts: one     *)
(* worker executes one DAG node by node, appends an event before and after *)
(* every effect, and after a crash starts again from the event log.        *)
(*                                                                         *)
(* log       the run's rows of run_logs that executeDag writes, in order   *)
(* messages  the rows of the messages table that the run's nodes insert    *)
(* calls     history variable: completions requested from llama-server     *)
(*                                                                         *)
(* Everything else is the memory of the worker process and is lost by      *)
(* Crash.  A node is its position in dag.nodes; Sorted is the order of     *)
(* the node ids, Order the result of stableTopologicalOrder.               *)
(*                                                                         *)
(* One step is the code between two awaits that reach the database or the  *)
(* model server.  There is one worker: the README of the repository puts   *)
(* several workers out of scope, and its queue runs one job at a time.     *)
(***************************************************************************)
EXTENDS Integers, Sequences

CONSTANTS NumNodes,     \* number of nodes of the DAG
          Kind,         \* kind of each node
          Deps,         \* depends_on of each node
          MaxAttempts,  \* retry.max_attempts of each node, clamped to 1..2
          Sorted,       \* the nodes in the order of their ids
          Order,        \* the nodes in topological order
          Text,         \* non-empty completions of the model
          NoText,       \* an absent or empty text
          InputText,    \* the text in the input of each node, if any
          UserText,     \* the message of the user
          Enforced,     \* what enforceReplyConstraints makes of a completion
          MaxCrashes,   \* bound on the crashes of the worker
          MaxFaults     \* bound on the failed calls to the database

Node == 1..NumNodes

CodeChangeEvent ==
  [CODEBASE_ANALYZE      |-> "CODEBASE_ANALYZED",
   PATCH_PLAN            |-> "PATCH_PLAN_CREATED",
   PATCH_APPLY_SIMULATED |-> "PATCH_SIMULATION_APPLIED",
   BUILD_VERIFY          |-> "BUILD_VERIFIED",
   TEST_VERIFY           |-> "TESTS_VERIFIED",
   PATCH_REVIEW          |-> "PATCH_REVIEW_COMPLETED"]

CodeChangeKind == {"CODEBASE_ANALYZE", "PATCH_PLAN", "PATCH_APPLY_SIMULATED",
                   "BUILD_VERIFY", "TEST_VERIFY", "PATCH_REVIEW"}

NodeKind == {"NOOP", "PLAN_DAG", "PERSIST_USER_MESSAGE", "LLM_CHAT",
             "ENFORCE_REPLY_CONSTRAINTS", "PERSIST_ASSISTANT_MESSAGE"}
              \cup CodeChangeKind

ASSUME DagAssumption ==
  /\ NumNodes \in Nat \ {0}
  /\ Kind \in [Node -> NodeKind]
  /\ Deps \in [Node -> SUBSET Node]
  /\ MaxAttempts \in [Node -> 1..2]
  /\ Sorted \in [Node -> Node]
  /\ Order \in [Node -> Node]
  /\ \A n \in Node : \E i \in Node : Sorted[i] = n
  /\ \A n \in Node : \E i \in Node : Order[i] = n
  /\ \A i \in Node : \A d \in Deps[Order[i]] : \E j \in 1..(i - 1) : Order[j] = d

ASSUME TextAssumption ==
  /\ NoText \notin Text /\ Enforced \in [Text -> Text]
  /\ InputText \in [Node -> Text \cup {NoText}]

ASSUME BoundAssumption == MaxCrashes \in Nat /\ MaxFaults \in Nat

VARIABLES log, messages, calls,
          pc, seen, pos, attempt, status, outputs, resumeAt, result, verdict,
          crashes, faults

memory == <<seen, pos, attempt, status, outputs, resumeAt, result, verdict>>
vars   == <<log, messages, calls, pc, memory, crashes, faults>>

-----------------------------------------------------------------------------
(* Events.  node is 0 and attempt is 0 where the event carries none.  The  *)
(* text of NODE_SUCCEEDED is assistant_text or final_assistant_text of its *)
(* output; ok is the verdict of DAG_COMPLETED.                             *)

MaybeText == Text \cup {NoText}

EventType == {"DAG_PLANNED", "NODE_QUEUED", "NODE_STARTED", "NODE_SUCCEEDED",
              "NODE_FAILED", "NODE_RETRY_SCHEDULED", "DAG_COMPLETED",
              "LLM_REQUESTED", "LLM_COMPLETED", "REPLY_CONSTRAINT_EVALUATED"}
               \cup {CodeChangeEvent[k] : k \in CodeChangeKind}

Event == [type : EventType, node : 0..NumNodes, attempt : 0..2,
          text : MaybeText, ok : BOOLEAN]

NodeEvent(t, n, a) == [type |-> t, node |-> n, attempt |-> a, text |-> NoText, ok |-> FALSE]
TextEvent(t, n, a, x) == [NodeEvent(t, n, a) EXCEPT !.text = x]
DagEvent(t, b) == [NodeEvent(t, 0, 0) EXCEPT !.ok = b]

Key(e) == <<e.type, e.node, e.attempt>>

\* The code-change events are appended without dag_id, node_id and attempt,
\* so eventsForDag does not return them.
HasDagId(e) == e.type \notin {CodeChangeEvent[k] : k \in CodeChangeKind}

-----------------------------------------------------------------------------
(* What an execution derives from the log when it starts.                  *)

MaxOf(S) == CHOOSE x \in S : \A y \in S : y <= x
MinOf(S) == CHOOSE x \in S : \A y \in S : x <= y

Rows(t, n) == {i \in DOMAIN log : log[i].type = t /\ log[i].node = n}
Attempts(t, n) == {log[i].attempt : i \in Rows(t, n)}

Verdicts == Rows("DAG_COMPLETED", 0)

LastOutput(n) ==
  LET S == Rows("NODE_SUCCEEDED", n)
  IN  IF S = {} THEN NoText ELSE log[MaxOf(S)].text

\* A logged success of a text node counts only when its text is not empty.
TextKind == {"LLM_CHAT", "ENFORCE_REPLY_CONSTRAINTS"}
MateriallySucceeded(n) ==
  /\ Rows("NODE_SUCCEEDED", n) # {}
  /\ Kind[n] \in TextKind => LastOutput(n) # NoText

ChooseAttempt(n) ==
  LET ended    == Attempts("NODE_FAILED", n) \cup Attempts("NODE_SUCCEEDED", n)
      started  == Attempts("NODE_STARTED", n)
      inFlight == started \ ended
  IN  IF inFlight # {} THEN MaxOf(inFlight) ELSE MaxOf({0} \cup started \cup ended) + 1

\* Mutant: the keys already in the log are not collected.
NoKeys == {}
KeysToSkip == {Key(log[i]) : i \in {j \in DOMAIN log : HasDagId(log[j])}}

-----------------------------------------------------------------------------
(* The calls that leave the process.  An append or an insert that fails    *)
(* may have been committed before the connection broke; the executor does  *)
(* not know, so the key of the event is not added to seen.                 *)

Fault == faults < MaxFaults /\ faults' = faults + 1

Emit(e) ==
  /\ IF Key(e) \in seen THEN UNCHANGED <<log, seen>>
     ELSE log' = Append(log, e) /\ seen' = seen \cup {Key(e)}
  /\ UNCHANGED faults

EmitFails(e) ==
  /\ Key(e) \notin seen
  /\ Fault
  /\ log' \in {log, Append(log, e)}
  /\ UNCHANGED seen

EmitOrThrow(e, next) == \/ Emit(e) /\ pc' = next
                        \/ EmitFails(e) /\ pc' = "threw"

NoEmit == UNCHANGED <<log, seen, faults>>

Row(n, t) == [node |-> n, text |-> t]

\* Mutant: the message id is random, so no insert conflicts.
WithFreshRow(n, t) == Append(messages, Row(n, t))
\* The id of a message is a hash of run, chat, node and role, and the insert
\* does nothing on a conflict.
WithRow(n, t) ==
  IF \E i \in DOMAIN messages : messages[i].node = n
  THEN messages ELSE Append(messages, Row(n, t))

-----------------------------------------------------------------------------
Init ==
  /\ log = <<>> /\ messages = <<>> /\ calls = [n \in Node |-> 0]
  /\ pc = "idle"
  /\ seen = {} /\ pos = 1 /\ attempt = 1
  /\ status = [n \in Node |-> "PENDING"]
  /\ outputs = [n \in Node |-> NoText]
  /\ resumeAt = [n \in Node |-> 1]
  /\ result = [ok |-> FALSE, text |-> NoText]
  /\ verdict = FALSE
  /\ crashes = 0 /\ faults = 0

\* executeDag finds DAG_COMPLETED and returns what it recorded.
ReturnRecorded ==
  /\ pc = "idle" /\ Verdicts # {}
  /\ verdict' = log[MaxOf(Verdicts)].ok
  /\ pc' = "returned"
  /\ UNCHANGED <<log, messages, calls, seen, pos, attempt, status, outputs,
                 resumeAt, result, crashes, faults>>

\* Mutant: the executor resumes without looking for DAG_COMPLETED.
ResumeAlways ==
  /\ pc = "idle"
  /\ seen' = KeysToSkip
  /\ status' = [n \in Node |-> IF MateriallySucceeded(n) THEN "SUCCEEDED" ELSE "PENDING"]
  /\ outputs' = [n \in Node |-> IF MateriallySucceeded(n) THEN LastOutput(n) ELSE NoText]
  /\ resumeAt' = [n \in Node |-> ChooseAttempt(n)]
  /\ pc' = "plan"
  /\ UNCHANGED <<log, messages, calls, pos, attempt, result, verdict, crashes, faults>>

\* Mutant: the text of a completion is looked up under the name of the enforced one.
ResumeWithoutCompletions ==
  /\ pc = "idle" /\ Verdicts = {}
  /\ seen' = KeysToSkip
  /\ LET counts(n) == MateriallySucceeded(n) /\ Kind[n] # "LLM_CHAT"
     IN  /\ status' = [n \in Node |-> IF counts(n) THEN "SUCCEEDED" ELSE "PENDING"]
         /\ outputs' = [n \in Node |-> IF counts(n) THEN LastOutput(n) ELSE NoText]
  /\ resumeAt' = [n \in Node |-> ChooseAttempt(n)]
  /\ pc' = "plan"
  /\ UNCHANGED <<log, messages, calls, pos, attempt, result, verdict, crashes, faults>>

\* One read of the log fixes the keys to skip and the state of every node for
\* the whole execution.
Resume ==
  /\ pc = "idle" /\ Verdicts = {}
  /\ seen' = KeysToSkip
  /\ status' = [n \in Node |-> IF MateriallySucceeded(n) THEN "SUCCEEDED" ELSE "PENDING"]
  /\ outputs' = [n \in Node |-> IF MateriallySucceeded(n) THEN LastOutput(n) ELSE NoText]
  /\ resumeAt' = [n \in Node |-> ChooseAttempt(n)]
  /\ pc' = "plan"
  /\ UNCHANGED <<log, messages, calls, pos, attempt, result, verdict, crashes, faults>>

ReadFails ==
  /\ pc = "idle"
  /\ Fault
  /\ pc' = "threw"
  /\ UNCHANGED <<log, messages, calls, memory, crashes>>

Plan ==
  /\ pc = "plan"
  /\ EmitOrThrow(DagEvent("DAG_PLANNED", FALSE), "queue")
  /\ UNCHANGED <<messages, calls, pos, attempt, status, outputs, resumeAt,
                 result, verdict, crashes>>

\* pos runs over the ids in sorted order, then over the topological order.
Queue ==
  /\ pc = "queue"
  /\ EmitOrThrow(NodeEvent("NODE_QUEUED", Sorted[pos], 0),
                 IF pos = NumNodes THEN "visit" ELSE "queue")
  /\ pos' = CASE pc' = "threw" -> pos
              [] pc' = "visit" -> 1
              [] OTHER -> pos + 1
  /\ UNCHANGED <<messages, calls, attempt, status, outputs, resumeAt, result,
                 verdict, crashes>>

-----------------------------------------------------------------------------
(* The loop over the nodes.                                                *)

Current == Order[pos]

NextNode == IF pos = NumNodes THEN "complete" ELSE "visit"
\* Mutant: the loop runs past the last node.
AdvanceAlways == pos' = pos + 1
Advance == pos' = IF pc' = "visit" THEN pos + 1 ELSE pos

\* Mutant: a node is blocked only by a dependency that was tried and failed.
BlockedByFailure(n) == \E d \in Deps[n] : status[d] = "FAILED"
Blocked(n) == \E d \in Deps[n] : status[d] # "SUCCEEDED"

\* Mutant: the loop does not move past a node that succeeded before.
SkipWithoutMoving ==
  /\ pc = "visit" /\ status[Current] = "SUCCEEDED"
  /\ UNCHANGED vars

SkipSucceeded ==
  /\ pc = "visit" /\ status[Current] = "SUCCEEDED"
  /\ pc' = NextNode
  /\ Advance
  /\ UNCHANGED <<log, messages, calls, seen, attempt, status, outputs,
                 resumeAt, result, verdict, crashes, faults>>

SkipBlocked ==
  /\ pc = "visit" /\ status[Current] # "SUCCEEDED"
  /\ Blocked(Current)
  /\ status' = [status EXCEPT ![Current] = "SKIPPED"]
  /\ EmitOrThrow(NodeEvent("NODE_FAILED", Current, 1), NextNode)
  /\ Advance
  /\ UNCHANGED <<messages, calls, attempt, outputs, resumeAt, result, verdict, crashes>>

\* Every attempt ended before the crash.  Unlike the live path, which stops at
\* a failed node, the loop goes on with the next node.
GiveUp ==
  /\ pc = "visit" /\ status[Current] # "SUCCEEDED"
  /\ ~Blocked(Current)
  /\ resumeAt[Current] > MaxAttempts[Current]
  /\ status' = [status EXCEPT ![Current] = "FAILED"]
  /\ pc' = NextNode
  /\ Advance
  /\ UNCHANGED <<log, messages, calls, seen, attempt, outputs, resumeAt, result,
                 verdict, crashes, faults>>

\* Mutant: an exhausted node is tried once more.
BeginNodeAgain ==
  /\ pc = "visit" /\ status[Current] # "SUCCEEDED"
  /\ ~Blocked(Current)
  /\ attempt' = IF resumeAt[Current] > 2 THEN 2 ELSE resumeAt[Current]
  /\ status' = [status EXCEPT ![Current] = "RUNNING"]
  /\ pc' = "start"
  /\ UNCHANGED <<log, messages, calls, seen, pos, outputs, resumeAt, result,
                 verdict, crashes, faults>>

BeginNode ==
  /\ pc = "visit" /\ status[Current] # "SUCCEEDED"
  /\ ~Blocked(Current)
  /\ resumeAt[Current] <= MaxAttempts[Current]
  /\ attempt' = resumeAt[Current]
  /\ status' = [status EXCEPT ![Current] = "RUNNING"]
  /\ pc' = "start"
  /\ UNCHANGED <<log, messages, calls, seen, pos, outputs, resumeAt, result,
                 verdict, crashes, faults>>

StartAttempt ==
  /\ pc = "start"
  /\ EmitOrThrow(NodeEvent("NODE_STARTED", Current, attempt), "run")
  /\ UNCHANGED <<messages, calls, pos, attempt, status, outputs, resumeAt,
                 result, verdict, crashes>>

-----------------------------------------------------------------------------
(* runNode, one action for each kind of node or each call that one makes.  *)
(* What runNode throws is caught, and the attempt fails.                   *)

Running(kinds) == pc = "run" /\ Kind[Current] \in kinds

NodeFails      == result' = [ok |-> FALSE, text |-> NoText] /\ pc' = "settle"
NodeReturns(t) == result' = [ok |-> TRUE, text |-> t] /\ pc' = "settle"

\* dag.nodes.find returns the first node of the listing.
First(k, S) == LET F == {n \in S : Kind[n] = k} IN IF F = {} THEN 0 ELSE MinOf(F)
OutputOf(n) == IF n = 0 THEN NoText ELSE outputs[n]

RunPure ==
  /\ Running({"NOOP", "PLAN_DAG"})
  /\ NodeReturns(NoText)
  /\ NoEmit
  /\ UNCHANGED <<messages, calls, pos, attempt, status, outputs, resumeAt, verdict, crashes>>

\* insertMessage commits and returns, or fails having committed or not.
Insert(t) ==
  \/ /\ messages' = WithRow(Current, t)
     /\ NodeReturns(NoText)
     /\ UNCHANGED faults
  \/ /\ Fault
     /\ messages' \in {messages, WithRow(Current, t)}
     /\ NodeFails

PersistUser ==
  /\ Running({"PERSIST_USER_MESSAGE"})
  /\ Insert(UserText)
  /\ UNCHANGED <<log, calls, seen, pos, attempt, status, outputs, resumeAt, verdict, crashes>>

\* The prompt is built from the recent messages, LLM_REQUESTED is logged and
\* the completion is requested.
RequestCompletion ==
  /\ Running({"LLM_CHAT"})
  /\ LET e == NodeEvent("LLM_REQUESTED", Current, attempt)
     IN  \/ /\ Emit(e)
            /\ calls' = [calls EXCEPT ![Current] = @ + 1]
            /\ pc' = "llm"
            /\ UNCHANGED result
         \/ EmitFails(e) /\ NodeFails /\ UNCHANGED calls
         \/ Fault /\ UNCHANGED <<log, seen>> /\ NodeFails /\ UNCHANGED calls
  /\ UNCHANGED <<messages, pos, attempt, status, outputs, resumeAt, verdict, crashes>>

\* The server answers, perhaps with blanks only, or it fails or times out.
ReceiveCompletion ==
  /\ pc = "llm"
  /\ LET e == NodeEvent("LLM_COMPLETED", Current, attempt)
     IN  \/ Emit(e) /\ \E t \in MaybeText : NodeReturns(t)
         \/ EmitFails(e) /\ NodeFails
         \/ NoEmit /\ NodeFails
  /\ UNCHANGED <<messages, calls, pos, attempt, status, outputs, resumeAt, verdict, crashes>>

\* The LLM_CHAT node among the dependencies, else the first of the DAG, else the node's input.
RawText ==
  LET dep  == First("LLM_CHAT", Deps[Current])
      text == OutputOf(IF dep # 0 THEN dep ELSE First("LLM_CHAT", Node))
  IN  IF text # NoText THEN text ELSE InputText[Current]

EnforceReply ==
  /\ Running({"ENFORCE_REPLY_CONSTRAINTS"})
  /\ \/ RawText = NoText /\ NoEmit /\ NodeFails
     \/ /\ RawText # NoText
        /\ LET e == TextEvent("REPLY_CONSTRAINT_EVALUATED", Current, attempt, Enforced[RawText])
           IN  \/ Emit(e) /\ NodeReturns(Enforced[RawText])
               \/ EmitFails(e) /\ NodeFails
  /\ UNCHANGED <<messages, calls, pos, attempt, status, outputs, resumeAt, verdict, crashes>>

\* Mutant: the completion is stored instead of its enforced form.
UnenforcedText == OutputOf(First("LLM_CHAT", Node))
AssistantText ==
  LET enforced == OutputOf(First("ENFORCE_REPLY_CONSTRAINTS", Node))
  IN  IF enforced # NoText THEN enforced ELSE OutputOf(First("LLM_CHAT", Node))

PersistAssistant ==
  /\ Running({"PERSIST_ASSISTANT_MESSAGE"})
  /\ \/ AssistantText = NoText /\ NodeFails /\ UNCHANGED <<messages, faults>>
     \/ AssistantText # NoText /\ Insert(AssistantText)
  /\ UNCHANGED <<log, calls, seen, pos, attempt, status, outputs, resumeAt, verdict, crashes>>

RunCodeChange ==
  /\ Running(CodeChangeKind)
  /\ LET e == NodeEvent(CodeChangeEvent[Kind[Current]], 0, 0)
     IN  \/ Emit(e) /\ NodeReturns(NoText)
         \/ EmitFails(e) /\ NodeFails
  /\ UNCHANGED <<messages, calls, pos, attempt, status, outputs, resumeAt, verdict, crashes>>

-----------------------------------------------------------------------------
(* The outcome of an attempt, and of the DAG.                              *)

Succeed ==
  /\ pc = "settle" /\ result.ok
  /\ status'  = [status EXCEPT ![Current] = "SUCCEEDED"]
  /\ outputs' = [outputs EXCEPT ![Current] = result.text]
  /\ EmitOrThrow(TextEvent("NODE_SUCCEEDED", Current, attempt, result.text), NextNode)
  /\ Advance
  /\ UNCHANGED <<messages, calls, attempt, resumeAt, result, verdict, crashes>>

\* A node that fails its last attempt ends the loop: the nodes after it stay
\* PENDING and nothing is logged about them.
Fail ==
  /\ pc = "settle" /\ ~result.ok
  /\ LET last == attempt >= MaxAttempts[Current]
     IN  /\ EmitOrThrow(NodeEvent("NODE_FAILED", Current, attempt),
                        IF last THEN "complete" ELSE "retry")
         /\ status' = IF last THEN [status EXCEPT ![Current] = "FAILED"] ELSE status
  /\ UNCHANGED <<messages, calls, pos, attempt, outputs, resumeAt, result, verdict, crashes>>

ScheduleRetry ==
  /\ pc = "retry"
  /\ EmitOrThrow(NodeEvent("NODE_RETRY_SCHEDULED", Current, 0), "start")
  /\ attempt' = IF pc' = "start" THEN attempt + 1 ELSE attempt
  /\ UNCHANGED <<messages, calls, pos, status, outputs, resumeAt, result, verdict, crashes>>

AllSucceeded == \A n \in Node : status[n] = "SUCCEEDED"

Complete ==
  /\ pc = "complete"
  /\ verdict' = AllSucceeded
  /\ EmitOrThrow(DagEvent("DAG_COMPLETED", AllSucceeded), "returned")
  /\ UNCHANGED <<messages, calls, pos, attempt, status, outputs, resumeAt, result, crashes>>

-----------------------------------------------------------------------------
\* The worker dies, before or after its job is acknowledged, and the queue
\* gives the job to a new process.
Crash ==
  /\ pc # "idle" /\ crashes < MaxCrashes
  /\ crashes' = crashes + 1
  /\ pc' = "idle"
  /\ seen' = {} /\ pos' = 1 /\ attempt' = 1
  /\ status' = [n \in Node |-> "PENDING"]
  /\ outputs' = [n \in Node |-> NoText]
  /\ resumeAt' = [n \in Node |-> 1]
  /\ result' = [ok |-> FALSE, text |-> NoText]
  /\ verdict' = FALSE
  /\ UNCHANGED <<log, messages, calls, faults>>

Ended == pc \in {"returned", "threw"}

Done == Ended /\ UNCHANGED vars

Step ==
  \/ ReturnRecorded \/ Resume \/ ReadFails \/ Plan \/ Queue
  \/ SkipSucceeded \/ SkipBlocked \/ GiveUp \/ BeginNode \/ StartAttempt
  \/ RunPure \/ PersistUser \/ RequestCompletion \/ ReceiveCompletion
  \/ EnforceReply \/ PersistAssistant \/ RunCodeChange
  \/ Succeed \/ Fail \/ ScheduleRetry \/ Complete

Next == Step \/ Crash \/ Done

Spec == Init /\ [][Next]_vars

\* Every call has a timeout, so a live worker goes on.
FairSpec == Spec /\ WF_vars(Step)

-----------------------------------------------------------------------------
(* What the DAGs of planDagForRun and planCodeChangeDag have besides a     *)
(* topological order, and some properties need.                            *)

\* No completion follows another.
Apart ==
  \A n \in Node : Kind[n] = "LLM_CHAT" => \A d \in Deps[n] : Kind[d] # "LLM_CHAT"

\* Only completions are retried.
CompletionsRetried == \A n \in Node : MaxAttempts[n] = 2 => Kind[n] = "LLM_CHAT"

\* The node whose text is the answer.
Source ==
  LET enforce == First("ENFORCE_REPLY_CONSTRAINTS", Node)
  IN  IF enforce # 0 THEN enforce ELSE First("LLM_CHAT", Node)

\* A node that stores the answer waits for the node that gives it.
AnswerDepends ==
  \A n \in Node : Kind[n] = "PERSIST_ASSISTANT_MESSAGE" => Source \in Deps[n] \cup {0}

-----------------------------------------------------------------------------
(* Properties.                                                             *)

NodeStatus == {"PENDING", "RUNNING", "SUCCEEDED", "FAILED", "SKIPPED"}
Control == {"idle", "plan", "queue", "visit", "start", "run", "llm", "settle",
            "retry", "complete", "returned", "threw"}

\* Every variable keeps its type.
TypeOK ==
  /\ log \in Seq(Event)
  /\ messages \in Seq([node : Node, text : Text \cup {UserText}])
  /\ calls \in [Node -> Nat]
  /\ pc \in Control
  /\ seen \in SUBSET (EventType \X (0..NumNodes) \X (0..2))
  /\ pos \in Node
  /\ attempt \in 1..2
  /\ status \in [Node -> NodeStatus]
  /\ outputs \in [Node -> MaybeText]
  /\ resumeAt \in [Node -> 1..3]
  /\ result \in [ok : BOOLEAN, text : MaybeText]
  /\ verdict \in BOOLEAN
  /\ crashes \in 0..MaxCrashes
  /\ faults \in 0..MaxFaults

\* No event of the DAG is logged twice, however often the worker dies between
\* an append and the next step and starts again: emit and its set of keys.
NoDuplicateEvents ==
  \A i, j \in DOMAIN log :
    HasDagId(log[i]) /\ HasDagId(log[j]) /\ Key(log[i]) = Key(log[j]) => i = j

\* A node is started only when each of its dependencies has succeeded, in
\* this execution or in one before a crash: the check of depends_on.
StartedAfterDeps ==
  \A j \in DOMAIN log : log[j].type = "NODE_STARTED" =>
    \A d \in Deps[log[j].node] : \E i \in Rows("NODE_SUCCEEDED", d) : i < j

\* An attempt that is started is one that the node is allowed, and a second one only after
\* the first has failed or has returned no text: the retry loop and chooseAttemptForResume.
StartsInOrder ==
  \A j \in DOMAIN log : log[j].type = "NODE_STARTED" =>
    /\ log[j].attempt <= MaxAttempts[log[j].node]
    /\ log[j].attempt = 2 =>
         \E i \in 1..(j - 1) :
           /\ log[i].node = log[j].node /\ log[i].attempt = 1
           /\ \/ log[i].type = "NODE_FAILED"
              \/ log[i].type = "NODE_SUCCEEDED" /\ log[i].text = NoText

\* No attempt both succeeds and fails.  This needs a DAG that is Apart: SkipBlocked fails
\* the first attempt of a node that may have an empty success.
EndsOneWay ==
  \A n \in Node : Attempts("NODE_SUCCEEDED", n) \cap Attempts("NODE_FAILED", n) = {}

\* The attempts of a node keep to their number, their order and their ends.
AttemptsInOrder == StartsInOrder /\ EndsOneWay

\* DAG_COMPLETED tells the truth, and executeDag returns what it tells.  ok
\* says that every node has succeeded and that the messages are stored; not ok
\* says that some node has no success that counts.
VerdictHonest ==
  /\ \A v \in Verdicts :
       IF log[v].ok
       THEN \A n \in Node :
              /\ Rows("NODE_SUCCEEDED", n) # {}
              /\ Kind[n] \in {"PERSIST_USER_MESSAGE", "PERSIST_ASSISTANT_MESSAGE"} =>
                   \E i \in DOMAIN messages : messages[i].node = n
       ELSE \E n \in Node : ~MateriallySucceeded(n)
  /\ pc = "returned" => \E v \in Verdicts : log[v].ok = verdict

\* A node stores one message, though its insert may be repeated after a crash
\* or a failed call: the deterministic id of insertMessage.
OneMessagePerNode ==
  \A i, j \in DOMAIN messages : messages[i].node = messages[j].node => i = j

\* The stored answer is the text that the log says was enforced (or the
\* completion, in a DAG that enforces nothing), though a completion may have
\* been repeated with another text.  This needs a DAG with AnswerDepends.
AnswerIsTheLoggedText ==
  \A i \in DOMAIN messages : Kind[messages[i].node] = "PERSIST_ASSISTANT_MESSAGE" =>
    messages[i].text = LastOutput(Source)

\* What an execution leaves is what its log says: the verdict and the stored answer.
EndIsTrue == VerdictHonest /\ AnswerIsTheLoggedText

\* Once the verdict is logged a redelivered job has no effect: nothing is
\* logged or stored, and the model is not asked.
NothingAfterVerdict == [][Verdicts # {} => UNCHANGED <<log, messages, calls>>]_vars

\* What the log says has succeeded, with the text it gave, stays so, and the model is
\* not asked for it again: a resumed execution replaces no output that later nodes
\* may have used.
SuccessIsFinal ==
  [][\A n \in Node : MateriallySucceeded(n) =>
       /\ calls'[n] = calls[n]
       /\ MateriallySucceeded(n)' /\ LastOutput(n)' = LastOutput(n)]_vars

\* The execution comes to an end, and with a verdict unless the database failed.
EventuallyReturns == <>[](pc = "returned" \/ (pc = "threw" /\ faults > 0))

=============================================================================
