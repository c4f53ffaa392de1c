# Cognitive Runtime in TLA+

Specifications of the runtime under `src/`: what its components do, what TLC
checks of them on small instances, and what TLAPS proves of them for every
instance.

1. [The system](#the-system)
2. [Modules](#modules)
3. [Plan](#plan)
4. [What the runs check](#what-the-runs-check)
5. [Where the repository disagrees with itself](#where-the-repository-disagrees-with-itself)
6. [What is proved](#what-is-proved)
7. [Not modelled](#not-modelled)

Run everything inside this directory:

    tlc -workers 2 -config MCDagExecutor.cfg MCDagExecutor
    tlc -workers 2 -config RunLifecycle.cfg RunLifecycle
    tlapm DagExecutorProofs.tla
    tlapm RuleProofs.tla

`PROJECT.json` lists the components, the runs, the source lines that every
definition stands for, the hazards of the code and the mutants that show each
property to be sensitive to the code it is about.

## The system

A chat message becomes a *run*. The API records the run in an append-only log
(`run_logs`) and puts a job in a BullMQ queue; one worker takes the job, plans
a DAG of nodes, executes it node by node and logs what it does. The log is the
only thing the processes share: status, progress and trust are derived from it,
and a worker that dies is replaced by one that reads the log and goes on.

| component | code | state it keeps | operations | hard parts |
|---|---|---|---|---|
| DAG executor | `packages/runtime/src/dag-executor.ts` | in memory: keys to skip, status, outputs and next attempt of every node | `executeDag`, `emit`, `runNode`, `deriveNodeState`, `stableTopologicalOrder` | a crash between an effect and its event; an append that failed but was committed; a completion asked for twice; attempts exhausted before a crash |
| Message store | `packages/storage/src/messages-repo.ts` | table `messages` | `insertMessage`, `listRecentMessages` | repeated inserts |
| Event log | `packages/storage/src/event-log.ts`, `validate.ts` | table `run_logs` | `append`, `getByRunId` | the schema may reject an event; events of one millisecond are ordered by a random id |
| Run API | `apps/api/src/routes/runs.ts` | none | `POST /runs`, `POST /runs/:id/execute`, `GET …/status`, `GET …/dag-state`, event stream | every handler reads the log, waits, and appends |
| Control API | `apps/api/src/routes/phase7.ts` | none | `POST /runs/:id/cancel`, lists of runs and policies | as above |
| Worker | `apps/worker/src/index.ts` | in memory: keys to skip, `ok`, the error | the job handler | some thirty appends with different treatment of their failure; cancel and timeout at fixed points only |
| Lifecycle helpers | `packages/runtime/src/lifecycle.ts` | none | `isRunCancelled`, `hasTerminalEvent`, `classifyFailedRun`, `getActiveNodeId`, `isTimedOut` | order of the tests |
| Queue | `apps/api/src/queue/runs-queue.ts` | BullMQ job with the run id as its id | add, take, acknowledge, stall | redelivery after a stall, no attempt after a throw |
| Derived DAG state | `packages/runtime/src/derive-dag-run-state.ts` | none | `deriveDagRunState` | what it shows of a log with retries, skips and crashes |
| Meta planner | `packages/runtime/src/meta-planner/*.ts` | none | `plan`, `buildCandidates`, `validateCandidate`, `selectWinner`, `evaluatePlannerDecision` | a redelivered job plans again; every failure must lead to the default DAG |
| Policy gate | `packages/runtime/src/policy-gate.ts` | none | `evaluatePolicy`, `classifyDagType` | the last matching rule wins |
| Reward and trust | `packages/runtime/src/reward-agent.ts`, `derive-agent-trust.ts` | `TRUST_UPDATED` events of all runs | `computeReward`, `deriveAgentTrust` | clamps, decay, exactly one update for each run |
| Memory | `packages/runtime/src/memory/*.ts` | tables of episodes and procedures, Qdrant, Redis caches | retrieve for a run, retrieve for the planner, write an episode | check then insert; caches that go stale; partial failure of one tier |
| Memory routes | `apps/api/src/routes/memory.ts` | the same stores | write, search and inspect | races with the worker |
| Direct chat | `apps/api/src/routes/ai.ts`, `services/qwen.ts` | messages and events of a run without a job | `POST /ai/chat`, `/ai/chat/stream` | failure after the answer was stored; failure inside the error path |
| Contracts | `packages/contracts/src/*.ts` | none | schemas, `normalizeDagSpecInput` | which events are rejected |
| Web client | `apps/web/src/App.tsx`, `components/ChatPanel.tsx`, `Composer.tsx` | the React state of the two panels, an interval, requests under way | poll, fetch once, switch the run; load, send, read the stream | answers that come after the state they belong to has gone |
| Engine, read-only routes, debug panels, scripts | | | | wiring, display and probes |

### What makes each component correct

* **DAG executor.** No event of the DAG is logged twice; a node starts only on
  logged successes of its dependencies; attempts keep to their number and
  order; the verdict is true, final and returned again to a redelivered job;
  one message is stored for each node and the answer is the text the log says
  was enforced; the model is not asked again for what the log has; the
  execution ends.
* **Lifecycle of a run** (API, queue, worker, helpers). Each milestone is
  logged once whatever dies; `ok` is earned; the status that the API derives is
  the verdict; a cancelled run executes nothing if the request came before its
  worker started or from the policy gate; after `RUN_COMPLETED` no delivery
  logs anything and no heartbeat begins; a queued run completes.
* **Derived DAG state.** What is derived from the log moves as one run of the
  DAG does, however often the worker was replaced.
* **Meta planner.** The winner passes every check and does not depend on the
  order of the evidence; what the planner calls free of cycles is what the
  executor can order; a redelivered job never runs another DAG than the one it
  began, under the default weights.
* **Policy gate.** Disabled code changes are blocked, high risk is never
  allowed without review; what was blocked stays blocked.
* **Reward and trust.** Scores stay within their bounds; a run moves the trust
  of its agent once.
* **Memory.** One episode for each run; what is announced was written; a tier
  that fails does not hide the others.
* **Direct chat.** What the caller is told is what is stored, the events of a
  run follow its course, and a request comes to an end.
* **Web client.** One interval and the state of the right run; no message twice;
  a composer that comes back.

## Modules

### DagExecutor

`executeDag` and `runNode`. One action is the code between two awaits that
reach PostgreSQL or llama-server; `Crash` may come between any two of them.

| state | code |
|---|---|
| `log` | rows of `run_logs` with the events of `executeDag`, in the order of the appends |
| `messages` | rows of `messages` that the nodes insert |
| `calls` | history: completions requested, for each node |
| `seen` | the set `seen` of `executeDag`, keys of the events not to append again |
| `status`, `outputs`, `resumeAt`, `attempt`, `pos` | the maps `status` and `outputs`, `stateByNodeId`, the variables of the two loops |
| `result`, `verdict` | what `runNode` returned or threw, what `executeDag` returned |
| `pc` | the await the worker stands at; `idle` before the handler runs |
| `crashes`, `faults` | the counters of the two bounds |

`Resume` is one read of the log; `Plan`, `Queue`, `StartAttempt`, `Succeed`,
`Fail`, `ScheduleRetry` and `Complete` are the calls of `emit`; `SkipSucceeded`,
`SkipBlocked`, `GiveUp` and `BeginNode` are the branches of the loop;
`RunPure`, `PersistUser`, `RequestCompletion`, `ReceiveCompletion`,
`EnforceReply`, `PersistAssistant` and `RunCodeChange` are the kinds of node.
An append or insert that fails (`EmitFails`, `Insert`) may have been committed:
the executor cannot know, and what it does next differs inside and outside
`runNode`.

A node is its position in the listing of the DAG. `Sorted` (the order of the
ids) and `Order` (the result of `stableTopologicalOrder`) are constants;
`DagAssumption` says of them only that each has every node, and `Order` every
node after its dependencies. A text is one of a few values, or `NoText` for an absent or
blank one, which the code tells apart from others; `Enforced` is what
`enforceReplyConstraints` makes of a completion. The text of an assistant's
message has three sources, tried in the order of the code (`RawText`); the third,
the input of the node itself (`InputText`), is empty in every DAG that the code
builds, and so in `MCDagExecutor`, but a DAG from memory may have it.

Three properties need more of a DAG: `Apart`, that no completion follows
another; `CompletionsRetried`, that nothing else has a second attempt; and
`AnswerDepends`, that the answer is stored after the node it is taken from. The
DAGs of `planDagForRun` and `planCodeChangeDag` have all three
(`buildCandidates`, too, raises the attempts of `LLM_CHAT` only), and TLC
evaluates them for the DAG below (`PlanShape`). The planner only asks that the
mandatory kinds are there, so a template from memory need not have them.

### MCDagExecutor

A DAG of seven nodes: the default one of `planDagForRun`, a chain whose
`llm_chat` has two attempts and whose instruction forces a reply, with a second
branch of a code-change node and a `NOOP`, as a template of the planner may have
it. A resumed execution that finds one branch exhausted runs the other.

### DagRun and DerivedDagRun

`DagRun` is the abstract run, in the states that `GET /runs/:runId/dag-state`
shows: a status of the DAG, and of each node a status and its last attempt. A
node is started when its dependencies have succeeded and an attempt is left; a
node is blocked by a dependency that will not succeed any more; a DAG has
succeeded when its nodes have. There are no crashes in it.

`DerivedDagRun` is `deriveDagRunState` as a function of `log`, and by it the
mapping from `DagExecutor` to `DagRun`: `ShowsOneRun` says that every step of
the executor, the crashes and the steps after them included, is a step of the
abstract run or leaves what is shown alone. Two oddities of the code had to be
admitted: a text node that succeeded with an empty text is started again, and a
node that is blocked is shown as one whose first attempt failed. SKIPPED, which
`deriveDagRunState` gives to pending nodes of a good DAG, is not a state of
`DagRun`: a good DAG has no pending node.

### The proof modules

`RunLifecycleProofs`, `RunPipelineProofs`, `MemoryProofs`, `DirectChatProofs` and
`WebClientProofs` extend the module they are named for with an inductive
invariant, lemmas and theorems, see [below](#what-is-proved). `DagExecutorProofs`
extends `DerivedDagRun`: its last part is the refinement of `DagRun`.
`RuleProofs` extends `RulePromises`, and has no state; `MCRulesProofs` carries its
theorems over to `MCRules`, and `RunPipelineProofs` uses those about the planner.

### RunLifecycle

A run from `POST /runs` to `RUN_COMPLETED`: the callers and cancellers are API
requests that stand between two of their awaits; `job` and `stalls` are the
BullMQ job; `pc`, `seen`, `ok` and `error` are the memory of the job handler.
There is one action for each append or read of the handler, and each has its
own outcome of a failure: fatal (`MarkRunning`, `Complete`), caught as the end
of the run (`CheckTimeout`, `StartNode`), or ignored (`EvaluatePolicy`,
`ComputeReward`, `Classify`). `executeDag` is a chain of nodes of one attempt.
`Accepts` is the schema: `RUN_CANCELLED` and `RUN_TIMEOUT_REACHED` carry an
optional string, and the code passes `null` where no node is active.

The heartbeat is an actor of its own: `inFlight` is its append under way, and
`Beat` and `EndBeat` come between any steps of the handler. A tick needs a handler
that has not reached its `finally`; its append may end after that, after
`RUN_COMPLETED`, and after the job has returned. `MaxBeats` bounds the heartbeats.

`FailureClass` is the whole of `classifyFailedRun`. The classes DEAD_LETTER and
STALE, and the `VALIDATION_ERROR` of PERMANENT, are translated but not reached
here: a node of the chain has one attempt, and no job logs the two events.

Retrieval, planning, evaluation and memory write are left out here:
the handler survives their failure, and nothing in the part modelled here reads
them back. What they compute is in the next modules.

### DagRules, ScoreRules, RulePromises and MCRules

The pure functions, as operators and recursive functions without state.
`DagRules` has `stableTopologicalOrder`, the checks of `constraints.ts`, the
candidates, scores and choice of the planner, the table of the policy gate, the
two built-in DAGs and the normalisation of legacy spellings. `ScoreRules` has
the reward with its gate and routing, the trust with its decay, the two measured
values of the planner's evaluation, and the forced reply. Scores are scaled
integers: thousandths in the planner, ten-thousandths in reward and trust. A
text to be forced is its length and whether it ends in punctuation; a pattern
that matches is what it captured.

`RulePromises` says what a rule promises of one input, against a definition that
does not repeat it: all orders of a DAG against the one computed, the widest
antichain against the levels, the plan for reversed evidence against the plan, a
second normalisation against the first. `MCRules` draws one input of one rule
and stops, and its properties are those promises.

Kahn's algorithm is written as a start, a round and the rounds
(`KahnStart`, `KahnRound`, `Kahn`), so that a proof can speak of one round. The
filters of the planner are `AtPositions`, the elements at a set of positions in
their order, since the provers cannot look into `SelectSeq`.

### RunPipeline

The job handler again, with the data that `RunLifecycle` leaves out, over
several runs that share the log, the templates and one agent's trust.

| state | code |
|---|---|
| `log` | `run_logs`: the events that planner, gate, executor, reward block and memory leave, with the values read back |
| `episodes`, `procedures` | the tables `episodic_memories` and `procedural_memories` |
| `job`, `stalls` | the BullMQ job of each run and its redeliveries |
| `worker` | the variables of the handler: run, plan, `ok`, the score of the reward block and what it returned |
| `config` | the planner's and the gate's environment, one of three |
| `day` | the clock, as far as the decay of the trust sees it |

`Plan`, `Policy`, `Block`, `BeginDag`, `StartNodes`, `CompleteDag`, `Score`,
`UpdateTrust`, `CompleteReward`, `Evaluate`, `CheckEpisode`, `InsertEpisode`,
`AnnounceEpisode` and `Finish` follow the handler from read to write; a crash
may come between any two of them and BullMQ gives the job out again. The
planner's decision is that of `DagRules`, the reward and the trust are those of
`ScoreRules`. The executor is seen from outside: it logs the plan, an attempt
of the first node it has no end of, and a verdict, once. The reads that can fail
are there (`TakeFails`, `ReadFails`), and so is the end of a cancelled run
(`LogCancelled`): its `RUN_CANCELLED` has a `null` node, which the schema rejects
unless a node is left active, and the handler throws. Two abstractions are
worth knowing: the row of a node event carries the plan of the execution that
wrote it, which the code does not log and `OneDagPerRun` is about; and a
template is saved between jobs only, since nothing but the next plan reads it.

### Memory and MCMemory

The services under the memory of the runs. `served` is the model llama.cpp has
at the moment, `collection` the Qdrant collection with its dimension and
points, `cache` the vector of the message in Redis, `worker` the process with
the provider its probe found, `embedder` the provider the API has memoised. A
vector is the model that computed it, since the code can compare nothing else
than lengths. The worker starts up (`Validate`, `Delete`, `Ensure`, `Create`),
takes the job and retrieves tier by tier (`EmbedQuery`, `Read`, `LogTier`,
`LogContext`); the API embeds and upserts (`GetEmbedder`, `Probed`,
`EmbedRecord`, `Upsert`) and saves procedures (`SaveDag`). The model server
changes, calls fail, and either process restarts. `MCMemory` names two models
of different dimension that do not report their name, so that the cache and the
worker take one for the other.

### DirectChat

`POST /ai/chat` and `POST /ai/chat/stream`: `pc[r]` is the await at which the
handler of a request stands, `messages` and `log` are the two tables,
`prompt[r]` the history it read, `tokens[r]` the length of the answer as far as
it has come, `frames[r]` what the caller has received. `LogEvent` is the append
at each of its five places; `DatabaseFails` is a statement that throws, with or
without having been committed, and goes where the code's `try` sends it. The
apology is an assistant message in the code and has a role of its own here. A
handler that leaves by an exception is `escaped`.

### WebClient

The two parts of the client that wait: `dag`, `timers` and `calls` are the
state of the DAG panel, its intervals and its requests under way; `chat`,
`loads`, `stored` and `streams` the chat panel, its loads, the server's table
and the events of the streams. A handler with the effects it triggers is one
action, because React flushes them before the next callback; an answer
(`Respond`, `ShowMessages`, `ReadEvent`) comes in any order.

The server's side of a stream (`Server`) keeps the steps of `ai.ts` that the client
can tell apart: an answer is stored before `RUN_COMPLETED` is appended (`StoreAnswer`,
`Finish`), so when that append fails an apology is stored beside it (`Fail`,
`Apologise`); when the append of the error fails too, nothing is sent and the stream
hangs; and a process that dies closes the connection (`Die`). What is shown of the
chat is then two messages, answer and apology, which have two ids.

## Plan

Done: the executor and the abstract run it implements, the lifecycle, the
rules, the job with its data, memory, direct chat and the web client, each
checked, with every safety property of a passing run proved. What is left, in
this order:

1. A log that returns events of one millisecond in either order, under
   `DagExecutor` and `RunLifecycle`.
2. The insert of M1 by `POST /memory/write` beside the worker's write of an
   episode, and the ranking of M2.

## What the runs check

| run | instance | shows |
|---|---|---|
| `executor` | seven nodes in two branches, 2 texts, 2 crashes, 1 fault, fair worker | type, deduplication, order, attempts, verdict, one message, the enforced answer, nothing after the verdict, no call after a success and no other output, the end of the execution, and the refinement of `DagRun` |
| `run_safety` | two nodes, policy gate, timeout, one cancel request, 2 crashes (1 redelivery), 1 fault | milestones once, `ok` earned, cancel holds |
| `run_heartbeat` | one node, one cancel request, 2 heartbeats, 1 crash (1 redelivery), 1 fault | no delivery logs after the end, and no heartbeat begins |
| `run_status` | create, one execute, one cancel, 1 crash, fair worker | the derived status is the verdict; a queued run completes |
| `direct_chat` | one blocking and one streaming request, 2 earlier messages, history of 3 with 2 turns, 2 tokens, 2 faults | the events of each run are its course with at most one error at the end; "done" means stored, whole and completed; answer and apology stand together only after a failed write; the prompt is the past |
| `rules` | every graph of 3 nodes with 2 dependencies each, every acyclic one of 5, two patterns, every context and retry of small sets | see [the rules](#dagrules-scorerules-rulepromises-and-mcrules): four properties, one for each question that the rules answer, whose parts are the rules |
| `pipeline` | two runs, one template, three configurations, 1 crash, 1 fault, 1 redelivery, a day | one episode for a run, with the verdict and the reward of the log; one reward; updates of the trust form one chain over the runs; one DAG for a run; a block holds; the planner is measured by the logged reward |
| `memory` | two models and the development one, one writer, one procedure, 1 change, 1 fault, 1 restart, 2 deliveries | a worker that came up has its collection; a search sees all of it; points are lost to a change of dimension only; counts are backed by events; what is announced is stored |
| `web` | two runs, two chats, 2 sends, 1 token, 4 acts, fair server and timer | one interval; no message twice; an id of the server is true; the polled run is shown in the end; the composer comes back unless the stream never ends |

**Bounds.** `MaxCrashes` bounds the crashes and `MaxFaults` the failed database
or queue calls of one behaviour. Two crashes let a second execution read a log
that an earlier resumed execution wrote, and exhaust both attempts of
`llm_chat`. The fault lets an append fail unknown to the executor before or after
a restart. A node has at most two attempts
because `normalizeDagNodeInput` clamps `max_attempts` to 2. Two texts are
enough to see an answer that is not the one logged. One redelivery
(`MaxStalls = 1`) is BullMQ's default, which the worker leaves as it is, and the second
crash of `run_safety` is the one after which the job is given up. The heartbeat
is in `run_heartbeat` only (`MaxBeats = 2`: one in flight at the end of the run, one
before it), because what it logs is read by no step, and it would multiply the
states of the others; they have `MaxBeats = 0`.

In `pipeline` one crash and one fault meet at every pair of steps of either
run, and two runs are enough for the trust of one to be the start of the other;
`Runs` is a symmetry set. In `memory` the dimension of the collection, of the
provider, of the cached vector and of the served model may be of three models
at once, and one of each mishap is enough to bring them apart; a second request
adds no new comparison. Three nodes are enough in `rules` for a cycle, a
repeated id, a repeated and a missing dependency side by side; five let a
set of nodes that could run at once reach across levels. In `direct_chat` a history of three messages is full as soon as the
second request has written; in the code the history has ten messages and a batch
five tokens. In `web` four acts are a switch, a stop, a start and a click while a
request is under way, or two chats and two sends.

**Deadlock** is checked in the runs of `DagExecutor`, `RunLifecycle` and
`DirectChat`: who has nothing left to do takes a stuttering step of its own, and
any other state without a step would be an error. The runs `rules`, `pipeline`,
`memory` and `web` have it off, because their behaviours end
where their bounds are used up: an input is drawn once, every job is done, the
users have done what they may.

**Fairness.** Weak fairness of `Step` (`WorkerStep`): each database call, and
each call of the model through its abort timer, returns or fails, and a
container whose process died is restarted (`restart: unless-stopped`).
`DirectChat` assumes none: its handlers are finite, the absence of deadlock says
that they never stand still, and the llama server, which has no timeout there,
may never answer. Of `WebClient` it is the interval, the answers (which may be
failures), the reading of the stream, and of the server the database calls
(`Handler`) only: the next token, the storing of the answer after the last one and
the end of a stream whose catch block failed are not promised by anybody.
`ComposerReturns` therefore says that a composer that stays disabled belongs to a
stream that is open or hung at the server, with all its frames read.
Nothing is assumed of clients, who may stop at any await, nor of crashes and
faults. A run that a client leaves QUEUED without a job is not expected to
complete: `EventuallyCompletes` is about runs with a job.

**Mutants.** Every property is violated by a plausible error in the code,
named as such beside the definition it replaces: keys not collected from the
log, a random message id, a dependency looked up as "not failed", a handler
that does not look for an end. Where a property is a conjunction of named parts
(`EndIsTrue`, `ChatIsTrue`, `OrderIsRight` and its like), the parts are read one by
one and the mutant breaks one of them.

## Where the repository disagrees with itself

Each of these runs checks one sentence of the repository and finds the
behaviour that contradicts it.

| run | sentence | what happens |
|---|---|---|
| `cancel_unrecorded` | "cancelled runs emit `RUN_CANCELLED` events" (docs/SMOKE_TESTS.md:80) | a run cancelled before its job is taken returns without a terminal event; one cancelled with no active node fails to append it, since `null` is not an optional string |
| `execute_twice` | "Idempotent: if already enqueued/running/done, return current status with no side effects." (runs.ts:227) | two requests pass the check and both queue the run |
| `created_first` | "appends RUN_CREATED as the first event" (ai.ts:11) | the streaming handler appends it inside its `try`: when that fails, `RUNTIME_ERROR` is the first event |

Met while modelling, and visible in the models, without a run of its own: the
artifact of a code-change node is logged again after a crash, because its event
has no `dag_id`; a blocked run goes on when the request to cancel it cannot be
logged, because the catch around the gate takes it for a failed evaluation; a
resumed executor that finds a node exhausted goes on to the next node, where a
live one stops; and where a completion depends on another one, an attempt may
end twice: the dependent has logged an empty success, the dependency is given up
by a resumed executor, and the dependent is then blocked, which logs
`NODE_FAILED` for its first attempt. A DAG that is `Apart` has no such pair
(enforcing an empty text fails), so `AttemptsInOrder` holds of it; of every DAG
its first half, `StartsInOrder`, does.

Further disagreements, each the result of a line or two, so that a run would
only repeat the reading:

* *Lifecycle.* `RUN_TIMEOUT_REACHED` carries `active_node: null`, which the
  schema rejects: a timeout ends in `RUNTIME_ERROR` (worker `index.ts:459`). The
  loop of `executeDag` has no check of cancel or timeout, which
  `dag-executor.ts:15` announces. A policy block is classified CANCELLED
  (`lifecycle.ts:113`), though `phase7.ts:46` calls it permanent.
* *Memory.* A redelivered job announces the id of a record that its check kept
  from being stored (docs/MEMORY_MODEL.md:30). `WorkerM2Store` says that it
  makes the collection before the first upsert and that a failed search returns
  nothing (`index.ts:193`): the first is done at startup only, and a failed
  `fetch` throws, to be caught a level up. The API keeps the development
  provider for good when llama.cpp was down at its first request
  (`memory.ts:59`). A vector of another model of equal length is used unseen.
  `GET /runs/:id/context` shows the counts of the first `RUN_CONTEXT_PREPARED`
  beside the retrievals of all deliveries. A template saved by save-dag never
  parses as a DAG, and one of a running DAG is partial. A redelivered run may
  retrieve its own episode.
* *Planner and rewards.* Under the default weights nothing but the default DAG
  is ever chosen (`DefaultStands`, proved for all evidence); under others a redelivered job may run
  another DAG under the same `dag_id`, which is why `OneDagPerRun` has its
  premise. `classifyDagType` looks for three of the six code-change kinds. The
  width of a DAG is counted by levels, and `max_depth` bounds the number of
  nodes at three times its value. A failure after `REWARD_COMPUTED` loses the
  update of the trust for good, which `contracts/reward.ts:68` does not foresee.
* *Contracts.* A retry in the legacy spelling is matched by the canonical member
  of its union first, which strips it (`dag.ts:183`), so it never
  arrives.
* *Direct chat.* The history is the ten oldest messages of the chat
  (`ai.ts:68`), and the last of them is dropped as if it were the message just
  stored. A stream that closes without a stop signal is stored as complete.
  When the error path of the stream fails, `end()` is not reached, which `ai.ts:139`
  promises; the model has it as a handler that is `escaped` after a frame, and
  `WebClient` as a stream that hangs.
* *Web client.* A frame with `error` and `done` is read as an end, so the error
  is not shown (`ChatPanel.tsx:137`). Messages of another chat are shown when an
  answer comes after the switch. "A `useRef` boolean guard (`inFlightRef`) prevents
  concurrent requests" (DEBUG_UI.md:414) is true of the ticks only: Fetch Once does
  not look at the guard (`App.tsx:222`), and its answer releases it for a poll that
  is still under way (`App.tsx:237`).

## What is proved

Checked by TLAPS: for every value of the constants that satisfies the named
assumption of the module, which is a matter of types (bounds are naturals, ids
are distinct) wherever nothing else is said.

### DagExecutorProofs

For every DAG that satisfies `DagAssumption`, every set of texts
(`TextAssumption`: `NoText` is no text, `Enforced` gives texts, `InputText` texts or none) and any
number of crashes and faults:

| theorem | statement |
|---|---|
| `TypeCorrect` | `Spec => []TypeOK` |
| `NoDuplicates` | `Spec => []NoDuplicateEvents` |
| `OrderKept` | `Spec => []StartedAfterDeps` |
| `OneMessage` | `Spec => []OneMessagePerNode` |
| `VerdictIsFinal` | `Spec => NothingAfterVerdict` |
| `SuccessKept` | `Spec => SuccessIsFinal` |
| `StartsOrdered` | `Spec => []StartsInOrder` |
| `VerdictTold` | `Spec => []VerdictHonest` |
| `AttemptsKept` | `ASSUME Apart PROVE Spec => []AttemptsInOrder` |
| `EndTold` | `ASSUME AnswerDepends PROVE Spec => []EndIsTrue` |
| `ImplementsRun` | `ASSUME Apart, CompletionsRetried PROVE Spec => ShowsOneRun` |

What `DagAssumption` says of `Order` is what `OrderIsFirstAlways` of `RuleProofs`
proves of `stableTopologicalOrder`.

The argument, in the order of the module:

* *Shape of a step.* Every step leaves the log alone or appends one event
  (`StepShape`); at most one message is added (`StoreShape`); status and node
  change in few ways (`NodeShape`, `StatusShape`). The invariants below use
  these lemmas and not the twenty-three actions.
* *Types.* `TypeInv` adds to `TypeOK` what it needs to be inductive: the texts
  and attempts in the log and in the memory are those of the constants, an
  attempt to resume is at most one beyond those logged, and a running node has
  an attempt that it may have. `MaxOf` and `MinOf` are `CHOOSE`s, and that a
  finite set of naturals has them is proved from the well-founded order of the
  naturals.
* *Verdict.* `VerdictInv`: an execution that is under way found no verdict when
  it began, and the step that logs one ends it.
* *Order.* `OrderInv`: every key in `seen` is in the log, a node whose status is
  SUCCEEDED has its success in the log, and the dependencies of the node that is
  executed have succeeded. `StartedAfterDeps` alone is not inductive, because
  the check of `depends_on` looks at the memory and not at the log.
* *Deduplication.* `NoDuplicateEvents` is not inductive either, and the
  natural strengthening, "every key of the log is in `seen`", is false: an
  append that failed may have been committed. `KnownOrOvertaken` says that a
  key of the log is in `seen`, or that the execution is past the only place
  where it could emit it again: a failed append inside `runNode` ends the
  attempt, and one outside ends the execution.

What the attempts and the execution come to:

* *Shape of a step*, again, for the memory: how a node comes to be in hand and
  in its attempt (`Hand`, `Attempt`), what the loop has not come to (`Coming`),
  what a success keeps (`Keeps`), where a result comes from (`Settles`), and what
  the step that appends a status or the verdict is (`RowBy`).
* *Successes.* `Counts` speaks of a row where `MateriallySucceeded` speaks of the
  last one: the text of the last success may be empty while an earlier one is
  not, for all the log says. `SuccessInv` shows that this does not happen: a row
  that counts is the last of its node, the executor knows of it, and the node in
  hand has none. So a success that counts is followed by no other, which is
  `SuccessIsFinal`.
* *Attempts.* `AttemptInv` follows the number that `chooseAttemptForResume` chose
  from the read of the log to the node it is for, past whatever the nodes before
  it do (`AheadInv`), and through the retry loop (`InHandInv`): that attempt has
  not ended, no later one has, and a second one has a first that ended
  (`SecondInv`).
* *What a success promises.* `ResultInv` carries from the attempt to the log that
  the node was started, its message stored, its enforced text not empty; `RowInv`
  says it of the logged success, and `OutputInv` that the executor's outputs are
  the texts of the log.
* *The verdict* then says of every node what its row promises, or of one that no
  row of it counts (`VerdictsTrue`), and is what the execution returns
  (`ReturnsVerdict`).
* *One end.* Blocking fails an attempt that was never in hand. A success of it in
  the log would be empty, so a completion's (`EmptyIsCompletion`), and it was
  started, so its dependencies had succeeded; the one that blocks it is a
  completion too. **`Apart` is needed**: without it TLC finds the attempt that
  ends twice.
* *The answer.* The node that stores it waits for the node whose text it is, which
  has then succeeded with a text, for good (`AnswerStored`). **`AnswerDepends` is
  needed**: in a DAG without it the completion is stored before it is enforced.

The refinement of `DagRun`. What is derived from the log is a function of its
last rows, and what lets the executor append the next row is its memory of an
earlier read. The proof joins the two, and then looks at one appended event at a
time:

* *What is shown.* `Shown` is the status by the last row of a node (`LastShown`),
  `last_attempt` the greatest attempt of its rows (`LastAttempt`); an event moves
  those of its own node (`StatusAfter`) and of no other (`OthersShown`). SKIPPED
  drops out, because a good verdict has a success of every node (`ShownIsDerived`).
* *New events.* The key of an event that is appended is not in the log (`Fresh`,
  from `KnownOrOvertaken`). So `DAG_PLANNED` comes once and `NODE_QUEUED` once for
  each node, before any start (`PlanInv`), and the attempt that starts is the one
  after the greatest (`NextAttempt`).
* *What the executor believes is what is shown* (`ShownInv`): a node it takes for
  succeeded is shown so, and one whose attempt it runs is shown as running, also
  where `NODE_STARTED` was logged before a crash and is not logged again
  (`StartedIsShown`, from the order of the attempts and `EndsOneWay`).
* *What the loop has left* has succeeded or is lost (`PassedInv`): it is shown as
  failed, or it is a completion that is out of attempts. `ChosenInv` keeps the
  attempt chosen at the read equal to the one the log still gives, and so a node
  that is given up is lost (`GivenUpIsLost`). A blocked node has a lost dependency
  because the dependencies come first in `Order` (`BlockedBy`), and was blocked
  by one before when its failure is in the log already (`BlockedIsLost`).
* *The steps.* Each kind of event is a step of `DagRun` (`ShowsPlan`, `ShowsQueue`,
  `ShowsStart`, `ShowsSettle`, `ShowsBlock`, `ShowsComplete`) and every other step
  leaves what is shown alone (`ShowsOther`), a crash among them.

**`CompletionsRetried` is needed.** Take a node that stores the message, with two
attempts, after a completion with one and before a `NOOP`. It fails once and is
started again, the worker dies, and the completion, whose text was empty, is
given up by the next execution: the second attempt stays running for ever, the
failure of a blocked node (attempt 1) is in the log already, and the `NOOP` is
then failed for a node that no row shows as failed. TLC finds this run for such a
DAG. `Apart` keeps the ends of an attempt one, as above.

### RunLifecycleProofs

For any number of callers, cancellers, nodes and crashes, with or without gate
and timeout:

| theorem | statement |
|---|---|
| `TypeCorrect` | `Spec => []TypeOK` |
| `OnceEach` | `Spec => []LoggedOnce` |
| `OkEarned` | `Spec => []OkIsEarned` |
| `CancelIsHeld` | `Spec => []CancelHolds` |
| `EndIsLeft` | `Spec => WorkerLeavesTheEnd` |
| `StatusIsRight` | `ASSUME MaxStalls <= 1 PROVE Spec => []StatusIsVerdict` |

* *What the handler knows.* `HandlerInv` says at each step what the log has and
  has not: no work on a run that has ended (`EndInv`), `WORKER_STARTED` logged
  and known after its step (`StartInv`), reward and trust only where they are
  missing (`RewardInv`), and what `ok` stands for (`OkInv`). `JobInv` ties the
  handler to its job: OkIsEarned needs that a run rewarded without a crash or a
  fault is not delivered again. The API requests keep it because they log
  nothing that it speaks of (`ApiKeepsHandler`).
* *Who may log what.* `Licensed` gives, for every event, the step that appends it
  and what was not logged before. It is proved once over all actions
  (`ApiLicensed`, `WorkerLicensed`; the heartbeat has `HeartBeats`), and `LoggedOnce`, `OkIsEarned`,
  `CancelHolds` and `WorkerLeavesTheEnd` are read off it.
* *The status.* `QueueInv` and `OrderInv` bound the rows of the status:
  QUEUED, RUNNING and a final one come in this order, an execution adds at most
  one final row, and at most two executions follow a queue that redelivers once.
  **The bound is needed**: with `MaxStalls = 2` TLC finds a run that fails, whose
  job is given out again and succeeds, and again and fails; the third FAILED is
  skipped, because its key is in `seen`, and the status stays SUCCEEDED while
  RUN_COMPLETED says that the run failed. The worker leaves BullMQ's
  `maxStalledCount` at its default of 1, and any other number breaks this
  property.

### RunPipelineProofs

For every set of runs and of templates, every bound and each configuration
(`PipelineAssumption`: templates and bounds are naturals):

| theorem | statement |
|---|---|
| `TypeCorrect` | `Spec => []TypeOK` |
| `OneReward` | `Spec => []RewardReadBack` |
| `OneMove` | `Spec => []TrustMovesOnce` |
| `OneEpisode` | `Spec => []EpisodeOncePerRun` |
| `AnnouncedExists` | `Spec => []WrittenHasEpisode` |
| `BlockIsKept` | `Spec => []BlockedStays` |
| `OneDag` | `Spec => []OneDagPerRun` |

* *Episodes and blocks.* None of the three about them is inductive: the insert would
  add a second episode, and the announcement would be of nothing, if the worker
  stood there in a state it cannot be in. `IInv` adds what the worker knows at
  its step: no episode of its run exists at the insert, one exists at the
  announcement, and its run is not cancelled while nodes start. These survive a
  crash, because a worker that starts again knows nothing, and the steps of
  other runs, because there is one worker. `AppendRow`, `AppendLogs` and
  `AppendKeeps` say once what an append to the log does to the three properties.
* *Reward and trust.* `StoryInv` follows the numbers: verdict, reward and update
  of a run are in the log once each (`OnceInv`); a reward was computed for the
  verdict (`RewardInv`); an update continues from the one before it, of whatever
  run, by the reward of its own run (`IsMove`); and what the worker holds in
  `score` and `reward`, and the episode has, is in the log, unless a call has
  failed (`Carries`, `EpisodeInv`). What a redelivery reads back is the first
  row of the run (`FirstIsRow`), which is the only one. Of the rules of
  `ScoreRules` the proof uses only that a reward is positive exactly for a good
  verdict and in its range; the rest is a function of the same numbers on both
  sides.
* *One DAG.* A redelivered job plans again, and templates may have been saved in
  between: that the plan is the same is a fact about the planner.
  `DefaultIsDecided` has it from `DefaultStandsAlways` for every finite set of
  templates; it needs that the default DAG passes the checks (`ChatDagIsValid`,
  by the theorem about the order and a bound on the width) and what the memory
  says of a template (`PatternsAre`). `PlanInv` carries it on: with the default
  weights the plan of the worker and of every row is the default one, and a node
  starts only when the plan is logged, so that there is a first row to compare with.

### RuleProofs and MCRulesProofs

For every input of its kind, not only for the small ones:

| theorem | of every | statement |
|---|---|---|
| `OrderAgreesAlways` | DAG | `OrderAgrees(dag)` |
| `OrderIsFirstAlways` | DAG | `OrderIsFirst(dag)` |
| `WidthBoundsAlways` | DAG that has an order | `WidthBounds(dag)` |
| `ChoiceIsBestAlways` | list of candidates | `ChoiceIsBest(plan, SelectWinner(plan))` |
| `WinnerNeedsNoOrder` | two lists of the same patterns, configuration, constraints | the winners are equal |
| `WinnerIsSoundAlways` | evidence, configuration, constraints | `WinnerIsSound(patterns, config, c)` |
| `PolicyIsTable` | context and switch | `PolicyTable(ctx, on)` |
| `RetryIsNormal`, `IdentityIsNormal` | retry and limit; identity | `RetryFits`, `IdentityFits` |
| `ReplyFits` | instruction, answer, limit | `ForcedReplyFits(msg, raw, maxLen)` |
| `RouteFollows` | log of a run, verdict | `RoutingOfVerdict(events, dagOk)` |
| `TrustDamped` | trust, days, score | `TrustIsDamped(old, days, score)` |

A DAG is a sequence of nodes that is not empty, with repeated ids, repeated and
missing dependencies and cycles as they come (`IsDag`); evidence is a sequence of
patterns with different ids (`IsEvidence`), as the primary key of the table has it.

* *The order.* `KahnInv` says what the rounds keep: the nodes taken so far are
  different and come after their dependencies, the degree of a node is the number
  of its listed dependencies that are not taken, the ready ones are those that can
  be taken, and each was taken as the least of them (`Greedy`). When the rounds
  end early, nothing can be taken, and no order exists, because the first node of
  an order that is not taken could be (`OrderIsFound`). A smaller order
  would first differ at a node that could be taken and is less than the one that was.
* *The width.* An order of the nodes bounds the rounds in which a depth can still
  change, so the depths are a fixed point (`DepthsAre`), and so are the ancestors
  (`AncestorsAre`). Nodes of one level are then no ancestors of each other; where
  each level has one node, any two nodes are.
* *The choice.* `Beats` is a strict order of the keys of the candidates
  (`BeatsIsStrict`), so a finite list has an unbeaten one. `CandidatesAre` gives
  the candidates as a set, which is the same for every order of the patterns, and
  `TiesAreNone` that no two of it tie: the identifiers decide. The totals of the
  default weights are numbers, 615 for the default DAG against 520 and 460, in
  thousandths.
* *Induction.* What a recursive function computes is not proved by the induction
  theorems of the library, which the provers cannot instantiate, but by the least
  round that would violate the invariant (`NoFirstFailure`), from the
  well-founded order of the naturals.

`MCRulesProofs` shows that whatever `MCRules` draws is an input of the kind
(`RulesInvHolds`), so for any number of nodes and dependencies, any rewards and
any limit of the reply:

| theorem | statement |
|---|---|
| `OrderRight` | `Spec => []OrderIsRight` |
| `ChoiceSound` | `Spec => []ChoiceIsSound` |
| `RewardFair` | `Spec => []RewardIsFair` |
| `InputFitted` | `Spec => []InputIsFitted` |

### MemoryProofs

For every set of models, requests and procedures, every bound on deliveries, and
any number of changes of the server, failed calls and restarts:

| theorem | statement |
|---|---|
| `TypeCorrect` | `Spec => []TypeOK` |
| `UpReady` | `Spec => []UpIsReady` |
| `LogBacked` | `Spec => []LogIsBacked` |
| `PointsKept` | `Spec => PointsAreKept` |

`PointsInv`: points have the dimension of their collection, whoever computed
them, because Qdrant refuses others and an empty vector is never sent.
`WorkerInv`: a search goes out with a vector of the provider's dimension, which
is what the comparison of lengths in the cache is for. `ReadyInv` follows the
steps of startup, and `FoundInv` a count from the search that gave it to the
context that adds it up, through an append that may fail between.

### DirectChatProofs

For every set of requests, every length of history, answer and batch, and any
number of faults:

| theorem | statement |
|---|---|
| `TypeCorrect` | `Spec => []TypeOK` |
| `ChatTrue` | `Spec => []ChatIsTrue` |
| `PromptPast` | `Spec => PromptIsThePast` |

Where a handler is on its normal course says exactly what it has logged and
stored: the events before the one that is `Due`. Once it has left the course,
only what it left behind is known, since a statement that failed may have been
committed. A step of one request keeps the invariant of the others, because
every row carries its request (`OthersKeep`).

### WebClientProofs

For every set of runs and chats, any number of sends, tokens and acts:

| theorem | statement |
|---|---|
| `TypeCorrect` | `Spec => []TypeOK` |
| `NoIntervalLeaks` | `Spec => []OneInterval` |
| `MessagesTrue` | `Spec => []MessagesAreTrue` |

The argument for the interval is `EffectSets`: the effect leaves the interval of
the state it is run with, whatever was there before. For the messages it is a
sum: the tokens that the bubble of a reply shows and those still on the wire are
the tokens that the server has sent (`ShownInv`), so at the end of the stream
the bubble has what was stored. A load that comes between may replace the list;
then there is no bubble, and nothing of the stream is shown.

### Model-checked only

*Liveness* (`EventuallyReturns`, `EventuallyCompletes`, `PolledIsShown`,
`ComposerReturns`): the prover has no rule for ENABLED. Every invariant and every
action property of a passing run has its theorem above.

## Not modelled

* *The order in which the log is read.* The models read events in the order of
  their appends; the query orders by timestamp and then by a random id. Planned.
* *Several workers.* The repository puts them out of scope (README.md:263), and
  the queue gives one job at a time to a worker whose lock has not expired. The
  check and insert of an episode would race with two.
* *The content of prompts, plans and artifacts*, formatting, redaction, the
  explanation of a plan, task features, and the error term of a reward.
* *The insert of M1 by* `POST /memory/write`, the searches of M1 and M3 over the
  API, the ranking of M2, and the retrieval and working-context caches, which
  nothing constructs.
* *A client that closes its connection*: neither chat handler looks at it.
* *In the web client* the list of chats, whose `handleNewChat` prepends to the
  list it closed over, the debug panels with one fetch for each click, and the
  layout.
* *Shutdown, probes, read-only routes, engine, event bus, build and
  scripts*: they change no state that a decision depends on.
