------------------------------ MODULE DirectChat ------------------------------
(***************************************************************************)
(* POST /ai/chat and POST /ai/chat/stream: the path that answers a message *)
(* in the API process, without queue and worker (apps/api/src/routes/ai.ts *)
(* over apps/api/src/services/qwen.ts).  Several requests on one chat run  *)
(* at once; each is one handler that waits for the database and for the    *)
(* llama server between its steps, and no two of its writes share a        *)
(* transaction.                                                            *)
(*                                                                         *)
(* messages  the rows of messages of the chat, in the order of createdAt   *)
(* log       the rows of run_logs of the runs of these requests            *)
(* pc        the step at which a handler is; try covers Guarded            *)
(* prompt    the turns put before the message in the prompt                *)
(* tokens    length of fullResponse, the answer as far as it has arrived   *)
(* frames    what the caller has received: the frames written to the       *)
(*           stream, or the body of the response                           *)
(***************************************************************************)
EXTENDS Integers, Sequences, SequencesExt, FiniteSets

CONSTANTS Blocking,     \* requests to /ai/chat
          Streaming,    \* requests to /ai/chat/stream
          HistoryLimit, \* messages read for the prompt, 10 in the code
          Turns,        \* messages of the history put in the prompt, 2
          Batch,        \* tokens per LLM_STREAM_TOKEN event, 5
          Earlier,      \* messages in the chat before the requests
          MaxTokens,    \* bound on the tokens of an answer
          MaxFaults     \* bound on failed database calls

ASSUME ChatAssumption ==
  /\ Blocking \cap Streaming = {} /\ "earlier" \notin Blocking \cup Streaming
  /\ HistoryLimit \in Nat \ {0} /\ Turns \in Nat /\ Batch \in Nat \ {0}
  /\ Earlier \in Nat /\ MaxTokens \in Nat /\ MaxFaults \in Nat

VARIABLES messages, log, pc, prompt, tokens, frames, faults

vars == <<messages, log, pc, prompt, tokens, frames, faults>>

Request == Blocking \cup Streaming

\* A row of messages.  text is the number of tokens of an answer; an apology, which the
\* code stores as an assistant message too, has a role of its own here.
Message(r, role, text) == [by |-> r, role |-> role, text |-> text]
User(r)   == Message(r, "user", 0)
Sorry(r)  == Message(r, "error", 0)
Answer(r) == Message(r, "assistant", tokens[r])

Event(r, t, n) == [run |-> r, type |-> t, count |-> n]

\* The event a handler appends at each step of its try block.
EventAt(r, step) ==
  CASE step = "inserted" -> "RUN_CREATED"
    [] step = "read"     -> IF r \in Blocking THEN "LLM_REQUESTED" ELSE "LLM_STREAM_STARTED"
    [] step = "answered" -> IF r \in Blocking THEN "LLM_COMPLETED" ELSE "LLM_STREAM_COMPLETED"
    [] step = "stored"   -> "RUN_COMPLETED"
    [] step = "caught"   -> "RUNTIME_ERROR"

After(step) ==
  CASE step = "inserted" -> "created"
    [] step = "read"     -> "requested"
    [] step = "answered" -> "counted"
    [] step = "stored"   -> "completed"
    [] step = "caught"   -> "recorded"

\* The steps inside the try block: RUN_CREATED is appended before it by the
\* blocking handler and inside it by the streaming one.
Guarded(r) == {"created", "read", "requested", "answered", "counted", "stored", "completed"}
              \cup (IF r \in Streaming THEN {"inserted"} ELSE {})

\* The steps that wait for a statement of the database.
Waiting == {"start", "inserted", "created", "read", "answered", "counted", "stored",
            "caught", "recorded"}

Ended == {"replied", "apologised", "escaped"}

Init ==
  /\ messages = [i \in 1 .. Earlier |-> User("earlier")]
  /\ log = <<>>
  /\ pc = [r \in Request |-> "start"]
  /\ prompt = [r \in Request |-> <<>>]
  /\ tokens = [r \in Request |-> 0]
  /\ frames = [r \in Request |-> <<>>]
  /\ faults = 0

Goes(r, step) == pc' = [pc EXCEPT ![r] = step]
Sends(r, frame) == frames' = [frames EXCEPT ![r] = Append(@, frame)]

-----------------------------------------------------------------------------
\* The user's message is stored first; the run id is drawn after it.
StoreUser(r) ==
  /\ pc[r] = "start"
  /\ messages' = Append(messages, User(r))
  /\ Goes(r, "inserted")
  /\ UNCHANGED <<log, prompt, tokens, frames, faults>>

\* eventLog.append, at each of the steps that call it.
LogEvent(r) ==
  /\ pc[r] \in {"inserted", "read", "answered", "stored", "caught"}
  /\ log' = Append(log, Event(r, EventAt(r, pc[r]), tokens[r]))
  /\ Goes(r, After(pc[r]))
  /\ IF pc[r] = "caught" /\ r \in Streaming
     THEN Sends(r, "error")
     ELSE UNCHANGED frames
  /\ UNCHANGED <<messages, prompt, tokens, faults>>

LastOf(s, n) == SubSeq(s, IF Len(s) > n THEN Len(s) - n + 1 ELSE 1, Len(s))

\* Mutant: the message being answered is not taken off the history.
WholeHistory(ms) == LastOf(SubSeq(ms, 1, IF Len(ms) < HistoryLimit THEN Len(ms) ELSE HistoryLimit), Turns)

\* The history: the first HistoryLimit messages in the order of createdAt,
\* without the last of them; chat() keeps the last Turns of that.
RecentTurns(ms) ==
  LET history == SubSeq(ms, 1, IF Len(ms) < HistoryLimit THEN Len(ms) ELSE HistoryLimit)
  IN  LastOf(Front(history), Turns)

ReadHistory(r) ==
  /\ pc[r] = "created"
  /\ prompt' = [prompt EXCEPT ![r] = RecentTurns(messages)]
  /\ Goes(r, "read")
  /\ UNCHANGED <<messages, log, tokens, frames, faults>>

\* Mutant: the length is taken before trim().
Untrimmed(r, n) == tokens' = [tokens EXCEPT ![r] = n + 1] /\ Goes(r, "answered")

Generated(r, n) == tokens' = [tokens EXCEPT ![r] = n] /\ Goes(r, "answered")

\* What generate() makes of the server's reply: an unreachable server, a status other
\* than 2xx and a reply without content throw; 0 is a reply that trim() leaves empty.
Generate(r) ==
  /\ r \in Blocking /\ pc[r] = "requested"
  /\ \/ \E n \in 0 .. MaxTokens : Generated(r, n)
     \/ Goes(r, "caught") /\ UNCHANGED tokens
  /\ UNCHANGED <<messages, log, prompt, frames, faults>>

\* A step of generateStream: a token, a line that does not parse (skipped), the end
\* of the stream (the stop signal, or the connection just closing), or an error.
\* The append of LLM_STREAM_TOKEN may fail unnoticed.
StreamLine(r) ==
  /\ r \in Streaming /\ pc[r] = "requested"
  /\ \/ /\ tokens[r] < MaxTokens
        /\ tokens' = [tokens EXCEPT ![r] = @ + 1]
        /\ Sends(r, "token")
        /\ \/ (tokens[r] + 1) % Batch # 0 /\ UNCHANGED <<log, faults>>
           \/ /\ (tokens[r] + 1) % Batch = 0
              /\ LET row == Event(r, "LLM_STREAM_TOKEN", tokens[r] + 1)
                 IN  \/ log' = Append(log, row) /\ UNCHANGED faults
                     \/ faults < MaxFaults /\ faults' = faults + 1 /\ log' \in {log, Append(log, row)}
        /\ UNCHANGED pc
     \/ /\ Goes(r, "answered") \/ Goes(r, "caught")
        /\ UNCHANGED <<log, tokens, frames, faults>>
  /\ UNCHANGED <<messages, prompt>>

StoreAnswer(r) ==
  /\ pc[r] = "counted"
  /\ messages' = Append(messages, Answer(r))
  /\ Goes(r, "stored")
  /\ UNCHANGED <<log, prompt, tokens, frames, faults>>

\* The response, or the last frame and end().
Reply(r) ==
  /\ pc[r] = "completed"
  /\ Sends(r, "done") /\ Goes(r, "replied")
  /\ UNCHANGED <<messages, log, prompt, tokens, faults>>

\* The end of the catch block.  The blocking handler answers with status 500.
StoreSorry(r) ==
  /\ pc[r] = "recorded"
  /\ messages' = Append(messages, Sorry(r))
  /\ Goes(r, "apologised")
  /\ IF r \in Blocking THEN Sends(r, "error") ELSE UNCHANGED frames
  /\ UNCHANGED <<log, prompt, tokens, faults>>

\* Mutant: a failed write is tried again.
TriedAgain(r) == Goes(r, IF pc[r] \in {"read", "counted", "stored"} THEN pc[r] ELSE "caught")

\* A statement that fails lands in the catch block, or escapes to Fastify.
ThrowsAt(r) == Goes(r, IF pc[r] \in Guarded(r) THEN "caught" ELSE "escaped")

\* The row the handler is about to write, as the new value of the table it goes to.
Written(r) ==
  CASE pc[r] = "start"    -> <<Append(messages, User(r)), log>>
    [] pc[r] = "counted"  -> <<Append(messages, Answer(r)), log>>
    [] pc[r] = "recorded" -> <<Append(messages, Sorry(r)), log>>
    [] pc[r] = "created"  -> <<messages, log>>
    [] OTHER -> <<messages, Append(log, Event(r, EventAt(r, pc[r]), tokens[r]))>>

\* A failed write may have been committed.
DatabaseFails(r) ==
  /\ pc[r] \in Waiting /\ faults < MaxFaults
  /\ \E tables \in {<<messages, log>>, Written(r)} : messages' = tables[1] /\ log' = tables[2]
  /\ ThrowsAt(r)
  /\ faults' = faults + 1
  /\ UNCHANGED <<prompt, tokens, frames>>

Step(r) ==
  \/ StoreUser(r) \/ LogEvent(r) \/ ReadHistory(r) \/ Generate(r) \/ StreamLine(r)
  \/ StoreAnswer(r) \/ Reply(r) \/ StoreSorry(r) \/ DatabaseFails(r)

Finished == \A r \in Request : pc[r] \in Ended

Next == (\E r \in Request : Step(r)) \/ (Finished /\ UNCHANGED vars)

Spec == Init /\ [][Next]_vars

-----------------------------------------------------------------------------
Steps == Waiting \cup Ended \cup {"requested", "completed"}

Types == {"RUN_CREATED", "LLM_REQUESTED", "LLM_STREAM_STARTED", "LLM_STREAM_TOKEN",
          "LLM_COMPLETED", "LLM_STREAM_COMPLETED", "RUN_COMPLETED", "RUNTIME_ERROR"}

\* Every variable has its type.
TypeOK ==
  /\ \A i \in DOMAIN messages : messages[i] \in
       [by : Request \cup {"earlier"}, role : {"user", "assistant", "error"}, text : 0 .. MaxTokens]
  /\ \A i \in DOMAIN log : log[i] \in [run : Request, type : Types, count : 0 .. MaxTokens]
  /\ pc \in [Request -> Steps]
  /\ \A r \in Request : Range(prompt[r]) \subseteq Range(messages)
  /\ tokens \in [Request -> 0 .. MaxTokens]
  /\ \A r \in Request : frames[r] \in Seq({"token", "done", "error"})
  /\ faults \in 0 .. MaxFaults

Course(r) == [i \in 1 .. 4 |-> EventAt(r, <<"inserted", "read", "answered", "stored">>[i])]

Logged(r, t, indices) == \E i \in indices : log[i].run = r /\ log[i].type = t
RowsOf(r, role) == {i \in DOMAIN messages : messages[i].by = r /\ messages[i].role = role}

\* The log of a run is a beginning of its normal course, with the token events between
\* the second event and the third, followed by at most one RUNTIME_ERROR: whatever call
\* fails, an event is neither skipped nor repeated, and nothing follows the error.
LogShape ==
  \A i \in DOMAIN log :
    LET r == log[i].run
        t == log[i].type
        before == 1 .. i - 1
    IN  /\ ~Logged(r, "RUNTIME_ERROR", before)
        /\ \/ t = "RUNTIME_ERROR"
           \/ t = "LLM_STREAM_TOKEN" /\ Logged(r, Course(r)[2], before) /\ ~Logged(r, Course(r)[3], before)
           \/ \E k \in 1 .. 4 : /\ t = Course(r)[k] /\ ~Logged(r, t, before)
                                /\ k > 1 => Logged(r, Course(r)[k - 1], before)

\* A caller that is told its answer is done finds it in the chat, whole and without an
\* apology next to it: the tokens it received are those of the stored message, and the
\* run is recorded as completed and not as failed.
DoneIsStored ==
  \A r \in Request : "done" \in Range(frames[r]) =>
    /\ \E i \in DOMAIN messages :
         /\ RowsOf(r, "assistant") = {i} /\ messages[i] = Answer(r)
         /\ r \in Streaming => Len(frames[r]) - 1 = messages[i].text
    /\ RowsOf(r, "error") = {}
    /\ \E i \in DOMAIN log : /\ log[i].run = r /\ log[i].type = "RUN_COMPLETED"
                             /\ \A j \in i + 1 .. Len(log) : log[j].run # r

\* An answer is stored at most once, and only when it arrived whole and its arrival is
\* logged; an apology only when the error is logged.  Both stand in the chat only
\* when a call to the database failed.
AnswerOrApology ==
  \A r \in Request :
    /\ \A role \in {"assistant", "error"} : \A i, j \in RowsOf(r, role) : i = j
    /\ RowsOf(r, "assistant") # {} => Logged(r, EventAt(r, "answered"), DOMAIN log)
    /\ RowsOf(r, "error") # {} => Logged(r, "RUNTIME_ERROR", DOMAIN log)
    /\ RowsOf(r, "assistant") # {} /\ RowsOf(r, "error") # {} => faults > 0

Position(r) == CHOOSE i \in DOMAIN messages : messages[i] = User(r)

\* If nobody else wrote to the chat since the user's message and the chat is no longer
\* than HistoryLimit, the prompt holds exactly the turns before that message.  (With a
\* second request in between, or in a longer chat, the code drops another message
\* than the user's, which then stands in the prompt twice, or reads old turns.)
PromptIsThePast ==
  [][\A r \in Request : pc[r] = "created" /\ pc'[r] = "read" =>
       /\ Len(messages) <= HistoryLimit /\ Position(r) = Len(messages) =>
            prompt'[r] = LastOf(SubSeq(messages, 1, Position(r) - 1), Turns)]_vars

\* What is logged, told and stored of a request are one story.
ChatIsTrue == LogShape /\ DoneIsStored /\ AnswerOrApology

\* "every request creates exactly one run_id and appends RUN_CREATED as the first
\* event" (apps/api/src/routes/ai.ts:11).
RunCreatedFirst ==
  \A i \in DOMAIN log : log[i].type # "RUN_CREATED" => Logged(log[i].run, "RUN_CREATED", 1 .. i - 1)

==============================================================================
