------------------------------ MODULE WebClient ------------------------------
(***************************************************************************)
(* The two parts of the web client (apps/web/src) that keep state across   *)
(* asynchronous calls: the DAG state panel of App.tsx, which polls, and    *)
(* ChatPanel.tsx, which loads the messages of the selected chat and reads  *)
(* the stream of POST /ai/chat/stream.  React runs a handler to its end,   *)
(* and flushes the effects of a click or a key before the next callback,   *)
(* so a handler and its effects are one action; a fetch and what follows   *)
(* it are two.                                                             *)
(*                                                                         *)
(* dag     runId (dagRunId), polling, shown (the run of dagState), error   *)
(*         (the run of dagError), inFlight (inFlightRef)                   *)
(* timers  the intervals that run, each by the run its tick has captured   *)
(* calls   GET /runs/:runId/dag-state under way                            *)
(* chat    selected, shown (messages), streaming, and of the send under    *)
(*         way its number and chat                                         *)
(* loads   GET /chats/:id/messages under way, with the answer once read    *)
(* stored  the messages table; a message is [chat, role, send, key, text], *)
(*         key telling an id of the client from one of the server, text    *)
(*         the number of its tokens; an apology is a second message of the *)
(*         assistant, beside the answer or instead of it                   *)
(* streams what the server does for each send, and its events unread by    *)
(*         the client (DirectChat has the handler)                         *)
(* acts    what the user has done so far                                   *)
(***************************************************************************)
EXTENDS Integers, FiniteSets, Sequences

CONSTANTS Runs,       \* the runs whose ids the user enters
          Chats,      \* the chats of the user
          MaxSends,   \* bound on the messages of the user
          MaxTokens,  \* bound on the tokens of a reply
          MaxActs     \* bound on what the user does

ASSUME WebAssumption ==
  /\ MaxSends \in Nat /\ MaxTokens \in Nat /\ MaxActs \in Nat

VARIABLES dag, timers, calls, chat, loads, stored, streams, acts

panelVars == <<dag, timers, calls>>
chatVars  == <<chat, loads, stored, streams>>
vars      == <<panelVars, chatVars, acts>>

None  == "none"
Sends == 1 .. MaxSends  \* the numbers of the user's messages
Act == acts < MaxActs /\ acts' = acts + 1

NoStream == [pc |-> "new", chat |-> None, tokens |-> 0, wire |-> <<>>]

Init ==
  /\ dag = [runId |-> None, polling |-> FALSE, shown |-> None, error |-> None, inFlight |-> FALSE]
  /\ timers = {} /\ calls = {}
  /\ chat = [selected |-> None, shown |-> <<>>, streaming |-> FALSE, send |-> 0, chat |-> None]
  /\ loads = {} /\ stored = [c \in Chats |-> <<>>] /\ streams = [s \in Sends |-> NoStream]
  /\ acts = 0

-----------------------------------------------------------------------------
(* The DAG state panel.                                                    *)

Unused(used) == CHOOSE n \in 1 .. Cardinality(used) + 1 : n \notin used
Call(run, kind) == [id |-> Unused({c.id : c \in calls}), run |-> run, kind |-> kind]

\* tick, with the run its effect has captured.
Ticks(d, run) ==
  IF d.inFlight THEN dag' = d /\ UNCHANGED calls
  ELSE dag' = [d EXCEPT !.inFlight = TRUE] /\ calls' = calls \cup {Call(run, "poll")}

\* Mutant: the effect has no cleanup.
Leaked == timers

\* What the cleanup of the effect leaves.
Cleaned == {}

\* The effect on [dagPolling, dagRunId], after one of them has changed to what d has.
Effect(d) ==
  IF ~d.polling THEN timers' = {} /\ dag' = d /\ UNCHANGED calls
  ELSE IF d.runId = None
  THEN timers' = {} /\ dag' = [d EXCEPT !.polling = FALSE, !.error = "enter"] /\ UNCHANGED calls
  ELSE timers' = Cleaned \cup {d.runId} /\ Ticks(d, d.runId)

\* The input, "Use current", or the answer of a test run.
SetRunId(r) ==
  /\ Act /\ r # dag.runId
  /\ Effect([dag EXCEPT !.runId = r])
  /\ UNCHANGED chatVars

HandleDagStartStop ==
  /\ Act
  /\ IF dag.polling THEN Effect([dag EXCEPT !.polling = FALSE])
     ELSE IF dag.runId = None
     THEN dag' = [dag EXCEPT !.shown = None, !.error = "enter"] /\ UNCHANGED <<timers, calls>>
     ELSE Effect([dag EXCEPT !.shown = None, !.error = None, !.polling = TRUE])
  /\ UNCHANGED chatVars

\* The button is disabled without a run id.
HandleDagFetchOnce ==
  /\ Act /\ dag.runId # None
  /\ dag' = [dag EXCEPT !.shown = None, !.inFlight = TRUE]
  /\ calls' = calls \cup {Call(dag.runId, "once")}
  /\ UNCHANGED <<timers, chatVars>>

\* The interval fires; a tick that finds a request in flight does nothing.
Tick ==
  /\ ~dag.inFlight /\ \E run \in timers : Ticks(dag, run)
  /\ UNCHANGED <<timers, chatVars, acts>>

\* Mutant: the guard is released by a successful answer only.
ReleasedIf(ok) == ~ok

\* inFlightRef after the finally of either handler.
InFlightAfter(ok) == FALSE

\* A request is answered, or fails, whoever made it and whatever the panel shows now.
Respond(c) ==
  /\ \/ dag' = [dag EXCEPT !.shown = c.run, !.error = None, !.inFlight = InFlightAfter(TRUE)]
     \/ dag' = [dag EXCEPT !.error = c.run, !.inFlight = InFlightAfter(FALSE)]
  /\ calls' = calls \ {c}
  /\ UNCHANGED <<timers, chatVars, acts>>

-----------------------------------------------------------------------------
(* The messages of the selected chat.                                      *)

Message(c, role, send, key, text) ==
  [chat |-> c, role |-> role, send |-> send, key |-> key, text |-> text]

\* A click in the sidebar, or a new chat; the effect on [chatId] loads its messages.
SelectChat(c) ==
  /\ Act /\ c # chat.selected
  /\ chat' = [chat EXCEPT !.selected = c]
  /\ loads' = loads \cup {[id |-> Unused({l.id : l \in loads}), chat |-> c, read |-> FALSE, answer |-> <<>>]}
  /\ UNCHANGED <<panelVars, stored, streams>>

ServeMessages(l) ==
  /\ ~l.read
  /\ loads' = (loads \ {l}) \cup {[l EXCEPT !.read = TRUE, !.answer = stored[l.chat]]}
  /\ UNCHANGED <<panelVars, chat, stored, streams, acts>>

\* Mutant: what the panel shows is kept before the answer.
Merged(answer) == chat.shown \o answer

\* setMessages(msgs): the answer replaces what the panel shows.
Loaded(answer) == answer

\* The answer of a load, whatever chat is selected now.
ShowMessages(l) ==
  /\ l.read /\ loads' = loads \ {l}
  /\ chat' = [chat EXCEPT !.shown = Loaded(l.answer)]
  /\ UNCHANGED <<panelVars, stored, streams, acts>>

LoadFails(l) == loads' = loads \ {l} /\ UNCHANGED <<panelVars, chat, stored, streams, acts>>

-----------------------------------------------------------------------------
(* A send and its stream.                                                  *)

\* handleSendMessage to the fetch.  The composer is disabled without a chat and while a
\* stream is read.
HandleSendMessage(s) ==
  /\ Act /\ chat.selected # None /\ ~chat.streaming
  /\ streams[s].pc = "new" /\ \A t \in 1 .. s - 1 : streams[t].pc # "new"
  /\ chat' = [chat EXCEPT !.streaming = TRUE, !.send = s, !.chat = chat.selected,
                !.shown = @ \o <<Message(chat.selected, "user", s, "client", 0),
                                 Message(chat.selected, "assistant", s, "client", 0)>>]
  /\ streams' = [streams EXCEPT ![s].pc = "sent", ![s].chat = chat.selected]
  /\ UNCHANGED <<panelVars, loads, stored>>

\* The handler of the server (DirectChat has its log), from one await to the next.  A call
\* to the database may fail, and a row be stored all the same.
Moves(s, pc) == streams' = [streams EXCEPT ![s].pc = pc]
Emits(s, pc, e) == streams' = [streams EXCEPT ![s].pc = pc, ![s].wire = Append(@, e)]
Stores(s, role, text) ==
  LET c == streams[s].chat
  IN  stored' = [stored EXCEPT ![c] = Append(@, Message(c, role, s, "server", text))]
StoresOrNot(s, role, text) == Stores(s, role, text) \/ UNCHANGED stored

\* The message is stored before the headers are sent, so a failure is an error response.
StoreUser(s) ==
  /\ streams[s].pc = "sent"
  /\ \/ Stores(s, "user", 0) /\ Moves(s, "open")
     \/ StoresOrNot(s, "user", 0) /\ Emits(s, "over", "lost")

SendToken(s) ==
  /\ streams[s].pc = "open" /\ streams[s].tokens < MaxTokens
  /\ streams' = [streams EXCEPT ![s].tokens = @ + 1, ![s].wire = Append(@, "token")]
  /\ UNCHANGED stored

\* The answer is stored, or that or a call before it fails.
StoreAnswer(s) ==
  /\ streams[s].pc = "open"
  /\ \/ Stores(s, "assistant", streams[s].tokens) /\ Moves(s, "stored")
     \/ StoresOrNot(s, "assistant", streams[s].tokens) /\ Moves(s, "failed")

\* RUN_COMPLETED is appended and the id of the answer sent, or the append fails.
Finish(s) ==
  /\ streams[s].pc = "stored"
  /\ Emits(s, "over", "done") \/ Moves(s, "failed")
  /\ UNCHANGED stored

\* The catch block appends RUNTIME_ERROR and sends the error; if the append fails, nothing
\* is sent and the stream is not ended.
Fail(s) ==
  /\ streams[s].pc = "failed"
  /\ Emits(s, "sorry", "error") \/ Moves(s, "hung")
  /\ UNCHANGED stored

Apologise(s) == streams[s].pc = "sorry" /\ StoresOrNot(s, "apology", 0) /\ Moves(s, "over")

\* The process dies, or its connection breaks; after the error nothing more is read.
Die(s) ==
  /\ streams[s].pc \in {"sent", "open", "stored", "failed", "hung"}
  /\ Emits(s, "over", "lost") /\ UNCHANGED stored

\* The steps that the server is sure to take, and all of them.
Handler(s) == StoreUser(s) \/ Finish(s) \/ Fail(s) \/ Apologise(s)

Server(s) ==
  /\ Handler(s) \/ SendToken(s) \/ StoreAnswer(s) \/ Die(s)
  /\ UNCHANGED <<panelVars, chat, loads, acts>>

\* The bubble of the reply is found by the client's id.
IsBubble(m) == m.role = "assistant" /\ m.send = chat.send /\ m.key = "client"
Bubble(F(_)) == [i \in DOMAIN chat.shown |-> IF IsBubble(chat.shown[i]) THEN F(chat.shown[i])
                                             ELSE chat.shown[i]]

\* Mutant: a token goes to the last message shown.
TokenToLast ==
  [i \in DOMAIN chat.shown |-> IF i = Len(chat.shown) THEN [chat.shown[i] EXCEPT !.text = @ + 1]
                               ELSE chat.shown[i]]

WithToken == Bubble(LAMBDA m : [m EXCEPT !.text = @ + 1])
WithServerId == Bubble(LAMBDA m : [m EXCEPT !.key = "server"])

ErrorMessage == Message(chat.chat, "error", chat.send, "client", 0)

\* Mutant: the composer is enabled by a completed stream only.
StreamingUnlessDone(e) == e # "done"

\* setStreaming after the event: FALSE in the finally.
StreamingAfter(e) == FALSE

\* The client reads the next event.  The error of the server comes with done, which is
\* looked at first and ends the loop; only a response or a stream that breaks shows an
\* error, and a stream that closes early shows none.
ReadEvent ==
  /\ chat.streaming /\ streams[chat.send].wire # <<>>
  /\ LET e == Head(streams[chat.send].wire)
     IN  chat' \in
           CASE e = "token" -> {[chat EXCEPT !.shown = WithToken]}
             [] e = "done" -> {[chat EXCEPT !.shown = WithServerId, !.streaming = StreamingAfter(e)]}
             [] e = "error" -> {[chat EXCEPT !.streaming = StreamingAfter(e)]}
             [] OTHER -> {[chat EXCEPT !.shown = sh, !.streaming = StreamingAfter(e)] :
                            sh \in {chat.shown, Append(chat.shown, ErrorMessage)}}
  /\ streams' = [streams EXCEPT ![chat.send].wire = Tail(@)]
  /\ UNCHANGED <<panelVars, loads, stored, acts>>

Next ==
  \/ \E r \in Runs \cup {None} : SetRunId(r)
  \/ HandleDagStartStop \/ HandleDagFetchOnce \/ Tick
  \/ \E c \in calls : Respond(c)
  \/ \E c \in Chats : SelectChat(c)
  \/ \E l \in loads : ServeMessages(l) \/ ShowMessages(l) \/ LoadFails(l)
  \/ \E s \in Sends : HandleSendMessage(s) \/ Server(s)
  \/ ReadEvent

Spec == Init /\ [][Next]_vars

\* The interval fires, a request is answered or fails, a call of the server to its database
\* returns or fails, and what has arrived is read.  The language model may stay silent for
\* good, and nothing has to break a stream.
Fairness ==
  /\ WF_vars(Tick) /\ WF_vars(\E c \in calls : Respond(c)) /\ WF_vars(ReadEvent)
  /\ \A s \in Sends : WF_vars(Server(s) /\ Handler(s))

FairSpec == Spec /\ Fairness

-----------------------------------------------------------------------------
(* Properties.                                                             *)

Elements(s) == {s[i] : i \in DOMAIN s}

\* The types; a stream is read for the chat it was sent in.
TypeOK ==
  /\ dag.runId \in Runs \cup {None} /\ {dag.polling, dag.inFlight} \subseteq BOOLEAN
  /\ dag.shown \in Runs \cup {None} /\ dag.error \in Runs \cup {None, "enter"}
  /\ timers \subseteq Runs
  /\ \A c \in calls : c.run \in Runs /\ c.kind \in {"poll", "once"}
  /\ chat.selected \in Chats \cup {None} /\ chat.streaming \in BOOLEAN
  /\ chat.streaming => chat.chat = streams[chat.send].chat
  /\ \A m \in Elements(chat.shown) : m.chat \in Chats /\ m.text \in 0 .. MaxTokens
  /\ \A l \in loads : l.chat \in Chats

\* One interval runs while the panel polls, for the run in the input, and none
\* otherwise, however the run is switched and polling stopped and started.
OneInterval == timers = IF dag.polling THEN {dag.runId} ELSE {}

\* A message is never shown twice, as the client's and as the server's: the list is
\* keyed by the ids and a duplicate would stay until the chat is loaded again.  An answer
\* and the apology stored beside it are two messages.
ShownOnce ==
  \A i, j \in DOMAIN chat.shown :
    LET m == chat.shown[i]
        n == chat.shown[j]
    IN  m.role = n.role /\ m.send = n.send => i = j

\* What is shown under an id of the server is what the server stores under it: a reply
\* that ends has all of its tokens, and no token goes to another message, whatever was
\* loaded while it streamed.
ServerIdIsTrue == \A m \in Elements(chat.shown) : m.key = "server" => m \in Elements(stored[m.chat])

\* The chat shows each message once and as the server has it.
MessagesAreTrue == ShownOnce /\ ServerIdIsTrue

\* A panel that keeps polling one run comes to show this run or its error, and does not
\* fall back to another run's state for good, whatever requests were under way when
\* polling started and whatever failed.
PolledIsShown ==
  \A r \in Runs :
    <>[](dag.polling /\ dag.runId = r) => <>[](dag.shown = r \/ dag.error = r)

\* The composer is disabled for good only by a stream that the server never ends: the
\* language model is silent, or the catch block itself failed.  Every other end of a
\* stream, and every load and selection meanwhile, gives it back.
ComposerReturns ==
  \A s \in Sends :
    <>[](chat.streaming /\ chat.send = s) =>
      <>[](streams[s].pc \in {"open", "hung"} /\ streams[s].wire = <<>>)

=============================================================================
