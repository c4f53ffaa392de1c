---------------------------- MODULE WebClientProofs ----------------------------
(***************************************************************************)
(* Theorems about WebClient, for every set of runs and chats and every     *)
(* bound on what the user does.                                            *)
(***************************************************************************)
EXTENDS WebClient, TLAPS

Fields == {"runId", "polling", "shown", "error", "inFlight"}

\* The interval is the one of the state that is polled.
IntervalOf(d) == IF d.polling THEN {d.runId} ELSE {}

IInv == DOMAIN dag = Fields /\ timers = IntervalOf(dag)

\* A tick changes nothing that the effect depends on.
LEMMA TickKeeps ==
  ASSUME NEW d, DOMAIN d = Fields, NEW run, Ticks(d, run)
  PROVE  DOMAIN dag' = Fields /\ dag'.polling = d.polling /\ dag'.runId = d.runId
BY DEF Ticks, Fields

\* Whatever has changed, the effect leaves the interval that belongs to the new state.
LEMMA EffectSets ==
  ASSUME NEW d, DOMAIN d = Fields, Effect(d)
  PROVE  IInv'
<1>1. CASE ~d.polling
  BY <1>1 DEF Effect, IInv, IntervalOf
<1>2. CASE d.polling /\ d.runId = None
  BY <1>2 DEF Effect, IInv, IntervalOf, Fields
<1>3. CASE d.polling /\ d.runId # None
  <2>1. timers' = {d.runId} /\ Ticks(d, d.runId)
    BY <1>3 DEF Effect, Cleaned
  <2> QED BY <1>3, <2>1, TickKeeps DEF IInv, IntervalOf
<1> QED BY <1>1, <1>2, <1>3

LEMMA PanelKeeps ==
  ASSUME IInv,
         \/ \E r \in Runs \cup {None} : SetRunId(r)
         \/ HandleDagStartStop \/ HandleDagFetchOnce \/ Tick
         \/ \E c \in calls : Respond(c)
  PROVE  IInv'
<1>0. DOMAIN dag = Fields /\ timers = IntervalOf(dag)
  BY DEF IInv
<1>1. CASE \E r \in Runs \cup {None} : SetRunId(r)
  <2>1. PICK r : Effect([dag EXCEPT !.runId = r])
    BY <1>1 DEF SetRunId
  <2>2. DOMAIN [dag EXCEPT !.runId = r] = Fields
    BY <1>0
  <2> QED BY <2>1, <2>2, EffectSets
<1>2. CASE HandleDagStartStop
  <2>1. CASE dag.polling
    <3>1. Effect([dag EXCEPT !.polling = FALSE])
      BY <1>2, <2>1 DEF HandleDagStartStop
    <3>2. DOMAIN [dag EXCEPT !.polling = FALSE] = Fields
      BY <1>0
    <3> QED BY <3>1, <3>2, EffectSets
  <2>2. CASE ~dag.polling /\ dag.runId = None
    BY <1>0, <1>2, <2>2 DEF HandleDagStartStop, IInv, IntervalOf, Fields
  <2>3. CASE ~dag.polling /\ dag.runId # None
    <3> DEFINE d == [dag EXCEPT !.shown = None, !.error = None, !.polling = TRUE]
    <3>1. Effect(d)
      BY <1>2, <2>3 DEF HandleDagStartStop
    <3>2. DOMAIN d = Fields
      BY <1>0
    <3> HIDE DEF d
    <3> QED BY <3>1, <3>2, EffectSets
  <2> QED BY <2>1, <2>2, <2>3
<1>3. CASE HandleDagFetchOnce
  BY <1>0, <1>3 DEF HandleDagFetchOnce, IInv, IntervalOf, Fields
<1>4. CASE Tick
  <2>1. PICK run : Ticks(dag, run)
    BY <1>4 DEF Tick
  <2>2. timers' = timers
    BY <1>4 DEF Tick
  <2> QED BY <1>0, <2>1, <2>2, TickKeeps DEF IInv, IntervalOf
<1>5. CASE \E c \in calls : Respond(c)
  BY <1>0, <1>5 DEF Respond, IInv, IntervalOf, Fields
<1> QED BY <1>1, <1>2, <1>3, <1>4, <1>5

LEMMA NextIInv == IInv /\ [Next]_vars => IInv'
<1> SUFFICES ASSUME IInv, [Next]_vars PROVE IInv'
  OBVIOUS
<1>1. CASE UNCHANGED panelVars
  BY <1>1 DEF panelVars, IInv
<1>2. CASE \/ \E c \in Chats : SelectChat(c)
           \/ \E l \in loads : ServeMessages(l) \/ ShowMessages(l) \/ LoadFails(l)
           \/ \E s \in Sends : HandleSendMessage(s) \/ Server(s)
           \/ ReadEvent \/ UNCHANGED vars
  <2>1. UNCHANGED panelVars
    BY <1>2, Zenon DEF SelectChat, ServeMessages, ShowMessages, LoadFails, HandleSendMessage, Server,
                       ReadEvent, vars
  <2> QED BY <1>1, <2>1
<1> QED BY <1>2, PanelKeeps DEF Next

\* However often the user switches the run, stops and starts polling or fetches once, and
\* whatever the requests under way come to, one interval runs while the panel polls and
\* none otherwise: the cleanup of the effect leaks none.
THEOREM NoIntervalLeaks == Spec => []OneInterval
<1>1. Init => IInv
  BY DEF Init, IInv, IntervalOf, Fields
<1>2. IInv => OneInterval
  BY DEF IInv, IntervalOf, OneInterval
<1> QED BY <1>1, <1>2, NextIInv, PTL DEF Spec

-----------------------------------------------------------------------------
(* The messages.  The tokens that a reply shows and those that are still on the wire are  *)
(* the tokens of the reply, so what is shown under the server's id is what was stored     *)
(* when it was sent.                                                                      *)

Roles    == {"user", "assistant", "apology", "error"}
Messages == [chat : Chats, role : Roles, send : Sends, key : {"client", "server"}, text : 0 .. MaxTokens]
Events   == {"token", "done", "error", "lost"}
Ended    == {"sorry", "over"}
Started  == {"sent", "open", "stored", "failed", "hung"} \cup Ended
Streams  == [pc : {"new"} \cup Started, chat : Chats \cup {None}, tokens : 0 .. MaxTokens, wire : Seq(Events)]
ChatType == [selected : Chats \cup {None}, shown : Seq(Messages), streaming : BOOLEAN,
             send : Sends \cup {0}, chat : Chats \cup {None}]
LoadFields == {"id", "chat", "read", "answer"}
IsLoad(l)  == DOMAIN l = LoadFields /\ l.chat \in Chats /\ l.answer \in Seq(Messages)

Shape ==
  /\ chat \in ChatType /\ stored \in [Chats -> Seq(Messages)] /\ streams \in [Sends -> Streams]
  /\ \A l \in loads : IsLoad(l)

\* No two messages of a list have one role and one send.
Same(m, n) == m.role = n.role /\ m.send = n.send
Once(list) == \A i, j \in DOMAIN list : Same(list[i], list[j]) => i = j

\* What is stored was sent in its chat, and says how far the server has come.
Reached(m, st) ==
  \/ m.role = "user" /\ st.pc \in Started \ {"sent"}
  \/ m.role = "assistant" /\ st.pc \in Started \ {"sent", "open"}
  \/ m.role = "apology" /\ st.pc = "over"

StoredInv ==
  \A c \in Chats :
    /\ Once(stored[c])
    /\ \A i \in DOMAIN stored[c] :
         LET m == stored[c][i] IN m.chat = c /\ m.key = "server" /\ Reached(m, streams[m.send])

\* An answer is what the chat had when it was read.
AnswerInv ==
  \A l \in loads : Once(l.answer) /\ \A i \in DOMAIN l.answer : l.answer[i] \in Elements(stored[l.chat])

\* The wire carries tokens, and nothing after the event that ends the stream.
IsWire(s, st) ==
  /\ st.pc \in {"new", "sent"} => st.wire = <<>> /\ st.tokens = 0
  /\ st.pc \in Started => st.chat \in Chats
  /\ \A i \in DOMAIN st.wire : st.wire[i] # "token" => i = Len(st.wire) /\ st.pc \in Ended
  /\ st.pc = "stored" \/ (\E i \in DOMAIN st.wire : st.wire[i] = "done") =>
       /\ st.chat \in Chats
       /\ Message(st.chat, "assistant", s, "server", st.tokens) \in Elements(stored[st.chat])

WireInv == \A s \in Sends : IsWire(s, streams[s])

\* The stream that is read has not ended, or its end is on the wire.
ReadInv ==
  chat.streaming =>
    LET st == streams[chat.send]
    IN  /\ chat.send \in Sends /\ st.pc # "new" /\ chat.chat = st.chat /\ st.chat \in Chats
        /\ st.pc \in Ended => st.wire # <<>> /\ st.wire[Len(st.wire)] # "token"

\* The tokens on the wire: the event that ends the stream is none.
OnWire(st) == IF st.pc \in Ended THEN Len(st.wire) - 1 ELSE Len(st.wire)

ShownInv ==
  /\ Once(chat.shown)
  /\ \A i \in DOMAIN chat.shown :
       LET m == chat.shown[i]
       IN  /\ streams[m.send].pc # "new"
           /\ m.key = "server" => m \in Elements(stored[m.chat])
           /\ chat.streaming /\ m.send = chat.send =>
                /\ m.role # "error"
                /\ IsBubble(m) => /\ m.chat = chat.chat
                                  /\ m.text + OnWire(streams[chat.send]) = streams[chat.send].tokens

ChatInv == Shape /\ StoredInv /\ AnswerInv /\ WireInv /\ ReadInv /\ ShownInv

-----------------------------------------------------------------------------
LEMMA ElementsOfAppend ==
  ASSUME NEW S, NEW list \in Seq(S), NEW m \in S
  PROVE  Elements(Append(list, m)) = Elements(list) \cup {m}
<1>1. Elements(Append(list, m)) \subseteq Elements(list) \cup {m}
  BY DEF Elements
<1>2. Elements(list) \subseteq Elements(Append(list, m))
  <2> SUFFICES ASSUME NEW i \in DOMAIN list PROVE list[i] \in Elements(Append(list, m))
    BY DEF Elements
  <2>1. i \in DOMAIN Append(list, m) /\ Append(list, m)[i] = list[i]
    OBVIOUS
  <2> QED BY <2>1 DEF Elements
<1>3. m \in Elements(Append(list, m))
  <2>1. Len(list) + 1 \in DOMAIN Append(list, m) /\ Append(list, m)[Len(list) + 1] = m
    OBVIOUS
  <2> QED BY <2>1, Zenon DEF Elements
<1> QED BY <1>1, <1>2, <1>3

LEMMA OnceAppend ==
  ASSUME NEW S, NEW list \in Seq(S), NEW m \in S, Once(list),
         \A i \in DOMAIN list : ~Same(list[i], m) /\ ~Same(m, list[i])
  PROVE  Once(Append(list, m))
<1> SUFFICES ASSUME NEW i \in DOMAIN Append(list, m), NEW j \in DOMAIN Append(list, m),
                    Same(Append(list, m)[i], Append(list, m)[j])
             PROVE  i = j
  BY Zenon DEF Once
<1>1. CASE i \in DOMAIN list /\ j \in DOMAIN list
  BY <1>1 DEF Once
<1>2. CASE i \notin DOMAIN list /\ j \in DOMAIN list
  <2>1. Append(list, m)[i] = m /\ Append(list, m)[j] = list[j]
    BY <1>2
  <2> QED BY <1>2, <2>1
<1>3. CASE i \in DOMAIN list /\ j \notin DOMAIN list
  <2>1. Append(list, m)[j] = m /\ Append(list, m)[i] = list[i]
    BY <1>3
  <2> QED BY <1>3, <2>1
<1>4. CASE i \notin DOMAIN list /\ j \notin DOMAIN list
  BY <1>4
<1> QED BY <1>1, <1>2, <1>3, <1>4

\* What is stored stays stored.
Grows == \A c \in Chats : Elements(stored[c]) \subseteq Elements(stored'[c])

\* Loads that are under way are those of before, or read what is stored.
LEMMA AnswersKept ==
  ASSUME AnswerInv, Shape, Grows,
         \A l \in loads' :
           \/ l \in loads
           \/ l.answer = <<>>
           \/ l.chat \in Chats /\ l.answer = stored[l.chat] /\ Once(stored[l.chat])
  PROVE  AnswerInv'
<1> SUFFICES ASSUME NEW l \in loads'
             PROVE  Once(l.answer) /\ \A i \in DOMAIN l.answer : l.answer[i] \in Elements(stored'[l.chat])
  BY Zenon DEF AnswerInv
<1>1. CASE l \in loads
  BY <1>1 DEF AnswerInv, Shape, IsLoad, Grows
<1>2. CASE l.answer = <<>>
  BY <1>2 DEF Once
<1>3. CASE l.chat \in Chats /\ l.answer = stored[l.chat] /\ Once(stored[l.chat])
  <2>1. \A i \in DOMAIN l.answer : l.answer[i] \in Elements(stored[l.chat])
    BY <1>3 DEF Elements
  <2> QED BY <1>3, <2>1 DEF Grows
<1> QED BY <1>1, <1>2, <1>3

LEMMA SelectKeeps ==
  ASSUME ChatInv, NEW c \in Chats, SelectChat(c)
  PROVE  ChatInv'
<1> USE DEF ChatInv
<1> DEFINE l0 == [id |-> Unused({l.id : l \in loads}), chat |-> c, read |-> FALSE, answer |-> <<>>]
<1>1. /\ chat' = [chat EXCEPT !.selected = c] /\ loads' = loads \cup {l0}
      /\ stored' = stored /\ streams' = streams
  BY DEF SelectChat
<1>2. l0.answer = <<>> /\ IsLoad(l0)
  BY DEF IsLoad, LoadFields
<1> HIDE DEF l0
<1>3. Shape'
  BY <1>1, <1>2 DEF Shape, ChatType
<1>4. StoredInv' /\ WireInv'
  BY <1>1 DEF StoredInv, WireInv, IsWire
<1>5. AnswerInv'
  <2>1. Grows
    BY <1>1 DEF Grows
  <2>2. \A l \in loads' : l \in loads \/ l.answer = <<>>
    BY <1>1, <1>2
  <2> QED BY <2>1, <2>2, AnswersKept
<1>6. /\ chat'.shown = chat.shown /\ chat'.streaming = chat.streaming /\ chat'.send = chat.send
      /\ chat'.chat = chat.chat
  BY <1>1 DEF Shape, ChatType
<1>7. ReadInv'
  BY <1>1, <1>6 DEF ReadInv
<1>8. ShownInv'
  BY <1>1, <1>6 DEF ShownInv, IsBubble
<1> QED BY <1>3, <1>4, <1>5, <1>7, <1>8

LEMMA ServeKeeps ==
  ASSUME ChatInv, NEW l \in loads, ServeMessages(l)
  PROVE  ChatInv'
<1> USE DEF ChatInv
<1> DEFINE l0 == [l EXCEPT !.read = TRUE, !.answer = stored[l.chat]]
<1>1. /\ loads' = (loads \ {l}) \cup {l0} /\ chat' = chat /\ stored' = stored /\ streams' = streams
  BY DEF ServeMessages
<1>2. l.chat \in Chats /\ l0.chat = l.chat /\ l0.answer = stored[l.chat] /\ DOMAIN l0 = LoadFields
  BY DEF Shape, IsLoad, LoadFields
<1>3. IsLoad(l0)
  BY <1>2 DEF IsLoad, Shape
<1> HIDE DEF l0
<1>4. Shape'
  BY <1>1, <1>3 DEF Shape
<1>5. StoredInv' /\ WireInv' /\ ReadInv' /\ ShownInv'
  BY <1>1 DEF StoredInv, WireInv, IsWire, ReadInv, ShownInv, IsBubble
<1>6. AnswerInv'
  <2>1. Grows
    BY <1>1 DEF Grows
  <2>2. Once(stored[l.chat])
    BY <1>2 DEF StoredInv
  <2>3. \A k \in loads' :
          \/ k \in loads
          \/ k.chat \in Chats /\ k.answer = stored[k.chat] /\ Once(stored[k.chat])
    BY <1>1, <1>2, <2>2
  <2> QED BY <2>1, <2>3, AnswersKept
<1> QED BY <1>4, <1>5, <1>6

LEMMA FailKeeps ==
  ASSUME ChatInv, NEW l \in loads, LoadFails(l)
  PROVE  ChatInv'
<1>1. loads' \subseteq loads /\ chat' = chat /\ stored' = stored /\ streams' = streams
  BY DEF LoadFails
<1> QED
  BY <1>1 DEF ChatInv, Shape, StoredInv, AnswerInv, WireInv, IsWire, ReadInv, ShownInv, IsBubble

LEMMA ShowKeeps ==
  ASSUME ChatInv, NEW l \in loads, ShowMessages(l)
  PROVE  ChatInv'
<1> USE DEF ChatInv
<1>1. /\ loads' \subseteq loads /\ chat' = [chat EXCEPT !.shown = l.answer]
      /\ stored' = stored /\ streams' = streams
  BY DEF ShowMessages, Loaded
<1>2. l.chat \in Chats /\ l.answer \in Seq(Messages)
  BY DEF Shape, IsLoad
<1>3. Shape'
  BY <1>1, <1>2 DEF Shape, ChatType
<1>4. StoredInv' /\ WireInv'
  BY <1>1 DEF StoredInv, WireInv, IsWire
<1>5. AnswerInv'
  BY <1>1 DEF AnswerInv
<1>6. /\ chat'.shown = l.answer /\ chat'.streaming = chat.streaming /\ chat'.send = chat.send
      /\ chat'.chat = chat.chat
  BY <1>1 DEF Shape, ChatType
<1>7. ReadInv'
  BY <1>1, <1>6 DEF ReadInv
<1>8. ShownInv'
  <2>1. Once(l.answer)
    BY DEF AnswerInv
  <2>2. ASSUME NEW i \in DOMAIN l.answer
        PROVE  LET m == l.answer[i]
               IN  /\ streams[m.send].pc # "new" /\ m.key = "server" /\ m.role # "error"
                   /\ m \in Elements(stored[m.chat])
    <3>1. PICK j \in DOMAIN stored[l.chat] : l.answer[i] = stored[l.chat][j]
      BY DEF AnswerInv, Elements
    <3> QED BY <1>2, <3>1 DEF StoredInv, Reached, Elements, Started, Ended
  <2> QED BY <1>1, <1>6, <2>1, <2>2 DEF ShownInv, IsBubble
<1> QED BY <1>3, <1>4, <1>5, <1>7, <1>8

\* A message is put at the end of its chat, for the first time.
LEMMA StoreKeeps ==
  ASSUME ChatInv, NEW s \in Sends, NEW role \in {"user", "assistant", "apology"}, NEW text \in 0 .. MaxTokens,
         streams[s].chat \in Chats,
         stored' = [stored EXCEPT ![streams[s].chat] =
                      Append(@, Message(streams[s].chat, role, s, "server", text))],
         \A t \in Sends : t # s => streams'[t].pc = streams[t].pc,
         \/ role = "user" /\ streams[s].pc = "sent" /\ streams'[s].pc \in {"open", "over"}
         \/ role = "assistant" /\ streams[s].pc = "open" /\ streams'[s].pc \in {"stored", "failed"}
         \/ role = "apology" /\ streams[s].pc = "sorry" /\ streams'[s].pc = "over"
  PROVE  /\ stored' \in [Chats -> Seq(Messages)] /\ StoredInv' /\ Grows
         /\ Message(streams[s].chat, role, s, "server", text) \in Elements(stored'[streams[s].chat])
<1> DEFINE d == streams[s].chat
<1> DEFINE m == Message(d, role, s, "server", text)
<1>1. /\ m \in Messages /\ m.chat = d /\ m.key = "server" /\ m.role = role /\ m.send = s /\ d \in Chats
  BY DEF Message, Messages, Roles
<1>2. stored' = [stored EXCEPT ![d] = Append(@, m)] /\ stored \in [Chats -> Seq(Messages)]
  BY DEF ChatInv, Shape
<1>3. \A n \in Messages : Reached(n, streams[n.send]) =>
        Reached(n, streams'[n.send]) /\ ~Same(n, m) /\ ~Same(m, n)
  BY <1>1 DEF Messages, Reached, Same, Started, Ended
<1>4. Reached(m, streams'[s])
  BY <1>1 DEF Reached, Started, Ended
<1> HIDE DEF m, d
<1>5. /\ stored' \in [Chats -> Seq(Messages)] /\ stored'[d] = Append(stored[d], m)
      /\ \A c \in Chats : c # d => stored'[c] = stored[c]
  BY <1>1, <1>2
<1>6. Elements(stored'[d]) = Elements(stored[d]) \cup {m}
  BY <1>1, <1>2, <1>5, ElementsOfAppend
<1>7. Grows
  BY <1>5, <1>6 DEF Grows
<1>8. StoredInv'
  <2> SUFFICES ASSUME NEW c \in Chats
               PROVE  /\ Once(stored'[c])
                      /\ \A i \in DOMAIN stored'[c] :
                           /\ stored'[c][i].chat = c /\ stored'[c][i].key = "server"
                           /\ Reached(stored'[c][i], streams'[stored'[c][i].send])
    BY DEF StoredInv, Reached
  <2>1. /\ Once(stored[c])
        /\ \A i \in DOMAIN stored[c] :
             /\ stored[c][i].chat = c /\ stored[c][i].key = "server" /\ stored[c][i] \in Messages
             /\ Reached(stored[c][i], streams[stored[c][i].send])
    BY <1>2 DEF ChatInv, StoredInv
  <2>2. CASE c # d
    BY <1>3, <1>5, <2>1, <2>2
  <2>3. CASE c = d
    <3>1. Once(stored'[d])
      BY <1>1, <1>2, <1>3, <1>5, <2>1, <2>3, OnceAppend
    <3>2. \A i \in DOMAIN stored'[d] : stored'[d][i] = m \/ (i \in DOMAIN stored[d] /\ stored'[d][i] = stored[d][i])
      BY <1>1, <1>2, <1>5
    <3>3. m.chat = d /\ m.key = "server" /\ Reached(m, streams'[m.send])
      BY <1>1, <1>4, ZenonT(60)
    <3>4. \A n \in Messages : Reached(n, streams[n.send]) => Reached(n, streams'[n.send])
      BY <1>3, ZenonT(60)
    <3>5. ASSUME NEW i \in DOMAIN stored'[d]
          PROVE  /\ stored'[d][i].chat = d /\ stored'[d][i].key = "server"
                 /\ Reached(stored'[d][i], streams'[stored'[d][i].send])
      <4>1. CASE stored'[d][i] = m
        BY <3>3, <4>1, ZenonT(60)
      <4>2. CASE i \in DOMAIN stored[d] /\ stored'[d][i] = stored[d][i]
        <5>1. PICK n \in Messages : n = stored[d][i] /\ n.chat = d /\ n.key = "server" /\ Reached(n, streams[n.send])
          BY <2>1, <2>3, <4>2
        <5>2. Reached(n, streams'[n.send])
          BY <3>4, <5>1, ZenonT(60)
        <5> QED BY <4>2, <5>1, <5>2
      <4> QED BY <3>2, <4>1, <4>2
    <3> QED BY <2>3, <3>1, <3>5, ZenonT(60)
  <2> QED BY <2>2, <2>3
<1> QED BY <1>1, <1>5, <1>6, <1>7, <1>8 DEF m, d

\* Nothing is stored, and the stream goes on.
LEMMA NothingStored ==
  ASSUME ChatInv, UNCHANGED stored, NEW s \in Sends,
         \A t \in Sends : t # s => streams'[t].pc = streams[t].pc,
         \/ streams'[s].pc = "over"
         \/ streams[s].pc = "open" /\ streams'[s].pc \in {"open", "failed"}
         \/ streams[s].pc \in {"stored", "failed"} /\ streams'[s].pc \in {"failed", "sorry", "hung"}
  PROVE  stored' \in [Chats -> Seq(Messages)] /\ StoredInv' /\ Grows
<1>1. \A n \in Messages : Reached(n, streams[n.send]) => Reached(n, streams'[n.send])
  BY DEF Messages, Reached, Started, Ended
<1>2. stored' \in [Chats -> Seq(Messages)] /\ Grows
  BY DEF ChatInv, Shape, Grows
<1>3. StoredInv'
  <2> SUFFICES ASSUME NEW c \in Chats
               PROVE  /\ Once(stored'[c])
                      /\ \A i \in DOMAIN stored'[c] :
                           /\ stored'[c][i].chat = c /\ stored'[c][i].key = "server"
                           /\ Reached(stored'[c][i], streams'[stored'[c][i].send])
    BY DEF StoredInv, Reached
  <2>1. /\ Once(stored[c])
        /\ \A i \in DOMAIN stored[c] :
             /\ stored[c][i].chat = c /\ stored[c][i].key = "server" /\ stored[c][i] \in Messages
             /\ Reached(stored[c][i], streams[stored[c][i].send])
    BY <1>2 DEF ChatInv, StoredInv
  <2> QED BY <1>1, <2>1
<1> QED BY <1>2, <1>3

\* The other parts, when the stream s goes from one state to the next.
LEMMA StreamKeeps ==
  ASSUME ChatInv, UNCHANGED <<chat, loads>>, NEW s \in Sends,
         stored' \in [Chats -> Seq(Messages)] /\ StoredInv' /\ Grows,
         streams' \in [Sends -> Streams], \A t \in Sends : t # s => streams'[t] = streams[t],
         IsWire(s, streams[s])',
         streams[s].pc # "new", streams'[s].pc # "new", streams'[s].chat = streams[s].chat,
         \/ streams'[s].pc \notin Ended
         \/ streams'[s].pc = "over" /\ streams[s].pc = "sorry" /\ streams'[s].wire = streams[s].wire
         \/ \E e \in Events \ {"token"} : streams'[s].wire = Append(streams[s].wire, e),
         \/ streams[s].pc \in Ended /\ streams'[s].pc \in Ended
              /\ streams'[s].wire = streams[s].wire /\ streams'[s].tokens = streams[s].tokens
         \/ streams'[s].tokens - OnWire(streams'[s]) = streams[s].tokens - OnWire(streams[s])
  PROVE  ChatInv'
<1>1. Shape'
  BY DEF ChatInv, Shape
<1>2. AnswerInv'
  <2>1. \A l \in loads' : l \in loads \/ l.answer = <<>>
    OBVIOUS
  <2> QED BY <2>1, AnswersKept DEF ChatInv
<1>3. WireInv'
  <2> SUFFICES ASSUME NEW t \in Sends PROVE IsWire(t, streams[t])'
    BY DEF WireInv
  <2>1. CASE t = s
    BY <2>1
  <2>2. CASE t # s
    BY <2>2, SMTT(60) DEF ChatInv, WireInv, IsWire, Grows
  <2> QED BY <2>1, <2>2
<1>4. ReadInv'
  <2> SUFFICES ASSUME chat.streaming
               PROVE  LET st == streams'[chat.send]
                      IN  /\ chat.send \in Sends /\ st.pc # "new" /\ chat.chat = st.chat /\ st.chat \in Chats
                          /\ st.pc \in Ended => st.wire # <<>> /\ st.wire[Len(st.wire)] # "token"
    BY DEF ReadInv
  <2>1. LET st == streams[chat.send]
        IN  /\ chat.send \in Sends /\ st.pc # "new" /\ chat.chat = st.chat /\ st.chat \in Chats
            /\ st.pc \in Ended => st.wire # <<>> /\ st.wire[Len(st.wire)] # "token"
    BY DEF ChatInv, ReadInv
  <2>2. CASE chat.send # s
    BY <2>1, <2>2
  <2>3. CASE chat.send = s /\ streams'[s].pc \notin Ended
    BY <2>1, <2>3
  <2>4. CASE chat.send = s /\ streams[s].pc = "sorry" /\ streams'[s].wire = streams[s].wire
    BY <2>1, <2>4 DEF Ended
  <2>5. CASE chat.send = s /\ \E e \in Events \ {"token"} : streams'[s].wire = Append(streams[s].wire, e)
    <3>1. streams[s].wire \in Seq(Events)
      BY DEF ChatInv, Shape, Streams
    <3>2. PICK e \in Events \ {"token"} : streams'[s].wire = Append(streams[s].wire, e)
      BY <2>5
    <3>3. Append(streams[s].wire, e) # <<>> /\ Append(streams[s].wire, e)[Len(Append(streams[s].wire, e))] = e
      BY <3>1
    <3>4. streams'[s].wire # <<>> /\ streams'[s].wire[Len(streams'[s].wire)] # "token"
      BY <3>2, <3>3
    <3> QED BY <2>1, <2>5, <3>4
  <2> QED BY <2>2, <2>3, <2>4, <2>5
<1>5. ShownInv'
  <2>1. Once(chat'.shown)
    BY DEF ChatInv, ShownInv
  <2> SUFFICES ASSUME NEW i \in DOMAIN chat.shown, NEW m, m = chat.shown[i]
               PROVE  /\ streams'[m.send].pc # "new"
                      /\ m.key = "server" => m \in Elements(stored'[m.chat])
                      /\ chat.streaming /\ m.send = chat.send =>
                           /\ m.role # "error"
                           /\ IsBubble(m) => /\ m.chat = chat.chat
                                             /\ m.text + OnWire(streams'[chat.send]) = streams'[chat.send].tokens
    BY <2>1 DEF ShownInv, IsBubble, OnWire
  <2>2. m \in Messages
    BY DEF ChatInv, Shape, ChatType
  <2>3. /\ streams[m.send].pc # "new"
        /\ m.key = "server" => m \in Elements(stored[m.chat])
        /\ chat.streaming /\ m.send = chat.send =>
             /\ m.role # "error"
             /\ IsBubble(m) => /\ m.chat = chat.chat
                               /\ m.text + OnWire(streams[chat.send]) = streams[chat.send].tokens
    BY DEF ChatInv, ShownInv
  <2>4. streams'[m.send].pc # "new" /\ (m.key = "server" => m \in Elements(stored'[m.chat]))
    BY <2>2, <2>3 DEF Messages, Grows
  <2>5. ASSUME chat.streaming, m.send = chat.send, IsBubble(m)
        PROVE  m.text + OnWire(streams'[chat.send]) = streams'[chat.send].tokens
    <3>1. CASE chat.send # s
      BY <2>2, <2>3, <2>5, <3>1 DEF Messages
    <3>2. CASE chat.send = s
      <4>1. /\ streams[s].tokens \in Int /\ streams'[s].tokens \in Int
            /\ Len(streams[s].wire) \in Nat /\ Len(streams'[s].wire) \in Nat
        <5>1. streams[s] \in Streams /\ streams'[s] \in Streams
          BY DEF ChatInv, Shape
        <5> QED BY <5>1 DEF Streams
      <4>2. m.text \in Int /\ OnWire(streams[s]) \in Int /\ OnWire(streams'[s]) \in Int
        BY <2>2, <4>1 DEF OnWire, Messages
      <4>3. m.text + OnWire(streams[s]) = streams[s].tokens
        BY <2>3, <2>5, <3>2
      <4>4. streams'[s].tokens - OnWire(streams'[s]) = streams[s].tokens - OnWire(streams[s])
        BY <4>1 DEF OnWire
      <4> HIDE DEF OnWire
      <4> QED BY <3>2, <4>1, <4>2, <4>3, <4>4
    <3> QED BY <3>1, <3>2
  <2> QED BY <2>3, <2>4, <2>5
<1> QED BY <1>1, <1>2, <1>3, <1>4, <1>5 DEF ChatInv

\* What a step of the server makes of the stream.
Goes(s, pc, wire, tokens) ==
  /\ streams'[s].pc = pc /\ streams'[s].wire = wire /\ streams'[s].tokens = tokens
  /\ streams'[s].chat = streams[s].chat

LEMMA ServerGoes ==
  ASSUME ChatInv, NEW s \in Sends,
         NEW pc \in Started, NEW wire \in Seq(Events), NEW tokens \in 0 .. MaxTokens,
         streams' = [streams EXCEPT ![s].pc = pc, ![s].wire = wire, ![s].tokens = tokens]
  PROVE  /\ streams' \in [Sends -> Streams] /\ Goes(s, pc, wire, tokens)
         /\ \A t \in Sends : t # s => streams'[t] = streams[t]
BY DEF ChatInv, Shape, Streams, Goes

LEMMA StreamTypes ==
  ASSUME ChatInv, NEW s \in Sends, streams[s].pc # "new"
  PROVE  /\ streams[s] \in Streams /\ streams \in [Sends -> Streams] /\ streams[s].pc \in Started
         /\ streams[s].wire \in Seq(Events) /\ streams[s].tokens \in 0 .. MaxTokens
         /\ IsWire(s, streams[s]) /\ streams[s].chat \in Chats
<1>1. streams[s] \in Streams /\ streams \in [Sends -> Streams] /\ IsWire(s, streams[s])
  BY DEF ChatInv, Shape, WireInv
<1> QED BY <1>1 DEF Streams, IsWire

\* A step that sends nothing, and neither ends the stream nor starts it again.
LEMMA MovesKeeps ==
  ASSUME ChatInv, UNCHANGED <<chat, loads>>, NEW s \in Sends, NEW pc \in Started \ {"sent"},
         Moves(s, pc), streams[s].pc # "new", streams[s].pc \in Ended <=> pc \in Ended,
         pc = "over" => streams[s].pc = "sorry", pc # "sorry",
         pc = "stored" => Message(streams[s].chat, "assistant", s, "server", streams[s].tokens)
                            \in Elements(stored'[streams[s].chat]),
         stored' \in [Chats -> Seq(Messages)] /\ StoredInv' /\ Grows
  PROVE  ChatInv'
<1> DEFINE st == streams[s]
<1>0. /\ st \in Streams /\ st.wire \in Seq(Events) /\ st.tokens \in 0 .. MaxTokens
      /\ streams \in [Sends -> Streams] /\ IsWire(s, st) /\ st.chat \in Chats
  BY StreamTypes
<1>1. /\ Goes(s, pc, st.wire, st.tokens) /\ streams' \in [Sends -> Streams]
      /\ \A t \in Sends : t # s => streams'[t] = streams[t]
  BY <1>0 DEF Moves, Goes, Streams
<1>2. IsWire(s, streams[s])'
  <2>1. \A i \in DOMAIN st.wire : st.wire[i] # "token" => i = Len(st.wire) /\ pc \in Ended
    BY <1>0 DEF IsWire
  <2>2. pc = "stored" \/ (\E i \in DOMAIN st.wire : st.wire[i] = "done") =>
          Message(st.chat, "assistant", s, "server", st.tokens) \in Elements(stored'[st.chat])
    BY <1>0 DEF IsWire, Grows
  <2>3. pc \notin {"new", "sent"}
    BY DEF Started, Ended
  <2> HIDE DEF st
  <2> QED BY <1>0, <1>1, <2>1, <2>2, <2>3 DEF IsWire, Goes, st
<1>3. streams'[s].tokens - OnWire(streams'[s]) = st.tokens - OnWire(st)
  BY <1>1 DEF Goes, OnWire
<1>4. pc # "new" /\ (pc \notin Ended \/ (pc = "over" /\ st.pc = "sorry"))
  BY DEF Started, Ended
<1> QED BY <1>1, <1>2, <1>3, <1>4, StreamKeeps DEF Goes

\* A step that sends the event that ends the stream.
LEMMA EmitsKeeps ==
  ASSUME ChatInv, UNCHANGED <<chat, loads>>, NEW s \in Sends, NEW pc \in Ended, NEW e \in Events \ {"token"},
         Emits(s, pc, e), streams[s].pc \notin Ended \cup {"new"},
         stored' \in [Chats -> Seq(Messages)] /\ StoredInv' /\ Grows,
         e = "done" => Message(streams[s].chat, "assistant", s, "server", streams[s].tokens)
                         \in Elements(stored[streams[s].chat])
  PROVE  ChatInv'
<1> DEFINE st == streams[s]
<1>0. /\ st \in Streams /\ st.wire \in Seq(Events) /\ st.tokens \in 0 .. MaxTokens
      /\ streams \in [Sends -> Streams] /\ IsWire(s, st) /\ st.chat \in Chats
  BY StreamTypes
<1>1. /\ Goes(s, pc, Append(st.wire, e), st.tokens) /\ streams' \in [Sends -> Streams]
      /\ \A t \in Sends : t # s => streams'[t] = streams[t]
  <2>1. Append(st.wire, e) \in Seq(Events)
    BY <1>0
  <2>2. streams' = [streams EXCEPT ![s].pc = pc, ![s].wire = Append(st.wire, e), ![s].tokens = st.tokens]
    BY <1>0 DEF Streams, Emits
  <2>3. pc \in Started
    BY DEF Started
  <2> HIDE DEF st
  <2> QED BY <1>0, <2>1, <2>2, <2>3, ServerGoes DEF st
<1>2. IsWire(s, streams[s])'
  <2>1. \A i \in DOMAIN st.wire : st.wire[i] = "token"
    BY <1>0 DEF IsWire
  <2>2. \A i \in DOMAIN Append(st.wire, e) :
          IF i = Len(Append(st.wire, e)) THEN Append(st.wire, e)[i] = e ELSE Append(st.wire, e)[i] = "token"
    BY <1>0, <2>1
  <2> QED BY <1>0, <1>1, <2>2 DEF IsWire, Goes, Grows, Ended
<1>3. streams'[s].tokens - OnWire(streams'[s]) = st.tokens - OnWire(st)
  <2>1. Len(Append(st.wire, e)) = Len(st.wire) + 1 /\ Len(st.wire) \in Nat
    BY <1>0
  <2>2. OnWire(st) = Len(st.wire) /\ OnWire(streams'[s]) = Len(st.wire)
    BY <1>1, <2>1 DEF Goes, OnWire
  <2> QED BY <1>1, <2>2 DEF Goes
<1>4. streams'[s].wire = Append(st.wire, e) /\ streams'[s].pc # "new"
  BY <1>1 DEF Goes, Ended
<1> QED BY <1>1, <1>2, <1>3, <1>4, StreamKeeps DEF Goes

LEMMA TokenKeeps ==
  ASSUME ChatInv, UNCHANGED <<chat, loads>>, NEW s \in Sends, SendToken(s)
  PROVE  ChatInv'
<1> DEFINE st == streams[s]
<1>a. st.pc = "open" /\ st.tokens < MaxTokens /\ UNCHANGED stored
  BY DEF SendToken
<1>0. /\ st \in Streams /\ st.wire \in Seq(Events) /\ st.tokens \in 0 .. MaxTokens
      /\ streams \in [Sends -> Streams] /\ IsWire(s, st) /\ st.chat \in Chats
  BY <1>a, StreamTypes
<1>1. /\ Goes(s, "open", Append(st.wire, "token"), st.tokens + 1) /\ streams' \in [Sends -> Streams]
      /\ \A t \in Sends : t # s => streams'[t] = streams[t]
  <2>1. "token" \in Events /\ st.tokens + 1 \in 0 .. MaxTokens /\ "open" \in Started
    BY <1>0, <1>a, WebAssumption DEF Events, WebAssumption, Started
  <2>2. Append(st.wire, "token") \in Seq(Events)
    BY <1>0, <2>1
  <2>3. streams' = [streams EXCEPT ![s].pc = "open", ![s].wire = Append(st.wire, "token"),
                                   ![s].tokens = st.tokens + 1]
    BY <1>0, <1>a DEF Streams, SendToken
  <2> QED BY <2>1, <2>2, <2>3, ServerGoes
<1>2. stored' \in [Chats -> Seq(Messages)] /\ StoredInv' /\ Grows
  BY <1>a, <1>1, NothingStored DEF Goes
<1>3. IsWire(s, streams[s])'
  <2>1. \A i \in DOMAIN st.wire : st.wire[i] = "token"
    BY <1>0, <1>a DEF IsWire, Ended
  <2>2. \A i \in DOMAIN Append(st.wire, "token") : Append(st.wire, "token")[i] = "token"
    BY <1>0, <2>1
  <2> QED BY <1>0, <1>1, <2>2 DEF IsWire, Goes
<1>4. streams'[s].tokens - OnWire(streams'[s]) = st.tokens - OnWire(st)
  <2>1. Len(Append(st.wire, "token")) = Len(st.wire) + 1 /\ Len(st.wire) \in Nat
    BY <1>0
  <2>2. OnWire(st) = Len(st.wire) /\ OnWire(streams'[s]) = Len(st.wire) + 1
    BY <1>a, <1>1, <2>1 DEF Goes, OnWire, Ended
  <2>3. st.tokens \in Int /\ streams'[s].tokens = st.tokens + 1
    BY <1>0, <1>1 DEF Goes
  <2> QED BY <2>1, <2>2, <2>3, SMTT(60)
<1>5. streams'[s].pc = "open" /\ "open" \notin Ended
  BY <1>1 DEF Goes, Ended
<1> QED BY <1>a, <1>1, <1>2, <1>3, <1>4, <1>5, StreamKeeps DEF Goes

\* What a step does to the messages, whether or not its insert fails.
LEMMA StoresOrNotKeeps ==
  ASSUME ChatInv, NEW s \in Sends, NEW role \in {"user", "assistant", "apology"}, NEW text \in 0 .. MaxTokens,
         streams[s].chat \in Chats, StoresOrNot(s, role, text),
         \A t \in Sends : t # s => streams'[t].pc = streams[t].pc,
         \/ role = "user" /\ streams[s].pc = "sent" /\ streams'[s].pc = "over"
         \/ role = "assistant" /\ streams[s].pc = "open" /\ streams'[s].pc = "failed"
         \/ role = "apology" /\ streams[s].pc = "sorry" /\ streams'[s].pc = "over"
  PROVE  stored' \in [Chats -> Seq(Messages)] /\ StoredInv' /\ Grows
<1>1. CASE Stores(s, role, text)
  BY <1>1, StoreKeeps DEF Stores
<1>2. CASE UNCHANGED stored
  BY <1>2, NothingStored
<1> QED BY <1>1, <1>2 DEF StoresOrNot

LEMMA OthersStay ==
  ASSUME ChatInv, NEW s \in Sends, NEW pc, Moves(s, pc) \/ \E e : Emits(s, pc, e)
  PROVE  /\ \A t \in Sends : t # s => streams'[t].pc = streams[t].pc
         /\ streams'[s].pc = pc
<1>1. streams \in [Sends -> Streams]
  BY DEF ChatInv, Shape
<1> QED BY <1>1 DEF Moves, Emits, Streams

LEMMA StoreUserKeeps ==
  ASSUME ChatInv, UNCHANGED <<chat, loads>>, NEW s \in Sends, StoreUser(s)
  PROVE  ChatInv'
<1>1. streams[s].pc = "sent" /\ streams[s].chat \in Chats /\ 0 \in 0 .. MaxTokens
  BY StreamTypes, WebAssumption DEF StoreUser, WebAssumption
<1>2. CASE Stores(s, "user", 0) /\ Moves(s, "open")
  <2>1. \A t \in Sends : t # s => streams'[t].pc = streams[t].pc
    BY <1>2, OthersStay
  <2>2. streams'[s].pc = "open"
    BY <1>2, OthersStay
  <2>3. stored' \in [Chats -> Seq(Messages)] /\ StoredInv' /\ Grows
    BY <1>1, <1>2, <2>1, <2>2, StoreKeeps DEF Stores
  <2>4. "open" \in Started \ {"sent"} /\ "open" \notin Ended /\ "sent" \notin Ended
    BY DEF Started, Ended
  <2> QED BY <1>1, <1>2, <2>3, <2>4, MovesKeeps
<1>3. CASE StoresOrNot(s, "user", 0) /\ Emits(s, "over", "lost")
  <2>1. \A t \in Sends : t # s => streams'[t].pc = streams[t].pc
    BY <1>3, OthersStay
  <2>2. streams'[s].pc = "over"
    BY <1>3, OthersStay
  <2>3. stored' \in [Chats -> Seq(Messages)] /\ StoredInv' /\ Grows
    BY <1>1, <1>3, <2>1, <2>2, StoresOrNotKeeps
  <2>4. "over" \in Ended /\ "lost" \in Events \ {"token"} /\ "sent" \notin Ended \cup {"new"}
    BY DEF Ended, Events
  <2> QED BY <1>1, <1>3, <2>3, <2>4, EmitsKeeps
<1> QED BY <1>2, <1>3 DEF StoreUser

LEMMA StoreAnswerKeeps ==
  ASSUME ChatInv, UNCHANGED <<chat, loads>>, NEW s \in Sends, StoreAnswer(s)
  PROVE  ChatInv'
<1> DEFINE tokens == streams[s].tokens
<1>1. streams[s].pc = "open" /\ streams[s].chat \in Chats /\ tokens \in 0 .. MaxTokens
  BY StreamTypes DEF StoreAnswer
<1>2. CASE Stores(s, "assistant", tokens) /\ Moves(s, "stored")
  <2>1. \A t \in Sends : t # s => streams'[t].pc = streams[t].pc
    BY <1>2, OthersStay
  <2>2. streams'[s].pc = "stored"
    BY <1>2, OthersStay
  <2> HIDE DEF tokens
  <2>3. /\ stored' \in [Chats -> Seq(Messages)] /\ StoredInv' /\ Grows
        /\ Message(streams[s].chat, "assistant", s, "server", tokens) \in Elements(stored'[streams[s].chat])
    BY <1>1, <1>2, <2>1, <2>2, StoreKeeps DEF Stores
  <2>4. "stored" \in Started \ {"sent"} /\ "stored" \notin Ended /\ "open" \notin Ended
    BY DEF Started, Ended
  <2> QED BY <1>1, <1>2, <2>3, <2>4, MovesKeeps DEF tokens
<1>3. CASE StoresOrNot(s, "assistant", tokens) /\ Moves(s, "failed")
  <2>1. \A t \in Sends : t # s => streams'[t].pc = streams[t].pc
    BY <1>3, OthersStay
  <2>2. streams'[s].pc = "failed"
    BY <1>3, OthersStay
  <2> HIDE DEF tokens
  <2>3. stored' \in [Chats -> Seq(Messages)] /\ StoredInv' /\ Grows
    BY <1>1, <1>3, <2>1, <2>2, StoresOrNotKeeps
  <2>4. "failed" \in Started \ {"sent"} /\ "failed" \notin Ended /\ "open" \notin Ended
    BY DEF Started, Ended
  <2> QED BY <1>1, <1>3, <2>3, <2>4, MovesKeeps
<1> QED BY <1>2, <1>3 DEF StoreAnswer

LEMMA ApologiseKeeps ==
  ASSUME ChatInv, UNCHANGED <<chat, loads>>, NEW s \in Sends, Apologise(s)
  PROVE  ChatInv'
<1>1. streams[s].pc = "sorry" /\ streams[s].chat \in Chats /\ 0 \in 0 .. MaxTokens
  BY StreamTypes, WebAssumption DEF Apologise, WebAssumption
<1>2. StoresOrNot(s, "apology", 0) /\ Moves(s, "over")
  BY DEF Apologise
<1>3. \A t \in Sends : t # s => streams'[t].pc = streams[t].pc
  BY <1>2, OthersStay
<1>4. streams'[s].pc = "over"
  BY <1>2, OthersStay
<1>5. stored' \in [Chats -> Seq(Messages)] /\ StoredInv' /\ Grows
  BY <1>1, <1>2, <1>3, <1>4, StoresOrNotKeeps
<1>6. "over" \in Started \ {"sent"} /\ "over" \in Ended /\ "sorry" \in Ended
  BY DEF Started, Ended
<1> QED BY <1>1, <1>2, <1>5, <1>6, MovesKeeps

\* The steps that store nothing: the answer that is announced was stored before.
LEMMA EndsKeep ==
  ASSUME ChatInv, UNCHANGED <<chat, loads>>, NEW s \in Sends, Finish(s) \/ Fail(s) \/ Die(s)
  PROVE  ChatInv'
<1>1. /\ UNCHANGED stored
      /\ streams[s].pc \in {"sent", "open", "stored", "failed", "hung"}
  BY DEF Finish, Fail, Die
<1>2. streams[s].pc \notin Ended \cup {"new"}
  BY <1>1 DEF Ended
<1>3. CASE \E pc \in {"failed", "hung"} : Moves(s, pc) /\ streams[s].pc \in {"stored", "failed"}
  <2>1. PICK pc \in {"failed", "hung"} : Moves(s, pc) /\ streams[s].pc \in {"stored", "failed"}
    BY <1>3
  <2>2. \A t \in Sends : t # s => streams'[t].pc = streams[t].pc
    BY <2>1, OthersStay
  <2>3. streams'[s].pc = pc
    BY <2>1, OthersStay
  <2>4. stored' \in [Chats -> Seq(Messages)] /\ StoredInv' /\ Grows
    BY <1>1, <2>1, <2>2, <2>3, NothingStored
  <2>5. pc \in Started \ {"sent"} /\ pc \notin Ended /\ pc # "over" /\ pc # "sorry"
    BY DEF Started, Ended
  <2> QED BY <1>2, <2>1, <2>4, <2>5, MovesKeeps
<1>4. ASSUME NEW pc \in Ended, NEW e \in Events \ {"token"}, Emits(s, pc, e),
             pc = "sorry" => streams[s].pc = "failed", e = "done" => streams[s].pc = "stored"
      PROVE  ChatInv'
  <2>1. \A t \in Sends : t # s => streams'[t].pc = streams[t].pc
    BY <1>4, OthersStay
  <2>2. streams'[s].pc = pc
    BY <1>4, OthersStay
  <2>3. stored' \in [Chats -> Seq(Messages)] /\ StoredInv' /\ Grows
    BY <1>1, <1>4, <2>1, <2>2, NothingStored DEF Ended
  <2>4. e = "done" => Message(streams[s].chat, "assistant", s, "server", streams[s].tokens)
                        \in Elements(stored[streams[s].chat])
    BY <1>4 DEF ChatInv, WireInv, IsWire
  <2> QED BY <1>2, <1>4, <2>3, <2>4, EmitsKeeps
<1>5. CASE Finish(s)
  <2>1. streams[s].pc = "stored" /\ (Emits(s, "over", "done") \/ Moves(s, "failed"))
    BY <1>5 DEF Finish
  <2>2. "over" \in Ended /\ "done" \in Events \ {"token"}
    BY DEF Ended, Events
  <2> QED BY <1>3, <1>4, <2>1, <2>2
<1>6. CASE Fail(s)
  <2>1. streams[s].pc = "failed" /\ (Emits(s, "sorry", "error") \/ Moves(s, "hung"))
    BY <1>6 DEF Fail
  <2>2. "sorry" \in Ended /\ "error" \in Events \ {"token"}
    BY DEF Ended, Events
  <2> QED BY <1>3, <1>4, <2>1, <2>2
<1>7. CASE Die(s)
  <2>1. Emits(s, "over", "lost") /\ "over" \in Ended /\ "lost" \in Events \ {"token"}
    BY <1>7 DEF Die, Ended, Events
  <2> QED BY <1>4, <2>1
<1> QED BY <1>5, <1>6, <1>7

LEMMA ServerKeeps ==
  ASSUME ChatInv, NEW s \in Sends, Server(s)
  PROVE  ChatInv'
<1>1. UNCHANGED <<chat, loads>>
  BY DEF Server
<1>2. \/ StoreUser(s) \/ Finish(s) \/ Fail(s) \/ Apologise(s)
      \/ SendToken(s) \/ StoreAnswer(s) \/ Die(s)
  BY DEF Server, Handler
<1> QED BY <1>1, <1>2, StoreUserKeeps, EndsKeep, ApologiseKeeps, TokenKeeps, StoreAnswerKeeps

LEMMA SendKeeps ==
  ASSUME ChatInv, NEW s \in Sends, HandleSendMessage(s)
  PROVE  ChatInv'
<1> DEFINE c == chat.selected
<1> DEFINE u == Message(c, "user", s, "client", 0)
<1> DEFINE a == Message(c, "assistant", s, "client", 0)
<1> DEFINE sh == Append(Append(chat.shown, u), a)
<1>1. /\ chat \in ChatType /\ chat.shown \in Seq(Messages) /\ c \in Chats /\ streams[s].pc = "new"
      /\ streams \in [Sends -> Streams] /\ streams[s].wire = <<>> /\ streams[s].tokens = 0
      /\ stored' = stored /\ loads' = loads /\ ~chat.streaming
      /\ streams' = [streams EXCEPT ![s].pc = "sent", ![s].chat = c]
  BY DEF HandleSendMessage, ChatInv, Shape, ChatType, WireInv, IsWire
<1>2. /\ u \in Messages /\ a \in Messages /\ u.send = s /\ a.send = s /\ u.chat = c /\ a.chat = c
      /\ u.role = "user" /\ a.role = "assistant" /\ a.text = 0 /\ u.key = "client" /\ a.key = "client"
  BY <1>1, WebAssumption DEF Message, Messages, Roles, WebAssumption
<1>3. chat' = [chat EXCEPT !.streaming = TRUE, !.send = s, !.chat = c, !.shown = sh]
  <2>1. chat.shown \o <<u, a>> = sh
    BY <1>1, <1>2
  <2> HIDE DEF sh
  <2>2. chat' = [chat EXCEPT !.streaming = TRUE, !.send = s, !.chat = c, !.shown = @ \o <<u, a>>]
    BY DEF HandleSendMessage
  <2> QED BY <1>1, <2>1, <2>2 DEF ChatType
<1> HIDE DEF c, u, a
<1>4. sh \in Seq(Messages)
  BY <1>1, <1>2
<1>5. \A i \in DOMAIN sh : \/ i \in DOMAIN chat.shown /\ sh[i] = chat.shown[i]
                           \/ sh[i] = u \/ sh[i] = a
  BY <1>1, <1>2
<1>6. \A i \in DOMAIN chat.shown : streams[chat.shown[i].send].pc # "new" /\ chat.shown[i].send # s
  BY <1>1 DEF ChatInv, ShownInv
<1>7. Once(sh)
  <2>1. Once(Append(chat.shown, u))
    <3>1. Once(chat.shown)
      BY DEF ChatInv, ShownInv
    <3>2. \A i \in DOMAIN chat.shown : ~Same(chat.shown[i], u) /\ ~Same(u, chat.shown[i])
      BY <1>2, <1>6 DEF Same
    <3> QED BY <1>1, <1>2, <3>1, <3>2, OnceAppend
  <2>2. Append(chat.shown, u) \in Seq(Messages)
    BY <1>1, <1>2
  <2>3. \A i \in DOMAIN Append(chat.shown, u) :
          Append(chat.shown, u)[i] = u \/ (i \in DOMAIN chat.shown /\ Append(chat.shown, u)[i] = chat.shown[i])
    BY <1>1, <1>2
  <2>4. \A i \in DOMAIN Append(chat.shown, u) :
          ~Same(Append(chat.shown, u)[i], a) /\ ~Same(a, Append(chat.shown, u)[i])
    BY <1>2, <1>6, <2>3 DEF Same
  <2> QED BY <1>2, <2>1, <2>2, <2>4, OnceAppend
<1> HIDE DEF sh
<1>8. /\ chat' \in ChatType /\ chat'.streaming /\ chat'.send = s /\ chat'.chat = c /\ chat'.shown = sh
  BY <1>1, <1>3, <1>4 DEF ChatType
<1>9. /\ streams' \in [Sends -> Streams] /\ \A t \in Sends : t # s => streams'[t] = streams[t]
      /\ streams'[s].pc = "sent" /\ streams'[s].chat = c /\ streams'[s].wire = <<>> /\ streams'[s].tokens = 0
  BY <1>1 DEF Streams, Started
<1>10. Shape'
  BY <1>1, <1>8, <1>9 DEF ChatInv, Shape
<1>11. StoredInv'
  <2>1. \A n \in Messages : Reached(n, streams[n.send]) => Reached(n, streams'[n.send])
    BY <1>1, <1>9 DEF Messages, Reached, Started, Ended
  <2>2. stored \in [Chats -> Seq(Messages)]
    BY DEF ChatInv, Shape
  <2> SUFFICES ASSUME NEW d \in Chats
               PROVE  /\ Once(stored'[d])
                      /\ \A i \in DOMAIN stored'[d] :
                           /\ stored'[d][i].chat = d /\ stored'[d][i].key = "server"
                           /\ Reached(stored'[d][i], streams'[stored'[d][i].send])
    BY DEF StoredInv, Reached
  <2>3. /\ Once(stored[d])
        /\ \A i \in DOMAIN stored[d] :
             /\ stored[d][i].chat = d /\ stored[d][i].key = "server" /\ stored[d][i] \in Messages
             /\ Reached(stored[d][i], streams[stored[d][i].send])
    BY <2>2 DEF ChatInv, StoredInv
  <2> QED BY <1>1, <2>1, <2>3
<1>12. AnswerInv'
  BY <1>1 DEF ChatInv, AnswerInv
<1>13. WireInv'
  <2> SUFFICES ASSUME NEW t \in Sends PROVE IsWire(t, streams[t])'
    BY DEF WireInv
  <2>1. CASE t = s
    BY <1>1, <1>9, <2>1 DEF IsWire
  <2>2. CASE t # s
    BY <1>1, <1>9, <2>2 DEF ChatInv, WireInv, IsWire
  <2> QED BY <2>1, <2>2
<1>14. ReadInv'
  BY <1>1, <1>8, <1>9 DEF ReadInv, Ended
<1>15. ShownInv'
  <2> DEFINE IsShown(m) == /\ streams'[m.send].pc # "new"
                           /\ m.key = "server" => m \in Elements(stored[m.chat])
                           /\ m.send = s =>
                                /\ m.role # "error" /\ m.chat = c
                                /\ m.role = "assistant" => m.text = 0
  <2> SUFFICES ASSUME NEW i \in DOMAIN sh PROVE IsShown(sh[i])
    <3>1. /\ Once(chat'.shown) /\ chat'.streaming /\ chat'.send = s /\ chat'.chat = c
          /\ OnWire(streams'[chat'.send]) = 0 /\ streams'[chat'.send].tokens = 0
      BY <1>7, <1>8, <1>9 DEF OnWire, Ended
    <3>2. \A m0 \in Messages : m0.text \in Int
      BY DEF Messages
    <3>3. \A i0 \in DOMAIN sh : sh[i0] \in Messages
      BY <1>4
    <3>4. \A i0 \in DOMAIN sh : IsShown(sh[i0])
      OBVIOUS
    <3> SUFFICES ASSUME NEW k \in DOMAIN chat'.shown
                 PROVE  LET n == chat'.shown[k]
                        IN  /\ streams'[n.send].pc # "new"
                            /\ n.key = "server" => n \in Elements(stored'[n.chat])
                            /\ n.send = s =>
                                 /\ n.role # "error" /\ n.chat = c
                                 /\ n.role = "assistant" => n.text + 0 = 0
      BY <3>1 DEF ShownInv, IsBubble
    <3>5. k \in DOMAIN sh /\ chat'.shown[k] = sh[k] /\ stored' = stored
      BY <1>1, <1>8
    <3>6. IsShown(sh[k])
      BY <3>4, <3>5
    <3> DEFINE n == sh[k]
    <3> HIDE DEF sh
    <3>7. /\ streams'[n.send].pc # "new"
          /\ n.key = "server" => n \in Elements(stored[n.chat])
          /\ n.send = s => /\ n.role # "error" /\ n.chat = c
                           /\ n.role = "assistant" => n.text = 0
      BY <3>6
    <3>8. n.text = 0 => n.text + 0 = 0
      OBVIOUS
    <3>9. /\ streams'[n.send].pc # "new"
          /\ n.key = "server" => n \in Elements(stored'[n.chat])
          /\ n.send = s => /\ n.role # "error" /\ n.chat = c
                           /\ n.role = "assistant" => n.text + 0 = 0
      BY <3>5, <3>7, <3>8
    <3> QED BY <3>5, <3>9
  <2> DEFINE m == sh[i]
  <2>1. CASE m = u \/ m = a
    BY <1>2, <1>9, <2>1
  <2>2. CASE i \in DOMAIN chat.shown /\ m = chat.shown[i]
    <3>1. m \in Messages
      BY <1>1, <2>2
    <3> QED BY <1>6, <1>9, <2>2, <3>1 DEF ChatInv, ShownInv, Messages
  <2> QED BY <1>5, <2>1, <2>2
<1> QED BY <1>10, <1>11, <1>12, <1>13, <1>14, <1>15 DEF ChatInv

LEMMA SeqMapped ==
  ASSUME NEW S, NEW list \in Seq(S), NEW new, new = [i \in DOMAIN list |-> new[i]],
         \A i \in DOMAIN list : new[i] \in S
  PROVE  new \in Seq(S)
<1>1. DOMAIN list = 1 .. Len(list) /\ Len(list) \in Nat
  OBVIOUS
<1>2. new \in [1 .. Len(list) -> S]
  BY <1>1
<1> QED BY <1>1, <1>2

LEMMA OnceMapped ==
  ASSUME NEW list, NEW new, Once(list), DOMAIN new = DOMAIN list,
         \A i \in DOMAIN list : new[i].role = list[i].role /\ new[i].send = list[i].send
  PROVE  Once(new)
BY DEF Once, Same

\* Reading the head of the wire leaves the rest of it.
LEMMA ReadLeaves ==
  ASSUME ChatInv, NEW s \in Sends, streams[s].wire # <<>>,
         streams' = [streams EXCEPT ![s].wire = Tail(@)], UNCHANGED stored
  PROVE  /\ streams' \in [Sends -> Streams] /\ Goes(s, streams[s].pc, Tail(streams[s].wire), streams[s].tokens)
         /\ \A t \in Sends : t # s => streams'[t] = streams[t]
         /\ WireInv' /\ StoredInv'
<1> DEFINE st == streams[s]
<1>1. streams \in [Sends -> Streams] /\ st \in Streams /\ st.wire \in Seq(Events) /\ IsWire(s, st)
  BY DEF ChatInv, Shape, Streams, WireInv
<1>2. /\ Tail(st.wire) \in Seq(Events) /\ Len(Tail(st.wire)) = Len(st.wire) - 1
      /\ \A i \in DOMAIN Tail(st.wire) : i + 1 \in DOMAIN st.wire /\ Tail(st.wire)[i] = st.wire[i + 1]
      /\ DOMAIN Tail(st.wire) \subseteq Int /\ Len(st.wire) \in Int
  BY <1>1
<1>3. /\ streams' \in [Sends -> Streams] /\ Goes(s, st.pc, Tail(st.wire), st.tokens)
      /\ \A t \in Sends : t # s => streams'[t] = streams[t]
  BY <1>1, <1>2 DEF Goes, Streams
<1>4. WireInv'
  <2> SUFFICES ASSUME NEW t \in Sends PROVE IsWire(t, streams[t])'
    BY DEF WireInv
  <2>1. CASE t # s
    BY <1>3, <2>1 DEF ChatInv, WireInv, IsWire
  <2>2. CASE t = s
    <3>1. st.pc \notin {"new", "sent"}
      BY <1>1 DEF IsWire
    <3> QED BY <1>1, <1>2, <1>3, <2>2, <3>1 DEF IsWire, Goes
  <2> QED BY <2>1, <2>2
<1>5. StoredInv'
  <2>1. \A n \in Messages : Reached(n, streams[n.send]) => Reached(n, streams'[n.send])
    BY <1>3 DEF Messages, Reached, Goes
  <2>2. stored \in [Chats -> Seq(Messages)]
    BY DEF ChatInv, Shape
  <2> SUFFICES ASSUME NEW d \in Chats
               PROVE  /\ Once(stored'[d])
                      /\ \A i \in DOMAIN stored'[d] :
                           /\ stored'[d][i].chat = d /\ stored'[d][i].key = "server"
                           /\ Reached(stored'[d][i], streams'[stored'[d][i].send])
    BY DEF StoredInv, Reached
  <2>3. /\ Once(stored[d])
        /\ \A i \in DOMAIN stored[d] :
             /\ stored[d][i].chat = d /\ stored[d][i].key = "server" /\ stored[d][i] \in Messages
             /\ Reached(stored[d][i], streams[stored[d][i].send])
    BY <2>2 DEF ChatInv, StoredInv
  <2> QED BY <2>1, <2>3
<1> QED BY <1>3, <1>4, <1>5

\* The list that is shown, after an event that ends the stream.
LEMMA EndKeeps ==
  ASSUME ChatInv, NEW s \in Sends, streams[s].pc # "new", streams[s].wire # <<>>,
         streams' = [streams EXCEPT ![s].wire = Tail(@)], UNCHANGED <<stored, loads>>,
         NEW sh \in Seq(Messages), chat' = [chat EXCEPT !.shown = sh, !.streaming = FALSE], Once(sh),
         \A i \in DOMAIN sh : /\ streams[sh[i].send].pc # "new"
                              /\ sh[i].key = "server" => sh[i] \in Elements(stored[sh[i].chat])
  PROVE  ChatInv'
<1>1. /\ streams' \in [Sends -> Streams] /\ \A t \in Sends : streams'[t].pc = streams[t].pc
      /\ WireInv' /\ StoredInv'
  BY ReadLeaves DEF Goes
<1>2. chat' \in ChatType /\ chat'.shown = sh /\ chat'.streaming = FALSE
  BY DEF ChatInv, Shape, ChatType
<1>3. Shape' /\ AnswerInv'
  BY <1>1, <1>2 DEF ChatInv, Shape, AnswerInv
<1>4. ReadInv'
  BY <1>2 DEF ReadInv
<1>5. ShownInv'
  <2>1. \A i \in DOMAIN sh : sh[i].send \in Sends
    <3>1. \A i \in DOMAIN sh : sh[i] \in Messages
      OBVIOUS
    <3> QED BY <3>1 DEF Messages
  <2> SUFFICES ASSUME NEW i \in DOMAIN chat'.shown
               PROVE  /\ streams'[chat'.shown[i].send].pc # "new"
                      /\ chat'.shown[i].key = "server" => chat'.shown[i] \in Elements(stored'[chat'.shown[i].chat])
    BY <1>2 DEF ShownInv
  <2> QED BY <1>1, <1>2, <2>1
<1> QED BY <1>1, <1>3, <1>4, <1>5 DEF ChatInv

LEMMA ReadKeeps ==
  ASSUME ChatInv, ReadEvent
  PROVE  ChatInv'
<1> DEFINE s == chat.send
<1> DEFINE st == streams[s]
<1> DEFINE e == st.wire[1]
<1>1. /\ chat.streaming /\ st.wire # <<>> /\ UNCHANGED <<stored, loads>>
      /\ streams' = [streams EXCEPT ![s].wire = Tail(@)]
  BY DEF ReadEvent
<1>2. /\ s \in Sends /\ st.pc # "new" /\ chat.chat = st.chat /\ st.chat \in Chats
      /\ st.pc \in Ended => st.wire[Len(st.wire)] # "token"
  BY <1>1 DEF ChatInv, ReadInv
<1>3. /\ st \in Streams /\ st.wire \in Seq(Events) /\ IsWire(s, st) /\ chat \in ChatType
      /\ chat.shown \in Seq(Messages) /\ st.tokens \in 0 .. MaxTokens
  BY <1>2 DEF ChatInv, Shape, Streams, WireInv, ChatType
<1>4. e \in Events /\ 1 \in DOMAIN st.wire /\ Head(st.wire) = e /\ Len(st.wire) \in Nat \ {0}
  BY <1>1, <1>3
<1>5. \A i \in DOMAIN chat.shown :
        LET m == chat.shown[i]
        IN  /\ m \in Messages /\ streams[m.send].pc # "new"
            /\ m.key = "server" => m \in Elements(stored[m.chat])
            /\ m.send = s => /\ m.role # "error"
                             /\ IsBubble(m) => m.chat = st.chat /\ m.text + OnWire(st) = st.tokens
  BY <1>1, <1>2, <1>3 DEF ChatInv, ShownInv
<1>6. Once(chat.shown)
  BY DEF ChatInv, ShownInv
<1>7. CASE e = "token"
  <2> DEFINE sh == [i \in DOMAIN chat.shown |->
                      IF IsBubble(chat.shown[i]) THEN [chat.shown[i] EXCEPT !.text = @ + 1] ELSE chat.shown[i]]
  <2>1. chat' = [chat EXCEPT !.shown = sh]
    BY <1>4, <1>7 DEF ReadEvent, WithToken, Bubble
  <2>2. st.pc \in Ended => Len(st.wire) > 1
    BY <1>2, <1>4, <1>7
  <2>3. OnWire(st) \in Nat \ {0}
    <3>1. CASE st.pc \in Ended
      <4>1. OnWire(st) = Len(st.wire) - 1
        BY <3>1 DEF OnWire
      <4>2. Len(st.wire) \in Nat /\ Len(st.wire) > 1
        BY <1>4, <2>2, <3>1
      <4> DEFINE n == Len(st.wire)
      <4> HIDE DEF n
      <4>3. n \in Nat /\ n > 1
        BY <4>2 DEF n
      <4>4. n - 1 \in Nat \ {0}
        BY <4>3
      <4> QED BY <4>1, <4>4 DEF n
    <3>2. CASE st.pc \notin Ended
      <4>1. OnWire(st) = Len(st.wire)
        BY <3>2 DEF OnWire
      <4> QED BY <1>4, <4>1
    <3> QED BY <3>1, <3>2
  <2>4. ASSUME NEW i \in DOMAIN chat.shown, IsBubble(chat.shown[i])
        PROVE  /\ [chat.shown[i] EXCEPT !.text = @ + 1] \in Messages
               /\ [chat.shown[i] EXCEPT !.text = @ + 1].text = chat.shown[i].text + 1
    <3>1. chat.shown[i].text + OnWire(st) = st.tokens
      BY <1>5, <2>4 DEF IsBubble
    <3>2. chat.shown[i].text \in 0 .. MaxTokens
      BY <1>5 DEF Messages
    <3>3. chat.shown[i].text + 1 \in 0 .. MaxTokens
      BY <1>3, <2>3, <3>1, <3>2, WebAssumption, SMTT(60) DEF WebAssumption
    <3> QED BY <1>5, <3>3 DEF Messages
  <2>5. sh \in Seq(Messages)
    <3>1. \A i \in DOMAIN chat.shown : sh[i] \in Messages
      BY <1>5, <2>4
    <3>2. sh = [i \in DOMAIN chat.shown |-> sh[i]]
      OBVIOUS
    <3> HIDE DEF sh
    <3> QED BY <1>3, <3>1, <3>2, SeqMapped
  <2>6. ASSUME NEW i \in DOMAIN chat.shown
        PROVE  /\ sh[i].role = chat.shown[i].role /\ sh[i].send = chat.shown[i].send
               /\ sh[i].key = chat.shown[i].key /\ sh[i].chat = chat.shown[i].chat
               /\ sh[i].text = IF IsBubble(chat.shown[i]) THEN chat.shown[i].text + 1 ELSE chat.shown[i].text
               /\ ~IsBubble(chat.shown[i]) => sh[i] = chat.shown[i]
    BY <1>5 DEF Messages
  <2>7. Once(sh)
    BY <1>6, <2>6, OnceMapped
  <2> HIDE DEF sh
  <2>8. /\ chat' \in ChatType /\ chat'.shown = sh /\ chat'.streaming = chat.streaming
        /\ chat'.send = s /\ chat'.chat = chat.chat
    BY <1>3, <2>1, <2>5 DEF ChatType
  <2>9. /\ streams' \in [Sends -> Streams] /\ Goes(s, st.pc, Tail(st.wire), st.tokens)
        /\ \A t \in Sends : t # s => streams'[t] = streams[t]
        /\ WireInv' /\ StoredInv'
    BY <1>1, <1>2, ReadLeaves
  <2>10. /\ Len(Tail(st.wire)) = Len(st.wire) - 1
         /\ Len(st.wire) > 1 => Tail(st.wire)[Len(st.wire) - 1] = st.wire[Len(st.wire)]
    BY <1>1, <1>3
  <2>11. OnWire(streams'[s]) = OnWire(st) - 1
    BY <1>4, <2>9, <2>10 DEF OnWire, Goes
  <2>12. Shape' /\ AnswerInv'
    BY <1>1, <2>8, <2>9 DEF ChatInv, Shape, AnswerInv
  <2>13. ReadInv'
    <3>1. st.pc \in Ended =>
            Tail(st.wire) # <<>> /\ Tail(st.wire)[Len(Tail(st.wire))] # "token"
      <4> SUFFICES ASSUME st.pc \in Ended
                   PROVE  Tail(st.wire) # <<>> /\ Tail(st.wire)[Len(Tail(st.wire))] # "token"
        OBVIOUS
      <4>1. Len(Tail(st.wire)) > 0
        BY <1>4, <2>2, <2>10
      <4>2. Tail(st.wire)[Len(Tail(st.wire))] = st.wire[Len(st.wire)]
        BY <2>2, <2>10
      <4>3. Tail(st.wire) # <<>>
        <5> DEFINE w == Tail(st.wire)
        <5>1. Len(w) > 0
          BY <4>1
        <5> HIDE DEF w
        <5>2. w # <<>>
          BY <5>1
        <5> QED BY <5>2 DEF w
      <4>4. st.wire[Len(st.wire)] # "token"
        BY <1>2
      <4> QED BY <4>2, <4>3, <4>4
    <3> QED BY <1>2, <2>8, <2>9, <3>1 DEF ReadInv, Goes
  <2>14. ShownInv'
    <3>1. chat'.send = s /\ OnWire(streams'[chat'.send]) = OnWire(st) - 1 /\ streams'[chat'.send].tokens = st.tokens
      BY <2>8, <2>9, <2>11 DEF Goes
    <3> SUFFICES ASSUME NEW i \in DOMAIN sh
                 PROVE  /\ streams'[sh[i].send].pc # "new"
                        /\ sh[i].key = "server" => sh[i] \in Elements(stored'[sh[i].chat])
                        /\ sh[i].send = s =>
                             /\ sh[i].role # "error"
                             /\ IsBubble(sh[i]) => /\ sh[i].chat = chat.chat
                                                   /\ sh[i].text + (OnWire(st) - 1) = st.tokens
      BY <2>7, <2>8, <3>1 DEF ShownInv, IsBubble
    <3> DEFINE m == chat.shown[i]
    <3>2. i \in DOMAIN chat.shown
      BY DEF sh
    <3>3. m \in Messages /\ m.text \in Int /\ m.send \in Sends
      BY <1>5, <3>2 DEF Messages
    <3>4. streams'[sh[i].send].pc # "new"
      BY <1>5, <2>6, <2>9, <3>2, <3>3 DEF Goes
    <3>5. sh[i].key = "server" => sh[i] \in Elements(stored'[sh[i].chat])
      BY <1>1, <1>5, <2>6, <3>2 DEF IsBubble
    <3>6. ASSUME sh[i].send = s, IsBubble(sh[i])
          PROVE  sh[i].chat = chat.chat /\ sh[i].text + (OnWire(st) - 1) = st.tokens
      <4>1. IsBubble(m)
        BY <2>6, <3>2, <3>6 DEF IsBubble
      <4>2. m.chat = st.chat /\ m.text + OnWire(st) = st.tokens /\ sh[i].text = m.text + 1
        BY <1>5, <2>6, <3>2, <3>6, <4>1
      <4>3. (m.text + 1) + (OnWire(st) - 1) = m.text + OnWire(st)
        BY <2>3, <3>3
      <4> QED BY <1>2, <2>6, <3>2, <4>2, <4>3
    <3> QED BY <1>5, <2>6, <3>2, <3>4, <3>5, <3>6
  <2> QED BY <2>9, <2>12, <2>13, <2>14 DEF ChatInv
<1>8. CASE e = "done"
  <2> DEFINE sh == [i \in DOMAIN chat.shown |->
                      IF IsBubble(chat.shown[i]) THEN [chat.shown[i] EXCEPT !.key = "server"] ELSE chat.shown[i]]
  <2>1. chat' = [chat EXCEPT !.shown = sh, !.streaming = FALSE]
    BY <1>4, <1>8 DEF ReadEvent, WithServerId, Bubble, StreamingAfter
  <2>2. /\ Len(st.wire) = 1 /\ st.pc \in Ended
        /\ Message(st.chat, "assistant", s, "server", st.tokens) \in Elements(stored[st.chat])
    BY <1>3, <1>4, <1>8 DEF IsWire
  <2>3. ASSUME NEW i \in DOMAIN chat.shown, IsBubble(chat.shown[i])
        PROVE  [chat.shown[i] EXCEPT !.key = "server"] = Message(st.chat, "assistant", s, "server", st.tokens)
    <3>1. OnWire(st) = 0
      BY <2>2 DEF OnWire
    <3>2. chat.shown[i] \in Messages /\ chat.shown[i].chat = st.chat /\ chat.shown[i].text + 0 = st.tokens
      BY <1>5, <2>3, <3>1 DEF IsBubble
    <3>3. chat.shown[i].text = st.tokens
      BY <3>2 DEF Messages
    <3> QED BY <2>3, <3>2, <3>3 DEF Messages, IsBubble, Message
  <2>4. Message(st.chat, "assistant", s, "server", st.tokens) \in Messages
    BY <1>2, <1>3, WebAssumption DEF Message, Messages, Roles, WebAssumption
  <2>5. \A i \in DOMAIN chat.shown :
          IF IsBubble(chat.shown[i]) THEN sh[i] = Message(st.chat, "assistant", s, "server", st.tokens)
          ELSE sh[i] = chat.shown[i]
    BY <2>3
  <2>6. sh \in Seq(Messages) /\ DOMAIN sh = DOMAIN chat.shown
    <3>1. \A i \in DOMAIN chat.shown : sh[i] \in Messages
      BY <1>5, <2>4, <2>5
    <3>2. sh = [i \in DOMAIN chat.shown |-> sh[i]]
      OBVIOUS
    <3> HIDE DEF sh
    <3> QED BY <1>3, <3>1, <3>2, SeqMapped
  <2>7. \A i \in DOMAIN chat.shown : sh[i].role = chat.shown[i].role /\ sh[i].send = chat.shown[i].send
    BY <2>5 DEF Message, IsBubble
  <2> HIDE DEF sh
  <2>8. Once(sh)
    BY <1>6, <2>6, <2>7, OnceMapped
  <2>9. \A i \in DOMAIN sh : /\ streams[sh[i].send].pc # "new"
                             /\ sh[i].key = "server" => sh[i] \in Elements(stored[sh[i].chat])
    BY <1>5, <2>2, <2>5, <2>6, <2>7 DEF Message
  <2> QED BY <1>1, <1>2, <2>1, <2>6, <2>8, <2>9, EndKeeps
<1>9. CASE e = "error" \/ (e \notin {"token", "done", "error"} /\ chat' = [chat EXCEPT !.shown = chat.shown, !.streaming = FALSE])
  <2>1. chat' = [chat EXCEPT !.shown = chat.shown, !.streaming = FALSE]
    BY <1>3, <1>4, <1>9 DEF ReadEvent, StreamingAfter, ChatType
  <2> QED BY <1>1, <1>2, <1>3, <1>5, <1>6, <2>1, EndKeeps
<1>10. CASE /\ e \notin {"token", "done", "error"}
            /\ chat' = [chat EXCEPT !.shown = Append(chat.shown, ErrorMessage), !.streaming = FALSE]
  <2>1. /\ ErrorMessage \in Messages /\ ErrorMessage.send = s /\ ErrorMessage.role = "error"
        /\ ErrorMessage.key = "client"
    BY <1>2, WebAssumption DEF ErrorMessage, Message, Messages, Roles, WebAssumption
  <2>2. Append(chat.shown, ErrorMessage) \in Seq(Messages)
    BY <1>3, <2>1
  <2>3. \A i \in DOMAIN chat.shown : ~Same(chat.shown[i], ErrorMessage) /\ ~Same(ErrorMessage, chat.shown[i])
    BY <1>5, <2>1 DEF Same
  <2>4. Once(Append(chat.shown, ErrorMessage))
    BY <1>3, <1>6, <2>1, <2>3, OnceAppend
  <2>5. \A i \in DOMAIN Append(chat.shown, ErrorMessage) :
          \/ i \in DOMAIN chat.shown /\ Append(chat.shown, ErrorMessage)[i] = chat.shown[i]
          \/ Append(chat.shown, ErrorMessage)[i] = ErrorMessage
    BY <1>3, <2>1
  <2>6. \A i \in DOMAIN Append(chat.shown, ErrorMessage) :
          LET m == Append(chat.shown, ErrorMessage)[i]
          IN  streams[m.send].pc # "new" /\ (m.key = "server" => m \in Elements(stored[m.chat]))
    BY <1>2, <1>5, <2>1, <2>5
  <2> QED BY <1>1, <1>2, <1>10, <2>2, <2>4, <2>6, EndKeeps
<1> QED
  <2>1. e \notin {"token", "done", "error"} =>
          \/ chat' = [chat EXCEPT !.shown = chat.shown, !.streaming = FALSE]
          \/ chat' = [chat EXCEPT !.shown = Append(chat.shown, ErrorMessage), !.streaming = FALSE]
    BY <1>4 DEF ReadEvent, StreamingAfter
  <2> QED BY <1>7, <1>8, <1>9, <1>10, <2>1

LEMMA NextChatInv == ChatInv /\ [Next]_vars => ChatInv'
<1> SUFFICES ASSUME ChatInv, [Next]_vars PROVE ChatInv'
  OBVIOUS
<1>1. CASE UNCHANGED chatVars
  BY <1>1 DEF chatVars, ChatInv, Shape, StoredInv, AnswerInv, WireInv, IsWire, ReadInv, ShownInv, IsBubble
<1>2. CASE \/ \E r \in Runs \cup {None} : SetRunId(r)
           \/ HandleDagStartStop \/ HandleDagFetchOnce \/ Tick
           \/ \E c \in calls : Respond(c)
           \/ UNCHANGED vars
  <2>1. UNCHANGED chatVars
    BY <1>2, Zenon DEF SetRunId, HandleDagStartStop, HandleDagFetchOnce, Tick, Respond, vars, chatVars
  <2> QED BY <1>1, <2>1
<1>3. CASE \E c \in Chats : SelectChat(c)
  BY <1>3, SelectKeeps
<1>4. CASE \E l \in loads : ServeMessages(l) \/ ShowMessages(l) \/ LoadFails(l)
  BY <1>4, ServeKeeps, ShowKeeps, FailKeeps
<1>5. CASE \E s \in Sends : HandleSendMessage(s) \/ Server(s)
  BY <1>5, SendKeeps, ServerKeeps
<1>6. CASE ReadEvent
  BY <1>6, ReadKeeps
<1> QED BY <1>2, <1>3, <1>4, <1>5, <1>6 DEF Next

LEMMA InitChatInv == Init => ChatInv
<1> SUFFICES ASSUME Init PROVE ChatInv
  OBVIOUS
<1>1. /\ chat = [selected |-> None, shown |-> <<>>, streaming |-> FALSE, send |-> 0, chat |-> None]
      /\ loads = {} /\ stored = [c \in Chats |-> <<>>] /\ streams = [s \in Sends |-> NoStream]
  BY DEF Init
<1>2. NoStream \in Streams
  BY WebAssumption DEF NoStream, Streams, WebAssumption
<1>3. Shape
  BY <1>1, <1>2 DEF Shape, ChatType
<1>4. StoredInv /\ AnswerInv /\ ReadInv /\ ShownInv
  BY <1>1 DEF StoredInv, AnswerInv, ReadInv, ShownInv, Once
<1>5. WireInv
  BY <1>1 DEF WireInv, IsWire, NoStream, Started, Ended
<1> QED BY <1>3, <1>4, <1>5 DEF ChatInv

-----------------------------------------------------------------------------
(* The types of the panel.                                                 *)

IsPanel(d) ==
  /\ d.runId \in Runs \cup {None} /\ d.polling \in BOOLEAN /\ d.inFlight \in BOOLEAN
  /\ d.shown \in Runs \cup {None} /\ d.error \in Runs \cup {None, "enter"}

PanelInv ==
  /\ IsPanel(dag) /\ (dag.polling => dag.runId \in Runs)
  /\ \A c \in calls : c.run \in Runs /\ c.kind \in {"poll", "once"}

\* A tick asks for the run of its interval.
LEMMA TickTypes ==
  ASSUME PanelInv, NEW d, DOMAIN d = Fields, IsPanel(d), d.polling => d.runId \in Runs,
         NEW run \in Runs, Ticks(d, run)
  PROVE  PanelInv'
<1>1. CASE d.inFlight
  BY <1>1 DEF Ticks, PanelInv, IsPanel
<1>2. CASE ~d.inFlight
  <2>1. dag' = [d EXCEPT !.inFlight = TRUE] /\ calls' = calls \cup {Call(run, "poll")}
    BY <1>2 DEF Ticks
  <2>2. Call(run, "poll").run = run /\ Call(run, "poll").kind = "poll"
    BY DEF Call
  <2>3. IsPanel(dag') /\ dag'.polling = d.polling /\ dag'.runId = d.runId
    BY <2>1 DEF IsPanel, Fields
  <2> QED BY <2>1, <2>2, <2>3 DEF PanelInv, IsPanel
<1> QED BY <1>1, <1>2

LEMMA EffectTypes ==
  ASSUME PanelInv, NEW d, DOMAIN d = Fields, IsPanel(d), Effect(d)
  PROVE  PanelInv'
<1>1. CASE ~d.polling
  BY <1>1 DEF Effect, PanelInv, IsPanel
<1>2. CASE d.polling /\ d.runId = None
  <2>1. dag' = [d EXCEPT !.polling = FALSE, !.error = "enter"] /\ calls' = calls
    BY <1>2 DEF Effect
  <2> QED BY <2>1 DEF PanelInv, IsPanel, Fields
<1>3. CASE d.polling /\ d.runId # None
  <2>1. Ticks(d, d.runId) /\ d.runId \in Runs
    BY <1>3 DEF Effect, IsPanel
  <2> QED BY <2>1, TickTypes
<1> QED BY <1>1, <1>2, <1>3

LEMMA NextPanelInv == IInv /\ PanelInv /\ [Next]_vars => PanelInv'
<1> SUFFICES ASSUME IInv, PanelInv, [Next]_vars PROVE PanelInv'
  OBVIOUS
<1>0. DOMAIN dag = Fields /\ timers = IntervalOf(dag) /\ IsPanel(dag)
  BY DEF IInv, PanelInv
<1>1. CASE \E r \in Runs \cup {None} : SetRunId(r)
  <2>1. PICK r \in Runs \cup {None} : Effect([dag EXCEPT !.runId = r])
    BY <1>1 DEF SetRunId
  <2>2. DOMAIN [dag EXCEPT !.runId = r] = Fields /\ IsPanel([dag EXCEPT !.runId = r])
    BY <1>0 DEF Fields, IsPanel
  <2> QED BY <2>1, <2>2, EffectTypes
<1>2. CASE HandleDagStartStop
  <2>1. CASE dag.polling
    <3>1. Effect([dag EXCEPT !.polling = FALSE])
      BY <1>2, <2>1 DEF HandleDagStartStop
    <3>2. DOMAIN [dag EXCEPT !.polling = FALSE] = Fields /\ IsPanel([dag EXCEPT !.polling = FALSE])
      BY <1>0 DEF Fields, IsPanel
    <3> QED BY <3>1, <3>2, EffectTypes
  <2>2. CASE ~dag.polling /\ dag.runId = None
    BY <1>0, <1>2, <2>2 DEF HandleDagStartStop, PanelInv, IsPanel, Fields
  <2>3. CASE ~dag.polling /\ dag.runId # None
    <3> DEFINE d == [dag EXCEPT !.shown = None, !.error = None, !.polling = TRUE]
    <3>1. Effect(d)
      BY <1>2, <2>3 DEF HandleDagStartStop
    <3>2. DOMAIN d = Fields /\ IsPanel(d)
      BY <1>0 DEF Fields, IsPanel
    <3> HIDE DEF d
    <3> QED BY <3>1, <3>2, EffectTypes
  <2> QED BY <2>1, <2>2, <2>3
<1>3. CASE HandleDagFetchOnce
  <2>1. /\ dag' = [dag EXCEPT !.shown = None, !.inFlight = TRUE] /\ dag.runId \in Runs
        /\ calls' = calls \cup {Call(dag.runId, "once")}
    BY <1>0, <1>3 DEF HandleDagFetchOnce, IsPanel
  <2>2. Call(dag.runId, "once").run = dag.runId /\ Call(dag.runId, "once").kind = "once"
    BY DEF Call
  <2>3. IsPanel(dag') /\ dag'.runId = dag.runId
    BY <1>0, <2>1 DEF IsPanel, Fields
  <2> QED BY <2>1, <2>2, <2>3 DEF PanelInv, IsPanel
<1>4. CASE Tick
  <2>1. PICK run \in timers : Ticks(dag, run)
    BY <1>4 DEF Tick
  <2>2. run \in Runs
    BY <1>0 DEF IntervalOf, PanelInv
  <2> QED BY <1>0, <2>1, <2>2, TickTypes DEF PanelInv
<1>5. CASE \E c \in calls : Respond(c)
  <2>1. PICK c \in calls : Respond(c)
    BY <1>5
  <2>2. c.run \in Runs /\ calls' \subseteq calls
    BY <2>1 DEF PanelInv, Respond
  <2>3. IsPanel(dag') /\ dag'.polling = dag.polling /\ dag'.runId = dag.runId
    BY <1>0, <2>1, <2>2 DEF Respond, InFlightAfter, IsPanel, Fields
  <2> QED BY <2>2, <2>3 DEF PanelInv, IsPanel
<1>6. CASE UNCHANGED panelVars
  BY <1>6 DEF panelVars, PanelInv, IsPanel
<1>7. CASE \/ \E c \in Chats : SelectChat(c)
           \/ \E l \in loads : ServeMessages(l) \/ ShowMessages(l) \/ LoadFails(l)
           \/ \E s \in Sends : HandleSendMessage(s) \/ Server(s)
           \/ ReadEvent \/ UNCHANGED vars
  <2>1. UNCHANGED panelVars
    BY <1>7, Zenon DEF SelectChat, ServeMessages, ShowMessages, LoadFails, HandleSendMessage, Server,
                       ReadEvent, vars
  <2> QED BY <1>6, <2>1
<1> QED BY <1>1, <1>2, <1>3, <1>4, <1>5, <1>7 DEF Next

LEMMA ChatTypes == ChatInv /\ IInv /\ PanelInv => TypeOK
<1> SUFFICES ASSUME ChatInv, IInv, PanelInv PROVE TypeOK
  OBVIOUS
<1>1. /\ dag.runId \in Runs \cup {None} /\ {dag.polling, dag.inFlight} \subseteq BOOLEAN
      /\ dag.shown \in Runs \cup {None} /\ dag.error \in Runs \cup {None, "enter"}
      /\ \A c \in calls : c.run \in Runs /\ c.kind \in {"poll", "once"}
  BY DEF PanelInv, IsPanel
<1>2. timers \subseteq Runs
  BY DEF PanelInv, IInv, IntervalOf
<1>3. /\ chat.selected \in Chats \cup {None} /\ chat.streaming \in BOOLEAN
      /\ \A l \in loads : l.chat \in Chats
  BY DEF ChatInv, Shape, ChatType, IsLoad
<1>4. chat.streaming => chat.chat = streams[chat.send].chat
  BY DEF ChatInv, ReadInv
<1>5. \A m \in Elements(chat.shown) : m.chat \in Chats /\ m.text \in 0 .. MaxTokens
  <2>1. \A i \in DOMAIN chat.shown : chat.shown[i] \in Messages
    BY DEF ChatInv, Shape, ChatType
  <2> QED BY <2>1 DEF Elements, Messages
<1> QED BY <1>1, <1>2, <1>3, <1>4, <1>5 DEF TypeOK

LEMMA ChatIsTold == ChatInv => MessagesAreTrue
<1> SUFFICES ASSUME ChatInv PROVE MessagesAreTrue
  OBVIOUS
<1>1. ShownOnce
  BY DEF ChatInv, ShownInv, Once, Same, ShownOnce
<1>2. ServerIdIsTrue
  BY DEF ChatInv, ShownInv, ServerIdIsTrue, Elements
<1> QED BY <1>1, <1>2 DEF MessagesAreTrue

\* Whatever is selected, loaded, sent and polled, in whatever order, the panels hold runs
\* and chats of the user, an interval asks for a run, and a stream is read for the chat
\* that it was sent in.
THEOREM TypeCorrect == Spec => []TypeOK
<1>1. Init => IInv /\ PanelInv
  BY DEF Init, IInv, IntervalOf, Fields, PanelInv, IsPanel
<1> QED BY <1>1, InitChatInv, NextIInv, NextPanelInv, NextChatInv, ChatTypes, PTL DEF Spec

\* Whatever is loaded while replies stream, whichever chat is selected meanwhile and however
\* a stream ends - done, with an error and an apology beside an answer that was stored, lost
\* or hung, its inserts failed with or without their rows - no message is shown twice and
\* what is shown under an id of the server is what the server stores under it, with all of
\* its tokens.
THEOREM MessagesTrue == Spec => []MessagesAreTrue
BY InitChatInv, NextChatInv, ChatIsTold, PTL DEF Spec

=============================================================================
