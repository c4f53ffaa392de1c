--------------------------- MODULE DirectChatProofs ---------------------------
(***************************************************************************)
(* Theorems about DirectChat, for every set of requests, every length of   *)
(* the history, of an answer and of a batch, and any number of faults.     *)
(***************************************************************************)
EXTENDS DirectChat, TLAPS

(***************************************************************************)
(* The inductive invariant.  Where a handler is says what it has logged    *)
(* and stored so far; once it has left the normal course, only what it     *)
(* left behind is known.                                                   *)
(***************************************************************************)
\* The event of the normal course that comes next.
Due == [start |-> 1, inserted |-> 1, created |-> 2, read |-> 2, requested |-> 3, answered |-> 3,
        counted |-> 4, stored |-> 4, completed |-> 5, replied |-> 5]

OnCourse == DOMAIN Due
Wrong    == {"caught", "recorded", "apologised", "escaped"}

Has(r, t) == Logged(r, t, DOMAIN log)

Rows   == [run : Request, type : Types, count : 0 .. MaxTokens]
Texts  == [by : Request \cup {"earlier"}, role : {"user", "assistant", "error"}, text : 0 .. MaxTokens]
Frames == {"token", "done", "error"}

Shape ==
  /\ messages \in Seq(Texts) /\ log \in Seq(Rows) /\ pc \in [Request -> Steps]
  /\ prompt \in [Request -> Seq(Texts)] /\ \A r \in Request : Range(prompt[r]) \subseteq Range(messages)
  /\ tokens \in [Request -> 0 .. MaxTokens] /\ frames \in [Request -> Seq(Frames)]
  /\ faults \in 0 .. MaxFaults

CourseAt(r) ==
  /\ pc[r] \in OnCourse => \A k \in 1 .. 4 : Has(r, Course(r)[k]) <=> k < Due[pc[r]]
  /\ pc[r] \in OnCourse \cup {"caught"} => ~Has(r, "RUNTIME_ERROR")
  /\ pc[r] \in {"recorded", "apologised"} => Has(r, "RUNTIME_ERROR")

\* Nothing of r follows the event that is last of a normal course.
EndsCompleted(r) ==
  \E i \in DOMAIN log : /\ log[i].run = r /\ log[i].type = "RUN_COMPLETED"
                        /\ \A j \in i + 1 .. Len(log) : log[j].run # r

LastAt(r) == pc[r] \in {"completed", "replied"} => EndsCompleted(r)

AnswerAt(r) ==
  /\ pc[r] \in OnCourse => (RowsOf(r, "assistant") # {} <=> pc[r] \in {"stored", "completed", "replied"})
  /\ \A i, j \in RowsOf(r, "assistant") : i = j
  /\ \A i \in RowsOf(r, "assistant") : messages[i] = Answer(r) /\ Has(r, Course(r)[3])
  /\ RowsOf(r, "assistant") # {} /\ pc[r] \in Wrong => faults > 0

SorryAt(r) ==
  /\ pc[r] \notin {"apologised", "escaped"} => RowsOf(r, "error") = {}
  /\ \A i, j \in RowsOf(r, "error") : i = j
  /\ RowsOf(r, "error") # {} => Has(r, "RUNTIME_ERROR")

FrameAt(r) ==
  /\ "done" \in Range(frames[r]) => pc[r] = "replied"
  /\ r \in Streaming /\ pc[r] \in OnCourse =>
       Len(frames[r]) = IF pc[r] = "replied" THEN tokens[r] + 1 ELSE tokens[r]

IsAt(r) == CourseAt(r) /\ LastAt(r) /\ AnswerAt(r) /\ SorryAt(r) /\ FrameAt(r)

IInv == Shape /\ LogShape /\ \A r \in Request : IsAt(r)

-----------------------------------------------------------------------------
(* What an append changes.                                                 *)

LEMMA CourseIs ==
  ASSUME NEW r \in Request
  PROVE  /\ Course(r)[1] = EventAt(r, "inserted") /\ Course(r)[1] = "RUN_CREATED"
         /\ Course(r)[2] = EventAt(r, "read") /\ Course(r)[2] \in {"LLM_REQUESTED", "LLM_STREAM_STARTED"}
         /\ Course(r)[3] = EventAt(r, "answered") /\ Course(r)[3] \in {"LLM_COMPLETED", "LLM_STREAM_COMPLETED"}
         /\ Course(r)[4] = EventAt(r, "stored") /\ Course(r)[4] = "RUN_COMPLETED"
<1>1. \A i \in 1 .. 4 : Course(r)[i] = EventAt(r, <<"inserted", "read", "answered", "stored">>[i])
  BY DEF Course
<1>2. 1 \in 1 .. 4 /\ 2 \in 1 .. 4 /\ 3 \in 1 .. 4 /\ 4 \in 1 .. 4
  OBVIOUS
<1>3. /\ Course(r)[1] = EventAt(r, "inserted") /\ Course(r)[2] = EventAt(r, "read")
      /\ Course(r)[3] = EventAt(r, "answered") /\ Course(r)[4] = EventAt(r, "stored")
  BY <1>1, <1>2
<1> QED BY <1>3 DEF EventAt

LEMMA LogGrows ==
  ASSUME log \in Seq(Rows), NEW e \in Rows, log' = Append(log, e)
  PROVE  /\ log' \in Seq(Rows) /\ Len(log') = Len(log) + 1 /\ Len(log) \in Nat
         /\ DOMAIN log = 1 .. Len(log) /\ DOMAIN log' = 1 .. Len(log) + 1
         /\ \A i \in DOMAIN log : log'[i] = log[i]
         /\ log'[Len(log) + 1] = e
OBVIOUS

LEMMA HasMore ==
  ASSUME log \in Seq(Rows), NEW e \in Rows, log' = Append(log, e), NEW r, NEW t
  PROVE  Has(r, t)' <=> Has(r, t) \/ (e.run = r /\ e.type = t)
<1>1. Has(r, t) => Has(r, t)'
  BY LogGrows DEF Has, Logged
<1>2. e.run = r /\ e.type = t => Has(r, t)'
  <2>1. Len(log) + 1 \in DOMAIN log' /\ log'[Len(log) + 1] = e
    BY LogGrows
  <2> QED BY <2>1 DEF Has, Logged
<1>3. Has(r, t)' => Has(r, t) \/ (e.run = r /\ e.type = t)
  <2>1. \A i \in DOMAIN log' : i \in DOMAIN log \/ log'[i] = e
    BY LogGrows
  <2> QED BY <2>1, LogGrows DEF Has, Logged
<1> QED BY <1>1, <1>2, <1>3

\* The conditions of LogShape on the event at one place of the log.
GoodAt(i) ==
  LET r == log[i].run
      t == log[i].type
      before == 1 .. i - 1
  IN  /\ ~Logged(r, "RUNTIME_ERROR", before)
      /\ \/ t = "RUNTIME_ERROR"
         \/ t = "LLM_STREAM_TOKEN" /\ Logged(r, Course(r)[2], before) /\ ~Logged(r, Course(r)[3], before)
         \/ \E k \in 1 .. 4 : /\ t = Course(r)[k] /\ ~Logged(r, t, before)
                              /\ k > 1 => Logged(r, Course(r)[k - 1], before)

\* The event may come next.
Allowed(e) ==
  /\ ~Has(e.run, "RUNTIME_ERROR")
  /\ \/ e.type = "RUNTIME_ERROR"
     \/ e.type = "LLM_STREAM_TOKEN" /\ Has(e.run, Course(e.run)[2]) /\ ~Has(e.run, Course(e.run)[3])
     \/ \E k \in 1 .. 4 : /\ e.type = Course(e.run)[k] /\ ~Has(e.run, e.type)
                          /\ k > 1 => Has(e.run, Course(e.run)[k - 1])

LEMMA ShapeKept ==
  ASSUME log \in Seq(Rows), LogShape, NEW e \in Rows, log' = Append(log, e), Allowed(e)
  PROVE  LogShape'
<1>0. PICK n : n = Len(log) + 1
  OBVIOUS
<1>1. \A i \in DOMAIN log : \A r, t : Logged(r, t, 1 .. i - 1)' <=> Logged(r, t, 1 .. i - 1)
  <2>1. \A i \in DOMAIN log : \A j \in 1 .. i - 1 : j \in DOMAIN log /\ log'[j] = log[j]
    BY LogGrows
  <2> QED BY <2>1 DEF Logged
<1>2. \A i \in DOMAIN log : GoodAt(i)'
  <2>1. \A i \in DOMAIN log : GoodAt(i) /\ log'[i] = log[i]
    BY LogGrows DEF LogShape, GoodAt
  <2> QED BY <1>1, <2>1 DEF GoodAt
<1>3. \A r, t : Logged(r, t, 1 .. n - 1)' <=> Has(r, t)
  <2>1. 1 .. n - 1 = DOMAIN log /\ \A j \in DOMAIN log : log'[j] = log[j]
    BY <1>0, LogGrows
  <2> QED BY <2>1, LogGrows DEF Logged, Has
<1>4. GoodAt(n)'
  <2>1. log'[n] = e
    BY <1>0, LogGrows
  <2> QED BY <1>3, <2>1 DEF GoodAt, Allowed
<1>5. \A i \in DOMAIN log' : i \in DOMAIN log \/ i = n
  BY <1>0, LogGrows
<1>6. \A i \in DOMAIN log' : GoodAt(i)'
  BY <1>2, <1>4, <1>5
<1> QED BY <1>6 DEF LogShape, GoodAt

LEMMA MessagesGrow ==
  ASSUME messages \in Seq(Texts), NEW m \in Texts, messages' = Append(messages, m)
  PROVE  /\ messages' \in Seq(Texts) /\ Len(messages) + 1 \notin DOMAIN messages
         /\ DOMAIN messages' = DOMAIN messages \cup {Len(messages) + 1}
         /\ \A i \in DOMAIN messages : messages'[i] = messages[i]
         /\ messages'[Len(messages) + 1] = m
OBVIOUS

LEMMA RowsGrow ==
  ASSUME messages \in Seq(Texts), NEW m \in Texts, messages' = Append(messages, m), NEW r, NEW role
  PROVE  RowsOf(r, role)' = IF m.by = r /\ m.role = role THEN RowsOf(r, role) \cup {Len(messages) + 1}
                            ELSE RowsOf(r, role)
BY MessagesGrow DEF RowsOf

\* A step of r appends at most one event and one message, both of r.
LogStep(r) == UNCHANGED log \/ \E e \in Rows : e.run = r /\ log' = Append(log, e) /\ Allowed(e)
MsgStep(r) == UNCHANGED messages \/ \E m \in Texts : m.by = r /\ messages' = Append(messages, m)

LEMMA LogStepKeeps ==
  ASSUME Shape, NEW r, NEW q, q # r, LogStep(r)
  PROVE  /\ \A t : Has(q, t)' <=> Has(q, t)
         /\ EndsCompleted(q) => EndsCompleted(q)'
<1>1. CASE UNCHANGED log
  BY <1>1 DEF Has, Logged, EndsCompleted
<1>2. CASE \E e \in Rows : e.run = r /\ log' = Append(log, e)
  <2>1. PICK e \in Rows : e.run = r /\ log' = Append(log, e)
    BY <1>2
  <2>2. \A t : Has(q, t)' <=> Has(q, t)
    BY <2>1, HasMore DEF Shape
  <2>3. EndsCompleted(q) => EndsCompleted(q)'
    <3> SUFFICES ASSUME EndsCompleted(q) PROVE EndsCompleted(q)'
      OBVIOUS
    <3>1. PICK i \in DOMAIN log : /\ log[i].run = q /\ log[i].type = "RUN_COMPLETED"
                                  /\ \A j \in i + 1 .. Len(log) : log[j].run # q
      BY DEF EndsCompleted
    <3>2. log \in Seq(Rows)
      BY DEF Shape
    <3>3. i \in DOMAIN log' /\ log'[i] = log[i]
      BY <2>1, <3>2, LogGrows
    <3>4. \A j \in i + 1 .. Len(log') : log'[j].run # q
      <4> SUFFICES ASSUME NEW j \in i + 1 .. Len(log') PROVE log'[j].run # q
        OBVIOUS
      <4>1. CASE j = Len(log) + 1
        BY <2>1, <3>2, <4>1, LogGrows
      <4>2. CASE j # Len(log) + 1
        <5>1. j \in i + 1 .. Len(log) /\ j \in DOMAIN log
          BY <2>1, <3>2, <4>2, LogGrows
        <5> QED BY <2>1, <3>1, <3>2, <5>1, LogGrows
      <4> QED BY <4>1, <4>2
    <3> QED BY <3>1, <3>3, <3>4 DEF EndsCompleted
  <2> QED BY <2>2, <2>3
<1> QED BY <1>1, <1>2 DEF LogStep

LEMMA MsgStepKeeps ==
  ASSUME Shape, NEW r, NEW q, q # r, MsgStep(r)
  PROVE  /\ \A role : RowsOf(q, role)' = RowsOf(q, role)
         /\ \A i \in DOMAIN messages : i \in DOMAIN messages' /\ messages'[i] = messages[i]
<1>1. CASE UNCHANGED messages
  BY <1>1 DEF RowsOf
<1>2. CASE \E m \in Texts : m.by = r /\ messages' = Append(messages, m)
  <2>1. PICK m \in Texts : m.by = r /\ messages' = Append(messages, m)
    BY <1>2
  <2>2. \A role : RowsOf(q, role)' = RowsOf(q, role)
    BY <2>1, RowsGrow DEF Shape
  <2> QED BY <2>1, <2>2, MessagesGrow DEF Shape
<1> QED BY <1>1, <1>2 DEF MsgStep

LEMMA OthersKeep ==
  ASSUME Shape, NEW r \in Request, NEW q \in Request, q # r, IsAt(q), LogStep(r), MsgStep(r),
         pc'[q] = pc[q], tokens'[q] = tokens[q], frames'[q] = frames[q], faults' \in {faults, faults + 1}
  PROVE  IsAt(q)'
<1>1. CourseAt(q)' /\ LastAt(q)'
  BY LogStepKeeps DEF IsAt, CourseAt, LastAt
<1>2. \A role : RowsOf(q, role)' = RowsOf(q, role)
  BY MsgStepKeeps
<1>3. \A role : \A i \in RowsOf(q, role) : messages'[i] = messages[i]
  BY MsgStepKeeps DEF RowsOf
<1>4. faults > 0 => faults' > 0
  BY DEF Shape
<1>5. AnswerAt(q)'
  BY <1>2, <1>3, <1>4, LogStepKeeps, ZenonT(60) DEF IsAt, AnswerAt, Answer, Message
<1>6. SorryAt(q)' /\ FrameAt(q)'
  BY <1>2, LogStepKeeps DEF IsAt, SorryAt, FrameAt
<1> QED BY <1>1, <1>5, <1>6 DEF IsAt

\* What a step leaves of the other handlers.
Only(r) ==
  /\ \A q \in Request \ {r} : pc'[q] = pc[q] /\ tokens'[q] = tokens[q] /\ frames'[q] = frames[q]
  /\ faults' \in {faults, faults + 1}

LEMMA StepIsLocal ==
  ASSUME IInv, NEW r \in Request, Shape', Only(r), LogStep(r), MsgStep(r), IsAt(r)'
  PROVE  IInv'
<1>1. LogShape'
  <2>1. CASE UNCHANGED log
    BY <2>1 DEF IInv, LogShape, Logged
  <2>2. CASE \E e \in Rows : log' = Append(log, e) /\ Allowed(e)
    BY <2>2, ShapeKept DEF IInv, Shape
  <2> QED BY <2>1, <2>2 DEF LogStep
<1>2. \A q \in Request : IsAt(q)'
  BY OthersKeep DEF IInv, Only
<1> QED BY <1>1, <1>2 DEF IInv

\* What is read of the history was in the chat.
LEMMA TurnsAreMessages ==
  ASSUME ChatAssumption, NEW ms \in Seq(Texts)
  PROVE  RecentTurns(ms) \in Seq(Texts) /\ Range(RecentTurns(ms)) \subseteq Range(ms)
<1>1. ASSUME NEW s \in Seq(Texts), NEW a \in Nat \ {0}, NEW b \in Int, b <= Len(s)
      PROVE  SubSeq(s, a, b) \in Seq(Texts) /\ Range(SubSeq(s, a, b)) \subseteq Range(s)
  <2>1. SubSeq(s, a, b) = [i \in 1 .. (1 + b - a) |-> s[i + a - 1]]
    BY <1>1
  <2>2. \A i \in 1 .. (1 + b - a) : i + a - 1 \in DOMAIN s
    BY <1>1
  <2>3. SubSeq(s, a, b) \in Seq(Texts)
    BY <1>1
  <2>4. DOMAIN SubSeq(s, a, b) = 1 .. (1 + b - a)
    BY <2>1
  <2> QED BY <2>1, <2>2, <2>3, <2>4 DEF Range
<1> DEFINE h == SubSeq(ms, 1, IF Len(ms) < HistoryLimit THEN Len(ms) ELSE HistoryLimit)
<1>2. h \in Seq(Texts) /\ Range(h) \subseteq Range(ms)
  BY <1>1 DEF ChatAssumption
<1> HIDE DEF h
<1> DEFINE f == Front(h)
<1>3. f \in Seq(Texts) /\ Range(f) \subseteq Range(h)
  BY <1>1, <1>2 DEF Front
<1> HIDE DEF f
<1>4. LastOf(f, Turns) \in Seq(Texts) /\ Range(LastOf(f, Turns)) \subseteq Range(f)
  BY <1>1, <1>3 DEF LastOf, ChatAssumption
<1>5. RecentTurns(ms) = LastOf(f, Turns)
  BY DEF RecentTurns, h, f
<1> QED BY <1>2, <1>3, <1>4, <1>5

-----------------------------------------------------------------------------
(* The steps of a handler.                                                 *)

LEMMA EventIsRow ==
  ASSUME Shape, NEW r \in Request, NEW step \in {"inserted", "read", "answered", "stored", "caught"}
  PROVE  /\ Event(r, EventAt(r, step), tokens[r]) \in Rows
         /\ Event(r, EventAt(r, step), tokens[r]).run = r
         /\ Event(r, EventAt(r, step), tokens[r]).type = EventAt(r, step)
<1>1. EventAt(r, step) \in Types
  BY DEF EventAt, Types
<1> QED BY <1>1 DEF Event, Rows, Shape

\* The event that a handler is about to append may come next, and is new.
LEMMA EventIsAllowed ==
  ASSUME Shape, NEW r \in Request, CourseAt(r), NEW e \in Rows, e.run = r, e.type = EventAt(r, pc[r]),
         pc[r] \in {"inserted", "read", "answered", "stored", "caught"}
  PROVE  Allowed(e)
<1>1. ~Has(r, "RUNTIME_ERROR")
  BY DEF CourseAt, OnCourse, Due
<1>2. CASE pc[r] = "caught"
  <2>1. e.type = "RUNTIME_ERROR"
    BY <1>2 DEF EventAt
  <2> QED BY <1>1, <2>1 DEF Allowed
<1>3. ASSUME NEW k \in 1 .. 4, pc[r] \in OnCourse, Due[pc[r]] = k, e.type = Course(r)[k]
      PROVE  Allowed(e)
  <2>1. \A i \in 1 .. 4 : Has(r, Course(r)[i]) <=> i < k
    BY <1>3 DEF CourseAt
  <2>2. ~Has(r, e.type)
    BY <1>3, <2>1
  <2>3. k > 1 => Has(r, Course(r)[k - 1])
    BY <2>1
  <2> QED BY <1>1, <1>3, <2>2, <2>3 DEF Allowed
<1>4. CASE pc[r] = "inserted"
  BY <1>3, <1>4, CourseIs DEF OnCourse, Due
<1>5. CASE pc[r] = "read"
  BY <1>3, <1>5, CourseIs DEF OnCourse, Due
<1>6. CASE pc[r] = "answered"
  BY <1>3, <1>6, CourseIs DEF OnCourse, Due
<1>7. CASE pc[r] = "stored"
  BY <1>3, <1>7, CourseIs DEF OnCourse, Due
<1> QED BY <1>2, <1>4, <1>5, <1>6, <1>7

LEMMA StoreUserKeeps ==
  ASSUME IInv, NEW r \in Request, StoreUser(r)
  PROVE  IInv'
<1>1. /\ pc[r] = "start" /\ messages' = Append(messages, User(r)) /\ pc' = [pc EXCEPT ![r] = "inserted"]
      /\ UNCHANGED <<log, prompt, tokens, frames, faults>>
  BY DEF StoreUser, Goes
<1>2. User(r) \in Texts /\ User(r).by = r /\ User(r).role = "user"
  BY ChatAssumption DEF User, Message, Texts, ChatAssumption
<1>3. Shape /\ IsAt(r)
  BY DEF IInv
<1>4. messages' \in Seq(Texts) /\ Range(messages) \subseteq Range(messages')
  BY <1>1, <1>2, <1>3, MessagesGrow DEF Shape, Range
<1>5. Shape'
  BY <1>1, <1>3, <1>4 DEF Shape, Steps, Waiting
<1>6. Only(r) /\ LogStep(r) /\ MsgStep(r)
  BY <1>1, <1>2, <1>3 DEF Only, LogStep, MsgStep, Shape
<1>7. pc'[r] = "inserted" /\ \A t : Has(r, t)' <=> Has(r, t)
  BY <1>1, <1>3 DEF Shape, Has, Logged
<1>8. CourseAt(r)' /\ LastAt(r)' /\ FrameAt(r)'
  BY <1>1, <1>3, <1>7 DEF IsAt, CourseAt, LastAt, FrameAt, OnCourse, Due
<1>9. \A role \in {"assistant", "error"} : RowsOf(r, role)' = RowsOf(r, role)
  BY <1>1, <1>2, <1>3, RowsGrow DEF Shape
<1>10. AnswerAt(r)' /\ SorryAt(r)'
  BY <1>1, <1>3, <1>7, <1>9 DEF IsAt, AnswerAt, SorryAt, OnCourse, Due, Wrong
<1> QED BY <1>5, <1>6, <1>8, <1>10, StepIsLocal DEF IsAt

\* A step that goes on, or throws, without a write.
Moves(r, step) ==
  \/ /\ step \in OnCourse /\ pc[r] \in OnCourse /\ Due[step] = Due[pc[r]] /\ step # "stored"
     /\ step \in {"completed", "replied"} <=> pc[r] \in {"stored", "completed", "replied"}
     /\ step = "replied" => pc[r] = "completed"
  \/ step = "caught" /\ pc[r] \in OnCourse /\ (faults' > 0 \/ RowsOf(r, "assistant") = {})
  \/ step = "escaped" /\ faults' > 0

LEMMA MoveKeeps ==
  ASSUME IInv, NEW r \in Request, NEW step \in Steps, pc' = [pc EXCEPT ![r] = step],
         UNCHANGED <<messages, log>>, Shape', Only(r),
         Moves(r, step),
         RowsOf(r, "assistant") # {} => tokens'[r] = tokens[r],
         FrameAt(r)'
  PROVE  IInv'
<1>1. Shape /\ IsAt(r) /\ pc'[r] = step
  BY DEF IInv, Shape
<1>2. LogStep(r) /\ MsgStep(r)
  BY DEF LogStep, MsgStep
<1>3. \A t : Has(r, t)' <=> Has(r, t)
  BY DEF Has, Logged
<1>4. \A role : RowsOf(r, role)' = RowsOf(r, role)
  BY DEF RowsOf
<1>5. CourseAt(r)'
  BY <1>1, <1>3 DEF Moves, IsAt, CourseAt, OnCourse, Due
<1>6. LastAt(r)'
  BY <1>1 DEF Moves, IsAt, LastAt, EndsCompleted, OnCourse, Due
<1>7. AnswerAt(r)'
  <2>1. step \in OnCourse => (RowsOf(r, "assistant") # {} <=> step \in {"stored", "completed", "replied"})
    BY <1>1 DEF Moves, IsAt, AnswerAt, OnCourse, Due
  <2>2. \A i \in RowsOf(r, "assistant") : messages'[i] = Answer(r)' /\ Has(r, Course(r)[3])'
    BY <1>1, <1>3 DEF IsAt, AnswerAt, Answer, Message
  <2>3. RowsOf(r, "assistant") # {} /\ step \in Wrong => faults' > 0
    BY DEF Moves, Wrong, OnCourse, Due
  <2> QED BY <1>1, <1>4, <2>1, <2>2, <2>3 DEF IsAt, AnswerAt
<1>8. SorryAt(r)'
  BY <1>1, <1>3, <1>4 DEF Moves, IsAt, SorryAt, OnCourse, Due
<1> QED BY <1>1, <1>2, <1>5, <1>6, <1>7, <1>8, StepIsLocal DEF IsAt

LEMMA ReadKeeps ==
  ASSUME IInv, NEW r \in Request, ReadHistory(r)
  PROVE  IInv'
<1>1. /\ pc[r] = "created" /\ pc' = [pc EXCEPT ![r] = "read"]
      /\ prompt' = [prompt EXCEPT ![r] = RecentTurns(messages)]
      /\ UNCHANGED <<messages, log, tokens, frames, faults>>
  BY DEF ReadHistory, Goes
<1>2. Shape /\ IsAt(r)
  BY DEF IInv
<1>3. RecentTurns(messages) \in Seq(Texts) /\ Range(RecentTurns(messages)) \subseteq Range(messages)
  BY <1>2, ChatAssumption, TurnsAreMessages DEF Shape
<1>4. Shape'
  BY <1>1, <1>2, <1>3 DEF Shape, Steps, Waiting
<1>5. Only(r) /\ FrameAt(r)'
  BY <1>1, <1>2 DEF Only, Shape, IsAt, FrameAt, OnCourse, Due
<1>6. Moves(r, "read") /\ "read" \in Steps
  BY <1>1 DEF Moves, OnCourse, Due, Steps, Waiting
<1> QED BY <1>1, <1>4, <1>5, <1>6, MoveKeeps

LEMMA GenerateKeeps ==
  ASSUME IInv, NEW r \in Request, Generate(r)
  PROVE  IInv'
<1>1. r \in Blocking /\ r \notin Streaming /\ pc[r] = "requested" /\ UNCHANGED <<messages, log, prompt, frames, faults>>
  BY ChatAssumption DEF Generate, ChatAssumption
<1>2. Shape /\ IsAt(r)
  BY DEF IInv
<1>3. RowsOf(r, "assistant") = {}
  BY <1>1, <1>2 DEF IsAt, AnswerAt, OnCourse, Due
<1>4. PICK step \in {"answered", "caught"} : pc' = [pc EXCEPT ![r] = step]
  BY DEF Generate, Generated, Goes
<1>5. /\ tokens' \in [Request -> 0 .. MaxTokens]
      /\ \A q \in Request \ {r} : tokens'[q] = tokens[q]
  BY <1>2 DEF Generate, Generated, Shape
<1>6. Shape'
  BY <1>1, <1>2, <1>4, <1>5 DEF Shape, Steps, Waiting
<1>7. Only(r) /\ FrameAt(r)'
  BY <1>1, <1>2, <1>4, <1>5 DEF Only, Shape, IsAt, FrameAt
<1>8. step \in Steps
  BY DEF Steps, Waiting
<1>9. Moves(r, step)
  BY <1>1, <1>3 DEF Moves, OnCourse, Due
<1> QED BY <1>1, <1>3, <1>4, <1>6, <1>7, <1>8, <1>9, MoveKeeps

LEMMA ReplyKeeps ==
  ASSUME IInv, NEW r \in Request, Reply(r)
  PROVE  IInv'
<1>1. /\ pc[r] = "completed" /\ pc' = [pc EXCEPT ![r] = "replied"]
      /\ frames' = [frames EXCEPT ![r] = Append(@, "done")]
      /\ UNCHANGED <<messages, log, prompt, tokens, faults>>
  BY DEF Reply, Goes, Sends
<1>2. Shape /\ IsAt(r)
  BY DEF IInv
<1>3. frames' \in [Request -> Seq(Frames)] /\ frames'[r] = Append(frames[r], "done") /\ frames[r] \in Seq(Frames)
  BY <1>1, <1>2 DEF Shape, Frames
<1>4. Shape'
  BY <1>1, <1>2, <1>3 DEF Shape, Steps, Ended
<1>5. Only(r)
  BY <1>1, <1>2 DEF Only, Shape
<1>6. pc'[r] = "replied"
  BY <1>1, <1>2 DEF Shape
<1>7. FrameAt(r)'
  <2>1. Len(frames'[r]) = Len(frames[r]) + 1
    BY <1>3
  <2>2. r \in Streaming => Len(frames[r]) = tokens[r]
    BY <1>1, <1>2 DEF IsAt, FrameAt, OnCourse, Due
  <2> QED BY <1>1, <1>6, <2>1, <2>2 DEF FrameAt
<1>8. "replied" \in Steps
  BY DEF Steps, Ended
<1>9. Moves(r, "replied")
  BY <1>1 DEF Moves, OnCourse, Due
<1> QED BY <1>1, <1>4, <1>5, <1>7, <1>8, <1>9, MoveKeeps

\* An append that is done, whether the handler learns of it or not.
LEMMA AppendKeeps ==
  ASSUME IInv, NEW r \in Request, pc[r] \in {"inserted", "read", "answered", "stored", "caught"},
         NEW e, e = Event(r, EventAt(r, pc[r]), tokens[r]), log' = Append(log, e),
         UNCHANGED messages, tokens'[r] = tokens[r], Shape', Only(r), FrameAt(r)',
         NEW step \in Steps, pc' = [pc EXCEPT ![r] = step],
         \/ step = After(pc[r])
         \/ step = "caught" /\ pc[r] \in OnCourse /\ faults' > 0
         \/ step = "escaped" /\ faults' > 0
  PROVE  IInv'
<1>1. Shape /\ IsAt(r) /\ pc'[r] = step /\ log \in Seq(Rows)
  BY DEF IInv, Shape
<1>2. e \in Rows /\ e.run = r /\ e.type = EventAt(r, pc[r])
  BY <1>1, EventIsRow
<1>3. Allowed(e)
  BY <1>1, <1>2, EventIsAllowed DEF IsAt
<1>4. LogStep(r) /\ MsgStep(r)
  BY <1>2, <1>3 DEF LogStep, MsgStep
<1>5. \A t : Has(r, t)' <=> Has(r, t) \/ t = EventAt(r, pc[r])
  BY <1>1, <1>2, HasMore
<1>6. \A role : RowsOf(r, role)' = RowsOf(r, role)
  BY DEF RowsOf
<1>7. CourseAt(r)'
  <2>1. CASE pc[r] = "caught"
    <3>1. EventAt(r, pc[r]) = "RUNTIME_ERROR" /\ step \in {"recorded", "escaped"}
      BY <2>1 DEF EventAt, After, OnCourse, Due
    <3> QED BY <1>1, <1>5, <3>1 DEF CourseAt, OnCourse, Due
  <2>2. ASSUME NEW k \in 1 .. 4, pc[r] \in OnCourse, Due[pc[r]] = k, EventAt(r, pc[r]) = Course(r)[k],
               step \in OnCourse => Due[step] = k + 1, step \notin {"recorded", "apologised"}
        PROVE  CourseAt(r)'
    <3>1. \A i \in 1 .. 4 : Has(r, Course(r)[i]) <=> i < k
      BY <1>1, <2>2 DEF IsAt, CourseAt
    <3>2. \A i \in 1 .. 4 : Course(r)[i] = Course(r)[k] => i = k
      BY CourseIs
    <3>3. \A i \in 1 .. 4 : Has(r, Course(r)[i])' <=> i < k + 1
      BY <1>5, <2>2, <3>1, <3>2
    <3>4. ~Has(r, "RUNTIME_ERROR")'
      <4>1. Course(r)[k] # "RUNTIME_ERROR"
        BY CourseIs
      <4>2. ~Has(r, "RUNTIME_ERROR")
        BY <1>1, <2>2 DEF IsAt, CourseAt
      <4> QED BY <1>5, <2>2, <4>1, <4>2
    <3> QED BY <1>1, <2>2, <3>3, <3>4 DEF CourseAt
  <2>3. CASE pc[r] = "inserted"
    BY <2>2, <2>3, CourseIs DEF After, OnCourse, Due
  <2>4. CASE pc[r] = "read"
    BY <2>2, <2>4, CourseIs DEF After, OnCourse, Due
  <2>5. CASE pc[r] = "answered"
    BY <2>2, <2>5, CourseIs DEF After, OnCourse, Due
  <2>6. CASE pc[r] = "stored"
    BY <2>2, <2>6, CourseIs DEF After, OnCourse, Due
  <2> QED BY <2>1, <2>3, <2>4, <2>5, <2>6
<1>8. LastAt(r)'
  <2> SUFFICES ASSUME step = "completed" \/ step = "replied" PROVE EndsCompleted(r)'
    BY <1>1 DEF LastAt
  <2>1. EventAt(r, pc[r]) = "RUN_COMPLETED"
    BY DEF After, EventAt
  <2>2. PICK n : n = Len(log) + 1
    OBVIOUS
  <2>3. n \in DOMAIN log' /\ log'[n] = e /\ n + 1 .. Len(log') = {}
    BY <1>1, <1>2, <2>2, LogGrows
  <2> QED BY <1>2, <2>1, <2>3 DEF EndsCompleted
<1>9. AnswerAt(r)'
  <2>1. step \in OnCourse => (RowsOf(r, "assistant") # {} <=> step \in {"stored", "completed", "replied"})
    BY <1>1 DEF IsAt, AnswerAt, OnCourse, Due, After
  <2>2. \A i \in RowsOf(r, "assistant") : messages'[i] = Answer(r)' /\ Has(r, Course(r)[3])'
    BY <1>1, <1>5 DEF IsAt, AnswerAt, Answer, Message
  <2>3. RowsOf(r, "assistant") # {} /\ step \in Wrong => faults' > 0
    <3>1. CASE pc[r] = "caught"
      BY <1>1, <3>1 DEF IsAt, AnswerAt, Wrong, Only, Shape
    <3>2. CASE pc[r] # "caught"
      BY <3>2 DEF After, Wrong
    <3> QED BY <3>1, <3>2
  <2> QED BY <1>1, <1>6, <2>1, <2>2, <2>3 DEF IsAt, AnswerAt
<1>10. SorryAt(r)'
  BY <1>1, <1>5, <1>6 DEF IsAt, SorryAt
<1> QED BY <1>1, <1>4, <1>7, <1>8, <1>9, <1>10, StepIsLocal DEF IsAt

LEMMA LogEventKeeps ==
  ASSUME IInv, NEW r \in Request, LogEvent(r)
  PROVE  IInv'
<1>1. /\ pc[r] \in {"inserted", "read", "answered", "stored", "caught"}
      /\ log' = Append(log, Event(r, EventAt(r, pc[r]), tokens[r])) /\ pc' = [pc EXCEPT ![r] = After(pc[r])]
      /\ UNCHANGED <<messages, prompt, tokens, faults>>
  BY DEF LogEvent, Goes
<1>2. Shape /\ IsAt(r)
  BY DEF IInv
<1>3. After(pc[r]) \in {"created", "requested", "counted", "completed", "recorded"}
  BY <1>1 DEF After
<1>4. After(pc[r]) \in Steps
  BY <1>3 DEF Steps, Waiting
<1>5. log' \in Seq(Rows)
  BY <1>1, <1>2, EventIsRow DEF Shape
<1>6. frames' \in [Request -> Seq(Frames)] /\ \A q \in Request \ {r} : frames'[q] = frames[q]
  <2>1. CASE frames' = frames
    BY <1>2, <2>1 DEF Shape
  <2>2. CASE frames' = [frames EXCEPT ![r] = Append(@, "error")]
    BY <1>2, <2>2 DEF Shape, Frames
  <2> QED BY <2>1, <2>2 DEF LogEvent, Sends
<1>7. Shape'
  BY <1>1, <1>2, <1>4, <1>5, <1>6 DEF Shape
<1>8. Only(r) /\ pc'[r] = After(pc[r])
  BY <1>1, <1>2, <1>6 DEF Only, Shape
<1>9. FrameAt(r)'
  <2>1. CASE pc[r] = "caught" /\ r \in Streaming
    <3>1. frames'[r] = Append(frames[r], "error") /\ frames[r] \in Seq(Frames)
      BY <1>2, <2>1 DEF LogEvent, Sends, Shape
    <3>2. "done" \notin Range(frames[r])
      BY <1>2, <2>1 DEF IsAt, FrameAt
    <3>3. "done" \notin Range(frames'[r])
      BY <3>1, <3>2 DEF Range
    <3>4. pc'[r] = "recorded"
      BY <1>8, <2>1 DEF After
    <3> QED BY <3>3, <3>4 DEF FrameAt, OnCourse, Due
  <2>2. CASE ~(pc[r] = "caught" /\ r \in Streaming)
    <3>1. frames' = frames /\ tokens' = tokens
      BY <1>1, <2>2 DEF LogEvent
    <3>2. pc[r] \in OnCourse \/ r \notin Streaming
      BY <1>1, <2>2 DEF OnCourse, Due
    <3>3. pc[r] # "replied" /\ pc'[r] # "replied"
      BY <1>1, <1>3, <1>8
    <3> QED BY <1>2, <3>1, <3>2, <3>3 DEF IsAt, FrameAt
  <2> QED BY <2>1, <2>2
<1>10. tokens'[r] = tokens[r]
  BY <1>1
<1> QED BY <1>1, <1>4, <1>7, <1>8, <1>9, <1>10, AppendKeeps

LEMMA StreamKeeps ==
  ASSUME IInv, NEW r \in Request, StreamLine(r)
  PROVE  IInv'
<1>1. r \in Streaming /\ pc[r] = "requested" /\ UNCHANGED <<messages, prompt>>
  BY DEF StreamLine
<1>2. Shape /\ IsAt(r)
  BY DEF IInv
<1>3. RowsOf(r, "assistant") = {}
  BY <1>1, <1>2 DEF IsAt, AnswerAt, OnCourse, Due
<1>4. CASE (Goes(r, "answered") \/ Goes(r, "caught")) /\ UNCHANGED <<log, tokens, frames, faults>>
  <2>1. PICK step \in {"answered", "caught"} : pc' = [pc EXCEPT ![r] = step]
    BY <1>4 DEF Goes
  <2>2. step \in Steps
    BY DEF Steps, Waiting
  <2>3. Shape' /\ Only(r)
    BY <1>1, <1>2, <1>4, <2>1, <2>2 DEF Shape, Only
  <2>4. Moves(r, step)
    BY <1>1, <1>3 DEF Moves, OnCourse, Due
  <2>5. FrameAt(r)'
    BY <1>1, <1>2, <1>4, <2>1 DEF Shape, IsAt, FrameAt, OnCourse, Due
  <2> QED BY <1>1, <1>3, <1>4, <2>1, <2>2, <2>3, <2>4, <2>5, MoveKeeps
<1>5. CASE /\ tokens[r] < MaxTokens /\ tokens' = [tokens EXCEPT ![r] = @ + 1] /\ Sends(r, "token") /\ UNCHANGED pc
           /\ \/ UNCHANGED <<log, faults>>
              \/ /\ log' \in {log, Append(log, Event(r, "LLM_STREAM_TOKEN", tokens[r] + 1))}
                 /\ faults' = faults \/ (faults < MaxFaults /\ faults' = faults + 1)
  <2> DEFINE e == Event(r, "LLM_STREAM_TOKEN", tokens[r] + 1)
  <2>1. tokens[r] + 1 \in 0 .. MaxTokens /\ tokens[r] \in Nat
    BY <1>2, <1>5, ChatAssumption DEF Shape, ChatAssumption
  <2>2. e \in Rows /\ e.run = r /\ e.type = "LLM_STREAM_TOKEN"
    BY <2>1 DEF Event, Rows, Types
  <2>3. tokens' \in [Request -> 0 .. MaxTokens] /\ tokens'[r] = tokens[r] + 1
        /\ \A q \in Request \ {r} : tokens'[q] = tokens[q]
    BY <1>2, <1>5, <2>1 DEF Shape
  <2>4. /\ frames' \in [Request -> Seq(Frames)] /\ frames'[r] = Append(frames[r], "token")
        /\ \A q \in Request \ {r} : frames'[q] = frames[q]
    BY <1>2, <1>5 DEF Shape, Sends, Frames
  <2>5. faults' \in 0 .. MaxFaults /\ faults' \in {faults, faults + 1}
    BY <1>2, <1>5, ChatAssumption DEF Shape, ChatAssumption
  <2>6. log' = log \/ log' = Append(log, e)
    BY <1>5
  <2>7. Allowed(e)
    <3>1. /\ ~Has(r, "RUNTIME_ERROR") /\ \A k \in 1 .. 4 : Has(r, Course(r)[k]) <=> k < 3
      BY <1>1, <1>2 DEF IsAt, CourseAt, OnCourse, Due
    <3> QED BY <2>2, <3>1 DEF Allowed
  <2> HIDE DEF e
  <2>8. log' \in Seq(Rows)
    <3>1. log \in Seq(Rows)
      BY <1>2 DEF Shape
    <3>2. Append(log, e) \in Seq(Rows)
      BY <2>2, <3>1
    <3> QED BY <2>6, <3>1, <3>2
  <2>9. Shape' /\ Only(r)
    BY <1>1, <1>2, <1>5, <2>3, <2>4, <2>5, <2>8 DEF Shape, Only
  <2>10. LogStep(r) /\ MsgStep(r)
    BY <1>1, <2>2, <2>6, <2>7 DEF LogStep, MsgStep
  <2>11. \A t : t # "LLM_STREAM_TOKEN" => (Has(r, t)' <=> Has(r, t))
    <3>1. CASE log' = log
      BY <3>1 DEF Has, Logged
    <3>2. CASE log' = Append(log, e)
      BY <1>2, <2>2, <3>2, HasMore DEF Shape
    <3> QED BY <2>6, <3>1, <3>2
  <2>12. CourseAt(r)'
    <3>1. \A k \in 1 .. 4 : Has(r, Course(r)[k])' <=> Has(r, Course(r)[k])
      BY <2>11, CourseIs
    <3>2. Has(r, "RUNTIME_ERROR")' <=> Has(r, "RUNTIME_ERROR")
      BY <2>11
    <3> QED BY <1>2, <1>5, <3>1, <3>2 DEF IsAt, CourseAt
  <2>13. \A role : RowsOf(r, role)' = RowsOf(r, role)
    BY <1>1 DEF RowsOf
  <2>14. LastAt(r)' /\ AnswerAt(r)'
    BY <1>1, <1>2, <1>3, <1>5, <2>13 DEF LastAt, IsAt, AnswerAt, OnCourse, Due, Wrong
  <2>15. SorryAt(r)'
    BY <1>2, <1>5, <2>11, <2>13 DEF IsAt, SorryAt
  <2>16. FrameAt(r)'
    <3>1. Len(frames[r]) = tokens[r] /\ "done" \notin Range(frames[r]) /\ frames[r] \in Seq(Frames)
      BY <1>1, <1>2 DEF IsAt, FrameAt, OnCourse, Due, Shape
    <3>2. Len(frames'[r]) = tokens'[r] /\ "done" \notin Range(frames'[r])
      BY <2>3, <2>4, <3>1 DEF Range
    <3> QED BY <1>1, <1>5, <3>2 DEF FrameAt
  <2> QED BY <2>9, <2>10, <2>12, <2>14, <2>15, <2>16, StepIsLocal DEF IsAt
<1> QED BY <1>4, <1>5, Zenon DEF StreamLine

\* A message that is stored, whether the handler learns of it or not.
LEMMA MessageKeeps ==
  ASSUME IInv, NEW r \in Request, NEW m \in Texts, m.by = r, messages' = Append(messages, m),
         UNCHANGED log, tokens'[r] = tokens[r], Shape', Only(r), FrameAt(r)',
         NEW step \in Steps, pc' = [pc EXCEPT ![r] = step],
         \/ pc[r] = "start" /\ m = User(r) /\ step = "escaped" /\ faults' > 0
         \/ pc[r] = "counted" /\ m = Answer(r) /\ (step = "stored" \/ (step = "caught" /\ faults' > 0))
         \/ pc[r] = "recorded" /\ m = Sorry(r) /\ (step = "apologised" \/ (step = "escaped" /\ faults' > 0))
  PROVE  IInv'
<1>1. Shape /\ IsAt(r) /\ pc'[r] = step /\ messages \in Seq(Texts)
  BY DEF IInv, Shape
<1>2. LogStep(r) /\ MsgStep(r)
  BY DEF LogStep, MsgStep
<1>3. \A t : Has(r, t)' <=> Has(r, t)
  BY DEF Has, Logged
<1>4. /\ m = User(r) => m.role = "user"
      /\ m = Answer(r) => m.role = "assistant"
      /\ m = Sorry(r) => m.role = "error"
  BY DEF User, Answer, Sorry, Message
<1>5. CourseAt(r)'
  BY <1>1, <1>3 DEF IsAt, CourseAt, OnCourse, Due
<1>6. LastAt(r)'
  BY <1>1 DEF LastAt
<1>7. PICK n : n = Len(messages) + 1
  OBVIOUS
<1>8. /\ \A role : RowsOf(r, role)' = IF m.role = role THEN RowsOf(r, role) \cup {n} ELSE RowsOf(r, role)
      /\ \A role : \A i \in RowsOf(r, role) : messages'[i] = messages[i]
      /\ messages'[n] = m
  BY <1>1, <1>7, RowsGrow, MessagesGrow DEF RowsOf
<1>9. Answer(r)' = Answer(r)
  BY DEF Answer, Message
<1>10. CASE pc[r] = "counted"
  <2>1. m.role = "assistant" /\ m = Answer(r) /\ step \in {"stored", "caught"} /\ (step = "caught" => faults' > 0)
    BY <1>4, <1>10
  <2>2. RowsOf(r, "assistant") = {} /\ RowsOf(r, "error") = {} /\ Has(r, Course(r)[3])
    BY <1>1, <1>10 DEF IsAt, AnswerAt, SorryAt, CourseAt, OnCourse, Due
  <2>3. RowsOf(r, "assistant")' = {n} /\ RowsOf(r, "error")' = {}
    BY <1>8, <2>1, <2>2
  <2>4. AnswerAt(r)'
    <3>1. \A i \in RowsOf(r, "assistant")' : messages'[i] = Answer(r)' /\ Has(r, Course(r)[3])'
      BY <1>3, <1>8, <1>9, <2>1, <2>2, <2>3
    <3>2. step \in OnCourse => step \in {"stored", "completed", "replied"}
      BY <2>1 DEF OnCourse, Due
    <3>3. step \in Wrong => faults' > 0
      BY <2>1 DEF Wrong
    <3> QED BY <1>1, <2>3, <3>1, <3>2, <3>3 DEF AnswerAt
  <2>5. SorryAt(r)'
    BY <2>3 DEF SorryAt
  <2> QED BY <1>1, <1>2, <1>5, <1>6, <2>4, <2>5, StepIsLocal DEF IsAt
<1>11. CASE pc[r] = "recorded"
  <2>1. m.role = "error" /\ step \in {"apologised", "escaped"}
    BY <1>4, <1>11
  <2>2. RowsOf(r, "error") = {} /\ Has(r, "RUNTIME_ERROR")
    BY <1>1, <1>11 DEF IsAt, SorryAt, CourseAt
  <2>3. RowsOf(r, "assistant")' = RowsOf(r, "assistant") /\ RowsOf(r, "error")' = {n}
    BY <1>8, <2>1, <2>2
  <2>4. faults > 0 => faults' > 0
    BY <1>1 DEF Only, Shape
  <2>5. AnswerAt(r)'
    <3>1. \A i \in RowsOf(r, "assistant")' : messages'[i] = Answer(r)' /\ Has(r, Course(r)[3])'
      <4>1. \A i \in RowsOf(r, "assistant") : messages[i] = Answer(r) /\ Has(r, Course(r)[3])
        BY <1>1 DEF IsAt, AnswerAt
      <4>2. \A i \in RowsOf(r, "assistant") : messages'[i] = messages[i]
        BY <1>8
      <4>3. Has(r, Course(r)[3])' <=> Has(r, Course(r)[3])
        BY <1>3
      <4> QED BY <1>9, <2>3, <4>1, <4>2, <4>3
    <3>2. step \notin OnCourse
      BY <2>1 DEF OnCourse, Due
    <3>3. RowsOf(r, "assistant")' # {} => faults' > 0
      BY <1>1, <1>11, <2>3, <2>4 DEF IsAt, AnswerAt, Wrong
    <3>4. \A i, j \in RowsOf(r, "assistant")' : i = j
      BY <1>1, <2>3 DEF IsAt, AnswerAt
    <3> QED BY <1>1, <3>1, <3>2, <3>3, <3>4 DEF AnswerAt
  <2>6. SorryAt(r)'
    BY <1>1, <1>3, <2>1, <2>2, <2>3 DEF SorryAt
  <2> QED BY <1>1, <1>2, <1>5, <1>6, <2>5, <2>6, StepIsLocal DEF IsAt
<1>12. CASE pc[r] = "start"
  <2>1. m.role = "user" /\ step = "escaped" /\ faults' > 0
    BY <1>4, <1>12
  <2>2. RowsOf(r, "assistant")' = RowsOf(r, "assistant") /\ RowsOf(r, "error")' = RowsOf(r, "error")
    BY <1>8, <2>1
  <2>3. RowsOf(r, "assistant") = {} /\ RowsOf(r, "error") = {}
    BY <1>1, <1>12 DEF IsAt, AnswerAt, SorryAt, OnCourse, Due
  <2>4. AnswerAt(r)' /\ SorryAt(r)'
    BY <1>1, <2>1, <2>2, <2>3 DEF AnswerAt, SorryAt, OnCourse, Due
  <2> QED BY <1>1, <1>2, <1>5, <1>6, <2>4, StepIsLocal DEF IsAt
<1> QED BY <1>10, <1>11, <1>12

LEMMA StoreAnswerKeeps ==
  ASSUME IInv, NEW r \in Request, StoreAnswer(r)
  PROVE  IInv'
<1>1. /\ pc[r] = "counted" /\ messages' = Append(messages, Answer(r)) /\ pc' = [pc EXCEPT ![r] = "stored"]
      /\ UNCHANGED <<log, prompt, tokens, frames, faults>>
  BY DEF StoreAnswer, Goes
<1>2. Shape /\ IsAt(r)
  BY DEF IInv
<1>3. Answer(r) \in Texts /\ Answer(r).by = r
  BY <1>2 DEF Answer, Message, Texts, Shape
<1>4. messages' \in Seq(Texts) /\ Range(messages) \subseteq Range(messages')
  BY <1>1, <1>2, <1>3, MessagesGrow DEF Shape, Range
<1>5. Shape' /\ Only(r) /\ "stored" \in Steps
  BY <1>1, <1>2, <1>4 DEF Shape, Only, Steps, Waiting
<1>6. FrameAt(r)'
  BY <1>1, <1>2 DEF Shape, IsAt, FrameAt, OnCourse, Due
<1> QED BY <1>1, <1>3, <1>5, <1>6, MessageKeeps

LEMMA StoreSorryKeeps ==
  ASSUME IInv, NEW r \in Request, StoreSorry(r)
  PROVE  IInv'
<1>1. /\ pc[r] = "recorded" /\ messages' = Append(messages, Sorry(r)) /\ pc' = [pc EXCEPT ![r] = "apologised"]
      /\ UNCHANGED <<log, prompt, tokens, faults>>
  BY DEF StoreSorry, Goes
<1>2. Shape /\ IsAt(r)
  BY DEF IInv
<1>3. Sorry(r) \in Texts /\ Sorry(r).by = r
  BY ChatAssumption DEF Sorry, Message, Texts, ChatAssumption
<1>4. messages' \in Seq(Texts) /\ Range(messages) \subseteq Range(messages')
  BY <1>1, <1>2, <1>3, MessagesGrow DEF Shape, Range
<1>5. /\ frames' \in [Request -> Seq(Frames)] /\ \A q \in Request \ {r} : frames'[q] = frames[q]
      /\ frames'[r] = frames[r] \/ frames'[r] = Append(frames[r], "error")
  <2>1. CASE frames' = frames
    BY <1>2, <2>1 DEF Shape
  <2>2. CASE frames' = [frames EXCEPT ![r] = Append(@, "error")]
    BY <1>2, <2>2 DEF Shape, Frames
  <2> QED BY <2>1, <2>2 DEF StoreSorry, Sends
<1>6. Shape' /\ Only(r) /\ "apologised" \in Steps
  BY <1>1, <1>2, <1>4, <1>5 DEF Shape, Only, Steps, Ended
<1>7. FrameAt(r)'
  <2>1. "done" \notin Range(frames[r]) /\ frames[r] \in Seq(Frames)
    BY <1>1, <1>2 DEF IsAt, FrameAt, Shape
  <2>2. "done" \notin Range(frames'[r])
    BY <1>5, <2>1 DEF Range
  <2>3. pc'[r] = "apologised"
    BY <1>1, <1>2 DEF Shape
  <2> QED BY <2>2, <2>3 DEF FrameAt, OnCourse, Due
<1> QED BY <1>1, <1>3, <1>6, <1>7, MessageKeeps

LEMMA FaultKeeps ==
  ASSUME IInv, NEW r \in Request, DatabaseFails(r)
  PROVE  IInv'
<1>1. /\ pc[r] \in Waiting /\ faults < MaxFaults /\ faults' = faults + 1 /\ ThrowsAt(r)
      /\ UNCHANGED <<prompt, tokens, frames>>
      /\ \/ UNCHANGED <<messages, log>>
         \/ messages' = Written(r)[1] /\ log' = Written(r)[2]
  BY DEF DatabaseFails
<1>2. Shape /\ IsAt(r)
  BY DEF IInv
<1>3. faults' \in 0 .. MaxFaults /\ faults' > 0
  BY <1>1, <1>2, ChatAssumption DEF Shape, ChatAssumption
<1>4. PICK step \in {"caught", "escaped"} :
        /\ pc' = [pc EXCEPT ![r] = step]
        /\ step = "caught" => pc[r] \in Guarded(r)
  BY <1>1 DEF ThrowsAt, Goes
<1>5. step \in Steps /\ (step = "caught" => pc[r] \in OnCourse)
  BY <1>4 DEF Steps, Waiting, Ended, Guarded, OnCourse, Due
<1>6. Only(r) /\ pc'[r] = step
  BY <1>1, <1>2, <1>4 DEF Only, Shape
<1>7. FrameAt(r)'
  <2>1. pc[r] # "replied"
    BY <1>1 DEF Waiting
  <2> QED BY <1>1, <1>2, <1>4, <1>6, <2>1 DEF IsAt, FrameAt, OnCourse, Due
<1>8. ASSUME messages' \in Seq(Texts), Range(messages) \subseteq Range(messages'), log' \in Seq(Rows)
      PROVE  Shape'
  BY <1>1, <1>2, <1>3, <1>4, <1>5, <1>8 DEF Shape
<1>9. tokens'[r] = tokens[r]
  BY <1>1
<1>10. CASE UNCHANGED <<messages, log>>
  <2>1. Shape'
    BY <1>2, <1>8, <1>10 DEF Shape
  <2>2. Moves(r, step)
    BY <1>3, <1>5 DEF Moves
  <2> QED BY <1>4, <1>5, <1>6, <1>7, <1>9, <1>10, <2>1, <2>2, MoveKeeps
<1>11. ASSUME NEW m \in Texts, m.by = r, messages' = Append(messages, m), log' = log,
              \/ pc[r] = "start" /\ m = User(r) /\ step = "escaped"
              \/ pc[r] = "counted" /\ m = Answer(r) /\ step = "caught"
              \/ pc[r] = "recorded" /\ m = Sorry(r) /\ step = "escaped"
       PROVE  IInv'
  <2>1. messages' \in Seq(Texts) /\ Range(messages) \subseteq Range(messages') /\ log' \in Seq(Rows)
    BY <1>2, <1>11, MessagesGrow DEF Shape, Range
  <2>2. Shape'
    BY <1>8, <2>1
  <2> QED BY <1>3, <1>4, <1>5, <1>6, <1>7, <1>9, <1>11, <2>2, MessageKeeps
<1>12. ASSUME messages' = Written(r)[1] /\ log' = Written(r)[2]
       PROVE  IInv'
  <2>1. CASE pc[r] = "start"
    <3>1. User(r) \in Texts /\ User(r).by = r
      BY ChatAssumption DEF User, Message, Texts, ChatAssumption
    <3>2. messages' = Append(messages, User(r)) /\ log' = log
      BY <1>12, <2>1 DEF Written
    <3>3. step = "escaped"
      BY <1>4, <2>1 DEF Guarded
    <3> QED BY <1>11, <2>1, <3>1, <3>2, <3>3
  <2>2. CASE pc[r] = "counted"
    <3>1. Answer(r) \in Texts /\ Answer(r).by = r
      BY <1>2 DEF Answer, Message, Texts, Shape
    <3>2. messages' = Append(messages, Answer(r)) /\ log' = log
      BY <1>12, <2>2 DEF Written
    <3>3. step = "caught"
      BY <1>1, <1>2, <1>6, <2>2 DEF ThrowsAt, Goes, Guarded, Shape
    <3> QED BY <1>11, <2>2, <3>1, <3>2, <3>3
  <2>3. CASE pc[r] = "recorded"
    <3>1. Sorry(r) \in Texts /\ Sorry(r).by = r
      BY ChatAssumption DEF Sorry, Message, Texts, ChatAssumption
    <3>2. messages' = Append(messages, Sorry(r)) /\ log' = log
      BY <1>12, <2>3 DEF Written
    <3>3. step = "escaped"
      BY <1>4, <2>3 DEF Guarded
    <3> QED BY <1>11, <2>3, <3>1, <3>2, <3>3
  <2>4. CASE pc[r] = "created"
    BY <1>10, <1>12, <2>4 DEF Written
  <2>5. CASE pc[r] \in {"inserted", "read", "answered", "stored", "caught"}
    <3>1. messages' = messages /\ log' = Append(log, Event(r, EventAt(r, pc[r]), tokens[r]))
      BY <1>12, <2>5 DEF Written
    <3>2. log' \in Seq(Rows)
      BY <1>2, <2>5, <3>1, EventIsRow DEF Shape
    <3>3. Shape'
      BY <1>2, <1>8, <3>1, <3>2 DEF Shape
    <3> QED BY <1>3, <1>4, <1>5, <1>6, <1>7, <1>9, <2>5, <3>1, <3>3, AppendKeeps
  <2> QED BY <1>1, <2>1, <2>2, <2>3, <2>4, <2>5 DEF Waiting
<1> QED BY <1>1, <1>10, <1>12

-----------------------------------------------------------------------------
LEMMA InitIInv == Init => IInv
<1> SUFFICES ASSUME Init PROVE IInv
  OBVIOUS
<1>1. /\ messages = [i \in 1 .. Earlier |-> User("earlier")] /\ log = <<>>
      /\ pc = [r \in Request |-> "start"] /\ prompt = [r \in Request |-> <<>>]
      /\ tokens = [r \in Request |-> 0] /\ frames = [r \in Request |-> <<>>] /\ faults = 0
  BY DEF Init
<1>2. User("earlier") \in Texts /\ User("earlier").role = "user"
  BY ChatAssumption DEF User, Message, Texts, ChatAssumption
<1>3. messages \in Seq(Texts) /\ \A i \in DOMAIN messages : messages[i].role = "user"
  BY <1>1, <1>2, ChatAssumption DEF ChatAssumption
<1>4. Shape
  BY <1>1, <1>3, ChatAssumption DEF Shape, Steps, Waiting, Range, ChatAssumption
<1>5. LogShape
  BY <1>1 DEF LogShape
<1>6. ASSUME NEW r \in Request PROVE IsAt(r)
  <2>1. pc[r] = "start" /\ frames[r] = <<>> /\ tokens[r] = 0
    BY <1>1, <1>6
  <2>2. \A t : ~Has(r, t)
    BY <1>1 DEF Has, Logged
  <2>3. RowsOf(r, "assistant") = {} /\ RowsOf(r, "error") = {}
    BY <1>3 DEF RowsOf
  <2>4. CourseAt(r) /\ LastAt(r)
    BY <2>1, <2>2 DEF CourseAt, LastAt, OnCourse, Due
  <2>5. AnswerAt(r) /\ SorryAt(r)
    BY <2>1, <2>3 DEF AnswerAt, SorryAt, OnCourse, Due, Wrong
  <2>6. FrameAt(r)
    BY <2>1 DEF FrameAt, Range
  <2> QED BY <2>4, <2>5, <2>6 DEF IsAt
<1> QED BY <1>4, <1>5, <1>6 DEF IInv

LEMMA NextIInv == IInv /\ [Next]_vars => IInv'
<1> SUFFICES ASSUME IInv, [Next]_vars PROVE IInv'
  OBVIOUS
<1>1. CASE UNCHANGED vars
  <2>1. Shape' /\ LogShape'
    BY <1>1 DEF vars, IInv, Shape, LogShape, Logged
  <2> SUFFICES ASSUME NEW r \in Request PROVE IsAt(r)'
    BY <2>1 DEF IInv
  <2>2. IsAt(r)
    BY DEF IInv
  <2>3. CourseAt(r)'
    BY <1>1, <2>2 DEF vars, IsAt, CourseAt, Has, Logged
  <2>4. LastAt(r)'
    BY <1>1, <2>2 DEF vars, IsAt, LastAt, EndsCompleted
  <2>5. AnswerAt(r)'
    BY <1>1, <2>2 DEF vars, IsAt, AnswerAt, Has, Logged, RowsOf, Answer
  <2>6. SorryAt(r)' /\ FrameAt(r)'
    BY <1>1, <2>2 DEF vars, IsAt, SorryAt, FrameAt, Has, Logged, RowsOf
  <2> QED BY <2>3, <2>4, <2>5, <2>6 DEF IsAt
<1>2. ASSUME NEW r \in Request, Step(r) PROVE IInv'
  BY <1>2, StoreUserKeeps, LogEventKeeps, ReadKeeps, GenerateKeeps, StreamKeeps, StoreAnswerKeeps, ReplyKeeps,
     StoreSorryKeeps, FaultKeeps DEF Step
<1> QED BY <1>1, <1>2 DEF Next

LEMMA TypesHold == IInv => TypeOK
<1> SUFFICES ASSUME IInv PROVE TypeOK
  OBVIOUS
<1>1. /\ \A i \in DOMAIN messages : messages[i] \in Texts
      /\ \A i \in DOMAIN log : log[i] \in Rows
  BY DEF IInv, Shape
<1> QED BY <1>1 DEF TypeOK, IInv, Shape, Texts, Rows, Frames

LEMMA ChatTold == IInv => ChatIsTrue
<1> SUFFICES ASSUME IInv PROVE ChatIsTrue
  OBVIOUS
<1>1. DoneIsStored
  <2> SUFFICES ASSUME NEW r \in Request, "done" \in Range(frames[r])
               PROVE  /\ \E i \in DOMAIN messages :
                           /\ RowsOf(r, "assistant") = {i} /\ messages[i] = Answer(r)
                           /\ r \in Streaming => Len(frames[r]) - 1 = messages[i].text
                      /\ RowsOf(r, "error") = {} /\ EndsCompleted(r)
    BY DEF DoneIsStored, EndsCompleted
  <2>1. pc[r] = "replied" /\ IsAt(r)
    BY DEF IInv, IsAt, FrameAt
  <2>2. RowsOf(r, "error") = {} /\ EndsCompleted(r)
    BY <2>1 DEF IsAt, SorryAt, LastAt
  <2>3. PICK i : i \in RowsOf(r, "assistant")
    BY <2>1 DEF IsAt, AnswerAt, OnCourse, Due
  <2>4. RowsOf(r, "assistant") = {i} /\ messages[i] = Answer(r) /\ i \in DOMAIN messages
    BY <2>1, <2>3 DEF IsAt, AnswerAt, RowsOf
  <2>5. r \in Streaming => Len(frames[r]) - 1 = messages[i].text
    <3>1. messages[i].text = tokens[r] /\ tokens[r] \in Int
      BY <2>4 DEF Answer, Message, IInv, Shape
    <3>2. r \in Streaming => Len(frames[r]) = tokens[r] + 1
      BY <2>1 DEF IsAt, FrameAt, OnCourse, Due
    <3> QED BY <3>1, <3>2
  <2> QED BY <2>2, <2>4, <2>5
<1>2. AnswerOrApology
  <2> SUFFICES ASSUME NEW r \in Request
               PROVE  /\ \A role \in {"assistant", "error"} : \A i, j \in RowsOf(r, role) : i = j
                      /\ RowsOf(r, "assistant") # {} => Has(r, EventAt(r, "answered"))
                      /\ RowsOf(r, "error") # {} => Has(r, "RUNTIME_ERROR")
                      /\ RowsOf(r, "assistant") # {} /\ RowsOf(r, "error") # {} => faults > 0
    BY DEF AnswerOrApology, Has
  <2>1. IsAt(r)
    BY DEF IInv
  <2>2. RowsOf(r, "error") # {} => pc[r] \in Wrong
    BY <2>1 DEF IsAt, SorryAt, Wrong
  <2> QED BY <2>1, <2>2, CourseIs DEF IsAt, AnswerAt, SorryAt
<1> QED BY <1>1, <1>2 DEF ChatIsTrue, IInv

\* Every handler, whatever its calls return, leaves rows, events and frames of their types,
\* and puts only messages of the chat in a prompt.
THEOREM TypeCorrect == Spec => []TypeOK
BY InitIInv, NextIInv, TypesHold, PTL DEF Spec

\* For any number of requests at once and any failures: the log of a run keeps to its
\* course, an answer that is reported is stored whole and is alone, and what is stored is
\* logged.
THEOREM ChatTrue == Spec => []ChatIsTrue
BY InitIInv, NextIInv, ChatTold, PTL DEF Spec

\* A prompt that is read while the user's message is the last one of a chat no longer than
\* HistoryLimit holds the turns before this message.
THEOREM PromptPast == Spec => PromptIsThePast
<1>1. ASSUME IInv, [Next]_vars,
             NEW r \in Request, pc[r] = "created", pc'[r] = "read",
             Len(messages) <= HistoryLimit, Position(r) = Len(messages)
      PROVE  prompt'[r] = LastOf(SubSeq(messages, 1, Position(r) - 1), Turns)
  <2>1. Shape
    BY <1>1 DEF IInv
  <2>2. PICK q \in Request : Step(q)
    BY <1>1 DEF Next, vars
  <2>3. q = r /\ ReadHistory(r)
    BY <1>1, <2>1, <2>2, Zenon
       DEF Step, StoreUser, LogEvent, After, ReadHistory, Generate, Generated, StreamLine, StoreAnswer, Reply,
           StoreSorry, DatabaseFails, ThrowsAt, Goes, Shape
  <2>4. prompt'[r] = RecentTurns(messages)
    BY <2>1, <2>3 DEF ReadHistory, Shape
  <2>5. SubSeq(messages, 1, IF Len(messages) < HistoryLimit THEN Len(messages) ELSE HistoryLimit) = messages
    BY <1>1, <2>1, ChatAssumption DEF Shape, ChatAssumption
  <2> QED BY <1>1, <2>4, <2>5 DEF RecentTurns, Front
<1>2. IInv /\ [Next]_vars =>
        [\A r \in Request : pc[r] = "created" /\ pc'[r] = "read" =>
           /\ Len(messages) <= HistoryLimit /\ Position(r) = Len(messages) =>
                prompt'[r] = LastOf(SubSeq(messages, 1, Position(r) - 1), Turns)]_vars
  BY <1>1
<1> QED BY <1>2, InitIInv, NextIInv, PTL DEF Spec, PromptIsThePast

=============================================================================
