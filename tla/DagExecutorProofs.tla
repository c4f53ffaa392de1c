------------------------- MODULE DagExecutorProofs -------------------------
(***************************************************************************)
(* Theorems about DagExecutor, for every DAG, every bound and every        *)
(* interleaving of crashes and failed calls, in three parts: what the log  *)
(* and the store never show (types, order, deduplication, the verdict),    *)
(* what the attempts of a node and the execution come to, and that what    *)
(* GET /runs/:runId/dag-state derives from the log moves as one run of the *)
(* DAG does (DagRun), step by step.                                        *)
(***************************************************************************)
EXTENDS DerivedDagRun, SequenceTheorems, FiniteSetTheorems, WellFoundedInduction, TLAPS

-----------------------------------------------------------------------------
(* Least and greatest numbers.                                             *)

\* A set of naturals that is not empty has a least element.
LEMMA LeastExists ==
  ASSUME NEW S \in SUBSET Nat, S # {}
  PROVE  \E x \in S : \A y \in S : x <= y
<1>1. PICK x \in S : \A y \in S : ~(<<y, x>> \in OpToRel(<, Nat))
  <2>1. IsWellFoundedOn(OpToRel(<, Nat), Nat)
    BY NatLessThanWellFounded, Zenon
  <2> QED BY <2>1, WFMin, Zenon
<1>2. x \in Nat /\ \A y \in S : y \in Nat
  OBVIOUS
<1>3. \A y \in S : ~(y < x)
  BY <1>1, <1>2, Zenon DEF OpToRel
<1> QED BY <1>2, <1>3

\* MinOf of a set of naturals, such as the nodes that dag.nodes.find looks
\* through, is its least element.
LEMMA MinOfNat ==
  ASSUME NEW S \in SUBSET Nat, S # {}
  PROVE  MinOf(S) \in S /\ \A y \in S : MinOf(S) <= y
BY LeastExists, Zenon DEF MinOf

\* MaxOf of a bounded set of naturals, such as the rows of an event in the
\* log, is its greatest element.
LEMMA MaxOfInterval ==
  ASSUME NEW b \in Nat, NEW S \in SUBSET (0..b), S # {}
  PROVE  MaxOf(S) \in S /\ \A y \in S : y <= MaxOf(S)
<1> DEFINE T == {n \in 0..b : b - n \in S}
<1>1. T \in SUBSET Nat
  OBVIOUS
<1>2. T # {}
  <2>1. PICK y \in S : TRUE
    OBVIOUS
  <2>2. b - y \in 0..b /\ b - (b - y) = y
    BY <2>1
  <2>3. b - y \in T
    BY <2>2
  <2> QED BY <2>3
<1>3. PICK m \in T : \A n \in T : m <= n
  <2> HIDE DEF T
  <2> QED BY <1>1, <1>2, LeastExists
<1>4. \A y \in S : y <= b - m
  <2> TAKE y \in S
  <2>1. b - y \in T
    <3>1. b - y \in 0..b /\ b - (b - y) = y
      OBVIOUS
    <3> QED BY <3>1
  <2> QED BY <1>3, <2>1, SMTT(60)
<1> QED BY <1>3, <1>4, Zenon DEF MaxOf

-----------------------------------------------------------------------------
(* Types.                                                                  *)

\* The positions of the nodes.
LEMMA NodeBounds == 1 \in Node /\ NumNodes \in Node /\ NumNodes \in Nat
BY DagAssumption DEF Node

\* The position after that of a node that is not the last.
LEMMA NextPosition == \A p \in Node : p # NumNodes => p + 1 \in Node
BY NodeBounds DEF Node

\* The tables of the DAG.
LEMMA NodeTables ==
  \A n \in Node : Order[n] \in Node /\ Sorted[n] \in Node /\ MaxAttempts[n] \in 1..2
BY DagAssumption

\* The events of the code-change nodes have types of their own.
LEMMA CodeChangeTypes ==
  \A k \in CodeChangeKind :
    CodeChangeEvent[k] \in {"CODEBASE_ANALYZED", "PATCH_PLAN_CREATED", "PATCH_SIMULATION_APPLIED",
                            "BUILD_VERIFIED", "TESTS_VERIFIED", "PATCH_REVIEW_COMPLETED"}
BY DEF CodeChangeKind, CodeChangeEvent

\* The constructors build events, with the fields given to them.
LEMMA NodeEventFields ==
  ASSUME NEW t \in EventType, NEW n \in 0..NumNodes, NEW a \in 0..2
  PROVE  /\ NodeEvent(t, n, a) \in Event
         /\ NodeEvent(t, n, a).type = t /\ NodeEvent(t, n, a).node = n
         /\ NodeEvent(t, n, a).attempt = a
<1>1. NodeEvent(t, n, a) \in Event
  BY DEF NodeEvent, Event, MaybeText
<1> QED BY <1>1 DEF NodeEvent

\* The same of an event with a text.
LEMMA TextEventFields ==
  ASSUME NEW t \in EventType, NEW n \in 0..NumNodes, NEW a \in 0..2, NEW x \in MaybeText
  PROVE  /\ TextEvent(t, n, a, x) \in Event
         /\ TextEvent(t, n, a, x).type = t /\ TextEvent(t, n, a, x).node = n
         /\ TextEvent(t, n, a, x).attempt = a
<1>1. TextEvent(t, n, a, x) \in Event
  BY NodeEventFields DEF TextEvent, NodeEvent, Event
<1> QED BY <1>1 DEF NodeEvent, TextEvent

\* The same of an event of the whole DAG.
LEMMA DagEventFields ==
  ASSUME NEW t \in EventType, NEW b \in BOOLEAN
  PROVE  /\ DagEvent(t, b) \in Event
         /\ DagEvent(t, b).type = t /\ DagEvent(t, b).node = 0 /\ DagEvent(t, b).attempt = 0
<1>1. 0 \in 0..NumNodes /\ 0 \in 0..2
  BY NodeBounds
<1>2. DagEvent(t, b) \in Event
  BY <1>1, NodeEventFields DEF NodeEvent, DagEvent, Event
<1> QED BY <1>2 DEF NodeEvent, DagEvent

\* The attempts of a node are numbered from 1.
AttemptEvent == {"NODE_STARTED", "NODE_SUCCEEDED", "NODE_FAILED"}

AttemptsNumbered ==
  \A i \in DOMAIN log : log[i].type \in AttemptEvent => log[i].attempt \in 1..2

\* The inductive form of TypeOK, by what a step can disturb: the calls to the
\* database, the other effects, the control and the results of the nodes.
LogTyped ==
  /\ log \in Seq(Event) /\ AttemptsNumbered
  /\ seen \in SUBSET (EventType \X (0..NumNodes) \X (0..2))
  /\ faults \in 0..MaxFaults

StoreTyped ==
  /\ messages \in Seq([node : Node, text : Text \cup {UserText}])
  /\ calls \in [Node -> Nat]
  /\ crashes \in 0..MaxCrashes

\* An attempt that is scheduled after a failure is the second.
FlowTyped ==
  /\ pc \in Control
  /\ pos \in Node
  /\ attempt \in 1..2
  /\ resumeAt \in [Node -> 1..3]
  /\ pc = "retry" => attempt = 1

ResultTyped ==
  /\ status \in [Node -> NodeStatus]
  /\ outputs \in [Node -> MaybeText]
  /\ result \in [ok : BOOLEAN, text : MaybeText]
  /\ verdict \in BOOLEAN

TypeInv == LogTyped /\ StoreTyped /\ FlowTyped /\ ResultTyped

\* The rows of the log are positions, and the attempts in them are numbers.
LEMMA RowFacts ==
  ASSUME TypeInv, NEW t \in EventType, NEW n \in 0..NumNodes
  PROVE  /\ Len(log) \in Nat /\ DOMAIN log = 1..Len(log)
         /\ \A i \in DOMAIN log : log[i] \in Event
         /\ Rows(t, n) \in SUBSET (0..Len(log)) /\ Rows(t, n) \subseteq DOMAIN log
         /\ t \in AttemptEvent => Attempts(t, n) \in SUBSET (1..2)
<1>1. Len(log) \in Nat /\ DOMAIN log = 1..Len(log) /\ \A i \in DOMAIN log : log[i] \in Event
  BY LenProperties, ElementOfSeq DEF TypeInv, LogTyped, StoreTyped, FlowTyped, ResultTyped
<1>2. Rows(t, n) \in SUBSET (0..Len(log)) /\ Rows(t, n) \subseteq DOMAIN log
  BY <1>1 DEF Rows
<1>3. ASSUME t \in AttemptEvent PROVE Attempts(t, n) \in SUBSET (1..2)
  BY <1>3, <1>2 DEF Attempts, Rows, TypeInv, LogTyped, AttemptsNumbered
<1> QED BY <1>1, <1>2, <1>3

\* What a node is found to have returned is a text.
LEMMA LastOutputType ==
  ASSUME TypeInv, NEW n \in Node
  PROVE  LastOutput(n) \in MaybeText
<1> DEFINE S == Rows("NODE_SUCCEEDED", n)
<1>1. "NODE_SUCCEEDED" \in EventType /\ n \in 0..NumNodes
  BY NodeBounds DEF EventType, Node
<1>2. ASSUME S # {} PROVE log[MaxOf(S)].text \in MaybeText
  <2>1. MaxOf(S) \in DOMAIN log
    BY <1>1, <1>2, RowFacts, MaxOfInterval
  <2> QED BY <1>1, <2>1, RowFacts DEF Event
<1> QED BY <1>2 DEF LastOutput, MaybeText

\* An execution resumes a node at its first, second or third attempt; the
\* third is above every retry.max_attempts.
LEMMA ChooseAttemptType ==
  ASSUME TypeInv, NEW n \in Node
  PROVE  ChooseAttempt(n) \in 1..3
<1> DEFINE ended    == Attempts("NODE_FAILED", n) \cup Attempts("NODE_SUCCEEDED", n)
           started  == Attempts("NODE_STARTED", n)
           inFlight == started \ ended
<1>1. ended \in SUBSET (1..2) /\ started \in SUBSET (1..2)
  BY RowFacts, NodeBounds DEF EventType, AttemptEvent, Node
<1>2. inFlight \in SUBSET (0..2) /\ {0} \cup started \cup ended \in SUBSET (0..2)
  BY <1>1
<1>3. inFlight # {} => MaxOf(inFlight) \in 1..2
  <2> HIDE DEF ended, started
  <2> QED BY <1>1, <1>2, MaxOfInterval
<1>4. MaxOf({0} \cup started \cup ended) \in 0..2
  <2> HIDE DEF ended, started
  <2> QED BY <1>2, MaxOfInterval
<1> QED BY <1>3, <1>4 DEF ChooseAttempt

\* The events that keep the attempts numbered.
NumberedEvent == {e \in Event : e.type \in AttemptEvent => e.attempt \in 1..2}

\* What emit does to the log and to the keys, whether the append is committed,
\* lost, or committed without the executor being told.
LEMMA EmitType ==
  ASSUME TypeInv, NEW e \in NumberedEvent,
         Emit(e) \/ EmitFails(e)
  PROVE  LogTyped'
<1>0. e \in Event /\ (e.type \in AttemptEvent => e.attempt \in 1..2)
  BY DEF NumberedEvent
<1>1. log' \in {log, Append(log, e)}
  BY DEF Emit, EmitFails
<1>2. log \in Seq(Event) /\ AttemptsNumbered
  BY DEF TypeInv, LogTyped, StoreTyped, FlowTyped, ResultTyped
<1>3. log' \in Seq(Event)
  BY <1>0, <1>1, <1>2, AppendProperties
<1>4. AttemptsNumbered'
  BY <1>0, <1>1, <1>2, AppendProperties, LenProperties DEF AttemptsNumbered
<1>5. seen' \in SUBSET (EventType \X (0..NumNodes) \X (0..2))
  <2>1. Key(e) \in EventType \X (0..NumNodes) \X (0..2)
    BY <1>0 DEF Key, Event
  <2> QED BY <2>1 DEF Emit, EmitFails, TypeInv, LogTyped, StoreTyped, FlowTyped, ResultTyped
<1>6. faults' \in 0..MaxFaults
  BY BoundAssumption
     DEF Emit, EmitFails, Fault, TypeInv, LogTyped, StoreTyped, FlowTyped, ResultTyped
<1> QED BY <1>3, <1>4, <1>5, <1>6 DEF LogTyped

\* The first node of a kind, and the texts that later nodes look up.
LEMMA TextTypes ==
  ASSUME TypeInv
  PROVE  /\ \A k \in NodeKind, S \in SUBSET Node : First(k, S) \in {0} \cup S
         /\ \A n \in {0} \cup Node : OutputOf(n) \in MaybeText
         /\ RawText \in MaybeText /\ AssistantText \in MaybeText
         /\ Current \in Node
<1>1. ASSUME NEW k \in NodeKind, NEW S \in SUBSET Node PROVE First(k, S) \in {0} \cup S
  <2> DEFINE F == {n \in S : Kind[n] = k}
  <2>1. F \in SUBSET Nat /\ F \subseteq S
    <3>1. Node \subseteq Nat
      BY NodeBounds DEF Node
    <3> QED BY <3>1
  <2>2. F # {} => MinOf(F) \in S
    <3> HIDE DEF F
    <3> QED BY <2>1, MinOfNat
  <2> QED BY <2>2 DEF First
<1>2. \A n \in {0} \cup Node : OutputOf(n) \in MaybeText
  BY DEF OutputOf, MaybeText, TypeInv, LogTyped, StoreTyped, FlowTyped, ResultTyped
<1>3. Current \in Node
  BY DagAssumption DEF Current, TypeInv, LogTyped, StoreTyped, FlowTyped, ResultTyped
<1>4. Deps[Current] \in SUBSET Node
  BY <1>3, DagAssumption
<1>5. /\ First("LLM_CHAT", Deps[Current]) \in {0} \cup Node
      /\ First("LLM_CHAT", Node) \in {0} \cup Node
      /\ First("ENFORCE_REPLY_CONSTRAINTS", Node) \in {0} \cup Node
  BY <1>1, <1>4 DEF NodeKind
<1>6. RawText \in MaybeText /\ AssistantText \in MaybeText
  <2>1. InputText[Current] \in MaybeText
    BY <1>3, TextAssumption DEF MaybeText
  <2> QED BY <1>2, <1>5, <2>1 DEF RawText, AssistantText
<1> QED BY <1>1, <1>2, <1>3, <1>6

\* What the attempt leaves for its settlement.
LEMMA OutcomeType ==
  /\ NodeFails => result' \in [ok : BOOLEAN, text : MaybeText]
  /\ \A t \in MaybeText : NodeReturns(t) => result' \in [ok : BOOLEAN, text : MaybeText]
<1>1. NodeFails => result' \in [ok : BOOLEAN, text : MaybeText]
  BY DEF NodeFails, MaybeText
<1>2. ASSUME NEW t \in MaybeText, NodeReturns(t)
      PROVE  result' \in [ok : BOOLEAN, text : MaybeText]
  BY <1>2 DEF NodeReturns
<1> QED BY <1>1, <1>2

\* insertMessage adds a row of the current node, or none.
LEMMA InsertType ==
  ASSUME TypeInv, NEW t \in Text \cup {UserText}
  PROVE  WithRow(Current, t) \in Seq([node : Node, text : Text \cup {UserText}])
<1>1. Row(Current, t) \in [node : Node, text : Text \cup {UserText}]
  BY TextTypes DEF Row
<1> QED BY <1>1, AppendProperties DEF WithRow, TypeInv, LogTyped, StoreTyped, FlowTyped,
     ResultTyped

\* Every event that the executor writes is one of these.
LEMMA WrittenEvents ==
  ASSUME NEW n \in Node, NEW a \in 1..2, NEW x \in MaybeText, NEW b \in BOOLEAN
  PROVE  /\ \A t \in {"DAG_PLANNED", "DAG_COMPLETED"} : DagEvent(t, b) \in NumberedEvent
         /\ \A t \in {"NODE_QUEUED", "NODE_RETRY_SCHEDULED"} :
              NodeEvent(t, n, 0) \in NumberedEvent
         /\ \A t \in {"NODE_STARTED", "NODE_FAILED", "LLM_REQUESTED", "LLM_COMPLETED"} :
              NodeEvent(t, n, a) \in NumberedEvent
         /\ \A t \in {"NODE_SUCCEEDED", "REPLY_CONSTRAINT_EVALUATED"} :
              TextEvent(t, n, a, x) \in NumberedEvent
         /\ \A k \in CodeChangeKind : NodeEvent(CodeChangeEvent[k], 0, 0) \in NumberedEvent
<1>1. n \in 0..NumNodes /\ a \in 0..2 /\ 0 \in 0..2 /\ 0 \in 0..NumNodes
  BY NodeBounds DEF Node
<1>2. \A t \in {"DAG_PLANNED", "DAG_COMPLETED"} : DagEvent(t, b) \in NumberedEvent
  BY DagEventFields DEF EventType, AttemptEvent, NumberedEvent
<1>3. \A t \in {"NODE_QUEUED", "NODE_RETRY_SCHEDULED"} : NodeEvent(t, n, 0) \in NumberedEvent
  BY <1>1, NodeEventFields DEF EventType, AttemptEvent, NumberedEvent
<1>4. \A t \in {"NODE_STARTED", "NODE_FAILED", "LLM_REQUESTED", "LLM_COMPLETED"} :
        NodeEvent(t, n, a) \in NumberedEvent
  BY <1>1, NodeEventFields DEF EventType, AttemptEvent, NumberedEvent
<1>5. \A t \in {"NODE_SUCCEEDED", "REPLY_CONSTRAINT_EVALUATED"} :
        TextEvent(t, n, a, x) \in NumberedEvent
  BY <1>1, TextEventFields DEF EventType, AttemptEvent, NumberedEvent
<1>6. ASSUME NEW k \in CodeChangeKind
      PROVE  NodeEvent(CodeChangeEvent[k], 0, 0) \in NumberedEvent
  <2>1. CodeChangeEvent[k] \in EventType
    BY DEF EventType
  <2>2. CodeChangeEvent[k] \notin AttemptEvent
    BY CodeChangeTypes DEF AttemptEvent
  <2> QED BY <1>1, <2>1, <2>2, NodeEventFields DEF NumberedEvent
<1> QED BY <1>2, <1>3, <1>4, <1>5, <1>6

\* No step of the executor, of the queue or of a failing call breaks the types.
LEMMA TypeStep ==
  ASSUME TypeInv, [Next]_vars
  PROVE  TypeInv'
<1> USE NodeBounds, NodeTables, NextPosition, BoundAssumption DEF TypeInv
<1>0. Current \in Node /\ attempt \in 1..2 /\ pos \in Node /\ NoText \in MaybeText
  BY TextTypes DEF FlowTyped, MaybeText
<1>1. CASE ReturnRecorded
  <2>1. 0 \in 0..NumNodes /\ "DAG_COMPLETED" \in EventType
    BY DEF EventType
  <2>2. MaxOf(Verdicts) \in DOMAIN log
    BY <1>1, <2>1, RowFacts, MaxOfInterval DEF Verdicts, ReturnRecorded
  <2>3. log[MaxOf(Verdicts)].ok \in BOOLEAN
    BY <2>1, <2>2, RowFacts DEF Event
  <2>4. LogTyped'
    BY <1>0, <1>1 DEF ReturnRecorded, LogTyped, AttemptsNumbered
  <2>5. StoreTyped'
    BY <1>0, <1>1 DEF ReturnRecorded, StoreTyped
  <2>6. FlowTyped'
    BY <1>0, <1>1 DEF ReturnRecorded, FlowTyped, Control
  <2>7. ResultTyped'
    BY <1>0, <1>1, <2>3 DEF ReturnRecorded, ResultTyped, NodeStatus
  <2> QED BY <2>4, <2>5, <2>6, <2>7
<1>2. CASE Resume
  <2>1. KeysToSkip \in SUBSET (EventType \X (0..NumNodes) \X (0..2))
    <3>1. 0 \in 0..NumNodes /\ "DAG_COMPLETED" \in EventType
      BY DEF EventType
    <3>2. \A i \in DOMAIN log : Key(log[i]) \in EventType \X (0..NumNodes) \X (0..2)
      BY <3>1, RowFacts DEF Key, Event
    <3> QED BY <3>2 DEF KeysToSkip
  <2>2. LogTyped'
    BY <1>0, <1>2, <2>1 DEF Resume, LogTyped, AttemptsNumbered
  <2>3. StoreTyped'
    BY <1>0, <1>2 DEF Resume, StoreTyped
  <2>4. FlowTyped'
    BY <1>0, <1>2, ChooseAttemptType DEF Resume, FlowTyped, Control
  <2>5. ResultTyped'
    BY <1>0, <1>2, LastOutputType DEF Resume, ResultTyped, NodeStatus
  <2> QED BY <2>2, <2>3, <2>4, <2>5
<1>3. CASE ReadFails
  <2>1. LogTyped'
    BY <1>0, <1>3 DEF ReadFails, LogTyped, AttemptsNumbered, Fault, memory
  <2>2. StoreTyped'
    BY <1>0, <1>3 DEF ReadFails, StoreTyped, memory
  <2>3. FlowTyped'
    BY <1>0, <1>3 DEF ReadFails, FlowTyped, Control, memory
  <2>4. ResultTyped'
    BY <1>0, <1>3 DEF ReadFails, ResultTyped, NodeStatus, memory
  <2> QED BY <2>1, <2>2, <2>3, <2>4
<1>4. CASE Plan
  <2> DEFINE e == DagEvent("DAG_PLANNED", FALSE)
  <2>1. e \in NumberedEvent
    BY <1>0, WrittenEvents
  <2>2. Emit(e) \/ EmitFails(e)
    BY <1>4 DEF Plan, EmitOrThrow
  <2>3. LogTyped'
    <3> HIDE DEF e
    <3> QED BY <2>1, <2>2, EmitType
  <2>4. StoreTyped'
    BY <1>0, <1>4 DEF Plan, StoreTyped
  <2>5. FlowTyped'
    BY <1>0, <1>4 DEF Plan, FlowTyped, Control, EmitOrThrow
  <2>6. ResultTyped'
    BY <1>0, <1>4 DEF Plan, ResultTyped, NodeStatus
  <2> QED BY <2>4, <2>5, <2>6, <2>3
<1>5. CASE Queue
  <2> DEFINE e == NodeEvent("NODE_QUEUED", Sorted[pos], 0)
  <2>1. e \in NumberedEvent
    BY <1>0, Sorted[pos] \in Node, WrittenEvents
  <2>2. Emit(e) \/ EmitFails(e)
    BY <1>5 DEF Queue, EmitOrThrow
  <2>3. LogTyped'
    <3> HIDE DEF e
    <3> QED BY <2>1, <2>2, EmitType
  <2>4. StoreTyped'
    BY <1>0, <1>5 DEF Queue, StoreTyped
  <2>5. FlowTyped'
    BY <1>0, <1>5 DEF Queue, FlowTyped, Control, EmitOrThrow
  <2>6. ResultTyped'
    BY <1>0, <1>5 DEF Queue, ResultTyped, NodeStatus
  <2> QED BY <2>4, <2>5, <2>6, <2>3
<1>6. CASE SkipSucceeded
  <2>1. LogTyped'
    BY <1>0, <1>6 DEF SkipSucceeded, LogTyped, AttemptsNumbered
  <2>2. StoreTyped'
    BY <1>0, <1>6 DEF SkipSucceeded, StoreTyped
  <2>3. FlowTyped'
    BY <1>0, <1>6 DEF SkipSucceeded, FlowTyped, Control, NextNode, Advance
  <2>4. ResultTyped'
    BY <1>0, <1>6 DEF SkipSucceeded, ResultTyped, NodeStatus
  <2> QED BY <2>1, <2>2, <2>3, <2>4
<1>7. CASE SkipBlocked
  <2> DEFINE e == NodeEvent("NODE_FAILED", Current, 1)
  <2>1. e \in NumberedEvent
    BY <1>0, 1 \in 1..2, WrittenEvents
  <2>2. Emit(e) \/ EmitFails(e)
    BY <1>7 DEF SkipBlocked, EmitOrThrow
  <2>3. LogTyped'
    <3> HIDE DEF e
    <3> QED BY <2>1, <2>2, EmitType
  <2>4. StoreTyped'
    BY <1>0, <1>7 DEF SkipBlocked, StoreTyped
  <2>5. FlowTyped'
    BY <1>0, <1>7 DEF SkipBlocked, FlowTyped, Control, NextNode, Advance, EmitOrThrow
  <2>6. ResultTyped'
    BY <1>0, <1>7 DEF SkipBlocked, ResultTyped, NodeStatus
  <2> QED BY <2>4, <2>5, <2>6, <2>3
<1>8. CASE GiveUp
  <2>1. LogTyped'
    BY <1>0, <1>8 DEF GiveUp, LogTyped, AttemptsNumbered
  <2>2. StoreTyped'
    BY <1>0, <1>8 DEF GiveUp, StoreTyped
  <2>3. FlowTyped'
    BY <1>0, <1>8 DEF GiveUp, FlowTyped, Control, NextNode, Advance
  <2>4. ResultTyped'
    BY <1>0, <1>8 DEF GiveUp, ResultTyped, NodeStatus
  <2> QED BY <2>1, <2>2, <2>3, <2>4
<1>9. CASE BeginNode
  <2>1. LogTyped'
    BY <1>0, <1>9 DEF BeginNode, LogTyped, AttemptsNumbered
  <2>2. StoreTyped'
    BY <1>0, <1>9 DEF BeginNode, StoreTyped
  <2>3. FlowTyped'
    BY <1>0, <1>9 DEF BeginNode, FlowTyped, Control
  <2>4. ResultTyped'
    BY <1>0, <1>9 DEF BeginNode, ResultTyped, NodeStatus
  <2> QED BY <2>1, <2>2, <2>3, <2>4
<1>10. CASE StartAttempt
  <2> DEFINE e == NodeEvent("NODE_STARTED", Current, attempt)
  <2>1. e \in NumberedEvent
    BY <1>0, WrittenEvents
  <2>2. Emit(e) \/ EmitFails(e)
    BY <1>10 DEF StartAttempt, EmitOrThrow
  <2>3. LogTyped'
    <3> HIDE DEF e
    <3> QED BY <2>1, <2>2, EmitType
  <2>4. StoreTyped'
    BY <1>0, <1>10 DEF StartAttempt, StoreTyped
  <2>5. FlowTyped'
    BY <1>0, <1>10 DEF StartAttempt, FlowTyped, Control, EmitOrThrow
  <2>6. ResultTyped'
    BY <1>0, <1>10 DEF StartAttempt, ResultTyped, NodeStatus
  <2> QED BY <2>4, <2>5, <2>6, <2>3
<1>11. CASE RunPure
  <2>1. LogTyped'
    BY <1>0, <1>11 DEF RunPure, LogTyped, AttemptsNumbered, NodeReturns, NoEmit
  <2>2. StoreTyped'
    BY <1>0, <1>11 DEF RunPure, StoreTyped, NodeReturns, NoEmit
  <2>3. FlowTyped'
    BY <1>0, <1>11 DEF RunPure, FlowTyped, Control, NodeReturns, NoEmit
  <2>4. ResultTyped'
    BY <1>0, <1>11 DEF RunPure, ResultTyped, NodeStatus, NodeReturns, NoEmit
  <2> QED BY <2>1, <2>2, <2>3, <2>4
<1>12. CASE PersistUser
  <2>1. WithRow(Current, UserText) \in Seq([node : Node, text : Text \cup {UserText}])
    BY InsertType
  <2>2. LogTyped'
    BY <1>0, <1>12 DEF PersistUser, LogTyped, AttemptsNumbered, Insert, Fault
  <2>3. StoreTyped'
    BY <1>0, <1>12, <2>1 DEF PersistUser, StoreTyped, Insert
  <2>4. FlowTyped'
    BY <1>0, <1>12 DEF PersistUser, FlowTyped, Control, Insert, NodeReturns, NodeFails
  <2>5. ResultTyped'
    BY <1>0, <1>12, OutcomeType, TextTypes DEF PersistUser, ResultTyped, NodeStatus, Insert
  <2> QED BY <2>2, <2>3, <2>4, <2>5
<1>13. CASE RequestCompletion
  <2> DEFINE e == NodeEvent("LLM_REQUESTED", Current, attempt)
  <2>1. e \in NumberedEvent
    BY <1>0, WrittenEvents
  <2>2. Emit(e) \/ EmitFails(e) \/ (UNCHANGED <<log, seen>> /\ Fault)
    BY <1>13 DEF RequestCompletion
  <2>3. LogTyped'
    <3>1. CASE Emit(e) \/ EmitFails(e)
      <4> HIDE DEF e
      <4> QED BY <2>1, <3>1, EmitType
    <3>2. CASE UNCHANGED <<log, seen>> /\ Fault
      BY <3>2 DEF LogTyped, AttemptsNumbered, Fault
    <3> QED BY <2>2, <3>1, <3>2
  <2>4. StoreTyped'
    BY <1>0, <1>13 DEF RequestCompletion, StoreTyped
  <2>5. FlowTyped'
    BY <1>0, <1>13 DEF RequestCompletion, FlowTyped, Control, NodeFails
  <2>6. ResultTyped'
    BY <1>0, <1>13, OutcomeType DEF RequestCompletion, ResultTyped, NodeStatus
  <2> QED BY <2>4, <2>5, <2>6, <2>3
<1>14. CASE ReceiveCompletion
  <2> DEFINE e == NodeEvent("LLM_COMPLETED", Current, attempt)
  <2>1. e \in NumberedEvent
    BY <1>0, WrittenEvents
  <2>2. Emit(e) \/ EmitFails(e) \/ (UNCHANGED <<log, seen, faults>>)
    BY <1>14 DEF ReceiveCompletion, NoEmit
  <2>3. LogTyped'
    <3>1. CASE Emit(e) \/ EmitFails(e)
      <4> HIDE DEF e
      <4> QED BY <2>1, <3>1, EmitType
    <3>2. CASE UNCHANGED <<log, seen, faults>>
      BY <3>2 DEF LogTyped, AttemptsNumbered, Fault
    <3> QED BY <2>2, <3>1, <3>2
  <2>4. StoreTyped'
    BY <1>0, <1>14 DEF ReceiveCompletion, StoreTyped
  <2>5. FlowTyped'
    BY <1>0, <1>14 DEF ReceiveCompletion, FlowTyped, Control, NodeFails, NodeReturns, NoEmit
  <2>6. ResultTyped'
    BY <1>0, <1>14, OutcomeType DEF ReceiveCompletion, ResultTyped, NodeStatus, NoEmit
  <2> QED BY <2>4, <2>5, <2>6, <2>3
<1>15. CASE EnforceReply
  <2> DEFINE e == TextEvent("REPLY_CONSTRAINT_EVALUATED", Current, attempt, Enforced[RawText])
  <2>1. RawText # NoText => Enforced[RawText] \in MaybeText
    BY TextTypes, TextAssumption DEF MaybeText
  <2>2. RawText # NoText => e \in NumberedEvent
    BY <1>0, <2>1, WrittenEvents
  <2>3. IF RawText = NoText THEN UNCHANGED <<log, seen, faults>> ELSE Emit(e) \/ EmitFails(e)
    BY <1>15 DEF EnforceReply, NoEmit
  <2>4. LogTyped'
    <3>1. CASE RawText # NoText
      <4> HIDE DEF e
      <4> QED BY <2>2, <2>3, <3>1, EmitType
    <3>2. CASE RawText = NoText
      BY <2>3, <3>2 DEF LogTyped, AttemptsNumbered
    <3> QED BY <3>1, <3>2
  <2>5. StoreTyped'
    BY <1>0, <1>15 DEF EnforceReply, StoreTyped
  <2>6. FlowTyped'
    BY <1>0, <1>15 DEF EnforceReply, FlowTyped, Control, NodeFails, NodeReturns
  <2>7. ResultTyped'
    BY <1>0, <1>15, <2>1, OutcomeType DEF EnforceReply, ResultTyped, NodeStatus
  <2> QED BY <2>5, <2>6, <2>7, <2>4
<1>16. CASE PersistAssistant
  <2>1. AssistantText # NoText =>
          WithRow(Current, AssistantText) \in Seq([node : Node, text : Text \cup {UserText}])
    BY TextTypes, InsertType DEF MaybeText
  <2>2. LogTyped'
    BY <1>0, <1>16 DEF PersistAssistant, LogTyped, AttemptsNumbered, Insert, Fault
  <2>3. StoreTyped'
    BY <1>0, <1>16, <2>1 DEF PersistAssistant, StoreTyped, Insert
  <2>4. FlowTyped'
    BY <1>0, <1>16 DEF PersistAssistant, FlowTyped, Control, Insert, NodeReturns, NodeFails
  <2>5. ResultTyped'
    BY <1>0, <1>16, OutcomeType, TextTypes DEF PersistAssistant, ResultTyped, NodeStatus, Insert
  <2> QED BY <2>2, <2>3, <2>4, <2>5
<1>17. CASE RunCodeChange
  <2> DEFINE e == NodeEvent(CodeChangeEvent[Kind[Current]], 0, 0)
  <2>1. e \in NumberedEvent
    BY <1>0, <1>17, WrittenEvents DEF RunCodeChange, Running
  <2>2. Emit(e) \/ EmitFails(e)
    BY <1>17 DEF RunCodeChange, Running
  <2>3. LogTyped'
    <3> HIDE DEF e
    <3> QED BY <2>1, <2>2, EmitType
  <2>4. StoreTyped'
    BY <1>0, <1>17 DEF RunCodeChange, StoreTyped
  <2>5. FlowTyped'
    BY <1>0, <1>17 DEF RunCodeChange, FlowTyped, Control, NodeFails, NodeReturns
  <2>6. ResultTyped'
    BY <1>0, <1>17, OutcomeType DEF RunCodeChange, ResultTyped, NodeStatus
  <2> QED BY <2>4, <2>5, <2>6, <2>3
<1>18. CASE Succeed
  <2> DEFINE e == TextEvent("NODE_SUCCEEDED", Current, attempt, result.text)
  <2>1. e \in NumberedEvent
    BY <1>0, WrittenEvents DEF ResultTyped
  <2>2. Emit(e) \/ EmitFails(e)
    BY <1>18 DEF Succeed, EmitOrThrow
  <2>3. LogTyped'
    <3> HIDE DEF e
    <3> QED BY <2>1, <2>2, EmitType
  <2>4. StoreTyped'
    BY <1>0, <1>18 DEF Succeed, StoreTyped
  <2>5. FlowTyped'
    BY <1>0, <1>18 DEF Succeed, FlowTyped, Control, NextNode, Advance, EmitOrThrow
  <2>6. ResultTyped'
    BY <1>0, <1>18 DEF Succeed, ResultTyped, NodeStatus
  <2> QED BY <2>4, <2>5, <2>6, <2>3
<1>19. CASE Fail
  <2> DEFINE e == NodeEvent("NODE_FAILED", Current, attempt)
  <2>1. e \in NumberedEvent
    BY <1>0, WrittenEvents
  <2>2. Emit(e) \/ EmitFails(e)
    BY <1>19 DEF Fail, EmitOrThrow
  <2>3. LogTyped'
    <3> HIDE DEF e
    <3> QED BY <2>1, <2>2, EmitType
  <2>4. StoreTyped'
    BY <1>0, <1>19 DEF Fail, StoreTyped
  <2>5. FlowTyped'
    BY <1>0, <1>19 DEF Fail, FlowTyped, Control, EmitOrThrow
  <2>6. ResultTyped'
    BY <1>0, <1>19 DEF Fail, ResultTyped, NodeStatus
  <2> QED BY <2>4, <2>5, <2>6, <2>3
<1>20. CASE ScheduleRetry
  <2> DEFINE e == NodeEvent("NODE_RETRY_SCHEDULED", Current, 0)
  <2>1. e \in NumberedEvent
    BY <1>0, WrittenEvents
  <2>2. Emit(e) \/ EmitFails(e)
    BY <1>20 DEF ScheduleRetry, EmitOrThrow
  <2>3. LogTyped'
    <3> HIDE DEF e
    <3> QED BY <2>1, <2>2, EmitType
  <2>4. StoreTyped'
    BY <1>0, <1>20 DEF ScheduleRetry, StoreTyped
  <2>5. FlowTyped'
    BY <1>0, <1>20 DEF ScheduleRetry, FlowTyped, Control, EmitOrThrow
  <2>6. ResultTyped'
    BY <1>0, <1>20 DEF ScheduleRetry, ResultTyped, NodeStatus
  <2> QED BY <2>4, <2>5, <2>6, <2>3
<1>21. CASE Complete
  <2> DEFINE e == DagEvent("DAG_COMPLETED", AllSucceeded)
  <2>1. e \in NumberedEvent
    BY <1>0, WrittenEvents DEF AllSucceeded
  <2>2. Emit(e) \/ EmitFails(e)
    BY <1>21 DEF Complete, EmitOrThrow
  <2>3. LogTyped'
    <3> HIDE DEF e
    <3> QED BY <2>1, <2>2, EmitType
  <2>4. StoreTyped'
    BY <1>0, <1>21 DEF Complete, StoreTyped
  <2>5. FlowTyped'
    BY <1>0, <1>21 DEF Complete, FlowTyped, Control, EmitOrThrow
  <2>6. ResultTyped'
    BY <1>0, <1>21 DEF Complete, ResultTyped, NodeStatus, AllSucceeded
  <2> QED BY <2>4, <2>5, <2>6, <2>3
<1>22. CASE Crash
  <2>1. LogTyped'
    BY <1>0, <1>22 DEF Crash, LogTyped, AttemptsNumbered
  <2>2. StoreTyped'
    BY <1>0, <1>22 DEF Crash, StoreTyped
  <2>3. FlowTyped'
    BY <1>0, <1>22 DEF Crash, FlowTyped, Control
  <2>4. ResultTyped'
    BY <1>0, <1>22 DEF Crash, ResultTyped, NodeStatus
  <2> QED BY <2>1, <2>2, <2>3, <2>4
<1>23. CASE Done
  <2>1. LogTyped'
    BY <1>0, <1>23 DEF Done, LogTyped, AttemptsNumbered, vars, memory
  <2>2. StoreTyped'
    BY <1>0, <1>23 DEF Done, StoreTyped, vars, memory
  <2>3. FlowTyped'
    BY <1>0, <1>23 DEF Done, FlowTyped, Control, vars, memory
  <2>4. ResultTyped'
    BY <1>0, <1>23 DEF Done, ResultTyped, NodeStatus, vars, memory
  <2> QED BY <2>1, <2>2, <2>3, <2>4
<1>24. CASE UNCHANGED vars
  <2>1. LogTyped'
    BY <1>0, <1>24 DEF LogTyped, AttemptsNumbered, vars, memory
  <2>2. StoreTyped'
    BY <1>0, <1>24 DEF StoreTyped, vars, memory
  <2>3. FlowTyped'
    BY <1>0, <1>24 DEF FlowTyped, Control, vars, memory
  <2>4. ResultTyped'
    BY <1>0, <1>24 DEF ResultTyped, NodeStatus, vars, memory
  <2> QED BY <2>1, <2>2, <2>3, <2>4
<1> QED BY <1>1, <1>2, <1>3, <1>4, <1>5, <1>6, <1>7, <1>8, <1>9, <1>10, <1>11, <1>12, <1>13,
     <1>14, <1>15, <1>16, <1>17, <1>18, <1>19, <1>20, <1>21, <1>22, <1>23, <1>24 DEF Next,
     Step

\* The initial state has the types.
LEMMA TypeInit == Init => TypeInv
<1> SUFFICES ASSUME Init PROVE TypeInv
  OBVIOUS
<1> USE NodeBounds, BoundAssumption DEF Init
<1>1. LogTyped
  BY EmptySeq DEF LogTyped, AttemptsNumbered
<1>2. StoreTyped
  BY EmptySeq DEF StoreTyped
<1>3. FlowTyped
  BY DEF FlowTyped, Control
<1>4. ResultTyped
  BY DEF ResultTyped, NodeStatus, MaybeText
<1> QED BY <1>1, <1>2, <1>3, <1>4 DEF TypeInv

\* The types hold throughout.
LEMMA TypeInvariance == Spec => []TypeInv
<1>1. TypeInv /\ [Next]_vars => TypeInv'
  BY TypeStep
<1> QED BY TypeInit, <1>1, PTL DEF Spec

\* Every variable keeps its type, for every DAG whose order is topological and
\* every number of crashes and failed calls.
THEOREM TypeCorrect == Spec => []TypeOK
<1>1. TypeInv => TypeOK
  BY DEF TypeInv, LogTyped, StoreTyped, FlowTyped, ResultTyped, TypeOK
<1> QED BY TypeInvariance, <1>1, PTL

-----------------------------------------------------------------------------
(* The shape of a step.                                                    *)

\* The events of a call in the middle of an attempt: the node survives the
\* failure of their append.
CallEvent == {"LLM_REQUESTED", "LLM_COMPLETED", "REPLY_CONSTRAINT_EVALUATED"}

\* The execution is under way.
Executing == pc \notin {"idle", "returned", "threw"}

\* The step appends e: where it stands, and whether emit remembers the key.
Writes(e) ==
  /\ e \in NumberedEvent
  /\ log' = Append(log, e) /\ Key(e) \notin seen
  /\ Executing
  /\ e.type = "DAG_COMPLETED" => pc' \in {"returned", "threw"}
  /\ e.type = "NODE_STARTED" => pc = "start" /\ e.node = Current
  /\ e.type \in CallEvent => pc \in {"run", "llm"} /\ e.node = Current /\ e.attempt = attempt
  /\ \/ seen' = seen \cup {Key(e)}
     \/ seen' = seen /\ pc' = "threw"
     \/ /\ seen' = seen /\ pc \in {"run", "llm"} /\ pc' = "settle"
        /\ e.type \in CallEvent \/ ~HasDagId(e)
        /\ UNCHANGED <<pos, attempt>>

\* The step does not touch the log; only Resume begins an execution.
Reads ==
  /\ UNCHANGED log
  /\ \/ Resume
     \/ pc' = "idle" /\ seen' \subseteq seen
     \/ UNCHANGED seen /\ (Executing' => Executing)

\* The log after an append, by position.
LEMMA AppendFacts ==
  ASSUME TypeInv, NEW e \in Event, log' = Append(log, e)
  PROVE  /\ Len(log) \in Nat /\ DOMAIN log = 1..Len(log)
         /\ DOMAIN log' = 1..(Len(log) + 1)
         /\ \A i \in DOMAIN log : log'[i] = log[i]
         /\ log'[Len(log) + 1] = e
<1>1. log \in Seq(Event)
  BY DEF TypeInv, LogTyped
<1> QED BY <1>1, AppendProperties, LenProperties

\* emit appends an event whose key it has not seen, and remembers the key when
\* it is told that the append has succeeded.
LEMMA EmitShape ==
  ASSUME NEW e
  PROVE  /\ Emit(e) => \/ UNCHANGED <<log, seen>>
                       \/ /\ log' = Append(log, e) /\ Key(e) \notin seen
                          /\ seen' = seen \cup {Key(e)}
         /\ EmitFails(e) => \/ UNCHANGED <<log, seen>>
                            \/ log' = Append(log, e) /\ Key(e) \notin seen /\ seen' = seen
<1>1. Emit(e) => \/ UNCHANGED <<log, seen>>
                 \/ /\ log' = Append(log, e) /\ Key(e) \notin seen
                    /\ seen' = seen \cup {Key(e)}
  BY DEF Emit
<1>2. EmitFails(e) => \/ UNCHANGED <<log, seen>>
                      \/ log' = Append(log, e) /\ Key(e) \notin seen /\ seen' = seen
  BY DEF EmitFails
<1> QED BY <1>1, <1>2

\* Every step reads the log or appends one event to it.
LEMMA StepShape ==
  ASSUME TypeInv, [Next]_vars
  PROVE  Reads \/ \E e \in NumberedEvent : Writes(e)
<1>0. Current \in Node /\ attempt \in 1..2 /\ pos \in Node /\ NoText \in MaybeText
  BY TextTypes DEF MaybeText, TypeInv, FlowTyped
<1>r. result.text \in MaybeText
  BY DEF TypeInv, ResultTyped
<1>n. /\ 1 \in 1..2 /\ 0 \in 0..2 /\ 0 \in 0..NumNodes
      /\ Current \in 0..NumNodes /\ attempt \in 0..2
      /\ Sorted[pos] \in Node /\ Sorted[pos] \in 0..NumNodes
  BY <1>0, NodeTables, NodeBounds DEF Node
<1>t. {"DAG_PLANNED", "NODE_QUEUED", "NODE_STARTED", "NODE_SUCCEEDED", "NODE_FAILED",
       "NODE_RETRY_SCHEDULED", "DAG_COMPLETED", "LLM_REQUESTED", "LLM_COMPLETED",
       "REPLY_CONSTRAINT_EVALUATED"} \subseteq EventType
  BY DEF EventType
<1> USE DEF Executing
<1>1. CASE Plan
  <2> DEFINE e == DagEvent("DAG_PLANNED", FALSE)
  <2>1. e \in NumberedEvent
    BY <1>0, <1>n, WrittenEvents
  <2>2. e.type = "DAG_PLANNED"
    BY <1>0, <1>n, <1>t, DagEventFields
  <2>3. Emit(e) \/ (EmitFails(e) /\ pc' = "threw")
    BY <1>1 DEF Plan, EmitOrThrow
  <2>4. Executing
    BY <1>1 DEF Plan, EmitOrThrow
  <2> HIDE DEF e
  <2> QED BY <2>1, <2>2, <2>3, <2>4, EmitShape DEF Reads, Writes, CallEvent
<1>2. CASE Queue
  <2> DEFINE e == NodeEvent("NODE_QUEUED", Sorted[pos], 0)
  <2>1. e \in NumberedEvent
    BY <1>0, <1>n, WrittenEvents
  <2>2. e.type = "NODE_QUEUED"
    BY <1>0, <1>n, <1>t, NodeEventFields
  <2>3. Emit(e) \/ (EmitFails(e) /\ pc' = "threw")
    BY <1>2 DEF Queue, EmitOrThrow
  <2>4. Executing
    BY <1>2 DEF Queue, EmitOrThrow
  <2> HIDE DEF e
  <2> QED BY <2>1, <2>2, <2>3, <2>4, EmitShape DEF Reads, Writes, CallEvent
<1>3. CASE SkipBlocked
  <2> DEFINE e == NodeEvent("NODE_FAILED", Current, 1)
  <2>1. e \in NumberedEvent
    BY <1>0, <1>n, WrittenEvents
  <2>2. e.type = "NODE_FAILED"
    BY <1>0, <1>n, <1>t, NodeEventFields
  <2>3. Emit(e) \/ (EmitFails(e) /\ pc' = "threw")
    BY <1>3 DEF SkipBlocked, EmitOrThrow
  <2>4. Executing
    BY <1>3 DEF SkipBlocked, EmitOrThrow
  <2> HIDE DEF e
  <2> QED BY <2>1, <2>2, <2>3, <2>4, EmitShape DEF Reads, Writes, CallEvent
<1>4. CASE StartAttempt
  <2> DEFINE e == NodeEvent("NODE_STARTED", Current, attempt)
  <2>1. e \in NumberedEvent
    BY <1>0, <1>n, WrittenEvents
  <2>2. e.type = "NODE_STARTED" /\ e.node = Current
    BY <1>0, <1>n, <1>t, NodeEventFields
  <2>3. Emit(e) \/ (EmitFails(e) /\ pc' = "threw")
    BY <1>4 DEF StartAttempt, EmitOrThrow
  <2>4. Executing /\ pc = "start"
    BY <1>4 DEF StartAttempt, EmitOrThrow
  <2> HIDE DEF e
  <2> QED BY <2>1, <2>2, <2>3, <2>4, EmitShape DEF Reads, Writes, CallEvent
<1>5. CASE Succeed
  <2> DEFINE e == TextEvent("NODE_SUCCEEDED", Current, attempt, result.text)
  <2>1. e \in NumberedEvent
    BY <1>0, <1>n, <1>r, WrittenEvents
  <2>2. e.type = "NODE_SUCCEEDED"
    BY <1>0, <1>n, <1>t, <1>r, TextEventFields
  <2>3. Emit(e) \/ (EmitFails(e) /\ pc' = "threw")
    BY <1>5 DEF Succeed, EmitOrThrow
  <2>4. Executing
    BY <1>5 DEF Succeed, EmitOrThrow
  <2> HIDE DEF e
  <2> QED BY <2>1, <2>2, <2>3, <2>4, EmitShape DEF Reads, Writes, CallEvent
<1>6. CASE Fail
  <2> DEFINE e == NodeEvent("NODE_FAILED", Current, attempt)
  <2>1. e \in NumberedEvent
    BY <1>0, <1>n, WrittenEvents
  <2>2. e.type = "NODE_FAILED"
    BY <1>0, <1>n, <1>t, NodeEventFields
  <2>3. Emit(e) \/ (EmitFails(e) /\ pc' = "threw")
    BY <1>6 DEF Fail, EmitOrThrow
  <2>4. Executing
    BY <1>6 DEF Fail, EmitOrThrow
  <2> HIDE DEF e
  <2> QED BY <2>1, <2>2, <2>3, <2>4, EmitShape DEF Reads, Writes, CallEvent
<1>7. CASE ScheduleRetry
  <2> DEFINE e == NodeEvent("NODE_RETRY_SCHEDULED", Current, 0)
  <2>1. e \in NumberedEvent
    BY <1>0, <1>n, WrittenEvents
  <2>2. e.type = "NODE_RETRY_SCHEDULED"
    BY <1>0, <1>n, <1>t, NodeEventFields
  <2>3. Emit(e) \/ (EmitFails(e) /\ pc' = "threw")
    BY <1>7 DEF ScheduleRetry, EmitOrThrow
  <2>4. Executing
    BY <1>7 DEF ScheduleRetry, EmitOrThrow
  <2> HIDE DEF e
  <2> QED BY <2>1, <2>2, <2>3, <2>4, EmitShape DEF Reads, Writes, CallEvent
<1>8. CASE Complete
  <2> DEFINE e == DagEvent("DAG_COMPLETED", AllSucceeded)
  <2>1. e \in NumberedEvent
    BY <1>0, <1>n, WrittenEvents DEF AllSucceeded
  <2>2. e.type = "DAG_COMPLETED"
    BY <1>0, <1>n, <1>t, DagEventFields DEF AllSucceeded
  <2>3. Emit(e) \/ (EmitFails(e) /\ pc' = "threw")
    BY <1>8 DEF Complete, EmitOrThrow
  <2>4. Executing /\ pc' \in {"returned", "threw"}
    BY <1>8 DEF Complete, EmitOrThrow
  <2> HIDE DEF e
  <2> QED BY <2>1, <2>2, <2>3, <2>4, EmitShape DEF Reads, Writes, CallEvent
<1>9. CASE RequestCompletion
  <2> DEFINE e == NodeEvent("LLM_REQUESTED", Current, attempt)
  <2>1. e \in NumberedEvent
    BY <1>0, <1>n, <1>9, WrittenEvents DEF RequestCompletion, Running
  <2>2. e.type = "LLM_REQUESTED" /\ e.node = Current /\ e.attempt = attempt
    BY <1>0, <1>n, <1>t, NodeEventFields
  <2>3. Emit(e) \/ (EmitFails(e) /\ pc' = "settle") \/ UNCHANGED <<log, seen>>
    BY <1>9 DEF RequestCompletion, NodeFails
  <2>4. pc \in {"run", "llm"} /\ UNCHANGED <<pos, attempt>>
    BY <1>9 DEF RequestCompletion, Running
  <2> HIDE DEF e
  <2> QED BY <2>1, <2>2, <2>3, <2>4, EmitShape DEF Reads, Writes, CallEvent
<1>10. CASE ReceiveCompletion
  <2> DEFINE e == NodeEvent("LLM_COMPLETED", Current, attempt)
  <2>1. e \in NumberedEvent
    BY <1>0, <1>n, <1>10, WrittenEvents DEF ReceiveCompletion, Running
  <2>2. e.type = "LLM_COMPLETED" /\ e.node = Current /\ e.attempt = attempt
    BY <1>0, <1>n, <1>t, NodeEventFields
  <2>3. Emit(e) \/ (EmitFails(e) /\ pc' = "settle") \/ UNCHANGED <<log, seen>>
    BY <1>10 DEF ReceiveCompletion, NodeFails, NoEmit
  <2>4. pc \in {"run", "llm"} /\ UNCHANGED <<pos, attempt>>
    BY <1>10 DEF ReceiveCompletion, Running
  <2> HIDE DEF e
  <2> QED BY <2>1, <2>2, <2>3, <2>4, EmitShape DEF Reads, Writes, CallEvent
<1>11. CASE EnforceReply
  <2> DEFINE e == TextEvent("REPLY_CONSTRAINT_EVALUATED", Current, attempt, Enforced[RawText])
  <2>1. CASE RawText = NoText
    BY <1>11, <2>1 DEF Reads, EnforceReply, Running, NoEmit
  <2>2. CASE RawText # NoText
    <3>1. Enforced[RawText] \in MaybeText
      BY <2>2, TextTypes, TextAssumption DEF MaybeText
    <3>2. e \in NumberedEvent
      BY <1>0, <3>1, WrittenEvents
    <3>3. e.type = "REPLY_CONSTRAINT_EVALUATED" /\ e.node = Current /\ e.attempt = attempt
      BY <1>0, <1>n, <1>t, <3>1, TextEventFields
    <3>4. Emit(e) \/ (EmitFails(e) /\ pc' = "settle")
      BY <1>11, <2>2 DEF EnforceReply, NodeFails
    <3>5. pc \in {"run", "llm"} /\ UNCHANGED <<pos, attempt>>
      BY <1>11 DEF EnforceReply, Running
    <3> HIDE DEF e
    <3> QED BY <3>2, <3>3, <3>4, <3>5, EmitShape DEF Reads, Writes, CallEvent
  <2> QED BY <2>1, <2>2
<1>12. CASE RunCodeChange
  <2> DEFINE e == NodeEvent(CodeChangeEvent[Kind[Current]], 0, 0)
  <2>1. e \in NumberedEvent
    BY <1>0, <1>n, <1>12, WrittenEvents DEF RunCodeChange, Running
  <2>2. ~HasDagId(e) /\ e.type \notin CallEvent /\ e.type \notin {"DAG_COMPLETED", "NODE_STARTED"}
    <3>1. CodeChangeEvent[Kind[Current]] \in EventType
      BY <1>12 DEF EventType, RunCodeChange, Running
    <3>2. e.type = CodeChangeEvent[Kind[Current]]
      BY <1>n, <3>1, NodeEventFields
    <3> QED BY <1>12, <3>2, CodeChangeTypes DEF HasDagId, CallEvent, RunCodeChange, Running
  <2>3. Emit(e) \/ (EmitFails(e) /\ pc' = "settle")
    BY <1>12 DEF RunCodeChange, NodeFails
  <2>4. pc \in {"run", "llm"} /\ UNCHANGED <<pos, attempt>>
    BY <1>12 DEF RunCodeChange, Running
  <2> HIDE DEF e
  <2> QED BY <2>1, <2>2, <2>3, <2>4, EmitShape DEF Reads, Writes, CallEvent
<1>13. CASE ReturnRecorded
  BY <1>13 DEF Reads, ReturnRecorded
<1>14. CASE Resume
  BY <1>14 DEF Reads, Resume
<1>15. CASE ReadFails
  BY <1>15 DEF Reads, ReadFails, memory
<1>16. CASE SkipSucceeded
  BY <1>16 DEF Reads, SkipSucceeded
<1>17. CASE GiveUp
  BY <1>17 DEF Reads, GiveUp
<1>18. CASE BeginNode
  BY <1>18 DEF Reads, BeginNode
<1>19. CASE RunPure
  BY <1>19 DEF Reads, RunPure, Running, NoEmit
<1>20. CASE PersistUser
  BY <1>20 DEF Reads, PersistUser, Running
<1>21. CASE PersistAssistant
  BY <1>21 DEF Reads, PersistAssistant, Running
<1>22. CASE Crash
  BY <1>22 DEF Reads, Crash
<1>23. CASE Done
  BY <1>23 DEF Reads, Done, vars, memory
<1>24. CASE UNCHANGED vars
  BY <1>24 DEF Reads, vars, memory
<1> QED BY <1>1, <1>2, <1>3, <1>4, <1>5, <1>6, <1>7, <1>8, <1>9, <1>10, <1>11, <1>12, <1>13,
     <1>14, <1>15, <1>16, <1>17, <1>18, <1>19, <1>20, <1>21, <1>22, <1>23, <1>24 DEF Next,
     Step

\* A step stores a row of the current node, or none, and only an execution
\* stores or asks the model.
LEMMA StoreShape ==
  ASSUME TypeInv, [Next]_vars
  PROVE  /\ \/ UNCHANGED messages
            \/ \E t \in Text \cup {UserText} : messages' = WithRow(Current, t)
         /\ ~Executing => UNCHANGED <<messages, calls>>
<1>0. AssistantText # NoText => AssistantText \in Text
  BY TextTypes DEF MaybeText
<1> USE DEF Executing
<1>1. CASE ReturnRecorded
  BY <1>1 DEF ReturnRecorded
<1>2. CASE Resume
  BY <1>2 DEF Resume
<1>3. CASE ReadFails
  BY <1>3 DEF ReadFails, memory
<1>4. CASE Plan
  BY <1>4 DEF Plan
<1>5. CASE Queue
  BY <1>5 DEF Queue
<1>6. CASE SkipSucceeded
  BY <1>6 DEF SkipSucceeded
<1>7. CASE SkipBlocked
  BY <1>7 DEF SkipBlocked
<1>8. CASE GiveUp
  BY <1>8 DEF GiveUp
<1>9. CASE BeginNode
  BY <1>9 DEF BeginNode
<1>10. CASE StartAttempt
  BY <1>10 DEF StartAttempt
<1>11. CASE RunPure
  BY <1>11 DEF RunPure
<1>12. CASE PersistUser
  BY <1>12 DEF PersistUser, Running, Insert
<1>13. CASE RequestCompletion
  BY <1>13 DEF RequestCompletion, Running
<1>14. CASE ReceiveCompletion
  BY <1>14 DEF ReceiveCompletion
<1>15. CASE EnforceReply
  BY <1>15 DEF EnforceReply
<1>16. CASE PersistAssistant
  BY <1>0, <1>16 DEF PersistAssistant, Running, Insert
<1>17. CASE RunCodeChange
  BY <1>17 DEF RunCodeChange
<1>18. CASE Succeed
  BY <1>18 DEF Succeed
<1>19. CASE Fail
  BY <1>19 DEF Fail
<1>20. CASE ScheduleRetry
  BY <1>20 DEF ScheduleRetry
<1>21. CASE Complete
  BY <1>21 DEF Complete
<1>22. CASE Crash
  BY <1>22 DEF Crash
<1>23. CASE Done
  BY <1>23 DEF Done, vars, memory
<1>24. CASE UNCHANGED vars
  BY <1>24 DEF vars, memory
<1> QED BY <1>1, <1>2, <1>3, <1>4, <1>5, <1>6, <1>7, <1>8, <1>9, <1>10, <1>11, <1>12, <1>13,
     <1>14, <1>15, <1>16, <1>17, <1>18, <1>19, <1>20, <1>21, <1>22, <1>23, <1>24 DEF Next,
     Step

-----------------------------------------------------------------------------
(* One message for each node.                                              *)

\* No step stores a second message of a node.
LEMMA OneMessageStep ==
  ASSUME TypeInv, OneMessagePerNode, [Next]_vars
  PROVE  OneMessagePerNode'
<1>1. CASE UNCHANGED messages
  BY <1>1 DEF OneMessagePerNode
<1>2. ASSUME NEW t \in Text \cup {UserText}, messages' = WithRow(Current, t),
             ~UNCHANGED messages
      PROVE  OneMessagePerNode'
  <2> DEFINE MessageSet == [node : Node, text : Text \cup {UserText}]
             r == Row(Current, t)
  <2>1. messages \in Seq(MessageSet) /\ r \in MessageSet /\ r.node = Current
    BY TextTypes DEF Row, TypeInv, StoreTyped
  <2>2. messages' = Append(messages, r) /\ \A i \in DOMAIN messages : messages[i].node # Current
    BY <1>2 DEF WithRow
  <2>3. /\ DOMAIN messages = 1..Len(messages) /\ Len(messages) \in Nat
        /\ DOMAIN messages' = 1..(Len(messages) + 1)
        /\ \A i \in DOMAIN messages : messages'[i] = messages[i]
        /\ messages'[Len(messages) + 1] = r
    <3> HIDE DEF MessageSet, r
    <3> QED BY <2>1, <2>2, AppendProperties, LenProperties
  <2>4. r.node = Current
    BY <2>1
  <2> HIDE DEF r
  <2> QED BY <2>2, <2>3, <2>4 DEF OneMessagePerNode
<1> QED BY <1>1, <1>2, StoreShape

\* A node stores one message for every interleaving of crashes, failed inserts
\* and retries: insertMessage does nothing when the row is there.
THEOREM OneMessage == Spec => []OneMessagePerNode
<1>1. Init => OneMessagePerNode
  BY DEF Init, OneMessagePerNode
<1>2. TypeInv /\ OneMessagePerNode /\ [Next]_vars => OneMessagePerNode'
  BY OneMessageStep
<1> QED BY TypeInvariance, <1>1, <1>2, PTL DEF Spec

-----------------------------------------------------------------------------
(* The verdict is the end.                                                 *)

\* No execution is under way once the log has a verdict.
VerdictInv == Executing => Verdicts = {}

\* No step logs a verdict and goes on.
LEMMA VerdictStep ==
  ASSUME TypeInv, VerdictInv, [Next]_vars
  PROVE  VerdictInv'
<1>1. CASE Reads
  <2>1. Verdicts' = Verdicts
    BY <1>1 DEF Reads, Verdicts, Rows
  <2>2. Executing' => Executing \/ Resume
    BY <1>1 DEF Reads, Executing
  <2> QED BY <2>1, <2>2 DEF VerdictInv, Resume
<1>2. ASSUME NEW e \in NumberedEvent, Writes(e) PROVE VerdictInv'
  <2>1. Executing /\ log' = Append(log, e) /\ e \in Event
    BY <1>2 DEF Writes, NumberedEvent
  <2>2. CASE e.type = "DAG_COMPLETED"
    BY <1>2, <2>2 DEF Writes, VerdictInv, Executing
  <2>3. CASE e.type # "DAG_COMPLETED"
    BY <2>1, <2>3, AppendFacts DEF VerdictInv, Verdicts, Rows
  <2> QED BY <2>2, <2>3
<1> QED BY <1>1, <1>2, StepShape

\* The log has no verdict while an execution is under way.
LEMMA VerdictInvariance == Spec => [](TypeInv /\ VerdictInv)
<1>1. Init => VerdictInv
  BY DEF Init, VerdictInv, Executing
<1>2. TypeInv /\ VerdictInv /\ [Next]_vars => VerdictInv'
  BY VerdictStep
<1> QED BY TypeInvariance, <1>1, <1>2, PTL DEF Spec

\* Once the verdict is logged nothing is logged or stored and the model is not
\* asked, however often the job is delivered again.
THEOREM VerdictIsFinal == Spec => NothingAfterVerdict
<1>1. TypeInv /\ VerdictInv /\ [Next]_vars =>
        [Verdicts # {} => UNCHANGED <<log, messages, calls>>]_vars
  <2> SUFFICES ASSUME TypeInv, VerdictInv, [Next]_vars, Verdicts # {}
               PROVE  UNCHANGED <<log, messages, calls>>
    OBVIOUS
  <2>1. ~Executing
    BY DEF VerdictInv
  <2>2. UNCHANGED log
    BY <2>1, StepShape DEF Reads, Writes
  <2> QED BY <2>1, <2>2, StoreShape
<1> QED BY VerdictInvariance, <1>1, PTL DEF Spec, NothingAfterVerdict

-----------------------------------------------------------------------------
(* The order of the DAG.                                                   *)

\* A node is being executed.
InNode == pc \in {"start", "run", "llm", "settle", "retry"}

\* A node is entered by BeginNode, and its dependencies stay as they are until
\* it is left.
LEMMA NodeShape ==
  ASSUME TypeInv, [Next]_vars, InNode'
  PROVE  BeginNode \/ (InNode /\ UNCHANGED <<pos, status>>)
<1> USE DEF InNode
<1>1. CASE ReturnRecorded
  BY <1>1 DEF ReturnRecorded
<1>2. CASE Resume
  BY <1>2 DEF Resume
<1>3. CASE ReadFails
  BY <1>3 DEF ReadFails, memory
<1>4. CASE Plan
  BY <1>4 DEF Plan, EmitOrThrow
<1>5. CASE Queue
  BY <1>5 DEF Queue, EmitOrThrow
<1>6. CASE SkipSucceeded
  BY <1>6 DEF SkipSucceeded, NextNode
<1>7. CASE SkipBlocked
  BY <1>7 DEF SkipBlocked, EmitOrThrow, NextNode
<1>8. CASE GiveUp
  BY <1>8 DEF GiveUp, NextNode
<1>9. CASE BeginNode
  BY <1>9 DEF BeginNode
<1>10. CASE StartAttempt
  BY <1>10 DEF StartAttempt, EmitOrThrow
<1>11. CASE RunPure
  BY <1>11 DEF RunPure, Running, NodeReturns
<1>12. CASE PersistUser
  BY <1>12 DEF PersistUser, Running, Insert, NodeReturns, NodeFails
<1>13. CASE RequestCompletion
  BY <1>13 DEF RequestCompletion, Running, NodeFails
<1>14. CASE ReceiveCompletion
  BY <1>14 DEF ReceiveCompletion, NodeReturns, NodeFails
<1>15. CASE EnforceReply
  BY <1>15 DEF EnforceReply, Running, NodeReturns, NodeFails
<1>16. CASE PersistAssistant
  BY <1>16 DEF PersistAssistant, Running, Insert, NodeReturns, NodeFails
<1>17. CASE RunCodeChange
  BY <1>17 DEF RunCodeChange, Running, NodeReturns, NodeFails
<1>18. CASE Succeed
  BY <1>18 DEF Succeed, EmitOrThrow, NextNode
<1>19. CASE Fail
  BY <1>19 DEF Fail, EmitOrThrow
<1>20. CASE ScheduleRetry
  BY <1>20 DEF ScheduleRetry, EmitOrThrow
<1>21. CASE Complete
  BY <1>21 DEF Complete, EmitOrThrow
<1>22. CASE Crash
  BY <1>22 DEF Crash
<1>23. CASE Done
  BY <1>23 DEF Done, vars, memory
<1>24. CASE UNCHANGED vars
  BY <1>24 DEF vars, memory
<1> QED BY <1>1, <1>2, <1>3, <1>4, <1>5, <1>6, <1>7, <1>8, <1>9, <1>10, <1>11, <1>12, <1>13,
     <1>14, <1>15, <1>16, <1>17, <1>18, <1>19, <1>20, <1>21, <1>22, <1>23, <1>24 DEF Next,
     Step

\* A node comes to count as succeeded by Resume or by Succeed.
LEMMA StatusShape ==
  ASSUME TypeInv, [Next]_vars, Executing', NEW n \in Node, status'[n] = "SUCCEEDED"
  PROVE  \/ Executing /\ status[n] = "SUCCEEDED"
         \/ Resume /\ MateriallySucceeded(n)
         \/ Succeed /\ n = Current /\ pc' # "threw"
<1>0. Current \in Node /\ status \in [Node -> NodeStatus]
  BY TextTypes DEF TypeInv, ResultTyped
<1> USE DEF Executing
<1>1. CASE ReturnRecorded
  BY <1>0, <1>1 DEF ReturnRecorded
<1>2. CASE Resume
  BY <1>0, <1>2 DEF Resume
<1>3. CASE ReadFails
  BY <1>0, <1>3 DEF ReadFails, memory
<1>4. CASE Plan
  BY <1>0, <1>4 DEF Plan, EmitOrThrow
<1>5. CASE Queue
  BY <1>0, <1>5 DEF Queue, EmitOrThrow
<1>6. CASE SkipSucceeded
  BY <1>0, <1>6 DEF SkipSucceeded, NextNode
<1>7. CASE SkipBlocked
  BY <1>0, <1>7 DEF SkipBlocked, EmitOrThrow, NextNode
<1>8. CASE GiveUp
  BY <1>0, <1>8 DEF GiveUp, NextNode
<1>9. CASE BeginNode
  BY <1>0, <1>9 DEF BeginNode
<1>10. CASE StartAttempt
  BY <1>0, <1>10 DEF StartAttempt, EmitOrThrow
<1>11. CASE RunPure
  BY <1>0, <1>11 DEF RunPure, Running, NodeReturns
<1>12. CASE PersistUser
  BY <1>0, <1>12 DEF PersistUser, Running, Insert, NodeReturns, NodeFails
<1>13. CASE RequestCompletion
  BY <1>0, <1>13 DEF RequestCompletion, Running, NodeFails
<1>14. CASE ReceiveCompletion
  BY <1>0, <1>14 DEF ReceiveCompletion, NodeReturns, NodeFails
<1>15. CASE EnforceReply
  BY <1>0, <1>15 DEF EnforceReply, Running, NodeReturns, NodeFails
<1>16. CASE PersistAssistant
  BY <1>0, <1>16 DEF PersistAssistant, Running, Insert, NodeReturns, NodeFails
<1>17. CASE RunCodeChange
  BY <1>0, <1>17 DEF RunCodeChange, Running, NodeReturns, NodeFails
<1>18. CASE Succeed
  BY <1>0, <1>18 DEF Succeed, EmitOrThrow, NextNode
<1>19. CASE Fail
  BY <1>0, <1>19 DEF Fail, EmitOrThrow
<1>20. CASE ScheduleRetry
  BY <1>0, <1>20 DEF ScheduleRetry, EmitOrThrow
<1>21. CASE Complete
  BY <1>0, <1>21 DEF Complete, EmitOrThrow
<1>22. CASE Crash
  BY <1>0, <1>22 DEF Crash
<1>23. CASE Done
  BY <1>0, <1>23 DEF Done, vars, memory
<1>24. CASE UNCHANGED vars
  BY <1>0, <1>24 DEF vars, memory
<1> QED BY <1>1, <1>2, <1>3, <1>4, <1>5, <1>6, <1>7, <1>8, <1>9, <1>10, <1>11, <1>12, <1>13,
     <1>14, <1>15, <1>16, <1>17, <1>18, <1>19, <1>20, <1>21, <1>22, <1>23, <1>24 DEF Next,
     Step

\* What the executor remembers is in the log: its keys and its successes.  The
\* dependencies of the node in hand have succeeded.
SeenLogged == \A k \in seen : \E i \in DOMAIN log : Key(log[i]) = k

SuccessLogged ==
  Executing => \A n \in Node : status[n] = "SUCCEEDED" => Rows("NODE_SUCCEEDED", n) # {}

DepsSucceeded == InNode => \A d \in Deps[Current] : status[d] = "SUCCEEDED"

OrderInv == StartedAfterDeps /\ SeenLogged /\ SuccessLogged /\ DepsSucceeded

\* The log only grows.
LEMMA LogGrows ==
  ASSUME TypeInv, [Next]_vars
  PROVE  /\ DOMAIN log \subseteq DOMAIN log' /\ \A i \in DOMAIN log : log'[i] = log[i]
         /\ \A t, n : Rows(t, n) \subseteq Rows(t, n)'
<1>1. DOMAIN log \subseteq DOMAIN log' /\ \A i \in DOMAIN log : log'[i] = log[i]
  <2>1. CASE UNCHANGED log
    BY <2>1
  <2>2. ASSUME NEW e \in NumberedEvent, Writes(e)
        PROVE  DOMAIN log \subseteq DOMAIN log' /\ \A i \in DOMAIN log : log'[i] = log[i]
    <3>1. log' = Append(log, e) /\ e \in Event
      BY <2>2 DEF Writes, NumberedEvent
    <3> QED BY <3>1, AppendFacts
  <2> QED BY <2>1, <2>2, StepShape DEF Reads
<1> QED BY <1>1 DEF Rows

\* emit remembers a key only after its append.
LEMMA SeenLoggedStep ==
  ASSUME TypeInv, SeenLogged, [Next]_vars
  PROVE  SeenLogged'
<1>0. DOMAIN log \subseteq DOMAIN log' /\ \A i \in DOMAIN log : log'[i] = log[i]
  BY LogGrows
<1>1. CASE Reads
  <2>1. seen' \subseteq seen \/ Resume
    BY <1>1 DEF Reads
  <2>2. CASE Resume
    BY <2>2 DEF Resume, KeysToSkip, SeenLogged
  <2>3. CASE seen' \subseteq seen
    BY <1>1, <2>3 DEF Reads, SeenLogged
  <2> QED BY <2>1, <2>2, <2>3
<1>2. ASSUME NEW e \in NumberedEvent, Writes(e) PROVE SeenLogged'
  <2>1. seen' \subseteq seen \cup {Key(e)} /\ log' = Append(log, e) /\ e \in Event
    BY <1>2 DEF Writes, NumberedEvent
  <2>2. Len(log) + 1 \in DOMAIN log' /\ log'[Len(log) + 1] = e
    BY <2>1, AppendFacts
  <2>3. ASSUME NEW k \in seen' PROVE \E i \in DOMAIN log' : Key(log'[i]) = k
    <3>1. CASE k = Key(e)
      BY <2>2, <3>1
    <3>2. CASE k \in seen
      BY <1>0, <3>2 DEF SeenLogged
    <3> QED BY <2>1, <3>1, <3>2
  <2>4. \A i : Key(log[i])' = Key(log'[i])
    BY DEF Key
  <2> QED BY <2>3, <2>4 DEF SeenLogged, Key
<1> QED BY <1>1, <1>2, StepShape

\* A node is marked SUCCEEDED for good only after its event was logged.
LEMMA SuccessLoggedStep ==
  ASSUME TypeInv, SeenLogged, SuccessLogged, [Next]_vars
  PROVE  SuccessLogged'
<1> SUFFICES ASSUME Executing', NEW n \in Node, status'[n] = "SUCCEEDED"
             PROVE  Rows("NODE_SUCCEEDED", n)' # {}
  BY DEF SuccessLogged
<1>1. CASE Executing /\ status[n] = "SUCCEEDED"
  BY <1>1, LogGrows DEF SuccessLogged
<1>2. CASE Resume /\ MateriallySucceeded(n)
  BY <1>2, LogGrows DEF MateriallySucceeded
<1>3. CASE Succeed /\ n = Current /\ pc' # "threw"
  <2> DEFINE e == TextEvent("NODE_SUCCEEDED", Current, attempt, result.text)
  <2>1. e.type = "NODE_SUCCEEDED" /\ e.node = n
    <3>1. Current \in 0..NumNodes /\ attempt \in 0..2
      BY TextTypes, NodeBounds DEF Node, TypeInv, FlowTyped
    <3>2. result.text \in MaybeText /\ "NODE_SUCCEEDED" \in EventType
      BY DEF TypeInv, ResultTyped, EventType
    <3> QED BY <1>3, <3>1, <3>2, TextEventFields
  <2>2. Emit(e)
    BY <1>3 DEF Succeed, EmitOrThrow
  <2>3. Key(e) \in seen'
    <3> HIDE DEF e
    <3> QED BY <2>2 DEF Emit
  <2>4. PICK i \in DOMAIN log' : Key(log'[i]) = Key(e)
    <3>1. SeenLogged'
      BY SeenLoggedStep
    <3> HIDE DEF e
    <3> QED BY <2>3, <3>1 DEF SeenLogged, Key
  <2>5. log'[i].type = "NODE_SUCCEEDED" /\ log'[i].node = n
    <3> HIDE DEF e
    <3> QED BY <2>1, <2>4 DEF Key
  <2> QED BY <2>5 DEF Rows
<1> QED BY <1>1, <1>2, <1>3, StatusShape

\* A node is entered only when nothing blocks it.
LEMMA DepsSucceededStep ==
  ASSUME TypeInv, DepsSucceeded, [Next]_vars
  PROVE  DepsSucceeded'
<1> SUFFICES ASSUME InNode' PROVE (\A d \in Deps[Current] : status[d] = "SUCCEEDED")'
  BY DEF DepsSucceeded
<1>0. Current \in Node /\ status \in [Node -> NodeStatus] /\ Deps[Current] \subseteq Node
  BY TextTypes, DagAssumption DEF TypeInv, ResultTyped
<1>1. CASE BeginNode
  BY <1>0, <1>1 DEF BeginNode, Blocked, Current
<1>2. CASE InNode /\ UNCHANGED <<pos, status>>
  BY <1>2 DEF DepsSucceeded, Current
<1> QED BY <1>1, <1>2, NodeShape

\* The event that starts a node follows the successes of its dependencies.
LEMMA StartedStep ==
  ASSUME TypeInv, OrderInv, [Next]_vars
  PROVE  StartedAfterDeps'
<1>0. \A t, n : Rows(t, n) \subseteq Rows(t, n)'
  BY LogGrows
<1>1. CASE Reads
  BY <1>1 DEF Reads, OrderInv, StartedAfterDeps, Rows
<1>2. ASSUME NEW e \in NumberedEvent, Writes(e) PROVE StartedAfterDeps'
  <2>1. log' = Append(log, e) /\ e \in Event
    BY <1>2 DEF Writes, NumberedEvent
  <2>2. /\ Len(log) \in Nat /\ DOMAIN log = 1..Len(log)
        /\ DOMAIN log' = 1..(Len(log) + 1)
        /\ \A i \in DOMAIN log : log'[i] = log[i]
        /\ log'[Len(log) + 1] = e
    BY <2>1, AppendFacts
  <2> SUFFICES ASSUME NEW j \in DOMAIN log', log'[j].type = "NODE_STARTED",
                      NEW d \in Deps[log'[j].node]
               PROVE  \E i \in Rows("NODE_SUCCEEDED", d)' : i < j
    BY DEF StartedAfterDeps
  <2>3. CASE j \in DOMAIN log
    <3>1. \E i \in Rows("NODE_SUCCEEDED", d) : i < j
      BY <2>2, <2>3 DEF OrderInv, StartedAfterDeps
    <3> QED BY <1>0, <3>1
  <2>4. CASE j = Len(log) + 1
    <3>1. pc = "start" /\ e.node = Current
      BY <1>2, <2>2, <2>4 DEF Writes
    <3>2. status[d] = "SUCCEEDED" /\ d \in Node
      BY <2>2, <2>4, <3>1, TextTypes, DagAssumption DEF OrderInv, DepsSucceeded, InNode
    <3>3. Rows("NODE_SUCCEEDED", d) # {}
      BY <3>1, <3>2 DEF OrderInv, SuccessLogged, Executing
    <3>4. PICK i \in Rows("NODE_SUCCEEDED", d) : TRUE
      BY <3>3
    <3>5. i \in DOMAIN log
      BY <3>4 DEF Rows
    <3> QED BY <1>0, <2>2, <2>4, <3>4, <3>5
  <2> QED BY <2>2, <2>3, <2>4
<1> QED BY <1>1, <1>2, StepShape

\* No node is started before each of its dependencies has succeeded, whatever
\* part of the DAG was executed before a crash.
THEOREM OrderKept == Spec => []StartedAfterDeps
<1>1. Init => OrderInv
  BY DEF Init, OrderInv, StartedAfterDeps, SeenLogged, SuccessLogged, DepsSucceeded, Executing,
         InNode
<1>2. TypeInv /\ OrderInv /\ [Next]_vars => OrderInv'
  BY SeenLoggedStep, SuccessLoggedStep, DepsSucceededStep, StartedStep DEF OrderInv
<1>3. OrderInv => StartedAfterDeps
  BY DEF OrderInv
<1> QED BY TypeInvariance, <1>1, <1>2, <1>3, PTL DEF Spec

-----------------------------------------------------------------------------
(* No event is logged twice.                                               *)

\* The topological order has every node once, since it has every node.
LEMMA OrderInjective == \A i, j \in Node : Order[i] = Order[j] => i = j
<1>1. Order \in Surjection(Node, Node)
  BY DagAssumption DEF Surjection
<1>2. IsFiniteSet(Node)
  BY FS_Interval, NodeBounds DEF Node
<1>3. Order \in Injection(Node, Node)
  BY <1>1, <1>2, FS_SurjSameCardinalityImpliesInj
<1> QED BY <1>3 DEF Injection, IsInjective

\* A failed append of a call event may leave in the log a key that emit does
\* not know.  Its node has been left by then, or the attempt has.
Overtaken(e) ==
  /\ e.type \in CallEvent
  /\ pc \notin {"plan", "queue"}
  /\ \E q \in Node :
       /\ Order[q] = e.node
       /\ \/ q < pos
          \/ /\ q = pos /\ (InNode \/ pc = "complete")
             /\ e.attempt <= attempt
             /\ e.attempt = attempt => pc \in {"settle", "retry", "complete"}

KnownOrOvertaken ==
  Executing => \A i \in DOMAIN log :
                 HasDagId(log[i]) => Key(log[i]) \in seen \/ Overtaken(log[i])

\* What was overtaken stays so as long as the execution lasts.
LEMMA OvertakenStep ==
  ASSUME TypeInv, [Next]_vars, Executing, Executing',
         NEW e \in Event, Overtaken(e)
  PROVE  Overtaken(e)'
<1>0. pos \in Node /\ attempt \in 1..2 /\ e.attempt \in 0..2 /\ Node \subseteq Nat
  BY NodeBounds DEF TypeInv, FlowTyped, Event, Node
<1> USE DEF Overtaken, Executing, InNode
<1>1. CASE ReturnRecorded
  BY <1>0, <1>1 DEF ReturnRecorded
<1>2. CASE Resume
  BY <1>0, <1>2 DEF Resume
<1>3. CASE ReadFails
  BY <1>0, <1>3 DEF ReadFails, memory
<1>4. CASE Plan
  BY <1>0, <1>4 DEF Plan, EmitOrThrow
<1>5. CASE Queue
  BY <1>0, <1>5 DEF Queue, EmitOrThrow
<1>6. CASE SkipSucceeded
  BY <1>0, <1>6 DEF SkipSucceeded, NextNode, Advance
<1>7. CASE SkipBlocked
  BY <1>0, <1>7 DEF SkipBlocked, EmitOrThrow, NextNode, Advance
<1>8. CASE GiveUp
  BY <1>0, <1>8 DEF GiveUp, NextNode, Advance
<1>9. CASE BeginNode
  BY <1>0, <1>9 DEF BeginNode
<1>10. CASE StartAttempt
  BY <1>0, <1>10 DEF StartAttempt, EmitOrThrow
<1>11. CASE RunPure
  BY <1>0, <1>11 DEF RunPure, Running, NodeReturns
<1>12. CASE PersistUser
  BY <1>0, <1>12 DEF PersistUser, Running, Insert, NodeReturns, NodeFails
<1>13. CASE RequestCompletion
  BY <1>0, <1>13 DEF RequestCompletion, Running, NodeFails
<1>14. CASE ReceiveCompletion
  BY <1>0, <1>14 DEF ReceiveCompletion, NodeReturns, NodeFails
<1>15. CASE EnforceReply
  BY <1>0, <1>15 DEF EnforceReply, Running, NodeReturns, NodeFails
<1>16. CASE PersistAssistant
  BY <1>0, <1>16 DEF PersistAssistant, Running, Insert, NodeReturns, NodeFails
<1>17. CASE RunCodeChange
  BY <1>0, <1>17 DEF RunCodeChange, Running, NodeReturns, NodeFails
<1>18. CASE Succeed
  BY <1>0, <1>18 DEF Succeed, EmitOrThrow, NextNode, Advance
<1>19. CASE Fail
  BY <1>0, <1>19 DEF Fail, EmitOrThrow
<1>20. CASE ScheduleRetry
  BY <1>0, <1>20 DEF ScheduleRetry, EmitOrThrow
<1>21. CASE Complete
  BY <1>0, <1>21 DEF Complete, EmitOrThrow
<1>22. CASE Crash
  BY <1>0, <1>22 DEF Crash
<1>23. CASE Done
  BY <1>0, <1>23 DEF Done, vars, memory
<1>24. CASE UNCHANGED vars
  BY <1>0, <1>24 DEF vars, memory
<1> QED BY <1>1, <1>2, <1>3, <1>4, <1>5, <1>6, <1>7, <1>8, <1>9, <1>10, <1>11, <1>12, <1>13,
     <1>14, <1>15, <1>16, <1>17, <1>18, <1>19, <1>20, <1>21, <1>22, <1>23, <1>24 DEF Next,
     Step

\* The event that a step appends has a key that no event of the log has.
LEMMA FreshKey ==
  ASSUME TypeInv, KnownOrOvertaken, NEW e \in NumberedEvent, Writes(e),
         NEW i \in DOMAIN log, HasDagId(log[i]), Key(log[i]) = Key(e)
  PROVE  FALSE
<1>1. Executing /\ Key(e) \notin seen
  BY DEF Writes
<1>2. Overtaken(log[i])
  BY <1>1 DEF KnownOrOvertaken
<1>3. log[i].type = e.type /\ log[i].node = e.node /\ log[i].attempt = e.attempt
  BY DEF Key
<1>4. pc \in {"run", "llm"} /\ e.node = Current /\ e.attempt = attempt
  BY <1>2, <1>3 DEF Overtaken, Writes
<1>5. PICK q \in Node : Order[q] = Order[pos] /\ (q < pos \/ (q = pos /\ e.attempt # attempt))
  BY <1>2, <1>3, <1>4 DEF Overtaken, Current
<1>6. pos \in Node /\ Node \subseteq Nat
  BY NodeBounds DEF TypeInv, FlowTyped, Node
<1>7. q = pos
  BY <1>5, <1>6, OrderInjective
<1> QED BY <1>4, <1>5, <1>6, <1>7

\* No step logs an event again.
LEMMA NoDuplicateStep ==
  ASSUME TypeInv, NoDuplicateEvents, KnownOrOvertaken, [Next]_vars
  PROVE  NoDuplicateEvents'
<1>1. CASE Reads
  BY <1>1 DEF Reads, NoDuplicateEvents, HasDagId, Key
<1>2. ASSUME NEW e \in NumberedEvent, Writes(e) PROVE NoDuplicateEvents'
  <2>1. log' = Append(log, e) /\ e \in Event
    BY <1>2 DEF Writes, NumberedEvent
  <2>2. /\ Len(log) \in Nat /\ DOMAIN log = 1..Len(log)
        /\ DOMAIN log' = 1..(Len(log) + 1)
        /\ \A i \in DOMAIN log : log'[i] = log[i]
        /\ log'[Len(log) + 1] = e
    BY <2>1, AppendFacts
  <2>3. \A i \in DOMAIN log : HasDagId(log[i]) => Key(log[i]) # Key(e)
    BY <1>2, FreshKey
  <2> SUFFICES ASSUME NEW i \in DOMAIN log', NEW j \in DOMAIN log',
                      HasDagId(log'[i]), HasDagId(log'[j]), Key(log'[i]) = Key(log'[j])
               PROVE  i = j
    BY DEF NoDuplicateEvents, HasDagId, Key
  <2>4. CASE i \in DOMAIN log /\ j \in DOMAIN log
    BY <2>2, <2>4 DEF NoDuplicateEvents
  <2>5. CASE i = Len(log) + 1 /\ j \in DOMAIN log
    BY <2>2, <2>3, <2>5
  <2>6. CASE j = Len(log) + 1 /\ i \in DOMAIN log
    BY <2>2, <2>3, <2>6
  <2> QED BY <2>2, <2>4, <2>5, <2>6
<1> QED BY <1>1, <1>2, StepShape

\* No step leaves an event behind that the execution could log again.
LEMMA KnownStep ==
  ASSUME TypeInv, KnownOrOvertaken, [Next]_vars
  PROVE  KnownOrOvertaken'
<1> SUFFICES ASSUME Executing', NEW i \in DOMAIN log', HasDagId(log'[i])
             PROVE  Key(log'[i]) \in seen' \/ Overtaken(log[i])'
  BY DEF KnownOrOvertaken, HasDagId, Key
<1>1. ASSUME Executing, i \in DOMAIN log, log'[i] = log[i], seen \subseteq seen'
      PROVE  Key(log'[i]) \in seen' \/ Overtaken(log[i])'
  <2>1. log[i] \in Event
    BY <1>1, ElementOfSeq, LenProperties DEF TypeInv, LogTyped
  <2>2. PICK x \in Event : x = log[i]
    BY <2>1
  <2>3. Key(x) \in seen \/ Overtaken(x)
    BY <1>1, <2>2 DEF KnownOrOvertaken
  <2>4. Overtaken(x) => Overtaken(x)'
    BY <1>1, OvertakenStep
  <2>5. Overtaken(x)' => Overtaken(log[i])'
    BY <1>1, <2>2 DEF Overtaken
  <2> QED BY <1>1, <2>2, <2>3, <2>4, <2>5
<1>2. CASE Reads
  <2>1. CASE Resume
    BY <1>2, <2>1 DEF Reads, Resume, KeysToSkip
  <2>2. CASE pc' = "idle"
    BY <2>2 DEF Executing
  <2>3. CASE UNCHANGED seen /\ Executing
    BY <1>1, <1>2, <2>3 DEF Reads
  <2> QED BY <1>2, <2>1, <2>2, <2>3 DEF Reads
<1>3. ASSUME NEW e \in NumberedEvent, Writes(e)
      PROVE  Key(log'[i]) \in seen' \/ Overtaken(log[i])'
  <2>1. log' = Append(log, e) /\ e \in Event /\ Executing /\ seen \subseteq seen'
    BY <1>3 DEF Writes, NumberedEvent
  <2>2. /\ Len(log) \in Nat /\ DOMAIN log = 1..Len(log)
        /\ DOMAIN log' = 1..(Len(log) + 1)
        /\ \A k \in DOMAIN log : log'[k] = log[k]
        /\ log'[Len(log) + 1] = e
    BY <2>1, AppendFacts
  <2>3. CASE i \in DOMAIN log
    BY <1>1, <2>1, <2>2, <2>3
  <2>4. CASE i = Len(log) + 1
    <3>1. log'[i] = e
      BY <2>2, <2>4
    <3>2. CASE seen' = seen \cup {Key(e)}
      BY <3>1, <3>2
    <3>3. CASE seen' # seen \cup {Key(e)}
      <4>1. pc' = "settle" /\ e.type \in CallEvent /\ UNCHANGED <<pos, attempt>>
        BY <1>3, <3>1, <3>3 DEF Writes, Executing
      <4>2. e.node = Order[pos] /\ e.attempt = attempt
        BY <1>3, <4>1 DEF Writes, Current
      <4>3. pos \in Node /\ attempt \in 1..2
        BY DEF TypeInv, FlowTyped
      <4> QED BY <3>1, <4>1, <4>2, <4>3 DEF Overtaken, InNode
    <3> QED BY <3>2, <3>3
  <2> QED BY <2>2, <2>3, <2>4
<1> QED BY <1>2, <1>3, StepShape

\* No event of the DAG is logged twice, for every interleaving of crashes and
\* failed appends.
THEOREM NoDuplicates == Spec => []NoDuplicateEvents
<1>1. Init => NoDuplicateEvents /\ KnownOrOvertaken
  BY DEF Init, NoDuplicateEvents, KnownOrOvertaken, Executing
<1>2. TypeInv /\ NoDuplicateEvents /\ KnownOrOvertaken /\ [Next]_vars
        => (NoDuplicateEvents /\ KnownOrOvertaken)'
  BY NoDuplicateStep, KnownStep
<1> QED BY TypeInvariance, <1>1, <1>2, PTL DEF Spec

(***************************************************************************)
(* Part two: attempts, outcomes and the end of an execution.               *)
(***************************************************************************)

-----------------------------------------------------------------------------
(* What a step does to the memory of the executor.                         *)

\* A node is in hand from BeginNode on, and ScheduleRetry gives it a second attempt.
Hand ==
  InNode' =>
    \/ BeginNode
    \/ /\ InNode /\ UNCHANGED <<pos, status>>
       /\ \/ /\ UNCHANGED attempt
             /\ pc' = "retry" => pc = "retry" \/ Fail
             /\ pc = "retry" => pc' = "retry"
          \/ ScheduleRetry /\ attempt' = attempt + 1 /\ pc' = "start"

\* From the start of its attempt until it is settled, a node stays the current one.
Attempting == pc \in {"run", "llm", "settle"}

Attempt ==
  Attempting' =>
    /\ UNCHANGED pos
    /\ \/ Attempting
       \/ StartAttempt /\ Emit(NodeEvent("NODE_STARTED", Current, attempt))
    /\ pc' = "llm" => pc = "llm" \/ Kind[Current] = "LLM_CHAT"

\* The loop has not come to n yet.
Ahead(n) ==
  \/ pc \in {"plan", "queue"}
  \/ \E q \in Node : Order[q] = n /\ Executing /\ (pos < q \/ (pos = q /\ pc = "visit"))

\* What lies ahead is left alone.
Coming ==
  \A n \in Node : Ahead(n)' =>
    \/ Resume
    \/ /\ Ahead(n) /\ UNCHANGED resumeAt /\ status'[n] = status[n]
       /\ n # Current \/ pc \in {"plan", "queue"} \/ UNCHANGED log

\* A node that succeeded stays so, with its output; one in hand has not succeeded.
Keeps ==
  /\ Executing' => Executing \/ Resume
  /\ Executing /\ Executing' /\ (InNode => status[Current] = "RUNNING") =>
       \A n \in Node : status[n] = "SUCCEEDED" => status'[n] = "SUCCEEDED" /\ outputs'[n] = outputs[n]

\* A result that is good has stored its message and has the text it needs.
Settles ==
  pc' = "settle" /\ result'.ok = TRUE =>
    \/ pc = "settle" /\ UNCHANGED <<result, messages>>
    \/ pc = "llm"
    \/ /\ Kind[Current] = "PERSIST_USER_MESSAGE" => messages' = WithRow(Current, UserText)
       /\ Kind[Current] = "PERSIST_ASSISTANT_MESSAGE" =>
            AssistantText # NoText /\ messages' = WithRow(Current, AssistantText)
       /\ Kind[Current] = "ENFORCE_REPLY_CONSTRAINTS" => result'.text # NoText

\* Who stores, who asks the model, and who returns.
Stores ==
  \/ UNCHANGED messages
  \/ pc = "run" /\ Kind[Current] = "PERSIST_USER_MESSAGE" /\ messages' = WithRow(Current, UserText)
  \/ /\ pc = "run" /\ Kind[Current] = "PERSIST_ASSISTANT_MESSAGE"
     /\ AssistantText # NoText /\ messages' = WithRow(Current, AssistantText)

Asks == \A n \in Node : calls'[n] = calls[n] \/ (pc = "run" /\ n = Current)

Returns ==
  pc' = "returned" => ReturnRecorded \/ Complete \/ (pc = "returned" /\ UNCHANGED verdict)

LEMMA HandStep == ASSUME TypeInv, [Next]_vars PROVE Hand /\ Attempt
<1> USE DEF Hand, Attempt, Attempting, InNode
<1>1. CASE ReturnRecorded
  BY <1>1 DEF ReturnRecorded
<1>2. CASE Resume
  BY <1>2 DEF Resume
<1>3. CASE ReadFails
  BY <1>3 DEF ReadFails, memory
<1>4. CASE Plan
  BY <1>4 DEF Plan, EmitOrThrow
<1>5. CASE Queue
  BY <1>5 DEF Queue, EmitOrThrow
<1>6. CASE SkipSucceeded
  BY <1>6 DEF SkipSucceeded, NextNode, Advance
<1>7. CASE SkipBlocked
  BY <1>7 DEF SkipBlocked, EmitOrThrow, NextNode, Advance
<1>8. CASE GiveUp
  BY <1>8 DEF GiveUp, NextNode, Advance
<1>9. CASE BeginNode
  BY <1>9 DEF BeginNode
<1>10. CASE StartAttempt
  BY <1>10 DEF StartAttempt, EmitOrThrow
<1>11. CASE RunPure
  BY <1>11 DEF RunPure, Running, NodeReturns
<1>12. CASE PersistUser
  BY <1>12 DEF PersistUser, Running, Insert, NodeReturns, NodeFails
<1>13. CASE RequestCompletion
  BY <1>13 DEF RequestCompletion, Running, NodeFails
<1>14. CASE ReceiveCompletion
  BY <1>14 DEF ReceiveCompletion, NodeReturns, NodeFails
<1>15. CASE EnforceReply
  BY <1>15 DEF EnforceReply, Running, NodeReturns, NodeFails
<1>16. CASE PersistAssistant
  BY <1>16 DEF PersistAssistant, Running, Insert, NodeReturns, NodeFails
<1>17. CASE RunCodeChange
  BY <1>17 DEF RunCodeChange, CodeChangeKind, Running, NodeReturns, NodeFails
<1>18. CASE Succeed
  BY <1>18 DEF Succeed, EmitOrThrow, NextNode, Advance
<1>19. CASE Fail
  BY <1>19 DEF Fail, EmitOrThrow
<1>20. CASE ScheduleRetry
  BY <1>20 DEF ScheduleRetry, EmitOrThrow
<1>21. CASE Complete
  BY <1>21 DEF Complete, EmitOrThrow
<1>22. CASE Crash
  BY <1>22 DEF Crash
<1>23. CASE Done
  BY <1>23 DEF Done, vars, memory
<1>24. CASE UNCHANGED vars
  BY <1>24 DEF vars, memory
<1> QED BY <1>1, <1>2, <1>3, <1>4, <1>5, <1>6, <1>7, <1>8, <1>9, <1>10, <1>11, <1>12, <1>13, <1>14, <1>15, <1>16, <1>17, <1>18, <1>19, <1>20, <1>21, <1>22, <1>23, <1>24 DEF Next, Step

LEMMA KeepsStep == ASSUME TypeInv, [Next]_vars PROVE Keeps
<1>0. Current \in Node /\ status \in [Node -> NodeStatus] /\ outputs \in [Node -> MaybeText]
  BY TextTypes DEF TypeInv, ResultTyped
<1> USE DEF Keeps, Executing, InNode
<1>1. CASE ReturnRecorded
  BY <1>0, <1>1 DEF ReturnRecorded
<1>2. CASE Resume
  BY <1>0, <1>2 DEF Resume
<1>3. CASE ReadFails
  BY <1>0, <1>3 DEF ReadFails, memory
<1>4. CASE Plan
  BY <1>0, <1>4 DEF Plan, EmitOrThrow
<1>5. CASE Queue
  BY <1>0, <1>5 DEF Queue, EmitOrThrow
<1>6. CASE SkipSucceeded
  BY <1>0, <1>6 DEF SkipSucceeded, NextNode, Advance
<1>7. CASE SkipBlocked
  BY <1>0, <1>7 DEF SkipBlocked, EmitOrThrow, NextNode, Advance
<1>8. CASE GiveUp
  BY <1>0, <1>8 DEF GiveUp, NextNode, Advance
<1>9. CASE BeginNode
  BY <1>0, <1>9 DEF BeginNode
<1>10. CASE StartAttempt
  BY <1>0, <1>10 DEF StartAttempt, EmitOrThrow
<1>11. CASE RunPure
  BY <1>0, <1>11 DEF RunPure, Running, NodeReturns
<1>12. CASE PersistUser
  BY <1>0, <1>12 DEF PersistUser, Running, Insert, NodeReturns, NodeFails
<1>13. CASE RequestCompletion
  BY <1>0, <1>13 DEF RequestCompletion, Running, NodeFails
<1>14. CASE ReceiveCompletion
  BY <1>0, <1>14 DEF ReceiveCompletion, NodeReturns, NodeFails
<1>15. CASE EnforceReply
  BY <1>0, <1>15 DEF EnforceReply, Running, NodeReturns, NodeFails
<1>16. CASE PersistAssistant
  BY <1>0, <1>16 DEF PersistAssistant, Running, Insert, NodeReturns, NodeFails
<1>17. CASE RunCodeChange
  BY <1>0, <1>17 DEF RunCodeChange, CodeChangeKind, Running, NodeReturns, NodeFails
<1>18. CASE Succeed
  BY <1>0, <1>18 DEF Succeed, EmitOrThrow, NextNode, Advance
<1>19. CASE Fail
  BY <1>0, <1>19 DEF Fail, EmitOrThrow
<1>20. CASE ScheduleRetry
  BY <1>0, <1>20 DEF ScheduleRetry, EmitOrThrow
<1>21. CASE Complete
  BY <1>0, <1>21 DEF Complete, EmitOrThrow
<1>22. CASE Crash
  BY <1>0, <1>22 DEF Crash
<1>23. CASE Done
  BY <1>0, <1>23 DEF Done, vars, memory
<1>24. CASE UNCHANGED vars
  BY <1>0, <1>24 DEF vars, memory
<1> QED BY <1>1, <1>2, <1>3, <1>4, <1>5, <1>6, <1>7, <1>8, <1>9, <1>10, <1>11, <1>12, <1>13, <1>14, <1>15, <1>16, <1>17, <1>18, <1>19, <1>20, <1>21, <1>22, <1>23, <1>24 DEF Next, Step

LEMMA SettlesStep == ASSUME TypeInv, [Next]_vars PROVE Settles /\ Stores
<1>0. /\ UserText = UserText
      /\ RawText # NoText => Enforced[RawText] # NoText
  BY TextTypes, TextAssumption DEF MaybeText
<1> USE DEF Settles, Stores
<1>1. CASE ReturnRecorded
  BY <1>0, <1>1 DEF ReturnRecorded
<1>2. CASE Resume
  BY <1>0, <1>2 DEF Resume
<1>3. CASE ReadFails
  BY <1>0, <1>3 DEF ReadFails, memory
<1>4. CASE Plan
  BY <1>0, <1>4 DEF Plan, EmitOrThrow
<1>5. CASE Queue
  BY <1>0, <1>5 DEF Queue, EmitOrThrow
<1>6. CASE SkipSucceeded
  BY <1>0, <1>6 DEF SkipSucceeded, NextNode, Advance
<1>7. CASE SkipBlocked
  BY <1>0, <1>7 DEF SkipBlocked, EmitOrThrow, NextNode, Advance
<1>8. CASE GiveUp
  BY <1>0, <1>8 DEF GiveUp, NextNode, Advance
<1>9. CASE BeginNode
  BY <1>0, <1>9 DEF BeginNode
<1>10. CASE StartAttempt
  BY <1>0, <1>10 DEF StartAttempt, EmitOrThrow
<1>11. CASE RunPure
  BY <1>0, <1>11 DEF RunPure, Running, NodeReturns
<1>12. CASE PersistUser
  BY <1>0, <1>12 DEF PersistUser, Running, Insert, NodeReturns, NodeFails
<1>13. CASE RequestCompletion
  BY <1>0, <1>13 DEF RequestCompletion, Running, NodeFails
<1>14. CASE ReceiveCompletion
  BY <1>0, <1>14 DEF ReceiveCompletion, NodeReturns, NodeFails
<1>15. CASE EnforceReply
  BY <1>0, <1>15 DEF EnforceReply, Running, NodeReturns, NodeFails
<1>16. CASE PersistAssistant
  BY <1>0, <1>16 DEF PersistAssistant, Running, Insert, NodeReturns, NodeFails
<1>17. CASE RunCodeChange
  BY <1>0, <1>17 DEF RunCodeChange, CodeChangeKind, Running, NodeReturns, NodeFails
<1>18. CASE Succeed
  BY <1>0, <1>18 DEF Succeed, EmitOrThrow, NextNode, Advance
<1>19. CASE Fail
  BY <1>0, <1>19 DEF Fail, EmitOrThrow
<1>20. CASE ScheduleRetry
  BY <1>0, <1>20 DEF ScheduleRetry, EmitOrThrow
<1>21. CASE Complete
  BY <1>0, <1>21 DEF Complete, EmitOrThrow
<1>22. CASE Crash
  BY <1>0, <1>22 DEF Crash
<1>23. CASE Done
  BY <1>0, <1>23 DEF Done, vars, memory
<1>24. CASE UNCHANGED vars
  BY <1>0, <1>24 DEF vars, memory
<1> QED BY <1>1, <1>2, <1>3, <1>4, <1>5, <1>6, <1>7, <1>8, <1>9, <1>10, <1>11, <1>12, <1>13, <1>14, <1>15, <1>16, <1>17, <1>18, <1>19, <1>20, <1>21, <1>22, <1>23, <1>24 DEF Next, Step

LEMMA AsksStep == ASSUME TypeInv, [Next]_vars PROVE Asks /\ Returns
<1>0. calls \in [Node -> Nat] /\ Current \in Node
  BY TextTypes DEF TypeInv, StoreTyped
<1> USE DEF Asks, Returns
<1>1. CASE ReturnRecorded
  BY <1>0, <1>1 DEF ReturnRecorded
<1>2. CASE Resume
  BY <1>0, <1>2 DEF Resume
<1>3. CASE ReadFails
  BY <1>0, <1>3 DEF ReadFails, memory
<1>4. CASE Plan
  BY <1>0, <1>4 DEF Plan, EmitOrThrow
<1>5. CASE Queue
  BY <1>0, <1>5 DEF Queue, EmitOrThrow
<1>6. CASE SkipSucceeded
  BY <1>0, <1>6 DEF SkipSucceeded, NextNode, Advance
<1>7. CASE SkipBlocked
  BY <1>0, <1>7 DEF SkipBlocked, EmitOrThrow, NextNode, Advance
<1>8. CASE GiveUp
  BY <1>0, <1>8 DEF GiveUp, NextNode, Advance
<1>9. CASE BeginNode
  BY <1>0, <1>9 DEF BeginNode
<1>10. CASE StartAttempt
  BY <1>0, <1>10 DEF StartAttempt, EmitOrThrow
<1>11. CASE RunPure
  BY <1>0, <1>11 DEF RunPure, Running, NodeReturns
<1>12. CASE PersistUser
  BY <1>0, <1>12 DEF PersistUser, Running, Insert, NodeReturns, NodeFails
<1>13. CASE RequestCompletion
  BY <1>0, <1>13 DEF RequestCompletion, Running, NodeFails
<1>14. CASE ReceiveCompletion
  BY <1>0, <1>14 DEF ReceiveCompletion, NodeReturns, NodeFails
<1>15. CASE EnforceReply
  BY <1>0, <1>15 DEF EnforceReply, Running, NodeReturns, NodeFails
<1>16. CASE PersistAssistant
  BY <1>0, <1>16 DEF PersistAssistant, Running, Insert, NodeReturns, NodeFails
<1>17. CASE RunCodeChange
  BY <1>0, <1>17 DEF RunCodeChange, CodeChangeKind, Running, NodeReturns, NodeFails
<1>18. CASE Succeed
  BY <1>0, <1>18 DEF Succeed, EmitOrThrow, NextNode, Advance
<1>19. CASE Fail
  BY <1>0, <1>19 DEF Fail, EmitOrThrow
<1>20. CASE ScheduleRetry
  BY <1>0, <1>20 DEF ScheduleRetry, EmitOrThrow
<1>21. CASE Complete
  BY <1>0, <1>21 DEF Complete, EmitOrThrow
<1>22. CASE Crash
  BY <1>0, <1>22 DEF Crash
<1>23. CASE Done
  BY <1>0, <1>23 DEF Done, vars, memory
<1>24. CASE UNCHANGED vars
  BY <1>0, <1>24 DEF vars, memory
<1> QED BY <1>1, <1>2, <1>3, <1>4, <1>5, <1>6, <1>7, <1>8, <1>9, <1>10, <1>11, <1>12, <1>13, <1>14, <1>15, <1>16, <1>17, <1>18, <1>19, <1>20, <1>21, <1>22, <1>23, <1>24 DEF Next, Step

LEMMA ComingStep == ASSUME TypeInv, [Next]_vars PROVE Coming
<1> SUFFICES ASSUME NEW n \in Node, Ahead(n)', ~Resume
             PROVE  /\ Ahead(n) /\ UNCHANGED resumeAt /\ status'[n] = status[n]
                    /\ n # Current \/ pc \in {"plan", "queue"} \/ UNCHANGED log
  BY DEF Coming
<1>0. /\ Current \in Node /\ status \in [Node -> NodeStatus] /\ pos \in Node /\ Node \subseteq Nat
      /\ \A q \in Node : Order[q] = Current => q = pos
  BY TextTypes, OrderInjective, NodeBounds DEF TypeInv, ResultTyped, FlowTyped, Current, Node
<1> USE DEF Ahead, Executing
<1>1. CASE ReturnRecorded
  BY <1>0, <1>1 DEF ReturnRecorded
<1>2. CASE Resume
  BY <1>0, <1>2 DEF Resume
<1>3. CASE ReadFails
  BY <1>0, <1>3 DEF ReadFails, memory
<1>4. CASE Plan
  BY <1>0, <1>4 DEF Plan, EmitOrThrow
<1>5. CASE Queue
  BY <1>0, <1>5 DEF Queue, EmitOrThrow
<1>6. CASE SkipSucceeded
  BY <1>0, <1>6 DEF SkipSucceeded, NextNode, Advance
<1>7. CASE SkipBlocked
  BY <1>0, <1>7 DEF SkipBlocked, EmitOrThrow, NextNode, Advance
<1>8. CASE GiveUp
  BY <1>0, <1>8 DEF GiveUp, NextNode, Advance
<1>9. CASE BeginNode
  BY <1>0, <1>9 DEF BeginNode
<1>10. CASE StartAttempt
  BY <1>0, <1>10 DEF StartAttempt, EmitOrThrow
<1>11. CASE RunPure
  BY <1>0, <1>11 DEF RunPure, Running, NodeReturns
<1>12. CASE PersistUser
  BY <1>0, <1>12 DEF PersistUser, Running, Insert, NodeReturns, NodeFails
<1>13. CASE RequestCompletion
  BY <1>0, <1>13 DEF RequestCompletion, Running, NodeFails
<1>14. CASE ReceiveCompletion
  BY <1>0, <1>14 DEF ReceiveCompletion, NodeReturns, NodeFails
<1>15. CASE EnforceReply
  BY <1>0, <1>15 DEF EnforceReply, Running, NodeReturns, NodeFails
<1>16. CASE PersistAssistant
  BY <1>0, <1>16 DEF PersistAssistant, Running, Insert, NodeReturns, NodeFails
<1>17. CASE RunCodeChange
  BY <1>0, <1>17 DEF RunCodeChange, Running, NodeReturns, NodeFails
<1>18. CASE Succeed
  BY <1>0, <1>18 DEF Succeed, EmitOrThrow, NextNode, Advance
<1>19. CASE Fail
  BY <1>0, <1>19 DEF Fail, EmitOrThrow
<1>20. CASE ScheduleRetry
  BY <1>0, <1>20 DEF ScheduleRetry, EmitOrThrow
<1>21. CASE Complete
  BY <1>0, <1>21 DEF Complete, EmitOrThrow
<1>22. CASE Crash
  BY <1>0, <1>22 DEF Crash
<1>23. CASE Done
  BY <1>0, <1>23 DEF Done, vars, memory
<1>24. CASE UNCHANGED vars
  BY <1>0, <1>24 DEF vars, memory
<1> QED BY <1>1, <1>2, <1>3, <1>4, <1>5, <1>6, <1>7, <1>8, <1>9, <1>10, <1>11, <1>12, <1>13, <1>14, <1>15, <1>16, <1>17, <1>18, <1>19, <1>20, <1>21, <1>22, <1>23, <1>24 DEF Next, Step

-----------------------------------------------------------------------------
(* What a step logs about attempts and verdict.                            *)

\* The step that appends e, where e ends or starts an attempt or is the verdict.
RowBy(e) ==
  /\ e.type = "DAG_PLANNED" => pc = "plan" /\ e.node = 0 /\ e.attempt = 0
  /\ e.type = "NODE_QUEUED" => pc = "queue" /\ e.node = Sorted[pos] /\ e.attempt = 0
  /\ e.type = "NODE_STARTED" => pc = "start" /\ e.node = Current /\ e.attempt = attempt
  /\ e.type = "NODE_SUCCEEDED" =>
       /\ pc = "settle" /\ result.ok = TRUE /\ ~InNode'
       /\ e.node = Current /\ e.attempt = attempt /\ e.text = result.text
       /\ Executing' => status'[Current] = "SUCCEEDED" /\ outputs'[Current] = result.text
  /\ e.type = "NODE_FAILED" =>
       /\ pc' \notin {"start", "run", "llm", "settle"} /\ e.node = Current
       /\ \/ pc = "settle" /\ e.attempt = attempt
          \/ /\ pc = "visit" /\ e.attempt = 1 /\ pc' # "retry"
             /\ Blocked(Current) /\ status[Current] # "SUCCEEDED"
  /\ e.type = "DAG_COMPLETED" => pc = "complete" /\ e.ok = AllSucceeded

Adds(e) == log' = Append(log, e) /\ Key(e) \notin seen /\ Executing /\ RowBy(e)

LEMMA SameEvent ==
  ASSUME TypeInv, NEW e \in Event, NEW f \in Event, log' = Append(log, e), Emit(f) \/ EmitFails(f)
  PROVE  e = f
<1>1. log' # log /\ log'[Len(log) + 1] = e
  BY AppendFacts
<1>2. log' = Append(log, f)
  BY <1>1, EmitShape
<1> QED BY <1>1, <1>2, AppendFacts

LEMMA RowStep ==
  ASSUME TypeInv, [Next]_vars
  PROVE  UNCHANGED log \/ \E e \in NumberedEvent : Adds(e)
<1> SUFFICES ASSUME ~UNCHANGED log PROVE \E e \in NumberedEvent : Adds(e)
  OBVIOUS
<1>e. PICK e \in NumberedEvent : Writes(e)
  BY StepShape DEF Reads
<1>w. /\ log' = Append(log, e) /\ Key(e) \notin seen /\ Executing /\ e \in Event
  BY <1>e DEF Writes, NumberedEvent
<1> SUFFICES RowBy(e)
  BY <1>e, <1>w DEF Adds
<1>0. Current \in Node /\ attempt \in 1..2 /\ pos \in Node /\ NoText \in MaybeText
  BY TextTypes DEF MaybeText, TypeInv, FlowTyped
<1>r. result.text \in MaybeText /\ status \in [Node -> NodeStatus] /\ outputs \in [Node -> MaybeText]
  BY DEF TypeInv, ResultTyped
<1>n. /\ 1 \in 1..2 /\ 0 \in 0..2 /\ 1 \in 0..2 /\ 0 \in 0..NumNodes /\ attempt \in 0..2
      /\ Current \in 0..NumNodes /\ Sorted[pos] \in 0..NumNodes
      /\ AllSucceeded \in BOOLEAN
  BY <1>0, NodeTables, NodeBounds DEF Node, AllSucceeded
<1>t. {"DAG_PLANNED", "NODE_QUEUED", "NODE_STARTED", "NODE_SUCCEEDED", "NODE_FAILED",
       "NODE_RETRY_SCHEDULED", "DAG_COMPLETED", "LLM_REQUESTED", "LLM_COMPLETED",
       "REPLY_CONSTRAINT_EVALUATED"} \subseteq EventType
  BY DEF EventType
<1>1. CASE ReturnRecorded
  BY <1>w, <1>1, AppendFacts DEF ReturnRecorded
<1>2. CASE Resume
  BY <1>w, <1>2, AppendFacts DEF Resume
<1>3. CASE ReadFails
  BY <1>w, <1>3, AppendFacts DEF ReadFails, memory
<1>4. CASE Plan
  <2> DEFINE f == DagEvent("DAG_PLANNED", FALSE)
  <2>1. f \in Event /\ f.type = "DAG_PLANNED" /\ f.node = 0 /\ f.attempt = 0
    BY <1>0, <1>r, <1>n, <1>t, DagEventFields
  <2>2. Emit(f) \/ EmitFails(f)
    BY <1>w, <1>4, AppendFacts DEF Plan, EmitOrThrow
  <2>3. f = e
    <3> HIDE DEF f
    <3> QED BY <1>w, <2>1, <2>2, SameEvent
  <2> HIDE DEF f
  <2> QED BY <1>4, <2>1, <2>3 DEF Plan, RowBy
<1>5. CASE Queue
  <2> DEFINE f == NodeEvent("NODE_QUEUED", Sorted[pos], 0)
  <2>1. f \in Event /\ f.type = "NODE_QUEUED" /\ f.node = Sorted[pos] /\ f.attempt = 0
    BY <1>0, <1>r, <1>n, <1>t, NodeEventFields
  <2>2. Emit(f) \/ EmitFails(f)
    BY <1>w, <1>5, AppendFacts DEF Queue, EmitOrThrow
  <2>3. f = e
    <3> HIDE DEF f
    <3> QED BY <1>w, <2>1, <2>2, SameEvent
  <2> HIDE DEF f
  <2> QED BY <1>5, <2>1, <2>3 DEF Queue, RowBy
<1>6. CASE SkipSucceeded
  BY <1>w, <1>6, AppendFacts DEF SkipSucceeded, NextNode, Advance
<1>7. CASE SkipBlocked
  <2> DEFINE f == NodeEvent("NODE_FAILED", Current, 1)
  <2>1. f \in Event /\ f.type = "NODE_FAILED" /\ f.node = Current /\ f.attempt = 1
    BY <1>0, <1>r, <1>n, <1>t, NodeEventFields
  <2>2. Emit(f) \/ EmitFails(f)
    BY <1>w, <1>7, AppendFacts DEF SkipBlocked, EmitOrThrow
  <2>3. f = e
    <3> HIDE DEF f
    <3> QED BY <1>w, <2>1, <2>2, SameEvent
  <2> HIDE DEF f
  <2> QED BY <1>0, <1>r, <1>7, <2>1, <2>3 DEF SkipBlocked, EmitOrThrow, NextNode, RowBy, InNode, Executing
<1>8. CASE GiveUp
  BY <1>w, <1>8, AppendFacts DEF GiveUp, NextNode, Advance
<1>9. CASE BeginNode
  BY <1>w, <1>9, AppendFacts DEF BeginNode
<1>10. CASE StartAttempt
  <2> DEFINE f == NodeEvent("NODE_STARTED", Current, attempt)
  <2>1. f \in Event /\ f.type = "NODE_STARTED" /\ f.node = Current /\ f.attempt = attempt
    BY <1>0, <1>r, <1>n, <1>t, NodeEventFields
  <2>2. Emit(f) \/ EmitFails(f)
    BY <1>w, <1>10, AppendFacts DEF StartAttempt, EmitOrThrow
  <2>3. f = e
    <3> HIDE DEF f
    <3> QED BY <1>w, <2>1, <2>2, SameEvent
  <2> HIDE DEF f
  <2> QED BY <1>0, <1>r, <1>10, <2>1, <2>3 DEF StartAttempt, RowBy, InNode, Executing
<1>11. CASE RunPure
  BY <1>w, <1>11, AppendFacts DEF RunPure, Running, NodeReturns, NoEmit
<1>12. CASE PersistUser
  BY <1>w, <1>12, AppendFacts DEF PersistUser, Running, Insert, NodeReturns, NodeFails
<1>13. CASE RequestCompletion
  <2> DEFINE f == NodeEvent("LLM_REQUESTED", Current, attempt)
  <2>1. f \in Event /\ f.type = "LLM_REQUESTED"
    BY <1>0, <1>r, <1>n, <1>t, NodeEventFields
  <2>2. Emit(f) \/ EmitFails(f)
    BY <1>w, <1>13, AppendFacts DEF RequestCompletion
  <2>3. f = e
    <3> HIDE DEF f
    <3> QED BY <1>w, <2>1, <2>2, SameEvent
  <2> HIDE DEF f
  <2> QED BY <2>1, <2>3 DEF RowBy
<1>14. CASE ReceiveCompletion
  <2> DEFINE f == NodeEvent("LLM_COMPLETED", Current, attempt)
  <2>1. f \in Event /\ f.type = "LLM_COMPLETED"
    BY <1>0, <1>r, <1>n, <1>t, NodeEventFields
  <2>2. Emit(f) \/ EmitFails(f)
    BY <1>w, <1>14, AppendFacts DEF ReceiveCompletion, NoEmit
  <2>3. f = e
    <3> HIDE DEF f
    <3> QED BY <1>w, <2>1, <2>2, SameEvent
  <2> HIDE DEF f
  <2> QED BY <2>1, <2>3 DEF RowBy
<1>15. CASE EnforceReply
  <2> DEFINE f == TextEvent("REPLY_CONSTRAINT_EVALUATED", Current, attempt, Enforced[RawText])
  <2>0. RawText # NoText => Enforced[RawText] \in MaybeText
    BY TextTypes, TextAssumption DEF MaybeText
  <2>a. RawText # NoText
    BY <1>w, <1>15, AppendFacts DEF EnforceReply, NoEmit
  <2>1. f \in Event /\ f.type = "REPLY_CONSTRAINT_EVALUATED"
    <3>1. PICK x \in MaybeText : x = Enforced[RawText]
      BY <2>0, <2>a
    <3>2. TextEvent("REPLY_CONSTRAINT_EVALUATED", Current, attempt, x) = f
      BY <3>1
    <3>3. "REPLY_CONSTRAINT_EVALUATED" \in EventType
      BY <1>t
    <3> HIDE DEF f
    <3> QED BY <3>2, <3>3, <1>n, TextEventFields
  <2>2. Emit(f) \/ EmitFails(f)
    BY <2>0, <2>a, <1>w, <1>15, AppendFacts DEF EnforceReply, NoEmit
  <2>3. f = e
    <3> HIDE DEF f
    <3> QED BY <1>w, <2>1, <2>2, SameEvent
  <2> HIDE DEF f
  <2> QED BY <2>1, <2>3 DEF RowBy
<1>16. CASE PersistAssistant
  BY <1>w, <1>16, AppendFacts DEF PersistAssistant, Running, Insert, NodeReturns, NodeFails
<1>17. CASE RunCodeChange
  <2> DEFINE f == NodeEvent(CodeChangeEvent[Kind[Current]], 0, 0)
  <2>0. CodeChangeEvent[Kind[Current]] \in EventType
    BY <1>17 DEF RunCodeChange, Running, EventType
  <2>1. f \in Event /\ f.type = CodeChangeEvent[Kind[Current]]
    BY <1>0, <1>n, <2>0, NodeEventFields
  <2>2. Emit(f) \/ EmitFails(f)
    BY <1>17 DEF RunCodeChange
  <2>3. f = e
    <3> HIDE DEF f
    <3> QED BY <1>w, <2>1, <2>2, SameEvent
  <2>4. f.type \notin {"DAG_PLANNED", "NODE_QUEUED", "NODE_STARTED", "NODE_SUCCEEDED", "NODE_FAILED", "DAG_COMPLETED"}
    BY <1>17, <2>1, CodeChangeTypes DEF RunCodeChange, Running
  <2> HIDE DEF f
  <2> QED BY <2>3, <2>4 DEF RowBy
<1>18. CASE Succeed
  <2> DEFINE f == TextEvent("NODE_SUCCEEDED", Current, attempt, result.text)
  <2>1. f \in Event /\ f.type = "NODE_SUCCEEDED" /\ f.node = Current /\ f.attempt = attempt /\ f.text = result.text
    BY <1>0, <1>r, <1>n, <1>t, TextEventFields DEF TextEvent, NodeEvent
  <2>2. Emit(f) \/ EmitFails(f)
    BY <1>w, <1>18, AppendFacts DEF Succeed, EmitOrThrow
  <2>3. f = e
    <3> HIDE DEF f
    <3> QED BY <1>w, <2>1, <2>2, SameEvent
  <2> HIDE DEF f
  <2> QED BY <1>0, <1>r, <1>18, <2>1, <2>3 DEF Succeed, EmitOrThrow, NextNode, RowBy, InNode, Executing
<1>19. CASE Fail
  <2> DEFINE f == NodeEvent("NODE_FAILED", Current, attempt)
  <2>1. f \in Event /\ f.type = "NODE_FAILED" /\ f.node = Current /\ f.attempt = attempt
    BY <1>0, <1>r, <1>n, <1>t, NodeEventFields
  <2>2. Emit(f) \/ EmitFails(f)
    BY <1>w, <1>19, AppendFacts DEF Fail, EmitOrThrow
  <2>3. f = e
    <3> HIDE DEF f
    <3> QED BY <1>w, <2>1, <2>2, SameEvent
  <2> HIDE DEF f
  <2> QED BY <1>0, <1>r, <1>19, <2>1, <2>3 DEF Fail, EmitOrThrow, RowBy, InNode, Executing
<1>20. CASE ScheduleRetry
  <2> DEFINE f == NodeEvent("NODE_RETRY_SCHEDULED", Current, 0)
  <2>1. f \in Event /\ f.type = "NODE_RETRY_SCHEDULED"
    BY <1>0, <1>r, <1>n, <1>t, NodeEventFields
  <2>2. Emit(f) \/ EmitFails(f)
    BY <1>w, <1>20, AppendFacts DEF ScheduleRetry, EmitOrThrow
  <2>3. f = e
    <3> HIDE DEF f
    <3> QED BY <1>w, <2>1, <2>2, SameEvent
  <2> HIDE DEF f
  <2> QED BY <2>1, <2>3 DEF RowBy
<1>21. CASE Complete
  <2> DEFINE f == DagEvent("DAG_COMPLETED", AllSucceeded)
  <2>1. f \in Event /\ f.type = "DAG_COMPLETED" /\ f.ok = AllSucceeded
    BY <1>0, <1>r, <1>n, <1>t, DagEventFields DEF DagEvent, NodeEvent
  <2>2. Emit(f) \/ EmitFails(f)
    BY <1>w, <1>21, AppendFacts DEF Complete, EmitOrThrow
  <2>3. f = e
    <3> HIDE DEF f
    <3> QED BY <1>w, <2>1, <2>2, SameEvent
  <2> HIDE DEF f
  <2> QED BY <1>0, <1>r, <1>21, <2>1, <2>3 DEF Complete, RowBy, InNode, Executing
<1>22. CASE Crash
  BY <1>w, <1>22, AppendFacts DEF Crash
<1>23. CASE Done
  BY <1>w, <1>23, AppendFacts DEF Done, vars, memory
<1>24. CASE UNCHANGED vars
  BY <1>24, <1>w, AppendFacts DEF vars
<1> QED BY <1>1, <1>2, <1>3, <1>4, <1>5, <1>6, <1>7, <1>8, <1>9, <1>10, <1>11, <1>12, <1>13, <1>14, <1>15, <1>16, <1>17, <1>18, <1>19, <1>20, <1>21, <1>22, <1>23, <1>24 DEF Next, Step

-----------------------------------------------------------------------------
(* A success that counts.                                                  *)

\* The rows and the attempts after an append.
LEMMA RowsAfter ==
  ASSUME TypeInv, NEW e \in NumberedEvent, log' = Append(log, e)
  PROVE  /\ Len(log) \in Nat /\ DOMAIN log = 1..Len(log) /\ DOMAIN log' = 1..(Len(log) + 1)
         /\ log'[Len(log) + 1] = e /\ \A i \in DOMAIN log : log'[i] = log[i]
         /\ \A t, n : Rows(t, n)' = Rows(t, n) \cup
                        {i \in {Len(log) + 1} : e.type = t /\ e.node = n}
         /\ \A t, n : Attempts(t, n)' = Attempts(t, n) \cup
                        {a \in {e.attempt} : e.type = t /\ e.node = n}
<1>1. /\ Len(log) \in Nat /\ DOMAIN log = 1..Len(log) /\ DOMAIN log' = 1..(Len(log) + 1)
      /\ log'[Len(log) + 1] = e /\ \A i \in DOMAIN log : log'[i] = log[i]
  BY AppendFacts DEF NumberedEvent
<1>2. \A t, n : Rows(t, n)' = Rows(t, n) \cup {i \in {Len(log) + 1} : e.type = t /\ e.node = n}
  BY <1>1 DEF Rows
<1>3. ASSUME NEW t, NEW n
      PROVE  Attempts(t, n)' = Attempts(t, n) \cup {a \in {e.attempt} : e.type = t /\ e.node = n}
  <2>1. \A i \in Rows(t, n) : i \in DOMAIN log /\ i # Len(log) + 1
    BY <1>1 DEF Rows
  <2>2. \A i \in Rows(t, n) : log'[i] = log[i]
    BY <1>1, <2>1
  <2>3. Attempts(t, n)' = {log'[i].attempt : i \in Rows(t, n)'}
    BY DEF Attempts
  <2> QED BY <1>1, <1>2, <2>2, <2>3, Zenon DEF Attempts
<1> QED BY <1>1, <1>2, <1>3

\* The i-th event is a success of n that counts: MateriallySucceeded by its row.
Counts(n, i) == i \in Rows("NODE_SUCCEEDED", n) /\ (Kind[n] \in TextKind => log[i].text # NoText)

\* A success that counts is the last of its node, the executor knows of it, and a node in
\* hand has none.
SuccessInv ==
  /\ \A n \in Node : \A i \in DOMAIN log : Counts(n, i) => \A j \in Rows("NODE_SUCCEEDED", n) : j <= i
  /\ Executing => \A n \in Node : \A i \in DOMAIN log : Counts(n, i) => status[n] = "SUCCEEDED"
  /\ InNode => status[Current] = "RUNNING"

\* The last row is the one whose text is the output, and it is the one that counts.
LEMMA LastRow ==
  ASSUME TypeInv, NEW n \in Node, NEW i \in Rows("NODE_SUCCEEDED", n),
         \A j \in Rows("NODE_SUCCEEDED", n) : j <= i
  PROVE  MaxOf(Rows("NODE_SUCCEEDED", n)) = i /\ LastOutput(n) = log[i].text
<1>1. Rows("NODE_SUCCEEDED", n) \in SUBSET (0..Len(log)) /\ Len(log) \in Nat
  BY RowFacts, NodeBounds DEF EventType, Node
<1> DEFINE S == Rows("NODE_SUCCEEDED", n)
<1>2. MaxOf(S) \in S /\ \A y \in S : y <= MaxOf(S)
  <2> HIDE DEF S
  <2> QED BY <1>1, MaxOfInterval DEF S
<1>3. MaxOf(S) = i
  BY <1>1, <1>2
<1> QED BY <1>3 DEF LastOutput

LEMMA CountsIsMaterial ==
  ASSUME TypeInv, SuccessInv, NEW n \in Node
  PROVE  MateriallySucceeded(n) <=> \E i \in DOMAIN log : Counts(n, i)
<1>1. ASSUME NEW i \in DOMAIN log, Counts(n, i) PROVE MateriallySucceeded(n)
  <2>1. i \in Rows("NODE_SUCCEEDED", n) /\ \A j \in Rows("NODE_SUCCEEDED", n) : j <= i
    BY <1>1 DEF SuccessInv, Counts
  <2> QED BY <1>1, <2>1, LastRow DEF MateriallySucceeded, Counts
<1>2. ASSUME MateriallySucceeded(n) PROVE \E i \in DOMAIN log : Counts(n, i)
  <2>1. Rows("NODE_SUCCEEDED", n) \in SUBSET (0..Len(log)) /\ Len(log) \in Nat
        /\ Rows("NODE_SUCCEEDED", n) \subseteq DOMAIN log
    BY RowFacts, NodeBounds DEF EventType, Node
  <2>2. PICK i \in Rows("NODE_SUCCEEDED", n) : \A j \in Rows("NODE_SUCCEEDED", n) : j <= i
    <3> DEFINE S == Rows("NODE_SUCCEEDED", n)
    <3>1. S \in SUBSET (0..Len(log)) /\ S # {}
      BY <1>2, <2>1 DEF MateriallySucceeded
    <3>2. MaxOf(S) \in S /\ \A y \in S : y <= MaxOf(S)
      <4> HIDE DEF S
      <4> QED BY <2>1, <3>1, MaxOfInterval
    <3> QED BY <3>2
  <2>3. LastOutput(n) = log[i].text
    BY <2>2, LastRow
  <2> QED BY <1>2, <2>1, <2>2, <2>3 DEF MateriallySucceeded, Counts
<1> QED BY <1>1, <1>2

\* What counted counts, and what comes to count is logged by Succeed for the node in hand.
LEMMA CountsAfter ==
  ASSUME TypeInv, [Next]_vars, NEW n \in Node, NEW i \in DOMAIN log', Counts(n, i)'
  PROVE  \/ i \in DOMAIN log /\ Counts(n, i)
         \/ /\ pc = "settle" /\ n = Current /\ i = Len(log) + 1
            /\ Executing' => status'[n] = "SUCCEEDED"
<1>1. CASE UNCHANGED log
  BY <1>1 DEF Counts, Rows
<1>2. ASSUME NEW e \in NumberedEvent, Adds(e)
      PROVE  \/ i \in DOMAIN log /\ Counts(n, i)
             \/ /\ pc = "settle" /\ n = Current /\ i = Len(log) + 1
                /\ Executing' => status'[n] = "SUCCEEDED"
  <2>1. log' = Append(log, e) /\ RowBy(e)
    BY <1>2 DEF Adds
  <2>2. CASE i \in Rows("NODE_SUCCEEDED", n)
    BY <2>1, <2>2, RowsAfter DEF Counts, Rows
  <2>3. CASE i = Len(log) + 1 /\ e.type = "NODE_SUCCEEDED" /\ e.node = n
    BY <2>1, <2>3 DEF RowBy
  <2> QED BY <2>1, <2>2, <2>3, RowsAfter DEF Counts
<1> QED BY <1>1, <1>2, RowStep

LEMMA SuccessStep == TypeInv /\ SuccessInv /\ [Next]_vars => SuccessInv'
<1> SUFFICES ASSUME TypeInv, SuccessInv, [Next]_vars PROVE SuccessInv'
  OBVIOUS
<1>0. Current \in Node /\ Hand /\ Keeps
  BY TextTypes, HandStep, KeepsStep
<1>1. ASSUME NEW n \in Node, NEW i \in DOMAIN log', Counts(n, i)', NEW j \in Rows("NODE_SUCCEEDED", n)'
      PROVE  j <= i
  <2>1. CASE UNCHANGED log
    BY <1>1, <2>1 DEF SuccessInv, Counts, Rows
  <2>2. ASSUME NEW e \in NumberedEvent, Adds(e) PROVE j <= i
    <3>1. log' = Append(log, e) /\ RowBy(e)
      BY <2>2 DEF Adds
    <3>2. /\ Len(log) \in Nat /\ DOMAIN log = 1..Len(log) /\ DOMAIN log' = 1..(Len(log) + 1)
          /\ j \in Rows("NODE_SUCCEEDED", n) \/ (j = Len(log) + 1 /\ e.type = "NODE_SUCCEEDED" /\ e.node = n)
      BY <1>1, <3>1, RowsAfter
    <3>3. CASE i \in DOMAIN log /\ Counts(n, i)
      <4>1. j \in Rows("NODE_SUCCEEDED", n)
        BY <1>0, <3>1, <3>2, <3>3 DEF SuccessInv, RowBy, InNode, Executing
      <4> QED BY <3>3, <4>1 DEF SuccessInv
    <3>4. CASE i = Len(log) + 1
      BY <3>2, <3>4 DEF Rows
    <3> QED BY <1>1, <3>3, <3>4, CountsAfter
  <2> QED BY <2>1, <2>2, RowStep
<1>2. ASSUME Executing', NEW n \in Node, NEW i \in DOMAIN log', Counts(n, i)'
      PROVE  status'[n] = "SUCCEEDED"
  <2>1. CASE Resume
    <3>1. i \in DOMAIN log /\ Counts(n, i)
      BY <1>2, <2>1 DEF Resume, Counts, Rows
    <3>2. MateriallySucceeded(n)
      BY <3>1, CountsIsMaterial
    <3> QED BY <2>1, <3>2 DEF Resume
  <2>2. CASE Executing
    BY <1>0, <1>2, <2>2, CountsAfter DEF SuccessInv, Keeps
  <2> QED BY <1>0, <1>2, <2>1, <2>2 DEF Keeps
<1>3. InNode' => status'[Current'] = "RUNNING"
  <2>1. CASE BeginNode
    BY <1>0, <2>1 DEF BeginNode, Current, TypeInv, ResultTyped
  <2>2. CASE InNode /\ UNCHANGED <<pos, status>>
    BY <2>2 DEF SuccessInv, Current
  <2> QED BY <1>0, <2>1, <2>2 DEF Hand
<1> QED BY <1>1, <1>2, <1>3 DEF SuccessInv, Counts, Rows, Current

LEMMA SuccessInvariance == Spec => [](TypeInv /\ SuccessInv)
<1>1. Init => SuccessInv
  BY DEF Init, SuccessInv, Executing, InNode
<1> QED BY TypeInvariance, <1>1, SuccessStep, PTL DEF Spec

\* A node that has a success that counts logs no other.
LEMMA NoOtherSuccess ==
  ASSUME TypeInv, SuccessInv, [Next]_vars, NEW n \in Node, MateriallySucceeded(n)
  PROVE  Rows("NODE_SUCCEEDED", n)' = Rows("NODE_SUCCEEDED", n)
<1>1. CASE UNCHANGED log
  BY <1>1 DEF Rows
<1>2. ASSUME NEW e \in NumberedEvent, Adds(e)
      PROVE  Rows("NODE_SUCCEEDED", n)' = Rows("NODE_SUCCEEDED", n)
  <2>1. log' = Append(log, e) /\ RowBy(e)
    BY <1>2 DEF Adds
  <2>2. ~(e.type = "NODE_SUCCEEDED" /\ e.node = n)
    BY <2>1, CountsIsMaterial DEF RowBy, SuccessInv, InNode, Executing
  <2>3. Rows("NODE_SUCCEEDED", n)' = Rows("NODE_SUCCEEDED", n) \cup
          {i \in {Len(log) + 1} : e.type = "NODE_SUCCEEDED" /\ e.node = n}
    BY <2>1, RowsAfter
  <2> QED BY <2>2, <2>3
<1> QED BY <1>1, <1>2, RowStep

LEMMA OutputStays ==
  ASSUME TypeInv, SuccessInv, [Next]_vars, NEW n \in Node, MateriallySucceeded(n)
  PROVE  MateriallySucceeded(n)' /\ LastOutput(n)' = LastOutput(n)
<1>1. Rows("NODE_SUCCEEDED", n)' = Rows("NODE_SUCCEEDED", n)
  BY NoOtherSuccess
<1>2. PICK i \in DOMAIN log : Counts(n, i)
  BY CountsIsMaterial
<1>3. i \in Rows("NODE_SUCCEEDED", n) /\ \A j \in Rows("NODE_SUCCEEDED", n) : j <= i
  BY <1>2 DEF Counts, SuccessInv
<1>4. MaxOf(Rows("NODE_SUCCEEDED", n)) = i /\ LastOutput(n) = log[i].text
  BY <1>3, LastRow
<1>5. log'[i] = log[i]
  BY <1>2, LogGrows
<1>6. LastOutput(n)' = log'[i].text
  BY <1>1, <1>3, <1>4 DEF LastOutput
<1> QED BY <1>1, <1>4, <1>5, <1>6 DEF MateriallySucceeded

\* What has succeeded keeps the text that it gave, and is not asked for again, in this
\* execution and in every later one.
THEOREM SuccessKept == Spec => SuccessIsFinal
<1>1. TypeInv /\ SuccessInv /\ [Next]_vars =>
        [\A n \in Node : MateriallySucceeded(n) =>
           /\ calls'[n] = calls[n]
           /\ MateriallySucceeded(n)' /\ LastOutput(n)' = LastOutput(n)]_vars
  <2> SUFFICES ASSUME TypeInv, SuccessInv, [Next]_vars, NEW n \in Node, MateriallySucceeded(n)
               PROVE  /\ calls'[n] = calls[n]
                      /\ MateriallySucceeded(n)' /\ LastOutput(n)' = LastOutput(n)
    OBVIOUS
  <2>1. ~(pc = "run" /\ n = Current)
    BY CountsIsMaterial DEF SuccessInv, InNode, Executing
  <2>2. calls'[n] = calls[n]
    BY <2>1, AsksStep DEF Asks
  <2> QED BY <2>2, OutputStays
<1> QED BY <1>1, SuccessInvariance, PTL DEF Spec, SuccessIsFinal

-----------------------------------------------------------------------------
(* The order of the attempts.                                              *)

EndedAttempts(n) == Attempts("NODE_SUCCEEDED", n) \cup Attempts("NODE_FAILED", n)

\* The i-th event ends the first attempt of n, and allows a second.
EndsFirst(n, i) ==
  /\ log[i].node = n /\ log[i].attempt = 1
  /\ \/ log[i].type = "NODE_FAILED"
     \/ log[i].type = "NODE_SUCCEEDED" /\ log[i].text = NoText

FirstEnded(n) == \E i \in DOMAIN log : EndsFirst(n, i)

\* A second attempt follows the end of the first.
SecondInv ==
  \A n \in Node : 2 \in EndedAttempts(n) \cup Attempts("NODE_STARTED", n) => FirstEnded(n)

\* The attempt that a node will begin with has not ended, nor has a later one.
AheadInv ==
  \A n \in Node : Ahead(n) /\ status[n] # "SUCCEEDED" =>
    /\ resumeAt[n] \notin EndedAttempts(n)
    /\ resumeAt[n] = 1 => 2 \notin EndedAttempts(n)
    /\ resumeAt[n] = 2 => FirstEnded(n)

\* The same of the node in hand, until its attempt is settled.
InHandInv ==
  InNode =>
    /\ attempt <= MaxAttempts[Current]
    /\ pc # "retry" => attempt \notin EndedAttempts(Current)
    /\ attempt = 1 => 2 \notin EndedAttempts(Current)
    /\ attempt = 2 \/ pc = "retry" => FirstEnded(Current)
    /\ pc = "retry" => MaxAttempts[Current] = 2

AttemptInv == SecondInv /\ AheadInv /\ InHandInv

LEMMA EndedAfter ==
  ASSUME TypeInv, NEW e \in NumberedEvent, log' = Append(log, e)
  PROVE  \A n : EndedAttempts(n)' = EndedAttempts(n) \cup
                  {a \in {e.attempt} : e.type \in {"NODE_SUCCEEDED", "NODE_FAILED"} /\ e.node = n}
BY RowsAfter DEF EndedAttempts

LEMMA EndedTypes ==
  ASSUME TypeInv, NEW n \in Node
  PROVE  EndedAttempts(n) \in SUBSET (1..2) /\ Attempts("NODE_STARTED", n) \in SUBSET (1..2)
BY RowFacts, NodeBounds DEF EndedAttempts, EventType, AttemptEvent, Node

LEMMA FirstEndedStays ==
  ASSUME TypeInv, [Next]_vars, NEW n, FirstEnded(n)
  PROVE  FirstEnded(n)'
BY LogGrows DEF FirstEnded, EndsFirst

\* An attempt that ended without a success that counts allows the next.
LEMMA EmptyEnd ==
  ASSUME TypeInv, SuccessInv, NEW n \in Node, ~MateriallySucceeded(n), 1 \in EndedAttempts(n)
  PROVE  FirstEnded(n)
<1>1. CASE 1 \in Attempts("NODE_FAILED", n)
  BY <1>1 DEF Attempts, Rows, FirstEnded, EndsFirst
<1>2. CASE 1 \in Attempts("NODE_SUCCEEDED", n)
  <2>1. PICK i \in Rows("NODE_SUCCEEDED", n) : log[i].attempt = 1
    BY <1>2 DEF Attempts
  <2>2. i \in DOMAIN log /\ log[i].type = "NODE_SUCCEEDED" /\ log[i].node = n
    BY <2>1 DEF Rows
  <2>3. log[i].text = NoText
    BY <2>1, <2>2, CountsIsMaterial DEF Counts
  <2> QED BY <2>1, <2>2, <2>3 DEF FirstEnded, EndsFirst
<1> QED BY <1>1, <1>2 DEF EndedAttempts

\* What chooseAttemptForResume chooses.
LEMMA ChosenAttempt ==
  ASSUME TypeInv, SuccessInv, SecondInv, NEW n \in Node, ~MateriallySucceeded(n)
  PROVE  /\ ChooseAttempt(n) \notin EndedAttempts(n)
         /\ ChooseAttempt(n) = 1 => 2 \notin EndedAttempts(n)
         /\ ChooseAttempt(n) = 2 => FirstEnded(n)
<1> DEFINE ended    == EndedAttempts(n)
           started  == Attempts("NODE_STARTED", n)
           inFlight == started \ ended
           known    == {0} \cup started \cup ended
<1>1. ended \in SUBSET (1..2) /\ started \in SUBSET (1..2)
  BY EndedTypes
<1>2. ChooseAttempt(n) = IF inFlight # {} THEN MaxOf(inFlight) ELSE MaxOf(known) + 1
  <2>1. Attempts("NODE_FAILED", n) \cup Attempts("NODE_SUCCEEDED", n) = ended
    BY DEF EndedAttempts
  <2>2. {0} \cup Attempts("NODE_STARTED", n) \cup (Attempts("NODE_FAILED", n) \cup Attempts("NODE_SUCCEEDED", n))
          = known
    BY <2>1
  <2> QED BY <2>1, <2>2 DEF ChooseAttempt
<1>3. 1 \in ended => FirstEnded(n)
  BY EmptyEnd
<1>4. 2 \in ended \cup started => FirstEnded(n)
  BY DEF SecondInv
<1>5. FirstEnded(n) => 1 \in ended
  BY DEF FirstEnded, EndsFirst, EndedAttempts, Attempts, Rows
<1> HIDE DEF ended, started
<1>6. CASE inFlight # {}
  <2>1. MaxOf(inFlight) \in inFlight
    BY <1>1, <1>6, MaxOfInterval
  <2> QED BY <1>1, <1>2, <1>3, <1>4, <1>5, <1>6, <2>1 DEF ended
<1>7. CASE inFlight = {}
  <2>1. MaxOf(known) \in known /\ \A y \in known : y <= MaxOf(known)
    <3>1. known \in SUBSET (0..2) /\ known # {}
      BY <1>1
    <3> QED BY <3>1, MaxOfInterval
  <2> QED BY <1>1, <1>2, <1>3, <1>7, <2>1 DEF ended
<1> QED BY <1>6, <1>7

LEMMA SecondStep ==
  ASSUME TypeInv, AttemptInv, [Next]_vars
  PROVE  SecondInv'
<1> SUFFICES ASSUME NEW n \in Node, (2 \in EndedAttempts(n) \cup Attempts("NODE_STARTED", n))'
             PROVE  FirstEnded(n)'
  BY DEF SecondInv, EndedAttempts, Attempts, Rows
<1>1. CASE 2 \in EndedAttempts(n) \cup Attempts("NODE_STARTED", n)
  BY <1>1, FirstEndedStays DEF AttemptInv, SecondInv
<1>2. CASE UNCHANGED log
  BY <1>1, <1>2 DEF EndedAttempts, Attempts, Rows
<1>3. ASSUME NEW e \in NumberedEvent, Adds(e), ~(2 \in EndedAttempts(n) \cup Attempts("NODE_STARTED", n))
      PROVE  FirstEnded(n)'
  <2>1. log' = Append(log, e) /\ RowBy(e)
    BY <1>3 DEF Adds
  <2>2. EndedAttempts(n)' = EndedAttempts(n) \cup
          {a \in {e.attempt} : e.type \in {"NODE_SUCCEEDED", "NODE_FAILED"} /\ e.node = n}
    BY <2>1, EndedAfter
  <2>3. Attempts("NODE_STARTED", n)' = Attempts("NODE_STARTED", n) \cup
          {a \in {e.attempt} : e.type = "NODE_STARTED" /\ e.node = n}
    BY <2>1, RowsAfter
  <2>4. e.attempt = 2 /\ e.node = n /\ e.type \in {"NODE_SUCCEEDED", "NODE_FAILED", "NODE_STARTED"}
    BY <1>3, <2>2, <2>3
  <2>5. n = Current /\ attempt = 2 /\ InNode
    BY <2>1, <2>4 DEF RowBy, InNode
  <2> QED BY <2>5, FirstEndedStays DEF AttemptInv, InHandInv
<1> QED BY <1>1, <1>2, <1>3, RowStep

\* Only the node in hand, or one that is blocked, has an attempt that ends.
LEMMA OthersEnd ==
  ASSUME TypeInv, [Next]_vars, NEW n \in Node,
         n # Current \/ pc \in {"plan", "queue"} \/ UNCHANGED log
  PROVE  EndedAttempts(n)' = EndedAttempts(n)
<1>1. CASE UNCHANGED log
  BY <1>1 DEF EndedAttempts, Attempts, Rows
<1>2. ASSUME NEW e \in NumberedEvent, Adds(e), ~UNCHANGED log
      PROVE  EndedAttempts(n)' = EndedAttempts(n)
  <2>1. log' = Append(log, e) /\ RowBy(e)
    BY <1>2 DEF Adds
  <2>2. ~(e.type \in {"NODE_SUCCEEDED", "NODE_FAILED"} /\ e.node = n)
    BY <1>2, <2>1 DEF RowBy
  <2>3. EndedAttempts(n)' = EndedAttempts(n) \cup
          {a \in {e.attempt} : e.type \in {"NODE_SUCCEEDED", "NODE_FAILED"} /\ e.node = n}
    BY <2>1, EndedAfter
  <2> QED BY <2>2, <2>3
<1> QED BY <1>1, <1>2, RowStep

LEMMA AheadStep ==
  ASSUME TypeInv, SuccessInv, AttemptInv, [Next]_vars
  PROVE  AheadInv'
<1> SUFFICES ASSUME NEW n \in Node, Ahead(n)', status'[n] # "SUCCEEDED"
             PROVE  /\ resumeAt'[n] \notin EndedAttempts(n)'
                    /\ resumeAt'[n] = 1 => 2 \notin EndedAttempts(n)'
                    /\ resumeAt'[n] = 2 => FirstEnded(n)'
  BY DEF AheadInv, EndedAttempts, Attempts, Rows, FirstEnded, EndsFirst, Ahead, Executing
<1>1. CASE Resume
  <2>1. EndedAttempts(n)' = EndedAttempts(n) /\ FirstEnded(n)' = FirstEnded(n)
    BY <1>1 DEF Resume, EndedAttempts, Attempts, Rows, FirstEnded, EndsFirst
  <2>2. resumeAt'[n] = ChooseAttempt(n) /\ ~MateriallySucceeded(n)
    BY <1>1 DEF Resume
  <2> QED BY <2>1, <2>2, ChosenAttempt DEF AttemptInv
<1>2. CASE ~Resume
  <2>1. /\ Ahead(n) /\ UNCHANGED resumeAt /\ status'[n] = status[n]
        /\ n # Current \/ pc \in {"plan", "queue"} \/ UNCHANGED log
    BY <1>2, ComingStep DEF Coming
  <2>2. EndedAttempts(n)' = EndedAttempts(n)
    BY <2>1, OthersEnd
  <2> QED BY <2>1, <2>2, FirstEndedStays DEF AttemptInv, AheadInv
<1> QED BY <1>1, <1>2

LEMMA InHandStep ==
  ASSUME TypeInv, SeenLogged, AttemptInv, [Next]_vars
  PROVE  InHandInv'
<1>c. PICK n \in Node : n = Current
  BY TextTypes
<1> SUFFICES ASSUME InNode'
             PROVE  /\ Current' = n /\ attempt' <= MaxAttempts[n]
                    /\ pc' # "retry" => attempt' \notin EndedAttempts(n)'
                    /\ attempt' = 1 => 2 \notin EndedAttempts(n)'
                    /\ attempt' = 2 \/ pc' = "retry" => FirstEnded(n)'
                    /\ pc' = "retry" => MaxAttempts[n] = 2
  BY Zenon DEF InHandInv
<1>0. Current \in Node /\ n \in Node /\ attempt \in 1..2 /\ MaxAttempts[n] \in 1..2 /\ Hand
  BY TextTypes, NodeTables, HandStep DEF TypeInv, FlowTyped
<1>f. FirstEnded(n) => FirstEnded(n)'
  BY FirstEndedStays
<1>1. CASE BeginNode
  <2>1. /\ pc = "visit" /\ status[n] # "SUCCEEDED" /\ resumeAt[n] <= MaxAttempts[n]
        /\ attempt' = resumeAt[n] /\ pc' = "start" /\ UNCHANGED <<log, pos>>
    BY <1>c, <1>1 DEF BeginNode
  <2>2. Ahead(n)
    BY <1>c, <2>1 DEF Ahead, Executing, Current, TypeInv, FlowTyped
  <2>3. EndedAttempts(n)' = EndedAttempts(n) /\ Current' = n
    BY <1>c, <2>1 DEF EndedAttempts, Attempts, Rows, Current
  <2> QED BY <1>0, <1>f, <2>1, <2>2, <2>3 DEF AttemptInv, AheadInv
<1>2. ASSUME InNode, UNCHANGED <<pos, status>>,
             \/ /\ UNCHANGED attempt
                /\ pc' = "retry" => pc = "retry" \/ Fail
                /\ pc = "retry" => pc' = "retry"
             \/ ScheduleRetry /\ attempt' = attempt + 1 /\ pc' = "start"
      PROVE  /\ Current' = n /\ attempt' <= MaxAttempts[n]
             /\ pc' # "retry" => attempt' \notin EndedAttempts(n)'
             /\ attempt' = 1 => 2 \notin EndedAttempts(n)'
             /\ attempt' = 2 \/ pc' = "retry" => FirstEnded(n)'
             /\ pc' = "retry" => MaxAttempts[n] = 2
  <2>0. Current' = n
    BY <1>c, <1>2 DEF Current
  <2>1. \/ EndedAttempts(n)' = EndedAttempts(n)
        \/ /\ EndedAttempts(n)' = EndedAttempts(n) \cup {attempt}
           /\ pc = "settle" /\ pc' \notin {"start", "run", "llm", "settle"}
    <3>1. CASE UNCHANGED log
      BY <3>1 DEF EndedAttempts, Attempts, Rows
    <3>2. ASSUME NEW e \in NumberedEvent, Adds(e)
          PROVE  \/ EndedAttempts(n)' = EndedAttempts(n)
                 \/ /\ EndedAttempts(n)' = EndedAttempts(n) \cup {attempt}
                    /\ pc = "settle" /\ pc' \notin {"start", "run", "llm", "settle"}
      <4>1. log' = Append(log, e) /\ RowBy(e)
        BY <3>2 DEF Adds
      <4>2. EndedAttempts(n)' = EndedAttempts(n) \cup
              {a \in {e.attempt} : e.type \in {"NODE_SUCCEEDED", "NODE_FAILED"} /\ e.node = n}
        BY <4>1, EndedAfter
      <4>3. CASE e.type \in {"NODE_SUCCEEDED", "NODE_FAILED"} /\ e.node = n
        <5>1. pc = "settle" /\ e.attempt = attempt /\ pc' \notin {"start", "run", "llm", "settle"}
          BY <1>c, <1>2, <4>1, <4>3 DEF RowBy, InNode
        <5> QED BY <4>2, <4>3, <5>1
      <4> QED BY <4>2, <4>3
    <3> QED BY <3>1, <3>2, RowStep
  <2>2. /\ attempt <= MaxAttempts[n]
        /\ pc # "retry" => attempt \notin EndedAttempts(n)
        /\ attempt = 1 => 2 \notin EndedAttempts(n)
        /\ attempt = 2 \/ pc = "retry" => FirstEnded(n)
        /\ pc = "retry" => MaxAttempts[n] = 2 /\ attempt = 1
    BY <1>c, <1>2 DEF AttemptInv, InHandInv, TypeInv, FlowTyped
  <2>3. CASE UNCHANGED attempt /\ ~(pc' = "retry" /\ pc # "retry") /\ (pc = "retry" => pc' = "retry")
    BY <1>c, <1>0, <1>2, <1>f, <2>0, <2>1, <2>2, <2>3 DEF InNode
  <2>4. CASE pc' = "retry" /\ pc # "retry" /\ Fail /\ UNCHANGED attempt
    <3> DEFINE f == NodeEvent("NODE_FAILED", n, attempt)
    <3>1. attempt < MaxAttempts[n] /\ Emit(f)
      BY <1>c, <1>0, <2>4 DEF Fail, EmitOrThrow
    <3>2. attempt = 1 /\ MaxAttempts[n] = 2
      BY <1>c, <1>0, <3>1
    <3>3. f.type = "NODE_FAILED" /\ f.node = n /\ f.attempt = 1
      BY <3>2 DEF NodeEvent
    <3> HIDE DEF f
    <3>4. Key(f) \in seen'
      BY <3>1 DEF Emit
    <3>5. PICK i \in DOMAIN log' : Key(log'[i]) = Key(f)
      BY <3>4, SeenLoggedStep DEF SeenLogged, Key
    <3>6. FirstEnded(n)'
      BY <3>3, <3>5 DEF Key, FirstEnded, EndsFirst
    <3> QED BY <2>0, <2>1, <2>2, <2>4, <3>2, <3>6
  <2>5. CASE ScheduleRetry /\ attempt' = attempt + 1 /\ pc' = "start"
    <3>1. pc = "retry"
      BY <2>5 DEF ScheduleRetry
    <3> QED BY <1>f, <2>0, <2>1, <2>2, <2>5, <3>1
  <2> QED BY <1>2, <2>3, <2>4, <2>5
<1> QED BY <1>0, <1>1, <1>2 DEF Hand

LEMMA StartsStep ==
  ASSUME TypeInv, AttemptInv, StartsInOrder, [Next]_vars
  PROVE  StartsInOrder'
<1>1. CASE UNCHANGED log
  BY <1>1 DEF StartsInOrder
<1>2. ASSUME NEW e \in NumberedEvent, Adds(e) PROVE StartsInOrder'
  <2>1. log' = Append(log, e) /\ RowBy(e)
    BY <1>2 DEF Adds
  <2>2. /\ Len(log) \in Nat /\ DOMAIN log = 1..Len(log) /\ DOMAIN log' = 1..(Len(log) + 1)
        /\ log'[Len(log) + 1] = e /\ \A i \in DOMAIN log : log'[i] = log[i]
    BY <2>1, RowsAfter
  <2>3. ASSUME NEW j \in DOMAIN log, log[j].type = "NODE_STARTED"
        PROVE  /\ log'[j].attempt <= MaxAttempts[log'[j].node]
               /\ log'[j].attempt = 2 => \E i \in 1..(j - 1) :
                    /\ log'[i].node = log'[j].node /\ log'[i].attempt = 1
                    /\ \/ log'[i].type = "NODE_FAILED"
                       \/ log'[i].type = "NODE_SUCCEEDED" /\ log'[i].text = NoText
    <3>1. log'[j] = log[j] /\ \A i \in 1..(j - 1) : log'[i] = log[i]
      BY <2>2
    <3> QED BY <2>3, <3>1 DEF StartsInOrder
  <2>4. ASSUME e.type = "NODE_STARTED"
        PROVE  /\ e.attempt <= MaxAttempts[e.node]
               /\ e.attempt = 2 => \E i \in DOMAIN log :
                    /\ log[i].node = e.node /\ log[i].attempt = 1
                    /\ \/ log[i].type = "NODE_FAILED"
                       \/ log[i].type = "NODE_SUCCEEDED" /\ log[i].text = NoText
    <3>1. pc = "start" /\ e.node = Current /\ e.attempt = attempt
      BY <2>1, <2>4 DEF RowBy
    <3>2. attempt <= MaxAttempts[Current] /\ (attempt = 2 => FirstEnded(Current))
      BY <3>1 DEF AttemptInv, InHandInv, InNode
    <3> QED BY <3>1, <3>2 DEF FirstEnded, EndsFirst
  <2> SUFFICES ASSUME NEW j \in DOMAIN log', log'[j].type = "NODE_STARTED"
               PROVE  /\ log'[j].attempt <= MaxAttempts[log'[j].node]
                      /\ log'[j].attempt = 2 => \E i \in 1..(j - 1) :
                           /\ log'[i].node = log'[j].node /\ log'[i].attempt = 1
                           /\ \/ log'[i].type = "NODE_FAILED"
                              \/ log'[i].type = "NODE_SUCCEEDED" /\ log'[i].text = NoText
    BY DEF StartsInOrder
  <2>5. CASE j \in DOMAIN log
    BY <2>2, <2>3, <2>5
  <2>6. CASE j = Len(log) + 1
    <3>1. log'[j] = e /\ 1..(j - 1) = DOMAIN log /\ e.type = "NODE_STARTED"
      BY <2>2, <2>6
    <3> QED BY <2>2, <2>4, <3>1
  <2> QED BY <2>2, <2>5, <2>6
<1> QED BY <1>1, <1>2, RowStep

LEMMA AttemptInvariance ==
  Spec => [](TypeInv /\ SeenLogged /\ SuccessInv /\ AttemptInv /\ StartsInOrder)
<1>1. Init => SeenLogged /\ AttemptInv /\ StartsInOrder
  <2>1. Init => SeenLogged /\ StartsInOrder
    BY DEF Init, SeenLogged, StartsInOrder
  <2>2. Init => \A t, n : Attempts(t, n) = {}
    BY DEF Init, Attempts, Rows
  <2> QED BY <2>1, <2>2 DEF Init, AttemptInv, SecondInv, AheadInv, InHandInv, InNode, Ahead, Executing,
             EndedAttempts
<1>2. TypeInv /\ SeenLogged /\ SuccessInv /\ AttemptInv /\ StartsInOrder /\ [Next]_vars
        => (SeenLogged /\ AttemptInv /\ StartsInOrder)'
  BY SeenLoggedStep, SecondStep, AheadStep, InHandStep, StartsStep DEF AttemptInv
<1> QED BY SuccessInvariance, <1>1, <1>2, PTL DEF Spec

\* For every DAG, an attempt is one that the node may have, and a second one follows a
\* first that failed or returned no text, in whatever execution that was.
THEOREM StartsOrdered == Spec => []StartsInOrder
BY AttemptInvariance, PTL

-----------------------------------------------------------------------------
(* Outputs and messages.                                                   *)

Persists(n) == Kind[n] \in {"PERSIST_USER_MESSAGE", "PERSIST_ASSISTANT_MESSAGE"}
Stored(n)   == \E i \in DOMAIN messages : messages[i].node = n

\* What the executor keeps of a node that succeeded is what the log has.
OutputInv == Executing => \A n \in Node : status[n] = "SUCCEEDED" => outputs[n] = LastOutput(n)

\* A good result, and what an attempt has logged before it.
ResultInv ==
  /\ pc = "llm" => Kind[Current] = "LLM_CHAT"
  /\ Attempting => Rows("NODE_STARTED", Current) # {}
  /\ pc = "settle" /\ result.ok = TRUE =>
       /\ Persists(Current) => Stored(Current)
       /\ Kind[Current] = "ENFORCE_REPLY_CONSTRAINTS" => result.text # NoText

\* What a logged success says of the attempt.
RowInv ==
  \A n \in Node : Rows("NODE_SUCCEEDED", n) # {} =>
    /\ Rows("NODE_STARTED", n) # {}
    /\ Persists(n) => Stored(n)
    /\ Kind[n] = "ENFORCE_REPLY_CONSTRAINTS" =>
         \A i \in Rows("NODE_SUCCEEDED", n) : log[i].text # NoText

\* The rows of messages only grow, and WithRow leaves a row of the node.
LEMMA MessagesGrow ==
  ASSUME TypeInv, NEW n \in Node, NEW t \in Text \cup {UserText}, messages' = WithRow(n, t)
  PROVE  /\ DOMAIN messages \subseteq DOMAIN messages'
         /\ \A i \in DOMAIN messages : messages'[i] = messages[i]
         /\ \A i \in DOMAIN messages' \ DOMAIN messages : messages'[i] = Row(n, t)
         /\ Stored(n)'
<1> DEFINE MessageSet == [node : Node, text : Text \cup {UserText}]
           r == Row(n, t)
<1>1. messages \in Seq(MessageSet) /\ r \in MessageSet /\ r.node = n
  BY DEF Row, TypeInv, StoreTyped
<1>2. CASE messages' = messages
  <2>1. ~(Len(messages) + 1 \in DOMAIN messages) /\ (messages = Append(messages, r) => FALSE)
    <3> HIDE DEF MessageSet, r
    <3> QED BY <1>1, AppendProperties, LenProperties
  <2> QED BY <1>2, <2>1 DEF WithRow, Stored
<1>3. CASE messages' = Append(messages, r)
  <2>1. /\ DOMAIN messages = 1..Len(messages) /\ Len(messages) \in Nat
        /\ DOMAIN messages' = 1..(Len(messages) + 1)
        /\ \A i \in DOMAIN messages : messages'[i] = messages[i]
        /\ messages'[Len(messages) + 1] = r
    <3> HIDE DEF MessageSet, r
    <3> QED BY <1>1, <1>3, AppendProperties, LenProperties
  <2> HIDE DEF MessageSet, r
  <2> QED BY <1>1, <2>1 DEF r, Stored
<1> QED BY <1>2, <1>3 DEF WithRow

LEMMA MessagesKept ==
  ASSUME TypeInv, [Next]_vars
  PROVE  /\ DOMAIN messages \subseteq DOMAIN messages'
         /\ \A i \in DOMAIN messages : messages'[i] = messages[i]
         /\ \A n : Stored(n) => Stored(n)'
<1>1. /\ DOMAIN messages \subseteq DOMAIN messages'
      /\ \A i \in DOMAIN messages : messages'[i] = messages[i]
  <2>1. CASE UNCHANGED messages
    BY <2>1
  <2>2. ASSUME NEW t \in Text \cup {UserText}, messages' = WithRow(Current, t)
        PROVE  /\ DOMAIN messages \subseteq DOMAIN messages'
               /\ \A i \in DOMAIN messages : messages'[i] = messages[i]
    <3>1. PICK n \in Node : n = Current
      BY TextTypes
    <3> QED BY <2>2, <3>1, MessagesGrow
  <2> QED BY <2>1, <2>2, StoreShape
<1> QED BY <1>1 DEF Stored

\* A step that logs no success of n leaves its output.
LEMMA SameOutput ==
  ASSUME TypeInv, [Next]_vars, NEW n \in Node,
         Rows("NODE_SUCCEEDED", n)' = Rows("NODE_SUCCEEDED", n)
  PROVE  LastOutput(n)' = LastOutput(n)
<1> DEFINE S == Rows("NODE_SUCCEEDED", n)
<1>1. S # {} => MaxOf(S) \in DOMAIN log
  <2>1. S \in SUBSET (0..Len(log)) /\ S \subseteq DOMAIN log /\ Len(log) \in Nat
    BY RowFacts, NodeBounds DEF EventType, Node
  <2> HIDE DEF S
  <2> QED BY <2>1, MaxOfInterval
<1>2. S # {} => log'[MaxOf(S)] = log[MaxOf(S)]
  BY <1>1, LogGrows
<1> QED BY <1>2 DEF LastOutput

\* What is appended is the last.
LEMMA MaxOfNext ==
  ASSUME NEW b \in Nat, NEW S \in SUBSET (0..b)
  PROVE  MaxOf(S \cup {b + 1}) = b + 1
<1> DEFINE m == b + 1
<1>1. m \in Nat /\ \A y \in S : y \in 0..m /\ y < m
  OBVIOUS
<1> HIDE DEF m
<1>2. S \cup {m} \in SUBSET (0..m) /\ S \cup {m} # {}
  BY <1>1
<1>3. MaxOf(S \cup {m}) \in S \cup {m} /\ \A y \in S \cup {m} : y <= MaxOf(S \cup {m})
  BY <1>1, <1>2, MaxOfInterval
<1>4. PICK x \in S \cup {m} : x = MaxOf(S \cup {m})
  BY <1>3
<1>5. m <= x /\ (x \in S => x \in 0..m /\ x < m)
  BY <1>1, <1>3, <1>4
<1>6. x = m
  BY <1>1, <1>5
<1> QED BY <1>4, <1>6 DEF m

\* One that does sets it.
LEMMA NewOutput ==
  ASSUME TypeInv, NEW e \in NumberedEvent, log' = Append(log, e),
         e.type = "NODE_SUCCEEDED", NEW n \in Node, e.node = n
  PROVE  LastOutput(n)' = e.text
<1> DEFINE S == Rows("NODE_SUCCEEDED", n)
           m == Len(log) + 1
<1>1. S \in SUBSET (0..Len(log)) /\ Len(log) \in Nat
  BY RowFacts, NodeBounds DEF EventType, Node
<1>2. Rows("NODE_SUCCEEDED", n)' = S \cup {m} /\ log'[m] = e
  BY RowsAfter
<1>3. MaxOf(S \cup {m}) = m
  BY <1>1, MaxOfNext
<1> QED BY <1>2, <1>3 DEF LastOutput

\* Only the node in hand logs a success.
LEMMA OthersSucceed ==
  ASSUME TypeInv, [Next]_vars, NEW n \in Node, ~(pc = "settle" /\ n = Current)
  PROVE  Rows("NODE_SUCCEEDED", n)' = Rows("NODE_SUCCEEDED", n)
<1>1. CASE UNCHANGED log
  BY <1>1 DEF Rows
<1>2. ASSUME NEW e \in NumberedEvent, Adds(e)
      PROVE  Rows("NODE_SUCCEEDED", n)' = Rows("NODE_SUCCEEDED", n)
  <2>1. log' = Append(log, e) /\ RowBy(e)
    BY <1>2 DEF Adds
  <2>2. ~(e.type = "NODE_SUCCEEDED" /\ e.node = n)
    BY <2>1 DEF RowBy
  <2>3. Rows("NODE_SUCCEEDED", n)' = Rows("NODE_SUCCEEDED", n) \cup
          {i \in {Len(log) + 1} : e.type = "NODE_SUCCEEDED" /\ e.node = n}
    BY <2>1, RowsAfter
  <2> QED BY <2>2, <2>3
<1> QED BY <1>1, <1>2, RowStep

LEMMA OutputStep ==
  ASSUME TypeInv, SeenLogged, SuccessInv, AttemptInv, OutputInv, [Next]_vars
  PROVE  OutputInv'
<1> SUFFICES ASSUME Executing', NEW n \in Node, status'[n] = "SUCCEEDED"
             PROVE  outputs'[n] = LastOutput(n)'
  BY DEF OutputInv
<1>0. Current \in Node /\ attempt \in 1..2 /\ result.text \in MaybeText /\ outputs \in [Node -> MaybeText]
  BY TextTypes DEF TypeInv, FlowTyped, ResultTyped
<1>1. CASE Executing /\ status[n] = "SUCCEEDED"
  <2>1. ~(pc = "settle" /\ n = Current) /\ (InNode => status[Current] = "RUNNING")
    BY <1>1 DEF SuccessInv, InNode
  <2>2. LastOutput(n)' = LastOutput(n)
    BY <2>1, OthersSucceed, SameOutput
  <2>3. outputs'[n] = outputs[n]
    BY <1>1, <2>1, KeepsStep DEF Keeps
  <2> QED BY <1>1, <2>2, <2>3 DEF OutputInv
<1>2. CASE Resume /\ MateriallySucceeded(n)
  <2>1. outputs'[n] = LastOutput(n) /\ UNCHANGED log
    BY <1>2 DEF Resume
  <2> QED BY <2>1 DEF LastOutput, Rows
<1>3. CASE Succeed /\ n = Current /\ pc' # "threw"
  <2> DEFINE f == TextEvent("NODE_SUCCEEDED", n, attempt, result.text)
  <2>1. Emit(f) /\ pc = "settle" /\ outputs'[n] = result.text
    BY <1>0, <1>3 DEF Succeed, EmitOrThrow
  <2>2. /\ f \in NumberedEvent /\ f.text = result.text
        /\ f.type = "NODE_SUCCEEDED" /\ f.node = n /\ f.attempt = attempt
    <3>1. f.text = result.text /\ f.type = "NODE_SUCCEEDED" /\ f.node = n /\ f.attempt = attempt
      BY DEF TextEvent, NodeEvent
    <3> QED BY <1>0, <3>1, WrittenEvents
  <2> HIDE DEF f
  <2>3. Key(f) \notin seen
    <3>1. attempt \notin EndedAttempts(n)
      BY <1>3, <2>1 DEF AttemptInv, InHandInv, InNode
    <3>2. ASSUME NEW i \in DOMAIN log, Key(log[i]) = Key(f) PROVE FALSE
      <4>1. log[i].type = "NODE_SUCCEEDED" /\ log[i].node = n /\ log[i].attempt = attempt
        BY <2>2, <3>2 DEF Key
      <4> QED BY <3>1, <4>1 DEF EndedAttempts, Attempts, Rows
    <3> QED BY <3>2 DEF SeenLogged
  <2>4. log' = Append(log, f)
    BY <2>1, <2>3 DEF Emit
  <2>5. LastOutput(n)' = f.text
    BY <2>2, <2>4, NewOutput
  <2> QED BY <2>1, <2>2, <2>5
<1> QED BY <1>1, <1>2, <1>3, StatusShape

LEMMA ResultStep ==
  ASSUME TypeInv, SeenLogged, ResultInv, [Next]_vars
  PROVE  ResultInv'
<1>c. PICK n \in Node : n = Current
  BY TextTypes
<1>1. Attempting' =>
        /\ Current' = n
        /\ \/ Attempting
           \/ StartAttempt /\ Emit(NodeEvent("NODE_STARTED", n, attempt))
        /\ pc' = "llm" => pc = "llm" \/ Kind[n] = "LLM_CHAT"
  BY <1>c, HandStep DEF Attempt, Current
<1>2. pc' = "llm" => Kind[n] = "LLM_CHAT"
  BY <1>c, <1>1 DEF ResultInv, Attempting
<1>3. Attempting' => Rows("NODE_STARTED", n)' # {}
  <2>1. CASE Attempting
    BY <1>c, <2>1, LogGrows DEF ResultInv
  <2>2. ASSUME Emit(NodeEvent("NODE_STARTED", n, attempt)) PROVE Rows("NODE_STARTED", n)' # {}
    <3> DEFINE f == NodeEvent("NODE_STARTED", n, attempt)
    <3>1. Key(f) \in seen' /\ f.type = "NODE_STARTED" /\ f.node = n
      BY <2>2 DEF Emit, NodeEvent
    <3> HIDE DEF f
    <3>2. PICK i \in DOMAIN log' : Key(log'[i]) = Key(f)
      BY <3>1, SeenLoggedStep DEF SeenLogged, Key
    <3>3. log'[i].type = "NODE_STARTED" /\ log'[i].node = n
      BY <3>1, <3>2 DEF Key
    <3> QED BY <3>2, <3>3 DEF Rows
  <2> QED BY <1>1, <2>1, <2>2
<1>4. ASSUME pc' = "settle", result'.ok = TRUE
      PROVE  /\ Persists(n) => Stored(n)'
             /\ Kind[n] = "ENFORCE_REPLY_CONSTRAINTS" => result'.text # NoText
  <2>1. CASE pc = "settle" /\ UNCHANGED <<result, messages>>
    BY <1>4, <1>c, <2>1 DEF ResultInv, Stored
  <2>2. CASE pc = "llm"
    BY <1>c, <2>2 DEF ResultInv, Persists
  <2>3. CASE /\ Kind[n] = "PERSIST_USER_MESSAGE" => messages' = WithRow(n, UserText)
             /\ Kind[n] = "PERSIST_ASSISTANT_MESSAGE" =>
                  AssistantText # NoText /\ messages' = WithRow(n, AssistantText)
             /\ Kind[n] = "ENFORCE_REPLY_CONSTRAINTS" => result'.text # NoText
    <3>1. PICK t : t = AssistantText
      OBVIOUS
    <3>2. t \in MaybeText
      BY <3>1, TextTypes
    <3>3. CASE Kind[n] = "PERSIST_USER_MESSAGE"
      BY <2>3, <3>3, MessagesGrow
    <3>4. CASE Kind[n] = "PERSIST_ASSISTANT_MESSAGE"
      BY <2>3, <3>1, <3>2, <3>4, MessagesGrow DEF MaybeText
    <3> QED BY <2>3, <3>3, <3>4 DEF Persists
  <2> QED BY <1>4, <1>c, <2>1, <2>2, <2>3, SettlesStep DEF Settles
<1>5. pc' \in {"llm", "settle"} => Current' = n
  BY <1>1 DEF Attempting
<1>6. Attempting' => Current' = n
  BY <1>1
<1> QED BY <1>2, <1>3, <1>4, <1>5, <1>6 DEF ResultInv, Persists, Stored

LEMMA RowInvStep ==
  ASSUME TypeInv, ResultInv, RowInv, [Next]_vars
  PROVE  RowInv'
<1> SUFFICES ASSUME NEW n \in Node, NEW i \in Rows("NODE_SUCCEEDED", n)'
             PROVE  /\ Rows("NODE_STARTED", n)' # {}
                    /\ Persists(n) => Stored(n)'
                    /\ Kind[n] = "ENFORCE_REPLY_CONSTRAINTS" => log'[i].text # NoText
  BY DEF RowInv, Persists, Stored, Rows
<1>1. ASSUME i \in Rows("NODE_SUCCEEDED", n)
      PROVE  /\ Rows("NODE_STARTED", n)' # {}
             /\ Persists(n) => Stored(n)'
             /\ Kind[n] = "ENFORCE_REPLY_CONSTRAINTS" => log'[i].text # NoText
  <2>1. /\ Rows("NODE_STARTED", n) # {} /\ (Persists(n) => Stored(n))
        /\ Kind[n] = "ENFORCE_REPLY_CONSTRAINTS" => log[i].text # NoText
    BY <1>1 DEF RowInv
  <2>2. i \in DOMAIN log
    BY <1>1 DEF Rows
  <2> QED BY <2>1, <2>2, LogGrows, MessagesKept
<1>2. CASE UNCHANGED log
  BY <1>1, <1>2 DEF Rows
<1>3. ASSUME NEW e \in NumberedEvent, Adds(e), i \notin Rows("NODE_SUCCEEDED", n)
      PROVE  /\ Rows("NODE_STARTED", n)' # {}
             /\ Persists(n) => Stored(n)'
             /\ Kind[n] = "ENFORCE_REPLY_CONSTRAINTS" => log'[i].text # NoText
  <2>1. log' = Append(log, e) /\ RowBy(e)
    BY <1>3 DEF Adds
  <2>2. i = Len(log) + 1 /\ e.type = "NODE_SUCCEEDED" /\ e.node = n /\ log'[Len(log) + 1] = e
    BY <1>3, <2>1, RowsAfter
  <2>3. pc = "settle" /\ result.ok = TRUE /\ n = Current /\ e.text = result.text
    BY <2>1, <2>2 DEF RowBy
  <2>4. /\ Rows("NODE_STARTED", n) # {} /\ (Persists(n) => Stored(n))
        /\ Kind[n] = "ENFORCE_REPLY_CONSTRAINTS" => result.text # NoText
    BY <2>3 DEF ResultInv, Attempting
  <2> QED BY <2>2, <2>3, <2>4, LogGrows, MessagesKept
<1> QED BY <1>1, <1>2, <1>3, RowStep

-----------------------------------------------------------------------------
(* The verdict.                                                            *)

\* What a verdict says holds of the log and of the messages.
VerdictsTrue ==
  \A v \in Verdicts :
    IF log[v].ok
    THEN \A n \in Node : Rows("NODE_SUCCEEDED", n) # {} /\ (Persists(n) => Stored(n))
    ELSE \E n \in Node : ~MateriallySucceeded(n)

ReturnsVerdict == pc = "returned" => \E v \in Verdicts : log[v].ok = verdict

LEMMA VerdictsTrueStep ==
  ASSUME TypeInv, VerdictInv, SuccessLogged, SuccessInv, RowInv, VerdictsTrue, [Next]_vars
  PROVE  VerdictsTrue'
<1> SUFFICES ASSUME NEW v \in Verdicts'
             PROVE  IF log'[v].ok
                    THEN \A n \in Node : Rows("NODE_SUCCEEDED", n)' # {} /\ (Persists(n) => Stored(n)')
                    ELSE \E n \in Node : ~MateriallySucceeded(n)'
  BY Zenon DEF VerdictsTrue, Persists
<1>1. CASE UNCHANGED log
  <2>1. /\ v \in Verdicts /\ log'[v] = log[v]
        /\ \A t, n : Rows(t, n)' = Rows(t, n)
        /\ \A n : MateriallySucceeded(n)' = MateriallySucceeded(n)
    BY <1>1 DEF Verdicts, Rows, MateriallySucceeded, LastOutput
  <2> QED BY <2>1, MessagesKept DEF VerdictsTrue
<1>2. ASSUME NEW e \in NumberedEvent, Adds(e)
      PROVE  IF log'[v].ok
             THEN \A n \in Node : Rows("NODE_SUCCEEDED", n)' # {} /\ (Persists(n) => Stored(n)')
             ELSE \E n \in Node : ~MateriallySucceeded(n)'
  <2>1. log' = Append(log, e) /\ RowBy(e) /\ Executing
    BY <1>2 DEF Adds
  <2>2. v = Len(log) + 1 /\ e.type = "DAG_COMPLETED" /\ log'[v] = e
    BY <2>1, RowsAfter DEF VerdictInv, Verdicts
  <2>3. e.ok = AllSucceeded /\ pc = "complete"
    BY <2>1, <2>2 DEF RowBy
  <2>4. CASE AllSucceeded
    <3>1. \A n \in Node : Rows("NODE_SUCCEEDED", n) # {}
      BY <2>1, <2>4 DEF AllSucceeded, SuccessLogged
    <3>2. \A n \in Node : Persists(n) => Stored(n)
      BY <3>1 DEF RowInv
    <3> QED BY <2>2, <2>3, <2>4, <3>1, <3>2, LogGrows, MessagesKept
  <2>5. CASE ~AllSucceeded
    <3>1. PICK n \in Node : status[n] # "SUCCEEDED"
      BY <2>5 DEF AllSucceeded
    <3>2. ~MateriallySucceeded(n)
      BY <2>1, <3>1, CountsIsMaterial DEF SuccessInv
    <3>3. Rows("NODE_SUCCEEDED", n)' = Rows("NODE_SUCCEEDED", n)
      BY <2>3, OthersSucceed
    <3>4. LastOutput(n)' = LastOutput(n)
      BY <3>3, SameOutput
    <3>5. ~MateriallySucceeded(n)'
      BY <3>2, <3>3, <3>4 DEF MateriallySucceeded
    <3> QED BY <2>2, <2>3, <2>5, <3>5
  <2> QED BY <2>4, <2>5
<1> QED BY <1>1, <1>2, RowStep

LEMMA ReturnsVerdictStep ==
  ASSUME TypeInv, VerdictInv, SeenLogged, ReturnsVerdict, [Next]_vars
  PROVE  ReturnsVerdict'
<1> SUFFICES ASSUME pc' = "returned" PROVE \E v \in Verdicts' : log'[v].ok = verdict'
  BY Zenon DEF ReturnsVerdict
<1>1. CASE ReturnRecorded
  <2> DEFINE S == Verdicts
  <2>1. S # {} /\ verdict' = log[MaxOf(S)].ok /\ UNCHANGED log
    BY <1>1 DEF ReturnRecorded
  <2>2. Len(log) \in Nat /\ S \in SUBSET (0..Len(log))
    BY RowFacts, NodeBounds DEF Verdicts, EventType
  <2>3. S' = S
    BY <2>1 DEF Verdicts, Rows
  <2> HIDE DEF S
  <2>4. MaxOf(S) \in S
    BY <2>1, <2>2, MaxOfInterval
  <2>5. \E v \in S' : log'[v].ok = verdict'
    BY <2>1, <2>3, <2>4
  <2> QED BY <2>5 DEF S
<1>2. CASE Complete
  <2> DEFINE f == DagEvent("DAG_COMPLETED", AllSucceeded)
  <2>1. Emit(f) /\ verdict' = AllSucceeded /\ pc = "complete"
    BY <1>2 DEF Complete, EmitOrThrow
  <2>2. f.type = "DAG_COMPLETED" /\ f.node = 0 /\ f.ok = AllSucceeded /\ f \in NumberedEvent
    <3>1. AllSucceeded \in BOOLEAN
      BY DEF AllSucceeded
    <3>2. f.type = "DAG_COMPLETED" /\ f.node = 0 /\ f.ok = AllSucceeded
      BY DEF DagEvent, NodeEvent
    <3>3. f \in Event
      BY <3>1, DagEventFields DEF EventType
    <3> HIDE DEF f
    <3> QED BY <3>2, <3>3 DEF NumberedEvent, AttemptEvent
  <2> HIDE DEF f
  <2>3. Key(f) \notin seen
    <3>1. ASSUME NEW i \in DOMAIN log, Key(log[i]) = Key(f) PROVE FALSE
      <4>1. log[i].type = "DAG_COMPLETED" /\ log[i].node = 0
        BY <2>2, <3>1 DEF Key
      <4> QED BY <2>1, <4>1 DEF VerdictInv, Executing, Verdicts, Rows
    <3> QED BY <3>1 DEF SeenLogged
  <2>4. log' = Append(log, f)
    BY <2>1, <2>3 DEF Emit
  <2>5. Len(log) + 1 \in Verdicts' /\ log'[Len(log) + 1] = f
    BY <2>2, <2>4, RowsAfter DEF Verdicts
  <2> QED BY <2>1, <2>2, <2>5
<1>3. CASE pc = "returned" /\ UNCHANGED verdict
  <2>1. PICK v \in Verdicts : log[v].ok = verdict
    BY <1>3 DEF ReturnsVerdict
  <2>2. v \in DOMAIN log
    BY <2>1 DEF Verdicts, Rows
  <2>3. v \in Verdicts' /\ log'[v] = log[v]
    BY <2>1, <2>2, LogGrows DEF Verdicts
  <2> QED BY <1>3, <2>1, <2>3
<1> QED BY <1>1, <1>2, <1>3, AsksStep DEF Returns

OutcomeInv ==
  /\ OrderInv /\ VerdictInv /\ SuccessInv /\ AttemptInv /\ StartsInOrder
  /\ OutputInv /\ ResultInv /\ RowInv /\ VerdictsTrue /\ ReturnsVerdict

LEMMA OutcomeInvariance == Spec => [](TypeInv /\ OutcomeInv)
<1>1. Init => OutcomeInv
  <2>1. Init => /\ \A t, n : Rows(t, n) = {} /\ Attempts(t, n) = {}
                /\ log = <<>> /\ seen = {} /\ pc = "idle"
    BY DEF Init, Rows, Attempts
  <2>2. Init => OrderInv /\ VerdictInv /\ SuccessInv /\ StartsInOrder
    BY <2>1 DEF OrderInv, StartedAfterDeps, SeenLogged, SuccessLogged, DepsSucceeded, Executing,
       InNode, VerdictInv, SuccessInv, Counts, StartsInOrder
  <2>3. Init => AttemptInv
    BY <2>1 DEF AttemptInv, SecondInv, AheadInv, InHandInv, InNode, Ahead, Executing, EndedAttempts
  <2>4. Init => OutputInv /\ ResultInv /\ RowInv /\ VerdictsTrue /\ ReturnsVerdict
    BY <2>1 DEF OutputInv, Executing, ResultInv, Attempting, RowInv, VerdictsTrue, Verdicts, ReturnsVerdict
  <2> QED BY <2>2, <2>3, <2>4 DEF OutcomeInv
<1>2. TypeInv /\ OutcomeInv /\ [Next]_vars => OutcomeInv'
  <2> SUFFICES ASSUME TypeInv, OutcomeInv, [Next]_vars PROVE OutcomeInv'
    OBVIOUS
  <2> USE DEF OutcomeInv
  <2>1. OrderInv'
    BY SeenLoggedStep, SuccessLoggedStep, DepsSucceededStep, StartedStep DEF OrderInv
  <2>2. VerdictInv' /\ SuccessInv' /\ StartsInOrder'
    BY VerdictStep, SuccessStep, StartsStep
  <2>3. AttemptInv'
    BY SecondStep, AheadStep, InHandStep DEF AttemptInv, OrderInv
  <2>4. OutputInv' /\ ResultInv' /\ RowInv'
    BY OutputStep, ResultStep, RowInvStep DEF OrderInv
  <2>5. VerdictsTrue' /\ ReturnsVerdict'
    BY VerdictsTrueStep, ReturnsVerdictStep DEF OrderInv
  <2> QED BY <2>1, <2>2, <2>3, <2>4, <2>5
<1> QED BY TypeInvariance, <1>1, <1>2, PTL DEF Spec

\* For every DAG the verdict tells the truth, of the successes and of the messages, and it
\* is what executeDag returns.
THEOREM VerdictTold == Spec => []VerdictHonest
<1>1. OutcomeInv => VerdictHonest
  BY DEF OutcomeInv, VerdictsTrue, ReturnsVerdict, VerdictHonest, Persists, Stored
<1> QED BY <1>1, OutcomeInvariance, PTL

-----------------------------------------------------------------------------
(* One end for each attempt.                                               *)

\* An empty success is that of a completion.
LEMMA EmptyIsCompletion ==
  ASSUME TypeInv, SuccessInv, RowInv, Executing, NEW n \in Node, status[n] # "SUCCEEDED",
         Rows("NODE_SUCCEEDED", n) # {}
  PROVE  Kind[n] = "LLM_CHAT"
<1>1. PICK i \in Rows("NODE_SUCCEEDED", n) : TRUE
  OBVIOUS
<1>2. i \in DOMAIN log /\ ~Counts(n, i)
  BY <1>1 DEF Rows, SuccessInv
<1>3. Kind[n] \in TextKind /\ log[i].text = NoText
  BY <1>1, <1>2 DEF Counts
<1> QED BY <1>1, <1>3 DEF RowInv, TextKind

\* So a node that is blocked has no success at all.
LEMMA BlockedFresh ==
  ASSUME Apart, TypeInv, OutcomeInv, Executing, NEW n \in Node, status[n] # "SUCCEEDED", Blocked(n)
  PROVE  Rows("NODE_SUCCEEDED", n) = {}
<1> SUFFICES ASSUME Rows("NODE_SUCCEEDED", n) # {} PROVE FALSE
  OBVIOUS
<1> USE DEF OutcomeInv
<1>1. Kind[n] = "LLM_CHAT"
  BY EmptyIsCompletion
<1>2. PICK j \in Rows("NODE_STARTED", n) : TRUE
  BY DEF RowInv
<1>3. PICK d \in Deps[n] : status[d] # "SUCCEEDED"
  BY DEF Blocked
<1>4. d \in Node
  BY <1>3, DagAssumption
<1>5. Rows("NODE_SUCCEEDED", d) # {}
  <2>1. j \in DOMAIN log /\ log[j].type = "NODE_STARTED" /\ log[j].node = n
    BY <1>2 DEF Rows
  <2> QED BY <2>1, <1>3 DEF OrderInv, StartedAfterDeps
<1>6. Kind[d] = "LLM_CHAT"
  BY <1>3, <1>4, <1>5, EmptyIsCompletion
<1> QED BY <1>1, <1>3, <1>6 DEF Apart

LEMMA EndsOneWayStep ==
  ASSUME Apart, TypeInv, OutcomeInv, EndsOneWay, [Next]_vars
  PROVE  EndsOneWay'
<1> SUFFICES ASSUME NEW n \in Node
             PROVE  Attempts("NODE_SUCCEEDED", n)' \cap Attempts("NODE_FAILED", n)' = {}
  BY DEF EndsOneWay
<1> DEFINE won  == Attempts("NODE_SUCCEEDED", n)
           lost == Attempts("NODE_FAILED", n)
<1>0. won \cap lost = {}
  BY DEF EndsOneWay
<1>1. CASE UNCHANGED log
  BY <1>0, <1>1 DEF Attempts, Rows
<1>2. ASSUME NEW e \in NumberedEvent, Adds(e) PROVE won' \cap lost' = {}
  <2>1. log' = Append(log, e) /\ RowBy(e) /\ Executing
    BY <1>2 DEF Adds
  <2>2. /\ won' = won \cup {a \in {e.attempt} : e.type = "NODE_SUCCEEDED" /\ e.node = n}
        /\ lost' = lost \cup {a \in {e.attempt} : e.type = "NODE_FAILED" /\ e.node = n}
    BY <2>1, RowsAfter
  <2>3. ASSUME e.node = n, e.type \in {"NODE_SUCCEEDED", "NODE_FAILED"}, pc = "settle"
        PROVE  e.attempt \notin won \cup lost
    <3>1. n = Current /\ e.attempt = attempt
      BY <2>1, <2>3 DEF RowBy
    <3> QED BY <2>3, <3>1 DEF OutcomeInv, AttemptInv, InHandInv, InNode, EndedAttempts
  <2>4. ASSUME e.node = n, e.type = "NODE_FAILED", pc # "settle"
        PROVE  won = {}
    <3>1. n = Current /\ Blocked(Current) /\ status[Current] # "SUCCEEDED"
      BY <2>1, <2>4 DEF RowBy
    <3>2. Rows("NODE_SUCCEEDED", n) = {}
      BY <2>1, <3>1, BlockedFresh
    <3> QED BY <3>2 DEF Attempts
  <2>5. e.type = "NODE_SUCCEEDED" => pc = "settle"
    BY <2>1 DEF RowBy
  <2> HIDE DEF won, lost
  <2>6. CASE e.type = "NODE_SUCCEEDED" /\ e.node = n
    BY <1>0, <2>2, <2>3, <2>5, <2>6
  <2>7. CASE e.type = "NODE_FAILED" /\ e.node = n
    BY <1>0, <2>2, <2>3, <2>4, <2>7
  <2>8. CASE ~(e.type \in {"NODE_SUCCEEDED", "NODE_FAILED"} /\ e.node = n)
    BY <1>0, <2>2, <2>8
  <2> QED BY <2>6, <2>7, <2>8
<1> QED BY <1>1, <1>2, RowStep

\* For every DAG where no completion depends on another, the attempts of a node keep to
\* their number, their order and their ends.
THEOREM AttemptsKept ==
  ASSUME Apart
  PROVE  Spec => []AttemptsInOrder
<1>1. Init => EndsOneWay
  BY DEF Init, EndsOneWay, Attempts, Rows
<1>2. TypeInv /\ OutcomeInv /\ EndsOneWay /\ [Next]_vars => EndsOneWay'
  BY EndsOneWayStep
<1>3. OutcomeInv /\ EndsOneWay => AttemptsInOrder
  BY DEF OutcomeInv, AttemptsInOrder
<1> QED BY <1>1, <1>2, <1>3, OutcomeInvariance, PTL DEF Spec

-----------------------------------------------------------------------------
(* The stored answer.                                                      *)

\* A stored answer is the output of its source, which has succeeded.
AnswerInv ==
  \A i \in DOMAIN messages : Kind[messages[i].node] = "PERSIST_ASSISTANT_MESSAGE" =>
    /\ Source \in Node /\ MateriallySucceeded(Source)
    /\ messages[i].text = LastOutput(Source)

\* What PERSIST_ASSISTANT_MESSAGE stores.
LEMMA AnswerStored ==
  ASSUME AnswerDepends, TypeInv, OutcomeInv, pc = "run",
         Kind[Current] = "PERSIST_ASSISTANT_MESSAGE", AssistantText # NoText
  PROVE  /\ Source \in Node /\ MateriallySucceeded(Source)
         /\ AssistantText = LastOutput(Source)
<1> USE DEF OutcomeInv
<1>1. /\ First("ENFORCE_REPLY_CONSTRAINTS", Node) \in {0} \cup Node
      /\ First("LLM_CHAT", Node) \in {0} \cup Node
      /\ 0 \notin Node /\ Current \in Node
  <2>1. {"ENFORCE_REPLY_CONSTRAINTS", "LLM_CHAT"} \subseteq NodeKind
    BY DEF NodeKind
  <2>2. 0 \notin Node
    BY DEF Node
  <2> QED BY <2>1, <2>2, TextTypes
<1>2. Source # 0
  BY DEF AssistantText, Source, OutputOf
<1>3. Source \in Node /\ Source \in Deps[Current]
  BY <1>1, <1>2 DEF Source, AnswerDepends
<1>4. status[Source] = "SUCCEEDED"
  BY <1>3 DEF OrderInv, DepsSucceeded, InNode
<1>5. Rows("NODE_SUCCEEDED", Source) # {} /\ outputs[Source] = LastOutput(Source)
  BY <1>3, <1>4 DEF OrderInv, SuccessLogged, OutputInv, Executing
<1>6. AssistantText = LastOutput(Source)
  <2>1. CASE First("ENFORCE_REPLY_CONSTRAINTS", Node) = 0
    BY <1>2, <1>5, <2>1 DEF AssistantText, Source, OutputOf
  <2>2. CASE First("ENFORCE_REPLY_CONSTRAINTS", Node) # 0
    <3>1. Source = First("ENFORCE_REPLY_CONSTRAINTS", Node)
      BY <2>2 DEF Source
    <3>2. Kind[Source] = "ENFORCE_REPLY_CONSTRAINTS"
      <4>1. First("ENFORCE_REPLY_CONSTRAINTS", Node) \in {n \in Node : Kind[n] = "ENFORCE_REPLY_CONSTRAINTS"}
        <5> DEFINE F == {n \in Node : Kind[n] = "ENFORCE_REPLY_CONSTRAINTS"}
        <5>1. F # {} /\ F \in SUBSET Nat /\ First("ENFORCE_REPLY_CONSTRAINTS", Node) = MinOf(F)
          BY <2>2 DEF First, Node
        <5> HIDE DEF F
        <5>2. MinOf(F) \in F
          BY <5>1, MinOfNat
        <5> QED BY <5>1, <5>2 DEF F
      <4> QED BY <3>1, <4>1
    <3>3. LastOutput(Source) # NoText
      <4> DEFINE S == Rows("NODE_SUCCEEDED", Source)
      <4>1. S # {} /\ \A i \in S : log[i].text # NoText
        BY <1>3, <1>5, <3>2 DEF RowInv
      <4>2. S \in SUBSET (0..Len(log)) /\ Len(log) \in Nat
        <5>1. \A n \in Node : n \in 0..NumNodes
          BY NodeBounds DEF Node
        <5>2. "NODE_SUCCEEDED" \in EventType
          BY DEF EventType
        <5> QED BY <1>3, <5>1, <5>2, RowFacts
      <4>3. LastOutput(Source) = log[MaxOf(S)].text
        BY <4>1 DEF LastOutput
      <4> HIDE DEF S
      <4>4. MaxOf(S) \in S
        BY <4>1, <4>2, MaxOfInterval
      <4> QED BY <4>1, <4>3, <4>4
    <3> QED BY <1>2, <1>5, <3>1, <3>3 DEF AssistantText, OutputOf
  <2> QED BY <2>1, <2>2
<1>7. MateriallySucceeded(Source)
  BY <1>5, <1>6 DEF MateriallySucceeded
<1> QED BY <1>3, <1>6, <1>7

LEMMA AnswerStep ==
  ASSUME AnswerDepends, TypeInv, OutcomeInv, AnswerInv, [Next]_vars
  PROVE  AnswerInv'
<1> SUFFICES ASSUME NEW i \in DOMAIN messages', Kind[messages'[i].node] = "PERSIST_ASSISTANT_MESSAGE"
             PROVE  /\ Source \in Node /\ MateriallySucceeded(Source)'
                    /\ messages'[i].text = LastOutput(Source)'
  BY DEF AnswerInv
<1>1. CASE i \in DOMAIN messages
  <2>1. messages'[i] = messages[i]
    BY <1>1, MessagesKept
  <2>2. /\ Source \in Node /\ MateriallySucceeded(Source)
        /\ messages[i].text = LastOutput(Source)
    BY <1>1, <2>1 DEF AnswerInv
  <2> QED BY <2>1, <2>2, OutputStays DEF OutcomeInv
<1>2. CASE i \notin DOMAIN messages
  <2>c. PICK n \in Node : n = Current
    BY TextTypes
  <2>t. PICK t : t = AssistantText
    OBVIOUS
  <2>1. CASE UNCHANGED messages
    BY <1>2, <2>1
  <2>2. CASE Kind[n] = "PERSIST_USER_MESSAGE" /\ messages' = WithRow(n, UserText)
    <3>1. messages'[i] = Row(n, UserText)
      BY <1>2, <2>2, MessagesGrow
    <3> QED BY <2>2, <3>1 DEF Row
  <2>3. CASE /\ pc = "run" /\ Kind[n] = "PERSIST_ASSISTANT_MESSAGE"
             /\ t # NoText /\ messages' = WithRow(n, t)
    <3>1. t \in Text
      BY <2>3, <2>t, TextTypes DEF MaybeText
    <3>2. messages'[i] = Row(n, t)
      BY <1>2, <2>3, <3>1, MessagesGrow
    <3>3. Source \in Node /\ MateriallySucceeded(Source) /\ t = LastOutput(Source)
      BY <2>c, <2>t, <2>3, AnswerStored
    <3>4. MateriallySucceeded(Source)' /\ LastOutput(Source)' = LastOutput(Source)
      BY <3>3, OutputStays DEF OutcomeInv
    <3> QED BY <3>2, <3>3, <3>4 DEF Row
  <2> QED BY <2>c, <2>t, <2>1, <2>2, <2>3, SettlesStep DEF Stores
<1> QED BY <1>1, <1>2

\* For every DAG where the answer is stored after the node that gives it, the verdict and
\* the stored answer are what the log says.
THEOREM EndTold ==
  ASSUME AnswerDepends
  PROVE  Spec => []EndIsTrue
<1>1. Init => AnswerInv
  BY DEF Init, AnswerInv
<1>2. TypeInv /\ OutcomeInv /\ AnswerInv /\ [Next]_vars => AnswerInv'
  BY AnswerStep
<1>3. OutcomeInv /\ AnswerInv => EndIsTrue
  <2>1. OutcomeInv => VerdictHonest
    BY DEF OutcomeInv, VerdictsTrue, ReturnsVerdict, VerdictHonest, Persists, Stored
  <2>2. AnswerInv => AnswerIsTheLoggedText
    BY DEF AnswerInv, AnswerIsTheLoggedText, Source
  <2> QED BY <2>1, <2>2 DEF EndIsTrue
<1> QED BY <1>1, <1>2, <1>3, OutcomeInvariance, PTL DEF Spec

(***************************************************************************)
(* Part three: DagExecutor implements DagRun.                              *)
(***************************************************************************)

-----------------------------------------------------------------------------
(* What the log shows of a node.                                           *)

\* DerivedNode without SKIPPED, which no node of a good DAG is shown as.
Shown(n) ==
  IF StatusRows(n) # {} THEN NodeStatusEvent[log[MaxOf(StatusRows(n))].type]
  ELSE IF Known(n) THEN "PENDING" ELSE "UNKNOWN"

LastStatus(n, i) == i \in StatusRows(n) /\ \A j \in StatusRows(n) : j <= i

Planned     == Rows("DAG_PLANNED", 0) # {}
Queued(n)   == Rows("NODE_QUEUED", n) # {}
SomeStarted == \E n \in Node : Rows("NODE_STARTED", n) # {}

LEMMA StatusRowsAre ==
  \A n : StatusRows(n) = {i \in DOMAIN log : log[i].type \in AttemptEvent /\ log[i].node = n}
<1>1. DOMAIN NodeStatusEvent = AttemptEvent
  BY DEF NodeStatusEvent, AttemptEvent
<1> QED BY <1>1 DEF StatusRows, Rows

LEMMA StatusFacts ==
  ASSUME TypeInv, NEW n \in Node
  PROVE  /\ Len(log) \in Nat /\ StatusRows(n) \in SUBSET (0..Len(log))
         /\ \A i \in StatusRows(n) : /\ i \in DOMAIN log /\ log[i].type \in AttemptEvent
                                     /\ log[i].node = n /\ log[i].attempt \in 1..2
<1>1. Len(log) \in Nat /\ DOMAIN log = 1..Len(log)
  BY RowFacts, NodeBounds DEF EventType, Node
<1>2. \A i \in StatusRows(n) : i \in DOMAIN log /\ log[i].type \in AttemptEvent /\ log[i].node = n
  BY StatusRowsAre
<1>3. \A i \in StatusRows(n) : log[i].attempt \in 1..2
  BY <1>2 DEF TypeInv, LogTyped, AttemptsNumbered
<1> QED BY <1>1, <1>2, <1>3

\* A node with a status has a last one, and that is what is shown.
LEMMA LastExists ==
  ASSUME TypeInv, NEW n \in Node, StatusRows(n) # {}
  PROVE  \E i \in DOMAIN log : LastStatus(n, i)
<1> DEFINE S == StatusRows(n)
<1>1. S \in SUBSET (0..Len(log)) /\ Len(log) \in Nat /\ S # {} /\ S \subseteq DOMAIN log
  BY StatusFacts
<1>2. MaxOf(S) \in S /\ \A y \in S : y <= MaxOf(S)
  <2> HIDE DEF S
  <2> QED BY <1>1, MaxOfInterval
<1> QED BY <1>1, <1>2 DEF LastStatus

LEMMA LastShown ==
  ASSUME TypeInv, NEW n \in Node, NEW i, LastStatus(n, i)
  PROVE  Shown(n) = NodeStatusEvent[log[i].type]
<1> DEFINE S == StatusRows(n)
<1>1. S \in SUBSET (0..Len(log)) /\ Len(log) \in Nat /\ i \in S /\ \A j \in S : j <= i
  BY StatusFacts DEF LastStatus
<1>2. MaxOf(S) \in S /\ \A y \in S : y <= MaxOf(S)
  <2> HIDE DEF S
  <2> QED BY <1>1, MaxOfInterval
<1>3. MaxOf(S) = i
  <2>1. \A x, y \in S : x <= y /\ y <= x => x = y
    BY <1>1
  <2> QED BY <1>1, <1>2, <2>1
<1> QED BY <1>1, <1>3 DEF Shown

\* The names of the statuses.
LEMMA StatusNames ==
  /\ NodeStatusEvent["NODE_STARTED"] = "RUNNING"
  /\ NodeStatusEvent["NODE_SUCCEEDED"] = "SUCCEEDED"
  /\ NodeStatusEvent["NODE_FAILED"] = "FAILED"
BY DEF NodeStatusEvent

LEMMA ShownCases ==
  ASSUME TypeInv, NEW n \in Node
  PROVE  /\ StatusRows(n) # {} => Shown(n) \in {"RUNNING", "SUCCEEDED", "FAILED"}
         /\ StatusRows(n) = {} => Shown(n) \in {"PENDING", "UNKNOWN"}
         /\ Shown(n) = "SUCCEEDED" => Rows("NODE_SUCCEEDED", n) # {}
<1>1. ASSUME StatusRows(n) # {}
      PROVE  /\ Shown(n) \in {"RUNNING", "SUCCEEDED", "FAILED"}
             /\ Shown(n) = "SUCCEEDED" => Rows("NODE_SUCCEEDED", n) # {}
  <2>1. PICK i \in DOMAIN log : LastStatus(n, i)
    BY <1>1, LastExists
  <2>2. log[i].type \in AttemptEvent /\ log[i].node = n
    BY <2>1, StatusFacts DEF LastStatus
  <2>3. Shown(n) = NodeStatusEvent[log[i].type]
    BY <2>1, LastShown
  <2> QED BY <2>2, <2>3, StatusNames DEF AttemptEvent, Rows
<1>2. StatusRows(n) = {} => Shown(n) \in {"PENDING", "UNKNOWN"}
  BY DEF Shown
<1> QED BY <1>1, <1>2

\* last_attempt is the greatest attempt of a status.
LEMMA LastAttempt ==
  ASSUME TypeInv, NEW n \in Node
  PROVE  /\ DerivedAttempt(n) \in 0..2
         /\ \A i \in StatusRows(n) : log[i].attempt <= DerivedAttempt(n)
         /\ DerivedAttempt(n) = 0 <=> StatusRows(n) = {}
         /\ DerivedAttempt(n) # 0 => \E i \in StatusRows(n) : log[i].attempt = DerivedAttempt(n)
<1> DEFINE A == {log[i].attempt : i \in StatusRows(n)}
           S == {0} \cup A
<1>1. A \in SUBSET (1..2)
  <2>1. \A i \in StatusRows(n) : log[i].attempt \in 1..2
    BY StatusFacts
  <2> QED BY <2>1
<1>2. DerivedAttempt(n) = MaxOf(S)
  BY DEF DerivedAttempt
<1>3. \A i \in StatusRows(n) : log[i].attempt \in A
  OBVIOUS
<1>4. \A a \in A : \E i \in StatusRows(n) : log[i].attempt = a
  OBVIOUS
<1>0. A = {} <=> StatusRows(n) = {}
  BY <1>3, <1>4
<1> HIDE DEF A
<1>5. MaxOf(S) \in S /\ \A y \in S : y <= MaxOf(S)
  <2>1. S \in SUBSET (0..2) /\ S # {} /\ 2 \in Nat
    BY <1>1
  <2> HIDE DEF S
  <2> QED BY <2>1, MaxOfInterval
<1>6. PICK m \in S : m = DerivedAttempt(n) /\ \A y \in S : y <= m
  BY <1>2, <1>5
<1>7. m \in 0..2 /\ (m = 0 <=> A = {}) /\ (m # 0 => m \in A)
  BY <1>1, <1>6
<1>8. \A i \in StatusRows(n) : log[i].attempt <= m
  BY <1>3, <1>6
<1> QED BY <1>0, <1>4, <1>6, <1>7, <1>8

LEMMA AttemptsShown ==
  /\ \A n : DerivedAttempt(n) = MaxOf({0} \cup (EndedAttempts(n) \cup Attempts("NODE_STARTED", n)))
  /\ \A n : DerivedAttempt(n)' = MaxOf({0} \cup (EndedAttempts(n)' \cup Attempts("NODE_STARTED", n)'))
<1>1. DOMAIN NodeStatusEvent = {"NODE_STARTED", "NODE_SUCCEEDED", "NODE_FAILED"}
  BY DEF NodeStatusEvent
<1>2. \A n : {log[i].attempt : i \in StatusRows(n)} = EndedAttempts(n) \cup Attempts("NODE_STARTED", n)
  BY <1>1 DEF StatusRows, EndedAttempts, Attempts
<1>3. \A n : {log'[i].attempt : i \in StatusRows(n)'} = EndedAttempts(n)' \cup Attempts("NODE_STARTED", n)'
  BY <1>1 DEF StatusRows, EndedAttempts, Attempts
<1>4. \A n : DerivedAttempt(n)' = MaxOf({0} \cup {log'[i].attempt : i \in StatusRows(n)'})
  BY DEF DerivedAttempt
<1> QED BY <1>2, <1>3, <1>4 DEF DerivedAttempt

\* An attempt that is added raises the greatest one.
LEMMA MaxOfAttempts ==
  ASSUME NEW A \in SUBSET (1..2), NEW a \in 1..2
  PROVE  LET max == MaxOf({0} \cup A)
         IN  MaxOf({0} \cup (A \cup {a})) = IF a > max THEN a ELSE max
<1>1. /\ MaxOf({0} \cup A) \in {0} \cup A /\ \A y \in {0} \cup A : y <= MaxOf({0} \cup A)
  <2>1. {0} \cup A \in SUBSET (0..2) /\ {0} \cup A # {} /\ 2 \in Nat
    OBVIOUS
  <2> QED BY <2>1, MaxOfInterval
<1>2. /\ MaxOf({0} \cup (A \cup {a})) \in {0} \cup (A \cup {a})
      /\ \A y \in {0} \cup (A \cup {a}) : y <= MaxOf({0} \cup (A \cup {a}))
  <2>1. {0} \cup (A \cup {a}) \in SUBSET (0..2) /\ {0} \cup (A \cup {a}) # {} /\ 2 \in Nat
    OBVIOUS
  <2> QED BY <2>1, MaxOfInterval
<1>3. PICK m \in {0} \cup A : m = MaxOf({0} \cup A) /\ \A y \in {0} \cup A : y <= m
  BY <1>1
<1>4. PICK k \in {0} \cup (A \cup {a}) :
        k = MaxOf({0} \cup (A \cup {a})) /\ \A y \in {0} \cup (A \cup {a}) : y <= k
  BY <1>2
<1>5. k = IF a > m THEN a ELSE m
  <2>1. m <= k /\ a <= k /\ (k = a \/ k <= m) /\ k \in 0..2 /\ m \in 0..2
    BY <1>3, <1>4
  <2> QED BY <2>1
<1> QED BY <1>3, <1>4, <1>5

-----------------------------------------------------------------------------
(* What a step shows.                                                      *)

\* The step that appends a status of n shows it, and any other leaves n as it is.
LEMMA StatusAfter ==
  ASSUME TypeInv, NEW e \in NumberedEvent, log' = Append(log, e), NEW n \in Node
  PROVE  IF e.type \in AttemptEvent /\ e.node = n
         THEN /\ StatusRows(n)' = StatusRows(n) \cup {Len(log) + 1}
              /\ Shown(n)' = NodeStatusEvent[e.type]
              /\ DerivedAttempt(n)' =
                   IF e.attempt > DerivedAttempt(n) THEN e.attempt ELSE DerivedAttempt(n)
         ELSE /\ StatusRows(n)' = StatusRows(n)
              /\ StatusRows(n) # {} => Shown(n)' = Shown(n)
              /\ DerivedAttempt(n)' = DerivedAttempt(n)
<1> DEFINE S == StatusRows(n)
           A == EndedAttempts(n) \cup Attempts("NODE_STARTED", n)
<1>0. /\ Len(log) \in Nat /\ DOMAIN log = 1..Len(log) /\ DOMAIN log' = 1..(Len(log) + 1)
      /\ log'[Len(log) + 1] = e /\ \A i \in DOMAIN log : log'[i] = log[i]
  BY RowsAfter
<1>1. S' = {i \in DOMAIN log' : log'[i].type \in AttemptEvent /\ log'[i].node = n}
  <2>1. DOMAIN NodeStatusEvent = AttemptEvent
    BY DEF NodeStatusEvent, AttemptEvent
  <2> QED BY <2>1 DEF StatusRows, Rows
<1>2. S = {i \in DOMAIN log : log[i].type \in AttemptEvent /\ log[i].node = n}
  BY StatusRowsAre
<1>3. S \in SUBSET (0..Len(log)) /\ S \subseteq DOMAIN log
  BY StatusFacts
<1>4. /\ DerivedAttempt(n) = MaxOf({0} \cup A)
      /\ DerivedAttempt(n)' = MaxOf({0} \cup A')
  BY AttemptsShown
<1>5. A' = A \cup {a \in {e.attempt} : e.type \in AttemptEvent /\ e.node = n}
  <2>1. EndedAttempts(n)' = EndedAttempts(n) \cup
          {a \in {e.attempt} : e.type \in {"NODE_SUCCEEDED", "NODE_FAILED"} /\ e.node = n}
    BY EndedAfter
  <2>2. Attempts("NODE_STARTED", n)' = Attempts("NODE_STARTED", n) \cup
          {a \in {e.attempt} : e.type = "NODE_STARTED" /\ e.node = n}
    BY RowsAfter
  <2> QED BY <2>1, <2>2 DEF AttemptEvent
<1>6. A \in SUBSET (1..2)
  BY EndedTypes
<1> DEFINE M == MaxOf(S)
<1>7. Shown(n)' = IF S' # {} THEN NodeStatusEvent[log'[MaxOf(S')].type]
                  ELSE IF Known(n)' THEN "PENDING" ELSE "UNKNOWN"
  BY DEF Shown
<1>8. S # {} => Shown(n) = NodeStatusEvent[log[M].type] /\ M \in DOMAIN log
  <2>1. S # {} => M \in S
    <3> HIDE DEF S
    <3> QED BY <1>0, <1>3, MaxOfInterval
  <2> QED BY <1>3, <2>1 DEF Shown
<1>9. CASE e.type \in AttemptEvent /\ e.node = n
  <2>1. S' = S \cup {Len(log) + 1}
    BY <1>0, <1>1, <1>2, <1>9
  <2>2. MaxOf(S') = Len(log) + 1
    <3> HIDE DEF S
    <3> QED BY <1>0, <1>3, <2>1, MaxOfNext
  <2>3. Shown(n)' = NodeStatusEvent[e.type]
    <3>1. S' # {}
      BY <2>1
    <3> HIDE DEF S
    <3> QED BY <1>0, <1>7, <2>2, <3>1
  <2>4. A' = A \cup {e.attempt} /\ e.attempt \in 1..2
    BY <1>5, <1>9 DEF NumberedEvent
  <2>5. DerivedAttempt(n)' = IF e.attempt > DerivedAttempt(n) THEN e.attempt ELSE DerivedAttempt(n)
    <3> HIDE DEF A
    <3> QED BY <1>4, <1>6, <2>4, MaxOfAttempts, ZenonT(60)
  <2> QED BY <1>9, <2>1, <2>3, <2>5
<1>10. CASE ~(e.type \in AttemptEvent /\ e.node = n)
  <2>1. S' = S
    BY <1>0, <1>1, <1>2, <1>10
  <2>2. A' = A
    BY <1>5, <1>10
  <2>3. DerivedAttempt(n)' = DerivedAttempt(n)
    <3> HIDE DEF A
    <3> QED BY <1>4, <2>2
  <2>4. S # {} => Shown(n)' = Shown(n)
    <3> HIDE DEF S
    <3> QED BY <1>0, <1>7, <1>8, <2>1 DEF M
  <2> QED BY <1>10, <2>1, <2>3, <2>4
<1> QED BY <1>9, <1>10

\* Only the node in hand, or a blocked one, gets a status.
LEMMA StatusBy ==
  ASSUME TypeInv, SuccessInv, NEW e \in NumberedEvent, Adds(e), e.type \in AttemptEvent
  PROVE  e.node = Current /\ pc \in {"start", "settle", "visit"} /\ status[Current] # "SUCCEEDED"
BY DEF Adds, RowBy, AttemptEvent, SuccessInv, InNode

LEMMA Quiet ==
  ASSUME TypeInv, SuccessInv, [Next]_vars, NEW n \in Node,
         n # Current \/ pc \notin {"start", "settle", "visit"} \/ status[n] = "SUCCEEDED"
  PROVE  /\ StatusRows(n)' = StatusRows(n) /\ DerivedAttempt(n)' = DerivedAttempt(n)
         /\ StatusRows(n) # {} => Shown(n)' = Shown(n)
         /\ EndedAttempts(n)' = EndedAttempts(n)
         /\ Attempts("NODE_STARTED", n)' = Attempts("NODE_STARTED", n)
<1>1. CASE UNCHANGED log
  BY <1>1 DEF StatusRows, Rows, DerivedAttempt, Shown, EndedAttempts, Attempts
<1>2. ASSUME NEW e \in NumberedEvent, Adds(e)
      PROVE  /\ StatusRows(n)' = StatusRows(n) /\ DerivedAttempt(n)' = DerivedAttempt(n)
             /\ StatusRows(n) # {} => Shown(n)' = Shown(n)
             /\ EndedAttempts(n)' = EndedAttempts(n)
             /\ Attempts("NODE_STARTED", n)' = Attempts("NODE_STARTED", n)
  <2>1. log' = Append(log, e)
    BY <1>2 DEF Adds
  <2>2. ~(e.type \in AttemptEvent /\ e.node = n)
    BY <1>2, StatusBy
  <2>3. EndedAttempts(n)' = EndedAttempts(n) \cup
          {a \in {e.attempt} : e.type \in {"NODE_SUCCEEDED", "NODE_FAILED"} /\ e.node = n}
    BY <2>1, EndedAfter
  <2>4. Attempts("NODE_STARTED", n)' = Attempts("NODE_STARTED", n) \cup
          {a \in {e.attempt} : e.type = "NODE_STARTED" /\ e.node = n}
    BY <2>1, RowsAfter
  <2>5. EndedAttempts(n)' = EndedAttempts(n) /\ Attempts("NODE_STARTED", n)' = Attempts("NODE_STARTED", n)
    BY <2>2, <2>3, <2>4 DEF AttemptEvent
  <2> QED BY <2>1, <2>2, <2>5, StatusAfter
<1> QED BY <1>1, <1>2, RowStep

\* The loop over the nodes is under way.
Looping == Executing /\ pc \notin {"plan", "queue"}

\* How an execution comes to the loop.
Early ==
  /\ pc' \in {"idle", "plan"} => pos' = 1 \/ (pc \in {"idle", "plan"} /\ UNCHANGED pos)
  /\ pc' = "queue" =>
       \/ pc = "queue" /\ UNCHANGED pos
       \/ Plan /\ Emit(DagEvent("DAG_PLANNED", FALSE)) /\ UNCHANGED pos
       \/ Queue /\ Emit(NodeEvent("NODE_QUEUED", Sorted[pos], 0)) /\ pos' = pos + 1
  /\ Looping' =>
       \/ Looping
       \/ /\ Queue /\ Emit(NodeEvent("NODE_QUEUED", Sorted[pos], 0)) /\ pos = NumNodes
          /\ pc' = "visit" /\ pos' = 1

\* How the loop leaves a node.
Leaves ==
  \/ status'[Current] = "SUCCEEDED"
  \/ GiveUp
  \/ SkipBlocked /\ Emit(NodeEvent("NODE_FAILED", Current, 1))
  \/ Fail /\ Emit(NodeEvent("NODE_FAILED", Current, attempt))

Advances ==
  Looping /\ Looping' =>
    /\ \A n \in Node : n # Current => status'[n] = status[n]
    /\ \/ UNCHANGED pos /\ pc' # "complete"
       \/ UNCHANGED <<pos, status>> /\ pc = "complete" /\ pc' = "complete"
       \/ UNCHANGED pos /\ Leaves
       \/ pos' = pos + 1 /\ pc' = "visit" /\ Leaves

LEMMA EarlyStep == ASSUME TypeInv, [Next]_vars PROVE Early
<1> USE DEF Early, Looping, Executing
<1>1. CASE ReturnRecorded
  BY <1>1 DEF ReturnRecorded
<1>2. CASE Resume
  BY <1>2 DEF Resume
<1>3. CASE ReadFails
  BY <1>3 DEF ReadFails, memory
<1>4. CASE Plan
  BY <1>4 DEF Plan, EmitOrThrow
<1>5. CASE Queue
  BY <1>5 DEF Queue, EmitOrThrow
<1>6. CASE SkipSucceeded
  BY <1>6 DEF SkipSucceeded, NextNode, Advance
<1>7. CASE SkipBlocked
  BY <1>7 DEF SkipBlocked, EmitOrThrow, NextNode, Advance
<1>8. CASE GiveUp
  BY <1>8 DEF GiveUp, NextNode, Advance
<1>9. CASE BeginNode
  BY <1>9 DEF BeginNode
<1>10. CASE StartAttempt
  BY <1>10 DEF StartAttempt, EmitOrThrow
<1>11. CASE RunPure
  BY <1>11 DEF RunPure, Running, NodeReturns
<1>12. CASE PersistUser
  BY <1>12 DEF PersistUser, Running, Insert, NodeReturns, NodeFails
<1>13. CASE RequestCompletion
  BY <1>13 DEF RequestCompletion, Running, NodeFails
<1>14. CASE ReceiveCompletion
  BY <1>14 DEF ReceiveCompletion, NodeReturns, NodeFails
<1>15. CASE EnforceReply
  BY <1>15 DEF EnforceReply, Running, NodeReturns, NodeFails
<1>16. CASE PersistAssistant
  BY <1>16 DEF PersistAssistant, Running, Insert, NodeReturns, NodeFails
<1>17. CASE RunCodeChange
  BY <1>17 DEF RunCodeChange, Running, NodeReturns, NodeFails, CodeChangeKind
<1>18. CASE Succeed
  BY <1>18 DEF Succeed, EmitOrThrow, NextNode, Advance
<1>19. CASE Fail
  BY <1>19 DEF Fail, EmitOrThrow
<1>20. CASE ScheduleRetry
  BY <1>20 DEF ScheduleRetry, EmitOrThrow
<1>21. CASE Complete
  BY <1>21 DEF Complete, EmitOrThrow
<1>22. CASE Crash
  BY <1>22 DEF Crash
<1>23. CASE Done
  BY <1>23 DEF Done, vars, memory
<1>24. CASE UNCHANGED vars
  BY <1>24 DEF vars, memory
<1> QED BY <1>1, <1>2, <1>3, <1>4, <1>5, <1>6, <1>7, <1>8, <1>9, <1>10, <1>11, <1>12, <1>13, <1>14, <1>15, <1>16, <1>17, <1>18, <1>19, <1>20, <1>21, <1>22, <1>23, <1>24 DEF Next, Step

LEMMA AdvancesStep == ASSUME TypeInv, [Next]_vars PROVE Advances
<1>0. Current \in Node /\ status \in [Node -> NodeStatus]
  BY TextTypes DEF TypeInv, ResultTyped
<1> USE DEF Advances, Leaves, Looping, Executing
<1>1. CASE ReturnRecorded
  BY <1>0, <1>1 DEF ReturnRecorded
<1>2. CASE Resume
  BY <1>0, <1>2 DEF Resume
<1>3. CASE ReadFails
  BY <1>0, <1>3 DEF ReadFails, memory
<1>4. CASE Plan
  BY <1>0, <1>4 DEF Plan, EmitOrThrow
<1>5. CASE Queue
  BY <1>0, <1>5 DEF Queue, EmitOrThrow
<1>6. CASE SkipSucceeded
  BY <1>0, <1>6 DEF SkipSucceeded, NextNode, Advance
<1>7. CASE SkipBlocked
  BY <1>0, <1>7 DEF SkipBlocked, EmitOrThrow, NextNode, Advance
<1>8. CASE GiveUp
  BY <1>0, <1>8 DEF GiveUp, NextNode, Advance
<1>9. CASE BeginNode
  BY <1>0, <1>9 DEF BeginNode
<1>10. CASE StartAttempt
  BY <1>0, <1>10 DEF StartAttempt, EmitOrThrow
<1>11. CASE RunPure
  BY <1>0, <1>11 DEF RunPure, Running, NodeReturns
<1>12. CASE PersistUser
  BY <1>0, <1>12 DEF PersistUser, Running, Insert, NodeReturns, NodeFails
<1>13. CASE RequestCompletion
  BY <1>0, <1>13 DEF RequestCompletion, Running, NodeFails
<1>14. CASE ReceiveCompletion
  BY <1>0, <1>14 DEF ReceiveCompletion, NodeReturns, NodeFails
<1>15. CASE EnforceReply
  BY <1>0, <1>15 DEF EnforceReply, Running, NodeReturns, NodeFails
<1>16. CASE PersistAssistant
  BY <1>0, <1>16 DEF PersistAssistant, Running, Insert, NodeReturns, NodeFails
<1>17. CASE RunCodeChange
  BY <1>0, <1>17 DEF RunCodeChange, Running, NodeReturns, NodeFails, CodeChangeKind
<1>18. CASE Succeed
  BY <1>0, <1>18 DEF Succeed, EmitOrThrow, NextNode, Advance
<1>19. CASE Fail
  BY <1>0, <1>19 DEF Fail, EmitOrThrow
<1>20. CASE ScheduleRetry
  BY <1>0, <1>20 DEF ScheduleRetry, EmitOrThrow
<1>21. CASE Complete
  BY <1>0, <1>21 DEF Complete, EmitOrThrow
<1>22. CASE Crash
  BY <1>0, <1>22 DEF Crash
<1>23. CASE Done
  BY <1>0, <1>23 DEF Done, vars, memory
<1>24. CASE UNCHANGED vars
  BY <1>0, <1>24 DEF vars, memory
<1> QED BY <1>1, <1>2, <1>3, <1>4, <1>5, <1>6, <1>7, <1>8, <1>9, <1>10, <1>11, <1>12, <1>13, <1>14, <1>15, <1>16, <1>17, <1>18, <1>19, <1>20, <1>21, <1>22, <1>23, <1>24 DEF Next, Step

-----------------------------------------------------------------------------
(* The history of a node.                                                  *)

\* An attempt is not started once it has ended.
OrderedEnds ==
  \A n \in Node : \A j \in Rows("NODE_STARTED", n) :
    \A i \in Rows("NODE_SUCCEEDED", n) \cup Rows("NODE_FAILED", n) :
      i < j => log[i].attempt # log[j].attempt

AttemptsAllowed ==
  \A n \in Node : \A i \in StatusRows(n) : log[i].attempt <= MaxAttempts[n]

\* A node that resumes has the attempt that its history still gives.
ChosenInv == \A n \in Node : Ahead(n) /\ status[n] # "SUCCEEDED" => resumeAt[n] = ChooseAttempt(n)

LEMMA OrderedEndsStep ==
  ASSUME TypeInv, OutcomeInv, OrderedEnds, [Next]_vars
  PROVE  OrderedEnds'
<1> DEFINE ends(n) == Rows("NODE_SUCCEEDED", n) \cup Rows("NODE_FAILED", n)
<1> SUFFICES ASSUME NEW n \in Node, NEW j \in Rows("NODE_STARTED", n)', NEW i \in ends(n)', i < j
             PROVE  log'[i].attempt # log'[j].attempt
  BY DEF OrderedEnds
<1>1. CASE UNCHANGED log
  <2>1. j \in Rows("NODE_STARTED", n) /\ i \in ends(n)
    BY <1>1 DEF Rows
  <2> QED BY <1>1, <2>1 DEF OrderedEnds
<1>2. ASSUME NEW e \in NumberedEvent, Adds(e)
      PROVE  log'[i].attempt # log'[j].attempt
  <2>1. log' = Append(log, e) /\ RowBy(e)
    BY <1>2 DEF Adds
  <2>2. /\ Len(log) \in Nat /\ DOMAIN log = 1..Len(log)
        /\ log'[Len(log) + 1] = e /\ \A k \in DOMAIN log : log'[k] = log[k]
    BY <2>1, RowsAfter
  <2>3. /\ i \in ends(n) \/ (i = Len(log) + 1 /\ e.type \in {"NODE_SUCCEEDED", "NODE_FAILED"})
        /\ j \in Rows("NODE_STARTED", n) \/ (j = Len(log) + 1 /\ e.type = "NODE_STARTED" /\ e.node = n)
    BY <2>1, RowsAfter
  <2>4. \A k \in ends(n) \cup Rows("NODE_STARTED", n) : k \in 1..Len(log)
    BY <2>2 DEF Rows
  <2>5. i \in ends(n) /\ log'[i] = log[i]
    BY <2>2, <2>3, <2>4
  <2>6. CASE j \in Rows("NODE_STARTED", n)
    BY <2>2, <2>4, <2>5, <2>6 DEF OrderedEnds
  <2>7. CASE j = Len(log) + 1 /\ e.type = "NODE_STARTED" /\ e.node = n
    <3>1. pc = "start" /\ n = Current /\ e.attempt = attempt
      BY <2>1, <2>7 DEF RowBy
    <3>2. attempt \notin EndedAttempts(n)
      BY <3>1 DEF OutcomeInv, AttemptInv, InHandInv, InNode
    <3>3. log[i].attempt \in EndedAttempts(n)
      BY <2>5 DEF EndedAttempts, Attempts
    <3> QED BY <2>2, <2>5, <2>7, <3>1, <3>2, <3>3
  <2> QED BY <2>3, <2>6, <2>7
<1> QED BY <1>1, <1>2, RowStep

LEMMA AttemptsAllowedStep ==
  ASSUME TypeInv, OutcomeInv, AttemptsAllowed, [Next]_vars
  PROVE  AttemptsAllowed'
<1> SUFFICES ASSUME NEW n \in Node, NEW i \in StatusRows(n)'
             PROVE  log'[i].attempt <= MaxAttempts[n]
  BY DEF AttemptsAllowed
<1>1. CASE UNCHANGED log
  <2>1. i \in StatusRows(n)
    BY <1>1 DEF StatusRows, Rows
  <2> QED BY <1>1, <2>1 DEF AttemptsAllowed
<1>2. ASSUME NEW e \in NumberedEvent, Adds(e)
      PROVE  log'[i].attempt <= MaxAttempts[n]
  <2>1. log' = Append(log, e) /\ RowBy(e)
    BY <1>2 DEF Adds
  <2>2. CASE i \in StatusRows(n)
    <3>1. i \in DOMAIN log
      BY <2>2, StatusFacts
    <3> QED BY <2>2, <3>1, LogGrows DEF AttemptsAllowed
  <2>3. CASE i \notin StatusRows(n)
    <3>1. i = Len(log) + 1 /\ e.type \in AttemptEvent /\ e.node = n
      BY <2>1, <2>3, StatusAfter
    <3>2. log'[i] = e /\ n = Current
      BY <1>2, <2>1, <3>1, RowsAfter, StatusBy DEF OutcomeInv
    <3>3. e.attempt = 1 \/ (e.attempt = attempt /\ InNode)
      BY <2>1, <3>1 DEF RowBy, AttemptEvent, InNode
    <3>4. InNode => attempt <= MaxAttempts[n]
      BY <3>2 DEF OutcomeInv, AttemptInv, InHandInv
    <3>5. 1 <= MaxAttempts[n]
      BY NodeTables
    <3> QED BY <3>2, <3>3, <3>4, <3>5
  <2> QED BY <2>2, <2>3
<1> QED BY <1>1, <1>2, RowStep

LEMMA ChosenStep ==
  ASSUME TypeInv, SuccessInv, ChosenInv, [Next]_vars
  PROVE  ChosenInv'
<1> SUFFICES ASSUME NEW n \in Node, Ahead(n)', status'[n] # "SUCCEEDED"
             PROVE  resumeAt'[n] = ChooseAttempt(n)'
  BY DEF ChosenInv, Ahead, Executing, ChooseAttempt, Attempts, Rows
<1>1. CASE Resume
  BY <1>1 DEF Resume, ChooseAttempt, Attempts, Rows
<1>2. CASE ~Resume
  <2>1. /\ Ahead(n) /\ UNCHANGED resumeAt /\ status'[n] = status[n]
        /\ n # Current \/ pc \in {"plan", "queue"} \/ UNCHANGED log
    BY <1>2, ComingStep DEF Coming
  <2>2. resumeAt[n] = ChooseAttempt(n)
    BY <2>1 DEF ChosenInv
  <2>3. Attempts("NODE_STARTED", n)' = Attempts("NODE_STARTED", n) /\ EndedAttempts(n)' = EndedAttempts(n)
    <3>1. CASE UNCHANGED log
      BY <3>1 DEF EndedAttempts, Attempts, Rows
    <3>2. CASE ~UNCHANGED log
      BY <2>1, <3>2, Quiet
    <3> QED BY <3>1, <3>2
  <2>4. ChooseAttempt(n)' = ChooseAttempt(n)
    <3>1. Attempts("NODE_FAILED", n)' \cup Attempts("NODE_SUCCEEDED", n)'
            = Attempts("NODE_FAILED", n) \cup Attempts("NODE_SUCCEEDED", n)
      BY <2>3 DEF EndedAttempts
    <3>2. PICK E : E = Attempts("NODE_FAILED", n) \cup Attempts("NODE_SUCCEEDED", n)
      OBVIOUS
    <3>3. PICK S : S = Attempts("NODE_STARTED", n)
      OBVIOUS
    <3>4. PICK K : K = {0} \cup S \cup E
      OBVIOUS
    <3>5. /\ {0} \cup Attempts("NODE_STARTED", n)
               \cup (Attempts("NODE_FAILED", n) \cup Attempts("NODE_SUCCEEDED", n)) = K
          /\ {0} \cup Attempts("NODE_STARTED", n)'
               \cup (Attempts("NODE_FAILED", n)' \cup Attempts("NODE_SUCCEEDED", n)') = K
      BY <2>3, <3>1, <3>2, <3>3, <3>4
    <3>6. ChooseAttempt(n) = IF S \ E # {} THEN MaxOf(S \ E) ELSE MaxOf(K) + 1
      BY <3>2, <3>3, <3>5 DEF ChooseAttempt
    <3>7. ChooseAttempt(n)' = IF S \ E # {} THEN MaxOf(S \ E) ELSE MaxOf(K) + 1
      BY <2>3, <3>1, <3>2, <3>3, <3>5 DEF ChooseAttempt
    <3> QED BY <3>6, <3>7
  <2> QED BY <2>1, <2>2, <2>4
<1> QED BY <1>1, <1>2

LEMMA LostIsShown ==
  ASSUME TypeInv, NEW n \in Node, Shown(n) = "FAILED" \/ DerivedAttempt(n) = MaxAttempts[n]
  PROVE  StatusRows(n) # {}
BY ShownCases, LastAttempt, NodeTables

-----------------------------------------------------------------------------
(* A node that will not succeed any more: Lost of DagRun.                  *)

LostNow(n) ==
  \/ Shown(n) = "FAILED"
  \/ Kind[n] \in TextKind /\ DerivedAttempt(n) = MaxAttempts[n]

\* A node that was blocked before is shown as failed, or it is a completion that is out
\* of attempts.
LEMMA BlockedIsLost ==
  ASSUME CompletionsRetried, TypeInv, OrderedEnds, AttemptsAllowed, EndsOneWay,
         NEW n \in Node, NEW i \in Rows("NODE_FAILED", n), log[i].attempt = 1
  PROVE  LostNow(n)
<1> DEFINE a == DerivedAttempt(n)
<1>1. i \in StatusRows(n)
  BY StatusRowsAre DEF Rows, AttemptEvent
<1>2. /\ a \in 1..2 /\ \A k \in StatusRows(n) : log[k].attempt <= a /\ log[k].attempt \in 1..2
      /\ \E k \in StatusRows(n) : log[k].attempt = a
  BY <1>1, LastAttempt, StatusFacts
<1>3. CASE a = 2
  <2>1. MaxAttempts[n] = 2
    BY <1>2, <1>3, NodeTables DEF AttemptsAllowed
  <2> QED BY <1>3, <2>1 DEF CompletionsRetried, LostNow, TextKind
<1>4. CASE a = 1
  <2>1. PICK j \in DOMAIN log : LastStatus(n, j)
    BY <1>1, LastExists
  <2>2. j \in StatusRows(n) /\ log[j].attempt = 1 /\ i <= j /\ log[j].type \in AttemptEvent /\ log[j].node = n
    BY <1>1, <1>2, <1>4, <2>1, StatusFacts DEF LastStatus
  <2>3. log[j].type # "NODE_STARTED"
    <3>1. SUFFICES ASSUME j \in Rows("NODE_STARTED", n) PROVE FALSE
      BY <2>1, <2>2 DEF Rows
    <3>2. log[i].type # log[j].type /\ i \in 1..Len(log) /\ j \in 1..Len(log) /\ Len(log) \in Nat
      BY <3>1, StatusFacts, RowFacts, NodeBounds DEF Rows, EventType, Node
    <3>3. i < j
      BY <2>2, <3>2
    <3> QED BY <2>2, <3>1, <3>3 DEF OrderedEnds
  <2>4. log[j].type # "NODE_SUCCEEDED"
    <3>1. SUFFICES ASSUME j \in Rows("NODE_SUCCEEDED", n) PROVE FALSE
      BY <2>1, <2>2 DEF Rows
    <3>2. 1 \in Attempts("NODE_SUCCEEDED", n) /\ 1 \in Attempts("NODE_FAILED", n)
      BY <2>2, <3>1 DEF Attempts
    <3> QED BY <3>2 DEF EndsOneWay
  <2>5. Shown(n) = "FAILED"
    BY <2>1, <2>2, <2>3, <2>4, LastShown, StatusNames DEF AttemptEvent
  <2> QED BY <2>5 DEF LostNow
<1> QED BY <1>2, <1>3, <1>4

\* A node that is given up has used its attempts.
LEMMA GivenUpIsLost ==
  ASSUME TypeInv, OutcomeInv, OrderedEnds, AttemptsAllowed, ChosenInv, GiveUp
  PROVE  LostNow(Current)
<1>c. PICK n \in Node : n = Current
  BY TextTypes
<1>0. pc = "visit" /\ status[n] # "SUCCEEDED" /\ resumeAt[n] > MaxAttempts[n]
  BY <1>c DEF GiveUp
<1>1. ChooseAttempt(n) > MaxAttempts[n]
  <2>1. Ahead(n)
    BY <1>c, <1>0 DEF Ahead, Executing, Current, TypeInv, FlowTyped
  <2> QED BY <1>0, <2>1 DEF ChosenInv
<1> DEFINE ended    == EndedAttempts(n)
           started  == Attempts("NODE_STARTED", n)
           inFlight == started \ ended
           known    == {0} \cup (ended \cup started)
<1>2. ended \in SUBSET (1..2) /\ started \in SUBSET (1..2)
  BY EndedTypes
<1>3. ChooseAttempt(n) = IF inFlight # {} THEN MaxOf(inFlight) ELSE MaxOf(known) + 1
  <2>1. Attempts("NODE_FAILED", n) \cup Attempts("NODE_SUCCEEDED", n) = ended
    BY DEF EndedAttempts
  <2>2. {0} \cup Attempts("NODE_STARTED", n) \cup (Attempts("NODE_FAILED", n) \cup Attempts("NODE_SUCCEEDED", n))
          = known
    BY <2>1
  <2> QED BY <2>1, <2>2 DEF ChooseAttempt
<1>4. \A a \in ended \cup started : a <= MaxAttempts[n]
  <2>1. \A a \in ended \cup started : \E i \in StatusRows(n) : log[i].attempt = a
    BY StatusRowsAre DEF EndedAttempts, Attempts, Rows, AttemptEvent
  <2> QED BY <2>1 DEF AttemptsAllowed
<1>5. MaxOf(known) = DerivedAttempt(n)
  BY AttemptsShown
<1>6. MaxAttempts[n] \in 1..2 /\ DerivedAttempt(n) \in 0..2
  BY NodeTables, LastAttempt
<1>7. inFlight = {} /\ DerivedAttempt(n) >= MaxAttempts[n]
  <2>1. SUFFICES inFlight = {}
    BY <1>1, <1>3, <1>5, <1>6
  <2>2. SUFFICES ASSUME inFlight # {} PROVE FALSE
    OBVIOUS
  <2>3. MaxOf(inFlight) \in inFlight
    <3> HIDE DEF ended, started
    <3>1. inFlight \in SUBSET (0..2) /\ 2 \in Nat
      BY <1>2
    <3> QED BY <2>2, <3>1, MaxOfInterval
  <2>4. PICK m \in inFlight : m = MaxOf(inFlight)
    BY <2>3
  <2> HIDE DEF ended, started
  <2> QED BY <1>1, <1>2, <1>3, <1>4, <1>6, <2>2, <2>4
<1>8. DerivedAttempt(n) # 0 /\ StatusRows(n) # {}
  BY <1>6, <1>7, LastAttempt
<1>9. DerivedAttempt(n) = MaxAttempts[n]
  <2>1. PICK i \in StatusRows(n) : log[i].attempt = DerivedAttempt(n)
    BY <1>8, LastAttempt
  <2> QED BY <1>6, <1>7, <2>1 DEF AttemptsAllowed
<1>10. PICK j \in DOMAIN log : LastStatus(n, j)
  BY <1>8, LastExists
<1>11. j \in StatusRows(n) /\ log[j].type \in AttemptEvent /\ log[j].node = n
  BY <1>10, StatusFacts DEF LastStatus
<1>12. CASE log[j].type = "NODE_FAILED"
  BY <1>c, <1>10, <1>12, LastShown, StatusNames DEF LostNow
<1>13. CASE log[j].type = "NODE_SUCCEEDED"
  <2>1. ~Counts(n, j)
    BY <1>0, <1>10 DEF OutcomeInv, SuccessInv, Executing
  <2>2. Kind[n] \in TextKind
    BY <1>10, <1>11, <1>13, <2>1 DEF Counts, Rows
  <2> QED BY <1>c, <1>9, <2>2 DEF LostNow
<1>14. CASE log[j].type = "NODE_STARTED"
  <2>1. j \in Rows("NODE_STARTED", n)
    BY <1>10, <1>11, <1>14 DEF Rows
  <2>2. log[j].attempt \in started
    BY <2>1 DEF Attempts
  <2>3. log[j].attempt \in ended
    BY <1>7, <2>2
  <2>4. PICK i \in Rows("NODE_SUCCEEDED", n) \cup Rows("NODE_FAILED", n) : log[i].attempt = log[j].attempt
    BY <2>3 DEF EndedAttempts, Attempts
  <2>5. i \in StatusRows(n) /\ log[i].type # log[j].type
    BY <1>14, <2>4, StatusRowsAre DEF Rows, AttemptEvent
  <2>6. i <= j /\ i # j /\ i \in 0..Len(log) /\ j \in 0..Len(log) /\ Len(log) \in Nat
    BY <1>10, <1>11, <2>5, StatusFacts DEF LastStatus
  <2>7. i < j
    BY <2>6
  <2> QED BY <2>1, <2>4, <2>7 DEF OrderedEnds
<1> QED BY <1>11, <1>12, <1>13, <1>14 DEF AttemptEvent

-----------------------------------------------------------------------------
(* What is appended, and what comes before.                                *)

\* What is emitted is in the log, by this step or by an earlier one.
LEMMA EmittedRow ==
  ASSUME TypeInv, SeenLogged, [Next]_vars, NEW e, Emit(e)
  PROVE  \E i \in DOMAIN log' : Key(log'[i]) = Key(e)
<1>1. Key(e) \in seen'
  BY DEF Emit
<1>2. SeenLogged'
  BY SeenLoggedStep
<1> QED BY <1>1, <1>2 DEF SeenLogged

\* An event that is appended is new.
LEMMA Fresh ==
  ASSUME TypeInv, KnownOrOvertaken, [Next]_vars,
         NEW e \in NumberedEvent, log' = Append(log, e), HasDagId(e),
         NEW i \in DOMAIN log
  PROVE  Key(log[i]) # Key(e)
<1> SUFFICES ASSUME Key(log[i]) = Key(e) PROVE FALSE
  OBVIOUS
<1>1. /\ Len(log) \in Nat /\ DOMAIN log = 1..Len(log) /\ DOMAIN log' = 1..(Len(log) + 1)
      /\ log'[Len(log) + 1] = e
  BY AppendFacts DEF NumberedEvent
<1>2. ~Reads
  <2>1. Len(log) + 1 \in DOMAIN log' /\ Len(log) + 1 \notin DOMAIN log
    BY <1>1
  <2>2. log' # log
    BY <2>1
  <2> QED BY <2>2 DEF Reads
<1>3. PICK f \in NumberedEvent : Writes(f)
  BY <1>2, StepShape
<1>4. f = e
  <2>1. log' = Append(log, f) /\ f \in Event
    BY <1>3 DEF Writes, NumberedEvent
  <2> QED BY <1>1, <2>1, AppendFacts
<1>5. HasDagId(log[i])
  BY DEF HasDagId, Key
<1> QED BY <1>3, <1>4, <1>5, FreshKey

\* What is planned and queued before a node is tried.
PlanInv ==
  /\ \A i \in DOMAIN log : log[i].type \in {"DAG_PLANNED", "NODE_QUEUED"} => log[i].attempt = 0
  /\ \A n \in Node : Queued(n) => Planned
  /\ \A n \in Node : StatusRows(n) # {} => Planned /\ \A m \in Node : Queued(m)
  /\ pc \in {"idle", "plan"} => pos = 1
  /\ Executing /\ pc # "plan" => Planned
  /\ pc = "queue" => \A p \in 1..(pos - 1) : Queued(Sorted[p])
  /\ Looping => \A n \in Node : Queued(n)

LEMMA PlanStep ==
  ASSUME TypeInv, SuccessInv, SeenLogged, PlanInv, [Next]_vars
  PROVE  PlanInv'
<1>0. /\ Planned => Planned'
      /\ \A n \in Node : Queued(n) => Queued(n)'
  BY LogGrows DEF Planned, Queued
<1>1. Early
  BY EarlyStep
<1>2. pos \in Node /\ NumNodes \in Nat /\ Node = 1..NumNodes
  BY NodeBounds DEF TypeInv, FlowTyped, Node
<1>3. ASSUME NEW n \in Node, Queued(n)'
      PROVE  Planned'
  <2>1. CASE Queued(n)
    BY <1>0, <2>1 DEF PlanInv
  <2>2. CASE ~Queued(n)
    <3>1. ~UNCHANGED log
      BY <1>3, <2>2 DEF Queued, Rows
    <3>2. PICK e \in NumberedEvent : Adds(e)
      BY <3>1, RowStep
    <3>3. e.type = "NODE_QUEUED"
      BY <1>3, <2>2, <3>2, RowsAfter DEF Adds, Queued
    <3>4. pc = "queue"
      BY <3>2, <3>3 DEF Adds, RowBy
    <3> QED BY <1>0, <3>4 DEF PlanInv, Executing
  <2> QED BY <2>1, <2>2
<1>4. ASSUME NEW n \in Node, StatusRows(n)' # {}
      PROVE  Planned' /\ \A m \in Node : Queued(m)'
  <2>1. CASE StatusRows(n) # {}
    BY <1>0, <2>1 DEF PlanInv
  <2>2. CASE StatusRows(n) = {}
    <3>1. ~UNCHANGED log
      BY <1>4, <2>2 DEF StatusRows, Rows
    <3>2. PICK e \in NumberedEvent : Adds(e)
      BY <3>1, RowStep
    <3>3. e.type \in AttemptEvent
      BY <1>4, <2>2, <3>2, StatusAfter DEF Adds
    <3>4. pc \in {"start", "settle", "visit"}
      BY <3>2, <3>3, StatusBy
    <3> QED BY <1>0, <3>4 DEF PlanInv, Executing, Looping
  <2> QED BY <2>1, <2>2
<1>5. pc' \in {"idle", "plan"} => pos' = 1
  BY <1>1 DEF Early, PlanInv
<1>6. ASSUME Executing', pc' # "plan"
      PROVE  Planned'
  <2>1. Executing
    <3>1. Resume => pc' = "plan"
      BY DEF Resume
    <3> QED BY <1>6, <3>1, KeepsStep DEF Keeps
  <2>2. CASE pc # "plan"
    BY <1>0, <2>1, <2>2 DEF PlanInv
  <2>3. CASE pc = "plan"
    <3>1. Emit(DagEvent("DAG_PLANNED", FALSE))
      BY <1>1, <1>6, <2>3 DEF Early, Looping, Executing, Queue
    <3>2. PICK i \in DOMAIN log' : Key(log'[i]) = Key(DagEvent("DAG_PLANNED", FALSE))
      BY <3>1, EmittedRow
    <3>3. log'[i].type = "DAG_PLANNED" /\ log'[i].node = 0
      BY <3>2, DagEventFields DEF Key, EventType
    <3> QED BY <3>3 DEF Planned, Rows
  <2> QED BY <2>2, <2>3
<1>7. PICK here \in Node : here = Sorted[pos]
  BY <1>2, NodeTables
<1>10. Emit(NodeEvent("NODE_QUEUED", Sorted[pos], 0)) => Queued(here)'
  <2> SUFFICES ASSUME Emit(NodeEvent("NODE_QUEUED", Sorted[pos], 0))
               PROVE  Queued(here)'
    OBVIOUS
  <2>1. PICK i \in DOMAIN log' : Key(log'[i]) = Key(NodeEvent("NODE_QUEUED", here, 0))
    BY <1>7, EmittedRow
  <2>2. log'[i].type = "NODE_QUEUED" /\ log'[i].node = here
    BY <2>1 DEF Key, NodeEvent
  <2>3. i \in Rows("NODE_QUEUED", here)'
    BY <2>2 DEF Rows
  <2> QED BY <2>3 DEF Queued
<1>8. ASSUME pc' = "queue", NEW p \in 1..(pos' - 1)
      PROVE  Queued(Sorted[p])'
  <2>1. CASE pc = "queue" /\ UNCHANGED pos
    <3>1. PICK n \in Node : n = Sorted[p]
      BY <1>2, <1>8, <2>1, NodeTables
    <3>2. Queued(n)
      BY <1>8, <2>1, <3>1 DEF PlanInv
    <3> QED BY <1>0, <3>1, <3>2
  <2>2. CASE Plan /\ UNCHANGED pos
    BY <1>8, <2>2 DEF PlanInv, Plan
  <2>3. CASE Queue /\ Emit(NodeEvent("NODE_QUEUED", Sorted[pos], 0)) /\ pos' = pos + 1
    <3>1. p \in 1..pos
      BY <1>2, <1>8, <2>3
    <3>2. CASE p = pos
      BY <1>7, <1>10, <2>3, <3>2
    <3>3. CASE p # pos
      <4>1. p \in 1..(pos - 1) /\ p \in Node
        BY <1>2, <3>1, <3>3
      <4>2. PICK n \in Node : n = Sorted[p]
        BY <4>1, NodeTables
      <4>3. Queued(n)
        BY <2>3, <4>1, <4>2 DEF PlanInv, Queue
      <4> QED BY <1>0, <4>2, <4>3
    <3> QED BY <3>2, <3>3
  <2> QED BY <1>1, <1>8, <2>1, <2>2, <2>3 DEF Early
<1>9. ASSUME Looping', NEW n \in Node
      PROVE  Queued(n)'
  <2>1. CASE Looping
    BY <1>0, <2>1 DEF PlanInv
  <2>2. CASE /\ Queue /\ Emit(NodeEvent("NODE_QUEUED", Sorted[pos], 0))
             /\ pos = NumNodes
    <3>1. PICK p \in Node : Sorted[p] = n
      BY DagAssumption
    <3>2. CASE p = pos
      BY <1>7, <1>10, <2>2, <3>1, <3>2
    <3>3. CASE p # pos
      <4>1. p \in 1..(pos - 1)
        BY <1>2, <2>2, <3>1, <3>3
      <4>2. Queued(n)
        BY <2>2, <3>1, <4>1 DEF PlanInv, Queue
      <4> QED BY <1>0, <4>2
    <3> QED BY <3>2, <3>3
  <2> QED BY <1>1, <1>9, <2>1, <2>2 DEF Early
<1>11. ASSUME NEW i \in DOMAIN log', log'[i].type \in {"DAG_PLANNED", "NODE_QUEUED"}
       PROVE  log'[i].attempt = 0
  <2>1. CASE UNCHANGED log
    BY <1>11, <2>1 DEF PlanInv
  <2>2. ASSUME NEW e \in NumberedEvent, Adds(e)
        PROVE  log'[i].attempt = 0
    <3>1. (i \in DOMAIN log /\ log'[i] = log[i]) \/ log'[i] = e
      BY <2>2, RowsAfter DEF Adds
    <3> QED BY <1>11, <2>2, <3>1 DEF Adds, RowBy, PlanInv
  <2> QED BY <2>1, <2>2, RowStep
<1> QED BY <1>3, <1>4, <1>5, <1>6, <1>8, <1>9, <1>11 DEF PlanInv

LEMMA LostStays ==
  ASSUME TypeInv, SuccessInv, [Next]_vars, NEW n \in Node, LostNow(n),
         n # Current \/ pc \notin {"start", "settle", "visit"}
  PROVE  LostNow(n)'
<1>1. StatusRows(n) # {}
  BY LostIsShown DEF LostNow
<1>2. Shown(n)' = Shown(n) /\ DerivedAttempt(n)' = DerivedAttempt(n)
  BY <1>1, Quiet
<1> QED BY <1>2 DEF LostNow

\* A node that the loop has left has succeeded, or is lost.
PassedInv ==
  Looping => \A q \in Node : q < pos \/ (q = pos /\ pc = "complete") =>
               status[Order[q]] = "SUCCEEDED" \/ LostNow(Order[q])

\* A blocked node has a lost dependency: the dependencies come first in the order.
LEMMA BlockedBy ==
  ASSUME TypeInv, PassedInv, pc = "visit", Blocked(Current)
  PROVE  \E d \in Deps[Current] : d \in Node /\ status[d] # "SUCCEEDED" /\ LostNow(d)
<1>1. PICK d \in Deps[Current] : status[d] # "SUCCEEDED"
  BY DEF Blocked
<1>2. pos \in Node /\ Current \in Node
  BY TextTypes DEF TypeInv, FlowTyped
<1>3. PICK j \in 1..(pos - 1) : Order[j] = d
  BY <1>1, <1>2, DagAssumption DEF Current
<1>4. j \in Node /\ j < pos
  BY <1>2, <1>3, NodeBounds DEF Node
<1>5. LostNow(d)
  BY <1>1, <1>3, <1>4 DEF PassedInv, Looping, Executing
<1>6. d \in Node
  BY <1>3, <1>4, NodeTables
<1> QED BY <1>1, <1>5, <1>6

\* What is emitted of a node is shown, unless it was in the log before.
LEMMA EmitShown ==
  ASSUME TypeInv, SeenLogged, [Next]_vars, NEW e \in NumberedEvent, Emit(e),
         e.type \in AttemptEvent, NEW n \in Node, e.node = n
  PROVE  \/ log' = Append(log, e) /\ Shown(n)' = NodeStatusEvent[e.type]
         \/ UNCHANGED log /\ \E i \in Rows(e.type, n) : log[i].attempt = e.attempt
<1>1. CASE Key(e) \in seen
  <2>1. UNCHANGED log
    BY <1>1 DEF Emit
  <2>2. PICK i \in DOMAIN log : Key(log[i]) = Key(e)
    BY <1>1 DEF SeenLogged
  <2>3. i \in Rows(e.type, n) /\ log[i].attempt = e.attempt
    BY <2>2 DEF Key, Rows
  <2> QED BY <2>1, <2>3
<1>2. CASE Key(e) \notin seen
  <2>1. log' = Append(log, e)
    BY <1>2 DEF Emit
  <2> QED BY <2>1, StatusAfter
<1> QED BY <1>1, <1>2

LEMMA AttemptEventFields ==
  ASSUME NEW t \in {"NODE_STARTED", "NODE_FAILED"}, NEW n \in Node, NEW a \in 1..2
  PROVE  /\ NodeEvent(t, n, a) \in NumberedEvent
         /\ NodeEvent(t, n, a).type = t /\ NodeEvent(t, n, a).node = n
         /\ NodeEvent(t, n, a).attempt = a
<1>1. NoText \in MaybeText /\ TRUE \in BOOLEAN
  BY DEF MaybeText
<1>2. NodeEvent(t, n, a) \in NumberedEvent
  BY <1>1, WrittenEvents
<1> QED BY <1>2 DEF NodeEvent

LEMMA LeftIsLost ==
  ASSUME CompletionsRetried, TypeInv, OutcomeInv, EndsOneWay, OrderedEnds, AttemptsAllowed, ChosenInv,
         [Next]_vars, Leaves, NEW n \in Node, n = Current, status'[n] # "SUCCEEDED"
  PROVE  LostNow(n)'
<1>0. Shown(n)' = "FAILED" => LostNow(n)'
  BY DEF LostNow
<1>1. UNCHANGED log /\ LostNow(n) => LostNow(n)'
  <2> SUFFICES ASSUME UNCHANGED log, LostNow(n) PROVE LostNow(n)'
    OBVIOUS
  <2>1. StatusRows(n) # {}
    BY LostIsShown DEF LostNow
  <2>2. Shown(n)' = Shown(n) /\ DerivedAttempt(n)' = DerivedAttempt(n)
    BY DEF Shown, DerivedAttempt, StatusRows, Known, Rows
  <2> QED BY <2>2 DEF LostNow
<1>2. CASE GiveUp
  BY <1>1, <1>2, GivenUpIsLost DEF GiveUp
<1>3. CASE SkipBlocked /\ Emit(NodeEvent("NODE_FAILED", Current, 1))
  <2>1. PICK e \in NumberedEvent : /\ e = NodeEvent("NODE_FAILED", Current, 1) /\ e.type = "NODE_FAILED"
                                   /\ e.node = n /\ e.attempt = 1
    BY AttemptEventFields
  <2>2. \/ Shown(n)' = NodeStatusEvent["NODE_FAILED"]
        \/ UNCHANGED log /\ \E i \in Rows("NODE_FAILED", n) : log[i].attempt = 1
    BY <1>3, <2>1, EmitShown DEF OutcomeInv, OrderInv, AttemptEvent
  <2>3. CASE UNCHANGED log /\ \E i \in Rows("NODE_FAILED", n) : log[i].attempt = 1
    BY <1>1, <2>3, BlockedIsLost
  <2> QED BY <1>0, <2>2, <2>3, StatusNames
<1>4. CASE Fail /\ Emit(NodeEvent("NODE_FAILED", Current, attempt))
  <2>1. pc = "settle" /\ attempt \in 1..2
    BY <1>4 DEF Fail, TypeInv, FlowTyped
  <2>2. PICK e \in NumberedEvent : /\ e = NodeEvent("NODE_FAILED", Current, attempt)
                                   /\ e.type = "NODE_FAILED" /\ e.node = n /\ e.attempt = attempt
    BY <2>1, AttemptEventFields
  <2>3. \/ Shown(n)' = NodeStatusEvent["NODE_FAILED"]
        \/ \E i \in Rows("NODE_FAILED", n) : log[i].attempt = attempt
    BY <1>4, <2>2, EmitShown DEF OutcomeInv, OrderInv, AttemptEvent
  <2>4. attempt \notin EndedAttempts(n)
    BY <2>1 DEF OutcomeInv, AttemptInv, InHandInv, InNode
  <2> QED BY <1>0, <2>3, <2>4, StatusNames DEF EndedAttempts, Attempts
<1> QED BY <1>2, <1>3, <1>4 DEF Leaves

LEMMA PassedStep ==
  ASSUME CompletionsRetried, TypeInv, OutcomeInv, EndsOneWay, OrderedEnds, AttemptsAllowed, ChosenInv,
         PassedInv, [Next]_vars
  PROVE  PassedInv'
<1> SUFFICES ASSUME Looping', NEW q \in Node, q < pos' \/ (q = pos' /\ pc' = "complete")
             PROVE  status'[Order[q]] = "SUCCEEDED" \/ LostNow(Order[q])'
  BY DEF PassedInv
<1>0. pos \in Node /\ pos' \in Node /\ Node = 1..NumNodes /\ NumNodes \in Nat
  BY TypeStep, NodeBounds DEF TypeInv, FlowTyped, Node
<1>1. Looping
  <2>1. Looping \/ (pos' = 1 /\ pc' = "visit")
    BY EarlyStep DEF Early
  <2>2. ~(pos' = 1 /\ pc' = "visit")
    BY <1>0
  <2> QED BY <2>1, <2>2
<1>2. PICK m \in Node : m = Order[q]
  BY NodeTables
<1>3. Advances
  BY AdvancesStep
<1>4. ASSUME q < pos \/ (q = pos /\ pc = "complete" /\ UNCHANGED status)
      PROVE  status'[m] = "SUCCEEDED" \/ LostNow(m)'
  <2>1. status[m] = "SUCCEEDED" \/ LostNow(m)
    BY <1>1, <1>2, <1>4 DEF PassedInv
  <2>2. status'[m] = status[m]
    <3>1. q < pos => m # Current
      BY <1>0, <1>2, OrderInjective DEF Current
    <3> QED BY <1>1, <1>3, <1>4, <3>1 DEF Advances
  <2>3. m # Current \/ pc = "complete"
    BY <1>0, <1>2, <1>4, OrderInjective DEF Current
  <2>4. LostNow(m) => LostNow(m)'
    BY <2>3, LostStays DEF OutcomeInv
  <2> QED BY <2>1, <2>2, <2>4
<1>5. ASSUME q = pos, Leaves
      PROVE  status'[m] = "SUCCEEDED" \/ LostNow(m)'
  BY <1>2, <1>5, LeftIsLost DEF Current
<1>6. \/ q < pos \/ (q = pos /\ pc = "complete" /\ UNCHANGED status)
      \/ q = pos /\ Leaves
  BY <1>0, <1>1, <1>3 DEF Advances
<1> QED BY <1>2, <1>4, <1>5, <1>6

\* Nothing is shown of a node before some node was started.
StartFirst == \A n \in Node : StatusRows(n) # {} => SomeStarted

LEMMA StartFirstStep ==
  ASSUME TypeInv, OutcomeInv, PassedInv, StartFirst, [Next]_vars
  PROVE  StartFirst'
<1>0. SomeStarted => SomeStarted'
  BY LogGrows DEF SomeStarted
<1> SUFFICES ASSUME NEW n \in Node, StatusRows(n)' # {}, StatusRows(n) = {}
             PROVE  SomeStarted'
  BY <1>0 DEF StartFirst
<1>1. ~UNCHANGED log
  BY DEF StatusRows, Rows
<1>2. PICK e \in NumberedEvent : Adds(e)
  BY <1>1, RowStep
<1>3. e.type \in AttemptEvent /\ e.node = n
  BY <1>2, StatusAfter DEF Adds
<1>4. CASE e.type = "NODE_STARTED"
  <2>1. Rows("NODE_STARTED", n)' = Rows("NODE_STARTED", n) \cup {Len(log) + 1}
    BY <1>2, <1>3, <1>4, RowsAfter DEF Adds
  <2> QED BY <2>1 DEF SomeStarted
<1>5. CASE pc = "settle"
  <2>1. Rows("NODE_STARTED", Current) # {} /\ Current \in Node
    BY <1>5, TextTypes DEF OutcomeInv, ResultInv, Attempting
  <2> QED BY <1>0, <2>1 DEF SomeStarted
<1>6. CASE pc = "visit" /\ Blocked(Current)
  <2>1. PICK d \in Node : LostNow(d)
    BY <1>6, BlockedBy
  <2> QED BY <1>0, <2>1, LostIsShown DEF LostNow, StartFirst
<1> QED BY <1>2, <1>3, <1>4, <1>5, <1>6 DEF Adds, RowBy, AttemptEvent

-----------------------------------------------------------------------------
(* What the executor believes is what is shown.                            *)

ShownInv ==
  /\ \A n \in Node : MateriallySucceeded(n) => Shown(n) = "SUCCEEDED"
  /\ Executing => \A n \in Node : status[n] = "SUCCEEDED" => Shown(n) = "SUCCEEDED"
  /\ Attempting => Shown(Current) = "RUNNING"

\* An attempt that is under way was logged.
HandStarted == Attempting => attempt \in Attempts("NODE_STARTED", Current)

\* An attempt that was started before and has not ended is the last that is shown.
LEMMA StartedIsShown ==
  ASSUME TypeInv, OutcomeInv, EndsOneWay, NoDuplicateEvents, pc = "start",
         NEW n \in Node, n = Current, NEW j \in Rows("NODE_STARTED", n), log[j].attempt = attempt
  PROVE  Shown(n) = "RUNNING"
<1>1. j \in StatusRows(n)
  BY StatusRowsAre DEF Rows, AttemptEvent
<1>2. PICK l \in DOMAIN log : LastStatus(n, l)
  BY <1>1, LastExists
<1>3. /\ l \in StatusRows(n) /\ j <= l /\ log[l].type \in AttemptEvent /\ log[l].node = n
      /\ log[l].attempt \in 1..2
  BY <1>1, <1>2, StatusFacts DEF LastStatus
<1>4. CASE log[l].type = "NODE_STARTED"
  BY <1>2, <1>4, LastShown, StatusNames
<1>5. CASE log[l].type # "NODE_STARTED"
  <2>1. l \in Rows("NODE_SUCCEEDED", n) \cup Rows("NODE_FAILED", n)
    BY <1>2, <1>3, <1>5 DEF Rows, AttemptEvent
  <2>2. log[l].attempt \in EndedAttempts(n)
    BY <2>1 DEF EndedAttempts, Attempts
  <2>3. /\ attempt \in 1..2 /\ attempt \notin EndedAttempts(n)
        /\ attempt = 1 => 2 \notin EndedAttempts(n)
    BY DEF OutcomeInv, AttemptInv, InHandInv, InNode, TypeInv, FlowTyped
  <2>4. attempt = 2 /\ log[l].attempt = 1
    BY <1>3, <2>2, <2>3
  <2>5. /\ Len(log) \in Nat /\ DOMAIN log = 1..Len(log) /\ j \in DOMAIN log /\ j # l
        /\ log[j].type = "NODE_STARTED" /\ log[j].node = n
    BY <1>5, RowFacts, NodeBounds DEF EventType, Node, Rows
  <2>6. j < l
    BY <1>3, <2>5
  <2>7. PICK i \in 1..(j - 1) : /\ log[i].node = n /\ log[i].attempt = 1
                                /\ log[i].type \in {"NODE_FAILED", "NODE_SUCCEEDED"}
    BY <2>4, <2>5 DEF OutcomeInv, StartsInOrder
  <2>8. i \in DOMAIN log /\ i # l
    BY <2>5, <2>6, <2>7
  <2>9. log[i].type = log[l].type
    <3>1. SUFFICES ASSUME log[i].type # log[l].type PROVE FALSE
      OBVIOUS
    <3>2. 1 \in Attempts("NODE_SUCCEEDED", n) /\ 1 \in Attempts("NODE_FAILED", n)
      BY <1>2, <1>3, <1>5, <2>4, <2>7, <2>8, <3>1 DEF Attempts, Rows, AttemptEvent
    <3> QED BY <3>2 DEF EndsOneWay
  <2>10. HasDagId(log[i]) /\ HasDagId(log[l])
    BY <2>7, <2>9, CodeChangeTypes DEF HasDagId
  <2>11. Key(log[i]) = Key(log[l])
    BY <1>3, <2>4, <2>7, <2>9 DEF Key
  <2> QED BY <1>2, <2>8, <2>10, <2>11 DEF NoDuplicateEvents
<1> QED BY <1>4, <1>5

LEMMA ShownStep ==
  ASSUME TypeInv, OutcomeInv, EndsOneWay, NoDuplicateEvents, ShownInv, [Next]_vars
  PROVE  ShownInv'
<1>0. SuccessInv /\ SeenLogged /\ Current \in Node
  BY TextTypes DEF OutcomeInv, OrderInv
<1>a. ASSUME UNCHANGED log
      PROVE  \A n \in Node : Shown(n)' = Shown(n)
  BY <1>a DEF Shown, Known, StatusRows, Rows
<1>1. ASSUME NEW n \in Node, MateriallySucceeded(n)'
      PROVE  Shown(n)' = "SUCCEEDED"
  <2>1. CASE UNCHANGED log
    <3>1. MateriallySucceeded(n)
      BY <1>1, <2>1 DEF MateriallySucceeded, LastOutput, Rows
    <3> QED BY <1>a, <2>1, <3>1 DEF ShownInv
  <2>2. CASE ~UNCHANGED log
    <3>1. PICK e \in NumberedEvent : Adds(e)
      BY <2>2, RowStep
    <3>2. log' = Append(log, e) /\ Executing
      BY <3>1 DEF Adds
    <3>3. CASE e.type = "NODE_SUCCEEDED" /\ e.node = n
      BY <3>2, <3>3, StatusAfter, StatusNames DEF AttemptEvent
    <3>4. CASE ~(e.type = "NODE_SUCCEEDED" /\ e.node = n)
      <4>1. Rows("NODE_SUCCEEDED", n)' = Rows("NODE_SUCCEEDED", n)
        <5>1. Rows("NODE_SUCCEEDED", n)' = Rows("NODE_SUCCEEDED", n) \cup
                {i \in {Len(log) + 1} : e.type = "NODE_SUCCEEDED" /\ e.node = n}
          BY <3>2, RowsAfter
        <5> QED BY <3>4, <5>1
      <4>2. MateriallySucceeded(n)
        BY <1>1, <4>1, SameOutput DEF MateriallySucceeded
      <4>3. status[n] = "SUCCEEDED"
        BY <1>0, <3>2, <4>2, CountsIsMaterial DEF SuccessInv
      <4>4. ~(e.type \in AttemptEvent /\ e.node = n)
        BY <1>0, <3>1, <4>3, StatusBy
      <4>5. StatusRows(n) # {} /\ Shown(n) = "SUCCEEDED"
        BY <4>2, ShownCases DEF ShownInv
      <4> QED BY <3>2, <4>4, <4>5, StatusAfter
    <3> QED BY <3>3, <3>4
  <2> QED BY <2>1, <2>2
<1>2. ASSUME Executing', NEW n \in Node, status'[n] = "SUCCEEDED"
      PROVE  Shown(n)' = "SUCCEEDED"
  <2>1. CASE Executing /\ status[n] = "SUCCEEDED"
    <3>1. Shown(n) = "SUCCEEDED" /\ StatusRows(n) # {}
      BY <2>1, ShownCases DEF ShownInv
    <3> QED BY <1>0, <2>1, <3>1, Quiet
  <2>2. CASE Resume /\ MateriallySucceeded(n)
    BY <1>a, <2>2 DEF Resume, ShownInv
  <2>3. CASE Succeed /\ n = Current /\ pc' # "threw"
    <3>1. /\ pc = "settle" /\ attempt \in 1..2 /\ result.text \in MaybeText
          /\ Emit(TextEvent("NODE_SUCCEEDED", Current, attempt, result.text))
      BY <2>3 DEF Succeed, EmitOrThrow, TypeInv, FlowTyped, ResultTyped
    <3>2. PICK e : e = TextEvent("NODE_SUCCEEDED", n, attempt, result.text)
      OBVIOUS
    <3>3. e \in NumberedEvent /\ e.type = "NODE_SUCCEEDED" /\ e.node = n /\ e.attempt = attempt
      <4>1. TRUE \in BOOLEAN
        OBVIOUS
      <4>2. e \in NumberedEvent
        BY <3>1, <3>2, <4>1, WrittenEvents
      <4> QED BY <3>2, <4>2 DEF TextEvent, NodeEvent
    <3>4. \/ Shown(n)' = NodeStatusEvent["NODE_SUCCEEDED"]
          \/ \E i \in Rows("NODE_SUCCEEDED", n) : log[i].attempt = attempt
      BY <1>0, <2>3, <3>1, <3>2, <3>3, EmitShown DEF AttemptEvent
    <3>5. attempt \notin EndedAttempts(n)
      BY <2>3, <3>1 DEF OutcomeInv, AttemptInv, InHandInv, InNode
    <3> QED BY <3>4, <3>5, StatusNames DEF EndedAttempts, Attempts
  <2> QED BY <1>2, <2>1, <2>2, <2>3, StatusShape
<1>3. ASSUME Attempting'
      PROVE  Shown(Current)' = "RUNNING"
  <2>1. PICK n \in Node : n = Current
    BY <1>0
  <2>2. n = Current'
    BY <1>3, <2>1, HandStep DEF Attempt, Current
  <2>3. CASE Attempting
    <3>1. Shown(n) = "RUNNING" /\ StatusRows(n) # {}
      BY <2>1, <2>3, ShownCases DEF ShownInv
    <3>2. CASE UNCHANGED log
      BY <1>a, <2>2, <3>1, <3>2
    <3>3. CASE ~UNCHANGED log
      <4>1. PICK e \in NumberedEvent : Adds(e)
        BY <3>3, RowStep
      <4>2. ~(e.type \in AttemptEvent /\ e.node = n)
        BY <1>3, <2>3, <4>1 DEF Adds, RowBy, AttemptEvent, Attempting, InNode
      <4>3. Shown(n)' = Shown(n)
        BY <3>1, <4>1, <4>2, StatusAfter DEF Adds
      <4> QED BY <2>2, <3>1, <4>3
    <3> QED BY <3>2, <3>3
  <2>4. CASE StartAttempt /\ Emit(NodeEvent("NODE_STARTED", Current, attempt))
    <3>1. pc = "start" /\ attempt \in 1..2
      BY <2>4 DEF StartAttempt, TypeInv, FlowTyped
    <3>2. PICK e \in NumberedEvent : /\ e = NodeEvent("NODE_STARTED", n, attempt)
                                     /\ e.type = "NODE_STARTED" /\ e.node = n /\ e.attempt = attempt
      BY <3>1, AttemptEventFields
    <3>3. \/ Shown(n)' = NodeStatusEvent["NODE_STARTED"]
          \/ UNCHANGED log /\ \E i \in Rows("NODE_STARTED", n) : log[i].attempt = attempt
      BY <1>0, <2>1, <2>4, <3>2, EmitShown DEF AttemptEvent
    <3>4. CASE UNCHANGED log /\ \E i \in Rows("NODE_STARTED", n) : log[i].attempt = attempt
      BY <1>a, <2>1, <2>2, <3>1, <3>4, StartedIsShown
    <3> QED BY <2>2, <3>3, <3>4, StatusNames
  <2> QED BY <1>3, <2>3, <2>4, HandStep DEF Attempt
<1> QED BY <1>1, <1>2, <1>3 DEF ShownInv

LEMMA HandStartedStep ==
  ASSUME TypeInv, SeenLogged, HandStarted, [Next]_vars
  PROVE  HandStarted'
<1> SUFFICES ASSUME Attempting' PROVE attempt' \in Attempts("NODE_STARTED", Current)'
  BY DEF HandStarted
<1>0. PICK n \in Node : n = Current
  BY TextTypes
<1>1. n = Current' /\ UNCHANGED attempt
  <2>1. UNCHANGED pos /\ InNode' /\ pc # "visit" /\ pc' # "start"
    BY HandStep DEF Attempt, Attempting, InNode, StartAttempt
  <2> QED BY <1>0, <2>1, HandStep DEF Hand, BeginNode, Current
<1>2. CASE Attempting
  <2>1. PICK i \in Rows("NODE_STARTED", n) : log[i].attempt = attempt
    BY <1>0, <1>2 DEF HandStarted, Attempts
  <2>2. i \in Rows("NODE_STARTED", n)' /\ log'[i].attempt = attempt
    BY <2>1, LogGrows DEF Rows
  <2> QED BY <1>1, <2>2 DEF Attempts
<1>3. CASE Emit(NodeEvent("NODE_STARTED", Current, attempt))
  <2>1. PICK i \in DOMAIN log' : Key(log'[i]) = Key(NodeEvent("NODE_STARTED", n, attempt))
    BY <1>0, <1>3, EmittedRow
  <2>2. log'[i].type = "NODE_STARTED" /\ log'[i].node = n /\ log'[i].attempt = attempt
    BY <2>1 DEF Key, NodeEvent
  <2>3. i \in Rows("NODE_STARTED", n)'
    BY <2>2 DEF Rows
  <2> QED BY <1>1, <2>2, <2>3 DEF Attempts
<1> QED BY <1>2, <1>3, HandStep DEF Attempt

-----------------------------------------------------------------------------
(* The invariant of the refinement.                                        *)

RunInv ==
  /\ EndsOneWay /\ NoDuplicateEvents /\ KnownOrOvertaken
  /\ PlanInv /\ OrderedEnds /\ AttemptsAllowed /\ ChosenInv
  /\ PassedInv /\ StartFirst /\ ShownInv /\ HandStarted

LEMMA RunInit == Init => RunInv
<1> SUFFICES ASSUME Init PROVE RunInv
  OBVIOUS
<1>1. \A t, n : Rows(t, n) = {}
  BY DEF Init, Rows
<1>2. \A t, n : Attempts(t, n) = {}
  BY <1>1 DEF Attempts
<1>3. \A n : StatusRows(n) = {}
  BY <1>1 DEF StatusRows
<1>4. pc = "idle" /\ pos = 1 /\ DOMAIN log = {} /\ \A n \in Node : status[n] = "PENDING"
  BY DEF Init
<1>5. EndsOneWay /\ OrderedEnds /\ AttemptsAllowed /\ StartFirst
  BY <1>1, <1>2, <1>3 DEF EndsOneWay, OrderedEnds, AttemptsAllowed, StartFirst
<1>6. NoDuplicateEvents /\ KnownOrOvertaken
  BY <1>4 DEF NoDuplicateEvents, KnownOrOvertaken
<1>7. PlanInv
  BY <1>1, <1>3, <1>4 DEF PlanInv, Queued, Looping, Executing
<1>8. ChosenInv /\ PassedInv
  BY <1>4 DEF ChosenInv, Ahead, PassedInv, Looping, Executing
<1>9. ShownInv /\ HandStarted
  BY <1>1, <1>4 DEF ShownInv, HandStarted, Attempting, Executing, MateriallySucceeded
<1> QED BY <1>5, <1>6, <1>7, <1>8, <1>9 DEF RunInv

LEMMA RunInvStep ==
  ASSUME Apart, CompletionsRetried, TypeInv, OutcomeInv, RunInv, [Next]_vars
  PROVE  RunInv'
<1> USE DEF RunInv
<1>0. SuccessInv /\ SeenLogged
  BY DEF OutcomeInv, OrderInv
<1>1. EndsOneWay'
  BY EndsOneWayStep
<1>2. NoDuplicateEvents' /\ KnownOrOvertaken'
  BY NoDuplicateStep, KnownStep
<1>3. PlanInv' /\ HandStarted'
  BY <1>0, PlanStep, HandStartedStep
<1>4. OrderedEnds' /\ AttemptsAllowed' /\ ChosenInv'
  BY <1>0, OrderedEndsStep, AttemptsAllowedStep, ChosenStep
<1>5. PassedInv' /\ StartFirst'
  BY PassedStep, StartFirstStep
<1>6. ShownInv'
  BY ShownStep
<1> QED BY <1>1, <1>2, <1>3, <1>4, <1>5, <1>6

LEMMA RunInvariance ==
  ASSUME Apart, CompletionsRetried
  PROVE  Spec => [](TypeInv /\ OutcomeInv /\ RunInv)
<1>1. Init => RunInv
  BY RunInit
<1>2. TypeInv /\ OutcomeInv /\ RunInv /\ [Next]_vars => RunInv'
  BY RunInvStep
<1>3. Spec => [](TypeInv /\ OutcomeInv)
  BY OutcomeInvariance
<1> QED BY <1>1, <1>2, <1>3, PTL DEF Spec

-----------------------------------------------------------------------------
(* The steps of DagRun, by what they show.                                 *)

NodesShown == \A n \in Node : DerivedNode(n) = Shown(n)

LEMMA ShownIsDerived == TypeInv /\ OutcomeInv => NodesShown
<1> SUFFICES ASSUME TypeInv, OutcomeInv, NEW n \in Node PROVE DerivedNode(n) = Shown(n)
  BY DEF NodesShown
<1>1. CASE StatusRows(n) # {}
  BY <1>1 DEF DerivedNode, Shown
<1>2. CASE StatusRows(n) = {}
  <2>1. DerivedStatus # "SUCCEEDED"
    <3>1. SUFFICES ASSUME Verdicts # {} PROVE ~log[MaxOf(Verdicts)].ok
      BY DEF DerivedStatus
    <3>2. MaxOf(Verdicts) \in Verdicts
      <4>1. Len(log) \in Nat /\ Verdicts \in SUBSET (0..Len(log))
        BY RowFacts, NodeBounds DEF Verdicts, EventType, Node
      <4> QED BY <3>1, <4>1, MaxOfInterval
    <3>3. Rows("NODE_SUCCEEDED", n) = {}
      BY <1>2, StatusRowsAre DEF Rows, AttemptEvent
    <3> QED BY <3>2, <3>3 DEF OutcomeInv, VerdictsTrue
  <2> QED BY <1>2, <2>1 DEF DerivedNode, Shown
<1> QED BY <1>1, <1>2

\* The nodes, and their attempts, as the log shows them after a step.
Shows(n, s) ==
  /\ Shown(n)' = s
  /\ \A m \in Node : m # n => Shown(m)' = Shown(m) /\ DerivedAttempt(m)' = DerivedAttempt(m)

LEMMA NodesMove ==
  ASSUME NodesShown, NodesShown', NEW n \in Node, NEW s, Shows(n, s)
  PROVE  /\ [m \in Node |-> DerivedNode(m)]' = [[m \in Node |-> DerivedNode(m)] EXCEPT ![n] = s]
         /\ \A a : DerivedAttempt(n)' = a =>
              [m \in Node |-> DerivedAttempt(m)]' = [[m \in Node |-> DerivedAttempt(m)] EXCEPT ![n] = a]
<1>1. DerivedNode(n)' = s /\ \A m \in Node : m # n => DerivedNode(m)' = DerivedNode(m)
  BY DEF NodesShown, Shows
<1> QED BY <1>1 DEF Shows

LEMMA NodesStay ==
  ASSUME NodesShown, NodesShown',
         \A m \in Node : Shown(m)' = Shown(m) /\ DerivedAttempt(m)' = DerivedAttempt(m)
  PROVE  UNCHANGED <<[m \in Node |-> DerivedNode(m)], [m \in Node |-> DerivedAttempt(m)]>>
BY DEF NodesShown

LEMMA RunPlan ==
  ASSUME NodesShown, NodesShown', DerivedStatus = "CREATED", DerivedStatus' = "PLANNED",
         \A m \in Node : Shown(m)' = Shown(m) /\ DerivedAttempt(m)' = DerivedAttempt(m)
  PROVE  Run!Plan
BY NodesStay DEF Run!Plan

LEMMA RunQueue ==
  ASSUME NodesShown, NodesShown', NEW n \in Node, DerivedStatus = "PLANNED", UNCHANGED DerivedStatus,
         Shown(n) = "UNKNOWN", Shows(n, "PENDING"), DerivedAttempt(n)' = DerivedAttempt(n)
  PROVE  Run!Queue(n)
<1>1. /\ [m \in Node |-> DerivedNode(m)]' = [[m \in Node |-> DerivedNode(m)] EXCEPT ![n] = "PENDING"]
      /\ [m \in Node |-> DerivedAttempt(m)]' = [m \in Node |-> DerivedAttempt(m)]
  BY NodesMove DEF Shows
<1>2. DerivedNode(n) = "UNKNOWN"
  BY DEF NodesShown
<1> QED BY <1>1, <1>2 DEF Run!Queue

LEMMA RunStart ==
  ASSUME NodesShown, NodesShown', NEW n \in Node,
         DerivedStatus \in {"PLANNED", "RUNNING"}, DerivedStatus' = "RUNNING",
         \A m \in Node : Shown(m) # "UNKNOWN",
         \A d \in Deps[n] : d \in Node /\ Shown(d) = "SUCCEEDED",
         Shown(n) = "SUCCEEDED" => Kind[n] \in TextKind,
         DerivedAttempt(n) < MaxAttempts[n], DerivedAttempt(n)' = DerivedAttempt(n) + 1,
         Shows(n, "RUNNING")
  PROVE  Run!Start(n)
<1>1. /\ [m \in Node |-> DerivedNode(m)]' = [[m \in Node |-> DerivedNode(m)] EXCEPT ![n] = "RUNNING"]
      /\ [m \in Node |-> DerivedAttempt(m)]' =
           [[m \in Node |-> DerivedAttempt(m)] EXCEPT ![n] = DerivedAttempt(n) + 1]
  BY NodesMove
<1>2. /\ \A m \in Node : DerivedNode(m) # "UNKNOWN"
      /\ \A d \in Deps[n] : d \in Node /\ DerivedNode(d) = "SUCCEEDED"
      /\ DerivedNode(n) = "SUCCEEDED" => Kind[n] \in TextKind
  BY DEF NodesShown
<1> QED BY <1>1, <1>2 DEF Run!Start, Run!Moves

LEMMA RunSettle ==
  ASSUME NodesShown, NodesShown', NEW n \in Node, NEW s \in {"SUCCEEDED", "FAILED"},
         DerivedStatus = "RUNNING", UNCHANGED DerivedStatus, Shown(n) = "RUNNING",
         Shows(n, s), DerivedAttempt(n)' = DerivedAttempt(n)
  PROVE  Run!Succeed(n) \/ Run!Fail(n)
<1>1. /\ [m \in Node |-> DerivedNode(m)]' = [[m \in Node |-> DerivedNode(m)] EXCEPT ![n] = s]
      /\ [m \in Node |-> DerivedAttempt(m)]' = [m \in Node |-> DerivedAttempt(m)]
  BY NodesMove DEF Shows
<1>2. DerivedNode(n) = "RUNNING"
  BY DEF NodesShown
<1> QED BY <1>1, <1>2 DEF Run!Succeed, Run!Fail, Run!Moves

LEMMA RunBlock ==
  ASSUME NodesShown, NodesShown', NEW n \in Node, NEW d \in Deps[n], d \in Node, LostNow(d),
         DerivedStatus = "RUNNING", UNCHANGED DerivedStatus,
         Shown(n) = "SUCCEEDED" => Kind[n] \in TextKind, Shows(n, "FAILED"),
         DerivedAttempt(n)' = IF DerivedAttempt(n) = 0 THEN 1 ELSE DerivedAttempt(n)
  PROVE  Run!Block(n)
<1>1. /\ [m \in Node |-> DerivedNode(m)]' = [[m \in Node |-> DerivedNode(m)] EXCEPT ![n] = "FAILED"]
      /\ [m \in Node |-> DerivedAttempt(m)]' =
           [[m \in Node |-> DerivedAttempt(m)] EXCEPT
              ![n] = IF DerivedAttempt(n) = 0 THEN 1 ELSE DerivedAttempt(n)]
  BY NodesMove
<1>2. Run!Lost(d)
  BY DEF NodesShown, Run!Lost, LostNow
<1>3. DerivedNode(n) = "SUCCEEDED" => Kind[n] \in TextKind
  BY DEF NodesShown
<1> QED BY <1>1, <1>2, <1>3 DEF Run!Block, Run!Moves

LEMMA RunComplete ==
  ASSUME NodesShown, NodesShown', DerivedStatus = "RUNNING",
         \/ DerivedStatus' = "SUCCEEDED" /\ \A n \in Node : Shown(n) = "SUCCEEDED"
         \/ DerivedStatus' = "FAILED" /\ \E n \in Node : Shown(n) # "SUCCEEDED" \/ Kind[n] \in TextKind,
         \A m \in Node : Shown(m)' = Shown(m) /\ DerivedAttempt(m)' = DerivedAttempt(m)
  PROVE  Run!Complete
BY NodesStay DEF Run!Complete, NodesShown

LEMMA RunStutter ==
  ASSUME NodesShown, NodesShown', UNCHANGED DerivedStatus,
         \A m \in Node : Shown(m)' = Shown(m) /\ DerivedAttempt(m)' = DerivedAttempt(m)
  PROVE  UNCHANGED Run!vars
BY NodesStay DEF Run!vars

-----------------------------------------------------------------------------
(* Each event is a step of DagRun.                                         *)

\* Before the verdict the status of the DAG is what was started and planned.
LEMMA StatusOpen ==
  /\ Verdicts = {} =>
       DerivedStatus = IF SomeStarted THEN "RUNNING" ELSE IF Planned THEN "PLANNED" ELSE "CREATED"
  /\ Verdicts' = {} =>
       DerivedStatus' = IF SomeStarted' THEN "RUNNING" ELSE IF Planned' THEN "PLANNED" ELSE "CREATED"
BY DEF DerivedStatus, SomeStarted, Planned

\* What an event shows of the nodes that it is not about.
LEMMA OthersShown ==
  ASSUME TypeInv, NEW e \in NumberedEvent, log' = Append(log, e), NEW m \in Node,
         ~(e.type \in AttemptEvent \cup {"NODE_QUEUED"} /\ e.node = m)
  PROVE  Shown(m)' = Shown(m) /\ DerivedAttempt(m)' = DerivedAttempt(m)
<1>1. /\ StatusRows(m)' = StatusRows(m) /\ DerivedAttempt(m)' = DerivedAttempt(m)
      /\ StatusRows(m) # {} => Shown(m)' = Shown(m)
  BY StatusAfter
<1>2. Rows("NODE_QUEUED", m)' = Rows("NODE_QUEUED", m)
  <2>1. Rows("NODE_QUEUED", m)' = Rows("NODE_QUEUED", m) \cup
          {i \in {Len(log) + 1} : e.type = "NODE_QUEUED" /\ e.node = m}
    BY RowsAfter
  <2> QED BY <2>1
<1>3. StatusRows(m) = {} => Shown(m)' = Shown(m)
  BY <1>1, <1>2 DEF Shown, Known
<1> QED BY <1>1, <1>3

\* What an event does to the status of the DAG.
LEMMA StatusMoves ==
  ASSUME TypeInv, VerdictInv, NEW e \in NumberedEvent, Adds(e)
  PROVE  /\ Verdicts = {}
         /\ ~(e.type = "DAG_COMPLETED" /\ e.node = 0) => Verdicts' = {}
         /\ e.type = "DAG_COMPLETED" /\ e.node = 0 =>
              DerivedStatus' = IF e.ok THEN "SUCCEEDED" ELSE "FAILED"
         /\ e.type # "NODE_STARTED" => (SomeStarted' <=> SomeStarted)
         /\ ~(e.type = "DAG_PLANNED" /\ e.node = 0) => (Planned' <=> Planned)
<1>1. log' = Append(log, e) /\ Verdicts = {}
  BY DEF Adds, VerdictInv
<1>2. \A t, n : Rows(t, n)' = Rows(t, n) \cup {i \in {Len(log) + 1} : e.type = t /\ e.node = n}
  BY <1>1, RowsAfter
<1>3. Verdicts' = {i \in {Len(log) + 1} : e.type = "DAG_COMPLETED" /\ e.node = 0}
  BY <1>1, <1>2 DEF Verdicts
<1>4. ASSUME e.type = "DAG_COMPLETED", e.node = 0
      PROVE  DerivedStatus' = IF e.ok THEN "SUCCEEDED" ELSE "FAILED"
  <2>1. Len(log) \in Nat /\ log'[Len(log) + 1] = e
    BY <1>1, RowsAfter
  <2>2. Verdicts' = {} \cup {Len(log) + 1}
    BY <1>3, <1>4
  <2>3. MaxOf({} \cup {Len(log) + 1}) = Len(log) + 1
    BY <2>1, MaxOfNext
  <2> QED BY <2>1, <2>2, <2>3 DEF DerivedStatus
<1>5. e.type # "NODE_STARTED" => (SomeStarted' <=> SomeStarted)
  <2>1. ASSUME e.type # "NODE_STARTED", NEW n \in Node
        PROVE  Rows("NODE_STARTED", n)' = Rows("NODE_STARTED", n)
    <3>1. Rows("NODE_STARTED", n)' = Rows("NODE_STARTED", n) \cup
            {i \in {Len(log) + 1} : e.type = "NODE_STARTED" /\ e.node = n}
      BY <1>2
    <3> QED BY <2>1, <3>1
  <2> QED BY <2>1 DEF SomeStarted
<1>6. ~(e.type = "DAG_PLANNED" /\ e.node = 0) => (Planned' <=> Planned)
  <2>1. Rows("DAG_PLANNED", 0)' = Rows("DAG_PLANNED", 0) \cup
          {i \in {Len(log) + 1} : e.type = "DAG_PLANNED" /\ e.node = 0}
    BY <1>2
  <2> QED BY <2>1 DEF Planned
<1> QED BY <1>1, <1>3, <1>4, <1>5, <1>6

LEMMA ShowsPlan ==
  ASSUME TypeInv, OutcomeInv, RunInv, NodesShown, NodesShown', [Next]_vars,
         NEW e \in NumberedEvent, Adds(e), e.type = "DAG_PLANNED"
  PROVE  Run!Plan
<1>1. log' = Append(log, e) /\ pc = "plan" /\ e.node = 0 /\ e.attempt = 0
  BY DEF Adds, RowBy
<1>2. ~Planned
  <2>1. SUFFICES ASSUME NEW i \in Rows("DAG_PLANNED", 0) PROVE FALSE
    BY DEF Planned
  <2>2. i \in DOMAIN log /\ Key(log[i]) = Key(e)
    BY <1>1 DEF Rows, RunInv, PlanInv, Key
  <2>3. HasDagId(e)
    BY CodeChangeTypes DEF HasDagId
  <2> QED BY <1>1, <2>2, <2>3, Fresh DEF RunInv
<1>3. ~SomeStarted
  <2>1. \A n \in Node : Rows("NODE_STARTED", n) \subseteq StatusRows(n)
    BY StatusRowsAre DEF Rows, AttemptEvent
  <2> QED BY <1>2, <2>1 DEF RunInv, PlanInv, SomeStarted
<1>4. Planned'
  <2>1. Rows("DAG_PLANNED", 0)' = Rows("DAG_PLANNED", 0) \cup {Len(log) + 1}
    BY <1>1, RowsAfter
  <2> QED BY <2>1 DEF Planned
<1>5. DerivedStatus = "CREATED" /\ DerivedStatus' = "PLANNED"
  <2>1. Verdicts = {} /\ Verdicts' = {} /\ ~SomeStarted'
    BY <1>1, <1>3, StatusMoves DEF OutcomeInv
  <2> QED BY <1>2, <1>3, <1>4, <2>1, StatusOpen
<1>6. \A m \in Node : Shown(m)' = Shown(m) /\ DerivedAttempt(m)' = DerivedAttempt(m)
  BY <1>1, OthersShown DEF AttemptEvent
<1> QED BY <1>5, <1>6, RunPlan

LEMMA ShowsQueue ==
  ASSUME TypeInv, OutcomeInv, RunInv, NodesShown, NodesShown', [Next]_vars,
         NEW e \in NumberedEvent, Adds(e), e.type = "NODE_QUEUED"
  PROVE  \E n \in Node : Run!Queue(n)
<1>1. log' = Append(log, e) /\ pc = "queue" /\ e.node = Sorted[pos] /\ e.attempt = 0
  BY DEF Adds, RowBy
<1>2. PICK n \in Node : n = e.node
  BY <1>1, NodeTables DEF TypeInv, FlowTyped
<1>3. ~Queued(n)
  <2>1. SUFFICES ASSUME NEW i \in Rows("NODE_QUEUED", n) PROVE FALSE
    BY DEF Queued
  <2>2. i \in DOMAIN log /\ Key(log[i]) = Key(e)
    BY <1>1, <1>2 DEF Rows, RunInv, PlanInv, Key
  <2>3. HasDagId(e)
    BY CodeChangeTypes DEF HasDagId
  <2> QED BY <1>1, <2>2, <2>3, Fresh DEF RunInv
<1>4. \A m \in Node : StatusRows(m) = {}
  BY <1>3 DEF RunInv, PlanInv
<1>5. ~SomeStarted /\ Planned
  <2>1. \A m \in Node : Rows("NODE_STARTED", m) \subseteq StatusRows(m)
    BY StatusRowsAre DEF Rows, AttemptEvent
  <2>2. Planned
    BY <1>1 DEF RunInv, PlanInv, Executing
  <2> QED BY <1>4, <2>1, <2>2 DEF SomeStarted
<1>6. DerivedStatus = "PLANNED" /\ DerivedStatus' = "PLANNED"
  <2>1. Verdicts = {} /\ Verdicts' = {} /\ ~SomeStarted' /\ Planned'
    BY <1>1, <1>5, StatusMoves DEF OutcomeInv
  <2> QED BY <1>5, <2>1, StatusOpen
<1>7. Shown(n) = "UNKNOWN"
  BY <1>3, <1>4 DEF Shown, Known, Queued
<1>8. Shown(n)' = "PENDING" /\ DerivedAttempt(n)' = DerivedAttempt(n)
  <2>1. StatusRows(n)' = StatusRows(n) /\ DerivedAttempt(n)' = DerivedAttempt(n)
    BY <1>1, StatusAfter DEF AttemptEvent
  <2>2. Rows("NODE_QUEUED", n)' = Rows("NODE_QUEUED", n) \cup {Len(log) + 1}
    BY <1>1, <1>2, RowsAfter
  <2> QED BY <1>4, <2>1, <2>2 DEF Shown, Known
<1>9. \A m \in Node : m # n => Shown(m)' = Shown(m) /\ DerivedAttempt(m)' = DerivedAttempt(m)
  BY <1>1, <1>2, OthersShown
<1>10. Shows(n, "PENDING")
  BY <1>8, <1>9 DEF Shows
<1> QED BY <1>6, <1>7, <1>8, <1>10, RunQueue

\* The attempt that is logged as started is the next one.
LEMMA NextAttempt ==
  ASSUME TypeInv, OutcomeInv, RunInv, [Next]_vars,
         NEW e \in NumberedEvent, Adds(e), e.type = "NODE_STARTED", NEW n \in Node, n = Current
  PROVE  DerivedAttempt(n) + 1 = e.attempt
<1>1. log' = Append(log, e) /\ pc = "start" /\ e.node = n /\ e.attempt = attempt /\ attempt \in 1..2
  BY DEF Adds, RowBy, TypeInv, FlowTyped
<1>2. attempt \notin Attempts("NODE_STARTED", n)
  <2>1. SUFFICES ASSUME NEW i \in Rows("NODE_STARTED", n), log[i].attempt = attempt PROVE FALSE
    BY DEF Attempts
  <2>2. i \in DOMAIN log /\ Key(log[i]) = Key(e)
    BY <1>1, <2>1 DEF Rows, Key
  <2>3. HasDagId(e)
    BY CodeChangeTypes DEF HasDagId
  <2> QED BY <1>1, <2>2, <2>3, Fresh DEF RunInv
<1>3. /\ attempt \notin EndedAttempts(n)
      /\ attempt = 1 => 2 \notin EndedAttempts(n)
      /\ attempt = 2 => FirstEnded(n)
      /\ 2 \in EndedAttempts(n) \cup Attempts("NODE_STARTED", n) => FirstEnded(n)
  BY <1>1 DEF OutcomeInv, AttemptInv, InHandInv, SecondInv, InNode
<1>4. FirstEnded(n) => 1 \in EndedAttempts(n)
  BY DEF FirstEnded, EndsFirst, EndedAttempts, Attempts, Rows
<1>5. attempt = 1 => 2 \notin EndedAttempts(n) \cup Attempts("NODE_STARTED", n)
  BY <1>3, <1>4
<1>6. \A i \in StatusRows(n) : log[i].attempt \in EndedAttempts(n) \cup Attempts("NODE_STARTED", n)
  BY StatusRowsAre DEF EndedAttempts, Attempts, Rows, AttemptEvent
<1>7. \A i \in StatusRows(n) : log[i].attempt # attempt /\ (attempt = 1 => log[i].attempt # 2)
  BY <1>2, <1>3, <1>5, <1>6
<1>8. attempt = 2 => \E i \in StatusRows(n) : log[i].attempt = 1
  BY <1>3, StatusRowsAre DEF FirstEnded, EndsFirst, AttemptEvent
<1>9. /\ DerivedAttempt(n) \in 0..2
      /\ \A i \in StatusRows(n) : log[i].attempt <= DerivedAttempt(n)
      /\ DerivedAttempt(n) # 0 => \E i \in StatusRows(n) : log[i].attempt = DerivedAttempt(n)
  BY LastAttempt
<1>10. CASE attempt = 1
  BY <1>1, <1>7, <1>9, <1>10
<1>11. CASE attempt = 2
  BY <1>1, <1>7, <1>8, <1>9, <1>11
<1> QED BY <1>1, <1>10, <1>11

LEMMA ShowsStart ==
  ASSUME TypeInv, OutcomeInv, RunInv, NodesShown, NodesShown', [Next]_vars,
         NEW e \in NumberedEvent, Adds(e), e.type = "NODE_STARTED"
  PROVE  \E n \in Node : Run!Start(n)
<1>1. log' = Append(log, e) /\ pc = "start" /\ e.node = Current /\ e.attempt = attempt
  BY DEF Adds, RowBy
<1>2. PICK n \in Node : n = Current
  BY TextTypes
<1>3. Planned /\ \A m \in Node : Queued(m)
  BY <1>1 DEF RunInv, PlanInv, Looping, Executing
<1>4. \A m \in Node : Shown(m) # "UNKNOWN"
  <2> SUFFICES ASSUME NEW m \in Node PROVE Shown(m) # "UNKNOWN"
    OBVIOUS
  <2>1. CASE StatusRows(m) # {}
    BY <2>1, ShownCases
  <2>2. CASE StatusRows(m) = {}
    BY <1>3, <2>2 DEF Shown, Known, Queued
  <2> QED BY <2>1, <2>2
<1>5. \A d \in Deps[n] : d \in Node /\ Shown(d) = "SUCCEEDED"
  <2> SUFFICES ASSUME NEW d \in Deps[n] PROVE d \in Node /\ Shown(d) = "SUCCEEDED"
    OBVIOUS
  <2>1. d \in Node
    BY DagAssumption
  <2>2. status[d] = "SUCCEEDED"
    BY <1>1, <1>2 DEF OutcomeInv, OrderInv, DepsSucceeded, InNode
  <2> QED BY <1>1, <2>1, <2>2 DEF RunInv, ShownInv, Executing
<1>6. Shown(n) = "SUCCEEDED" => Kind[n] \in TextKind
  <2>1. Shown(n) = "SUCCEEDED" => Rows("NODE_SUCCEEDED", n) # {}
    BY ShownCases
  <2>2. Executing /\ status[n] # "SUCCEEDED"
    BY <1>1, <1>2 DEF OutcomeInv, SuccessInv, InNode, Executing
  <2> QED BY <2>1, <2>2, EmptyIsCompletion DEF OutcomeInv, TextKind
<1>7. e.attempt = DerivedAttempt(n) + 1 /\ DerivedAttempt(n) \in 0..2
  BY <1>2, NextAttempt, LastAttempt
<1>8. DerivedAttempt(n) < MaxAttempts[n]
  <2>1. attempt <= MaxAttempts[n] /\ MaxAttempts[n] \in 1..2
    BY <1>1, <1>2, NodeTables DEF OutcomeInv, AttemptInv, InHandInv, InNode
  <2> QED BY <1>1, <1>7, <2>1
<1>9. Shown(n)' = "RUNNING" /\ DerivedAttempt(n)' = DerivedAttempt(n) + 1
  <2>1. /\ Shown(n)' = NodeStatusEvent[e.type]
        /\ DerivedAttempt(n)' = IF e.attempt > DerivedAttempt(n) THEN e.attempt ELSE DerivedAttempt(n)
    BY <1>1, <1>2, StatusAfter DEF AttemptEvent
  <2>2. e.attempt > DerivedAttempt(n)
    BY <1>7
  <2> QED BY <1>7, <2>1, <2>2, StatusNames
<1>10. \A m \in Node : m # n => Shown(m)' = Shown(m) /\ DerivedAttempt(m)' = DerivedAttempt(m)
  BY <1>1, <1>2, OthersShown
<1>11. SomeStarted'
  <2>1. Rows("NODE_STARTED", n)' = Rows("NODE_STARTED", n) \cup {Len(log) + 1}
    BY <1>1, <1>2, RowsAfter
  <2> QED BY <2>1 DEF SomeStarted
<1>12. DerivedStatus \in {"PLANNED", "RUNNING"} /\ DerivedStatus' = "RUNNING"
  <2>1. Verdicts = {} /\ Verdicts' = {}
    BY StatusMoves DEF OutcomeInv
  <2> QED BY <1>3, <1>11, <2>1, StatusOpen
<1>13. Shows(n, "RUNNING")
  BY <1>9, <1>10 DEF Shows
<1> QED BY <1>4, <1>5, <1>6, <1>8, <1>9, <1>12, <1>13, RunStart

\* An end that is shown follows a start, so the DAG is running.
LEMMA EndShown ==
  ASSUME TypeInv, OutcomeInv, RunInv, [Next]_vars,
         NEW e \in NumberedEvent, Adds(e), e.type \in {"NODE_SUCCEEDED", "NODE_FAILED"},
         SomeStarted, NEW n \in Node, e.node = n
  PROVE  /\ DerivedStatus = "RUNNING" /\ UNCHANGED DerivedStatus
         /\ Shows(n, NodeStatusEvent[e.type])
<1>1. log' = Append(log, e)
  BY DEF Adds
<1>2. Verdicts = {} /\ Verdicts' = {} /\ SomeStarted'
  BY StatusMoves DEF OutcomeInv
<1>3. DerivedStatus = "RUNNING" /\ DerivedStatus' = "RUNNING"
  BY <1>2, StatusOpen
<1>4. Shown(n)' = NodeStatusEvent[e.type]
  BY <1>1, StatusAfter DEF AttemptEvent
<1>5. \A m \in Node : m # n => Shown(m)' = Shown(m) /\ DerivedAttempt(m)' = DerivedAttempt(m)
  BY <1>1, OthersShown
<1> QED BY <1>3, <1>4, <1>5 DEF Shows

LEMMA ShowsSettle ==
  ASSUME TypeInv, OutcomeInv, RunInv, NodesShown, NodesShown', [Next]_vars,
         NEW e \in NumberedEvent, Adds(e), e.type \in {"NODE_SUCCEEDED", "NODE_FAILED"}, pc = "settle"
  PROVE  \E n \in Node : Run!Succeed(n) \/ Run!Fail(n)
<1>1. log' = Append(log, e) /\ e.node = Current /\ e.attempt = attempt /\ attempt \in 1..2
  BY DEF Adds, RowBy, TypeInv, FlowTyped
<1>2. PICK n \in Node : n = Current
  BY TextTypes
<1>3. Shown(n) = "RUNNING" /\ attempt \in Attempts("NODE_STARTED", n)
  BY <1>2 DEF RunInv, ShownInv, HandStarted, Attempting
<1>4. PICK j \in StatusRows(n) : log[j].attempt = attempt
  BY <1>3, StatusRowsAre DEF Attempts, Rows, AttemptEvent
<1>5. SomeStarted
  BY <1>4 DEF RunInv, StartFirst
<1>6. DerivedStatus = "RUNNING" /\ UNCHANGED DerivedStatus /\ Shows(n, NodeStatusEvent[e.type])
  BY <1>1, <1>2, <1>5, EndShown
<1>7. DerivedAttempt(n)' = DerivedAttempt(n)
  <2>1. DerivedAttempt(n)' = IF e.attempt > DerivedAttempt(n) THEN e.attempt ELSE DerivedAttempt(n)
    BY <1>1, <1>2, StatusAfter DEF AttemptEvent
  <2>2. DerivedAttempt(n) \in 0..2 /\ attempt <= DerivedAttempt(n)
    BY <1>4, LastAttempt
  <2> QED BY <1>1, <2>1, <2>2
<1>8. NodeStatusEvent[e.type] \in {"SUCCEEDED", "FAILED"}
  BY StatusNames
<1> QED BY <1>3, <1>6, <1>7, <1>8, RunSettle

LEMMA ShowsBlock ==
  ASSUME TypeInv, OutcomeInv, RunInv, NodesShown, NodesShown', [Next]_vars,
         NEW e \in NumberedEvent, Adds(e), e.type = "NODE_FAILED", pc # "settle"
  PROVE  \E n \in Node : Run!Block(n)
<1>1. /\ log' = Append(log, e) /\ e.node = Current /\ e.attempt = 1
      /\ pc = "visit" /\ Blocked(Current) /\ status[Current] # "SUCCEEDED"
  BY DEF Adds, RowBy
<1>2. PICK n \in Node : n = Current
  BY TextTypes
<1>3. PICK d \in Deps[n] : d \in Node /\ LostNow(d)
  BY <1>1, <1>2, BlockedBy DEF RunInv
<1>4. SomeStarted
  BY <1>3, LostIsShown DEF LostNow, RunInv, StartFirst
<1>5. DerivedStatus = "RUNNING" /\ UNCHANGED DerivedStatus /\ Shows(n, "FAILED")
  BY <1>1, <1>2, <1>4, EndShown, StatusNames
<1>6. Shown(n) = "SUCCEEDED" => Kind[n] \in TextKind
  <2>1. Shown(n) = "SUCCEEDED" => Rows("NODE_SUCCEEDED", n) # {}
    BY ShownCases
  <2> QED BY <1>1, <1>2, <2>1, EmptyIsCompletion DEF OutcomeInv, TextKind, Executing
<1>7. DerivedAttempt(n)' = IF DerivedAttempt(n) = 0 THEN 1 ELSE DerivedAttempt(n)
  <2>1. DerivedAttempt(n)' = IF e.attempt > DerivedAttempt(n) THEN e.attempt ELSE DerivedAttempt(n)
    BY <1>1, <1>2, StatusAfter DEF AttemptEvent
  <2>2. DerivedAttempt(n) \in 0..2
    BY LastAttempt
  <2> QED BY <1>1, <2>1, <2>2
<1> QED BY <1>3, <1>5, <1>6, <1>7, RunBlock

LEMMA ShowsComplete ==
  ASSUME TypeInv, OutcomeInv, RunInv, NodesShown, NodesShown', [Next]_vars,
         NEW e \in NumberedEvent, Adds(e), e.type = "DAG_COMPLETED", e.node = 0
  PROVE  Run!Complete
<1>1. log' = Append(log, e) /\ pc = "complete" /\ e.ok = AllSucceeded /\ Executing /\ Looping
  BY DEF Adds, RowBy, Looping
<1>2. SomeStarted
  <2>1. 1 \in Node /\ (1 < pos \/ 1 = pos)
    BY NodeBounds DEF TypeInv, FlowTyped, Node
  <2>2. PICK n \in Node : n = Order[1]
    BY <2>1, NodeTables
  <2>3. status[n] = "SUCCEEDED" \/ LostNow(n)
    BY <1>1, <2>1, <2>2 DEF RunInv, PassedInv
  <2>4. StatusRows(n) # {}
    BY <1>1, <2>3, ShownCases, LostIsShown DEF LostNow, RunInv, ShownInv
  <2> QED BY <2>4 DEF RunInv, StartFirst
<1>3. DerivedStatus = "RUNNING" /\ DerivedStatus' = IF e.ok THEN "SUCCEEDED" ELSE "FAILED"
  <2>1. Verdicts = {} /\ DerivedStatus' = IF e.ok THEN "SUCCEEDED" ELSE "FAILED"
    BY StatusMoves DEF OutcomeInv
  <2> QED BY <1>2, <2>1, StatusOpen
<1>4. \A m \in Node : Shown(m)' = Shown(m) /\ DerivedAttempt(m)' = DerivedAttempt(m)
  BY <1>1, OthersShown DEF AttemptEvent
<1>5. CASE e.ok
  <2>1. \A n \in Node : Shown(n) = "SUCCEEDED"
    BY <1>1, <1>5 DEF AllSucceeded, RunInv, ShownInv
  <2> QED BY <1>3, <1>4, <1>5, <2>1, RunComplete
<1>6. CASE ~e.ok
  <2>1. PICK n \in Node : status[n] # "SUCCEEDED"
    BY <1>1, <1>6 DEF AllSucceeded
  <2>2. Shown(n) # "SUCCEEDED" \/ Kind[n] \in TextKind
    <3>1. Shown(n) = "SUCCEEDED" => Rows("NODE_SUCCEEDED", n) # {}
      BY ShownCases
    <3> QED BY <1>1, <2>1, <3>1, EmptyIsCompletion DEF OutcomeInv, TextKind
  <2> QED BY <1>3, <1>4, <1>6, <2>2, RunComplete
<1> QED BY <1>5, <1>6

LEMMA ShowsOther ==
  ASSUME TypeInv, OutcomeInv, RunInv, NodesShown, NodesShown', [Next]_vars,
         NEW e \in NumberedEvent, Adds(e),
         e.type \notin AttemptEvent \cup {"DAG_PLANNED", "NODE_QUEUED"},
         ~(e.type = "DAG_COMPLETED" /\ e.node = 0)
  PROVE  UNCHANGED Run!vars
<1>1. Verdicts = {} /\ Verdicts' = {} /\ (SomeStarted' <=> SomeStarted) /\ (Planned' <=> Planned)
  BY StatusMoves DEF OutcomeInv, AttemptEvent
<1>2. UNCHANGED DerivedStatus
  BY <1>1, StatusOpen
<1>3. \A m \in Node : Shown(m)' = Shown(m) /\ DerivedAttempt(m)' = DerivedAttempt(m)
  BY OthersShown DEF Adds
<1> QED BY <1>2, <1>3, RunStutter

\* Every step is one of the abstract run, or shows nothing.
LEMMA RunStep ==
  ASSUME TypeInv, OutcomeInv, RunInv, NodesShown, NodesShown', [Next]_vars
  PROVE  [Run!Next]_(Run!vars)
<1>1. CASE UNCHANGED log
  <2>1. UNCHANGED DerivedStatus
    BY <1>1 DEF DerivedStatus, Verdicts, Rows
  <2>2. \A m \in Node : Shown(m)' = Shown(m) /\ DerivedAttempt(m)' = DerivedAttempt(m)
    BY <1>1 DEF Shown, DerivedAttempt, Known, StatusRows, Rows
  <2> QED BY <2>1, <2>2, RunStutter
<1>2. ASSUME NEW e \in NumberedEvent, Adds(e)
      PROVE  [Run!Next]_(Run!vars)
  <2>1. CASE e.type = "DAG_PLANNED"
    BY <1>2, <2>1, ShowsPlan DEF Run!Next
  <2>2. CASE e.type = "NODE_QUEUED"
    BY <1>2, <2>2, ShowsQueue DEF Run!Next
  <2>3. CASE e.type = "NODE_STARTED"
    BY <1>2, <2>3, ShowsStart DEF Run!Next
  <2>4. CASE e.type \in {"NODE_SUCCEEDED", "NODE_FAILED"} /\ pc = "settle"
    BY <1>2, <2>4, ShowsSettle DEF Run!Next
  <2>5. CASE e.type = "NODE_FAILED" /\ pc # "settle"
    BY <1>2, <2>5, ShowsBlock DEF Run!Next
  <2>6. CASE e.type = "DAG_COMPLETED" /\ e.node = 0
    BY <1>2, <2>6, ShowsComplete DEF Run!Next
  <2>7. e.type = "NODE_SUCCEEDED" => pc = "settle"
    BY <1>2 DEF Adds, RowBy
  <2> QED BY <1>2, <2>1, <2>2, <2>3, <2>4, <2>5, <2>6, <2>7, ShowsOther DEF AttemptEvent
<1> QED BY <1>1, <1>2, RowStep

LEMMA RunBegins == Init => Run!Init
<1> SUFFICES ASSUME Init PROVE Run!Init
  OBVIOUS
<1>1. \A t, n : Rows(t, n) = {}
  BY DEF Init, Rows
<1>2. \A n : StatusRows(n) = {}
  BY <1>1 DEF StatusRows
<1>3. DerivedStatus = "CREATED"
  BY <1>1 DEF DerivedStatus, Verdicts
<1>4. \A n : DerivedNode(n) = "UNKNOWN"
  BY <1>1, <1>2 DEF DerivedNode, Known
<1>5. \A n \in Node : DerivedAttempt(n) = 0
  BY <1>2, TypeInit, LastAttempt
<1> QED BY <1>3, <1>4, <1>5 DEF Run!Init

\* What GET /runs/:runId/dag-state shows moves as one run of the DAG does, however often
\* the worker dies and the database fails, for every DAG in which no completion follows
\* another and only completions are retried.
THEOREM ImplementsRun ==
  ASSUME Apart, CompletionsRetried
  PROVE  Spec => ShowsOneRun
<1>1. Init => Run!Init
  BY RunBegins
<1>2. TypeInv /\ OutcomeInv => NodesShown
  BY ShownIsDerived
<1>3. TypeInv /\ OutcomeInv /\ RunInv /\ NodesShown /\ NodesShown' /\ [Next]_vars => [Run!Next]_(Run!vars)
  BY RunStep
<1>4. Spec => [](TypeInv /\ OutcomeInv /\ RunInv)
  BY RunInvariance
<1> QED BY <1>1, <1>2, <1>3, <1>4, PTL DEF Spec, ShowsOneRun, Run!Spec

=============================================================================
