---------------------------- MODULE MCRulesProofs ----------------------------
(***************************************************************************)
(* The properties of MCRules for every value of its constants, from the    *)
(* theorems of RuleProofs: what MCRules draws are inputs of the kind these *)
(* theorems are about.                                                     *)
(***************************************************************************)
EXTENDS MCRules, RuleProofs

-----------------------------------------------------------------------------
(* The inputs.                                                             *)

\* A node of a DAG, and a function of them, are what the theorems take.
LEMMA NodeIs ==
  ASSUME NEW id \in Nat, NEW kind \in NodeKinds, NEW deps \in Seq(Nat), NEW attempts \in Nat
  PROVE  Node(id, kind, deps, attempts) \in DagNode
BY DEF Node, DagNode

LEMMA GraphsAreDags ==
  ASSUME NEW n \in 1 .. MaxNodes, NEW dag \in Graphs(n)
  PROVE  IsDag(dag)
<1>1. n \in Nat /\ n # 0 /\ MaxDeps \in Nat
  BY RulesAssumption
<1>2. ASSUME NEW d \in DepLists(n) PROVE d \in Seq(Nat)
  <2>1. CASE d = <<0>>
    BY <2>1
  <2>2. CASE \E k \in 0 .. MaxDeps : d \in [1 .. k -> 1 .. n]
    <3>1. PICK k \in 0 .. MaxDeps : d \in [1 .. k -> 1 .. n]
      BY <2>2, ZenonT(60)
    <3>2. k \in Nat
      BY <1>1, <3>1
    <3>3. 1 .. n \subseteq Nat
      BY <1>1
    <3>4. d \in [1 .. k -> Nat]
      BY <3>1, <3>3, ZenonT(60)
    <3> QED BY <3>2, <3>4
  <2> QED BY <1>2, <2>1, <2>2 DEF DepLists
<1>3. PICK id \in [1 .. n -> 1 .. n], deps \in [1 .. n -> DepLists(n)] :
        dag = [i \in 1 .. n |-> Node(id[i], "NOOP", deps[i], 1)]
  BY SMTT(60) DEF Graphs
<1>4. ASSUME NEW i \in 1 .. n PROVE Node(id[i], "NOOP", deps[i], 1) \in DagNode
  <2>1. id[i] \in Nat
    BY <1>1
  <2>2. deps[i] \in Seq(Nat)
    <3>1. deps[i] \in DepLists(n)
      BY ZenonT(60)
    <3> QED BY <1>2, <3>1
  <2>3. "NOOP" \in NodeKinds /\ 1 \in Nat
    BY DEF NodeKinds
  <2> QED BY <2>1, <2>2, <2>3, NodeIs, ZenonT(60)
<1>5. dag \in [1 .. n -> DagNode]
  BY <1>3, <1>4
<1>6. dag \in Seq(DagNode) /\ Len(dag) = n
  BY <1>1, <1>5
<1>7. dag # <<>>
  BY <1>1, <1>6
<1> QED BY <1>6, <1>7 DEF IsDag

LEMMA SetToSeqIs ==
  ASSUME NEW S, IsFiniteSet(S)
  PROVE  SetToSeq(S) \in Seq(S)
<1>1. Cardinality(S) \in Nat /\ ExistsBijection(1 .. Cardinality(S), S)
  BY FS_CardinalityType
<1>2. PICK f : f \in Bijection(1 .. Cardinality(S), S)
  BY <1>1 DEF ExistsBijection
<1>3. f \in [1 .. Cardinality(S) -> S] /\ IsInjective(f)
  BY <1>2 DEF Bijection, Injection, IsInjective
<1>4. SetToSeq(S) \in [1 .. Cardinality(S) -> S]
  BY <1>3, Zenon DEF SetToSeq
<1> QED BY <1>1, <1>4

LEMMA WideAreRunnable ==
  ASSUME NEW dag \in WideGraphs
  PROVE  IsRunnable(dag)
<1>1. PICK e \in [1 .. 5 -> SUBSET (1 .. 4)] :
        /\ \A i \in 1 .. 5 : e[i] \subseteq 1 .. i - 1
        /\ dag = [i \in 1 .. 5 |-> Node(i, "NOOP", SetToSeq(e[i]), 1)]
  BY DEF WideGraphs
<1>2. ASSUME NEW i \in 1 .. 5
      PROVE  SetToSeq(e[i]) \in Seq(Nat) /\ Range(SetToSeq(e[i])) \subseteq 1 .. i - 1
  <2>1. IsFiniteSet(1 .. 4)
    BY UpToN
  <2>2. IsFiniteSet(e[i])
    BY <2>1, FS_Subset
  <2>3. PICK s \in Seq(e[i]) : s = SetToSeq(e[i])
    BY <2>2, SetToSeqIs
  <2>4. e[i] \subseteq 1 .. i - 1
    BY <1>1
  <2>5. e[i] \subseteq Nat
    OBVIOUS
  <2>6. \A j \in DOMAIN s : s[j] \in e[i]
    OBVIOUS
  <2>7. s \in Seq(Nat)
    BY <2>5
  <2>8. Range(s) \subseteq 1 .. i - 1
    BY <2>4, <2>6 DEF Range
  <2> QED BY <2>3, <2>7, <2>8
<1>3. ASSUME NEW i \in 1 .. 5 PROVE Node(i, "NOOP", SetToSeq(e[i]), 1) \in DagNode
  <2>1. "NOOP" \in NodeKinds /\ 1 \in Nat /\ i \in Nat
    BY DEF NodeKinds
  <2> QED BY <1>2, <2>1, NodeIs
<1>4. /\ dag \in [1 .. 5 -> DagNode] /\ DOMAIN dag = 1 .. 5
      /\ \A i \in 1 .. 5 : dag[i].id = i /\ dag[i].deps = SetToSeq(e[i])
  BY <1>1, <1>3 DEF Node
<1>5. dag \in Seq(DagNode) /\ Len(dag) = 5
  BY <1>4
<1>6. IsDag(dag)
  <2>1. dag # <<>>
    <3>1. Len(dag) # Len(<<>>)
      BY <1>5
    <3> QED BY <3>1, ZenonT(60)
  <2> QED BY <1>5, <2>1 DEF IsDag
<1>7. Ids(dag) = 1 .. 5
  BY <1>4 DEF Ids
<1>8. ~DuplicateId(dag)
  <2>1. Cardinality(1 .. 5) = 5
    BY UpToN
  <2> QED BY <1>5, <1>7, <2>1 DEF DuplicateId
<1>9. ~MissingDependency(dag)
  <2>1. \A i \in 1 .. 5 : Range(dag[i].deps) \subseteq 1 .. i - 1
    BY <1>2, <1>4
  <2>2. \A i \in 1 .. 5 : 1 .. i - 1 \subseteq 1 .. 5
    OBVIOUS
  <2>3. \A i \in 1 .. 5 : Range(dag[i].deps) \subseteq 1 .. 5
    BY <2>1, <2>2, Zenon
  <2> QED BY <1>4, <1>7, <2>3, Zenon DEF MissingDependency
<1>10. Orders(dag) # {}
  <2>1. PICK o : o = [i \in 1 .. 5 |-> i]
    OBVIOUS
  <2>2. o \in [DOMAIN dag -> Ids(dag)] /\ IsInjective(o) /\ DOMAIN o = 1 .. 5
    BY <1>4, <1>7, <2>1 DEF IsInjective
  <2>3. ASSUME NEW i \in 1 .. 5 PROVE DepsOf(dag, i) \subseteq 1 .. i - 1
    <3>1. i \in Ids(dag)
      BY <1>7
    <3>2. Place(dag, i) \in 1 .. 5 /\ dag[Place(dag, i)].id = i
      BY <1>4, <1>6, <3>1, PlaceOf
    <3>3. Place(dag, i) = i
      BY <1>4, <3>2
    <3>4. DepsOf(dag, i) = Range(Listed(dag, i))
      BY <1>6, <1>8, <3>1, OnePlace, ZenonT(60)
    <3>5. Listed(dag, i) = dag[i].deps
      BY <3>3, ZenonT(60) DEF Listed
    <3>6. DepsOf(dag, i) = Range(SetToSeq(e[i]))
      BY <1>4, <3>4, <3>5
    <3> QED BY <1>2, <3>6, ZenonT(60)
  <2>4. ASSUME NEW i \in 1 .. 5 PROVE DepsOf(dag, o[i]) \subseteq {o[j] : j \in 1 .. i - 1}
    <3>1. \A j \in 1 .. i - 1 : j \in 1 .. 5 /\ o[j] = j
      BY <2>1
    <3>2. {o[j] : j \in 1 .. i - 1} = 1 .. i - 1
      BY <3>1, ZenonT(60)
    <3>3. o[i] = i
      BY <2>1
    <3> QED BY <2>3, <3>2, <3>3
  <2>5. Before(dag, o)
    BY <2>2, <2>4, Zenon DEF Before
  <2>6. o \in Orders(dag)
    BY <2>2, <2>5, Zenon DEF Orders
  <2> QED BY <2>6
<1> QED BY <1>6, <1>8, <1>9, <1>10 DEF IsRunnable, WellFormed

LEMMA PatternDagsAre ==
  Terse \in Seq(DagNode) /\ CodeChangeDag \in Seq(DagNode) /\ NoReply \in Seq(DagNode)
<1>1. \A n \in Nat : <<n>> \in Seq(Nat)
  OBVIOUS
<1>2. <<>> \in Seq(Nat)
  OBVIOUS
<1>3. Terse \in Seq(DagNode)
  <2>1. ChatDag[3] \in DagNode
    BY ChatDagIs
  <2>2. [ChatDag[3] EXCEPT !.attempts = 1] \in DagNode
    BY <2>1 DEF DagNode
  <2>3. PICK x \in DagNode : x = [ChatDag[3] EXCEPT !.attempts = 1]
    BY <2>2
  <2>4. Terse = [ChatDag EXCEPT ![3] = x]
    BY <2>3 DEF Terse
  <2>5. PICK n \in Nat, c \in Seq(DagNode) : n = Len(c) /\ n = 5 /\ c = ChatDag
    BY ChatDagIs
  <2>6. PICK t : t = [c EXCEPT ![3] = x]
    OBVIOUS
  <2>7. c \in [1 .. n -> DagNode]
    <3>1. c \in [1 .. Len(c) -> DagNode]
      OBVIOUS
    <3> QED BY <2>5, <3>1
  <2>8. t \in [1 .. n -> DagNode]
    BY <2>6, <2>7
  <2>9. t \in Seq(DagNode)
    BY <2>8
  <2> QED BY <2>4, <2>5, <2>6, <2>9
<1>4. CodeChangeDag \in Seq(DagNode)
  <2>1. Node(1, "PLAN_DAG", <<>>, 1) \in DagNode
    BY <1>2 DEF Node, DagNode, NodeKinds
  <2>2. Node(2, "PERSIST_USER_MESSAGE", <<1>>, 1) \in DagNode
    BY <1>1 DEF Node, DagNode, NodeKinds
  <2>3. Node(6, "CODEBASE_ANALYZE", <<2>>, 1) \in DagNode
    BY <1>1 DEF Node, DagNode, NodeKinds
  <2>4. Node(7, "PATCH_PLAN", <<6>>, 1) \in DagNode
    BY <1>1 DEF Node, DagNode, NodeKinds
  <2>5. Node(8, "PATCH_APPLY_SIMULATED", <<7>>, 1) \in DagNode
    BY <1>1 DEF Node, DagNode, NodeKinds
  <2>6. Node(9, "BUILD_VERIFY", <<8>>, 1) \in DagNode
    BY <1>1 DEF Node, DagNode, NodeKinds
  <2>7. Node(10, "TEST_VERIFY", <<9>>, 1) \in DagNode
    BY <1>1 DEF Node, DagNode, NodeKinds
  <2>8. Node(11, "PATCH_REVIEW", <<10>>, 1) \in DagNode
    BY <1>1 DEF Node, DagNode, NodeKinds
  <2>9. Node(3, "LLM_CHAT", <<11>>, 2) \in DagNode
    BY <1>1 DEF Node, DagNode, NodeKinds
  <2>10. Node(4, "ENFORCE_REPLY_CONSTRAINTS", <<3>>, 1) \in DagNode
    BY <1>1 DEF Node, DagNode, NodeKinds
  <2>11. Node(5, "PERSIST_ASSISTANT_MESSAGE", <<4>>, 1) \in DagNode
    BY <1>1 DEF Node, DagNode, NodeKinds
  <2> QED BY <2>1, <2>2, <2>3, <2>4, <2>5, <2>6, <2>7, <2>8, <2>9, <2>10, <2>11 DEF CodeChangeDag
<1>5. NoReply \in Seq(DagNode)
  BY ChatDagIs DEF NoReply
<1> QED BY <1>3, <1>4, <1>5

LEMMA PatternIs ==
  ASSUME NEW id \in Nat \ {0}, NEW dag \in {Terse, CodeChangeDag, NoReply}, NEW reward \in Rewards,
         NEW s \in {None, 900}
  PROVE  Pattern(id, dag, reward, s, s) \in Evidence /\ Pattern(id, dag, reward, s, s).id = id
<1>1. dag \in Seq(DagNode)
  <2>1. PICK D : D = Seq(DagNode)
    OBVIOUS
  <2>2. Terse \in D /\ CodeChangeDag \in D /\ NoReply \in D
    BY <2>1, PatternDagsAre, ZenonT(60)
  <2>3. dag = Terse \/ dag = CodeChangeDag \/ dag = NoReply
    OBVIOUS
  <2>4. dag \in D
    BY <2>2, <2>3, SMTT(60)
  <2> QED BY <2>1, <2>4
<1>2. reward \in Nat
  BY RulesAssumption
<1> QED BY <1>1, <1>2 DEF Pattern, Evidence

LEMMA PatternSetsAre ==
  ASSUME NEW patterns \in PatternSets
  PROVE  IsEvidence(patterns)
<1>1. PICK p, q : /\ patterns = <<p, q>>
                  /\ \E d \in {Terse, CodeChangeDag, NoReply}, r \in Rewards, s \in {None, 900} :
                       p = Pattern(1, d, r, s, s)
                  /\ \E d \in {Terse, CodeChangeDag, NoReply}, r \in Rewards, s \in {None, 900} :
                       q = Pattern(2, d, r, s, s)
  BY DEF PatternSets
<1>2. p \in Evidence /\ p.id = 1
  BY <1>1, PatternIs
<1>3. q \in Evidence /\ q.id = 2
  BY <1>1, PatternIs
<1>4. patterns \in Seq(Evidence) /\ DOMAIN patterns = 1 .. 2 /\ patterns[1] = p /\ patterns[2] = q
  BY <1>1, <1>2, <1>3
<1>5. \A i, j \in 1 .. 2 : patterns[i].id = patterns[j].id => i = j
  BY <1>2, <1>3, <1>4
<1> QED BY <1>4, <1>5 DEF IsEvidence

LEMMA ConfigIs ==
  ASSUME NEW config \in Configs
  PROVE  config \in PlannerConfig
BY DEF Configs, PlannerConfig, FourNats, DefaultWeights

LEMMA RetriesAre ==
  ASSUME NEW retry \in Retries
  PROVE  retry \in RetryInput
BY DEF Retries, RetryInput, RetryField, Absent, NotANumber

LEMMA LogsAre ==
  ASSUME NEW events \in Logs
  PROVE  IsLog(events)
<1>1. PICK a \in 1 .. 5, l \in {Nothing, 0, 4000, 8000, 20000},
           e \in {Event("NODE_STARTED", 1, Nothing), Event("VALIDATION_ERROR", 1, Nothing),
                  Event("LLM_COMPLETED", 1, 100)} :
        events = <<Event("NODE_STARTED", a, Nothing), Event("LLM_COMPLETED", 1, l), e>>
  BY DEF Logs
<1>2. DOMAIN events = 1 .. 3
  BY <1>1
<1>3. ASSUME NEW x \in {Event("NODE_STARTED", a, Nothing), Event("LLM_COMPLETED", 1, l), e}
      PROVE  /\ x.type = "LLM_COMPLETED" => x.value \in {Nothing} \cup Nat
             /\ x.type = "NODE_STARTED" => x.attempt \in Nat
  BY DEF Event
<1>4. \A i \in 1 .. 3 : events[i] \in {Event("NODE_STARTED", a, Nothing), Event("LLM_COMPLETED", 1, l), e}
  BY <1>1
<1>5. \A i \in DOMAIN events :
        /\ events[i].type = "LLM_COMPLETED" => events[i].value \in {Nothing} \cup Nat
        /\ events[i].type = "NODE_STARTED" => events[i].attempt \in Nat
  BY <1>2, <1>3, <1>4
<1>6. \E n \in Nat : DOMAIN events = 1 .. n
  BY <1>2
<1> QED BY <1>5, <1>6 DEF IsLog

LEMMA InstructionsAre ==
  ASSUME NEW msg \in [match : [1 .. 3 -> Value], always : {"no", "ok", "ok."}]
  PROVE  IsInstruction(msg)
<1>1. Value \subseteq Captured
  <2>1. \A v \in [len : 0 .. MaxForced + 1, punct : BOOLEAN, ends : BOOLEAN] :
          v \in [len : Nat, punct : BOOLEAN, ends : BOOLEAN]
    BY RulesAssumption
  <2> QED BY <2>1 DEF Value, Captured
<1>2. msg.match \in [1 .. 3 -> Captured] /\ 3 \in Nat
  BY <1>1
<1>3. msg.always \in {"no", "ok", "ok."}
  OBVIOUS
<1> QED BY <1>2, <1>3, Zenon DEF IsInstruction

-----------------------------------------------------------------------------
(* The theorems.                                                           *)

\* What the rules are drawn from.
OrderInputs == UNION {Graphs(n) : n \in 1 .. MaxNodes}
PlanInputs == PatternSets \X Configs \X Bounds
PolicyInputs == Contexts \X BOOLEAN
RewardInputs == Logs \X BOOLEAN
TrustInputs == {Nothing, 1000, 5000, 6000, 9500} \X (-2 .. 100) \X {0, 7900, 8750, One}
ReplyInputs == [match : [1 .. 3 -> Value], always : {"no", "ok", "ok."}]

\* What can have been drawn.
Drawable(i) ==
  \/ i = Undrawn
  \/ \E x \in OrderInputs : i = [about |-> "order", of |-> x]
  \/ \E x \in WideGraphs : i = [about |-> "width", of |-> x]
  \/ \E x \in PlanInputs : i = [about |-> "plan", of |-> x]
  \/ \E x \in PolicyInputs : i = [about |-> "policy", of |-> x]
  \/ \E x \in Retries : i = [about |-> "retry", of |-> x]
  \/ \E x \in Identities : i = [about |-> "identity", of |-> x]
  \/ \E x \in RewardInputs : i = [about |-> "reward", of |-> x]
  \/ \E x \in TrustInputs : i = [about |-> "trust", of |-> x]
  \/ \E x \in ReplyInputs : i = [about |-> "reply", of |-> x]
RulesInv == Drawable(input)

LEMMA RulesInvHolds == Spec => []RulesInv
<1>1. Init => RulesInv
  BY Zenon DEF Init, RulesInv, Drawable
<1>2. RulesInv /\ [Next]_input => RulesInv'
  <2> SUFFICES ASSUME RulesInv, [Next]_input PROVE Drawable(input')
    BY DEF RulesInv
  <2>1. CASE DrawOrder
    <3>1. \E x \in OrderInputs : input' = [about |-> "order", of |-> x]
      BY <2>1, Zenon DEF DrawOrder, Draw, OrderInputs
    <3> QED BY <3>1, Zenon DEF Drawable
  <2>2. CASE DrawWidth
    <3>1. \E x \in WideGraphs : input' = [about |-> "width", of |-> x]
      BY <2>2, Zenon DEF DrawWidth, Draw
    <3> QED BY <3>1, Zenon DEF Drawable
  <2>3. CASE DrawPlan
    <3>1. \E x \in PlanInputs : input' = [about |-> "plan", of |-> x]
      BY <2>3, Zenon DEF DrawPlan, Draw, PlanInputs
    <3> QED BY <3>1, Zenon DEF Drawable
  <2>4. CASE DrawPolicy
    <3>1. \E x \in PolicyInputs : input' = [about |-> "policy", of |-> x]
      BY <2>4, Zenon DEF DrawPolicy, Draw, PolicyInputs
    <3> QED BY <3>1, Zenon DEF Drawable
  <2>5. CASE DrawRetry
    <3>1. \E x \in Retries : input' = [about |-> "retry", of |-> x]
      BY <2>5, Zenon DEF DrawRetry, Draw
    <3> QED BY <3>1, Zenon DEF Drawable
  <2>6. CASE DrawIdentity
    <3>1. \E x \in Identities : input' = [about |-> "identity", of |-> x]
      BY <2>6, Zenon DEF DrawIdentity, Draw
    <3> QED BY <3>1, Zenon DEF Drawable
  <2>7. CASE DrawReward
    <3>1. \E x \in RewardInputs : input' = [about |-> "reward", of |-> x]
      BY <2>7, Zenon DEF DrawReward, Draw, RewardInputs
    <3> QED BY <3>1, Zenon DEF Drawable
  <2>8. CASE DrawTrust
    <3>1. \E x \in TrustInputs : input' = [about |-> "trust", of |-> x]
      BY <2>8 DEF DrawTrust, Draw, TrustInputs
    <3> QED BY <3>1, Zenon DEF Drawable
  <2>9. CASE DrawReply
    <3>1. \E x \in ReplyInputs : input' = [about |-> "reply", of |-> x]
      BY <2>9, Zenon DEF DrawReply, Draw, ReplyInputs
    <3> QED BY <3>1, Zenon DEF Drawable
  <2>10. CASE UNCHANGED input
    BY <2>10 DEF RulesInv
  <2> QED BY <2>1, <2>2, <2>3, <2>4, <2>5, <2>6, <2>7, <2>8, <2>9, <2>10, Zenon DEF Next
<1> QED BY <1>1, <1>2, PTL DEF Spec

\* What was drawn for a rule is an input of that rule.
LEMMA DrawnFor ==
  ASSUME RulesInv
  PROVE  /\ input.about = "order" => input.of \in OrderInputs
         /\ input.about = "width" => input.of \in WideGraphs
         /\ input.about = "plan" => input.of \in PlanInputs
         /\ input.about = "policy" => input.of \in PolicyInputs
         /\ input.about = "retry" => input.of \in Retries
         /\ input.about = "identity" => input.of \in Identities
         /\ input.about = "reward" => input.of \in RewardInputs
         /\ input.about = "trust" => input.of \in TrustInputs
         /\ input.about = "reply" => input.of \in ReplyInputs
<1>1. Drawable(input)
  BY DEF RulesInv
<1> QED BY <1>1 DEF Drawable, Undrawn

\* The executor's order exists exactly when it can, and is the first of its kind.
THEOREM OrderRight == Spec => []OrderIsRight
<1>1. RulesInv => OrderIsRight
  <2> SUFFICES ASSUME RulesInv, input.about = "order"
               PROVE  OrderAgrees(input.of) /\ OrderIsFirst(input.of)
    BY DEF OrderIsRight
  <2>1. IsDag(input.of)
    <3>1. input.of \in OrderInputs
      BY DrawnFor, Zenon
    <3>2. PICK n \in 1 .. MaxNodes : input.of \in Graphs(n)
      BY <3>1 DEF OrderInputs
    <3> QED BY <3>2, GraphsAreDags
  <2> QED BY <2>1, OrderAgreesAlways, OrderIsFirstAlways
<1> QED BY <1>1, RulesInvHolds, PTL

\* What is chosen to run is a sound choice.
THEOREM ChoiceSound == Spec => []ChoiceIsSound
<1>1. RulesInv => ChoiceIsSound
  <2> SUFFICES ASSUME RulesInv PROVE ChoiceIsSound
    OBVIOUS
  <2>1. input.about = "width" => WidthBounds(input.of)
    BY DrawnFor, WideAreRunnable, WidthBoundsAlways
  <2>2. ASSUME input.about = "plan" PROVE WinnerIsSound(input.of[1], input.of[2], input.of[3])
    <3>1. input.of[1] \in PatternSets /\ input.of[2] \in Configs
      BY <2>2, DrawnFor DEF PlanInputs
    <3> QED BY <3>1, PatternSetsAre, ConfigIs, WinnerIsSoundAlways
  <2>3. ASSUME input.about = "policy" PROVE PolicyTable(input.of[1], input.of[2])
    <3>1. input.of[1] \in Contexts /\ input.of[2] \in BOOLEAN
      BY <2>3, DrawnFor DEF PolicyInputs
    <3>2. input.of[1].regulated \in BOOLEAN
      BY <3>1 DEF Contexts
    <3> QED BY <3>1, <3>2, PolicyIsTable
  <2> QED BY <2>1, <2>2, <2>3, Zenon DEF ChoiceIsSound
<1> QED BY <1>1, RulesInvHolds, PTL

\* What MCRules draws for the trust is in the range of the theorem on it.
LEMMA TrustInputsAre ==
  \A x \in TrustInputs :
    x[1] \in {Nothing} \cup (TrustMin .. TrustMax) /\ x[2] \in Int /\ x[3] \in 0 .. One
<1>1. ASSUME NEW old \in {1000, 5000, 6000, 9500} PROVE old \in TrustMin .. TrustMax
  BY DEF TrustMin, TrustMax
<1>2. \A old \in {Nothing, 1000, 5000, 6000, 9500} : old = Nothing \/ old \in {1000, 5000, 6000, 9500}
  OBVIOUS
<1>3. \A old \in {Nothing, 1000, 5000, 6000, 9500} : old \in {Nothing} \cup (TrustMin .. TrustMax)
  BY <1>1, <1>2
<1>4. \A days \in -2 .. 100 : days \in Int
  OBVIOUS
<1>5. \A score \in {0, 7900, 8750, One} : score \in 0 .. One
  BY DEF One
<1> DEFINE P == {Nothing, 1000, 5000, 6000, 9500}
           Q == -2 .. 100
           R == {0, 7900, 8750, One}
<1>6. TrustInputs = P \X Q \X R
  BY DEF TrustInputs
<1>7. (\A old \in P : old \in {Nothing} \cup (TrustMin .. TrustMax))
      /\ (\A days \in Q : days \in Int) /\ (\A score \in R : score \in 0 .. One)
  BY <1>3, <1>4, <1>5
<1> HIDE DEF P, Q, R
<1>8. \A p, q, r : \A x \in p \X q \X r : x[1] \in p /\ x[2] \in q /\ x[3] \in r
  OBVIOUS
<1> QED BY <1>6, <1>7, <1>8, ZenonT(60)

\* What a run earns its agent follows its verdict, and trust moves slowly.
THEOREM RewardFair == Spec => []RewardIsFair
<1>1. RulesInv => RewardIsFair
  <2> SUFFICES ASSUME RulesInv PROVE RewardIsFair
    OBVIOUS
  <2>1. ASSUME input.about = "reward" PROVE RoutingOfVerdict(input.of[1], input.of[2])
    <3>1. input.of[1] \in Logs /\ input.of[2] \in BOOLEAN
      BY <2>1, DrawnFor DEF RewardInputs
    <3> QED BY <3>1, LogsAre, RouteFollows
  <2>2. ASSUME input.about = "trust" PROVE TrustIsDamped(input.of[1], input.of[2], input.of[3])
    <3>1. input.of \in TrustInputs
      BY <2>2, DrawnFor, ZenonT(60)
    <3>2. /\ input.of[1] \in {Nothing} \cup (TrustMin .. TrustMax) /\ input.of[2] \in Int
          /\ input.of[3] \in 0 .. One
      BY <3>1, TrustInputsAre, ZenonT(60)
    <3> QED BY <3>2, TrustDamped, ZenonT(60)
  <2> QED BY <2>1, <2>2, Zenon DEF RewardIsFair
<1> QED BY <1>1, RulesInvHolds, PTL

\* What comes from outside is brought into its limits.
THEOREM InputFitted == Spec => []InputIsFitted
<1>1. RulesInv => InputIsFitted
  <2> SUFFICES ASSUME RulesInv PROVE InputIsFitted
    OBVIOUS
  <2>1. ASSUME input.about = "retry" PROVE RetryFits(input.of, 2)
    <3>1. input.of \in RetryInput /\ 2 \in Nat
      BY <2>1, DrawnFor, RetriesAre
    <3> QED BY <3>1, RetryIsNormal
  <2>2. ASSUME input.about = "identity" PROVE IdentityFits(input.of)
    <3>1. PICK F : F = {Absent, 1, 2, 3, 4}
      OBVIOUS
    <3>2. input.of \in [dag_id : F, dagid : F, run_id : F, runid : F] /\ Absent \in F
      BY <2>2, <3>1, DrawnFor DEF Identities
    <3> QED BY <3>2, IdentityIsNormal
  <2>3. ASSUME input.about = "reply" PROVE ForcedReplyFits(input.of, MaxForced + 2, MaxForced)
    <3>1. MaxForced \in Nat /\ MaxForced + 2 \in Nat
      BY RulesAssumption
    <3>2. IsInstruction(input.of)
      BY <2>3, DrawnFor, InstructionsAre DEF ReplyInputs
    <3> QED BY <3>1, <3>2, ReplyFits
  <2> QED BY <2>1, <2>2, <2>3, Zenon DEF InputIsFitted
<1> QED BY <1>1, RulesInvHolds, PTL

=============================================================================
