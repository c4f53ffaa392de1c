--------------------------- MODULE MCDagExecutor ---------------------------
(***************************************************************************)
(* A DAG for DagExecutor: the default one of planDagForRun, with a second  *)
(* branch of a simulated code-change node and a NOOP.  Sorted and Order    *)
(* are written down for the ids of the source.                             *)
(***************************************************************************)
EXTENDS DerivedDagRun

CONSTANTS hello, forced

TheText == {hello, forced}

\* The instruction of the user forces a reply.
ForcedReply == [t \in TheText |-> forced]

\* plan_dag, persist_user_message, codebase_analyze, llm_chat,
\* enforce_reply_constraints, persist_assistant_message, wrap_up; the model answers at most twice.
PlanKind == <<"PLAN_DAG", "PERSIST_USER_MESSAGE", "CODEBASE_ANALYZE", "LLM_CHAT",
              "ENFORCE_REPLY_CONSTRAINTS", "PERSIST_ASSISTANT_MESSAGE", "NOOP">>
PlanDeps == <<{}, {1}, {2}, {2}, {4}, {5}, {3}>>
PlanMaxAttempts == <<1, 1, 1, 2, 1, 1, 1>>
PlanSorted == <<3, 5, 4, 6, 2, 1, 7>>
PlanOrder == <<1, 2, 3, 4, 5, 6, 7>>

\* The planner gives no node an input with a text.
NoInput == [n \in Node |-> NoText]

ASSUME PlanShape == Apart /\ CompletionsRetried /\ AnswerDepends

=============================================================================
