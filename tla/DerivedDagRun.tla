----------------------------- MODULE DerivedDagRun -----------------------------
(***************************************************************************)
(* deriveDagRunState: the state of the DAG as it is derived from the log,  *)
(* which maps DagExecutor to the abstract DagRun.  A loop that overwrites  *)
(* a status with every event leaves that of the last one.                  *)
(***************************************************************************)
EXTENDS DagExecutor

NodeStatusEvent ==
  [NODE_STARTED |-> "RUNNING", NODE_SUCCEEDED |-> "SUCCEEDED", NODE_FAILED |-> "FAILED"]

StatusRows(n) == UNION {Rows(t, n) : t \in DOMAIN NodeStatusEvent}

Known(n) == Rows("NODE_QUEUED", n) \cup StatusRows(n) # {}

DerivedStatus ==
  IF Verdicts # {} THEN IF log[MaxOf(Verdicts)].ok THEN "SUCCEEDED" ELSE "FAILED"
  ELSE IF \E n \in Node : Rows("NODE_STARTED", n) # {} THEN "RUNNING"
  ELSE IF Rows("DAG_PLANNED", 0) # {} THEN "PLANNED"
  ELSE "CREATED"

DerivedNode(n) ==
  IF StatusRows(n) # {} THEN NodeStatusEvent[log[MaxOf(StatusRows(n))].type]
  ELSE IF ~Known(n) THEN "UNKNOWN"
  ELSE IF DerivedStatus = "SUCCEEDED" THEN "SKIPPED" ELSE "PENDING"

DerivedAttempt(n) == MaxOf({0} \cup {log[i].attempt : i \in StatusRows(n)})

Run == INSTANCE DagRun WITH
         TextNode    <- {n \in Node : Kind[n] \in TextKind},
         status      <- DerivedStatus,
         nodes       <- [n \in Node |-> DerivedNode(n)],
         lastAttempt <- [n \in Node |-> DerivedAttempt(n)]

\* Whatever dies and whatever fails, what GET /runs/:runId/dag-state derives
\* from the log moves as one run of the DAG does: planned, each node queued,
\* started on successes and at most as often as allowed, and a verdict that
\* nothing follows.  This needs a DAG that is Apart with CompletionsRetried.
ShowsOneRun == Run!Spec

=============================================================================
