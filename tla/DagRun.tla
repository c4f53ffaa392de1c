-------------------------------- MODULE DagRun --------------------------------
(***************************************************************************)
(* The abstract run of a DAG: what GET /runs/:runId/dag-state shows over   *)
(* time, in the states of zDagRunState.  It says how they may follow one   *)
(* another, and nothing of logs, crashes or memory.                        *)
(*                                                                         *)
(* A success of a text node may turn out to be empty; the node may then be *)
(* tried again, and blocks its dependents when it may not.                 *)
(***************************************************************************)
EXTENDS Naturals

CONSTANTS Node,         \* the nodes of the DAG
          TextNode,     \* those whose success counts only with a text
          Deps,         \* the dependencies of each node
          MaxAttempts   \* the attempts that each node may have

VARIABLES status,       \* the status of the DAG
          nodes,        \* the status of each node, UNKNOWN before it is queued
          lastAttempt   \* last_attempt of each node

vars == <<status, nodes, lastAttempt>>

Init ==
  /\ status = "CREATED"
  /\ nodes = [n \in Node |-> "UNKNOWN"]
  /\ lastAttempt = [n \in Node |-> 0]

Plan ==
  /\ status = "CREATED"
  /\ status' = "PLANNED"
  /\ UNCHANGED <<nodes, lastAttempt>>

Queue(n) ==
  /\ status = "PLANNED" /\ nodes[n] = "UNKNOWN"
  /\ nodes' = [nodes EXCEPT ![n] = "PENDING"]
  /\ UNCHANGED <<status, lastAttempt>>

Moves(n, s) == nodes' = [nodes EXCEPT ![n] = s]

Start(n) ==
  /\ status \in {"PLANNED", "RUNNING"}
  /\ \A m \in Node : nodes[m] # "UNKNOWN"
  /\ \A d \in Deps[n] : nodes[d] = "SUCCEEDED"
  /\ nodes[n] = "SUCCEEDED" => n \in TextNode
  /\ lastAttempt[n] < MaxAttempts[n]
  /\ lastAttempt' = [lastAttempt EXCEPT ![n] = @ + 1]
  /\ Moves(n, "RUNNING")
  /\ status' = "RUNNING"

Succeed(n) ==
  /\ status = "RUNNING" /\ nodes[n] = "RUNNING"
  /\ Moves(n, "SUCCEEDED")
  /\ UNCHANGED <<status, lastAttempt>>

Fail(n) ==
  /\ status = "RUNNING" /\ nodes[n] = "RUNNING"
  /\ Moves(n, "FAILED")
  /\ UNCHANGED <<status, lastAttempt>>

\* A dependency that will not succeed any more.
Lost(d) == nodes[d] = "FAILED" \/ (d \in TextNode /\ lastAttempt[d] = MaxAttempts[d])

\* A node that is blocked is shown as one that failed its first attempt.
Block(n) ==
  /\ status = "RUNNING"
  /\ \E d \in Deps[n] : Lost(d)
  /\ nodes[n] = "SUCCEEDED" => n \in TextNode
  /\ Moves(n, "FAILED")
  /\ lastAttempt' = [lastAttempt EXCEPT ![n] = IF @ = 0 THEN 1 ELSE @]
  /\ UNCHANGED status

Complete ==
  /\ status = "RUNNING"
  /\ \/ status' = "SUCCEEDED" /\ \A n \in Node : nodes[n] = "SUCCEEDED"
     \/ status' = "FAILED" /\ \E n \in Node : nodes[n] # "SUCCEEDED" \/ n \in TextNode
  /\ UNCHANGED <<nodes, lastAttempt>>

Next ==
  \/ Plan \/ Complete
  \/ \E n \in Node : Queue(n) \/ Start(n) \/ Succeed(n) \/ Fail(n) \/ Block(n)

Spec == Init /\ [][Next]_vars

=============================================================================
