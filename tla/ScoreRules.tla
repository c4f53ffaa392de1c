------------------------------ MODULE ScoreRules ------------------------------
(***************************************************************************)
(* What the worker computes from the log of a run after the DAG has run:   *)
(* the reward (reward-agent.ts), the trust in the agent                    *)
(* (derive-agent-trust.ts) and the planner's error                         *)
(* (meta-planner/evaluation.ts); and the reply a user may force            *)
(* (dag-executor.ts).  Operators only.                                     *)
(*                                                                         *)
(* Rewards and trust are in ten-thousandths (One), times in milliseconds   *)
(* or days.  An event is a record with the fields type, node, attempt,     *)
(* ok, value (a score or a latency, Nothing if there is none), and ts.     *)
(***************************************************************************)
EXTENDS Integers, Sequences, FiniteSets, FiniteSetsExt

One == 10000
Nothing == -1      \* a number the log does not have

Clamp(n, lo, hi) == Max({lo, Min({hi, n})})

Of(events, t) == {i \in DOMAIN events : events[i].type = t}

Syn(events, dagOk) == IF Of(events, "VALIDATION_ERROR") = {} /\ dagOk THEN 1 ELSE 0

\* 0.05 * PERF: the first LLM_COMPLETED with a latency, 8000 ms being the worst.
PerfShare(events) ==
  LET timed == {i \in Of(events, "LLM_COMPLETED") : events[i].value # Nothing}
  IN  IF timed = {} THEN 250
      ELSE Clamp(500 - events[Min(timed)].value \div 16, 0, 500)

MaxAttempts(events) == Max({1} \cup {events[i].attempt : i \in Of(events, "NODE_STARTED")})

\* 0.10 * RWK.
ReworkShare(events) == Min({(1000 * (MaxAttempts(events) - 1)) \div 3, 1000})

HardGate(events, dagOk) == Syn(events, dagOk) = 0     \* SEC is always 1

ArtifactScore(events, dagOk) ==
  IF HardGate(events, dagOk) THEN 0
  ELSE Clamp(3500 + 3500 + 1000 + PerfShare(events) + 250 - ReworkShare(events), 0, One)

DeriveRouting(score, gate) ==
  IF gate THEN "hard_stop"
  ELSE IF score >= 8500 THEN "proceed"
  ELSE IF score >= 7000 THEN "proceed_with_warning"
  ELSE IF score >= 5000 THEN "retry_layer"
  ELSE "escalate"

-----------------------------------------------------------------------------
TrustMin == 1000
TrustMax == 9500
ColdStart == 6000

\* Mutant: the decay runs backwards when the clock does.
DecaySkewed(trust, days) == Clamp(trust - 100 * days, TrustMin, TrustMax)

ApplyDecay(trust, days) ==
  IF days <= 0 THEN trust ELSE Clamp(trust - 100 * days, TrustMin, TrustMax)

\* existing is Nothing for an agent that has no record.
TrustBefore(existing, days) == IF existing = Nothing THEN ColdStart ELSE ApplyDecay(existing, days)

TrustAfter(before, score) == Clamp((85 * before + 15 * score) \div 100, TrustMin, TrustMax)

-----------------------------------------------------------------------------
(* evaluatePlannerDecision.                                                *)

ActualReward(events) ==
  LET rewards == Of(events, "REWARD_COMPUTED")
  IN  IF rewards = {} THEN Nothing ELSE events[Max(rewards)].value

\* From the first NODE_STARTED to the last DAG_COMPLETED.
ActualLatency(events) ==
  LET starts == Of(events, "NODE_STARTED")
      ends   == Of(events, "DAG_COMPLETED")
  IN  IF starts = {} \/ ends = {} THEN Nothing ELSE events[Max(ends)].ts - events[Min(starts)].ts

-----------------------------------------------------------------------------
(* enforceReplyConstraints.  An instruction is what its patterns match:    *)
(* match[1..3] are "reply with", "output exactly" and "output:", each      *)
(* NoMatch or [len, punct, ends] - the length of the captured value,       *)
(* whether a punctuation mark follows it and whether the value ends with   *)
(* that mark - and always is "no", "ok" or "ok." for "always OK".          *)

NoMatch == [len |-> Nothing, punct |-> FALSE, ends |-> FALSE]

Punctuated(v) == v.len + (IF v.punct /\ ~v.ends THEN 1 ELSE 0)

Fits(v, maxLen) == v # NoMatch /\ v.len >= 1 /\ v.len <= maxLen

\* The length of the reply; raw is that of the text of the model.
EnforceReplyConstraints(msg, raw, maxLen) ==
  LET fitting == {i \in DOMAIN msg.match : Fits(msg.match[i], maxLen)}
  IN  IF fitting # {} THEN [forced |-> TRUE, len |-> Punctuated(msg.match[Min(fitting)])]
      ELSE IF msg.always # "no"
      THEN [forced |-> TRUE, len |-> IF msg.always = "ok." THEN 3 ELSE 2]
      ELSE [forced |-> FALSE, len |-> raw]
==============================================================================
