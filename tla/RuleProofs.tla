------------------------------ MODULE RuleProofs ------------------------------
(***************************************************************************)
(* The promises of the rules for every input: every DAG, every set of      *)
(* patterns, every log, every trust and every message, without a bound.    *)
(*                                                                         *)
(* A function that the code computes in a loop is a recursive function     *)
(* here; that it exists, and what it is after so many rounds, is proved by *)
(* looking at the least round for which it were not so (NoFirstFailure).   *)
(***************************************************************************)
EXTENDS RulePromises, FiniteSetTheorems, WellFoundedInduction, TLAPS

-----------------------------------------------------------------------------
(* Least and greatest numbers.                                             *)

\* A set of naturals that is not empty has a least element, and Min is it.
LEMMA MinIn ==
  ASSUME NEW S \in SUBSET Nat, S # {}
  PROVE  Min(S) \in S /\ \A y \in S : Min(S) <= y
<1>1. PICK x \in S : \A y \in S : ~(<<y, x>> \in OpToRel(<, Nat))
  <2>1. IsWellFoundedOn(OpToRel(<, Nat), Nat)
    BY NatLessThanWellFounded, Zenon
  <2> QED BY <2>1, WFMin, Zenon
<1>2. x \in Nat /\ \A y \in S : y \in Nat
  OBVIOUS
<1>3. \A y \in S : ~(y < x)
  BY <1>1, <1>2, Zenon DEF OpToRel
<1>4. \A y \in S : x <= y
  BY <1>2, <1>3
<1> QED BY <1>4, Zenon DEF Min

\* Max of a set of naturals that has a bound is its greatest element.
LEMMA MaxIn ==
  ASSUME NEW b \in Nat, NEW S \in SUBSET (0 .. b), S # {}
  PROVE  Max(S) \in S /\ \A y \in S : Max(S) >= y
<1> DEFINE T == {n \in 0 .. b : b - n \in S}
<1>1. \A y \in S : b - y \in T
  <2> TAKE y \in S
  <2>1. b - y \in 0 .. b /\ b - (b - y) = y
    OBVIOUS
  <2> QED BY <2>1
<1>2. T # {} /\ T \in SUBSET Nat
  <2>1. T \in SUBSET Nat
    OBVIOUS
  <2>2. PICK y : y \in S
    OBVIOUS
  <2> HIDE DEF T
  <2> QED BY <1>1, <2>1, <2>2
<1>3. Min(T) \in 0 .. b /\ b - Min(T) \in S /\ \A n \in T : Min(T) <= n
  BY <1>2, MinIn
<1>4. \A y \in S : b - Min(T) >= y
  <2> TAKE y \in S
  <2>1. Min(T) <= b - y /\ Min(T) \in Nat /\ y \in Nat
    BY <1>1, <1>3
  <2> QED BY <2>1
<1> QED BY <1>3, <1>4, Zenon DEF Max

\* Math.min and Math.max of two numbers.
LEMMA MinOfTwo ==
  ASSUME NEW a \in Int, NEW b \in Int
  PROVE  Min({a, b}) = IF a <= b THEN a ELSE b
<1>1. \E x \in {a, b} : \A y \in {a, b} : x <= y
  OBVIOUS
<1>2. Min({a, b}) \in {a, b} /\ \A y \in {a, b} : Min({a, b}) <= y
  BY <1>1, Zenon DEF Min
<1> QED BY <1>2

LEMMA MaxOfTwo ==
  ASSUME NEW a \in Int, NEW b \in Int
  PROVE  Max({a, b}) = IF a >= b THEN a ELSE b
<1>1. \E x \in {a, b} : \A y \in {a, b} : x >= y
  OBVIOUS
<1>2. Max({a, b}) \in {a, b} /\ \A y \in {a, b} : Max({a, b}) >= y
  BY <1>1, Zenon DEF Max
<1> QED BY <1>2

LEMMA ClampIs ==
  ASSUME NEW n \in Int, NEW lo \in Int, NEW hi \in Int, lo <= hi
  PROVE  Clamp(n, lo, hi) = IF n < lo THEN lo ELSE IF n > hi THEN hi ELSE n
<1>1. Min({hi, n}) = IF hi <= n THEN hi ELSE n
  BY MinOfTwo
<1>2. Min({hi, n}) \in Int
  BY <1>1
<1>3. Max({lo, Min({hi, n})}) = IF lo >= Min({hi, n}) THEN lo ELSE Min({hi, n})
  BY <1>2, MaxOfTwo
<1> QED BY <1>1, <1>3 DEF Clamp

LEMMA UpToN ==
  ASSUME NEW n \in Nat
  PROVE  IsFiniteSet(1 .. n) /\ Cardinality(1 .. n) = n
<1>1. 1 \in Int /\ n \in Int
  OBVIOUS
<1>2. IsFiniteSet(1 .. n) /\ Cardinality(1 .. n) = IF 1 > n THEN 0 ELSE n - 1 + 1
  BY <1>1, FS_Interval, Zenon
<1> QED BY <1>2

\* A property of rounds that holds before the first, and in each round if it holds in
\* the one before, fails in none.
LEMMA NoFirstFailure ==
  ASSUME NEW n \in Nat, NEW Good, 0 \in Good, \A k \in 1 .. n : k - 1 \in Good => k \in Good
  PROVE  \A k \in 0 .. n : k \in Good
<1> DEFINE Bad == {k \in 0 .. n : k \notin Good}
<1>1. SUFFICES ASSUME Bad # {} PROVE FALSE
  OBVIOUS
<1>2. Bad \in SUBSET Nat
  OBVIOUS
<1>3. PICK m : m = Min(Bad)
  OBVIOUS
<1>4. m \in Bad /\ \A y \in Bad : m <= y
  <2> HIDE DEF Bad
  <2> QED BY <1>1, <1>2, <1>3, MinIn
<1>5. m # 0 /\ m \in 0 .. n
  BY <1>4
<1>6. m - 1 \in 0 .. n /\ m - 1 \notin Bad
  BY <1>4, <1>5
<1> QED BY <1>4, <1>5, <1>6

\* Finitely many naturals have a bound.
LEMMA BoundExists ==
  ASSUME NEW n \in Nat, NEW f \in [1 .. n -> Nat]
  PROVE  \E b \in Nat : \A i \in 1 .. n : f[i] <= b
<1> DEFINE Good == {k \in 0 .. n : \E b \in Nat : \A i \in 1 .. k : f[i] <= b}
<1>1. 0 \in Good
  OBVIOUS
<1>2. ASSUME NEW k \in 1 .. n, k - 1 \in Good PROVE k \in Good
  <2>1. PICK b \in Nat : \A i \in 1 .. k - 1 : f[i] <= b
    BY <1>2
  <2>2. f[k] \in Nat
    OBVIOUS
  <2>3. PICK c \in Nat : b <= c /\ f[k] <= c
    BY <2>2
  <2>4. \A i \in 1 .. k : f[i] <= c
    <3> TAKE i \in 1 .. k
    <3>1. CASE i = k
      BY <2>3, <3>1
    <3>2. CASE i # k
      <4>1. i \in 1 .. k - 1 /\ f[i] \in Nat
        BY <3>2
      <4> QED BY <2>1, <2>3, <4>1
    <3> QED BY <3>1, <3>2
  <2> QED BY <2>4
<1> HIDE DEF Good
<1>3. \A k \in 0 .. n : k \in Good
  BY <1>1, <1>2, NoFirstFailure, Zenon
<1>4. n \in Good
  BY <1>3
<1> QED BY <1>4 DEF Good

-----------------------------------------------------------------------------
(* Reward and trust.                                                       *)

\* The decayed trust is a trust that is not greater.
LEMMA TrustBeforeIs ==
  ASSUME NEW old \in {Nothing} \cup (TrustMin .. TrustMax), NEW days \in Int
  PROVE  /\ TrustBefore(old, days) \in TrustMin .. TrustMax
         /\ old # Nothing => TrustBefore(old, days) <= old
<1>1. CASE old = Nothing
  BY <1>1 DEF TrustBefore, Nothing, ColdStart, TrustMin, TrustMax
<1>2. CASE old # Nothing /\ days <= 0
  BY <1>2 DEF TrustBefore, ApplyDecay
<1>3. CASE old # Nothing /\ days > 0
  <2>1. old \in 1000 .. 9500
    BY <1>3 DEF TrustMin, TrustMax
  <2>3. TrustBefore(old, days) = Clamp(old - 100 * days, 1000, 9500)
    BY <1>3 DEF TrustBefore, ApplyDecay, TrustMin, TrustMax
  <2>4. PICK d : d = old - 100 * days
    OBVIOUS
  <2>5. d \in Int /\ d <= old
    BY <1>3, <2>1, <2>4
  <2>6. TrustBefore(old, days) = IF d < 1000 THEN 1000 ELSE IF d > 9500 THEN 9500 ELSE d
    <3>1. Clamp(d, 1000, 9500) = IF d < 1000 THEN 1000 ELSE IF d > 9500 THEN 9500 ELSE d
      BY <2>5, ClampIs
    <3>2. TrustBefore(old, days) = Clamp(d, 1000, 9500)
      BY <2>3, <2>4
    <3> QED BY <3>1, <3>2
  <2>7. PICK t : t = TrustBefore(old, days)
    OBVIOUS
  <2>8. t = IF d < 1000 THEN 1000 ELSE IF d > 9500 THEN 9500 ELSE d
    BY <2>5, <2>6, <2>7, SMTT(60)
  <2>9. t \in TrustMin .. TrustMax /\ t <= old
    <3>1. t \in 1000 .. 9500 /\ t <= old
      BY <2>1, <2>5, <2>8, SMTT(60)
    <3> QED BY <3>1, SMTT(60) DEF TrustMin, TrustMax
  <2> QED BY <2>7, <2>9, ZenonT(60)
<1> QED BY <1>1, <1>2, <1>3

\* The moving average and the decay keep what they promise for every trust that they
\* can have left, any number of days in either direction, and every score.
THEOREM TrustDamped ==
  \A old \in {Nothing} \cup (TrustMin .. TrustMax), days \in Int, score \in 0 .. One :
    TrustIsDamped(old, days, score)
<1> TAKE old \in {Nothing} \cup (TrustMin .. TrustMax), days \in Int, score \in 0 .. One
<1>1. PICK b : b = TrustBefore(old, days)
  OBVIOUS
<1>2. b \in 1000 .. 9500 /\ (old # Nothing => b <= old)
  <2>1. TrustBefore(old, days) \in TrustMin .. TrustMax /\ (old # Nothing => TrustBefore(old, days) <= old)
    BY TrustBeforeIs, ZenonT(60)
  <2>2. b \in TrustMin .. TrustMax /\ (old # Nothing => b <= old)
    BY <1>1, <2>1, ZenonT(60)
  <2>3. b \in TrustMin .. TrustMax
    BY <2>2, ZenonT(60)
  <2>4. b \in 1000 .. 9500
    BY <2>3, SMTT(60) DEF TrustMin, TrustMax
  <2> QED BY <2>2, <2>4
<1>3. score \in 0 .. 10000
  BY DEF One
<1>4. PICK m : m = (85 * b + 15 * score) \div 100
  OBVIOUS
<1>5. m \in Int /\ 100 * m <= 85 * b + 15 * score /\ 85 * b + 15 * score < 100 * m + 100
  BY <1>2, <1>3, <1>4
<1>6. PICK a : a = TrustAfter(b, score)
  OBVIOUS
<1>7. a = Clamp(m, 1000, 9500)
  BY <1>4, <1>6 DEF TrustAfter, TrustMin, TrustMax
<1>8. a = IF m < 1000 THEN 1000 ELSE IF m > 9500 THEN 9500 ELSE m
  BY <1>5, <1>7, ClampIs
<1>9. Min({b, 9500}) = b
  <2>1. b \in Int /\ b <= 9500
    BY <1>2
  <2>2. Min({b, 9500}) = IF b <= 9500 THEN b ELSE 9500
    BY <2>1, MinOfTwo
  <2> QED BY <2>1, <2>2
<1>10. a \in 1000 .. 9500
  BY <1>5, <1>8
<1>11. score >= b => a >= b /\ 6 * (a - b) <= score - b
  BY <1>2, <1>3, <1>5, <1>8
<1>12. score <= b => a <= b /\ 6 * (b - a) <= b - score + 6
  BY <1>2, <1>3, <1>5, <1>8
<1>13. a \in TrustMin .. TrustMax
  BY <1>10, SMTT(60) DEF TrustMin, TrustMax
<1>14. Min({b, TrustMax}) = b
  BY <1>9 DEF TrustMax
<1>15. score >= b => a >= Min({b, TrustMax}) /\ 6 * (a - b) <= score - b
  BY <1>11, <1>14, ZenonT(60)
<1>16. /\ TrustAfter(TrustBefore(old, days), score) = a
       /\ TrustBefore(old, days) = b
  BY <1>1, <1>6
<1>17. old # Nothing => b <= old
  BY <1>2
<1> QED BY <1>12, <1>13, <1>15, <1>16, <1>17, ZenonT(60) DEF TrustIsDamped

\* The events that the score reads, as the schema has them.
IsLog(events) ==
  /\ \E n \in Nat : DOMAIN events = 1 .. n
  /\ \A i \in DOMAIN events : events[i].type = "LLM_COMPLETED" => events[i].value \in {Nothing} \cup Nat
  /\ \A i \in DOMAIN events : events[i].type = "NODE_STARTED" => events[i].attempt \in Nat

\* The shares of speed and rework are within 5 and 10 percent.
LEMMA PerfShareIs ==
  ASSUME NEW events, IsLog(events)
  PROVE  PerfShare(events) \in 0 .. 500
<1> DEFINE timed == {i \in Of(events, "LLM_COMPLETED") : events[i].value # Nothing}
<1>1. CASE timed = {}
  BY <1>1 DEF PerfShare
<1>2. CASE timed # {}
  <2>1. timed \in SUBSET Nat
    BY DEF IsLog, Of
  <2>2. PICK i : i = Min(timed)
    OBVIOUS
  <2>3. i \in timed
    <3> HIDE DEF timed
    <3> QED BY <1>2, <2>1, <2>2, MinIn
  <2>4. events[i].value \in Nat
    BY <2>3 DEF IsLog, Of
  <2>5. PICK p : p = 500 - events[i].value \div 16
    OBVIOUS
  <2>6. p \in Int
    BY <2>4, <2>5
  <2>7. Clamp(p, 0, 500) \in 0 .. 500
    <3>1. Clamp(p, 0, 500) = IF p < 0 THEN 0 ELSE IF p > 500 THEN 500 ELSE p
      BY <2>6, ClampIs
    <3> QED BY <2>6, <3>1
  <2> QED BY <1>2, <2>2, <2>5, <2>7 DEF PerfShare
<1> QED BY <1>1, <1>2

LEMMA ReworkShareIs ==
  ASSUME NEW events, IsLog(events)
  PROVE  ReworkShare(events) \in 0 .. 1000
<1> DEFINE tries == {1} \cup {events[i].attempt : i \in Of(events, "NODE_STARTED")}
<1>1. PICK n \in Nat : DOMAIN events = 1 .. n
  BY DEF IsLog
<1>2. PICK f \in [1 .. n -> Nat] :
        \A i \in 1 .. n : f[i] = IF i \in Of(events, "NODE_STARTED") THEN events[i].attempt ELSE 0
  <2> DEFINE g == [i \in 1 .. n |-> IF i \in Of(events, "NODE_STARTED") THEN events[i].attempt ELSE 0]
  <2>1. g \in [1 .. n -> Nat]
    BY DEF IsLog, Of
  <2> QED BY <2>1
<1>3. PICK b \in Nat : \A i \in 1 .. n : f[i] <= b
  BY BoundExists
<1>4. PICK c \in Nat : 1 <= c /\ b <= c
  OBVIOUS
<1>5. tries \in SUBSET (0 .. c) /\ tries # {}
  <2>1. ASSUME NEW i \in Of(events, "NODE_STARTED") PROVE events[i].attempt \in 0 .. c
    <3>1. i \in 1 .. n /\ f[i] = events[i].attempt /\ f[i] \in Nat
      BY <1>1, <1>2, <2>1 DEF Of
    <3> QED BY <1>3, <1>4, <3>1
  <2> QED BY <1>4, <2>1
<1>6. PICK m : m = MaxAttempts(events)
  OBVIOUS
<1>7. m \in Nat /\ m >= 1
  <2>1. 1 \in tries
    OBVIOUS
  <2>2. m = Max(tries)
    BY <1>6 DEF MaxAttempts
  <2> HIDE DEF tries
  <2>3. Max(tries) \in tries /\ Max(tries) >= 1
    BY <1>5, <2>1, MaxIn
  <2>4. m \in 0 .. c /\ m >= 1
    BY <1>5, <2>2, <2>3, Zenon
  <2> QED BY <2>4
<1>8. PICK q : q = (1000 * (m - 1)) \div 3
  OBVIOUS
<1>9. q \in Nat
  BY <1>7, <1>8
<1>10. Min({q, 1000}) = IF q <= 1000 THEN q ELSE 1000
  BY <1>9, MinOfTwo
<1>11. ReworkShare(events) = Min({q, 1000})
  <2>1. ReworkShare(events) = Min({(1000 * (MaxAttempts(events) - 1)) \div 3, 1000})
    BY Zenon DEF ReworkShare
  <2>2. q = (1000 * (MaxAttempts(events) - 1)) \div 3
    BY <1>6, <1>8
  <2> QED BY <2>1, <2>2
<1>12. PICK r : r = ReworkShare(events)
  OBVIOUS
<1>13. r = IF q <= 1000 THEN q ELSE 1000
  BY <1>10, <1>11, <1>12
<1>14. r \in 0 .. 1000
  BY <1>9, <1>13
<1> QED BY <1>12, <1>14

\* The route of a run follows its verdict and its validation errors alone, whatever
\* its log says of latencies and attempts.
THEOREM RouteFollows ==
  ASSUME NEW events, IsLog(events), NEW dagOk \in BOOLEAN
  PROVE  RoutingOfVerdict(events, dagOk)
<1> DEFINE ok == dagOk /\ \A i \in DOMAIN events : events[i].type # "VALIDATION_ERROR"
<1>1. HardGate(events, dagOk) = ~ok
  BY DEF HardGate, Syn, Of
<1> HIDE DEF ok
<1>2. CASE ok
  <2>1. PICK p \in 0 .. 500 : p = PerfShare(events)
    BY PerfShareIs
  <2>2. PICK w \in 0 .. 1000 : w = ReworkShare(events)
    BY ReworkShareIs
  <2>3. PICK t : t = 3500 + 3500 + 1000 + p + 250 - w
    OBVIOUS
  <2>4. t \in 7250 .. 8750
    BY <2>3
  <2>5. ~HardGate(events, dagOk)
    BY <1>1, <1>2, ZenonT(60)
  <2>6. ArtifactScore(events, dagOk) = Clamp(t, 0, 10000)
    <3>1. ArtifactScore(events, dagOk)
            = Clamp(3500 + 3500 + 1000 + PerfShare(events) + 250 - ReworkShare(events), 0, One)
      BY <2>5 DEF ArtifactScore
    <3>2. t = 3500 + 3500 + 1000 + PerfShare(events) + 250 - ReworkShare(events)
      BY <2>1, <2>2, <2>3
    <3> QED BY <3>1, <3>2 DEF One
  <2>7. Clamp(t, 0, 10000) = IF t < 0 THEN 0 ELSE IF t > 10000 THEN 10000 ELSE t
    BY <2>4, ClampIs
  <2>8. ArtifactScore(events, dagOk) = t
    <3>1. (IF t < 0 THEN 0 ELSE IF t > 10000 THEN 10000 ELSE t) = t
      BY <2>4, SMTT(60)
    <3>2. Clamp(t, 0, 10000) = t
      BY <2>7, <3>1
    <3> QED BY <2>6, <3>2
  <2>9. DeriveRouting(t, FALSE) = "proceed" \/ DeriveRouting(t, FALSE) = "proceed_with_warning"
    BY <2>4, SMTT(60) DEF DeriveRouting
  <2>10. HardGate(events, dagOk) = FALSE
    BY <1>1, <1>2, ZenonT(60)
  <2>11. PICK route : route = DeriveRouting(t, FALSE)
    OBVIOUS
  <2>12. DeriveRouting(ArtifactScore(events, dagOk), HardGate(events, dagOk)) = route
    BY <2>8, <2>10, <2>11, ZenonT(60)
  <2>13. route \in {"proceed", "proceed_with_warning"} /\ route # "hard_stop"
    BY <2>9, <2>11, ZenonT(60)
  <2> QED BY <1>2, <2>12, <2>13, ZenonT(60) DEF RoutingOfVerdict, ok
<1>3. CASE ~ok
  <2>1. ArtifactScore(events, dagOk) = 0
    <3>1. HardGate(events, dagOk)
      BY <1>1, <1>3
    <3> QED BY <3>1 DEF ArtifactScore
  <2>2. DeriveRouting(0, HardGate(events, dagOk)) = "hard_stop"
    <3>1. \A score : DeriveRouting(score, TRUE) = "hard_stop"
      BY SMTT(60) DEF DeriveRouting
    <3>2. HardGate(events, dagOk) = TRUE
      BY <1>1, <1>3, ZenonT(60)
    <3> QED BY <3>1, <3>2, ZenonT(60)
  <2>3. "hard_stop" \notin {"proceed", "proceed_with_warning"}
    OBVIOUS
  <2> QED BY <1>3, <2>1, <2>2, <2>3, Zenon DEF RoutingOfVerdict, ok
<1> QED BY <1>2, <1>3

-----------------------------------------------------------------------------
(* What comes from outside.                                                *)

\* A field of a retry.
RetryField == {Absent, NotANumber} \cup {x \in Int : x > Absent}
RetryInput == [max_attempts : RetryField, backoff_ms : RetryField,
               maxattempts : RetryField, backoffms : RetryField]

LEMMA ClampIntIs ==
  ASSUME NEW x \in RetryField, NEW lo \in Int, NEW hi \in Int, lo <= hi, NEW fallback \in lo .. hi
  PROVE  /\ ClampInt(x, lo, hi, fallback) \in lo .. hi
         /\ x \in lo .. hi /\ x \notin {Absent, NotANumber} => ClampInt(x, lo, hi, fallback) = x
         /\ x > hi /\ x \notin {Absent, NotANumber} => ClampInt(x, lo, hi, fallback) = hi
<1>1. CASE x \in {Absent, NotANumber}
  BY <1>1 DEF ClampInt
<1>2. CASE x \notin {Absent, NotANumber}
  <2>1. x \in Int
    BY <1>2 DEF RetryField
  <2>2. Min({x, hi}) = IF x <= hi THEN x ELSE hi
    BY <2>1, MinOfTwo
  <2>3. PICK m : m = Min({x, hi})
    OBVIOUS
  <2>4. m \in Int /\ m <= hi /\ (x <= hi => m = x) /\ (x > hi => m = hi)
    BY <2>1, <2>2, <2>3
  <2>5. Max({lo, m}) = IF lo >= m THEN lo ELSE m
    BY <2>4, MaxOfTwo
  <2>6. ClampInt(x, lo, hi, fallback) = Max({lo, m})
    BY <1>2, <2>3 DEF ClampInt
  <2>7. PICK c : c = ClampInt(x, lo, hi, fallback)
    OBVIOUS
  <2>8. c \in lo .. hi /\ (x \in lo .. hi => c = x) /\ (x > hi => c = hi)
    BY <2>1, <2>4, <2>5, <2>6, <2>7
  <2> QED BY <2>7, <2>8
<1> QED BY <1>1, <1>2

LEMMA ClampAttempts ==
  ASSUME NEW x \in RetryField
  PROVE  ClampInt(x, 1, 2, 1) \in 1 .. 2 /\ (x \in 1 .. 2 => ClampInt(x, 1, 2, 1) = x)
<1>1. 1 \in 1 .. 2 /\ 1 <= 2 /\ 1 \in Int /\ 2 \in Int
  OBVIOUS
<1>2. ClampInt(x, 1, 2, 1) \in 1 .. 2
  BY <1>1, ClampIntIs, Zenon
<1>3. x \in 1 .. 2 /\ x \notin {Absent, NotANumber} => ClampInt(x, 1, 2, 1) = x
  BY <1>1, ClampIntIs, Zenon
<1> QED BY <1>2, <1>3 DEF Absent, NotANumber

\* The number of attempts and the backoff of a node, as the DAG carries them.
LEMMA NormalRetry ==
  ASSUME NEW maxBackoff \in Nat, NEW a \in 1 .. 2, NEW b \in 0 .. maxBackoff
  PROVE  LET r == [max_attempts |-> a, backoff_ms |-> b, maxattempts |-> Absent, backoffms |-> Absent]
         IN  NormalizeRetry(r, maxBackoff) = r
<1> DEFINE r == [max_attempts |-> a, backoff_ms |-> b, maxattempts |-> Absent, backoffms |-> Absent]
<1>1. a # Absent /\ b # Absent /\ a # NotANumber /\ b # NotANumber /\ a \in RetryField /\ b \in RetryField
  BY DEF Absent, NotANumber, RetryField
<1>2. ParseRetry(r) = r
  BY <1>1 DEF ParseRetry, InSchema, IsDelay, Or
<1>3. r # Rejected
  BY DEF Rejected
<1>4. ClampInt(a, 1, 2, 1) = a
  BY <1>1, ClampAttempts
<1>5. ClampInt(b, 0, maxBackoff, 0) = b
  BY <1>1, ClampIntIs
<1>6. Or(a, Absent) = a /\ Or(b, Absent) = b
  BY <1>1 DEF Or
<1> QED BY <1>2, <1>3, <1>4, <1>5, <1>6 DEF NormalizeRetry

\* A second normalisation of a retry changes nothing, whatever the fields of the first, and
\* no canonical delay is too long to be accepted.
THEOREM RetryIsNormal ==
  ASSUME NEW retry \in RetryInput, NEW maxBackoff \in Nat
  PROVE  RetryFits(retry, maxBackoff)
<1>1. PICK p : p = ParseRetry(retry)
  OBVIOUS
<1>2. PICK r : r = NormalizeRetry(retry, maxBackoff)
  OBVIOUS
<1>a. retry.max_attempts \in 1 .. 2 /\ retry.backoff_ms \in Nat =>
        /\ p # Rejected /\ p.backoff_ms = retry.backoff_ms
        /\ Or(p.backoff_ms, p.backoffms) = retry.backoff_ms
  <2> SUFFICES ASSUME retry.max_attempts \in 1 .. 2, retry.backoff_ms \in Nat
               PROVE  /\ p # Rejected /\ p.backoff_ms = retry.backoff_ms
                      /\ Or(p.backoff_ms, p.backoffms) = retry.backoff_ms
    OBVIOUS
  <2>1. retry.backoff_ms \notin {Absent, NotANumber} /\ retry.max_attempts \notin {Absent, NotANumber}
    BY DEF Absent, NotANumber
  <2>2. p = [max_attempts |-> retry.max_attempts, backoff_ms |-> retry.backoff_ms,
             maxattempts |-> Absent, backoffms |-> Absent]
    BY <1>1, <2>1 DEF ParseRetry, InSchema, IsDelay, Or
  <2> QED BY <2>1, <2>2 DEF Rejected, Or
<1>3. CASE p = Rejected
  BY <1>1, <1>2, <1>3, <1>a DEF RetryFits, NormalizeRetry
<1>4. CASE p # Rejected
  <2>1. p \in RetryInput /\ (retry.max_attempts \in 1 .. 2 => p.max_attempts = retry.max_attempts)
    BY <1>1, <1>4 DEF ParseRetry, RetryInput, RetryField, Or, Absent, NotANumber
  <2>2. PICK x : x = Or(p.max_attempts, p.maxattempts)
    OBVIOUS
  <2>3. PICK y : y = Or(p.backoff_ms, p.backoffms)
    OBVIOUS
  <2>4. x \in RetryField /\ y \in RetryField
    BY <2>1, <2>2, <2>3 DEF Or, RetryInput
  <2>5. PICK a : a = ClampInt(x, 1, 2, 1)
    OBVIOUS
  <2>6. PICK b : b = ClampInt(y, 0, maxBackoff, 0)
    OBVIOUS
  <2>7. a \in 1 .. 2 /\ (x \in 1 .. 2 => a = x)
    BY <2>4, <2>5, ClampAttempts
  <2>8. b \in 0 .. maxBackoff
    BY <2>4, <2>6, ClampIntIs
  <2>9. r = [max_attempts |-> a, backoff_ms |-> b, maxattempts |-> Absent, backoffms |-> Absent]
    BY <1>1, <1>2, <1>4, <2>2, <2>3, <2>5, <2>6 DEF NormalizeRetry
  <2>10. NormalizeRetry(r, maxBackoff) = r
    BY <2>7, <2>8, <2>9, NormalRetry
  <2>11. retry.max_attempts \in 1 .. 2 => r.max_attempts = retry.max_attempts
    <3>1. SUFFICES ASSUME retry.max_attempts \in 1 .. 2 PROVE r.max_attempts = retry.max_attempts
      OBVIOUS
    <3>2. x = retry.max_attempts
      BY <2>1, <2>2, <3>1 DEF Or, Absent
    <3> QED BY <2>7, <2>9, <3>1, <3>2
  <2>12. retry.max_attempts \in 1 .. 2 /\ retry.backoff_ms \in Nat =>
           /\ r # Rejected
           /\ r.backoff_ms = IF retry.backoff_ms > maxBackoff THEN maxBackoff ELSE retry.backoff_ms
    <3> SUFFICES ASSUME retry.max_attempts \in 1 .. 2, retry.backoff_ms \in Nat
                 PROVE  /\ r # Rejected
                        /\ r.backoff_ms = IF retry.backoff_ms > maxBackoff THEN maxBackoff ELSE retry.backoff_ms
      OBVIOUS
    <3>1. y = retry.backoff_ms /\ y \in Nat
      BY <1>a, <2>3
    <3>2. y \notin {Absent, NotANumber}
      BY <3>1 DEF Absent, NotANumber
    <3>3. y \in 0 .. maxBackoff => ClampInt(y, 0, maxBackoff, 0) = y
      BY <2>4, <3>2, ClampIntIs
    <3>4. y > maxBackoff => ClampInt(y, 0, maxBackoff, 0) = maxBackoff
      BY <2>4, <3>2, ClampIntIs
    <3>5. b = IF y > maxBackoff THEN maxBackoff ELSE y
      BY <2>6, <3>1, <3>3, <3>4
    <3>6. r # Rejected
      BY <2>9 DEF Rejected
    <3> QED BY <2>9, <3>1, <3>5, <3>6
  <2> QED BY <1>2, <2>7, <2>8, <2>9, <2>10, <2>11, <2>12 DEF RetryFits
<1> QED BY <1>3, <1>4

\* The canonical name of a field wins, and a second normalisation finds no other.
THEOREM IdentityIsNormal ==
  ASSUME NEW F, Absent \in F,
         NEW spec \in [dag_id : F, dagid : F, run_id : F, runid : F]
  PROVE  IdentityFits(spec)
<1>1. PICK d : d = Or(spec.dag_id, spec.dagid)
  OBVIOUS
<1>2. PICK r : r = Or(spec.run_id, spec.runid)
  OBVIOUS
<1>3. NormalizeIdentity(spec) = IF Absent \in {d, r} THEN Rejected
                                ELSE [dag_id |-> d, run_id |-> r, dagid |-> Absent, runid |-> Absent]
  BY <1>1, <1>2 DEF NormalizeIdentity, Alias
<1>4. CASE Absent \in {d, r}
  BY <1>3, <1>4 DEF IdentityFits
<1>5. CASE Absent \notin {d, r}
  <2> DEFINE s == [dag_id |-> d, run_id |-> r, dagid |-> Absent, runid |-> Absent]
  <2>1. NormalizeIdentity(s) = s
    BY <1>5 DEF NormalizeIdentity, Alias, Or
  <2>2. spec.dag_id # Absent => s.dag_id = spec.dag_id
    BY <1>1 DEF Or
  <2>3. spec.run_id # Absent => s.run_id = spec.run_id
    BY <1>2 DEF Or
  <2>4. NormalizeIdentity(spec) = s
    BY <1>3, <1>5
  <2> HIDE DEF s
  <2> QED BY <2>1, <2>2, <2>3, <2>4, Zenon DEF IdentityFits
<1> QED BY <1>4, <1>5

\* What the patterns of an instruction can capture.
Captured == {NoMatch} \cup [len : Nat, punct : BOOLEAN, ends : BOOLEAN]

IsInstruction(msg) ==
  /\ \E n \in Nat : msg.match \in [1 .. n -> Captured]
  /\ msg.always \in {"no", "ok", "ok."}

\* A reply is forced exactly when the instruction says so, by the first pattern that
\* fits, and within the limit, whatever the patterns captured.
THEOREM ReplyFits ==
  ASSUME NEW msg, IsInstruction(msg), NEW raw \in Nat, NEW maxLen \in Nat
  PROVE  ForcedReplyFits(msg, raw, maxLen)
<1> DEFINE fitting == {i \in DOMAIN msg.match : Fits(msg.match[i], maxLen)}
<1>1. PICK n \in Nat : msg.match \in [1 .. n -> Captured]
  BY DEF IsInstruction
<1>2. PICK reply : reply = EnforceReplyConstraints(msg, raw, maxLen)
  OBVIOUS
<1>3. PICK top : top = Max({maxLen + 1, 3})
  OBVIOUS
<1>4. top \in Nat /\ top >= maxLen + 1 /\ top >= 3
  BY <1>3, MaxOfTwo
<1>5. \A i \in DOMAIN msg.match : i \in fitting <=> msg.match[i].len \in 1 .. maxLen
  BY <1>1 DEF Fits, Captured, NoMatch, Nothing
<1>6. CASE fitting # {}
  <2>1. PICK i : i = Min(fitting)
    OBVIOUS
  <2>2. i \in fitting /\ \A j \in fitting : i <= j
    <3>1. fitting \in SUBSET Nat
      BY <1>1
    <3> HIDE DEF fitting
    <3> QED BY <1>6, <2>1, <3>1, MinIn
  <2>3. reply = [forced |-> TRUE, len |-> Punctuated(msg.match[i])]
    BY <1>2, <1>6, <2>1 DEF EnforceReplyConstraints
  <2>4. Punctuated(msg.match[i]) \in msg.match[i].len .. msg.match[i].len + 1
    BY <1>1, <1>5, <2>2 DEF Punctuated
  <2>5. \A j \in 1 .. i - 1 : msg.match[j].len \notin 1 .. maxLen
    BY <1>1, <1>5, <2>2
  <2>6. i \in DOMAIN msg.match /\ msg.match[i].len \in 1 .. maxLen
    BY <1>5, <2>2
  <2>7. reply.len \in 1 .. top
    BY <1>4, <2>3, <2>4, <2>6
  <2> QED BY <1>2, <1>3, <2>3, <2>4, <2>5, <2>6, <2>7 DEF ForcedReplyFits
<1>7. CASE fitting = {} /\ msg.always # "no"
  <2>1. reply = [forced |-> TRUE, len |-> IF msg.always = "ok." THEN 3 ELSE 2]
    BY <1>2, <1>7 DEF EnforceReplyConstraints
  <2>2. reply.len \in 1 .. top
    BY <1>4, <2>1
  <2> QED BY <1>2, <1>3, <1>7, <2>1, <2>2 DEF ForcedReplyFits
<1>8. CASE fitting = {} /\ msg.always = "no"
  <2>1. reply = [forced |-> FALSE, len |-> raw]
    BY <1>2, <1>8 DEF EnforceReplyConstraints
  <2> QED BY <1>2, <1>5, <1>8, <2>1 DEF ForcedReplyFits
<1> QED BY <1>6, <1>7, <1>8

-----------------------------------------------------------------------------
(* The policy gate.                                                        *)

\* The verdict for every context: of the five rules the last that applies decides.
THEOREM PolicyIsTable ==
  ASSUME NEW ctx, NEW on \in BOOLEAN, ctx.regulated \in BOOLEAN
  PROVE  PolicyTable(ctx, on)
<1> DEFINE matching == {i \in DOMAIN BuiltinRules : Applies(BuiltinRules[i], ctx)}
           code  == ctx.dagType = "code_change"
           risky == ctx.riskLevel = "high" \/ ctx.regulated
<1>1. DOMAIN BuiltinRules = 1 .. 5
  BY DEF BuiltinRules
<1>2. \A i \in 1 .. 5 : i \in matching <=>
        \/ i = 1 /\ code
        \/ i = 2 /\ code /\ risky
        \/ i = 3 /\ code /\ ~risky
        \/ i = 4 /\ ctx.dagType \in {"direct_reply", "chat"}
        \/ i = 5 /\ ctx.dagType = "research"
  <2> TAKE i \in 1 .. 5
  <2>1. /\ BuiltinRules[1] = "BLOCK_CODE_CHANGE_IF_DISABLED"
        /\ BuiltinRules[2] = "REQUIRE_REVIEW_HIGH_RISK_CODE"
        /\ BuiltinRules[3] = "ALLOW_CODE_CHANGE_LOW_RISK"
        /\ BuiltinRules[4] = "ALLOW_DIRECT_REPLY"
        /\ BuiltinRules[5] = "ALLOW_RESEARCH"
    BY DEF BuiltinRules
  <2>2. i = 1 \/ i = 2 \/ i = 3 \/ i = 4 \/ i = 5
    OBVIOUS
  <2> QED BY <1>1, <2>1, <2>2 DEF Applies
<1>3. matching \in SUBSET (0 .. 5)
  BY <1>1
<1>4. CASE code /\ ~on
  BY <1>4 DEF PolicyTable, EvaluatePolicy
<1>5. CASE code /\ on
  <2>1. PICK m : m = Max(matching)
    OBVIOUS
  <2>2. matching = IF risky THEN {1, 2} ELSE {1, 3}
    BY <1>1, <1>2, <1>5
  <2>3. m = IF risky THEN 2 ELSE 3
    BY <2>1, <2>2, MaxOfTwo
  <2>4. EvaluatePolicy(ctx, on) = VerdictOf(BuiltinRules[m])
    BY <1>5, <2>1, <2>2 DEF EvaluatePolicy
  <2>5. VerdictOf(BuiltinRules[m]) = IF risky THEN "REQUIRE_REVIEW" ELSE "ALLOWED"
    BY <2>3 DEF VerdictOf, BuiltinRules
  <2> QED BY <1>5, <2>4, <2>5 DEF PolicyTable
<1>6. CASE ~code
  <2>1. EvaluatePolicy(ctx, on) = "ALLOWED"
    <3>1. CASE matching = {}
      BY <1>6, <3>1 DEF EvaluatePolicy
    <3>2. CASE matching # {}
      <4>1. PICK m : m = Max(matching)
        OBVIOUS
      <4>2. m \in matching
        <5> HIDE DEF matching
        <5> QED BY <1>3, <3>2, <4>1, MaxIn
      <4>3. m \in {4, 5}
        BY <1>1, <1>2, <1>6, <4>2
      <4>4. VerdictOf(BuiltinRules[m]) = "ALLOWED"
        BY <4>3 DEF VerdictOf, BuiltinRules
      <4> QED BY <1>6, <3>2, <4>1, <4>4 DEF EvaluatePolicy
    <3> QED BY <3>1, <3>2
  <2> QED BY <1>6, <2>1 DEF PolicyTable
<1> QED BY <1>4, <1>5, <1>6

-----------------------------------------------------------------------------
(* The order of execution.                                                 *)

\* DAGs as the planner and the API hand them over, before any of their checks.
NodeKinds == {"NOOP", "PLAN_DAG", "PERSIST_USER_MESSAGE", "LLM_CHAT", "ENFORCE_REPLY_CONSTRAINTS",
              "PERSIST_ASSISTANT_MESSAGE", "CODEBASE_ANALYZE", "PATCH_PLAN",
              "PATCH_APPLY_SIMULATED", "BUILD_VERIFY", "TEST_VERIFY", "PATCH_REVIEW"}
DagNode == [id : Nat, kind : NodeKinds, deps : Seq(Nat), attempts : Nat]
IsDag(dag) == dag \in Seq(DagNode) /\ dag # <<>>

\* The dependencies of a node as they are listed.
Place(dag, id) == CHOOSE i \in DOMAIN dag : dag[i].id = id /\ \A j \in 1 .. i - 1 : dag[j].id # id
Listed(dag, id) == dag[Place(dag, id)].deps

LEMMA DagShape ==
  ASSUME NEW dag, IsDag(dag)
  PROVE  /\ Len(dag) \in Nat \ {0} /\ DOMAIN dag = 1 .. Len(dag)
         /\ \A i \in DOMAIN dag : dag[i] \in DagNode /\ dag[i].id \in Ids(dag)
         /\ Ids(dag) \in SUBSET Nat
<1>1. Len(dag) \in Nat \ {0} /\ DOMAIN dag = 1 .. Len(dag)
  BY DEF IsDag
<1>2. \A i \in DOMAIN dag : dag[i] \in DagNode
  BY DEF IsDag
<1> QED BY <1>1, <1>2 DEF Ids, DagNode

\* Every id has a first node; where no id is used twice it is the only one.
LEMMA PlaceOf ==
  ASSUME NEW dag, IsDag(dag), NEW id \in Ids(dag)
  PROVE  Place(dag, id) \in DOMAIN dag /\ dag[Place(dag, id)].id = id
<1> DEFINE S == {i \in DOMAIN dag : dag[i].id = id}
<1>1. S # {} /\ S \in SUBSET Nat
  BY DagShape DEF Ids
<1>2. PICK m : m = Min(S)
  OBVIOUS
<1>3. m \in S /\ \A y \in S : m <= y
  <2> HIDE DEF S
  <2> QED BY <1>1, <1>2, MinIn
<1>4. m \in DOMAIN dag /\ dag[m].id = id /\ \A j \in 1 .. m - 1 : dag[j].id # id
  <2>1. m \in 1 .. Len(dag) /\ DOMAIN dag = 1 .. Len(dag) /\ Len(dag) \in Nat
    BY <1>3, DagShape
  <2>2. ASSUME NEW j \in 1 .. m - 1 PROVE dag[j].id # id
    <3>1. j \in DOMAIN dag /\ ~(m <= j)
      BY <2>1
    <3> QED BY <1>3, <3>1
  <2> QED BY <1>3, <2>2
<1> QED BY <1>4, Zenon DEF Place

LEMMA IdsOnce ==
  ASSUME NEW dag, IsDag(dag), ~DuplicateId(dag)
  PROVE  /\ IsFiniteSet(Ids(dag)) /\ Cardinality(Ids(dag)) = Len(dag)
         /\ \A i, j \in DOMAIN dag : dag[i].id = dag[j].id => i = j
<1> DEFINE f == [i \in 1 .. Len(dag) |-> dag[i].id]
<1>1. Len(dag) \in Nat /\ DOMAIN dag = 1 .. Len(dag)
  BY DagShape
<1>2. IsFiniteSet(1 .. Len(dag)) /\ Cardinality(1 .. Len(dag)) = Len(dag)
  BY <1>1, UpToN
<1>3. f \in Surjection(1 .. Len(dag), Ids(dag))
  BY <1>1, DagShape DEF Surjection, Ids
<1>4. /\ IsFiniteSet(Ids(dag)) /\ Cardinality(Ids(dag)) <= Len(dag)
      /\ Cardinality(Ids(dag)) = Len(dag) <=> f \in Injection(1 .. Len(dag), Ids(dag))
  <2> HIDE DEF f
  <2> QED BY <1>2, <1>3, FS_Surjection
<1>5. Cardinality(Ids(dag)) \in Nat
  BY <1>4, FS_CardinalityType
<1>6. Cardinality(Ids(dag)) = Len(dag)
  BY <1>1, <1>4, <1>5 DEF DuplicateId
<1>7. f \in Injection(1 .. Len(dag), Ids(dag))
  BY <1>4, <1>6, Zenon
<1> QED BY <1>1, <1>4, <1>6, <1>7 DEF Injection, IsInjective

LEMMA OnePlace ==
  ASSUME NEW dag, IsDag(dag), ~DuplicateId(dag), NEW id \in Ids(dag)
  PROVE  /\ {i \in DOMAIN dag : dag[i].id = id} = {Place(dag, id)}
         /\ Listed(dag, id) \in Seq(Nat)
         /\ DepsOf(dag, id) = Range(Listed(dag, id))
<1>1. Place(dag, id) \in DOMAIN dag /\ dag[Place(dag, id)].id = id
  BY PlaceOf
<1>2. \A i \in DOMAIN dag : dag[i].id = id => i = Place(dag, id)
  BY <1>1, IdsOnce, Zenon
<1>3. dag[Place(dag, id)] \in DagNode
  BY <1>1, DagShape, Zenon
<1> QED BY <1>1, <1>2, <1>3 DEF DagNode, Listed, DepsOf, Place

\* Where no id is used twice, the in-degrees and edges are those of one list.
LEMMA InDegreeIs ==
  ASSUME NEW dag, IsDag(dag), ~DuplicateId(dag), NEW id \in Ids(dag)
  PROVE  InDegree(dag, id) = Len(Listed(dag, id))
<1>1. PICK p : p = Place(dag, id) /\ {i \in DOMAIN dag : dag[i].id = id} = {p}
  BY OnePlace
<1>2. Len(dag[p].deps) \in Nat
  <2>1. Listed(dag, id) \in Seq(Nat)
    BY OnePlace
  <2> QED BY <1>1, <2>1 DEF Listed
<1> DEFINE Step(iter, s) == IF s = {} THEN 0
                            ELSE LET x == CHOOSE x \in s : TRUE IN Len(dag[x].deps) + iter[s \ {x}]
           g == [s \in SUBSET {p} |-> IF s = {} THEN 0 ELSE Len(dag[p].deps)]
           iter == CHOOSE h : h = [s \in SUBSET {p} |-> Step(h, s)]
<1>3. InDegree(dag, id) = iter[{p}]
  BY <1>1, Zenon DEF InDegree, SumOver, FoldSet, MapThenFoldSet
<1>4. g = [s \in SUBSET {p} |-> Step(g, s)]
  <2>1. ASSUME NEW s \in SUBSET {p} PROVE g[s] = Step(g, s)
    <3>1. CASE s = {}
      BY <3>1
    <3>2. CASE s = {p}
      <4>1. (CHOOSE x \in s : TRUE) = p /\ s \ {p} = {}
        BY <3>2
      <4>2. g[s \ {p}] = 0 /\ g[s] = Len(dag[p].deps)
        BY <3>2, <4>1
      <4> QED BY <1>2, <3>2, <4>1, <4>2
    <3> QED BY <2>1, <3>1, <3>2
  <2> QED BY <2>1, Zenon
<1>5. iter = [s \in SUBSET {p} |-> Step(iter, s)]
  BY <1>4, Zenon
<1>6. iter[{}] = 0
  BY <1>5, Zenon
<1>7. iter[{p}] = Len(dag[p].deps)
  <2>1. (CHOOSE x \in {p} : TRUE) = p /\ {p} \ {p} = {} /\ {p} # {} /\ {p} \in SUBSET {p}
    OBVIOUS
  <2>2. iter[{p}] = Step(iter, {p})
    BY <1>5, <2>1, Zenon
  <2>3. Step(iter, {p}) = Len(dag[p].deps) + iter[{}]
    BY <2>1, Zenon
  <2> HIDE DEF iter, Step
  <2> QED BY <1>2, <1>6, <2>2, <2>3
<1> QED BY <1>1, <1>3, <1>7, Zenon DEF Listed

LEMMA EdgesIs ==
  ASSUME NEW dag, IsDag(dag), ~DuplicateId(dag), NEW dep, NEW id \in Ids(dag)
  PROVE  Edges(dag, dep, id) = Times(dep, Listed(dag, id))
<1>1. PICK p : p = Place(dag, id) /\ {i \in DOMAIN dag : dag[i].id = id} = {p}
  BY OnePlace
<1>2. Times(dep, dag[p].deps) \in Nat
  <2>1. dag[p].deps \in Seq(Nat)
    BY <1>1, OnePlace DEF Listed
  <2>2. Len(dag[p].deps) \in Nat /\ DOMAIN dag[p].deps = 1 .. Len(dag[p].deps)
    BY <2>1
  <2>3. IsFiniteSet(DOMAIN dag[p].deps)
    BY <2>2, FS_Interval
  <2>4. {i \in DOMAIN dag[p].deps : dag[p].deps[i] = dep} \in SUBSET (DOMAIN dag[p].deps)
    OBVIOUS
  <2>5. IsFiniteSet({i \in DOMAIN dag[p].deps : dag[p].deps[i] = dep})
    BY <2>3, <2>4, FS_Subset, Zenon
  <2> QED BY <2>5, FS_CardinalityType, Zenon DEF Times
<1> DEFINE Step(iter, s) == IF s = {} THEN 0
                            ELSE LET x == CHOOSE x \in s : TRUE IN Times(dep, dag[x].deps) + iter[s \ {x}]
           g == [s \in SUBSET {p} |-> IF s = {} THEN 0 ELSE Times(dep, dag[p].deps)]
           iter == CHOOSE h : h = [s \in SUBSET {p} |-> Step(h, s)]
<1>3. Edges(dag, dep, id) = iter[{p}]
  BY <1>1, Zenon DEF Edges, SumOver, FoldSet, MapThenFoldSet
<1>4. g = [s \in SUBSET {p} |-> Step(g, s)]
  <2>1. ASSUME NEW s \in SUBSET {p} PROVE g[s] = Step(g, s)
    <3>1. CASE s = {}
      BY <3>1
    <3>2. CASE s = {p}
      <4>1. (CHOOSE x \in s : TRUE) = p /\ s \ {p} = {}
        BY <3>2
      <4>2. g[s \ {p}] = 0 /\ g[s] = Times(dep, dag[p].deps)
        BY <3>2, <4>1
      <4> QED BY <1>2, <3>2, <4>1, <4>2
    <3> QED BY <2>1, <3>1, <3>2
  <2> QED BY <2>1, Zenon
<1>5. iter = [s \in SUBSET {p} |-> Step(iter, s)]
  BY <1>4, Zenon
<1>6. iter[{}] = 0
  BY <1>5, Zenon
<1>7. iter[{p}] = Times(dep, dag[p].deps)
  <2>1. (CHOOSE x \in {p} : TRUE) = p /\ {p} \ {p} = {} /\ {p} # {} /\ {p} \in SUBSET {p}
    OBVIOUS
  <2>2. iter[{p}] = Step(iter, {p})
    BY <1>5, <2>1, Zenon
  <2>3. Step(iter, {p}) = Times(dep, dag[p].deps) + iter[{}]
    BY <2>1, Zenon
  <2> HIDE DEF iter, Step
  <2> QED BY <1>2, <1>6, <2>2, <2>3
<1> QED BY <1>1, <1>3, <1>7, Zenon DEF Listed

\* The rounds of Kahn's algorithm, and its result.
LEMMA KahnRuns ==
  ASSUME NEW dag, Len(dag) \in Nat
  PROVE  \E g : /\ g[0] = KahnStart(dag)
                /\ \A k \in 1 .. Len(dag) : g[k] = KahnRound(dag, g[k - 1])
                /\ Kahn(dag) = g[Len(dag)]
<1> DEFINE Rounds(h, n) == [j \in 0 .. n |-> IF j = 0 THEN KahnStart(dag) ELSE KahnRound(dag, h[j - 1])]
           Good == {k \in 0 .. Len(dag) : \E h : h = Rounds(h, k)}
<1>1. 0 \in Good
  <2> DEFINE h == [j \in 0 .. 0 |-> KahnStart(dag)]
  <2>1. h = Rounds(h, 0)
    OBVIOUS
  <2>2. 0 \in 0 .. Len(dag)
    OBVIOUS
  <2> HIDE DEF h, Rounds
  <2> QED BY <2>1, <2>2
<1>2. ASSUME NEW k \in 1 .. Len(dag), k - 1 \in Good PROVE k \in Good
  <2>1. PICK h : h = Rounds(h, k - 1)
    BY <1>2
  <2> DEFINE g == [j \in 0 .. k |-> IF j = k THEN KahnRound(dag, h[k - 1]) ELSE h[j]]
  <2>2. ASSUME NEW j \in 0 .. k
        PROVE  g[j] = IF j = 0 THEN KahnStart(dag) ELSE KahnRound(dag, g[j - 1])
    <3>1. CASE j = k
      <4>1. k - 1 \in 0 .. k /\ k - 1 # k /\ k # 0
        OBVIOUS
      <4> QED BY <3>1, <4>1
    <3>2. CASE j = 0
      <4>1. 0 \in 0 .. k - 1 /\ 0 # k
        OBVIOUS
      <4> QED BY <2>1, <3>2, <4>1
    <3>3. CASE j # k /\ j # 0
      <4>1. j \in 0 .. k - 1 /\ j - 1 \in 0 .. k /\ j - 1 # k
        BY <3>3
      <4>2. h[j] = KahnRound(dag, h[j - 1])
        BY <2>1, <3>3, <4>1
      <4> QED BY <3>3, <4>1, <4>2
    <3> QED BY <3>1, <3>2, <3>3
  <2>3. g = Rounds(g, k)
    <3>1. DOMAIN g = 0 .. k
      OBVIOUS
    <3> QED BY <2>2, Zenon
  <2> HIDE DEF g, Rounds
  <2> QED BY <2>3
<1>3. Len(dag) \in Good
  <2> HIDE DEF Good
  <2>1. \A k \in 0 .. Len(dag) : k \in Good
    BY <1>1, <1>2, NoFirstFailure, Zenon
  <2> QED BY <2>1
<1> DEFINE g == CHOOSE h : h = Rounds(h, Len(dag))
<1>4. g = Rounds(g, Len(dag))
  BY <1>3, Zenon
<1>5. Kahn(dag) = g[Len(dag)]
  BY Zenon DEF Kahn
<1>6. g[0] = KahnStart(dag) /\ \A k \in 1 .. Len(dag) : g[k] = KahnRound(dag, g[k - 1])
  <2> HIDE DEF g
  <2> QED BY <1>4
<1> QED BY <1>5, <1>6, Zenon

\* The dependencies of a node that are not taken yet, as places of its list.
Left(dag, taken, id) == {j \in DOMAIN Listed(dag, id) : Listed(dag, id)[j] \notin taken}

LEMMA LeftIs ==
  ASSUME NEW dag, IsDag(dag), ~DuplicateId(dag), NEW taken, NEW id \in Ids(dag)
  PROVE  /\ IsFiniteSet(Left(dag, taken, id)) /\ Cardinality(Left(dag, taken, id)) \in Nat
         /\ Cardinality(Left(dag, taken, id)) = 0 <=> DepsOf(dag, id) \subseteq taken
         /\ taken = {} => Cardinality(Left(dag, taken, id)) = InDegree(dag, id)
         /\ \A dep : dep \notin taken =>
              Cardinality(Left(dag, taken \cup {dep}, id))
                = Cardinality(Left(dag, taken, id)) - Edges(dag, dep, id)
<1>1. PICK l \in Seq(Nat) : l = Listed(dag, id)
  BY OnePlace
<1>2. Len(l) \in Nat /\ DOMAIN l = 1 .. Len(l)
  OBVIOUS
<1>3. IsFiniteSet(DOMAIN l) /\ Cardinality(DOMAIN l) = Len(l)
  <2>1. IsFiniteSet(1 .. Len(l)) /\ Cardinality(1 .. Len(l)) = Len(l)
    BY <1>2, UpToN
  <2> QED BY <1>2, <2>1
<1>4. PICK S : S = Left(dag, taken, id) /\ S = {j \in DOMAIN l : l[j] \notin taken}
  BY <1>1 DEF Left
<1>5. IsFiniteSet(S) /\ Cardinality(S) \in Nat
  <2>1. S \in SUBSET (DOMAIN l)
    BY <1>4
  <2>2. IsFiniteSet(S)
    BY <1>3, <2>1, FS_Subset
  <2> QED BY <2>2, FS_CardinalityType
<1>6. Cardinality(S) = 0 <=> DepsOf(dag, id) \subseteq taken
  <2>1. Cardinality(S) = 0 <=> S = {}
    BY <1>5, FS_EmptySet
  <2>2. S = {} <=> \A j \in DOMAIN l : l[j] \in taken
    BY <1>4
  <2>3. DepsOf(dag, id) = {l[j] : j \in DOMAIN l}
    BY <1>1, OnePlace DEF Range
  <2> QED BY <2>1, <2>2, <2>3
<1>7. taken = {} => Cardinality(S) = InDegree(dag, id)
  <2>1. InDegree(dag, id) = Len(l)
    BY <1>1, InDegreeIs
  <2>2. taken = {} => S = DOMAIN l
    BY <1>4
  <2> QED BY <1>3, <2>1, <2>2
<1>8. ASSUME NEW dep, dep \notin taken
      PROVE  Cardinality(Left(dag, taken \cup {dep}, id)) = Cardinality(S) - Edges(dag, dep, id)
  <2>1. PICK T : T = {j \in DOMAIN l : l[j] = dep}
    OBVIOUS
  <2>2. Edges(dag, dep, id) = Cardinality(T)
    BY <1>1, <2>1, EdgesIs DEF Times
  <2>3. Left(dag, taken \cup {dep}, id) = S \ T
    BY <1>1, <1>4, <2>1 DEF Left
  <2>4. S \cap T = T
    BY <1>4, <1>8, <2>1
  <2>5. Cardinality(S \ T) = Cardinality(S) - Cardinality(S \cap T)
    BY <1>5, FS_Difference
  <2> QED BY <2>2, <2>3, <2>4, <2>5
<1> QED BY <1>4, <1>5, <1>6, <1>7, <1>8

\* The nodes that could be taken next, and an order that always took the least of them.
Takeable(dag, taken) == {id \in Ids(dag) \ taken : DepsOf(dag, id) \subseteq taken}

Greedy(dag, o) ==
  \A i \in DOMAIN o : \A id \in Takeable(dag, {o[j] : j \in 1 .. i - 1}) : o[i] <= id

\* What holds after each round: a greedy order of some of the nodes, the number of
\* dependencies each node has left, and the nodes with none.
KahnInv(dag, k, was) ==
  /\ was.out \in Seq(Ids(dag)) /\ Len(was.out) <= k /\ IsInjective(was.out)
  /\ was.deg = [id \in Ids(dag) |-> Cardinality(Left(dag, Range(was.out), id))]
  /\ was.ready = Takeable(dag, Range(was.out))
  /\ Before(dag, was.out) /\ Greedy(dag, was.out)
  /\ Len(was.out) < k => was.ready = {}

LEMMA KahnStarts ==
  ASSUME NEW dag, IsDag(dag), ~DuplicateId(dag)
  PROVE  KahnInv(dag, 0, KahnStart(dag))
<1> DEFINE s == KahnStart(dag)
<1>1. s.out = <<>> /\ s.deg = [id \in Ids(dag) |-> InDegree(dag, id)]
      /\ s.ready = {id \in Ids(dag) : InDegree(dag, id) = 0}
  BY DEF KahnStart
<1>2. Range(s.out) = {} /\ DOMAIN s.out = {} /\ s.out \in Seq(Ids(dag)) /\ Len(s.out) = 0
  BY <1>1 DEF Range
<1>3. \A id \in Ids(dag) : Cardinality(Left(dag, {}, id)) = InDegree(dag, id)
  BY LeftIs, Zenon
<1>4. \A id \in Ids(dag) : Cardinality(Left(dag, {}, id)) = 0 <=> DepsOf(dag, id) \subseteq {}
  BY LeftIs
<1>5. s.ready = Takeable(dag, {})
  BY <1>1, <1>3, <1>4 DEF Takeable
<1> HIDE DEF s
<1>6. s.deg = [id \in Ids(dag) |-> Cardinality(Left(dag, Range(s.out), id))]
  BY <1>1, <1>2, <1>3
<1>7. IsInjective(s.out) /\ Before(dag, s.out) /\ Greedy(dag, s.out)
  BY <1>2 DEF IsInjective, Before, Greedy
<1>8. KahnInv(dag, 0, s)
  BY <1>2, <1>5, <1>6, <1>7 DEF KahnInv
<1> QED BY <1>8 DEF s

LEMMA KahnSteps ==
  ASSUME NEW dag, IsDag(dag), ~DuplicateId(dag), NEW k \in Nat, NEW was, KahnInv(dag, k, was)
  PROVE  KahnInv(dag, k + 1, KahnRound(dag, was))
<1>1. CASE was.ready = {}
  <2>1. KahnRound(dag, was) = was
    BY <1>1 DEF KahnRound
  <2>2. PICK m \in Nat : m = Len(was.out)
    BY DEF KahnInv
  <2>3. m <= k => m <= k + 1
    BY <2>2
  <2> QED BY <1>1, <2>1, <2>2, <2>3, Zenon DEF KahnInv
<1>2. CASE was.ready # {}
  <2> DEFINE out == was.out
             R   == Range(out)
  <2>1. out \in Seq(Ids(dag)) /\ Len(out) = k /\ DOMAIN out = 1 .. k /\ IsInjective(out)
    BY <1>2 DEF KahnInv
  <2>2. PICK id : id = Min(was.ready)
    OBVIOUS
  <2>3. id \in Takeable(dag, R) /\ \A x \in Takeable(dag, R) : id <= x
    <3>1. was.ready \in SUBSET Nat /\ was.ready = Takeable(dag, R)
      BY DagShape DEF KahnInv, Takeable
    <3> QED BY <1>2, <2>2, <3>1, MinIn
  <2>4. id \in Ids(dag) /\ id \notin R /\ DepsOf(dag, id) \subseteq R
    BY <2>3 DEF Takeable
  <2> DEFINE deg == [x \in Ids(dag) |-> was.deg[x] - Edges(dag, id, x)]
  <2>5. PICK new : new = KahnRound(dag, was)
    OBVIOUS
  <2>6. new = [out |-> Append(out, id), deg |-> deg,
               ready |-> (was.ready \ {id}) \cup {x \in Ids(dag) : was.deg[x] > 0 /\ deg[x] = 0}]
    BY <1>2, <2>2, <2>5 DEF KahnRound, TakeFirst
  <2>7. /\ new.out \in Seq(Ids(dag)) /\ Len(new.out) = k + 1 /\ DOMAIN new.out = 1 .. k + 1
        /\ new.out[k + 1] = id /\ \A i \in 1 .. k : new.out[i] = out[i]
    BY <2>1, <2>4, <2>6
  <2>8. Range(new.out) = R \cup {id}
    BY <2>1, <2>7 DEF Range
  <2>9. IsInjective(new.out)
    BY <2>1, <2>4, <2>7 DEF IsInjective, Range
  <2>10. new.deg = [x \in Ids(dag) |-> Cardinality(Left(dag, Range(new.out), x))]
    <3>1. ASSUME NEW x \in Ids(dag) PROVE deg[x] = Cardinality(Left(dag, R \cup {id}, x))
      <4>1. Cardinality(Left(dag, R \cup {id}, x)) = Cardinality(Left(dag, R, x)) - Edges(dag, id, x)
        BY <2>4, LeftIs, Zenon
      <4>2. was.deg[x] = Cardinality(Left(dag, R, x))
        BY DEF KahnInv
      <4> QED BY <4>1, <4>2
    <3>2. new.deg = deg
      BY <2>6
    <3> HIDE DEF R
    <3> QED BY <2>8, <3>1, <3>2
  <2>11. \A x \in Ids(dag) : /\ was.deg[x] \in Nat /\ (was.deg[x] = 0 <=> DepsOf(dag, x) \subseteq R)
                             /\ new.deg[x] = 0 <=> DepsOf(dag, x) \subseteq R \cup {id}
    <3> TAKE x \in Ids(dag)
    <3>1. was.deg[x] = Cardinality(Left(dag, R, x))
      BY DEF KahnInv
    <3>2. new.deg[x] = Cardinality(Left(dag, R \cup {id}, x))
      BY <2>8, <2>10
    <3>3. Cardinality(Left(dag, R, x)) \in Nat /\ (Cardinality(Left(dag, R, x)) = 0 <=> DepsOf(dag, x) \subseteq R)
      BY LeftIs, Zenon
    <3>4. Cardinality(Left(dag, R \cup {id}, x)) = 0 <=> DepsOf(dag, x) \subseteq R \cup {id}
      BY LeftIs, Zenon
    <3> QED BY <3>1, <3>2, <3>3, <3>4, Zenon
  <2>12. new.ready = Takeable(dag, R \cup {id})
    <3>1. \A x \in R : x \in Ids(dag) /\ DepsOf(dag, x) \subseteq R
      <4> SUFFICES ASSUME NEW i \in DOMAIN out PROVE out[i] \in Ids(dag) /\ DepsOf(dag, out[i]) \subseteq R
        BY DEF Range
      <4>1. DepsOf(dag, out[i]) \subseteq {out[j] : j \in 1 .. i - 1}
        BY DEF KahnInv, Before
      <4>2. \A j \in 1 .. i - 1 : j \in DOMAIN out
        BY <2>1
      <4> QED BY <2>1, <4>1, <4>2 DEF Range
    <3>2. was.ready = Takeable(dag, R)
      BY DEF KahnInv
    <3>3. new.ready = (was.ready \ {id}) \cup {x \in Ids(dag) : was.deg[x] > 0 /\ new.deg[x] = 0}
      BY <2>6
    <3> HIDE DEF R, out, deg
    <3>4. \A x \in Ids(dag) : was.deg[x] > 0 <=> ~(DepsOf(dag, x) \subseteq R)
      BY <2>11
    <3>5. \A x \in Ids(dag) : new.deg[x] = 0 <=> DepsOf(dag, x) \subseteq R \cup {id}
      BY <2>11
    <3>6. new.ready = (Takeable(dag, R) \ {id})
                      \cup {x \in Ids(dag) : ~(DepsOf(dag, x) \subseteq R) /\ DepsOf(dag, x) \subseteq R \cup {id}}
      BY <3>2, <3>3, <3>4, <3>5
    <3> QED BY <2>4, <3>1, <3>6 DEF Takeable
  <2>13. \A i \in 1 .. k + 1 : {new.out[j] : j \in 1 .. i - 1} = {out[j] : j \in 1 .. i - 1}
    <3> TAKE i \in 1 .. k + 1
    <3>1. \A j \in 1 .. i - 1 : new.out[j] = out[j]
      BY <2>7
    <3> QED BY <3>1
  <2>14. {out[j] : j \in 1 .. (k + 1) - 1} = R
    BY <2>1 DEF Range
  <2>15. Before(dag, new.out)
    <3> SUFFICES ASSUME NEW i \in 1 .. k + 1
                 PROVE  DepsOf(dag, new.out[i]) \subseteq {out[j] : j \in 1 .. i - 1}
      BY <2>7, <2>13 DEF Before
    <3>1. CASE i = k + 1
      BY <2>4, <2>7, <2>14, <3>1
    <3>2. CASE i # k + 1
      <4>1. i \in 1 .. k
        BY <3>2
      <4> QED BY <2>1, <2>7, <4>1 DEF KahnInv, Before
    <3> QED BY <3>1, <3>2
  <2>16. Greedy(dag, new.out)
    <3> SUFFICES ASSUME NEW i \in 1 .. k + 1
                 PROVE  \A x \in Takeable(dag, {out[j] : j \in 1 .. i - 1}) : new.out[i] <= x
      BY <2>7, <2>13 DEF Greedy
    <3>1. CASE i = k + 1
      BY <2>3, <2>7, <2>14, <3>1
    <3>2. CASE i # k + 1
      <4>1. i \in 1 .. k
        BY <3>2
      <4> QED BY <2>1, <2>7, <4>1 DEF KahnInv, Greedy
    <3> QED BY <3>1, <3>2
  <2> HIDE DEF R, out, deg
  <2>17. KahnInv(dag, k + 1, new)
    BY <2>7, <2>8, <2>9, <2>10, <2>12, <2>15, <2>16 DEF KahnInv
  <2> QED BY <2>5, <2>17
<1> QED BY <1>1, <1>2

LEMMA KahnHolds ==
  ASSUME NEW dag, IsDag(dag), ~DuplicateId(dag)
  PROVE  KahnInv(dag, Len(dag), Kahn(dag))
<1>1. PICK n \in Nat : n = Len(dag)
  BY DagShape
<1>2. PICK g : /\ g[0] = KahnStart(dag) /\ \A k \in 1 .. n : g[k] = KahnRound(dag, g[k - 1])
               /\ Kahn(dag) = g[n]
  BY <1>1, KahnRuns
<1> DEFINE Good == {k \in 0 .. n : KahnInv(dag, k, g[k])}
<1>3. 0 \in Good
  <2>1. KahnInv(dag, 0, g[0])
    BY <1>2, KahnStarts, Zenon
  <2> QED BY <2>1
<1>4. ASSUME NEW k \in 1 .. n, k - 1 \in Good PROVE k \in Good
  <2>1. k - 1 \in Nat /\ (k - 1) + 1 = k
    OBVIOUS
  <2>2. KahnInv(dag, k - 1, g[k - 1])
    BY <1>4
  <2>3. KahnInv(dag, (k - 1) + 1, KahnRound(dag, g[k - 1]))
    BY <2>1, <2>2, KahnSteps, Zenon
  <2>4. KahnInv(dag, k, g[k])
    BY <1>2, <2>1, <2>3
  <2> QED BY <2>4
<1>5. n \in Good
  <2> HIDE DEF Good
  <2>1. \A k \in 0 .. n : k \in Good
    BY <1>3, <1>4, NoFirstFailure, Zenon
  <2> QED BY <2>1
<1> QED BY <1>1, <1>2, <1>5

\* The order that Kahn's algorithm finds where it finds one.
LEMMA OutIsOrder ==
  ASSUME NEW dag, IsDag(dag), ~DuplicateId(dag), ~(Len(Kahn(dag).out) < Len(dag))
  PROVE  /\ Kahn(dag).out \in Orders(dag) /\ DOMAIN Kahn(dag).out = DOMAIN dag
         /\ Kahn(dag).out # Invalid /\ Greedy(dag, Kahn(dag).out)
<1>1. PICK o : o = Kahn(dag).out
  OBVIOUS
<1>2. o \in Seq(Ids(dag)) /\ Len(o) <= Len(dag) /\ IsInjective(o) /\ Before(dag, o) /\ Greedy(dag, o)
  BY <1>1, KahnHolds DEF KahnInv
<1>3. Len(dag) \in Nat \ {0} /\ DOMAIN dag = 1 .. Len(dag)
  BY DagShape
<1>4. Len(o) = Len(dag)
  BY <1>1, <1>2, <1>3
<1>5. DOMAIN o = DOMAIN dag /\ o # <<>>
  BY <1>2, <1>3, <1>4
<1>6. o \in [DOMAIN dag -> Ids(dag)]
  BY <1>2, <1>5
<1> QED BY <1>1, <1>2, <1>5, <1>6 DEF Orders, Invalid

\* It finds one where there is one.
LEMMA OrderIsFound ==
  ASSUME NEW dag, IsDag(dag), ~DuplicateId(dag), NEW p \in Orders(dag)
  PROVE  Len(Kahn(dag).out) = Len(dag)
<1>1. PICK o : o = Kahn(dag).out
  OBVIOUS
<1>2. PICK n \in Nat : n = Len(dag) /\ DOMAIN dag = 1 .. n
  BY DagShape
<1>3. o \in Seq(Ids(dag)) /\ Len(o) \in Nat /\ Len(o) <= n /\ IsInjective(o)
  <2>1. KahnInv(dag, n, Kahn(dag))
    BY <1>2, KahnHolds
  <2>2. o \in Seq(Ids(dag)) /\ Len(o) <= n /\ IsInjective(o)
    BY <1>1, <2>1, Zenon DEF KahnInv
  <2> QED BY <2>2
<1>4. Len(o) < n => Takeable(dag, Range(o)) = {}
  BY <1>1, <1>2, KahnHolds, Zenon DEF KahnInv
<1>5. p \in [1 .. n -> Ids(dag)] /\ IsInjective(p) /\ Before(dag, p)
  BY <1>2 DEF Orders
<1>6. SUFFICES ASSUME Len(o) < n PROVE FALSE
  BY <1>1, <1>2, <1>3
<1> DEFINE Missed == {i \in 1 .. n : p[i] \notin Range(o)}
<1>7. Missed # {}
  <2> SUFFICES ASSUME Missed = {} PROVE FALSE
    OBVIOUS
  <2>1. PICK h : h = [i \in 1 .. n |-> CHOOSE j \in 1 .. Len(o) : o[j] = p[i]]
    OBVIOUS
  <2>2. ASSUME NEW i \in 1 .. n PROVE h[i] \in 1 .. Len(o) /\ o[h[i]] = p[i]
    <3>1. \E j \in 1 .. Len(o) : o[j] = p[i]
      BY <1>3 DEF Range
    <3> QED BY <2>1, <3>1
  <2>3. h \in [1 .. n -> 1 .. Len(o)]
    BY <2>1, <2>2
  <2>4. IsFiniteSet(1 .. n) /\ Cardinality(1 .. n) = n
    BY UpToN
  <2>5. IsFiniteSet(1 .. Len(o)) /\ Cardinality(1 .. Len(o)) = Len(o)
    BY <1>3, UpToN
  <2>6. h \in Injection(1 .. n, 1 .. Len(o))
    <3>1. \A x, y \in 1 .. n : h[x] = h[y] => x = y
      BY <1>5, <2>2 DEF IsInjective
    <3> QED BY <2>3, <3>1 DEF Injection, IsInjective
  <2>7. Cardinality(1 .. n) <= Cardinality(1 .. Len(o))
    BY <2>5, <2>6, FS_Injection, Zenon
  <2> QED BY <1>3, <1>6, <2>4, <2>5, <2>7
<1>8. PICK m : m = Min(Missed)
  OBVIOUS
<1>9. m \in Missed /\ \A y \in Missed : m <= y
  <2>1. Missed \in SUBSET Nat
    OBVIOUS
  <2> HIDE DEF Missed
  <2> QED BY <1>7, <1>8, <2>1, MinIn
<1>10. {p[j] : j \in 1 .. m - 1} \subseteq Range(o)
  <2>1. ASSUME NEW j \in 1 .. m - 1 PROVE p[j] \in Range(o)
    <3>1. j \in 1 .. n /\ ~(m <= j)
      BY <1>9
    <3> QED BY <1>9, <3>1
  <2> QED BY <2>1
<1>11. DepsOf(dag, p[m]) \subseteq Range(o)
  BY <1>5, <1>9, <1>10 DEF Before
<1>12. p[m] \in Takeable(dag, Range(o))
  BY <1>5, <1>9, <1>11 DEF Takeable
<1> QED BY <1>4, <1>6, <1>12

\* The executor has an order exactly for the DAGs that are well formed and have one,
\* and isCycleFree accepts exactly these where no id is used twice: every DAG.
THEOREM OrderAgreesAlways ==
  ASSUME NEW dag, IsDag(dag)
  PROVE  OrderAgrees(dag)
<1>1. PICK ok : ok = (Len(Kahn(dag).out) < Len(dag))
  OBVIOUS
<1>2. CASE DuplicateId(dag)
  BY <1>2 DEF OrderAgrees, StableTopologicalOrder, WellFormed
<1>3. CASE ~DuplicateId(dag)
  <2>1. Len(Kahn(dag).out) \in Nat /\ Len(dag) \in Nat /\ Len(Kahn(dag).out) <= Len(dag)
    <3>1. Kahn(dag).out \in Seq(Ids(dag)) /\ Len(Kahn(dag).out) <= Len(dag)
      BY <1>3, KahnHolds, Zenon DEF KahnInv
    <3>2. Len(dag) \in Nat
      BY DagShape
    <3> QED BY <3>1, <3>2
  <2>2. ~(Len(Kahn(dag).out) < Len(dag)) <=> Len(Kahn(dag).out) = Len(dag)
    BY <2>1
  <2>3. Len(Kahn(dag).out) = Len(dag) => Orders(dag) # {} /\ Kahn(dag).out # Invalid
    BY <1>3, <2>2, OutIsOrder
  <2>4. Orders(dag) # {} => Len(Kahn(dag).out) = Len(dag)
    BY <1>3, OrderIsFound
  <2> QED BY <1>3, <2>2, <2>3, <2>4, Zenon DEF OrderAgrees, StableTopologicalOrder, WellFormed, IsCycleFree
<1> QED BY <1>2, <1>3

\* The order of the executor is the first of all orders in which dependencies come
\* first, compared id by id: every DAG.
THEOREM OrderIsFirstAlways ==
  ASSUME NEW dag, IsDag(dag)
  PROVE  OrderIsFirst(dag)
<1>1. PICK o : o = StableTopologicalOrder(dag)
  OBVIOUS
<1>2. SUFFICES ASSUME o # Invalid
               PROVE  o \in Orders(dag) /\ \A p \in Orders(dag) : ~Smaller(p, o)
  BY <1>1 DEF OrderIsFirst
<1>3. ~DuplicateId(dag) /\ ~(Len(Kahn(dag).out) < Len(dag)) /\ o = Kahn(dag).out
  BY <1>1, <1>2, Zenon DEF StableTopologicalOrder
<1>4. o \in Orders(dag) /\ DOMAIN o = DOMAIN dag /\ Greedy(dag, o)
  BY <1>3, OutIsOrder
<1>5. ASSUME NEW p \in Orders(dag), NEW i \in DOMAIN p, p[i] < o[i], \A j \in 1 .. i - 1 : p[j] = o[j]
      PROVE  FALSE
  <2>1. PICK n \in Nat : DOMAIN dag = 1 .. n
    BY DagShape
  <2>2. p \in [1 .. n -> Ids(dag)] /\ o \in [1 .. n -> Ids(dag)] /\ IsInjective(p) /\ Before(dag, p)
    BY <1>4, <2>1 DEF Orders
  <2>3. i \in 1 .. n /\ \A j \in 1 .. i - 1 : j \in 1 .. n /\ j # i
    BY <2>2
  <2>4. {p[j] : j \in 1 .. i - 1} = {o[j] : j \in 1 .. i - 1}
    BY <1>5
  <2>5. p[i] \in Takeable(dag, {o[j] : j \in 1 .. i - 1})
    <3>1. p[i] \notin {p[j] : j \in 1 .. i - 1}
      BY <2>2, <2>3 DEF IsInjective
    <3>2. DepsOf(dag, p[i]) \subseteq {p[j] : j \in 1 .. i - 1}
      BY <2>2, <2>3 DEF Before
    <3> QED BY <2>2, <2>3, <2>4, <3>1, <3>2 DEF Takeable
  <2>6. o[i] <= p[i]
    BY <1>4, <2>1, <2>3, <2>5 DEF Greedy
  <2>7. o[i] \in Nat /\ p[i] \in Nat
    BY <2>2, <2>3, DagShape
  <2> QED BY <1>5, <2>6, <2>7
<1> QED BY <1>4, <1>5, Zenon DEF Smaller

-----------------------------------------------------------------------------
(* Lists by position, and the candidates of the planner.                   *)

\* Finitely many numbers can be put in order, and InOrder is such an order of all.
LEMMA InOrderIs ==
  ASSUME NEW S \in SUBSET Nat, IsFiniteSet(S)
  PROVE  /\ InOrder(S) \in [1 .. Cardinality(S) -> S]
         /\ \A i, j \in 1 .. Cardinality(S) : i < j => InOrder(S)[i] < InOrder(S)[j]
         /\ \A x \in S : \E i \in 1 .. Cardinality(S) : InOrder(S)[i] = x
<1>1. PICK n \in Nat : n = Cardinality(S)
  BY FS_CardinalityType
<1> DEFINE Rising(p) == \A i, j \in DOMAIN p : i < j => p[i] < p[j]
           Ordered(T, k) == \E p \in [1 .. k -> T] : Rising(p)
           Good == {k \in 0 .. n : \A T \in SUBSET S : Cardinality(T) = k => Ordered(T, k)}
<1>2. 0 \in Good
  <2>1. ASSUME NEW T \in SUBSET S PROVE Ordered(T, 0)
    <3>1. PICK p : p = [i \in 1 .. 0 |-> 0]
      OBVIOUS
    <3>2. p \in [1 .. 0 -> T] /\ Rising(p)
      BY <3>1
    <3> QED BY <3>2
  <2> HIDE DEF Ordered
  <2> QED BY <2>1
<1>3. ASSUME NEW k \in 1 .. n, k - 1 \in Good PROVE k \in Good
  <2> SUFFICES ASSUME NEW T \in SUBSET S, Cardinality(T) = k PROVE Ordered(T, k)
    OBVIOUS
  <2>1. IsFiniteSet(T)
    BY FS_Subset
  <2>2. T # {}
    BY FS_EmptySet
  <2>3. PICK m : m = Min(T)
    OBVIOUS
  <2>4. m \in T /\ \A y \in T : m <= y
    BY <2>2, <2>3, MinIn
  <2>5. Cardinality(T \ {m}) = k - 1
    BY <2>1, <2>4, FS_RemoveElement
  <2>6. PICK p \in [1 .. k - 1 -> T \ {m}] : Rising(p)
    BY <1>3, <2>5
  <2>7. PICK q : q = [i \in 1 .. k |-> IF i = 1 THEN m ELSE p[i - 1]]
    OBVIOUS
  <2>8. \A i \in 1 .. k : i # 1 => i - 1 \in 1 .. k - 1 /\ q[i] = p[i - 1] /\ q[i] \in T /\ m < q[i]
    <3> SUFFICES ASSUME NEW i \in 1 .. k, i # 1
                 PROVE  i - 1 \in 1 .. k - 1 /\ q[i] = p[i - 1] /\ q[i] \in T /\ m < q[i]
      OBVIOUS
    <3>1. i - 1 \in 1 .. k - 1 /\ q[i] = p[i - 1]
      BY <2>7
    <3>2. q[i] \in T /\ q[i] # m
      BY <3>1
    <3>3. m \in Nat /\ q[i] \in Nat /\ m <= q[i]
      BY <2>4, <3>2
    <3> QED BY <3>1, <3>2, <3>3
  <2>9. q[1] = m
    BY <2>7
  <2>10. q \in [1 .. k -> T]
    BY <2>4, <2>7, <2>8
  <2>11. ASSUME NEW i \in 1 .. k, NEW j \in 1 .. k, i < j PROVE q[i] < q[j]
    <3>1. j # 1
      BY <2>11
    <3>2. CASE i = 1
      BY <2>8, <2>9, <3>1, <3>2
    <3>3. CASE i # 1
      <4>1. i - 1 \in DOMAIN p /\ j - 1 \in DOMAIN p /\ i - 1 < j - 1
        BY <2>8, <2>11, <3>1, <3>3
      <4>2. p[i - 1] < p[j - 1]
        BY <2>6, <4>1
      <4> QED BY <2>8, <3>1, <3>3, <4>2
    <3> QED BY <3>2, <3>3
  <2>12. Rising(q)
    BY <2>10, <2>11
  <2> QED BY <2>10, <2>12
<1>4. Ordered(S, n)
  <2>1. \A k \in 0 .. n : k \in Good
    <3> HIDE DEF Good
    <3> QED BY <1>2, <1>3, NoFirstFailure, Zenon
  <2> HIDE DEF Ordered
  <2> QED BY <1>1, <2>1
<1>5. PICK p : p = InOrder(S)
  OBVIOUS
<1>6. p \in [1 .. n -> S] /\ Rising(p)
  BY <1>1, <1>4, <1>5, Zenon DEF InOrder
<1>7. \A i, j \in 1 .. n : i < j => p[i] < p[j]
  BY <1>6
<1>8. p \in Injection(1 .. n, S)
  <2>1. \A i, j \in 1 .. n : p[i] = p[j] => i = j
    <3> SUFFICES ASSUME NEW i \in 1 .. n, NEW j \in 1 .. n, p[i] = p[j], i # j PROVE FALSE
      OBVIOUS
    <3>1. p[i] \in S /\ p[j] \in S
      BY <1>6
    <3>2. i < j \/ j < i
      BY <3>1
    <3>3. p[i] \in Nat /\ p[j] \in Nat
      BY <3>1, Zenon
    <3>4. p[i] < p[j] \/ p[j] < p[i]
      BY <1>7, <3>2
    <3> QED BY <3>3, <3>4
  <2> QED BY <1>6, <2>1 DEF Injection, IsInjective
<1>9. p \in Surjection(1 .. n, S)
  <2>1. Cardinality(1 .. n) = Cardinality(S)
    BY <1>1, UpToN
  <2> QED BY <1>8, <2>1, FS_Injection, Zenon
<1>10. \A x \in S : \E i \in 1 .. n : p[i] = x
  BY <1>9 DEF Surjection
<1> QED BY <1>1, <1>5, <1>6, <1>7, <1>10

\* What filter keeps.
LEMMA AtPositionsIs ==
  ASSUME NEW n \in Nat, NEW s, DOMAIN s = 1 .. n, NEW P \in SUBSET (1 .. n)
  PROVE  /\ \E k \in Nat : DOMAIN AtPositions(s, P) = 1 .. k
         /\ Range(AtPositions(s, P)) = {s[i] : i \in P}
         /\ AtPositions(s, P) = <<>> <=> P = {}
<1>1. IsFiniteSet(P) /\ P \in SUBSET Nat
  <2>1. IsFiniteSet(1 .. n)
    BY UpToN
  <2>2. IsFiniteSet(P)
    BY <2>1, FS_Subset
  <2> QED BY <2>2
<1>2. PICK k \in Nat : k = Cardinality(P)
  BY <1>1, FS_CardinalityType
<1>3. PICK p : p = InOrder(P)
  OBVIOUS
<1>4. p \in [1 .. k -> P] /\ \A x \in P : \E i \in 1 .. k : p[i] = x
  BY <1>1, <1>2, <1>3, InOrderIs
<1>5. PICK t : t = AtPositions(s, P) /\ t = [i \in 1 .. k |-> s[p[i]]]
  BY <1>3, <1>4 DEF AtPositions
<1>6. Range(t) = {s[i] : i \in P}
  <2>1. \A i \in 1 .. k : t[i] = s[p[i]] /\ p[i] \in P
    BY <1>4, <1>5
  <2>2. Range(t) = {t[i] : i \in 1 .. k}
    BY <1>5 DEF Range
  <2>3. \A x \in P : \E i \in 1 .. k : t[i] = s[x]
    BY <1>4, <2>1
  <2>4. {t[i] : i \in 1 .. k} \subseteq {s[i] : i \in P}
    <3> SUFFICES ASSUME NEW i \in 1 .. k PROVE t[i] \in {s[x] : x \in P}
      OBVIOUS
    <3>1. p[i] \in P /\ t[i] = s[p[i]]
      BY <2>1
    <3>2. s[p[i]] \in {s[x] : x \in P}
      BY <3>1, Zenon
    <3> QED BY <3>1, <3>2
  <2>5. {s[i] : i \in P} \subseteq {t[i] : i \in 1 .. k}
    BY <2>3
  <2> QED BY <2>2, <2>4, <2>5
<1>7. t = <<>> <=> P = {}
  <2>1. k = 0 <=> P = {}
    BY <1>1, <1>2, FS_EmptySet
  <2>2. k = 0 => t = <<>>
    <3> SUFFICES ASSUME k = 0 PROVE t = <<>>
      OBVIOUS
    <3>1. DOMAIN t = {} /\ DOMAIN <<>> = {}
      BY <1>5
    <3> QED BY <1>5, <3>1
  <2>3. t = <<>> => k = 0
    <3> SUFFICES ASSUME t = <<>> PROVE k = 0
      OBVIOUS
    <3>1. DOMAIN t = {}
      OBVIOUS
    <3> QED BY <1>5, <3>1
  <2> QED BY <2>1, <2>2, <2>3
<1> QED BY <1>5, <1>6, <1>7

LEMMA RangeConcat ==
  ASSUME NEW S, NEW s \in Seq(S), NEW t \in Seq(S)
  PROVE  s \o t \in Seq(S) /\ Range(s \o t) = Range(s) \cup Range(t)
<1>1. s \o t \in Seq(S) /\ Len(s \o t) = Len(s) + Len(t)
  OBVIOUS
<1>2. \A i \in 1 .. Len(s) : (s \o t)[i] = s[i] /\ i \in DOMAIN (s \o t)
  OBVIOUS
<1>3. \A i \in 1 .. Len(t) : (s \o t)[Len(s) + i] = t[i] /\ Len(s) + i \in DOMAIN (s \o t)
  OBVIOUS
<1>4. \A i \in DOMAIN (s \o t) : (s \o t)[i] \in Range(s) \cup Range(t)
  <2> SUFFICES ASSUME NEW i \in 1 .. Len(s) + Len(t) PROVE (s \o t)[i] \in Range(s) \cup Range(t)
    BY <1>1
  <2>1. CASE i \in 1 .. Len(s)
    BY <1>2, <2>1 DEF Range
  <2>2. CASE i \notin 1 .. Len(s)
    <3>1. i - Len(s) \in 1 .. Len(t) /\ i = Len(s) + (i - Len(s))
      BY <2>2
    <3> QED BY <1>3, <3>1 DEF Range
  <2> QED BY <2>1, <2>2
<1>5. Range(s) \cup Range(t) \subseteq Range(s \o t)
  <2>1. Range(s) = {s[i] : i \in 1 .. Len(s)} /\ Range(t) = {t[i] : i \in 1 .. Len(t)}
    BY DEF Range
  <2>2. Range(s \o t) = {(s \o t)[i] : i \in DOMAIN (s \o t)}
    BY Zenon DEF Range
  <2>3. \A i \in 1 .. Len(s) : s[i] \in Range(s \o t)
    BY <1>2, <2>2
  <2>4. \A i \in 1 .. Len(t) : t[i] \in Range(s \o t)
    BY <1>3, <2>2
  <2> QED BY <2>1, <2>3, <2>4
<1>6. Range(s \o t) \subseteq Range(s) \cup Range(t)
  BY <1>4 DEF Range
<1> QED BY <1>1, <1>5, <1>6

\* Candidates that can be compared.
Comparable(c) ==
  /\ c.total \in Nat /\ c.scores.risk \in Nat /\ c.scores.latency \in Nat
  /\ Len(c.dag) \in Nat /\ Hash(c) \in Nat /\ c # NoWinner /\ c.valid \in BOOLEAN
IsPlan(plan) == \E n \in Nat : DOMAIN plan = 1 .. n /\ \A i \in 1 .. n : Comparable(plan[i])

\* The comparison of candidates is a strict order of their keys.
LEMMA BeatsIsStrict ==
  /\ \A a : Comparable(a) => ~Beats(a, a)
  /\ \A a, b, c : Comparable(a) /\ Comparable(b) /\ Comparable(c) /\ Beats(a, b) /\ Beats(b, c)
                    => Beats(a, c)
<1>1. \A a : Comparable(a) => ~Beats(a, a)
  BY DEF Comparable, Beats
<1>2. ASSUME NEW a, NEW b, NEW c, Comparable(a), Comparable(b), Comparable(c), Beats(a, b), Beats(b, c)
      PROVE  Beats(a, c)
  <2>1. PICK ta \in Nat, ra \in Nat, la \in Nat, na \in Nat, ha \in Nat :
          ta = a.total /\ ra = a.scores.risk /\ la = a.scores.latency /\ na = Len(a.dag) /\ ha = Hash(a)
    BY <1>2 DEF Comparable
  <2>2. PICK tb \in Nat, rb \in Nat, lb \in Nat, nb \in Nat, hb \in Nat :
          tb = b.total /\ rb = b.scores.risk /\ lb = b.scores.latency /\ nb = Len(b.dag) /\ hb = Hash(b)
    BY <1>2 DEF Comparable
  <2>3. PICK tc \in Nat, rc \in Nat, lc \in Nat, nc \in Nat, hc \in Nat :
          tc = c.total /\ rc = c.scores.risk /\ lc = c.scores.latency /\ nc = Len(c.dag) /\ hc = Hash(c)
    BY <1>2 DEF Comparable
  <2>4. IF ta # tb THEN ta > tb ELSE IF ra # rb THEN ra > rb ELSE IF la # lb THEN la > lb
        ELSE IF na # nb THEN na < nb ELSE ha < hb
    BY <1>2, <2>1, <2>2 DEF Beats
  <2>5. IF tb # tc THEN tb > tc ELSE IF rb # rc THEN rb > rc ELSE IF lb # lc THEN lb > lc
        ELSE IF nb # nc THEN nb < nc ELSE hb < hc
    BY <1>2, <2>2, <2>3 DEF Beats
  <2>6. IF ta # tc THEN ta > tc ELSE IF ra # rc THEN ra > rc ELSE IF la # lc THEN la > lc
        ELSE IF na # nc THEN na < nc ELSE ha < hc
    BY <2>4, <2>5
  <2> QED BY <2>1, <2>3, <2>6 DEF Beats
<1> QED BY <1>1, <1>2, Zenon

\* In a list of candidates some one is beaten by none.
LEMMA SomeUnbeaten ==
  ASSUME NEW n \in Nat, n # 0, NEW v, \A i \in 1 .. n : Comparable(v[i])
  PROVE  \E i \in 1 .. n : \A j \in 1 .. n : ~Beats(v[j], v[i])
<1> DEFINE Good == {k \in 0 .. n : k # 0 => \E i \in 1 .. k : \A j \in 1 .. k : ~Beats(v[j], v[i])}
<1>1. 0 \in Good
  OBVIOUS
<1>2. ASSUME NEW k \in 1 .. n, k - 1 \in Good PROVE k \in Good
  <2>1. Comparable(v[k]) /\ ~Beats(v[k], v[k])
    BY BeatsIsStrict, Zenon
  <2>2. CASE k = 1
    <3>1. \A j \in 1 .. k : j = k
      BY <2>2
    <3> QED BY <2>1, <3>1
  <2>3. CASE k # 1
    <3>1. PICK i \in 1 .. k - 1 : \A j \in 1 .. k - 1 : ~Beats(v[j], v[i])
      BY <1>2, <2>3
    <3>2. \A j \in 1 .. k : j \in 1 .. k - 1 \/ j = k
      OBVIOUS
    <3>3. i \in 1 .. k /\ i \in 1 .. n /\ \A j \in 1 .. k - 1 : j \in 1 .. n
      OBVIOUS
    <3>4. CASE ~Beats(v[k], v[i])
      <4>1. \A j \in 1 .. k : ~Beats(v[j], v[i])
        BY <3>1, <3>2, <3>4
      <4> QED BY <3>3, <4>1
    <3>5. CASE Beats(v[k], v[i])
      <4>1. ASSUME NEW j \in 1 .. k - 1, Beats(v[j], v[k]) PROVE FALSE
        <5>1. Comparable(v[j]) /\ Comparable(v[i])
          BY <3>3
        <5>2. Beats(v[j], v[i])
          BY <2>1, <3>5, <4>1, <5>1, BeatsIsStrict, Zenon
        <5> QED BY <3>1, <5>2
      <4>2. \A j \in 1 .. k : ~Beats(v[j], v[k])
        BY <2>1, <3>2, <4>1
      <4> QED BY <4>2
    <3> QED BY <3>4, <3>5
  <2> QED BY <2>2, <2>3
<1>3. n \in Good
  <2> HIDE DEF Good
  <2>1. \A k \in 0 .. n : k \in Good
    BY <1>1, <1>2, NoFirstFailure, Zenon
  <2> QED BY <2>1
<1> QED BY <1>3

\* What selectWinner returns: nothing, or a valid candidate that no valid one beats.
LEMMA WinnerIs ==
  ASSUME NEW plan, IsPlan(plan)
  PROVE  LET V == {plan[i] : i \in {j \in DOMAIN plan : plan[j].valid}}
         IN  /\ Range(Valid(plan)) = V
             /\ V = {} => SelectWinner(plan) = NoWinner
             /\ V # {} => SelectWinner(plan) \in V /\ \A x \in V : ~Beats(x, SelectWinner(plan))
<1>1. PICK n \in Nat : DOMAIN plan = 1 .. n /\ \A i \in 1 .. n : Comparable(plan[i])
  BY DEF IsPlan
<1>2. PICK P : P = {j \in DOMAIN plan : plan[j].valid}
  OBVIOUS
<1>3. PICK v : v = Valid(plan)
  OBVIOUS
<1>4. v = AtPositions(plan, P)
  BY <1>2, <1>3 DEF Valid
<1>5. P \in SUBSET (1 .. n)
  BY <1>1, <1>2
<1>6. (\E k \in Nat : DOMAIN v = 1 .. k) /\ Range(v) = {plan[i] : i \in P} /\ (v = <<>> <=> P = {})
  BY <1>1, <1>4, <1>5, AtPositionsIs
<1>7. {plan[i] : i \in P} = {} <=> P = {}
  OBVIOUS
<1>8. CASE P = {}
  BY <1>2, <1>3, <1>6, <1>7, <1>8 DEF SelectWinner
<1>9. CASE P # {}
  <2>1. PICK k \in Nat : DOMAIN v = 1 .. k
    BY <1>6
  <2>2. k # 0
    <3>1. PICK i \in P : TRUE
      BY <1>9
    <3>2. plan[i] \in Range(v)
      BY <1>6
    <3> QED BY <2>1, <3>2 DEF Range
  <2>3. \A i \in 1 .. k : v[i] \in Range(v) /\ Comparable(v[i])
    <3>1. \A i \in 1 .. k : v[i] \in Range(v)
      BY <2>1 DEF Range
    <3>2. \A x \in Range(v) : Comparable(x)
      BY <1>1, <1>5, <1>6
    <3> QED BY <3>1, <3>2
  <2> DEFINE U == {i \in DOMAIN v : \A j \in DOMAIN v : ~Beats(v[j], v[i])}
  <2>4. U # {} /\ U \in SUBSET Nat
    <3>1. \E i \in 1 .. k : \A j \in 1 .. k : ~Beats(v[j], v[i])
      BY <2>2, <2>3, SomeUnbeaten, Zenon
    <3>2. PICK i \in 1 .. k : \A j \in 1 .. k : ~Beats(v[j], v[i])
      BY <3>1
    <3>3. i \in U
      BY <2>1, <3>2, Zenon
    <3>4. \A l \in U : l \in Nat
      BY <2>1
    <3> QED BY <3>3, <3>4
  <2>5. PICK m : m = Min(U)
    OBVIOUS
  <2>6. m \in U
    <3> HIDE DEF U
    <3> QED BY <2>4, <2>5, MinIn
  <2>7. SelectWinner(plan) = v[m]
    BY <1>3, <1>6, <1>9, <2>5 DEF SelectWinner
  <2>8. v[m] \in Range(v) /\ \A x \in Range(v) : ~Beats(x, v[m])
    BY <2>1, <2>6 DEF Range
  <2> QED BY <1>2, <1>3, <1>6, <1>7, <1>9, <2>7, <2>8
<1> QED BY <1>8, <1>9

\* The planner's choice is the best of any candidates that can be compared.
THEOREM ChoiceIsBestAlways ==
  ASSUME NEW plan, IsPlan(plan)
  PROVE  ChoiceIsBest(plan, SelectWinner(plan))
<1>1. PICK V : V = {plan[i] : i \in {j \in DOMAIN plan : plan[j].valid}}
  OBVIOUS
<1>2. PICK w : w = SelectWinner(plan)
  OBVIOUS
<1>3. Range(Valid(plan)) = V /\ (V = {} => w = NoWinner) /\ (V # {} => w \in V /\ \A x \in V : ~Beats(x, w))
  BY <1>1, <1>2, WinnerIs
<1>4. \A x \in V : Comparable(x) /\ x.valid /\ x \in Range(plan)
  BY <1>1 DEF IsPlan, Range
<1>5. V = {} <=> \A i \in DOMAIN plan : ~plan[i].valid
  BY <1>1
<1>6. V # {} => w # NoWinner
  BY <1>3, <1>4 DEF Comparable
<1>7. CASE V = {}
  BY <1>2, <1>3, <1>5, <1>7 DEF ChoiceIsBest
<1>8. CASE V # {}
  <2>1. w \in V /\ Comparable(w) /\ w.valid /\ w \in Range(plan)
    BY <1>3, <1>4, <1>8
  <2>2. \A x \in V : x.total \in Nat /\ w.total \in Nat /\ x.total <= w.total
    <3> TAKE x \in V
    <3>1. Comparable(x) /\ ~Beats(x, w)
      BY <1>3, <1>4, <1>8
    <3> QED BY <2>1, <3>1 DEF Comparable, Beats
  <2>3. \A i \in DOMAIN plan : plan[i].valid => plan[i].total <= w.total
    BY <1>1, <2>2
  <2>4. RunnerUpScore(plan, w) <= w.total
    <3> DEFINE others == {c \in V : c # w}
               T == {c.total : c \in others}
    <3>1. RunnerUpScore(plan, w) = IF others = {} THEN None ELSE Max(T)
      BY <1>3, Zenon DEF RunnerUpScore
    <3>2. CASE others = {}
      BY <2>1, <2>2, <3>1, <3>2 DEF None
    <3>3. CASE others # {}
      <4>1. PICK b \in Nat : b = w.total
        BY <2>1, <2>2
      <4>2. T \in SUBSET (0 .. b) /\ T # {}
        BY <2>2, <3>3, <4>1
      <4>3. PICK t : t = Max(T)
        OBVIOUS
      <4>4. t \in 0 .. b
        <5> HIDE DEF T
        <5> QED BY <4>2, <4>3, MaxIn
      <4> QED BY <3>1, <3>3, <4>1, <4>3, <4>4
    <3> QED BY <3>2, <3>3
  <2> QED BY <1>2, <1>5, <1>6, <1>8, <2>1, <2>3, <2>4, Zenon DEF ChoiceIsBest
<1> QED BY <1>7, <1>8

FourNats == [quality : Nat, latency : Nat, cost : Nat, risk : Nat]

\* The patterns that the memory gives the planner, and how it is set up.
Evidence == [id : Nat \ {0}, dag : Seq(DagNode), reward : Nat, success : {None} \cup Nat,
             latency : {None} \cup Nat, cost : {None} \cup Nat]
IsEvidence(patterns) ==
  patterns \in Seq(Evidence) /\ \A i, j \in DOMAIN patterns : patterns[i].id = patterns[j].id => i = j
PlannerConfig == [allowSynthesis : BOOLEAN, minPatternReward : Nat,
                  weights : FourNats]

\* The candidates as a set: one for the default, one or none for a pattern.
DefaultOne(config, c) == Candidate("DEFAULT", "BYPASS", ChatDag, 0, NoPattern, config, c)
ReuseOf(p, config, c) == Candidate("M3_REUSE", "REUSE", p.dag, p.id, p, config, c)
ModifiedOf(p, config, c) == Candidate("M3_MODIFIED", "MODIFY", BoostRetry(p.dag), p.id, p, config, c)
SynthesizedOne(config, c) == Candidate("SYNTHESIZED", "SYNTHESIZE", ChatDag, 0, NoPattern, config, c)

ToReuse(E, config, c) == {p \in E : c.allow_pattern_reuse /\ p.reward >= config.minPatternReward}
ToModify(E, config, c) ==
  {p \in E : c.allow_pattern_modification /\ p.reward < config.minPatternReward /\ p.reward >= 300}

CandidateSet(E, config, c) ==
  {DefaultOne(config, c)}
  \cup {ReuseOf(p, config, c) : p \in ToReuse(E, config, c)}
  \cup {ModifiedOf(p, config, c) : p \in ToModify(E, config, c)}
  \cup {x \in {SynthesizedOne(config, c)} :
          config.allowSynthesis /\ c.allow_dag_synthesis /\ ToReuse(E, config, c) = {}}

\* A number with its scores.
LEMMA TotalIs ==
  ASSUME NEW w \in FourNats,
         NEW s \in FourNats
  PROVE  Total(w, s) \in Nat
<1>1. \A a, b \in Nat : a * b \in Nat
  OBVIOUS
<1>2. w.quality * s.quality \in Nat /\ w.latency * s.latency \in Nat
      /\ w.cost * s.cost \in Nat /\ w.risk * s.risk \in Nat
  BY <1>1 DEF FourNats
<1> QED BY <1>2 DEF Total

LEMMA ScoresAre ==
  ASSUME NEW p, p = NoPattern \/ p \in Evidence,
         NEW source \in {"DEFAULT", "M3_REUSE", "M3_MODIFIED", "SYNTHESIZED"}
  PROVE  /\ PredictScores(source, p) \in FourNats
         /\ source = "DEFAULT" => PredictScores(source, p) = Scores(500, 600, 700, 800)
         /\ source = "M3_MODIFIED" => PredictScores(source, p) = Scores(450, 500, 500, 400)
         /\ source = "SYNTHESIZED" => PredictScores(source, p) = Scores(400, 500, 500, 300)
<1>1. p.reward \in Nat /\ p.success \in {None} \cup Nat
  BY DEF NoPattern, Evidence
<1>2. PICK q : q = Min({1000, (p.reward * 11) \div 10})
  OBVIOUS
<1>3. q \in Nat
  <2>1. PICK r \in Nat : r = (p.reward * 11) \div 10
    BY <1>1
  <2>2. Min({1000, r}) = IF 1000 <= r THEN 1000 ELSE r
    BY <2>1, MinOfTwo
  <2> QED BY <1>2, <2>1, <2>2
<1>4. CASE source = "M3_REUSE"
  BY <1>1, <1>2, <1>3, <1>4 DEF PredictScores, Scores, None, FourNats
<1>5. CASE source # "M3_REUSE"
  BY <1>5 DEF PredictScores, Scores, FourNats
<1> QED BY <1>4, <1>5

LEMMA BoostKeepsLength ==
  ASSUME NEW dag \in Seq(DagNode)
  PROVE  Len(BoostRetry(dag)) = Len(dag)
<1>1. DOMAIN BoostRetry(dag) = 1 .. Len(dag) /\ Len(dag) \in Nat
  BY DEF BoostRetry
<1> QED BY <1>1

LEMMA ChatDagIs == ChatDag \in Seq(DagNode) /\ IsDag(ChatDag) /\ Len(ChatDag) = 5
<1>1. <<1>> \in Seq(Nat) /\ <<2>> \in Seq(Nat) /\ <<3>> \in Seq(Nat) /\ <<4>> \in Seq(Nat) /\ <<>> \in Seq(Nat)
  OBVIOUS
<1>2. /\ Node(1, "PLAN_DAG", <<>>, 1) \in DagNode
      /\ Node(2, "PERSIST_USER_MESSAGE", <<1>>, 1) \in DagNode
      /\ Node(3, "LLM_CHAT", <<2>>, 2) \in DagNode
      /\ Node(4, "ENFORCE_REPLY_CONSTRAINTS", <<3>>, 1) \in DagNode
      /\ Node(5, "PERSIST_ASSISTANT_MESSAGE", <<4>>, 1) \in DagNode
  <2>1. Node(1, "PLAN_DAG", <<>>, 1) \in DagNode
    BY <1>1 DEF Node, DagNode, NodeKinds
  <2>2. Node(2, "PERSIST_USER_MESSAGE", <<1>>, 1) \in DagNode
    BY <1>1 DEF Node, DagNode, NodeKinds
  <2>3. Node(3, "LLM_CHAT", <<2>>, 2) \in DagNode
    BY <1>1 DEF Node, DagNode, NodeKinds
  <2>4. Node(4, "ENFORCE_REPLY_CONSTRAINTS", <<3>>, 1) \in DagNode
    BY <1>1 DEF Node, DagNode, NodeKinds
  <2>5. Node(5, "PERSIST_ASSISTANT_MESSAGE", <<4>>, 1) \in DagNode
    BY <1>1 DEF Node, DagNode, NodeKinds
  <2> QED BY <2>1, <2>2, <2>3, <2>4, <2>5
<1>3. ChatDag \in Seq(DagNode) /\ Len(ChatDag) = 5
  BY <1>2 DEF ChatDag
<1>4. ChatDag # <<>>
  BY <1>3
<1> QED BY <1>3, <1>4 DEF IsDag

\* Every candidate can be compared.
LEMMA CandidateIs ==
  ASSUME NEW source \in {"DEFAULT", "M3_REUSE", "M3_MODIFIED", "SYNTHESIZED"}, NEW mode, NEW dag,
         Len(dag) \in Nat, NEW pattern \in Nat, NEW p, p = NoPattern \/ p \in Evidence,
         NEW config \in PlannerConfig, NEW c
  PROVE  Comparable(Candidate(source, mode, dag, pattern, p, config, c))
<1>1. PICK x : x = Candidate(source, mode, dag, pattern, p, config, c)
  OBVIOUS
<1>2. PICK s \in FourNats : s = PredictScores(source, p)
  <2>1. PredictScores(source, p) \in FourNats
    BY ScoresAre
  <2> QED BY <2>1, Zenon
<1>3. x = [source |-> source, mode |-> mode, dag |-> dag, pattern |-> pattern, scores |-> s,
           valid |-> IsValid(dag, c), total |-> Total(config.weights, s)]
  BY <1>1, <1>2, Zenon DEF Candidate
<1>4. x.total \in Nat /\ x.scores.risk \in Nat /\ x.scores.latency \in Nat /\ Len(x.dag) \in Nat
  <2>1. Total(config.weights, s) \in Nat
    BY TotalIs DEF PlannerConfig
  <2> QED BY <1>2, <1>3, <2>1 DEF FourNats
<1>5. Hash(x) \in Nat
  BY <1>3 DEF Hash
<1>6. x # NoWinner
  <2>1. x.source = source /\ NoWinner.source = "NONE"
    BY <1>3 DEF NoWinner
  <2> QED BY <2>1
<1>7. x.valid \in BOOLEAN
  <2>1. x.valid = IsValid(dag, c)
    BY <1>3
  <2>2. IsValid(dag, c) \in BOOLEAN
    BY DEF IsValid
  <2> QED BY <2>1, <2>2
<1> QED BY <1>1, <1>4, <1>5, <1>6, <1>7 DEF Comparable

\* The patterns that buildCandidates uses, as lists.
LEMMA FilteredAre ==
  ASSUME NEW patterns \in Seq(Evidence), NEW config, NEW c
  PROVE  LET reuse  == IF c.allow_pattern_reuse THEN Reusable(patterns, config) ELSE <<>>
             modify == IF c.allow_pattern_modification THEN Modifiable(patterns, config) ELSE <<>>
         IN  /\ \E k \in Nat : DOMAIN reuse = 1 .. k
             /\ Range(reuse) = ToReuse(Range(patterns), config, c)
             /\ reuse = <<>> <=> ToReuse(Range(patterns), config, c) = {}
             /\ \E k \in Nat : DOMAIN modify = 1 .. k
             /\ Range(modify) = ToModify(Range(patterns), config, c)
<1> DEFINE reuse  == IF c.allow_pattern_reuse THEN Reusable(patterns, config) ELSE <<>>
           modify == IF c.allow_pattern_modification THEN Modifiable(patterns, config) ELSE <<>>
<1>1. PICK n \in Nat : DOMAIN patterns = 1 .. n
  OBVIOUS
<1>2. Range(patterns) = {patterns[i] : i \in 1 .. n}
  BY <1>1 DEF Range
<1>3. Range(<<>>) = {} /\ DOMAIN <<>> = 1 .. 0 /\ 0 \in Nat
  BY DEF Range
<1>4. /\ \E k \in Nat : DOMAIN reuse = 1 .. k
      /\ Range(reuse) = ToReuse(Range(patterns), config, c)
      /\ reuse = <<>> <=> ToReuse(Range(patterns), config, c) = {}
  <2>1. CASE ~c.allow_pattern_reuse
    <3>1. reuse = <<>> /\ ToReuse(Range(patterns), config, c) = {}
      BY <2>1 DEF ToReuse
    <3> QED BY <1>3, <3>1, Zenon
  <2>2. CASE c.allow_pattern_reuse
    <3>1. PICK P : P = {i \in DOMAIN patterns : patterns[i].reward >= config.minPatternReward}
      OBVIOUS
    <3>2. P \in SUBSET (1 .. n)
      BY <1>1, <3>1
    <3>3. reuse = AtPositions(patterns, P)
      BY <2>2, <3>1 DEF Reusable
    <3>4. {patterns[i] : i \in P} = ToReuse(Range(patterns), config, c)
      BY <1>1, <1>2, <2>2, <3>1 DEF ToReuse
    <3>5. P = {} <=> {patterns[i] : i \in P} = {}
      OBVIOUS
    <3>6. PICK t : t = AtPositions(patterns, P)
      OBVIOUS
    <3>7. (\E k \in Nat : DOMAIN t = 1 .. k) /\ Range(t) = {patterns[i] : i \in P} /\ (t = <<>> <=> P = {})
      BY <1>1, <3>2, <3>6, AtPositionsIs
    <3> HIDE DEF reuse
    <3> QED BY <3>3, <3>4, <3>5, <3>6, <3>7, Zenon
  <2> QED BY <2>1, <2>2
<1>5. (\E k \in Nat : DOMAIN modify = 1 .. k) /\ Range(modify) = ToModify(Range(patterns), config, c)
  <2>1. CASE ~c.allow_pattern_modification
    <3>1. modify = <<>> /\ ToModify(Range(patterns), config, c) = {}
      BY <2>1 DEF ToModify
    <3> QED BY <1>3, <3>1, Zenon
  <2>2. CASE c.allow_pattern_modification
    <3>1. PICK P : P = {i \in DOMAIN patterns : /\ patterns[i].reward < config.minPatternReward
                                               /\ patterns[i].reward >= 300}
      OBVIOUS
    <3>2. P \in SUBSET (1 .. n)
      BY <1>1, <3>1
    <3>3. modify = AtPositions(patterns, P)
      BY <2>2, <3>1 DEF Modifiable
    <3>4. {patterns[i] : i \in P} = ToModify(Range(patterns), config, c)
      BY <1>1, <1>2, <2>2, <3>1 DEF ToModify
    <3>6. PICK t : t = AtPositions(patterns, P)
      OBVIOUS
    <3>7. (\E k \in Nat : DOMAIN t = 1 .. k) /\ Range(t) = {patterns[i] : i \in P} /\ (t = <<>> <=> P = {})
      BY <1>1, <3>2, <3>6, AtPositionsIs
    <3> HIDE DEF modify
    <3> QED BY <3>3, <3>4, <3>6, <3>7, Zenon
  <2> QED BY <2>1, <2>2
<1> QED BY <1>4, <1>5

\* The list of candidates is the set of them, in some order.
LEMMA CandidatesAre ==
  ASSUME NEW patterns \in Seq(Evidence), NEW config, NEW c
  PROVE  LET C == BuildCandidates(ChatDag, patterns, config, c)
             S == CandidateSet(Range(patterns), config, c)
         IN  C \in Seq(S) /\ Range(C) = S
<1> DEFINE reuse  == IF c.allow_pattern_reuse THEN Reusable(patterns, config) ELSE <<>>
           modify == IF c.allow_pattern_modification THEN Modifiable(patterns, config) ELSE <<>>
           synthesize == config.allowSynthesis /\ c.allow_dag_synthesis /\ reuse = <<>>
           f == [i \in DOMAIN reuse |-> ReuseOf(reuse[i], config, c)]
           g == [i \in DOMAIN modify |-> ModifiedOf(modify[i], config, c)]
           h == IF synthesize THEN <<SynthesizedOne(config, c)>> ELSE <<>>
           d == <<DefaultOne(config, c)>>
<1>1. PICK S : S = CandidateSet(Range(patterns), config, c)
  OBVIOUS
<1>2. PICK R, M : R = ToReuse(Range(patterns), config, c) /\ M = ToModify(Range(patterns), config, c)
  OBVIOUS
<1>3. S = {DefaultOne(config, c)} \cup {ReuseOf(p, config, c) : p \in R}
          \cup {ModifiedOf(p, config, c) : p \in M} \cup {x \in {SynthesizedOne(config, c)} :
                 config.allowSynthesis /\ c.allow_dag_synthesis /\ R = {}}
  BY <1>1, <1>2, Zenon DEF CandidateSet
<1>4. PICK kr \in Nat, km \in Nat :
        /\ DOMAIN reuse = 1 .. kr /\ Range(reuse) = R /\ (reuse = <<>> <=> R = {})
        /\ DOMAIN modify = 1 .. km /\ Range(modify) = M
  <2>1. /\ \E k \in Nat : DOMAIN reuse = 1 .. k
        /\ Range(reuse) = ToReuse(Range(patterns), config, c)
        /\ reuse = <<>> <=> ToReuse(Range(patterns), config, c) = {}
        /\ \E k \in Nat : DOMAIN modify = 1 .. k
        /\ Range(modify) = ToModify(Range(patterns), config, c)
    BY FilteredAre
  <2> HIDE DEF reuse, modify
  <2> QED BY <1>2, <2>1, Zenon
<1>5. BuildCandidates(ChatDag, patterns, config, c) = d \o f \o g \o h
  BY DEF BuildCandidates, ReuseOf, ModifiedOf, SynthesizedOne, DefaultOne
<1>6. d \in Seq(S) /\ Range(d) = {DefaultOne(config, c)}
  <2>1. DefaultOne(config, c) \in S
    BY <1>3
  <2> QED BY <2>1 DEF Range
<1>7. f \in Seq(S) /\ Range(f) = {ReuseOf(p, config, c) : p \in R}
  <2>1. R = {reuse[i] : i \in 1 .. kr}
    BY <1>4, Zenon DEF Range
  <2>2. \A i \in 1 .. kr : ReuseOf(reuse[i], config, c) \in S
    BY <1>3, <2>1
  <2>3. f = [i \in 1 .. kr |-> ReuseOf(reuse[i], config, c)]
    BY <1>4
  <2> HIDE DEF f, reuse
  <2>4. f \in [1 .. kr -> S]
    BY <2>2, <2>3
  <2>5. Range(f) = {ReuseOf(reuse[i], config, c) : i \in 1 .. kr}
    BY <2>3 DEF Range
  <2>6. {ReuseOf(reuse[i], config, c) : i \in 1 .. kr} = {ReuseOf(p, config, c) : p \in R}
    BY <2>1
  <2>7. f \in Seq(S)
    BY <2>4
  <2> QED BY <2>5, <2>6, <2>7, Zenon
<1>8. g \in Seq(S) /\ Range(g) = {ModifiedOf(p, config, c) : p \in M}
  <2>1. M = {modify[i] : i \in 1 .. km}
    BY <1>4, Zenon DEF Range
  <2>2. \A i \in 1 .. km : ModifiedOf(modify[i], config, c) \in S
    BY <1>3, <2>1
  <2>3. g = [i \in 1 .. km |-> ModifiedOf(modify[i], config, c)]
    BY <1>4
  <2> HIDE DEF g, modify
  <2>4. g \in [1 .. km -> S]
    BY <2>2, <2>3
  <2>5. Range(g) = {ModifiedOf(modify[i], config, c) : i \in 1 .. km}
    BY <2>3 DEF Range
  <2>6. {ModifiedOf(modify[i], config, c) : i \in 1 .. km} = {ModifiedOf(p, config, c) : p \in M}
    BY <2>1
  <2>7. g \in Seq(S)
    BY <2>4
  <2> QED BY <2>5, <2>6, <2>7, Zenon
<1>9. h \in Seq(S) /\ Range(h) = {x \in {SynthesizedOne(config, c)} :
                                   config.allowSynthesis /\ c.allow_dag_synthesis /\ R = {}}
  <2>1. synthesize <=> config.allowSynthesis /\ c.allow_dag_synthesis /\ R = {}
    BY <1>4
  <2> HIDE DEF synthesize
  <2>2. CASE synthesize
    <3>1. SynthesizedOne(config, c) \in S
      BY <1>3, <2>1, <2>2
    <3> QED BY <2>1, <2>2, <3>1 DEF Range
  <2>3. CASE ~synthesize
    BY <2>1, <2>3 DEF Range
  <2> QED BY <2>2, <2>3
<1> HIDE DEF f, g, h, d
<1>10. d \o f \in Seq(S) /\ Range(d \o f) = Range(d) \cup Range(f)
  BY <1>6, <1>7, RangeConcat
<1>11. d \o f \o g \in Seq(S) /\ Range(d \o f \o g) = Range(d \o f) \cup Range(g)
  <2>1. PICK df \in Seq(S) : df = d \o f
    BY <1>10
  <2>2. df \o g \in Seq(S) /\ Range(df \o g) = Range(df) \cup Range(g)
    BY <1>8, RangeConcat, ZenonT(60)
  <2> QED BY <2>1, <2>2, ZenonT(60)
<1>12. d \o f \o g \o h \in Seq(S) /\ Range(d \o f \o g \o h) = Range(d \o f \o g) \cup Range(h)
  <2>1. PICK dfg \in Seq(S) : dfg = d \o f \o g
    BY <1>11
  <2>2. dfg \o h \in Seq(S) /\ Range(dfg \o h) = Range(dfg) \cup Range(h)
    BY <1>9, RangeConcat, ZenonT(60)
  <2> QED BY <2>1, <2>2, ZenonT(60)
<1>13. Range(d \o f \o g \o h) = S
  BY <1>3, <1>6, <1>7, <1>8, <1>9, <1>10, <1>11, <1>12
<1> QED BY <1>1, <1>5, <1>12, <1>13

LEMMA CandidatesCompare ==
  ASSUME NEW E \in SUBSET Evidence, NEW config \in PlannerConfig, NEW c
  PROVE  \A x \in CandidateSet(E, config, c) : Comparable(x)
<1>1. Len(ChatDag) \in Nat
  BY ChatDagIs
<1>2. Comparable(DefaultOne(config, c)) /\ Comparable(SynthesizedOne(config, c))
  BY <1>1, CandidateIs DEF DefaultOne, SynthesizedOne
<1>3. ASSUME NEW p \in E PROVE Comparable(ReuseOf(p, config, c)) /\ Comparable(ModifiedOf(p, config, c))
  <2>1. p \in Evidence /\ p.dag \in Seq(DagNode) /\ p.id \in Nat
    BY DEF Evidence
  <2>2. Len(p.dag) \in Nat /\ Len(BoostRetry(p.dag)) \in Nat
    BY <2>1, BoostKeepsLength
  <2> QED BY <2>1, <2>2, CandidateIs DEF ReuseOf, ModifiedOf
<1>4. ToReuse(E, config, c) \subseteq E /\ ToModify(E, config, c) \subseteq E
  BY DEF ToReuse, ToModify
<1> QED BY <1>2, <1>3, <1>4 DEF CandidateSet

LEMMA CandidatesArePlan ==
  ASSUME NEW patterns \in Seq(Evidence), NEW config \in PlannerConfig, NEW c
  PROVE  IsPlan(BuildCandidates(ChatDag, patterns, config, c))
<1>1. PICK S : S = CandidateSet(Range(patterns), config, c)
  OBVIOUS
<1>2. PICK C \in Seq(S) : C = BuildCandidates(ChatDag, patterns, config, c)
  BY <1>1, CandidatesAre
<1>3. Range(patterns) \in SUBSET Evidence
  BY DEF Range
<1>4. \A x \in S : Comparable(x)
  BY <1>1, <1>3, CandidatesCompare
<1> QED BY <1>2, <1>4 DEF IsPlan

\* What the planner chooses from its candidates as a set.
LEMMA WinnerAmong ==
  ASSUME NEW patterns \in Seq(Evidence), NEW config \in PlannerConfig, NEW c
  PROVE  LET w == SelectWinner(BuildCandidates(ChatDag, patterns, config, c))
             V == {x \in CandidateSet(Range(patterns), config, c) : x.valid}
         IN  /\ V = {} => w = NoWinner
             /\ V # {} => w \in V /\ \A x \in V : ~Beats(x, w)
<1>1. PICK S : S = CandidateSet(Range(patterns), config, c)
  OBVIOUS
<1>2. PICK C : C = BuildCandidates(ChatDag, patterns, config, c)
  OBVIOUS
<1>3. Range(C) = S /\ IsPlan(C)
  BY <1>1, <1>2, CandidatesAre, CandidatesArePlan
<1>4. {C[i] : i \in {j \in DOMAIN C : C[j].valid}} = {x \in S : x.valid}
  BY <1>3 DEF Range
<1> QED BY <1>1, <1>2, <1>3, <1>4, WinnerIs

\* The order of candidate ids tells any two candidates apart.
LEMMA TiesAreNone ==
  ASSUME NEW E \in SUBSET Evidence, \A p, q \in E : p.id = q.id => p = q,
         NEW config \in PlannerConfig, NEW c,
         NEW x \in CandidateSet(E, config, c), NEW y \in CandidateSet(E, config, c),
         ~Beats(x, y), ~Beats(y, x)
  PROVE  x = y
<1>1. Comparable(x) /\ Comparable(y)
  BY CandidatesCompare
<1>2. Hash(x) = Hash(y)
  <2>1. PICK tx \in Nat, rx \in Nat, lx \in Nat, nx \in Nat, hx \in Nat :
          tx = x.total /\ rx = x.scores.risk /\ lx = x.scores.latency /\ nx = Len(x.dag) /\ hx = Hash(x)
    BY <1>1 DEF Comparable
  <2>2. PICK ty \in Nat, ry \in Nat, ly \in Nat, ny \in Nat, hy \in Nat :
          ty = y.total /\ ry = y.scores.risk /\ ly = y.scores.latency /\ ny = Len(y.dag) /\ hy = Hash(y)
    BY <1>1 DEF Comparable
  <2>3. ~(IF tx # ty THEN tx > ty ELSE IF rx # ry THEN rx > ry ELSE IF lx # ly THEN lx > ly
          ELSE IF nx # ny THEN nx < ny ELSE hx < hy)
    BY <2>1, <2>2, ZenonT(60) DEF Beats
  <2>4. ~(IF ty # tx THEN ty > tx ELSE IF ry # rx THEN ry > rx ELSE IF ly # lx THEN ly > lx
          ELSE IF ny # nx THEN ny < nx ELSE hy < hx)
    BY <2>1, <2>2, ZenonT(60) DEF Beats
  <2>5. hx = hy
    BY <2>3, <2>4
  <2> QED BY <2>1, <2>2, <2>5
<1>3. Hash(DefaultOne(config, c)) = 1 /\ Hash(SynthesizedOne(config, c)) = 0
  BY DEF Hash, DefaultOne, SynthesizedOne, Candidate
<1>4. \A p \in E : Hash(ReuseOf(p, config, c)) = 3 * p.id /\ Hash(ModifiedOf(p, config, c)) = 1 + 3 * p.id
                   /\ p.id \in Nat /\ p.id # 0
  <2> TAKE p \in E
  <2>1. p.id \in Nat /\ p.id # 0
    BY DEF Evidence
  <2>2. Hash(ReuseOf(p, config, c)) = 3 * p.id
    BY <2>1 DEF Hash, ReuseOf, Candidate
  <2>3. Hash(ModifiedOf(p, config, c)) = 1 + 3 * p.id
    BY <2>1 DEF Hash, ModifiedOf, Candidate
  <2> QED BY <2>1, <2>2, <2>3
<1>5. ASSUME NEW z \in CandidateSet(E, config, c)
      PROVE  \/ z = DefaultOne(config, c) /\ Hash(z) = 1
             \/ z = SynthesizedOne(config, c) /\ Hash(z) = 0
             \/ \E p \in E : z = ReuseOf(p, config, c) /\ Hash(z) = 3 * p.id
             \/ \E p \in E : z = ModifiedOf(p, config, c) /\ Hash(z) = 1 + 3 * p.id
  BY <1>3, <1>4 DEF CandidateSet, ToReuse, ToModify
<1>6. ASSUME NEW p \in E
       PROVE  3 * p.id # 0 /\ 3 * p.id # 1 /\ 1 + 3 * p.id # 0 /\ 1 + 3 * p.id # 1
  <2>1. PICK n \in Nat : n = p.id /\ n # 0
    BY <1>4
  <2> QED BY <2>1
<1>7. CASE x = DefaultOne(config, c) /\ Hash(x) = 1
  <2>1. Hash(y) = 1
    BY <1>2, <1>7
  <2> QED BY <1>5, <1>7, <1>6, <2>1
<1>8. CASE x = SynthesizedOne(config, c) /\ Hash(x) = 0
  <2>1. Hash(y) = 0
    BY <1>2, <1>8
  <2> QED BY <1>5, <1>8, <1>6, <2>1
<1>9. ASSUME NEW p \in E, x = ReuseOf(p, config, c) /\ Hash(x) = 3 * p.id PROVE x = y
  <2>1. PICK n \in Nat : n = p.id /\ n # 0
    BY <1>4
  <2>2. CASE \E q \in E : y = ReuseOf(q, config, c) /\ Hash(y) = 3 * q.id
    <3>1. PICK q \in E : y = ReuseOf(q, config, c) /\ Hash(y) = 3 * q.id
      BY <2>2
    <3>2. PICK m \in Nat : m = q.id
      BY <1>4
    <3>3. m = n
      BY <1>2, <1>9, <2>1, <3>1, <3>2
    <3> QED BY <1>9, <2>1, <3>1, <3>2, <3>3
  <2>3. CASE \E q \in E : y = ModifiedOf(q, config, c) /\ Hash(y) = 1 + 3 * q.id
    <3>1. PICK q \in E : Hash(y) = 1 + 3 * q.id
      BY <2>3
    <3>2. PICK m \in Nat : m = q.id
      BY <1>4
    <3> QED BY <1>2, <1>9, <2>1, <3>1, <3>2
  <2>4. Hash(y) # 0 /\ Hash(y) # 1
    BY <1>2, <1>9, <2>1
  <2> QED BY <1>5, <2>2, <2>3, <2>4
<1>10. ASSUME NEW p \in E, x = ModifiedOf(p, config, c) /\ Hash(x) = 1 + 3 * p.id PROVE x = y
  <2>1. PICK n \in Nat : n = p.id /\ n # 0
    BY <1>4
  <2>2. CASE \E q \in E : y = ModifiedOf(q, config, c) /\ Hash(y) = 1 + 3 * q.id
    <3>1. PICK q \in E : y = ModifiedOf(q, config, c) /\ Hash(y) = 1 + 3 * q.id
      BY <2>2
    <3>2. PICK m \in Nat : m = q.id
      BY <1>4
    <3>3. m = n
      BY <1>2, <1>10, <2>1, <3>1, <3>2
    <3> QED BY <1>10, <2>1, <3>1, <3>2, <3>3
  <2>3. CASE \E q \in E : y = ReuseOf(q, config, c) /\ Hash(y) = 3 * q.id
    <3>1. PICK q \in E : Hash(y) = 3 * q.id
      BY <2>3
    <3>2. PICK m \in Nat : m = q.id
      BY <1>4
    <3> QED BY <1>2, <1>10, <2>1, <3>1, <3>2
  <2>4. Hash(y) # 0 /\ Hash(y) # 1
    BY <1>2, <1>10, <2>1
  <2> QED BY <1>5, <2>2, <2>3, <2>4
<1> QED BY <1>5, <1>7, <1>8, <1>9, <1>10

\* The choice depends on the set of the patterns, not on how the memory lists them.
THEOREM WinnerNeedsNoOrder ==
  ASSUME NEW patterns, IsEvidence(patterns), NEW others \in Seq(Evidence), Range(others) = Range(patterns),
         NEW config \in PlannerConfig, NEW c
  PROVE  SelectWinner(BuildCandidates(ChatDag, others, config, c))
           = SelectWinner(BuildCandidates(ChatDag, patterns, config, c))
<1>1. PICK E : E = Range(patterns)
  OBVIOUS
<1>2. PICK w : w = SelectWinner(BuildCandidates(ChatDag, patterns, config, c))
  OBVIOUS
<1>3. PICK u : u = SelectWinner(BuildCandidates(ChatDag, others, config, c))
  OBVIOUS
<1>4. E \in SUBSET Evidence /\ \A p, q \in E : p.id = q.id => p = q
  BY <1>1 DEF IsEvidence, Range
<1>5. PICK V : V = {x \in CandidateSet(E, config, c) : x.valid}
  OBVIOUS
<1>6. (V = {} => w = NoWinner) /\ (V # {} => w \in V /\ \A x \in V : ~Beats(x, w))
  BY <1>1, <1>2, <1>5, WinnerAmong DEF IsEvidence
<1>7. (V = {} => u = NoWinner) /\ (V # {} => u \in V /\ \A x \in V : ~Beats(x, u))
  BY <1>1, <1>3, <1>5, WinnerAmong
<1>8. CASE V = {}
  BY <1>2, <1>3, <1>6, <1>7, <1>8
<1>9. CASE V # {}
  <2>1. w \in CandidateSet(E, config, c) /\ u \in CandidateSet(E, config, c) /\ ~Beats(u, w) /\ ~Beats(w, u)
    BY <1>5, <1>6, <1>7, <1>9
  <2>2. w = u
    BY <1>4, <2>1, TiesAreNone
  <2> QED BY <1>2, <1>3, <2>2
<1> QED BY <1>8, <1>9

\* Scores for which the default DAG is preferred.
LEMMA DefaultBeats ==
  ASSUME NEW config \in PlannerConfig, NEW c
  PROVE  Beats(DefaultOne(config, c), SynthesizedOne(config, c))
<1>1. PICK d, s : d = DefaultOne(config, c) /\ s = SynthesizedOne(config, c)
  OBVIOUS
<1>2. /\ d.scores = Scores(500, 600, 700, 800) /\ d.total = Total(config.weights, Scores(500, 600, 700, 800))
      /\ s.scores = Scores(400, 500, 500, 300) /\ s.total = Total(config.weights, Scores(400, 500, 500, 300))
  BY <1>1, ScoresAre DEF DefaultOne, SynthesizedOne, Candidate
<1>3. PICK q \in Nat, l \in Nat, k \in Nat, r \in Nat :
        q = config.weights.quality /\ l = config.weights.latency /\ k = config.weights.cost /\ r = config.weights.risk
  BY DEF PlannerConfig, FourNats
<1>4. /\ d.total = q * 500 + l * 600 + k * 700 + r * 800 /\ d.scores.risk = 800
      /\ s.total = q * 400 + l * 500 + k * 500 + r * 300 /\ s.scores.risk = 300
  BY <1>2, <1>3 DEF Total, Scores
<1>5. d.total \in Nat /\ s.total \in Nat
  BY <1>4
<1>6. d.total >= s.total
  BY <1>3, <1>4
<1>7. d.total # s.total => d.total > s.total
  BY <1>5, <1>6
<1>8. d.scores.risk # s.scores.risk /\ d.scores.risk > s.scores.risk
  BY <1>4
<1> QED BY <1>1, <1>7, <1>8, Zenon DEF Beats

LEMMA PlainScores ==
  ASSUME NEW p, NEW id, NEW dag, p = Plain(id, dag)
  PROVE  PredictScores("M3_REUSE", p) = Scores(550, 500, 500, 500)
<1>1. p.reward = 500 /\ p.success = None /\ p.latency = None /\ p.cost = None
  BY DEF Plain
<1>2. (p.reward * 11) \div 10 = 550
  BY <1>1
<1>3. Min({1000, 550}) = 550
  BY MinOfTwo
<1> QED BY <1>1, <1>2, <1>3 DEF PredictScores

\* A synthesised DAG never wins, and the default does where nothing more is known.
LEMMA DefaultStandsAlways ==
  ASSUME NEW patterns \in Seq(Evidence), NEW config \in PlannerConfig, NEW c
  PROVE  DefaultStands(SelectWinner(BuildCandidates(ChatDag, patterns, config, c)), patterns, config, c)
<1>1. PICK w : w = SelectWinner(BuildCandidates(ChatDag, patterns, config, c))
  OBVIOUS
<1>2. PICK E : E = Range(patterns) /\ E \in SUBSET Evidence
  <2>1. Range(patterns) \in SUBSET Evidence
    BY DEF Range
  <2> QED BY <2>1
<1>3. PICK V : V = {x \in CandidateSet(E, config, c) : x.valid}
  OBVIOUS
<1>4. (V = {} => w = NoWinner) /\ (V # {} => w \in V /\ \A x \in V : ~Beats(x, w))
  BY <1>1, <1>2, <1>3, WinnerAmong
<1>5. DefaultOne(config, c).valid = IsValid(ChatDag, c) /\ SynthesizedOne(config, c).valid = IsValid(ChatDag, c)
  BY DEF DefaultOne, SynthesizedOne, Candidate
<1>6. DefaultOne(config, c) \in CandidateSet(E, config, c)
  BY Zenon DEF CandidateSet
<1>7. DefaultOne(config, c).source = "DEFAULT" /\ SynthesizedOne(config, c).source = "SYNTHESIZED"
  BY DEF DefaultOne, SynthesizedOne, Candidate
<1>8. \A p \in E : ReuseOf(p, config, c).source = "M3_REUSE" /\ ModifiedOf(p, config, c).source = "M3_MODIFIED"
  BY DEF ReuseOf, ModifiedOf, Candidate
<1>9. ASSUME NEW x \in CandidateSet(E, config, c)
      PROVE  \/ x = DefaultOne(config, c)
             \/ x = SynthesizedOne(config, c)
             \/ \E p \in E : x = ReuseOf(p, config, c) \/ x = ModifiedOf(p, config, c)
  BY DEF CandidateSet, ToReuse, ToModify
<1>10. w.source # "SYNTHESIZED"
  <2> SUFFICES ASSUME w.source = "SYNTHESIZED" PROVE FALSE
    OBVIOUS
  <2>1. V # {}
    BY <1>4 DEF NoWinner
  <2>2. w \in V /\ \A x \in V : ~Beats(x, w)
    BY <1>4, <2>1
  <2>3. w = SynthesizedOne(config, c)
    BY <1>3, <1>7, <1>8, <1>9, <2>2
  <2>4. DefaultOne(config, c) \in V
    BY <1>3, <1>5, <1>6, <2>2, <2>3
  <2> QED BY <2>2, <2>3, <2>4, DefaultBeats
<1>11. ASSUME config.weights = DefaultWeights, IsValid(ChatDag, c),
              \A i \in DOMAIN patterns : patterns[i] = Plain(patterns[i].id, patterns[i].dag)
       PROVE  w.source = "DEFAULT"
  <2>1. DefaultOne(config, c) \in V
    BY <1>3, <1>5, <1>6, <1>11
  <2>2. w \in V /\ ~Beats(DefaultOne(config, c), w)
    BY <1>4, <2>1
  <2>3. DefaultOne(config, c).total = 61500
    <3>1. DefaultOne(config, c).total = Total(DefaultWeights, Scores(500, 600, 700, 800))
      BY <1>11, ScoresAre DEF DefaultOne, Candidate
    <3> QED BY <3>1 DEF Total, Scores, DefaultWeights
  <2>4. ASSUME NEW p \in E
        PROVE  ReuseOf(p, config, c).total = 52000 /\ ModifiedOf(p, config, c).total = 46000
    <3>1. PICK id, dag : p = Plain(id, dag)
      BY <1>2, <1>11 DEF Range
    <3>2. ReuseOf(p, config, c).total = Total(DefaultWeights, Scores(550, 500, 500, 500))
      BY <1>11, <3>1, PlainScores DEF ReuseOf, Candidate
    <3>3. ModifiedOf(p, config, c).total = Total(DefaultWeights, Scores(450, 500, 500, 400))
      BY <1>2, <1>11, ScoresAre DEF ModifiedOf, Candidate
    <3> QED BY <3>2, <3>3 DEF Total, Scores, DefaultWeights
  <2>5. w # SynthesizedOne(config, c)
    BY <1>7, <1>10
  <2>6. \A p \in E : Beats(DefaultOne(config, c), ReuseOf(p, config, c))
                     /\ Beats(DefaultOne(config, c), ModifiedOf(p, config, c))
    BY <2>3, <2>4 DEF Beats
  <2>7. w \in CandidateSet(E, config, c)
    BY <1>3, <2>2
  <2>8. w = DefaultOne(config, c)
    BY <1>9, <2>2, <2>5, <2>6, <2>7, Zenon
  <2> QED BY <1>7, <2>8
<1> QED BY <1>1, <1>10, <1>11, Zenon DEF DefaultStands

\* The planner's choice is sound for all patterns, weights and bounds.
THEOREM WinnerIsSoundAlways ==
  ASSUME NEW patterns, IsEvidence(patterns), NEW config \in PlannerConfig, NEW c
  PROVE  WinnerIsSound(patterns, config, c)
<1>1. patterns \in Seq(Evidence)
  BY DEF IsEvidence
<1>2. Reverse(patterns) \in Seq(Evidence) /\ Range(Reverse(patterns)) = Range(patterns)
  <2>1. PICK n \in Nat : n = Len(patterns) /\ patterns \in [1 .. n -> Evidence]
    BY <1>1
  <2>2. PICK r : r = Reverse(patterns) /\ r = [i \in 1 .. n |-> patterns[(n - i) + 1]]
    BY <2>1 DEF Reverse
  <2>3. \A i \in 1 .. n : (n - i) + 1 \in 1 .. n /\ (n - ((n - i) + 1)) + 1 = i
    BY <2>1
  <2>4. r \in [1 .. n -> Evidence]
    BY <2>1, <2>2, <2>3
  <2>5. Range(r) = {r[i] : i \in 1 .. n} /\ Range(patterns) = {patterns[i] : i \in 1 .. n}
    BY <2>1, <2>4 DEF Range
  <2>6. {r[i] : i \in 1 .. n} \subseteq {patterns[i] : i \in 1 .. n}
    BY <2>2, <2>3
  <2>7. {patterns[i] : i \in 1 .. n} \subseteq {r[i] : i \in 1 .. n}
    <3> SUFFICES ASSUME NEW i \in 1 .. n PROVE \E j \in 1 .. n : r[j] = patterns[i]
      OBVIOUS
    <3>1. r[(n - i) + 1] = patterns[i]
      BY <2>2, <2>3
    <3> QED BY <2>3, <3>1
  <2>8. r \in Seq(Evidence)
    BY <2>4
  <2> QED BY <2>2, <2>5, <2>6, <2>7, <2>8
<1>3. ChoiceIsBest(BuildCandidates(ChatDag, patterns, config, c),
                   SelectWinner(BuildCandidates(ChatDag, patterns, config, c)))
  BY <1>1, CandidatesArePlan, ChoiceIsBestAlways
<1>4. SelectWinner(BuildCandidates(ChatDag, Reverse(patterns), config, c))
        = SelectWinner(BuildCandidates(ChatDag, patterns, config, c))
  BY <1>2, WinnerNeedsNoOrder
<1>5. DefaultStands(SelectWinner(BuildCandidates(ChatDag, patterns, config, c)), patterns, config, c)
  BY <1>1, DefaultStandsAlways
<1> QED BY <1>3, <1>4, <1>5, Zenon DEF WinnerIsSound

-----------------------------------------------------------------------------
(* How many nodes could run at once.                                       *)

\* DAGs that have an order, the ones that isCycleFree lets through.
IsRunnable(dag) == IsDag(dag) /\ WellFormed(dag) /\ Orders(dag) # {}

Deeper(dag, depth) ==
  [id \in Ids(dag) |->
     Max({0} \cup {1 + (IF d \in Ids(dag) THEN depth[d] ELSE 0) : d \in DepsOf(dag, id)})]

Wider(dag, up) == up \cup UNION {DepsOf(dag, x) : x \in up}

LEMMA DepthsRun ==
  ASSUME NEW dag, Len(dag) \in Nat
  PROVE  \E g : /\ g[0] = [id \in Ids(dag) |-> 0]
                /\ \A k \in 1 .. Len(dag) : g[k] = Deeper(dag, g[k - 1])
                /\ Depths(dag) = g[Len(dag)]
<1> DEFINE Rounds(h, n) == [j \in 0 .. n |-> IF j = 0 THEN [id \in Ids(dag) |-> 0] ELSE Deeper(dag, h[j - 1])]
           Good == {k \in 0 .. Len(dag) : \E h : h = Rounds(h, k)}
<1>1. 0 \in Good
  <2> DEFINE h == [j \in 0 .. 0 |-> [id \in Ids(dag) |-> 0]]
  <2>1. h = Rounds(h, 0)
    OBVIOUS
  <2>2. 0 \in 0 .. Len(dag)
    OBVIOUS
  <2> HIDE DEF h, Rounds
  <2> QED BY <2>1, <2>2
<1>2. ASSUME NEW k \in 1 .. Len(dag), k - 1 \in Good PROVE k \in Good
  <2>1. PICK h : h = Rounds(h, k - 1)
    BY <1>2
  <2> DEFINE g == [j \in 0 .. k |-> IF j = k THEN Deeper(dag, h[k - 1]) ELSE h[j]]
  <2>2. ASSUME NEW j \in 0 .. k
        PROVE  g[j] = IF j = 0 THEN [id \in Ids(dag) |-> 0] ELSE Deeper(dag, g[j - 1])
    <3>1. CASE j = k
      <4>1. k - 1 \in 0 .. k /\ k - 1 # k /\ k # 0
        OBVIOUS
      <4> QED BY <3>1, <4>1
    <3>2. CASE j = 0
      <4>1. 0 \in 0 .. k - 1 /\ 0 # k
        OBVIOUS
      <4> QED BY <2>1, <3>2, <4>1
    <3>3. CASE j # k /\ j # 0
      <4>1. j \in 0 .. k - 1 /\ j - 1 \in 0 .. k /\ j - 1 # k
        BY <3>3
      <4>2. h[j] = Deeper(dag, h[j - 1])
        BY <2>1, <3>3, <4>1
      <4> QED BY <3>3, <4>1, <4>2
    <3> QED BY <3>1, <3>2, <3>3
  <2>3. g = Rounds(g, k)
    <3>1. DOMAIN g = 0 .. k
      OBVIOUS
    <3> QED BY <2>2, Zenon
  <2> HIDE DEF g, Rounds
  <2> QED BY <2>3
<1>3. Len(dag) \in Good
  <2> HIDE DEF Good
  <2>1. \A k \in 0 .. Len(dag) : k \in Good
    BY <1>1, <1>2, NoFirstFailure, Zenon
  <2> QED BY <2>1
<1> DEFINE g == CHOOSE h : h = Rounds(h, Len(dag))
<1>4. g = Rounds(g, Len(dag))
  BY <1>3, Zenon
<1>5. Depths(dag) = g[Len(dag)]
  BY Zenon DEF Depths, Deeper
<1>6. g[0] = [id \in Ids(dag) |-> 0] /\ \A k \in 1 .. Len(dag) : g[k] = Deeper(dag, g[k - 1])
  <2> HIDE DEF g
  <2> QED BY <1>4
<1> QED BY <1>5, <1>6, Zenon

LEMMA AncestorsRun ==
  ASSUME NEW dag, Len(dag) \in Nat, NEW id
  PROVE  \E g : /\ g[0] = DepsOf(dag, id)
                /\ \A k \in 1 .. Len(dag) : g[k] = Wider(dag, g[k - 1])
                /\ Ancestors(dag, id) = g[Len(dag)]
<1> DEFINE Rounds(h, n) == [j \in 0 .. n |-> IF j = 0 THEN DepsOf(dag, id) ELSE Wider(dag, h[j - 1])]
           Good == {k \in 0 .. Len(dag) : \E h : h = Rounds(h, k)}
<1>1. 0 \in Good
  <2> DEFINE h == [j \in 0 .. 0 |-> DepsOf(dag, id)]
  <2>1. h = Rounds(h, 0)
    OBVIOUS
  <2>2. 0 \in 0 .. Len(dag)
    OBVIOUS
  <2> HIDE DEF h, Rounds
  <2> QED BY <2>1, <2>2
<1>2. ASSUME NEW k \in 1 .. Len(dag), k - 1 \in Good PROVE k \in Good
  <2>1. PICK h : h = Rounds(h, k - 1)
    BY <1>2
  <2> DEFINE g == [j \in 0 .. k |-> IF j = k THEN Wider(dag, h[k - 1]) ELSE h[j]]
  <2>2. ASSUME NEW j \in 0 .. k
        PROVE  g[j] = IF j = 0 THEN DepsOf(dag, id) ELSE Wider(dag, g[j - 1])
    <3>1. CASE j = k
      <4>1. k - 1 \in 0 .. k /\ k - 1 # k /\ k # 0
        OBVIOUS
      <4> QED BY <3>1, <4>1
    <3>2. CASE j = 0
      <4>1. 0 \in 0 .. k - 1 /\ 0 # k
        OBVIOUS
      <4> QED BY <2>1, <3>2, <4>1
    <3>3. CASE j # k /\ j # 0
      <4>1. j \in 0 .. k - 1 /\ j - 1 \in 0 .. k /\ j - 1 # k
        BY <3>3
      <4>2. h[j] = Wider(dag, h[j - 1])
        BY <2>1, <3>3, <4>1
      <4> QED BY <3>3, <4>1, <4>2
    <3> QED BY <3>1, <3>2, <3>3
  <2>3. g = Rounds(g, k)
    <3>1. DOMAIN g = 0 .. k
      OBVIOUS
    <3> QED BY <2>2, Zenon
  <2> HIDE DEF g, Rounds
  <2> QED BY <2>3
<1>3. Len(dag) \in Good
  <2> HIDE DEF Good
  <2>1. \A k \in 0 .. Len(dag) : k \in Good
    BY <1>1, <1>2, NoFirstFailure, Zenon
  <2> QED BY <2>1
<1> DEFINE g == CHOOSE h : h = Rounds(h, Len(dag))
<1>4. g = Rounds(g, Len(dag))
  BY <1>3, Zenon
<1>5. Ancestors(dag, id) = g[Len(dag)]
  BY Zenon DEF Ancestors, Wider
<1>6. g[0] = DepsOf(dag, id) /\ \A k \in 1 .. Len(dag) : g[k] = Wider(dag, g[k - 1])
  <2> HIDE DEF g
  <2> QED BY <1>4
<1> QED BY <1>5, <1>6, Zenon

\* A round of the depths: one more than the greatest depth of a dependency.
LEMMA DeeperIs ==
  ASSUME NEW dag, \A id \in Ids(dag) : DepsOf(dag, id) \subseteq Ids(dag),
         NEW b \in Nat, NEW u \in [Ids(dag) -> 0 .. b], NEW id \in Ids(dag)
  PROVE  /\ Deeper(dag, u)[id] \in 0 .. b + 1
         /\ \A d \in DepsOf(dag, id) : u[d] < Deeper(dag, u)[id]
         /\ Deeper(dag, u)[id] # 0 => \E d \in DepsOf(dag, id) : Deeper(dag, u)[id] = u[d] + 1
<1>1. PICK S : S = {0} \cup {1 + (IF d \in Ids(dag) THEN u[d] ELSE 0) : d \in DepsOf(dag, id)}
  OBVIOUS
<1>2. S = {0} \cup {1 + u[d] : d \in DepsOf(dag, id)}
  BY <1>1
<1>3. \A d \in DepsOf(dag, id) : u[d] \in 0 .. b
  OBVIOUS
<1>4. S \in SUBSET (0 .. b + 1) /\ S # {} /\ b + 1 \in Nat
  BY <1>2, <1>3
<1>5. PICK m : m = Max(S)
  OBVIOUS
<1>6. m \in S /\ \A y \in S : m >= y
  BY <1>4, <1>5, MaxIn
<1>7. Deeper(dag, u)[id] = m
  BY <1>1, <1>5 DEF Deeper
<1>8. m \in 0 .. b + 1
  BY <1>4, <1>6
<1>9. ASSUME NEW d \in DepsOf(dag, id) PROVE u[d] < m
  <2>1. m >= 1 + u[d] /\ u[d] \in 0 .. b
    BY <1>2, <1>3, <1>6
  <2> QED BY <1>8, <2>1
<1>10. m # 0 => \E d \in DepsOf(dag, id) : m = u[d] + 1
  <2> SUFFICES ASSUME m # 0 PROVE \E d \in DepsOf(dag, id) : m = u[d] + 1
    OBVIOUS
  <2>1. PICK d \in DepsOf(dag, id) : m = 1 + u[d]
    BY <1>2, <1>6
  <2>2. 1 + u[d] = u[d] + 1
    BY <1>3
  <2> QED BY <2>1, <2>2
<1> QED BY <1>7, <1>8, <1>9, <1>10

LEMMA DeeperSame ==
  ASSUME NEW dag, NEW u, NEW v, NEW id \in Ids(dag), \A d \in DepsOf(dag, id) : u[d] = v[d]
  PROVE  Deeper(dag, u)[id] = Deeper(dag, v)[id]
<1>1. {1 + (IF d \in Ids(dag) THEN u[d] ELSE 0) : d \in DepsOf(dag, id)}
        = {1 + (IF d \in Ids(dag) THEN v[d] ELSE 0) : d \in DepsOf(dag, id)}
  OBVIOUS
<1> QED BY <1>1, Zenon DEF Deeper

\* The nodes of a DAG with an order, and their places in it.
LEMMA RunnableIs ==
  ASSUME NEW dag, IsRunnable(dag)
  PROVE  /\ IsFiniteSet(Ids(dag)) /\ Cardinality(Ids(dag)) = Len(dag) /\ Len(dag) \in Nat \ {0}
         /\ \A id \in Ids(dag) : DepsOf(dag, id) \subseteq Ids(dag)
         /\ \E o \in [1 .. Len(dag) -> Ids(dag)] :
              /\ \A id \in Ids(dag) : \E r \in 1 .. Len(dag) : o[r] = id
              /\ \A r \in 1 .. Len(dag) : DepsOf(dag, o[r]) \subseteq {o[s] : s \in 1 .. r - 1}
<1>1. IsDag(dag) /\ ~DuplicateId(dag) /\ ~MissingDependency(dag)
  BY DEF IsRunnable, WellFormed
<1>2. PICK n \in Nat \ {0} : n = Len(dag) /\ DOMAIN dag = 1 .. n
  BY <1>1, DagShape
<1>3. IsFiniteSet(Ids(dag)) /\ Cardinality(Ids(dag)) = n
  BY <1>1, <1>2, IdsOnce
<1>4. ASSUME NEW id \in Ids(dag) PROVE DepsOf(dag, id) \subseteq Ids(dag)
  <2>1. Place(dag, id) \in DOMAIN dag
    BY <1>1, PlaceOf
  <2>2. DepsOf(dag, id) = Range(dag[Place(dag, id)].deps)
    BY <1>1, OnePlace DEF Listed
  <2> QED BY <1>1, <2>1, <2>2, Zenon DEF MissingDependency
<1>5. PICK o : o \in Orders(dag)
  BY DEF IsRunnable
<1>6. o \in [1 .. n -> Ids(dag)] /\ IsInjective(o) /\ Before(dag, o)
  BY <1>2, <1>5 DEF Orders
<1>7. o \in Injection(1 .. n, Ids(dag))
  BY <1>6 DEF Injection
<1>8. o \in Surjection(1 .. n, Ids(dag))
  <2>1. Cardinality(1 .. n) = Cardinality(Ids(dag))
    BY <1>3, UpToN
  <2> QED BY <1>3, <1>7, <2>1, FS_Injection, Zenon
<1>9. \A id \in Ids(dag) : \E r \in 1 .. n : o[r] = id
  BY <1>8 DEF Surjection
<1>10. \A r \in 1 .. n : DepsOf(dag, o[r]) \subseteq {o[s] : s \in 1 .. r - 1}
  BY <1>6 DEF Before
<1> QED BY <1>2, <1>3, <1>4, <1>6, <1>9, <1>10

\* Depths are one more than the greatest depth of a dependency, also after the last
\* round: an order of the nodes has settled by then.
LEMMA DepthsAre ==
  ASSUME NEW dag, IsRunnable(dag)
  PROVE  /\ Depths(dag) \in [Ids(dag) -> 0 .. Len(dag)]
         /\ \A id \in Ids(dag) : \A d \in DepsOf(dag, id) : Depths(dag)[d] < Depths(dag)[id]
         /\ \A id \in Ids(dag) : Depths(dag)[id] # 0 =>
              \E d \in DepsOf(dag, id) : Depths(dag)[id] = Depths(dag)[d] + 1
<1>1. PICK n \in Nat \ {0} : n = Len(dag)
  BY RunnableIs
<1>2. \A id \in Ids(dag) : DepsOf(dag, id) \subseteq Ids(dag)
  BY RunnableIs
<1>3. PICK o \in [1 .. n -> Ids(dag)] :
        /\ \A id \in Ids(dag) : \E r \in 1 .. n : o[r] = id
        /\ \A r \in 1 .. n : DepsOf(dag, o[r]) \subseteq {o[s] : s \in 1 .. r - 1}
  BY <1>1, RunnableIs
<1>4. PICK g : /\ g[0] = [id \in Ids(dag) |-> 0] /\ \A k \in 1 .. n : g[k] = Deeper(dag, g[k - 1])
               /\ Depths(dag) = g[n]
  BY <1>1, DepthsRun
<1> DEFINE Typed == {k \in 0 .. n : g[k] \in [Ids(dag) -> 0 .. k]}
<1>5. \A k \in 0 .. n : g[k] \in [Ids(dag) -> 0 .. k]
  <2>1. 0 \in Typed
    BY <1>4
  <2>2. ASSUME NEW k \in 1 .. n, k - 1 \in Typed PROVE k \in Typed
    <3>1. k - 1 \in Nat /\ (k - 1) + 1 = k /\ g[k - 1] \in [Ids(dag) -> 0 .. k - 1]
      BY <2>2
    <3>2. ASSUME NEW id \in Ids(dag) PROVE g[k][id] \in 0 .. k
      <4>1. Deeper(dag, g[k - 1])[id] \in 0 .. (k - 1) + 1
        BY <1>2, <3>1, DeeperIs
      <4> QED BY <1>4, <3>1, <4>1
    <3>3. g[k] = [id \in Ids(dag) |-> g[k][id]]
      BY <1>4 DEF Deeper
    <3>4. g[k] \in [Ids(dag) -> 0 .. k]
      BY <3>2, <3>3
    <3> QED BY <3>4
  <2> HIDE DEF Typed
  <2>3. \A k \in 0 .. n : k \in Typed
    BY <2>1, <2>2, NoFirstFailure, Zenon
  <2> QED BY <2>3 DEF Typed
<1> DEFINE Settled == {k \in 0 .. n : k # 0 => \A r \in 1 .. k : g[k][o[r]] = g[k - 1][o[r]]}
<1>6. ASSUME NEW k \in 1 .. n, k - 1 \in Settled PROVE k \in Settled
  <2> SUFFICES ASSUME NEW r \in 1 .. k PROVE g[k][o[r]] = g[k - 1][o[r]]
    OBVIOUS
  <2>1. r \in 1 .. n /\ o[r] \in Ids(dag) /\ g[k][o[r]] = Deeper(dag, g[k - 1])[o[r]]
    BY <1>4
  <2>2. CASE k = 1
    <3>1. r = 1 /\ k - 1 = 0
      BY <2>2
    <3>2. DepsOf(dag, o[r]) = {}
      BY <1>3, <2>1, <3>1
    <3>3. g[0] \in [Ids(dag) -> 0 .. 0] /\ g[0][o[r]] = 0
      BY <1>4, <2>1
    <3>4. Deeper(dag, g[0])[o[r]] # 0 =>
            \E d \in DepsOf(dag, o[r]) : Deeper(dag, g[0])[o[r]] = g[0][d] + 1
      BY <1>2, <2>1, <3>3, DeeperIs
    <3> QED BY <2>1, <3>1, <3>2, <3>3, <3>4
  <2>3. CASE k # 1
    <3>1. k - 1 \in 1 .. n /\ k - 1 # 0 /\ (k - 1) - 1 \in 0 .. n
      BY <2>3
    <3>2. \A s \in 1 .. k - 1 : g[k - 1][o[s]] = g[(k - 1) - 1][o[s]]
      BY <1>6, <3>1
    <3>3. \A s \in 1 .. r - 1 : s \in 1 .. k - 1
      BY <2>1
    <3>4. \A d \in DepsOf(dag, o[r]) : g[k - 1][d] = g[(k - 1) - 1][d]
      BY <1>3, <2>1, <3>2, <3>3
    <3>5. Deeper(dag, g[k - 1])[o[r]] = Deeper(dag, g[(k - 1) - 1])[o[r]]
      <4>0. PICK u, v : u = g[k - 1] /\ v = g[(k - 1) - 1]
        OBVIOUS
      <4>1. PICK x \in Ids(dag) : x = o[r]
        BY <2>1
      <4>2. \A d \in DepsOf(dag, x) : u[d] = v[d]
        BY <3>4, <4>0, <4>1
      <4>3. Deeper(dag, u)[x] = Deeper(dag, v)[x]
        BY <4>2, DeeperSame
      <4> QED BY <4>0, <4>1, <4>3
    <3>6. g[k - 1] = Deeper(dag, g[(k - 1) - 1])
      BY <1>4, <3>1
    <3> QED BY <2>1, <3>5, <3>6
  <2> QED BY <2>2, <2>3
<1>7. n \in Settled
  <2>1. 0 \in Settled
    OBVIOUS
  <2> HIDE DEF Settled
  <2>2. \A k \in 0 .. n : k \in Settled
    BY <1>6, <2>1, NoFirstFailure, Zenon
  <2> QED BY <2>2
<1>8. g[n] = g[n - 1]
  <2>1. g[n] \in [Ids(dag) -> 0 .. n] /\ g[n - 1] \in [Ids(dag) -> 0 .. n - 1]
    <3>1. n \in 0 .. n /\ n - 1 \in 0 .. n
      OBVIOUS
    <3> QED BY <1>5, <3>1, ZenonT(60)
  <2>2. \A id \in Ids(dag) : g[n][id] = g[n - 1][id]
    BY <1>3, <1>7
  <2> QED BY <2>1, <2>2
<1>9. g[n] = Deeper(dag, g[n]) /\ g[n] \in [Ids(dag) -> 0 .. n]
  <2>1. g[n] = Deeper(dag, g[n - 1])
    BY <1>4
  <2> QED BY <1>5, <1>8, <2>1
<1>10. PICK u \in [Ids(dag) -> 0 .. n] : u = Depths(dag) /\ u = Deeper(dag, u)
  BY <1>4, <1>9
<1>11. /\ \A id \in Ids(dag) : \A d \in DepsOf(dag, id) : u[d] < u[id]
       /\ \A id \in Ids(dag) : u[id] # 0 => \E d \in DepsOf(dag, id) : u[id] = u[d] + 1
  BY <1>2, <1>10, DeeperIs
<1>12. /\ u \in [Ids(dag) -> 0 .. Len(dag)]
       /\ \A id \in Ids(dag) : \A d \in DepsOf(dag, id) : u[d] < u[id]
       /\ \A id \in Ids(dag) : u[id] # 0 => \E d \in DepsOf(dag, id) : u[id] = u[d] + 1
  BY <1>1, <1>11, Zenon
<1> QED BY <1>10, <1>12, Zenon

\* The nodes a node waits for are less deep, and there are some of every lesser depth.
LEMMA AncestorsAre ==
  ASSUME NEW dag, IsRunnable(dag), NEW id \in Ids(dag)
  PROVE  /\ \A x \in Ancestors(dag, id) : x \in Ids(dag) /\ Depths(dag)[x] < Depths(dag)[id]
         /\ \A j \in 0 .. Depths(dag)[id] - 1 : \E z \in Ancestors(dag, id) : Depths(dag)[z] = j
<1>1. PICK n \in Nat \ {0} : n = Len(dag)
  BY RunnableIs
<1>2. \A x \in Ids(dag) : DepsOf(dag, x) \subseteq Ids(dag)
  BY RunnableIs
<1>3. PICK u : u = Depths(dag)
  OBVIOUS
<1>4. /\ u \in [Ids(dag) -> 0 .. n]
      /\ \A x \in Ids(dag) : \A d \in DepsOf(dag, x) : u[d] < u[x]
      /\ \A x \in Ids(dag) : u[x] # 0 => \E d \in DepsOf(dag, x) : u[x] = u[d] + 1
  BY <1>1, <1>3, DepthsAre
<1>5. PICK g : /\ g[0] = DepsOf(dag, id) /\ \A k \in 1 .. n : g[k] = Wider(dag, g[k - 1])
               /\ Ancestors(dag, id) = g[n]
  BY <1>1, AncestorsRun
<1>6. \A k \in 1 .. n : g[k] = g[k - 1] \cup UNION {DepsOf(dag, x) : x \in g[k - 1]}
  BY <1>5 DEF Wider
<1> DEFINE Lower == {k \in 0 .. n : \A x \in g[k] : x \in Ids(dag) /\ u[x] < u[id]}
<1>7. n \in Lower
  <2>1. 0 \in Lower
    BY <1>2, <1>4, <1>5
  <2>2. ASSUME NEW k \in 1 .. n, k - 1 \in Lower PROVE k \in Lower
    <3> SUFFICES ASSUME NEW x \in g[k] PROVE x \in Ids(dag) /\ u[x] < u[id]
      OBVIOUS
    <3>1. CASE x \in g[k - 1]
      BY <2>2, <3>1
    <3>2. CASE x \notin g[k - 1]
      <4>1. PICK y \in g[k - 1] : x \in DepsOf(dag, y)
        BY <1>6, <3>2
      <4>2. y \in Ids(dag) /\ u[y] < u[id]
        BY <2>2
      <4>3. x \in Ids(dag) /\ u[x] < u[y]
        BY <1>2, <1>4, <4>1, <4>2
      <4>4. u[x] \in 0 .. n /\ u[y] \in 0 .. n /\ u[id] \in 0 .. n
        BY <1>4, <4>2, <4>3
      <4> QED BY <4>2, <4>3, <4>4
    <3> QED BY <3>1, <3>2
  <2> HIDE DEF Lower
  <2>3. \A k \in 0 .. n : k \in Lower
    BY <2>1, <2>2, NoFirstFailure, Zenon
  <2> QED BY <2>3
<1> DEFINE Reached == {k \in 0 .. n : k < u[id] => \E z \in g[k] : z \in Ids(dag) /\ u[z] + k + 1 = u[id]}
<1>8. \A k \in 0 .. n : k < u[id] => \E z \in g[k] : z \in Ids(dag) /\ u[z] + k + 1 = u[id]
  <2>1. 0 \in Reached
    <3> SUFFICES ASSUME 0 < u[id] PROVE \E z \in g[0] : z \in Ids(dag) /\ u[z] + 0 + 1 = u[id]
      OBVIOUS
    <3>1. u[id] # 0
      BY <1>4
    <3>2. PICK d \in DepsOf(dag, id) : u[id] = u[d] + 1
      BY <1>4, <3>1
    <3>3. d \in Ids(dag) /\ u[d] \in 0 .. n
      BY <1>2, <1>4, <3>2
    <3>4. u[d] + 0 + 1 = u[id]
      BY <3>2, <3>3
    <3> QED BY <1>5, <3>2, <3>3, <3>4
  <2>2. ASSUME NEW k \in 1 .. n, k - 1 \in Reached PROVE k \in Reached
    <3> SUFFICES ASSUME k < u[id] PROVE \E z \in g[k] : z \in Ids(dag) /\ u[z] + k + 1 = u[id]
      OBVIOUS
    <3>1. k - 1 < u[id] /\ u[id] \in 0 .. n
      BY <1>4
    <3>2. PICK z \in g[k - 1] : z \in Ids(dag) /\ u[z] + (k - 1) + 1 = u[id]
      BY <2>2, <3>1
    <3>3. u[z] # 0 /\ u[z] \in 0 .. n
      BY <1>4, <3>1, <3>2
    <3>4. PICK d \in DepsOf(dag, z) : u[z] = u[d] + 1
      BY <1>4, <3>2, <3>3
    <3>5. d \in Ids(dag) /\ d \in g[k] /\ u[d] \in 0 .. n
      BY <1>2, <1>4, <1>6, <3>2, <3>4
    <3>6. u[d] + k + 1 = u[id]
      BY <3>1, <3>2, <3>3, <3>4, <3>5
    <3> QED BY <3>5, <3>6
  <2> HIDE DEF Reached
  <2>3. \A k \in 0 .. n : k \in Reached
    BY <2>1, <2>2, NoFirstFailure, Zenon
  <2> QED BY <2>3 DEF Reached
<1> DEFINE Growing == {k \in 0 .. n : \A i \in 0 .. k : g[i] \subseteq g[k]}
<1>9. n \in Growing
  <2>1. 0 \in Growing
    OBVIOUS
  <2>2. ASSUME NEW k \in 1 .. n, k - 1 \in Growing PROVE k \in Growing
    <3> SUFFICES ASSUME NEW i \in 0 .. k PROVE g[i] \subseteq g[k]
      OBVIOUS
    <3>1. g[k - 1] \subseteq g[k]
      BY <1>6
    <3>2. i # k => i \in 0 .. k - 1
      OBVIOUS
    <3>3. \A m \in 0 .. k - 1 : g[m] \subseteq g[k - 1]
      BY <2>2
    <3> QED BY <3>1, <3>2, <3>3
  <2> HIDE DEF Growing
  <2>3. \A k \in 0 .. n : k \in Growing
    BY <2>1, <2>2, NoFirstFailure, Zenon
  <2> QED BY <2>3
<1>10. ASSUME NEW j \in 0 .. u[id] - 1 PROVE \E z \in g[n] : u[z] = j
  <2>1. u[id] \in 0 .. n
    BY <1>4
  <2>2. PICK k \in 0 .. n : k = u[id] - 1 - j /\ k < u[id]
    BY <2>1
  <2>3. PICK z \in g[k] : z \in Ids(dag) /\ u[z] + k + 1 = u[id]
    BY <1>8, <2>2
  <2>4. z \in g[n]
    BY <1>9, <2>2, <2>3
  <2>5. u[z] = j
    <3>1. u[z] \in 0 .. n
      BY <1>4, <2>3
    <3> QED BY <2>1, <2>2, <2>3, <3>1
  <2> QED BY <2>4, <2>5
<1>11. \A x \in g[n] : x \in Ids(dag) /\ u[x] < u[id]
  BY <1>7
<1> QED BY <1>3, <1>5, <1>10, <1>11

\* The nodes of one level could run at once, so there are never more of them than the
\* width, and a DAG whose levels are single nodes is a chain.
THEOREM WidthBoundsAlways ==
  ASSUME NEW dag, IsRunnable(dag)
  PROVE  WidthBounds(dag)
<1>1. PICK n \in Nat \ {0} : n = Len(dag)
  BY RunnableIs
<1>2. IsFiniteSet(Ids(dag)) /\ Cardinality(Ids(dag)) = n
  BY <1>1, RunnableIs
<1>3. PICK u : u = Depths(dag)
  OBVIOUS
<1>4. u \in [Ids(dag) -> 0 .. n]
  BY <1>1, <1>3, DepthsAre
<1>5. ASSUME NEW y \in Ids(dag)
      PROVE  /\ \A x \in Ancestors(dag, y) : x \in Ids(dag) /\ u[x] < u[y]
             /\ \A j \in 0 .. u[y] - 1 : \E z \in Ancestors(dag, y) : u[z] = j
  BY <1>3, AncestorsAre
<1>6. Antichains(dag) = {S \in SUBSET Ids(dag) : \A x, y \in S : x \notin Ancestors(dag, y)}
  BY DEF Antichains
<1> DEFINE Level(id) == {x \in Ids(dag) : u[x] = u[id]}
           Sizes  == {Cardinality(Level(id)) : id \in Ids(dag)}
           Widths == {Cardinality(S) : S \in Antichains(dag)}
<1>7. ComputeMaxParallelism(dag) = Max(Sizes) /\ Width(dag) = Max(Widths)
  BY <1>3 DEF ComputeMaxParallelism, Width
<1>8. \A S \in SUBSET Ids(dag) : IsFiniteSet(S) /\ Cardinality(S) \in 0 .. n
  <2> TAKE S \in SUBSET Ids(dag)
  <2>1. IsFiniteSet(S) /\ Cardinality(S) <= n
    BY <1>2, FS_Subset
  <2>2. Cardinality(S) \in Nat
    BY <2>1, FS_CardinalityType
  <2> QED BY <2>1, <2>2
<1>9. ASSUME NEW id \in Ids(dag)
      PROVE  Level(id) \in Antichains(dag) /\ {id} \in Antichains(dag) /\ id \in Level(id)
  <2>1. \A y \in Ids(dag) : \A x \in Ids(dag) : u[x] = u[y] => x \notin Ancestors(dag, y)
    <3> SUFFICES ASSUME NEW y \in Ids(dag), NEW x \in Ids(dag), u[x] = u[y], x \in Ancestors(dag, y)
                 PROVE  FALSE
      OBVIOUS
    <3>1. u[x] < u[y] /\ u[x] \in 0 .. n /\ u[y] \in 0 .. n
      BY <1>4, <1>5
    <3> QED BY <3>1
  <2> QED BY <1>6, <2>1
<1>10. PICK id0 : id0 \in Ids(dag)
  <2>1. Ids(dag) # {}
    BY <1>1, <1>2, FS_EmptySet
  <2> QED BY <2>1
<1>11. Sizes \in SUBSET (0 .. n) /\ Sizes # {}
  <2>1. \A id \in Ids(dag) : Cardinality(Level(id)) \in 0 .. n
    BY <1>8
  <2> HIDE DEF Level
  <2> QED BY <1>10, <2>1
<1>12. Widths \in SUBSET (0 .. n) /\ Widths # {}
  <2>1. Antichains(dag) \subseteq SUBSET Ids(dag)
    BY <1>6
  <2>2. \A S \in Antichains(dag) : Cardinality(S) \in 0 .. n
    BY <1>8, <2>1
  <2>3. {id0} \in Antichains(dag)
    BY <1>9, <1>10
  <2> QED BY <2>2, <2>3
<1>13. PICK levels, width : levels = Max(Sizes) /\ width = Max(Widths)
  OBVIOUS
<1>14. levels \in Sizes /\ \A m \in Sizes : levels >= m
  <2> HIDE DEF Sizes
  <2> QED BY <1>11, <1>13, MaxIn
<1>15. width \in Widths /\ \A m \in Widths : width >= m
  <2> HIDE DEF Widths
  <2> QED BY <1>12, <1>13, MaxIn
<1>16. levels \in 0 .. n /\ width \in 0 .. n
  BY <1>11, <1>12, <1>14, <1>15
<1>17. levels <= width
  <2>1. PICK id \in Ids(dag) : levels = Cardinality(Level(id))
    BY <1>14
  <2>2. levels \in Widths
    BY <1>9, <2>1
  <2> QED BY <1>15, <1>16, <2>2
<1>18. levels >= 1
  <2>1. Level(id0) # {} /\ IsFiniteSet(Level(id0)) /\ Cardinality(Level(id0)) \in 0 .. n
    BY <1>8, <1>9, <1>10
  <2>2. Cardinality(Level(id0)) # 0
    BY <2>1, FS_EmptySet
  <2>3. levels >= Cardinality(Level(id0))
    BY <1>10, <1>14
  <2> QED BY <1>16, <2>1, <2>2, <2>3
<1>19. ASSUME levels = 1 PROVE width = 1
  <2>1. \A x, y \in Ids(dag) : u[x] = u[y] => x = y
    <3> SUFFICES ASSUME NEW x \in Ids(dag), NEW y \in Ids(dag), u[x] = u[y] PROVE x = y
      OBVIOUS
    <3>1. IsFiniteSet(Level(x)) /\ Cardinality(Level(x)) \in 0 .. n /\ Cardinality(Level(x)) <= 1
      BY <1>8, <1>14, <1>16, <1>19
    <3>2. x \in Level(x) /\ y \in Level(x)
      OBVIOUS
    <3>3. Cardinality(Level(x)) # 0
      BY <3>1, <3>2, FS_EmptySet
    <3>4. Cardinality(Level(x)) = 1
      BY <3>1, <3>3
    <3>5. \E z : Level(x) = {z}
      BY <3>1, <3>4, FS_Singleton
    <3> QED BY <3>2, <3>5
  <2>2. ASSUME NEW S \in Antichains(dag), NEW x \in S, NEW y \in S, u[x] < u[y] PROVE FALSE
    <3>1. x \in Ids(dag) /\ y \in Ids(dag) /\ x \notin Ancestors(dag, y)
      BY <1>6
    <3>2. u[x] \in 0 .. u[y] - 1
      BY <1>4, <2>2, <3>1
    <3>3. PICK z \in Ancestors(dag, y) : u[z] = u[x]
      BY <1>5, <3>1, <3>2
    <3>4. z \in Ids(dag)
      BY <1>5, <3>1
    <3> QED BY <2>1, <3>1, <3>3, <3>4
  <2>3. PICK S \in Antichains(dag) : width = Cardinality(S)
    BY <1>15
  <2>4. \A x, y \in S : x = y
    <3> SUFFICES ASSUME NEW x \in S, NEW y \in S, x # y PROVE FALSE
      OBVIOUS
    <3>1. x \in Ids(dag) /\ y \in Ids(dag)
      BY <1>6
    <3>2. u[x] # u[y] /\ u[x] \in 0 .. n /\ u[y] \in 0 .. n
      BY <1>4, <2>1, <3>1
    <3>3. u[x] < u[y] \/ u[y] < u[x]
      BY <3>2
    <3> QED BY <2>2, <3>3
  <2>5. PICK x : x \in S
    <3>1. S # {}
      BY <1>16, <1>17, <1>18, <2>3, FS_EmptySet
    <3> QED BY <3>1
  <2>6. S = {x}
    BY <2>4, <2>5
  <2> QED BY <2>3, <2>6, FS_Singleton
<1>20. width = 1 => levels = 1
  BY <1>16, <1>17, <1>18
<1> QED BY <1>7, <1>13, <1>17, <1>19, <1>20 DEF WidthBounds

\* The five nodes of planDagForRun are a DAG that the planner accepts.
LEMMA ChatDagHas ==
  /\ DOMAIN ChatDag = 1 .. 5
  /\ \A i \in 1 .. 5 : ChatDag[i].id = i /\ Range(ChatDag[i].deps) \subseteq 1 .. i - 1
  /\ Kinds(ChatDag) = Mandatory
<1>1. DOMAIN ChatDag = 1 .. 5
  BY DEF ChatDag
<1>2. /\ ChatDag[1].id = 1 /\ ChatDag[1].kind = "PLAN_DAG" /\ ChatDag[1].deps = <<>>
      /\ ChatDag[2].id = 2 /\ ChatDag[2].kind = "PERSIST_USER_MESSAGE" /\ ChatDag[2].deps = <<1>>
      /\ ChatDag[3].id = 3 /\ ChatDag[3].kind = "LLM_CHAT" /\ ChatDag[3].deps = <<2>>
      /\ ChatDag[4].id = 4 /\ ChatDag[4].kind = "ENFORCE_REPLY_CONSTRAINTS" /\ ChatDag[4].deps = <<3>>
      /\ ChatDag[5].id = 5 /\ ChatDag[5].kind = "PERSIST_ASSISTANT_MESSAGE" /\ ChatDag[5].deps = <<4>>
  BY DEF ChatDag, Node
<1>3. \A i \in 1 .. 5 : i = 1 \/ i = 2 \/ i = 3 \/ i = 4 \/ i = 5
  OBVIOUS
<1>4. \A x \in Nat : Range(<<x>>) = {x}
  BY DEF Range
<1>5. Range(<<>>) = {}
  BY DEF Range
<1>6. \A i \in 1 .. 5 : ChatDag[i].id = i /\ Range(ChatDag[i].deps) \subseteq 1 .. i - 1
  <2>1. /\ Range(ChatDag[1].deps) = {} /\ Range(ChatDag[2].deps) = {1}
        /\ Range(ChatDag[3].deps) = {2} /\ Range(ChatDag[4].deps) = {3} /\ Range(ChatDag[5].deps) = {4}
    BY <1>2, <1>4, <1>5
  <2>2. /\ {} \subseteq 1 .. 1 - 1 /\ {1} \subseteq 1 .. 2 - 1 /\ {2} \subseteq 1 .. 3 - 1
        /\ {3} \subseteq 1 .. 4 - 1 /\ {4} \subseteq 1 .. 5 - 1
    OBVIOUS
  <2> QED BY <1>2, <1>3, <2>1, <2>2
<1>7. Kinds(ChatDag) = Mandatory
  BY <1>1, <1>2, <1>3 DEF Kinds, Mandatory
<1> QED BY <1>1, <1>6, <1>7

LEMMA ChatDagRuns == IsRunnable(ChatDag) /\ Ids(ChatDag) = 1 .. 5
<1>1. IsDag(ChatDag) /\ Len(ChatDag) = 5
  BY ChatDagIs
<1>2. Ids(ChatDag) = 1 .. 5
  BY ChatDagHas DEF Ids
<1>3. IsFiniteSet(1 .. 5) /\ Cardinality(1 .. 5) = 5
  BY UpToN
<1>4. ~DuplicateId(ChatDag)
  BY <1>1, <1>2, <1>3 DEF DuplicateId
<1>5. ~MissingDependency(ChatDag)
  <2>1. \A i \in 1 .. 5 : 1 .. i - 1 \subseteq 1 .. 5
    OBVIOUS
  <2> QED BY <1>2, <2>1, ChatDagHas DEF MissingDependency
<1>6. PICK o : o = [i \in 1 .. 5 |-> i]
  OBVIOUS
<1>7. o \in [DOMAIN ChatDag -> Ids(ChatDag)] /\ IsInjective(o)
  BY <1>2, <1>6, ChatDagHas DEF IsInjective
<1>8. Before(ChatDag, o)
  <2> SUFFICES ASSUME NEW i \in 1 .. 5
               PROVE  DepsOf(ChatDag, o[i]) \subseteq {o[j] : j \in 1 .. i - 1}
    BY <1>6 DEF Before
  <2>1. Place(ChatDag, i) \in 1 .. 5 /\ ChatDag[Place(ChatDag, i)].id = i
    BY <1>1, <1>2, PlaceOf, ChatDagHas
  <2>2. Place(ChatDag, i) = i
    BY <2>1, ChatDagHas
  <2>3. DepsOf(ChatDag, i) = Range(ChatDag[i].deps)
    BY <1>1, <1>2, <1>4, <2>2, OnePlace DEF Listed
  <2>4. \A j \in 1 .. i - 1 : o[j] = j
    BY <1>6
  <2> QED BY <1>6, <2>3, <2>4, ChatDagHas
<1>9. Orders(ChatDag) # {}
  BY <1>7, <1>8 DEF Orders
<1> QED BY <1>1, <1>2, <1>4, <1>5, <1>9 DEF IsRunnable, WellFormed

LEMMA ChatDagIsValid ==
  ASSUME NEW c, c.max_depth = None, c.max_parallelism = None
  PROVE  IsValid(ChatDag, c)
<1>1. HasMandatoryNodes(ChatDag)
  BY ChatDagHas DEF HasMandatoryNodes
<1>2. IsCycleFree(ChatDag)
  <2>1. OrderAgrees(ChatDag)
    BY ChatDagRuns, OrderAgreesAlways DEF IsRunnable
  <2>2. ~DuplicateId(ChatDag) /\ WellFormed(ChatDag) /\ Orders(ChatDag) # {}
    BY ChatDagRuns DEF IsRunnable, WellFormed
  <2> QED BY <2>1, <2>2, Zenon DEF OrderAgrees
<1>3. CheckConstraintsCompatible(ChatDag, c)
  BY DEF CheckConstraintsCompatible
<1>4. ComputeMaxParallelism(ChatDag) <= 10
  <2>1. PICK u : u = Depths(ChatDag)
    OBVIOUS
  <2> DEFINE widths == {Cardinality({x \in 1 .. 5 : u[x] = u[id]}) : id \in 1 .. 5}
  <2>2. \A id \in 1 .. 5 : Cardinality({x \in 1 .. 5 : u[x] = u[id]}) \in 0 .. 5
    <3> TAKE id \in 1 .. 5
    <3>1. PICK S : S = {x \in 1 .. 5 : u[x] = u[id]}
      OBVIOUS
    <3>2. IsFiniteSet(1 .. 5) /\ Cardinality(1 .. 5) = 5 /\ S \in SUBSET (1 .. 5)
      BY <3>1, UpToN
    <3>3. IsFiniteSet(S) /\ Cardinality(S) <= 5
      BY <3>2, FS_Subset
    <3> QED BY <3>1, <3>3, FS_CardinalityType
  <2>3. widths \in SUBSET (0 .. 5) /\ widths # {}
    <3>1. Cardinality({x \in 1 .. 5 : u[x] = u[1]}) \in widths
      OBVIOUS
    <3>2. widths \in SUBSET (0 .. 5)
      BY <2>2, Zenon
    <3> QED BY <3>1, <3>2
  <2>4. ComputeMaxParallelism(ChatDag) = Max(widths)
    BY <2>1, ChatDagRuns, Zenon DEF ComputeMaxParallelism
  <2> HIDE DEF widths
  <2>5. Max(widths) \in widths
    BY <2>3, MaxIn
  <2> QED BY <2>3, <2>4, <2>5
<1>5. (IF c.max_parallelism = None THEN 10 ELSE c.max_parallelism) = 10
  OBVIOUS
<1> QED BY <1>1, <1>2, <1>3, <1>4, <1>5 DEF IsValid

=============================================================================
