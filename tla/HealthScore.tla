----------------------------- MODULE HealthScore -----------------------------
(***************************************************************************)
(* internal/health/scorer.go: the score of a backend from its latency and  *)
(* error rate.  An error rate is a fraction failures / samples; dividing   *)
(* by zero is possible, see HealthTracker.                                 *)
(***************************************************************************)
EXTENDS Integers

LatencyPenalty(latencyMs) ==
    CASE latencyMs > 2000 -> 40
      [] latencyMs > 1000 /\ latencyMs <= 2000 -> 25
      [] latencyMs > 500 /\ latencyMs <= 1000 -> 15
      [] latencyMs > 200 /\ latencyMs <= 500 -> 8
      [] latencyMs > 100 /\ latencyMs <= 200 -> 4
      [] OTHER -> 0

\* Fault: the score is rounded and not clamped.
clampScoreNot(a, n) == (2 * a + n) \div (2 * n)

\* The score a / n, clamped and rounded to the nearest integer.
clampScore(a, n) ==
    IF a < 0 THEN 0 ELSE IF a > 100 * n THEN 100 ELSE (2 * a + n) \div (2 * n)

\* int(math.Round(NaN)) depends on the processor: 0 or the smallest integer, for
\* which any negative number will do.
NaNScores == {0, -1}

\* Fault: the error rate is not subtracted.
ScoreFromSignalsLatency(latencyMs, failures, samples) ==
    {clampScore(100 - LatencyPenalty(latencyMs), 1)}

\* The scores that the function may return.  x / 0 is infinite and 0 / 0 is NaN,
\* which no comparison of clampScore holds for.
ScoreFromSignals(latencyMs, failures, samples) ==
    LET points == 100 - LatencyPenalty(latencyMs) - (IF 2 * failures > samples THEN 20 ELSE 0)
    IN  CASE samples > 0 -> {clampScore(points * samples - 100 * failures, samples)}
          [] samples = 0 /\ failures > 0 -> {0}
          [] samples = 0 /\ failures = 0 -> NaNScores
=============================================================================
