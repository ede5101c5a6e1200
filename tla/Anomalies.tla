----------------------------- MODULE Anomalies ------------------------------
(***************************************************************************)
(* The statistics of _detect_quality_anomalies (app/main.py) for the tools *)
(* of one process step, in exact arithmetic.  The code computes in floats, *)
(* and at a threshold met exactly it may come out on either side.          *)
(***************************************************************************)
EXTENDS Integers, FiniteSetsExt

CONSTANTS
  StepTools,       \* the tools of the step, a finite table
  Batches,         \* <<inspections, failures>> that arrive together
  MaxInspections   \* bound: inspections of one tool

ASSUME AnomaliesAssumption ==
  /\ IsFiniteSet(StepTools)
  /\ Batches \subseteq Nat \X Nat
  /\ \A b \in Batches : b[2] <= b[1]
  /\ MaxInspections \in Nat

VARIABLE inspected   \* quality_inspection rows of each tool: how many, how many FAIL

AnomaliesInit == inspected = [t \in StepTools |-> [total |-> 0, failures |-> 0]]

Inspect(t, b) ==
  /\ inspected[t].total + b[1] <= MaxInspections
  /\ inspected' = [inspected EXCEPT ![t] =
       [total |-> @.total + b[1], failures |-> @.failures + b[2]]]

-----------------------------------------------------------------------------

ANOMALY_MIN_INSPECTIONS == 10

Samples == {t \in StepTools : inspected[t].total >= ANOMALY_MIN_INSPECTIONS}

\* Mutant: a tool is one of its own peers.
AllSamples(t) == Samples

Peers(t) == Samples \ {t}

\* Rates over the common denominator of the samples.
Scale == MapThenFoldSet(LAMBDA x, y : x * y, 1, LAMBDA t : inspected[t].total,
                        LAMBDA S : CHOOSE t \in S : TRUE, Samples)
Rate(t) == inspected[t].failures * (Scale \div inspected[t].total)

SumRates(ts) == MapThenSumSet(Rate, ts)
SumSquares(ts) == MapThenSumSet(LAMBDA t : Rate(t) * Rate(t), ts)

\* rate_delta and the variance of the peers' rates: the first times |Peers| *
\* Scale, the second times the square of that.
Delta(t) == Cardinality(Peers(t)) * Rate(t) - SumRates(Peers(t))
Variance(t) ==
  Cardinality(Peers(t)) * SumSquares(Peers(t)) - SumRates(Peers(t)) * SumRates(Peers(t))

\* Mutant: one deviation is enough.
OneDeviation(t) == Delta(t) > 0 /\ Variance(t) <= Delta(t) * Delta(t)

\* z_score >= 2; peers without deviation make any positive delta an outlier.
Deviates(t) == Delta(t) > 0 /\ 4 * Variance(t) <= Delta(t) * Delta(t)

\* rate_delta >= n / 100.
DeltaAtLeast(t, n) == 100 * Delta(t) >= n * Cardinality(Peers(t)) * Scale

MayBeFlagged(t) ==
  /\ t \in Samples /\ Cardinality(Peers(t)) >= 2
  /\ DeltaAtLeast(t, 10) /\ Deviates(t)

\* ... and not just by a rounding: no threshold is met exactly.
IsFlagged(t) ==
  /\ MayBeFlagged(t)
  /\ 100 * Delta(t) # 10 * Cardinality(Peers(t)) * Scale
  /\ Variance(t) = 0 \/ 4 * Variance(t) # Delta(t) * Delta(t)

-----------------------------------------------------------------------------

AnomaliesTypeOK ==
  \A t \in StepTools : inspected[t].total \in 0 .. MaxInspections
                       /\ inspected[t].failures \in 0 .. inspected[t].total

\* At a step of up to five tools at most one is called anomalous, and it fails
\* strictly more often than the others: nobody is sent to inspect a tool that
\* is better than a peer.  With six, two that always fail beside four that never
\* do may both be named: each is just two deviations above its peers.
OnlyTheWorstTool ==
  \A t \in StepTools : MayBeFlagged(t) => \A u \in Samples \ {t} : Rate(u) < Rate(t)

\* A tool that fails more often than its worst peer, by more than ten points
\* and by more than the peers differ from each other, is always found: equal
\* peers do not hide it, nor does its own rate.
ClearOutlierIsFound ==
  \A t \in Samples :
    LET peers == Samples \ {t}
        worst == Max({Rate(u) : u \in peers})
        best  == Min({Rate(u) : u \in peers})
    IN  /\ Cardinality(peers) >= 2
        /\ 10 * (Rate(t) - worst) > Scale
        /\ Rate(t) - worst > worst - best
        => IsFlagged(t)
=============================================================================
