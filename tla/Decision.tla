------------------------------ MODULE Decision ------------------------------
(***************************************************************************)
(* The verdict (packages/signature_core/decision.py): how a writer's own   *)
(* spread sets the threshold, and the verdict, band and confidence a       *)
(* distance gets.  A distance is a natural number of thousandths, a        *)
(* confidence a natural number of hundredths of a percent; floating point  *)
(* rounding below these units is left out.                                 *)
(***************************************************************************)
EXTENDS Integers, FiniteSets, Functions

CONSTANTS
  Ceiling,   \* THRESHOLD, 0.3999 in the code
  Margin     \* BORDERLINE_MARGIN

Far == 2000  \* two unit vectors are never further apart

ASSUME DecisionAssumption == Ceiling \in 1..(Far - 1) /\ Margin \in Nat \ {0}

Least(a, b) == IF a < b THEN a ELSE b

Count(f) == Cardinality(DOMAIN f)

Total(f) == SumFunction(f)

(* n^2 times the variance of the n values of f.                            *)
Spread(f) == Count(f) * Total([x \in DOMAIN f |-> f[x] * f[x]]) - Total(f) * Total(f)

(* Deviation: the spread alone.                                            *)
WriterThresholdBySpread(intra) ==
  LET n == Count(intra)
      spread == Spread(intra)
      Admits(t) == (20 * n * t) * (20 * n * t) <= 49 * spread
  IN  IF n < 2 \/ spread = 0 THEN Ceiling
      ELSE CHOOSE t \in 0..Ceiling : Admits(t) /\ (t = Ceiling \/ ~ Admits(t + 1))

(* mean + 0.35 * spread, but never more than the ceiling; the ceiling      *)
(* where there is no spread to measure.                                    *)
WriterThreshold(intra) ==
  LET n      == Count(intra)
      total  == Total(intra)
      spread == Spread(intra)
      Admits(t) == LET past == 20 * (n * t - total)
                   IN  past <= 0 \/ past * past <= 49 * spread
  IN  IF n < 2 \/ spread = 0 THEN Ceiling
      ELSE CHOOSE t \in Least(total \div n, Ceiling)..Ceiling :
             Admits(t) /\ (t = Ceiling \/ ~ Admits(t + 1))

(* Deviation: measured against the ceiling, whatever the threshold is.     *)
ConfidenceByCeiling(d, t) ==
  IF d <= Ceiling THEN 9900 - (1900 * d) \div Ceiling
  ELSE 7900 - Least(7900, (7900 * (d - Ceiling)) \div (Far - Ceiling))

Confidence(d, t) ==
  IF d <= t THEN 9900 - (1900 * d) \div t
  ELSE 7900 - Least(7900, (7900 * (d - t)) \div (Far - t))

Near(d, t) == d - t < Margin /\ t - d < Margin

Verdict(d, t) == IF d < t THEN "VALID" ELSE "FRAUD"

Band(d, t) ==
  IF Near(d, t) THEN "borderline" ELSE IF d < t THEN "valid" ELSE "fraud"

MeanDistance(f) == Total(f) \div Count(f)
=============================================================================
