------------------------------- MODULE Bands -------------------------------
(* Discrepancies as percentages of a baseline, shared by the intake        *)
(* (webhook and scheduler) and by detect_discrepancy.                      *)
EXTENDS Integers

Gap(expected, actual) ==
    IF expected >= actual THEN expected - actual ELSE actual - expected

Base(expected) == IF expected > 1 THEN expected ELSE 1

(* discrepancy_pct >= pct, without the division.  Python compares the float  *)
(* gap / base * 100 with the float pct.  At 5, 20 and 50, the bands of       *)
(* SEVERITY_THRESHOLDS and the threshold that is shipped, the two agree;     *)
(* this is not claimed of an arbitrary threshold.                            *)
Reaches(expected, actual, pct) ==
    100 * Gap(expected, actual) >= pct * Base(expected)
=============================================================================
