----------------------------- MODULE MCEstimate -----------------------------
(***************************************************************************)
(* Estimate for TLC.  The pass over the square goes through all sides;     *)
(* subproblems are computed for small squares, and for one segment with so *)
(* many points that the divisor wraps to 0.                                *)
(***************************************************************************)
EXTENDS Estimate

MCPointsOf == <<{1, 2, 24, 25, 26, 64, 256}, 1..7, {1, 2}, {1}>>

MCBounded ==
  \/ pc = "looping" /\ points <= 3
  \/ /\ side \in DOMAIN MCPointsOf /\ points \in MCPointsOf[side]
     /\ points > 64 => digitsAfterDot = 1
=============================================================================
