------------------------------ MODULE Estimate ------------------------------
(***************************************************************************)
(* The way of the numbers, from the square to the digits: initialize()     *)
(* makes the subproblems (Square), the computing thread of a worker counts *)
(* the hits of one after the other (WorkerThread), and getResult() sums up *)
(* and divides (PiResult).  The messages in between are DistPi's matter:   *)
(* here the job is what Work says of the next subproblem, and the hits of  *)
(* a Result are in the ledger at once.  The subproblems are computed in    *)
(* the order of the list, which pop() hands out; no hits depend on it.     *)
(***************************************************************************)
EXTENDS PiResult, WorkerThread, FiniteSets

VARIABLE found   \* the hits of the subproblems that are solved

serverVars   == <<vars, resultVars>>
estimateVars == <<serverVars, threadVars, found>>

Solved == pc = "returned" /\ Len(found) = Len(subproblems)

(* What the Work of sendSubproblem() asks for.                             *)
NextJob ==
  [segmentId |-> subproblems[Len(found) + 1], side |-> side, points |-> points]

(* The hits of a segment when everything is solved.                        *)
HitsFound(s) ==
  IF Listed(s) THEN found[CHOOSE n \in 1..Len(subproblems) : subproblems[n] = s]
  ELSE squareSegments[s]

-----------------------------------------------------------------------------
Initialize == Next /\ UNCHANGED <<resultVars, threadVars, found>>

WorkReceived ==
  /\ pc = "returned" /\ Len(found) < Len(subproblems)
  /\ Begin(NextJob) \/ BeginFails(NextJob)
  /\ UNCHANGED <<serverVars, found>>

Compute == (Computing \/ TakeSignal) /\ UNCHANGED <<serverVars, found>>

(* The worker reports and the ledger has it.                               *)
ResultReceived ==
  /\ GetResult
  /\ found' = Append(found, result'.hits)
  /\ UNCHANGED serverVars

Evaluate ==
  /\ Solved
  /\ AddHits(HitsFound(summed + 1)) \/ DivideAndPrint
  /\ UNCHANGED <<vars, threadVars, found>>

EstimateInit == ResultInit /\ ThreadInit /\ found = <<>>

EstimateNext ==
  Initialize \/ WorkReceived \/ Compute \/ ResultReceived \/ Evaluate

EstimateSpec == EstimateInit /\ [][EstimateNext]_estimateVars /\ ThreadFairness

-----------------------------------------------------------------------------
(* The types of the parts; no subproblem has more hits than points.        *)
EstimateTypeOK ==
  /\ TypeOK /\ ThreadTypeOK /\ ResultTypeOK
  /\ found \in Seq(0..points) /\ Len(found) <= Len(subproblems)

(* The square in units of a segment: cells that lie in the circle, and     *)
(* those that have a point in it.                                          *)
Cells == (0..side - 1) \X (0..side - 1)
Inner == {c \in Cells : (c[1] + 1) * (c[1] + 1) + (c[2] + 1) * (c[2] + 1) <= side * side}
Outer == {c \in Cells : c[1] * c[1] + c[2] * c[2] <= side * side}

(* EstimateIsBracketed: whatever points were drawn, the estimate that is   *)
(* printed lies between four times the share of the cells inside and four  *)
(* times that of the cells the circle reaches, as pi itself does: the more *)
(* segments, the closer.  It needs the geometry, the counting thread, the  *)
(* sum and the division to be right.                                       *)
EstimateIsBracketed ==
  Fits /\ stage = "printed" =>
    /\ scale * (4 * Cardinality(Inner)) < (printed + 1) * (side * side)
    /\ printed * (side * side) <= scale * (4 * Cardinality(Outer))
=============================================================================
