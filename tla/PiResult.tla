------------------------------ MODULE PiResult ------------------------------
(***************************************************************************)
(* SolutionManager::getResult() and decimalExpansion()                     *)
(* (src/solution_manager.cpp), after the pass of initialize(): the hits of *)
(* all segments are summed up, and four times the sum is divided by the    *)
(* number of points, digit by digit, all in unsigned 64-bit integers.      *)
(* Each segment is read once, so its hits are chosen when it is read:      *)
(* those initialize() gave it, or any number a worker may have counted.    *)
(***************************************************************************)
EXTENDS Square

CONSTANTS
  UInt64Size,    \* how many values a uint64_t has
  MaxDigits      \* the largest number of digits

ASSUME ResultAssumption ==
  UInt64Size \in Nat \ {0} /\ MaxDigits \in Nat \ {0}

UInt64(n) == n % UInt64Size

VARIABLES
  digitsAfterDot, \* what configure() was given, besides side and points
  stage,          \* "calling", "summing", "expanding", "printed", "SIGFPE"
  summed,         \* how many segments are summed up
  chosenPoints,   \* the divisor
  pointsHitSum,
  dividend,
  remainder,
  currentDigit,
  printed,        \* what is printed, as a number without its dot
  hits, scale     \* history: the sum without a width; 10 ^ currentDigit

resultVars == <<digitsAfterDot, stage, summed, chosenPoints, pointsHitSum,
                dividend, remainder, currentDigit, printed, hits, scale>>

ResultTypeOK ==
  /\ digitsAfterDot \in 1..MaxDigits
  /\ stage \in {"calling", "summing", "expanding", "printed", "SIGFPE"}
  /\ summed \in 0..side * side
  /\ chosenPoints \in 0..UInt64Size - 1 /\ pointsHitSum \in 0..UInt64Size - 1
  /\ dividend \in 0..UInt64Size - 1 /\ remainder \in 0..UInt64Size - 1
  /\ currentDigit \in 0..digitsAfterDot
  /\ printed \in Nat /\ hits \in 0..summed * points /\ scale \in Nat \ {0}

ResultInit ==
  /\ Init
  /\ digitsAfterDot \in 1..MaxDigits
  /\ stage = "calling"
  /\ summed = 0 /\ chosenPoints = 0 /\ pointsHitSum = 0
  /\ dividend = 0 /\ remainder = 0 /\ currentDigit = 0
  /\ printed = 0 /\ hits = 0 /\ scale = 1

ChosenOnce(p, s) == UInt64(p * s)   \* mutant: one side is forgotten
Chosen(p, s)     == UInt64(UInt64(p * s) * s)

ChoosePoints ==
  /\ stage = "calling" /\ pc = "returned"
  /\ stage' = "summing"
  /\ chosenPoints' = Chosen(points, side)
  /\ UNCHANGED <<digitsAfterDot, summed, pointsHitSum, dividend,
                 remainder, currentDigit, printed, hits, scale>>

(* The hits a segment may have.                                            *)
HitsOf(s) == IF Listed(s) THEN 0..points ELSE {squareSegments[s]}

AddHits(h) ==
  /\ stage = "summing" /\ summed < side * side
  /\ summed' = summed + 1
  /\ pointsHitSum' = UInt64(pointsHitSum + h)
  /\ hits' = hits + h
  /\ UNCHANGED <<digitsAfterDot, stage, chosenPoints, dividend,
                 remainder, currentDigit, printed, scale>>

AddSegment == \E h \in HitsOf(summed + 1) : AddHits(h)

(* The division before the dot; by zero it raises SIGFPE.                  *)
Divide ==
  /\ stage = "summing" /\ summed = side * side
  /\ dividend' = UInt64(4 * pointsHitSum)
  /\ \/ /\ chosenPoints # 0
        /\ printed' = dividend' \div chosenPoints
        /\ remainder' = dividend' % chosenPoints
        /\ stage' = "expanding"
     \/ /\ chosenPoints = 0
        /\ stage' = "SIGFPE"
        /\ UNCHANGED <<printed, remainder>>
  /\ UNCHANGED <<digitsAfterDot, summed, chosenPoints, pointsHitSum,
                 currentDigit, hits, scale>>

MoreDigitsButOne(n) == n + 1 < digitsAfterDot   \* mutant: one digit too few
MoreDigits(n) == n # digitsAfterDot

(* One turn of the loop of decimalExpansion().                             *)
NextDigit ==
  /\ stage = "expanding" /\ MoreDigits(currentDigit)
  /\ LET shifted == UInt64(remainder * 10)
         newDigit == shifted \div chosenPoints
     IN  /\ remainder' = UInt64(shifted - newDigit * chosenPoints)
         /\ printed' = printed * 10 + newDigit
  /\ currentDigit' = currentDigit + 1
  /\ scale' = scale * 10
  /\ UNCHANGED <<digitsAfterDot, stage, summed, chosenPoints,
                 pointsHitSum, dividend, hits>>

PutOut ==
  /\ stage = "expanding" /\ ~MoreDigits(currentDigit)
  /\ stage' = "printed"
  /\ UNCHANGED <<digitsAfterDot, summed, chosenPoints, pointsHitSum,
                 dividend, remainder, currentDigit, printed, hits, scale>>

(* What getResult() does but for the sum.                                  *)
DivideAndPrint == ChoosePoints \/ Divide \/ NextDigit \/ PutOut

ResultNext ==
  \/ Next /\ UNCHANGED resultVars
  \/ (AddSegment \/ DivideAndPrint) /\ UNCHANGED vars

ResultSpec == ResultInit /\ [][ResultNext]_<<vars, resultVars>>

-----------------------------------------------------------------------------
AllPoints == (points * side) * side

(* The numbers of points for which 64 bits are enough: the remainder,      *)
(* which is below the divisor, must stay a uint64_t when multiplied by 10. *)
Fits == 10 * AllPoints <= UInt64Size

(* What is printed is the quotient of all hits, times four, and all        *)
(* points, with the number of digits that was asked for; the rest of the   *)
(* quotient is cut off, not rounded.                                       *)
AsAskedFor ==
  /\ currentDigit = digitsAfterDot
  /\ printed * AllPoints <= scale * (4 * hits)
  /\ scale * (4 * hits) < (printed + 1) * AllPoints

(* AnswerIsTruncated: where 64 bits are enough no division is by zero, and *)
(* what getResult() returns is the truncated quotient, for whatever hits   *)
(* the workers found.                                                      *)
AnswerIsTruncated ==
  Fits => stage # "SIGFPE" /\ (stage = "printed" => AsAskedFor)

(* ExpansionIsExact: all along the loop of decimalExpansion() the digits   *)
(* so far and the remainder make up the quotient exactly, where 64 bits    *)
(* are enough: nothing is lost between two digits.                         *)
ExpansionIsExact ==
  Fits /\ stage \in {"expanding", "printed"} =>
    /\ scale * (4 * hits) = printed * AllPoints + remainder
    /\ remainder < AllPoints
=============================================================================
