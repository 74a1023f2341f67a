------------------------------- MODULE Square -------------------------------
(***************************************************************************)
(* SolutionManager::initialize() (src/solution_manager.cpp): one pass over *)
(* the segments of the square, which settles those whose result is known   *)
(* and makes a subproblem of every other one.                              *)
(***************************************************************************)
EXTENDS Segment, Sequences

VARIABLES
  side, points,     \* what configure() was given
  i,                \* the index of the loop: segments 1..i are done
  squareSegments,   \* the hits of the segments that are done
  subproblems,      \* the list of subproblems, by their segments
  pc                \* "looping" or "returned"

vars == <<side, points, i, squareSegments, subproblems, pc>>

TypeOK ==
  /\ side \in 1..MaxSide
  /\ points \in 1..MaxPoints
  /\ i \in 0..side * side
  /\ squareSegments \in [1..i -> {0, points}]
  /\ subproblems \in Seq(1..i)
  /\ pc \in {"looping", "returned"}

(* The constructor throws for a side setSide() does not accept, and for no *)
(* points at all.                                                          *)
Init ==
  /\ side \in {s \in 1..MaxSide + 1 : SideAccepted(s)}
  /\ points \in 1..MaxPoints
  /\ i = 0
  /\ squareSegments = <<>>
  /\ subproblems = <<>>
  /\ pc = "looping"

(* The next segment is known, and gets its hits ...                        *)
Settle ==
  /\ pc = "looping" /\ i < side * side
  /\ IsResultKnown(i + 1, side)
  /\ i' = i + 1
  /\ squareSegments' =
       Append(squareSegments,
              IF IsWholeInsideCircle(i + 1, side) THEN points ELSE 0)
  /\ UNCHANGED <<side, points, subproblems, pc>>

(* ... or is not, and is a subproblem; its hits stay what Segment() says.  *)
PushBack ==
  /\ pc = "looping" /\ i < side * side
  /\ ~IsResultKnown(i + 1, side)
  /\ i' = i + 1
  /\ squareSegments' = Append(squareSegments, 0)
  /\ subproblems' = Append(subproblems, i + 1)
  /\ UNCHANGED <<side, points, pc>>

Return ==
  /\ pc = "looping" /\ i = side * side
  /\ pc' = "returned"
  /\ UNCHANGED <<side, points, i, squareSegments, subproblems>>

Next == Settle \/ PushBack \/ Return

Spec == Init /\ [][Next]_vars

-----------------------------------------------------------------------------
(* A point (x/d, y/d) of the plane, d > 0, lies in the circle of radius r. *)
InCircle(x, y, d, r) == x * x + y * y <= (r * d) * (r * d)

(* The points of the closed segment s with the denominator d.              *)
Xs(s, d) == XLeft(s, side) * d .. XRight(s, side) * d
Ys(s, d) == YBottom(s, side) * d .. YTop(s, side) * d

Listed(s) == \E n \in 1..Len(subproblems) : subproblems[n] = s

(* SettledAsDrawn: a segment that is settled without drawing has the count *)
(* that drawing would give, wherever the points fall: all are hits or none *)
(* is.  The code looks at one corner of the segment only (isWholeInside-   *)
(* Circle, isWholeOutsideCircle).                                          *)
SettledAsDrawn(d) ==
  \A s \in 1..i : ~Listed(s) =>
    \A x \in Xs(s, d), y \in Ys(s, d) :
      squareSegments[s] = IF InCircle(x, y, d, K * side) THEN points ELSE 0

(* The points with the denominators 1 and 2: corners, middles, centres.    *)
SettledAsDrawnOnGrid == SettledAsDrawn(1) /\ SettledAsDrawn(2)

(* GivenOutAreCut: workers are only given segments with corners on both    *)
(* sides of the circle, so no work is wasted.                              *)
GivenOutAreCut ==
  \A n \in 1..Len(subproblems) :
    LET s == subproblems[n] IN
      /\ InCircle(XLeft(s, side), YBottom(s, side), 1, K * side)
      /\ ~InCircle(XRight(s, side), YTop(s, side), 1, K * side)

(* SegmentsTile: the segments lie side by side, left to right and bottom   *)
(* up, K wide and K high, so that every point of the square belongs to one *)
(* of them: the estimate counts no part of the square twice and skips      *)
(* none (getColumn, getRow and the corners).                               *)
SegmentsTile ==
  \A x, y \in 0..side - 1 :
    \E s \in 1..side * side :
      /\ XLeft(s, side) = K * x /\ XRight(s, side) = K * (x + 1)
      /\ YBottom(s, side) = K * y /\ YTop(s, side) = K * (y + 1)
      /\ s = y * side + x + 1

(* ListInOrder: the list is in the order of the ids and names no segment   *)
(* twice; pop() hands subproblems out, and the operations of the ledger    *)
(* find them, by going through this list.                                  *)
ListInOrder ==
  \A m, n \in 1..Len(subproblems) : m < n => subproblems[m] < subproblems[n]

(* NothingIsNoJob: there always is a subproblem; the loop of the server   *)
(* tests solved() only after a signal, and without one would sit and wait. *)
NothingIsNoJob == pc = "returned" => subproblems # <<>>
=============================================================================
