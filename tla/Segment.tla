------------------------------ MODULE Segment ------------------------------
(***************************************************************************)
(* The geometry of one segment (src/segment.cpp).  The square with the     *)
(* corners (0, 0) and (radius, radius) is cut into side * side segments,   *)
(* numbered from 1, from left to right and from the bottom up; a quarter   *)
(* of the circle around (0, 0) lies in it.  All numbers are uint32_t, only *)
(* the test of a point computes its left side in doubles, which are exact  *)
(* for the corners of a segment.                                           *)
(***************************************************************************)
EXTENDS Naturals

CONSTANTS
  K,            \* the radius is K * side
  MaxSide,      \* MAX_SIDE_VALUE: setSide() and the constructors throw above
  MaxPoints,    \* the largest number of points main() accepts
  UInt32Size    \* how many values a uint32_t has

(* What the choice of MAX_SIDE_VALUE has to make sure of: the square of    *)
(* the largest radius still is a uint32_t.                                 *)
ASSUME SegmentAssumption ==
  /\ K \in Nat \ {0} /\ MaxSide \in Nat \ {0} /\ MaxPoints \in Nat \ {0}
  /\ UInt32Size \in Nat
  /\ (K * MaxSide) * (K * MaxSide) < UInt32Size

UInt32(n) == n % UInt32Size

SideAccepted(side) == side \in 1..MaxSide

(* getColumn() and getRow(), for an id from 1 on: no difference wraps.     *)
ColumnFromZero(id, side) == id % side         \* mutant: the last column is 0
Column(id, side) == IF id % side = 0 THEN side ELSE id % side
Row(id, side)    == (id - Column(id, side)) \div side + 1

Radius(side) == UInt32(K * side)

XLeft(id, side)   == UInt32((Column(id, side) - 1) * Radius(side)) \div side
XRight(id, side)  == UInt32(Column(id, side) * Radius(side)) \div side
YBottom(id, side) == UInt32((Row(id, side) - 1) * Radius(side)) \div side
YTop(id, side)    == UInt32(Row(id, side) * Radius(side)) \div side

IsPointInsideCircle(x, y, radius) == x * x + y * y <= UInt32(radius * radius)

IsInsideByNearCorner(id, side) ==   \* mutant: tests the corner next to (0, 0)
  IsPointInsideCircle(XLeft(id, side), YBottom(id, side), Radius(side))

IsWholeInsideCircle(id, side) ==
  IsPointInsideCircle(XRight(id, side), YTop(id, side), Radius(side))

IsWholeOutsideCircle(id, side) ==
  ~IsPointInsideCircle(XLeft(id, side), YBottom(id, side), Radius(side))

IsResultKnown(id, side) ==
  IsWholeInsideCircle(id, side) \/ IsWholeOutsideCircle(id, side)
=============================================================================
