-------------------------- MODULE Estimate_proofs --------------------------
(***************************************************************************)
(* The way of the numbers, and the parts it is composed of.  First the     *)
(* geometry of the segments and initialize() (Square); then getResult()    *)
(* and decimalExpansion() (PiResult), for a square of any size and any     *)
(* hits; then the two threads of a worker (WorkerThread), for any job: the *)
(* main thread reports the count of a whole job, and no thread outlives    *)
(* its job.  The composition implements the last two, so what is proved of *)
(* them holds of the estimate from end to end.                             *)
(***************************************************************************)
EXTENDS Estimate, Square, SequenceTheorems, FiniteSetTheorems, TLAPS

-----------------------------------------------------------------------------
(* Square.                                                                 *)

(* Arithmetic.                                                             *)

LEMMA DivMod ==
  ASSUME NEW n \in Nat, NEW d \in Nat \ {0}
  PROVE  /\ n % d \in 0..d - 1
         /\ n \div d \in Nat
         /\ n = d * (n \div d) + (n % d)
  BY SMT

LEMMA DivUnique ==
  ASSUME NEW q \in Nat, NEW r \in Nat, NEW d \in Nat \ {0}, r < d
  PROVE  /\ (q * d + r) \div d = q
         /\ (q * d + r) % d = r
  BY SMT

LEMMA ModSmall ==
  ASSUME NEW n \in Nat, NEW m \in Nat, n < m
  PROVE  n % m = n
  BY SMT

LEMMA MulMono ==
  ASSUME NEW a \in Nat, NEW b \in Nat, NEW c \in Nat, NEW e \in Nat,
         a <= b, c <= e
  PROVE  a * c <= b * e
  BY SMT

-----------------------------------------------------------------------------
(* One segment.  Everything below speaks of sides setSide() accepts and of *)
(* the ids of their segments.                                              *)

Ids(s) == 1..s * s

LEMMA NoWrap ==
  ASSUME NEW s \in 1..MaxSide, NEW a \in 0..s
  PROVE  /\ Radius(s) = K * s
         /\ UInt32(a * Radius(s)) = (a * K) * s
         /\ UInt32(Radius(s) * Radius(s)) = (K * s) * (K * s)
<1>1. /\ K \in Nat \ {0} /\ MaxSide \in Nat \ {0} /\ UInt32Size \in Nat
      /\ (K * MaxSide) * (K * MaxSide) < UInt32Size
      /\ s \in Nat \ {0} /\ a \in Nat /\ s <= MaxSide /\ a <= s
  BY SegmentAssumption
<1>2. /\ K * s \in Nat /\ K * MaxSide \in Nat
      /\ K * s <= K * MaxSide
  <2>1. K * s \in Nat /\ K * MaxSide \in Nat
    BY <1>1
  <2>2. K * s <= K * MaxSide
    BY <1>1, MulMono
  <2> QED BY <2>1, <2>2
<1>3. (K * s) * (K * s) < UInt32Size
  <2>1. (K * s) * (K * s) <= (K * MaxSide) * (K * MaxSide)
    BY <1>2, MulMono
  <2>2. (K * s) * (K * s) \in Nat /\ (K * MaxSide) * (K * MaxSide) \in Nat
    BY <1>2
  <2> QED BY <1>1, <2>1, <2>2
<1>4. K * s <= (K * s) * (K * s)
  BY <1>1, <1>2, 1 <= K * s, MulMono
<1>5. a <= K * s
  BY <1>1, MulMono, a * 1 <= s * K
<1>6. a * (K * s) < UInt32Size
  <2>1. a * (K * s) <= (K * s) * (K * s)
    BY <1>1, <1>2, <1>5, MulMono
  <2>2. a * (K * s) \in Nat /\ (K * s) * (K * s) \in Nat
    BY <1>1, <1>2
  <2> QED BY <1>1, <1>3, <2>1, <2>2
<1>7. Radius(s) = K * s
  <2>1. K * s < UInt32Size
    BY <1>1, <1>2, <1>3, <1>4
  <2> QED BY <1>1, <1>2, <2>1, ModSmall DEF Radius, UInt32
<1>8. UInt32(a * Radius(s)) = a * (K * s)
  BY <1>1, <1>2, <1>6, <1>7, ModSmall DEF UInt32
<1>9. a * (K * s) = (a * K) * s
  BY <1>1
<1>10. UInt32(Radius(s) * Radius(s)) = (K * s) * (K * s)
  BY <1>1, <1>2, <1>3, <1>7, ModSmall DEF UInt32
<1> QED BY <1>7, <1>8, <1>9, <1>10

(* getColumn and getRow number the columns and the rows from 1 to side,    *)
(* and the segments row by row.                                            *)
LEMMA ColumnRow ==
  ASSUME NEW s \in Nat \ {0}, NEW id \in Ids(s)
  PROVE  /\ Column(id, s) \in 1..s
         /\ Row(id, s) \in 1..s
         /\ id = (Row(id, s) - 1) * s + Column(id, s)
<1> DEFINE q == id \div s
           r == id % s
<1>1. id \in Nat /\ 1 <= id /\ id <= s * s /\ s * s \in Nat
  BY DEF Ids
<1>2. q \in Nat /\ r \in 0..s - 1 /\ id = s * q + r
  BY <1>1, DivMod
<1>3. CASE r = 0
  <2>1. Column(id, s) = s
    BY <1>3 DEF Column
  <2> HIDE DEF q, r
  <2>2. id = s * q
    BY <1>2, <1>3
  <2>3. q >= 1 /\ q <= s
    <3>1. q # 0
      BY <1>1, <2>2
    <3>2. ~(s + 1 <= q)
      <4>1. SUFFICES ASSUME s + 1 <= q PROVE FALSE
        OBVIOUS
      <4>2. s * (s + 1) <= s * q
        BY <1>2, <4>1, MulMono
      <4>3. s * (s + 1) = s * s + s
        OBVIOUS
      <4> QED BY <1>1, <2>2, <4>2, <4>3
    <3> QED BY <1>2, <3>1, <3>2
  <2>4. id - s = (q - 1) * s
    BY <1>2, <2>2
  <2>5. (id - s) \div s = q - 1
    <3>1. q - 1 \in Nat /\ id - s = (q - 1) * s + 0
      BY <1>2, <2>3, <2>4
    <3> QED BY <3>1, DivUnique, 0 < s
  <2>6. Row(id, s) = q
    BY <1>2, <2>1, <2>5 DEF Row
  <2>7. id = (q - 1) * s + s
    BY <1>1, <1>2, <2>4, <2>3
  <2> QED BY <1>2, <2>1, <2>3, <2>6, <2>7
<1>4. CASE r # 0
  <2>1. Column(id, s) = r
    BY <1>4 DEF Column
  <2> HIDE DEF q, r
  <2>2. q + 1 <= s
    <3>1. SUFFICES ASSUME s <= q PROVE FALSE
      BY <1>2
    <3>2. s * s <= s * q
      BY <1>2, <3>1, MulMono
    <3>3. s * q \in Nat
      BY <1>2
    <3> QED BY <1>1, <1>2, <1>4, <3>2, <3>3
  <2>3. id - r = q * s + 0
    BY <1>2
  <2>4. (id - r) \div s = q
    BY <1>2, <2>3, DivUnique, 0 < s
  <2>5. Row(id, s) = q + 1
    BY <2>1, <2>4 DEF Row
  <2>6. id = (q + 1 - 1) * s + r
    BY <1>2, <2>3
  <2> QED BY <1>2, <1>4, <2>1, <2>2, <2>5, <2>6
<1> QED BY <1>3, <1>4

(* And every column and row has its segment.                               *)
LEMMA ColumnRowOf ==
  ASSUME NEW s \in Nat \ {0}, NEW x \in 0..s - 1, NEW y \in 0..s - 1
  PROVE  LET id == y * s + x + 1
         IN  id \in Ids(s) /\ Column(id, s) = x + 1 /\ Row(id, s) = y + 1
<1> DEFINE id == y * s + x + 1
<1>1. x \in Nat /\ y \in Nat /\ x + 1 <= s /\ y + 1 <= s
  OBVIOUS
<1>2. y * s \in Nat /\ (y + 1) * s = y * s + s
  BY <1>1
<1>3. id \in Ids(s)
  <2>1. (y + 1) * s <= s * s
    BY <1>1, MulMono
  <2> QED BY <1>1, <1>2, <2>1, s * s \in Nat DEF Ids
<1>4. CASE x + 1 = s
  <2>1. id = (y + 1) * s + 0
    BY <1>1, <1>2, <1>4
  <2>2. id % s = 0
    BY <1>1, <2>1, DivUnique, 0 < s
  <2>3. Column(id, s) = s
    BY <2>2 DEF Column
  <2>4. (id - s) \div s = y
    BY <1>1, <1>2, <2>1, DivUnique, 0 < s, id - s = y * s + 0
  <2> QED BY <1>3, <1>4, <2>3, <2>4 DEF Row
<1>5. CASE x + 1 # s
  <2>1. id = y * s + (x + 1) /\ x + 1 < s /\ x + 1 \in Nat
    BY <1>1, <1>2, <1>5
  <2> HIDE DEF id
  <2>2. id % s = x + 1
    BY <1>1, <2>1, DivUnique
  <2>3. Column(id, s) = x + 1
    BY <1>1, <2>2 DEF Column
  <2>4. (id - (x + 1)) \div s = y
    BY <1>1, <1>2, <2>1, DivUnique, 0 < s, id - (x + 1) = y * s + 0
  <2> QED BY <1>3, <2>3, <2>4 DEF Row, id
<1> QED BY <1>4, <1>5

(* The corners.                                                            *)
LEMMA Corners ==
  ASSUME NEW s \in 1..MaxSide, NEW id \in Ids(s)
  PROVE  /\ XLeft(id, s)   = K * (Column(id, s) - 1)
         /\ XRight(id, s)  = K * Column(id, s)
         /\ YBottom(id, s) = K * (Row(id, s) - 1)
         /\ YTop(id, s)    = K * Row(id, s)
<1>1. s \in Nat \ {0} /\ K \in Nat
  BY SegmentAssumption
<1>2. Column(id, s) \in 1..s /\ Row(id, s) \in 1..s
  BY <1>1, ColumnRow
<1>3. ASSUME NEW a \in 0..s
      PROVE  UInt32(a * Radius(s)) \div s = K * a
  <2>1. UInt32(a * Radius(s)) = (a * K) * s + 0
    BY <1>1, NoWrap
  <2>2. a * K \in Nat /\ a * K = K * a
    BY <1>1
  <2> QED BY <1>1, <2>1, <2>2, DivUnique, 0 < s
<1>4. /\ Column(id, s) - 1 \in 0..s /\ Column(id, s) \in 0..s
      /\ Row(id, s) - 1 \in 0..s /\ Row(id, s) \in 0..s
  BY <1>1, <1>2
<1> QED BY <1>3, <1>4 DEF XLeft, XRight, YBottom, YTop

-----------------------------------------------------------------------------
(* What one corner says about all points of a segment.                     *)

LEMMA Squares ==
  ASSUME NEW a \in Nat, NEW b \in Nat, NEW d \in Nat
  PROVE  (a * d) * (a * d) + (b * d) * (b * d) = (a * a + b * b) * (d * d)
  BY SMT

(* If the corner (a, b) is in the circle, so is what is left of and below  *)
(* it; if it is not, neither is what is right of and above it.             *)
LEMMA FarCorner ==
  ASSUME NEW a \in Nat, NEW b \in Nat, NEW r \in Nat, NEW d \in Nat \ {0},
         NEW x \in 0..a * d, NEW y \in 0..b * d, a * a + b * b <= r * r
  PROVE  InCircle(x, y, d, r)
<1>1. a * d \in Nat /\ b * d \in Nat /\ d * d \in Nat
  OBVIOUS
<1>2. x * x <= (a * d) * (a * d) /\ y * y <= (b * d) * (b * d)
  BY <1>1, MulMono
<1>3. (a * a + b * b) * (d * d) <= (r * r) * (d * d)
  BY <1>1, a * a + b * b \in Nat, r * r \in Nat, MulMono
<1>4. (r * r) * (d * d) = (r * d) * (r * d)
  BY SMT
<1>5. /\ x * x \in Nat /\ y * y \in Nat
      /\ (a * d) * (a * d) \in Nat /\ (b * d) * (b * d) \in Nat
      /\ (r * d) * (r * d) \in Nat
  BY <1>1
<1>6. x * x + y * y <= (a * d) * (a * d) + (b * d) * (b * d)
  BY <1>2, <1>5
<1>7. (a * d) * (a * d) + (b * d) * (b * d) <= (r * d) * (r * d)
  BY <1>3, <1>4, Squares
<1> QED BY <1>5, <1>6, <1>7 DEF InCircle

LEMMA NearCorner ==
  ASSUME NEW a \in Nat, NEW b \in Nat, NEW r \in Nat, NEW d \in Nat \ {0},
         NEW x \in Nat, NEW y \in Nat, a * d <= x, b * d <= y,
         ~(a * a + b * b <= r * r)
  PROVE  ~InCircle(x, y, d, r)
<1>1. a * d \in Nat /\ b * d \in Nat /\ d * d \in Nat /\ 1 <= d * d
  BY 1 <= d, 1 * 1 <= d * d, MulMono
<1>2. (a * d) * (a * d) <= x * x /\ (b * d) * (b * d) <= y * y
  BY <1>1, MulMono
<1>3. a * a + b * b >= r * r + 1 /\ a * a + b * b \in Nat /\ r * r \in Nat
  OBVIOUS
<1>4. (r * r + 1) * (d * d) <= (a * a + b * b) * (d * d)
  BY <1>1, <1>3, MulMono
<1>5. (r * r + 1) * (d * d) = (r * d) * (r * d) + d * d
  BY SMT
<1>6. /\ x * x \in Nat /\ y * y \in Nat
      /\ (a * d) * (a * d) \in Nat /\ (b * d) * (b * d) \in Nat
      /\ (r * d) * (r * d) \in Nat
  BY <1>1
<1>7. (r * d) * (r * d) + d * d <= (a * d) * (a * d) + (b * d) * (b * d)
  BY <1>4, <1>5, Squares
<1>8. (a * d) * (a * d) + (b * d) * (b * d) <= x * x + y * y
  BY <1>2, <1>6
<1>9. (r * d) * (r * d) < x * x + y * y
  BY <1>1, <1>6, <1>7, <1>8
<1> QED BY <1>6, <1>9 DEF InCircle

(* isWholeInsideCircle and isWholeOutsideCircle, in these terms.           *)
LEMMA CornerTests ==
  ASSUME NEW s \in 1..MaxSide, NEW id \in Ids(s)
  PROVE  /\ XLeft(id, s) \in Nat /\ XRight(id, s) \in Nat
         /\ YBottom(id, s) \in Nat /\ YTop(id, s) \in Nat
         /\ XLeft(id, s) <= XRight(id, s) /\ YBottom(id, s) <= YTop(id, s)
         /\ IsWholeInsideCircle(id, s) <=>
              XRight(id, s) * XRight(id, s) + YTop(id, s) * YTop(id, s)
                <= (K * s) * (K * s)
         /\ IsWholeOutsideCircle(id, s) <=>
              ~(XLeft(id, s) * XLeft(id, s) + YBottom(id, s) * YBottom(id, s)
                  <= (K * s) * (K * s))
<1>1. s \in Nat \ {0} /\ K \in Nat \ {0} /\ 0 \in 0..s
  BY SegmentAssumption
<1>2. Column(id, s) \in 1..s /\ Row(id, s) \in 1..s
  BY <1>1, ColumnRow
<1>3. /\ XLeft(id, s) \in Nat /\ XRight(id, s) \in Nat
      /\ YBottom(id, s) \in Nat /\ YTop(id, s) \in Nat
  BY <1>1, <1>2, Corners
<1>4. XLeft(id, s) <= XRight(id, s) /\ YBottom(id, s) <= YTop(id, s)
  BY <1>1, <1>2, Corners, MulMono,
     Column(id, s) - 1 \in Nat, Row(id, s) - 1 \in Nat,
     Column(id, s) - 1 <= Column(id, s), Row(id, s) - 1 <= Row(id, s)
<1>5. UInt32(Radius(s) * Radius(s)) = (K * s) * (K * s)
  BY <1>1, NoWrap
<1> QED
  BY <1>3, <1>4, <1>5
  DEF IsWholeInsideCircle, IsWholeOutsideCircle, IsPointInsideCircle

(* A segment whose result is known is inside or outside with all its       *)
(* points, whatever their denominator.                                     *)
LEMMA KnownIsUniform ==
  ASSUME NEW s \in 1..MaxSide, NEW id \in Ids(s), IsResultKnown(id, s),
         NEW d \in Nat \ {0},
         NEW x \in XLeft(id, s) * d .. XRight(id, s) * d,
         NEW y \in YBottom(id, s) * d .. YTop(id, s) * d
  PROVE  InCircle(x, y, d, K * s) <=> IsWholeInsideCircle(id, s)
<1>1. /\ XLeft(id, s) \in Nat /\ XRight(id, s) \in Nat
      /\ YBottom(id, s) \in Nat /\ YTop(id, s) \in Nat
      /\ K * s \in Nat
  BY CornerTests, SegmentAssumption
<1>2. x \in Nat /\ y \in Nat /\ XLeft(id, s) * d <= x /\ YBottom(id, s) * d <= y
      /\ x \in 0..XRight(id, s) * d /\ y \in 0..YTop(id, s) * d
  <2>1. /\ XLeft(id, s) * d \in Nat /\ YBottom(id, s) * d \in Nat
        /\ XRight(id, s) * d \in Nat /\ YTop(id, s) * d \in Nat
    BY <1>1
  <2> QED BY <2>1
<1>3. CASE IsWholeInsideCircle(id, s)
  BY <1>1, <1>2, <1>3, CornerTests, FarCorner
<1>4. CASE IsWholeOutsideCircle(id, s)
  <2>1. ~InCircle(x, y, d, K * s)
    BY <1>1, <1>2, <1>4, CornerTests, NearCorner
  <2>2. ~IsWholeInsideCircle(id, s)
    BY <1>1, <1>2, <2>1, CornerTests, FarCorner
  <2> QED BY <2>1, <2>2
<1> QED BY <1>3, <1>4 DEF IsResultKnown

(* The segment at the right end of the bottom row is never known.          *)
LEMMA CutExists ==
  ASSUME NEW s \in 1..MaxSide
  PROVE  s \in Ids(s) /\ ~IsResultKnown(s, s)
<1>1. s \in Nat \ {0} /\ K \in Nat \ {0}
  BY SegmentAssumption
<1>2. s \in Ids(s) /\ Column(s, s) = s /\ Row(s, s) = 1
  BY <1>1, ColumnRowOf, s - 1 \in 0..s - 1, 0 \in 0..s - 1,
     0 * s + (s - 1) + 1 = s
<1>3. /\ XLeft(s, s) = K * (s - 1) /\ XRight(s, s) = K * s
      /\ YBottom(s, s) = 0 /\ YTop(s, s) = K
  BY <1>1, <1>2, Corners, K * (1 - 1) = 0, K * 1 = K
<1>4. IsPointInsideCircle(XLeft(s, s), YBottom(s, s), Radius(s))
  <2>1. K * (s - 1) <= K * s /\ K * (s - 1) \in Nat /\ K * s \in Nat
    BY <1>1, MulMono, s - 1 \in Nat
  <2>2. (K * (s - 1)) * (K * (s - 1)) <= (K * s) * (K * s)
    BY <2>1, MulMono
  <2>3. (K * (s - 1)) * (K * (s - 1)) + 0 * 0 <= (K * s) * (K * s)
    BY <2>1, <2>2
  <2>4. ~IsWholeOutsideCircle(s, s)
    BY <1>2, <1>3, <2>3, CornerTests
  <2> QED BY <2>4 DEF IsWholeOutsideCircle
<1>5. ~IsWholeInsideCircle(s, s)
  <2>1. 1 <= K * K /\ K * K \in Nat /\ (K * s) * (K * s) \in Nat
    BY <1>1, MulMono, 1 * 1 <= K * K
  <2> QED BY <1>2, <1>3, <2>1, CornerTests
<1> QED BY <1>2, <1>4, <1>5 DEF IsResultKnown, IsWholeOutsideCircle

-----------------------------------------------------------------------------
(* The pass of initialize().  Processed says what it has done so far: the  *)
(* segments it has seen and not listed are those whose result is known,    *)
(* and they have got it; the list is in order.                             *)

Processed ==
  /\ \A s \in 1..i : Listed(s) <=> ~IsResultKnown(s, side)
  /\ \A s \in 1..i : ~Listed(s) =>
       squareSegments[s] = IF IsWholeInsideCircle(s, side) THEN points ELSE 0
  /\ ListInOrder
  /\ pc = "returned" => i = side * side

Inv == TypeOK /\ Processed

LEMMA Appended ==
  ASSUME NEW S, NEW q \in Seq(S), NEW e \in S
  PROVE  /\ Append(q, e) \in Seq(S)
         /\ Len(Append(q, e)) = Len(q) + 1
         /\ Append(q, e) \in [1..Len(q) + 1 -> S]
         /\ \A n \in 1..Len(q) : Append(q, e)[n] = q[n]
         /\ Append(q, e)[Len(q) + 1] = e
<1> DEFINE t == Append(q, e)
<1>1. /\ t \in Seq(S) /\ Len(t) = Len(q) + 1
      /\ \A n \in 1..Len(q) : t[n] = q[n]
      /\ t[Len(q) + 1] = e
  BY AppendProperties
<1> HIDE DEF t
<1>2. t \in [1..Len(q) + 1 -> S]
  BY <1>1, LenProperties
<1> QED BY <1>1, <1>2 DEF t

LEMMA InitInv == Init => Inv
<1> SUFFICES ASSUME Init PROVE Inv
  OBVIOUS
<1>1. side \in 1..MaxSide /\ side * side \in Nat
  BY SegmentAssumption DEF Init, SideAccepted
<1>2. TypeOK
  <2>1. squareSegments \in [1..0 -> {0, points}] /\ subproblems \in Seq(1..0)
    BY DEF Init
  <2> QED BY <1>1, <2>1 DEF Init, TypeOK
<1>3. Processed
  BY <1>1 DEF Init, Processed, ListInOrder
<1> QED BY <1>2, <1>3 DEF Inv

LEMMA NextInv == Inv /\ [Next]_vars => Inv'
<1> SUFFICES ASSUME Inv, [Next]_vars PROVE Inv'
  OBVIOUS
<1>1. /\ side \in 1..MaxSide /\ side * side \in Nat /\ points \in 1..MaxPoints
      /\ i \in 0..side * side
      /\ squareSegments \in [1..i -> {0, points}]
      /\ subproblems \in Seq(1..i)
      /\ Processed
  BY SegmentAssumption DEF Inv, TypeOK
<1>2. PICK e \in Nat : e = i + 1
  BY <1>1
<1>3. ASSUME NEW h \in {0, points}, squareSegments' = Append(squareSegments, h)
      PROVE  /\ squareSegments' \in [1..e -> {0, points}]
             /\ \A s \in 1..i : squareSegments'[s] = squareSegments[s]
             /\ squareSegments'[e] = h
  <2>1. squareSegments \in Seq({0, points}) /\ Len(squareSegments) = i
    BY <1>1
  <2> QED BY <1>2, <1>3, <2>1, Appended
<1>4. ASSUME Settle PROVE Inv'
  <2>1. /\ e \in 1..side * side /\ i' = e
        /\ side' = side /\ points' = points /\ pc' = pc /\ pc = "looping"
        /\ subproblems' = subproblems
        /\ IsResultKnown(e, side)
    BY <1>1, <1>2, <1>4 DEF Settle
  <2>2. /\ squareSegments' \in [1..e -> {0, points}]
        /\ \A s \in 1..i : squareSegments'[s] = squareSegments[s]
        /\ squareSegments'[e] =
             IF IsWholeInsideCircle(e, side) THEN points ELSE 0
    BY <1>2, <1>3, <1>4 DEF Settle
  <2>3. subproblems \in Seq(1..e) /\ \A s \in 1..e : Listed(s)' <=> Listed(s)
    BY <1>1, <1>2, <2>1 DEF Listed
  <2>4. ~Listed(e)
    BY <1>1, <1>2 DEF Listed
  <2>5. TypeOK'
    BY <1>1, <2>1, <2>2, <2>3 DEF TypeOK
  <2>6. \A s \in 1..e : Listed(s)' <=> ~IsResultKnown(s, side)
    BY <1>1, <1>2, <2>1, <2>3, <2>4 DEF Processed
  <2>7. ASSUME NEW s \in 1..e, ~Listed(s)'
        PROVE  squareSegments'[s] =
                 IF IsWholeInsideCircle(s, side) THEN points ELSE 0
    <3>1. CASE s = e
      BY <2>2, <3>1
    <3>2. CASE s # e
      <4>1. s \in 1..i /\ ~Listed(s)
        BY <1>1, <1>2, <2>3, <2>7, <3>2
      <4> QED BY <1>1, <2>2, <4>1 DEF Processed
    <3> QED BY <3>1, <3>2
  <2>8. ListInOrder'
    BY <1>1, <2>1 DEF Processed, ListInOrder
  <2> QED BY <2>1, <2>5, <2>6, <2>7, <2>8 DEF Inv, Processed
<1>5. ASSUME PushBack PROVE Inv'
  <2>1. /\ e \in 1..side * side /\ i' = e
        /\ side' = side /\ points' = points /\ pc' = pc /\ pc = "looping"
        /\ subproblems' = Append(subproblems, e)
        /\ ~IsResultKnown(e, side)
    BY <1>1, <1>2, <1>5 DEF PushBack
  <2>2. /\ squareSegments' \in [1..e -> {0, points}]
        /\ \A s \in 1..i : squareSegments'[s] = squareSegments[s]
    BY <1>2, <1>3, <1>5 DEF PushBack
  <2>3. /\ subproblems' \in Seq(1..e)
        /\ Len(subproblems') = Len(subproblems) + 1
        /\ \A n \in 1..Len(subproblems) : subproblems'[n] = subproblems[n]
        /\ subproblems'[Len(subproblems) + 1] = e
    <3>1. subproblems \in Seq(1..e) /\ e \in 1..e
      BY <1>1, <1>2, <2>1
    <3> QED BY <2>1, <3>1, Appended
  <2>4. /\ Len(subproblems) \in Nat
        /\ \A n \in 1..Len(subproblems) : subproblems[n] \in 1..i
    BY <1>1
  <2>5. ASSUME NEW s \in 1..i PROVE Listed(s)' <=> Listed(s)
    <3>1. ASSUME Listed(s) PROVE Listed(s)'
      BY <2>3, <2>4, <3>1 DEF Listed
    <3>2. ASSUME Listed(s)' PROVE Listed(s)
      <4>1. PICK n \in 1..Len(subproblems') : subproblems'[n] = s
        BY <3>2 DEF Listed
      <4>2. s # e
        BY <1>1, <1>2
      <4>3. n \in 1..Len(subproblems)
        BY <2>3, <2>4, <4>1, <4>2
      <4> QED BY <2>3, <4>1, <4>3 DEF Listed
    <3> QED BY <3>1, <3>2
  <2>6. Listed(e)'
    BY <2>3, <2>4 DEF Listed
  <2>7. TypeOK'
    BY <1>1, <2>1, <2>2, <2>3 DEF TypeOK
  <2>8. ListInOrder'
    <3> SUFFICES ASSUME NEW m \in 1..Len(subproblems'),
                        NEW n \in 1..Len(subproblems'), m < n
                 PROVE  subproblems'[m] < subproblems'[n]
      BY DEF ListInOrder
    <3>1. m \in 1..Len(subproblems) /\ subproblems'[m] = subproblems[m]
      BY <2>3, <2>4
    <3>2. CASE n = Len(subproblems) + 1
      BY <1>1, <1>2, <2>3, <2>4, <3>1, <3>2
    <3>3. CASE n # Len(subproblems) + 1
      <4>1. n \in 1..Len(subproblems) /\ subproblems'[n] = subproblems[n]
        BY <2>3, <2>4, <3>3
      <4> QED BY <1>1, <3>1, <4>1 DEF Processed, ListInOrder
    <3> QED BY <3>2, <3>3
  <2>9. \A s \in 1..e : Listed(s)' <=> ~IsResultKnown(s, side)
    BY <1>1, <1>2, <2>1, <2>5, <2>6 DEF Processed
  <2>10. \A s \in 1..e : ~Listed(s)' =>
           squareSegments'[s] =
             IF IsWholeInsideCircle(s, side) THEN points ELSE 0
    BY <1>1, <1>2, <2>2, <2>5, <2>6 DEF Processed
  <2> QED BY <2>1, <2>7, <2>8, <2>9, <2>10 DEF Inv, Processed
<1>6. CASE Return
  BY <1>1, <1>6 DEF Return, Inv, TypeOK, Processed, ListInOrder, Listed
<1>7. CASE UNCHANGED vars
  BY <1>1, <1>7 DEF vars, Inv, TypeOK, Processed, ListInOrder, Listed
<1> QED BY <1>4, <1>5, <1>6, <1>7 DEF Next

LEMMA Invariance == Spec => []Inv
<1> QED BY InitInv, NextInv, PTL DEF Spec

(* Every variable keeps its type, for every limit of the side that leaves  *)
(* the square of the radius in a uint32_t.                                 *)
THEOREM SquareTypeCorrect == Spec => []TypeOK
<1>1. Inv => TypeOK
  BY DEF Inv
<1> QED BY <1>1, Invariance, PTL

(* What initialize() settles without drawing is what drawing gives: for    *)
(* every point of the segment with rational coordinates, not only for      *)
(* those of the grids that TLC tries.                                      *)
SettledAsDrawnAnywhere == \A d \in Nat \ {0} : SettledAsDrawn(d)

THEOREM SettledCorrect == Spec => []SettledAsDrawnAnywhere
<1>1. Inv => SettledAsDrawnAnywhere
  <2> SUFFICES ASSUME Inv, NEW d \in Nat \ {0}, NEW s \in 1..i, ~Listed(s),
                      NEW x \in Xs(s, d), NEW y \in Ys(s, d)
               PROVE  squareSegments[s] =
                        IF InCircle(x, y, d, K * side) THEN points ELSE 0
    BY DEF SettledAsDrawnAnywhere, SettledAsDrawn
  <2>1. side \in 1..MaxSide /\ s \in Ids(side)
    BY SegmentAssumption DEF Inv, TypeOK, Ids
  <2>2. IsResultKnown(s, side)
    BY DEF Inv, Processed
  <2>3. InCircle(x, y, d, K * side) <=> IsWholeInsideCircle(s, side)
    BY <2>1, <2>2, KnownIsUniform DEF Xs, Ys
  <2> QED BY <2>3 DEF Inv, Processed
<1> QED BY <1>1, Invariance, PTL

THEOREM SettledOnGridCorrect == Spec => []SettledAsDrawnOnGrid
<1>1. SettledAsDrawnAnywhere => SettledAsDrawnOnGrid
  BY DEF SettledAsDrawnAnywhere, SettledAsDrawnOnGrid
<1> QED BY <1>1, SettledCorrect, PTL

(* Only segments the circle cuts are given to workers.                     *)
THEOREM GivenOutCorrect == Spec => []GivenOutAreCut
<1>1. Inv => GivenOutAreCut
  <2> SUFFICES ASSUME Inv, NEW n \in 1..Len(subproblems),
                      NEW s, s = subproblems[n]
               PROVE  /\ InCircle(XLeft(s, side), YBottom(s, side), 1, K * side)
                      /\ ~InCircle(XRight(s, side), YTop(s, side), 1, K * side)
    BY DEF GivenOutAreCut
  <2>1. side \in 1..MaxSide /\ s \in 1..i /\ s \in Ids(side)
    BY SegmentAssumption DEF Inv, TypeOK, Ids
  <2>2. ~IsWholeInsideCircle(s, side) /\ ~IsWholeOutsideCircle(s, side)
    BY <2>1 DEF Inv, Processed, Listed, IsResultKnown
  <2>3. (K * side) * 1 = K * side
    BY <2>1, SegmentAssumption
  <2> QED BY <2>1, <2>2, <2>3, CornerTests DEF InCircle
<1> QED BY <1>1, Invariance, PTL

(* The segments tile the square, for every side.                           *)
THEOREM TilingCorrect == Spec => []SegmentsTile
<1>1. Inv => SegmentsTile
  <2> SUFFICES ASSUME Inv, NEW x \in 0..side - 1, NEW y \in 0..side - 1
               PROVE  \E s \in 1..side * side :
                        /\ XLeft(s, side) = K * x /\ XRight(s, side) = K * (x + 1)
                        /\ YBottom(s, side) = K * y /\ YTop(s, side) = K * (y + 1)
                        /\ s = y * side + x + 1
    BY DEF SegmentsTile
  <2>1. side \in 1..MaxSide /\ side \in Nat \ {0}
    BY SegmentAssumption DEF Inv, TypeOK
  <2> DEFINE s == y * side + x + 1
  <2>2. s \in Ids(side) /\ Column(s, side) = x + 1 /\ Row(s, side) = y + 1
    BY <2>1, ColumnRowOf
  <2>3. x + 1 - 1 = x /\ y + 1 - 1 = y
    BY <2>1
  <2>4. /\ XLeft(s, side) = K * x /\ XRight(s, side) = K * (x + 1)
        /\ YBottom(s, side) = K * y /\ YTop(s, side) = K * (y + 1)
    BY <2>1, <2>2, <2>3, Corners
  <2> QED BY <2>2, <2>4 DEF Ids
<1> QED BY <1>1, Invariance, PTL

(* The list of subproblems is in order and names no segment twice.         *)
THEOREM ListCorrect == Spec => []ListInOrder
<1>1. Inv => ListInOrder
  BY DEF Inv, Processed
<1> QED BY <1>1, Invariance, PTL

(* There always is a subproblem.                                           *)
THEOREM SomethingToDo == Spec => []NothingIsNoJob
<1>1. Inv => NothingIsNoJob
  <2> SUFFICES ASSUME Inv, pc = "returned" PROVE subproblems # <<>>
    BY DEF NothingIsNoJob
  <2>1. side \in 1..MaxSide /\ side \in Ids(side) /\ ~IsResultKnown(side, side)
    BY CutExists DEF Inv, TypeOK
  <2>2. Listed(side)
    BY <2>1 DEF Inv, Processed, Ids
  <2> QED BY <2>2 DEF Listed
<1> QED BY <1>1, Invariance, PTL

-----------------------------------------------------------------------------
(* PiResult.                                                               *)

(* Arithmetic.                                                             *)

LEMMA UInt64Range == ASSUME NEW n \in Nat PROVE UInt64(n) \in 0..UInt64Size - 1
  BY ResultAssumption DEF UInt64

LEMMA UInt64Small ==
  ASSUME NEW n \in Nat, n < UInt64Size PROVE UInt64(n) = n
  BY ResultAssumption DEF UInt64

LEMMA Division ==
  ASSUME NEW a \in Nat, NEW b \in Nat \ {0}
  PROVE  /\ a \div b \in Nat /\ a % b \in 0..b - 1
         /\ a = (a \div b) * b + (a % b)
  BY SMT

LEMMA Times ==
  ASSUME NEW a \in Nat, NEW b \in Nat, NEW c \in Nat, a <= b
  PROVE  a * c <= b * c
  BY SMT

(* One turn of the loop: r / b is one digit and what is left of it.        *)
LEMMA OneDigit ==
  ASSUME NEW r \in Nat, NEW b \in Nat, r < b, 10 * b <= UInt64Size
  PROVE  LET shifted == UInt64(r * 10)
             newDigit == shifted \div b
         IN  /\ newDigit \in Nat
             /\ UInt64(shifted - newDigit * b) \in 0..b - 1
             /\ r * 10 = newDigit * b + UInt64(shifted - newDigit * b)
<1> DEFINE shifted == UInt64(r * 10)
           newDigit == shifted \div b
<1>1. shifted = r * 10 /\ shifted \in Nat /\ b \in Nat \ {0}
  BY UInt64Small, ResultAssumption
<1>2. newDigit \in Nat /\ shifted % b \in 0..b - 1
      /\ shifted = newDigit * b + (shifted % b)
  BY <1>1, Division
<1> HIDE DEF newDigit, shifted
<1>3. newDigit * b \in Nat
  BY <1>1, <1>2
<1>4. shifted - newDigit * b = shifted % b
  BY <1>1, <1>2, <1>3
<1>5. UInt64(shifted - newDigit * b) = shifted % b
  BY <1>1, <1>2, <1>4, UInt64Small, ResultAssumption
<1> QED BY <1>1, <1>2, <1>5 DEF newDigit, shifted

-----------------------------------------------------------------------------
(* The invariant.  Sums says that up to the division nothing wraps if all  *)
(* points, ten times, fit into 64 bits: no segment has more hits than      *)
(* points, hence the dividend is at most four times the divisor.           *)

Sums ==
  Fits => /\ stage # "SIGFPE"
          /\ stage # "calling" => chosenPoints = AllPoints
          /\ stage \in {"calling", "summing"} => pointsHitSum = hits

(* As many digits are printed as were asked for, whatever they are.        *)
AllDigits == stage = "printed" => currentDigit = digitsAfterDot

(* Before the expansion the scale is 1; in it the divisor is not 0.        *)
ScaleStarts    == stage \in {"calling", "summing"} => scale = 1
DivisorIsThere == stage = "expanding" => chosenPoints # 0

ExpansionInv ==
  /\ ResultTypeOK
  /\ Sums /\ ExpansionIsExact /\ AllDigits /\ ScaleStarts /\ DivisorIsThere

(* getResult() is called when initialize() has returned.                   *)
SquareIsDone == stage # "calling" => pc = "returned"

ResultInv == Inv /\ SquareIsDone /\ ExpansionInv

LEMMA ResultFacts ==
  ASSUME TypeOK, ResultTypeOK
  PROVE  /\ side \in Nat \ {0} /\ points \in Nat \ {0}
         /\ side * side \in Nat /\ summed \in Nat
         /\ digitsAfterDot \in Nat /\ currentDigit \in Nat
         /\ AllPoints \in Nat \ {0} /\ hits \in Nat
         /\ hits <= summed * points
         /\ AllPoints = (side * side) * points
         /\ hits <= AllPoints
<1>1. /\ side \in Nat \ {0} /\ points \in Nat \ {0} /\ digitsAfterDot \in Nat
      /\ currentDigit \in Nat
  BY SegmentAssumption, ResultAssumption DEF TypeOK, ResultTypeOK
<1>2. side * side \in Nat /\ AllPoints \in Nat /\ points * side \in Nat
  BY <1>1 DEF AllPoints
<1>3. AllPoints # 0
  <2>1. points * side \in Nat \ {0}
    BY <1>1
  <2> QED BY <1>1, <2>1 DEF AllPoints
<1>4. summed \in Nat /\ summed <= side * side
  BY <1>2 DEF ResultTypeOK
<1>5. summed * points \in Nat /\ hits \in 0..summed * points
  BY <1>1, <1>4 DEF ResultTypeOK
<1>6. AllPoints = (side * side) * points
  BY <1>1 DEF AllPoints
<1>7. summed * points <= (side * side) * points
  BY <1>1, <1>2, <1>4, Times
<1> QED BY <1>1, <1>2, <1>3, <1>4, <1>5, <1>6, <1>7

LEMMA HitsOfSegment ==
  ASSUME TypeOK, ResultTypeOK, NEW s \in 1..i, NEW h \in HitsOf(s)
  PROVE  h \in 0..points
<1>1. squareSegments[s] \in {0, points}
  BY DEF TypeOK
<1> QED BY <1>1, ResultFacts DEF HitsOf

LEMMA ChosenFits ==
  ASSUME TypeOK, ResultTypeOK
  PROVE  /\ Chosen(points, side) \in 0..UInt64Size - 1
         /\ Fits => Chosen(points, side) = AllPoints
<1>1. points * side \in Nat /\ UInt64(points * side) \in Nat /\ side \in Nat
  BY ResultFacts, UInt64Range
<1>2. UInt64(points * side) * side \in Nat
  BY <1>1
<1>3. Chosen(points, side) \in 0..UInt64Size - 1
  BY <1>2, UInt64Range DEF Chosen
<1>4. ASSUME Fits PROVE Chosen(points, side) = AllPoints
  <2>1. AllPoints < UInt64Size
    BY <1>4, ResultFacts, ResultAssumption DEF Fits
  <2>2. points * side <= (points * side) * side
    BY <1>1, ResultFacts, Times, 1 <= side, 1 * (points * side) <= side * (points * side)
  <2>3. points * side < UInt64Size
    BY <1>1, <2>1, <2>2, ResultFacts, ResultAssumption DEF AllPoints
  <2> QED BY <1>1, <2>1, <2>3, ResultFacts, UInt64Small DEF Chosen, AllPoints
<1> QED BY <1>3, <1>4

LEMMA ResultInitInv == ResultInit => ResultInv
<1> SUFFICES ASSUME ResultInit PROVE ResultInv
  OBVIOUS
<1>1. side * side \in Nat /\ side \in Nat /\ points \in Nat
  BY SegmentAssumption, ResultAssumption DEF ResultInit, Init, SideAccepted
<1>2. ResultTypeOK
  <2>1. 0 \in 0..UInt64Size - 1 /\ 0 * points = 0
    BY <1>1, ResultAssumption
  <2>2. digitsAfterDot \in Nat
    BY ResultAssumption DEF ResultInit
  <2> QED BY <1>1, <2>1, <2>2 DEF ResultInit, ResultTypeOK
<1>3. Inv /\ SquareIsDone
  BY InitInv DEF ResultInit, SquareIsDone
<1> QED BY <1>2, <1>3
        DEF ResultInit, ResultInv, ExpansionInv, Sums, ExpansionIsExact,
            AllDigits, ScaleStarts, DivisorIsThere

LEMMA ChoosePointsInv ==
  ASSUME ResultInv, ChoosePoints, side' = side, points' = points
  PROVE  ExpansionInv'
<1>1. TypeOK /\ ResultTypeOK /\ ExpansionInv
  BY DEF ResultInv, Inv, ExpansionInv
<1>2. chosenPoints' = Chosen(points, side)
  BY DEF ChoosePoints
<1>3. ResultTypeOK'
  BY <1>1, <1>2, ChosenFits DEF ChoosePoints, ResultTypeOK
<1>4. Fits' <=> Fits
  BY DEF ChoosePoints, Fits, AllPoints
<1>5. AllPoints' = AllPoints
  BY DEF ChoosePoints, AllPoints
<1>6. Sums'
  BY <1>1, <1>2, <1>4, <1>5, ChosenFits DEF ExpansionInv, Sums, ChoosePoints
<1>7. ExpansionIsExact' /\ AllDigits' /\ ScaleStarts' /\ DivisorIsThere'
  BY <1>1
  DEF ChoosePoints, ExpansionInv, ExpansionIsExact, AllDigits, ScaleStarts,
      DivisorIsThere
<1> QED BY <1>3, <1>6, <1>7 DEF ExpansionInv

LEMMA AddSegmentInv ==
  ASSUME ResultInv, AddSegment, side' = side, points' = points
  PROVE  ExpansionInv'
<1>1. TypeOK /\ ResultTypeOK /\ ExpansionInv
  BY DEF ResultInv, Inv, ExpansionInv
<1>2. PICK h \in HitsOf(summed + 1) : AddHits(h)
  BY DEF AddSegment
<1>3. /\ summed < side * side /\ summed' = summed + 1
      /\ pointsHitSum' = UInt64(pointsHitSum + h) /\ hits' = hits + h
      /\ stage = "summing"
      /\ UNCHANGED <<digitsAfterDot, stage, chosenPoints, dividend,
                     remainder, currentDigit, printed, scale>>
  BY <1>2 DEF AddHits
<1>4. h \in 0..points /\ h \in Nat
  <2>1. i = side * side
    BY <1>3 DEF ResultInv, SquareIsDone, Inv, Processed
  <2>2. summed + 1 \in 1..i
    BY <1>1, <1>3, <2>1, ResultFacts
  <2> QED BY <1>1, <1>2, <2>2, ResultFacts, HitsOfSegment
<1>5. summed' = summed + 1 /\ summed' \in 0..side * side
  BY <1>1, <1>3, ResultFacts DEF ResultTypeOK
<1>6. hits' \in 0..summed' * points
  <2>1. (summed + 1) * points = summed * points + points
    BY <1>1, ResultFacts
  <2>2. summed * points \in Nat
    BY <1>1, ResultFacts
  <2> QED BY <1>1, <1>3, <1>4, <1>5, <2>1, <2>2, ResultFacts
<1>7. pointsHitSum' \in 0..UInt64Size - 1
  <2>1. pointsHitSum \in Nat
    BY <1>1, ResultAssumption DEF ResultTypeOK
  <2> QED BY <1>3, <1>4, <2>1, UInt64Range
<1>8. ResultTypeOK'
  BY <1>1, <1>3, <1>5, <1>6, <1>7 DEF ResultTypeOK
<1>9. (Fits' <=> Fits) /\ AllPoints' = AllPoints
  BY DEF Fits, AllPoints
<1>10. ASSUME Fits PROVE pointsHitSum' = hits'
  <2>1. hits' \in Nat /\ hits' <= AllPoints
    <3>1. PICK n \in Nat : n = summed + 1
      BY <1>1, ResultFacts
    <3>2. n <= side * side /\ hits' \in 0..n * points
      BY <1>5, <1>6, <3>1
    <3>3. n * points <= (side * side) * points /\ n * points \in Nat
      BY <1>1, <3>1, <3>2, ResultFacts, Times
    <3> QED BY <1>1, <3>2, <3>3, ResultFacts
  <2>2. hits' < UInt64Size
    BY <1>1, <1>10, <2>1, ResultFacts, ResultAssumption DEF Fits
  <2>3. pointsHitSum = hits
    BY <1>1, <1>3, <1>10 DEF ExpansionInv, Sums
  <2> QED BY <1>3, <2>1, <2>2, <2>3, UInt64Small
<1>11. Sums'
  BY <1>1, <1>3, <1>9, <1>10 DEF ExpansionInv, Sums
<1>12. ExpansionIsExact' /\ AllDigits' /\ ScaleStarts' /\ DivisorIsThere'
  BY <1>1, <1>3
  DEF ExpansionInv, ExpansionIsExact, AllDigits, ScaleStarts, DivisorIsThere
<1> QED BY <1>8, <1>11, <1>12 DEF ExpansionInv

LEMMA DivideInv ==
  ASSUME ResultInv, Divide, side' = side, points' = points
  PROVE  ExpansionInv'
<1>1. TypeOK /\ ResultTypeOK /\ ExpansionInv
  BY DEF ResultInv, Inv, ExpansionInv
<1>2. /\ dividend' = UInt64(4 * pointsHitSum)
      /\ (Fits' <=> Fits) /\ AllPoints' = AllPoints
      /\ chosenPoints' = chosenPoints /\ stage = "summing"
  BY DEF Divide, Fits, AllPoints
<1>3. dividend' \in 0..UInt64Size - 1 /\ pointsHitSum \in Nat
  BY <1>1, <1>2, UInt64Range, ResultAssumption DEF ResultTypeOK
<1>4. CASE chosenPoints # 0
  <2>1. /\ printed' = dividend' \div chosenPoints
        /\ remainder' = dividend' % chosenPoints
        /\ stage' = "expanding"
    BY <1>4 DEF Divide
  <2>2. chosenPoints \in Nat \ {0} /\ chosenPoints < UInt64Size
    BY <1>1, <1>4, ResultAssumption DEF ResultTypeOK
  <2>3. /\ printed' \in Nat /\ remainder' \in 0..chosenPoints - 1
        /\ dividend' = printed' * chosenPoints + remainder'
    <3>1. PICK d \in Nat : d = dividend'
      BY <1>3, ResultAssumption
    <3>2. /\ d \div chosenPoints \in Nat /\ d % chosenPoints \in 0..chosenPoints - 1
          /\ d = (d \div chosenPoints) * chosenPoints + (d % chosenPoints)
      BY <2>2, Division
    <3> QED BY <2>1, <3>1, <3>2
  <2>4. remainder' \in 0..UInt64Size - 1
    BY <2>2, <2>3, ResultAssumption
  <2>5. ResultTypeOK'
    BY <1>1, <1>3, <2>1, <2>3, <2>4 DEF Divide, ResultTypeOK
  <2>6. Sums' /\ AllDigits' /\ ScaleStarts' /\ DivisorIsThere'
    BY <1>1, <1>2, <1>4, <2>1
    DEF ExpansionInv, Sums, AllDigits, ScaleStarts, DivisorIsThere
  <2>7. ASSUME Fits PROVE dividend' = 4 * hits /\ chosenPoints = AllPoints
    <3>1. pointsHitSum = hits /\ chosenPoints = AllPoints
      BY <1>1, <1>2, <2>7 DEF ExpansionInv, Sums
    <3>2. 4 * hits < UInt64Size
      BY <1>1, <2>7, ResultFacts, ResultAssumption DEF Fits
    <3> QED BY <1>1, <1>2, <3>1, <3>2, ResultFacts, UInt64Small
  <2>8. ExpansionIsExact'
    <3> SUFFICES ASSUME Fits
                 PROVE  /\ scale' * (4 * hits') = printed' * AllPoints + remainder'
                        /\ remainder' < AllPoints
      BY <1>2 DEF ExpansionIsExact
    <3>1. scale' = 1 /\ hits' = hits
      BY <1>1, <1>2 DEF ExpansionInv, ScaleStarts, Divide
    <3> QED BY <1>1, <2>2, <2>3, <2>7, <3>1, ResultFacts
  <2> QED BY <2>5, <2>6, <2>8 DEF ExpansionInv
<1>5. CASE chosenPoints = 0
  <2>1. stage' = "SIGFPE" /\ printed' = printed /\ remainder' = remainder
    BY <1>5 DEF Divide
  <2>2. ResultTypeOK'
    BY <1>1, <1>3, <2>1 DEF Divide, ResultTypeOK
  <2>3. ~Fits
    BY <1>1, <1>2, <1>5, ResultFacts DEF ExpansionInv, Sums
  <2> QED BY <1>2, <2>1, <2>2, <2>3
          DEF ExpansionInv, Sums, ExpansionIsExact, AllDigits, ScaleStarts,
              DivisorIsThere
<1> QED BY <1>4, <1>5

LEMMA NextDigitInv ==
  ASSUME ResultInv, NextDigit, side' = side, points' = points
  PROVE  ExpansionInv'
<1> DEFINE shifted == UInt64(remainder * 10)
           newDigit == shifted \div chosenPoints
           left == shifted - newDigit * chosenPoints
<1>1. TypeOK /\ ResultTypeOK /\ ExpansionInv
  BY DEF ResultInv, Inv, ExpansionInv
<1>2. /\ remainder' = UInt64(left)
      /\ printed' = printed * 10 + newDigit
      /\ currentDigit' = currentDigit + 1 /\ scale' = scale * 10
      /\ stage = "expanding" /\ stage' = stage /\ currentDigit # digitsAfterDot
      /\ (Fits' <=> Fits) /\ AllPoints' = AllPoints
      /\ chosenPoints' = chosenPoints /\ hits' = hits
      /\ UNCHANGED <<side, points, digitsAfterDot, summed, pointsHitSum, dividend>>
  BY DEF NextDigit, MoreDigits, Fits, AllPoints
<1>3. /\ chosenPoints \in Nat \ {0} /\ shifted \in 0..UInt64Size - 1
      /\ shifted \in Nat
  <2>1. chosenPoints \in Nat \ {0}
    BY <1>1, <1>2, ResultAssumption DEF ExpansionInv, ResultTypeOK, DivisorIsThere
  <2>2. remainder * 10 \in Nat
    BY <1>1, ResultAssumption DEF ResultTypeOK
  <2> QED BY <2>1, <2>2, UInt64Range, ResultAssumption
<1>4. newDigit \in Nat /\ left \in 0..shifted
  <2>1. newDigit \in Nat /\ shifted % chosenPoints \in 0..chosenPoints - 1
        /\ shifted = newDigit * chosenPoints + (shifted % chosenPoints)
    BY <1>3, Division
  <2> HIDE DEF newDigit, shifted
  <2>2. newDigit * chosenPoints \in Nat
    BY <1>3, <2>1
  <2> QED BY <1>3, <2>1, <2>2
<1>5. remainder' \in 0..UInt64Size - 1
  BY <1>2, <1>4, UInt64Range, left \in Nat
<1>6. ResultTypeOK'
  <2>1. printed' \in Nat
    BY <1>1, <1>2, <1>4 DEF ResultTypeOK
  <2>2. scale' \in Nat \ {0}
    BY <1>1, <1>2 DEF ResultTypeOK
  <2>3. currentDigit' \in 0..digitsAfterDot
    BY <1>1, <1>2, ResultFacts DEF ResultTypeOK
  <2> QED BY <1>1, <1>2, <1>5, <2>1, <2>2, <2>3 DEF ResultTypeOK
<1>7. Sums' /\ AllDigits' /\ ScaleStarts' /\ DivisorIsThere'
  BY <1>1, <1>2 DEF ExpansionInv, Sums, AllDigits, ScaleStarts, DivisorIsThere
<1>8. ExpansionIsExact'
  <2> SUFFICES ASSUME Fits
               PROVE  /\ scale' * (4 * hits) = printed' * AllPoints + remainder'
                      /\ remainder' < AllPoints
    BY <1>2 DEF ExpansionIsExact
  <2>1. /\ chosenPoints = AllPoints /\ remainder < AllPoints
        /\ scale * (4 * hits) = printed * AllPoints + remainder
        /\ 10 * AllPoints <= UInt64Size
    BY <1>1, <1>2 DEF ExpansionInv, Sums, ExpansionIsExact, Fits
  <2>2. remainder \in Nat /\ AllPoints \in Nat /\ printed \in Nat
        /\ scale \in Nat /\ hits \in Nat
    BY <1>1, ResultFacts, ResultAssumption DEF ResultTypeOK
  <2>3. remainder' \in 0..AllPoints - 1
        /\ remainder * 10 = newDigit * AllPoints + remainder'
    BY <1>2, <2>1, <2>2, OneDigit
  <2>4. (scale * 10) * (4 * hits) = (scale * (4 * hits)) * 10
    BY <2>2
  <2>5. (printed * AllPoints + remainder) * 10
          = (printed * AllPoints) * 10 + remainder * 10
    BY <2>2
  <2>6. (printed * 10 + newDigit) * AllPoints
          = (printed * AllPoints) * 10 + newDigit * AllPoints
    <3> HIDE DEF newDigit
    <3> QED BY <1>4, <2>2
  <2>7. newDigit * AllPoints \in Nat /\ (printed * AllPoints) * 10 \in Nat
    BY <1>4, <2>2
  <2> HIDE DEF newDigit
  <2>8. scale' * (4 * hits) = printed' * AllPoints + remainder'
    BY <1>2, <2>1, <2>3, <2>4, <2>5, <2>6, <2>7, <2>2
  <2> QED BY <2>2, <2>3, <2>8
<1> QED BY <1>6, <1>7, <1>8 DEF ExpansionInv

LEMMA ResultNextInv ==
  ResultInv /\ [ResultNext]_<<vars, resultVars>> => ResultInv'
<1> SUFFICES ASSUME ResultInv, [ResultNext]_<<vars, resultVars>> PROVE ResultInv'
  OBVIOUS
<1>1. Inv'
  BY NextInv DEF ResultInv, ResultNext
<1>2. side' = side /\ points' = points
  BY DEF ResultNext, Next, Settle, PushBack, Return, vars
<1>3. SquareIsDone'
  BY DEF ResultInv, SquareIsDone, ResultNext, AddSegment, AddHits,
         DivideAndPrint, ChoosePoints, Divide, NextDigit, PutOut,
         Next, Settle, PushBack, Return, vars, resultVars
<1>4. CASE UNCHANGED resultVars
  BY <1>1, <1>2, <1>3, <1>4
  DEF resultVars, ResultInv, ExpansionInv, ResultTypeOK, Sums, ExpansionIsExact,
      AllDigits, ScaleStarts, DivisorIsThere, Fits, AllPoints
<1>5. CASE ChoosePoints
  BY <1>1, <1>2, <1>3, <1>5, ChoosePointsInv DEF ResultInv
<1>6. CASE AddSegment
  BY <1>1, <1>2, <1>3, <1>6, AddSegmentInv DEF ResultInv
<1>7. CASE Divide
  BY <1>1, <1>2, <1>3, <1>7, DivideInv DEF ResultInv
<1>8. CASE NextDigit
  BY <1>1, <1>2, <1>3, <1>8, NextDigitInv DEF ResultInv
<1>9. CASE PutOut
  BY <1>1, <1>2, <1>3, <1>9
  DEF PutOut, MoreDigits, ResultInv, ExpansionInv, ResultTypeOK, Sums,
      ExpansionIsExact, AllDigits, ScaleStarts, DivisorIsThere, Fits, AllPoints
<1> QED BY <1>1, <1>3, <1>4, <1>5, <1>6, <1>7, <1>8, <1>9
        DEF ResultInv, ResultNext, DivideAndPrint

LEMMA ResultInvariance == ResultSpec => []ResultInv
<1> QED BY ResultInitInv, ResultNextInv, PTL DEF ResultSpec

(* Every variable keeps its type.                                          *)
THEOREM ResultTypeCorrect == ResultSpec => []ResultTypeOK
<1>1. ResultInv => ResultTypeOK
  BY DEF ResultInv, ExpansionInv
<1> QED BY <1>1, ResultInvariance, PTL

(* Where 64 bits are enough, the digits and the remainder always make up   *)
(* the quotient, for every side, number of points, digits, and hits.       *)
THEOREM ExpansionCorrect == ResultSpec => []ExpansionIsExact
<1>1. ResultInv => ExpansionIsExact
  BY DEF ResultInv, ExpansionInv
<1> QED BY <1>1, ResultInvariance, PTL

(* Where 64 bits are enough, getResult() returns the truncated quotient.   *)
THEOREM AnswerCorrect == ResultSpec => []AnswerIsTruncated
<1>1. ResultInv => AnswerIsTruncated
  <2> SUFFICES ASSUME ResultInv, Fits
               PROVE  stage # "SIGFPE" /\ (stage = "printed" => AsAskedFor)
    BY DEF AnswerIsTruncated
  <2>1. stage # "SIGFPE"
    BY DEF ResultInv, ExpansionInv, Sums
  <2>2. ASSUME stage = "printed" PROVE AsAskedFor
    <3>1. /\ scale * (4 * hits) = printed * AllPoints + remainder
          /\ remainder < AllPoints /\ currentDigit = digitsAfterDot
      BY <2>2 DEF ResultInv, ExpansionInv, ExpansionIsExact, AllDigits
    <3>2. /\ remainder \in Nat /\ AllPoints \in Nat /\ printed \in Nat
      BY ResultFacts, ResultAssumption
      DEF ResultInv, Inv, ExpansionInv, ResultTypeOK
    <3>3. /\ printed * AllPoints \in Nat
          /\ (printed + 1) * AllPoints = printed * AllPoints + AllPoints
      BY <3>2
    <3> QED BY <3>1, <3>2, <3>3 DEF AsAskedFor
  <2> QED BY <2>1, <2>2
<1> QED BY <1>1, ResultInvariance, PTL

-----------------------------------------------------------------------------
(* WorkerThread.                                                           *)

(* Where the two threads can be at the same time, and that whoever has     *)
(* signalled has counted to the end.                                       *)
Together ==
  /\ main = "idle" => thread \in {"none", "joined"} /\ ~signalled /\ result.job = job
  /\ main = "waiting" => \/ thread = "counting" /\ ~signalled
                         \/ thread \in {"returning", "over"} /\ signalled
  /\ main = "joining" => thread \in {"returning", "over"} /\ ~signalled
  /\ main = "threw" => thread = "none" /\ ~signalled
  /\ thread \in {"returning", "over"} => drawn = job.points

Reported ==
  /\ result.points = result.job.points
  /\ result.hits \in Nat /\ result.points \in Nat /\ result.hits <= result.points

ThreadInv == ThreadTypeOK /\ Together /\ Reported

LEMMA JobTyped ==
  /\ \A j \in Jobs : j.points \in Nat
  /\ NoJob.points = 0
  BY SegmentAssumption DEF Jobs, NoJob

LEMMA ThreadStarts == ASSUME ThreadInit PROVE ThreadInv
  <1>1. ThreadTypeOK
    <2>1. drawn \in 0..job.points /\ pointsHit \in 0..drawn
      BY JobTyped DEF ThreadInit
    <2>2. signalled \in BOOLEAN /\ job \in Jobs \union {NoJob}
      BY DEF ThreadInit
    <2> QED BY <2>1, <2>2 DEF ThreadInit, ThreadTypeOK
  <1>2. Together /\ Reported
    BY JobTyped DEF ThreadInit, Together, Reported
  <1> QED BY <1>1, <1>2 DEF ThreadInv

LEMMA ThreadStep == ASSUME ThreadInv, [ThreadNext]_threadVars PROVE ThreadInv'
  <1>1. ASSUME NEW j \in Jobs, job' = j, main' \in {"waiting", "threw"},
               main' = "waiting" => thread' = "counting",
               main' = "threw" => thread' = "none",
               drawn' = 0, pointsHit' = 0, main = "idle", UNCHANGED <<signalled, result>>
        PROVE  ThreadInv'
    <2>1. ThreadTypeOK'
      BY <1>1, JobTyped DEF ThreadInv, ThreadTypeOK
    <2>2. Together'
      BY <1>1 DEF ThreadInv, Together
    <2>3. Reported'
      BY <1>1 DEF ThreadInv, Reported
    <2> QED BY <2>1, <2>2, <2>3 DEF ThreadInv
  <1>2. ASSUME NEW j \in Jobs, Begin(j) PROVE ThreadInv'
    BY <1>1, <1>2 DEF Begin
  <1>3. ASSUME NEW j \in Jobs, BeginFails(j) PROVE ThreadInv'
    BY <1>1, <1>3 DEF BeginFails
  <1>4. CASE TakeSignal
    <2>1. ThreadTypeOK'
      BY <1>4 DEF TakeSignal, ThreadInv, ThreadTypeOK
    <2>2. Together' /\ Reported'
      BY <1>4 DEF TakeSignal, ThreadInv, Together, Reported
    <2> QED BY <2>1, <2>2 DEF ThreadInv
  <1>5. CASE GetResult
    <2>1. ThreadTypeOK'
      BY <1>5 DEF GetResult, ThreadInv, ThreadTypeOK
    <2>2. Together'
      BY <1>5 DEF GetResult, ThreadInv, Together
    <2>3. drawn = job.points /\ drawn \in Nat /\ pointsHit \in Nat /\ pointsHit <= drawn
      <3>1. job.points \in Nat
        BY JobTyped DEF ThreadInv, ThreadTypeOK
      <3> QED BY <1>5, <3>1 DEF GetResult, ThreadInv, Together, ThreadTypeOK
    <2>4. Reported'
      BY <1>5, <2>3 DEF GetResult, Reported
    <2> QED BY <2>1, <2>2, <2>4 DEF ThreadInv
  <1>6. CASE Draw
    <2>1. job.points \in Nat
      BY JobTyped DEF ThreadInv, ThreadTypeOK
    <2>2. pointsHit' = pointsHit \/ pointsHit' = pointsHit + 1
      BY <1>6 DEF Draw
    <2>3. ThreadTypeOK'
      BY <1>6, <2>1, <2>2 DEF Draw, ThreadInv, ThreadTypeOK
    <2>4. Together' /\ Reported'
      BY <1>6 DEF Draw, ThreadInv, Together, Reported
    <2> QED BY <2>3, <2>4 DEF ThreadInv
  <1>7. CASE Kill \/ End
    <2>1. ThreadTypeOK'
      BY <1>7 DEF Kill, End, ThreadInv, ThreadTypeOK
    <2>2. main \in {"idle", "waiting", "joining", "threw"}
      BY DEF ThreadInv, ThreadTypeOK
    <2>3. Together' /\ Reported'
      BY <1>7, <2>2 DEF Kill, End, ThreadInv, Together, Reported
    <2> QED BY <2>1, <2>3 DEF ThreadInv
  <1>8. CASE UNCHANGED threadVars
    <2>1. ThreadTypeOK'
      BY <1>8 DEF threadVars, ThreadInv, ThreadTypeOK
    <2>2. Together' /\ Reported'
      BY <1>8 DEF threadVars, ThreadInv, Together, Reported
    <2> QED BY <2>1, <2>2 DEF ThreadInv
  <1> QED BY <1>2, <1>3, <1>4, <1>5, <1>6, <1>7, <1>8 DEF ThreadNext, Start, Computing

LEMMA ThreadInvariant == ThreadSpec => []ThreadInv
  <1>1. ThreadInit => ThreadInv
    BY ThreadStarts
  <1>2. ThreadInv /\ [ThreadNext]_threadVars => ThreadInv'
    BY ThreadStep
  <1> QED BY <1>1, <1>2, PTL DEF ThreadSpec

(* The state of both threads has its types, and no point too many is       *)
(* drawn.                                                                  *)
THEOREM ThreadTypeCorrect == ThreadSpec => []ThreadTypeOK
  <1>1. ThreadInv => ThreadTypeOK
    BY DEF ThreadInv
  <1> QED BY <1>1, ThreadInvariant, PTL

(* Every reported result is the count of all the points of its job.        *)
THEOREM ResultCompleteCorrect == ThreadSpec => []ResultIsComplete
  <1>1. ThreadInv => ResultIsComplete
    BY DEF ThreadInv, Together, Reported, ResultIsComplete
  <1> QED BY <1>1, ThreadInvariant, PTL

(* The main thread never goes on while a computing thread is left.         *)
THEOREM OneThreadCorrect == ThreadSpec => []OneThread
  <1>1. ASSUME ThreadInv PROVE OneThread
    <2>1. main \in {"idle", "waiting", "joining", "threw"}
      BY <1>1 DEF ThreadInv, ThreadTypeOK
    <2> QED BY <1>1, <2>1 DEF ThreadInv, Together, OneThread
  <1> QED BY <1>1, ThreadInvariant, PTL

-----------------------------------------------------------------------------
(* Estimate.                                                               *)

(* Subproblems are solved one after the other, each with as many points as *)
(* the server asked for, and before getResult() all are.                   *)
InOrder ==
  /\ found \in Seq(0..points) /\ Len(found) <= Len(subproblems)
  /\ pc = "looping" => found = <<>> /\ main = "idle"
  /\ stage # "calling" => Solved
  /\ main \in {"waiting", "joining"} =>
       Len(found) < Len(subproblems) /\ job.points = points

EstimateInv == ResultInv /\ ThreadInv /\ InOrder

LEMMA NextJobIsJob ==
  ASSUME EstimateInv, pc = "returned", Len(found) < Len(subproblems)
  PROVE  NextJob \in Jobs /\ NextJob.points = points
<1> DEFINE n == Len(found) + 1
           s == subproblems[n]
<1>1. /\ side \in 1..MaxSide /\ points \in 1..MaxPoints /\ i = side * side
      /\ subproblems \in Seq(1..i) /\ n \in 1..Len(subproblems)
  BY DEF EstimateInv, ResultInv, Inv, TypeOK, Processed, InOrder
<1>2. s \in 1..side * side /\ Listed(s)
  BY <1>1 DEF Listed
<1>3. ~IsResultKnown(s, side)
  BY <1>1, <1>2 DEF EstimateInv, ResultInv, Inv, Processed
<1>4. side * side <= MaxSide * MaxSide
  BY <1>1, SegmentAssumption, MulMono
<1>5. s \in 1..MaxSide * MaxSide
  <2>1. side * side \in Nat /\ MaxSide * MaxSide \in Nat
    BY <1>1, SegmentAssumption
  <2> QED BY <1>2, <1>4, <2>1
<1> HIDE DEF s
<1>6. [segmentId |-> s, side |-> side, points |-> points] \in Jobs
  BY <1>1, <1>2, <1>3, <1>5 DEF Jobs
<1> QED BY <1>6 DEF NextJob, s

LEMMA HitsFoundAreHits ==
  ASSUME EstimateInv, Solved, stage = "summing", summed < side * side
  PROVE  HitsFound(summed + 1) \in HitsOf(summed + 1)
<1> DEFINE s == summed + 1
<1>1. CASE Listed(s)
  <2> DEFINE c == CHOOSE n \in 1..Len(subproblems) : subproblems[n] = s
  <2>1. PICK n \in 1..Len(subproblems) : subproblems[n] = s
    BY <1>1 DEF Listed
  <2>2. c \in 1..Len(subproblems)
    BY <2>1
  <2>3. Len(found) = Len(subproblems) /\ found \in Seq(0..points)
    BY DEF Solved, EstimateInv, InOrder
  <2>4. HitsFound(s) = found[c]
    BY <1>1 DEF HitsFound
  <2> HIDE DEF c
  <2>5. found[c] \in 0..points
    BY <2>2, <2>3, ElementOfSeq
  <2> QED BY <1>1, <2>4, <2>5 DEF HitsOf
<1>2. CASE ~Listed(s)
  BY <1>2 DEF HitsFound, HitsOf
<1> QED BY <1>1, <1>2

(* Every step is a step of the server's part or none of it, and the same   *)
(* of the worker's.                                                        *)
LEMMA StepsOfParts ==
  ASSUME EstimateInv, [EstimateNext]_estimateVars
  PROVE  /\ [ResultNext]_<<vars, resultVars>>
         /\ [ThreadNext]_threadVars
<1>1. CASE Initialize
  BY <1>1 DEF Initialize, ResultNext
<1>2. CASE WorkReceived
  BY <1>2, NextJobIsJob DEF WorkReceived, ThreadNext, Start, serverVars
<1>3. CASE Compute
  BY <1>3 DEF Compute, ThreadNext, serverVars
<1>4. CASE ResultReceived
  BY <1>4 DEF ResultReceived, ThreadNext, serverVars
<1>5. CASE Evaluate
  <2>1. CASE AddHits(HitsFound(summed + 1))
    <3>1. AddSegment
      BY <1>5, <2>1, HitsFoundAreHits DEF AddSegment, AddHits, Evaluate
    <3> QED BY <1>5, <3>1 DEF Evaluate, ResultNext
  <2>2. CASE DivideAndPrint
    BY <1>5, <2>2 DEF Evaluate, ResultNext
  <2> QED BY <1>5, <2>1, <2>2 DEF Evaluate
<1>6. CASE UNCHANGED estimateVars
  BY <1>6 DEF estimateVars, serverVars
<1> QED BY <1>1, <1>2, <1>3, <1>4, <1>5, <1>6 DEF EstimateNext

LEMMA InOrderKept ==
  ASSUME EstimateInv, [EstimateNext]_estimateVars PROVE InOrder'
<1>1. CASE Initialize
  <2>1. /\ UNCHANGED <<found, main, job, stage>> /\ points' = points
        /\ pc = "looping" /\ stage = "calling" /\ found = <<>> /\ main = "idle"
    BY <1>1 DEF Initialize, Next, Settle, PushBack, Return, threadVars, resultVars,
                EstimateInv, ResultInv, SquareIsDone, InOrder
  <2>2. subproblems' \in Seq(1..i')
    BY <1>1, StepsOfParts, ResultNextInv DEF EstimateInv, ResultInv, Inv, TypeOK
  <2> QED BY <2>1, <2>2 DEF InOrder
<1>2. CASE WorkReceived
  BY <1>2, NextJobIsJob
  DEF WorkReceived, Begin, BeginFails, serverVars, vars, resultVars,
      EstimateInv, InOrder, Solved
<1>3. CASE Compute
  BY <1>3
  DEF Compute, Computing, Draw, Kill, End, TakeSignal, serverVars, vars,
      resultVars, EstimateInv, InOrder, Solved
<1>4. CASE ResultReceived
  <2>1. /\ found' = Append(found, result'.hits) /\ result'.hits = pointsHit
        /\ main = "joining" /\ main' = "idle" /\ thread = "over"
        /\ UNCHANGED <<side, points, i, pc, squareSegments, subproblems, stage>>
    BY <1>4 DEF ResultReceived, GetResult, serverVars, vars, resultVars
  <2>2. pointsHit \in 0..points
    <3>1. drawn = points /\ drawn \in 0..job.points /\ pointsHit \in 0..drawn
      BY <2>1 DEF EstimateInv, InOrder, ThreadInv, ThreadTypeOK, Together
    <3> QED BY <3>1
  <2>3. /\ found \in Seq(0..points) /\ Len(found) < Len(subproblems)
        /\ pc = "looping" => main = "idle"
    BY <2>1 DEF EstimateInv, InOrder
  <2>4. found' \in Seq(0..points) /\ Len(found') = Len(found) + 1
    BY <2>1, <2>2, <2>3, Appended
  <2>5. stage = "calling"
    BY <2>3 DEF EstimateInv, InOrder, Solved
  <2>6. Len(subproblems) \in Nat /\ Len(found) \in Nat
    BY <2>3 DEF EstimateInv, ResultInv, Inv, TypeOK
  <2> QED BY <2>1, <2>3, <2>4, <2>5, <2>6 DEF InOrder, Solved
<1>5. CASE Evaluate
  BY <1>5
  DEF Evaluate, vars, threadVars, EstimateInv, InOrder, Solved
<1>6. CASE UNCHANGED estimateVars
  BY <1>6
  DEF estimateVars, serverVars, vars, resultVars, threadVars, EstimateInv,
      InOrder, Solved
<1> QED BY <1>1, <1>2, <1>3, <1>4, <1>5, <1>6 DEF EstimateNext

LEMMA EstimateInvariance == EstimateSpec => []EstimateInv
<1>1. ASSUME EstimateInit PROVE EstimateInv
  <2>1. ResultInv /\ ThreadInv
    BY <1>1, ResultInitInv, ThreadStarts DEF EstimateInit
  <2>2. /\ found = <<>> /\ subproblems = <<>> /\ main = "idle"
        /\ stage = "calling"
    BY <1>1 DEF EstimateInit, ResultInit, ThreadInit, Init
  <2>3. <<>> \in Seq(0..points) /\ Len(<<>>) = 0
    OBVIOUS
  <2> QED BY <2>1, <2>2, <2>3 DEF EstimateInv, InOrder
<1>2. EstimateInv /\ [EstimateNext]_estimateVars => EstimateInv'
  BY StepsOfParts, InOrderKept, ResultNextInv, ThreadStep DEF EstimateInv
<1> QED BY <1>1, <1>2, PTL DEF EstimateSpec

(* All variables keep their types, in every estimate of the bounds.        *)
THEOREM EstimateTypeCorrect == EstimateSpec => []EstimateTypeOK
<1>1. EstimateInv => EstimateTypeOK
  BY DEF EstimateInv, EstimateTypeOK, ResultInv, ExpansionInv, Inv, ThreadInv, InOrder
<1> QED BY <1>1, EstimateInvariance, PTL

(* The composition implements initialize() with getResult(), and the       *)
(* computing thread with its fairness.                                     *)
THEOREM EstimateImplements == EstimateSpec => ResultSpec /\ ThreadSpec
<1>1. EstimateInit => ResultInit /\ ThreadInit
  BY DEF EstimateInit
<1>2. EstimateInv /\ [EstimateNext]_estimateVars =>
        [ResultNext]_<<vars, resultVars>> /\ [ThreadNext]_threadVars
  BY StepsOfParts
<1> QED BY <1>1, <1>2, EstimateInvariance, PTL
        DEF EstimateSpec, ResultSpec, ThreadSpec

(* What is printed at the end of it all is the truncated quotient of the   *)
(* hits the workers counted and the points they drew, where the width      *)
(* suffices.                                                               *)
THEOREM EstimateAnswer == EstimateSpec => []AnswerIsTruncated
  BY EstimateImplements, AnswerCorrect, PTL

(* Every result the server is told is the complete count of its job.       *)
THEOREM EstimateResults == EstimateSpec => []ResultIsComplete
  BY EstimateImplements, ResultCompleteCorrect, PTL

-----------------------------------------------------------------------------
(* Between the cells inside and those the circle reaches.                  *)

LEMMA Cancel ==
  ASSUME NEW a \in Nat, NEW b \in Nat, NEW c \in Nat \ {0}
  PROVE  a * c <= b * c <=> a <= b
<1>1. a <= b => a * c <= b * c
  BY Times
<1>2. ASSUME b < a PROVE b * c < a * c
  <2>1. (b + 1) * c <= a * c
    BY <1>2, Times, b + 1 \in Nat, b + 1 <= a
  <2>2. (b + 1) * c = b * c + c /\ b * c \in Nat /\ a * c \in Nat
    OBVIOUS
  <2> QED BY <2>1, <2>2
<1>3. a * c \in Nat /\ b * c \in Nat
  OBVIOUS
<1> QED BY <1>1, <1>2, <1>3

(* K does not matter for the corners of a segment.                         *)
LEMMA Scaled ==
  ASSUME NEW a \in Nat, NEW b \in Nat, NEW s \in Nat
  PROVE  (K * a) * (K * a) + (K * b) * (K * b) <= (K * s) * (K * s)
           <=> a * a + b * b <= s * s
<1>1. K \in Nat \ {0}
  BY SegmentAssumption
<1>2. (K * a) * (K * a) + (K * b) * (K * b) = (a * a + b * b) * (K * K)
  BY <1>1, Squares, K * a = a * K, K * b = b * K
<1>3. (K * s) * (K * s) = (s * s) * (K * K)
  BY <1>1
<1>4. a * a + b * b \in Nat /\ s * s \in Nat /\ K * K \in Nat \ {0}
  BY <1>1
<1> QED BY <1>2, <1>3, <1>4, Cancel

(* The cell of a segment, and the segment of a cell.                       *)
Cell(s) == <<Column(s, side) - 1, Row(s, side) - 1>>
Id(c)   == c[2] * side + c[1] + 1

LEMMA CellOfSegment ==
  ASSUME side \in Nat \ {0}
  PROVE  /\ \A s \in Ids(side) : Cell(s) \in Cells /\ Id(Cell(s)) = s
         /\ \A c \in Cells : Id(c) \in Ids(side) /\ Cell(Id(c)) = c
<1>1. ASSUME NEW s \in Ids(side)
      PROVE  Cell(s) \in Cells /\ Id(Cell(s)) = s
  <2>1. /\ Column(s, side) \in 1..side /\ Row(s, side) \in 1..side
        /\ s = (Row(s, side) - 1) * side + Column(s, side)
    BY <1>1, ColumnRow
  <2>2. (Row(s, side) - 1) * side \in Nat
    BY <2>1
  <2> QED BY <2>1, <2>2 DEF Cell, Id, Cells
<1>2. ASSUME NEW c \in Cells
      PROVE  Id(c) \in Ids(side) /\ Cell(Id(c)) = c
  <2>1. PICK x \in 0..side - 1, y \in 0..side - 1 : c = <<x, y>>
    BY <1>2 DEF Cells
  <2>2. /\ y * side + x + 1 \in Ids(side)
        /\ Column(y * side + x + 1, side) = x + 1
        /\ Row(y * side + x + 1, side) = y + 1
    BY ColumnRowOf
  <2>3. Id(c) = y * side + x + 1
    BY <2>1 DEF Id
  <2> QED BY <2>1, <2>2, <2>3 DEF Cell
<1> QED BY <1>1, <1>2

(* The cells of a set whose segments are summed up.                        *)
UpTo(C, n) == {c \in C : Id(c) <= n}

LEMMA UpToGrows ==
  ASSUME side \in Nat \ {0}, NEW C \in SUBSET Cells, NEW n \in Nat, n < side * side
  PROVE  /\ Cardinality(UpTo(C, n)) \in Nat
         /\ Cardinality(UpTo(C, n + 1)) =
              Cardinality(UpTo(C, n)) + (IF Cell(n + 1) \in C THEN 1 ELSE 0)
<1>1. IsFiniteSet(UpTo(C, n))
  <2>1. IsFiniteSet(0..side - 1)
    BY FS_Interval
  <2>2. IsFiniteSet(Cells)
    BY <2>1, FS_Product DEF Cells
  <2>3. UpTo(C, n) \in SUBSET Cells
    BY DEF UpTo
  <2> QED BY <2>2, <2>3, FS_Subset
<1>2. n + 1 \in Ids(side)
  BY side * side \in Nat DEF Ids
<1>3. \A c \in C : /\ Id(c) \in Nat
                   /\ Id(c) = n + 1 <=> c = Cell(n + 1)
  BY <1>2, CellOfSegment DEF Ids
<1>4. Cell(n + 1) \in C => UpTo(C, n + 1) = UpTo(C, n) \cup {Cell(n + 1)}
  BY <1>3 DEF UpTo
<1>5. Cell(n + 1) \notin C => UpTo(C, n + 1) = UpTo(C, n)
  BY <1>3 DEF UpTo
<1>6. Cell(n + 1) \notin UpTo(C, n)
  BY <1>2, CellOfSegment DEF UpTo
<1>7. /\ Cardinality(UpTo(C, n)) \in Nat
      /\ Cardinality(UpTo(C, n) \cup {Cell(n + 1)}) = Cardinality(UpTo(C, n)) + 1
  BY <1>1, <1>6, FS_AddElement, FS_CardinalityType
<1>8. CASE Cell(n + 1) \in C
  <2>1. UpTo(C, n + 1) = UpTo(C, n) \cup {Cell(n + 1)}
    BY <1>4, <1>8
  <2> QED BY <1>7, <1>8, <2>1
<1>9. CASE Cell(n + 1) \notin C
  <2>1. UpTo(C, n + 1) = UpTo(C, n)
    BY <1>5, <1>9
  <2> QED BY <1>7, <1>9, <2>1
<1> QED BY <1>8, <1>9

LEMMA UpToAll ==
  ASSUME side \in Nat \ {0}, NEW C \in SUBSET Cells
  PROVE  UpTo(C, 0) = {} /\ UpTo(C, side * side) = C
<1>1. \A c \in C : Id(c) \in 1..side * side
  BY CellOfSegment DEF Ids
<1> QED BY <1>1, side * side \in Nat DEF UpTo

(* A segment whose cell lies in the circle has all the hits, one whose     *)
(* cell the circle does not reach has none.                                *)
LEMMA HitsOfCell ==
  ASSUME Inv, NEW s \in 1..i, NEW h \in HitsOf(s)
  PROVE  /\ h \in 0..points
         /\ Cell(s) \in Inner => h = points
         /\ Cell(s) \notin Outer => h = 0
<1> DEFINE a == Column(s, side)
           b == Row(s, side)
<1>1. /\ side \in 1..MaxSide /\ side \in Nat \ {0} /\ points \in Nat /\ s \in Ids(side)
      /\ squareSegments[s] \in {0, points}
  BY SegmentAssumption DEF Inv, TypeOK, Ids
<1>2. a \in 1..side /\ b \in 1..side /\ Cell(s) \in Cells /\ Cell(s) = <<a - 1, b - 1>>
  BY <1>1, ColumnRow, CellOfSegment DEF Cell
<1>3. IsWholeInsideCircle(s, side) <=> a * a + b * b <= side * side
  BY <1>1, <1>2, CornerTests, Corners, Scaled
<1>4. IsWholeOutsideCircle(s, side) <=>
        ~((a - 1) * (a - 1) + (b - 1) * (b - 1) <= side * side)
  BY <1>1, <1>2, CornerTests, Corners, Scaled, a - 1 \in Nat, b - 1 \in Nat
<1> HIDE DEF a, b
<1>5. Cell(s) \in Inner <=> IsWholeInsideCircle(s, side)
  BY <1>1, <1>2, <1>3 DEF Inner
<1>6. Cell(s) \notin Outer <=> IsWholeOutsideCircle(s, side)
  BY <1>1, <1>2, <1>4 DEF Outer
<1>7. ~(IsWholeInsideCircle(s, side) /\ IsWholeOutsideCircle(s, side))
  <2>1. (a - 1) * (a - 1) <= a * a /\ (b - 1) * (b - 1) <= b * b
    BY <1>2, MulMono, a - 1 \in Nat, b - 1 \in Nat, a \in Nat, b \in Nat
  <2>2. /\ (a - 1) * (a - 1) \in Nat /\ a * a \in Nat
        /\ (b - 1) * (b - 1) \in Nat /\ b * b \in Nat /\ side * side \in Nat
    BY <1>1, <1>2
  <2> QED BY <1>3, <1>4, <2>1, <2>2
<1>8. /\ Listed(s) <=> ~IsResultKnown(s, side)
      /\ ~Listed(s) => squareSegments[s] =
                         IF IsWholeInsideCircle(s, side) THEN points ELSE 0
  BY DEF Inv, Processed
<1> QED BY <1>1, <1>5, <1>6, <1>7, <1>8 DEF HitsOf, IsResultKnown

(* The hits summed up so far lie between those of the cells inside and     *)
(* those of the cells the circle reaches.                                  *)
Counted ==
  /\ Cardinality(UpTo(Inner, summed)) * points <= hits
  /\ hits <= Cardinality(UpTo(Outer, summed)) * points
  /\ stage \in {"expanding", "printed"} => summed = side * side

LEMMA CountedBegins == ResultInit => Counted
<1> SUFFICES ASSUME ResultInit PROVE Counted
  OBVIOUS
<1>1. side \in Nat \ {0} /\ points \in Nat
  BY SegmentAssumption DEF ResultInit, Init, SideAccepted
<1>2. summed = 0 /\ hits = 0 /\ stage = "calling"
  BY DEF ResultInit
<1>3. Inner \in SUBSET Cells /\ Outer \in SUBSET Cells
  BY DEF Inner, Outer
<1>4. UpTo(Inner, summed) = {} /\ UpTo(Outer, summed) = {}
  BY <1>1, <1>2, <1>3, UpToAll
<1> QED BY <1>1, <1>2, <1>4, FS_EmptySet DEF Counted

LEMMA CountedStays ==
  ASSUME ResultInv, Counted, [ResultNext]_<<vars, resultVars>>
  PROVE  Counted'
<1>1. side' = side /\ points' = points
  BY DEF ResultNext, Next, Settle, PushBack, Return, vars
<1>2. /\ UpTo(Inner, summed)' = UpTo(Inner, summed')
      /\ UpTo(Outer, summed)' = UpTo(Outer, summed')
  BY <1>1 DEF UpTo, Id, Inner, Outer, Cells
<1>3. CASE UNCHANGED <<summed, hits, stage>>
  BY <1>1, <1>2, <1>3 DEF Counted
<1>4. CASE UNCHANGED <<summed, hits>> /\ stage' # stage
  <2>1. stage' \in {"expanding", "printed"} => summed = side * side
    BY <1>4 DEF ResultNext, resultVars, AddSegment, AddHits, DivideAndPrint, ChoosePoints,
      Divide, NextDigit, PutOut, Counted
  <2> QED BY <1>1, <1>2, <1>4, <2>1 DEF Counted
<1>5. CASE AddSegment
  <2>1. PICK h \in HitsOf(summed + 1) :
          /\ summed < side * side /\ summed' = summed + 1
          /\ hits' = hits + h /\ stage = "summing" /\ stage' = stage
    BY <1>5 DEF AddSegment, AddHits
  <2>2. /\ Inv /\ TypeOK /\ ResultTypeOK /\ i = side * side
    BY <2>1 DEF ResultInv, SquareIsDone, Inv, Processed, ExpansionInv
  <2>3. /\ side \in Nat \ {0} /\ points \in Nat /\ summed \in Nat /\ hits \in Nat
        /\ side * side \in Nat
    BY <2>2, ResultFacts
  <2>4. /\ h \in 0..points
        /\ Cell(summed + 1) \in Inner => h = points
        /\ Cell(summed + 1) \notin Outer => h = 0
    BY <2>1, <2>2, <2>3, HitsOfCell, summed + 1 \in 1..i
  <2> DEFINE inner == Cardinality(UpTo(Inner, summed))
             outer == Cardinality(UpTo(Outer, summed))
  <2>5. Inner \in SUBSET Cells /\ Outer \in SUBSET Cells
    BY DEF Inner, Outer
  <2>6. /\ inner \in Nat /\ outer \in Nat
        /\ Cardinality(UpTo(Inner, summed + 1)) =
             inner + (IF Cell(summed + 1) \in Inner THEN 1 ELSE 0)
        /\ Cardinality(UpTo(Outer, summed + 1)) =
             outer + (IF Cell(summed + 1) \in Outer THEN 1 ELSE 0)
    BY <2>1, <2>3, <2>5, UpToGrows
  <2>7. inner * points <= hits /\ hits <= outer * points
    BY DEF Counted
  <2> HIDE DEF inner, outer
  <2>8. /\ inner * points \in Nat /\ (inner + 1) * points = inner * points + points
        /\ outer * points \in Nat /\ (outer + 1) * points = outer * points + points
    BY <2>3, <2>6
  <2>9. Cardinality(UpTo(Inner, summed + 1)) * points <= hits'
    <3>1. CASE Cell(summed + 1) \in Inner
      BY <2>1, <2>3, <2>4, <2>6, <2>7, <2>8, <3>1
    <3>2. CASE Cell(summed + 1) \notin Inner
      <4>1. Cardinality(UpTo(Inner, summed + 1)) = inner
        BY <2>6, <3>2
      <4> QED BY <2>1, <2>3, <2>4, <2>7, <2>8, <4>1
    <3> QED BY <3>1, <3>2
  <2>10. hits' <= Cardinality(UpTo(Outer, summed + 1)) * points
    <3>1. CASE Cell(summed + 1) \in Outer
      BY <2>1, <2>3, <2>4, <2>6, <2>7, <2>8, <3>1
    <3>2. CASE Cell(summed + 1) \notin Outer
      <4>1. Cardinality(UpTo(Outer, summed + 1)) = outer
        BY <2>6, <3>2
      <4> QED BY <2>1, <2>3, <2>4, <2>7, <2>8, <3>2, <4>1
    <3> QED BY <3>1, <3>2
  <2> QED BY <1>1, <1>2, <2>1, <2>9, <2>10 DEF Counted
<1>6. AddSegment \/ UNCHANGED <<summed, hits>>
  BY DEF ResultNext, resultVars, DivideAndPrint, ChoosePoints, Divide, NextDigit, PutOut
<1> QED BY <1>3, <1>4, <1>5, <1>6

LEMMA CountedInvariance == ResultSpec => [](ResultInv /\ Counted)
<1>1. ResultInit => ResultInv /\ Counted
  BY ResultInitInv, CountedBegins
<1>2. ResultInv /\ Counted /\ [ResultNext]_<<vars, resultVars>> => (ResultInv /\ Counted)'
  BY ResultNextInv, CountedStays
<1> QED BY <1>1, <1>2, PTL DEF ResultSpec

(* Whatever the workers drew, what is printed lies between four times the  *)
(* share of the cells inside the circle and that of the cells it reaches:  *)
(* for every side, number of points and digits where 64 bits are enough.   *)
THEOREM EstimateBracketed == EstimateSpec => []EstimateIsBracketed
<1>1. ResultInv /\ Counted /\ AnswerIsTruncated => EstimateIsBracketed
  <2> SUFFICES ASSUME ResultInv, Counted, AnswerIsTruncated, Fits, stage = "printed"
               PROVE  /\ scale * (4 * Cardinality(Inner)) < (printed + 1) * (side * side)
                      /\ printed * (side * side) <= scale * (4 * Cardinality(Outer))
    BY DEF EstimateIsBracketed
  <2> DEFINE I == Cardinality(Inner)
             O == Cardinality(Outer)
             S == side * side
  <2>1. TypeOK /\ ResultTypeOK
    BY DEF ResultInv, Inv, ExpansionInv
  <2>2. /\ side \in Nat \ {0} /\ S \in Nat /\ points \in Nat \ {0} /\ hits \in Nat
        /\ AllPoints = S * points
    BY <2>1, ResultFacts
  <2>3. printed \in Nat /\ scale \in Nat
    BY <2>1 DEF ResultTypeOK
  <2>4. Inner \in SUBSET Cells /\ Outer \in SUBSET Cells
    BY DEF Inner, Outer
  <2>5. summed = S /\ UpTo(Inner, S) = Inner /\ UpTo(Outer, S) = Outer
    BY <2>2, <2>4, UpToAll DEF Counted
  <2>6. I \in Nat /\ O \in Nat
    <3>1. IsFiniteSet(0..side - 1)
      BY <2>2, FS_Interval
    <3>2. IsFiniteSet(Cells)
      BY <3>1, FS_Product DEF Cells
    <3> QED BY <2>4, <3>2, FS_Subset, FS_CardinalityType
  <2>7. I * points <= hits /\ hits <= O * points
    BY <2>5 DEF Counted
  <2>8. /\ printed * (S * points) <= scale * (4 * hits)
        /\ scale * (4 * hits) < (printed + 1) * (S * points)
    BY <2>2 DEF AnswerIsTruncated, AsAskedFor
  <2> HIDE DEF I, O, S
  <2>9. (scale * (4 * I)) * points <= scale * (4 * hits)
    <3>1. (I * points) * (4 * scale) <= hits * (4 * scale)
      BY <2>2, <2>3, <2>6, <2>7, Times, I * points \in Nat, 4 * scale \in Nat
    <3> QED BY <2>2, <2>3, <2>6, <3>1
  <2>10. scale * (4 * hits) <= (scale * (4 * O)) * points
    <3>1. hits * (4 * scale) <= (O * points) * (4 * scale)
      BY <2>2, <2>3, <2>6, <2>7, Times, O * points \in Nat, 4 * scale \in Nat
    <3> QED BY <2>2, <2>3, <2>6, <3>1
  <2>11. /\ scale * (4 * I) \in Nat /\ scale * (4 * O) \in Nat /\ scale * (4 * hits) \in Nat
         /\ printed * S \in Nat /\ (printed + 1) * S \in Nat
    BY <2>2, <2>3, <2>6
  <2>12. /\ printed * (S * points) = (printed * S) * points
         /\ (printed + 1) * (S * points) = ((printed + 1) * S) * points
    BY <2>2, <2>3
  <2> DEFINE lo == scale * (4 * I)
             hi == scale * (4 * O)
             m  == scale * (4 * hits)
             p  == printed * S
             q  == (printed + 1) * S
  <2>13. /\ lo \in Nat /\ hi \in Nat /\ m \in Nat /\ p \in Nat /\ q \in Nat
         /\ lo * points <= m /\ m <= hi * points /\ p * points <= m /\ m < q * points
    BY <2>8, <2>9, <2>10, <2>11, <2>12
  <2> HIDE DEF lo, hi, m, p, q
  <2>14. p <= hi
    BY <2>2, <2>13, Cancel, p * points \in Nat, hi * points \in Nat
  <2>15. ~(q <= lo)
    <3>1. ~(q * points <= lo * points)
      BY <2>2, <2>13, q * points \in Nat, lo * points \in Nat
    <3> QED BY <2>2, <2>13, <3>1, Cancel
  <2>16. lo < q
    BY <2>13, <2>15
  <2> QED BY <2>14, <2>16 DEF lo, hi, p, q, I, O, S
<1> QED BY <1>1, EstimateImplements, EstimateAnswer, CountedInvariance, PTL
=============================================================================
