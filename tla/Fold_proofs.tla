---------------------------- MODULE Fold_proofs ----------------------------
(***************************************************************************)
(* Folding a sequence with an operator Op.  A lemma cannot be applied to   *)
(* an operator, but this module can be instantiated with one.              *)
(***************************************************************************)
EXTENDS SequencesExt, SequenceTheorems, WellFoundedInduction, TLAPS

CONSTANT Op(_, _)

(* Induction, for a set of numbers.                                        *)
LEMMA AllNumbers ==
  ASSUME NEW S, 0 \in S, \A n \in Nat : n \in S => n + 1 \in S
  PROVE  Nat \subseteq S
<1> DEFINE R == OpToRel(<, Nat)
           T == Nat \ S
<1>1. IsWellFoundedOn(R, Nat)
  BY NatLessThanWellFounded
<1>2. \A x \in Nat, y \in Nat : y < x => <<y, x>> \in R
  BY DEF OpToRel
<1> HIDE DEF R
<1>3. ASSUME T # {} PROVE FALSE
  <2>1. T \subseteq Nat
    OBVIOUS
  <2>2. PICK x \in T : \A y \in T : <<y, x>> \notin R
    BY <1>1, <1>3, <2>1, WFMin
  <2>3. x \in Nat /\ x # 0 /\ x - 1 \in Nat /\ x - 1 < x
    OBVIOUS
  <2>4. x - 1 \notin T
    BY <1>2, <2>2, <2>3
  <2>5. (x - 1) + 1 \in S
    BY <2>3, <2>4
  <2> QED BY <2>3, <2>5
<1> QED BY <1>3

LEMMA MaxIs ==
  ASSUME NEW n \in Nat, NEW s \in SUBSET (1..n + 1), n + 1 \in s
  PROVE  Max(s) = n + 1
<1> DEFINE P(x) == \A y \in s : x >= y
<1>1. \A x \in s : x \in Nat /\ x <= n + 1
  OBVIOUS
<1>2. n + 1 \in s /\ P(n + 1)
  BY <1>1
<1>3. Max(s) = CHOOSE x \in s : P(x)
  BY DEF Max
<1>4. \A x \in s : P(x) => x = n + 1
  BY <1>1
<1> HIDE DEF P
<1> QED BY <1>2, <1>3, <1>4

(* The sets of places of a sequence, each with the fold of what is there.  *)
IsFold(g, base, seq, n) ==
  g = [s \in SUBSET (1..n) |->
         IF s = {} THEN base ELSE Op(g[s \ {Max(s)}], seq[Max(s)])]

LEMMA FoldExists ==
  ASSUME NEW base, NEW seq, NEW m \in Nat
  PROVE  \E g : IsFold(g, base, seq, m)
<1> DEFINE S == {n \in Nat : \E g : IsFold(g, base, seq, n)}
<1>1. 0 \in S
  <2> DEFINE g == [s \in SUBSET (1..0) |-> base]
  <2>1. \A s \in SUBSET (1..0) : s = {}
    OBVIOUS
  <2>2. IsFold(g, base, seq, 0)
    BY <2>1 DEF IsFold
  <2> QED BY <2>2
<1>2. ASSUME NEW n \in Nat, n \in S
      PROVE  n + 1 \in S
  <2>1. PICK g : IsFold(g, base, seq, n)
    BY <1>2
  <2> DEFINE h == [s \in SUBSET (1..n + 1) |->
                     IF n + 1 \in s THEN Op(g[s \ {n + 1}], seq[n + 1]) ELSE g[s]]
  <2>2. ASSUME NEW s \in SUBSET (1..n + 1)
        PROVE  h[s] = IF s = {} THEN base ELSE Op(h[s \ {Max(s)}], seq[Max(s)])
    <3>1. CASE n + 1 \in s
      <4>1. Max(s) = n + 1 /\ s \ {n + 1} \in SUBSET (1..n + 1) /\ n + 1 \notin s \ {n + 1}
        BY <3>1, MaxIs
      <4>2. h[s \ {n + 1}] = g[s \ {n + 1}]
        BY <4>1
      <4> QED BY <3>1, <4>1, <4>2
    <3>2. CASE n + 1 \notin s
      <4>1. s \in SUBSET (1..n) /\ s \ {Max(s)} \in SUBSET (1..n + 1)
            /\ n + 1 \notin s \ {Max(s)}
        <5>1. \A x \in s : x \in 1..n + 1 /\ x # n + 1
          BY <3>2
        <5>2. \A x \in s : x \in 1..n
          BY <5>1
        <5> QED BY <5>1, <5>2
      <4>2. h[s] = g[s] /\ h[s \ {Max(s)}] = g[s \ {Max(s)}]
        BY <3>2, <4>1
      <4>3. g[s] = IF s = {} THEN base ELSE Op(g[s \ {Max(s)}], seq[Max(s)])
        BY <2>1, <4>1 DEF IsFold
      <4> QED BY <4>2, <4>3
    <3> QED BY <3>1, <3>2
  <2>3. h = [s \in SUBSET (1..n + 1) |-> h[s]]
    OBVIOUS
  <2> HIDE DEF h
  <2>4. IsFold(h, base, seq, n + 1)
    BY <2>2, <2>3 DEF IsFold
  <2> QED BY <2>4
<1> HIDE DEF S
<1>3. m \in S
  BY <1>1, <1>2, AllNumbers
<1> QED BY <1>3 DEF S

(* A fold, step by step.                                                   *)
LEMMA FoldSteps ==
  ASSUME NEW E, NEW seq \in Seq(E), NEW base
  PROVE  \E F : /\ F[0] = base
                /\ \A n \in 1..Len(seq) : F[n] = Op(F[n - 1], seq[n])
                /\ FoldLeft(Op, base, seq) = F[Len(seq)]
<1> DEFINE m == Len(seq)
           g == CHOOSE g : IsFold(g, base, seq, m)
<1>1. m \in Nat /\ DOMAIN seq = 1..m
  BY LenProperties
<1>2. FoldLeft(Op, base, seq) = g[1..m]
  BY <1>1 DEF FoldLeft, MapThenFoldSet, IsFold
<1>3. IsFold(g, base, seq, m)
  BY <1>1, FoldExists
<1> HIDE DEF g, m
<1> DEFINE F == [n \in 0..m |-> g[1..n]]
<1>4. F[0] = base
  BY <1>1, <1>3, 1..0 = {} DEF IsFold
<1>5. ASSUME NEW n \in 1..m
      PROVE  F[n] = Op(F[n - 1], seq[n])
  <2>1. PICK k \in Nat : n = k + 1
    BY <1>1, n - 1 \in Nat
  <2>2. Max(1..n) = n /\ (1..n) \ {n} = 1..n - 1 /\ 1..n # {} /\ 1..n \in SUBSET (1..m)
    <3>1. 1..n \in SUBSET (1..k + 1) /\ k + 1 \in 1..n
      BY <1>1, <2>1
    <3>2. Max(1..n) = k + 1
      BY <3>1, MaxIs
    <3>3. (1..n) \ {n} = 1..n - 1
      BY <2>1
    <3>4. 1..n \in SUBSET (1..m) /\ n \in 1..n
      BY <1>1, <2>1
    <3> QED BY <2>1, <3>2, <3>3, <3>4
  <2>3. g[1..n] = Op(g[1..n - 1], seq[n])
    BY <1>3, <2>2 DEF IsFold
  <2> QED BY <1>1, <2>3
<1>6. FoldLeft(Op, base, seq) = F[m]
  BY <1>1, <1>2
<1> QED BY <1>4, <1>5, <1>6 DEF m

(* What holds at the beginning and is kept by every step holds at the end; *)
(* I[n] are the values the fold may have after n steps.                    *)
LEMMA FoldInduction ==
  ASSUME NEW E, NEW seq \in Seq(E), NEW base, NEW I, base \in I[0],
         \A n \in 1..Len(seq) : \A s \in I[n - 1] : Op(s, seq[n]) \in I[n]
  PROVE  FoldLeft(Op, base, seq) \in I[Len(seq)]
<1>1. PICK F : /\ F[0] = base
               /\ \A n \in 1..Len(seq) : F[n] = Op(F[n - 1], seq[n])
               /\ FoldLeft(Op, base, seq) = F[Len(seq)]
  BY FoldSteps
<1>2. Len(seq) \in Nat
  BY LenProperties
<1> DEFINE S == {n \in Nat : n <= Len(seq) => F[n] \in I[n]}
<1>3. 0 \in S
  BY <1>1
<1>4. ASSUME NEW n \in Nat, n \in S
      PROVE  n + 1 \in S
  <2> SUFFICES ASSUME n + 1 <= Len(seq) PROVE F[n + 1] \in I[n + 1]
    OBVIOUS
  <2>1. n + 1 \in 1..Len(seq) /\ (n + 1) - 1 = n /\ F[n] \in I[n]
    BY <1>2, <1>4
  <2> QED BY <1>1, <2>1
<1> HIDE DEF S
<1>5. Len(seq) \in S
  BY <1>2, <1>3, <1>4, AllNumbers
<1> QED BY <1>1, <1>2, <1>5 DEF S

(* No step, and one.                                                       *)
LEMMA FoldNone ==
  ASSUME NEW base
  PROVE  FoldLeft(Op, base, <<>>) = base
<1> DEFINE seq == <<>>
<1>1. seq \in Seq({}) /\ Len(seq) = 0
  OBVIOUS
<1> HIDE DEF seq
<1>2. PICK F : /\ F[0] = base
               /\ \A n \in 1..Len(seq) : F[n] = Op(F[n - 1], seq[n])
               /\ FoldLeft(Op, base, seq) = F[Len(seq)]
  BY <1>1, FoldSteps
<1>3. FoldLeft(Op, base, seq) = base
  BY <1>1, <1>2
<1> QED BY <1>3 DEF seq

LEMMA FoldOnce ==
  ASSUME NEW base, NEW x
  PROVE  FoldLeft(Op, base, <<x>>) = Op(base, x)
<1> DEFINE seq == <<x>>
<1>1. seq \in Seq({x}) /\ Len(seq) = 1 /\ seq[1] = x
  OBVIOUS
<1> HIDE DEF seq
<1>2. PICK F : /\ F[0] = base
               /\ \A n \in 1..Len(seq) : F[n] = Op(F[n - 1], seq[n])
               /\ FoldLeft(Op, base, seq) = F[Len(seq)]
  BY <1>1, FoldSteps
<1>3. F[1] = Op(F[1 - 1], seq[1])
  BY <1>1, <1>2
<1>4. FoldLeft(Op, base, seq) = Op(base, x)
  BY <1>1, <1>2, <1>3
<1> QED BY <1>4 DEF seq
=============================================================================
