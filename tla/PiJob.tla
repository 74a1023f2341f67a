------------------------------- MODULE PiJob -------------------------------
(***************************************************************************)
(* What the server promises to whoever started it: every segment is        *)
(* counted at most once, only after it was given out, and its count never  *)
(* changes; a segment that is given out changes hands only when its owner  *)
(* leaves the pool; a result is printed only when every segment is         *)
(* counted.                                                                *)
(***************************************************************************)
EXTENDS Naturals

CONSTANTS Segments, Workers, Nobody

VARIABLES
  pool,       \* the workers the server is in touch with
  owner,      \* who computes a segment, or Nobody
  count,      \* count[s]: {} or {h}, the points hit in segment s
  published   \* whether the result is printed

vars == <<pool, owner, count, published>>

TypeOK ==
  /\ pool \in SUBSET Workers
  /\ owner \in [Segments -> Workers \union {Nobody}]
  /\ count \in [Segments -> SUBSET Nat]
  /\ published \in BOOLEAN

Init ==
  /\ pool = {}
  /\ owner = [s \in Segments |-> Nobody]
  /\ count = [s \in Segments |-> {}]
  /\ published = FALSE

(* Segment s goes to a worker of the pool, if nobody of the old pool has   *)
(* it and it is not counted, and to nobody if its owner left.              *)
MayMove(s, left) ==
  /\ owner[s] \in left \union {Nobody}
  /\ owner'[s] \in pool' \union {Nobody}
  /\ count[s] = {}

(* A worker joins, and may be given a segment.                             *)
Join(w) ==
  /\ w \notin pool
  /\ pool' = pool \union {w}
  /\ owner' \in [Segments -> Workers \union {Nobody}]
  /\ \A s \in Segments : owner'[s] = owner[s] \/ MayMove(s, {})
  /\ UNCHANGED <<count, published>>

(* Workers leave; segments of theirs are given back or to others.          *)
Leave(left) ==
  /\ left # {}
  /\ pool' = pool \ left
  /\ owner' \in [Segments -> Workers \union {Nobody}]
  /\ \A s \in Segments : owner'[s] = owner[s] \/ MayMove(s, left)
  /\ UNCHANGED <<count, published>>

(* The count of a segment that is given out comes in, and somebody may be  *)
(* given the next one.                                                     *)
Credit(s) ==
  /\ owner[s] # Nobody
  /\ count[s] = {}
  /\ \E h \in count'[s] : h \in Nat /\ count' = [count EXCEPT ![s] = {h}]
  /\ owner' \in [Segments -> Workers \union {Nobody}]
  /\ owner'[s] = Nobody
  /\ \A t \in Segments \ {s} : owner'[t] = owner[t] \/ MayMove(t, {})
  /\ UNCHANGED <<pool, published>>

Publish ==
  /\ \A s \in Segments : count[s] # {}
  /\ published' = TRUE
  /\ UNCHANGED <<pool, owner, count>>

Next ==
  \/ \E w \in Workers : Join(w)
  \/ \E left \in SUBSET pool : Leave(left)
  \/ \E s \in Segments : Credit(s)
  \/ Publish

Spec == Init /\ [][Next]_vars
=============================================================================
