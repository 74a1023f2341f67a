------------------------------ MODULE MCDistPi ------------------------------
(***************************************************************************)
(* DistPi for TLC: the state constraint says which of the workers may fail *)
(* and how much may go on at once.  States beyond it are checked, their    *)
(* successors are not explored.                                            *)
(***************************************************************************)
EXTENDS DistPi

CONSTANTS
  Steady,       \* workers whose own timers do not expire, and that do not end
  Once,         \* workers whose SID does not connect twice
  MaxSignals    \* timer signals that wait at the server at the same time

Bounded ==
  /\ phase = "running"
  /\ Cardinality(sigResp) + Cardinality(sigHb) <= MaxSignals
  /\ \A w \in Once : opened[w] <= 1
  /\ \A w \in Steady :
       /\ worker[w].state # "Exited"
       /\ ~worker[w].sigResp
       /\ ~worker[w].sigHbt
=============================================================================
