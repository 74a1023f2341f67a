-------------------------- MODULE SolutionManager --------------------------
(***************************************************************************)
(* The ledger of subproblems (src/solution_manager.cpp, src/subproblem.h): *)
(* for every segment whose result is not known in advance, how far it has  *)
(* come, the worker it is given to and the result it got.  The operations  *)
(* are functions of the ledger, because one handler of the server calls    *)
(* several of them in a row.                                               *)
(***************************************************************************)
EXTENDS Message

VARIABLE ledger

NoWorker == 0   \* resetSIDAssignedTo: the SID 0.0.0.0, port 0

SubproblemState == {"UNASSIGNED", "ASSIGNED_PENDING", "ASSIGNED", "SOLVED"}

Subproblem ==
  [state : SubproblemState, assignedTo : Workers \union {NoWorker},
   pointsHit : Nat]

LedgerTypeOK == ledger \in [Segments -> Subproblem]

(* initialize(): every subproblem starts UNASSIGNED, and its segment with  *)
(* no point hit.                                                           *)
LedgerInit ==
  ledger = [s \in Segments |->
              [state |-> "UNASSIGNED", assignedTo |-> NoWorker,
               pointsHit |-> 0]]

Unassigned(L) == {s \in Segments : L[s].state = "UNASSIGNED"}

(* pop(worker) takes the first UNASSIGNED subproblem of the list, which    *)
(* initialize() builds in the order of the ids.                            *)
IsFirstUnassigned(L, s) ==
  /\ s \in Unassigned(L)
  /\ \A t \in Unassigned(L) : s <= t

Pop(L, s, w) ==
  [L EXCEPT ![s].state = "ASSIGNED_PENDING", ![s].assignedTo = w]

(* assign() and markSolved() throw unless these hold.                      *)
CanAssign(L, s)     == s \in Segments /\ L[s].state = "ASSIGNED_PENDING"
CanMarkSolvedAnyState(L, s) == s \in Segments   \* mutant: no test of the state
CanMarkSolved(L, s) == s \in Segments /\ L[s].state = "ASSIGNED"

Assign(L, s, w) ==
  [L EXCEPT ![s].state = "ASSIGNED", ![s].assignedTo = w]

MarkSolvedWithoutHits(L, s, h) ==   \* mutant: setPointsHit forgotten
  [L EXCEPT ![s].state = "SOLVED", ![s].assignedTo = NoWorker]

MarkSolved(L, s, h) ==
  [L EXCEPT ![s].state = "SOLVED", ![s].assignedTo = NoWorker,
            ![s].pointsHit = h]

(* unassign() for each segment of S: a subproblem that is UNASSIGNED or    *)
(* SOLVED stays as it is.                                                  *)
Unassign(L, S) ==
  [s \in Segments |->
     IF s \in S /\ L[s].state \in {"ASSIGNED_PENDING", "ASSIGNED"}
       THEN [L[s] EXCEPT !.state = "UNASSIGNED", !.assignedTo = NoWorker]
       ELSE L[s]]

Solved(L) == \A s \in Segments : L[s].state = "SOLVED"
=============================================================================
