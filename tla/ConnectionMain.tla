--------------------------- MODULE ConnectionMain ---------------------------
(***************************************************************************)
(* One end of the protocol: the server's record of one worker              *)
(* (src/connection_main.cpp).  conn[w] is the ConnectionMain the pool      *)
(* keeps under the SID w.  The state awaitingHello has no record: a        *)
(* connection is created with the Hello that ends that state, in the same  *)
(* step of the server.                                                     *)
(*                                                                         *)
(* What the handlers do to the connection is written as functions of the   *)
(* record; the actions that also touch the ledger, the pool and the        *)
(* network are in ServerManager.                                           *)
(***************************************************************************)
EXTENDS SolutionManager

CONSTANT MaxRepeats    \* maxRepeats: response timeouts before giving up

ASSUME RepeatsAssumption == MaxRepeats \in Nat \ {0}

VARIABLE conn

ConnectionState == {"none", "awaitingWorkACK", "awaitingResult", "standingBy"}

(* resp and hb say whether responseTimer and heartbeatTimer run; recvTag   *)
(* and recvSeq are what is ever read of lastMessageRecv; sent is           *)
(* lastMessageSent and seg is subproblemSegmentId.                         *)
Connection ==
  [state : ConnectionState, next : Nat, recvTag : MessageType, recvSeq : Nat,
   sent : Message, repeat : 1..MaxRepeats, resp : BOOLEAN, hb : BOOLEAN,
   seg : Segments \union {0}]

ConnTypeOK == conn \in [Workers -> Connection]

NoConnection ==
  [state |-> "none", next |-> 1, recvTag |-> "Invalid", recvSeq |-> 0,
   sent |-> InvalidMessage, repeat |-> MaxRepeats, resp |-> FALSE,
   hb |-> FALSE, seg |-> 0]

ConnInit == conn = [w \in Workers |-> NoConnection]

(* The pool, and the two states in which a subproblem is held.             *)
Pool    == {w \in Workers : conn[w].state # "none"}
Busy(c) == c.state \in {"awaitingWorkACK", "awaitingResult"}

(* The first tests of handleMessage, in their order: a heartbeat that is   *)
(* answered, a number below the last accepted one, the last accepted       *)
(* message once more, and everything else.                                 *)
Answered(c, m)    == m.tag = "Heartbeat" /\ c.hb
TooLow(c, n)      == n < c.recvSeq
Repeated(c, m, n) == n = c.recvSeq /\ m.tag = c.recvTag
Fresh(c, m, n)    ==
  /\ m.tag # "Interrupt"
  /\ ~Answered(c, m)
  /\ ~TooLow(c, n)
  /\ ~Repeated(c, m, n)

(* Message m, read with number n, becomes lastMessageRecv.                 *)
Received(c, m, n) ==
  [c EXCEPT !.recvTag = m.tag, !.recvSeq = n, !.next = n + 1,
            !.repeat = MaxRepeats]

(* repeatCount is used up by the next timeout.                             *)
LastChanceLate(c) == c.repeat = 0   \* mutant: one timeout too late
LastChance(c) == c.repeat = 1

(* The message last sent goes out again: after a repeated message the      *)
(* timer is set unless that message was an ACK, after a timeout always.    *)
Resent(c) == [c EXCEPT !.resp = c.sent.tag # "ACK" \/ c.resp]
TimedOutForever(c) == [c EXCEPT !.resp = TRUE]   \* mutant: nothing is used up
TimedOut(c) == [c EXCEPT !.repeat = @ - 1, !.resp = TRUE]

(* sendSubproblem and tryAssignSubproblem: segment s is sent, or there is  *)
(* none and the worker stands by.                                          *)
WithWorkWatchedOnce(c, s) ==   \* mutant: only the first Work sets the timer
  [c EXCEPT !.state = "awaitingWorkACK", !.seg = s, !.sent = Work(c.next, s),
            !.next = @ + 1, !.resp = c.state = "none" \/ @, !.hb = FALSE]

WithWork(c, s) ==
  [c EXCEPT !.state = "awaitingWorkACK", !.seg = s, !.sent = Work(c.next, s),
            !.next = @ + 1, !.resp = TRUE, !.hb = FALSE]

StandBy(c) ==
  [c EXCEPT !.state = "standingBy", !.sent = Numbered("ACK", c.next),
            !.next = @ + 1, !.hb = TRUE]

Unwatched(c) == [c EXCEPT !.resp = FALSE]   \* responseTimer.unset()
=============================================================================
