------------------------------ MODULE Network ------------------------------
(***************************************************************************)
(* UDP between the server and its workers, as src/SocketBase.cpp uses it:  *)
(* sendto() never fails visibly, recvfrom() returns some datagram that was *)
(* sent.  Datagrams may be reordered, lost when Losing and, when           *)
(* Duplicating, received any number of times.  The datagrams in flight     *)
(* between the server and one worker are a set for each direction.         *)
(***************************************************************************)
EXTENDS Message

CONSTANTS
  Duplicating,   \* whether the network may deliver a datagram again
  Losing         \* whether it may lose one

ASSUME NetworkAssumption == Duplicating \in BOOLEAN /\ Losing \in BOOLEAN

VARIABLES
  toMain,     \* toMain[w]: datagrams from worker w to the server
  toWorker    \* toWorker[w]: datagrams from the server to worker w

netVars == <<toMain, toWorker>>

NetworkTypeOK ==
  /\ toMain \in [Workers -> SUBSET Message]
  /\ toWorker \in [Workers -> SUBSET Message]

NetworkInit ==
  /\ toMain = [w \in Workers |-> {}]
  /\ toWorker = [w \in Workers |-> {}]

(* A channel with m sent on it, and with m received from it.               *)
Sending(channel, w, m) == [channel EXCEPT ![w] = @ \union {m}]

Receiving(channel, w, m) ==
  IF Duplicating THEN channel ELSE [channel EXCEPT ![w] = @ \ {m}]

(* A datagram is lost.  Where datagrams stay receivable for ever, losing   *)
(* one is never receiving it again and needs no step.                      *)
Lose(w) ==
  /\ Losing /\ ~Duplicating
  /\ \/ \E m \in toMain[w] :
          /\ toMain' = [toMain EXCEPT ![w] = @ \ {m}]
          /\ UNCHANGED toWorker
     \/ \E m \in toWorker[w] :
          /\ toWorker' = [toWorker EXCEPT ![w] = @ \ {m}]
          /\ UNCHANGED toMain
=============================================================================
