------------------------------ MODULE EventLoop ------------------------------
(***************************************************************************)
(* The loop of both programs, between their handlers and the kernel        *)
(* (src/server_main.cpp, src/server_worker.cpp and the constructors of the *)
(* sockets).  A datagram waits in the buffer of the socket and SIGIO says  *)
(* that there is one; standard signals do not count, so one SIGIO stands   *)
(* for any number of datagrams, and an unmasked one kills the process.     *)
(***************************************************************************)
EXTENDS Naturals, Sequences

CONSTANTS
  Datagrams,    \* the datagrams that are sent to us, each one once
  BufferSize    \* datagrams the buffer of the socket has room for

SIGINT == 2
SIGUSR1 == 10  \* both: a response is late
SIGUSR2 == 12  \* server: a worker is silent; worker: the thread has finished
SIGALRM == 14  \* worker: a heartbeat is to be sent
SIGVTALRM == 26  \* worker: the server is silent
SIGIO == 29

Roles == {"server", "worker"}

(* What timers and the computing thread raise.                             *)
AlarmsOf(role) ==
  IF role = "server" THEN {SIGUSR1, SIGUSR2}
  ELSE {SIGUSR1, SIGUSR2, SIGALRM, SIGVTALRM}

Alarms == AlarmsOf("server") \union AlarmsOf("worker")

ASSUME LoopAssumption == BufferSize \in Nat \ {0}

VARIABLES
  role,     \* which of the two programs this is
  phase,    \* where main() is
  made,     \* system calls of the start that have been made
  buffer,   \* datagrams in the buffer of the socket
  coming,   \* datagrams still to be sent to us
  pending,  \* signals raised and not taken
  solved    \* the server: whether the last subproblem is solved

vars == <<role, phase, made, buffer, coming, pending, solved>>

-----------------------------------------------------------------------------
(* The calls before the loop, in their order: the signals are masked, the  *)
(* socket is opened, made ours, made asynchronous and bound.               *)
\* mutant: the signals are masked right before they are waited for
PrologueMaskLast == <<"socket", "own", "async", "bind", "mask">>
\* mutant: the socket is made asynchronous once it is bound
PrologueBindFirst == <<"mask", "socket", "bind", "own", "async">>
Prologue == <<"mask", "socket", "own", "async", "bind">>

Called(c) == \E i \in 1..Len(Prologue) : i <= made /\ Prologue[i] = c

(* The signals main() masks and waits for.                                 *)
SignalSet(r) == {SIGIO, SIGINT} \union AlarmsOf(r)

Started == phase \notin {"starting", "failed", "killed", "ended"}

-----------------------------------------------------------------------------
(* The kernel.  It tells a process of a datagram only once the socket is   *)
(* asynchronous, and kills one that does not mask the signal.              *)
Raised(s) ==
  IF Called("mask") /\ s \in SignalSet(role)
  THEN pending' = pending \union {s} /\ UNCHANGED phase
  ELSE phase' = "killed" /\ UNCHANGED pending

Tell ==
  IF Called("async") /\ Called("own") /\ phase \notin {"failed", "killed", "ended"}
  THEN Raised(SIGIO) ELSE UNCHANGED <<phase, pending>>

Arrive == \E m \in coming :
  /\ Called("bind")
  /\ Len(buffer) < BufferSize
  /\ buffer' = Append(buffer, m)
  /\ coming' = coming \ {m}
  /\ Tell
  /\ UNCHANGED <<role, made, solved>>

(* Sent before the socket is bound, or when its buffer is full.            *)
Lose == \E m \in coming :
  /\ ~Called("bind") \/ Len(buffer) = BufferSize
  /\ coming' = coming \ {m}
  /\ UNCHANGED <<role, phase, made, buffer, pending, solved>>

(* SIGIO also says that a datagram of ours has left the socket.            *)
Sent == Started /\ Tell /\ UNCHANGED <<role, made, buffer, coming, solved>>

(* A timer expires or the thread finishes.                                 *)
Alarm == \E s \in AlarmsOf(role) :
  /\ Started
  /\ Raised(s)
  /\ UNCHANGED <<role, made, buffer, coming, solved>>

(* The user's Ctrl-C, which the process is not expected to outlive.        *)
Interrupt ==
  /\ phase \notin {"failed", "killed", "ended"}
  /\ IF Called("mask") THEN pending' = pending \union {SIGINT} /\ UNCHANGED phase
     ELSE phase' = "ended" /\ UNCHANGED pending
  /\ UNCHANGED <<role, made, buffer, coming, solved>>

-----------------------------------------------------------------------------
StartUp ==
  /\ phase = "starting"
  /\ made' = made + 1
  /\ phase' = IF made' = Len(Prologue) THEN "waiting" ELSE "starting"
  /\ UNCHANGED <<role, buffer, coming, pending, solved>>

(* A constructor of the socket throws: the server says so, the worker      *)
(* lets the exception end it.                                              *)
StartUpFails ==
  /\ phase = "starting" /\ Called("mask")
  /\ phase' = "failed"
  /\ UNCHANGED <<role, made, buffer, coming, pending, solved>>

(* The end of an iteration: only the server asks whether it has finished.  *)
\* mutant: the server never asks
LoopForever == "waiting"
Continue == IF role = "server" /\ solved THEN "ended" ELSE "waiting"

(* sigwaitinfo() returns the lowest of the pending signals.                *)
Takes(s) ==
  /\ phase = "waiting"
  /\ s \in pending /\ \A t \in pending : s <= t
  /\ pending' = pending \ {s}

TakeSIGIO ==
  /\ Takes(SIGIO)
  /\ phase' = "receiving"
  /\ UNCHANGED <<role, made, buffer, coming, solved>>

(* The handler of an alarm; the worker may give the server up.             *)
TakeAlarm(s) ==
  /\ Takes(s)
  /\ phase' \in {Continue} \union (IF role = "worker" THEN {"ended"} ELSE {})
  /\ UNCHANGED <<role, made, buffer, coming, solved>>

TakeInterrupt ==
  /\ Takes(SIGINT)
  /\ phase' = "ended"
  /\ UNCHANGED <<role, made, buffer, coming, solved>>

(* nextMessage() and the handler of what it returned: the server's may     *)
(* solve the last subproblem, after one the worker may be dismissed.  The  *)
(* handler may also end the program before that: standingBy aborts,        *)
(* markSolved() throws, and so does the worker's thread for Work it cannot *)
(* compute; no main() catches it.                                          *)
Handled ==
  \/ role = "server" /\ solved' \in {solved, TRUE} /\ UNCHANGED phase
  \/ role = "worker" /\ phase' \in {"receiving", "ended"} /\ UNCHANGED solved
  \/ phase' = "failed" /\ UNCHANGED solved

\* mutant: one datagram is received for each SIGIO
ReceiveOnlyOne ==
  /\ phase = "receiving" /\ buffer # <<>>
  /\ buffer' = Tail(buffer)
  /\ \/ role = "server" /\ solved' \in {solved, TRUE} /\ phase' = Continue
     \/ role = "worker" /\ phase' \in {Continue, "ended"} /\ UNCHANGED solved
     \/ phase' = "failed" /\ UNCHANGED solved
  /\ UNCHANGED <<role, made, coming, pending>>
Receive ==
  /\ phase = "receiving" /\ buffer # <<>>
  /\ buffer' = Tail(buffer)
  /\ Handled
  /\ UNCHANGED <<role, made, coming, pending>>

(* recvfrom() reports another error than EAGAIN, and nextMessage() throws. *)
ReceiveFails ==
  /\ phase = "receiving"
  /\ phase' = "failed"
  /\ UNCHANGED <<role, made, buffer, coming, pending, solved>>

(* NoMessage: the buffer is empty and recvfrom() says EAGAIN.              *)
ReceiveNothing ==
  /\ phase = "receiving" /\ buffer = <<>>
  /\ phase' = Continue
  /\ UNCHANGED <<role, made, buffer, coming, pending, solved>>

-----------------------------------------------------------------------------
Init ==
  /\ role \in Roles
  /\ phase = "starting" /\ made = 0
  /\ buffer = <<>> /\ coming = Datagrams
  /\ pending = {} /\ solved = FALSE

Environment == Arrive \/ Lose \/ Sent \/ Alarm \/ Interrupt

(* What main() does once it has taken SIGIO or while it starts.            *)
Main == StartUp \/ Receive \/ ReceiveNothing

Next ==
  \/ Environment \/ Main \/ StartUpFails \/ ReceiveFails
  \/ TakeSIGIO \/ TakeInterrupt
  \/ \E s \in AlarmsOf(role) : TakeAlarm(s)

(* The process is scheduled.  A signal is taken even if lower ones keep    *)
(* being raised, because handlers take far less time than timers give.     *)
Fairness ==
  /\ WF_vars(Main) /\ WF_vars(TakeInterrupt) /\ SF_vars(TakeSIGIO)
  /\ \A s \in Alarms : SF_vars(TakeAlarm(s))

Safety == Init /\ [][Next]_vars

Spec == Safety /\ Fairness

-----------------------------------------------------------------------------
(* Types, and: while it starts a process receives nothing, so no datagram  *)
(* is in its socket that came before there was a SIGIO to tell of it.      *)
TypeOK ==
  /\ role \in Roles /\ solved \in BOOLEAN
  /\ phase \in {"starting", "waiting", "receiving", "ended", "failed", "killed"}
  /\ made \in 0..Len(Prologue)
  /\ phase = "starting" => buffer = <<>>
  /\ buffer \in Seq(Datagrams) /\ Len(buffer) <= BufferSize
  /\ coming \subseteq Datagrams
  /\ pending \subseteq SignalSet(role)

(* A process never waits with a datagram in its socket and no SIGIO to     *)
(* tell it so: the wait would last until something else is sent to it.     *)
NoLostWakeup == phase = "waiting" /\ buffer # <<>> => SIGIO \in pending

(* No datagram, timer or thread ever kills the process by its signal.      *)
NoSignalKills == phase # "killed"

(* Once the last subproblem is solved the server leaves its loop: it does  *)
(* not wait for one more event.  (It publishes the result then, unless a   *)
(* later datagram of the same SIGIO makes it fail.)                        *)
SolvedIsNoticed == solved ~> phase \in {"ended", "failed"}

(* The loop is the atomic process whose handlers the other modules model:  *)
(* a started process gets round to every datagram it was told of and to    *)
(* every alarm.                                                            *)
Loop == INSTANCE Mailbox WITH
  inbox <- buffer, due <- pending \ {SIGIO, SIGINT},
  alive <- phase \notin {"ended", "failed", "killed"}, Capacity <- BufferSize

ImplementsMailbox == Loop!MailboxSpec
=============================================================================
