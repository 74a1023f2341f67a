------------------------------- MODULE DistPi -------------------------------
(***************************************************************************)
(* The whole program: one server process, the worker processes and the     *)
(* UDP network between them.                                               *)
(***************************************************************************)
EXTENDS ServerManager, ConnectionWorker

vars == <<serverVars, worker, netVars>>

TypeOK ==
  /\ NetworkTypeOK
  /\ ServerTypeOK
  /\ WorkerTypeOK

Init ==
  /\ NetworkInit
  /\ ServerInit
  /\ WorkerInit

ServerStep(w) ==
  \/ HandleMessage(w)
  \/ HandleTimeout(w)
  \/ HandleHeartbeatTimeout(w)

ServerTimer(w) ==
  /\ ExpireResp(w) \/ ExpireHb(w)
  /\ UNCHANGED netVars

WorkerStep(w) ==
  \/ Start(w)
  \/ WorkerHandleMessage(w)
  \/ WorkerHandleTimeout(w)
  \/ WorkerHandleHeartbeatTimeout(w)
  \/ HandleHeartbeat(w)
  \/ Count(w)
  \/ SendResult(w)
  \/ WorkerInterrupt(w)
  \/ WorkerCrash(w)
  \/ WorkerExpireResp(w)
  \/ ExpireHbt(w)

Next ==
  \/ \E w \in Workers :
       \/ (ServerStep(w) \/ ServerTimer(w)) /\ UNCHANGED worker
       \/ WorkerStep(w) /\ UNCHANGED serverVars
       \/ Lose(w) /\ UNCHANGED <<serverVars, worker>>
  \/ (HandleInterrupt \/ Finish) /\ UNCHANGED worker

Spec == Init /\ [][Next]_vars

-----------------------------------------------------------------------------
(* Safety.                                                                 *)

(* The ledger and the pool tell the same story.  A subproblem that waits   *)
(* for an ACK is held by exactly the connection that sent it, one whose    *)
(* result is awaited is the holder's or was solved in the meantime, no two *)
(* connections hold the same one, and only a subproblem that is given out  *)
(* names a worker.  It is why assign() never throws and why giving a       *)
(* subproblem back in ~ConnectionMain never takes it from somebody else.   *)
Holds(w, s) == Busy(conn[w]) /\ conn[w].seg = s

PendingIsHeld ==
  \A s \in Segments :
    ledger[s].state = "ASSIGNED_PENDING" =>
      \E w \in Workers : /\ conn[w].state = "awaitingWorkACK"
                          /\ conn[w].seg = s

HeldIsGivenOut ==
  \A w \in Workers :
    /\ Busy(conn[w]) => conn[w].seg \in Segments
    /\ conn[w].state = "awaitingWorkACK" =>
         /\ ledger[conn[w].seg].state = "ASSIGNED_PENDING"
         /\ ledger[conn[w].seg].assignedTo = w
    /\ conn[w].state = "awaitingResult" =>
         \/ /\ ledger[conn[w].seg].state = "ASSIGNED"
            /\ ledger[conn[w].seg].assignedTo = w
         \/ ledger[conn[w].seg].state = "SOLVED"

HeldOnce ==
  \A v, w \in Workers :
    Busy(conn[v]) /\ Busy(conn[w]) /\ conn[v].seg = conn[w].seg => v = w

OwnerIsSet ==
  \A s \in Segments :
    ledger[s].assignedTo = NoWorker
      <=> ledger[s].state \in {"UNASSIGNED", "SOLVED"}

LedgerMatchesPool ==
  PendingIsHeld /\ HeldIsGivenOut /\ HeldOnce /\ OwnerIsSet

(* No worker stands by while a subproblem is free: every way a subproblem  *)
(* is given back ends by handing it on.                                    *)
WorkConserving ==
  (\E w \in Workers : conn[w].state = "standingBy") => Unassigned(ledger) = {}

(* A hit count that entered the sum was sent as the result of that very    *)
(* segment by the thread of some worker.  (The channels keep their history *)
(* when the network duplicates.)                                           *)
CreditedAsComputed ==
  \A s \in Segments :
    Duplicating /\ ledger[s].state = "SOLVED" =>
      \E w \in Workers : \E m \in toMain[w] :
        m.tag = "Result" /\ m.seg = s /\ m.hits = ledger[s].pointsHit

(* As long as its SID has connected once, a worker and its connection mean *)
(* the same segment, whatever the others do.  As long as that is so of all *)
(* of them, a subproblem given out is held by a connection (nothing is     *)
(* ASSIGNED for ever), and markSolved() does not throw.                    *)
ConnectedOnce == \A w \in Workers : opened[w] <= 1

SegmentAgreement ==
  /\ \A w \in Workers :
       opened[w] <= 1 /\ worker[w].thread # "none" /\ Busy(conn[w]) =>
         worker[w].seg = conn[w].seg
  /\ ConnectedOnce =>
       /\ \A s \in Segments :
            ledger[s].state = "ASSIGNED" => \E w \in Workers : Holds(w, s)
       /\ phase # "threwMarkSolved"

(* A worker notices when the server falls silent, in every state.          *)
WorkerNotices ==
  \A w \in Workers :
    Alive(w) => \/ worker[w].resp \/ worker[w].sigResp
                \/ worker[w].hbt \/ worker[w].sigHbt

-----------------------------------------------------------------------------
(* What a step may never do.                                               *)

(* The program keeps the promise of PiJob: the ledger's assignedTo is the  *)
(* owner, a SOLVED subproblem is counted with its pointsHit, and finishing *)
(* the loop is publishing.                                                 *)
Job == INSTANCE PiJob WITH
  Nobody    <- NoWorker,
  pool      <- Pool,
  owner     <- [s \in Segments |-> ledger[s].assignedTo],
  count     <- [s \in Segments |-> IF ledger[s].state = "SOLVED"
                                     THEN {ledger[s].pointsHit} ELSE {}],
  published <- phase = "finished"

JobSpec == Job!Spec

(* A computation that was started is not replaced by another one, and it   *)
(* ends with its result on the way to the server, unless the process ends. *)
ComputationIsReported ==
  [][\A w \in Workers :
       worker[w].thread # "none" /\ worker'[w].state # "Exited" =>
         /\ worker'[w].seg = worker[w].seg
         /\ worker'[w].thread = "none" =>
              \E h \in HitCounts :
                Result(worker[w].next, worker[w].seg, h) \in toMain'[w]]_vars

(* The server notices when a worker falls silent: no step leaves a         *)
(* connection of the pool without a timer that runs or has left its        *)
(* signal, with one exception.  awaitingWorkACK unsets the response timer  *)
(* as the last thing it does with a message it accepted; unless that was   *)
(* the ACK, the Work it still awaits the ACK for, or has just sent, is     *)
(* unwatched, and stays so while nothing but repeatCount changes.  Work    *)
(* that is sent from any other state is watched, whatever came before it.  *)
Noticed(w) ==
  \/ conn[w].resp \/ conn[w].hb
  \/ w \in sigResp \/ w \in sigHb

UnsetAtEnd(w) ==
  /\ conn[w].state = "awaitingWorkACK" /\ conn'[w].state = "awaitingWorkACK"
  /\ conn'[w].recvSeq >= conn[w].next /\ conn'[w].recvTag # "ACK"

OnlyRefilled(w) ==
  \E r \in conn[w].repeat..MaxRepeats : conn'[w] = [conn[w] EXCEPT !.repeat = r]

SilenceIsNoticed ==
  [][phase' = "running" =>
       \A w \in Workers : w \in Pool' =>
         \/ Noticed(w)'
         \/ UnsetAtEnd(w)
         \/ ~Noticed(w) /\ OnlyRefilled(w)]_vars

(* A response timeout counts only against the connection whose timer       *)
(* expired: "the call is delegated to the appropriate ConnectionMain".     *)
TimeoutIsOwn ==
  [][\A w \in Workers : conn'[w].repeat < conn[w].repeat => w \in sigResp]_vars

(* What a worker sends again after a timeout of its own is dealt with      *)
(* before the state handler sees it: it never makes standingBy abort.      *)
(* (A worker that waits for an answer with a repeatCount that is used has  *)
(* sent its lastMessageSent again.)                                        *)
RetryIsHandled ==
  [][\A w \in Workers :
       /\ worker[w].state = "AwaitingWorkOrACK"
       /\ worker[w].repeat < WorkerRepeats
       /\ worker[w].sent \in toMain[w] \ toMain'[w]
       => phase' # "abortedStandingBy"]_vars

(* A worker that receives its last accepted message again sends the answer *)
(* to it again.  (A datagram that vanishes from a network that neither     *)
(* loses nor repeats any was received.)                                    *)
RepeatIsAnswered ==
  [][\A w \in Workers : \A m \in toWorker[w] \ toWorker'[w] :
        /\ m.tag = "Work"
        /\ worker[w].state = "Working" /\ m.seq = worker[w].next - 2
        => worker[w].sent \in toMain'[w]]_vars

-----------------------------------------------------------------------------
(* Liveness.                                                               *)

Server(A) == A /\ UNCHANGED worker
Worker(A) == A /\ UNCHANGED serverVars

(* The loop of a worker fetches the signals that wait, a response timer    *)
(* that nothing unsets expires, and so does a heartbeat timeout timer once *)
(* the server is gone and no answer can reset it.                          *)
WorkerFairness ==
  \A w \in Workers :
    /\ WF_vars(Worker(WorkerExpireResp(w)))
    /\ WF_vars(Worker(phase # "running" /\ ExpireHbt(w)))
    /\ WF_vars(Worker(WorkerHandleTimeout(w)))
    /\ WF_vars(Worker(WorkerHandleHeartbeatTimeout(w)))

(* The same for the server's loop, for the timers of a worker that is      *)
(* gone, and for the datagrams in its socket's queue.                      *)
ServerFairness ==
  /\ \A w \in Workers :
       /\ WF_vars(Server(worker[w].state = "Exited" /\ ExpireResp(w)
                          /\ UNCHANGED netVars))
       /\ WF_vars(Server(worker[w].state = "Exited" /\ ExpireHb(w)
                          /\ UNCHANGED netVars))
       /\ WF_vars(Server(HandleTimeout(w)))
       /\ WF_vars(Server(HandleHeartbeatTimeout(w)))
  /\ WF_vars(Server(Finish))

FairSpec == Spec /\ WorkerFairness /\ ServerFairness

(* When the server has ended, however it ended, every worker ends too:     *)
(* Close and Interrupt are sent once and may be lost, the timers are not.  *)
AbandonedWorkersExit ==
  \A w \in Workers : phase # "running" /\ Alive(w) ~> ~Alive(w)

(* When a worker is gone, the connection that holds a subproblem for it    *)
(* gives the subproblem up, unless it is one of those nobody watches.      *)
DeadWorkerReleased ==
  \A w \in Workers :
    worker[w].state = "Exited" /\ Busy(conn[w]) /\ Noticed(w)
      ~> ~Busy(conn[w]) \/ ~Noticed(w) \/ phase # "running"

(* The program when no timer expires and nobody is killed, but datagrams   *)
(* still overtake each other.  A datagram in a socket's queue is fetched:  *)
(* heartbeats, of which there may always be one more, do not keep the      *)
(* others from it.                                                         *)
QuietNext ==
  \/ \E w \in Workers :
       \/ Server(HandleMessage(w))
       \/ Worker(\/ Start(w) \/ WorkerHandleMessage(w) \/ HandleHeartbeat(w)
                 \/ Count(w) \/ SendResult(w))
  \/ Server(Finish)

NotHeartbeat == MessageType \ {"Heartbeat", "HeartbeatACK"}

QuietFairness ==
  /\ \A w \in Workers :
       /\ WF_vars(Server(HandleMessageOf(w, NotHeartbeat)))
       /\ WF_vars(Worker(Start(w)))
       /\ WF_vars(Worker(WorkerHandleMessageOf(w, NotHeartbeat)))
       /\ WF_vars(Worker(Count(w)))
       /\ WF_vars(Worker(SendResult(w)))
  /\ WF_vars(Server(Finish))

QuietSpec == Init /\ [][QuietNext]_vars /\ QuietFairness

(* Then the job is done, in whatever order the datagrams arrive: a Result  *)
(* that overtakes the ACK of its Work is not lost.                         *)
JobFinishes == <>(phase = "finished")
=============================================================================
