-------------------------- MODULE ConnectionWorker --------------------------
(***************************************************************************)
(* The worker processes: the signal loop of src/server_worker.cpp, the     *)
(* handlers of src/connection_worker.cpp and the computing thread of       *)
(* src/worker_thread.cpp.  The loop is one thread; the computation is      *)
(* another, which ends by sending the process a signal.                    *)
(***************************************************************************)
EXTENDS Network, Integers

CONSTANT WorkerRepeats    \* maxRepeats of connection_worker.h

ASSUME WorkerRepeatsAssumption == WorkerRepeats \in Nat \ {0}

VARIABLE worker

WorkerState == {"Off", "AwaitingWorkOrACK", "Working", "StandingBy", "Exited"}

(* resp, hb and hbt say whether responseTimer, heartbeatTimer and          *)
(* heartbeatTimeoutTimer run; sigResp and sigHbt that the first and the    *)
(* third have left a signal.  heartbeatTimer is periodic, its signals are  *)
(* not counted.  lastMessageRecv is never assigned: its number stays 0.    *)
Process ==
  [state : WorkerState, next : Nat, sent : Message, repeat : 1..WorkerRepeats,
   resp : BOOLEAN, sigResp : BOOLEAN, hb : BOOLEAN, hbt : BOOLEAN,
   sigHbt : BOOLEAN, thread : {"none", "running", "done"},
   seg : Segments \union {0}]

WorkerTypeOK == worker \in [Workers -> Process]

(* Before main() of the worker runs, and after it: nothing of a process    *)
(* that ended can be observed.                                             *)
NotStarted ==
  [state |-> "Off", next |-> 1, sent |-> InvalidMessage,
   repeat |-> WorkerRepeats, resp |-> FALSE, sigResp |-> FALSE,
   hb |-> FALSE, hbt |-> FALSE, sigHbt |-> FALSE, thread |-> "none",
   seg |-> 0]

Ended == [NotStarted EXCEPT !.state = "Exited"]

WorkerInit == worker = [w \in Workers |-> NotStarted]

Alive(w) == worker[w].state \notin {"Off", "Exited"}

LastReceived == 0   \* lastMessageRecv.getSequence(), always

(* sendMessage for a new message m, with or without the response timer.    *)
Sent(p, m, setTimer) ==
  [p EXCEPT !.sent = m, !.next = @ + 1, !.resp = @ \/ setTimer]

(* What a new process is after its constructor: Hello is on its way.       *)
Start(w) ==
  /\ worker[w].state = "Off"
  /\ LET hello == Numbered("Hello", NotStarted.next)
     IN  /\ worker' = [worker EXCEPT ![w] =
                         [Sent(@, hello, TRUE) EXCEPT
                            !.state = "AwaitingWorkOrACK"]]
         /\ toMain' = Sending(toMain, w, hello)
  /\ UNCHANGED toWorker

-----------------------------------------------------------------------------
(* Datagrams.  Every handler takes message m, read with the number n.      *)

Kept(w, m) == m.tag = "HeartbeatACK" /\ worker[w].hbt

(* Numbered: neither a heartbeat that is taken for what it is nor an       *)
(* Interrupt, so handleMessage looks at the number.                        *)
ByNumber(w, m) == m.tag # "Interrupt" /\ ~Kept(w, m)

(* handleMessage accepts the number: both counters are refreshed.          *)
Accepted(p, n) == [p EXCEPT !.next = n + 1, !.repeat = WorkerRepeats]

(* Interrupt, or Close with the expected number: the process ends.         *)
Dismissed(w, m, n) ==
  /\ \/ m.tag = "Interrupt"
     \/ m.tag = "Close" /\ n = worker[w].next
  /\ worker' = [worker EXCEPT ![w] = Ended]
  /\ UNCHANGED toMain

(* The number is taken for that of the last message: the answer to it is   *)
(* sent again.                                                             *)
ResendByWorker(w, m, n) ==
  /\ ByNumber(w, m)
  /\ n = LastReceived
  /\ worker' = [worker EXCEPT ![w].resp = @ \/ worker[w].sent.tag # "ACK"]
  /\ toMain' = Sending(toMain, w, worker[w].sent)

(* Work: the thread starts on the segment, the ACK is sent.                *)
EmployedUnwatched(p, s) ==   \* mutant: heartbeatTimeoutTimer is not set
  [Sent(p, Numbered("ACK", p.next), FALSE) EXCEPT
     !.state = "Working", !.thread = "running", !.seg = s, !.hb = TRUE]

Employed(p, s) ==
  [Sent(p, Numbered("ACK", p.next), FALSE) EXCEPT
     !.state = "Working", !.thread = "running", !.seg = s,
     !.hb = TRUE, !.hbt = TRUE]

(* A message with the expected number, which is never LastReceived.        *)
ExpectedAnyNumber(w, m, n) ==   \* mutant: only repetitions are recognised
  /\ ByNumber(w, m)
  /\ n # LastReceived
  /\ m.tag # "Close"

Expected(w, m, n) ==
  /\ ByNumber(w, m)
  /\ n = worker[w].next
  /\ m.tag # "Close"

WorkReceivedAtOnce(w, m, n) ==   \* mutant: before number and state are seen
  /\ m.tag = "Work"
  /\ LET p == Employed(Accepted(worker[w], n), m.seg)
     IN  /\ worker' = [worker EXCEPT ![w] = p]
         /\ toMain' = Sending(toMain, w, p.sent)

WorkReceived(w, m, n) ==
  /\ Expected(w, m, n)
  /\ worker[w].state \in {"AwaitingWorkOrACK", "StandingBy"}
  /\ m.tag = "Work"
  /\ LET p == Employed(Accepted(worker[w], n), m.seg)
     IN  /\ worker' = [worker EXCEPT ![w] =
                         [p EXCEPT !.resp = @ /\ worker[w].state = "StandingBy"]]
         /\ toMain' = Sending(toMain, w, p.sent)

(* awaitingWorkOrACK: on an ACK the process stands by; on another message  *)
(* it stays, but stops waiting for an answer.                              *)
OtherReceived(w, m, n) ==
  /\ Expected(w, m, n)
  /\ worker[w].state = "AwaitingWorkOrACK"
  /\ m.tag # "Work"
  /\ worker' = [worker EXCEPT ![w] =
                  [Accepted(@, n) EXCEPT
                     !.state = IF m.tag = "ACK" THEN "StandingBy"
                                              ELSE "AwaitingWorkOrACK",
                     !.resp = FALSE, !.hb = TRUE, !.hbt = TRUE]]
  /\ UNCHANGED toMain

(* Accepted and dropped, the number with it: working takes nothing, and    *)
(* standingBy takes nothing but Work.                                      *)
Dropped(w, m, n) ==
  /\ Expected(w, m, n)
  /\ worker[w].state \in {"Working", "StandingBy"}
  /\ m.tag = "Work" => worker[w].state = "Working"
  /\ worker' = [worker EXCEPT ![w] = Accepted(@, n)]
  /\ UNCHANGED toMain

(* No change: a heartbeat's answer that resets a running timer, and a      *)
(* number that is not expected.                                            *)
Overlooked(w, m, n) ==
  /\ \/ Kept(w, m)
     \/ ByNumber(w, m) /\ n \notin {LastReceived, worker[w].next}
  /\ UNCHANGED <<worker, toMain>>

WorkerHandleMessageOf(w, tags) ==
  \E m \in {d \in toWorker[w] : d.tag \in tags} : \E n \in SequenceRead(m) :
    /\ Alive(w)
    /\ toWorker' = Receiving(toWorker, w, m)
    /\ \/ Dismissed(w, m, n)
       \/ ResendByWorker(w, m, n)
       \/ WorkReceived(w, m, n)
       \/ OtherReceived(w, m, n)
       \/ Dropped(w, m, n)
       \/ ~Duplicating /\ Overlooked(w, m, n)

WorkerHandleMessage(w) == WorkerHandleMessageOf(w, MessageType)

-----------------------------------------------------------------------------
(* Timers, signals and the computing thread.                               *)

WorkerExpireResp(w) ==
  /\ worker[w].resp
  /\ worker' = [worker EXCEPT ![w].resp = FALSE, ![w].sigResp = TRUE]
  /\ UNCHANGED netVars

ExpireHbt(w) ==
  /\ worker[w].hbt
  /\ worker' = [worker EXCEPT ![w].hbt = FALSE, ![w].sigHbt = TRUE]
  /\ UNCHANGED netVars

(* SIGNAL_TIMEOUT: the last message again, or Interrupt and the end.       *)
WorkerHandleTimeoutForever(w) ==   \* mutant: repeatCount is not used up
  /\ worker[w].sigResp
  /\ worker' = [worker EXCEPT ![w].resp = TRUE, ![w].sigResp = FALSE]
  /\ toMain' = Sending(toMain, w, worker[w].sent)
  /\ UNCHANGED toWorker

WorkerHandleTimeout(w) ==
  /\ worker[w].sigResp
  /\ \/ /\ worker[w].repeat = 1
        /\ worker' = [worker EXCEPT ![w] = Ended]
        /\ toMain' = Sending(toMain, w, Bare("Interrupt"))
     \/ /\ worker[w].repeat > 1
        /\ worker' = [worker EXCEPT ![w].repeat = @ - 1, ![w].resp = TRUE,
                                    ![w].sigResp = FALSE]
        /\ toMain' = Sending(toMain, w, worker[w].sent)
  /\ UNCHANGED toWorker

(* SIGNAL_HBTIMEOUT: the end, if heartbeats are being sent.                *)
WorkerHandleHeartbeatTimeout(w) ==
  /\ worker[w].sigHbt
  /\ worker' = [worker EXCEPT ![w] = IF worker[w].hb
                                       THEN Ended
                                       ELSE [@ EXCEPT !.sigHbt = FALSE]]
  /\ UNCHANGED netVars

(* SIGNAL_HB, twice a second while the timer runs.                         *)
HandleHeartbeat(w) ==
  /\ worker[w].hb
  /\ toMain' = Sending(toMain, w, Bare("Heartbeat"))
  /\ UNCHANGED <<worker, toWorker>>

(* count() is done, and the thread has sent SIGNAL_THREAD.                 *)
Count(w) ==
  /\ worker[w].thread = "running"
  /\ worker' = [worker EXCEPT ![w].thread = "done"]
  /\ UNCHANGED netVars

(* SIGNAL_THREAD: sendResult(), which throws in any state but Working.     *)
SendResult(w) ==
  /\ worker[w].thread = "done"
  /\ worker[w].state = "Working"
  /\ \E h \in HitCounts :
       LET result == Result(worker[w].next, worker[w].seg, h)
       IN  /\ worker' = [worker EXCEPT ![w] =
                           [Sent(@, result, TRUE) EXCEPT
                              !.state = "AwaitingWorkOrACK", !.hb = FALSE,
                              !.hbt = FALSE, !.thread = "none"]]
           /\ toMain' = Sending(toMain, w, result)
  /\ UNCHANGED toWorker

(* SIGINT: Interrupt to the server, and the end.                           *)
WorkerInterrupt(w) ==
  /\ Alive(w)
  /\ worker' = [worker EXCEPT ![w] = Ended]
  /\ toMain' = Sending(toMain, w, Bare("Interrupt"))
  /\ UNCHANGED toWorker

(* The process or its machine dies.                                        *)
WorkerCrash(w) ==
  /\ Alive(w)
  /\ worker' = [worker EXCEPT ![w] = Ended]
  /\ UNCHANGED netVars
=============================================================================
