------------------------------ MODULE Timeouts ------------------------------
(***************************************************************************)
(* One piece of work between the server and a worker, in time: the five    *)
(* timers of the two ends of a connection, their periods as the headers    *)
(* give them, and a network that delays and loses datagrams within bounds. *)
(* DistPi lets timers go off at any time; here they keep it.               *)
(***************************************************************************)
EXTENDS Timer, FiniteSets

CONSTANTS
  TimeStep,   \* milliseconds between two instants
  MaxDelay,   \* milliseconds a datagram is under way at most
  Lossy,      \* kinds of datagrams the network may lose
  MaxLost     \* heartbeats it loses one after another at most, and their
              \* answers; of other datagrams it may lose any number

ASSUME TimeoutsAssumption ==
  /\ TimeStep \in Nat \ {0} /\ MaxDelay \in Nat /\ MaxLost \in Nat
  /\ MaxDelay % TimeStep = 0

Kinds == {"ack", "heartbeat", "heartbeatACK", "result", "answer", "interrupt"}

Beats == {"heartbeat", "heartbeatACK"}

Names == {"response", "heartbeat", "workerResponse", "workerHeartbeat", "workerTimeout"}

OfWorker == {"workerResponse", "workerHeartbeat", "workerTimeout"}

MaxRepeats == 5

\* mutant: heartbeats are as far apart as the server is patient
SlowHeartbeat ==
  [response |-> NewTimer(3000, TRUE), heartbeat |-> NewTimer(3000, TRUE),
   workerResponse |-> NewTimer(3000, TRUE), workerHeartbeat |-> NewTimer(3000, FALSE),
   workerTimeout |-> NewTimer(5000, TRUE)]
NewTimers ==
  [response |-> NewTimer(3000, TRUE), heartbeat |-> NewTimer(3000, TRUE),
   workerResponse |-> NewTimer(3000, TRUE), workerHeartbeat |-> NewTimer(500, FALSE),
   workerTimeout |-> NewTimer(5000, TRUE)]

(* The instants hit every expiry.                                          *)
ASSUME TimersAssumption == \A n \in Names : Period(NewTimers[n]) % TimeStep = 0

Ages == {a \in 0..MaxDelay : a % TimeStep = 0}

VARIABLES
  server,    \* state of the server's end
  worker,    \* state of the worker
  timer,     \* the timers
  pending,   \* timers whose signals wait to be handled
  repeats,   \* repetitions left: of the server, of the worker
  flying,    \* datagrams under way, counted by kind and age
  lost,      \* of Beats, datagrams lost since one arrived
  hurt,      \* kinds of datagrams of which one was ever lost
  silence    \* milliseconds since the worker crashed

vars == <<server, worker, timer, pending, repeats, flying, lost, hurt, silence>>

ends == <<server, worker, timer, repeats>>

-----------------------------------------------------------------------------
Sending(k)  == flying' = [flying EXCEPT ![k][0] = @ + 1]
Arriving(k, a) == /\ flying[k][a] > 0
                  /\ lost' = [lost EXCEPT ![k] = 0] /\ UNCHANGED hurt
Gone(k, a)     == [flying EXCEPT ![k][a] = @ - 1]

(* A datagram arrives and one is sent in return.                           *)
Exchange(k, a, reply) ==
  Arriving(k, a) /\ flying' = [Gone(k, a) EXCEPT ![reply][0] = @ + 1]
Consume(k, a) == Arriving(k, a) /\ flying' = Gone(k, a)

Setting(on, off) ==
  timer' = [n \in Names |-> IF n \in on THEN Set(timer[n])
                            ELSE IF n \in off THEN Unset(timer[n]) ELSE timer[n]]

(* The datagrams a dead end no longer takes in.                            *)
Unread(k, a) == Consume(k, a) /\ UNCHANGED <<ends, pending, silence>>

Waiting == server \in {"awaitingWorkACK", "awaitingResult"}

WorkerAlive == worker \in {"working", "awaitingACK"}

-----------------------------------------------------------------------------
(* The server's end.                                                       *)
\* mutant: the heartbeat timer is not started for the work acknowledged
AckUnwatched(a) ==
  /\ server = "awaitingWorkACK"
  /\ Consume("ack", a)
  /\ server' = "awaitingResult"
  /\ repeats' = [repeats EXCEPT !.server = MaxRepeats]
  /\ Setting({}, {"response"})
  /\ UNCHANGED <<worker, pending, silence>>
AckReceived(a) ==
  /\ server = "awaitingWorkACK"
  /\ Consume("ack", a)
  /\ server' = "awaitingResult"
  /\ repeats' = [repeats EXCEPT !.server = MaxRepeats]
  /\ Setting({"heartbeat"}, {"response"})
  /\ UNCHANGED <<worker, pending, silence>>

HeartbeatReceived(a) ==
  /\ server = "awaitingResult" /\ IsRunning(timer["heartbeat"])
  /\ Exchange("heartbeat", a, "heartbeatACK")
  /\ Setting({"heartbeat"}, {})
  /\ UNCHANGED <<server, worker, repeats, pending, silence>>

(* The result, with or without the acknowledgement before it, is answered  *)
(* by an acknowledgement or the next work, a repeated one once more.       *)
ResultReceived(a) ==
  /\ server \in {"awaitingWorkACK", "awaitingResult", "solved"}
  /\ Exchange("result", a, "answer")
  /\ server' = "solved"
  /\ Setting({}, {"response", "heartbeat"})
  /\ UNCHANGED <<worker, repeats, pending, silence>>

(* The worker has given the server up; the connection is deleted.          *)
InterruptReceived(a) ==
  /\ server # "closed"
  /\ Consume("interrupt", a)
  /\ server' = "closed"
  /\ Setting({}, {"response", "heartbeat"})
  /\ UNCHANGED <<worker, repeats, pending, silence>>

(* What else reaches the server is of no effect on it.                     *)
ServerIgnores(k, a) ==
  /\ \/ k = "ack" /\ server # "awaitingWorkACK"
     \/ k = "heartbeat" /\ ~(server = "awaitingResult" /\ IsRunning(timer["heartbeat"]))
     \/ k \in {"result", "interrupt"} /\ server = "closed"
  /\ Unread(k, a)

(* The work is sent again, which the worker that has it does not answer.   *)
(* Both handlers take a timer that does not run for one that has expired.  *)
\* mutant: one repetition too many
HandleTimeoutOnceMore ==
  /\ "response" \in pending
  /\ pending' = pending \ {"response"}
  /\ repeats' = [repeats EXCEPT !.server = @ - 1]
  /\ IF repeats.server >= 1
     THEN Setting({"response"}, {}) /\ UNCHANGED server
     ELSE server' = "closed" /\ Setting({}, {"response", "heartbeat"})
  /\ UNCHANGED <<worker, flying, lost, hurt, silence>>
HandleTimeout ==
  /\ "response" \in pending
  /\ pending' = pending \ {"response"}
  /\ IF Waiting /\ ~IsRunning(timer["response"])
     THEN IF repeats.server > 1
          THEN /\ repeats' = [repeats EXCEPT !.server = @ - 1]
               /\ Setting({"response"}, {})
               /\ UNCHANGED server
          ELSE /\ server' = "closed"
               /\ Setting({}, {"response", "heartbeat"})
               /\ UNCHANGED repeats
     ELSE UNCHANGED <<server, timer, repeats>>
  /\ UNCHANGED <<worker, flying, lost, hurt, silence>>

HandleHeartbeatTimeout ==
  /\ "heartbeat" \in pending
  /\ pending' = pending \ {"heartbeat"}
  /\ IF Waiting /\ ~IsRunning(timer["heartbeat"])
     THEN server' = "closed" /\ Setting({}, {"response", "heartbeat"})
     ELSE UNCHANGED <<server, timer>>
  /\ UNCHANGED <<worker, repeats, flying, lost, hurt, silence>>

-----------------------------------------------------------------------------
(* The worker.                                                             *)
HeartbeatACKReceived(a) ==
  /\ worker = "working" /\ IsRunning(timer["workerTimeout"])
  /\ Consume("heartbeatACK", a)
  /\ Setting({"workerTimeout"}, {})
  /\ UNCHANGED <<server, worker, repeats, pending, silence>>

AnswerReceived(a) ==
  /\ worker = "awaitingACK"
  /\ Consume("answer", a)
  /\ worker' = "answered"
  /\ Setting({}, OfWorker)
  /\ UNCHANGED <<server, repeats, pending, silence>>

WorkerIgnores(k, a) ==
  /\ \/ k = "heartbeatACK" /\ ~(worker = "working" /\ IsRunning(timer["workerTimeout"]))
     \/ k = "answer" /\ worker # "awaitingACK"
  /\ Unread(k, a)

HandleHeartbeat ==
  /\ "workerHeartbeat" \in pending
  /\ pending' = pending \ {"workerHeartbeat"}
  /\ IF WorkerAlive THEN Sending("heartbeat") ELSE UNCHANGED flying
  /\ UNCHANGED <<ends, lost, hurt, silence>>

WorkerHandleHeartbeatTimeout ==
  /\ "workerTimeout" \in pending
  /\ pending' = pending \ {"workerTimeout"}
  /\ IF WorkerAlive /\ IsRunning(timer["workerHeartbeat"])
     THEN worker' = "gaveUp" /\ Setting({}, OfWorker)
     ELSE UNCHANGED <<worker, timer>>
  /\ UNCHANGED <<server, repeats, flying, lost, hurt, silence>>

(* The thread has finished.                                                *)
\* mutant: the result is sent without a response timer
SendResultOnce ==
  /\ worker = "working"
  /\ worker' = "awaitingACK"
  /\ Sending("result")
  /\ Setting({}, {"workerHeartbeat", "workerTimeout"})
  /\ UNCHANGED <<server, repeats, pending, lost, hurt, silence>>
SendResult ==
  /\ worker = "working"
  /\ worker' = "awaitingACK"
  /\ Sending("result")
  /\ Setting({"workerResponse"}, {"workerHeartbeat", "workerTimeout"})
  /\ UNCHANGED <<server, repeats, pending, lost, hurt, silence>>

WorkerHandleTimeout ==
  /\ "workerResponse" \in pending
  /\ pending' = pending \ {"workerResponse"}
  /\ IF WorkerAlive
     THEN /\ repeats' = [repeats EXCEPT !.worker = @ - 1]
          /\ IF repeats.worker > 1
             THEN Sending("result") /\ Setting({"workerResponse"}, {}) /\ UNCHANGED worker
             ELSE Sending("interrupt") /\ Setting({}, OfWorker) /\ worker' = "gaveUp"
     ELSE UNCHANGED <<worker, timer, repeats, flying>>
  /\ UNCHANGED <<server, lost, hurt, silence>>

-----------------------------------------------------------------------------
Crash ==
  /\ WorkerAlive
  /\ worker' = "crashed"
  /\ Setting({}, OfWorker)
  /\ pending' = pending \ OfWorker
  /\ UNCHANGED <<server, repeats, flying, lost, hurt, silence>>

Lose(k, a) ==
  /\ k \in Lossy
  /\ k \in Beats => lost[k] < MaxLost
  /\ flying[k][a] > 0
  /\ flying' = Gone(k, a)
  /\ lost' = [lost EXCEPT ![k] = IF k \in Beats THEN @ + 1 ELSE @]
  /\ hurt' = hurt \union {k}
  /\ UNCHANGED <<ends, pending, silence>>

(* Handlers take no time and no datagram is late, so time passes when      *)
(* there is nothing else to wait for.                                      *)
Pass ==
  /\ pending = {}
  /\ \A k \in Kinds : flying[k][MaxDelay] = 0
  /\ timer' = [n \in Names |-> Elapsed(timer[n], TimeStep)]
  /\ pending' = {n \in Names : IsDue(timer[n], TimeStep)}
  /\ flying' = [k \in Kinds |->
       [a \in Ages |-> IF a = 0 THEN 0 ELSE flying[k][a - TimeStep]]]
  /\ silence' = IF worker = "crashed" /\ Waiting THEN silence + TimeStep ELSE silence
  /\ UNCHANGED <<server, worker, repeats, lost, hurt>>

-----------------------------------------------------------------------------
(* The worker has just been given work and has acknowledged it.            *)
Init ==
  /\ server = "awaitingWorkACK" /\ worker = "working"
  /\ timer = [n \in Names |->
       IF n \in {"response", "workerHeartbeat", "workerTimeout"}
       THEN Set(NewTimers[n]) ELSE NewTimers[n]]
  /\ pending = {}
  /\ repeats = [server |-> MaxRepeats, worker |-> MaxRepeats]
  /\ flying = [k \in Kinds |-> [a \in Ages |-> IF k = "ack" /\ a = 0 THEN 1 ELSE 0]]
  /\ lost = [k \in Kinds |-> 0] /\ hurt = {}
  /\ silence = 0

Receive(a) ==
  \/ AckReceived(a) \/ HeartbeatReceived(a) \/ ResultReceived(a) \/ InterruptReceived(a)
  \/ HeartbeatACKReceived(a) \/ AnswerReceived(a)
  \/ \E k \in Kinds : ServerIgnores(k, a) \/ WorkerIgnores(k, a)

Handle ==
  \/ HandleTimeout \/ HandleHeartbeatTimeout \/ HandleHeartbeat
  \/ WorkerHandleHeartbeatTimeout \/ WorkerHandleTimeout

Next ==
  \/ \E a \in Ages : Receive(a) \/ \E k \in Kinds : Lose(k, a)
  \/ Handle \/ SendResult \/ Crash \/ Pass

(* Time passes, signals are handled and datagrams arrive.                  *)
Fairness ==
  WF_vars(Pass) /\ WF_vars(Handle) /\ WF_vars(\E a \in Ages : Receive(a))

Spec == Init /\ [][Next]_vars /\ Fairness

-----------------------------------------------------------------------------
(* Types, and: neither end repeats itself more often than it may.          *)
TypeOK ==
  /\ server \in {"awaitingWorkACK", "awaitingResult", "solved", "closed"}
  /\ worker \in {"working", "awaitingACK", "answered", "gaveUp", "crashed"}
  /\ \A n \in Names : timer[n].value <= Period(NewTimers[n])
  /\ pending \subseteq Names
  /\ repeats.server \in 1..MaxRepeats /\ repeats.worker \in 0..MaxRepeats

(* The periods fit each other: as long as only heartbeats and their        *)
(* answers get lost, the server does not drop a worker that is alive and   *)
(* the worker does not give the server up.                                 *)
NoFalseAlarm ==
  hurt \subseteq Beats =>
    (WorkerAlive => server # "closed") /\ worker # "gaveUp"

(* A worker that crashes is noticed within the patience of a heartbeat     *)
(* after the last datagram of it arrived - or, when not even its           *)
(* acknowledgement did, once every repetition is used up.                  *)
Patience ==
  IF server = "awaitingWorkACK" THEN MaxRepeats * Period(NewTimers["response"])
  ELSE MaxDelay + Period(NewTimers["heartbeat"])

CrashIsNoticed == server # "closed" => silence <= Patience

(* A worker does not wait for the answer to its result for ever.           *)
WaitEnds == worker = "awaitingACK" ~> worker # "awaitingACK"
=============================================================================
