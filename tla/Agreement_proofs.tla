-------------------------- MODULE Agreement_proofs --------------------------
(***************************************************************************)
(* Theorems about DistPi that are about both ends of a connection: who     *)
(* watches whom, that what was computed is what is counted, and that a     *)
(* worker and its connection mean the same segment.                        *)
(***************************************************************************)
EXTENDS DistPi_proofs

-----------------------------------------------------------------------------
(* One worker process.                                                     *)

(* Its timers: while heartbeats are sent somebody waits for the answers,   *)
(* while none are sent somebody waits for the answer to a message.         *)
Guarded(p) ==
  /\ p.state = "Off" => ~p.hb
  /\ p.state \notin {"Off", "Exited"} =>
       /\ p.hb => p.hbt \/ p.sigHbt
       /\ ~p.hb => p.resp \/ p.sigResp

(* Its thread: there is one exactly in the state Working.                  *)
AtWork(p) == p.thread # "none" <=> p.state = "Working"

Sound == \A w \in Workers : Guarded(worker[w]) /\ AtWork(worker[w])

(* ConnectionWorker::handleMessage of a datagram, whichever branch it takes. *)
TakenByWorker(w, m, n) ==
  \/ Dismissed(w, m, n) \/ ResendByWorker(w, m, n)
  \/ WorkReceived(w, m, n) \/ OtherReceived(w, m, n)
  \/ Dropped(w, m, n) \/ Overlooked(w, m, n)

(* Neither is disturbed by a step of the process.                          *)
LEMMA ProcessStaysSound ==
  ASSUME Inv, Sound, NEW w \in Workers, WorkerStep(w)
  PROVE  /\ Guarded(worker'[w]) /\ AtWork(worker'[w])
         /\ \A v \in Workers \ {w} : worker'[v] = worker[v]
<1>1. /\ worker \in [Workers -> Process] /\ worker[w] \in Process
      /\ Guarded(worker[w]) /\ AtWork(worker[w])
  BY InvHasRest DEF TypedRest, Sound
<1> USE DEF Guarded, AtWork, Process, WorkerState
<1>2. CASE Start(w)
  BY <1>1, <1>2 DEF Start, Sent
<1>3. CASE WorkerHandleMessage(w)
  <2>1. PICK m \in toWorker[w] : \E n \in SequenceRead(m) : TakenByWorker(w, m, n)
    BY <1>3 DEF WorkerHandleMessage, WorkerHandleMessageOf, TakenByWorker
  <2>9. PICK n \in SequenceRead(m) : TakenByWorker(w, m, n)
    BY <2>1
  <2>2. CASE Dismissed(w, m, n)
    BY <1>1, <2>2 DEF Dismissed, Ended, NotStarted
  <2>3. CASE ResendByWorker(w, m, n)
    BY <1>1, <2>3 DEF ResendByWorker
  <2>4. CASE WorkReceived(w, m, n)
    BY <1>1, <2>4 DEF WorkReceived, Employed, Sent, Accepted
  <2>5. CASE OtherReceived(w, m, n)
    BY <1>1, <2>5 DEF OtherReceived, Accepted
  <2>6. CASE Dropped(w, m, n)
    BY <1>1, <2>6 DEF Dropped, Accepted
  <2>7. CASE Overlooked(w, m, n)
    BY <1>1, <2>7 DEF Overlooked
  <2> QED
    BY <2>9, <2>2, <2>3, <2>4, <2>5, <2>6, <2>7 DEF TakenByWorker
<1>4. CASE WorkerHandleTimeout(w)
  BY <1>1, <1>4 DEF WorkerHandleTimeout, Ended, NotStarted
<1>5. CASE WorkerHandleHeartbeatTimeout(w)
  BY <1>1, <1>5 DEF WorkerHandleHeartbeatTimeout, Ended, NotStarted
<1>6. CASE HandleHeartbeat(w)
  BY <1>1, <1>6 DEF HandleHeartbeat
<1>7. CASE Count(w)
  BY <1>1, <1>7 DEF Count
<1>8. CASE SendResult(w)
  BY <1>1, <1>8 DEF SendResult, Sent
<1>9. CASE WorkerInterrupt(w) \/ WorkerCrash(w)
  BY <1>1, <1>9 DEF WorkerInterrupt, WorkerCrash, Ended, NotStarted
<1>10. CASE WorkerExpireResp(w) \/ ExpireHbt(w)
  BY <1>1, <1>10 DEF WorkerExpireResp, ExpireHbt
<1> QED
  BY <1>2, <1>3, <1>4, <1>5, <1>6, <1>7, <1>8, <1>9, <1>10 DEF WorkerStep

(* So all processes keep both, whatever step the program takes.            *)
LEMMA SoundStep ==
  ASSUME Inv, Sound, [Next]_vars
  PROVE  Sound'
<1>1. CASE UNCHANGED worker
  BY <1>1 DEF Sound, Guarded, AtWork
<1>2. ASSUME NEW w \in Workers, WorkerStep(w)
      PROVE  Sound'
  BY <1>2, ProcessStaysSound DEF Sound
<1> QED
  BY <1>1, <1>2 DEF Next, vars

LEMMA SoundAlways == Spec => []Sound
<1>1. Init => Sound
  <2>1. Guarded(NotStarted) /\ AtWork(NotStarted)
    BY DEF NotStarted, Guarded, AtWork
  <2> QED
    BY <2>1 DEF Init, WorkerInit, Sound
<1>2. Inv /\ Sound /\ [Next]_vars => Sound'
  BY SoundStep
<1> QED
  BY <1>1, <1>2, Invariance, PTL DEF Spec

(* A live worker always has a timer that runs, or a timer's signal to      *)
(* handle, so a server that falls silent is noticed.                       *)
THEOREM WorkersWatch == Spec => []WorkerNotices
<1>1. Sound => WorkerNotices
  BY DEF Sound, Guarded, WorkerNotices, Alive
<1> QED
  BY <1>1, SoundAlways, PTL

(* A computation is not replaced by another one, and when its thread is    *)
(* done with it, the hits are sent as the Result of that very segment.     *)
THEOREM ComputationsReported == Spec => ComputationIsReported
<1> DEFINE Reported ==
      \A w \in Workers :
        worker[w].thread # "none" /\ worker'[w].state # "Exited" =>
          /\ worker'[w].seg = worker[w].seg
          /\ worker'[w].thread = "none" =>
               \E h \in HitCounts :
                 Result(worker[w].next, worker[w].seg, h) \in toMain'[w]
<1>1. ASSUME Inv, Sound, [Next]_vars
      PROVE  Reported
  <2>0. worker \in [Workers -> Process] /\ toMain \in [Workers -> SUBSET Message]
    BY <1>1, InvHasRest DEF TypedRest
  <2>1. CASE UNCHANGED worker
    BY <2>1
  <2>2. ASSUME NEW w \in Workers, WorkerStep(w)
        PROVE  Reported
    <3>1. \A v \in Workers \ {w} : worker'[v] = worker[v]
      BY <1>1, <2>2, ProcessStaysSound
    <3>2. SUFFICES ASSUME worker[w].thread # "none", worker'[w].state # "Exited"
                   PROVE  /\ worker'[w].seg = worker[w].seg
                          /\ worker'[w].thread = "none" =>
                               \E h \in HitCounts :
                                 Result(worker[w].next, worker[w].seg, h)
                                   \in toMain'[w]
      BY <3>1
    <3>3. worker[w] \in Process /\ worker[w].state = "Working"
      BY <1>1, <2>0, <3>2 DEF Sound, AtWork
    <3> USE DEF Process
    <3>4. CASE SendResult(w)
      <4>1. PICK h \in HitCounts :
              LET result == Result(worker[w].next, worker[w].seg, h)
              IN  /\ worker' = [worker EXCEPT ![w] =
                                  [Sent(@, result, TRUE) EXCEPT
                                     !.state = "AwaitingWorkOrACK", !.hb = FALSE,
                                     !.hbt = FALSE, !.thread = "none"]]
                  /\ toMain' = Sending(toMain, w, result)
        BY <3>4 DEF SendResult
      <4>2. /\ worker'[w].seg = worker[w].seg
            /\ Result(worker[w].next, worker[w].seg, h) \in toMain'[w]
        BY <2>0, <3>3, <4>1 DEF Sent, Sending
      <4> QED
        BY <4>2
    <3>5. CASE Start(w)
      BY <3>3, <3>5 DEF Start
    <3>6. CASE WorkerHandleMessage(w)
      <4>1. PICK m \in toWorker[w] : \E n \in SequenceRead(m) : TakenByWorker(w, m, n)
        BY <3>6 DEF WorkerHandleMessage, WorkerHandleMessageOf, TakenByWorker
      <4>2. PICK n \in SequenceRead(m) : TakenByWorker(w, m, n)
        BY <4>1
      <4>3. CASE Dismissed(w, m, n)
        BY <2>0, <3>2, <4>3 DEF Dismissed, Ended
      <4>4. CASE WorkReceived(w, m, n) \/ OtherReceived(w, m, n)
        BY <3>3, <4>4 DEF WorkReceived, OtherReceived
      <4>5. CASE \/ ResendByWorker(w, m, n) \/ Dropped(w, m, n)
                 \/ Overlooked(w, m, n)
        <5>1. /\ worker'[w].seg = worker[w].seg
              /\ worker'[w].thread = worker[w].thread
          <6>1. CASE ResendByWorker(w, m, n)
            BY <2>0, <3>3, <6>1 DEF ResendByWorker
          <6>2. CASE Dropped(w, m, n)
            BY <2>0, <3>3, <6>2 DEF Dropped, Accepted
          <6>3. CASE Overlooked(w, m, n)
            BY <6>3 DEF Overlooked
          <6> QED
            BY <4>5, <6>1, <6>2, <6>3
        <5> QED
          BY <3>2, <5>1
      <4> QED
        BY <4>2, <4>3, <4>4, <4>5 DEF TakenByWorker
    <3>7. CASE \/ WorkerHandleTimeout(w) \/ WorkerHandleHeartbeatTimeout(w)
               \/ HandleHeartbeat(w) \/ Count(w) \/ WorkerInterrupt(w)
               \/ WorkerCrash(w) \/ WorkerExpireResp(w) \/ ExpireHbt(w)
      <4>1. \/ worker'[w] = Ended
            \/ /\ worker'[w].seg = worker[w].seg
               /\ worker'[w].thread \in {worker[w].thread, "done"}
        <5>1. CASE WorkerHandleTimeout(w)
          BY <2>0, <3>3, <5>1 DEF WorkerHandleTimeout
        <5>2. CASE WorkerHandleHeartbeatTimeout(w)
          BY <2>0, <3>3, <5>2 DEF WorkerHandleHeartbeatTimeout
        <5>3. CASE HandleHeartbeat(w) \/ WorkerInterrupt(w) \/ WorkerCrash(w)
          BY <2>0, <5>3 DEF HandleHeartbeat, WorkerInterrupt, WorkerCrash
        <5>4. CASE Count(w)
          BY <2>0, <3>3, <5>4 DEF Count
        <5>5. CASE WorkerExpireResp(w) \/ ExpireHbt(w)
          BY <2>0, <3>3, <5>5 DEF WorkerExpireResp, ExpireHbt
        <5> QED
          BY <3>7, <5>1, <5>2, <5>3, <5>4, <5>5
      <4> QED
        BY <3>2, <4>1 DEF Ended, NotStarted
    <3> QED
      BY <2>2, <3>4, <3>5, <3>6, <3>7 DEF WorkerStep
  <2> QED
    BY <1>1, <2>1, <2>2 DEF Next, vars
<1>2. ASSUME Inv, Sound
      PROVE  [Next]_vars => [Reported]_vars
  BY <1>1, <1>2
<1> QED
  BY <1>2, Invariance, SoundAlways, PTL DEF Spec, ComputationIsReported

-----------------------------------------------------------------------------
(* What the server's operations do to one connection.                      *)

(* ServerManager::tryAssignSubproblem leaves a connection alone or sends   *)
(* Work to one that stands by.                                             *)
Employs(c, v, datagrams) ==
  /\ c.state = "standingBy"
  /\ \E s \in Segments : /\ conn'[v] = WithWork(c, s)
                         /\ toWorker'[v] = datagrams \union {Work(c.next, s)}

LEMMA TryAssignFacts ==
  ASSUME NEW C, NEW L, NEW T, TryAssign(C, L, T), NEW v \in Workers
  PROVE  \/ conn'[v] = C[v] /\ toWorker'[v] = T[v]
         \/ Employs(C[v], v, T[v])
<1> DEFINE standby == {w \in Workers : C[w].state = "standingBy"}
<1>1. PICK f \in Handout(standby, Unassigned(L)) :
        /\ conn' = [w \in Workers |->
                      IF w \in DOMAIN f THEN WithWork(C[w], f[w]) ELSE C[w]]
        /\ toWorker' = [w \in Workers |->
                          IF w \in DOMAIN f
                            THEN T[w] \union {Work(C[w].next, f[w])}
                            ELSE T[w]]
  BY DEF TryAssign
<1>2. standby \in SUBSET Workers /\ Unassigned(L) \in SUBSET Segments
  BY DEF Unassigned
<1>3. v \in DOMAIN f => C[v].state = "standingBy" /\ f[v] \in Segments
  <2> HIDE DEF standby
  <2>1. DOMAIN f \in SUBSET standby /\ f \in [DOMAIN f -> Unassigned(L)]
    BY <1>1, <1>2, HandoutFacts
  <2> QED
    BY <1>2, <2>1 DEF standby
<1> QED
  BY <1>1, <1>3 DEF Employs

(* The end of a handler that deletes the connections of D.                 *)
LEMMA DeleteFacts ==
  ASSUME NEW C \in [Workers -> Connection], NEW D \in SUBSET Workers, NEW T,
         Delete(C, D, T), NEW v \in Workers
  PROVE  \/ v \in D /\ conn'[v] = NoConnection /\ toWorker'[v] = T[v]
         \/ v \notin D /\ conn'[v] = C[v] /\ toWorker'[v] = T[v]
         \/ v \notin D /\ Employs(C[v], v, T[v])
<1>1. CASE D = {} /\ conn' = C /\ toWorker' = T
  BY <1>1
<1>2. CASE TryAssign(Without(C, D), GivenBack(D), T)
  <2>1. Without(C, D)[v] = IF v \in D THEN NoConnection ELSE C[v]
    BY DEF Without
  <2>2. \/ conn'[v] = Without(C, D)[v] /\ toWorker'[v] = T[v]
        \/ Employs(Without(C, D)[v], v, T[v])
    BY <1>2, TryAssignFacts
  <2> QED
    BY <2>1, <2>2 DEF Employs, NoConnection
<1> QED
  BY <1>1, <1>2 DEF Delete

(* ConnectionMain::sendSubproblem sends Work to its worker, or the ACK     *)
(* that makes it stand by.                                                 *)
LEMMA SendSubproblemFacts ==
  ASSUME Inv, NEW w \in Workers, NEW c \in Connection, NEW L, NEW early \in BOOLEAN,
         SendSubproblem(w, c, L, early)
  PROVE  /\ \A v \in Workers \ {w} :
              conn'[v] = conn[v] /\ toWorker'[v] = toWorker[v]
         /\ \E d \in {StandBy(c)} \union {WithWork(c, s) : s \in Segments} :
              /\ conn'[w] = IF early THEN Unwatched(d) ELSE d
              /\ toWorker'[w] = toWorker[w] \union {d.sent}
<1>1. PICK d \in {StandBy(c)} \union {WithWork(c, s) : s \in Segments} :
        Sends(w, d, early)
  BY DEF SendSubproblem
<1> QED
  BY <1>1, InvParts DEF Sends, Sending

(* The messages the two carry, and the number that comes next.             *)
LEMMA WithWorkFacts ==
  ASSUME NEW c \in Connection, NEW s \in Segments
  PROVE  /\ WithWork(c, s).state = "awaitingWorkACK"
         /\ WithWork(c, s).sent = Work(c.next, s)
         /\ WithWork(c, s).seg = s
         /\ WithWork(c, s).next = c.next + 1
         /\ WithWork(c, s).resp = TRUE
         /\ WithWork(c, s).recvTag = c.recvTag
         /\ WithWork(c, s).recvSeq = c.recvSeq
BY DEF WithWork, Connection

LEMMA StandByFacts ==
  ASSUME NEW c \in Connection
  PROVE  /\ StandBy(c).state = "standingBy"
         /\ StandBy(c).sent = Numbered("ACK", c.next)
         /\ StandBy(c).next = c.next + 1
         /\ StandBy(c).hb = TRUE
BY DEF StandBy, Connection

LEMMA ReceivedFacts ==
  ASSUME NEW c \in Connection, NEW m, NEW n
  PROVE  /\ Received(c, m, n).state = c.state
         /\ Received(c, m, n).sent = c.sent
         /\ Received(c, m, n).seg = c.seg
         /\ Received(c, m, n).next = n + 1
         /\ Received(c, m, n).recvTag = m.tag
         /\ Received(c, m, n).resp = c.resp
         /\ Received(c, m, n).hb = c.hb
BY DEF Received, Connection

(* Unsetting the response timer changes nothing else.                      *)
LEMMA UnwatchedFacts ==
  ASSUME NEW c \in Connection
  PROVE  /\ Unwatched(c).state = c.state
         /\ Unwatched(c).sent = c.sent
         /\ Unwatched(c).seg = c.seg
         /\ Unwatched(c).next = c.next
         /\ Unwatched(c).recvTag = c.recvTag
         /\ Unwatched(c).hb = c.hb
         /\ Unwatched(c).resp = FALSE
BY DEF Unwatched, Connection

(* ServerManager::handleMessage of a datagram, whichever branch it takes.  *)
TakenByServer(w, m, n) ==
  \/ AwaitingHello(w, m, n) \/ HeartbeatAnswered(w, m, n)
  \/ WorkerInterrupted(w, m, n) \/ Resend(w, m, n)
  \/ WorkAcknowledged(w, m, n) \/ EarlyResult(w, m, n)
  \/ OtherAccepted(w, m, n) \/ ResultReceived(w, m, n)
  \/ Unexpected(w, m, n) \/ StandingBy(w, m, n) \/ Ignored(w, m, n)

LEMMA HandleMessageFacts ==
  ASSUME Inv, NEW w \in Workers, HandleMessage(w)
  PROVE  /\ \E m \in toMain[w] : \E n \in SequenceRead(m) :
               m \in Message /\ n \in Nat /\ TakenByServer(w, m, n)
         /\ phase = "running"
         /\ \A v \in Workers : toMain'[v] \subseteq toMain[v]
         /\ Duplicating => toMain' = toMain
<1>1. PICK m \in toMain[w] : \E n \in SequenceRead(m) :
        /\ toMain' = Receiving(toMain, w, m)
        /\ TakenByServer(w, m, n)
  BY DEF HandleMessage, HandleMessageOf, TakenByServer
<1>2. m \in Message
  BY InvParts
<1>3. \A v \in Workers : toMain'[v] \subseteq toMain[v]
  BY <1>1, InvParts DEF Receiving
<1> QED
  BY <1>1, <1>2, <1>3, SequenceIsNat DEF Receiving, HandleMessage, HandleMessageOf

-----------------------------------------------------------------------------
(* What enters the ledger as solved.                                       *)

(* Segment t has been reported with h hits: a Result for it is on the way, *)
(* or still there because the network may deliver it again.                *)
Reported(t, h) ==
  \E w \in Workers : \E m \in toMain[w] :
    m.tag = "Result" /\ m.seg = t /\ m.hits = h

SolvedAsReported ==
  \A t \in Segments :
    ledger'[t].state = "SOLVED" =>
      ledger'[t] = ledger[t] \/ Reported(t, ledger'[t].pointsHit)

(* Nothing is solved by a handler that deletes connections.                *)
LEMMA DeleteSolves ==
  ASSUME Inv, NEW C \in [Workers -> Connection], NEW D \in SUBSET Workers,
         NEW T \in [Workers -> SUBSET Message], Delete(C, D, T)
  PROVE  SolvedAsReported
<1>1. CASE UNCHANGED ledger
  BY <1>1 DEF SolvedAsReported
<1>2. CASE TryAssign(Without(C, D), GivenBack(D), T)
  <2>1. Without(C, D) \in [Workers -> Connection]
    BY NoConnectionType DEF Without
  <2>2. GivenBack(D) \in [Segments -> Subproblem]
    BY InvParts, UnassignType DEF GivenBack
  <2>3. Gives(Without(C, D), GivenBack(D))
    BY <1>2, <2>1, <2>2, TryAssignGives
  <2>4. ASSUME NEW t \in Segments, ledger'[t].state = "SOLVED"
        PROVE  ledger'[t] = ledger[t]
    <3>1. ledger'[t] = GivenBack(D)[t]
      BY <2>3, <2>4 DEF Gives, Given
    <3> QED
      BY <2>4, <3>1, GivenBackFacts
  <2> QED
    BY <2>4 DEF SolvedAsReported
<1> QED
  BY <1>1, <1>2 DEF Delete

(* sendSubproblem after the ledger has become L solves what L has solved.  *)
LEMMA SendSubproblemSolves ==
  ASSUME Inv, NEW w \in Workers, NEW c \in Connection, NEW early \in BOOLEAN,
         NEW L \in [Segments -> Subproblem], SendSubproblem(w, c, L, early),
         NEW t \in Segments, ledger'[t].state = "SOLVED"
  PROVE  ledger'[t] = L[t]
BY DEF SendSubproblem, Pop, Subproblem

(* A Result that is accepted solves the segment it names with the hits it  *)
(* carries, and no other.                                                  *)
LEMMA ResultSolves ==
  ASSUME Inv, NEW w \in Workers, NEW m \in Message, NEW n \in Nat, m \in toMain[w],
         EarlyResult(w, m, n) \/ ResultReceived(w, m, n)
  PROVE  SolvedAsReported
<1>1. conn[w] \in Connection /\ Received(conn[w], m, n) \in Connection
  BY InvParts, ReceivedType
<1>2. CASE UNCHANGED ledger
  BY <1>2 DEF SolvedAsReported
<1>3. ASSUME NEW L \in [Segments -> Subproblem], NEW early \in BOOLEAN,
             m.tag = "Result", m.seg \in Segments,
             \A t \in Segments : L[t].state = "SOLVED" => L[t] = ledger[t],
             SendSubproblem(w, Received(conn[w], m, n),
                            MarkSolved(L, m.seg, m.hits), early)
      PROVE  SolvedAsReported
  <2>1. /\ MarkSolved(L, m.seg, m.hits) \in [Segments -> Subproblem]
        /\ MarkSolved(L, m.seg, m.hits)[m.seg].pointsHit = m.hits
        /\ \A t \in Segments \ {m.seg} : MarkSolved(L, m.seg, m.hits)[t] = L[t]
    BY <1>3, HitsAreNat DEF MarkSolved, Subproblem, SubproblemState
  <2>2. ASSUME NEW t \in Segments, ledger'[t].state = "SOLVED"
        PROVE  ledger'[t] = ledger[t] \/ Reported(t, ledger'[t].pointsHit)
    <3>1. ledger'[t] = MarkSolved(L, m.seg, m.hits)[t]
      BY <1>1, <1>3, <2>1, <2>2, SendSubproblemSolves
    <3>2. CASE t = m.seg
      BY <1>3, <2>1, <3>1, <3>2 DEF Reported
    <3>3. CASE t # m.seg
      BY <1>3, <2>1, <2>2, <3>1, <3>3
    <3> QED
      BY <3>2, <3>3
  <2> QED
    BY <2>2 DEF SolvedAsReported
<1>4. CASE EarlyResult(w, m, n) /\ ~UNCHANGED ledger
  <2> DEFINE L == Assign(ledger, conn[w].seg, w)
  <2>1. /\ m.tag = "Result" /\ CanMarkSolved(L, m.seg)
        /\ SendSubproblem(w, Received(conn[w], m, n),
                          MarkSolved(L, m.seg, m.hits), TRUE)
    BY <1>4 DEF EarlyResult
  <2>2. /\ L \in [Segments -> Subproblem]
        /\ \A t \in Segments : L[t].state = "SOLVED" => L[t] = ledger[t]
    BY InvParts DEF Assign, Subproblem, SubproblemState
  <2> HIDE DEF L
  <2>3. m.seg \in Segments
    BY <2>1 DEF CanMarkSolved
  <2> QED
    BY <1>3, <2>1, <2>2, <2>3, Zenon
<1>5. CASE ResultReceived(w, m, n) /\ ~UNCHANGED ledger
  BY <1>3, <1>5, InvParts DEF ResultReceived, CanMarkSolved
<1> QED
  BY <1>2, <1>4, <1>5

(* ServerManager::handleTimeout: the connections it takes for late ones,   *)
(* those it gives up, and what becomes of the others.                      *)
Late == {v \in Pool : ~conn[v].resp}
Lost == {v \in Late : LastChance(conn[v])}
Warned ==
  [v \in Workers |-> IF v \in Late \ Lost THEN TimedOut(conn[v]) ELSE conn[v]]
Reminders ==
  [v \in Workers |-> IF v \in Late \ Lost THEN toWorker[v] \union {conn[v].sent}
                                         ELSE toWorker[v]]

LEMMA HandleTimeoutFacts ==
  ASSUME Inv, NEW w \in Workers, HandleTimeout(w)
  PROVE  /\ Delete(Warned, Lost, Reminders)
         /\ Lost \in SUBSET Workers
         /\ Warned \in [Workers -> Connection]
         /\ Reminders \in [Workers -> SUBSET Message]
         /\ phase = "running"
         /\ UNCHANGED <<toMain, phase, opened>>
<1>1. Delete(Warned, Lost, Reminders)
  BY DEF HandleTimeout, Warned, Reminders, Lost, Late
<1>2. Lost \in SUBSET Workers
  BY DEF Lost, Late, Pool
<1>3. \A v \in Workers : conn[v] \in Connection /\ conn[v].sent \in Message
  BY InvParts DEF Connection
<1>4. \A v \in Late \ Lost : ~LastChance(conn[v])
  BY DEF Lost
<1>5. Reminders \in [Workers -> SUBSET Message]
  BY <1>3, InvParts DEF Reminders
<1>6. Warned \in [Workers -> Connection]
  BY <1>3, <1>4, TimedOutType DEF Warned
<1> QED
  BY <1>1, <1>2, <1>5, <1>6 DEF HandleTimeout

(* ServerManager::handleHeartbeatTimeout in the same terms.                *)
Silent == {v \in Pool : ~conn[v].hb}

LEMMA HandleHeartbeatTimeoutFacts ==
  ASSUME Inv, NEW w \in Workers, HandleHeartbeatTimeout(w)
  PROVE  /\ Delete(conn, Silent, toWorker)
         /\ Silent \in SUBSET Workers
         /\ phase = "running"
         /\ UNCHANGED <<toMain, phase, opened>>
BY DEF HandleHeartbeatTimeout, Silent, Pool

(* No step of the program solves a segment that was not reported.          *)
LEMMA StepSolves ==
  ASSUME Inv, [Next]_vars
  PROVE  SolvedAsReported
<1>1. ASSUME NEW w \in Workers, HandleMessage(w)
      PROVE  SolvedAsReported
  <2>1. PICK m \in toMain[w] : \E n \in SequenceRead(m) :
          m \in Message /\ n \in Nat /\ TakenByServer(w, m, n)
    BY <1>1, HandleMessageFacts
  <2>2. PICK n \in SequenceRead(m) :
          m \in Message /\ n \in Nat /\ TakenByServer(w, m, n)
    BY <2>1
  <2>3. CASE AwaitingHello(w, m, n)
    <3>1. SendSubproblem(w, Received(NoConnection, m, n), ledger, FALSE)
      BY <2>3 DEF AwaitingHello
    <3>2. Received(NoConnection, m, n) \in Connection
      BY <2>2, NoConnectionType, ReceivedType
    <3> QED
      BY <3>1, <3>2, InvParts, SendSubproblemSolves DEF SolvedAsReported
  <2>4. CASE WorkerInterrupted(w, m, n)
    BY <2>4, InvParts, DeleteSolves DEF WorkerInterrupted
  <2>5. CASE WorkAcknowledged(w, m, n)
    <3>1. conn[w].seg \in Segments /\ ledger' = Assign(ledger, conn[w].seg, w)
      BY <2>5, PendingIsOwn DEF WorkAcknowledged
    <3>2. /\ Assign(ledger, conn[w].seg, w)[conn[w].seg].state = "ASSIGNED"
          /\ \A t \in Segments \ {conn[w].seg} :
               Assign(ledger, conn[w].seg, w)[t] = ledger[t]
      BY <3>1, InvParts, AssignFacts
    <3> QED
      BY <3>1, <3>2 DEF SolvedAsReported
  <2>6. CASE EarlyResult(w, m, n) \/ ResultReceived(w, m, n)
    BY <2>2, <2>6, ResultSolves
  <2>7. CASE \/ HeartbeatAnswered(w, m, n) \/ Resend(w, m, n)
             \/ OtherAccepted(w, m, n) \/ Unexpected(w, m, n)
             \/ StandingBy(w, m, n) \/ Ignored(w, m, n)
    BY <2>7 DEF HeartbeatAnswered, Resend, OtherAccepted, Unexpected,
         StandingBy, Ignored, serverVars, SolvedAsReported
  <2> QED
    BY <2>2, <2>3, <2>4, <2>5, <2>6, <2>7 DEF TakenByServer
<1>2. ASSUME NEW w \in Workers, HandleTimeout(w)
      PROVE  SolvedAsReported
  BY <1>2, HandleTimeoutFacts, DeleteSolves
<1>3. ASSUME NEW w \in Workers, HandleHeartbeatTimeout(w)
      PROVE  SolvedAsReported
  BY <1>3, HandleHeartbeatTimeoutFacts, InvParts, DeleteSolves
<1>4. CASE HandleInterrupt
  <2>1. Pool \in SUBSET Workers /\ ledger' = GivenBack(Pool)
    BY <1>4 DEF HandleInterrupt, Pool
  <2> QED
    BY <2>1, GivenBackFacts DEF SolvedAsReported
<1>5. CASE UNCHANGED ledger
  BY <1>5 DEF SolvedAsReported
<1>6. [Next]_vars =>
        \/ \E w \in Workers : \/ HandleMessage(w) \/ HandleTimeout(w)
                              \/ HandleHeartbeatTimeout(w)
        \/ HandleInterrupt \/ UNCHANGED ledger
  BY DEF Next, vars, serverVars, ServerStep, ServerTimer, ExpireResp, ExpireHb,
       Finish
<1> QED
  BY <1>1, <1>2, <1>3, <1>4, <1>5, <1>6

(* What a step of a worker writes: its record, at most one datagram more   *)
(* on the way to the server, and at most one taken off the other way.      *)
LEMMA WorkerWrites ==
  ASSUME NEW w \in Workers, WorkerStep(w)
  PROVE  /\ worker' = worker \/ \E p : worker' = [worker EXCEPT ![w] = p]
         /\ toMain' = toMain \/ \E m : toMain' = Sending(toMain, w, m)
         /\ toWorker' = toWorker \/ \E m : toWorker' = Receiving(toWorker, w, m)
<1> DEFINE Mine    == worker' = worker \/ \E p : worker' = [worker EXCEPT ![w] = p]
           Hands   == toMain' = toMain \/ \E m : toMain' = Sending(toMain, w, m)
           Fetches == toWorker' = toWorker \/ \E m : toWorker' = Receiving(toWorker, w, m)
<1>1. CASE WorkerHandleMessage(w)
  <2>1. PICK m \in toWorker[w] : \E n \in SequenceRead(m) :
          toWorker' = Receiving(toWorker, w, m) /\ TakenByWorker(w, m, n)
    BY <1>1 DEF WorkerHandleMessage, WorkerHandleMessageOf, TakenByWorker
  <2>2. PICK n \in SequenceRead(m) : TakenByWorker(w, m, n)
    BY <2>1
  <2>3. Mine
    BY <2>2 DEF TakenByWorker, Dismissed, ResendByWorker, WorkReceived, OtherReceived,
         Dropped, Overlooked
  <2>4. Hands
    BY <2>2 DEF TakenByWorker, Dismissed, ResendByWorker, WorkReceived, OtherReceived,
         Dropped, Overlooked
  <2> QED
    BY <2>1, <2>3, <2>4
<1>2. CASE Start(w) \/ SendResult(w)
  BY <1>2 DEF Start, SendResult
<1>3. CASE WorkerHandleTimeout(w)
  BY <1>3 DEF WorkerHandleTimeout
<1>4. CASE WorkerHandleHeartbeatTimeout(w) \/ HandleHeartbeat(w)
  BY <1>4 DEF WorkerHandleHeartbeatTimeout, HandleHeartbeat, netVars
<1>5. CASE Count(w) \/ WorkerInterrupt(w) \/ WorkerCrash(w)
  BY <1>5 DEF Count, WorkerInterrupt, WorkerCrash, netVars
<1>6. CASE WorkerExpireResp(w) \/ ExpireHbt(w)
  BY <1>6 DEF WorkerExpireResp, ExpireHbt, netVars
<1> QED
  BY <1>1, <1>2, <1>3, <1>4, <1>5, <1>6 DEF WorkerStep

(* What a network that duplicates was given stays receivable.              *)
LEMMA ReportsStay ==
  ASSUME Inv, [Next]_vars, Duplicating, NEW w \in Workers
  PROVE  toMain[w] \subseteq toMain'[w]
<1>1. ASSUME NEW v \in Workers, HandleMessage(v)
      PROVE  toMain' = toMain
  BY <1>1, HandleMessageFacts
<1>2. ASSUME NEW v \in Workers, WorkerStep(v)
      PROVE  toMain' = toMain \/ \E m : toMain' = Sending(toMain, v, m)
  BY <1>2, WorkerWrites
<1>3. \/ \E v \in Workers : HandleMessage(v) \/ WorkerStep(v)
      \/ toMain' = toMain
  BY DEF Next, vars, serverVars, netVars, ServerStep, ServerTimer,
       HandleTimeout, HandleHeartbeatTimeout, HandleInterrupt, Finish, Lose
<1> QED
  BY <1>1, <1>2, <1>3, InvParts DEF Sending

(* The hits of a segment that entered the sum are those some worker's      *)
(* thread sent as the Result of that very segment.                         *)
THEOREM CreditedCorrect == Spec => []CreditedAsComputed
<1>1. Init => CreditedAsComputed
  BY DEF Init, ServerInit, LedgerInit, CreditedAsComputed
<1>2. ASSUME Inv, CreditedAsComputed, [Next]_vars
      PROVE  CreditedAsComputed'
  <2>1. SUFFICES ASSUME NEW t \in Segments, Duplicating,
                        ledger'[t].state = "SOLVED"
                 PROVE  \E w \in Workers : \E m \in toMain'[w] :
                          /\ m.tag = "Result" /\ m.seg = t
                          /\ m.hits = ledger'[t].pointsHit
    BY DEF CreditedAsComputed
  <2>2. Reported(t, ledger'[t].pointsHit)
    BY <1>2, <2>1, StepSolves DEF SolvedAsReported, CreditedAsComputed, Reported
  <2> QED
    BY <1>2, <2>1, <2>2, ReportsStay DEF Reported
<1> QED
  BY <1>1, <1>2, Invariance, PTL DEF Spec

-----------------------------------------------------------------------------
(* What a step of the server can do to the connection of v and to the      *)
(* datagrams on their way to it.                                           *)

(* The connection stays as far as the numbers go.                          *)
Stays(v) ==
  /\ conn'[v].sent = conn[v].sent /\ conn'[v].seg = conn[v].seg
  /\ conn'[v].next >= conn[v].next
  /\ Busy(conn'[v]) <=> Busy(conn[v])
  /\ conn'[v].state = "standingBy" <=> conn[v].state = "standingBy"

(* It has just been sent Work, or told to stand by, with the number k.     *)
Served(v, k) ==
  /\ conn'[v].next = k + 1
  /\ \/ /\ conn'[v].state = "awaitingWorkACK"
        /\ conn'[v].sent = Work(k, conn'[v].seg)
     \/ /\ conn'[v].state = "standingBy"
        /\ conn'[v].sent.tag = "ACK"

Turn(v) ==
  \/ Stays(v) /\ opened'[v] = opened[v]
  \/ /\ conn[v].state # "none" /\ conn'[v].state = "none"
     /\ opened'[v] = opened[v]
  \/ conn[v].state = "none" /\ opened'[v] = opened[v] + 1 /\ Served(v, 2)
  \/ /\ conn[v].state = "standingBy" /\ opened'[v] = opened[v]
     /\ Served(v, conn[v].next) /\ Busy(conn'[v])
  \/ /\ Busy(conn[v]) /\ opened'[v] = opened[v]
     /\ \E m \in toMain[v] : /\ m.tag = "Result" /\ m.seq >= conn[v].next
                            /\ Served(v, m.seq + 1)

(* Work on its way to v was so before, or is what the connection sends or  *)
(* had sent last.                                                          *)
Speaks(v) ==
  \A m \in toWorker'[v] :
    m.tag = "Work" => \/ m \in toWorker[v]
                      \/ conn[v].state # "none" /\ m = conn[v].sent
                      \/ conn'[v].state # "none" /\ m = conn'[v].sent

Proceeds(v) == Turn(v) /\ Speaks(v)

(* A connection whose record and datagrams are as they were.               *)
LEMMA UntouchedProceeds ==
  ASSUME Inv, NEW v \in Workers, conn'[v] = conn[v], toWorker'[v] = toWorker[v],
         opened'[v] = opened[v]
  PROVE  Proceeds(v)
<1>1. conn[v].next \in Nat
  BY InvParts DEF Connection
<1> QED
  BY <1>1 DEF Proceeds, Turn, Stays, Speaks

(* A connection that tryAssignSubproblem may have found standing by.       *)
LEMMA EmployedProceeds ==
  ASSUME Inv, NEW v \in Workers, NEW c \in Connection, NEW T,
         conn[v].state # "none", opened'[v] = opened[v],
         /\ c.state = conn[v].state /\ c.sent = conn[v].sent
         /\ c.seg = conn[v].seg /\ c.next = conn[v].next,
         T \subseteq toWorker[v] \union {conn[v].sent},
         \/ conn'[v] = c /\ toWorker'[v] = T
         \/ Employs(c, v, T)
  PROVE  Proceeds(v)
<1>1. conn[v].next \in Nat
  BY InvParts DEF Connection
<1>2. CASE conn'[v] = c /\ toWorker'[v] = T
  BY <1>1, <1>2 DEF Proceeds, Turn, Stays, Speaks, Busy
<1>3. CASE Employs(c, v, T)
  <2>1. PICK s \in Segments : /\ conn'[v] = WithWork(c, s)
                              /\ toWorker'[v] = T \union {Work(c.next, s)}
    BY <1>3 DEF Employs
  <2>2. /\ conn'[v].state = "awaitingWorkACK" /\ conn'[v].seg = s
        /\ conn'[v].sent = Work(c.next, s) /\ conn'[v].next = c.next + 1
    <3>1. conn'[v] = WithWork(c, s)
      BY <2>1
    <3>2. WithWork(c, s).state = "awaitingWorkACK"
      BY WithWorkFacts
    <3>3. WithWork(c, s).sent = Work(c.next, s)
      BY WithWorkFacts
    <3>4. WithWork(c, s).seg = s
      BY WithWorkFacts
    <3>5. WithWork(c, s).next = c.next + 1
      BY WithWorkFacts
    <3> QED
      BY <3>1, <3>2, <3>3, <3>4, <3>5
  <2>3. conn[v].state = "standingBy" /\ conn'[v].next = conn[v].next + 1
        /\ conn'[v].sent = Work(conn[v].next, conn'[v].seg)
    BY <1>3, <2>2 DEF Employs
  <2>5. Turn(v)
    BY <2>2, <2>3 DEF Turn, Served, Busy
  <2>4. Speaks(v)
    BY <2>1, <2>2 DEF Speaks
  <2> QED
    BY <2>4, <2>5 DEF Proceeds
<1> QED
  BY <1>2, <1>3

(* All connections at the end of a handler that deletes those of D.        *)
LEMMA DeleteProceeds ==
  ASSUME Inv, NEW C \in [Workers -> Connection], NEW D \in SUBSET Workers, NEW T,
         D \subseteq Pool, Delete(C, D, T), NEW v \in Workers,
         opened'[v] = opened[v],
         /\ C[v].state = conn[v].state /\ C[v].sent = conn[v].sent
         /\ C[v].seg = conn[v].seg /\ C[v].next = conn[v].next,
         \/ T[v] = toWorker[v]
         \/ v \in Pool /\ T[v] = toWorker[v] \union {conn[v].sent},
         conn[v].state = "none" => C[v] = conn[v]
  PROVE  Proceeds(v)
<1>1. \/ v \in D /\ conn'[v] = NoConnection /\ toWorker'[v] = T[v]
      \/ v \notin D /\ conn'[v] = C[v] /\ toWorker'[v] = T[v]
      \/ v \notin D /\ Employs(C[v], v, T[v])
  BY DeleteFacts
<1>2. CASE v \in D
  BY <1>1, <1>2 DEF Proceeds, Turn, Speaks, Pool, NoConnection
<1>3. CASE v \notin D /\ conn[v].state = "none"
  <2>1. conn'[v] = conn[v] /\ toWorker'[v] = toWorker[v]
    BY <1>1, <1>3 DEF Employs, Pool
  <2> QED
    BY <2>1, UntouchedProceeds
<1>4. CASE v \notin D /\ conn[v].state # "none"
  BY <1>1, <1>4, EmployedProceeds
<1> QED
  BY <1>2, <1>3, <1>4

(* The connection whose sendSubproblem is called, with number n accepted.  *)
LEMMA SendSubproblemServes ==
  ASSUME Inv, NEW w \in Workers, NEW c \in Connection, NEW L, NEW early \in BOOLEAN,
         SendSubproblem(w, c, L, early)
  PROVE  /\ Served(w, c.next) /\ Speaks(w)
         /\ \A v \in Workers \ {w} :
              conn'[v] = conn[v] /\ toWorker'[v] = toWorker[v]
<1>1. PICK d \in {StandBy(c)} \union {WithWork(c, s) : s \in Segments} :
        /\ conn'[w] = IF early THEN Unwatched(d) ELSE d
        /\ toWorker'[w] = toWorker[w] \union {d.sent}
  BY SendSubproblemFacts
<1>2. /\ d \in Connection /\ d.next = c.next + 1
      /\ \/ d.state = "awaitingWorkACK" /\ d.sent = Work(c.next, d.seg)
         \/ d.state = "standingBy" /\ d.sent.tag = "ACK"
  <2>1. CASE d = StandBy(c)
    <3>1. Numbered("ACK", c.next).tag = "ACK"
      BY DEF Numbered
    <3> QED
      BY <2>1, <3>1, StandByType, StandByFacts
  <2>2. ASSUME NEW s \in Segments, d = WithWork(c, s)
        PROVE  d \in Connection /\ d.next = c.next + 1
               /\ d.state = "awaitingWorkACK" /\ d.sent = Work(c.next, d.seg)
    <3>1. d.seg = s /\ d \in Connection
      BY <2>2, WithWorkType
    <3>2. WithWork(c, s).sent = Work(c.next, s)
      BY WithWorkFacts
    <3>3. WithWork(c, s).next = c.next + 1
      BY WithWorkFacts
    <3>4. WithWork(c, s).state = "awaitingWorkACK"
      BY WithWorkFacts
    <3> QED
      BY <2>2, <3>1, <3>2, <3>3, <3>4
  <2> QED
    BY <2>1, <2>2
<1>3. /\ conn'[w].state = d.state /\ conn'[w].sent = d.sent
      /\ conn'[w].seg = d.seg /\ conn'[w].next = d.next
  BY <1>1, <1>2, UnwatchedFacts
<1>4. Served(w, c.next)
  BY <1>2, <1>3 DEF Served
<1>5. Speaks(w)
  BY <1>1, <1>2, <1>3 DEF Speaks
<1> QED
  BY <1>4, <1>5, SendSubproblemFacts

(* A Result that is accepted: its number is the one that counts.           *)
LEMMA ResultProceeds ==
  ASSUME Inv, NEW w \in Workers, NEW m \in Message, NEW n \in SequenceRead(m),
         m \in toMain[w], m.tag = "Result", n >= conn[w].next, Busy(conn[w]),
         NEW L, NEW early \in BOOLEAN, opened' = opened,
         SendSubproblem(w, Received(conn[w], m, n), L, early)
  PROVE  \A v \in Workers : Proceeds(v)
<1>1. n = m.seq /\ n \in Nat /\ conn[w] \in Connection
  BY InvParts, SequenceIsNat DEF SequenceRead
<1>2. /\ Received(conn[w], m, n) \in Connection
      /\ Received(conn[w], m, n).next = m.seq + 1
  BY <1>1, ReceivedType, ReceivedFacts
<1>3. /\ Served(w, Received(conn[w], m, n).next) /\ Speaks(w)
      /\ \A v \in Workers \ {w} :
           conn'[v] = conn[v] /\ toWorker'[v] = toWorker[v]
  BY <1>2, SendSubproblemServes
<1>4. Turn(w)
  BY <1>1, <1>2, <1>3 DEF Turn
<1> QED
  BY <1>3, <1>4, UntouchedProceeds DEF Proceeds

(* The handling of a datagram is such a step for every connection.         *)
LEMMA MessageProceeds ==
  ASSUME Inv, NEW w \in Workers, HandleMessage(w)
  PROVE  \A v \in Workers : Proceeds(v)
<1>1. PICK m \in toMain[w] : \E n \in SequenceRead(m) :
        m \in Message /\ n \in Nat /\ TakenByServer(w, m, n)
  BY HandleMessageFacts
<1>2. PICK n \in SequenceRead(m) :
        m \in Message /\ n \in Nat /\ TakenByServer(w, m, n)
  BY <1>1
<1>3. /\ conn \in [Workers -> Connection] /\ conn[w] \in Connection
      /\ toWorker \in [Workers -> SUBSET Message]
      /\ opened \in [Workers -> Nat] /\ conn[w].next \in Nat
  BY InvParts, InvHasRest DEF TypedRest, Connection
<1>4. ASSUME Proceeds(w), opened' = opened,
             \A v \in Workers \ {w} :
               conn'[v] = conn[v] /\ toWorker'[v] = toWorker[v]
      PROVE  \A v \in Workers : Proceeds(v)
  BY <1>4, UntouchedProceeds
<1>5. ASSUME UNCHANGED <<conn, toWorker, opened>>
      PROVE  \A v \in Workers : Proceeds(v)
  BY <1>5, UntouchedProceeds
<1>6. CASE AwaitingHello(w, m, n)
  <2> DEFINE c == Received(NoConnection, m, n)
  <2>1. /\ conn[w].state = "none" /\ n = 1
        /\ opened' = [opened EXCEPT ![w] = @ + 1]
        /\ SendSubproblem(w, c, ledger, FALSE)
    BY <1>6 DEF AwaitingHello, NoConnection
  <2>2. c \in Connection /\ c.next = 2
    BY <1>2, <2>1, NoConnectionType, ReceivedType, ReceivedFacts
  <2> HIDE DEF c
  <2>3. /\ Served(w, 2) /\ Speaks(w)
        /\ \A v \in Workers \ {w} :
             conn'[v] = conn[v] /\ toWorker'[v] = toWorker[v]
    BY <2>1, <2>2, SendSubproblemServes
  <2>4. Turn(w)
    BY <1>3, <2>1, <2>3 DEF Turn
  <2> QED
    BY <1>3, <2>1, <2>3, <2>4, UntouchedProceeds DEF Proceeds
<1>7. CASE HeartbeatAnswered(w, m, n)
  <2>1. /\ UNCHANGED <<conn, opened>>
        /\ toWorker' = Sending(toWorker, w, Bare("HeartbeatACK"))
    BY <1>7 DEF HeartbeatAnswered, serverVars
  <2>2. Speaks(w)
    BY <1>3, <2>1 DEF Speaks, Sending, Bare
  <2>3. Turn(w)
    BY <1>3, <2>1 DEF Turn, Stays
  <2> QED
    BY <1>3, <1>4, <2>1, <2>2, <2>3 DEF Proceeds, Sending
<1>8. CASE WorkerInterrupted(w, m, n)
  <2> DEFINE D == {w}
  <2>1. /\ D \in SUBSET Workers /\ D \subseteq Pool
        /\ Delete(conn, D, toWorker) /\ opened' = opened
    BY <1>8 DEF WorkerInterrupted
  <2> HIDE DEF D
  <2>2. ASSUME NEW v \in Workers
        PROVE  Proceeds(v)
    <3>1. opened'[v] = opened[v]
      BY <2>1
    <3> QED
      BY <1>3, <2>1, <3>1, DeleteProceeds
  <2> QED
    BY <2>2
<1>9. CASE Resend(w, m, n)
  <2>1. /\ conn[w].state # "none" /\ UNCHANGED opened
        /\ conn' = [conn EXCEPT ![w] = Resent(@)]
        /\ toWorker' = Sending(toWorker, w, conn[w].sent)
    BY <1>9 DEF Resend, Pool
  <2>2. Speaks(w)
    BY <1>3, <2>1 DEF Speaks, Sending
  <2>3. Turn(w)
    BY <1>3, <2>1 DEF Turn, Stays, Resent, Busy, Connection
  <2> QED
    BY <1>3, <1>4, <2>1, <2>2, <2>3 DEF Proceeds, Sending
<1>10. CASE WorkAcknowledged(w, m, n) \/ OtherAccepted(w, m, n)
  <2> DEFINE d == Unwatched(Received(conn[w], m, n))
  <2>1. /\ conn[w].state = "awaitingWorkACK" /\ UNCHANGED <<opened, toWorker>>
        /\ n \in {conn[w].next, conn[w].next + 1}
        /\ \/ conn' = [conn EXCEPT ![w] = d]
           \/ conn' = [conn EXCEPT ![w] = [d EXCEPT !.state = "awaitingResult",
                                                    !.hb = TRUE]]
    BY <1>10 DEF WorkAcknowledged, OtherAccepted, InWindow
  <2>2. d \in Connection
    BY <1>2, <1>3, ReceivedType, UnwatchedType
  <2>3. /\ d.state = conn[w].state /\ d.sent = conn[w].sent
        /\ d.seg = conn[w].seg /\ d.next = n + 1
    <3> DEFINE c == Received(conn[w], m, n)
    <3>1. /\ c \in Connection /\ c.state = conn[w].state
          /\ c.sent = conn[w].sent /\ c.seg = conn[w].seg /\ c.next = n + 1
      <4>1. c \in Connection
        BY <1>2, <1>3, ReceivedType
      <4>2. c.next = n + 1
        BY <1>2, <1>3, ReceivedFacts
      <4>3. c.sent = conn[w].sent /\ c.seg = conn[w].seg
        BY <1>2, <1>3, ReceivedFacts
      <4>4. c.state = conn[w].state
        BY <1>2, <1>3, ReceivedFacts
      <4> QED
        BY <4>1, <4>2, <4>3, <4>4
    <3> HIDE DEF c
    <3>2. /\ Unwatched(c).state = c.state /\ Unwatched(c).sent = c.sent
          /\ Unwatched(c).seg = c.seg /\ Unwatched(c).next = c.next
      BY <3>1, UnwatchedFacts
    <3> QED
      BY <3>1, <3>2 DEF c
  <2> HIDE DEF d
  <2>4. /\ conn'[w].state \in {"awaitingWorkACK", "awaitingResult"}
        /\ conn'[w].sent = conn[w].sent /\ conn'[w].seg = conn[w].seg
        /\ conn'[w].next = n + 1
    <3>1. conn'[w] = d
          \/ conn'[w] = [d EXCEPT !.state = "awaitingResult", !.hb = TRUE]
      BY <1>3, <2>1
    <3> QED
      BY <2>1, <2>2, <2>3, <3>1 DEF Connection
  <2>5. Speaks(w)
    BY <2>1 DEF Speaks
  <2>6. Turn(w)
    BY <1>2, <1>3, <2>1, <2>4 DEF Turn, Stays, Busy
  <2> QED
    BY <1>3, <1>4, <2>1, <2>5, <2>6 DEF Proceeds
<1>11. CASE EarlyResult(w, m, n)
  <2>1. \/ UNCHANGED <<conn, toWorker>>
        \/ SendSubproblem(w, Received(conn[w], m, n),
             MarkSolved(Assign(ledger, conn[w].seg, w), m.seg, m.hits), TRUE)
    BY <1>11 DEF EarlyResult
  <2>2. /\ m.tag = "Result" /\ n >= conn[w].next /\ Busy(conn[w])
        /\ opened' = opened
    BY <1>3, <1>11 DEF EarlyResult, InWindow, Busy
  <2> QED
    BY <1>2, <1>5, <2>1, <2>2, ResultProceeds
<1>12. CASE ResultReceived(w, m, n)
  <2>1. \/ UNCHANGED <<conn, toWorker>>
        \/ SendSubproblem(w, Received(conn[w], m, n),
                          MarkSolved(ledger, m.seg, m.hits), FALSE)
    BY <1>12 DEF ResultReceived
  <2>2. /\ m.tag = "Result" /\ n >= conn[w].next /\ Busy(conn[w])
        /\ opened' = opened
    BY <1>3, <1>12 DEF ResultReceived, Busy
  <2> QED
    BY <1>2, <1>5, <2>1, <2>2, ResultProceeds
<1>13. CASE Unexpected(w, m, n)
  <2>1. /\ UNCHANGED <<toWorker, opened>>
        /\ conn' = [conn EXCEPT ![w].repeat = MaxRepeats]
    BY <1>13 DEF Unexpected
  <2>2. Proceeds(w)
    BY <1>3, <2>1 DEF Proceeds, Turn, Stays, Speaks, Busy, Connection
  <2> QED
    BY <1>3, <1>4, <2>1, <2>2
<1>14. CASE StandingBy(w, m, n) \/ Ignored(w, m, n)
  BY <1>5, <1>14 DEF StandingBy, Ignored, serverVars
<1> QED
  BY <1>2, <1>6, <1>7, <1>8, <1>9, <1>10, <1>11, <1>12, <1>13, <1>14
     DEF TakenByServer

(* So is the handling of a response timeout.                               *)
LEMMA TimeoutProceeds ==
  ASSUME Inv, NEW w \in Workers, HandleTimeout(w), NEW v \in Workers
  PROVE  Proceeds(v)
<1>1. /\ Delete(Warned, Lost, Reminders)
      /\ Lost \in SUBSET Workers
      /\ Warned \in [Workers -> Connection]
      /\ opened' = opened
  BY HandleTimeoutFacts
<1>2. Lost \subseteq Pool
  BY DEF Lost, Late
<1>3. /\ Warned[v].state = conn[v].state /\ Warned[v].sent = conn[v].sent
      /\ Warned[v].seg = conn[v].seg /\ Warned[v].next = conn[v].next
  BY InvParts DEF Warned, TimedOut, Connection
<1>4. \/ Reminders[v] = toWorker[v]
      \/ v \in Pool /\ Reminders[v] = toWorker[v] \union {conn[v].sent}
  BY DEF Reminders, Late
<1>5. conn[v].state = "none" => Warned[v] = conn[v]
  BY DEF Warned, Late, Pool
<1>6. opened'[v] = opened[v]
  BY <1>1
<1> QED
  BY <1>1, <1>2, <1>3, <1>4, <1>5, <1>6, DeleteProceeds

(* And of the other signals.                                               *)
LEMMA SignalProceeds ==
  ASSUME Inv, NEW v \in Workers,
         \/ \E w \in Workers : \/ HandleHeartbeatTimeout(w)
                               \/ ExpireResp(w) /\ UNCHANGED netVars
                               \/ ExpireHb(w) /\ UNCHANGED netVars
         \/ HandleInterrupt \/ Finish
  PROVE  Proceeds(v)
<1>1. /\ conn \in [Workers -> Connection] /\ conn[v] \in Connection
      /\ conn[v].next \in Nat
      /\ toWorker \in [Workers -> SUBSET Message]
  BY InvParts DEF Connection
<1>2. ASSUME NEW w \in Workers, HandleHeartbeatTimeout(w)
      PROVE  Proceeds(v)
  <2>1. /\ Delete(conn, Silent, toWorker) /\ Silent \in SUBSET Workers
        /\ opened' = opened
    BY <1>2, HandleHeartbeatTimeoutFacts
  <2>2. Silent \subseteq Pool /\ opened'[v] = opened[v]
    BY <2>1 DEF Silent
  <2> QED
    BY <1>1, <2>1, <2>2, DeleteProceeds
<1>3. ASSUME NEW w \in Workers, ExpireResp(w) \/ ExpireHb(w), UNCHANGED netVars
      PROVE  Proceeds(v)
  <2>1. /\ conn'[v].state = conn[v].state /\ conn'[v].sent = conn[v].sent
        /\ conn'[v].seg = conn[v].seg /\ conn'[v].next = conn[v].next
        /\ opened'[v] = opened[v] /\ toWorker' = toWorker
    BY <1>1, <1>3 DEF ExpireResp, ExpireHb, Connection, netVars
  <2> QED
    BY <1>1, <2>1 DEF Proceeds, Turn, Stays, Speaks, Busy
<1>4. CASE HandleInterrupt
  <2>1. /\ conn' = Without(conn, Pool) /\ opened' = opened
        /\ toWorker'[v] \subseteq toWorker[v] \union {Bare("Interrupt")}
    BY <1>4 DEF HandleInterrupt
  <2>2. Speaks(v)
    BY <2>1 DEF Speaks, Bare
  <2>3. Turn(v)
    BY <1>1, <2>1 DEF Turn, Stays, Without, Pool, NoConnection
  <2> QED
    BY <2>2, <2>3 DEF Proceeds
<1>5. CASE Finish
  <2>1. /\ conn' = conn /\ opened' = opened
        /\ toWorker'[v] \subseteq
             toWorker[v] \union {Numbered("Close", conn[v].next)}
    BY <1>5 DEF Finish
  <2>2. Speaks(v)
    BY <2>1 DEF Speaks, Numbered
  <2>3. Turn(v)
    BY <1>1, <2>1 DEF Turn, Stays
  <2> QED
    BY <2>2, <2>3 DEF Proceeds
<1> QED
  BY <1>2, <1>3, <1>4, <1>5

(* Every step that no worker takes is one for all connections; it puts     *)
(* nothing on the way to the server.                                       *)
ServerTurns ==
  /\ UNCHANGED worker
  /\ \A v \in Workers : Proceeds(v) /\ toMain'[v] \subseteq toMain[v]

LEMMA StepKinds ==
  ASSUME Inv, [Next]_vars
  PROVE  \/ ServerTurns
         \/ \E w \in Workers : WorkerStep(w) /\ UNCHANGED serverVars
<1>1. ASSUME NEW w \in Workers, ServerStep(w), UNCHANGED worker
      PROVE  ServerTurns
  <2>1. CASE HandleMessage(w)
    BY <1>1, <2>1, HandleMessageFacts, MessageProceeds DEF ServerTurns
  <2>2. CASE HandleTimeout(w)
    BY <1>1, <2>2, HandleTimeoutFacts, TimeoutProceeds DEF ServerTurns
  <2>3. CASE HandleHeartbeatTimeout(w)
    BY <1>1, <2>3, HandleHeartbeatTimeoutFacts, SignalProceeds DEF ServerTurns
  <2> QED
    BY <1>1, <2>1, <2>2, <2>3 DEF ServerStep
<1>2. ASSUME NEW w \in Workers, ServerTimer(w), UNCHANGED worker
      PROVE  ServerTurns
  BY <1>2, SignalProceeds DEF ServerTimer, ServerTurns, netVars
<1>3. ASSUME NEW w \in Workers, Lose(w), UNCHANGED <<serverVars, worker>>
      PROVE  ServerTurns
  <2>1. ASSUME NEW v \in Workers
        PROVE  /\ toMain'[v] \subseteq toMain[v]
               /\ toWorker'[v] \subseteq toWorker[v]
    BY <1>3, <2>1, InvParts DEF Lose
  <2>2. ASSUME NEW v \in Workers
        PROVE  Proceeds(v)
    <3>1. /\ conn' = conn /\ opened' = opened /\ conn[v].next \in Nat
      BY <1>3, InvParts DEF serverVars, Connection
    <3> QED
      BY <2>1, <3>1 DEF Proceeds, Turn, Stays, Speaks
  <2> QED
    BY <1>3, <2>1, <2>2 DEF ServerTurns
<1>4. CASE (HandleInterrupt \/ Finish) /\ UNCHANGED worker
  <2>1. toMain' = toMain
    BY <1>4 DEF HandleInterrupt, Finish
  <2> QED
    BY <1>4, <2>1, SignalProceeds DEF ServerTurns
<1>5. CASE UNCHANGED vars
  <2>1. /\ conn' = conn /\ toWorker' = toWorker /\ opened' = opened
        /\ toMain' = toMain /\ worker' = worker
    BY <1>5 DEF vars, serverVars, netVars
  <2> QED
    BY <2>1, UntouchedProceeds DEF ServerTurns
<1> QED
  BY <1>1, <1>2, <1>3, <1>4, <1>5 DEF Next

-----------------------------------------------------------------------------
(* What a step of a worker can do to its counter, its thread and the       *)
(* datagrams on their way from it, the one it may send again included.     *)
Outbox(w) == toMain[w] \union {worker[w].sent}

(* It sends again, or sends something that is not a Result.                *)
Idles(w) ==
  /\ \A m \in Outbox(w)' :
       \/ m \in Outbox(w) \/ m = Numbered("Hello", 1)
       \/ m.tag \notin {"Hello", "Result"}
  /\ worker'[w].state = "Exited" \/ worker'[w].next >= worker[w].next
  /\ worker'[w].thread # "none" =>
       worker[w].thread # "none" /\ worker'[w].seg = worker[w].seg

(* It starts to compute the segment of a Work it expects.                  *)
Starts(w) ==
  /\ \A m \in Outbox(w)' : m \in Outbox(w) \/ m.tag = "ACK"
  /\ \E m \in toWorker[w] : /\ m.tag = "Work" /\ m.seq = worker[w].next
                            /\ worker'[w].seg = m.seg
  /\ worker[w].state # "Exited"
  /\ worker'[w].next >= worker[w].next

(* Its thread is done, and the Result is sent.                             *)
Reports(w) ==
  /\ worker[w].thread # "none" /\ worker'[w].thread = "none"
  /\ worker'[w].next = worker[w].next + 1
  /\ \E h \in HitCounts : \A m \in Outbox(w)' :
       m \in Outbox(w) \/ m = Result(worker[w].next, worker[w].seg, h)

(* A datagram that is handled is no exception.                             *)
LEMMA TakenByWorkerMoves ==
  ASSUME Inv, NEW w \in Workers, NEW m \in toWorker[w], NEW n \in SequenceRead(m),
         worker[w].state # "Exited", TakenByWorker(w, m, n)
  PROVE  Idles(w) \/ Starts(w)
<1>1. /\ worker \in [Workers -> Process] /\ worker[w] \in Process
      /\ toMain \in [Workers -> SUBSET Message] /\ m \in Message /\ n \in Nat
      /\ worker[w].next \in Nat
  BY InvParts, InvHasRest, SequenceIsNat DEF TypedRest, Process
<1>2. CASE Dismissed(w, m, n)
  <2>1. worker'[w] = Ended /\ toMain' = toMain
    BY <1>1, <1>2 DEF Dismissed
  <2>2. /\ Ended.sent.tag = "Invalid" /\ Ended.state = "Exited"
        /\ Ended.thread = "none"
    BY DEF Ended, NotStarted, InvalidMessage
  <2> QED
    BY <2>1, <2>2 DEF Idles, Outbox
<1>3. CASE ResendByWorker(w, m, n)
  <2>1. /\ worker'[w].sent = worker[w].sent /\ worker'[w].next = worker[w].next
        /\ worker'[w].thread = worker[w].thread
        /\ worker'[w].seg = worker[w].seg
        /\ toMain'[w] = toMain[w] \union {worker[w].sent}
    BY <1>1, <1>3 DEF ResendByWorker, Process, Sending
  <2> QED
    BY <1>1, <2>1 DEF Idles, Outbox
<1>4. CASE WorkReceived(w, m, n)
  <2> DEFINE p == Employed(Accepted(worker[w], n), m.seg)
  <2>1. /\ n = worker[w].next /\ m.tag = "Work"
        /\ worker'[w] = [p EXCEPT !.resp = @ /\ worker[w].state = "StandingBy"]
        /\ toMain'[w] = toMain[w] \union {p.sent}
    BY <1>1, <1>4 DEF WorkReceived, Expected, Sending
  <2>2. n = m.seq
    BY <2>1 DEF SequenceRead
  <2>3. /\ p.seg = m.seg /\ p.next = n + 2 /\ p.sent = Numbered("ACK", n + 1)
        /\ [p EXCEPT !.resp = @ /\ worker[w].state = "StandingBy"].seg = p.seg
        /\ [p EXCEPT !.resp = @ /\ worker[w].state = "StandingBy"].next = p.next
        /\ [p EXCEPT !.resp = @ /\ worker[w].state = "StandingBy"].sent = p.sent
    BY <1>1 DEF Employed, Accepted, Sent, Process
  <2>4. Numbered("ACK", n + 1).tag = "ACK"
    BY DEF Numbered
  <2> HIDE DEF p
  <2> QED
    BY <1>1, <2>1, <2>2, <2>3, <2>4 DEF Starts, Outbox
<1>5. CASE OtherReceived(w, m, n) \/ Dropped(w, m, n)
  <2>1. n = worker[w].next /\ toMain' = toMain
    BY <1>5 DEF OtherReceived, Dropped, Expected
  <2>2. /\ worker'[w].sent = worker[w].sent /\ worker'[w].next = n + 1
        /\ worker'[w].thread = worker[w].thread
        /\ worker'[w].seg = worker[w].seg
    <3>1. CASE OtherReceived(w, m, n)
      BY <1>1, <3>1 DEF OtherReceived, Accepted, Process
    <3>2. CASE Dropped(w, m, n)
      BY <1>1, <3>2 DEF Dropped, Accepted, Process
    <3> QED
      BY <1>5, <3>1, <3>2
  <2> QED
    BY <1>1, <2>1, <2>2 DEF Idles, Outbox
<1>6. CASE Overlooked(w, m, n)
  BY <1>1, <1>6 DEF Overlooked, Idles, Outbox
<1> QED
  BY <1>2, <1>3, <1>4, <1>5, <1>6 DEF TakenByWorker

(* A step of a worker is one of the three.                                 *)
LEMMA WorkerMoves ==
  ASSUME Inv, NEW w \in Workers, WorkerStep(w)
  PROVE  Idles(w) \/ Starts(w) \/ Reports(w)
<1>1. /\ worker \in [Workers -> Process] /\ worker[w] \in Process
      /\ toMain \in [Workers -> SUBSET Message] /\ worker[w].next \in Nat
  BY InvHasRest DEF TypedRest, Process
<1>2. /\ Ended.sent.tag = "Invalid" /\ Ended.state = "Exited"
      /\ Ended.thread = "none"
      /\ \A t \in MessageType : Bare(t).tag = t
  BY DEF Ended, NotStarted, InvalidMessage, Bare
<1>3. ASSUME worker'[w] = Ended,
             \/ toMain' = toMain
             \/ toMain'[w] = toMain[w] \union {Bare("Interrupt")}
      PROVE  Idles(w)
  <2>1. Bare("Interrupt").tag = "Interrupt"
    BY DEF Bare
  <2> QED
    BY <1>2, <1>3, <2>1 DEF Idles, Outbox
<1>4. ASSUME /\ worker'[w].sent = worker[w].sent
             /\ worker'[w].next = worker[w].next,
             worker'[w].thread # "none" => worker[w].thread # "none",
             worker'[w].seg = worker[w].seg,
             \/ toMain' = toMain
             \/ toMain'[w] = toMain[w] \union {worker[w].sent}
             \/ toMain'[w] = toMain[w] \union {Bare("Heartbeat")}
      PROVE  Idles(w)
  <2>1. Bare("Heartbeat").tag = "Heartbeat"
    BY DEF Bare
  <2> QED
    BY <1>1, <1>4, <2>1 DEF Idles, Outbox
<1>5. CASE Start(w)
  <2> DEFINE p == [Sent(worker[w], Numbered("Hello", 1), TRUE) EXCEPT
                     !.state = "AwaitingWorkOrACK"]
  <2>1. /\ worker'[w] = p
        /\ toMain'[w] = toMain[w] \union {Numbered("Hello", 1)}
    BY <1>1, <1>5 DEF Start, NotStarted, Sending
  <2>2. /\ p.sent = Numbered("Hello", 1) /\ p.next = worker[w].next + 1
        /\ p.thread = worker[w].thread /\ p.seg = worker[w].seg
    BY <1>1 DEF Sent, Process
  <2> HIDE DEF p
  <2> QED
    BY <1>1, <2>1, <2>2 DEF Idles, Outbox
<1>6. CASE WorkerHandleMessage(w)
  <2>1. PICK m \in toWorker[w] : \E n \in SequenceRead(m) : TakenByWorker(w, m, n)
    BY <1>6 DEF WorkerHandleMessage, WorkerHandleMessageOf, TakenByWorker
  <2>2. PICK n \in SequenceRead(m) : TakenByWorker(w, m, n)
    BY <2>1
  <2>3. worker[w].state # "Exited"
    BY <1>6 DEF WorkerHandleMessage, WorkerHandleMessageOf, Alive
  <2> QED
    BY <2>2, <2>3, TakenByWorkerMoves
<1>7. CASE WorkerHandleTimeout(w)
  <2>1. CASE worker[w].repeat = 1
    <3>1. /\ worker'[w] = Ended
          /\ toMain'[w] = toMain[w] \union {Bare("Interrupt")}
      BY <1>1, <1>7, <2>1 DEF WorkerHandleTimeout, Sending
    <3> QED
      BY <1>3, <3>1
  <2>2. CASE worker[w].repeat # 1
    <3>1. /\ worker'[w].sent = worker[w].sent
          /\ worker'[w].next = worker[w].next
          /\ worker'[w].thread = worker[w].thread
          /\ worker'[w].seg = worker[w].seg
          /\ toMain'[w] = toMain[w] \union {worker[w].sent}
      BY <1>1, <1>7, <2>2 DEF WorkerHandleTimeout, Sending, Process
    <3> QED
      BY <1>4, <3>1
  <2> QED
    BY <2>1, <2>2
<1>8. CASE WorkerHandleHeartbeatTimeout(w)
  <2>1. /\ toMain' = toMain
        /\ worker'[w] = IF worker[w].hb THEN Ended
                                        ELSE [worker[w] EXCEPT !.sigHbt = FALSE]
    BY <1>1, <1>8 DEF WorkerHandleHeartbeatTimeout, netVars
  <2>2. CASE worker[w].hb
    BY <1>3, <2>1, <2>2
  <2>3. CASE ~worker[w].hb
    BY <1>1, <1>4, <2>1, <2>3 DEF Process
  <2> QED
    BY <2>2, <2>3
<1>9. CASE HandleHeartbeat(w)
  BY <1>1, <1>4, <1>9 DEF HandleHeartbeat, Sending
<1>10. CASE Count(w)
  <2>1. /\ toMain' = toMain /\ worker[w].thread = "running"
        /\ worker'[w] = [worker[w] EXCEPT !.thread = "done"]
    BY <1>1, <1>10 DEF Count, netVars
  <2> QED
    BY <1>1, <1>4, <2>1 DEF Process
<1>11. CASE SendResult(w)
  <2>1. PICK h \in HitCounts :
          LET result == Result(worker[w].next, worker[w].seg, h)
          IN  /\ worker' = [worker EXCEPT ![w] =
                              [Sent(@, result, TRUE) EXCEPT
                                 !.state = "AwaitingWorkOrACK", !.hb = FALSE,
                                 !.hbt = FALSE, !.thread = "none"]]
              /\ toMain' = Sending(toMain, w, result)
    BY <1>11 DEF SendResult
  <2> DEFINE result == Result(worker[w].next, worker[w].seg, h)
  <2> HIDE DEF result
  <2>2. /\ worker'[w].sent = result /\ worker'[w].next = worker[w].next + 1
        /\ worker'[w].thread = "none"
        /\ toMain'[w] = toMain[w] \union {result}
    BY <1>1, <2>1 DEF Sent, Sending, Process, result
  <2>3. worker[w].thread # "none"
    BY <1>11 DEF SendResult
  <2> QED
    BY <2>2, <2>3 DEF Reports, Outbox, result
<1>12. CASE WorkerInterrupt(w)
  <2>1. /\ worker'[w] = Ended
        /\ toMain'[w] = toMain[w] \union {Bare("Interrupt")}
    BY <1>1, <1>12 DEF WorkerInterrupt, Sending
  <2> QED
    BY <1>3, <2>1
<1>13. CASE WorkerCrash(w)
  BY <1>1, <1>3, <1>13 DEF WorkerCrash, netVars
<1>14. CASE WorkerExpireResp(w) \/ ExpireHbt(w)
  <2>1. /\ toMain' = toMain /\ worker'[w].sent = worker[w].sent
        /\ worker'[w].next = worker[w].next
        /\ worker'[w].thread = worker[w].thread
        /\ worker'[w].seg = worker[w].seg
    BY <1>1, <1>14 DEF WorkerExpireResp, ExpireHbt, netVars, Process
  <2> QED
    BY <1>4, <2>1
<1> QED
  BY <1>5, <1>6, <1>7, <1>8, <1>9, <1>10, <1>11, <1>12, <1>13, <1>14
     DEF WorkerStep

(* It leaves the other workers alone, takes what it takes from its own     *)
(* datagrams, and a process that has ended stays so.                       *)
LEMMA WorkerFrame ==
  ASSUME Inv, NEW w \in Workers, WorkerStep(w), NEW v \in Workers
  PROVE  /\ v # w => worker'[v] = worker[v] /\ toMain'[v] = toMain[v]
         /\ toWorker'[v] \subseteq toWorker[v]
         /\ worker[v].state = "Exited" => worker'[v].state = "Exited"
<1>1. /\ worker \in [Workers -> Process] /\ worker[w] \in Process
      /\ toMain \in [Workers -> SUBSET Message]
      /\ toWorker \in [Workers -> SUBSET Message]
  BY InvParts, InvHasRest DEF TypedRest
<1>2. /\ worker' = worker \/ \E p : worker' = [worker EXCEPT ![w] = p]
      /\ toMain' = toMain \/ \E m : toMain' = Sending(toMain, w, m)
      /\ toWorker' = toWorker \/ \E m : toWorker' = Receiving(toWorker, w, m)
  BY WorkerWrites
<1>5. worker[w].state = "Exited" => worker'[w].state = "Exited"
  <2>1. ASSUME worker[w].state = "Exited"
        PROVE  \/ WorkerHandleTimeout(w) \/ WorkerHandleHeartbeatTimeout(w)
               \/ HandleHeartbeat(w) \/ Count(w)
               \/ WorkerExpireResp(w) \/ ExpireHbt(w)
    BY <2>1 DEF WorkerStep, Start, WorkerHandleMessage, WorkerHandleMessageOf,
       SendResult, WorkerInterrupt, WorkerCrash, Alive
  <2>2. Ended.state = "Exited"
    BY DEF Ended, NotStarted
  <2>3. CASE WorkerHandleTimeout(w)
    BY <1>1, <2>2, <2>3 DEF WorkerHandleTimeout, Process
  <2>4. CASE WorkerHandleHeartbeatTimeout(w)
    BY <1>1, <2>2, <2>4 DEF WorkerHandleHeartbeatTimeout, Process
  <2>5. CASE HandleHeartbeat(w) \/ Count(w)
    BY <1>1, <2>5 DEF HandleHeartbeat, Count, Process
  <2>6. CASE WorkerExpireResp(w) \/ ExpireHbt(w)
    BY <1>1, <2>6 DEF WorkerExpireResp, ExpireHbt, Process
  <2> QED
    BY <2>1, <2>3, <2>4, <2>5, <2>6
<1> QED
  BY <1>1, <1>2, <1>5 DEF Sending, Receiving

-----------------------------------------------------------------------------
(* A worker and its only connection keep in step: the numbers of the       *)
(* datagrams between them tell which are history.                          *)
Results(w) == {m \in Outbox(w) : m.tag = "Result"}
Works(w)   == {m \in toWorker[w] : m.tag = "Work"}

(* Number n is one that the worker will not expect again.                  *)
Past(w, n) == worker[w].state = "Exited" \/ n < worker[w].next

(* Before there is a connection nothing has happened.                      *)
Unmet(w) ==
  /\ conn[w].state = "none" /\ worker[w].thread = "none"
  /\ Works(w) = {} /\ Results(w) = {}

(* While it stands by, all that is on the way is history.                  *)
Idle(w) ==
  /\ conn[w].sent.tag = "ACK"
  /\ worker[w].thread = "none"
  /\ \A m \in Results(w) : m.seq < conn[w].next
  /\ \A m \in Works(w) : m.seq < conn[w].next /\ Past(w, m.seq)

(* While it holds a subproblem, the one Work that is not history is the    *)
(* one it was sent, and a thread that runs, or else the Results that are   *)
(* not history, are about the segment of that Work.                        *)
Engaged(w) ==
  /\ conn[w].sent = Work(conn[w].sent.seq, conn[w].seg)
  /\ conn[w].sent.seq < conn[w].next
  /\ worker[w].thread # "none" => worker[w].seg = conn[w].seg
  /\ \A m \in Works(w) :
       \/ m = conn[w].sent
       \/ m.seq < conn[w].sent.seq /\ Past(w, m.seq)
  /\ \A m \in Results(w) :
       m.seq > conn[w].sent.seq =>
         /\ m.seg = conn[w].seg
         /\ worker[w].thread = "none"
         /\ \A r \in Results(w) : r.seq > conn[w].sent.seq => r.seq = m.seq

Lockstep(w) ==
  /\ \A m \in Results(w) : Past(w, m.seq)
  /\ opened[w] = 0 => Unmet(w)
  /\ conn[w].state = "standingBy" => Idle(w)
  /\ Busy(conn[w]) => Engaged(w)

InLockstep == \A w \in Workers : opened[w] <= 1 => Lockstep(w)

(* The types of what Lockstep is about.                                    *)
LEMMA LockstepTypes ==
  ASSUME Inv, NEW w \in Workers
  PROVE  /\ conn[w].next \in Nat /\ conn[w].sent \in Message
         /\ conn[w].sent.seq \in Nat /\ conn[w].state \in ConnectionState
         /\ worker[w].next \in Nat /\ opened[w] \in Nat
         /\ \A m \in Results(w) : m.seq \in Nat
         /\ \A m \in Works(w) : m.seq \in Nat
<1>1. conn[w] \in Connection /\ worker[w] \in Process /\ opened[w] \in Nat
  BY InvParts, InvHasRest DEF TypedRest
<1>2. conn[w].sent \in Message /\ worker[w].sent \in Message
  BY <1>1 DEF Connection, Process
<1>3. \A m \in Message : m.seq \in Nat
  BY DEF Message
<1>4. toMain[w] \subseteq Message /\ toWorker[w] \subseteq Message
  BY InvParts
<1>5. \A m \in Results(w) : m.seq \in Nat
  BY <1>2, <1>3, <1>4 DEF Results, Outbox
<1>6. \A m \in Works(w) : m.seq \in Nat
  BY <1>3, <1>4 DEF Works
<1>7. conn[w].next \in Nat /\ conn[w].state \in ConnectionState
      /\ worker[w].next \in Nat
  BY <1>1 DEF Connection, Process
<1> QED
  BY <1>1, <1>2, <1>3, <1>5, <1>6, <1>7

(* And after a step.                                                       *)
LEMMA LockstepTypesNext ==
  ASSUME Inv', NEW w \in Workers
  PROVE  /\ conn'[w] \in Connection /\ worker'[w] \in Process
         /\ worker'[w].next \in Nat /\ conn'[w].next \in Nat
         /\ conn'[w].state \in ConnectionState
BY DEF Inv, TypeOK, ServerTypeOK, ConnTypeOK, WorkerTypeOK, Connection, Process

(* A step of another process does not disturb it.                          *)
LEMMA LockstepFrame ==
  ASSUME Inv, Inv', NEW w \in Workers, Lockstep(w),
         UNCHANGED <<conn, opened>>, worker'[w] = worker[w],
         toMain'[w] \subseteq toMain[w], toWorker'[w] \subseteq toWorker[w]
  PROVE  Lockstep(w)'
<1>1. /\ Results(w)' \subseteq Results(w) /\ Works(w)' \subseteq Works(w)
      /\ conn'[w] = conn[w] /\ opened'[w] = opened[w]
      /\ \A n : Past(w, n)' <=> Past(w, n)
  BY DEF Results, Works, Outbox, Past
<1>2. \A m \in Results(w)' : Past(w, m.seq)'
  BY <1>1 DEF Lockstep
<1>3. Unmet(w) => Unmet(w)'
  BY <1>1 DEF Unmet
<1>4. Idle(w) => Idle(w)'
  BY <1>1 DEF Idle
<1>5. Engaged(w) => Engaged(w)'
  BY <1>1 DEF Engaged
<1>6. Busy(conn'[w]) <=> Busy(conn[w])
  BY <1>1
<1>7. /\ opened'[w] = 0 => Unmet(w)'
      /\ conn'[w].state = "standingBy" => Idle(w)'
      /\ Busy(conn'[w]) => Engaged(w)'
  BY <1>1, <1>3, <1>4, <1>5, <1>6 DEF Lockstep
<1> QED
  BY <1>2, <1>7 DEF Lockstep, Busy

(* What a process has left behind stays behind.                            *)
LEMMA PastStays ==
  ASSUME Inv, Inv', NEW w \in Workers, NEW n \in Nat, Past(w, n),
         worker[w].state = "Exited" => worker'[w].state = "Exited",
         worker'[w].state = "Exited" \/ worker'[w].next >= worker[w].next
  PROVE  Past(w, n)'
<1>1. worker[w].next \in Nat /\ worker'[w].next \in Nat
  BY LockstepTypes, LockstepTypesNext
<1> QED
  BY <1>1 DEF Past

(* How a connection that is left alone stays engaged.                      *)
LEMMA StaysEngaged ==
  ASSUME NEW w \in Workers, conn' = conn, Engaged(w),
         worker'[w].thread # "none" => worker'[w].seg = conn[w].seg,
         \A m \in Works(w)' :
           \/ m = conn[w].sent
           \/ m.seq < conn[w].sent.seq /\ Past(w, m.seq)',
         \A m \in Results(w)' :
           m.seq > conn[w].sent.seq =>
             /\ m.seg = conn[w].seg
             /\ worker'[w].thread = "none"
             /\ \A r \in Results(w)' : r.seq > conn[w].sent.seq => r.seq = m.seq
  PROVE  Engaged(w)'
<1>1. conn'[w] = conn[w]
  OBVIOUS
<1>2. /\ conn'[w].sent = Work(conn'[w].sent.seq, conn'[w].seg)
      /\ conn'[w].sent.seq < conn'[w].next
  BY <1>1 DEF Engaged
<1>3. \A m \in Works(w)' :
        \/ m = conn'[w].sent
        \/ m.seq < conn'[w].sent.seq /\ Past(w, m.seq)'
  BY <1>1
<1>4. \A m \in Results(w)' :
        m.seq > conn'[w].sent.seq =>
          /\ m.seg = conn'[w].seg
          /\ worker'[w].thread = "none"
          /\ \A r \in Results(w)' : r.seq > conn'[w].sent.seq => r.seq = m.seq
  BY <1>1
<1>5. worker'[w].thread # "none" => worker'[w].seg = conn'[w].seg
  BY <1>1
<1> QED
  BY <1>2, <1>3, <1>4, <1>5 DEF Engaged

(* The worker's own step keeps it in step.                                 *)
LEMMA WorkerKeepsStep ==
  ASSUME Inv, Inv', NEW w \in Workers, WorkerStep(w), UNCHANGED serverVars,
         Lockstep(w)
  PROVE  Lockstep(w)'
<1>1. /\ worker[w].next \in Nat /\ worker'[w].next \in Nat
      /\ conn[w].sent.seq \in Nat
      /\ \A m \in Results(w) : m.seq \in Nat
      /\ \A m \in Works(w) : m.seq \in Nat
  BY LockstepTypes, LockstepTypesNext
<1>2. /\ conn' = conn /\ opened' = opened
      /\ Works(w)' \subseteq Works(w)
      /\ worker[w].state = "Exited" => worker'[w].state = "Exited"
  BY WorkerFrame DEF serverVars, Works
<1>3. Idles(w) \/ Starts(w) \/ Reports(w)
  BY WorkerMoves
<1>4. worker'[w].state = "Exited" \/ worker'[w].next >= worker[w].next
  BY <1>1, <1>3 DEF Idles, Starts, Reports
<1>5. \A n \in Nat : Past(w, n) => Past(w, n)'
  BY <1>2, <1>4, PastStays
<1>6. ASSUME Results(w)' \subseteq Results(w),
             worker'[w].thread # "none" =>
               /\ worker[w].thread # "none"
               /\ Busy(conn[w]) => worker'[w].seg = conn[w].seg
      PROVE  Lockstep(w)'
  <2>1. \A m \in Results(w)' : Past(w, m.seq)'
    BY <1>1, <1>5, <1>6 DEF Lockstep
  <2>2. opened'[w] = 0 => Unmet(w)'
    BY <1>2, <1>6 DEF Lockstep, Unmet
  <2>3. conn'[w].state = "standingBy" => Idle(w)'
    <3>1. SUFFICES ASSUME conn[w].state = "standingBy"
                   PROVE  Idle(w)'
      BY <1>2
    <3>2. Idle(w)
      BY <3>1 DEF Lockstep
    <3>3. \A m \in Works(w)' : m.seq < conn[w].next /\ Past(w, m.seq)'
      BY <1>1, <1>2, <1>5, <3>2 DEF Idle
    <3> QED
      BY <1>2, <1>6, <3>1, <3>2, <3>3 DEF Idle
  <2>4. Busy(conn'[w]) => Engaged(w)'
    <3>1. SUFFICES ASSUME Busy(conn[w])
                   PROVE  Engaged(w)'
      BY <1>2
    <3>2. Engaged(w)
      BY <3>1 DEF Lockstep
    <3>3. \A m \in Works(w)' :
            \/ m = conn[w].sent
            \/ m.seq < conn[w].sent.seq /\ Past(w, m.seq)'
      BY <1>1, <1>2, <1>5, <3>2 DEF Engaged
    <3>4. \A m \in Results(w)' :
            m.seq > conn[w].sent.seq =>
              /\ m.seg = conn[w].seg
              /\ worker'[w].thread = "none"
              /\ \A r \in Results(w)' : r.seq > conn[w].sent.seq => r.seq = m.seq
      BY <1>6, <3>1, <3>2 DEF Engaged
    <3> QED
      BY <1>2, <1>6, <3>1, <3>2, <3>3, <3>4, StaysEngaged
  <2> QED
    BY <2>1, <2>2, <2>3, <2>4 DEF Lockstep, Busy
<1>7. CASE Idles(w)
  <2>1. Results(w)' \subseteq Results(w)
    <3>1. Numbered("Hello", 1).tag = "Hello"
      BY DEF Numbered
    <3> QED
      BY <1>7, <3>1 DEF Idles, Results
  <2>2. worker'[w].thread # "none" =>
          worker[w].thread # "none" /\ worker'[w].seg = worker[w].seg
    BY <1>7 DEF Idles
  <2>3. Busy(conn[w]) /\ worker[w].thread # "none" => worker[w].seg = conn[w].seg
    BY DEF Lockstep, Engaged
  <2> QED
    BY <1>6, <2>1, <2>2, <2>3
<1>8. CASE Starts(w)
  <2>1. Results(w)' \subseteq Results(w)
    BY <1>8 DEF Starts, Results
  <2>2. PICK m \in Works(w) : m.seq = worker[w].next /\ worker'[w].seg = m.seg
    BY <1>8 DEF Starts, Works
  <2>3. ~Past(w, m.seq)
    BY <1>1, <1>8, <2>2 DEF Starts, Past
  <2>4. opened[w] # 0 /\ conn[w].state # "standingBy"
    BY <2>2, <2>3 DEF Lockstep, Unmet, Idle
  <2>5. ASSUME Busy(conn[w])
        PROVE  /\ worker'[w].seg = conn[w].seg
               /\ \A r \in Results(w) : ~(r.seq > conn[w].sent.seq)
    <3>1. Engaged(w)
      BY <2>5 DEF Lockstep
    <3>2. m = conn[w].sent
      BY <2>2, <2>3, <3>1 DEF Engaged
    <3>3. m.seg = conn[w].seg
      <4>1. m = Work(conn[w].sent.seq, conn[w].seg)
        BY <3>1, <3>2 DEF Engaged
      <4> QED
        BY <4>1 DEF Work
    <3>4. ASSUME NEW r \in Results(w), r.seq > conn[w].sent.seq
          PROVE  FALSE
      <4>1. Past(w, r.seq) /\ r.seq \in Nat /\ m.seq \in Nat
        BY <1>1, <2>2 DEF Lockstep
      <4> QED
        BY <1>1, <1>8, <2>2, <3>2, <3>4, <4>1 DEF Starts, Past
    <3> QED
      BY <2>2, <3>3, <3>4
  <2>6. \A r \in Results(w)' : Past(w, r.seq)'
    BY <1>1, <1>5, <2>1 DEF Lockstep
  <2>7. ASSUME Busy(conn[w])
        PROVE  Engaged(w)'
    <3>1. Engaged(w)
      BY <2>7 DEF Lockstep
    <3>2. \A d \in Works(w)' :
            \/ d = conn[w].sent
            \/ d.seq < conn[w].sent.seq /\ Past(w, d.seq)'
      BY <1>1, <1>2, <1>5, <3>1 DEF Engaged
    <3>3. \A r \in Results(w)' : ~(r.seq > conn[w].sent.seq)
      BY <2>1, <2>5, <2>7
    <3> QED
      BY <1>2, <2>5, <2>7, <3>1, <3>2, <3>3, StaysEngaged
  <2> QED
    BY <1>2, <2>4, <2>6, <2>7 DEF Lockstep, Busy
<1>9. CASE Reports(w)
  <2> DEFINE p == worker[w]
  <2>1. PICK h \in HitCounts : \A m \in Outbox(w)' :
          m \in Outbox(w) \/ m = Result(p.next, p.seg, h)
    BY <1>9 DEF Reports
  <2>2. /\ p.thread # "none" /\ worker'[w].thread = "none"
        /\ worker'[w].next = p.next + 1
    BY <1>9 DEF Reports
  <2>3. \A m \in Results(w)' :
          \/ m \in Results(w)
          \/ m.seq = p.next /\ m.seg = p.seg
    BY <2>1 DEF Results, Result
  <2>4. \A m \in Results(w)' : Past(w, m.seq)'
    BY <1>1, <1>5, <2>2, <2>3 DEF Lockstep, Past
  <2>5. opened[w] # 0 /\ conn[w].state # "standingBy"
    BY <2>2 DEF Lockstep, Unmet, Idle
  <2>6. ASSUME Busy(conn[w])
        PROVE  Engaged(w)'
    <3>1. Engaged(w)
      BY <2>6 DEF Lockstep
    <3>2. /\ p.seg = conn[w].seg
          /\ \A m \in Results(w) : ~(m.seq > conn[w].sent.seq)
      BY <2>2, <3>1 DEF Engaged
    <3>3. \A d \in Works(w)' :
            \/ d = conn[w].sent
            \/ d.seq < conn[w].sent.seq /\ Past(w, d.seq)'
      BY <1>1, <1>2, <1>5, <3>1 DEF Engaged
    <3>4. \A m \in Results(w)' :
            m.seq > conn[w].sent.seq => m.seq = p.next /\ m.seg = conn[w].seg
      BY <2>3, <3>2
    <3> QED
      BY <1>2, <2>2, <3>1, <3>3, <3>4, StaysEngaged
  <2> QED
    BY <1>2, <2>4, <2>5, <2>6 DEF Lockstep, Busy
<1> QED
  BY <1>3, <1>7, <1>8, <1>9

(* So does a step of the server, as long as it opens no second connection. *)
LEMMA ServerKeepsStep ==
  ASSUME Inv, Inv', ServerTurns, NEW v \in Workers, opened'[v] <= 1,
         opened[v] <= 1 => Lockstep(v)
  PROVE  Lockstep(v)'
<1>1. /\ conn[v].next \in Nat /\ conn'[v].next \in Nat
      /\ conn[v].sent.seq \in Nat /\ opened[v] \in Nat
      /\ conn[v].state \in ConnectionState /\ conn'[v].state \in ConnectionState
      /\ worker[v].next \in Nat
      /\ \A m \in Results(v) : m.seq \in Nat
      /\ \A m \in Works(v) : m.seq \in Nat
  BY LockstepTypes, LockstepTypesNext
<1>2. /\ worker' = worker /\ Turn(v) /\ Speaks(v)
      /\ toMain'[v] \subseteq toMain[v]
  BY DEF ServerTurns, Proceeds
<1>3. opened[v] <= 1 /\ (opened'[v] = opened[v] \/ opened'[v] = opened[v] + 1)
  BY <1>1, <1>2 DEF Turn
<1>4. Lockstep(v)
  BY <1>3
<1>5. Results(v)' \subseteq Results(v)
  BY <1>2 DEF Results, Outbox
<1>6. /\ \A n : Past(v, n)' <=> Past(v, n)
      /\ \A m \in Results(v)' : Past(v, m.seq)'
  <2>1. \A n : Past(v, n)' <=> Past(v, n)
    BY <1>2 DEF Past
  <2> QED
    BY <1>4, <1>5, <2>1 DEF Lockstep
<1>7. \A m \in Works(v)' :
        \/ m \in Works(v)
        \/ conn[v].state # "none" /\ m = conn[v].sent
        \/ conn'[v].state # "none" /\ m = conn'[v].sent
  BY <1>2 DEF Speaks, Works
<1>8. \A m \in Works(v)' : m.tag = "Work"
  BY DEF Works
<1>9. CASE Stays(v) /\ opened'[v] = opened[v]
  <2>1. /\ conn'[v].sent = conn[v].sent /\ conn'[v].seg = conn[v].seg
        /\ conn'[v].next >= conn[v].next
        /\ Busy(conn'[v]) <=> Busy(conn[v])
        /\ conn'[v].state = "standingBy" <=> conn[v].state = "standingBy"
    BY <1>9 DEF Stays
  <2>2. opened'[v] = 0 => Unmet(v)'
    <3>1. SUFFICES ASSUME opened[v] = 0
                   PROVE  Unmet(v)'
      BY <1>9
    <3>2. Unmet(v)
      BY <1>4, <3>1 DEF Lockstep
    <3>3. conn'[v].state = "none"
      BY <1>1, <2>1, <3>2 DEF Unmet, Busy, ConnectionState
    <3>4. Works(v)' = {} /\ Results(v)' = {}
      BY <1>5, <1>7, <3>2, <3>3 DEF Unmet
    <3> QED
      BY <1>2, <3>2, <3>3, <3>4 DEF Unmet
  <2>3. conn'[v].state = "standingBy" => Idle(v)'
    <3>1. SUFFICES ASSUME conn[v].state = "standingBy"
                   PROVE  Idle(v)'
      BY <2>1
    <3>2. Idle(v)
      BY <1>4, <3>1 DEF Lockstep
    <3>3. \A m \in Works(v)' : m \in Works(v)
      BY <1>7, <1>8, <2>1, <3>2 DEF Idle
    <3>4. \A m \in Works(v)' : m.seq < conn'[v].next /\ Past(v, m.seq)'
      BY <1>1, <1>6, <2>1, <3>2, <3>3 DEF Idle
    <3>5. \A m \in Results(v)' : m.seq < conn'[v].next
      BY <1>1, <1>5, <2>1, <3>2 DEF Idle
    <3> QED
      BY <1>2, <2>1, <3>2, <3>4, <3>5 DEF Idle
  <2>4. Busy(conn'[v]) => Engaged(v)'
    <3>1. SUFFICES ASSUME Busy(conn[v])
                   PROVE  Engaged(v)'
      BY <2>1
    <3>2. Engaged(v)
      BY <1>4, <3>1 DEF Lockstep
    <3>3. \A m \in Works(v)' :
            \/ m = conn'[v].sent
            \/ m.seq < conn'[v].sent.seq /\ Past(v, m.seq)'
      BY <1>6, <1>7, <2>1, <3>2 DEF Engaged
    <3>4. \A m \in Results(v)' :
            m.seq > conn'[v].sent.seq =>
              /\ m.seg = conn'[v].seg
              /\ worker'[v].thread = "none"
              /\ \A r \in Results(v)' : r.seq > conn'[v].sent.seq => r.seq = m.seq
      BY <1>2, <1>5, <2>1, <3>2 DEF Engaged
    <3>5. /\ conn'[v].sent = Work(conn'[v].sent.seq, conn'[v].seg)
          /\ conn'[v].sent.seq < conn'[v].next
          /\ worker'[v].thread # "none" => worker'[v].seg = conn'[v].seg
      BY <1>1, <1>2, <2>1, <3>2 DEF Engaged
    <3> QED
      BY <3>3, <3>4, <3>5 DEF Engaged
  <2> QED
    BY <1>6, <2>2, <2>3, <2>4 DEF Lockstep, Busy
<1>10. CASE /\ conn[v].state # "none" /\ conn'[v].state = "none"
            /\ opened'[v] = opened[v]
  <2>1. opened'[v] # 0
    BY <1>4, <1>10 DEF Lockstep, Unmet
  <2> QED
    BY <1>6, <1>10, <2>1 DEF Lockstep, Busy
<1>11. ASSUME NEW k \in Nat, Served(v, k), opened'[v] # 0,
              worker[v].thread = "none",
              \A m \in Works(v)' :
                m = conn'[v].sent \/ (m.seq < k /\ Past(v, m.seq)),
              \A m \in Results(v) : m.seq < k
       PROVE  Lockstep(v)'
  <2>1. conn'[v].next = k + 1
    BY <1>11 DEF Served
  <2>2. conn'[v].state = "standingBy" => Idle(v)'
    <3>1. SUFFICES ASSUME conn'[v].state = "standingBy"
                   PROVE  Idle(v)'
      OBVIOUS
    <3>2. conn'[v].sent.tag = "ACK"
      BY <1>11, <3>1 DEF Served
    <3>3. \A m \in Works(v)' : m.seq < k /\ Past(v, m.seq)
      BY <1>8, <1>11, <3>2
    <3>4. \A m \in Works(v)' : m.seq \in Nat
      BY <1>7, <1>8, <1>11, <3>2, LockstepTypes DEF Works
    <3>5. \A m \in Works(v)' : m.seq < conn'[v].next /\ Past(v, m.seq)'
      BY <1>6, <2>1, <3>3, <3>4
    <3>6. \A m \in Results(v)' : m.seq < conn'[v].next
      BY <1>1, <1>5, <1>11, <2>1
    <3> QED
      BY <1>2, <1>11, <3>2, <3>5, <3>6 DEF Idle
  <2>3. Busy(conn'[v]) => Engaged(v)'
    <3>1. SUFFICES ASSUME Busy(conn'[v])
                   PROVE  Engaged(v)'
      OBVIOUS
    <3>2. conn'[v].sent = Work(k, conn'[v].seg)
      BY <1>11, <3>1 DEF Served, Busy
    <3>3. conn'[v].sent.seq = k
      BY <3>2 DEF Work
    <3>4. \A m \in Works(v)' :
            \/ m = conn'[v].sent
            \/ m.seq < conn'[v].sent.seq /\ Past(v, m.seq)'
      BY <1>6, <1>11, <3>3
    <3>5. \A m \in Results(v)' : ~(m.seq > conn'[v].sent.seq)
      BY <1>1, <1>5, <1>11, <3>3
    <3>6. /\ conn'[v].sent = Work(conn'[v].sent.seq, conn'[v].seg)
          /\ conn'[v].sent.seq < conn'[v].next
      BY <2>1, <3>2, <3>3
    <3> QED
      BY <1>2, <1>11, <3>4, <3>5, <3>6 DEF Engaged
  <2> QED
    BY <1>6, <1>11, <2>2, <2>3 DEF Lockstep, Busy
<1>12. CASE /\ conn[v].state = "none" /\ opened'[v] = opened[v] + 1
            /\ Served(v, 2)
  <2>1. opened[v] = 0 /\ opened'[v] = 1
    BY <1>1, <1>3, <1>12
  <2>2. Unmet(v)
    BY <1>4, <2>1 DEF Lockstep
  <2>3. \A m \in Works(v)' : m = conn'[v].sent
    BY <1>7, <1>12, <2>2 DEF Unmet
  <2> QED
    BY <1>11, <1>12, <2>1, <2>2, <2>3 DEF Unmet
<1>13. CASE /\ conn[v].state = "standingBy" /\ opened'[v] = opened[v]
            /\ Served(v, conn[v].next)
  <2>1. Idle(v) /\ opened'[v] # 0
    BY <1>4, <1>13 DEF Lockstep, Unmet
  <2>2. conn[v].sent.tag # "Work"
    BY <2>1 DEF Idle
  <2>3. \A m \in Works(v)' :
          m = conn'[v].sent \/ (m.seq < conn[v].next /\ Past(v, m.seq))
    BY <1>7, <1>8, <2>1, <2>2 DEF Idle
  <2> QED
    BY <1>1, <1>11, <1>13, <2>1, <2>3 DEF Idle
<1>14. ASSUME NEW m \in toMain[v], m.tag = "Result", m.seq >= conn[v].next,
              Busy(conn[v]), opened'[v] = opened[v], Served(v, m.seq + 1)
       PROVE  Lockstep(v)'
  <2>1. Engaged(v) /\ opened'[v] # 0
    BY <1>4, <1>14 DEF Lockstep, Unmet, Busy
  <2>2. m \in Results(v) /\ m.seq \in Nat /\ m.seq > conn[v].sent.seq
    <3>1. m \in Results(v)
      BY <1>14 DEF Results, Outbox
    <3> QED
      BY <1>1, <1>14, <2>1, <3>1 DEF Engaged
  <2>3. /\ worker[v].thread = "none"
        /\ \A r \in Results(v) : r.seq > conn[v].sent.seq => r.seq = m.seq
    BY <2>1, <2>2 DEF Engaged
  <2>4. \A r \in Results(v) : r.seq < m.seq + 1
    BY <1>1, <2>2, <2>3
  <2>5. Past(v, conn[v].sent.seq)
    <3>1. Past(v, m.seq)
      BY <1>4, <2>2 DEF Lockstep
    <3> QED
      BY <1>1, <2>2, <3>1 DEF Past
  <2>6. \A d \in Works(v) : d.seq < m.seq + 1 /\ Past(v, d.seq)
    BY <1>1, <2>1, <2>2, <2>5 DEF Engaged
  <2>7. \A d \in Works(v)' :
          d = conn'[v].sent \/ (d.seq < m.seq + 1 /\ Past(v, d.seq))
    BY <1>1, <1>7, <2>2, <2>5, <2>6
  <2> QED
    BY <1>11, <1>14, <2>1, <2>2, <2>3, <2>4, <2>7
<1> QED
  BY <1>2, <1>9, <1>10, <1>12, <1>13, <1>14 DEF Turn

(* Whatever step the program takes, worker and connection keep in step.    *)
LEMMA LockstepStep ==
  ASSUME Inv, InLockstep, [Next]_vars
  PROVE  InLockstep'
<1>1. Inv'
  BY InvStep
<1>2. SUFFICES ASSUME NEW v \in Workers, opened'[v] <= 1
               PROVE  Lockstep(v)'
  BY DEF InLockstep
<1>3. CASE ServerTurns
  BY <1>1, <1>2, <1>3, ServerKeepsStep DEF InLockstep
<1>4. ASSUME NEW w \in Workers, WorkerStep(w), UNCHANGED serverVars
      PROVE  Lockstep(v)'
  <2>1. conn' = conn /\ opened' = opened /\ Lockstep(v)
    BY <1>2, <1>4 DEF serverVars, InLockstep
  <2>2. CASE v = w
    BY <1>1, <1>4, <2>1, <2>2, WorkerKeepsStep
  <2>3. CASE v # w
    <3>1. /\ worker'[v] = worker[v] /\ toMain'[v] \subseteq toMain[v]
          /\ toWorker'[v] \subseteq toWorker[v]
      BY <1>4, <2>3, WorkerFrame
    <3> QED
      BY <1>1, <2>1, <3>1, LockstepFrame
  <2> QED
    BY <2>2, <2>3
<1> QED
  BY <1>3, <1>4, StepKinds

-----------------------------------------------------------------------------
(* While no SID connects twice, what is ASSIGNED is the subproblem of a    *)
(* connection, and the other way round.                                    *)
Owned(C, L) ==
  /\ \A w \in Workers :
       C[w].state = "awaitingResult" =>
         C[w].seg \in Segments /\ L[C[w].seg].state = "ASSIGNED"
  /\ \A s \in Segments :
       L[s].state = "ASSIGNED" => \E w \in Workers : Busy(C[w]) /\ C[w].seg = s

Accounted == ConnectedOnce => Owned(conn, ledger) /\ phase # "threwMarkSolved"

(* Handing out keeps it: what is handed out is ASSIGNED_PENDING.           *)
LEMMA GivesOwned ==
  ASSUME NEW C, NEW L, Owned(C, L), Gives(C, L)
  PROVE  Owned(conn', ledger')
<1>1. ASSUME NEW w \in Workers, conn'[w].state = "awaitingResult"
      PROVE  /\ conn'[w].seg \in Segments
             /\ ledger'[conn'[w].seg].state = "ASSIGNED"
  <2>1. Holding(C[w], conn'[w])
    BY <1>1 DEF Gives, Given
  <2>2. /\ conn'[w].seg = C[w].seg /\ C[w].seg \in Segments
        /\ L[C[w].seg].state = "ASSIGNED"
    BY <1>1, <2>1 DEF Holding, Owned
  <2> QED
    BY <2>2 DEF Gives, Unassigned
<1>2. ASSUME NEW s \in Segments, ledger'[s].state = "ASSIGNED"
      PROVE  \E w \in Workers : Busy(conn'[w]) /\ conn'[w].seg = s
  <2>1. ledger'[s] = L[s]
    BY <1>2 DEF Gives, Given
  <2>2. PICK w \in Workers : Busy(C[w]) /\ C[w].seg = s
    BY <1>2, <2>1 DEF Owned
  <2>3. Holding(C[w], conn'[w])
    BY <2>2 DEF Gives, Busy
  <2> QED
    BY <2>2, <2>3 DEF Holding, Busy
<1> QED
  BY <1>1, <1>2 DEF Owned

(* It depends on the states and the segments of the connections only.      *)
LEMMA HoldingOwned ==
  ASSUME Owned(conn, ledger), ledger' = ledger,
         \A w \in Workers : Holding(conn[w], conn'[w])
  PROVE  Owned(conn', ledger')
<1>1. \A w \in Workers : /\ conn'[w].state = conn[w].state
                         /\ conn'[w].seg = conn[w].seg
                         /\ Busy(conn'[w]) <=> Busy(conn[w])
  BY DEF Holding, Busy
<1> QED
  BY <1>1 DEF Owned

(* A connection that leaves gives back what it holds, and nothing else     *)
(* goes with it.                                                           *)
LEMMA GivenBackOwned ==
  ASSUME Inv, Owned(conn, ledger), NEW C, NEW D \in SUBSET Workers,
         \A w \in Workers : w \notin D => Holding(conn[w], C[w])
  PROVE  Owned(Without(C, D), GivenBack(D))
<1> DEFINE E == Without(C, D)
           L == GivenBack(D)
<1>1. \A w \in D : E[w].state = "none"
  BY DEF Without, NoConnection
<1>2. \A w \in Workers \ D : /\ E[w].state = conn[w].state
                             /\ E[w].seg = conn[w].seg
                             /\ Busy(E[w]) <=> Busy(conn[w])
  BY DEF Without, Holding, Busy
<1>3. ASSUME NEW s \in Segments, L[s] # ledger[s]
      PROVE  /\ ledger[s].assignedTo \in D
             /\ L[s].state = "UNASSIGNED"
  BY <1>3, GivenBackFacts
<1>4. ASSUME NEW s \in Segments, NEW w \in D, Busy(conn[w]), conn[w].seg = s
      PROVE  L[s].state # "ASSIGNED"
  <2>1. L[s] = IF ledger[s].state \in {"ASSIGNED_PENDING", "ASSIGNED"}
                 THEN [ledger[s] EXCEPT !.state = "UNASSIGNED",
                                        !.assignedTo = NoWorker]
                 ELSE ledger[s]
    BY <1>4 DEF GivenBack, Unassign
  <2>2. ledger[s] \in Subproblem
    BY InvParts
  <2> QED
    BY <2>1, <2>2 DEF Subproblem
<1> HIDE DEF E, L
<1>5. ASSUME NEW w \in Workers, E[w].state = "awaitingResult"
      PROVE  E[w].seg \in Segments /\ L[E[w].seg].state = "ASSIGNED"
  <2>1. w \notin D
    BY <1>1, <1>5
  <2>2. /\ E[w].seg = conn[w].seg /\ conn[w].state = "awaitingResult"
        /\ conn[w].seg \in Segments /\ ledger[conn[w].seg].state = "ASSIGNED"
    BY <1>2, <1>5, <2>1 DEF Owned
  <2>3. ledger[conn[w].seg].assignedTo = w
    BY <2>2, InvParts DEF Matches
  <2> QED
    BY <1>3, <2>1, <2>2, <2>3
<1>6. ASSUME NEW s \in Segments, L[s].state = "ASSIGNED"
      PROVE  \E w \in Workers : Busy(E[w]) /\ E[w].seg = s
  <2>1. ledger[s].state = "ASSIGNED"
    BY <1>3, <1>6
  <2>2. PICK w \in Workers : Busy(conn[w]) /\ conn[w].seg = s
    BY <2>1 DEF Owned
  <2>3. w \notin D
    BY <1>4, <1>6, <2>2
  <2> QED
    BY <1>2, <2>2, <2>3
<1> QED
  BY <1>5, <1>6 DEF Owned, E, L

(* So a handler that deletes connections keeps it.                         *)
LEMMA DeleteOwned ==
  ASSUME Inv, Owned(conn, ledger), NEW C \in [Workers -> Connection],
         NEW D \in SUBSET Workers, NEW T \in [Workers -> SUBSET Message],
         \A w \in Workers : Holding(conn[w], C[w]), Delete(C, D, T)
  PROVE  Owned(conn', ledger')
<1>1. CASE D = {} /\ conn' = C /\ toWorker' = T /\ UNCHANGED ledger
  BY <1>1, HoldingOwned
<1>2. CASE TryAssign(Without(C, D), GivenBack(D), T)
  <2>1. /\ Without(C, D) \in [Workers -> Connection]
        /\ GivenBack(D) \in [Segments -> Subproblem]
    BY DeletedMatches
  <2>2. Gives(Without(C, D), GivenBack(D))
    BY <1>2, <2>1, TryAssignGives
  <2>3. Owned(Without(C, D), GivenBack(D))
    BY GivenBackOwned
  <2> QED
    BY <2>2, <2>3, GivesOwned
<1> QED
  BY <1>1, <1>2 DEF Delete

(* sendSubproblem keeps it when the connection is done with its own        *)
(* subproblem and the ledger L differs in that one only.                   *)
LEMMA SendSubproblemOwned ==
  ASSUME Inv, Owned(conn, ledger), NEW w \in Workers, NEW c \in Connection,
         NEW L \in [Segments -> Subproblem], NEW early \in BOOLEAN,
         SendSubproblem(w, c, L, early),
         \A s \in Segments :
           IF Busy(conn[w]) /\ s = conn[w].seg THEN L[s].state = "SOLVED"
                                               ELSE L[s] = ledger[s]
  PROVE  Owned(conn', ledger')
<1> DEFINE C == Waiting(w, c)
<1>1. Unassigned(L) \subseteq Unassigned(ledger)
  BY DEF Unassigned
<1>2. TypeOK /\ WorkConserving
  BY DEF Inv
<1>3. Gives(C, L)
  BY <1>1, <1>2, SendSubproblemGives
<1>4. /\ C[w].state = "standingBy" /\ ~Busy(C[w])
      /\ \A v \in Workers \ {w} : C[v] = conn[v]
  BY InvParts DEF Waiting, Connection, Busy
<1> HIDE DEF C
<1>5. ASSUME NEW v \in Workers, C[v].state = "awaitingResult"
      PROVE  C[v].seg \in Segments /\ L[C[v].seg].state = "ASSIGNED"
  <2>1. v # w /\ C[v] = conn[v] /\ Busy(conn[v])
    BY <1>4, <1>5 DEF Busy
  <2>2. conn[v].seg \in Segments /\ ledger[conn[v].seg].state = "ASSIGNED"
    BY <1>5, <2>1 DEF Owned
  <2>3. ~(Busy(conn[w]) /\ conn[v].seg = conn[w].seg)
    BY <2>1, InvParts DEF Matches
  <2> QED
    BY <2>1, <2>2, <2>3
<1>6. ASSUME NEW s \in Segments, L[s].state = "ASSIGNED"
      PROVE  \E v \in Workers : Busy(C[v]) /\ C[v].seg = s
  <2>1. ~(Busy(conn[w]) /\ s = conn[w].seg) /\ L[s] = ledger[s]
    BY <1>6
  <2>2. PICK v \in Workers : Busy(conn[v]) /\ conn[v].seg = s
    BY <1>6, <2>1 DEF Owned
  <2>3. v # w
    BY <2>1, <2>2
  <2> QED
    BY <1>4, <2>2, <2>3
<1>7. Owned(C, L)
  BY <1>5, <1>6 DEF Owned
<1> QED
  BY <1>3, <1>7, GivesOwned

(* A Result that is accepted names the segment of its connection.          *)
LEMMA ResultIsOwn ==
  ASSUME Inv, InLockstep, NEW w \in Workers, opened[w] <= 1, Busy(conn[w]),
         NEW m \in toMain[w], m.tag = "Result", NEW n \in SequenceRead(m),
         n >= conn[w].next
  PROVE  m.seg = conn[w].seg
<1>1. n = m.seq /\ m \in Results(w)
  BY DEF SequenceRead, Results, Outbox
<1>2. Engaged(w)
  BY DEF InLockstep, Lockstep
<1>3. conn[w].sent.seq < conn[w].next /\ m.seq \in Nat
      /\ conn[w].sent.seq \in Nat /\ conn[w].next \in Nat
  BY <1>1, <1>2, LockstepTypes DEF Engaged
<1>4. m.seq > conn[w].sent.seq
  BY <1>1, <1>3
<1> QED
  BY <1>1, <1>2, <1>4 DEF Engaged

(* So its handling does not throw, and solves what the connection holds.   *)
LEMMA ResultOwned ==
  ASSUME Inv, InLockstep, Owned(conn, ledger), NEW w \in Workers,
         opened[w] <= 1, NEW m \in toMain[w], m \in Message,
         NEW n \in SequenceRead(m), n \in Nat,
         phase = "running", EarlyResult(w, m, n) \/ ResultReceived(w, m, n)
  PROVE  Owned(conn', ledger') /\ phase' # "threwMarkSolved"
<1> DEFINE s == conn[w].seg
           c == Received(conn[w], m, n)
<1>1. /\ Busy(conn[w]) /\ m.tag = "Result" /\ conn[w].next \in Nat
      /\ n >= conn[w].next
  <2>1. conn[w].next \in Nat
    BY LockstepTypes
  <2>2. /\ Busy(conn[w]) /\ m.tag = "Result"
        /\ n = conn[w].next \/ n = conn[w].next + 1
    BY DEF EarlyResult, ResultReceived, InWindow, Busy
  <2> QED
    BY <2>1, <2>2
<1>2. m.seg = s
  BY <1>1, ResultIsOwn
<1>3. /\ s \in Segments /\ c \in Connection
      /\ ledger \in [Segments -> Subproblem] /\ m.hits \in Nat
  <2>1. conn[w] \in Connection /\ s \in Segments
    BY <1>1, InvParts DEF Matches
  <2> QED
    BY <2>1, InvParts, ReceivedType, HitsAreNat
<1>4. ASSUME NEW A \in [Segments -> Subproblem], A[s].state = "ASSIGNED",
             \A t \in Segments \ {s} : A[t] = ledger[t], NEW early \in BOOLEAN,
             \/ /\ CanMarkSolved(A, m.seg)
                /\ SendSubproblem(w, c, MarkSolved(A, m.seg, m.hits), early)
                /\ UNCHANGED phase
             \/ ~CanMarkSolved(A, m.seg)
      PROVE  Owned(conn', ledger') /\ phase' # "threwMarkSolved"
  <2> DEFINE L == MarkSolved(A, s, m.hits)
  <2>1. CanMarkSolved(A, m.seg)
    BY <1>2, <1>3, <1>4 DEF CanMarkSolved
  <2>2. SendSubproblem(w, c, L, early) /\ UNCHANGED phase
    BY <1>2, <1>4, <2>1
  <2>3. /\ L \in [Segments -> Subproblem] /\ L[s].state = "SOLVED"
        /\ \A t \in Segments \ {s} : L[t] = A[t]
    BY <1>3, <1>4, MarkSolvedFacts
  <2> HIDE DEF L
  <2>4. \A t \in Segments :
          IF Busy(conn[w]) /\ t = conn[w].seg THEN L[t].state = "SOLVED"
                                              ELSE L[t] = ledger[t]
    BY <1>1, <1>4, <2>3
  <2> HIDE DEF c, s
  <2>5. Owned(conn', ledger')
    BY <1>3, <2>2, <2>3, <2>4, SendSubproblemOwned
  <2> QED
    BY <2>2, <2>5
<1>5. CASE EarlyResult(w, m, n)
  <2> DEFINE A == Assign(ledger, conn[w].seg, w)
  <2>1. /\ A \in [Segments -> Subproblem] /\ A[s].state = "ASSIGNED"
        /\ \A t \in Segments \ {s} : A[t] = ledger[t]
    BY <1>3, AssignFacts
  <2>2. \/ /\ CanMarkSolved(A, m.seg)
           /\ SendSubproblem(w, c, MarkSolved(A, m.seg, m.hits), TRUE)
           /\ UNCHANGED phase
        \/ ~CanMarkSolved(A, m.seg)
    BY <1>5 DEF EarlyResult
  <2> HIDE DEF A, c, s
  <2> QED
    BY <1>4, <2>1, <2>2
<1>6. CASE ResultReceived(w, m, n)
  <2>1. ledger[s].state = "ASSIGNED"
    BY <1>6 DEF ResultReceived, Owned
  <2>2. \/ /\ CanMarkSolved(ledger, m.seg)
           /\ SendSubproblem(w, c, MarkSolved(ledger, m.seg, m.hits), FALSE)
           /\ UNCHANGED phase
        \/ ~CanMarkSolved(ledger, m.seg)
    BY <1>6 DEF ResultReceived
  <2> HIDE DEF c, s
  <2> QED
    BY <1>3, <1>4, <2>1, <2>2
<1> QED
  BY <1>5, <1>6

(* Every datagram that is handled keeps the account.                       *)
LEMMA MessageOwned ==
  ASSUME Inv, InLockstep, Owned(conn, ledger), ConnectedOnce,
         NEW w \in Workers, HandleMessage(w)
  PROVE  Owned(conn', ledger') /\ phase' # "threwMarkSolved"
<1>1. PICK m \in toMain[w] : \E n \in SequenceRead(m) :
        m \in Message /\ n \in Nat /\ TakenByServer(w, m, n)
  BY HandleMessageFacts
<1>2. PICK n \in SequenceRead(m) :
        m \in Message /\ n \in Nat /\ TakenByServer(w, m, n)
  BY <1>1
<1>3. /\ conn \in [Workers -> Connection] /\ conn[w] \in Connection
      /\ toWorker \in [Workers -> SUBSET Message]
      /\ ledger \in [Segments -> Subproblem]
      /\ opened[w] <= 1 /\ phase = "running"
  BY InvParts, HandleMessageFacts DEF ConnectedOnce
<1>4. ASSUME NEW d, conn' = [conn EXCEPT ![w] = d], UNCHANGED <<ledger, phase>>,
             d.state = conn[w].state, d.seg = conn[w].seg
      PROVE  Owned(conn', ledger') /\ phase' # "threwMarkSolved"
  <2>1. \A v \in Workers : Holding(conn[v], conn'[v])
    BY <1>3, <1>4 DEF Holding
  <2> QED
    BY <1>3, <1>4, <2>1, HoldingOwned
<1>5. CASE AwaitingHello(w, m, n)
  <2> DEFINE c == Received(NoConnection, m, n)
  <2>1. /\ c \in Connection /\ SendSubproblem(w, c, ledger, FALSE)
        /\ ~Busy(conn[w]) /\ phase' = phase
    BY <1>2, <1>5, NoConnectionType, ReceivedType DEF AwaitingHello, Busy
  <2> HIDE DEF c
  <2> QED
    BY <1>3, <2>1, SendSubproblemOwned
<1>6. CASE WorkerInterrupted(w, m, n)
  <2> DEFINE D == {w}
  <2>1. /\ D \in SUBSET Workers /\ Delete(conn, D, toWorker) /\ phase' = phase
        /\ \A v \in Workers : Holding(conn[v], conn[v])
    BY <1>6 DEF WorkerInterrupted, Holding
  <2> HIDE DEF D
  <2> QED
    BY <1>3, <2>1, DeleteOwned
<1>7. CASE WorkAcknowledged(w, m, n)
  <2> DEFINE s == conn[w].seg
             d == [Unwatched(Received(conn[w], m, n)) EXCEPT
                     !.state = "awaitingResult", !.hb = TRUE]
  <2>1. /\ conn[w].state = "awaitingWorkACK" /\ phase' = phase
        /\ ledger' = Assign(ledger, s, w)
        /\ conn' = [conn EXCEPT ![w] = d]
    BY <1>7 DEF WorkAcknowledged
  <2>2. d.state = "awaitingResult" /\ d.seg = s
    <3>1. Received(conn[w], m, n) \in Connection
          /\ Received(conn[w], m, n).seg = s
      BY <1>2, <1>3, ReceivedType
    <3>2. Unwatched(Received(conn[w], m, n)) \in Connection
          /\ Unwatched(Received(conn[w], m, n)).seg = s
      BY <3>1, UnwatchedType
    <3> QED
      BY <3>2 DEF Connection
  <2>3. s \in Segments
    BY <2>1, PendingIsOwn
  <2>4. /\ ledger'[s].state = "ASSIGNED"
        /\ \A t \in Segments \ {s} : ledger'[t] = ledger[t]
    BY <1>3, <2>1, <2>3, AssignFacts
  <2> HIDE DEF d
  <2>5. conn'[w] = d /\ \A v \in Workers \ {w} : conn'[v] = conn[v]
    BY <1>3, <2>1
  <2>6. ASSUME NEW v \in Workers, conn'[v].state = "awaitingResult"
        PROVE  conn'[v].seg \in Segments /\ ledger'[conn'[v].seg].state = "ASSIGNED"
    <3>1. CASE v = w
      BY <2>2, <2>3, <2>4, <2>5, <3>1
    <3>2. CASE v # w
      <4>1. /\ conn[v].seg \in Segments /\ ledger[conn[v].seg].state = "ASSIGNED"
            /\ conn'[v] = conn[v]
        BY <2>5, <2>6, <3>2 DEF Owned
      <4> QED
        BY <2>4, <4>1
    <3> QED
      BY <3>1, <3>2
  <2>7. ASSUME NEW t \in Segments, ledger'[t].state = "ASSIGNED"
        PROVE  \E v \in Workers : Busy(conn'[v]) /\ conn'[v].seg = t
    <3>1. CASE t = s
      BY <2>2, <2>5, <3>1 DEF Busy
    <3>2. CASE t # s
      <4>1. PICK v \in Workers : Busy(conn[v]) /\ conn[v].seg = t
        BY <2>4, <2>7, <3>2 DEF Owned
      <4> QED
        BY <2>5, <3>2, <4>1
    <3> QED
      BY <3>1, <3>2
  <2> QED
    BY <1>3, <2>1, <2>6, <2>7 DEF Owned
<1>8. CASE EarlyResult(w, m, n) \/ ResultReceived(w, m, n)
  BY <1>2, <1>3, <1>8, ResultOwned
<1>9. CASE Resend(w, m, n)
  <2>1. /\ Resent(conn[w]).state = conn[w].state
        /\ Resent(conn[w]).seg = conn[w].seg
    BY <1>3 DEF Resent, Connection
  <2>2. /\ conn' = [conn EXCEPT ![w] = Resent(conn[w])]
        /\ UNCHANGED <<ledger, phase>>
    BY <1>9 DEF Resend
  <2> QED
    BY <1>4, <2>1, <2>2
<1>10. CASE OtherAccepted(w, m, n)
  <2> DEFINE c == Received(conn[w], m, n)
  <2>1. c \in Connection /\ c.state = conn[w].state /\ c.seg = conn[w].seg
    BY <1>2, <1>3, ReceivedType
  <2>2. /\ conn' = [conn EXCEPT ![w] = Unwatched(c)]
        /\ UNCHANGED <<ledger, phase>>
    BY <1>10 DEF OtherAccepted
  <2> HIDE DEF c
  <2> QED
    BY <1>4, <2>1, <2>2, UnwatchedType
<1>11. CASE Unexpected(w, m, n)
  <2> DEFINE d == [conn[w] EXCEPT !.repeat = MaxRepeats]
  <2>1. d.state = conn[w].state /\ d.seg = conn[w].seg
    BY <1>3 DEF Connection
  <2>2. conn' = [conn EXCEPT ![w] = d] /\ UNCHANGED <<ledger, phase>>
    BY <1>11 DEF Unexpected
  <2> HIDE DEF d
  <2> QED
    BY <1>4, <2>1, <2>2
<1>12. CASE \/ HeartbeatAnswered(w, m, n) \/ StandingBy(w, m, n)
            \/ Ignored(w, m, n)
  BY <1>3, <1>12 DEF HeartbeatAnswered, StandingBy, Ignored, serverVars
<1> QED
  BY <1>2, <1>5, <1>6, <1>7, <1>8, <1>9, <1>10, <1>11, <1>12
     DEF TakenByServer

(* Every step of the program keeps the account.                            *)
LEMMA AccountedStep ==
  ASSUME Inv, InLockstep, Accounted, [Next]_vars
  PROVE  Accounted'
<1>1. SUFFICES ASSUME \A v \in Workers : opened'[v] <= 1
               PROVE  Owned(conn', ledger') /\ phase' # "threwMarkSolved"
  BY DEF Accounted, ConnectedOnce, Owned, Busy
<1>2. ConnectedOnce
  <2>1. ASSUME NEW v \in Workers
        PROVE  opened'[v] >= opened[v] /\ opened[v] \in Nat
    <3>1. opened[v] \in Nat
      BY LockstepTypes
    <3>2. CASE ServerTurns
      BY <3>1, <3>2 DEF ServerTurns, Proceeds, Turn
    <3>3. CASE UNCHANGED serverVars
      BY <3>1, <3>3 DEF serverVars
    <3> QED
      BY <3>1, <3>2, <3>3, StepKinds
  <2>2. ASSUME NEW v \in Workers
        PROVE  opened[v] <= 1
    <3>1. \/ opened'[v] = opened[v] \/ opened'[v] = opened[v] + 1
      BY StepKinds DEF ServerTurns, Proceeds, Turn, serverVars
    <3> QED
      BY <1>1, <2>1, <3>1
  <2> QED
    BY <2>2 DEF ConnectedOnce
<1>3. Owned(conn, ledger) /\ phase # "threwMarkSolved"
  BY <1>2 DEF Accounted
<1>4. ASSUME NEW w \in Workers, HandleMessage(w)
      PROVE  Owned(conn', ledger') /\ phase' # "threwMarkSolved"
  BY <1>2, <1>3, <1>4, MessageOwned
<1>5. ASSUME NEW w \in Workers, HandleTimeout(w)
      PROVE  Owned(conn', ledger') /\ phase' # "threwMarkSolved"
  <2>1. /\ Delete(Warned, Lost, Reminders) /\ Lost \in SUBSET Workers
        /\ Warned \in [Workers -> Connection] /\ phase' = phase
        /\ Reminders \in [Workers -> SUBSET Message]
    BY <1>5, HandleTimeoutFacts
  <2>2. \A v \in Workers : Holding(conn[v], Warned[v])
    BY InvParts DEF Holding, Warned, TimedOut, Connection
  <2> QED
    BY <1>3, <2>1, <2>2, DeleteOwned
<1>6. ASSUME NEW w \in Workers, HandleHeartbeatTimeout(w)
      PROVE  Owned(conn', ledger') /\ phase' # "threwMarkSolved"
  <2>1. /\ Delete(conn, Silent, toWorker) /\ Silent \in SUBSET Workers
        /\ phase' = phase
    BY <1>6, HandleHeartbeatTimeoutFacts
  <2>2. /\ conn \in [Workers -> Connection]
        /\ toWorker \in [Workers -> SUBSET Message]
        /\ \A v \in Workers : Holding(conn[v], conn[v])
    BY InvParts DEF Holding
  <2> QED
    BY <1>3, <2>1, <2>2, DeleteOwned
<1>7. CASE HandleInterrupt
  <2>1. /\ conn' = Without(conn, Pool) /\ ledger' = GivenBack(Pool)
        /\ phase' = "interrupted" /\ Pool \in SUBSET Workers
    BY <1>7 DEF HandleInterrupt, Pool
  <2>2. \A v \in Workers : Holding(conn[v], conn[v])
    BY DEF Holding
  <2> QED
    BY <1>3, <2>1, <2>2, GivenBackOwned
<1>8. CASE Finish
  BY <1>3, <1>8 DEF Finish
<1>9. ASSUME NEW w \in Workers, ExpireResp(w) \/ ExpireHb(w)
      PROVE  Owned(conn', ledger') /\ phase' # "threwMarkSolved"
  <2>1. \A v \in Workers : Holding(conn[v], conn'[v])
    BY <1>9, InvParts DEF ExpireResp, ExpireHb, Holding, Connection
  <2>2. UNCHANGED <<ledger, phase>>
    BY <1>9 DEF ExpireResp, ExpireHb
  <2> QED
    BY <1>3, <2>1, <2>2, HoldingOwned
<1>10. CASE UNCHANGED serverVars
  BY <1>3, <1>10 DEF serverVars
<1> QED
  BY <1>4, <1>5, <1>6, <1>7, <1>8, <1>9, <1>10
     DEF Next, vars, ServerStep, ServerTimer

(* As long as no SID connects twice, a worker computes the segment that    *)
(* its connection holds, nothing is ASSIGNED for ever, and markSolved()    *)
(* does not throw, whatever is lost, repeated or reordered.                *)
THEOREM SegmentsAgree == Spec => []SegmentAgreement
<1> DEFINE Agreed == InLockstep /\ Accounted
<1>1. Init => Agreed
  <2>1. SUFFICES ASSUME Init
                 PROVE  Agreed
    OBVIOUS
  <2>2. ASSUME NEW w \in Workers
        PROVE  Lockstep(w)
    <3>1. /\ conn[w].state = "none" /\ worker[w].thread = "none"
          /\ worker[w].sent.tag = "Invalid"
          /\ toMain[w] = {} /\ toWorker[w] = {}
      BY <2>1 DEF Init, ServerInit, ConnInit, NoConnection, WorkerInit,
         NotStarted, InvalidMessage, NetworkInit
    <3> QED
      BY <3>1 DEF Lockstep, Unmet, Works, Results, Outbox, Busy
  <2>3. Owned(conn, ledger) /\ phase # "threwMarkSolved"
    BY <2>1 DEF Init, ServerInit, LedgerInit, ConnInit, NoConnection, Owned
  <2> QED
    BY <2>2, <2>3 DEF InLockstep, Accounted
<1>2. Inv /\ Agreed /\ [Next]_vars => Agreed'
  BY LockstepStep, AccountedStep
<1>3. Inv /\ Agreed => SegmentAgreement
  <2>1. SUFFICES ASSUME Inv, Agreed
                 PROVE  SegmentAgreement
    OBVIOUS
  <2>2. ASSUME NEW w \in Workers, opened[w] <= 1,
               worker[w].thread # "none", Busy(conn[w])
        PROVE  worker[w].seg = conn[w].seg
    BY <2>1, <2>2 DEF InLockstep, Lockstep, Engaged
  <2>3. ASSUME ConnectedOnce
        PROVE  /\ \A s \in Segments :
                    ledger[s].state = "ASSIGNED" => \E w \in Workers : Holds(w, s)
               /\ phase # "threwMarkSolved"
    BY <2>1, <2>3 DEF Accounted, Owned, Holds
  <2> QED
    BY <2>2, <2>3 DEF SegmentAgreement
<1> QED
  BY <1>1, <1>2, <1>3, Invariance, PTL DEF Spec

-----------------------------------------------------------------------------
(* One connection in one step: it is watched afterwards, or it is the one  *)
(* exception, or it was unwatched and nothing happened to it.              *)
Minded(w) ==
  \/ Noticed(w)'
  \/ UnsetAtEnd(w)
  \/ ~Noticed(w) /\ OnlyRefilled(w)

(* Nothing happens to a connection that stays as it is.                    *)
LEMMA UntouchedMinds ==
  ASSUME Inv, NEW w \in Workers, conn'[w] = conn[w], UNCHANGED <<sigResp, sigHb>>
  PROVE  Minded(w)
<1>1. CASE Noticed(w)
  BY <1>1 DEF Minded, Noticed
<1>2. CASE ~Noticed(w)
  <2>1. conn[w] \in Connection
    BY InvParts
  <2>2. conn[w].repeat \in conn[w].repeat..MaxRepeats
    BY <2>1, RepeatsAssumption DEF Connection
  <2>3. conn'[w] = [conn[w] EXCEPT !.repeat = conn[w].repeat]
    BY <2>1 DEF Connection
  <2>4. OnlyRefilled(w)
    BY <2>2, <2>3, Zenon DEF OnlyRefilled
  <2> QED
    BY <1>2, <2>4 DEF Minded
<1> QED
  BY <1>1, <1>2

(* A connection that is served is watched, unless the timer is unset after *)
(* the serving: then it may hold Work nobody watches.                      *)
LEMMA SendSubproblemWatches ==
  ASSUME Inv, NEW w \in Workers, NEW c \in Connection, NEW L, NEW early \in BOOLEAN,
         SendSubproblem(w, c, L, early)
  PROVE  \/ Noticed(w)'
         \/ /\ early
            /\ conn'[w].state = "awaitingWorkACK"
            /\ conn'[w].recvTag = c.recvTag /\ conn'[w].recvSeq = c.recvSeq
<1>1. PICK d \in {StandBy(c)} \union {WithWork(c, s) : s \in Segments} :
        conn'[w] = IF early THEN Unwatched(d) ELSE d
  BY SendSubproblemFacts
<1>2. CASE d = StandBy(c)
  <2>1. d \in Connection /\ d.hb
    BY <1>2, StandByType, StandByFacts
  <2>2. conn'[w].hb
    BY <1>1, <2>1, UnwatchedFacts
  <2> QED
    BY <2>2 DEF Noticed
<1>3. ASSUME NEW s \in Segments, d = WithWork(c, s)
      PROVE  \/ conn'[w].resp
             \/ /\ early
                /\ conn'[w].state = "awaitingWorkACK"
                /\ conn'[w].recvTag = c.recvTag /\ conn'[w].recvSeq = c.recvSeq
  <2>1. /\ d \in Connection /\ d.state = "awaitingWorkACK" /\ d.resp
    BY <1>3, WithWorkType, WithWorkFacts
  <2>2. d.recvTag = c.recvTag /\ d.recvSeq = c.recvSeq
    BY <1>3, WithWorkFacts
  <2>3. CASE early
    <3>1. conn'[w] = Unwatched(d)
      BY <1>1, <2>3
    <3> QED
      BY <2>1, <2>2, <2>3, <3>1 DEF Unwatched, Connection
  <2>4. CASE ~early
    BY <1>1, <2>1, <2>4
  <2> QED
    BY <2>3, <2>4
<1> QED
  BY <1>2, <1>3 DEF Noticed

(* The connections that a deletion leaves are as they were, or watched.    *)
LEMMA DeleteWatches ==
  ASSUME Inv, NEW C \in [Workers -> Connection], NEW D \in SUBSET Workers, NEW T,
         Delete(C, D, T), NEW v \in Workers, conn'[v].state # "none"
  PROVE  \/ conn'[v] = C[v] /\ v \notin D
         \/ Noticed(v)'
<1>1. \/ v \in D /\ conn'[v] = NoConnection
      \/ v \notin D /\ conn'[v] = C[v]
      \/ Employs(C[v], v, T[v])
  BY DeleteFacts
<1>2. ASSUME Employs(C[v], v, T[v])
      PROVE  Noticed(v)'
  <2>1. PICK s \in Segments : conn'[v] = WithWork(C[v], s)
    BY <1>2 DEF Employs
  <2>2. C[v] \in Connection
    OBVIOUS
  <2>3. WithWork(C[v], s).resp
    BY <2>2, WithWorkFacts
  <2> QED
    BY <2>1, <2>3 DEF Noticed
<1> QED
  BY <1>1, <1>2 DEF NoConnection

(* The handling of a datagram leaves everybody minded.                     *)
LEMMA MessageMinds ==
  ASSUME Inv, NEW w \in Workers, HandleMessage(w),
         NEW v \in Workers, conn'[v].state # "none"
  PROVE  Minded(v)
<1>1. PICK m \in toMain[w] : \E n \in SequenceRead(m) :
        m \in Message /\ n \in Nat /\ TakenByServer(w, m, n)
  BY HandleMessageFacts
<1>2. PICK n \in SequenceRead(m) :
        m \in Message /\ n \in Nat /\ TakenByServer(w, m, n)
  BY <1>1
<1>3. /\ conn \in [Workers -> Connection] /\ conn[w] \in Connection
      /\ toWorker \in [Workers -> SUBSET Message]
      /\ conn[w].next \in Nat
  BY InvParts DEF Connection
<1>4. ASSUME conn'[v] = conn[v], UNCHANGED <<sigResp, sigHb>>
      PROVE  Minded(v)
  BY <1>4, UntouchedMinds
<1> DEFINE c == Received(conn[w], m, n)
<1>5. /\ c \in Connection /\ c.state = conn[w].state
      /\ c.recvTag = m.tag /\ c.recvSeq = n
  <2>1. c \in Connection /\ c.state = conn[w].state /\ c.recvTag = m.tag
    BY <1>2, <1>3, ReceivedType, ReceivedFacts
  <2>2. c.recvSeq = n
    BY <1>3 DEF Received, Connection
  <2> QED
    BY <2>1, <2>2
<1>6. ASSUME conn[w].state = "awaitingWorkACK", InWindow(conn[w], n)
      PROVE  n >= conn[w].next
  <2>1. n = conn[w].next \/ n = conn[w].next + 1
    BY <1>6 DEF InWindow
  <2> QED
    BY <1>3, <2>1
<1> HIDE DEF c
<1>7. CASE WorkerInterrupted(w, m, n)
  <2> DEFINE D == {w}
  <2>1. /\ D \in SUBSET Workers /\ Delete(conn, D, toWorker)
        /\ UNCHANGED <<sigResp, sigHb>>
    BY <1>7 DEF WorkerInterrupted
  <2> HIDE DEF D
  <2>2. conn'[v] = conn[v] \/ Noticed(v)'
    BY <1>3, <2>1, DeleteWatches
  <2> QED
    BY <1>4, <2>1, <2>2 DEF Minded
<1>8. CASE ~WorkerInterrupted(w, m, n) /\ v # w
  <2>1. /\ UNCHANGED <<sigResp, sigHb>>
        /\ \/ conn' = conn
           \/ \E d : conn' = [conn EXCEPT ![w] = d]
    BY <1>2, <1>8 DEF TakenByServer, AwaitingHello, HeartbeatAnswered, Resend,
       WorkAcknowledged, EarlyResult, OtherAccepted, ResultReceived, Unexpected,
       StandingBy, Ignored, SendSubproblem, Sends, serverVars
  <2> QED
    BY <1>3, <1>4, <1>8, <2>1
<1>9. CASE ~WorkerInterrupted(w, m, n) /\ v = w
  <2>1. CASE AwaitingHello(w, m, n)
    <3>1. Received(NoConnection, m, n) \in Connection
          /\ SendSubproblem(w, Received(NoConnection, m, n), ledger, FALSE)
      BY <1>2, <2>1, NoConnectionType, ReceivedType DEF AwaitingHello
    <3>2. Noticed(w)'
      BY <3>1, SendSubproblemWatches
    <3> QED
      BY <1>9, <3>2 DEF Minded
  <2>2. CASE EarlyResult(w, m, n)
    <3>1. CASE UNCHANGED conn
      BY <1>4, <2>2, <3>1 DEF EarlyResult
    <3>2. ASSUME NEW L, SendSubproblem(w, c, L, TRUE)
          PROVE  Minded(v)
      <4>1. \/ Noticed(w)'
            \/ /\ conn'[w].state = "awaitingWorkACK"
               /\ conn'[w].recvTag = m.tag /\ conn'[w].recvSeq = n
        BY <1>5, <3>2, SendSubproblemWatches
      <4>2. m.tag = "Result" /\ conn[w].state = "awaitingWorkACK" /\ n >= conn[w].next
        BY <1>6, <2>2 DEF EarlyResult
      <4> QED
        BY <1>9, <4>1, <4>2 DEF Minded, UnsetAtEnd
    <3> QED
      BY <2>2, <3>1, <3>2 DEF EarlyResult, c
  <2>3. CASE ResultReceived(w, m, n)
    <3>1. CASE UNCHANGED conn
      BY <1>4, <2>3, <3>1 DEF ResultReceived
    <3>2. ASSUME NEW L, SendSubproblem(w, c, L, FALSE)
          PROVE  Minded(v)
      <4>1. Noticed(w)'
        BY <1>5, <3>2, SendSubproblemWatches
      <4> QED
        BY <1>9, <4>1 DEF Minded
    <3> QED
      BY <2>3, <3>1, <3>2 DEF ResultReceived, c
  <2>4. CASE WorkAcknowledged(w, m, n)
    <3>1. Unwatched(c) \in Connection
      BY <1>5, UnwatchedType
    <3>2. conn'[w] = [Unwatched(c) EXCEPT !.state = "awaitingResult", !.hb = TRUE]
      BY <1>3, <2>4 DEF WorkAcknowledged, c
    <3>3. conn'[w].hb
      BY <3>1, <3>2 DEF Connection
    <3> QED
      BY <1>9, <3>3 DEF Minded, Noticed
  <2>5. CASE OtherAccepted(w, m, n)
    <3>1. /\ m.tag # "ACK" /\ conn[w].state = "awaitingWorkACK"
          /\ conn'[w] = Unwatched(c) /\ n >= conn[w].next
      BY <1>3, <1>6, <2>5 DEF OtherAccepted, c
    <3>2. /\ Unwatched(c).state = c.state /\ Unwatched(c).recvTag = c.recvTag
          /\ Unwatched(c).recvSeq = c.recvSeq
      BY <1>5 DEF Unwatched, Connection
    <3> QED
      BY <1>5, <1>9, <3>1, <3>2 DEF Minded, UnsetAtEnd
  <2>6. CASE Resend(w, m, n)
    <3>1. conn'[w] = Resent(conn[w]) /\ UNCHANGED <<sigResp, sigHb>>
      BY <1>3, <2>6 DEF Resend
    <3>2. Resent(conn[w]).resp \/ Resent(conn[w]) = conn[w]
      BY <1>3 DEF Resent, Connection
    <3> QED
      BY <1>4, <1>9, <3>1, <3>2 DEF Minded, Noticed
  <2>7. CASE Unexpected(w, m, n)
    <3>1. /\ conn'[w] = [conn[w] EXCEPT !.repeat = MaxRepeats]
          /\ UNCHANGED <<sigResp, sigHb>>
      BY <1>3, <2>7 DEF Unexpected
    <3>2. MaxRepeats \in conn[w].repeat..MaxRepeats
      BY <1>3, RepeatsAssumption DEF Connection
    <3>3. conn'[w].resp = conn[w].resp /\ conn'[w].hb = conn[w].hb
      BY <1>3, <3>1 DEF Connection
    <3>4. Noticed(w)' \/ ~Noticed(w)
      BY <3>1, <3>3 DEF Noticed
    <3> QED
      BY <1>9, <3>1, <3>2, <3>4 DEF Minded, OnlyRefilled
  <2>8. CASE \/ HeartbeatAnswered(w, m, n) \/ StandingBy(w, m, n)
             \/ Ignored(w, m, n)
    BY <1>4, <2>8 DEF HeartbeatAnswered, StandingBy, Ignored, serverVars
  <2> QED
    BY <1>2, <1>9, <2>1, <2>2, <2>3, <2>4, <2>5, <2>6, <2>7, <2>8 DEF TakenByServer
<1> QED
  BY <1>7, <1>8, <1>9

(* So do the timers, the signals and the end.                              *)
LEMMA StepMinds ==
  ASSUME Inv, [Next]_vars, phase' = "running",
         NEW v \in Workers, conn'[v].state # "none"
  PROVE  Minded(v)
<1>1. ASSUME NEW w \in Workers, HandleMessage(w)
      PROVE  Minded(v)
  BY <1>1, MessageMinds
<1>2. ASSUME NEW w \in Workers, HandleTimeout(w)
      PROVE  Minded(v)
  <2>1. /\ Delete(Warned, Lost, Reminders) /\ Lost \in SUBSET Workers
        /\ Warned \in [Workers -> Connection]
    BY <1>2, HandleTimeoutFacts
  <2>2. \/ conn'[v] = Warned[v] /\ v \notin Lost
        \/ Noticed(v)'
    BY <2>1, DeleteWatches
  <2>3. ASSUME conn'[v] = Warned[v], v \notin Lost
        PROVE  conn'[v].resp
    <3>1. conn[v] \in Connection
      BY InvParts
    <3>2. CASE v \in Late
      BY <2>3, <3>1, <3>2 DEF Warned, TimedOut, Connection
    <3>3. CASE v \notin Late
      BY <2>3, <3>1, <3>3 DEF Warned, Late, Pool
    <3> QED
      BY <3>2, <3>3
  <2> QED
    BY <2>2, <2>3 DEF Minded, Noticed
<1>3. ASSUME NEW w \in Workers, HandleHeartbeatTimeout(w)
      PROVE  Minded(v)
  <2>1. /\ Delete(conn, Silent, toWorker) /\ Silent \in SUBSET Workers
        /\ conn \in [Workers -> Connection]
    BY <1>3, HandleHeartbeatTimeoutFacts, InvParts
  <2>2. \/ conn'[v] = conn[v] /\ v \notin Silent
        \/ Noticed(v)'
    BY <2>1, DeleteWatches
  <2>3. ASSUME conn'[v] = conn[v], v \notin Silent
        PROVE  conn'[v].hb
    BY <2>3 DEF Silent, Pool
  <2> QED
    BY <2>2, <2>3 DEF Minded, Noticed
<1>4. ASSUME NEW w \in Workers, ExpireResp(w) \/ ExpireHb(w)
      PROVE  Minded(v)
  <2>1. CASE v = w
    BY <1>4, <2>1 DEF ExpireResp, ExpireHb, Minded, Noticed
  <2>2. CASE v # w
    <3>1. /\ conn'[v] = conn[v]
          /\ sigResp \subseteq sigResp' /\ sigHb \subseteq sigHb'
          /\ sigResp' \subseteq sigResp \union {w}
          /\ sigHb' \subseteq sigHb \union {w}
      BY <1>4, <2>2, InvParts DEF ExpireResp, ExpireHb
    <3>2. CASE Noticed(v)
      BY <3>1, <3>2 DEF Minded, Noticed
    <3>3. CASE ~Noticed(v)
      <4>1. conn[v] \in Connection
        BY InvParts
      <4>2. conn[v].repeat \in conn[v].repeat..MaxRepeats
        BY <4>1, RepeatsAssumption DEF Connection
      <4>3. conn'[v] = [conn[v] EXCEPT !.repeat = conn[v].repeat]
        BY <3>1, <4>1 DEF Connection
      <4> QED
        BY <3>3, <4>2, <4>3 DEF Minded, OnlyRefilled
    <3> QED
      BY <3>2, <3>3
  <2> QED
    BY <2>1, <2>2
<1>5. CASE HandleInterrupt \/ Finish
  BY <1>5 DEF HandleInterrupt, Finish
<1>6. CASE UNCHANGED serverVars
  BY <1>6, UntouchedMinds DEF serverVars
<1> QED
  BY <1>1, <1>2, <1>3, <1>4, <1>5, <1>6 DEF Next, vars, ServerStep, ServerTimer

(* No step of the program, in any reachable state, leaves a connection     *)
(* unwatched but the last line of awaitingWorkACK after a message that was *)
(* not the ACK; so Work sent after a Result in awaitingResult, to one that *)
(* stood by, or to one that said Hello is watched.                         *)
THEOREM SilencesNoticed == Spec => SilenceIsNoticed
<1> DEFINE AllMinded ==
      phase' = "running" =>
        \A w \in Workers : w \in Pool' =>
          \/ Noticed(w)'
          \/ UnsetAtEnd(w)
          \/ ~Noticed(w) /\ OnlyRefilled(w)
<1>1. ASSUME Inv, [Next]_vars
      PROVE  AllMinded
  BY <1>1, StepMinds DEF Pool, Minded
<1>2. Inv => ([Next]_vars => [AllMinded]_vars)
  BY <1>1
<1> QED
  BY <1>2, Invariance, PTL DEF Spec, SilenceIsNoticed
=============================================================================
