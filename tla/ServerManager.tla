--------------------------- MODULE ServerManager ---------------------------
(***************************************************************************)
(* The server process: the signal loop of src/server_main.cpp, the pool of *)
(* src/server_manager.cpp and the handlers of src/connection_main.cpp that *)
(* act on more than their connection.  The loop is one thread, so a step   *)
(* is the handling of one datagram or of one signal, from end to end.      *)
(***************************************************************************)
EXTENDS ConnectionMain, Network, FiniteSets

CONSTANTS
  PoolSize,        \* POOL_SIZE
  MaxConnections   \* bound: connections ever opened for one SID

ASSUME PoolAssumption == PoolSize \in Nat /\ MaxConnections \in Nat

VARIABLES
  phase,     \* how the process stands
  sigResp,   \* SIDs whose response timer left a signal nobody fetched yet
  sigHb,     \* the same for the heartbeat timers
  opened     \* history: connections opened so far for each SID

serverVars == <<ledger, conn, phase, sigResp, sigHb, opened>>

Phase == {"running", "finished", "interrupted", "threwMarkSolved",
          "abortedStandingBy"}

ServerTypeOK ==
  /\ LedgerTypeOK
  /\ ConnTypeOK
  /\ phase \in Phase
  /\ sigResp \in SUBSET Workers
  /\ sigHb \in SUBSET Workers
  /\ opened \in [Workers -> Nat]

ServerInit ==
  /\ LedgerInit
  /\ ConnInit
  /\ phase = "running"
  /\ sigResp = {}
  /\ sigHb = {}
  /\ opened = [w \in Workers |-> 0]

-----------------------------------------------------------------------------
(* Handing out work.                                                       *)

(* What ServerManager::tryAssignSubproblem does: it goes through the pool  *)
(* by SID, and every connection that stands by pops the first UNASSIGNED   *)
(* subproblem that is left.                                                *)
Handout(standby, free) ==
  {f \in UNION {[D -> free] : D \in SUBSET standby} :
     /\ \A v, w \in DOMAIN f : v < w => f[v] < f[w]
     /\ \A v \in DOMAIN f, w \in standby \ DOMAIN f : v < w
     /\ \A v \in DOMAIN f, s \in free : s < f[v] => \E w \in DOMAIN f : f[w] = s
     /\ \/ DOMAIN f = standby
        \/ \A s \in free : \E w \in DOMAIN f : f[w] = s}

TryAssign(C, L, T) ==
  \E f \in Handout({w \in Workers : C[w].state = "standingBy"},
                   Unassigned(L)) :
    /\ conn' = [w \in Workers |-> IF w \in DOMAIN f THEN WithWork(C[w], f[w])
                                                    ELSE C[w]]
    /\ ledger' = [s \in Segments |->
                    IF \E w \in DOMAIN f : f[w] = s
                      THEN Pop(L, s, CHOOSE w \in DOMAIN f : f[w] = s)[s]
                      ELSE L[s]]
    /\ toWorker' = [w \in Workers |->
                      IF w \in DOMAIN f
                        THEN T[w] \union {Work(C[w].next, f[w])}
                        ELSE T[w]]

(* The connections of D leave the pool C.  Before its record goes,         *)
(* ~ConnectionMain gives a subproblem it holds back.                       *)
Without(C, D) == [w \in Workers |-> IF w \in D THEN NoConnection ELSE C[w]]
GivenBackNothing(D) == ledger   \* mutant: ~ConnectionMain does not unassign
GivenBack(D)  ==
  Unassign(ledger, {conn[w].seg : w \in {v \in D : Busy(conn[v])}})

(* The end of the handlers of server_manager.cpp that may delete.          *)
DeleteOnly(C, D, T) ==   \* mutant: what is given back is not handed on
  /\ conn' = Without(C, D)
  /\ ledger' = GivenBack(D)
  /\ toWorker' = T

Delete(C, D, T) ==
  \/ D = {} /\ conn' = C /\ toWorker' = T /\ UNCHANGED ledger
  \/ D # {} /\ TryAssign(Without(C, D), GivenBack(D), T)

(* sendSubproblem on connection c of w with the ledger L.  awaitingWorkACK *)
(* calls it before its last line, responseTimer.unset(): early says so.    *)
Sends(w, d, early) ==
  /\ conn' = [conn EXCEPT ![w] = IF early THEN Unwatched(d) ELSE d]
  /\ toWorker' = Sending(toWorker, w, d.sent)

SendSubproblem(w, c, L, early) ==
  \/ \E s \in Segments :
       /\ IsFirstUnassigned(L, s)
       /\ ledger' = Pop(L, s, w)
       /\ Sends(w, WithWork(c, s), early)
  \/ /\ Unassigned(L) = {}
     /\ ledger' = L
     /\ Sends(w, StandBy(c), early)

-----------------------------------------------------------------------------
(* Datagrams.  Every handler takes message m from worker w, read with the  *)
(* number n.                                                               *)

(* A Hello from a SID the pool does not know opens a connection, and       *)
(* awaitingHello accepts it: its number is 1, as of every Hello.           *)
AwaitingHello(w, m, n) ==
  /\ conn[w].state = "none"
  /\ Cardinality(Pool) # PoolSize
  /\ m.tag = "Hello"
  /\ n = NoConnection.next
  /\ opened[w] < MaxConnections
  /\ opened' = [opened EXCEPT ![w] = @ + 1]
  /\ SendSubproblem(w, Received(NoConnection, m, n), ledger, FALSE)
  /\ UNCHANGED <<phase, sigResp, sigHb>>

HeartbeatAnswered(w, m, n) ==
  /\ w \in Pool
  /\ Answered(conn[w], m)
  /\ toWorker' = Sending(toWorker, w, Bare("HeartbeatACK"))
  /\ UNCHANGED serverVars

(* Interrupt from a worker ends its connection.                            *)
WorkerInterrupted(w, m, n) ==
  /\ w \in Pool
  /\ m.tag = "Interrupt"
  /\ Delete(conn, {w}, toWorker)
  /\ UNCHANGED <<phase, sigResp, sigHb, opened>>

(* The last accepted message came again: so does the answer.               *)
Resend(w, m, n) ==
  /\ w \in Pool
  /\ m.tag # "Interrupt"
  /\ ~Answered(conn[w], m)
  /\ Repeated(conn[w], m, n)
  /\ conn' = [conn EXCEPT ![w] = Resent(@)]
  /\ toWorker' = Sending(toWorker, w, conn[w].sent)
  /\ UNCHANGED <<ledger, phase, sigResp, sigHb, opened>>

(* awaitingWorkACK: the ACK, the Result that overtook it, and a message of *)
(* any other tag, which is accepted and answered by nothing.               *)
InWindowExactly(c, n) == n = c.next   \* mutant: no early Result
InWindow(c, n) == n \in {c.next, c.next + 1}

WorkAcknowledged(w, m, n) ==
  /\ conn[w].state = "awaitingWorkACK"
  /\ Fresh(conn[w], m, n)
  /\ InWindow(conn[w], n)
  /\ m.tag = "ACK"
  /\ conn' = [conn EXCEPT ![w] = [Unwatched(Received(@, m, n)) EXCEPT
                                    !.state = "awaitingResult", !.hb = TRUE]]
  /\ ledger' = Assign(ledger, conn[w].seg, w)
  /\ UNCHANGED <<toWorker, phase, sigResp, sigHb, opened>>

EarlyResult(w, m, n) ==
  /\ conn[w].state = "awaitingWorkACK"
  /\ Fresh(conn[w], m, n)
  /\ InWindow(conn[w], n)
  /\ m.tag = "Result"
  /\ LET L == Assign(ledger, conn[w].seg, w)
     IN  \/ /\ CanMarkSolved(L, m.seg)
            /\ SendSubproblem(w, Received(conn[w], m, n),
                              MarkSolved(L, m.seg, m.hits), TRUE)
            /\ UNCHANGED phase
         \/ /\ ~CanMarkSolved(L, m.seg)
            /\ phase' = "threwMarkSolved"
            /\ UNCHANGED <<ledger, conn, toWorker>>
  /\ UNCHANGED <<sigResp, sigHb, opened>>

OtherAccepted(w, m, n) ==
  /\ conn[w].state = "awaitingWorkACK"
  /\ Fresh(conn[w], m, n)
  /\ InWindow(conn[w], n)
  /\ m.tag \notin {"ACK", "Result"}
  /\ conn' = [conn EXCEPT ![w] = Unwatched(Received(@, m, n))]
  /\ UNCHANGED <<ledger, toWorker, phase, sigResp, sigHb, opened>>

(* awaitingResult: the Result.                                             *)
ResultReceived(w, m, n) ==
  /\ conn[w].state = "awaitingResult"
  /\ Fresh(conn[w], m, n)
  /\ n = conn[w].next
  /\ m.tag = "Result"
  /\ \/ /\ CanMarkSolved(ledger, m.seg)
        /\ SendSubproblem(w, Received(conn[w], m, n),
                          MarkSolved(ledger, m.seg, m.hits), FALSE)
        /\ UNCHANGED phase
     \/ /\ ~CanMarkSolved(ledger, m.seg)
        /\ phase' = "threwMarkSolved"
        /\ UNCHANGED <<ledger, conn, toWorker>>
  /\ UNCHANGED <<sigResp, sigHb, opened>>

(* A fresh message no state expects: it only refills repeatCount.          *)
Unexpected(w, m, n) ==
  /\ Fresh(conn[w], m, n)
  /\ \/ conn[w].state = "awaitingWorkACK" /\ ~InWindow(conn[w], n)
     \/ /\ conn[w].state = "awaitingResult"
        /\ n # conn[w].next \/ m.tag # "Result"
  /\ conn' = [conn EXCEPT ![w].repeat = MaxRepeats]
  /\ UNCHANGED <<ledger, toWorker, phase, sigResp, sigHb, opened>>

(* standingBy logs any fresh message as fatal, which aborts the process    *)
(* before the throw that follows (see Logging).                            *)
StandingBy(w, m, n) ==
  /\ conn[w].state = "standingBy"
  /\ Fresh(conn[w], m, n)
  /\ phase' = "abortedStandingBy"
  /\ UNCHANGED <<ledger, conn, toWorker, sigResp, sigHb, opened>>

(* Messages that change nothing: of a SID that has and gets no connection, *)
(* and below the last accepted number.                                     *)
Ignored(w, m, n) ==
  /\ \/ /\ conn[w].state = "none"
        /\ m.tag # "Hello" \/ Cardinality(Pool) = PoolSize
     \/ /\ w \in Pool
        /\ m.tag # "Interrupt"
        /\ ~Answered(conn[w], m)
        /\ TooLow(conn[w], n)
  /\ UNCHANGED <<toWorker, serverVars>>

(* ServerManager::handleMessage, for a datagram with one of the tags.      *)
HandleMessageOf(w, tags) ==
  \E m \in {d \in toMain[w] : d.tag \in tags} : \E n \in SequenceRead(m) :
    /\ phase = "running"
    /\ toMain' = Receiving(toMain, w, m)
    /\ \/ AwaitingHello(w, m, n)
       \/ HeartbeatAnswered(w, m, n)
       \/ WorkerInterrupted(w, m, n)
       \/ Resend(w, m, n)
       \/ WorkAcknowledged(w, m, n)
       \/ EarlyResult(w, m, n)
       \/ OtherAccepted(w, m, n)
       \/ ResultReceived(w, m, n)
       \/ Unexpected(w, m, n)
       \/ StandingBy(w, m, n)
       \/ ~Duplicating /\ Ignored(w, m, n)

HandleMessage(w) == HandleMessageOf(w, MessageType)

-----------------------------------------------------------------------------
(* Timers and signals.                                                     *)

(* A one-shot timer expires: it stops, and its signal is queued.           *)
ExpireResp(w) ==
  /\ phase = "running"
  /\ w \in Pool
  /\ conn[w].resp
  /\ conn' = [conn EXCEPT ![w].resp = FALSE]
  /\ sigResp' = sigResp \union {w}
  /\ UNCHANGED <<ledger, phase, sigHb, opened>>

ExpireHb(w) ==
  /\ phase = "running"
  /\ w \in Pool
  /\ conn[w].hb
  /\ conn' = [conn EXCEPT ![w].hb = FALSE]
  /\ sigHb' = sigHb \union {w}
  /\ UNCHANGED <<ledger, phase, sigResp, opened>>

(* SIGNAL_TIMEOUT, whichever timer sent it: every connection whose         *)
(* response timer is not running has timed out.  The loop ends when all    *)
(* is solved, so a signal is fetched only before that.                     *)
HandleTimeout(w) ==
  /\ phase = "running"
  /\ ~Solved(ledger)
  /\ w \in sigResp
  /\ sigResp' = sigResp \ {w}
  /\ LET late == {v \in Pool : ~conn[v].resp}
         lost == {v \in late : LastChance(conn[v])}
     IN  Delete([v \in Workers |-> IF v \in late \ lost THEN TimedOut(conn[v])
                                                         ELSE conn[v]],
                lost,
                [v \in Workers |->
                   IF v \in late \ lost THEN toWorker[v] \union {conn[v].sent}
                                        ELSE toWorker[v]])
  /\ UNCHANGED <<toMain, phase, sigHb, opened>>

(* SIGNAL_HBTIMEOUT: every connection whose heartbeat timer is not running *)
(* leaves the pool.                                                        *)
HandleHeartbeatTimeout(w) ==
  /\ phase = "running"
  /\ ~Solved(ledger)
  /\ w \in sigHb
  /\ sigHb' = sigHb \ {w}
  /\ Delete(conn, {v \in Pool : ~conn[v].hb}, toWorker)
  /\ UNCHANGED <<toMain, phase, sigResp, opened>>

(* SIGINT: Interrupt to the whole pool, which is deleted, and exit.        *)
HandleInterrupt ==
  /\ phase = "running"
  /\ ~Solved(ledger)
  /\ toWorker' = [w \in Workers |->
                    IF w \in Pool THEN toWorker[w] \union {Bare("Interrupt")}
                                  ELSE toWorker[w]]
  /\ ledger' = GivenBack(Pool)
  /\ conn' = Without(conn, Pool)
  /\ phase' = "interrupted"
  /\ UNCHANGED <<toMain, sigResp, sigHb, opened>>

(* All is solved: Close to the whole pool, once, and the result.           *)
Finish ==
  /\ phase = "running"
  /\ Solved(ledger)
  /\ toWorker' = [w \in Workers |->
                    IF w \in Pool
                      THEN toWorker[w] \union {Numbered("Close", conn[w].next)}
                      ELSE toWorker[w]]
  /\ phase' = "finished"
  /\ UNCHANGED <<ledger, conn, toMain, sigResp, sigHb, opened>>
=============================================================================
