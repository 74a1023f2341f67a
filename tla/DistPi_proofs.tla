--------------------------- MODULE DistPi_proofs ---------------------------
(***************************************************************************)
(* Theorems about DistPi, for every set of workers and segments, every     *)
(* bound, every network and every value an uninitialised number may have.  *)
(***************************************************************************)
EXTENDS DistPi, TLAPS

-----------------------------------------------------------------------------
(* Types of the building blocks.                                           *)

USE DEF MessageType

(* The constructors of src/Message.h for a tag alone and for a tag with a  *)
(* number build messages.                                                  *)
LEMMA Bares ==
  ASSUME NEW t \in MessageType, NEW n \in Nat
  PROVE  Bare(t) \in Message /\ Numbered(t, n) \in Message
BY DEF Bare, Numbered, Message

(* So does the constructor for MessageResult.                              *)
LEMMA ResultIsMessage ==
  ASSUME NEW n \in Nat, NEW s \in Segments \union {0}, NEW h \in HitCounts
  PROVE  Result(n, s, h) \in Message
BY DEF Result, Message

(* So does the constructor for MessageWork.                                *)
LEMMA WorkIsMessage ==
  ASSUME NEW n \in Nat, NEW s \in Segments
  PROVE  Work(n, s) \in Message
BY DEF Work, Message

(* The message a connection starts with is one.                            *)
LEMMA InvalidIsMessage == InvalidMessage \in Message
BY DEF InvalidMessage, Message

(* Whatever handleMessage reads as the number, initialised or not, is a    *)
(* number.                                                                 *)
LEMMA SequenceIsNat ==
  ASSUME NEW m \in Message, NEW n \in SequenceRead(m)
  PROVE  n \in Nat
BY GarbageAssumption DEF SequenceRead, Message

(* A ConnectionMain that has just been built is well typed.                *)
LEMMA NoConnectionType == NoConnection \in Connection
BY InvalidIsMessage, RepeatsAssumption
   DEF NoConnection, Connection, ConnectionState

(* Unsetting the response timer leaves the state, the segment and the last *)
(* message alone.                                                          *)
LEMMA UnwatchedType ==
  ASSUME NEW c \in Connection
  PROVE  /\ Unwatched(c) \in Connection
         /\ Unwatched(c).state = c.state
         /\ Unwatched(c).seg = c.seg
         /\ Unwatched(c).sent = c.sent
BY DEF Unwatched, Connection

(* Accepting a message leaves the state and the segment alone.             *)
LEMMA ReceivedType ==
  ASSUME NEW c \in Connection, NEW m \in Message, NEW n \in Nat
  PROVE  /\ Received(c, m, n) \in Connection
         /\ Received(c, m, n).state = c.state
         /\ Received(c, m, n).seg = c.seg
<1>1. MaxRepeats \in 1..MaxRepeats
  BY RepeatsAssumption
<1>2. m.tag \in MessageType /\ n + 1 \in Nat
  BY DEF Message
<1> QED
  BY <1>1, <1>2 DEF Received, Connection

(* Being sent Work makes a connection wait for the ACK, for that very      *)
(* segment.                                                                *)
LEMMA WithWorkType ==
  ASSUME NEW c \in Connection, NEW s \in Segments
  PROVE  /\ WithWork(c, s) \in Connection
         /\ WithWork(c, s).state = "awaitingWorkACK"
         /\ WithWork(c, s).seg = s
<1>1. Work(c.next, s) \in Message /\ c.next + 1 \in Nat
  BY WorkIsMessage DEF Connection
<1> QED
  BY <1>1 DEF WithWork, Connection, ConnectionState

(* With nothing left to send a connection stands by.                       *)
LEMMA StandByType ==
  ASSUME NEW c \in Connection
  PROVE  /\ StandBy(c) \in Connection
         /\ StandBy(c).state = "standingBy"
<1>1. Numbered("ACK", c.next) \in Message /\ c.next + 1 \in Nat
  BY Bares DEF Connection
<1> QED
  BY <1>1 DEF StandBy, Connection, ConnectionState

(* A timeout that is not the last one keeps repeatCount above zero, and    *)
(* the state and the segment as they are.                                  *)
LEMMA TimedOutType ==
  ASSUME NEW c \in Connection, ~LastChance(c)
  PROVE  /\ TimedOut(c) \in Connection
         /\ TimedOut(c).state = c.state
         /\ TimedOut(c).seg = c.seg
<1>1. c.repeat - 1 \in 1..MaxRepeats
  BY RepeatsAssumption DEF Connection, LastChance
<1> QED
  BY <1>1 DEF TimedOut, Connection

(* unassign() keeps the ledger well typed.                                 *)
LEMMA UnassignType ==
  ASSUME NEW L \in [Segments -> Subproblem], NEW S
  PROVE  Unassign(L, S) \in [Segments -> Subproblem]
BY DEF Unassign, Subproblem, SubproblemState

(* pop() keeps the ledger well typed.                                      *)
LEMMA PopType ==
  ASSUME NEW L \in [Segments -> Subproblem], NEW s \in Segments,
         NEW w \in Workers
  PROVE  Pop(L, s, w) \in [Segments -> Subproblem]
BY DEF Pop, Subproblem, SubproblemState

-----------------------------------------------------------------------------
(* LedgerMatchesPool and WorkConserving of any pool C and ledger L.        *)

Matches(C, L) ==
  /\ \A s \in Segments :
       L[s].state = "ASSIGNED_PENDING" =>
         \E w \in Workers : C[w].state = "awaitingWorkACK" /\ C[w].seg = s
  /\ \A w \in Workers :
       /\ Busy(C[w]) => C[w].seg \in Segments
       /\ C[w].state = "awaitingWorkACK" =>
            /\ L[C[w].seg].state = "ASSIGNED_PENDING"
            /\ L[C[w].seg].assignedTo = w
       /\ C[w].state = "awaitingResult" =>
            \/ /\ L[C[w].seg].state = "ASSIGNED"
               /\ L[C[w].seg].assignedTo = w
            \/ L[C[w].seg].state = "SOLVED"
  /\ \A v, w \in Workers :
       Busy(C[v]) /\ Busy(C[w]) /\ C[v].seg = C[w].seg => v = w
  /\ \A s \in Segments :
       L[s].assignedTo = NoWorker <=> L[s].state \in {"UNASSIGNED", "SOLVED"}

Conserves(C, L) ==
  (\E w \in Workers : C[w].state = "standingBy") => Unassigned(L) = {}

(* LedgerMatchesPool is Matches of the present pool and ledger.            *)
LEMMA MatchesNow == Matches(conn, ledger) <=> LedgerMatchesPool
BY DEF Matches, LedgerMatchesPool, PendingIsHeld, HeldIsGivenOut, HeldOnce,
       OwnerIsSet

(* WorkConserving is Conserves of the present pool and ledger.             *)
LEMMA ConservesNow == Conserves(conn, ledger) <=> WorkConserving
BY DEF Conserves, WorkConserving

(* What every way of handing out subproblems does to a pool C and a ledger *)
(* L: some connections that stand by take a free subproblem, and nobody    *)
(* stands by in the end while one is left.                                 *)
Holding(c, d) == d.state = c.state /\ d.seg = c.seg

Given(w, s) ==
  /\ conn'[w].state = "awaitingWorkACK"
  /\ conn'[w].seg = s
  /\ ledger'[s].state = "ASSIGNED_PENDING"
  /\ ledger'[s].assignedTo = w

Gives(C, L) ==
  /\ \A w \in Workers :
       \/ Holding(C[w], conn'[w])
       \/ /\ C[w].state = "standingBy"
          /\ \E s \in Unassigned(L) : Given(w, s)
  /\ \A s \in Segments :
       \/ ledger'[s] = L[s]
       \/ /\ s \in Unassigned(L)
          /\ \E w \in Workers : C[w].state = "standingBy" /\ Given(w, s)
  /\ Conserves(conn', ledger')

TypedServer ==
  /\ conn' \in [Workers -> Connection]
  /\ ledger' \in [Segments -> Subproblem]
  /\ toWorker' \in [Workers -> SUBSET Message]

(* Handing out free subproblems to connections that stand by preserves the *)
(* agreement of pool and ledger.                                           *)
LEMMA GivesMatches ==
  ASSUME NEW C \in [Workers -> Connection], NEW L \in [Segments -> Subproblem],
         Matches(C, L), Gives(C, L)
  PROVE  Matches(conn', ledger')
<1>0. \A w \in Workers : \/ Holding(C[w], conn'[w])
                         \/ \E s \in Unassigned(L) : Given(w, s)
  BY DEF Gives
<1> USE DEF Holding, Given, Busy, Unassigned
<1>1. ASSUME NEW s \in Segments, ledger'[s].state = "ASSIGNED_PENDING"
      PROVE  \E w \in Workers : /\ conn'[w].state = "awaitingWorkACK"
                                /\ conn'[w].seg = s
  <2>1. CASE ledger'[s] = L[s]
    <3>1. PICK w \in Workers : C[w].state = "awaitingWorkACK" /\ C[w].seg = s
      BY <1>1, <2>1 DEF Matches
    <3> QED
      BY <3>1 DEF Gives
  <2>2. CASE ledger'[s] # L[s]
    BY <2>2 DEF Gives
  <2> QED
    BY <2>1, <2>2
<1>2. ASSUME NEW w \in Workers
      PROVE  /\ Busy(conn'[w]) => conn'[w].seg \in Segments
             /\ conn'[w].state = "awaitingWorkACK" =>
                  /\ ledger'[conn'[w].seg].state = "ASSIGNED_PENDING"
                  /\ ledger'[conn'[w].seg].assignedTo = w
             /\ conn'[w].state = "awaitingResult" =>
                  \/ /\ ledger'[conn'[w].seg].state = "ASSIGNED"
                     /\ ledger'[conn'[w].seg].assignedTo = w
                  \/ ledger'[conn'[w].seg].state = "SOLVED"
  <2>1. CASE Holding(C[w], conn'[w]) /\ Busy(C[w])
    <3>1. C[w].seg \in Segments /\ L[C[w].seg].state # "UNASSIGNED"
      BY <2>1 DEF Matches
    <3>2. ledger'[C[w].seg] = L[C[w].seg]
      BY <3>1 DEF Gives
    <3> QED
      BY <2>1, <3>1, <3>2 DEF Matches
  <2>2. CASE Holding(C[w], conn'[w]) /\ ~Busy(C[w])
    BY <2>2
  <2>3. CASE ~Holding(C[w], conn'[w])
    BY <2>3 DEF Gives
  <2> QED
    BY <2>1, <2>2, <2>3
<1>3. ASSUME NEW v \in Workers, NEW w \in Workers,
             Busy(conn'[v]), Busy(conn'[w]), conn'[v].seg = conn'[w].seg
      PROVE  v = w
  <2>1. CASE Holding(C[v], conn'[v]) /\ Holding(C[w], conn'[w])
    <3>1. Busy(C[v]) /\ Busy(C[w]) /\ C[v].seg = C[w].seg
      BY <1>3, <2>1
    <3>2. Busy(C[v]) /\ Busy(C[w]) /\ C[v].seg = C[w].seg => v = w
      BY Zenon DEF Matches
    <3> QED
      BY <3>1, <3>2
  <2>2. CASE ~Holding(C[v], conn'[v]) /\ ~Holding(C[w], conn'[w])
    <3>1. PICK s \in Unassigned(L) : Given(v, s)
      BY <1>0, <2>2
    <3>2. PICK t \in Unassigned(L) : Given(w, t)
      BY <1>0, <2>2
    <3> QED
      BY <1>3, <3>1, <3>2
  <2>3. ASSUME NEW x \in Workers, NEW y \in Workers, Busy(conn'[x]),
               conn'[x].seg = conn'[y].seg,
               Holding(C[x], conn'[x]), ~Holding(C[y], conn'[y])
        PROVE  FALSE
    <3>1. L[conn'[x].seg].state # "UNASSIGNED"
      BY <2>3 DEF Matches
    <3>2. PICK t \in Unassigned(L) : Given(y, t)
      BY <1>0, <2>3
    <3> QED
      BY <2>3, <3>1, <3>2
  <2> QED
    BY <1>3, <2>1, <2>2, <2>3
<1>4. ASSUME NEW s \in Segments
      PROVE  ledger'[s].assignedTo = NoWorker
               <=> ledger'[s].state \in {"UNASSIGNED", "SOLVED"}
  BY WorkersAssumption DEF Gives, Matches, NoWorker
<1> QED
  BY <1>1, <1>2, <1>3, <1>4 DEF Matches

(* What the loop of tryAssignSubproblem hands out: to each connection      *)
(* another subproblem, until connections or subproblems run out.           *)
LEMMA HandoutFacts ==
  ASSUME NEW standby \in SUBSET Workers, NEW free \in SUBSET Segments,
         NEW f \in Handout(standby, free)
  PROVE  /\ DOMAIN f \in SUBSET standby
         /\ f \in [DOMAIN f -> free]
         /\ \A v, w \in DOMAIN f : f[v] = f[w] => v = w
         /\ \/ DOMAIN f = standby
            \/ \A s \in free : \E w \in DOMAIN f : f[w] = s
<1>1. /\ f \in UNION {[D -> free] : D \in SUBSET standby}
      /\ \A v, w \in DOMAIN f : v < w => f[v] < f[w]
      /\ \/ DOMAIN f = standby
         \/ \A s \in free : \E w \in DOMAIN f : f[w] = s
  BY DEF Handout
<1>2. PICK D \in SUBSET standby : f \in [D -> free]
  BY <1>1
<1>3. DOMAIN f = D
  BY <1>2
<1>4. ASSUME NEW v \in D, NEW w \in D, f[v] = f[w]
      PROVE  v = w
  <2>1. v \in Nat /\ w \in Nat /\ f[v] \in Nat
    BY <1>2, WorkersAssumption, SegmentsAssumption
  <2>2. ~(v < w) /\ ~(w < v)
    BY <1>1, <1>3, <1>4, <2>1
  <2> QED
    BY <2>1, <2>2
<1> QED
  BY <1>1, <1>2, <1>3, <1>4

(* ServerManager::tryAssignSubproblem hands out as described by Gives.     *)
LEMMA TryAssignGives ==
  ASSUME NEW C \in [Workers -> Connection], NEW L \in [Segments -> Subproblem],
         NEW T \in [Workers -> SUBSET Message], TryAssign(C, L, T)
  PROVE  TypedServer /\ Gives(C, L)
<1> DEFINE standby == {w \in Workers : C[w].state = "standingBy"}
<1>1. PICK f \in Handout(standby, Unassigned(L)) :
        /\ conn' = [w \in Workers |->
                      IF w \in DOMAIN f THEN WithWork(C[w], f[w]) ELSE C[w]]
        /\ ledger' = [s \in Segments |->
                        IF \E w \in DOMAIN f : f[w] = s
                          THEN Pop(L, s, CHOOSE w \in DOMAIN f : f[w] = s)[s]
                          ELSE L[s]]
        /\ toWorker' = [w \in Workers |->
                          IF w \in DOMAIN f
                            THEN T[w] \union {Work(C[w].next, f[w])}
                            ELSE T[w]]
  BY DEF TryAssign
<1>2. /\ DOMAIN f \in SUBSET standby
      /\ f \in [DOMAIN f -> Unassigned(L)]
      /\ \A v, w \in DOMAIN f : f[v] = f[w] => v = w
      /\ \/ DOMAIN f = standby
         \/ \A s \in Unassigned(L) : \E w \in DOMAIN f : f[w] = s
  <2>1. standby \in SUBSET Workers /\ Unassigned(L) \in SUBSET Segments
    BY DEF Unassigned
  <2> HIDE DEF standby
  <2> QED
    BY <1>1, <2>1, HandoutFacts
<1>3. \A w \in DOMAIN f : /\ w \in Workers /\ C[w].state = "standingBy"
                          /\ f[w] \in Segments /\ f[w] \in Unassigned(L)
  BY <1>2 DEF Unassigned
<1> HIDE DEF standby
<1>4. conn' \in [Workers -> Connection]
  BY <1>1, <1>3, WithWorkType
<1>5. toWorker' \in [Workers -> SUBSET Message]
  <2>1. \A w \in DOMAIN f : Work(C[w].next, f[w]) \in Message
    BY <1>3, WorkIsMessage DEF Connection
  <2> QED
    BY <1>1, <2>1
<1>6. ASSUME NEW w \in DOMAIN f
      PROVE  /\ ledger'[f[w]] = Pop(L, f[w], w)[f[w]]
             /\ Given(w, f[w])
  <2>1. (CHOOSE v \in DOMAIN f : f[v] = f[w]) = w
    BY <1>2
  <2>2. ledger'[f[w]] = Pop(L, f[w], w)[f[w]]
    BY <1>1, <1>3, <2>1
  <2>3. /\ Pop(L, f[w], w)[f[w]].state = "ASSIGNED_PENDING"
        /\ Pop(L, f[w], w)[f[w]].assignedTo = w
    BY <1>3 DEF Pop, Subproblem
  <2>4. conn'[w] = WithWork(C[w], f[w])
    BY <1>1, <1>3
  <2> QED
    BY <1>3, <2>2, <2>3, <2>4, WithWorkType DEF Given
<1>7. \A s \in Segments : (\A w \in DOMAIN f : f[w] # s) => ledger'[s] = L[s]
  BY <1>1
<1>8. ledger' \in [Segments -> Subproblem]
  <2>1. \A s \in Segments : ledger'[s] \in Subproblem
    BY <1>3, <1>6, <1>7, PopType
  <2> QED
    BY <1>1, <2>1
<1>9. Conserves(conn', ledger')
  <2>1. CASE DOMAIN f = standby
    <3>1. ASSUME NEW w \in Workers, conn'[w].state = "standingBy"
          PROVE  FALSE
      <4>1. CASE w \in DOMAIN f
        BY <1>6, <3>1, <4>1 DEF Given
      <4>2. CASE w \notin DOMAIN f
        BY <1>1, <2>1, <3>1, <4>2 DEF standby
      <4> QED
        BY <4>1, <4>2
    <3> QED
      BY <3>1 DEF Conserves
  <2>2. CASE \A s \in Unassigned(L) : \E w \in DOMAIN f : f[w] = s
    <3>1. ASSUME NEW s \in Segments
          PROVE  ledger'[s].state # "UNASSIGNED"
      <4>1. CASE \E w \in DOMAIN f : f[w] = s
        BY <1>6, <4>1 DEF Given
      <4>2. CASE \A w \in DOMAIN f : f[w] # s
        BY <1>7, <2>2, <4>2 DEF Unassigned
      <4> QED
        BY <4>1, <4>2
    <3> QED
      BY <3>1 DEF Conserves, Unassigned
  <2> QED
    BY <1>2, <2>1, <2>2
<1>10. ASSUME NEW w \in Workers
       PROVE  \/ Holding(C[w], conn'[w])
              \/ /\ C[w].state = "standingBy"
                 /\ \E s \in Unassigned(L) : Given(w, s)
  <2>1. CASE w \in DOMAIN f
    BY <1>3, <1>6, <2>1
  <2>2. CASE w \notin DOMAIN f
    BY <1>1, <2>2 DEF Holding
  <2> QED
    BY <2>1, <2>2
<1>11. ASSUME NEW s \in Segments
       PROVE  \/ ledger'[s] = L[s]
              \/ /\ s \in Unassigned(L)
                 /\ \E w \in Workers : C[w].state = "standingBy" /\ Given(w, s)
  BY <1>3, <1>6, <1>7
<1> QED
  BY <1>4, <1>5, <1>8, <1>9, <1>10, <1>11 DEF TypedServer, Gives

(* sendSubproblem gives as well, seen from the pool in which its worker    *)
(* stands by already.                                                      *)
Waiting(w, c) == [conn EXCEPT ![w] = [c EXCEPT !.state = "standingBy"]]

(* ConnectionMain::sendSubproblem does the same for one connection, which  *)
(* stands by for a moment before it is served.                             *)
LEMMA SendSubproblemGives ==
  ASSUME NEW w \in Workers, NEW c \in Connection,
         NEW L \in [Segments -> Subproblem], NEW early \in BOOLEAN,
         TypeOK, WorkConserving, Unassigned(L) \subseteq Unassigned(ledger),
         SendSubproblem(w, c, L, early)
  PROVE  /\ TypedServer
         /\ Waiting(w, c) \in [Workers -> Connection]
         /\ Gives(Waiting(w, c), L)
<1> DEFINE C == Waiting(w, c)
<1>1. /\ conn \in [Workers -> Connection]
      /\ ledger \in [Segments -> Subproblem]
      /\ toWorker \in [Workers -> SUBSET Message]
  BY DEF TypeOK, ServerTypeOK, ConnTypeOK, LedgerTypeOK, NetworkTypeOK
<1>2. /\ C \in [Workers -> Connection]
      /\ C[w].state = "standingBy"
      /\ C[w].seg = c.seg
      /\ \A v \in Workers \ {w} : C[v] = conn[v]
  <2>1. [c EXCEPT !.state = "standingBy"] \in Connection
    BY DEF Connection, ConnectionState
  <2> QED
    BY <1>1, <2>1 DEF Waiting, Connection
<1> HIDE DEF C
<1>3. ASSUME NEW d \in Connection, Sends(w, d, early)
      PROVE  /\ conn' \in [Workers -> Connection]
             /\ toWorker' \in [Workers -> SUBSET Message]
             /\ conn'[w].state = d.state /\ conn'[w].seg = d.seg
             /\ \A v \in Workers \ {w} : conn'[v] = conn[v]
  <2>1. d.sent \in Message
    BY DEF Connection
  <2>2. toWorker' \in [Workers -> SUBSET Message]
    BY <1>1, <1>3, <2>1 DEF Sends, Sending
  <2>3. conn' = [conn EXCEPT ![w] = IF early THEN Unwatched(d) ELSE d]
    BY <1>3 DEF Sends
  <2> QED
    BY <1>1, <2>2, <2>3, UnwatchedType
<1>4. CASE \E s \in Segments : /\ IsFirstUnassigned(L, s)
                               /\ ledger' = Pop(L, s, w)
                               /\ Sends(w, WithWork(c, s), early)
  <2>1. PICK s \in Segments : /\ IsFirstUnassigned(L, s)
                              /\ ledger' = Pop(L, s, w)
                              /\ Sends(w, WithWork(c, s), early)
    BY <1>4
  <2>2. s \in Unassigned(L)
    BY <2>1 DEF IsFirstUnassigned
  <2>3. /\ conn' \in [Workers -> Connection]
        /\ toWorker' \in [Workers -> SUBSET Message]
        /\ conn'[w].state = "awaitingWorkACK" /\ conn'[w].seg = s
        /\ \A v \in Workers \ {w} : conn'[v] = conn[v]
    BY <1>3, <2>1, WithWorkType
  <2>4. ledger' \in [Segments -> Subproblem]
    BY <2>1, PopType
  <2>5. /\ ledger'[s].state = "ASSIGNED_PENDING"
        /\ ledger'[s].assignedTo = w
        /\ \A t \in Segments \ {s} : ledger'[t] = L[t]
    BY <2>1 DEF Pop, Subproblem
  <2>6. Given(w, s)
    BY <2>3, <2>5 DEF Given
  <2>7. \A v \in Workers : conn'[v].state # "standingBy"
    <3>1. \A v \in Workers : conn[v].state # "standingBy"
      BY <2>2 DEF WorkConserving
    <3> QED
      BY <2>3, <3>1
  <2>8. Conserves(conn', ledger')
    BY <2>7 DEF Conserves
  <2>9. \A v \in Workers : \/ Holding(C[v], conn'[v])
                           \/ /\ C[v].state = "standingBy"
                              /\ \E t \in Unassigned(L) : Given(v, t)
    BY <1>2, <2>2, <2>3, <2>6 DEF Holding
  <2>10. \A t \in Segments :
           \/ ledger'[t] = L[t]
           \/ /\ t \in Unassigned(L)
              /\ \E v \in Workers : C[v].state = "standingBy" /\ Given(v, t)
    BY <1>2, <2>2, <2>5, <2>6
  <2> QED
    BY <1>2, <2>3, <2>4, <2>8, <2>9, <2>10 DEF TypedServer, Gives, C
<1>5. CASE Unassigned(L) = {} /\ ledger' = L /\ Sends(w, StandBy(c), early)
  <2>1. /\ conn' \in [Workers -> Connection]
        /\ toWorker' \in [Workers -> SUBSET Message]
        /\ conn'[w].state = "standingBy" /\ conn'[w].seg = c.seg
        /\ \A v \in Workers \ {w} : conn'[v] = conn[v]
    <3>1. StandBy(c).seg = c.seg
      BY DEF StandBy, Connection
    <3> QED
      BY <1>3, <1>5, <3>1, StandByType
  <2>2. \A v \in Workers : Holding(C[v], conn'[v])
    BY <1>2, <2>1 DEF Holding
  <2>3. Conserves(conn', ledger')
    BY <1>5 DEF Conserves
  <2> QED
    BY <1>2, <1>5, <2>1, <2>2, <2>3 DEF TypedServer, Gives, C
<1> QED
  BY <1>4, <1>5 DEF SendSubproblem

-----------------------------------------------------------------------------
(* The invariant, and what each kind of step does to it.                   *)

Inv == TypeOK /\ LedgerMatchesPool /\ WorkConserving

Good == TypedServer /\ LedgerMatchesPool' /\ WorkConserving'

(* A step is good when types and both relations hold after it.             *)
LEMMA GoodNext ==
  ASSUME TypedServer, Matches(conn', ledger'), Conserves(conn', ledger')
  PROVE  Good
BY DEF Good, Matches, LedgerMatchesPool, PendingIsHeld, HeldIsGivenOut,
       HeldOnce, OwnerIsSet, Conserves, WorkConserving, Busy, Unassigned

(* What the invariant says of the variables a step of the server touches.  *)
LEMMA InvParts ==
  ASSUME Inv
  PROVE  /\ conn \in [Workers -> Connection]
         /\ ledger \in [Segments -> Subproblem]
         /\ toWorker \in [Workers -> SUBSET Message]
         /\ toMain \in [Workers -> SUBSET Message]
         /\ Matches(conn, ledger)
         /\ Conserves(conn, ledger)
BY MatchesNow, ConservesNow
   DEF Inv, TypeOK, ServerTypeOK, ConnTypeOK, LedgerTypeOK, NetworkTypeOK

(* Both relations depend on the states and the segments of the connections *)
(* only.                                                                   *)
LEMMA HoldingMatches ==
  ASSUME NEW C, NEW D, NEW L,
         \A w \in Workers : Holding(C[w], D[w])
  PROVE  /\ Matches(C, L) => Matches(D, L)
         /\ Conserves(C, L) => Conserves(D, L)
<1>1. \A w \in Workers : /\ D[w].state = C[w].state
                         /\ D[w].seg = C[w].seg
                         /\ Busy(D[w]) <=> Busy(C[w])
  BY DEF Holding, Busy
<1> QED
  BY <1>1 DEF Matches, Conserves

(* A step after which everybody holds what they held.                      *)
LEMMA HoldingIsGood ==
  ASSUME Inv, TypedServer, ledger' = ledger,
         \A w \in Workers : Holding(conn[w], conn'[w])
  PROVE  Good
<1>1. Matches(conn', ledger) /\ Conserves(conn', ledger)
  BY InvParts, HoldingMatches
<1> QED
  BY <1>1, GoodNext

(* When connections leave the pool and ~ConnectionMain gives back what     *)
(* they held, pool and ledger still agree: the destructor takes a          *)
(* subproblem from nobody else.                                            *)
LEMMA DeletedMatches ==
  ASSUME Inv, NEW C \in [Workers -> Connection], NEW D \in SUBSET Workers,
         \A w \in Workers : w \notin D => Holding(conn[w], C[w])
  PROVE  /\ Without(C, D) \in [Workers -> Connection]
         /\ GivenBack(D) \in [Segments -> Subproblem]
         /\ Matches(Without(C, D), GivenBack(D))
<1> DEFINE E == Without(C, D)
           L == GivenBack(D)
           held == {conn[w].seg : w \in {v \in D : Busy(conn[v])}}
<1>1. E \in [Workers -> Connection]
  BY NoConnectionType DEF Without
<1>2. L \in [Segments -> Subproblem]
  BY InvParts, UnassignType DEF GivenBack
<1>3. \A w \in D : E[w].state = "none" /\ ~Busy(E[w])
  BY DEF Without, NoConnection, Busy
<1>4. \A w \in Workers \ D : /\ E[w].state = conn[w].state
                             /\ E[w].seg = conn[w].seg
                             /\ Busy(E[w]) <=> Busy(conn[w])
  BY DEF Without, Holding, Busy
<1>5. \A s \in Segments :
        \/ L[s] = ledger[s]
        \/ /\ s \in held /\ ledger[s].state \in {"ASSIGNED_PENDING", "ASSIGNED"}
           /\ L[s].state = "UNASSIGNED" /\ L[s].assignedTo = NoWorker
  BY InvParts DEF GivenBack, Unassign, Subproblem
<1>6. \A s \in held :
        s \in Segments =>
          L[s].state \notin {"ASSIGNED_PENDING", "ASSIGNED"}
  BY InvParts DEF GivenBack, Unassign, Subproblem
<1>7. \A v, w \in Workers :
        Busy(conn[v]) /\ Busy(conn[w]) /\ conn[v].seg = conn[w].seg => v = w
  BY InvParts DEF Matches
<1> HIDE DEF E, L
<1>8. ASSUME NEW s \in Segments, L[s].state = "ASSIGNED_PENDING"
      PROVE  \E w \in Workers : E[w].state = "awaitingWorkACK" /\ E[w].seg = s
  <2>1. ledger[s].state = "ASSIGNED_PENDING" /\ s \notin held
    BY <1>5, <1>6, <1>8
  <2>2. PICK w \in Workers : conn[w].state = "awaitingWorkACK" /\ conn[w].seg = s
    BY <2>1, InvParts DEF Matches
  <2>3. w \notin D
    BY <2>1, <2>2 DEF Busy
  <2> QED
    BY <1>4, <2>2, <2>3
<1>9. ASSUME NEW w \in Workers
      PROVE  /\ Busy(E[w]) => E[w].seg \in Segments
             /\ E[w].state = "awaitingWorkACK" =>
                  /\ L[E[w].seg].state = "ASSIGNED_PENDING"
                  /\ L[E[w].seg].assignedTo = w
             /\ E[w].state = "awaitingResult" =>
                  \/ /\ L[E[w].seg].state = "ASSIGNED"
                     /\ L[E[w].seg].assignedTo = w
                  \/ L[E[w].seg].state = "SOLVED"
  <2>1. CASE Busy(E[w])
    <3>1. w \notin D /\ Busy(conn[w])
      BY <1>3, <1>4, <2>1
    <3>2. conn[w].seg \in Segments /\ conn[w].seg \notin held
      BY <1>7, <3>1, InvParts DEF Matches
    <3>3. L[conn[w].seg] = ledger[conn[w].seg]
      BY <1>5, <3>2
    <3> QED
      BY <1>4, <3>1, <3>2, <3>3, InvParts DEF Matches
  <2>2. CASE ~Busy(E[w])
    BY <2>2 DEF Busy
  <2> QED
    BY <2>1, <2>2
<1>10. \A v, w \in Workers :
         Busy(E[v]) /\ Busy(E[w]) /\ E[v].seg = E[w].seg => v = w
  BY <1>3, <1>4, <1>7
<1>11. \A s \in Segments :
         L[s].assignedTo = NoWorker <=> L[s].state \in {"UNASSIGNED", "SOLVED"}
  BY <1>5, InvParts DEF Matches
<1> QED
  BY <1>1, <1>2, <1>8, <1>9, <1>10, <1>11 DEF Matches, E, L

(* Connections leave, and what they held is handed on.                     *)
LEMMA DeleteIsGood ==
  ASSUME Inv, NEW C \in [Workers -> Connection], NEW D \in SUBSET Workers,
         NEW T \in [Workers -> SUBSET Message],
         \A w \in Workers : w \notin D => Holding(conn[w], C[w]),
         Delete(C, D, T)
  PROVE  Good
<1>1. CASE D = {} /\ conn' = C /\ toWorker' = T /\ UNCHANGED ledger
  <2>1. TypedServer
    BY <1>1, InvParts DEF TypedServer
  <2> QED
    BY <1>1, <2>1, HoldingIsGood
<1>2. CASE TryAssign(Without(C, D), GivenBack(D), T)
  <2>1. /\ Without(C, D) \in [Workers -> Connection]
        /\ GivenBack(D) \in [Segments -> Subproblem]
        /\ Matches(Without(C, D), GivenBack(D))
    BY DeletedMatches
  <2>2. TypedServer /\ Gives(Without(C, D), GivenBack(D))
    BY <1>2, <2>1, TryAssignGives
  <2>3. Matches(conn', ledger') /\ Conserves(conn', ledger')
    BY <2>1, <2>2, GivesMatches DEF Gives
  <2> QED
    BY <2>2, <2>3, GoodNext
<1> QED
  BY <1>1, <1>2 DEF Delete

(* Before it sends the next subproblem, a connection is done with the one  *)
(* it holds: that one, or another one that was ASSIGNED, is SOLVED.        *)
OwnPending(w, s) == conn[w].state = "awaitingWorkACK" /\ conn[w].seg = s

(* A connection whose subproblem has been acknowledged or solved may be    *)
(* taken out of it, and pool and ledger still agree.                       *)
LEMMA WaitingMatches ==
  ASSUME Inv, NEW w \in Workers, NEW c \in Connection,
         NEW L \in [Segments -> Subproblem],
         \A s \in Segments :
           /\ OwnPending(w, s) => L[s].state # "ASSIGNED_PENDING"
           /\ \/ L[s] = ledger[s]
              \/ /\ OwnPending(w, s)
                 /\ L[s].state = "ASSIGNED" /\ L[s].assignedTo = w
              \/ /\ OwnPending(w, s) \/ ledger[s].state = "ASSIGNED"
                 /\ L[s].state = "SOLVED" /\ L[s].assignedTo = NoWorker
  PROVE  /\ Matches(Waiting(w, c), L)
         /\ Unassigned(L) \subseteq Unassigned(ledger)
<1> DEFINE C == Waiting(w, c)
<1>1. /\ C[w].state = "standingBy" /\ ~Busy(C[w])
      /\ \A v \in Workers \ {w} : C[v] = conn[v]
  BY InvParts DEF Waiting, Connection, Busy
<1>2. \A v, u \in Workers :
        Busy(conn[v]) /\ Busy(conn[u]) /\ conn[v].seg = conn[u].seg => v = u
  BY InvParts DEF Matches
<1> HIDE DEF C
<1>3. ASSUME NEW s \in Segments, L[s].state = "ASSIGNED_PENDING"
      PROVE  \E v \in Workers : C[v].state = "awaitingWorkACK" /\ C[v].seg = s
  <2>1. ~OwnPending(w, s) /\ L[s] = ledger[s]
    BY <1>3
  <2>2. PICK v \in Workers : conn[v].state = "awaitingWorkACK" /\ conn[v].seg = s
    BY <1>3, <2>1, InvParts DEF Matches
  <2> QED
    BY <1>1, <2>1, <2>2 DEF OwnPending
<1>4. ASSUME NEW v \in Workers
      PROVE  /\ Busy(C[v]) => C[v].seg \in Segments
             /\ C[v].state = "awaitingWorkACK" =>
                  /\ L[C[v].seg].state = "ASSIGNED_PENDING"
                  /\ L[C[v].seg].assignedTo = v
             /\ C[v].state = "awaitingResult" =>
                  \/ /\ L[C[v].seg].state = "ASSIGNED"
                     /\ L[C[v].seg].assignedTo = v
                  \/ L[C[v].seg].state = "SOLVED"
  <2>1. CASE v # w /\ Busy(conn[v])
    <3>1. conn[v].seg \in Segments
      BY <2>1, InvParts DEF Matches
    <3>2. ~OwnPending(w, conn[v].seg)
      BY <1>2, <2>1 DEF OwnPending, Busy
    <3>3. \/ L[conn[v].seg] = ledger[conn[v].seg]
          \/ /\ ledger[conn[v].seg].state = "ASSIGNED"
             /\ L[conn[v].seg].state = "SOLVED"
      BY <3>1, <3>2
    <3> QED
      BY <1>1, <2>1, <3>1, <3>3, InvParts DEF Matches
  <2>2. CASE v # w /\ ~Busy(conn[v])
    BY <1>1, <2>2 DEF Busy
  <2>3. CASE v = w
    BY <1>1, <2>3 DEF Busy
  <2> QED
    BY <2>1, <2>2, <2>3
<1>5. \A v, u \in Workers :
        Busy(C[v]) /\ Busy(C[u]) /\ C[v].seg = C[u].seg => v = u
  BY <1>1, <1>2
<1>6. \A s \in Segments :
        L[s].assignedTo = NoWorker <=> L[s].state \in {"UNASSIGNED", "SOLVED"}
  BY InvParts, WorkersAssumption DEF Matches, NoWorker
<1>7. Matches(C, L)
  BY <1>3, <1>4, <1>5, <1>6 DEF Matches
<1>8. Unassigned(L) \subseteq Unassigned(ledger)
  BY DEF Unassigned
<1> QED
  BY <1>7, <1>8 DEF C

(* The next subproblem may then be sent.                                   *)
LEMMA SendSubproblemIsGood ==
  ASSUME Inv, NEW w \in Workers, NEW c \in Connection, NEW early \in BOOLEAN,
         NEW L \in [Segments -> Subproblem],
         Matches(Waiting(w, c), L), Unassigned(L) \subseteq Unassigned(ledger),
         SendSubproblem(w, c, L, early)
  PROVE  Good
<1>1. TypeOK /\ WorkConserving
  BY DEF Inv
<1>2. TypedServer /\ Waiting(w, c) \in [Workers -> Connection]
      /\ Gives(Waiting(w, c), L)
  BY <1>1, SendSubproblemGives
<1>3. Matches(conn', ledger') /\ Conserves(conn', ledger')
  BY <1>2, GivesMatches DEF Gives
<1> QED
  BY <1>2, <1>3, GoodNext

-----------------------------------------------------------------------------
(* The handlers of datagrams.                                              *)

(* A Hello that opens a connection is good.                                *)
LEMMA AwaitingHelloIsGood ==
  ASSUME Inv, NEW w \in Workers, NEW m \in Message, NEW n \in Nat,
         AwaitingHello(w, m, n)
  PROVE  Good
<1> DEFINE c == Received(NoConnection, m, n)
<1>1. c \in Connection
  BY NoConnectionType, ReceivedType
<1>2. conn[w].state = "none" /\ SendSubproblem(w, c, ledger, FALSE)
  BY DEF AwaitingHello
<1>3. \A s \in Segments : ~OwnPending(w, s)
  BY <1>2 DEF OwnPending
<1> HIDE DEF c
<1> QED
  BY <1>1, <1>2, <1>3, InvParts, WaitingMatches, SendSubproblemIsGood

(* The handlers after which every connection holds what it held, and the   *)
(* ledger is as it was.                                                    *)
LEMMA QuietHandlersAreGood ==
  ASSUME Inv, NEW w \in Workers, NEW m \in Message, NEW n \in Nat,
         \/ HeartbeatAnswered(w, m, n)
         \/ Resend(w, m, n)
         \/ OtherAccepted(w, m, n)
         \/ Unexpected(w, m, n)
         \/ StandingBy(w, m, n)
         \/ Ignored(w, m, n)
         \/ UNCHANGED <<ledger, conn, toWorker>>
  PROVE  Good
<1>1. conn[w] \in Connection /\ conn[w].sent \in Message
  BY InvParts DEF Connection
<1>2. ASSUME NEW d \in Connection, Holding(conn[w], d),
             conn' = [conn EXCEPT ![w] = d], ledger' = ledger,
             toWorker' \in [Workers -> SUBSET Message]
      PROVE  Good
  <2>1. TypedServer
    BY <1>2, InvParts DEF TypedServer
  <2>2. \A v \in Workers : Holding(conn[v], conn'[v])
    BY <1>2, InvParts DEF Holding
  <2> QED
    BY <1>2, <2>1, <2>2, HoldingIsGood
<1>3. CASE HeartbeatAnswered(w, m, n)
  <2>1. toWorker' \in [Workers -> SUBSET Message]
    BY <1>3, InvParts, Bares DEF HeartbeatAnswered, Sending
  <2>2. UNCHANGED <<conn, ledger>>
    BY <1>3 DEF HeartbeatAnswered, serverVars
  <2>3. conn' = [conn EXCEPT ![w] = conn[w]]
    BY <2>2, InvParts
  <2> QED
    BY <1>1, <1>2, <2>1, <2>2, <2>3 DEF Holding
<1>4. CASE Resend(w, m, n)
  <2>1. Resent(conn[w]) \in Connection /\ Holding(conn[w], Resent(conn[w]))
    BY <1>1 DEF Resent, Connection, Holding
  <2>2. toWorker' \in [Workers -> SUBSET Message]
    BY <1>1, <1>4, InvParts DEF Resend, Sending
  <2>3. conn' = [conn EXCEPT ![w] = Resent(conn[w])] /\ ledger' = ledger
    BY <1>4, InvParts DEF Resend
  <2> QED
    BY <1>2, <2>1, <2>2, <2>3
<1>5. CASE OtherAccepted(w, m, n)
  <2> DEFINE d == Unwatched(Received(conn[w], m, n))
  <2>1. d \in Connection /\ Holding(conn[w], d)
    BY <1>1, ReceivedType, UnwatchedType DEF Holding
  <2>2. conn' = [conn EXCEPT ![w] = d] /\ UNCHANGED <<ledger, toWorker>>
    BY <1>5, InvParts DEF OtherAccepted
  <2> QED
    BY <1>2, <2>1, <2>2, InvParts
<1>6. CASE Unexpected(w, m, n)
  <2> DEFINE d == [conn[w] EXCEPT !.repeat = MaxRepeats]
  <2>1. d \in Connection /\ Holding(conn[w], d)
    BY <1>1, RepeatsAssumption DEF Holding, Connection
  <2>2. conn' = [conn EXCEPT ![w] = d] /\ UNCHANGED <<ledger, toWorker>>
    BY <1>6, InvParts DEF Unexpected
  <2> QED
    BY <1>2, <2>1, <2>2, InvParts
<1>7. ASSUME UNCHANGED <<ledger, conn, toWorker>>
      PROVE  Good
  BY <1>1, <1>2, <1>7, InvParts DEF Holding
<1> QED
  BY <1>3, <1>4, <1>5, <1>6, <1>7 DEF StandingBy, Ignored, serverVars

(* assign() changes one subproblem, to ASSIGNED.                           *)
LEMMA AssignFacts ==
  ASSUME NEW L \in [Segments -> Subproblem], NEW s \in Segments,
         NEW w \in Workers
  PROVE  /\ Assign(L, s, w) \in [Segments -> Subproblem]
         /\ Assign(L, s, w)[s].state = "ASSIGNED"
         /\ Assign(L, s, w)[s].assignedTo = w
         /\ Assign(L, s, w)[s].pointsHit = L[s].pointsHit
         /\ \A t \in Segments \ {s} : Assign(L, s, w)[t] = L[t]
BY DEF Assign, Subproblem, SubproblemState

(* markSolved() changes one subproblem, to SOLVED with the hits.           *)
LEMMA MarkSolvedFacts ==
  ASSUME NEW L \in [Segments -> Subproblem], NEW s \in Segments, NEW h \in Nat
  PROVE  /\ MarkSolved(L, s, h) \in [Segments -> Subproblem]
         /\ MarkSolved(L, s, h)[s].state = "SOLVED"
         /\ MarkSolved(L, s, h)[s].assignedTo = NoWorker
         /\ MarkSolved(L, s, h)[s].pointsHit = h
         /\ \A t \in Segments \ {s} : MarkSolved(L, s, h)[t] = L[t]
BY DEF MarkSolved, Subproblem, SubproblemState

(* The hits of a message are a number.                                     *)
LEMMA HitsAreNat ==
  ASSUME NEW m \in Message
  PROVE  m.hits \in Nat
<1>1. m.hits \in HitCounts \/ m.hits = 0
  BY DEF Message
<1>2. HitCounts \subseteq Nat
  BY HitsAssumption
<1>3. CASE m.hits \in HitCounts
  BY <1>2, <1>3
<1>4. CASE m.hits = 0
  BY <1>4
<1> QED
  BY <1>1, <1>3, <1>4

(* assign() does not throw: this is where its precondition comes from.     *)
LEMMA PendingIsOwn ==
  ASSUME Inv, NEW w \in Workers, conn[w].state = "awaitingWorkACK"
  PROVE  /\ conn[w].seg \in Segments
         /\ CanAssign(ledger, conn[w].seg)
         /\ ledger[conn[w].seg].assignedTo = w
BY InvParts DEF Matches, Busy, CanAssign

(* An ACK of Work is good.                                                 *)
LEMMA WorkAcknowledgedIsGood ==
  ASSUME Inv, NEW w \in Workers, NEW m \in Message, NEW n \in Nat,
         WorkAcknowledged(w, m, n)
  PROVE  Good
<1> DEFINE s == conn[w].seg
           d == [Unwatched(Received(conn[w], m, n)) EXCEPT
                   !.state = "awaitingResult", !.hb = TRUE]
<1>1. conn[w] \in Connection
  BY InvParts
<1>2. /\ conn[w].state = "awaitingWorkACK"
      /\ conn' = [conn EXCEPT ![w] = d]
      /\ ledger' = Assign(ledger, s, w)
      /\ UNCHANGED toWorker
  BY <1>1 DEF WorkAcknowledged
<1>3. s \in Segments /\ ledger[s].state = "ASSIGNED_PENDING"
  BY <1>2, PendingIsOwn DEF CanAssign
<1>4. d \in Connection /\ d.state = "awaitingResult" /\ d.seg = s
  <2> DEFINE e == Unwatched(Received(conn[w], m, n))
  <2>1. e \in Connection /\ e.seg = s
    BY <1>1, ReceivedType, UnwatchedType
  <2> HIDE DEF e
  <2>2. /\ [e EXCEPT !.state = "awaitingResult", !.hb = TRUE] \in Connection
        /\ [e EXCEPT !.state = "awaitingResult", !.hb = TRUE].state
              = "awaitingResult"
        /\ [e EXCEPT !.state = "awaitingResult", !.hb = TRUE].seg = s
    BY <2>1 DEF Connection, ConnectionState
  <2> QED
    BY <2>2 DEF e
<1> HIDE DEF d
<1>5. /\ conn'[w].state = "awaitingResult" /\ conn'[w].seg = s
      /\ \A v \in Workers \ {w} : conn'[v] = conn[v]
      /\ conn' \in [Workers -> Connection]
  BY <1>2, <1>4, InvParts
<1>6. /\ ledger'[s].state = "ASSIGNED" /\ ledger'[s].assignedTo = w
      /\ \A t \in Segments \ {s} : ledger'[t] = ledger[t]
      /\ ledger' \in [Segments -> Subproblem]
  BY <1>2, <1>3, InvParts, AssignFacts
<1>7. \A v, u \in Workers :
        Busy(conn[v]) /\ Busy(conn[u]) /\ conn[v].seg = conn[u].seg => v = u
  BY InvParts DEF Matches
<1>8. Busy(conn[w])
  BY <1>2 DEF Busy
<1>9. ASSUME NEW t \in Segments, ledger'[t].state = "ASSIGNED_PENDING"
      PROVE  \E v \in Workers : /\ conn'[v].state = "awaitingWorkACK"
                                /\ conn'[v].seg = t
  <2>1. t # s /\ ledger[t].state = "ASSIGNED_PENDING"
    BY <1>6, <1>9
  <2>2. PICK v \in Workers : conn[v].state = "awaitingWorkACK" /\ conn[v].seg = t
    BY <2>1, InvParts DEF Matches
  <2> QED
    BY <1>5, <2>1, <2>2
<1>10. ASSUME NEW v \in Workers
       PROVE  /\ Busy(conn'[v]) => conn'[v].seg \in Segments
              /\ conn'[v].state = "awaitingWorkACK" =>
                   /\ ledger'[conn'[v].seg].state = "ASSIGNED_PENDING"
                   /\ ledger'[conn'[v].seg].assignedTo = v
              /\ conn'[v].state = "awaitingResult" =>
                   \/ /\ ledger'[conn'[v].seg].state = "ASSIGNED"
                      /\ ledger'[conn'[v].seg].assignedTo = v
                   \/ ledger'[conn'[v].seg].state = "SOLVED"
  <2>1. CASE v = w
    BY <1>3, <1>5, <1>6, <2>1
  <2>2. CASE v # w /\ Busy(conn[v])
    <3>1. conn[v].seg \in Segments /\ conn[v].seg # s
      BY <1>7, <1>8, <2>2, InvParts DEF Matches
    <3> QED
      BY <1>5, <1>6, <2>2, <3>1, InvParts DEF Matches
  <2>3. CASE v # w /\ ~Busy(conn[v])
    BY <1>5, <2>3 DEF Busy
  <2> QED
    BY <2>1, <2>2, <2>3
<1>11. \A v, u \in Workers :
         Busy(conn'[v]) /\ Busy(conn'[u]) /\ conn'[v].seg = conn'[u].seg => v = u
  BY <1>5, <1>7, <1>8
<1>12. \A t \in Segments :
         ledger'[t].assignedTo = NoWorker
           <=> ledger'[t].state \in {"UNASSIGNED", "SOLVED"}
  BY <1>6, InvParts, WorkersAssumption DEF Matches, NoWorker
<1>13. Matches(conn', ledger')
  BY <1>9, <1>10, <1>11, <1>12 DEF Matches
<1>14. Conserves(conn', ledger')
  <2>1. Unassigned(ledger') \subseteq Unassigned(ledger)
    BY <1>6 DEF Unassigned
  <2> QED
    BY <1>5, <2>1, InvParts DEF Conserves
<1>15. TypedServer
  BY <1>2, <1>5, <1>6, InvParts DEF TypedServer
<1> QED
  BY <1>13, <1>14, <1>15, GoodNext

(* A Result that overtakes the ACK, assigned and solved at once, is good.  *)
LEMMA EarlyResultIsGood ==
  ASSUME Inv, NEW w \in Workers, NEW m \in Message, NEW n \in Nat,
         EarlyResult(w, m, n)
  PROVE  Good
<1> DEFINE s == conn[w].seg
           A == Assign(ledger, s, w)
           L == MarkSolved(A, m.seg, m.hits)
           c == Received(conn[w], m, n)
<1>1. CASE UNCHANGED <<ledger, conn, toWorker>>
  BY <1>1, QuietHandlersAreGood
<1>2. CASE CanMarkSolved(A, m.seg) /\ SendSubproblem(w, c, L, TRUE)
  <2>1. conn[w].state = "awaitingWorkACK" /\ s \in Segments
    BY PendingIsOwn DEF EarlyResult
  <2>2. /\ A \in [Segments -> Subproblem]
        /\ A[s].state = "ASSIGNED" /\ A[s].assignedTo = w
        /\ \A t \in Segments \ {s} : A[t] = ledger[t]
    BY <2>1, InvParts, AssignFacts
  <2>3. m.seg \in Segments /\ A[m.seg].state = "ASSIGNED"
    BY <1>2 DEF CanMarkSolved
  <2> HIDE DEF A
  <2>4. /\ L \in [Segments -> Subproblem]
        /\ L[m.seg].state = "SOLVED" /\ L[m.seg].assignedTo = NoWorker
        /\ \A t \in Segments \ {m.seg} : L[t] = A[t]
    BY <2>2, <2>3, HitsAreNat, MarkSolvedFacts
  <2>5. c \in Connection
    BY InvParts, ReceivedType
  <2> HIDE DEF L, c
  <2>6. \A t \in Segments :
          /\ OwnPending(w, t) => L[t].state # "ASSIGNED_PENDING"
          /\ \/ L[t] = ledger[t]
             \/ /\ OwnPending(w, t)
                /\ L[t].state = "ASSIGNED" /\ L[t].assignedTo = w
             \/ /\ OwnPending(w, t) \/ ledger[t].state = "ASSIGNED"
                /\ L[t].state = "SOLVED" /\ L[t].assignedTo = NoWorker
    BY <2>1, <2>2, <2>3, <2>4 DEF OwnPending
  <2>7. /\ Matches(Waiting(w, c), L)
        /\ Unassigned(L) \subseteq Unassigned(ledger)
    BY <2>4, <2>5, <2>6, WaitingMatches
  <2> QED
    BY <1>2, <2>4, <2>5, <2>7, SendSubproblemIsGood
<1> QED
  BY <1>1, <1>2 DEF EarlyResult

(* A Result is good, also one that names a subproblem another connection   *)
(* holds.                                                                  *)
LEMMA ResultReceivedIsGood ==
  ASSUME Inv, NEW w \in Workers, NEW m \in Message, NEW n \in Nat,
         ResultReceived(w, m, n)
  PROVE  Good
<1> DEFINE L == MarkSolved(ledger, m.seg, m.hits)
           c == Received(conn[w], m, n)
<1>1. CASE UNCHANGED <<ledger, conn, toWorker>>
  BY <1>1, QuietHandlersAreGood
<1>2. CASE CanMarkSolved(ledger, m.seg) /\ SendSubproblem(w, c, L, FALSE)
  <2>1. \A t \in Segments : ~OwnPending(w, t)
    BY DEF ResultReceived, OwnPending
  <2>2. m.seg \in Segments /\ ledger[m.seg].state = "ASSIGNED"
    BY <1>2 DEF CanMarkSolved
  <2>3. /\ L \in [Segments -> Subproblem]
        /\ L[m.seg].state = "SOLVED" /\ L[m.seg].assignedTo = NoWorker
        /\ \A t \in Segments \ {m.seg} : L[t] = ledger[t]
    BY <2>2, InvParts, HitsAreNat, MarkSolvedFacts
  <2>4. c \in Connection
    BY InvParts, ReceivedType
  <2> HIDE DEF L, c
  <2>5. /\ Matches(Waiting(w, c), L)
        /\ Unassigned(L) \subseteq Unassigned(ledger)
    BY <2>1, <2>2, <2>3, <2>4, WaitingMatches
  <2> QED
    BY <1>2, <2>3, <2>4, <2>5, SendSubproblemIsGood
<1> QED
  BY <1>1, <1>2 DEF ResultReceived

(* An Interrupt of a worker is good.                                       *)
LEMMA WorkerInterruptedIsGood ==
  ASSUME Inv, NEW w \in Workers, NEW m \in Message, NEW n \in Nat,
         WorkerInterrupted(w, m, n)
  PROVE  Good
<1>1. Delete(conn, {w}, toWorker)
  BY DEF WorkerInterrupted
<1>2. \A v \in Workers : Holding(conn[v], conn[v])
  BY DEF Holding
<1> QED
  BY <1>1, <1>2, InvParts, DeleteIsGood

(* ServerManager::handleMessage is good for every datagram.                *)
LEMMA HandleMessageIsGood ==
  ASSUME Inv, NEW w \in Workers, HandleMessage(w)
  PROVE  Good
<1>1. PICK m \in toMain[w] : \E n \in SequenceRead(m) :
        \/ AwaitingHello(w, m, n) \/ HeartbeatAnswered(w, m, n)
        \/ WorkerInterrupted(w, m, n) \/ Resend(w, m, n)
        \/ WorkAcknowledged(w, m, n) \/ EarlyResult(w, m, n)
        \/ OtherAccepted(w, m, n) \/ ResultReceived(w, m, n)
        \/ Unexpected(w, m, n) \/ StandingBy(w, m, n) \/ Ignored(w, m, n)
  BY DEF HandleMessage, HandleMessageOf
<1>2. m \in Message
  BY InvParts
<1>3. PICK n \in SequenceRead(m) :
        \/ AwaitingHello(w, m, n) \/ HeartbeatAnswered(w, m, n)
        \/ WorkerInterrupted(w, m, n) \/ Resend(w, m, n)
        \/ WorkAcknowledged(w, m, n) \/ EarlyResult(w, m, n)
        \/ OtherAccepted(w, m, n) \/ ResultReceived(w, m, n)
        \/ Unexpected(w, m, n) \/ StandingBy(w, m, n) \/ Ignored(w, m, n)
  BY <1>1
<1>4. n \in Nat
  BY <1>2, SequenceIsNat
<1> QED
  BY <1>2, <1>3, <1>4, AwaitingHelloIsGood, WorkerInterruptedIsGood,
     WorkAcknowledgedIsGood, EarlyResultIsGood, ResultReceivedIsGood,
     QuietHandlersAreGood

-----------------------------------------------------------------------------
(* Timers and signals of the server.                                       *)

(* The expiry of a timer of the server is good.                            *)
LEMMA ExpireIsGood ==
  ASSUME Inv, NEW w \in Workers, ExpireResp(w) \/ ExpireHb(w),
         UNCHANGED toWorker
  PROVE  Good
<1> DEFINE d == IF ExpireResp(w) THEN [conn[w] EXCEPT !.resp = FALSE]
                                 ELSE [conn[w] EXCEPT !.hb = FALSE]
<1>1. conn[w] \in Connection
  BY InvParts
<1>2. conn' = [conn EXCEPT ![w] = d] /\ ledger' = ledger
  BY InvParts DEF ExpireResp, ExpireHb
<1>3. d \in Connection /\ Holding(conn[w], d)
  <2>1. [conn[w] EXCEPT !.resp = FALSE] \in Connection
        /\ Holding(conn[w], [conn[w] EXCEPT !.resp = FALSE])
    BY <1>1 DEF Connection, Holding
  <2>2. [conn[w] EXCEPT !.hb = FALSE] \in Connection
        /\ Holding(conn[w], [conn[w] EXCEPT !.hb = FALSE])
    BY <1>1 DEF Connection, Holding
  <2> QED
    BY <2>1, <2>2
<1> HIDE DEF d
<1>4. TypedServer
  BY <1>2, <1>3, InvParts DEF TypedServer
<1>5. \A v \in Workers : Holding(conn[v], conn'[v])
  BY <1>2, <1>3, InvParts DEF Holding
<1> QED
  BY <1>2, <1>4, <1>5, HoldingIsGood

(* ServerManager::handleTimeout is good.                                   *)
LEMMA HandleTimeoutIsGood ==
  ASSUME Inv, NEW w \in Workers, HandleTimeout(w)
  PROVE  Good
<1> DEFINE late == {v \in Pool : ~conn[v].resp}
           lost == {v \in late : LastChance(conn[v])}
           C == [v \in Workers |-> IF v \in late \ lost THEN TimedOut(conn[v])
                                                        ELSE conn[v]]
           T == [v \in Workers |->
                   IF v \in late \ lost THEN toWorker[v] \union {conn[v].sent}
                                        ELSE toWorker[v]]
<1>1. Delete(C, lost, T)
  BY DEF HandleTimeout
<1>2. lost \in SUBSET Workers
  BY DEF Pool
<1>3. \A v \in Workers : conn[v] \in Connection /\ conn[v].sent \in Message
  BY InvParts DEF Connection
<1>4. \A v \in late \ lost : ~LastChance(conn[v])
  OBVIOUS
<1>5. T \in [Workers -> SUBSET Message]
  BY <1>3, InvParts
<1> HIDE DEF late, lost
<1>6. C \in [Workers -> Connection]
  BY <1>3, <1>4, TimedOutType
<1>7. \A v \in Workers : v \notin lost => Holding(conn[v], C[v])
  BY <1>3, <1>4, TimedOutType DEF Holding
<1> HIDE DEF C, T
<1> QED
  BY <1>1, <1>2, <1>5, <1>6, <1>7, DeleteIsGood

(* ServerManager::handleHeartbeatTimeout is good.                          *)
LEMMA HandleHeartbeatTimeoutIsGood ==
  ASSUME Inv, NEW w \in Workers, HandleHeartbeatTimeout(w)
  PROVE  Good
<1> DEFINE lost == {v \in Pool : ~conn[v].hb}
<1>1. Delete(conn, lost, toWorker)
  BY DEF HandleHeartbeatTimeout
<1>2. lost \in SUBSET Workers
  BY DEF Pool
<1>3. \A v \in Workers : Holding(conn[v], conn[v])
  BY DEF Holding
<1> HIDE DEF lost
<1> QED
  BY <1>1, <1>2, <1>3, InvParts, DeleteIsGood

(* SIGINT at the server, which empties the pool, is good.                  *)
LEMMA HandleInterruptIsGood ==
  ASSUME Inv, HandleInterrupt
  PROVE  Good
<1>1. /\ conn' = Without(conn, Pool)
      /\ ledger' = GivenBack(Pool)
      /\ toWorker' \in [Workers -> SUBSET Message]
  BY InvParts, Bares DEF HandleInterrupt
<1>2. /\ Pool \in SUBSET Workers
      /\ \A v \in Workers : Holding(conn[v], conn[v])
  BY DEF Pool, Holding
<1>3. /\ conn' \in [Workers -> Connection]
      /\ ledger' \in [Segments -> Subproblem]
      /\ Matches(conn', ledger')
  BY <1>1, <1>2, InvParts, DeletedMatches
<1>4. \A v \in Workers : conn'[v].state # "standingBy"
  BY <1>1, InvParts DEF Without, Pool, NoConnection
<1>5. Conserves(conn', ledger')
  BY <1>4 DEF Conserves
<1> QED
  BY <1>1, <1>3, <1>5, GoodNext DEF TypedServer

(* The end of the loop is good.                                            *)
LEMMA FinishIsGood ==
  ASSUME Inv, Finish
  PROVE  Good
<1>1. conn' = conn /\ ledger' = ledger
  BY DEF Finish
<1>2. toWorker' \in [Workers -> SUBSET Message]
  <2>1. \A w \in Workers : Numbered("Close", conn[w].next) \in Message
    BY InvParts, Bares DEF Connection
  <2> QED
    BY <2>1, InvParts DEF Finish
<1>3. TypedServer /\ \A v \in Workers : Holding(conn[v], conn'[v])
  BY <1>1, <1>2, InvParts DEF TypedServer, Holding
<1> QED
  BY <1>1, <1>3, HoldingIsGood

-----------------------------------------------------------------------------
(* The rest of TypeOK: what the handlers do outside the pool and the       *)
(* ledger, the worker processes, and the datagrams on their way.           *)

TypedRest ==
  /\ toMain \in [Workers -> SUBSET Message]
  /\ phase \in Phase
  /\ sigResp \in SUBSET Workers
  /\ sigHb \in SUBSET Workers
  /\ opened \in [Workers -> Nat]
  /\ worker \in [Workers -> Process]

(* The invariant types the variables a good step says nothing of.          *)
LEMMA InvHasRest ==
  ASSUME Inv
  PROVE  TypedRest
BY DEF Inv, TypeOK, NetworkTypeOK, ServerTypeOK, WorkerTypeOK, TypedRest

(* A good step that types those too preserves the invariant.               *)
LEMMA InvNext ==
  ASSUME Good, TypedRest'
  PROVE  Inv'
BY DEF Good, TypedServer, TypedRest, Inv, TypeOK, NetworkTypeOK, ServerTypeOK,
       ConnTypeOK, LedgerTypeOK, WorkerTypeOK

(* Handling a datagram keeps the other variables well typed.               *)
LEMMA HandleMessageRest ==
  ASSUME Inv, NEW w \in Workers, HandleMessage(w), UNCHANGED worker
  PROVE  TypedRest'
<1>1. PICK m \in toMain[w] : \E n \in SequenceRead(m) :
        /\ toMain' = Receiving(toMain, w, m)
        /\ \/ AwaitingHello(w, m, n) \/ HeartbeatAnswered(w, m, n)
           \/ WorkerInterrupted(w, m, n) \/ Resend(w, m, n)
           \/ WorkAcknowledged(w, m, n) \/ EarlyResult(w, m, n)
           \/ OtherAccepted(w, m, n) \/ ResultReceived(w, m, n)
           \/ Unexpected(w, m, n) \/ StandingBy(w, m, n) \/ Ignored(w, m, n)
  BY DEF HandleMessage, HandleMessageOf
<1>2. toMain' \in [Workers -> SUBSET Message]
  BY <1>1, InvHasRest DEF TypedRest, Receiving
<1>3. sigResp' = sigResp /\ sigHb' = sigHb
  BY <1>1 DEF AwaitingHello, HeartbeatAnswered, WorkerInterrupted, Resend,
       WorkAcknowledged, EarlyResult, OtherAccepted, ResultReceived,
       Unexpected, StandingBy, Ignored, serverVars
<1>4. phase' \in {phase, "threwMarkSolved", "abortedStandingBy"}
  BY <1>1 DEF AwaitingHello, HeartbeatAnswered, WorkerInterrupted, Resend,
       WorkAcknowledged, EarlyResult, OtherAccepted, ResultReceived,
       Unexpected, StandingBy, Ignored, serverVars
<1>5. opened' = opened \/ opened' = [opened EXCEPT ![w] = @ + 1]
  BY <1>1 DEF AwaitingHello, HeartbeatAnswered, WorkerInterrupted, Resend,
       WorkAcknowledged, EarlyResult, OtherAccepted, ResultReceived,
       Unexpected, StandingBy, Ignored, serverVars
<1>6. opened' \in [Workers -> Nat]
  BY <1>5, InvHasRest DEF TypedRest
<1>7. phase' \in Phase
  BY <1>4, InvHasRest DEF TypedRest, Phase
<1> QED
  BY <1>2, <1>3, <1>6, <1>7, InvHasRest DEF TypedRest

(* So do the timers, SIGINT and the end of the server.                     *)
LEMMA ServerTimersRest ==
  ASSUME Inv, NEW w \in Workers, UNCHANGED worker,
         \/ (ExpireResp(w) \/ ExpireHb(w)) /\ UNCHANGED netVars
         \/ HandleTimeout(w)
         \/ HandleHeartbeatTimeout(w)
         \/ HandleInterrupt
         \/ Finish
  PROVE  TypedRest'
<1>1. toMain' = toMain /\ opened' = opened
  BY DEF ExpireResp, ExpireHb, HandleTimeout, HandleHeartbeatTimeout,
         HandleInterrupt, Finish, netVars
<1>2. phase' \in {phase, "interrupted", "finished"}
  BY DEF ExpireResp, ExpireHb, HandleTimeout, HandleHeartbeatTimeout,
         HandleInterrupt, Finish
<1>3. /\ sigResp' \in {sigResp, sigResp \union {w}, sigResp \ {w}}
      /\ sigHb' \in {sigHb, sigHb \union {w}, sigHb \ {w}}
  BY DEF ExpireResp, ExpireHb, HandleTimeout, HandleHeartbeatTimeout,
         HandleInterrupt, Finish
<1> QED
  BY <1>1, <1>2, <1>3, InvHasRest DEF TypedRest, Phase

(* ConnectionWorker::sendMessage keeps a process well typed.               *)
LEMMA SentType ==
  ASSUME NEW p \in Process, NEW m \in Message, NEW b \in BOOLEAN
  PROVE  Sent(p, m, b) \in Process
<1>1. p.next + 1 \in Nat /\ (p.resp \/ b) \in BOOLEAN
  BY DEF Process
<1> QED
  BY <1>1 DEF Sent, Process

(* So does accepting a message.                                            *)
LEMMA AcceptedType ==
  ASSUME NEW p \in Process, NEW n \in Nat
  PROVE  Accepted(p, n) \in Process
<1>1. n + 1 \in Nat /\ WorkerRepeats \in 1..WorkerRepeats
  BY WorkerRepeatsAssumption
<1> QED
  BY <1>1 DEF Accepted, Process

(* A process is well typed before it starts and after it ended.            *)
LEMMA NewProcessType == NotStarted \in Process /\ Ended \in Process
<1>1. NotStarted \in Process
  BY InvalidIsMessage, WorkerRepeatsAssumption
     DEF NotStarted, Process, WorkerState
<1> QED
  BY <1>1 DEF Ended, Process, WorkerState

(* A step of one worker: its process and what it sends have their types.   *)
LEMMA WorkerRest ==
  ASSUME Inv, NEW w \in Workers, NEW p \in Process,
         worker' = [worker EXCEPT ![w] = p], UNCHANGED serverVars,
         \/ UNCHANGED toMain
         \/ \E m \in Message : toMain' = Sending(toMain, w, m)
  PROVE  TypedRest'
<1>1. toMain' \in [Workers -> SUBSET Message]
  BY InvHasRest DEF TypedRest, Sending
<1>2. worker' \in [Workers -> Process]
  BY InvHasRest DEF TypedRest
<1> QED
  BY <1>1, <1>2, InvHasRest DEF TypedRest, serverVars

(* A process that received Work is well typed and has sent a message.      *)
LEMMA EmployedType ==
  ASSUME NEW p \in Process, NEW s \in Segments \union {0}
  PROVE  Employed(p, s) \in Process /\ Employed(p, s).sent \in Message
<1> DEFINE q == Sent(p, Numbered("ACK", p.next), FALSE)
<1>1. q \in Process
  BY SentType, Bares DEF Process
<1> HIDE DEF q
<1>2. LET e == [q EXCEPT !.state = "Working", !.thread = "running", !.seg = s,
                         !.hb = TRUE, !.hbt = TRUE]
      IN  e \in Process
  BY <1>1 DEF Process, WorkerState
<1>3. Employed(p, s) \in Process
  BY <1>2 DEF Employed, q
<1> QED
  BY <1>3 DEF Process

(* ConnectionWorker::handleMessage keeps the other variables well typed.   *)
LEMMA WorkerHandleMessageRest ==
  ASSUME Inv, NEW w \in Workers, WorkerHandleMessage(w), UNCHANGED serverVars
  PROVE  TypedRest'
<1>1. PICK m \in toWorker[w] : \E n \in SequenceRead(m) :
        \/ Dismissed(w, m, n) \/ ResendByWorker(w, m, n)
        \/ WorkReceived(w, m, n) \/ OtherReceived(w, m, n)
        \/ Dropped(w, m, n) \/ Overlooked(w, m, n)
  BY DEF WorkerHandleMessage, WorkerHandleMessageOf
<1>2. PICK n \in SequenceRead(m) :
        \/ Dismissed(w, m, n) \/ ResendByWorker(w, m, n)
        \/ WorkReceived(w, m, n) \/ OtherReceived(w, m, n)
        \/ Dropped(w, m, n) \/ Overlooked(w, m, n)
  BY <1>1
<1>3. m \in Message /\ m.seg \in Segments \union {0}
  BY InvParts DEF Message
<1>4. n \in Nat
  BY <1>3, SequenceIsNat
<1>5. /\ worker \in [Workers -> Process]
      /\ worker[w] \in Process
      /\ worker[w].sent \in Message
  BY InvHasRest DEF TypedRest, Process
<1>6. Accepted(worker[w], n) \in Process
  BY <1>4, <1>5, AcceptedType
<1>7. CASE Dismissed(w, m, n)
  BY <1>7, NewProcessType, WorkerRest DEF Dismissed
<1>8. CASE ResendByWorker(w, m, n)
  <2> DEFINE p == [worker[w] EXCEPT !.resp = @ \/ worker[w].sent.tag # "ACK"]
  <2>1. p \in Process
    BY <1>5 DEF Process
  <2>2. worker' = [worker EXCEPT ![w] = p]
    BY <1>5, <1>8 DEF ResendByWorker
  <2> HIDE DEF p
  <2> QED
    BY <1>5, <1>8, <2>1, <2>2, WorkerRest DEF ResendByWorker
<1>9. CASE WorkReceived(w, m, n)
  <2> DEFINE e == Employed(Accepted(worker[w], n), m.seg)
             p == [e EXCEPT !.resp = @ /\ worker[w].state = "StandingBy"]
  <2>1. e \in Process /\ e.sent \in Message
    BY <1>3, <1>6, EmployedType
  <2>2. worker' = [worker EXCEPT ![w] = p] /\ toMain' = Sending(toMain, w, e.sent)
    BY <1>9 DEF WorkReceived
  <2> HIDE DEF e
  <2>3. p \in Process
    BY <2>1 DEF Process
  <2> HIDE DEF p
  <2> QED
    BY <2>1, <2>2, <2>3, WorkerRest
<1>10. CASE OtherReceived(w, m, n)
  <2> DEFINE a == Accepted(worker[w], n)
             p == [a EXCEPT !.state = IF m.tag = "ACK" THEN "StandingBy"
                                          ELSE "AwaitingWorkOrACK",
                            !.resp = FALSE, !.hb = TRUE, !.hbt = TRUE]
  <2>1. worker' = [worker EXCEPT ![w] = p] /\ UNCHANGED toMain
    BY <1>5, <1>10 DEF OtherReceived
  <2>2. a \in Process
    BY <1>6
  <2> HIDE DEF a
  <2>3. p \in Process
    BY <2>2 DEF Process, WorkerState
  <2> HIDE DEF p
  <2> QED
    BY <2>1, <2>3, WorkerRest
<1>11. CASE Dropped(w, m, n)
  <2>1. worker' = [worker EXCEPT ![w] = Accepted(worker[w], n)]
    BY <1>5, <1>11 DEF Dropped
  <2> QED
    BY <1>6, <1>11, <2>1, WorkerRest DEF Dropped
<1>12. CASE Overlooked(w, m, n)
  BY <1>12, InvHasRest DEF Overlooked, TypedRest, serverVars
<1> QED
  BY <1>2, <1>7, <1>8, <1>9, <1>10, <1>11, <1>12

(* So does every step of a worker.                                         *)
LEMMA WorkerStepRest ==
  ASSUME Inv, NEW w \in Workers, WorkerStep(w), UNCHANGED serverVars
  PROVE  TypedRest'
<1>1. /\ worker \in [Workers -> Process]
      /\ worker[w] \in Process
      /\ worker[w].sent \in Message /\ worker[w].next \in Nat
      /\ worker[w].seg \in Segments \union {0}
  BY InvHasRest DEF TypedRest, Process
<1>2. Bare("Interrupt") \in Message /\ Bare("Heartbeat") \in Message
  BY Bares
<1>3. CASE Start(w)
  <2> DEFINE hello == Numbered("Hello", NotStarted.next)
             q == Sent(worker[w], hello, TRUE)
             p == [q EXCEPT !.state = "AwaitingWorkOrACK"]
  <2>1. hello \in Message
    BY Bares, NewProcessType DEF Process
  <2>2. q \in Process
    BY <1>1, <2>1, SentType
  <2>3. worker' = [worker EXCEPT ![w] = p] /\ toMain' = Sending(toMain, w, hello)
    BY <1>1, <1>3 DEF Start
  <2> HIDE DEF q, hello
  <2>4. p \in Process
    BY <2>2 DEF Process, WorkerState
  <2> HIDE DEF p
  <2> QED
    BY <2>1, <2>3, <2>4, WorkerRest
<1>4. CASE WorkerHandleTimeout(w)
  <2> DEFINE p == [worker[w] EXCEPT !.repeat = @ - 1, !.resp = TRUE,
                                    !.sigResp = FALSE]
  <2>1. CASE /\ worker' = [worker EXCEPT ![w] = Ended]
             /\ toMain' = Sending(toMain, w, Bare("Interrupt"))
    BY <1>2, <2>1, NewProcessType, WorkerRest
  <2>2. CASE /\ worker[w].repeat > 1
             /\ worker' = [worker EXCEPT ![w].repeat = @ - 1, ![w].resp = TRUE,
                                         ![w].sigResp = FALSE]
             /\ toMain' = Sending(toMain, w, worker[w].sent)
    <3>1. worker[w].repeat - 1 \in 1..WorkerRepeats
      BY <1>1, <2>2, WorkerRepeatsAssumption DEF Process
    <3>2. p \in Process
      BY <1>1, <3>1 DEF Process
    <3>3. worker' = [worker EXCEPT ![w] = p]
      BY <1>1, <2>2
    <3> HIDE DEF p
    <3> QED
      BY <1>1, <2>2, <3>2, <3>3, WorkerRest
  <2> QED
    BY <1>4, <2>1, <2>2 DEF WorkerHandleTimeout
<1>5. CASE WorkerHandleHeartbeatTimeout(w)
  <2>2. CASE worker[w].hb
    <3>1. worker' = [worker EXCEPT ![w] = Ended] /\ UNCHANGED toMain
      BY <1>5, <2>2 DEF WorkerHandleHeartbeatTimeout, netVars
    <3> QED
      BY <3>1, NewProcessType, WorkerRest
  <2>3. CASE ~worker[w].hb
    <3> DEFINE q == [worker[w] EXCEPT !.sigHbt = FALSE]
    <3>1. worker' = [worker EXCEPT ![w] = q] /\ UNCHANGED toMain
      BY <1>5, <2>3 DEF WorkerHandleHeartbeatTimeout, netVars
    <3>2. q \in Process
      BY <1>1 DEF Process
    <3> HIDE DEF q
    <3> QED
      BY <3>1, <3>2, WorkerRest
  <2> QED
    BY <2>2, <2>3
<1>6. CASE HandleHeartbeat(w)
  <2>1. worker' = [worker EXCEPT ![w] = worker[w]]
    BY <1>1, <1>6 DEF HandleHeartbeat
  <2> QED
    BY <1>1, <1>2, <1>6, <2>1, WorkerRest DEF HandleHeartbeat
<1>7. CASE Count(w)
  <2> DEFINE p == [worker[w] EXCEPT !.thread = "done"]
  <2>1. p \in Process /\ worker' = [worker EXCEPT ![w] = p] /\ UNCHANGED toMain
    BY <1>1, <1>7 DEF Count, Process, netVars
  <2> HIDE DEF p
  <2> QED
    BY <2>1, WorkerRest
<1>8. CASE SendResult(w)
  <2>1. PICK h \in HitCounts :
          LET result == Result(worker[w].next, worker[w].seg, h)
          IN  /\ worker' = [worker EXCEPT ![w] =
                              [Sent(@, result, TRUE) EXCEPT
                                 !.state = "AwaitingWorkOrACK", !.hb = FALSE,
                                 !.hbt = FALSE, !.thread = "none"]]
              /\ toMain' = Sending(toMain, w, result)
    BY <1>8 DEF SendResult
  <2> DEFINE result == Result(worker[w].next, worker[w].seg, h)
             q == Sent(worker[w], result, TRUE)
             p == [q EXCEPT !.state = "AwaitingWorkOrACK", !.hb = FALSE,
                            !.hbt = FALSE, !.thread = "none"]
  <2>2. result \in Message
    BY <1>1, ResultIsMessage
  <2>3. q \in Process
    BY <1>1, <2>2, SentType
  <2>4. worker' = [worker EXCEPT ![w] = p] /\ toMain' = Sending(toMain, w, result)
    BY <1>1, <2>1
  <2> HIDE DEF q, result
  <2>5. p \in Process
    BY <2>3 DEF Process, WorkerState
  <2> HIDE DEF p
  <2> QED
    BY <2>2, <2>4, <2>5, WorkerRest
<1>9. CASE WorkerInterrupt(w)
  BY <1>2, <1>9, NewProcessType, WorkerRest DEF WorkerInterrupt
<1>10. CASE WorkerCrash(w)
  BY <1>10, NewProcessType, WorkerRest DEF WorkerCrash, netVars
<1>11. CASE WorkerExpireResp(w)
  <2> DEFINE p == [worker[w] EXCEPT !.resp = FALSE, !.sigResp = TRUE]
  <2>1. p \in Process /\ worker' = [worker EXCEPT ![w] = p] /\ UNCHANGED toMain
    BY <1>1, <1>11 DEF WorkerExpireResp, Process, netVars
  <2> HIDE DEF p
  <2> QED
    BY <2>1, WorkerRest
<1>12. CASE ExpireHbt(w)
  <2> DEFINE p == [worker[w] EXCEPT !.hbt = FALSE, !.sigHbt = TRUE]
  <2>1. p \in Process /\ worker' = [worker EXCEPT ![w] = p] /\ UNCHANGED toMain
    BY <1>1, <1>12 DEF ExpireHbt, Process, netVars
  <2> HIDE DEF p
  <2> QED
    BY <2>1, WorkerRest
<1> QED
  BY <1>3, <1>4, <1>5, <1>6, <1>7, <1>8, <1>9, <1>10, <1>11, <1>12,
     WorkerHandleMessageRest DEF WorkerStep

(* A worker only takes datagrams away from its socket.                     *)
LEMMA WorkerStepIsGood ==
  ASSUME Inv, NEW w \in Workers, WorkerStep(w), UNCHANGED serverVars
  PROVE  Good
<1>1. \/ toWorker' = toWorker
      \/ \E m \in toWorker[w] : toWorker' = Receiving(toWorker, w, m)
  BY DEF WorkerStep, Start, WorkerHandleMessage, WorkerHandleMessageOf,
         WorkerHandleTimeout, WorkerHandleHeartbeatTimeout, HandleHeartbeat,
         Count, SendResult, WorkerInterrupt, WorkerCrash, WorkerExpireResp,
         ExpireHbt, netVars
<1>2. toWorker' \in [Workers -> SUBSET Message]
  BY <1>1, InvParts DEF Receiving
<1>3. conn' = conn /\ ledger' = ledger
  BY DEF serverVars
<1>4. TypedServer /\ \A v \in Workers : Holding(conn[v], conn'[v])
  BY <1>2, <1>3, InvParts DEF TypedServer, Holding
<1> QED
  BY <1>3, <1>4, HoldingIsGood

-----------------------------------------------------------------------------
(* The invariant of the program.                                           *)

(* The invariant holds when the server starts.                             *)
LEMMA InvInit ==
  ASSUME Init
  PROVE  Inv
<1>1. /\ conn = [w \in Workers |-> NoConnection]
      /\ ledger = [s \in Segments |-> [state |-> "UNASSIGNED",
                                       assignedTo |-> NoWorker,
                                       pointsHit |-> 0]]
  BY DEF Init, ServerInit, ConnInit, LedgerInit
<1>2. ConnTypeOK
  BY <1>1, NoConnectionType DEF ConnTypeOK
<1>3. LedgerTypeOK
  BY <1>1 DEF LedgerTypeOK, Subproblem, SubproblemState
<1>4. WorkerTypeOK
  BY NewProcessType DEF Init, WorkerInit, WorkerTypeOK
<1>5. TypeOK
  BY <1>2, <1>3, <1>4 DEF Init, NetworkInit, ServerInit, TypeOK,
     NetworkTypeOK, ServerTypeOK, Phase
<1>6. \A w \in Workers : conn[w].state = "none" /\ ~Busy(conn[w])
  BY <1>1 DEF NoConnection, Busy
<1>7. LedgerMatchesPool
  BY <1>1, <1>6 DEF LedgerMatchesPool, PendingIsHeld, HeldIsGivenOut,
     HeldOnce, OwnerIsSet
<1>8. WorkConserving
  BY <1>6 DEF WorkConserving
<1> QED
  BY <1>5, <1>7, <1>8 DEF Inv

(* Every step of the program preserves the invariant.                      *)
LEMMA InvStep ==
  ASSUME Inv, [Next]_vars
  PROVE  Inv'
<1>1. ASSUME NEW w \in Workers, ServerStep(w), UNCHANGED worker
      PROVE  Inv'
  <2>1. CASE HandleMessage(w)
    BY <1>1, <2>1, HandleMessageIsGood, HandleMessageRest, InvNext
  <2>2. CASE HandleTimeout(w)
    BY <1>1, <2>2, HandleTimeoutIsGood, ServerTimersRest, InvNext
  <2>3. CASE HandleHeartbeatTimeout(w)
    BY <1>1, <2>3, HandleHeartbeatTimeoutIsGood, ServerTimersRest, InvNext
  <2> QED
    BY <1>1, <2>1, <2>2, <2>3 DEF ServerStep
<1>2. ASSUME NEW w \in Workers, ServerTimer(w), UNCHANGED worker
      PROVE  Inv'
  BY <1>2, ExpireIsGood, ServerTimersRest, InvNext DEF ServerTimer, netVars
<1>3. ASSUME NEW w \in Workers, WorkerStep(w), UNCHANGED serverVars
      PROVE  Inv'
  BY <1>3, WorkerStepIsGood, WorkerStepRest, InvNext
<1>4. ASSUME NEW w \in Workers, Lose(w), UNCHANGED <<serverVars, worker>>
      PROVE  Inv'
  <2>1. conn' = conn /\ ledger' = ledger
    BY <1>4 DEF serverVars
  <2>2. /\ toWorker' \in [Workers -> SUBSET Message]
        /\ toMain' \in [Workers -> SUBSET Message]
    BY <1>4, InvParts DEF Lose
  <2>3. TypedServer /\ \A v \in Workers : Holding(conn[v], conn'[v])
    BY <2>1, <2>2, InvParts DEF TypedServer, Holding
  <2>4. TypedRest'
    BY <1>4, <2>2, InvHasRest DEF TypedRest, serverVars
  <2> QED
    BY <2>1, <2>3, <2>4, HoldingIsGood, InvNext
<1>5. ASSUME HandleInterrupt \/ Finish, UNCHANGED worker
      PROVE  Inv'
  <2>1. ASSUME NEW w \in Workers
        PROVE  Inv'
    BY <1>5, <2>1, HandleInterruptIsGood, FinishIsGood, ServerTimersRest,
       InvNext
  <2>2. CASE Workers = {}
    BY <1>5, <2>2, HandleInterruptIsGood, FinishIsGood, InvHasRest, InvNext
       DEF TypedRest, HandleInterrupt, Finish, Phase
  <2> QED
    BY <2>1, <2>2
<1>6. CASE UNCHANGED vars
  BY <1>6 DEF vars, serverVars, netVars, Inv, TypeOK, NetworkTypeOK,
     ServerTypeOK, WorkerTypeOK, LedgerTypeOK, ConnTypeOK, LedgerMatchesPool,
     PendingIsHeld, HeldIsGivenOut, HeldOnce, OwnerIsSet, WorkConserving,
     Unassigned
<1> QED
  BY <1>1, <1>2, <1>3, <1>4, <1>5, <1>6 DEF Next

(* Whatever the server, the workers, their timers and the network do, the  *)
(* ledger of the SolutionManager and the connections of the ServerManager  *)
(* agree, nobody stands by while a subproblem is free, and every variable  *)
(* keeps its type.                                                         *)
THEOREM Invariance == Spec => []Inv
<1>1. Init => Inv
  BY InvInit
<1>2. Inv /\ [Next]_vars => Inv'
  BY InvStep
<1> QED
  BY <1>1, <1>2, PTL DEF Spec

(* Every variable of the program keeps its type: no counter of repeats     *)
(* goes below 1, and nothing but subproblems is given out.                 *)
THEOREM TypeCorrect == Spec => []TypeOK
<1>1. Inv => TypeOK
  BY DEF Inv
<1> QED
  BY <1>1, Invariance, PTL

(* The ledger of the SolutionManager and the connections of the pool tell  *)
(* the same story, so assign() does not throw, and a connection that goes  *)
(* gives back only what is its own.                                        *)
THEOREM LedgerCorrect == Spec => []LedgerMatchesPool
<1>1. Inv => LedgerMatchesPool
  BY DEF Inv
<1> QED
  BY <1>1, Invariance, PTL

(* No connection stands by while a subproblem is UNASSIGNED: what          *)
(* sendSubproblem and tryAssignSubproblem are there for.                   *)
THEOREM HandsOutAll == Spec => []WorkConserving
<1>1. Inv => WorkConserving
  BY DEF Inv
<1> QED
  BY <1>1, Invariance, PTL

-----------------------------------------------------------------------------
(* Every step of the program is a step of PiJob, or a stuttering one.      *)

JobStep == [Job!Next]_Job!vars

(* The owners and the counts a ledger stands for.                          *)
Owners(L) == [s \in Segments |-> L[s].assignedTo]
Counts(L) ==
  [s \in Segments |-> IF L[s].state = "SOLVED" THEN {L[s].pointsHit} ELSE {}]

(* A step that changes neither pool, owners nor counts, and does not       *)
(* finish, is a stuttering step of the job.                                *)
LEMMA SameIsStutter ==
  ASSUME Pool' = Pool, Owners(ledger') = Owners(ledger),
         Counts(ledger') = Counts(ledger),
         phase' = "finished" <=> phase = "finished"
  PROVE  JobStep
<1>1. (phase' = "finished") = (phase = "finished")
  OBVIOUS
<1> QED
  BY <1>1, Zenon DEF JobStep, Job!vars, Owners, Counts

(* A step that only moves connections among their states, or confirms who  *)
(* has what.                                                               *)
LEMMA HoldingIsStutter ==
  ASSUME Inv, TypedServer,
         \A w \in Workers : (conn'[w].state = "none") <=> (conn[w].state = "none"),
         \A s \in Segments :
           /\ ledger'[s].assignedTo = ledger[s].assignedTo
           /\ ledger'[s].pointsHit = ledger[s].pointsHit
           /\ ledger'[s].state = "SOLVED" <=> ledger[s].state = "SOLVED",
         phase' = "finished" <=> phase = "finished"
  PROVE  JobStep
<1>1. Pool' = Pool
  BY DEF Pool
<1>2. Owners(ledger') = Owners(ledger) /\ Counts(ledger') = Counts(ledger)
  BY DEF Owners, Counts
<1> QED
  BY <1>1, <1>2, SameIsStutter

(* Connections of D leave the pool; what they held is given back, and to   *)
(* whoever stands by.                                                      *)
LEMMA GivenBackFacts ==
  ASSUME Inv, NEW D \in SUBSET Workers, NEW s \in Segments
  PROVE  /\ \/ GivenBack(D)[s] = ledger[s]
            \/ /\ GivenBack(D)[s].state = "UNASSIGNED"
               /\ GivenBack(D)[s].assignedTo = NoWorker
               /\ ledger[s].assignedTo \in D
               /\ ledger[s].state # "SOLVED"
         /\ GivenBack(D)[s].pointsHit = ledger[s].pointsHit
<1> DEFINE held == {conn[w].seg : w \in {v \in D : Busy(conn[v])}}
<1>1. /\ ledger[s] \in Subproblem
      /\ GivenBack(D)[s] =
           IF s \in held /\ ledger[s].state \in {"ASSIGNED_PENDING", "ASSIGNED"}
             THEN [ledger[s] EXCEPT !.state = "UNASSIGNED",
                                    !.assignedTo = NoWorker]
             ELSE ledger[s]
  BY InvParts DEF GivenBack, Unassign
<1>2. CASE s \in held /\ ledger[s].state \in {"ASSIGNED_PENDING", "ASSIGNED"}
  <2>1. PICK w \in D : Busy(conn[w]) /\ conn[w].seg = s
    BY <1>2
  <2>2. ledger[s].assignedTo = w
    BY <1>2, <2>1, InvParts DEF Matches, Busy
  <2> QED
    BY <1>1, <1>2, <2>2 DEF Subproblem
<1>3. CASE ~(s \in held /\ ledger[s].state \in {"ASSIGNED_PENDING", "ASSIGNED"})
  BY <1>1, <1>3
<1> QED
  BY <1>2, <1>3

(* Connections that leave, with what they held handed on, are a step Leave *)
(* of the job.                                                             *)
LEMMA LeaveStep ==
  ASSUME Inv, NEW D \in SUBSET Pool, D # {}, TypedServer,
         Pool' = Pool \ D,
         \A s \in Segments :
           \/ ledger'[s] = GivenBack(D)[s]
           \/ /\ GivenBack(D)[s].state = "UNASSIGNED"
              /\ ledger'[s].state = "ASSIGNED_PENDING"
              /\ ledger'[s].assignedTo \in Pool',
         phase # "finished", phase' # "finished"
  PROVE  JobStep
<1>1. D \in SUBSET Workers
  BY DEF Pool
<1>2. ASSUME NEW s \in Segments
      PROVE  /\ \/ ledger'[s].assignedTo = ledger[s].assignedTo
                \/ /\ ledger[s].assignedTo \in D \union {NoWorker}
                   /\ ledger'[s].assignedTo \in Pool' \union {NoWorker}
                   /\ ledger[s].state # "SOLVED"
             /\ Counts(ledger')[s] = Counts(ledger)[s]
  <2>1. /\ \/ GivenBack(D)[s] = ledger[s]
           \/ /\ GivenBack(D)[s].state = "UNASSIGNED"
              /\ GivenBack(D)[s].assignedTo = NoWorker
              /\ ledger[s].assignedTo \in D
              /\ ledger[s].state # "SOLVED"
        /\ GivenBack(D)[s].pointsHit = ledger[s].pointsHit
    BY <1>1, GivenBackFacts
  <2>2. ledger[s].state = "UNASSIGNED" => ledger[s].assignedTo = NoWorker
    BY InvParts DEF Matches
  <2>3. CASE ledger'[s] = GivenBack(D)[s]
    BY <2>1, <2>3 DEF Counts
  <2>4. CASE /\ GivenBack(D)[s].state = "UNASSIGNED"
             /\ ledger'[s].state = "ASSIGNED_PENDING"
             /\ ledger'[s].assignedTo \in Pool'
    BY <2>1, <2>2, <2>4 DEF Counts
  <2> QED
    BY <2>3, <2>4
<1>3. Counts(ledger') = Counts(ledger)
  BY <1>2 DEF Counts
<1>4. Owners(ledger') \in [Segments -> Workers \union {NoWorker}]
  BY DEF TypedServer, Subproblem, Owners
<1>5. \A s \in Segments :
        \/ Owners(ledger')[s] = Owners(ledger)[s]
        \/ /\ Owners(ledger)[s] \in D \union {NoWorker}
           /\ Owners(ledger')[s] \in Pool' \union {NoWorker}
           /\ Counts(ledger)[s] = {}
  BY <1>2 DEF Owners, Counts
<1>6. (phase' = "finished") = (phase = "finished")
  OBVIOUS
<1>7. Job!Leave(D)
  BY <1>3, <1>4, <1>5, <1>6, Zenon
     DEF Job!Leave, Job!MayMove, Owners, Counts
<1> QED
  BY <1>7, Zenon DEF JobStep, Job!Next

(* What a Gives step leaves in the pool and in the ledger.                 *)
LEMMA GivesPool ==
  ASSUME NEW C \in [Workers -> Connection], NEW L \in [Segments -> Subproblem],
         Gives(C, L)
  PROVE  /\ Pool' = {w \in Workers : C[w].state # "none"}
         /\ \A s \in Segments :
              \/ ledger'[s] = L[s]
              \/ /\ L[s].state = "UNASSIGNED"
                 /\ ledger'[s].state = "ASSIGNED_PENDING"
                 /\ ledger'[s].assignedTo \in Pool'
<1>1. \A w \in Workers : (conn'[w].state = "none") <=> (C[w].state = "none")
  BY DEF Gives, Given, Holding
<1>2. Pool' = {w \in Workers : C[w].state # "none"}
  BY <1>1 DEF Pool
<1>3. ASSUME NEW s \in Segments, ledger'[s] # L[s]
      PROVE  /\ L[s].state = "UNASSIGNED"
             /\ ledger'[s].state = "ASSIGNED_PENDING"
             /\ ledger'[s].assignedTo \in Pool'
  <2>1. s \in Unassigned(L) /\ \E w \in Workers : Given(w, s)
    BY <1>3 DEF Gives
  <2>2. PICK w \in Workers : Given(w, s)
    BY <2>1
  <2>3. w \in Pool'
    BY <2>2 DEF Given, Pool
  <2> QED
    BY <2>1, <2>2, <2>3 DEF Given, Unassigned
<1> QED
  BY <1>2, <1>3

(* So deleting connections is a step of the job.                           *)
LEMMA DeleteStep ==
  ASSUME Inv, NEW C \in [Workers -> Connection], NEW D \in SUBSET Pool,
         NEW T \in [Workers -> SUBSET Message],
         \A w \in Workers : w \notin D => Holding(conn[w], C[w]),
         Delete(C, D, T), phase = "running", phase' = phase
  PROVE  JobStep
<1>0. D \in SUBSET Workers
  BY DEF Pool
<1>1. CASE D = {} /\ conn' = C /\ UNCHANGED ledger
  <2>1. \A w \in Workers : (conn'[w].state = "none") <=> (conn[w].state = "none")
    BY <1>1 DEF Holding
  <2>2. TypedServer
    BY <1>0, DeleteIsGood DEF Good
  <2> QED
    BY <1>1, <2>1, <2>2, HoldingIsStutter
<1>2. CASE D # {} /\ TryAssign(Without(C, D), GivenBack(D), T)
  <2> DEFINE E == Without(C, D)
             L == GivenBack(D)
  <2>1. E \in [Workers -> Connection] /\ L \in [Segments -> Subproblem]
    BY <1>0, DeletedMatches
  <2>2. TypedServer /\ Gives(E, L)
    BY <1>2, <2>1, TryAssignGives
  <2>3. \A w \in Workers :
          /\ w \in D => E[w].state = "none"
          /\ w \notin D => E[w].state = conn[w].state
    BY DEF Without, NoConnection, Holding
  <2> HIDE DEF E, L
  <2>4. /\ Pool' = {w \in Workers : E[w].state # "none"}
        /\ \A s \in Segments :
             \/ ledger'[s] = L[s]
             \/ /\ L[s].state = "UNASSIGNED"
                /\ ledger'[s].state = "ASSIGNED_PENDING"
                /\ ledger'[s].assignedTo \in Pool'
    BY <2>1, <2>2, GivesPool
  <2>5. Pool' = Pool \ D
    BY <2>3, <2>4 DEF Pool
  <2> QED
    BY <1>2, <2>2, <2>4, <2>5, LeaveStep DEF L
<1> QED
  BY <1>1, <1>2 DEF Delete

(* A Hello: the worker joins, and is given a subproblem if one is left.    *)
LEMMA JoinStep ==
  ASSUME Inv, NEW w \in Workers, NEW m \in Message, NEW n \in Nat,
         AwaitingHello(w, m, n), phase = "running"
  PROVE  JobStep
<1> DEFINE c == Received(NoConnection, m, n)
<1>1. c \in Connection
  BY NoConnectionType, ReceivedType
<1>2. /\ conn[w].state = "none" /\ SendSubproblem(w, c, ledger, FALSE)
      /\ phase' = phase
  BY DEF AwaitingHello
<1> HIDE DEF c
<1>3. /\ TypedServer
      /\ Waiting(w, c) \in [Workers -> Connection]
      /\ Gives(Waiting(w, c), ledger)
  BY <1>1, <1>2, InvParts, SendSubproblemGives DEF Inv
<1>4. /\ Pool' = {v \in Workers : Waiting(w, c)[v].state # "none"}
      /\ \A s \in Segments :
           \/ ledger'[s] = ledger[s]
           \/ /\ ledger[s].state = "UNASSIGNED"
              /\ ledger'[s].state = "ASSIGNED_PENDING"
              /\ ledger'[s].assignedTo \in Pool'
  BY <1>3, InvParts, GivesPool
<1>5. w \notin Pool /\ Pool' = Pool \union {w}
  BY <1>1, <1>2, <1>4, InvParts DEF Waiting, Pool, Connection
<1>6. Counts(ledger') = Counts(ledger)
  <2>1. \A s \in Segments : Counts(ledger')[s] = Counts(ledger)[s]
    BY <1>4 DEF Counts
  <2> QED
    BY <2>1 DEF Counts
<1>7. Owners(ledger') \in [Segments -> Workers \union {NoWorker}]
  BY <1>3 DEF TypedServer, Subproblem, Owners
<1>8. \A s \in Segments :
        \/ Owners(ledger')[s] = Owners(ledger)[s]
        \/ /\ Owners(ledger)[s] \in {} \union {NoWorker}
           /\ Owners(ledger')[s] \in Pool' \union {NoWorker}
           /\ Counts(ledger)[s] = {}
  BY <1>4, InvParts DEF Owners, Counts, Matches
<1>9. (phase' = "finished") = (phase = "finished")
  BY <1>2
<1>10. Job!Join(w)
  BY <1>5, <1>6, <1>7, <1>8, <1>9, Zenon
     DEF Job!Join, Job!MayMove, Owners, Counts
<1> QED
  BY <1>10, Zenon DEF JobStep, Job!Next

(* A Result: segment x is counted, and the worker is given another one if  *)
(* one is left.                                                            *)
LEMMA CreditStep ==
  ASSUME Inv, NEW w \in Pool, NEW c \in Connection, NEW early \in BOOLEAN,
         NEW L \in [Segments -> Subproblem], NEW x \in Segments,
         ledger[x].state \in {"ASSIGNED_PENDING", "ASSIGNED"},
         L[x].state = "SOLVED", L[x].assignedTo = NoWorker,
         \A t \in Segments \ {x} :
           /\ L[t].assignedTo = ledger[t].assignedTo
           /\ L[t].pointsHit = ledger[t].pointsHit
           /\ L[t].state = "SOLVED" <=> ledger[t].state = "SOLVED"
           /\ L[t].state = "UNASSIGNED" => ledger[t].state = "UNASSIGNED",
         SendSubproblem(w, c, L, early), phase' = phase
  PROVE  JobStep
<1>0. w \in Workers /\ conn[w].state # "none"
  BY DEF Pool
<1>1. Unassigned(L) \subseteq Unassigned(ledger)
  BY DEF Unassigned
<1>2. /\ TypedServer
      /\ Waiting(w, c) \in [Workers -> Connection]
      /\ Gives(Waiting(w, c), L)
  BY <1>0, <1>1, SendSubproblemGives DEF Inv
<1>3. /\ Pool' = {v \in Workers : Waiting(w, c)[v].state # "none"}
      /\ \A s \in Segments :
           \/ ledger'[s] = L[s]
           \/ /\ L[s].state = "UNASSIGNED"
              /\ ledger'[s].state = "ASSIGNED_PENDING"
              /\ ledger'[s].assignedTo \in Pool'
  BY <1>2, GivesPool
<1>4. Pool' = Pool
  BY <1>0, <1>3, InvParts DEF Waiting, Pool, Connection
<1>5. ledger'[x] = L[x]
  BY <1>3
<1> DEFINE h == L[x].pointsHit
<1>6. h \in Nat
  BY DEF Subproblem
<1>7. Counts(ledger')[x] = {h} /\ Counts(ledger)[x] = {}
  BY <1>5 DEF Counts
<1>8. \A t \in Segments \ {x} : Counts(ledger')[t] = Counts(ledger)[t]
  <2>1. ASSUME NEW t \in Segments \ {x}
        PROVE  Counts(ledger')[t] = Counts(ledger)[t]
    <3>1. CASE ledger'[t] = L[t]
      BY <3>1 DEF Counts
    <3>2. CASE L[t].state = "UNASSIGNED" /\ ledger'[t].state = "ASSIGNED_PENDING"
      BY <3>2 DEF Counts
    <3> QED
      BY <1>3, <3>1, <3>2
  <2> QED
    BY <2>1
<1>9. Counts(ledger') = [Counts(ledger) EXCEPT ![x] = {h}]
  <2> HIDE DEF h
  <2> QED
    BY <1>7, <1>8 DEF Counts
<1>10. \E k \in Counts(ledger')[x] :
         k \in Nat /\ Counts(ledger') = [Counts(ledger) EXCEPT ![x] = {k}]
  BY <1>6, <1>7, <1>9
<1>11. Owners(ledger)[x] # NoWorker /\ Owners(ledger')[x] = NoWorker
  BY <1>5, InvParts DEF Owners, Matches
<1>12. Owners(ledger') \in [Segments -> Workers \union {NoWorker}]
  BY <1>2 DEF TypedServer, Subproblem, Owners
<1>13. \A t \in Segments \ {x} :
         \/ Owners(ledger')[t] = Owners(ledger)[t]
         \/ /\ Owners(ledger)[t] \in {} \union {NoWorker}
            /\ Owners(ledger')[t] \in Pool' \union {NoWorker}
            /\ Counts(ledger)[t] = {}
  <2>1. ASSUME NEW t \in Segments \ {x}, ledger'[t] # L[t]
        PROVE  /\ ledger[t].state = "UNASSIGNED"
               /\ ledger[t].assignedTo = NoWorker
               /\ ledger'[t].assignedTo \in Pool'
    BY <1>3, <2>1, InvParts DEF Matches
  <2> QED
    BY <2>1 DEF Owners, Counts
<1>14. (phase' = "finished") = (phase = "finished")
  OBVIOUS
<1> HIDE DEF h
<1>15. Job!Credit(x)
  BY <1>4, <1>7, <1>10, <1>11, <1>12, <1>13, <1>14, Zenon
     DEF Job!Credit, Job!MayMove, Owners, Counts
<1> QED
  BY <1>15, Zenon DEF JobStep, Job!Next

(* A Result that overtakes the ACK is a step of the job.                   *)
LEMMA EarlyResultStep ==
  ASSUME Inv, NEW w \in Workers, NEW m \in Message, NEW n \in Nat,
         EarlyResult(w, m, n), phase = "running"
  PROVE  JobStep
<1> DEFINE s == conn[w].seg
           A == Assign(ledger, s, w)
           L == MarkSolved(A, m.seg, m.hits)
           c == Received(conn[w], m, n)
<1>1. conn[w].state = "awaitingWorkACK" /\ w \in Pool
  BY DEF EarlyResult, Pool
<1>2. CASE phase' = "threwMarkSolved" /\ UNCHANGED <<ledger, conn, toWorker>>
  BY <1>2, SameIsStutter DEF Pool, Owners, Counts
<1>3. CASE /\ CanMarkSolved(A, m.seg) /\ SendSubproblem(w, c, L, TRUE)
           /\ UNCHANGED phase
  <2>1. /\ s \in Segments /\ ledger[s].state = "ASSIGNED_PENDING"
        /\ ledger[s].assignedTo = w
    BY <1>1, PendingIsOwn DEF CanAssign
  <2>2. /\ A \in [Segments -> Subproblem]
        /\ A[s].state = "ASSIGNED" /\ A[s].assignedTo = w
        /\ A[s].pointsHit = ledger[s].pointsHit
        /\ \A t \in Segments \ {s} : A[t] = ledger[t]
    BY <2>1, InvParts, AssignFacts
  <2>3. m.seg \in Segments /\ A[m.seg].state = "ASSIGNED"
    BY <1>3 DEF CanMarkSolved
  <2> HIDE DEF A
  <2>4. /\ L \in [Segments -> Subproblem]
        /\ L[m.seg].state = "SOLVED" /\ L[m.seg].assignedTo = NoWorker
        /\ \A t \in Segments \ {m.seg} : L[t] = A[t]
    BY <2>2, <2>3, HitsAreNat, MarkSolvedFacts
  <2>5. c \in Connection
    BY InvParts, ReceivedType
  <2> HIDE DEF L, c, s
  <2>6. ledger[m.seg].state \in {"ASSIGNED_PENDING", "ASSIGNED"}
    BY <2>1, <2>2, <2>3
  <2>7. \A t \in Segments \ {m.seg} :
          /\ L[t].assignedTo = ledger[t].assignedTo
          /\ L[t].pointsHit = ledger[t].pointsHit
          /\ L[t].state = "SOLVED" <=> ledger[t].state = "SOLVED"
          /\ L[t].state = "UNASSIGNED" => ledger[t].state = "UNASSIGNED"
    BY <2>1, <2>2, <2>4
  <2> QED
    BY <1>1, <1>3, <2>3, <2>4, <2>5, <2>6, <2>7, CreditStep
<1> QED
  BY <1>2, <1>3 DEF EarlyResult

(* A Result is a step of the job.                                          *)
LEMMA ResultReceivedStep ==
  ASSUME Inv, NEW w \in Workers, NEW m \in Message, NEW n \in Nat,
         ResultReceived(w, m, n), phase = "running"
  PROVE  JobStep
<1> DEFINE L == MarkSolved(ledger, m.seg, m.hits)
           c == Received(conn[w], m, n)
<1>1. w \in Pool
  BY DEF ResultReceived, Pool
<1>2. CASE phase' = "threwMarkSolved" /\ UNCHANGED <<ledger, conn, toWorker>>
  BY <1>2, SameIsStutter DEF Pool, Owners, Counts
<1>3. CASE /\ CanMarkSolved(ledger, m.seg) /\ SendSubproblem(w, c, L, FALSE)
           /\ UNCHANGED phase
  <2>1. m.seg \in Segments /\ ledger[m.seg].state = "ASSIGNED"
    BY <1>3 DEF CanMarkSolved
  <2>2. /\ L \in [Segments -> Subproblem]
        /\ L[m.seg].state = "SOLVED" /\ L[m.seg].assignedTo = NoWorker
        /\ \A t \in Segments \ {m.seg} : L[t] = ledger[t]
    BY <2>1, InvParts, HitsAreNat, MarkSolvedFacts
  <2>3. c \in Connection
    BY InvParts, ReceivedType
  <2> HIDE DEF L, c
  <2> QED
    BY <1>1, <1>3, <2>1, <2>2, <2>3, CreditStep
<1> QED
  BY <1>2, <1>3 DEF ResultReceived

(* An ACK of Work is a stuttering step.                                    *)
LEMMA WorkAcknowledgedStep ==
  ASSUME Inv, NEW w \in Workers, NEW m \in Message, NEW n \in Nat,
         WorkAcknowledged(w, m, n), phase = "running"
  PROVE  JobStep
<1>1. /\ conn[w].state = "awaitingWorkACK"
      /\ ledger' = Assign(ledger, conn[w].seg, w)
      /\ phase' = phase
      /\ \A v \in Workers \ {w} : conn'[v] = conn[v]
  BY InvParts DEF WorkAcknowledged
<1>2. /\ conn[w].seg \in Segments
      /\ ledger[conn[w].seg].state = "ASSIGNED_PENDING"
      /\ ledger[conn[w].seg].assignedTo = w
  BY <1>1, PendingIsOwn DEF CanAssign
<1>3. conn'[w].state = "awaitingResult"
  <2> DEFINE e == Unwatched(Received(conn[w], m, n))
  <2>1. e \in Connection
    BY InvParts, ReceivedType, UnwatchedType
  <2>2. conn' = [conn EXCEPT ![w] = [e EXCEPT !.state = "awaitingResult",
                                              !.hb = TRUE]]
    BY DEF WorkAcknowledged
  <2> HIDE DEF e
  <2> QED
    BY <2>1, <2>2, InvParts DEF Connection
<1>4. TypedServer
  BY WorkAcknowledgedIsGood DEF Good
<1>5. \A s \in Segments :
        /\ ledger'[s].assignedTo = ledger[s].assignedTo
        /\ ledger'[s].pointsHit = ledger[s].pointsHit
        /\ ledger'[s].state = "SOLVED" <=> ledger[s].state = "SOLVED"
  <2> DEFINE x == conn[w].seg
  <2>1. /\ ledger'[x].state = "ASSIGNED"
        /\ ledger'[x].assignedTo = w
        /\ ledger'[x].pointsHit = ledger[x].pointsHit
        /\ \A t \in Segments \ {x} : ledger'[t] = ledger[t]
    BY <1>1, <1>2, InvParts, AssignFacts
  <2> QED
    BY <1>2, <2>1
<1>6. \A v \in Workers : (conn'[v].state = "none") <=> (conn[v].state = "none")
  BY <1>1, <1>3
<1> QED
  BY <1>1, <1>4, <1>5, <1>6, HoldingIsStutter

(* Answering, resending and overlooking are stuttering steps.              *)
LEMMA QuietStep ==
  ASSUME Inv, NEW w \in Workers, NEW m \in Message, NEW n \in Nat,
         \/ HeartbeatAnswered(w, m, n)
         \/ Resend(w, m, n)
         \/ OtherAccepted(w, m, n)
         \/ Unexpected(w, m, n)
         \/ StandingBy(w, m, n)
         \/ Ignored(w, m, n),
         phase = "running"
  PROVE  JobStep
<1>1. conn[w] \in Connection /\ conn \in [Workers -> Connection]
  BY InvParts
<1>2. Resent(conn[w]).state = conn[w].state
  BY <1>1 DEF Resent, Connection
<1>3. Unwatched(Received(conn[w], m, n)).state = conn[w].state
  BY <1>1, ReceivedType, UnwatchedType
<1>4. [conn[w] EXCEPT !.repeat = MaxRepeats].state = conn[w].state
  BY <1>1 DEF Connection
<1>5. \A v \in Workers : conn'[v].state = conn[v].state
  BY <1>1, <1>2, <1>3, <1>4
     DEF HeartbeatAnswered, Resend, OtherAccepted, Unexpected, StandingBy,
         Ignored, serverVars
<1>6. ledger' = ledger /\ phase' \in {"running", "abortedStandingBy"}
  BY DEF HeartbeatAnswered, Resend, OtherAccepted, Unexpected, StandingBy,
         Ignored, serverVars
<1>7. Pool' = Pool
  BY <1>5 DEF Pool
<1> QED
  BY <1>6, <1>7, SameIsStutter DEF Owners, Counts

(* ServerManager::handleMessage is a step of the job for every datagram.   *)
LEMMA HandleMessageStep ==
  ASSUME Inv, NEW w \in Workers, HandleMessage(w)
  PROVE  JobStep
<1>1. PICK m \in toMain[w] : \E n \in SequenceRead(m) :
        \/ AwaitingHello(w, m, n) \/ HeartbeatAnswered(w, m, n)
        \/ WorkerInterrupted(w, m, n) \/ Resend(w, m, n)
        \/ WorkAcknowledged(w, m, n) \/ EarlyResult(w, m, n)
        \/ OtherAccepted(w, m, n) \/ ResultReceived(w, m, n)
        \/ Unexpected(w, m, n) \/ StandingBy(w, m, n) \/ Ignored(w, m, n)
  BY DEF HandleMessage, HandleMessageOf
<1>2. m \in Message
  BY InvParts
<1>3. PICK n \in SequenceRead(m) :
        \/ AwaitingHello(w, m, n) \/ HeartbeatAnswered(w, m, n)
        \/ WorkerInterrupted(w, m, n) \/ Resend(w, m, n)
        \/ WorkAcknowledged(w, m, n) \/ EarlyResult(w, m, n)
        \/ OtherAccepted(w, m, n) \/ ResultReceived(w, m, n)
        \/ Unexpected(w, m, n) \/ StandingBy(w, m, n) \/ Ignored(w, m, n)
  BY <1>1
<1>4. n \in Nat
  BY <1>2, SequenceIsNat
<1>5. phase = "running"
  BY DEF HandleMessage, HandleMessageOf
<1>6. CASE WorkerInterrupted(w, m, n)
  <2>1. w \in Pool /\ Delete(conn, {w}, toWorker) /\ phase' = phase
    BY <1>6 DEF WorkerInterrupted
  <2>2. \A v \in Workers : Holding(conn[v], conn[v])
    BY DEF Holding
  <2> QED
    BY <1>5, <2>1, <2>2, InvParts, DeleteStep
<1> QED
  BY <1>2, <1>3, <1>4, <1>5, <1>6, JoinStep, EarlyResultStep,
     ResultReceivedStep, WorkAcknowledgedStep, QuietStep

(* So are the timers of the server and their signals.                      *)
LEMMA ServerTimerStep ==
  ASSUME Inv, NEW w \in Workers,
         \/ ExpireResp(w) /\ UNCHANGED netVars
         \/ ExpireHb(w) /\ UNCHANGED netVars
         \/ HandleTimeout(w)
         \/ HandleHeartbeatTimeout(w)
  PROVE  JobStep
<1>1. CASE ExpireResp(w) \/ ExpireHb(w)
  <2>1. /\ \A v \in Workers : conn'[v].state = conn[v].state
        /\ ledger' = ledger /\ phase' = phase
    BY <1>1, InvParts DEF ExpireResp, ExpireHb, Connection
  <2>2. Pool' = Pool
    BY <2>1 DEF Pool
  <2> QED
    BY <2>1, <2>2, SameIsStutter DEF Owners, Counts
<1>2. CASE HandleTimeout(w)
  <2> DEFINE late == {v \in Pool : ~conn[v].resp}
             lost == {v \in late : LastChance(conn[v])}
             C == [v \in Workers |-> IF v \in late \ lost
                                       THEN TimedOut(conn[v]) ELSE conn[v]]
             T == [v \in Workers |->
                     IF v \in late \ lost
                       THEN toWorker[v] \union {conn[v].sent}
                       ELSE toWorker[v]]
  <2>1. Delete(C, lost, T) /\ phase = "running" /\ phase' = phase
    BY <1>2 DEF HandleTimeout
  <2>2. lost \in SUBSET Pool
    OBVIOUS
  <2>3. \A v \in Workers : conn[v] \in Connection /\ conn[v].sent \in Message
    BY InvParts DEF Connection
  <2>4. \A v \in late \ lost : ~LastChance(conn[v])
    OBVIOUS
  <2>5. T \in [Workers -> SUBSET Message]
    BY <2>3, InvParts
  <2> HIDE DEF late, lost
  <2>6. C \in [Workers -> Connection]
    BY <2>3, <2>4, TimedOutType
  <2>7. \A v \in Workers : v \notin lost => Holding(conn[v], C[v])
    BY <2>3, <2>4, TimedOutType DEF Holding
  <2> HIDE DEF C, T
  <2> QED
    BY <2>1, <2>2, <2>5, <2>6, <2>7, DeleteStep
<1>3. CASE HandleHeartbeatTimeout(w)
  <2> DEFINE lost == {v \in Pool : ~conn[v].hb}
  <2>1. Delete(conn, lost, toWorker) /\ phase = "running" /\ phase' = phase
    BY <1>3 DEF HandleHeartbeatTimeout
  <2>2. lost \in SUBSET Pool /\ \A v \in Workers : Holding(conn[v], conn[v])
    BY DEF Holding
  <2> HIDE DEF lost
  <2> QED
    BY <2>1, <2>2, InvParts, DeleteStep
<1> QED
  BY <1>1, <1>2, <1>3

(* SIGINT at the server lets everybody leave.                              *)
LEMMA InterruptStep ==
  ASSUME Inv, HandleInterrupt
  PROVE  JobStep
<1>1. /\ conn' = Without(conn, Pool) /\ ledger' = GivenBack(Pool)
      /\ phase = "running" /\ phase' = "interrupted"
  BY DEF HandleInterrupt
<1>2. TypedServer
  BY HandleInterruptIsGood DEF Good
<1>3. Pool' = {}
  BY <1>1, InvParts DEF Without, Pool, NoConnection
<1>4. CASE Pool = {}
  <2>1. ledger' = ledger
    BY <1>1, <1>4, InvParts DEF GivenBack, Unassign
  <2> QED
    BY <1>1, <1>3, <1>4, <2>1, SameIsStutter DEF Owners, Counts
<1>5. CASE Pool # {}
  BY <1>1, <1>2, <1>3, <1>5, LeaveStep
<1> QED
  BY <1>4, <1>5

(* The end of the loop publishes the sum, when all is counted.             *)
LEMMA FinishStep ==
  ASSUME Inv, Finish
  PROVE  JobStep
<1>1. /\ Solved(ledger) /\ UNCHANGED <<ledger, conn>>
      /\ phase = "running" /\ phase' = "finished"
  BY DEF Finish
<1>2. \A s \in Segments : Counts(ledger)[s] # {}
  BY <1>1 DEF Solved, Counts
<1>3. Pool' = Pool /\ Owners(ledger') = Owners(ledger)
      /\ Counts(ledger') = Counts(ledger)
  BY <1>1 DEF Pool, Owners, Counts
<1>4. (phase' = "finished") = TRUE
  BY <1>1
<1>5. Job!Publish
  BY <1>2, <1>3, <1>4, Zenon DEF Job!Publish, Owners, Counts
<1> QED
  BY <1>5, Zenon DEF JobStep, Job!Next

(* The server starts where the job starts.                                 *)
LEMMA JobInit ==
  ASSUME Init
  PROVE  Job!Init
<1>1. /\ conn = [w \in Workers |-> NoConnection]
      /\ ledger = [s \in Segments |-> [state |-> "UNASSIGNED",
                                       assignedTo |-> NoWorker,
                                       pointsHit |-> 0]]
      /\ phase = "running"
  BY DEF Init, ServerInit, ConnInit, LedgerInit
<1>2. Pool = {}
  BY <1>1 DEF Pool, NoConnection
<1>3. Owners(ledger) = [s \in Segments |-> NoWorker]
  BY <1>1 DEF Owners
<1>4. Counts(ledger) = [s \in Segments |-> {}]
  BY <1>1 DEF Counts
<1>5. (phase = "finished") = FALSE
  BY <1>1
<1> QED
  BY <1>2, <1>3, <1>4, <1>5, Zenon DEF Job!Init, Owners, Counts

(* Every step of the program is a step of the job or a stuttering one.     *)
LEMMA StepIsJobStep ==
  ASSUME Inv, [Next]_vars
  PROVE  JobStep
<1>1. ASSUME UNCHANGED serverVars
      PROVE  JobStep
  BY <1>1, SameIsStutter DEF serverVars, Pool, Owners, Counts
<1>2. ASSUME NEW w \in Workers, ServerStep(w)
      PROVE  JobStep
  BY <1>2, HandleMessageStep, ServerTimerStep DEF ServerStep
<1>3. ASSUME NEW w \in Workers, ServerTimer(w)
      PROVE  JobStep
  BY <1>3, ServerTimerStep DEF ServerTimer
<1> QED
  BY <1>1, <1>2, <1>3, InterruptStep, FinishStep DEF Next, vars

(* The program implements PiJob: every segment is counted at most once and *)
(* never again changed, work changes hands only when its owner leaves, and *)
(* the result is printed only when every segment is counted.               *)
THEOREM Refinement == Spec => JobSpec
<1>1. Init => Job!Init
  BY JobInit
<1>2. Inv /\ [Next]_vars => [Job!Next]_Job!vars
  BY StepIsJobStep DEF JobStep
<1> QED
  BY <1>1, <1>2, Invariance, PTL DEF Spec, JobSpec, Job!Spec
=============================================================================
