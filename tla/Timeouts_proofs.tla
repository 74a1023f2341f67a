-------------------------- MODULE Timeouts_proofs --------------------------
(***************************************************************************)
(* For any bound on the delay, any kinds of datagrams that get lost and    *)
(* any number of them, and instants as close as one likes: the types and   *)
(* the repetitions, and how long the crash of a worker may go unnoticed.   *)
(***************************************************************************)
EXTENDS Timeouts, Integers, FiniteSetTheorems, TLAPS

-----------------------------------------------------------------------------
(* Time and timers.                                                        *)

LEMMA Division ==
  ASSUME NEW a \in Nat, NEW b \in Nat \ {0}
  PROVE  /\ a \div b \in Nat /\ a % b \in 0..b - 1
         /\ a = (a \div b) * b + (a % b)
  BY SMT

LEMMA Multiple ==
  ASSUME NEW b \in Nat \ {0}, NEW q \in Nat
  PROVE  (q * b) % b = 0
<1> DEFINE m == q * b
           p == m \div b
           r == m % b
           d == q - p
<1>1. m \in Nat
  OBVIOUS
<1>2. p \in Nat /\ r \in 0..b - 1 /\ m = p * b + r
  BY <1>1, Division
<1> HIDE DEF p, r
<1>3. d \in Int /\ d * b = r
  BY <1>2
<1> HIDE DEF d
<1>4. d <= 0 => r = 0
  BY <1>2, <1>3
<1>5. d >= 1 => r = 0
  BY <1>2, <1>3
<1>6. r = 0
  <2>1. d <= 0 \/ d >= 1
    BY <1>3
  <2> QED BY <1>4, <1>5, <2>1
<1> QED BY <1>6 DEF r

(* One instant before an instant that is not the first is an instant.      *)
LEMMA InstantBefore ==
  ASSUME NEW n \in Nat \ {0}, n % TimeStep = 0
  PROVE  n >= TimeStep /\ n - TimeStep \in Nat /\ (n - TimeStep) % TimeStep = 0
<1> DEFINE T == TimeStep
           q == n \div T
<1>1. T \in Nat \ {0}
  BY TimeoutsAssumption
<1>2. q \in Nat /\ n = q * T
  BY <1>1, Division
<1> HIDE DEF q
<1>3. q # 0
  BY <1>1, <1>2
<1>4. q - 1 \in Nat /\ q * T = (q - 1) * T + T
  BY <1>1, <1>2, <1>3
<1>5. (q - 1) * T \in Nat
  BY <1>1, <1>4
<1>6. n >= T /\ n - T = (q - 1) * T
  BY <1>1, <1>2, <1>4, <1>5
<1>7. ((q - 1) * T) % T = 0
  BY <1>1, <1>4, Multiple
<1> QED BY <1>5, <1>6, <1>7

LEMMA AgeBefore ==
  ASSUME NEW a \in Ages, a # 0
  PROVE  a - TimeStep \in Ages
<1>1. a \in Nat \ {0} /\ a % TimeStep = 0 /\ a <= MaxDelay
  BY TimeoutsAssumption DEF Ages
<1>2. a >= TimeStep /\ a - TimeStep \in Nat /\ (a - TimeStep) % TimeStep = 0
  BY <1>1, InstantBefore
<1> QED BY <1>1, <1>2, TimeoutsAssumption DEF Ages

-----------------------------------------------------------------------------
(* Types.                                                                  *)

LEMMA PeriodsGiven ==
  /\ \A n \in Names : Period(NewTimers[n]) \in Nat \ {0}
  /\ Period(NewTimers["response"]) = 3000 /\ NewTimers["response"].oneshot
  /\ Period(NewTimers["heartbeat"]) = 3000 /\ NewTimers["heartbeat"].oneshot
  /\ NewTimers["workerResponse"].oneshot /\ NewTimers["workerTimeout"].oneshot
  BY DEF Names, NewTimers, NewTimer, Period

(* What the timers are all the time: what they were made for stays, and a  *)
(* one-shot timer has nothing to start again with.                         *)
Values(n) == {v \in 0..Period(NewTimers[n]) : v % TimeStep = 0}

Intervals(n) == {IF NewTimers[n].oneshot THEN 0 ELSE Period(NewTimers[n]), 0}

Held(n) ==
  [sec : {NewTimers[n].sec}, msec : {NewTimers[n].msec}, oneshot : {NewTimers[n].oneshot},
   value : Values(n), interval : Intervals(n)]

Timed == \A n \in Names : timer[n] \in Held(n)

(* A worker that is alive has a repetition left.                           *)
Repeating ==
  /\ repeats \in [server : 1..MaxRepeats, worker : 0..MaxRepeats]
  /\ WorkerAlive => repeats.worker >= 1

Counted ==
  /\ flying \in [Kinds -> [Ages -> Nat]]
  /\ lost \in [Kinds -> Nat] /\ hurt \subseteq Kinds
  /\ silence \in Nat

States ==
  /\ server \in {"awaitingWorkACK", "awaitingResult", "solved", "closed"}
  /\ worker \in {"working", "awaitingACK", "answered", "gaveUp", "crashed"}
  /\ pending \subseteq Names

TimeoutsInv == States /\ Timed /\ Repeating /\ Counted

LEMMA ZeroIsAnInstant == 0 % TimeStep = 0
<1>1. TimeStep \in Nat \ {0}
  BY TimeoutsAssumption
<1>2. /\ 0 \div TimeStep \in Nat /\ 0 % TimeStep \in 0..TimeStep - 1
      /\ 0 = (0 \div TimeStep) * TimeStep + (0 % TimeStep)
  BY <1>1, Division
<1>3. (0 \div TimeStep) * TimeStep \in Nat
  BY <1>1, <1>2
<1> QED BY <1>1, <1>2, <1>3

LEMMA ValuesAre ==
  ASSUME NEW n \in Names
  PROVE  /\ Values(n) \subseteq Nat /\ Intervals(n) \subseteq Values(n)
         /\ 0 \in Values(n) /\ 0 \in Intervals(n) /\ Period(NewTimers[n]) \in Values(n)
         /\ \A v \in Values(n) : v <= Period(NewTimers[n]) /\ v % TimeStep = 0
  BY PeriodsGiven, TimersAssumption, ZeroIsAnInstant DEF Values, Intervals

LEMMA TypesFollow == TimeoutsInv => TypeOK
<1> SUFFICES ASSUME TimeoutsInv PROVE TypeOK
  OBVIOUS
<1>1. \A n \in Names : timer[n].value <= Period(NewTimers[n])
  BY ValuesAre DEF TimeoutsInv, Timed, Held
<1> QED BY <1>1 DEF TimeoutsInv, States, Repeating, TypeOK

LEMMA SetHeld ==
  ASSUME NEW n \in Names, NEW t \in Held(n)
  PROVE  /\ Set(t) \in Held(n) /\ Set(t).value = Period(NewTimers[n])
         /\ Unset(t) \in Held(n) /\ Unset(t).value = 0
<1> DEFINE P == Period(NewTimers[n])
           i == IF NewTimers[n].oneshot THEN 0 ELSE P
<1>1. Period(t) = P /\ t.oneshot = NewTimers[n].oneshot
  BY DEF Held, Period
<1>2. P \in Values(n) /\ 0 \in Values(n) /\ 0 \in Intervals(n) /\ i \in Intervals(n)
  BY ValuesAre DEF Intervals
<1>3. Set(t) = [t EXCEPT !.value = P, !.interval = i]
  BY <1>1 DEF Set
<1> HIDE DEF P, i
<1>4. Set(t) \in Held(n) /\ Set(t).value = P
  BY <1>2, <1>3 DEF Held
<1>5. Unset(t) \in Held(n) /\ Unset(t).value = 0
  BY <1>2 DEF Held, Unset
<1> QED BY <1>4, <1>5 DEF P

LEMMA ElapsedHeld ==
  ASSUME NEW n \in Names, NEW t \in Held(n)
  PROVE  Elapsed(t, TimeStep) \in Held(n)
<1>1. TimeStep \in Nat \ {0}
  BY TimeoutsAssumption
<1>2. CASE ~IsRunning(t)
  BY <1>2 DEF Elapsed
<1>3. CASE IsRunning(t) /\ IsDue(t, TimeStep)
  <2>1. Elapsed(t, TimeStep) = [t EXCEPT !.value = t.interval]
    BY <1>3 DEF Elapsed
  <2>2. t.interval \in Values(n)
    BY ValuesAre DEF Held
  <2> QED BY <2>1, <2>2 DEF Held
<1>4. CASE IsRunning(t) /\ ~IsDue(t, TimeStep)
  <2> DEFINE v == t.value - TimeStep
  <2>1. t.value \in Values(n) /\ t.value # 0
    BY <1>4 DEF Held, IsRunning
  <2>2. v \in Nat /\ v <= Period(NewTimers[n]) /\ v % TimeStep = 0
    BY <1>1, <2>1, InstantBefore, PeriodsGiven, ValuesAre
  <2>3. v \in Values(n)
    BY <2>2, PeriodsGiven DEF Values
  <2>4. Elapsed(t, TimeStep) = [t EXCEPT !.value = v]
    BY <1>4 DEF Elapsed
  <2> HIDE DEF v
  <2> QED BY <2>3, <2>4 DEF Held
<1> QED BY <1>2, <1>3, <1>4

LEMMA SettingHeld ==
  ASSUME Timed, NEW on, NEW off, Setting(on, off)
  PROVE  /\ Timed'
         /\ \A n \in Names :
              /\ n \in on => timer'[n].value = Period(NewTimers[n])
              /\ n \notin on /\ n \in off => timer'[n].value = 0
              /\ n \notin on \union off => timer'[n] = timer[n]
<1> SUFFICES ASSUME NEW n \in Names
             PROVE  /\ timer'[n] \in Held(n)
                    /\ n \in on => timer'[n].value = Period(NewTimers[n])
                    /\ n \notin on /\ n \in off => timer'[n].value = 0
                    /\ n \notin on \union off => timer'[n] = timer[n]
  BY DEF Timed
<1>1. timer'[n] = IF n \in on THEN Set(timer[n])
                  ELSE IF n \in off THEN Unset(timer[n]) ELSE timer[n]
  BY DEF Setting
<1>2. timer[n] \in Held(n)
  BY DEF Timed
<1>3. /\ Set(timer[n]) \in Held(n) /\ Set(timer[n]).value = Period(NewTimers[n])
      /\ Unset(timer[n]) \in Held(n) /\ Unset(timer[n]).value = 0
  BY <1>2, SetHeld
<1> QED BY <1>1, <1>2, <1>3

-----------------------------------------------------------------------------
(* Datagrams.                                                              *)

Flights == [Kinds -> [Ages -> Nat]]

LEMMA AgesAre == Ages \subseteq 0..MaxDelay /\ 0 \in Ages /\ MaxDelay \in Ages /\ MaxDelay \in Nat
  BY TimeoutsAssumption, ZeroIsAnInstant DEF Ages

LEMMA OneLess ==
  ASSUME NEW f \in Flights, NEW k \in Kinds, NEW a \in Ages, f[k][a] > 0
  PROVE  /\ [f EXCEPT ![k][a] = @ - 1] \in Flights
         /\ \A l \in Kinds, b \in Ages : [f EXCEPT ![k][a] = @ - 1][l][b] <= f[l][b]
         /\ \A l \in Kinds \ {k} : [f EXCEPT ![k][a] = @ - 1][l] = f[l]
         /\ \A b \in Ages \ {a} : [f EXCEPT ![k][a] = @ - 1][k][b] = f[k][b]
<1> DEFINE g == [f EXCEPT ![k][a] = @ - 1]
<1>1. f[k] \in [Ages -> Nat] /\ f[k][a] - 1 \in Nat
  BY DEF Flights
<1>2. g[k] = [f[k] EXCEPT ![a] = @ - 1] /\ \A l \in Kinds \ {k} : g[l] = f[l]
  BY DEF Flights
<1>3. g[k] \in [Ages -> Nat]
  BY <1>1, <1>2
<1>4. g \in Flights
  BY <1>2, <1>3 DEF Flights
<1>5. \A l \in Kinds, b \in Ages : g[l][b] <= f[l][b]
  BY <1>1, <1>2 DEF Flights
<1>6. \A b \in Ages \ {a} : g[k][b] = f[k][b]
  BY <1>1, <1>2
<1> QED BY <1>2, <1>4, <1>5, <1>6

LEMMA OneMore ==
  ASSUME NEW f \in Flights, NEW k \in Kinds
  PROVE  /\ [f EXCEPT ![k][0] = @ + 1] \in Flights
         /\ \A l \in Kinds \ {k} : [f EXCEPT ![k][0] = @ + 1][l] = f[l]
         /\ [f EXCEPT ![k][0] = @ + 1][k][0] > 0
         /\ \A b \in Ages : f[k][b] > 0 => [f EXCEPT ![k][0] = @ + 1][k][b] > 0
<1> DEFINE g == [f EXCEPT ![k][0] = @ + 1]
<1>1. f[k] \in [Ages -> Nat] /\ f[k][0] + 1 \in Nat
  BY AgesAre DEF Flights
<1>2. g[k] = [f[k] EXCEPT ![0] = @ + 1] /\ \A l \in Kinds \ {k} : g[l] = f[l]
  BY DEF Flights
<1>3. g[k] \in [Ages -> Nat]
  BY <1>1, <1>2
<1>4. g \in Flights
  BY <1>2, <1>3 DEF Flights
<1>5. g[k][0] > 0 /\ \A b \in Ages : f[k][b] > 0 => g[k][b] > 0
  BY <1>1, <1>2, AgesAre
<1> QED BY <1>2, <1>4, <1>5

(* What a datagram leaves behind.                                          *)
LEMMA ArrivalCounted ==
  ASSUME Counted, NEW k \in Kinds, NEW a \in Ages, Arriving(k, a)
  PROVE  /\ Gone(k, a) \in Flights
         /\ \A l \in Kinds, b \in Ages : Gone(k, a)[l][b] <= flying[l][b]
         /\ \A l \in Kinds \ {k} : Gone(k, a)[l] = flying[l]
         /\ flying[k][a] > 0
         /\ lost' \in [Kinds -> Nat] /\ hurt' \subseteq Kinds
         /\ lost'[k] = 0 /\ \A l \in Kinds \ {k} : lost'[l] = lost[l]
<1>1. flying \in Flights /\ flying[k][a] > 0
  BY DEF Counted, Flights, Arriving
<1>2. /\ Gone(k, a) \in Flights
      /\ \A l \in Kinds, b \in Ages : Gone(k, a)[l][b] <= flying[l][b]
      /\ \A l \in Kinds \ {k} : Gone(k, a)[l] = flying[l]
  BY <1>1, OneLess DEF Gone
<1> QED BY <1>1, <1>2 DEF Counted, Arriving

LEMMA ConsumeCounted ==
  ASSUME Counted, NEW k \in Kinds, NEW a \in Ages, Consume(k, a), UNCHANGED silence
  PROVE  /\ Counted' /\ flying[k][a] > 0
         /\ \A l \in Kinds, b \in Ages : flying'[l][b] <= flying[l][b]
         /\ \A l \in Kinds \ {k} : flying'[l] = flying[l] /\ lost'[l] = lost[l]
         /\ lost'[k] = 0
<1>1. Arriving(k, a) /\ flying' = Gone(k, a)
  BY DEF Consume
<1> QED BY <1>1, ArrivalCounted DEF Counted, Flights

LEMMA ExchangeCounted ==
  ASSUME Counted, NEW k \in Kinds, NEW a \in Ages, NEW reply \in Kinds,
         Exchange(k, a, reply), UNCHANGED silence
  PROVE  /\ Counted' /\ flying[k][a] > 0
         /\ \A l \in Kinds \ {reply}, b \in Ages : flying'[l][b] <= flying[l][b]
         /\ \A l \in Kinds \ {k, reply} : flying'[l] = flying[l]
         /\ \A l \in Kinds \ {k} : lost'[l] = lost[l]
         /\ lost'[k] = 0 /\ flying'[reply][0] > 0
         /\ k # reply => \A b \in Ages : flying[reply][b] > 0 => flying'[reply][b] > 0
<1>1. Arriving(k, a) /\ flying' = [Gone(k, a) EXCEPT ![reply][0] = @ + 1]
  BY DEF Exchange
<1>2. /\ Gone(k, a) \in Flights /\ flying[k][a] > 0
      /\ \A l \in Kinds, b \in Ages : Gone(k, a)[l][b] <= flying[l][b]
      /\ \A l \in Kinds \ {k} : Gone(k, a)[l] = flying[l] /\ lost'[l] = lost[l]
      /\ lost' \in [Kinds -> Nat] /\ hurt' \subseteq Kinds /\ lost'[k] = 0
  BY <1>1, ArrivalCounted
<1> DEFINE f == Gone(k, a)
<1>3. f \in Flights /\ flying' = [f EXCEPT ![reply][0] = @ + 1]
  BY <1>1, <1>2
<1> HIDE DEF f
<1>4. /\ flying' \in Flights /\ \A l \in Kinds \ {reply} : flying'[l] = f[l]
      /\ flying'[reply][0] > 0
      /\ \A b \in Ages : f[reply][b] > 0 => flying'[reply][b] > 0
  BY <1>3, OneMore
<1>5. \A l \in Kinds \ {reply}, b \in Ages : flying'[l][b] <= flying[l][b]
  BY <1>2, <1>4 DEF f
<1>6. \A l \in Kinds \ {k, reply} : flying'[l] = flying[l]
  BY <1>2, <1>4 DEF f
<1>7. k # reply => \A b \in Ages : flying[reply][b] > 0 => flying'[reply][b] > 0
  BY <1>2, <1>4 DEF f
<1>8. Counted'
  BY <1>2, <1>4 DEF Counted, Flights
<1> QED BY <1>2, <1>4, <1>5, <1>6, <1>7, <1>8

LEMMA SendingCounted ==
  ASSUME Counted, NEW k \in Kinds, Sending(k), UNCHANGED <<lost, hurt, silence>>
  PROVE  /\ Counted' /\ \A l \in Kinds \ {k} : flying'[l] = flying[l]
         /\ flying'[k][0] > 0
         /\ \A b \in Ages : flying[k][b] > 0 => flying'[k][b] > 0
<1>1. flying \in Flights /\ flying' = [flying EXCEPT ![k][0] = @ + 1]
  BY DEF Counted, Flights, Sending
<1> DEFINE f == flying
<1>2. f \in Flights /\ flying' = [f EXCEPT ![k][0] = @ + 1]
  BY <1>1
<1> HIDE DEF f
<1> DEFINE g == [f EXCEPT ![k][0] = @ + 1]
<1>3. /\ g \in Flights /\ \A l \in Kinds \ {k} : g[l] = f[l]
      /\ g[k][0] > 0
      /\ \A b \in Ages : f[k][b] > 0 => g[k][b] > 0
  BY <1>2, OneMore
<1>4. flying' = g
  BY <1>2
<1> HIDE DEF g
<1> QED BY <1>3, <1>4 DEF f, Counted, Flights

-----------------------------------------------------------------------------
(* Every step keeps the types.                                             *)

LEMMA NewTimersHeld == \A n \in Names : NewTimers[n] \in Held(n)
<1> SUFFICES ASSUME NEW n \in Names PROVE NewTimers[n] \in Held(n)
  OBVIOUS
<1>1. 0 \in Values(n) /\ 0 \in Intervals(n)
  BY ValuesAre
<1>2. NewTimers[n] = [sec |-> NewTimers[n].sec, msec |-> NewTimers[n].msec,
                      oneshot |-> NewTimers[n].oneshot, value |-> 0, interval |-> 0]
  BY DEF NewTimers, NewTimer, Names
<1> QED BY <1>1, <1>2 DEF Held

LEMMA TimeoutsStart == ASSUME Init PROVE TimeoutsInv
<1>2. Timed
  BY NewTimersHeld, SetHeld DEF Init, Timed
<1>3. States /\ Repeating
  BY DEF Init, States, Repeating, Names, MaxRepeats
<1>4. Counted
  BY AgesAre DEF Init, Counted
<1> QED BY <1>2, <1>3, <1>4 DEF TimeoutsInv

LEMMA WorkerReceivesTyped ==
  ASSUME TimeoutsInv, NEW a \in Ages,
         HeartbeatACKReceived(a) \/ AnswerReceived(a) \/ \E k \in Kinds : WorkerIgnores(k, a)
  PROVE  TimeoutsInv'
<1> USE DEF TimeoutsInv, Kinds
<1>1. CASE HeartbeatACKReceived(a)
  <2>1. Counted'
    BY <1>1, ConsumeCounted DEF HeartbeatACKReceived
  <2>2. Timed'
    BY <1>1, SettingHeld DEF HeartbeatACKReceived
  <2> QED BY <1>1, <2>1, <2>2 DEF HeartbeatACKReceived, States, Repeating, WorkerAlive
<1>2. CASE AnswerReceived(a)
  <2>1. Counted'
    BY <1>2, ConsumeCounted DEF AnswerReceived
  <2>2. Timed'
    BY <1>2, SettingHeld DEF AnswerReceived
  <2> QED BY <1>2, <2>1, <2>2 DEF AnswerReceived, States, Repeating, WorkerAlive
<1>3. ASSUME NEW k \in Kinds, WorkerIgnores(k, a)
      PROVE  TimeoutsInv'
  <2>1. Consume(k, a) /\ UNCHANGED <<server, worker, timer, repeats, pending, silence>>
    BY <1>3 DEF WorkerIgnores, Unread, ends
  <2>2. Counted'
    BY <2>1, ConsumeCounted
  <2> QED BY <2>1, <2>2 DEF States, Timed, Repeating, WorkerAlive
<1> QED BY <1>1, <1>2, <1>3

LEMMA ServerReceivesTyped ==
  ASSUME TimeoutsInv, NEW a \in Ages,
         \/ AckReceived(a) \/ HeartbeatReceived(a) \/ ResultReceived(a) \/ InterruptReceived(a)
         \/ \E k \in Kinds : ServerIgnores(k, a)
  PROVE  TimeoutsInv'
<1> USE DEF TimeoutsInv, Kinds
<1>1. CASE AckReceived(a)
  <2>1. Counted'
    BY <1>1, ConsumeCounted DEF AckReceived
  <2>2. Timed'
    BY <1>1, SettingHeld DEF AckReceived
  <2> QED BY <1>1, <2>1, <2>2 DEF AckReceived, States, Repeating, WorkerAlive, MaxRepeats
<1>2. CASE HeartbeatReceived(a)
  <2>1. Counted'
    BY <1>2, ExchangeCounted DEF HeartbeatReceived
  <2>2. Timed'
    BY <1>2, SettingHeld DEF HeartbeatReceived
  <2> QED BY <1>2, <2>1, <2>2 DEF HeartbeatReceived, States, Repeating, WorkerAlive
<1>3. CASE ResultReceived(a)
  <2>1. Counted'
    BY <1>3, ExchangeCounted DEF ResultReceived
  <2>2. Timed'
    BY <1>3, SettingHeld DEF ResultReceived
  <2> QED BY <1>3, <2>1, <2>2 DEF ResultReceived, States, Repeating, WorkerAlive
<1>4. CASE InterruptReceived(a)
  <2>1. Counted'
    BY <1>4, ConsumeCounted DEF InterruptReceived
  <2>2. Timed'
    BY <1>4, SettingHeld DEF InterruptReceived
  <2> QED BY <1>4, <2>1, <2>2 DEF InterruptReceived, States, Repeating, WorkerAlive
<1>5. ASSUME NEW k \in Kinds, ServerIgnores(k, a)
      PROVE  TimeoutsInv'
  <2>1. Consume(k, a) /\ UNCHANGED <<server, worker, timer, repeats, pending, silence>>
    BY <1>5 DEF ServerIgnores, Unread, ends
  <2>2. Counted'
    BY <2>1, ConsumeCounted
  <2> QED BY <2>1, <2>2 DEF States, Timed, Repeating, WorkerAlive
<1> QED BY <1>1, <1>2, <1>3, <1>4, <1>5

LEMMA HandlersTyped ==
  ASSUME TimeoutsInv, Handle PROVE TimeoutsInv'
<1> USE DEF TimeoutsInv, Kinds
<1>1. CASE HandleTimeout
  <2>1. Timed'
    BY <1>1, SettingHeld DEF HandleTimeout, Timed
  <2>2. repeats' \in [server : 1..MaxRepeats, worker : 0..MaxRepeats] /\ repeats'.worker = repeats.worker
    BY <1>1 DEF HandleTimeout, Repeating, MaxRepeats
  <2> QED BY <1>1, <2>1, <2>2 DEF HandleTimeout, States, Repeating, WorkerAlive, Counted
<1>2. CASE HandleHeartbeatTimeout
  <2>1. Timed'
    BY <1>2, SettingHeld DEF HandleHeartbeatTimeout, Timed
  <2> QED BY <1>2, <2>1 DEF HandleHeartbeatTimeout, States, Repeating, WorkerAlive, Counted
<1>3. CASE HandleHeartbeat
  <2>1. Counted'
    BY <1>3, SendingCounted DEF HandleHeartbeat, Counted
  <2> QED BY <1>3, <2>1 DEF HandleHeartbeat, States, Timed, Repeating, WorkerAlive, ends
<1>4. CASE WorkerHandleHeartbeatTimeout
  <2>1. Timed'
    BY <1>4, SettingHeld DEF WorkerHandleHeartbeatTimeout, Timed
  <2> QED BY <1>4, <2>1 DEF WorkerHandleHeartbeatTimeout, States, Repeating, WorkerAlive, Counted
<1>5. CASE WorkerHandleTimeout
  <2>1. Timed'
    BY <1>5, SettingHeld DEF WorkerHandleTimeout, Timed
  <2>2. Counted'
    BY <1>5, SendingCounted DEF WorkerHandleTimeout, Counted
  <2>3. Repeating'
    BY <1>5 DEF WorkerHandleTimeout, Repeating, WorkerAlive, MaxRepeats
  <2> QED BY <1>5, <2>1, <2>2, <2>3 DEF WorkerHandleTimeout, States
<1> QED BY <1>1, <1>2, <1>3, <1>4, <1>5 DEF Handle

LEMMA PassTyped ==
  ASSUME TimeoutsInv, Pass PROVE TimeoutsInv'
<1> USE DEF TimeoutsInv
<1>1. Timed'
  BY ElapsedHeld DEF Pass, Timed
<1>2. flying' \in [Kinds -> [Ages -> Nat]]
  BY AgeBefore DEF Pass, Counted
<1>3. Counted'
  BY <1>2, TimeoutsAssumption DEF Pass, Counted
<1> QED BY <1>1, <1>3 DEF Pass, States, Repeating, WorkerAlive

LEMMA TimeoutsStep == ASSUME TimeoutsInv, [Next]_vars PROVE TimeoutsInv'
<1>1. ASSUME NEW a \in Ages, Receive(a) PROVE TimeoutsInv'
  BY <1>1, ServerReceivesTyped, WorkerReceivesTyped DEF Receive
<1>2. ASSUME NEW a \in Ages, NEW k \in Kinds, Lose(k, a) PROVE TimeoutsInv'
  <2>1. flying' \in Flights
    BY <1>2, OneLess DEF Lose, Gone, TimeoutsInv, Counted, Flights
  <2>2. lost' \in [Kinds -> Nat] /\ hurt' \subseteq Kinds
    BY <1>2 DEF Lose, TimeoutsInv, Counted
  <2> QED BY <1>2, <2>1, <2>2
        DEF Lose, ends, TimeoutsInv, States, Timed, Repeating, WorkerAlive, Counted, Flights
<1>3. CASE Handle
  BY <1>3, HandlersTyped
<1>4. CASE SendResult
  <2>1. Timed'
    BY <1>4, SettingHeld DEF SendResult, TimeoutsInv
  <2>2. Counted'
    BY <1>4, SendingCounted DEF SendResult, TimeoutsInv, Kinds
  <2> QED BY <1>4, <2>1, <2>2 DEF SendResult, TimeoutsInv, States, Repeating, WorkerAlive
<1>5. CASE Crash
  <2>1. Timed'
    BY <1>5, SettingHeld DEF Crash, TimeoutsInv
  <2> QED BY <1>5, <2>1 DEF Crash, TimeoutsInv, States, Repeating, WorkerAlive, Counted
<1>6. CASE Pass
  BY <1>6, PassTyped
<1>7. CASE UNCHANGED vars
  BY <1>7 DEF vars, TimeoutsInv, States, Timed, Repeating, WorkerAlive, Counted
<1> QED BY <1>1, <1>2, <1>3, <1>4, <1>5, <1>6, <1>7 DEF Next

LEMMA TimeoutsInvariance == Spec => []TimeoutsInv
<1>1. Init => TimeoutsInv
  BY TimeoutsStart
<1>2. TimeoutsInv /\ [Next]_vars => TimeoutsInv'
  BY TimeoutsStep
<1> QED BY <1>1, <1>2, PTL DEF Spec

(* The timers keep what they were made for and never have more left than   *)
(* their period, and neither end repeats itself more often than it may.    *)
THEOREM TimeoutsTypeCorrect == Spec => []TypeOK
  BY TimeoutsInvariance, TypesFollow, PTL

-----------------------------------------------------------------------------
(* How long a crash goes unnoticed.                                        *)

FromWorker == {"ack", "heartbeat", "result", "interrupt"}

(* No datagram of a worker that has crashed is younger than the silence,   *)
(* which begins with the crash.                                            *)
Traces ==
  /\ worker # "crashed" => silence = 0
  /\ worker = "crashed" /\ Waiting =>
       \A k \in FromWorker, a \in Ages : flying[k][a] > 0 => silence <= a

(* The time left to the server is enough to notice the silence in time,    *)
(* and a timer that does not run has its signal pending.                   *)
Watched ==
  /\ server = "awaitingWorkACK" =>
       /\ silence + timer["response"].value + 3000 * (repeats.server - 1) <= 3000 * MaxRepeats
       /\ timer["response"].value = 0 => "response" \in pending
  /\ server = "awaitingResult" =>
       /\ silence + timer["heartbeat"].value <= MaxDelay + 3000
       /\ timer["heartbeat"].value = 0 => "heartbeat" \in pending
  /\ server = "solved" => silence <= MaxDelay

CrashInv == TimeoutsInv /\ Traces /\ Watched

LEMMA NoticedFollows == CrashInv => CrashIsNoticed
<1> SUFFICES ASSUME CrashInv, server # "closed" PROVE silence <= Patience
  BY DEF CrashIsNoticed
<1>1. /\ silence \in Nat /\ MaxDelay \in Nat /\ repeats.server \in 1..MaxRepeats
      /\ timer["response"].value \in Nat /\ timer["heartbeat"].value \in Nat
  BY ValuesAre, TimeoutsAssumption
     DEF CrashInv, TimeoutsInv, Counted, Repeating, Timed, Held, Names
<1>2. server \in {"awaitingWorkACK", "awaitingResult", "solved"}
  BY DEF CrashInv, TimeoutsInv, States
<1> QED BY <1>1, <1>2, PeriodsGiven DEF CrashInv, Watched, Patience, MaxRepeats

(* Whatever the worker sent arrives before the silence is longer than a    *)
(* delay.                                                                  *)
LEMMA ArrivesEarly ==
  ASSUME CrashInv, Waiting, NEW k \in FromWorker, NEW a \in Ages, flying[k][a] > 0
  PROVE  silence <= MaxDelay
  BY AgesAre DEF CrashInv, Traces, TimeoutsInv, Counted

(* A step that sends nothing for a crashed worker leaves its traces.       *)
LEMMA TracesKept ==
  ASSUME Traces, Counted, Counted', UNCHANGED silence,
         worker' = "crashed" => worker = "crashed",
         worker' = "crashed" /\ Waiting' => Waiting,
         worker = "crashed" => worker' = "crashed",
         worker' = "crashed" =>
           \A l \in FromWorker, b \in Ages : flying'[l][b] <= flying[l][b]
  PROVE  Traces'
<1>1. CASE worker' # "crashed"
  BY <1>1 DEF Traces
<1>2. CASE worker' = "crashed"
  <2> SUFFICES ASSUME Waiting', NEW k \in FromWorker, NEW b \in Ages, flying'[k][b] > 0
               PROVE  silence' <= b
    BY <1>2 DEF Traces
  <2>1. flying[k][b] \in Nat /\ flying'[k][b] \in Nat
    BY DEF Counted, FromWorker, Kinds
  <2>2. flying[k][b] > 0
    BY <1>2, <2>1
  <2> QED BY <1>2, <2>2 DEF Traces
<1> QED BY <1>1, <1>2

LEMMA ServerReceivesNoticed ==
  ASSUME CrashInv, TimeoutsInv', NEW a \in Ages,
         \/ AckReceived(a) \/ HeartbeatReceived(a) \/ ResultReceived(a) \/ InterruptReceived(a)
         \/ \E k \in Kinds : ServerIgnores(k, a)
  PROVE  Traces' /\ Watched'
<1> USE DEF CrashInv, TimeoutsInv
<1>0. silence \in Nat /\ MaxDelay \in Nat /\ Counted /\ Counted' /\ Timed
  BY TimeoutsAssumption DEF Counted
<1>1. CASE AckReceived(a)
  <2>1. /\ flying["ack"][a] > 0
        /\ \A l \in Kinds, b \in Ages : flying'[l][b] <= flying[l][b]
    BY <1>0, <1>1, ConsumeCounted DEF AckReceived, Kinds
  <2>2. Waiting /\ silence <= MaxDelay
    BY <1>1, <2>1, ArrivesEarly DEF AckReceived, Waiting, FromWorker
  <2>3. Traces'
    BY <1>0, <1>1, <2>1, <2>2, TracesKept DEF AckReceived, FromWorker, Kinds
  <2>4. timer'["heartbeat"].value = 3000
    BY <1>0, <1>1, SettingHeld, PeriodsGiven DEF AckReceived, Names
  <2> QED BY <1>0, <1>1, <2>2, <2>3, <2>4 DEF AckReceived, Watched
<1>2. CASE HeartbeatReceived(a)
  <2>1. /\ flying["heartbeat"][a] > 0
        /\ \A l \in Kinds \ {"heartbeatACK"}, b \in Ages : flying'[l][b] <= flying[l][b]
    BY <1>0, <1>2, ExchangeCounted DEF HeartbeatReceived, Kinds
  <2>2. Waiting /\ silence <= MaxDelay
    BY <1>2, <2>1, ArrivesEarly DEF HeartbeatReceived, Waiting, FromWorker
  <2>3. Traces'
    BY <1>0, <1>2, <2>1, <2>2, TracesKept DEF HeartbeatReceived, FromWorker, Kinds
  <2>4. timer'["heartbeat"].value = 3000
    BY <1>0, <1>2, SettingHeld, PeriodsGiven DEF HeartbeatReceived, Names
  <2> QED BY <1>0, <1>2, <2>2, <2>3, <2>4 DEF HeartbeatReceived, Watched
<1>3. CASE ResultReceived(a)
  <2>1. flying["result"][a] > 0
    BY <1>0, <1>3, ExchangeCounted DEF ResultReceived, Kinds
  <2>2. silence <= MaxDelay
    BY <1>3, <2>1, ArrivesEarly DEF ResultReceived, Waiting, FromWorker, Watched
  <2>3. Traces'
    BY <1>3 DEF ResultReceived, Traces, Waiting
  <2> QED BY <1>0, <1>3, <2>2, <2>3 DEF ResultReceived, Watched
<1>4. CASE InterruptReceived(a)
  BY <1>4 DEF InterruptReceived, Traces, Watched, Waiting
<1>5. ASSUME NEW k \in Kinds, ServerIgnores(k, a)
      PROVE  Traces' /\ Watched'
  <2>1. Consume(k, a) /\ UNCHANGED <<server, worker, timer, repeats, pending, silence>>
    BY <1>5 DEF ServerIgnores, Unread, ends
  <2>2. \A l \in Kinds, b \in Ages : flying'[l][b] <= flying[l][b]
    BY <1>0, <2>1, ConsumeCounted
  <2>3. Traces'
    BY <1>0, <2>1, <2>2, TracesKept DEF Waiting, FromWorker, Kinds
  <2> QED BY <2>1, <2>3 DEF Watched
<1> QED BY <1>1, <1>2, <1>3, <1>4, <1>5

LEMMA WorkerReceivesNoticed ==
  ASSUME CrashInv, TimeoutsInv', NEW a \in Ages,
         HeartbeatACKReceived(a) \/ AnswerReceived(a) \/ \E k \in Kinds : WorkerIgnores(k, a)
  PROVE  Traces' /\ Watched'
<1> USE DEF CrashInv, TimeoutsInv
<1>0. Counted /\ Counted' /\ Timed
  OBVIOUS
<1>1. CASE HeartbeatACKReceived(a)
  <2>1. Traces'
    BY <1>1 DEF HeartbeatACKReceived, Traces
  <2>2. timer'["response"] = timer["response"] /\ timer'["heartbeat"] = timer["heartbeat"]
    BY <1>0, <1>1, SettingHeld DEF HeartbeatACKReceived, Names
  <2> QED BY <1>1, <2>1, <2>2 DEF HeartbeatACKReceived, Watched
<1>2. CASE AnswerReceived(a)
  <2>1. Traces'
    BY <1>2 DEF AnswerReceived, Traces
  <2>2. timer'["response"] = timer["response"] /\ timer'["heartbeat"] = timer["heartbeat"]
    BY <1>0, <1>2, SettingHeld DEF AnswerReceived, OfWorker, Names
  <2> QED BY <1>2, <2>1, <2>2 DEF AnswerReceived, Watched
<1>3. ASSUME NEW k \in Kinds, WorkerIgnores(k, a)
      PROVE  Traces' /\ Watched'
  <2>1. Consume(k, a) /\ UNCHANGED <<server, worker, timer, repeats, pending, silence>>
    BY <1>3 DEF WorkerIgnores, Unread, ends
  <2>2. \A l \in Kinds, b \in Ages : flying'[l][b] <= flying[l][b]
    BY <1>0, <2>1, ConsumeCounted
  <2>3. Traces'
    BY <1>0, <2>1, <2>2, TracesKept DEF Waiting, FromWorker, Kinds
  <2> QED BY <2>1, <2>3 DEF Watched
<1> QED BY <1>1, <1>2, <1>3

LEMMA HandlersNoticed ==
  ASSUME CrashInv, TimeoutsInv', Handle
  PROVE  Traces' /\ Watched'
<1> USE DEF CrashInv, TimeoutsInv
<1>0. /\ silence \in Nat /\ MaxDelay \in Nat /\ Counted /\ Timed
      /\ repeats \in [server : 1..MaxRepeats, worker : 0..MaxRepeats]
      /\ timer["response"].value \in Nat /\ timer["heartbeat"].value \in Nat
  BY ValuesAre, TimeoutsAssumption DEF Counted, Repeating, Timed, Held, Names
<1>1. CASE HandleTimeout
  <2>1. Traces'
    BY <1>1 DEF HandleTimeout, Traces, Waiting
  <2>2. CASE server' = "closed"
    BY <2>1, <2>2 DEF Watched
  <2>3. CASE Waiting /\ ~IsRunning(timer["response"]) /\ server' # "closed"
    <3>1. /\ repeats.server > 1 /\ repeats'.server = repeats.server - 1
          /\ Setting({"response"}, {}) /\ UNCHANGED <<server, silence>>
          /\ pending' = pending \ {"response"}
      BY <1>0, <1>1, <2>3 DEF HandleTimeout
    <3>2. timer'["response"].value = 3000 /\ timer'["heartbeat"] = timer["heartbeat"]
      BY <1>0, <3>1, SettingHeld, PeriodsGiven DEF Names
    <3>3. timer["response"].value = 0
      BY <2>3 DEF IsRunning
    <3> QED BY <1>0, <2>1, <3>1, <3>2, <3>3 DEF Watched, MaxRepeats
  <2>4. CASE ~(Waiting /\ ~IsRunning(timer["response"]))
    BY <1>1, <2>1, <2>4 DEF HandleTimeout, Watched, Waiting, IsRunning
  <2> QED BY <2>2, <2>3, <2>4
<1>2. CASE HandleHeartbeatTimeout
  <2>1. Traces'
    BY <1>2 DEF HandleHeartbeatTimeout, Traces, Waiting
  <2> QED BY <1>2, <2>1 DEF HandleHeartbeatTimeout, Watched, Waiting, IsRunning
<1>3. CASE HandleHeartbeat
  <2>1. Traces'
    BY <1>3 DEF HandleHeartbeat, Traces, Waiting, WorkerAlive, ends
  <2> QED BY <1>3, <2>1 DEF HandleHeartbeat, Watched, ends
<1>4. CASE WorkerHandleHeartbeatTimeout
  <2>1. Traces'
    BY <1>4 DEF WorkerHandleHeartbeatTimeout, Traces, Waiting, WorkerAlive
  <2>2. timer'["response"] = timer["response"] /\ timer'["heartbeat"] = timer["heartbeat"]
    BY <1>0, <1>4, SettingHeld DEF WorkerHandleHeartbeatTimeout, OfWorker, Names
  <2> QED BY <1>4, <2>1, <2>2 DEF WorkerHandleHeartbeatTimeout, Watched
<1>5. CASE WorkerHandleTimeout
  <2>1. Traces'
    BY <1>5 DEF WorkerHandleTimeout, Traces, Waiting, WorkerAlive
  <2>2. timer'["response"] = timer["response"] /\ timer'["heartbeat"] = timer["heartbeat"]
    BY <1>0, <1>5, SettingHeld DEF WorkerHandleTimeout, OfWorker, Names
  <2>3. repeats'.server = repeats.server
    BY <1>0, <1>5 DEF WorkerHandleTimeout
  <2> QED BY <1>5, <2>1, <2>2, <2>3 DEF WorkerHandleTimeout, Watched
<1> QED BY <1>1, <1>2, <1>3, <1>4, <1>5 DEF Handle

(* A one-shot timer that runs has one instant less or has expired.         *)
OneShots == {"response", "heartbeat", "workerResponse", "workerTimeout"}

LEMMA OneInstantLess ==
  ASSUME Timed, Pass, NEW n \in OneShots, timer[n].value # 0
  PROVE  /\ timer'[n].value \in Nat /\ timer'[n].value = timer[n].value - TimeStep
         /\ timer'[n].value = 0 => n \in pending'
<1>1. n \in Names /\ timer[n] \in Held(n) /\ TimeStep \in Nat \ {0}
  BY TimeoutsAssumption DEF Timed, Names, OneShots
<1>2. timer[n].value \in Nat \ {0} /\ timer[n].value % TimeStep = 0 /\ timer[n].interval = 0
  <2>1. timer[n].value \in Values(n) /\ timer[n].interval \in Intervals(n)
    BY <1>1 DEF Held
  <2> QED BY <1>1, <2>1, PeriodsGiven, ValuesAre DEF Intervals, OneShots
<1>3. timer[n].value >= TimeStep
  BY <1>2, InstantBefore
<1>4. timer'[n] = Elapsed(timer[n], TimeStep) /\ (IsDue(timer[n], TimeStep) => n \in pending')
  BY <1>1 DEF Pass
<1>5. CASE IsDue(timer[n], TimeStep)
  <2>1. timer[n].value = TimeStep
    BY <1>1, <1>2, <1>3, <1>5 DEF IsDue
  <2>2. timer'[n].value = 0
    BY <1>1, <1>2, <1>4, <1>5 DEF Elapsed, IsDue, Held
  <2> QED BY <1>1, <1>4, <1>5, <2>1, <2>2
<1>6. CASE ~IsDue(timer[n], TimeStep)
  <2>1. timer[n].value > TimeStep
    BY <1>1, <1>2, <1>6 DEF IsDue, IsRunning
  <2>2. timer'[n].value = timer[n].value - TimeStep
    BY <1>1, <1>2, <1>4, <1>6 DEF Elapsed, IsRunning, Held
  <2> QED BY <1>1, <1>2, <2>1, <2>2
<1> QED BY <1>5, <1>6

LEMMA PassNoticed ==
  ASSUME CrashInv, TimeoutsInv', Pass
  PROVE  Traces' /\ Watched'
<1> USE DEF CrashInv, TimeoutsInv
<1>0. /\ silence \in Nat /\ MaxDelay \in Nat /\ TimeStep \in Nat \ {0} /\ Timed /\ Counted
      /\ repeats.server \in 1..MaxRepeats
      /\ timer["response"].value \in Nat /\ timer["heartbeat"].value \in Nat
  BY ValuesAre, TimeoutsAssumption DEF Counted, Repeating, Timed, Held, Names
<1>1. /\ UNCHANGED <<server, worker, repeats>> /\ pending = {}
      /\ silence' = IF worker = "crashed" /\ Waiting THEN silence + TimeStep ELSE silence
  BY DEF Pass
<1>2. Traces'
  <2>1. CASE ~(worker = "crashed" /\ Waiting)
    BY <1>1, <2>1 DEF Traces, Waiting
  <2>2. CASE worker = "crashed" /\ Waiting
    <3> SUFFICES ASSUME NEW k \in FromWorker, NEW b \in Ages, flying'[k][b] > 0
                 PROVE  silence + TimeStep <= b
      BY <1>1, <2>2 DEF Traces, Waiting
    <3>1. flying'[k][b] = IF b = 0 THEN 0 ELSE flying[k][b - TimeStep]
      BY DEF Pass, FromWorker, Kinds
    <3>2. b # 0 /\ flying[k][b - TimeStep] > 0
      BY <3>1
    <3>3. b - TimeStep \in Ages
      BY <3>2, AgeBefore
    <3>4. silence <= b - TimeStep
      BY <2>2, <3>2, <3>3 DEF Traces
    <3>5. b \in Nat
      BY AgesAre
    <3> QED BY <1>0, <3>4, <3>5
  <2> QED BY <2>1, <2>2
<1>3. CASE server = "awaitingWorkACK"
  <2>1. timer["response"].value # 0
    BY <1>1, <1>3 DEF Watched
  <2>2. /\ timer'["response"].value = timer["response"].value - TimeStep
        /\ timer'["response"].value = 0 => "response" \in pending'
    BY <1>0, <2>1, OneInstantLess DEF OneShots
  <2>3. silence' \in Nat /\ silence' <= silence + TimeStep
    BY <1>0, <1>1
  <2> QED BY <1>0, <1>1, <1>2, <1>3, <2>2, <2>3 DEF Watched, MaxRepeats
<1>4. CASE server = "awaitingResult"
  <2>1. timer["heartbeat"].value # 0
    BY <1>1, <1>4 DEF Watched
  <2>2. /\ timer'["heartbeat"].value = timer["heartbeat"].value - TimeStep
        /\ timer'["heartbeat"].value = 0 => "heartbeat" \in pending'
    BY <1>0, <2>1, OneInstantLess DEF OneShots
  <2>3. silence' \in Nat /\ silence' <= silence + TimeStep
    BY <1>0, <1>1
  <2> QED BY <1>0, <1>1, <1>2, <1>4, <2>2, <2>3 DEF Watched
<1>5. CASE server \notin {"awaitingWorkACK", "awaitingResult"}
  BY <1>1, <1>2, <1>5 DEF Watched, Waiting
<1> QED BY <1>3, <1>4, <1>5

LEMMA CrashStep == ASSUME CrashInv, [Next]_vars PROVE CrashInv'
<1>0. TimeoutsInv'
  BY TimeoutsStep DEF CrashInv
<1> SUFFICES Traces' /\ Watched'
  BY <1>0 DEF CrashInv
<1>1. ASSUME NEW a \in Ages, Receive(a) PROVE Traces' /\ Watched'
  BY <1>0, <1>1, ServerReceivesNoticed, WorkerReceivesNoticed DEF Receive
<1>2. ASSUME NEW a \in Ages, NEW k \in Kinds, Lose(k, a) PROVE Traces' /\ Watched'
  <2>1. \A l \in Kinds, b \in Ages : flying'[l][b] <= flying[l][b]
    BY <1>2, OneLess DEF Lose, Gone, CrashInv, TimeoutsInv, Counted, Flights
  <2>2. Traces'
    BY <1>0, <1>2, <2>1, TracesKept
       DEF Lose, ends, CrashInv, TimeoutsInv, Waiting, FromWorker, Kinds
  <2> QED BY <1>2, <2>2 DEF Lose, ends, CrashInv, Watched
<1>3. CASE Handle
  BY <1>0, <1>3, HandlersNoticed
<1>4. CASE SendResult
  <2>1. Traces'
    BY <1>4 DEF SendResult, CrashInv, Traces
  <2>2. timer'["response"] = timer["response"] /\ timer'["heartbeat"] = timer["heartbeat"]
    BY <1>4, SettingHeld DEF SendResult, CrashInv, TimeoutsInv, Names
  <2> QED BY <1>4, <2>1, <2>2 DEF SendResult, CrashInv, Watched
<1>5. CASE Crash
  <2>1. silence = 0 /\ UNCHANGED silence
    BY <1>5 DEF Crash, CrashInv, Traces, WorkerAlive
  <2>2. Traces'
    BY <2>1, AgesAre DEF Traces
  <2>3. timer'["response"] = timer["response"] /\ timer'["heartbeat"] = timer["heartbeat"]
    BY <1>5, SettingHeld DEF Crash, CrashInv, TimeoutsInv, Names, OfWorker
  <2> QED BY <1>5, <2>2, <2>3 DEF Crash, CrashInv, Watched, OfWorker
<1>6. CASE Pass
  BY <1>0, <1>6, PassNoticed
<1>7. CASE UNCHANGED vars
  BY <1>7 DEF vars, CrashInv, Traces, Watched, Waiting
<1> QED BY <1>0, <1>1, <1>2, <1>3, <1>4, <1>5, <1>6, <1>7 DEF Next

(* A crash is noticed within a delay and the patience of the heartbeat     *)
(* timer - or when the repetitions are used up, where not even the work    *)
(* was acknowledged -, whatever the network delays and loses.              *)
THEOREM CrashNoticed == Spec => []CrashIsNoticed
<1>1. Init => CrashInv
  <2> SUFFICES ASSUME Init PROVE CrashInv
    OBVIOUS
  <2>1. TimeoutsInv
    BY TimeoutsStart
  <2>2. Traces
    BY DEF Init, Traces
  <2>3. timer["response"].value = 3000 /\ silence = 0 /\ repeats.server = MaxRepeats
    <3>1. NewTimers["response"] \in Held("response") /\ "response" \in Names
      BY NewTimersHeld DEF Names
    <3>2. Set(NewTimers["response"]).value = 3000
      BY <3>1, SetHeld, PeriodsGiven
    <3> QED BY <3>1, <3>2 DEF Init
  <2> QED BY <2>1, <2>2, <2>3 DEF CrashInv, Watched, Init, MaxRepeats
<1>2. CrashInv /\ [Next]_vars => CrashInv'
  BY CrashStep
<1> QED BY <1>1, <1>2, NoticedFollows, PTL DEF Spec

-----------------------------------------------------------------------------
(* How much the network may delay and lose.                                *)

(* From one heartbeat that arrives to the next.                            *)
Gap == MaxDelay + 500 * (MaxLost + 1)

(* The worker's patience is enough: until its work is acknowledged, from   *)
(* one answered heartbeat to the next as often as answers may get lost,    *)
(* and for an answer's way.                                                *)
Room == 2 * MaxDelay + (MaxLost + 1) * Gap < Period(NewTimers["workerTimeout"])

LEMMA RoomIs ==
  ASSUME Room
  PROVE  /\ MaxLost \in 0..2 /\ MaxDelay \in Nat /\ 2 * MaxDelay < 3000
         /\ Gap \in Nat /\ Gap = MaxDelay + 500 * (MaxLost + 1) /\ Gap < 3000
         /\ 2 * MaxDelay + (MaxLost + 1) * Gap < 5000
<1>1. MaxLost \in Nat /\ MaxDelay \in Nat
  BY TimeoutsAssumption
<1>2. Gap \in Nat /\ Gap = MaxDelay + 500 * (MaxLost + 1)
  BY <1>1 DEF Gap
<1>3. Period(NewTimers["workerTimeout"]) = 5000
  BY DEF NewTimers, NewTimer, Period
<1>4. 2 * MaxDelay + (MaxLost + 1) * Gap < 5000
  BY <1>3 DEF Room
<1>5. MaxLost <= 2
  <2> SUFFICES ASSUME MaxLost >= 3 PROVE FALSE
    BY <1>1
  <2>1. Gap >= 2000
    BY <1>1, <1>2
  <2>2. (MaxLost + 1) * Gap >= 4 * 2000
    BY <1>1, <1>2, <2>1
  <2> QED BY <1>1, <1>2, <1>4, <2>2
<1>6. MaxLost = 0 \/ MaxLost = 1 \/ MaxLost = 2
  BY <1>1, <1>5
<1>7. CASE MaxLost = 0
  BY <1>1, <1>2, <1>4, <1>7
<1>8. CASE MaxLost = 1
  BY <1>1, <1>2, <1>4, <1>8
<1>9. CASE MaxLost = 2
  BY <1>1, <1>2, <1>4, <1>9
<1> QED BY <1>6, <1>7, <1>8, <1>9

(* Datagrams of one kind, sent at the times B, the latest at upto, with no *)
(* longer than gap between them from the time base on.  Now it is the time *)
(* elapsed, and those that were not lost, which are at most n, fly.        *)
Stream(B, S, fl, n, elapsed, gap, base, upto) ==
  /\ B \subseteq Nat /\ IsFiniteSet(S) /\ Cardinality(S) <= n
  /\ \A t \in Nat : base <= t /\ t < upto => \E b \in B : t < b /\ b <= t + gap
  /\ \A b \in B \ S : elapsed - b \in Ages /\ fl[elapsed - b] > 0

LEMMA NotAllLost ==
  ASSUME NEW S, IsFiniteSet(S)
  PROVE  /\ Cardinality(S) <= 0 => S = {}
         /\ \A x, y : Cardinality(S) <= 1 /\ x # y => ~({x, y} \subseteq S)
         /\ \A x, y, z : Cardinality(S) <= 2 /\ x # y /\ x # z /\ y # z => ~({x, y, z} \subseteq S)
<1>0. Cardinality(S) \in Nat
  BY FS_CardinalityType
<1>1. Cardinality(S) <= 0 => S = {}
  BY <1>0, FS_EmptySet
<1>2. ASSUME NEW x, NEW y, x # y
      PROVE  IsFiniteSet({x, y}) /\ Cardinality({x, y}) = 2
  <2>1. IsFiniteSet({x}) /\ Cardinality({x}) = 1
    BY FS_Singleton
  <2>2. IsFiniteSet({x} \cup {y}) /\ Cardinality({x} \cup {y}) = 2
    BY <1>2, <2>1, FS_AddElement
  <2> QED BY <2>2
<1>3. ASSUME NEW x, NEW y, NEW z, x # y, x # z, y # z
      PROVE  Cardinality({x, y, z}) = 3
  <2> DEFINE P == {x, y}
  <2>1. IsFiniteSet(P) /\ Cardinality(P) = 2 /\ z \notin P
    BY <1>2, <1>3
  <2>2. P \cup {z} = {x, y, z}
    OBVIOUS
  <2> HIDE DEF P
  <2>3. Cardinality(P \cup {z}) = Cardinality(P) + 1
    BY <2>1, FS_AddElement
  <2> QED BY <2>1, <2>2, <2>3
<1>4. ASSUME NEW x, NEW y, Cardinality(S) <= 1, x # y, {x, y} \subseteq S PROVE FALSE
  <2>1. Cardinality({x, y}) <= Cardinality(S)
    BY <1>4, FS_Subset
  <2> QED BY <1>0, <1>2, <1>4, <2>1
<1>5. ASSUME NEW x, NEW y, NEW z, Cardinality(S) <= 2, x # y, x # z, y # z, {x, y, z} \subseteq S
      PROVE  FALSE
  <2>1. Cardinality({x, y, z}) <= Cardinality(S)
    BY <1>5, FS_Subset
  <2>2. Cardinality({x, y, z}) = 3
    BY <1>3, <1>5
  <2> QED BY <1>0, <1>5, <2>1, <2>2
<1> QED BY <1>1, <1>4, <1>5

(* Not all of MaxLost + 1 datagrams are lost, and one that is not does not *)
(* fly longer than MaxDelay.                                               *)
LEMMA StreamBound ==
  ASSUME Room, NEW B, NEW S, NEW fl, NEW n \in 0..MaxLost, NEW elapsed \in Nat, NEW gap \in Nat,
         NEW base \in Nat, NEW upto \in Int,
         Stream(B, S, fl, n, elapsed, gap, base, upto), upto > base + MaxLost * gap
  PROVE  elapsed <= MaxDelay + base + (MaxLost + 1) * gap
<1>0. MaxLost \in 0..2 /\ MaxDelay \in Nat
  BY RoomIs
<1>1. IsFiniteSet(S) /\ Cardinality(S) \in Nat /\ Cardinality(S) <= n /\ B \subseteq Nat
  BY FS_CardinalityType DEF Stream
<1>2. ASSUME NEW t \in Nat, base <= t, t < upto
      PROVE  \E b \in B : t < b /\ b <= t + gap
  BY <1>2 DEF Stream
<1>3. ASSUME NEW b \in B, b \notin S PROVE elapsed <= MaxDelay + b
  <2>1. elapsed - b \in 0..MaxDelay
    BY <1>3, AgesAre DEF Stream
  <2> QED BY <1>0, <1>1, <2>1
<1>4. PICK b1 \in B : base < b1 /\ b1 <= base + gap
  <2>1. base < upto
    BY <1>0
  <2> QED BY <1>2, <2>1
<1>5. CASE MaxLost = 0
  BY <1>0, <1>1, <1>3, <1>4, <1>5, NotAllLost
<1>6. CASE MaxLost = 1
  <2>1. PICK b2 \in B : b1 < b2 /\ b2 <= b1 + gap
    BY <1>1, <1>2, <1>4, <1>6
  <2>2. ~({b1, b2} \subseteq S)
    BY <1>1, <1>4, <1>6, <2>1, NotAllLost
  <2> QED BY <1>0, <1>1, <1>3, <1>4, <1>6, <2>1, <2>2
<1>7. CASE MaxLost = 2
  <2>1. PICK b2 \in B : b1 < b2 /\ b2 <= b1 + gap
    BY <1>1, <1>2, <1>4, <1>7
  <2>2. PICK b3 \in B : b2 < b3 /\ b3 <= b2 + gap
    <3>1. b2 \in Nat /\ base <= b2 /\ b2 <= base + 2 * gap
      BY <1>1, <1>4, <2>1
    <3>2. b2 < upto
      BY <1>7, <3>1
    <3> QED BY <1>2, <3>1, <3>2
  <2>3. ~({b1, b2, b3} \subseteq S)
    <3>1. b1 # b2 /\ b1 # b3 /\ b2 # b3
      BY <1>1, <2>1, <2>2
    <3> QED BY <1>1, <1>7, <3>1, NotAllLost
  <2> QED BY <1>0, <1>1, <1>3, <1>4, <1>7, <2>1, <2>2, <2>3
<1> QED BY <1>0, <1>5, <1>6, <1>7

LEMMA StreamStarts ==
  ASSUME NEW fl, NEW n \in Nat, NEW elapsed, NEW gap, NEW base \in Nat, NEW upto \in Int, upto <= base
  PROVE  Stream({}, {}, fl, n, elapsed, gap, base, upto)
  BY FS_EmptySet DEF Stream

LEMMA StreamKept ==
  ASSUME NEW B, NEW S, NEW fl, NEW n, NEW elapsed, NEW gap, NEW base, NEW upto,
         Stream(B, S, fl, n, elapsed, gap, base, upto),
         NEW gl, \A b \in Ages : fl[b] > 0 => gl[b] > 0
  PROVE  Stream(B, S, gl, n, elapsed, gap, base, upto)
  BY DEF Stream

(* One more is sent now.                                                   *)
LEMMA StreamGrows ==
  ASSUME NEW B, NEW S, NEW fl, NEW n, NEW elapsed \in Nat, NEW gap \in Nat, NEW base \in Nat,
         NEW upto \in Int, Stream(B, S, fl, n, elapsed, gap, base, upto), elapsed <= upto + gap,
         NEW gl, gl[0] > 0, \A b \in Ages : fl[b] > 0 => gl[b] > 0
  PROVE  Stream(B \cup {elapsed}, S, gl, n, elapsed, gap, base, elapsed)
<1> DEFINE C == B \cup {elapsed}
<1>1. C \subseteq Nat /\ IsFiniteSet(S) /\ Cardinality(S) <= n
  BY DEF Stream
<1>2. ASSUME NEW t \in Nat, base <= t, t < elapsed
      PROVE  \E b \in C : t < b /\ b <= t + gap
  <2>1. CASE t < upto
    BY <1>2, <2>1 DEF Stream
  <2>2. CASE t >= upto
    <3>1. t < elapsed /\ elapsed <= t + gap
      BY <1>2, <2>2
    <3> QED BY <3>1
  <2> QED BY <2>1, <2>2
<1>3. ASSUME NEW b \in C \ S
      PROVE  elapsed - b \in Ages /\ gl[elapsed - b] > 0
  <2>1. CASE b = elapsed
    <3>1. elapsed - b = 0
      BY <2>1
    <3> QED BY <3>1, AgesAre
  <2>2. CASE b # elapsed
    BY <1>3, <2>2 DEF Stream
  <2> QED BY <2>1, <2>2
<1> QED BY <1>1, <1>2, <1>3 DEF Stream

(* One is lost.                                                            *)
LEMMA StreamLoses ==
  ASSUME NEW B, NEW S, NEW fl, NEW n \in Nat, NEW elapsed \in Nat, NEW gap, NEW base, NEW upto,
         Stream(B, S, fl, n, elapsed, gap, base, upto),
         NEW a \in Ages, NEW gl, \A b \in Ages \ {a} : gl[b] = fl[b]
  PROVE  Stream(B, S \cup {elapsed - a}, gl, n + 1, elapsed, gap, base, upto)
<1> DEFINE R == S \cup {elapsed - a}
<1>1. B \subseteq Nat /\ IsFiniteSet(S) /\ Cardinality(S) <= n /\ Cardinality(S) \in Nat
  BY FS_CardinalityType DEF Stream
<1>2. IsFiniteSet(R) /\ Cardinality(R) <= n + 1
  <2>1. /\ IsFiniteSet(R)
        /\ Cardinality(R) = IF elapsed - a \in S THEN Cardinality(S) ELSE Cardinality(S) + 1
    BY <1>1, FS_AddElement
  <2> QED BY <1>1, <2>1
<1>3. ASSUME NEW b \in B \ R
      PROVE  elapsed - b \in Ages /\ gl[elapsed - b] > 0
  <2>1. elapsed - b \in Ages /\ fl[elapsed - b] > 0 /\ b \in Nat
    BY <1>1, <1>3 DEF Stream
  <2>2. elapsed - b # a
    BY <1>3, <2>1, AgesAre
  <2> QED BY <2>1, <2>2
<1> HIDE DEF R
<1>4. Stream(B, R, gl, n + 1, elapsed, gap, base, upto)
  BY <1>1, <1>2, <1>3 DEF Stream
<1> QED BY <1>4 DEF R

LEMMA AgeAfter ==
  ASSUME NEW a \in Ages, a # MaxDelay
  PROVE  a + TimeStep \in Ages \ {0} /\ (a + TimeStep) - TimeStep = a
<1>1. /\ TimeStep \in Nat \ {0} /\ MaxDelay \in Nat /\ a \in Nat /\ a < MaxDelay
      /\ MaxDelay % TimeStep = 0 /\ a % TimeStep = 0
  BY TimeoutsAssumption DEF Ages
<1>2. (a + TimeStep) % TimeStep = 0
  <2>1. a \div TimeStep \in Nat /\ a = (a \div TimeStep) * TimeStep
    BY <1>1, Division
  <2>2. a + TimeStep = (a \div TimeStep + 1) * TimeStep
    BY <1>1, <2>1
  <2> QED BY <1>1, <2>1, <2>2, Multiple
<1>3. a + TimeStep <= MaxDelay
  <2> DEFINE q == a \div TimeStep
             p == MaxDelay \div TimeStep
  <2>1. q \in Nat /\ a = q * TimeStep
    BY <1>1, Division
  <2>0. p \in Nat /\ MaxDelay = p * TimeStep
    <3>1. /\ MaxDelay \div TimeStep \in Nat
          /\ MaxDelay = (MaxDelay \div TimeStep) * TimeStep + (MaxDelay % TimeStep)
      BY <1>1, Division
    <3> QED BY <1>1, <3>1
  <2> HIDE DEF q, p
  <2>2. q < p
    <3> SUFFICES ASSUME p <= q PROVE FALSE
      BY <2>0, <2>1
    <3>1. p * TimeStep <= q * TimeStep
      BY <1>1, <2>0, <2>1
    <3> QED BY <1>1, <2>0, <2>1, <3>1
  <2>3. (q + 1) * TimeStep <= p * TimeStep
    BY <1>1, <2>0, <2>1, <2>2
  <2>4. (q + 1) * TimeStep = q * TimeStep + TimeStep
    BY <1>1, <2>1
  <2> QED BY <1>1, <2>0, <2>1, <2>3, <2>4
<1> QED BY <1>1, <1>2, <1>3 DEF Ages

(* Time passes.                                                            *)
LEMMA StreamAges ==
  ASSUME NEW B, NEW S, NEW fl, NEW n, NEW elapsed \in Nat, NEW gap, NEW base, NEW upto,
         Stream(B, S, fl, n, elapsed, gap, base, upto), fl[MaxDelay] = 0,
         NEW gl, \A b \in Ages \ {0} : gl[b] = fl[b - TimeStep]
  PROVE  Stream(B, S, gl, n, elapsed + TimeStep, gap, base, upto)
<1> DEFINE now == elapsed + TimeStep
<1>1. ASSUME NEW b \in B \ S
      PROVE  now - b \in Ages /\ gl[now - b] > 0
  <2> DEFINE a == elapsed - b
  <2>1. a \in Ages /\ fl[a] > 0 /\ b \in Nat
    BY <1>1 DEF Stream
  <2>2. a # MaxDelay
    BY <2>1
  <2>3. now - b = a + TimeStep
    BY <2>1, TimeoutsAssumption
  <2> HIDE DEF a
  <2> DEFINE c == a + TimeStep
  <2>4. c \in Ages \ {0} /\ c - TimeStep = a
    BY <2>1, <2>2, AgeAfter
  <2>5. gl[c] = fl[a]
    <3>1. c \in Ages \ {0} /\ c - TimeStep = a
      BY <2>4
    <3> HIDE DEF c
    <3>2. gl[c] = fl[c - TimeStep]
      BY <3>1, Zenon
    <3> QED BY <3>1, <3>2, Zenon
  <2> QED BY <2>1, <2>3, <2>4, <2>5
<1> HIDE DEF now
<1>2. Stream(B, S, gl, n, now, gap, base, upto)
  BY <1>1 DEF Stream
<1> QED BY <1>2 DEF now

LEMMA HeartbeatBound ==
  ASSUME Room, NEW B, NEW S, NEW fl, NEW n \in 0..MaxLost, NEW elapsed \in Nat, NEW upto \in Nat,
         Stream(B, S, fl, n, elapsed, 500, 0, upto), elapsed <= upto + 500 + MaxDelay
  PROVE  elapsed <= Gap
<1>1. MaxLost \in Nat /\ MaxDelay \in Nat /\ Gap = MaxDelay + 500 * (MaxLost + 1)
  BY RoomIs
<1>2. CASE upto > 0 + MaxLost * 500
  <2>1. elapsed <= MaxDelay + 0 + (MaxLost + 1) * 500
    BY <1>2, StreamBound
  <2> QED BY <1>1, <2>1
<1>3. CASE ~(upto > 0 + MaxLost * 500)
  BY <1>1, <1>3
<1> QED BY <1>2, <1>3

LEMMA AnswersBound ==
  ASSUME Room, NEW A, NEW S, NEW fl, NEW n \in 0..MaxLost, NEW elapsed \in Nat, NEW r \in Nat,
         Stream(A, S, fl, n, elapsed, Gap, MaxDelay, elapsed - r), r <= Gap
  PROVE  elapsed <= 2 * MaxDelay + (MaxLost + 1) * Gap
<1>1. MaxLost \in Nat /\ MaxDelay \in Nat /\ Gap \in Nat
  BY RoomIs
<1>2. CASE elapsed - r > MaxDelay + MaxLost * Gap
  <2>1. elapsed <= MaxDelay + MaxDelay + (MaxLost + 1) * Gap
    BY <1>1, <1>2, StreamBound
  <2>2. (MaxLost + 1) * Gap \in Nat
    BY <1>1
  <2> QED BY <1>1, <2>1, <2>2
<1>3. CASE ~(elapsed - r > MaxDelay + MaxLost * Gap)
  <2>1. MaxLost * Gap \in Nat /\ (MaxLost + 1) * Gap = MaxLost * Gap + Gap
    BY <1>1
  <2> QED BY <1>1, <1>3, <2>1
<1> QED BY <1>2, <1>3

-----------------------------------------------------------------------------
(* As long as the worker is there and nothing but heartbeats gets lost.    *)

(* Milliseconds since a timer that runs was set, and since the worker sent *)
(* a heartbeat.                                                            *)
Since(n) == Period(NewTimers[n]) - timer[n].value

SinceBeat == IF "workerHeartbeat" \in pending THEN 500 ELSE 500 - timer["workerHeartbeat"].value

(* Nobody has given up, and no timer but that of the heartbeats expires.   *)
Quiet ==
  /\ server \in {"awaitingWorkACK", "awaitingResult", "solved"}
  /\ worker \in {"working", "awaitingACK", "answered"}
  /\ worker = "working" => server # "solved"
  /\ worker = "answered" => server = "solved"
  /\ pending \subseteq {"workerHeartbeat"}
  /\ \A k \in Beats : lost[k] <= MaxLost
  /\ \A a \in Ages : /\ flying["interrupt"][a] = 0
                     /\ flying["result"][a] > 0 => worker # "working"
                     /\ flying["answer"][a] > 0 => server = "solved"

Off ==
  /\ server # "awaitingWorkACK" => timer["response"].value = 0
  /\ server # "awaitingResult" => timer["heartbeat"].value = 0
  /\ worker # "working" => timer["workerTimeout"].value = 0
  /\ worker # "awaitingACK" => timer["workerResponse"].value = 0

Ticking ==
  worker = "working" =>
    /\ timer["workerHeartbeat"].value # 0 /\ timer["workerHeartbeat"].interval = 500
    /\ "workerHeartbeat" \in pending => timer["workerHeartbeat"].value = 500

WorkUnderWay ==
  server = "awaitingWorkACK" =>
    \E a \in Ages : /\ flying["ack"][a] > 0 /\ Since("response") <= a
                    /\ worker = "working" => Since("workerTimeout") <= a

(* The heartbeats since the last one that the server received.             *)
Beating ==
  server = "awaitingResult" =>
    \E B, S : \E upto \in Nat :
      /\ Stream(B, S, flying["heartbeat"], lost["heartbeat"], Since("heartbeat"), 500, 0, upto)
      /\ worker = "working" => Since("heartbeat") <= upto + SinceBeat
      /\ worker = "awaitingACK" => Since("heartbeat") <= upto + 500 + Since("workerResponse")

(* Their answers since the last one that the worker received.              *)
Answering ==
  server = "awaitingResult" /\ worker = "working" =>
    \E A, S : Stream(A, S, flying["heartbeatACK"], lost["heartbeatACK"], Since("workerTimeout"),
                     Gap, MaxDelay, Since("workerTimeout") - Since("heartbeat"))

ResultUnderWay ==
  worker = "awaitingACK" =>
    \E a \in Ages : \/ flying["result"][a] > 0 /\ Since("workerResponse") <= a
                    \/ /\ server = "solved" /\ flying["answer"][a] > 0
                       /\ Since("workerResponse") <= a + MaxDelay

Calm ==
  Quiet /\ Off /\ Ticking /\ WorkUnderWay /\ Beating /\ Answering /\ ResultUnderWay

LEMMA SinceIs ==
  ASSUME TimeoutsInv
  PROVE  /\ Since("response") \in Nat /\ Since("response") = 3000 - timer["response"].value
         /\ Since("heartbeat") \in Nat /\ Since("heartbeat") = 3000 - timer["heartbeat"].value
         /\ Since("workerResponse") \in Nat
         /\ Since("workerResponse") = 3000 - timer["workerResponse"].value
         /\ Since("workerTimeout") \in Nat
         /\ Since("workerTimeout") = 5000 - timer["workerTimeout"].value
         /\ SinceBeat \in 0..500 /\ timer["workerHeartbeat"].value \in 0..500
         /\ \A n \in Names : timer[n].value \in Nat
<1>1. \A n \in Names : timer[n].value \in Nat /\ timer[n].value <= Period(NewTimers[n])
  BY ValuesAre DEF TimeoutsInv, Timed, Held
<1>2. /\ Period(NewTimers["response"]) = 3000 /\ Period(NewTimers["heartbeat"]) = 3000
      /\ Period(NewTimers["workerResponse"]) = 3000 /\ Period(NewTimers["workerTimeout"]) = 5000
      /\ Period(NewTimers["workerHeartbeat"]) = 500
  BY DEF NewTimers, NewTimer, Period
<1> DEFINE v == timer["workerHeartbeat"].value
<1>3. v \in 0..500 /\ 500 - v \in 0..500
  <2>1. "workerHeartbeat" \in Names
    BY DEF Names
  <2>2. v \in Nat /\ v <= 500
    BY <1>1, <1>2, <2>1
  <2> HIDE DEF v
  <2> QED BY <2>2
<1>4. SinceBeat \in 0..500
  <2>1. SinceBeat = IF "workerHeartbeat" \in pending THEN 500 ELSE 500 - v
    BY DEF SinceBeat
  <2> HIDE DEF v
  <2> QED BY <1>3, <2>1
<1> QED BY <1>1, <1>2, <1>3, <1>4 DEF Since, Names

(* So all timers that run have something left.                             *)
Steady ==
  /\ worker \in {"working", "awaitingACK", "answered"}
  /\ worker = "working" => server \in {"awaitingWorkACK", "awaitingResult"}
  /\ worker = "answered" => server = "solved"
  /\ \A k \in Beats : lost[k] <= MaxLost
  /\ WorkUnderWay /\ Beating /\ Answering /\ ResultUnderWay

Bounded ==
  /\ server = "awaitingWorkACK" => Since("response") <= MaxDelay
  /\ server = "awaitingResult" => Since("heartbeat") <= Gap
  /\ worker = "working" => Since("workerTimeout") <= 2 * MaxDelay + (MaxLost + 1) * Gap
  /\ worker = "awaitingACK" => Since("workerResponse") <= 2 * MaxDelay

LEMMA SteadyBounds == Room /\ TimeoutsInv /\ Steady => Bounded
<1> SUFFICES ASSUME Room, TimeoutsInv, Steady PROVE Bounded
  OBVIOUS
<1>0. /\ \A a \in Ages : a \in 0..MaxDelay
      /\ MaxDelay \in Nat /\ MaxLost \in Nat /\ Gap \in Nat /\ (MaxLost + 1) * Gap \in Nat
      /\ lost["heartbeat"] \in 0..MaxLost /\ lost["heartbeatACK"] \in 0..MaxLost
  <2>1. MaxDelay \in Nat /\ MaxLost \in Nat /\ Gap \in Nat
    BY RoomIs
  <2>2. lost["heartbeat"] \in 0..MaxLost /\ lost["heartbeatACK"] \in 0..MaxLost
    BY <2>1 DEF TimeoutsInv, Counted, Steady, Beats, Kinds
  <2>3. (MaxLost + 1) * Gap \in Nat
    BY <2>1
  <2> QED BY <2>1, <2>2, <2>3, AgesAre
<1>1. ASSUME server = "awaitingWorkACK"
      PROVE  /\ Since("response") <= MaxDelay
             /\ worker = "working" => Since("workerTimeout") <= MaxDelay
  <2>1. PICK a \in Ages : /\ Since("response") <= a
                          /\ worker = "working" => Since("workerTimeout") <= a
    BY <1>1 DEF Steady, WorkUnderWay
  <2>2. Since("response") \in Nat /\ Since("workerTimeout") \in Nat
    BY SinceIs
  <2>3. a \in Nat /\ a <= MaxDelay
    BY AgesAre
  <2> HIDE DEF Since
  <2>4. Since("response") <= MaxDelay
    BY <1>0, <2>1, <2>2, <2>3
  <2> QED BY <1>0, <2>1, <2>2, <2>3, <2>4
<1>2. ASSUME worker = "awaitingACK" PROVE Since("workerResponse") <= 2 * MaxDelay
  <2>1. PICK a \in Ages :
          Since("workerResponse") <= a \/ Since("workerResponse") <= a + MaxDelay
    BY <1>2 DEF Steady, ResultUnderWay
  <2>2. Since("workerResponse") \in Nat
    BY SinceIs
  <2> QED BY <1>0, <2>1, <2>2
<1>3. ASSUME server = "awaitingResult" PROVE Since("heartbeat") <= Gap
  <2>1. PICK B, S : \E upto \in Nat :
          /\ Stream(B, S, flying["heartbeat"], lost["heartbeat"], Since("heartbeat"), 500, 0, upto)
          /\ worker = "working" => Since("heartbeat") <= upto + SinceBeat
          /\ worker = "awaitingACK" => Since("heartbeat") <= upto + 500 + Since("workerResponse")
    BY <1>3 DEF Steady, Beating
  <2>2. PICK upto \in Nat :
          /\ Stream(B, S, flying["heartbeat"], lost["heartbeat"], Since("heartbeat"), 500, 0, upto)
          /\ worker = "working" => Since("heartbeat") <= upto + SinceBeat
          /\ worker = "awaitingACK" => Since("heartbeat") <= upto + 500 + Since("workerResponse")
    BY <2>1
  <2>3. worker = "awaitingACK" => Since("workerResponse") <= MaxDelay
    BY <1>0, <1>3, SinceIs DEF Steady, ResultUnderWay
  <2>4. worker \in {"working", "awaitingACK"}
    BY <1>3 DEF Steady
  <2>5. Since("heartbeat") <= upto + 500 + MaxDelay
    BY <1>0, <2>2, <2>3, <2>4, SinceIs
  <2>6. Since("heartbeat") \in Nat
    BY SinceIs
  <2>7. /\ lost["heartbeat"] \in 0..MaxLost
        /\ Stream(B, S, flying["heartbeat"], lost["heartbeat"], Since("heartbeat"), 500, 0, upto)
    BY <1>0, <2>2
  <2> DEFINE r == Since("heartbeat")
             n == lost["heartbeat"]
             fl == flying["heartbeat"]
  <2>8. /\ r \in Nat /\ n \in 0..MaxLost /\ upto \in Nat /\ r <= upto + 500 + MaxDelay
        /\ Stream(B, S, fl, n, r, 500, 0, upto)
    BY <2>5, <2>6, <2>7
  <2> HIDE DEF r, n, fl
  <2>9. r <= Gap
    BY <2>8, HeartbeatBound
  <2> QED BY <2>9 DEF r
<1>4. ASSUME worker = "working"
      PROVE  Since("workerTimeout") <= 2 * MaxDelay + (MaxLost + 1) * Gap
  <2>1. CASE server = "awaitingWorkACK"
    <3>1. Since("workerTimeout") \in Nat /\ Since("workerTimeout") <= MaxDelay
      BY <1>1, <1>4, <2>1, SinceIs
    <3> QED BY <1>0, <3>1
  <2>2. CASE server = "awaitingResult"
    <3>1. PICK A, S : Stream(A, S, flying["heartbeatACK"], lost["heartbeatACK"],
                  Since("workerTimeout"), Gap, MaxDelay, Since("workerTimeout") - Since("heartbeat"))
      BY <1>4, <2>2 DEF Steady, Answering
    <3>2. Since("workerTimeout") \in Nat /\ Since("heartbeat") \in Nat
      BY SinceIs
    <3> QED BY <1>0, <1>3, <2>2, <3>1, <3>2, AnswersBound
  <2> QED BY <1>4, <2>1, <2>2 DEF Steady
<1> QED BY <1>1, <1>2, <1>3, <1>4 DEF Bounded

LEMMA CalmBounds == ASSUME Room, TimeoutsInv, Calm PROVE Bounded
  BY SteadyBounds DEF Calm, Quiet, Steady

LEMMA CalmRuns ==
  ASSUME Room, TimeoutsInv, Calm
  PROVE  /\ server = "awaitingWorkACK" => timer["response"].value # 0
         /\ server = "awaitingResult" => timer["heartbeat"].value # 0
         /\ worker = "working" => timer["workerTimeout"].value # 0
         /\ worker = "awaitingACK" => timer["workerResponse"].value # 0
<1>1. /\ MaxDelay \in Nat /\ 2 * MaxDelay < 3000 /\ Gap \in Nat /\ Gap < 3000
      /\ 2 * MaxDelay + (MaxLost + 1) * Gap < 5000 /\ MaxLost \in Nat
  BY RoomIs
<1>2. (MaxLost + 1) * Gap \in Nat
  BY <1>1
<1> QED BY <1>1, <1>2, CalmBounds, SinceIs DEF Bounded

LEMMA AckReceivedCalm ==
  ASSUME Room, TimeoutsInv, Calm, TimeoutsInv', NEW a \in Ages, AckReceived(a)
  PROVE  Calm'
<1>0. Counted /\ Timed /\ MaxDelay \in Nat /\ Gap \in Nat
  BY RoomIs, AgesAre DEF TimeoutsInv
<1>1. /\ server = "awaitingWorkACK" /\ server' = "awaitingResult"
      /\ UNCHANGED <<worker, pending, silence>>
      /\ Consume("ack", a) /\ Setting({"heartbeat"}, {"response"})
  BY DEF AckReceived
<1>2. /\ \A l \in Kinds \ {"ack"} : flying'[l] = flying[l] /\ lost'[l] = lost[l]
  BY <1>0, <1>1, ConsumeCounted DEF Kinds
<1>3. /\ timer'["heartbeat"].value = 3000 /\ timer'["response"].value = 0
      /\ \A n \in OfWorker : timer'[n] = timer[n]
  BY <1>0, <1>1, SettingHeld, PeriodsGiven DEF Names, OfWorker
<1>4. /\ Since("heartbeat")' = 0 /\ SinceBeat' = SinceBeat
      /\ Since("workerResponse")' = Since("workerResponse")
      /\ Since("workerTimeout")' = Since("workerTimeout")
  BY <1>1, <1>3, PeriodsGiven DEF Since, SinceBeat, OfWorker
<1>5. Quiet'
  BY <1>1, <1>2 DEF Calm, Quiet, Beats, Kinds
<1>6. Off' /\ Ticking' /\ WorkUnderWay'
  BY <1>1, <1>3 DEF Calm, Off, Ticking, WorkUnderWay, OfWorker
<1>7. Beating'
  <2>1. Stream({}, {}, flying'["heartbeat"], lost'["heartbeat"], 0, 500, 0, 0)
    BY StreamStarts DEF TimeoutsInv, Counted, Kinds
  <2>2. 0 <= 0 + SinceBeat' /\ 0 <= 0 + 500 + Since("workerResponse")'
    BY <1>4, SinceIs
  <2> QED BY <1>4, <2>1, <2>2 DEF Beating
<1>8. Answering'
  <2> SUFFICES ASSUME worker' = "working"
               PROVE  \E A, S : Stream(A, S, flying'["heartbeatACK"], lost'["heartbeatACK"],
                                       Since("workerTimeout")', Gap, MaxDelay,
                                       Since("workerTimeout")' - Since("heartbeat")')
    BY DEF Answering
  <2>1. Since("workerTimeout") \in Nat /\ Since("workerTimeout") <= MaxDelay
    <3>1. PICK b \in Ages : Since("workerTimeout") <= b
      BY <1>1 DEF Calm, WorkUnderWay
    <3> QED BY <1>0, <3>1, AgesAre, SinceIs
  <2> DEFINE t == Since("workerTimeout")'
             u == Since("workerTimeout")' - Since("heartbeat")'
  <2>2. u \in Int /\ u <= MaxDelay
    BY <1>0, <1>4, <2>1
  <2>3. lost'["heartbeatACK"] \in Nat
    BY DEF TimeoutsInv, Counted, Kinds
  <2> HIDE DEF t, u
  <2>4. Stream({}, {}, flying'["heartbeatACK"], lost'["heartbeatACK"], t, Gap, MaxDelay, u)
    BY <1>0, <2>2, <2>3, StreamStarts
  <2> QED BY <2>4 DEF t, u
<1>9. ResultUnderWay'
  BY <1>1, <1>2, <1>4 DEF Calm, Quiet, ResultUnderWay, Kinds
<1> QED BY <1>5, <1>6, <1>7, <1>8, <1>9 DEF Calm

LEMMA HeartbeatReceivedCalm ==
  ASSUME Room, TimeoutsInv, Calm, TimeoutsInv', NEW a \in Ages, HeartbeatReceived(a)
  PROVE  Calm'
<1>0. Counted /\ Timed /\ MaxDelay \in Nat /\ Gap \in Nat
  BY RoomIs DEF TimeoutsInv
<1>1. /\ server = "awaitingResult" /\ UNCHANGED <<server, worker, pending>>
      /\ Exchange("heartbeat", a, "heartbeatACK") /\ Setting({"heartbeat"}, {})
      /\ UNCHANGED silence
  BY DEF HeartbeatReceived
<1>2. /\ \A l \in Kinds \ Beats : flying'[l] = flying[l]
      /\ lost'["heartbeat"] = 0 /\ lost'["heartbeatACK"] = lost["heartbeatACK"]
      /\ flying'["heartbeatACK"][0] > 0
      /\ \A b \in Ages : flying["heartbeatACK"][b] > 0 => flying'["heartbeatACK"][b] > 0
  BY <1>0, <1>1, ExchangeCounted DEF Kinds, Beats
<1>3. /\ timer'["heartbeat"].value = 3000
      /\ \A n \in Names \ {"heartbeat"} : timer'[n] = timer[n]
  BY <1>0, <1>1, SettingHeld, PeriodsGiven DEF Names
<1>4. /\ Since("heartbeat")' = 0 /\ SinceBeat' = SinceBeat
      /\ Since("workerResponse")' = Since("workerResponse")
      /\ Since("workerTimeout")' = Since("workerTimeout")
  BY <1>1, <1>3, PeriodsGiven DEF Since, SinceBeat, Names
<1>5. Quiet'
  BY <1>1, <1>2, RoomIs DEF Calm, Quiet, Beats, Kinds
<1>6. Off' /\ Ticking' /\ WorkUnderWay'
  BY <1>1, <1>3 DEF Calm, Off, Ticking, WorkUnderWay, Names
<1>7. Beating'
  <2>1. Stream({}, {}, flying'["heartbeat"], lost'["heartbeat"], 0, 500, 0, 0)
    BY StreamStarts DEF TimeoutsInv, Counted, Kinds
  <2>2. 0 <= 0 + SinceBeat' /\ 0 <= 0 + 500 + Since("workerResponse")'
    BY <1>4, SinceIs
  <2> QED BY <1>4, <2>1, <2>2 DEF Beating
<1>8. Answering'
  <2> SUFFICES ASSUME worker' = "working"
               PROVE  \E A, S : Stream(A, S, flying'["heartbeatACK"], lost'["heartbeatACK"],
                                       Since("workerTimeout")', Gap, MaxDelay,
                                       Since("workerTimeout")' - Since("heartbeat")')
    BY DEF Answering
  <2>1. PICK A, S : Stream(A, S, flying["heartbeatACK"], lost["heartbeatACK"], Since("workerTimeout"),
                           Gap, MaxDelay, Since("workerTimeout") - Since("heartbeat"))
    BY <1>1 DEF Calm, Answering
  <2> DEFINE t == Since("workerTimeout")
             r == Since("heartbeat")
             u == t - r
             fl == flying["heartbeatACK"]
             gl == flying'["heartbeatACK"]
             n == lost["heartbeatACK"]
  <2>2. t \in Nat /\ r \in Nat /\ u \in Int /\ u = t - r /\ r <= Gap
    BY <1>1, SinceIs, CalmBounds DEF Bounded
  <2>3. /\ Stream(A, S, fl, n, t, Gap, MaxDelay, u) /\ gl[0] > 0
        /\ \A b \in Ages : fl[b] > 0 => gl[b] > 0
    BY <1>2, <2>1
  <2>4. /\ Since("workerTimeout")' = t /\ Since("workerTimeout")' - Since("heartbeat")' = t
        /\ lost'["heartbeatACK"] = n
    BY <1>2, <1>4, <2>2
  <2> HIDE DEF t, r, u, fl, n
  <2>5. Stream(A \cup {t}, S, gl, n, t, Gap, MaxDelay, t)
    <3>1. t <= u + Gap
      BY <1>0, <2>2
    <3> HIDE DEF gl
    <3> QED BY <1>0, <2>2, <2>3, <3>1, StreamGrows
  <2> QED BY <2>4, <2>5
<1>9. ResultUnderWay'
  BY <1>1, <1>2, <1>4 DEF Calm, ResultUnderWay, Kinds, Beats
<1> QED BY <1>5, <1>6, <1>7, <1>8, <1>9 DEF Calm

LEMMA ResultReceivedCalm ==
  ASSUME Room, TimeoutsInv, Calm, TimeoutsInv', NEW a \in Ages, ResultReceived(a)
  PROVE  Calm'
<1>0. Counted /\ Timed /\ MaxDelay \in Nat
  BY RoomIs DEF TimeoutsInv
<1>1. /\ server' = "solved" /\ UNCHANGED <<worker, pending>>
      /\ Exchange("result", a, "answer") /\ Setting({}, {"response", "heartbeat"})
      /\ UNCHANGED silence
  BY DEF ResultReceived
<1>2. /\ \A l \in Kinds \ {"result", "answer"} : flying'[l] = flying[l]
      /\ \A l \in Beats : lost'[l] = lost[l]
      /\ flying["result"][a] > 0 /\ flying'["answer"][0] > 0
      /\ \A b \in Ages : flying["answer"][b] > 0 => flying'["answer"][b] > 0
      /\ \A b \in Ages : flying'["result"][b] <= flying["result"][b]
  BY <1>0, <1>1, ExchangeCounted DEF Kinds, Beats
<1>3. /\ timer'["heartbeat"].value = 0 /\ timer'["response"].value = 0
      /\ \A n \in OfWorker : timer'[n] = timer[n]
  BY <1>0, <1>1, SettingHeld DEF Names, OfWorker
<1>4. worker # "working"
  BY <1>2 DEF Calm, Quiet
<1>5. Quiet'
  BY <1>1, <1>2, <1>4 DEF Calm, Quiet, Kinds
<1>6. Off' /\ Ticking' /\ WorkUnderWay' /\ Beating' /\ Answering'
  BY <1>1, <1>3, <1>4 DEF Calm, Off, Ticking, WorkUnderWay, Beating, Answering, OfWorker
<1>7. ResultUnderWay'
  <2> SUFFICES ASSUME worker = "awaitingACK" PROVE ResultUnderWay'
    BY <1>1 DEF ResultUnderWay
  <2>1. Since("workerResponse")' = Since("workerResponse") /\ Since("workerResponse") \in Nat
    BY <1>3, SinceIs DEF Since, OfWorker
  <2>2. PICK b \in Ages : \/ flying["result"][b] > 0 /\ Since("workerResponse") <= b
                          \/ /\ server = "solved" /\ flying["answer"][b] > 0
                             /\ Since("workerResponse") <= b + MaxDelay
    BY DEF Calm, ResultUnderWay
  <2>3. CASE Since("workerResponse") <= b
    <3>1. Since("workerResponse")' <= 0 + MaxDelay
      BY <1>0, <2>1, <2>3, AgesAre
    <3> QED BY <1>1, <1>2, <3>1, AgesAre DEF ResultUnderWay
  <2>4. CASE flying["answer"][b] > 0 /\ Since("workerResponse") <= b + MaxDelay
    BY <1>1, <1>2, <2>1, <2>4 DEF ResultUnderWay
  <2> QED BY <2>2, <2>3, <2>4
<1> QED BY <1>5, <1>6, <1>7 DEF Calm

(* What reaches an end that ignores it is a heartbeat the server does not  *)
(* wait for yet or no more, an acknowledgement or an answer.               *)
LEMMA ServerIgnoresCalm ==
  ASSUME Room, TimeoutsInv, Calm, TimeoutsInv', NEW a \in Ages, NEW k \in Kinds, ServerIgnores(k, a)
  PROVE  Calm'
<1>0. Counted
  BY DEF TimeoutsInv
<1>1. Consume(k, a) /\ UNCHANGED <<server, worker, timer, repeats, pending, silence>>
  BY DEF ServerIgnores, Unread, ends
<1>2. /\ \A l \in Kinds \ {k} : flying'[l] = flying[l] /\ lost'[l] = lost[l]
      /\ lost'[k] = 0
  BY <1>0, <1>1, ConsumeCounted
<1>3. \/ k = "ack" /\ server # "awaitingWorkACK"
      \/ k = "heartbeat" /\ server # "awaitingResult"
  BY CalmRuns DEF ServerIgnores, IsRunning, Calm, Quiet
<1>4. /\ SinceBeat' = SinceBeat /\ Since("response")' = Since("response")
      /\ Since("heartbeat")' = Since("heartbeat")
      /\ Since("workerResponse")' = Since("workerResponse")
      /\ Since("workerTimeout")' = Since("workerTimeout")
  BY <1>1 DEF Since, SinceBeat
<1>5. Quiet'
  BY <1>1, <1>2, <1>3, RoomIs DEF Calm, Quiet, Beats, Kinds
<1>6. Off' /\ Ticking'
  BY <1>1 DEF Calm, Off, Ticking
<1>7. WorkUnderWay'
  BY <1>1, <1>2, <1>3, <1>4 DEF Calm, WorkUnderWay, Kinds
<1>8. Beating' /\ Answering'
  <2>1. CASE server = "awaitingResult"
    <3>1. /\ flying'["heartbeat"] = flying["heartbeat"] /\ lost'["heartbeat"] = lost["heartbeat"]
          /\ flying'["heartbeatACK"] = flying["heartbeatACK"]
          /\ lost'["heartbeatACK"] = lost["heartbeatACK"]
      BY <1>2, <1>3, <2>1 DEF Kinds
    <3>2. Beating'
      BY <1>1, <1>4, <3>1 DEF Calm, Beating
    <3>3. Answering'
      BY <1>1, <1>4, <3>1 DEF Calm, Answering
    <3> QED BY <3>2, <3>3
  <2>2. CASE server # "awaitingResult"
    BY <1>1, <2>2 DEF Beating, Answering
  <2> QED BY <2>1, <2>2
<1>9. ResultUnderWay'
  BY <1>1, <1>2, <1>3, <1>4 DEF Calm, ResultUnderWay, Kinds
<1> QED BY <1>5, <1>6, <1>7, <1>8, <1>9 DEF Calm

LEMMA HeartbeatACKReceivedCalm ==
  ASSUME Room, TimeoutsInv, Calm, TimeoutsInv', NEW a \in Ages, HeartbeatACKReceived(a)
  PROVE  Calm'
<1>0. Counted /\ Timed /\ MaxDelay \in Nat /\ Gap \in Nat
  BY RoomIs DEF TimeoutsInv
<1>1. /\ worker = "working" /\ UNCHANGED <<server, worker, pending, silence>>
      /\ Consume("heartbeatACK", a) /\ Setting({"workerTimeout"}, {})
  BY DEF HeartbeatACKReceived
<1>2. /\ \A l \in Kinds \ {"heartbeatACK"} : flying'[l] = flying[l] /\ lost'[l] = lost[l]
      /\ lost'["heartbeatACK"] = 0
  BY <1>0, <1>1, ConsumeCounted DEF Kinds
<1>3. /\ timer'["workerTimeout"].value = Period(NewTimers["workerTimeout"])
      /\ \A n \in Names \ {"workerTimeout"} : timer'[n] = timer[n]
  BY <1>0, <1>1, SettingHeld DEF Names
<1>4. /\ SinceBeat' = SinceBeat /\ Since("response")' = Since("response")
      /\ Since("heartbeat")' = Since("heartbeat")
      /\ Since("workerTimeout")' = 0
  BY <1>1, <1>3, PeriodsGiven DEF Since, SinceBeat, Names
<1>5. Quiet'
  BY <1>1, <1>2, RoomIs DEF Calm, Quiet, Beats, Kinds
<1>6. Off' /\ Ticking' /\ ResultUnderWay'
  BY <1>1, <1>3 DEF Calm, Off, Ticking, ResultUnderWay, Names
<1>7. WorkUnderWay'
  <2> SUFFICES ASSUME server = "awaitingWorkACK" PROVE WorkUnderWay'
    BY <1>1 DEF WorkUnderWay
  <2>1. PICK b \in Ages : flying["ack"][b] > 0 /\ Since("response") <= b
    BY DEF Calm, WorkUnderWay
  <2>2. flying'["ack"][b] > 0 /\ Since("response")' <= b /\ Since("workerTimeout")' <= b
    BY <1>2, <1>4, <2>1, AgesAre DEF Kinds
  <2> QED BY <2>2 DEF WorkUnderWay
<1>8. Beating'
  <2>1. flying'["heartbeat"] = flying["heartbeat"] /\ lost'["heartbeat"] = lost["heartbeat"]
    BY <1>2 DEF Kinds
  <2> QED BY <1>1, <1>4, <2>1 DEF Calm, Beating
<1>9. Answering'
  <2> DEFINE u == 0 - Since("heartbeat")'
  <2>1. u \in Int /\ u <= MaxDelay
    BY <1>0, <1>4, SinceIs
  <2>2. lost'["heartbeatACK"] \in Nat
    BY <1>2
  <2> HIDE DEF u
  <2>3. Stream({}, {}, flying'["heartbeatACK"], lost'["heartbeatACK"], 0, Gap, MaxDelay, u)
    BY <1>0, <2>1, <2>2, StreamStarts
  <2> QED BY <1>4, <2>3 DEF Answering, u
<1> QED BY <1>5, <1>6, <1>7, <1>8, <1>9 DEF Calm

LEMMA AnswerReceivedCalm ==
  ASSUME Room, TimeoutsInv, Calm, TimeoutsInv', NEW a \in Ages, AnswerReceived(a)
  PROVE  Calm'
<1>0. Counted /\ Timed
  BY DEF TimeoutsInv
<1>1. /\ worker' = "answered" /\ UNCHANGED <<server, pending, silence>>
      /\ Consume("answer", a) /\ Setting({}, OfWorker)
  BY DEF AnswerReceived
<1>2. /\ \A l \in Kinds \ {"answer"} : flying'[l] = flying[l] /\ lost'[l] = lost[l]
      /\ flying["answer"][a] > 0
  BY <1>0, <1>1, ConsumeCounted DEF Kinds
<1>3. server = "solved"
  BY <1>2 DEF Calm, Quiet
<1>4. /\ timer'["response"] = timer["response"] /\ timer'["heartbeat"] = timer["heartbeat"]
      /\ timer'["workerTimeout"].value = 0 /\ timer'["workerResponse"].value = 0
  BY <1>0, <1>1, SettingHeld DEF Names, OfWorker
<1>5. Quiet'
  BY <1>1, <1>2, <1>3 DEF Calm, Quiet, Beats, Kinds
<1>6. Off' /\ Ticking' /\ WorkUnderWay' /\ Beating' /\ Answering' /\ ResultUnderWay'
  BY <1>1, <1>3, <1>4 DEF Calm, Off, Ticking, WorkUnderWay, Beating, Answering, ResultUnderWay
<1> QED BY <1>5, <1>6 DEF Calm

LEMMA WorkerIgnoresCalm ==
  ASSUME Room, TimeoutsInv, Calm, TimeoutsInv', NEW a \in Ages, NEW k \in Kinds, WorkerIgnores(k, a)
  PROVE  Calm'
<1>0. Counted
  BY DEF TimeoutsInv
<1>1. Consume(k, a) /\ UNCHANGED <<server, worker, timer, repeats, pending, silence>>
  BY DEF WorkerIgnores, Unread, ends
<1>2. /\ \A l \in Kinds \ {k} : flying'[l] = flying[l] /\ lost'[l] = lost[l]
      /\ lost'[k] = 0
      /\ \A l \in Kinds, b \in Ages : flying'[l][b] <= flying[l][b]
      /\ flying \in Flights /\ flying' \in Flights
  BY <1>0, <1>1, ConsumeCounted DEF Counted, Flights
<1>3. \/ k = "heartbeatACK" /\ worker # "working"
      \/ k = "answer" /\ worker # "awaitingACK"
  BY CalmRuns DEF WorkerIgnores, IsRunning
<1>4. /\ SinceBeat' = SinceBeat /\ Since("response")' = Since("response")
      /\ Since("heartbeat")' = Since("heartbeat")
      /\ Since("workerResponse")' = Since("workerResponse")
      /\ Since("workerTimeout")' = Since("workerTimeout")
  BY <1>1 DEF Since, SinceBeat
<1>5. Quiet'
  <2>1. \A b \in Ages : flying'["answer"][b] > 0 => flying["answer"][b] > 0
    BY <1>2 DEF Flights, Kinds
  <2> QED BY <1>1, <1>2, <1>3, <2>1, RoomIs DEF Calm, Quiet, Beats, Kinds
<1>6. Off' /\ Ticking'
  BY <1>1 DEF Calm, Off, Ticking
<1>7. WorkUnderWay'
  BY <1>1, <1>2, <1>3, <1>4 DEF Calm, WorkUnderWay, Kinds
<1>8. Beating'
  <2>1. flying'["heartbeat"] = flying["heartbeat"] /\ lost'["heartbeat"] = lost["heartbeat"]
    BY <1>2, <1>3 DEF Kinds
  <2> QED BY <1>1, <1>4, <2>1 DEF Calm, Beating
<1>9. Answering'
  <2>1. CASE worker = "working"
    <3>1. /\ flying'["heartbeatACK"] = flying["heartbeatACK"]
          /\ lost'["heartbeatACK"] = lost["heartbeatACK"]
      BY <1>2, <1>3, <2>1 DEF Kinds
    <3> QED BY <1>1, <1>4, <3>1 DEF Calm, Answering
  <2>2. CASE worker # "working"
    BY <1>1, <2>2 DEF Answering
  <2> QED BY <2>1, <2>2
<1>10. ResultUnderWay'
  <2>1. CASE worker = "awaitingACK"
    BY <1>1, <1>2, <1>3, <1>4, <2>1 DEF Calm, ResultUnderWay, Kinds
  <2>2. CASE worker # "awaitingACK"
    BY <1>1, <2>2 DEF ResultUnderWay
  <2> QED BY <2>1, <2>2
<1> QED BY <1>5, <1>6, <1>7, <1>8, <1>9, <1>10 DEF Calm

(* The worker's heartbeat is the only timer whose signal there is.         *)
LEMMA HandlersCalm ==
  ASSUME Room, TimeoutsInv, Calm, TimeoutsInv', Handle
  PROVE  Calm'
<1>0. Counted /\ Timed
  BY DEF TimeoutsInv
<1>1. "workerHeartbeat" \in pending /\ HandleHeartbeat
  BY DEF Handle, Calm, Quiet, HandleTimeout, HandleHeartbeatTimeout, HandleHeartbeat,
         WorkerHandleHeartbeatTimeout, WorkerHandleTimeout
<1>2. /\ pending' = pending \ {"workerHeartbeat"}
      /\ UNCHANGED <<server, worker, timer, repeats, lost, hurt, silence>>
      /\ IF WorkerAlive THEN Sending("heartbeat") ELSE UNCHANGED flying
  BY <1>1 DEF HandleHeartbeat, ends
<1>3. /\ \A l \in Kinds \ {"heartbeat"} : flying'[l] = flying[l]
      /\ WorkerAlive => flying'["heartbeat"][0] > 0
      /\ \A b \in Ages : flying["heartbeat"][b] > 0 => flying'["heartbeat"][b] > 0
  BY <1>0, <1>2, SendingCounted DEF Kinds
<1>4. /\ Since("response")' = Since("response")
      /\ Since("heartbeat")' = Since("heartbeat")
      /\ Since("workerResponse")' = Since("workerResponse")
      /\ Since("workerTimeout")' = Since("workerTimeout")
  BY <1>2 DEF Since
<1>5. Quiet'
  BY <1>2, <1>3 DEF Calm, Quiet, Kinds
<1>6. Off' /\ Ticking'
  BY <1>2 DEF Calm, Off, Ticking
<1>7. WorkUnderWay' /\ ResultUnderWay'
  BY <1>2, <1>3, <1>4 DEF Calm, WorkUnderWay, ResultUnderWay, Kinds
<1>8. Answering'
  BY <1>2, <1>3, <1>4 DEF Calm, Answering, Kinds
<1>9. Beating'
  <2> SUFFICES ASSUME server = "awaitingResult" PROVE Beating'
    BY <1>2 DEF Beating
  <2>1. PICK B, S : \E upto \in Nat :
          /\ Stream(B, S, flying["heartbeat"], lost["heartbeat"], Since("heartbeat"), 500, 0, upto)
          /\ worker = "working" => Since("heartbeat") <= upto + SinceBeat
          /\ worker = "awaitingACK" => Since("heartbeat") <= upto + 500 + Since("workerResponse")
    BY DEF Calm, Beating
  <2>2. PICK upto \in Nat :
          /\ Stream(B, S, flying["heartbeat"], lost["heartbeat"], Since("heartbeat"), 500, 0, upto)
          /\ worker = "working" => Since("heartbeat") <= upto + SinceBeat
          /\ worker = "awaitingACK" => Since("heartbeat") <= upto + 500 + Since("workerResponse")
    BY <2>1
  <2> DEFINE r == Since("heartbeat")
             fl == flying["heartbeat"]
             gl == flying'["heartbeat"]
             n == lost["heartbeat"]
  <2>3. r \in Nat /\ SinceBeat \in 0..500 /\ Stream(B, S, fl, n, r, 500, 0, upto)
    BY <2>2, SinceIs
  <2>4. \A b \in Ages : fl[b] > 0 => gl[b] > 0
    BY <1>3
  <2>5. Since("heartbeat")' = r /\ lost'["heartbeat"] = n
    BY <1>2, <1>4
  <2>6. CASE worker = "working"
    <3>1. r <= upto + 500 /\ gl[0] > 0
      BY <1>3, <2>2, <2>3, <2>6 DEF WorkerAlive
    <3> HIDE DEF r, fl, gl, n
    <3>2. Stream(B \cup {r}, S, gl, n, r, 500, 0, r)
      BY <2>3, <2>4, <3>1, StreamGrows
    <3>3. SinceBeat' \in 0..500
      <4> DEFINE v == timer["workerHeartbeat"].value
      <4>1. v \in 0..500
        BY SinceIs
      <4>2. SinceBeat' = IF "workerHeartbeat" \in pending' THEN 500 ELSE 500 - v
        BY <1>2 DEF SinceBeat
      <4> HIDE DEF v
      <4>3. 500 - v \in 0..500 /\ 500 \in 0..500
        BY <4>1
      <4> QED BY <4>2, <4>3
    <3>4. r \in Nat /\ r <= r + SinceBeat'
      <4>1. r \in Nat
        BY <2>3
      <4>2. \A x, y : x \in Nat /\ y \in 0..500 => x <= x + y
        OBVIOUS
      <4> QED BY <3>3, <4>1, <4>2, Zenon
    <3> DEFINE C == B \cup {r}
    <3>5. Stream(C, S, flying'["heartbeat"], lost'["heartbeat"], Since("heartbeat")', 500, 0, r)
      BY <2>5, <3>2 DEF gl
    <3>6. r \in Nat /\ Since("heartbeat")' <= r + SinceBeat' /\ worker' # "awaitingACK"
      BY <1>2, <2>3, <2>5, <2>6, <3>4
    <3> HIDE DEF C
    <3> QED BY <3>5, <3>6 DEF Beating
  <2>7. CASE worker # "working"
    <3> HIDE DEF r, fl, gl, n
    <3>1. Stream(B, S, gl, n, r, 500, 0, upto)
      BY <2>3, <2>4, StreamKept
    <3>2. worker = "awaitingACK" => r <= upto + 500 + Since("workerResponse")'
      BY <1>4, <2>2 DEF r
    <3> QED BY <1>2, <2>5, <2>7, <3>1, <3>2 DEF Beating, gl
  <2> QED BY <2>6, <2>7
<1> QED BY <1>5, <1>6, <1>7, <1>8, <1>9 DEF Calm

LEMMA SendResultCalm ==
  ASSUME Room, TimeoutsInv, Calm, TimeoutsInv', SendResult
  PROVE  Calm'
<1>0. Counted /\ Timed
  BY DEF TimeoutsInv
<1>1. /\ worker = "working" /\ worker' = "awaitingACK"
      /\ UNCHANGED <<server, pending, lost, hurt, silence>>
      /\ Sending("result") /\ Setting({"workerResponse"}, {"workerHeartbeat", "workerTimeout"})
  BY DEF SendResult
<1>2. /\ \A l \in Kinds \ {"result"} : flying'[l] = flying[l]
      /\ flying'["result"][0] > 0
  BY <1>0, <1>1, SendingCounted DEF Kinds
<1>3. /\ timer'["workerResponse"].value = 3000 /\ timer'["workerTimeout"].value = 0
      /\ timer'["response"] = timer["response"] /\ timer'["heartbeat"] = timer["heartbeat"]
  <2>1. Period(NewTimers["workerResponse"]) = 3000
    BY DEF NewTimers, NewTimer, Period
  <2> QED BY <1>0, <1>1, <2>1, SettingHeld DEF Names
<1>4. /\ Since("response")' = Since("response") /\ Since("heartbeat")' = Since("heartbeat")
      /\ Since("workerResponse")' = 0
  <2>1. Period(NewTimers["workerResponse"]) = 3000
    BY DEF NewTimers, NewTimer, Period
  <2> QED BY <1>3, <2>1 DEF Since
<1>5. Quiet'
  BY <1>1, <1>2 DEF Calm, Quiet, Kinds
<1>6. Off' /\ Ticking' /\ Answering'
  BY <1>1, <1>3 DEF Calm, Off, Ticking, Answering
<1>7. WorkUnderWay'
  BY <1>1, <1>2, <1>4 DEF Calm, WorkUnderWay, Kinds
<1>8. Beating'
  <2> SUFFICES ASSUME server = "awaitingResult" PROVE Beating'
    BY <1>1 DEF Beating
  <2>1. PICK B, S : \E upto \in Nat :
          /\ Stream(B, S, flying["heartbeat"], lost["heartbeat"], Since("heartbeat"), 500, 0, upto)
          /\ Since("heartbeat") <= upto + SinceBeat
    BY <1>1 DEF Calm, Beating
  <2>2. PICK upto \in Nat :
          /\ Stream(B, S, flying["heartbeat"], lost["heartbeat"], Since("heartbeat"), 500, 0, upto)
          /\ Since("heartbeat") <= upto + SinceBeat
    BY <2>1
  <2>3. Since("heartbeat") <= upto + 500 + 0
    BY <2>2, SinceIs
  <2>4. flying'["heartbeat"] = flying["heartbeat"]
    BY <1>2 DEF Kinds
  <2> QED BY <1>1, <1>4, <2>2, <2>3, <2>4 DEF Beating
<1>9. ResultUnderWay'
  BY <1>1, <1>2, <1>4, AgesAre DEF ResultUnderWay
<1> QED BY <1>5, <1>6, <1>7, <1>8, <1>9 DEF Calm

(* A heartbeat or an answer gets lost.                                     *)
LEMMA LoseCalm ==
  ASSUME Room, TimeoutsInv, Calm, TimeoutsInv', NEW k \in Kinds, NEW a \in Ages, Lose(k, a),
         hurt' \subseteq Beats
  PROVE  Calm'
<1>0. flying \in Flights /\ lost \in [Kinds -> Nat] /\ MaxLost \in Nat
  BY RoomIs DEF TimeoutsInv, Counted, Flights
<1>1. /\ UNCHANGED <<server, worker, timer, repeats, pending, silence>>
      /\ k \in Beats /\ lost[k] < MaxLost /\ flying[k][a] > 0
      /\ flying' = Gone(k, a) /\ lost' = [lost EXCEPT ![k] = @ + 1]
  BY DEF Lose, ends
<1>2. /\ \A l \in Kinds \ {k} : flying'[l] = flying[l] /\ lost'[l] = lost[l]
      /\ \A b \in Ages \ {a} : flying'[k][b] = flying[k][b]
      /\ lost'[k] = lost[k] + 1
  BY <1>0, <1>1, OneLess DEF Gone
<1>3. /\ SinceBeat' = SinceBeat /\ Since("response")' = Since("response")
      /\ Since("heartbeat")' = Since("heartbeat")
      /\ Since("workerResponse")' = Since("workerResponse")
      /\ Since("workerTimeout")' = Since("workerTimeout")
  BY <1>1 DEF Since, SinceBeat
<1>4. Quiet'
  <2>1. \A l \in Beats : lost'[l] <= MaxLost
    BY <1>0, <1>1, <1>2 DEF Calm, Quiet, Beats, Kinds
  <2> QED BY <1>1, <1>2, <2>1 DEF Calm, Quiet, Beats, Kinds
<1>5. Off' /\ Ticking'
  BY <1>1 DEF Calm, Off, Ticking
<1>6. WorkUnderWay' /\ ResultUnderWay'
  BY <1>1, <1>2, <1>3 DEF Calm, WorkUnderWay, ResultUnderWay, Beats, Kinds
<1>7. Beating'
  <2>1. CASE k = "heartbeat" /\ server = "awaitingResult"
    <3>1. PICK B, S : \E upto \in Nat :
            /\ Stream(B, S, flying["heartbeat"], lost["heartbeat"], Since("heartbeat"), 500, 0, upto)
            /\ worker = "working" => Since("heartbeat") <= upto + SinceBeat
            /\ worker = "awaitingACK" => Since("heartbeat") <= upto + 500 + Since("workerResponse")
      BY <2>1 DEF Calm, Beating
    <3>2. PICK upto \in Nat :
            /\ Stream(B, S, flying["heartbeat"], lost["heartbeat"], Since("heartbeat"), 500, 0, upto)
            /\ worker = "working" => Since("heartbeat") <= upto + SinceBeat
            /\ worker = "awaitingACK" => Since("heartbeat") <= upto + 500 + Since("workerResponse")
      BY <3>1
    <3> DEFINE r == Since("heartbeat")
               fl == flying["heartbeat"]
               gl == flying'["heartbeat"]
               n == lost["heartbeat"]
               R == S \cup {r - a}
    <3>3. r \in Nat /\ n \in Nat /\ Stream(B, S, fl, n, r, 500, 0, upto)
      BY <1>0, <3>2, SinceIs DEF Kinds
    <3>4. (\A b \in Ages \ {a} : gl[b] = fl[b]) /\ lost'["heartbeat"] = n + 1
      BY <1>2, <2>1
    <3> HIDE DEF r, fl, gl, n
    <3>5. Stream(B, R, gl, n + 1, r, 500, 0, upto)
      BY <3>3, <3>4, StreamLoses
    <3> HIDE DEF R
    <3>6. Stream(B, R, flying'["heartbeat"], lost'["heartbeat"], Since("heartbeat")', 500, 0, upto)
      BY <1>3, <3>4, <3>5 DEF gl, r
    <3> QED BY <1>1, <1>3, <3>2, <3>6 DEF Beating
  <2>2. CASE k # "heartbeat"
    <3>1. flying'["heartbeat"] = flying["heartbeat"] /\ lost'["heartbeat"] = lost["heartbeat"]
      BY <1>2, <2>2 DEF Kinds
    <3> QED BY <1>1, <1>3, <3>1 DEF Calm, Beating
  <2>3. CASE server # "awaitingResult"
    BY <1>1, <2>3 DEF Beating
  <2> QED BY <2>1, <2>2, <2>3
<1>8. Answering'
  <2>1. CASE k = "heartbeatACK" /\ server = "awaitingResult" /\ worker = "working"
    <3> DEFINE t == Since("workerTimeout")
               u == t - Since("heartbeat")
               fl == flying["heartbeatACK"]
               gl == flying'["heartbeatACK"]
               n == lost["heartbeatACK"]
    <3>1. PICK A, S : Stream(A, S, fl, n, t, Gap, MaxDelay, u)
      BY <2>1 DEF Calm, Answering
    <3> DEFINE R == S \cup {t - a}
    <3>2. t \in Nat /\ n \in Nat
      BY <1>0, SinceIs DEF Kinds
    <3>3. /\ \A b \in Ages \ {a} : gl[b] = fl[b]
          /\ lost'["heartbeatACK"] = n + 1
      BY <1>2, <2>1
    <3> HIDE DEF t, u, fl, gl, n
    <3>4. Stream(A, R, gl, n + 1, t, Gap, MaxDelay, u)
      BY <3>1, <3>2, <3>3, StreamLoses
    <3> HIDE DEF R
    <3>5. Stream(A, R, flying'["heartbeatACK"], lost'["heartbeatACK"], Since("workerTimeout")',
                 Gap, MaxDelay, Since("workerTimeout")' - Since("heartbeat")')
      BY <1>3, <3>3, <3>4 DEF gl, t, u
    <3> QED BY <3>5 DEF Answering
  <2>2. CASE k # "heartbeatACK"
    <3>1. /\ flying'["heartbeatACK"] = flying["heartbeatACK"]
          /\ lost'["heartbeatACK"] = lost["heartbeatACK"]
      BY <1>2, <2>2 DEF Kinds
    <3> QED BY <1>1, <1>3, <3>1 DEF Calm, Answering
  <2>3. CASE server # "awaitingResult" \/ worker # "working"
    BY <1>1, <2>3 DEF Answering
  <2> QED BY <2>1, <2>2, <2>3
<1> QED BY <1>4, <1>5, <1>6, <1>7, <1>8 DEF Calm

(* Time passes, for the datagrams and for the timers.                      *)
LEMMA FlyingOlder ==
  ASSUME TimeoutsInv, Pass, NEW k \in Kinds
  PROVE  /\ flying[k][MaxDelay] = 0
         /\ \A b \in Ages \ {0} : flying'[k][b] = flying[k][b - TimeStep]
         /\ \A a \in Ages : flying[k][a] > 0 =>
              a + TimeStep \in Ages /\ flying'[k][a + TimeStep] > 0
         /\ \A b \in Ages : flying'[k][b] > 0 => \E a \in Ages : flying[k][a] > 0
<1>1. flying' = [l \in Kinds |-> [a \in Ages |-> IF a = 0 THEN 0 ELSE flying[l][a - TimeStep]]]
  BY DEF Pass
<1>2. \A a \in Ages : flying'[k][a] = IF a = 0 THEN 0 ELSE flying[k][a - TimeStep]
  BY <1>1
<1>3. flying[k][MaxDelay] = 0
  BY DEF Pass
<1>4. ASSUME NEW a \in Ages, flying[k][a] > 0
      PROVE  a + TimeStep \in Ages /\ flying'[k][a + TimeStep] > 0
  <2> DEFINE c == a + TimeStep
  <2>1. c \in Ages \ {0} /\ c - TimeStep = a
    BY <1>3, <1>4, AgeAfter
  <2> HIDE DEF c
  <2>2. flying'[k][c] = flying[k][c - TimeStep]
    BY <1>2, <2>1
  <2>3. flying'[k][c] > 0
    BY <1>4, <2>1, <2>2
  <2> QED BY <2>1, <2>3 DEF c
<1>5. ASSUME NEW b \in Ages, flying'[k][b] > 0 PROVE \E a \in Ages : flying[k][a] > 0
  <2>1. b # 0 /\ flying[k][b - TimeStep] > 0
    BY <1>2, <1>5
  <2> QED BY <2>1, AgeBefore
<1> QED BY <1>2, <1>3, <1>4, <1>5

LEMMA SinceLonger ==
  ASSUME TimeoutsInv, Pass, NEW n \in OneShots, timer[n].value # 0
  PROVE  Since(n)' = Since(n) + TimeStep
<1>1. /\ timer'[n].value \in Nat /\ timer'[n].value = timer[n].value - TimeStep
      /\ timer[n].value \in Nat /\ Period(NewTimers[n]) \in Nat /\ TimeStep \in Nat
  BY OneInstantLess, ValuesAre, PeriodsGiven, TimeoutsAssumption
     DEF TimeoutsInv, Timed, Held, OneShots, Names
<1> DEFINE p == Period(NewTimers[n])
<1>2. p \in Nat /\ Since(n)' = p - timer'[n].value /\ Since(n) = p - timer[n].value
  BY <1>1 DEF Since
<1> HIDE DEF p
<1> QED BY <1>1, <1>2

LEMMA BeatLonger ==
  ASSUME TimeoutsInv, Pass, Ticking, worker = "working"
  PROVE  Ticking' /\ SinceBeat' = SinceBeat + TimeStep
<1> DEFINE h == timer["workerHeartbeat"]
<1>1. /\ "workerHeartbeat" \in Names /\ pending = {} /\ UNCHANGED worker
      /\ timer'["workerHeartbeat"] = Elapsed(h, TimeStep)
      /\ "workerHeartbeat" \in pending' <=> IsDue(h, TimeStep)
  BY DEF Pass, Names
<1>2. TimeStep \in Nat \ {0} /\ h.value \in Nat \ {0} /\ h.value % TimeStep = 0 /\ h.interval = 500
  <2>1. h.value \in Nat /\ h.value % TimeStep = 0
    BY <1>1, ValuesAre DEF TimeoutsInv, Timed, Held
  <2> QED BY <2>1, TimeoutsAssumption DEF Ticking
<1>3. h.value >= TimeStep
  BY <1>2, InstantBefore
<1>4. h = [h EXCEPT !.value = h.value] /\ h \in Held("workerHeartbeat")
  BY <1>1 DEF TimeoutsInv, Timed, Held
<1>5. SinceBeat = 500 - h.value
  BY <1>1 DEF SinceBeat
<1>6. CASE IsDue(h, TimeStep)
  <2>1. h.value = TimeStep
    BY <1>2, <1>3, <1>6 DEF IsDue
  <2>2. timer'["workerHeartbeat"].value = 500 /\ timer'["workerHeartbeat"].interval = 500
    BY <1>1, <1>2, <1>4, <1>6 DEF Elapsed, IsDue, Held
  <2>3. SinceBeat' = 500
    BY <1>1, <1>6 DEF SinceBeat
  <2> QED BY <1>1, <1>2, <1>5, <2>1, <2>2, <2>3 DEF Ticking
<1>7. CASE ~IsDue(h, TimeStep)
  <2>1. h.value > TimeStep
    BY <1>2, <1>7 DEF IsDue, IsRunning
  <2>2. /\ timer'["workerHeartbeat"].value = h.value - TimeStep
        /\ timer'["workerHeartbeat"].interval = 500
    BY <1>1, <1>2, <1>4, <1>7 DEF Elapsed, IsRunning, Held
  <2>3. SinceBeat' = 500 - (h.value - TimeStep)
    BY <1>1, <1>7, <2>2 DEF SinceBeat
  <2> QED BY <1>1, <1>2, <1>5, <1>7, <2>1, <2>2, <2>3 DEF Ticking
<1> QED BY <1>6, <1>7

LEMMA PassCalm ==
  ASSUME Room, TimeoutsInv, Calm, TimeoutsInv', Pass
  PROVE  Calm'
<1>0. /\ TimeStep \in Nat \ {0} /\ MaxDelay \in Nat /\ Gap \in Nat /\ Timed
      /\ lost \in [Kinds -> Nat]
  BY RoomIs, TimeoutsAssumption DEF TimeoutsInv, Counted
<1>1. pending = {} /\ UNCHANGED <<server, worker, repeats, lost, hurt>>
  BY DEF Pass
<1>2. /\ server = "awaitingWorkACK" => Since("response")' = Since("response") + TimeStep
      /\ server = "awaitingResult" => Since("heartbeat")' = Since("heartbeat") + TimeStep
      /\ worker = "working" => Since("workerTimeout")' = Since("workerTimeout") + TimeStep
      /\ worker = "awaitingACK" => Since("workerResponse")' = Since("workerResponse") + TimeStep
  BY CalmRuns, SinceLonger DEF OneShots
<1>3. Off'
  <2>1. \A n \in OneShots : timer[n].value = 0 => timer'[n].value = 0
    BY DEF Pass, Elapsed, IsRunning, OneShots, Names
  <2> QED BY <1>1, <2>1 DEF Calm, Off, OneShots
<1>4. Ticking' /\ (worker = "working" => SinceBeat' = SinceBeat + TimeStep)
  <2>1. CASE worker = "working"
    BY <2>1, BeatLonger DEF Calm
  <2>2. CASE worker # "working"
    BY <1>1, <2>2 DEF Ticking
  <2> QED BY <2>1, <2>2
<1>5. WorkUnderWay'
  <2> SUFFICES ASSUME server = "awaitingWorkACK" PROVE WorkUnderWay'
    BY <1>1 DEF WorkUnderWay
  <2>1. PICK a \in Ages : /\ flying["ack"][a] > 0 /\ Since("response") <= a
                          /\ worker = "working" => Since("workerTimeout") <= a
    BY DEF Calm, WorkUnderWay
  <2> DEFINE c == a + TimeStep
  <2>2. c \in Ages /\ flying'["ack"][c] > 0
    BY <2>1, FlyingOlder DEF Kinds
  <2>3. Since("response")' <= c
    BY <1>0, <1>2, <2>1, AgesAre, SinceIs
  <2>4. worker = "working" => Since("workerTimeout")' <= c
    BY <1>0, <1>2, <2>1, AgesAre, SinceIs
  <2> HIDE DEF c
  <2> QED BY <1>1, <2>2, <2>3, <2>4 DEF WorkUnderWay
<1>6. Beating'
  <2> SUFFICES ASSUME server = "awaitingResult" PROVE Beating'
    BY <1>1 DEF Beating
  <2>1. PICK B, S : \E upto \in Nat :
          /\ Stream(B, S, flying["heartbeat"], lost["heartbeat"], Since("heartbeat"), 500, 0, upto)
          /\ worker = "working" => Since("heartbeat") <= upto + SinceBeat
          /\ worker = "awaitingACK" => Since("heartbeat") <= upto + 500 + Since("workerResponse")
    BY DEF Calm, Beating
  <2>2. PICK upto \in Nat :
          /\ Stream(B, S, flying["heartbeat"], lost["heartbeat"], Since("heartbeat"), 500, 0, upto)
          /\ worker = "working" => Since("heartbeat") <= upto + SinceBeat
          /\ worker = "awaitingACK" => Since("heartbeat") <= upto + 500 + Since("workerResponse")
    BY <2>1
  <2> DEFINE r == Since("heartbeat")
             fl == flying["heartbeat"]
             gl == flying'["heartbeat"]
             n == lost["heartbeat"]
  <2>3. r \in Nat /\ Stream(B, S, fl, n, r, 500, 0, upto)
    BY <2>2, SinceIs
  <2>4. fl[MaxDelay] = 0 /\ \A b \in Ages \ {0} : gl[b] = fl[b - TimeStep]
    BY FlyingOlder DEF Kinds
  <2>5. Since("heartbeat")' = r + TimeStep /\ lost'["heartbeat"] = n
    BY <1>1, <1>2
  <2> HIDE DEF r, fl, gl, n
  <2>6. Stream(B, S, gl, n, r + TimeStep, 500, 0, upto)
    BY <2>3, <2>4, StreamAges
  <2>7. Stream(B, S, flying'["heartbeat"], lost'["heartbeat"], Since("heartbeat")', 500, 0, upto)
    BY <2>5, <2>6 DEF gl
  <2>8. worker = "working" => Since("heartbeat")' <= upto + SinceBeat'
    BY <1>0, <1>2, <1>4, <2>2, SinceIs
  <2>9. worker = "awaitingACK" => Since("heartbeat")' <= upto + 500 + Since("workerResponse")'
    BY <1>0, <1>2, <2>2, SinceIs
  <2> QED BY <1>1, <2>7, <2>8, <2>9 DEF Beating
<1>7. Answering'
  <2> SUFFICES ASSUME server = "awaitingResult", worker = "working" PROVE Answering'
    BY <1>1 DEF Answering
  <2> DEFINE t == Since("workerTimeout")
             u == t - Since("heartbeat")
             fl == flying["heartbeatACK"]
             gl == flying'["heartbeatACK"]
             n == lost["heartbeatACK"]
  <2>1. PICK A, S : Stream(A, S, fl, n, t, Gap, MaxDelay, u)
    BY DEF Calm, Answering
  <2>2. fl[MaxDelay] = 0 /\ \A b \in Ages \ {0} : gl[b] = fl[b - TimeStep]
    BY FlyingOlder DEF Kinds
  <2>3. /\ t \in Nat /\ Since("workerTimeout")' = t + TimeStep /\ lost'["heartbeatACK"] = n
        /\ Since("workerTimeout")' - Since("heartbeat")' = u
    BY <1>0, <1>1, <1>2, SinceIs
  <2> HIDE DEF t, u, fl, gl, n
  <2>4. Stream(A, S, gl, n, t + TimeStep, Gap, MaxDelay, u)
    BY <2>1, <2>2, <2>3, StreamAges
  <2>5. Stream(A, S, flying'["heartbeatACK"], lost'["heartbeatACK"], Since("workerTimeout")',
               Gap, MaxDelay, Since("workerTimeout")' - Since("heartbeat")')
    BY <2>3, <2>4 DEF gl
  <2> QED BY <2>5 DEF Answering
<1>8. ResultUnderWay'
  <2> SUFFICES ASSUME worker = "awaitingACK" PROVE ResultUnderWay'
    BY <1>1 DEF ResultUnderWay
  <2>1. PICK a \in Ages : \/ flying["result"][a] > 0 /\ Since("workerResponse") <= a
                          \/ /\ server = "solved" /\ flying["answer"][a] > 0
                             /\ Since("workerResponse") <= a + MaxDelay
    BY DEF Calm, ResultUnderWay
  <2> DEFINE c == a + TimeStep
  <2>2. CASE flying["result"][a] > 0 /\ Since("workerResponse") <= a
    <3>1. c \in Ages /\ flying'["result"][c] > 0
      BY <2>2, FlyingOlder DEF Kinds
    <3>2. Since("workerResponse")' <= c
      BY <1>0, <1>2, <2>2, AgesAre, SinceIs
    <3> HIDE DEF c
    <3> QED BY <3>1, <3>2 DEF ResultUnderWay
  <2>3. CASE /\ server = "solved" /\ flying["answer"][a] > 0
             /\ Since("workerResponse") <= a + MaxDelay
    <3>1. c \in Ages /\ flying'["answer"][c] > 0
      BY <2>3, FlyingOlder DEF Kinds
    <3>2. Since("workerResponse")' <= c + MaxDelay
      BY <1>0, <1>2, <2>3, AgesAre, SinceIs
    <3> HIDE DEF c
    <3> QED BY <1>1, <2>3, <3>1, <3>2 DEF ResultUnderWay
  <2> QED BY <2>1, <2>2, <2>3
<1>9. Quiet'
  <2>1. \A k \in Kinds : \A b \in Ages : flying'[k][b] > 0 => \E a \in Ages : flying[k][a] > 0
    BY FlyingOlder
  <2>2. \A b \in Ages : /\ flying'["interrupt"][b] = 0
                        /\ flying'["result"][b] > 0 => worker # "working"
                        /\ flying'["answer"][b] > 0 => server = "solved"
    <3>1. \A b \in Ages : flying'["interrupt"][b] \in Nat
      BY DEF TimeoutsInv, Counted, Kinds
    <3>2. \A b \in Ages : ~(flying'["interrupt"][b] > 0)
      BY <2>1 DEF Calm, Quiet, Kinds
    <3> QED BY <2>1, <3>1, <3>2 DEF Calm, Quiet, Kinds
  <2>3. Steady'
    BY <1>1, <1>5, <1>6, <1>7, <1>8 DEF Calm, Quiet, Steady
  <2>4. Room'
    BY DEF Room
  <2>5. Bounded'
    BY <2>3, <2>4, SteadyBounds, PTL
  <2>6. \A n \in OneShots : timer[n].value # 0 => timer'[n].value # 0
    <3>1. /\ server = "awaitingWorkACK" => timer'["response"].value # 0
          /\ server = "awaitingResult" => timer'["heartbeat"].value # 0
          /\ worker = "working" => timer'["workerTimeout"].value # 0
          /\ worker = "awaitingACK" => timer'["workerResponse"].value # 0
      <4>1. /\ MaxDelay \in Nat /\ 2 * MaxDelay < 3000 /\ Gap \in Nat /\ Gap < 3000
            /\ 2 * MaxDelay + (MaxLost + 1) * Gap < 5000
        BY RoomIs
      <4>2. /\ Since("response")' = 3000 - timer'["response"].value
            /\ Since("heartbeat")' = 3000 - timer'["heartbeat"].value
            /\ Since("workerResponse")' = 3000 - timer'["workerResponse"].value
            /\ Since("workerTimeout")' = 5000 - timer'["workerTimeout"].value
        BY DEF Since, NewTimers, NewTimer, Period
      <4>3. /\ server = "awaitingWorkACK" => Since("response")' <= MaxDelay
            /\ server = "awaitingResult" => Since("heartbeat")' <= Gap
            /\ worker = "working" =>
                 Since("workerTimeout")' <= 2 * MaxDelay + (MaxLost + 1) * Gap
            /\ worker = "awaitingACK" => Since("workerResponse")' <= 2 * MaxDelay
        BY <1>1, <2>5 DEF Bounded
      <4>4. MaxLost \in Nat /\ (MaxLost + 1) * Gap \in Nat
        BY RoomIs
      <4> QED BY <4>1, <4>2, <4>3, <4>4
    <3> QED BY <3>1 DEF Calm, Off, OneShots
  <2>7. pending' \subseteq {"workerHeartbeat"}
    <3>1. \A n \in OneShots : n \notin pending'
      <4> SUFFICES ASSUME NEW n \in OneShots, n \in pending' PROVE FALSE
        OBVIOUS
      <4>1. IsDue(timer[n], TimeStep) /\ n \in Names
        BY DEF Pass
      <4>2. timer[n].value \in Nat \ {0} /\ timer[n].value <= TimeStep
        BY <4>1, ValuesAre DEF IsDue, IsRunning, TimeoutsInv, Timed, Held
      <4>3. timer'[n].value \in Nat \ {0} /\ timer'[n].value = timer[n].value - TimeStep
        BY <1>0, <2>6, <4>2, OneInstantLess
      <4> QED BY <1>0, <4>2, <4>3
    <3>2. pending' \subseteq Names
      BY DEF TimeoutsInv, States
    <3> QED BY <3>1, <3>2 DEF OneShots, Names
  <2>8. \A k \in Beats : lost'[k] <= MaxLost
    BY <1>1 DEF Calm, Quiet
  <2> QED BY <1>1, <2>2, <2>7, <2>8 DEF Calm, Quiet
<1> QED BY <1>3, <1>4, <1>5, <1>6, <1>7, <1>8, <1>9 DEF Calm

(* What holds until the worker crashes or something else gets lost.        *)
CalmInv == TimeoutsInv /\ (hurt \subseteq Beats /\ worker # "crashed" => Calm)

LEMMA CalmStarts == ASSUME Room, Init PROVE Calm
<1>0. TimeoutsInv
  BY TimeoutsStart
<1>1. /\ timer["response"].value = 3000 /\ timer["heartbeat"].value = 0
      /\ timer["workerTimeout"].value = 5000 /\ timer["workerResponse"].value = 0
      /\ timer["workerHeartbeat"].value = 500 /\ timer["workerHeartbeat"].interval = 500
  <2>1. /\ timer["response"] = Set(NewTimers["response"])
        /\ timer["workerTimeout"] = Set(NewTimers["workerTimeout"])
        /\ timer["workerHeartbeat"] = Set(NewTimers["workerHeartbeat"])
        /\ timer["heartbeat"] = NewTimers["heartbeat"]
        /\ timer["workerResponse"] = NewTimers["workerResponse"]
    BY DEF Init, Names
  <2>2. \A n \in Names : Set(NewTimers[n]).value = Period(NewTimers[n])
    BY NewTimersHeld, SetHeld
  <2>3. /\ Period(NewTimers["workerTimeout"]) = 5000 /\ Period(NewTimers["workerHeartbeat"]) = 500
        /\ ~NewTimers["workerHeartbeat"].oneshot
    BY DEF NewTimers, NewTimer, Period
  <2>4. NewTimers["heartbeat"].value = 0 /\ NewTimers["workerResponse"].value = 0
    BY DEF NewTimers, NewTimer
  <2>5. Set(NewTimers["workerHeartbeat"]).interval = 500
    <3>1. NewTimers["workerHeartbeat"] \in Held("workerHeartbeat")
      BY NewTimersHeld DEF Names
    <3> QED BY <2>3, <3>1 DEF Set, Held
  <2> QED BY <2>1, <2>2, <2>3, <2>4, <2>5, PeriodsGiven DEF Names
<1>2. Since("response") = 0 /\ Since("workerTimeout") = 0
  BY <1>0, <1>1, SinceIs
<1>3. Quiet
  BY RoomIs DEF Init, Quiet, Beats, Kinds
<1>4. Off /\ Ticking
  BY <1>1 DEF Init, Off, Ticking
<1>5. WorkUnderWay
  BY <1>2, AgesAre DEF Init, WorkUnderWay, Kinds
<1> QED BY <1>3, <1>4, <1>5 DEF Init, Calm, Beating, Answering, ResultUnderWay

LEMMA CalmStep == ASSUME Room, CalmInv, [Next]_vars PROVE CalmInv'
<1>0. TimeoutsInv /\ TimeoutsInv'
  BY TimeoutsStep DEF CalmInv
<1> SUFFICES ASSUME hurt' \subseteq Beats, worker' # "crashed" PROVE Calm'
  BY <1>0 DEF CalmInv
<1>1. hurt \subseteq hurt' /\ (worker = "crashed" => worker' = "crashed")
  <2>1. ASSUME NEW a \in Ages, Receive(a) PROVE hurt \subseteq hurt' /\ (worker = "crashed" => worker' = "crashed")
    BY <2>1 DEF Receive, AckReceived, HeartbeatReceived, ResultReceived, InterruptReceived,
                HeartbeatACKReceived, AnswerReceived, ServerIgnores, WorkerIgnores, Unread, ends,
                Consume, Exchange, Arriving
  <2>2. ASSUME NEW a \in Ages, NEW k \in Kinds, Lose(k, a)
        PROVE  hurt \subseteq hurt' /\ (worker = "crashed" => worker' = "crashed")
    BY <2>2 DEF Lose, ends
  <2>3. CASE Handle
    BY <2>3 DEF Handle, HandleTimeout, HandleHeartbeatTimeout, HandleHeartbeat,
                WorkerHandleHeartbeatTimeout, WorkerHandleTimeout, WorkerAlive, ends
  <2>4. CASE SendResult \/ Crash \/ Pass \/ UNCHANGED vars
    BY <2>4 DEF SendResult, Crash, Pass, vars
  <2> QED BY <2>1, <2>2, <2>3, <2>4 DEF Next
<1>2. Calm
  BY <1>1 DEF CalmInv
<1>3. ASSUME NEW a \in Ages, Receive(a) PROVE Calm'
  <2>1. CASE InterruptReceived(a)
    <3>1. flying["interrupt"][a] > 0
      BY <2>1 DEF InterruptReceived, Consume, Arriving
    <3> QED BY <1>2, <3>1 DEF Calm, Quiet
  <2>2. CASE \E k \in Kinds : ServerIgnores(k, a) \/ WorkerIgnores(k, a)
    BY <1>0, <1>2, <2>2, ServerIgnoresCalm, WorkerIgnoresCalm
  <2> QED BY <1>0, <1>2, <1>3, <2>1, <2>2, AckReceivedCalm, HeartbeatReceivedCalm,
             ResultReceivedCalm, HeartbeatACKReceivedCalm, AnswerReceivedCalm DEF Receive
<1>4. ASSUME NEW a \in Ages, NEW k \in Kinds, Lose(k, a) PROVE Calm'
  BY <1>0, <1>2, <1>4, LoseCalm
<1>5. CASE Handle
  BY <1>0, <1>2, <1>5, HandlersCalm
<1>6. CASE SendResult
  BY <1>0, <1>2, <1>6, SendResultCalm
<1>7. CASE Crash
  BY <1>7 DEF Crash
<1>8. CASE Pass
  BY <1>0, <1>2, <1>8, PassCalm
<1>9. CASE UNCHANGED vars
  BY <1>2, <1>9 DEF vars, Calm, Quiet, Off, Ticking, WorkUnderWay, Beating, Answering,
                    ResultUnderWay, Since, SinceBeat
<1> QED BY <1>3, <1>4, <1>5, <1>6, <1>7, <1>8, <1>9 DEF Next

(* As long as only heartbeats and their answers get lost, and no more of   *)
(* them in a row than there is room for, the server does not drop a worker *)
(* that is alive and the worker does not give the server up.               *)
THEOREM NoFalseAlarmCorrect == ASSUME Room PROVE Spec => []NoFalseAlarm
<1>1. Init => CalmInv
  BY CalmStarts, TimeoutsStart DEF CalmInv
<1>2. CalmInv /\ [Next]_vars => CalmInv'
  BY CalmStep
<1>3. CalmInv => NoFalseAlarm
  BY DEF CalmInv, Calm, Quiet, NoFalseAlarm, WorkerAlive
<1> QED BY <1>1, <1>2, <1>3, PTL DEF Spec
=============================================================================
