-------------------------- MODULE EventLoop_proofs --------------------------
(***************************************************************************)
(* For any datagrams and any size of the socket's buffer: the loop of both *)
(* programs never waits for a datagram it already has, is never killed by  *)
(* a signal, and is step by step a mailbox.                                *)
(***************************************************************************)
EXTENDS EventLoop, TLAPS

(* Every call of the start precedes the loop.  The socket is bound by the  *)
(* last one, which is why nothing can have been received before.           *)
StartInv ==
  /\ Started => made = 5
  /\ phase = "starting" => made < 5

LoopInv == TypeOK /\ StartInv /\ NoLostWakeup /\ NoSignalKills

(* What each number of calls made means.                                   *)
LEMMA CalledIs ==
  ASSUME made \in 0..5
  PROVE  /\ Called("mask") <=> made >= 1
         /\ Called("own") <=> made >= 3
         /\ Called("async") <=> made >= 4
         /\ Called("bind") <=> made = 5
  <1>1. /\ Prologue[1] = "mask" /\ Prologue[2] = "socket" /\ Prologue[3] = "own"
        /\ Prologue[4] = "async" /\ Prologue[5] = "bind" /\ Len(Prologue) = 5
    BY DEF Prologue
  <1>2. \A i \in 1..5 : i = 1 \/ i = 2 \/ i = 3 \/ i = 4 \/ i = 5
    OBVIOUS
  <1> QED BY <1>1, <1>2 DEF Called

LEMMA FiveCalls == Len(Prologue) = 5
  BY DEF Prologue

(* A datagram leaves the buffer at its head and joins it at its end.       *)
LEMMA BufferStep ==
  ASSUME NEW q \in Seq(Datagrams), NEW m \in Datagrams
  PROVE  /\ Append(q, m) \in Seq(Datagrams) /\ Len(Append(q, m)) = Len(q) + 1
         /\ Append(q, m) # <<>> /\ Len(<<>>) = 0 /\ Len(q) \in Nat
         /\ q # <<>> => Tail(q) \in Seq(Datagrams) /\ Len(Tail(q)) = Len(q) - 1
  OBVIOUS

LEMMA TailStep ==
  ASSUME NEW q \in Seq(Datagrams), q # <<>>
  PROVE  Tail(q) \in Seq(Datagrams) /\ Len(Tail(q)) = Len(q) - 1 /\ Len(q) \in Nat
  OBVIOUS

(* Telling of a datagram raises SIGIO unless the process has ended, and    *)
(* kills nobody.                                                           *)
LEMMA TellStep ==
  ASSUME LoopInv, made = 5, Tell
  PROVE  /\ phase' = phase
         /\ pending' \subseteq SignalSet(role)
         /\ Started => SIGIO \in pending'
         /\ ~Started => pending' = pending
         /\ pending' \ {SIGIO, SIGINT} = pending \ {SIGIO, SIGINT}
  <1>1. Called("mask") /\ Called("async") /\ Called("own")
    BY CalledIs
  <1>2. SIGIO \in SignalSet(role)
    BY DEF SignalSet
  <1>3. pending \subseteq SignalSet(role)
    BY DEF LoopInv, TypeOK
  <1>4. Started <=> phase \notin {"failed", "killed", "ended"}
    BY DEF Started, LoopInv, StartInv
  <1> QED BY <1>1, <1>2, <1>3, <1>4 DEF Tell, Raised

LEMMA AlarmStep ==
  ASSUME LoopInv, Alarm
  PROVE  \E s \in AlarmsOf(role) :
           /\ phase' = phase /\ pending' = pending \union {s}
           /\ pending' \subseteq SignalSet(role)
           /\ UNCHANGED <<role, made, buffer, coming, solved>>
  <1>1. Called("mask")
    BY CalledIs DEF Alarm, LoopInv, StartInv
  <1>2. PICK s \in AlarmsOf(role) : Raised(s) /\ UNCHANGED <<role, made, buffer, coming, solved>>
    BY DEF Alarm
  <1>3. s \in SignalSet(role) /\ pending \subseteq SignalSet(role)
    BY DEF SignalSet, LoopInv, TypeOK
  <1> QED BY <1>1, <1>2, <1>3 DEF Raised

LEMMA LoopInit == ASSUME Init PROVE LoopInv
  <1>1. <<>> \in Seq(Datagrams) /\ Len(<<>>) = 0
    OBVIOUS
  <1>2. TypeOK
    <2>1. solved \in BOOLEAN /\ role \in Roles
      BY DEF Init
    <2>2. Len(buffer) <= BufferSize /\ buffer \in Seq(Datagrams)
      BY <1>1, LoopAssumption DEF Init
    <2>3. made \in 0..Len(Prologue) /\ phase = "starting"
      BY FiveCalls DEF Init
    <2>4. /\ coming \subseteq Datagrams /\ pending \subseteq SignalSet(role)
          /\ buffer = <<>>
      BY DEF Init
    <2> QED BY <2>1, <2>2, <2>3, <2>4 DEF TypeOK
  <1>3. StartInv /\ NoLostWakeup /\ NoSignalKills
    BY DEF Init, StartInv, NoLostWakeup, NoSignalKills, Started
  <1> QED BY <1>2, <1>3 DEF LoopInv

LEMMA LoopStep == ASSUME LoopInv, [Next]_vars PROVE LoopInv'
  <1> USE LoopAssumption, FiveCalls
  <1>1. CASE Arrive
    <2>1. PICK m \in coming :
            /\ Called("bind") /\ Len(buffer) < BufferSize
            /\ buffer' = Append(buffer, m) /\ coming' = coming \ {m}
            /\ Tell /\ UNCHANGED <<role, made, solved>>
      BY <1>1 DEF Arrive
    <2>2. made = 5
      BY <2>1, CalledIs DEF LoopInv, TypeOK
    <2>3. m \in Datagrams /\ buffer \in Seq(Datagrams)
      BY DEF LoopInv, TypeOK
    <2>4. TypeOK'
      <3>1. phase' # "starting"
        BY <2>1, <2>2, TellStep DEF LoopInv, StartInv
      <3>2. buffer' \in Seq(Datagrams) /\ Len(buffer') <= BufferSize
        BY <2>1, <2>3, BufferStep
      <3>3. phase' = phase /\ pending' \subseteq SignalSet(role)
        BY <2>1, <2>2, TellStep
      <3> QED BY <2>1, <3>1, <3>2, <3>3 DEF LoopInv, TypeOK
    <2>5. StartInv' /\ NoLostWakeup' /\ NoSignalKills'
      BY <2>1, <2>2, <2>3, TellStep, BufferStep
      DEF LoopInv, StartInv, NoLostWakeup, NoSignalKills, Started
    <2> QED BY <2>4, <2>5 DEF LoopInv
  <1>2. CASE Lose
    <2>1. TypeOK'
      BY <1>2 DEF Lose, LoopInv, TypeOK
    <2>2. StartInv' /\ NoLostWakeup' /\ NoSignalKills'
      BY <1>2 DEF Lose, LoopInv, StartInv, NoLostWakeup, NoSignalKills, Started
    <2> QED BY <2>1, <2>2 DEF LoopInv
  <1>3. CASE Sent
    <2>1. made = 5 /\ Tell /\ Started /\ UNCHANGED <<role, made, buffer, coming, solved>>
      BY <1>3 DEF Sent, LoopInv, StartInv
    <2>2. TypeOK'
      BY <2>1, TellStep DEF LoopInv, TypeOK
    <2>3. StartInv' /\ NoLostWakeup' /\ NoSignalKills'
      BY <2>1, TellStep DEF LoopInv, StartInv, NoLostWakeup, NoSignalKills, Started
    <2> QED BY <2>2, <2>3 DEF LoopInv
  <1>4. CASE Alarm
    <2>1. PICK s \in AlarmsOf(role) :
           /\ phase' = phase /\ pending' = pending \union {s}
           /\ pending' \subseteq SignalSet(role)
           /\ UNCHANGED <<role, made, buffer, coming, solved>>
      BY <1>4, AlarmStep
    <2>2. TypeOK'
      BY <2>1 DEF LoopInv, TypeOK
    <2>3. StartInv' /\ NoLostWakeup' /\ NoSignalKills'
      BY <2>1 DEF LoopInv, StartInv, NoLostWakeup, NoSignalKills, Started
    <2> QED BY <2>2, <2>3 DEF LoopInv
  <1>5. CASE Interrupt
    <2>1. SIGINT \in SignalSet(role) /\ SIGINT # SIGIO
      BY DEF SignalSet, SIGINT, SIGIO
    <2>2. made \in 0..5
      BY DEF LoopInv, TypeOK
    <2>3. phase' = "ended" => made < 5 \/ phase = "ended"
      BY <1>5, <2>2, CalledIs DEF Interrupt
    <2>4. TypeOK'
      BY <1>5, <2>1 DEF Interrupt, LoopInv, TypeOK
    <2>5. StartInv' /\ NoLostWakeup' /\ NoSignalKills'
      BY <1>5 DEF Interrupt, LoopInv, StartInv, NoLostWakeup, NoSignalKills, Started
    <2> QED BY <2>4, <2>5 DEF LoopInv
  <1>6. CASE StartUp
    <2>1. made < 5 /\ buffer = <<>>
      BY <1>6 DEF StartUp, LoopInv, StartInv, TypeOK
    <2>2. TypeOK'
      BY <1>6, <2>1 DEF StartUp, LoopInv, TypeOK
    <2>3. StartInv' /\ NoLostWakeup' /\ NoSignalKills'
      BY <1>6, <2>1
      DEF StartUp, LoopInv, TypeOK, StartInv, NoLostWakeup, NoSignalKills, Started
    <2> QED BY <2>2, <2>3 DEF LoopInv
  <1>7. CASE StartUpFails
    <2>1. TypeOK'
      BY <1>7 DEF StartUpFails, LoopInv, TypeOK
    <2>2. StartInv' /\ NoLostWakeup' /\ NoSignalKills'
      BY <1>7 DEF StartUpFails, LoopInv, StartInv, NoLostWakeup, NoSignalKills, Started
    <2> QED BY <2>1, <2>2 DEF LoopInv
  <1>8. CASE Receive
    <2>1. Tail(buffer) \in Seq(Datagrams) /\ Len(Tail(buffer)) = Len(buffer) - 1 /\ Len(buffer) \in Nat
      BY <1>8, TailStep DEF Receive, LoopInv, TypeOK
    <2>2. made = 5
      BY <1>8 DEF Receive, LoopInv, StartInv, Started
    <2>3. TypeOK'
      <3>1. solved' = solved \/ solved' = TRUE
        BY <1>8 DEF Receive, Handled
      <3>2. solved' \in BOOLEAN
        BY <3>1 DEF LoopInv, TypeOK
      <3>3. /\ phase' \in {"receiving", "ended", "failed"}
            /\ UNCHANGED <<role, made, coming, pending>>
        BY <1>8 DEF Receive, Handled
      <3>4. buffer' \in Seq(Datagrams) /\ Len(buffer') <= BufferSize
        BY <1>8, <2>1 DEF Receive, LoopInv, TypeOK
      <3> QED BY <2>2, <3>2, <3>3, <3>4 DEF LoopInv, TypeOK
    <2>4. StartInv' /\ NoLostWakeup' /\ NoSignalKills'
      BY <1>8, <2>2
      DEF Receive, Handled, LoopInv, StartInv, NoLostWakeup, NoSignalKills, Started
    <2> QED BY <2>3, <2>4 DEF LoopInv
  <1>9. CASE ReceiveNothing
    <2>1. made = 5
      BY <1>9 DEF ReceiveNothing, LoopInv, StartInv, Started
    <2>2. phase' \in {"ended", "waiting"}
      BY <1>9 DEF ReceiveNothing, Continue
    <2>3. TypeOK'
      BY <1>9, <2>1, <2>2 DEF ReceiveNothing, LoopInv, TypeOK
    <2>4. StartInv' /\ NoLostWakeup' /\ NoSignalKills'
      BY <1>9, <2>1, <2>2
      DEF ReceiveNothing, LoopInv, StartInv, NoLostWakeup, NoSignalKills, Started
    <2> QED BY <2>3, <2>4 DEF LoopInv
  <1>10. CASE TakeSIGIO
    <2>1. made = 5
      BY <1>10 DEF TakeSIGIO, Takes, LoopInv, StartInv, Started
    <2>2. TypeOK'
      BY <1>10, <2>1 DEF TakeSIGIO, Takes, LoopInv, TypeOK
    <2>3. StartInv' /\ NoLostWakeup' /\ NoSignalKills'
      BY <1>10, <2>1 DEF TakeSIGIO, Takes, LoopInv, StartInv, NoLostWakeup, NoSignalKills, Started
    <2> QED BY <2>2, <2>3 DEF LoopInv
  <1>11. CASE TakeInterrupt
    <2>1. TypeOK'
      BY <1>11 DEF TakeInterrupt, Takes, LoopInv, TypeOK
    <2>2. StartInv' /\ NoLostWakeup' /\ NoSignalKills'
      BY <1>11 DEF TakeInterrupt, Takes, LoopInv, StartInv, NoLostWakeup, NoSignalKills, Started
    <2> QED BY <2>1, <2>2 DEF LoopInv
  <1>12. ASSUME NEW s \in AlarmsOf(role), TakeAlarm(s) PROVE LoopInv'
    <2>1. made = 5 /\ phase = "waiting" /\ phase' \in {"ended", "waiting"}
      BY <1>12 DEF TakeAlarm, Takes, Continue, LoopInv, StartInv, Started
    <2>2. s # SIGIO /\ pending' = pending \ {s}
      BY <1>12
      DEF TakeAlarm, Takes, AlarmsOf, SIGIO, SIGUSR1, SIGUSR2, SIGALRM, SIGVTALRM
    <2>3. TypeOK'
      BY <1>12, <2>1, <2>2 DEF TakeAlarm, LoopInv, TypeOK
    <2>4. StartInv' /\ NoLostWakeup' /\ NoSignalKills'
      BY <1>12, <2>1, <2>2
      DEF TakeAlarm, LoopInv, StartInv, NoLostWakeup, NoSignalKills, Started
    <2> QED BY <2>3, <2>4 DEF LoopInv
  <1>13. CASE ReceiveFails
    <2>1. TypeOK'
      BY <1>13 DEF ReceiveFails, LoopInv, TypeOK
    <2>2. StartInv' /\ NoLostWakeup' /\ NoSignalKills'
      BY <1>13 DEF ReceiveFails, LoopInv, StartInv, NoLostWakeup, NoSignalKills, Started
    <2> QED BY <2>1, <2>2 DEF LoopInv
  <1>14. CASE UNCHANGED vars
    <2>1. TypeOK'
      BY <1>14 DEF vars, LoopInv, TypeOK
    <2>2. StartInv' /\ NoLostWakeup' /\ NoSignalKills'
      BY <1>14 DEF vars, LoopInv, StartInv, NoLostWakeup, NoSignalKills, Started
    <2> QED BY <2>1, <2>2 DEF LoopInv
  <1> QED BY <1>1, <1>2, <1>3, <1>4, <1>5, <1>6, <1>7, <1>8, <1>9, <1>10,
             <1>11, <1>12, <1>13, <1>14 DEF Next, Environment, Main

LEMMA LoopInvariant == Safety => []LoopInv
  <1>1. Init => LoopInv
    BY LoopInit
  <1>2. LoopInv /\ [Next]_vars => LoopInv'
    BY LoopStep
  <1> QED BY <1>1, <1>2, PTL DEF Safety

(* The state of the loop has its types, and nothing is received before the *)
(* socket is one that tells of it: it is bound by the last call.           *)
THEOREM LoopTypeCorrect == Spec => []TypeOK
  <1>1. LoopInv => TypeOK
    BY DEF LoopInv
  <1> QED BY <1>1, LoopInvariant, PTL DEF Spec

(* SIGIO is pending whenever the loop waits with a datagram in its socket. *)
THEOREM WakeupCorrect == Spec => []NoLostWakeup
  <1>1. LoopInv => NoLostWakeup
    BY DEF LoopInv
  <1> QED BY <1>1, LoopInvariant, PTL DEF Spec

(* Signals are masked before anything can raise them.                      *)
THEOREM SignalsMasked == Spec => []NoSignalKills
  <1>1. LoopInv => NoSignalKills
    BY DEF LoopInv
  <1> QED BY <1>1, LoopInvariant, PTL DEF Spec

-----------------------------------------------------------------------------
(* A step of the loop delivers, raises, handles or ends - or is internal.  *)
LEMMA MailboxStep ==
  ASSUME LoopInv, LoopInv', [Next]_vars
  PROVE  [Loop!MailboxNext]_Loop!mailboxVars
  <1> DEFINE Alive == phase \notin {"ended", "failed", "killed"}
             Due == pending \ {SIGIO, SIGINT}
  <1> USE FiveCalls DEF Loop!MailboxNext, Loop!mailboxVars
  <1>1. CASE Arrive
    <2>1. PICK m \in coming :
            /\ Called("bind") /\ Len(buffer) < BufferSize
            /\ buffer' = Append(buffer, m) /\ coming' = coming \ {m}
            /\ Tell /\ UNCHANGED <<role, made, solved>>
      BY <1>1 DEF Arrive
    <2>2. made = 5 /\ m \in Datagrams
      BY <2>1, CalledIs DEF LoopInv, TypeOK
    <2>3. Loop!Deliver
      BY <2>1, <2>2, TellStep DEF Loop!Deliver
    <2> QED BY <2>3
  <1>2. CASE Lose \/ Sent
    <2>1. CASE Lose
      BY <2>1 DEF Lose
    <2>2. CASE Sent
      <3>1. made = 5 /\ Tell /\ UNCHANGED buffer
        BY <2>2 DEF Sent, LoopInv, StartInv
      <3> QED BY <3>1, TellStep
    <2> QED BY <1>2, <2>1, <2>2
  <1>3. CASE Alarm
    <2>1. PICK s \in AlarmsOf(role) :
           /\ phase' = phase /\ pending' = pending \union {s}
           /\ pending' \subseteq SignalSet(role)
           /\ UNCHANGED <<role, made, buffer, coming, solved>>
      BY <1>3, AlarmStep
    <2>2. s \in Alarms /\ s \notin {SIGIO, SIGINT}
      BY DEF Alarms, AlarmsOf, SIGIO, SIGINT, SIGUSR1, SIGUSR2, SIGALRM, SIGVTALRM
    <2>3. Loop!GoOff
      BY <2>1, <2>2 DEF Loop!GoOff
    <2> QED BY <2>3
  <1>4. CASE Interrupt
    <2>1. Due' = Due /\ buffer' = buffer
      BY <1>4 DEF Interrupt
    <2>2. Alive /\ (Alive' \/ phase' = "ended")
      BY <1>4 DEF Interrupt
    <2>3. Alive' = TRUE \/ Alive' = FALSE
      OBVIOUS
    <2> QED BY <2>1, <2>2, <2>3 DEF Loop!End
  <1>5. CASE StartUp
    BY <1>5 DEF StartUp
  <1>6. CASE StartUpFails
    BY <1>6 DEF StartUpFails, Loop!End
  <1>7. CASE Receive
    <2>1. Loop!HandleDatagram
      BY <1>7 DEF Receive, Handled, Loop!HandleDatagram
    <2> QED BY <2>1
  <1>8. CASE ReceiveNothing
    <2>1. Alive /\ UNCHANGED <<buffer, pending>> /\ phase' \in {"ended", "waiting"}
      BY <1>8 DEF ReceiveNothing, Continue
    <2> QED BY <2>1 DEF Loop!End
  <1>9. CASE TakeSIGIO
    BY <1>9 DEF TakeSIGIO, Takes
  <1>10. CASE TakeInterrupt
    <2>1. Alive /\ Due' = Due /\ UNCHANGED buffer /\ phase' = "ended"
      BY <1>10 DEF TakeInterrupt, Takes
    <2> QED BY <2>1 DEF Loop!End
  <1>11. ASSUME NEW s \in AlarmsOf(role), TakeAlarm(s)
         PROVE  [Loop!MailboxNext]_Loop!mailboxVars
    <2>1. s \in Alarms /\ s \notin {SIGIO, SIGINT}
      BY DEF Alarms, AlarmsOf, SIGIO, SIGINT, SIGUSR1, SIGUSR2, SIGALRM, SIGVTALRM,
             LoopInv, TypeOK, Roles
    <2>2. Alive /\ s \in Due /\ Due' = Due \ {s} /\ UNCHANGED buffer
      BY <1>11, <2>1 DEF TakeAlarm, Takes
    <2>3. Loop!HandleAlarm(s)
      BY <2>2 DEF Loop!HandleAlarm
    <2> QED BY <2>1, <2>3
  <1>12. CASE ReceiveFails
    BY <1>12 DEF ReceiveFails, Loop!End
  <1>13. CASE UNCHANGED vars
    BY <1>13 DEF vars
  <1> QED BY <1>1, <1>2, <1>3, <1>4, <1>5, <1>6, <1>7, <1>8, <1>9, <1>10,
             <1>11, <1>12, <1>13 DEF Next, Environment, Main

(* Every behaviour of the loop is one of a mailbox (the part of            *)
(* ImplementsMailbox that is about steps; TLC checks its fairness too).    *)
THEOREM LoopIsMailbox == Safety => Loop!MailboxSafety
  <1>1. Init => Loop!MailboxInit
    BY DEF Init, Loop!MailboxInit
  <1>2. LoopInv /\ LoopInv' /\ [Next]_vars => [Loop!MailboxNext]_Loop!mailboxVars
    BY MailboxStep
  <1> QED BY <1>1, <1>2, LoopInvariant, PTL DEF Safety, Loop!MailboxSafety
=============================================================================
