------------------------------- MODULE Mailbox -------------------------------
(***************************************************************************)
(* What a process of the program is to the others: a mailbox of datagrams  *)
(* that it handles one at a time and in order, and alarms that each wait   *)
(* to be handled once however often they went off.  The handlers of DistPi *)
(* are steps of such a process; EventLoop shows that the loop around       *)
(* sigwaitinfo() is one.                                                   *)
(***************************************************************************)
EXTENDS Naturals, Sequences

CONSTANTS Datagrams, Alarms, Capacity

VARIABLES
  inbox,   \* datagrams the process has been sent and has not handled
  due,     \* alarms that went off and are not handled
  alive    \* whether the process goes on handling

mailboxVars == <<inbox, due, alive>>

MailboxInit == inbox = <<>> /\ due = {} /\ alive = TRUE

(* A datagram reaches the mailbox; one too many is lost.                   *)
Deliver == \E m \in Datagrams :
  /\ Len(inbox) < Capacity
  /\ inbox' = Append(inbox, m)
  /\ UNCHANGED <<due, alive>>

GoOff == \E s \in Alarms : due' = due \union {s} /\ UNCHANGED <<inbox, alive>>

(* Handling a datagram or an alarm may end the process.                    *)
HandleDatagram ==
  /\ alive /\ inbox # <<>>
  /\ inbox' = Tail(inbox)
  /\ alive' \in BOOLEAN
  /\ UNCHANGED due

HandleAlarm(s) ==
  /\ alive /\ s \in due
  /\ due' = due \ {s}
  /\ alive' \in BOOLEAN
  /\ UNCHANGED inbox

End == alive /\ alive' = FALSE /\ UNCHANGED <<inbox, due>>

MailboxNext ==
  \/ Deliver \/ GoOff \/ HandleDatagram \/ End
  \/ \E s \in Alarms : HandleAlarm(s)

(* As long as the process lives it gets round to whatever waits for it.    *)
MailboxFairness ==
  /\ WF_mailboxVars(HandleDatagram)
  /\ \A s \in Alarms : WF_mailboxVars(HandleAlarm(s))

MailboxSafety == MailboxInit /\ [][MailboxNext]_mailboxVars

MailboxSpec == MailboxSafety /\ MailboxFairness
=============================================================================
