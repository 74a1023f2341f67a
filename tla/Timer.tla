-------------------------------- MODULE Timer --------------------------------
(***************************************************************************)
(* A POSIX timer as the class Timer uses it (src/timer.cpp).  Times are in *)
(* milliseconds; what the kernel holds is the time left and the period it  *)
(* starts again with, both 0 in a timer that does not run.                 *)
(***************************************************************************)
EXTENDS Naturals

(* A timer nobody has set yet; the nanoseconds are a number of whole       *)
(* milliseconds.                                                           *)
NewTimer(timeout, oneshot) ==
  [sec |-> timeout \div 1000, msec |-> timeout % 1000, oneshot |-> oneshot,
   value |-> 0, interval |-> 0]

Period(t) == 1000 * t.sec + t.msec

Set(t) ==
  [t EXCEPT !.value = Period(t), !.interval = IF t.oneshot THEN 0 ELSE Period(t)]

Unset(t) == [t EXCEPT !.value = 0, !.interval = 0]

IsRunning(t) == t.value # 0

(* Time passes: a timer that is due raises its signal and starts again     *)
(* unless it is a one-shot one.                                            *)
IsDue(t, time) == IsRunning(t) /\ t.value <= time

Elapsed(t, time) ==
  IF ~IsRunning(t) THEN t
  ELSE [t EXCEPT !.value = IF IsDue(t, time) THEN t.interval ELSE @ - time]
=============================================================================
