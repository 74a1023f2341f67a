---------------------------- MODULE WorkerThread ----------------------------
(***************************************************************************)
(* The computation of a worker (src/worker_thread.cpp): a thread that      *)
(* counts hits and then signals the process, and the main thread that      *)
(* waits for the signal, joins the thread and reads what it counted.  The  *)
(* count is not protected by anything but this order.                      *)
(***************************************************************************)
EXTENDS Segment

CONSTANT Fineness   \* points are drawn with coordinates in 1 / Fineness

ASSUME ThreadAssumption == Fineness \in Nat \ {0}

(* What a Work message asks for: a segment the circle cuts.                *)
Jobs ==
  {j \in [segmentId : 1..MaxSide * MaxSide, side : 1..MaxSide, points : 1..MaxPoints] :
     j.segmentId <= j.side * j.side /\ ~IsResultKnown(j.segmentId, j.side)}

NoJob == [segmentId |-> 0, side |-> 0, points |-> 0]

VARIABLES
  job,         \* what the WorkerThread was made with
  main,        \* the main thread: "idle", "waiting", "joining", "threw"
  thread,      \* "none", "counting", "returning", "over", "joined"
  drawn,           \* points drawn
  pointsHit,   \* those of them inside the circle
  signalled,   \* whether threadSignal is pending
  result       \* hits of the last job reported, by its points

threadVars == <<job, main, thread, drawn, pointsHit, signalled, result>>

(* The points uniform_real_distribution draws lie in the segment, its left *)
(* and lower edges included.  Both coordinates are kept times Fineness.    *)
PointsOf(j) ==
  (XLeft(j.segmentId, j.side) * Fineness .. XRight(j.segmentId, j.side) * Fineness - 1)
    \X (YBottom(j.segmentId, j.side) * Fineness .. YTop(j.segmentId, j.side) * Fineness - 1)

IsHit(p, j) ==
  p[1] * p[1] + p[2] * p[2] <= UInt32(Radius(j.side) * Radius(j.side)) * (Fineness * Fineness)

-----------------------------------------------------------------------------
(* The main thread: a new WorkerThread takes the place of the last one and *)
(* is started.                                                             *)
Begin(j) ==
  /\ main = "idle"
  /\ job' = j
  /\ main' = "waiting" /\ thread' = "counting"
  /\ drawn' = 0 /\ pointsHit' = 0
  /\ UNCHANGED <<signalled, result>>

(* pthread_create() fails, and nobody catches the exception.               *)
BeginFails(j) ==
  /\ main = "idle"
  /\ job' = j
  /\ main' = "threw" /\ thread' = "none"
  /\ drawn' = 0 /\ pointsHit' = 0
  /\ UNCHANGED <<signalled, result>>

(* The loop of the worker takes the signal and calls sendResult().         *)
TakeSignal ==
  /\ main = "waiting" /\ signalled
  /\ main' = "joining" /\ signalled' = FALSE
  /\ UNCHANGED <<job, thread, drawn, pointsHit, result>>

GetResult ==
  /\ main = "joining" /\ thread = "over"
  /\ thread' = "joined"
  /\ result' = [hits |-> pointsHit, points |-> drawn, job |-> job]
  /\ main' = "idle"
  /\ UNCHANGED <<job, drawn, pointsHit, signalled>>

-----------------------------------------------------------------------------
(* The computing thread: count() ...                                       *)
\* mutant: drawn <= points
DrawOneMore ==
  /\ thread = "counting" /\ drawn <= job.points
  /\ drawn' = drawn + 1
  /\ \E hit \in {IsHit(p, job) : p \in PointsOf(job)} :
       pointsHit' = IF hit THEN pointsHit + 1 ELSE pointsHit
  /\ UNCHANGED <<job, main, thread, signalled, result>>
Draw ==
  /\ thread = "counting" /\ drawn < job.points
  /\ drawn' = drawn + 1
  /\ \E hit \in {IsHit(p, job) : p \in PointsOf(job)} :
       pointsHit' = IF hit THEN pointsHit + 1 ELSE pointsHit
  /\ UNCHANGED <<job, main, thread, signalled, result>>

(* ... then the signal to the process ...                                  *)
\* mutant: the loop stops one point early
KillEarly ==
  /\ thread = "counting" /\ drawn + 1 = job.points
  /\ signalled' = TRUE /\ thread' = "returning"
  /\ UNCHANGED <<job, main, drawn, pointsHit, result>>
\* mutant: raise(), whose signal the thread itself masks
RaiseInThread ==
  /\ thread = "counting" /\ drawn = job.points
  /\ thread' = "returning"
  /\ UNCHANGED <<job, main, drawn, pointsHit, signalled, result>>
Kill ==
  /\ thread = "counting" /\ drawn = job.points
  /\ signalled' = TRUE /\ thread' = "returning"
  /\ UNCHANGED <<job, main, drawn, pointsHit, result>>

(* ... and its end, which may come after the signal was taken.             *)
End ==
  /\ thread = "returning" /\ thread' = "over"
  /\ UNCHANGED <<job, main, drawn, pointsHit, signalled, result>>

-----------------------------------------------------------------------------
ThreadInit ==
  /\ job = NoJob /\ main = "idle" /\ thread = "none"
  /\ drawn = 0 /\ pointsHit = 0 /\ signalled = FALSE
  /\ result = [hits |-> 0, points |-> 0, job |-> NoJob]

Computing == Draw \/ Kill \/ End

Start == \E j \in Jobs : Begin(j) \/ BeginFails(j)

ThreadNext == Start \/ TakeSignal \/ GetResult \/ Computing

(* Both threads are scheduled.                                             *)
ThreadFairness == WF_threadVars(Computing) /\ WF_threadVars(TakeSignal) /\ WF_threadVars(GetResult)

ThreadSpec == ThreadInit /\ [][ThreadNext]_threadVars /\ ThreadFairness

-----------------------------------------------------------------------------
(* Types, and: no more points are drawn than the job asks for.             *)
ThreadTypeOK ==
  /\ job \in Jobs \union {NoJob}
  /\ main \in {"idle", "waiting", "joining", "threw"}
  /\ thread \in {"none", "counting", "returning", "over", "joined"}
  /\ drawn \in 0..job.points /\ pointsHit \in 0..drawn
  /\ signalled \in BOOLEAN

(* What is reported is the count of all the points of the job, read when   *)
(* the thread no longer writes it.                                         *)
ResultIsComplete ==
  /\ result.points = result.job.points /\ result.hits <= result.points
  /\ main = "idle" => result.job = job

(* There is one computing thread at a time: none is left to itself, and no *)
(* signal of an earlier one is taken for that of a later one.              *)
OneThread ==
  /\ main = "idle" => thread \in {"none", "joined"} /\ ~signalled
  /\ signalled => thread \in {"returning", "over"}

(* A job that was begun is reported.                                       *)
JobIsReported == main = "waiting" ~> main = "idle"
=============================================================================
