--------------------------- MODULE ConditionVariable ---------------------------
(***************************************************************************)
(* Chapter 9/condition_var.cpp: waiting() waits without a predicate, and   *)
(* done() notifies without the mutex, which nobody else ever holds.        *)
(***************************************************************************)
VARIABLES waiting, \* where the thread t1 is
          done     \* whether t2 has called notify_one()

vars == <<waiting, done>>

Init == waiting = "lock" /\ done = FALSE

Lock == waiting = "lock" /\ waiting' = "locked" /\ UNCHANGED done

\* cond_var.wait(lock) falls asleep, whatever has happened before.
Wait == waiting = "locked" /\ waiting' = "asleep" /\ UNCHANGED done

Spurious == waiting = "asleep" /\ waiting' = "awake" /\ UNCHANGED done

\* wait() locks again, and processing() runs.
Process == waiting = "awake" /\ waiting' = "done" /\ UNCHANGED done

Woken(place) == IF place = "asleep" THEN "awake" ELSE place
Notify == ~done /\ done' = TRUE /\ waiting' = Woken(waiting)

T1 == Lock \/ Wait \/ Process
Next == T1 \/ Notify \/ Spurious

\* Both threads run; nothing depends on a spurious wakeup.
Spec == Init /\ [][Next]_vars /\ WF_vars(T1) /\ WF_vars(Notify)
-------------------------------------------------------------------------------
\* What wait() without a predicate is worth: a thread that is asleep before the
\* notification is woken by it and does its work (lines 17-20, 25).  One that
\* comes later may sleep for ever.
WokenInTime == waiting = "asleep" /\ ~done ~> waiting = "done"
===============================================================================
