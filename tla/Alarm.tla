--------------------------------- MODULE Alarm ---------------------------------
(***************************************************************************)
(* Chapter 8/posix-alarm.cpp: a loop that a timer's signal ends.  The      *)
(* timer goes off again and again once it is set.                          *)
(***************************************************************************)
VARIABLES main,               \* where main() is
          handled,            \* what SIGALRM does: the handler is installed
          continue_execution

vars == <<main, handled, continue_execution>>
Init == main = "start" /\ handled = FALSE /\ continue_execution = TRUE

Before == TRUE
\* sigaction(), and then setitimer()
Start == /\ main = "start" /\ main' = "test"
         /\ handled' = Before
         /\ UNCHANGED continue_execution

Test == /\ main = "test"
        /\ main' = IF continue_execution THEN "sleep" ELSE "returned"
        /\ UNCHANGED <<handled, continue_execution>>

\* sleep(1) ends by itself.
Wake == /\ main = "sleep" /\ main' = "test"
        /\ UNCHANGED <<handled, continue_execution>>

\* The signal comes between any two steps and interrupts the sleep.
Alarm == /\ main \in {"test", "sleep"}
         /\ main' = IF handled THEN "test" ELSE "killed"
         /\ continue_execution' = (continue_execution /\ ~handled)
         /\ UNCHANGED handled

Main == Start \/ Test \/ Wake
Next == Main \/ Alarm
Spec == Init /\ [][Next]_vars /\ WF_vars(Main) /\ WF_vars(Alarm)
-------------------------------------------------------------------------------
\* The timer ends the loop, and not the program (lines 18-31).
Completes == <>(main = "returned")
===============================================================================
