--------------------------------- MODULE Latch ---------------------------------
(***************************************************************************)
(* Chapter 6/latch.cpp: threads that count a std::latch down and go on,    *)
(* threads that arrive and wait, and main(), which waits for the latch,    *)
(* joins the threads in their destructors and only then destroys it.       *)
(***************************************************************************)
EXTENDS Naturals, FiniteSets

CONSTANTS Counters, \* threads that call count_down(): thread 0
          Waiters   \* threads that call arrive_and_wait(): thread 1

ThreadsBounds == /\ IsFiniteSet(Counters) /\ IsFiniteSet(Waiters)
                 /\ Counters \cap Waiters = {}

Threads == Counters \cup Waiters

VARIABLES progress, \* the count of the latch
          at,       \* at[t]: where thread t is
          main      \* where main() is

vars == <<progress, at, main>>

\* The count the latch is constructed with.
InitialCount == Cardinality(Threads)

Init == /\ progress = InitialCount
        /\ at = [t \in Threads |-> "unborn"]
        /\ main = "start"

Go(t, from, to) == at[t] = from /\ at' = [at EXCEPT ![t] = to]

\* main() constructs the jthreads one after the other, here in any order.
Begin(t) == /\ main = "start"
            /\ Go(t, "unborn", "work")
            /\ UNCHANGED <<progress, main>>

\* count_down(), and the decrement of arrive_and_wait()
Arrive(t) == /\ Go(t, "work", IF t \in Waiters THEN "wait" ELSE "print")
             /\ progress' = progress - 1
             /\ UNCHANGED main

\* arrive_and_wait() returns.
Pass(t) == progress = 0 /\ Go(t, "wait", "print") /\ UNCHANGED <<progress, main>>

\* The thread says it has finished, and returns.
Say(t) == Go(t, "print", "finished") /\ UNCHANGED <<progress, main>>

Thread(t) == Arrive(t) \/ Pass(t) \/ Say(t)

MainGo(from, to) == main = from /\ main' = to /\ UNCHANGED <<progress, at>>
MainWait == MainGo("start", "wait") /\ \A t \in Threads : at[t] # "unborn"
MainPass == MainGo("wait", "print") /\ progress = 0
MainPrint == MainGo("print", "join")

NoJoin == TRUE \* mutant: the threads are detached
Joined == \A t \in Threads : at[t] = "finished"
\* The array of jthreads is destroyed before the latch, which it was built after.
MainReturn == MainGo("join", "destroyed") /\ Joined

Main == (\E t \in Threads : Begin(t)) \/ MainWait \/ MainPass \/ MainPrint \/ MainReturn
Next == (\E t \in Threads : Thread(t)) \/ Main
Spec == Init /\ [][Next]_vars /\ WF_vars(Main) /\ \A t \in Threads : WF_vars(Thread(t))
-------------------------------------------------------------------------------
\* The count never goes below zero: that would be undefined.
TypeOK == /\ progress \in 0..InitialCount
          /\ at \in [Threads -> {"unborn", "work", "wait", "print", "finished"}]
          /\ main \in {"start", "wait", "print", "join", "destroyed"}

\* Nobody gets past the latch, main() included, before every thread has reached
\* it (lines 19, 27, 33).
AllArrived ==
  main \in {"print", "join"} \/ (\E t \in Waiters : at[t] = "print")
    => \A t \in Threads : at[t] \notin {"unborn", "work"}

\* The latch outlives its users: no thread is at a call on it, or inside one,
\* when it is destroyed (lines 10-11).
Outlives == main = "destroyed" => \A t \in Threads : at[t] \notin {"work", "wait"}

\* Who is past the latch, and who may still use it (lines 10-33).
LatchSafe == TypeOK /\ AllArrived /\ Outlives

\* The count fits the threads, so everybody returns.
Completes == <>(main = "destroyed")

\* What the comment of line 33 says: main() waits "for all threads to finish".
\* The latch only says that they have arrived.
WaitsForAll == main \in {"print", "join"} => \A t \in Threads : at[t] = "finished"
===============================================================================
