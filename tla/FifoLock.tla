------------------------------- MODULE FifoLock -------------------------------
(***************************************************************************)
(* What a fair lock promises: threads stand in a line, only the first of   *)
(* the line may hold the lock, and it leaves the line when it lets go.     *)
(***************************************************************************)
EXTENDS Naturals, Sequences

CONSTANT Threads

VARIABLES line, \* the threads that asked for the lock, in the order they asked
          held  \* whether the first of the line holds the lock

vars == <<line, held>>

InLine(t) == \E i \in DOMAIN line : line[i] = t

Init == line = <<>> /\ held = FALSE

\* A thread that is not in the line asks for the lock.
Arrive(t) == /\ ~InLine(t)
             /\ line' = Append(line, t)
             /\ UNCHANGED held

\* The first of the line takes the lock when nobody holds it.
Take == /\ line # <<>>
        /\ ~held
        /\ held' = TRUE
        /\ UNCHANGED line

\* The holder, and nobody else, lets go.
Release == /\ held
           /\ line' = Tail(line)
           /\ held' = FALSE

Next == (\E t \in Threads : Arrive(t)) \/ Take \/ Release

Spec == Init /\ [][Next]_vars
===============================================================================
