----------------------------- MODULE AtomicCounter -----------------------------
(***************************************************************************)
(* Chapter 7/cpp_increment_atomic.cpp: two threads increment an atomic     *)
(* counter.  It is also what Chapter 7/cpp_mutex.cpp promises.             *)
(***************************************************************************)
EXTENDS Naturals

CONSTANTS Limit,  \* increments of each thread: INT_MAX in the code
          Size    \* values of uint32_t: 2^32 in the code

Threads == {"t1", "t2"}

VARIABLES shared_resource, i

vars == <<shared_resource, i>>
Init == shared_resource = 0 /\ i = [t \in Threads |-> 0]

Increment(t) == /\ i[t] < Limit
                /\ i' = [i EXCEPT ![t] = @ + 1]
                /\ shared_resource' = (shared_resource + 1) % Size

Next == \E t \in Threads : Increment(t)
Spec == Init /\ [][Next]_vars
================================================================================
