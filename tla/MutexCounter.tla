------------------------------ MODULE MutexCounter ------------------------------
(***************************************************************************)
(* Chapter 7/cpp_mutex.cpp: two threads increment a plain counter under a  *)
(* mutex.  The increment is a load and a store.                            *)
(***************************************************************************)
EXTENDS Naturals

CONSTANTS Limit,  \* turns of each thread: INT_MAX in the code
          Size    \* values of uint32_t: 2^32 in the code

Threads == {"t1", "t2"}
\* Both threads together do not reach the end of the word.
NoWrap == Limit \in Nat /\ Size \in Nat /\ 2 * Limit < Size

VARIABLES shared_resource, shres_guard, at, i, temp

vars == <<shared_resource, shres_guard, at, i, temp>>
Init == /\ shared_resource = 0
        /\ shres_guard = "free"
        /\ at = [t \in Threads |-> "loop"]
        /\ i = [t \in Threads |-> 0]
        /\ temp = [t \in Threads |-> 0]

Go(t, from, to) == at[t] = from /\ at' = [at EXCEPT ![t] = to]
-------------------------------------------------------------------------------
Unguarded(t) == TRUE \* mutant: no lock_guard
Free(t) == shres_guard = "free"
Lock(t) == /\ i[t] < Limit
           /\ Free(t)
           /\ Go(t, "loop", "load")
           /\ shres_guard' = t
           /\ UNCHANGED <<shared_resource, i, temp>>

Load(t) == /\ Go(t, "load", "store")
           /\ temp' = [temp EXCEPT ![t] = shared_resource]
           /\ UNCHANGED <<shared_resource, shres_guard, i>>

Store(t) == /\ Go(t, "store", "unlock")
            /\ shared_resource' = (temp[t] + 1) % Size
            /\ UNCHANGED <<shres_guard, i, temp>>

\* The lock_guard goes out of scope.
Unlock(t) == /\ Go(t, "unlock", "loop")
             /\ shres_guard' = "free"
             /\ i' = [i EXCEPT ![t] = @ + 1]
             /\ UNCHANGED <<shared_resource, temp>>

Thread(t) == Lock(t) \/ Load(t) \/ Store(t) \/ Unlock(t)
Next == \E t \in Threads : Thread(t)
\* Both threads run.  The mutex need not be fair: each asks for it Limit times.
Spec == Init /\ [][Next]_vars /\ \A t \in Threads : WF_vars(Thread(t))
-------------------------------------------------------------------------------
\* Turns whose increment has been stored
Counted == [t \in Threads |-> IF at[t] = "unlock" THEN i[t] + 1 ELSE i[t]]

TypeOK == /\ shared_resource \in 0..Size - 1
          /\ shres_guard \in Threads \cup {"free"}
          /\ at \in [Threads -> {"loop", "load", "store", "unlock"}]
          /\ i \in [Threads -> 0..Limit]
          /\ temp \in [Threads -> 0..Size - 1]

\* One thread at a time is inside, none goes on with an old value, and no
\* increment is lost: the counter never wraps (lines 10, 13-16).
IInv == /\ TypeOK
        /\ \A t \in Threads : at[t] # "loop" <=> shres_guard = t
        /\ \A t \in Threads : at[t] # "loop" => i[t] < Limit
        /\ \A t \in Threads : at[t] = "store" => temp[t] = shared_resource
        /\ shared_resource = Counted["t1"] + Counted["t2"]

Atomic == INSTANCE AtomicCounter WITH i <- Counted
\* The mutex makes the increment one step (lines 14-15).
ImplementsAtomicCounter == Atomic!Spec

AllCounted == /\ \A t \in Threads : i[t] = Limit /\ at[t] = "loop"
              /\ shared_resource = 2 * Limit
Completes == <>AllCounted
===============================================================================
