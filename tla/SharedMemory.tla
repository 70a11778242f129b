------------------------------ MODULE SharedMemory ------------------------------
(***************************************************************************)
(* Chapter 9/shared_mem_sp.cpp: a producer and a consumer thread that pass *)
(* a pointer through the region /test_shm.  A mutex, a condition variable  *)
(* and work_done, which the predicates of both waits test, put them in     *)
(* order.  The region is never unlinked: it may hold an earlier run's      *)
(* pointer, or be empty when that run was killed before it wrote.          *)
(***************************************************************************)
Threads == {"producer", "consumer"}
Regions == {"absent", "empty", "old", "new"}

VARIABLES work_done,
          cv_mutex, \* the thread that holds it, or "nobody"
          at,       \* at[t]: the next statement of t
          region,   \* /test_shm: none, zeros, a pointer of an earlier run or of this
          got       \* got[t]: what *ptr was when t printed it

vars == <<work_done, cv_mutex, at, region, got>>

Init == /\ work_done = FALSE
        /\ cv_mutex = "nobody"
        /\ at = [t \in Threads |-> "lock"]
        /\ region \in Regions \ {"new"}
        /\ got = [t \in Threads |-> "nothing"]

Go(t, from, to) == at[t] = from /\ at' = [at EXCEPT ![t] = to]
-------------------------------------------------------------------------------
Lock(t) == /\ cv_mutex = "nobody"
           /\ Go(t, "lock", "test")
           /\ cv_mutex' = t
           /\ UNCHANGED <<work_done, region, got>>

NoPredicate(t) == TRUE \* mutant: a wakeup, or no wait, is enough
\* The predicates of the two waits.
Predicate(t) == work_done = (t = "consumer")
Pass(t) == /\ Predicate(t)
           /\ Go(t, "test", "open")
           /\ UNCHANGED <<work_done, cv_mutex, region, got>>

\* wait() gives the mutex back and falls asleep in one step.
Sleep(t) == /\ ~Predicate(t)
            /\ Go(t, "test", "asleep")
            /\ cv_mutex' = "nobody"
            /\ UNCHANGED <<work_done, region, got>>

Spurious(t) == /\ Go(t, "asleep", "lock")
               /\ UNCHANGED <<work_done, cv_mutex, region, got>>

\* shm_open() and ftruncate(), which keeps what a region of this size holds.
\* The producer's O_CREAT makes a region of zeros; the consumer's fails.
Open(t) == /\ t = "consumer" => region # "absent"
           /\ Go(t, "open", "map")
           /\ region' = IF region = "absent" THEN "empty" ELSE region
           /\ UNCHANGED <<work_done, cv_mutex, got>>

\* shm_open() or mmap() fails.  Nobody catches the exception: std::terminate()
\* ends both threads.
Throw(t) == /\ at[t] \in {"open", "map"}
            /\ at' = [u \in Threads |-> "terminated"]
            /\ UNCHANGED <<work_done, cv_mutex, region, got>>

\* producer(): the pointer is constructed in the region.
Construct == /\ Go("producer", "map", "unlock")
             /\ region' = "new"
             /\ work_done' = TRUE
             /\ UNCHANGED <<cv_mutex, got>>

\* consumer(): the region is taken as it is.
Cast == /\ Go("consumer", "map", "unlock")
        /\ work_done' = FALSE
        /\ UNCHANGED <<cv_mutex, region, got>>

\* unlock() of the producer, the lock's destructor of the consumer
Unlock(t) == /\ Go(t, "unlock", IF t = "producer" THEN "notify" ELSE "print")
             /\ cv_mutex' = "nobody"
             /\ UNCHANGED <<work_done, region, got>>

WakeNobody(place) == place \* mutant: notify_one() is forgotten
Woken(place) == IF place = "asleep" THEN "lock" ELSE place
\* cond_var.notify_one(): the only thread that can be asleep is the other.
Notify == /\ at["producer"] = "notify"
          /\ at' = [at EXCEPT !["producer"] = "print", !["consumer"] = Woken(@)]
          /\ UNCHANGED <<work_done, cv_mutex, region, got>>

\* The thread's lambda prints *ptr; then the unique_ptr unmaps the region.
Show(t) == /\ Go(t, "print", "done")
           /\ got' = [got EXCEPT ![t] = region]
           /\ UNCHANGED <<work_done, cv_mutex, region>>

Thread(t) == \/ Lock(t) \/ Pass(t) \/ Sleep(t) \/ Open(t) \/ Throw(t)
             \/ t = "producer" /\ (Construct \/ Notify)
             \/ t = "consumer" /\ Cast
             \/ Unlock(t) \/ Show(t)

SpuriousWakeup == \E t \in Threads : Spurious(t)
Next == (\E t \in Threads : Thread(t)) \/ SpuriousWakeup

\* The threads run.  Nothing depends on a spurious wakeup, but they come to an
\* end: each takes the mutex, and could keep it from the producer for ever.
Spec == /\ Init /\ [][Next]_vars
        /\ \A t \in Threads : WF_vars(Thread(t))
        /\ <>[][~SpuriousWakeup]_vars
-------------------------------------------------------------------------------
TypeOK == /\ work_done \in BOOLEAN
          /\ cv_mutex \in Threads \cup {"nobody"}
          /\ at \in [Threads -> {"lock", "test", "asleep", "open", "map", "unlock",
                                 "notify", "print", "done", "terminated"}]
          /\ region \in Regions
          /\ got \in [Threads -> Regions \cup {"nothing"}]

\* Both threads print the pointer of this run, never zeros or the pointer of a
\* process that is gone, and the consumer never fails for a region that is not
\* there yet (lines 38, 77, 112-119).
OwnMessage ==
  /\ TypeOK
  /\ \A t \in Threads : got[t] \in {"nothing", "new"}
  /\ at["consumer"] \in {"open", "map", "unlock", "print"} => region = "new"

\* No wakeup is lost: both threads end, or a failed call ends the program
\* (lines 38, 49-51, 77, 122-123).
Completes == <>(\A t \in Threads : at[t] \in {"done", "terminated"})
===============================================================================
