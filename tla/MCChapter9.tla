------------------------------- MODULE MCChapter9 -------------------------------
(***************************************************************************)
(* Three programs of Chapter 9 that wait for mutexes and condition         *)
(* variables, in one state space: a behaviour is a run of one of them, and *)
(* the variables of the two others keep their initial values.              *)
(***************************************************************************)
CONSTANTS Readers, Writers

VARIABLES program,
          shared_data, moving, end, books_at, view, printed, \* ReadWriteLock
          work_done, cv_mutex, shm_at, region, got,          \* SharedMemory
          waiting, done                                      \* ConditionVariable

Books == INSTANCE ReadWriteLock WITH at <- books_at
Shm == INSTANCE SharedMemory WITH at <- shm_at
Cond == INSTANCE ConditionVariable

ASSUME ThreadsAssumption == Books!ThreadsBounds

booksVars == <<shared_data, moving, end, books_at, view, printed>>
shmVars == <<work_done, cv_mutex, shm_at, region, got>>
condVars == <<waiting, done>>
vars == <<program, booksVars, shmVars, condVars>>

Init == /\ program \in {"read_write_lock", "shared_mem_sp", "condition_var"}
        /\ Books!Init /\ Shm!Init /\ Cond!Init
        /\ program # "shared_mem_sp" => region = "absent"

BooksStep(A) == program = "read_write_lock" /\ A
                /\ UNCHANGED <<program, shmVars, condVars>>
ShmStep(A) == program = "shared_mem_sp" /\ A
              /\ UNCHANGED <<program, booksVars, condVars>>
CondStep(A) == program = "condition_var" /\ A
               /\ UNCHANGED <<program, booksVars, shmVars>>

Next == BooksStep(Books!Next) \/ ShmStep(Shm!Next) \/ CondStep(Cond!Next)

\* The fairness of each module, for the program that runs.
Spec ==
  /\ Init /\ [][Next]_vars
  /\ \A t \in Readers : WF_vars(BooksStep(Books!Reader(t)))
  /\ \A t \in Writers : WF_vars(BooksStep(Books!Writer(t)))
  /\ WF_vars(BooksStep(Books!MainPrints))
  /\ \A t \in Shm!Threads : WF_vars(ShmStep(Shm!Thread(t)))
  /\ <>[][~ShmStep(Shm!SpuriousWakeup)]_vars
  /\ WF_vars(CondStep(Cond!T1)) /\ WF_vars(CondStep(Cond!Notify))
-------------------------------------------------------------------------------
\* The vector of books is never changed under a reader, and no book is lost
\* (read_write_lock.cpp lines 29-67, 86-101).
BooksSafe == Books!IteratorsValid /\ Books!NoBookLost

\* Both threads print the pointer of this run (shared_mem_sp.cpp lines 38,
\* 77, 112-119).
OwnMessage == Shm!OwnMessage

\* Each program comes to its end (read_write_lock.cpp line 101,
\* shared_mem_sp.cpp lines 122-123), condition_var.cpp when the thread was asleep
\* in time (lines 17-20, 25).
Completes == /\ program = "read_write_lock" => Books!MainReturns
             /\ program = "shared_mem_sp" => Shm!Completes
             /\ program = "condition_var" => Cond!WokenInTime
===============================================================================
