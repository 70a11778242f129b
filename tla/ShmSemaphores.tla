----------------------------- MODULE ShmSemaphores -----------------------------
(***************************************************************************)
(* Chapter 7/shm_example.cpp: a parent writes to shared memory, its child  *)
(* reads, and two named semaphores order them.  The region and the         *)
(* semaphores are the kernel's: both processes exit() before main() gets   *)
(* to sem_unlink(), and what a run leaves the next one finds.              *)
(***************************************************************************)
EXTENDS Integers

CONSTANT Runs \* bound: how often the program is started

RunsBound == Runs \in Nat \ {0}

NoRegion == -2    \* the name /test_shm does not exist
EmptyRegion == -1 \* it exists, and has no bytes
Zeros == 0        \* it has SHM_SIZE bytes, and nothing was written to them

VARIABLES prod, cons,   \* the counts of the named semaphores
          region,       \* one of the three, or the run whose data it holds
          parent, child, \* where the two processes are
          seen,         \* the run whose data the child read, or Zeros
          run,          \* how often the program was started
          found         \* history: the counts this run found

kernel == <<prod, cons, region>>
vars == <<kernel, parent, child, seen, run, found>>

\* The first run: sem_open() has created both semaphores.
Init == /\ prod = 0 /\ cons = 0 /\ region = NoRegion
        /\ parent = "start" /\ child = "unborn"
        /\ seen = 0 /\ run = 1
        /\ found = [prod |-> 0, cons |-> 0]

ParentGo(from, to) == parent = from /\ parent' = to
ChildGo(from, to) == child = from /\ child' = to
-------------------------------------------------------------------------------
FirstPost == "prod"
\* sem_post(sem_prod) in main(), and fork()
Fork == /\ ParentGo("start", "open")
        /\ ChildGo("unborn", "open")
        /\ prod' = IF FirstPost = "prod" THEN prod + 1 ELSE prod
        /\ cons' = IF FirstPost = "cons" THEN cons + 1 ELSE cons
        /\ UNCHANGED <<region, seen, run, found>>

\* shm_open(O_CREAT), which keeps a region that is there
Create == /\ ParentGo("open", "truncate")
          /\ region' = IF region = NoRegion THEN EmptyRegion ELSE region
          /\ UNCHANGED <<prod, cons, child, seen, run, found>>

\* ftruncate() gives an empty region zeros, and mmap()
Truncate == /\ ParentGo("truncate", "wait")
            /\ region' = IF region = EmptyRegion THEN Zeros ELSE region
            /\ UNCHANGED <<prod, cons, child, seen, run, found>>

WaitProd == /\ ParentGo("wait", "write")
            /\ prod > 0
            /\ prod' = prod - 1
            /\ UNCHANGED <<cons, region, child, seen, run, found>>

Write == /\ ParentGo("write", "post")
         /\ region' = run
         /\ UNCHANGED <<prod, cons, child, seen, run, found>>

PostConsumer == /\ ParentGo("post", "waitpid")
                /\ cons' = cons + 1
                /\ UNCHANGED <<prod, region, child, seen, run, found>>

\* waitpid(), munmap(), shm_unlink() and exit()
Unlink == /\ ParentGo("waitpid", "done")
          /\ child \in {"failed", "done"}
          /\ region' = NoRegion
          /\ UNCHANGED <<prod, cons, child, seen, run, found>>

Parent == Create \/ Truncate \/ WaitProd \/ Write \/ PostConsumer \/ Unlink
-------------------------------------------------------------------------------
\* shm_open() without O_CREAT throws when there is no region yet: nobody catches.
Open == /\ ChildGo("open", IF region = NoRegion THEN "failed" ELSE "wait")
        /\ UNCHANGED <<kernel, parent, seen, run, found>>

NoTurn == TRUE \* mutant: the child does not wait for the data
MayRead == cons > 0
WaitCons == /\ ChildGo("wait", "read")
            /\ MayRead
            /\ cons' = IF cons > 0 THEN cons - 1 ELSE 0
            /\ UNCHANGED <<prod, region, parent, seen, run, found>>

\* memcpy() from a region without bytes ends the child with SIGBUS.
Read == /\ ChildGo("read", IF region = EmptyRegion THEN "failed" ELSE "post")
        /\ seen' = IF region = EmptyRegion THEN Zeros ELSE region
        /\ UNCHANGED <<kernel, parent, run, found>>

PostedProd == prod + 1
PostProducer == /\ ChildGo("post", "done")
                /\ prod' = PostedProd
                /\ UNCHANGED <<cons, region, parent, seen, run, found>>

Child == Open \/ WaitCons \/ Read \/ PostProducer
-------------------------------------------------------------------------------
\* The program has ended, or both processes are killed, and it is started once
\* more.
Again == /\ run < Runs
         /\ run' = run + 1
         /\ parent' = "start" /\ child' = "unborn" /\ seen' = 0
         /\ found' = [prod |-> prod, cons |-> cons]
         /\ UNCHANGED kernel

Next == Fork \/ Parent \/ Child \/ Again

Spec == /\ Init /\ [][Next]_vars
        /\ WF_vars(Fork) /\ WF_vars(Parent) /\ WF_vars(Child)
-------------------------------------------------------------------------------
TypeOK == /\ prod \in 0..run /\ cons \in 0..run
          /\ region \in NoRegion..run
          /\ parent \in {"start", "open", "truncate", "wait", "write", "post",
                         "waitpid", "done"}
          /\ child \in {"unborn", "open", "wait", "read", "post", "done", "failed"}
          /\ seen \in Zeros..run /\ run \in 1..Runs
          /\ found \in [prod : 0..Runs, cons : 0..Runs]

\* In a run that found sem_cons at 0 the child reads after the parent has written,
\* never at the same time, and reads what this run wrote, whatever an earlier
\* run left in the region (lines 50-58, 91-96).
CleanHandover ==
  /\ TypeOK
  /\ found.cons = 0 =>
       /\ child = "read" => parent \in {"post", "waitpid"} /\ region = run
       /\ child \in {"post", "done"} => seen = run

\* A run that went well leaves the region unlinked but sem_prod one higher than
\* it found it: exit() in line 121 is before the sem_unlink() of lines 133-134.
NotCleanedUp == parent = "done" /\ child = "done" =>
  prod = found.prod + 1 /\ cons = found.cons /\ region = NoRegion

\* What a clean run hands over and what it leaves behind (lines 50-134).
HandedOver == CleanHandover /\ NotCleanedUp

\* No run hangs: the parent ends whatever the child does, and so does the child.
Completes == (run = Runs) ~> (parent = "done" /\ child \in {"done", "failed"})
===============================================================================
