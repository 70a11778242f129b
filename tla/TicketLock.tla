------------------------------ MODULE TicketLock ------------------------------
(***************************************************************************)
(* struct TicketLock of Chapter 9/ticket_lock.cpp, used by any finite set  *)
(* of threads.  next and serving are size_t: fetch_add wraps at SizeMax.   *)
(* A load of serving that differs from the ticket is one more turn of the  *)
(* spin and changes nothing, so a spin is the guard of Enter.              *)
(***************************************************************************)
EXTENDS Naturals, FiniteSets

CONSTANTS Threads, \* the threads that share the lock
          SizeMax  \* the largest size_t: 2^64 - 1 in the build

ASSUME ThreadsAssumption == IsFiniteSet(Threads)
ASSUME WidthAssumption ==
  SizeMax \in Nat /\ Cardinality(Threads) <= SizeMax + 1

VARIABLES serving, \* atomic_size_t: the ticket that may enter
          next,    \* atomic_size_t: the ticket the next thread draws
          ticket,  \* ticket[t]: the local variable of t's call of lock()
          pc       \* where t is: outside, spinning in lock(), or holding it

lockVars == <<serving, next, ticket, pc>>

\* fetch_add(1) on a size_t.
FetchAdd(k) == IF k = SizeMax THEN 0 ELSE k + 1

AnyTurn(t) == serving >= ticket[t] \* mutant: < for != in the spin
LateTurn(t) == serving > ticket[t] \* mutant: <= for != in the spin
\* The condition that ends the spin.
MyTurn(t) == serving = ticket[t]

LockInit == /\ serving = 0
            /\ next = 0
            /\ ticket = [t \in Threads |-> 0]
            /\ pc = [t \in Threads |-> "out"]

\* lock(): the ticket is drawn and the counter moved in one atomic step.
Draw(t) == /\ pc[t] = "out"
           /\ ticket' = [ticket EXCEPT ![t] = next]
           /\ next' = FetchAdd(next)
           /\ pc' = [pc EXCEPT ![t] = "spin"]
           /\ UNCHANGED serving

\* lock(): the load that sees the thread's own ticket.
Enter(t) == /\ pc[t] = "spin"
            /\ MyTurn(t)
            /\ pc' = [pc EXCEPT ![t] = "cs"]
            /\ UNCHANGED <<serving, next, ticket>>

\* unlock()
Unlock(t) == /\ pc[t] = "cs"
             /\ serving' = FetchAdd(serving)
             /\ pc' = [pc EXCEPT ![t] = "out"]
             /\ UNCHANGED <<next, ticket>>

LockNext == \E t \in Threads : Draw(t) \/ Enter(t) \/ Unlock(t)

LockSpec == LockInit /\ [][LockNext]_lockVars
-------------------------------------------------------------------------------
LockTypeOK == /\ serving \in 0..SizeMax
              /\ next \in 0..SizeMax
              /\ ticket \in [Threads -> 0..SizeMax]
              /\ pc \in [Threads -> {"out", "spin", "cs"}]

\* At most one thread is between lock() and unlock(), also after the counters
\* have wrapped (lines 20-34).
MutualExclusion ==
  \A t, u \in Threads : pc[t] = "cs" /\ pc[u] = "cs" => t = u
-------------------------------------------------------------------------------
\* The threads between their fetch_add on next and their fetch_add on serving.
Waiting == {t \in Threads : pc[t] # "out"}

\* How many calls of unlock() have to happen before ticket k is served.
Ahead(k) == IF k >= serving THEN k - serving ELSE k + SizeMax + 1 - serving

\* The ticket served after n more calls of unlock().
After(n) == IF serving + n <= SizeMax THEN serving + n
                                      ELSE serving + n - (SizeMax + 1)

\* The inductive invariant.  The tickets in use are the Cardinality(Waiting)
\* ones from serving on, each drawn once, and next follows the last of them.
\* Without WidthAssumption a full circle of tickets would make two threads
\* share one.
IInv == /\ LockTypeOK
        /\ next = After(Cardinality(Waiting))
        /\ \A t \in Waiting : Ahead(ticket[t]) < Cardinality(Waiting)
        /\ \A t, u \in Waiting : ticket[t] = ticket[u] => t = u
        /\ \A t \in Threads : pc[t] = "cs" => ticket[t] = serving

\* Who holds ticket k: one thread or, for a ticket not in use, none.
Drawn(k) == {t \in Waiting : ticket[t] = k}

\* The ticket lock is a first-come-first-served lock: the line is read off the
\* tickets, so a thread that draws first enters first (lines 21-24, 33).
Line == [i \in 1..Cardinality(Waiting) |->
           CHOOSE t \in Threads : Drawn(After(i - 1)) \subseteq {t}]
Fifo == INSTANCE FifoLock WITH line <- Line,
                               held <- \E t \in Threads : pc[t] = "cs"
ImplementsFifoLock == Fifo!Spec
===============================================================================
