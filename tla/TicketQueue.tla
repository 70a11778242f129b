------------------------------ MODULE TicketQueue -----------------------------
(***************************************************************************)
(* producer() and consumer() of Chapter 9/ticket_lock.cpp over the         *)
(* TicketLock: their threads and the vector these share.  main() starts    *)
(* one of each; here there may be more.  A range-for that prints the       *)
(* vector is the step that copies it into seen.                            *)
(***************************************************************************)
EXTENDS TicketLock, Sequences

CONSTANTS Producers, Consumers, \* the jthreads that run producer(), consumer()
          Iterations            \* turns of each loop: 100 in the code

ASSUME ProgramAssumption == /\ Threads = Producers \cup Consumers
                            /\ Producers \cap Consumers = {}
                            /\ Iterations \in Nat

VARIABLES shared_res, \* the vector
          at,         \* at[t]: the next statement of t
          i,          \* i[t]: loop counter of t
          seen,       \* seen[c]: what the last range-for of c printed
          consumed    \* history: how many elements were printed, then cleared

progVars == <<shared_res, at, i, seen, consumed>>
vars == <<lockVars, progVars>>

Step(t, from, to) == at[t] = from /\ at' = [at EXCEPT ![t] = to]
NextTurn(t) == i' = [i EXCEPT ![t] = @ + 1]

Init == /\ LockInit
        /\ shared_res = <<>>
        /\ at = [t \in Threads |-> "lock"]
        /\ i = [t \in Threads |-> 0]
        /\ seen = [c \in Consumers |-> <<>>]
        /\ consumed = 0

\* spinlock.lock(), in both loops
Lock(t, first) ==
  \/ /\ at[t] = "lock" /\ i[t] < Iterations
     /\ Draw(t) /\ UNCHANGED progVars
  \/ /\ Enter(t) /\ Step(t, "lock", first)
     /\ UNCHANGED <<shared_res, i, seen, consumed>>

\* producer(): shared_res.emplace_back(el)
Emplace(p, from, el, to) ==
  /\ Step(p, from, to)
  /\ shared_res' = Append(shared_res, el)
  /\ UNCHANGED <<lockVars, i, seen, consumed>>

\* producer(): unlock and the next turn of the loop
ProducerUnlock(p) == /\ Step(p, "unlock", "lock")
                     /\ Unlock(p) /\ NextTurn(p)
                     /\ UNCHANGED <<shared_res, seen, consumed>>

Producer(p) == \/ Lock(p, "test1")
               \/ Emplace(p, "test1", "test1", "test2")
               \/ Emplace(p, "test2", "test2", "unlock")
               \/ ProducerUnlock(p)

\* consumer(): print the vector,
Show(c) == /\ Step(c, "print", "clear")
           /\ seen' = [seen EXCEPT ![c] = shared_res]
           /\ UNCHANGED <<lockVars, shared_res, i, consumed>>

\* and shared_res.clear()
Clear(c) == /\ Step(c, "clear", "unlock")
            /\ shared_res' = <<>>
            /\ consumed' = consumed + Len(seen[c])
            /\ UNCHANGED <<lockVars, i, seen>>

ConsumerUnlock(c) == /\ Step(c, "unlock", "check")
                     /\ Unlock(c)
                     /\ UNCHANGED <<shared_res, i, seen, consumed>>

\* consumer(): shared_res.empty() is read without the lock.  The race decides
\* no more than whether "Consumed" is printed.
CheckEmpty(c) == /\ Step(c, "check", "lock")
                 /\ NextTurn(c)
                 /\ UNCHANGED <<lockVars, shared_res, seen, consumed>>

Consumer(c) == \/ Lock(c, "print") \/ Show(c) \/ Clear(c)
               \/ ConsumerUnlock(c) \/ CheckEmpty(c)

\* The loop of t is over: main() joins it.
Done(t) == at[t] = "lock" /\ i[t] = Iterations /\ pc[t] = "out"

Next == (\E p \in Producers : Producer(p)) \/ (\E c \in Consumers : Consumer(c))

\* Every thread runs.
Spec == /\ Init /\ [][Next]_vars
        /\ \A p \in Producers : WF_vars(Producer(p))
        /\ \A c \in Consumers : WF_vars(Consumer(c))
-------------------------------------------------------------------------------
Places == {"lock", "test1", "test2", "print", "clear", "unlock", "check"}
TypeOK == /\ LockTypeOK
          /\ shared_res \in Seq({"test1", "test2"})
          /\ seen \in [Consumers -> Seq({"test1", "test2"})]
          /\ at \in [Threads -> Places]
          /\ i \in [Threads -> 0..Iterations]
          /\ consumed \in 0..2 * Iterations * Cardinality(Producers)

\* How many elements p has emplaced so far, and each of them.
Emplaced(p) == 2 * i[p] + CASE at[p] = "test2" -> 1
                            [] at[p] = "unlock" -> 2
                            [] OTHER -> 0
AllEmplaced == {e \in Producers \X (1..2 * Iterations) : e[2] <= Emplaced(e[1])}
\* A consumer is about to clear what it has printed, and no more.
PrintedAll == \A c \in Consumers : at[c] = "clear" => seen[c] = shared_res

\* Every element a producer ever emplaced is still in the vector or was printed
\* by a consumer before it was cleared: nothing slips in between a consumer's
\* range-for and its clear() (lines 44-45, 58-60).
NothingLost ==
  /\ TypeOK /\ PrintedAll
  /\ consumed + Len(shared_res) = Cardinality(AllEmplaced)

\* All loops end, so main() returns: no thread can be starved by the others in
\* the spin (lines 68-71).
Termination == <>(\A t \in Threads : Done(t))
===============================================================================
