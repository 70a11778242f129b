--------------------------- MODULE SemaphoreHandoff ---------------------------
(***************************************************************************)
(* Chapter 7/cpp_sem_example.cpp: a producer and a consumer hand a plain   *)
(* uint32_t to each other with two binary_semaphores.  ++ and -- on it are *)
(* a load and a store.                                                     *)
(***************************************************************************)
EXTENDS Naturals

CONSTANTS Limit,  \* turns of the producer: 65536 in the code
          WordMax \* the largest uint32_t

Bounds == Limit \in Nat /\ WordMax \in Nat /\ WordMax >= 1

Threads == {"producer", "consumer"}

VARIABLES sem,             \* sem[t]: the binary_semaphore t acquires
          shared_resource,
          started,         \* main() has released sem_to_produce
          at,              \* at[t]: the next statement of t
          i,               \* i[t]: loop counter of t
          reg              \* reg[t]: the value t's ++ or -- loaded

vars == <<sem, shared_resource, started, at, i, reg>>

OneEach == 1 \* mutant: the semaphores are constructed with 1
\* The count both semaphores are constructed with.
Initially == 0

Init == /\ sem = [t \in Threads |-> Initially]
        /\ shared_resource = 0
        /\ started = FALSE
        /\ at = [t \in Threads |-> "acquire"]
        /\ i = [t \in Threads |-> 0]
        /\ reg = [t \in Threads |-> 0]

Myself(t) == t                 \* mutant: the released semaphore is t's own
\* The thread whose semaphore t releases.
Other(t) == IF t = "producer" THEN "consumer" ELSE "producer"

LimitBoth(t) == Limit          \* mutant: < in both loops
\* The consumer's loop condition is i <= limit.
Turns(t) == IF t = "producer" THEN Limit ELSE Limit + 1

\* ++ and -- on a uint32_t
Change(t, v) == IF t = "producer" THEN IF v = WordMax THEN 0 ELSE v + 1
                                  ELSE IF v = 0 THEN WordMax ELSE v - 1

Go(t, from, to) == at[t] = from /\ at' = [at EXCEPT ![t] = to]

\* main() gives the first turn to the producer, then starts the threads.
Start == /\ ~started
         /\ started' = TRUE
         /\ sem' = [sem EXCEPT !["producer"] = @ + 1]
         /\ UNCHANGED <<shared_resource, at, i, reg>>

Acquire(t) == /\ started /\ i[t] < Turns(t)
              /\ Go(t, "acquire", "load")
              /\ sem[t] > 0
              /\ sem' = [sem EXCEPT ![t] = @ - 1]
              /\ UNCHANGED <<shared_resource, started, i, reg>>

Load(t) == /\ Go(t, "load", "store")
           /\ reg' = [reg EXCEPT ![t] = shared_resource]
           /\ UNCHANGED <<sem, shared_resource, started, i>>

Store(t) == /\ Go(t, "store", "release")
            /\ shared_resource' = Change(t, reg[t])
            /\ UNCHANGED <<sem, started, i, reg>>

Release(t) == /\ Go(t, "release", "acquire")
              /\ sem' = [sem EXCEPT ![Other(t)] = @ + 1]
              /\ i' = [i EXCEPT ![t] = @ + 1]
              /\ UNCHANGED <<shared_resource, started, reg>>

Turn(t) == Acquire(t) \/ Load(t) \/ Store(t) \/ Release(t)

Next == Start \/ \E t \in Threads : Turn(t)

\* main() and both threads run.
Spec == /\ Init /\ [][Next]_vars
        /\ WF_vars(Start) /\ \A t \in Threads : WF_vars(Turn(t))
-------------------------------------------------------------------------------
Returned(t) == at[t] = "acquire" /\ i[t] = Turns(t)
Inside(t) == at[t] # "acquire"

\* The sem conjunct is more than a type: a binary_semaphore may not be released
\* when its count is 1 (lines 21, 32, 38).
TypeOK == /\ sem \in [Threads -> 0..1]
          /\ shared_resource \in 0..WordMax
          /\ started \in BOOLEAN
          /\ at \in [Threads -> {"acquire", "load", "store", "release"}]
          /\ i \in [Threads -> 0..Limit + 1]
          /\ reg \in [Threads -> 0..WordMax]

\* There is one turn, and it is with a semaphore or with a thread: the plain
\* ++ and -- of lines 18 and 30 never overlap.
OneTurn == /\ ~(Inside("producer") /\ Inside("consumer"))
           /\ \A t \in Threads : Inside(t) => \A u \in Threads : sem[u] = 0

\* Whose turn it is and how far the loops are decide the resource: the inductive
\* invariant.
Filled(t) == IF t = "producer" THEN at[t] = "release" ELSE at[t] # "release"
HasTurn(t) == Inside(t) \/ sem[t] = 1
TurnInv(t) ==
  HasTurn(t) =>
    /\ started
    /\ ~HasTurn(Other(t)) /\ (Inside(t) => sem[t] = 0)
    /\ i["producer"] = IF t = "producer" THEN i["consumer"]
                                         ELSE i["consumer"] + 1
    /\ shared_resource = IF Filled(t) THEN 1 ELSE 0
    /\ at[t] = "store" => reg[t] = shared_resource
    /\ Inside("producer") => i["producer"] < Limit
IInv == /\ TypeOK
        /\ \A t \in Threads : TurnInv(t)
        /\ i["consumer"] <= i["producer"] /\ i["producer"] <= Limit
        /\ IF started THEN \E t \in Threads : HasTurn(t)
                      ELSE i["producer"] = 0 /\ shared_resource = 0

\* The consumer waits for one value more than there will be (line 27 against
\* 17): its thread never ends, and main() stays in t2.join().
ConsumerNeverReturns == ~Returned("consumer")

\* No increment or decrement is lost or doubled: the resource goes from 0 to 1
\* and back.
Slot == INSTANCE OneSlot WITH slot <- shared_resource
ImplementsOneSlot == Slot!Spec

\* Every value the producer makes is consumed, and its thread returns.
AllConsumed == <>[](/\ Returned("producer")
                    /\ i["consumer"] = Limit /\ shared_resource = 0)
===============================================================================
