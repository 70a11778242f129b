---------------------------- MODULE PosixSemaphore ----------------------------
(***************************************************************************)
(* Chapter 7/posix_semaphore_example.c: a semaphore of one, which the      *)
(* consumer raises to two before it waits for it, so both threads can be   *)
(* inside at once.  Every access to counter, full_flag and shared_resource *)
(* is a load or a store of its own: the calls between them keep the        *)
(* compiler from joining or moving them.                                   *)
(***************************************************************************)
EXTENDS Naturals

CONSTANTS COUNT_LIMIT, \* 100 in the code
          ShortMax,    \* the largest unsigned short: 65535
          UIntMax      \* the largest unsigned int

Bounds == /\ COUNT_LIMIT \in Nat \ {0} /\ ShortMax \in Nat /\ UIntMax \in Nat \ {0}
          /\ COUNT_LIMIT + 3 <= ShortMax

Threads == {"producer", "consumer"}

VARIABLES sem, counter, full_flag, shared_resource,
          at, \* at[t]: the next statement of t
          reg \* reg[t]: what t loaded last

vars == <<sem, counter, full_flag, shared_resource, at, reg>>

Init == /\ sem = 1
        /\ counter = 0 /\ full_flag = 0 /\ shared_resource = 0
        /\ at = [t \in Threads |-> IF t = "consumer" THEN "first" ELSE "count"]
        /\ reg = [t \in Threads |-> 0]

Go(t, from, to) == at[t] = from /\ at' = [at EXCEPT ![t] = to]

Up == sem + 1
\* sem_post()
Post(t, from, to) == /\ Go(t, from, to)
                     /\ sem' = Up
                     /\ UNCHANGED <<counter, full_flag, shared_resource, reg>>

\* counter++: the load,
CountLoad(t) == /\ Go(t, "count", "test")
                /\ reg' = [reg EXCEPT ![t] = counter]
                /\ UNCHANGED <<sem, counter, full_flag, shared_resource>>

Forever(t) == TRUE \* mutant: the loops never end
\* the test of the loaded value,
InLoop(t) == IF t = "consumer" THEN reg[t] <= COUNT_LIMIT ELSE reg[t] < COUNT_LIMIT
\* and the store, which loses what the other thread counted in between.
CountStore(t) == /\ Go(t, "test", IF InLoop(t) THEN "wait" ELSE "last")
                 /\ counter' = IF reg[t] = ShortMax THEN 0 ELSE reg[t] + 1
                 /\ UNCHANGED <<sem, full_flag, shared_resource, reg>>

Wait(t) == /\ Go(t, "wait", "flag")
           /\ sem > 0
           /\ sem' = sem - 1
           /\ UNCHANGED <<counter, full_flag, shared_resource, reg>>

Always(t) == TRUE \* mutant: the flag is not tested
MyTurn(t) == full_flag = IF t = "consumer" THEN 1 ELSE 0
TestFlag(t) == /\ Go(t, "flag", IF MyTurn(t) THEN "load" ELSE "post")
               /\ UNCHANGED <<sem, counter, full_flag, shared_resource, reg>>

Load(t) == /\ Go(t, "load", "store")
           /\ reg' = [reg EXCEPT ![t] = shared_resource]
           /\ UNCHANGED <<sem, counter, full_flag, shared_resource>>

\* ++ and -- of an unsigned int
Change(t, v) == IF t = "producer" THEN IF v = UIntMax THEN 0 ELSE v + 1
                                  ELSE IF v = 0 THEN UIntMax ELSE v - 1
Store(t) == /\ Go(t, "store", "hand")
            /\ shared_resource' = Change(t, reg[t])
            /\ UNCHANGED <<sem, counter, full_flag, reg>>

SetFlag(t) == /\ Go(t, "hand", "post")
              /\ full_flag' = IF t = "producer" THEN 1 ELSE 0
              /\ UNCHANGED <<sem, counter, shared_resource, reg>>

Step(t) == \/ Post(t, "first", "count") /\ t = "consumer"
           \/ CountLoad(t) \/ CountStore(t)
           \/ Wait(t) \/ TestFlag(t) \/ Load(t) \/ Store(t) \/ SetFlag(t)
           \/ Post(t, "post", "count")
           \/ Post(t, "last", "done")

Next == \E t \in Threads : Step(t)
\* Both threads run.
Spec == Init /\ [][Next]_vars /\ \A t \in Threads : WF_vars(Step(t))
-------------------------------------------------------------------------------
Places == {"first", "count", "test", "wait", "flag", "load", "store", "hand",
           "post", "last", "done"}
TypeOK == /\ sem \in 0..4
          /\ counter \in 0..COUNT_LIMIT + 3
          /\ full_flag \in 0..1
          /\ shared_resource \in 0..UIntMax
          /\ at \in [Threads -> Places]
          /\ reg \in [Threads -> 0..ShortMax]

Count(p) == IF p THEN 1 ELSE 0
PermitCount ==
  sem + Count(at["producer"] \in {"flag", "load", "store", "hand", "post"})
      + Count(at["consumer"] \in {"flag", "load", "store", "hand", "post"})
    = 1 + Count(at["consumer"] # "first")
        + Count(at["producer"] = "done") + Count(at["consumer"] = "done")

NeverBlocks == \A t \in Threads :
  at["consumer"] # "first" /\ at[t] = "wait" => sem > 0

\* Every permit is in the semaphore or with a thread, and there are more than a
\* semaphore of one has: the consumer adds one before its loop and each thread
\* one after it (lines 39, 53, 70).  So once the consumer has started no
\* sem_wait() ever blocks: the semaphore excludes nobody (lines 42, 59).
Permits == TypeOK /\ PermitCount /\ NeverBlocks

\* It is full_flag that keeps the threads from working on the resource together:
\* the one it names is alone (lines 44-47, 61-64).
OneWorks == \A t \in Threads :
  at[t] \in {"load", "store", "hand"} =>
    MyTurn(t) /\ \A u \in Threads \ {t} : at[u] \notin {"load", "store", "hand"}

\* The semaphore excludes nobody, and the flag does (lines 39-70).
FlagExcludes == Permits /\ OneWorks

\* The resource is a slot, though both threads may be inside.
Slot == INSTANCE OneSlot WITH slot <- shared_resource
ImplementsOneSlot == Slot!Spec

\* The inductive invariant.  The flag, and whether its owner has just stored, say
\* what is in the slot; a count above the limit + 1 tells that a loop has ended.
Exited(t) == Count(at[t] \in {"last", "done"})
IInv == /\ TypeOK /\ PermitCount
        /\ at["producer"] # "first"
        /\ \A t \in Threads : at[t] \in {"load", "store", "hand"} => MyTurn(t)
        /\ \A t \in Threads : at[t] = "store" => reg[t] = shared_resource
        /\ shared_resource = IF at["producer"] = "hand" THEN 1
                             ELSE IF at["consumer"] = "hand" THEN 0 ELSE full_flag
        /\ counter <= COUNT_LIMIT + 1 + Exited("producer") + Exited("consumer")
        /\ at["producer"] = "test" => reg["producer"] <= COUNT_LIMIT + 1 + Exited("consumer")
        /\ at["consumer"] = "test" => reg["consumer"] <= COUNT_LIMIT + 1 + Exited("producer")

\* However many counts are lost or set back, the counter gets past its limit and
\* both loops end (lines 41, 58).
Termination == <>(\A t \in Threads : at[t] = "done")
===============================================================================
