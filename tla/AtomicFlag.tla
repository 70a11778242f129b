------------------------------ MODULE AtomicFlag ------------------------------
(***************************************************************************)
(* Chapter 7/cpp_atomic_flags.cpp: increment() and decrement() of an       *)
(* atomic<uint16_t> take turns with wait() and notify_one() on an          *)
(* atomic_flag.  wait() compares and falls asleep in one step (a futex),   *)
(* and may wake without a notification.                                    *)
(***************************************************************************)
EXTENDS Integers

CONSTANTS Limit,  \* turns of each loop: 100 in the code
          WordMax \* the largest uint16_t

Bounds == Limit \in Nat /\ WordMax \in Nat /\ WordMax >= 3

Threads == {"increment", "decrement"}

VARIABLES condFlag, shared_resource,
          at,       \* at[t]: the next statement of t
          i         \* i[t]: loop counter of t

vars == <<condFlag, shared_resource, at, i>>

\* main() sets the flag before it starts the threads.
Init == /\ condFlag = TRUE
        /\ shared_resource = 0
        /\ at = [t \in Threads |-> "wait"]
        /\ i = [t \in Threads |-> 0]

Other(t) == IF t = "increment" THEN "decrement" ELSE "increment"
\* The value t waits to go away, and the value it then gives the flag.
Old(t) == t = "increment"

\* ++ and -- on an atomic<uint16_t>
Change(t, v) == IF t = "increment" THEN IF v = WordMax THEN 0 ELSE v + 1
                                   ELSE IF v = 0 THEN WordMax ELSE v - 1

Go(t, from, to) == at[t] = from /\ at' = [at EXCEPT ![t] = to]
-------------------------------------------------------------------------------
NotOnce(t) == TRUE      \* mutant: the thread does not wait
NotYet(t) == condFlag # Old(t)
\* condFlag.wait(Old(t)): returns, or sleeps.
Pass(t) == /\ i[t] < Limit
           /\ Go(t, "wait", "set")
           /\ NotYet(t)
           /\ UNCHANGED <<condFlag, shared_resource, i>>

Sleep(t) == /\ i[t] < Limit
            /\ Go(t, "wait", "asleep")
            /\ ~NotYet(t)
            /\ UNCHANGED <<condFlag, shared_resource, i>>

\* condFlag.test_and_set() of increment(), condFlag.clear() of decrement()
Set(t) == /\ Go(t, "set", "add")
          /\ condFlag' = Old(t)
          /\ UNCHANGED <<shared_resource, i>>

Add(t) == /\ Go(t, "add", "notify")
          /\ shared_resource' = Change(t, shared_resource)
          /\ UNCHANGED <<condFlag, i>>

WakeNobody(place) == place \* mutant: notify_one() is forgotten
\* What notify_one() does to the other thread.
Woken(place) == IF place = "asleep" THEN "wait" ELSE place
\* condFlag.notify_one(), and the end of the turn
Notify(t) == /\ at[t] = "notify"
             /\ at' = [u \in Threads |-> IF u = t THEN "wait" ELSE Woken(at[u])]
             /\ i' = [i EXCEPT ![t] = @ + 1]
             /\ UNCHANGED <<condFlag, shared_resource>>

Spurious(t) == Go(t, "asleep", "wait") /\ UNCHANGED <<condFlag, shared_resource, i>>

Turn(t) == Pass(t) \/ Sleep(t) \/ Set(t) \/ Add(t) \/ Notify(t)

Returned(t) == at[t] = "wait" /\ i[t] = Limit

Next == \E t \in Threads : Turn(t) \/ Spurious(t)

\* The threads run; nothing depends on a spurious wakeup.
Spec == Init /\ [][Next]_vars /\ \A t \in Threads : WF_vars(Turn(t))
-------------------------------------------------------------------------------
TypeOK == /\ condFlag \in BOOLEAN
          /\ shared_resource \in 0..WordMax
          /\ at \in [Threads -> {"wait", "asleep", "set", "add", "notify"}]
          /\ i \in [Threads -> 0..Limit]

\* A thread that sleeps although the flag has changed is about to be notified
\* (lines 14, 18, 25, 29).
NoLostWakeup == \A t \in Threads :
  at[t] = "asleep" /\ NotYet(t) => at[Other(t)] \in {"add", "notify"}

\* How often t has set the flag, and how often it has changed the resource.
Sets(t) == i[t] + IF at[t] \in {"add", "notify"} THEN 1 ELSE 0
Adds(t) == i[t] + IF at[t] = "notify" THEN 1 ELSE 0

\* The flag does not order the two changes of the resource, only their turns: a
\* decrement can overtake the increment before it, and no more (lines 14-16,
\* 25-27, where the change comes after the flag is handed over).
Swing == shared_resource \in {WordMax - 1, WordMax, 0, 1}

\* The inductive invariant.  decrement() has set the flag as often as
\* increment(), or once more, as the flag says; what wait() saw still holds when
\* the flag is set; and the resource is the difference of what was added.
Wrap(n) == IF n >= 0 THEN n ELSE n + WordMax + 1
IInv == /\ TypeOK
        /\ NoLostWakeup
        /\ Sets("decrement") = Sets("increment") + IF condFlag THEN 0 ELSE 1
        /\ \A t \in Threads : at[t] = "set" => NotYet(t)
        /\ \A t \in Threads : at[t] # "wait" => i[t] < Limit
        /\ shared_resource = Wrap(Adds("increment") - Adds("decrement"))

\* Both loops end, with nothing left in the resource.
Termination == <>[]((\A t \in Threads : Returned(t)) /\ shared_resource = 0)
===============================================================================
