----------------------------- MODULE MCThreadsProofs -----------------------------
(***************************************************************************)
(* Proofs about the programs of MCThreads, for any number of threads,      *)
(* turns and workers, and every word the turns fit.  A run of MCThreads is *)
(* a run of one of its programs, so each part proves what holds of the     *)
(* steps of one program and ends with what holds of every run.             *)
(***************************************************************************)
EXTENDS MCThreads, FiniteSetTheorems, TLAPS

-------------------------------------------------------------------------------
(* The mutex of cpp_mutex.cpp *)


\* Nothing has been counted.
LEMMA CounterInit ==
  ASSUME Counter!NoWrap, Counter!Init
  PROVE  Counter!IInv
<1>1. 0 \in 0..Size - 1 /\ 0 \in 0..Limit
  BY DEF Counter!NoWrap
<1>2. Counter!TypeOK
  BY <1>1 DEF Counter!Init, Counter!TypeOK, Counter!Threads
<1>3. QED
  BY <1>2 DEF Counter!Init, Counter!IInv, Counter!Threads, Counter!Counted

\* A thread that has not stored its turn yet leaves room for one more.
LEMMA RoomForOne ==
  ASSUME Counter!NoWrap, Counter!IInv, NEW t \in Counter!Threads, at[t] = "store"
  PROVE  temp[t] = shared_resource /\ shared_resource + 1 \in 0..Size - 1
<1>1. /\ temp[t] = shared_resource /\ shared_resource \in Nat
      /\ shared_resource = Counter!Counted["t1"] + Counter!Counted["t2"]
  BY DEF Counter!IInv, Counter!TypeOK
<1>2. \A u \in Counter!Threads : Counter!Counted[u] \in 0..Limit
  BY DEF Counter!NoWrap, Counter!IInv, Counter!TypeOK, Counter!Counted
<1>3. Counter!Counted[t] < Limit
  BY DEF Counter!NoWrap, Counter!IInv, Counter!TypeOK, Counter!Counted
<1>4. QED
  BY <1>1, <1>2, <1>3 DEF Counter!NoWrap, Counter!Threads

\* The store is the increment, and counts once for its thread.
LEMMA StoreEffect ==
  ASSUME Counter!NoWrap, Counter!IInv, NEW t \in Counter!Threads, Counter!Store(t)
  PROVE  /\ shared_resource' = shared_resource + 1
         /\ shared_resource' = (shared_resource + 1) % Size
         /\ Counter!Counted[t] < Limit
         /\ Counter!Counted' = [Counter!Counted EXCEPT ![t] = @ + 1]
<1>1. at[t] = "store" /\ at' = [at EXCEPT ![t] = "unlock"] /\ i' = i
  BY DEF Counter!Store, Counter!Go
<1>2. shared_resource' = (shared_resource + 1) % Size
  BY <1>1, RoomForOne DEF Counter!Store
<1>3. (shared_resource + 1) % Size = shared_resource + 1
  BY <1>1, RoomForOne DEF Counter!NoWrap
<1>4. Counter!Counted[t] < Limit
  BY <1>1 DEF Counter!IInv, Counter!TypeOK, Counter!Counted
<1>5. Counter!Counted' = [Counter!Counted EXCEPT ![t] = @ + 1]
  BY <1>1 DEF Counter!IInv, Counter!TypeOK, Counter!Counted
<1>6. QED
  BY <1>2, <1>3, <1>4, <1>5

\* No other step counts.
LEMMA OtherSteps ==
  ASSUME Counter!NoWrap, Counter!IInv, NEW t \in Counter!Threads, Counter!Lock(t) \/ Counter!Load(t) \/ Counter!Unlock(t)
  PROVE  Counter!Counted' = Counter!Counted /\ shared_resource' = shared_resource
BY DEF Counter!IInv, Counter!TypeOK, Counter!Counted, Counter!Lock, Counter!Load,
       Counter!Unlock, Counter!Go

\* Only a thread that has the mutex loads, stores and counts its turn.
LEMMA CounterStepHolds ==
  ASSUME Counter!NoWrap, Counter!IInv, NEW t \in Counter!Threads, Counter!Thread(t)
  PROVE  Counter!IInv'
<1>1. CASE Counter!Store(t)
  <2>1. at[t] = "store" /\ shared_resource' \in 0..Size - 1
    BY <1>1, RoomForOne, StoreEffect DEF Counter!Store, Counter!Go
  <2>2. Counter!TypeOK'
    BY <1>1, <2>1 DEF Counter!IInv, Counter!TypeOK, Counter!Store, Counter!Go
  <2>3. shared_resource' = (Counter!Counted["t1"] + Counter!Counted["t2"])'
    <3>1. \A u \in Counter!Threads : Counter!Counted[u] \in Nat
      BY DEF Counter!NoWrap, Counter!IInv, Counter!TypeOK, Counter!Counted
    <3>2. DOMAIN Counter!Counted = Counter!Threads
      BY DEF Counter!Counted
    <3>3. QED
      BY <1>1, <3>1, <3>2, StoreEffect DEF Counter!IInv, Counter!Threads
  <2>4. \A u \in Counter!Threads : at'[u] # "store"
    BY <1>1 DEF Counter!IInv, Counter!TypeOK, Counter!Store, Counter!Go, Counter!Threads
  <2>5. QED
    BY <1>1, <2>2, <2>3, <2>4
       DEF Counter!IInv, Counter!TypeOK, Counter!Store, Counter!Go
<1>2. CASE Counter!Lock(t)
  <2>1. Counter!TypeOK'
    BY <1>2 DEF Counter!IInv, Counter!TypeOK, Counter!Lock, Counter!Go
  <2>2. QED
    BY <1>2, <2>1, OtherSteps
       DEF Counter!IInv, Counter!TypeOK, Counter!Lock, Counter!Free, Counter!Go,
           Counter!Threads
<1>3. CASE Counter!Load(t)
  <2>1. Counter!TypeOK'
    BY <1>3 DEF Counter!IInv, Counter!TypeOK, Counter!Load, Counter!Go
  <2>2. QED
    BY <1>3, <2>1, OtherSteps
       DEF Counter!IInv, Counter!TypeOK, Counter!Load, Counter!Go, Counter!Threads
<1>4. CASE Counter!Unlock(t)
  <2>1. Counter!TypeOK'
    <3>1. i[t] + 1 \in 0..Limit
      BY <1>4
         DEF Counter!NoWrap, Counter!IInv, Counter!TypeOK, Counter!Unlock, Counter!Go
    <3>2. QED
      BY <1>4, <3>1 DEF Counter!IInv, Counter!TypeOK, Counter!Unlock, Counter!Go
  <2>2. QED
    BY <1>4, <2>1, OtherSteps
       DEF Counter!IInv, Counter!TypeOK, Counter!Unlock, Counter!Go, Counter!Threads
<1>5. QED
  BY <1>1, <1>2, <1>3, <1>4 DEF Counter!Thread

\* What a run of MCThreads does to the counter is a run of cpp_mutex.cpp.
LEMMA CounterRuns ==
  Spec => Counter!Init /\ [][Counter!Next]_(Counter!vars)
<1>1. Init => Counter!Init
  BY DEF Init
<1>2. [Next]_vars => [Counter!Next]_(Counter!vars)
  BY DEF Next, vars, LatchStep, RaceStep, CounterStep, StopStep, CoopStep, counterVars,
         Counter!vars
<1>3. QED
  BY <1>1, <1>2, PTL DEF Spec

\* One thread at a time loads and stores, the value it stores is not stale, and
\* the counter is the number of turns that have stored (cpp_mutex.cpp lines 13-16).
THEOREM CounterInvariant == Spec => []Counter!IInv
<1>1. Counter!NoWrap
  BY BoundsAssumption
<1>2. Counter!Init => Counter!IInv
  BY <1>1, CounterInit
<1>3. Counter!IInv /\ [Counter!Next]_(Counter!vars) => Counter!IInv'
  <2>1. Counter!IInv /\ UNCHANGED Counter!vars => Counter!IInv'
    BY DEF Counter!IInv, Counter!TypeOK, Counter!Counted, Counter!vars
  <2>2. QED
    BY <1>1, <2>1, CounterStepHolds DEF Counter!Next
<1>4. QED
  BY <1>2, <1>3, CounterRuns, PTL

\* Under the mutex the two steps of ++ are one: the program implements that of
\* cpp_increment_atomic.cpp, for every limit that fits the word twice.
THEOREM CounterIsAtomic == Spec => ImplementsAtomicCounter
<1> USE BoundsAssumption
<1>1. Counter!Init => Counter!Atomic!Init
  BY DEF Counter!Init, Counter!Atomic!Init, Counter!Atomic!Threads, Counter!Threads,
         Counter!Counted
<1>2. Counter!IInv /\ [Counter!Next]_(Counter!vars)
        => [Counter!Atomic!Next]_(Counter!Atomic!vars)
  <2>1. SUFFICES ASSUME Counter!IInv, [Counter!Next]_(Counter!vars),
                        ~ UNCHANGED <<shared_resource, Counter!Counted>>
                 PROVE  Counter!Atomic!Next
    BY DEF Counter!Atomic!vars
  <2>2. ASSUME NEW t \in Counter!Threads, Counter!Store(t) PROVE Counter!Atomic!Increment(t)
    BY <2>1, <2>2, StoreEffect DEF Counter!Atomic!Increment
  <2>3. ASSUME NEW t \in Counter!Threads, Counter!Lock(t) \/ Counter!Load(t) \/ Counter!Unlock(t)
        PROVE  FALSE
    BY <2>1, <2>3, OtherSteps
  <2>4. CASE UNCHANGED Counter!vars
    BY <2>1, <2>4 DEF Counter!vars, Counter!Counted
  <2>5. QED
    BY <2>1, <2>2, <2>3, <2>4
       DEF Counter!Next, Counter!Thread, Counter!Atomic!Next, Counter!Atomic!Threads,
           Counter!Threads
<1>3. QED
  BY <1>1, <1>2, CounterInvariant, CounterRuns, PTL
     DEF ImplementsAtomicCounter, Counter!ImplementsAtomicCounter, Counter!Atomic!Spec
-------------------------------------------------------------------------------
(* The stop request of coop_cancellation.cpp *)

\* Who has run main()'s callback, and whose notification is registered, in terms
\* of where the three threads are.
CoopInv ==
  /\ Coop!TypeOK
  /\ main = "register" <=> stopper = "none"
  /\ stop = (stopper \in {"callbacks", "returned"})
  /\ main \in {"destroy_worker", "done"} => stopper = "returned"
  /\ main = "register" => "stopper" \notin runs
  /\ "main" \in callbacks <=> main # "register" /\ "stopper" \notin runs
  /\ stopper = "returned" => "stopper" \in runs
  /\ worker = "asleep" \/ (worker = "test" /\ ~stop) => "notify" \in callbacks

LEMMA CoopStepHolds ==
  ASSUME CoopInv, Coop!Next
  PROVE  CoopInv'
<1>1. CASE Coop!Wait \/ Coop!Sleep \/ Coop!WorkerReturns \/ Coop!SpuriousWakeup
  BY <1>1 DEF CoopInv, Coop!TypeOK, Coop!Wait, Coop!Sleep, Coop!Tested,
              Coop!WorkerReturns, Coop!SpuriousWakeup, Coop!WorkerGo
<1>2. CASE Coop!RequestStop
  BY <1>2 DEF CoopInv, Coop!TypeOK, Coop!RequestStop
<1>3. CASE Coop!RunCallback
  BY <1>3 DEF CoopInv, Coop!TypeOK, Coop!RunCallback
<1>4. CASE Coop!StopperReturns
  BY <1>4 DEF CoopInv, Coop!TypeOK, Coop!StopperReturns
<1>5. CASE Coop!RegisterCallback
  BY <1>5 DEF CoopInv, Coop!TypeOK, Coop!RegisterCallback
<1>6. CASE Coop!DestroyCallback \/ Coop!JoinWorker
  BY <1>6 DEF CoopInv, Coop!TypeOK, Coop!DestroyCallback, Coop!Joined, Coop!JoinWorker
<1>7. QED
  BY <1>1, <1>2, <1>3, <1>4, <1>5, <1>6
     DEF Coop!Next, Coop!Worker, Coop!Stopper, Coop!Main

\* main()'s callback runs once, in the stopper's thread, before main() takes it
\* back, and a sleeping worker has a notification coming (coop_cancellation.cpp
\* lines 16-17, 24-38), in whatever order the three threads run.
THEOREM StopRunsCallbackOnce == Spec => []CallbackOnce
<1>1. Init => CoopInv
  <2>1. Coop!Init => Coop!TypeOK
    BY DEF Coop!Init, Coop!TypeOK
  <2>2. Coop!Init => stop = FALSE /\ stopper = "none"
    BY DEF Coop!Init
  <2>3. Coop!Init => (stopper \in {"callbacks", "returned"}) = FALSE
    BY <2>2
  <2>4. QED
    BY <2>1, <2>2, <2>3 DEF Init, Coop!Init, CoopInv
<1>2. CoopInv /\ [Next]_vars => CoopInv'
  <2>1. ASSUME CoopInv, UNCHANGED coopVars PROVE CoopInv'
    BY <2>1 DEF coopVars, CoopInv, Coop!TypeOK
  <2>2. [Next]_vars => Coop!Next \/ UNCHANGED coopVars
    BY DEF Next, vars, LatchStep, RaceStep, CounterStep, StopStep, CoopStep
  <2>3. QED
    BY <2>1, <2>2, CoopStepHolds
<1>3. CoopInv => CallbackOnce
  <2>1. CoopInv => (runs = {"stopper"} <=> "stopper" \in runs)
    BY DEF CoopInv, Coop!TypeOK
  <2>2. QED
    BY <2>1 DEF CoopInv, Coop!TypeOK, CallbackOnce, Coop!CallbackOnce
<1>4. QED
  BY <1>1, <1>2, <1>3, PTL DEF Spec
-------------------------------------------------------------------------------
(* The latch of latch.cpp *)

\* The threads that have not counted the latch down yet
NotArrived == {t \in Arrival!Threads : latch_at[t] \in {"unborn", "work"}}

\* The latch counts them, and who is past it came when there were none left.
ArrivalInv ==
  /\ Arrival!TypeOK
  /\ progress = Cardinality(NotArrived)
  /\ latch_main # "start" => \A t \in Arrival!Threads : latch_at[t] # "unborn"
  /\ latch_main \in {"print", "join", "destroyed"} => NotArrived = {}
  /\ \A t \in Waiters : latch_at[t] \in {"print", "finished"} => NotArrived = {}
  /\ latch_main = "destroyed" => \A t \in Arrival!Threads : latch_at[t] = "finished"

\* Latch counts with the operators of FiniteSets, which the instance renames.
LEMMA LatchCounts ==
  \A S : /\ Arrival!Cardinality(S) = Cardinality(S)
         /\ Arrival!IsFiniteSet(S) <=> IsFiniteSet(S)
<1>1. \A S : Arrival!Cardinality(S) = Cardinality(S)
  BY DEF Arrival!Cardinality, Cardinality
<1>2. \A S : Arrival!IsFiniteSet(S) <=> IsFiniteSet(S)
  BY DEF Arrival!IsFiniteSet, IsFiniteSet
<1>3. QED
  BY <1>1, <1>2

\* The threads can be counted, and so can those that have not arrived.
LEMMA CountingThreads ==
  /\ IsFiniteSet(Arrival!Threads) /\ Cardinality(Arrival!Threads) \in Nat
  /\ IsFiniteSet(NotArrived) /\ Cardinality(NotArrived) \in 0..Cardinality(Arrival!Threads)
  /\ Cardinality(NotArrived) = 0 <=> NotArrived = {}
  /\ Arrival!InitialCount = Cardinality(Arrival!Threads)
<1>1. IsFiniteSet(Arrival!Threads)
  BY BoundsAssumption, LatchCounts, FS_Union DEF Arrival!ThreadsBounds, Arrival!Threads
<1>2. NotArrived \subseteq Arrival!Threads
  BY DEF NotArrived
<1>3. QED
  BY <1>1, <1>2, LatchCounts, FS_Subset, FS_CardinalityType, FS_EmptySet
     DEF Arrival!InitialCount

LEMMA ArrivalInit == Arrival!Init => ArrivalInv
<1>1. SUFFICES ASSUME Arrival!Init PROVE ArrivalInv
  OBVIOUS
<1>2. NotArrived = Arrival!Threads
  BY <1>1 DEF Arrival!Init, NotArrived
<1>3. QED
  BY <1>1, <1>2, CountingThreads
     DEF Arrival!Init, ArrivalInv, Arrival!TypeOK, Arrival!Threads

\* An arrival takes one from the count and one thread from those it counts.
LEMMA ArriveHolds ==
  ASSUME ArrivalInv, NEW t \in Arrival!Threads, Arrival!Arrive(t)
  PROVE  ArrivalInv'
<1>1. /\ t \in NotArrived /\ NotArrived' = NotArrived \ {t}
      /\ progress' = progress - 1 /\ latch_main' = latch_main
      /\ latch_at' = [latch_at EXCEPT ![t] = IF t \in Waiters THEN "wait" ELSE "print"]
  BY DEF Arrival!Arrive, Arrival!Go, NotArrived, ArrivalInv, Arrival!TypeOK
<1>2. Cardinality(NotArrived') = Cardinality(NotArrived) - 1
  BY <1>1, CountingThreads, FS_RemoveElement
<1>3. Arrival!TypeOK'
  BY <1>1, <1>2, CountingThreads
     DEF ArrivalInv, Arrival!TypeOK, Arrival!Arrive, Arrival!Go
<1>4. QED
  BY <1>1, <1>2, <1>3 DEF ArrivalInv, Arrival!TypeOK, Arrival!Threads

\* The other steps of the threads, and main()'s, leave the count and whom it counts.
LEMMA ArrivalStepHolds ==
  ASSUME ArrivalInv, Arrival!Next
  PROVE  ArrivalInv'
<1>1. ASSUME NEW t \in Arrival!Threads, Arrival!Arrive(t) PROVE ArrivalInv'
  BY <1>1, ArriveHolds
<1>2. ASSUME NEW t \in Arrival!Threads, Arrival!Pass(t) \/ Arrival!Say(t) \/ Arrival!Begin(t)
      PROVE  ArrivalInv'
  <2>1. NotArrived' = NotArrived /\ progress' = progress /\ latch_main' = latch_main
    BY <1>2
       DEF Arrival!Pass, Arrival!Say, Arrival!Begin, Arrival!Go, NotArrived,
           ArrivalInv, Arrival!TypeOK
  <2>2. Arrival!TypeOK'
    BY <1>2
       DEF Arrival!Pass, Arrival!Say, Arrival!Begin, Arrival!Go, ArrivalInv,
           Arrival!TypeOK, Arrival!InitialCount
  <2>3. Arrival!Pass(t) => NotArrived = {}
    BY CountingThreads DEF Arrival!Pass, ArrivalInv
  <2>4. QED
    BY <1>2, <2>1, <2>2, <2>3
       DEF Arrival!Pass, Arrival!Say, Arrival!Begin, Arrival!Go, ArrivalInv,
           Arrival!TypeOK, Arrival!Threads
<1>3. CASE Arrival!MainWait \/ Arrival!MainPass \/ Arrival!MainPrint \/ Arrival!MainReturn
  <2>1. NotArrived' = NotArrived /\ progress' = progress /\ latch_at' = latch_at
    BY <1>3
       DEF Arrival!MainWait, Arrival!MainPass, Arrival!MainPrint, Arrival!MainReturn,
                Arrival!MainGo, NotArrived
  <2>2. Arrival!MainPass => NotArrived = {}
    BY CountingThreads DEF Arrival!MainPass, ArrivalInv
  <2>3. QED
    BY <1>3, <2>1, <2>2
       DEF Arrival!MainWait, Arrival!MainPass, Arrival!MainPrint, Arrival!MainReturn,
           Arrival!MainGo, Arrival!Joined, ArrivalInv, Arrival!TypeOK,
           Arrival!InitialCount
<1>4. QED
  BY <1>1, <1>2, <1>3 DEF Arrival!Next, Arrival!Thread, Arrival!Main

\* Nobody gets past the latch before every thread has reached it, and none uses it
\* when it has been destroyed (latch.cpp lines 10-33), for any number of threads
\* that count down and that wait.
THEOREM LatchIsSafe == Spec => []LatchSafe
<1>1. Init => ArrivalInv
  BY ArrivalInit DEF Init
<1>2. ArrivalInv /\ [Next]_vars => ArrivalInv'
  <2>1. ASSUME ArrivalInv, UNCHANGED latchVars PROVE ArrivalInv'
    BY <2>1 DEF latchVars, ArrivalInv, Arrival!TypeOK, NotArrived, Arrival!InitialCount
  <2>2. [Next]_vars => Arrival!Next \/ UNCHANGED latchVars
    BY DEF Next, vars, LatchStep, RaceStep, CounterStep, StopStep, CoopStep
  <2>3. QED
    BY <2>1, <2>2, ArrivalStepHolds
<1>3. ArrivalInv => LatchSafe
  BY DEF ArrivalInv, LatchSafe, Arrival!LatchSafe, Arrival!AllArrived,
         Arrival!Outlives, NotArrived,
         Arrival!Threads
<1>4. QED
  BY <1>1, <1>2, <1>3, PTL DEF Spec
-------------------------------------------------------------------------------
(* The stop requests of stop-source.cpp and stop-token.cpp *)

\* Where main() is among its workers, and whom it has asked and joined by then.
StopInv ==
  /\ kind \in {"stop-source", "stop-token"}
  /\ returned \subseteq Stopping!Workers
  /\ \/ \E n \in Stopping!Workers : stop_main = <<"request", n>>
     \/ \E n \in Stopping!Workers :
          /\ stop_main = <<"destroy", n>> /\ n + 1..Count \subseteq returned
          /\ kind = "stop-source" => Stopping!Shared \in requested
     \/ stop_main = <<"done", 0>> /\ returned = Stopping!Workers

LEMMA StopStepHolds ==
  ASSUME StopInv, Stopping!Next
  PROVE  StopInv'
<1> USE BoundsAssumption DEF Stopping!CountBounds, Stopping!Workers
<1>1. CASE Stopping!RequestStop
  <2>1. PICK n \in Stopping!Workers : stop_main = <<"request", n>>
    BY <1>1 DEF StopInv, Stopping!RequestStop
  <2>2. CASE kind = "stop-token" /\ n < Count
    BY <1>1, <2>1, <2>2 DEF StopInv, Stopping!RequestStop
  <2>3. CASE ~ (kind = "stop-token" /\ n < Count)
    <3>1. stop_main' = <<"destroy", Count>> /\ Count + 1..Count = {}
      BY <1>1, <2>1, <2>3 DEF Stopping!RequestStop
    <3>2. kind = "stop-source" => Stopping!Shared \in requested'
      BY <1>1 DEF Stopping!RequestStop
    <3>3. QED
      BY <1>1, <3>1, <3>2 DEF StopInv, Stopping!RequestStop
  <2>4. QED
    BY <2>2, <2>3
<1>2. CASE Stopping!Destroy
  BY <1>2 DEF StopInv, Stopping!Destroy
<1>3. CASE Stopping!Join
  <2>1. PICK n \in Stopping!Workers :
          /\ stop_main = <<"destroy", n>> /\ n + 1..Count \subseteq returned
          /\ kind = "stop-source" => Stopping!Shared \in requested
    BY <1>3 DEF StopInv, Stopping!Join
  <2>2. n \in returned /\ n..Count \subseteq returned
    BY <1>3, <2>1 DEF Stopping!Join
  <2>3. CASE n = 1
    BY <1>3, <2>1, <2>2, <2>3 DEF StopInv, Stopping!Join
  <2>4. CASE n # 1
    <3>1. n - 1 \in Stopping!Workers /\ (n - 1) + 1..Count = n..Count
      BY <2>4
    <3>2. stop_main' = <<"destroy", n - 1>>
      BY <1>3, <2>1, <2>4 DEF Stopping!Join
    <3>3. QED
      BY <1>3, <2>1, <2>2, <3>1, <3>2 DEF StopInv, Stopping!Join
  <2>5. QED
    BY <2>3, <2>4
<1>4. ASSUME NEW w \in Stopping!Workers, Stopping!Poll(w) PROVE StopInv'
  BY <1>4 DEF StopInv, Stopping!Poll
<1>5. QED
  BY <1>1, <1>2, <1>3, <1>4 DEF Stopping!Next, Stopping!Main

\* main() only waits for a worker whose token was asked before, and ends when all
\* have returned (stop-source.cpp lines 10-11, 31-36), for any number of workers.
THEOREM StopAskedBeforeJoin == Spec => []Stopping!AskedBeforeJoin
<1>1. Init => StopInv
  BY BoundsAssumption
     DEF Init, Stopping!Init, StopInv, Stopping!Workers, Stopping!CountBounds
<1>2. StopInv /\ [Next]_vars => StopInv'
  <2>1. ASSUME StopInv, UNCHANGED stopVars PROVE StopInv'
    BY <2>1 DEF stopVars, StopInv
  <2>2. [Next]_vars => Stopping!Next \/ UNCHANGED stopVars
    BY DEF Next, vars, LatchStep, RaceStep, CounterStep, StopStep, CoopStep
  <2>3. QED
    BY <2>1, <2>2, StopStepHolds
<1>3. StopInv => Stopping!AskedBeforeJoin
  BY DEF StopInv, Stopping!AskedBeforeJoin, Stopping!Token, Stopping!Shared
<1>4. QED
  BY <1>1, <1>2, <1>3, PTL DEF Spec
-------------------------------------------------------------------------------
(* The accounts of data-race.cpp *)

LEMMA RaceBounds ==
  /\ IsFiniteSet(Transfers) /\ Transfers # {} /\ Transfers \subseteq Nat \ {0}
  /\ Initial \in Nat
BY BoundsAssumption DEF Race!Covered, Race!IsFiniteSet, IsFiniteSet

LEMMA RaceCounts == \A S : Race!Cardinality(S) = Cardinality(S)
BY DEF Race!Cardinality, Cardinality

\* Each amount has as many units as it says, and no two share one.
LEMMA UnitsOfOne ==
  ASSUME NEW t \in Transfers
  PROVE  IsFiniteSet({t} \X (1..t)) /\ Cardinality({t} \X (1..t)) = t
<1>1. t \in Nat \ {0}
  BY RaceBounds
<1>2. IsFiniteSet(1..t) /\ Cardinality(1..t) = t
  BY <1>1, FS_Interval
<1>3. IsFiniteSet({t}) /\ Cardinality({t}) = 1
  BY FS_Singleton
<1>4. IsFiniteSet({t} \X (1..t)) /\ Cardinality({t} \X (1..t)) = 1 * t
  BY <1>2, <1>3, FS_Product
<1>5. QED
  BY <1>1, <1>4

LEMMA UnitsFinite ==
  ASSUME NEW S \in SUBSET Transfers
  PROVE  IsFiniteSet(Race!Units(S)) /\ Race!Sum(S) \in Nat
<1> DEFINE parts == {{t} \X (1..t) : t \in S}
           part == [t \in S |-> {t} \X (1..t)]
<1>1. IsFiniteSet(S)
  BY RaceBounds, FS_Subset
<1>2. part \in Surjection(S, parts)
  BY DEF Surjection
<1>3. IsFiniteSet(parts)
  BY <1>1, <1>2, FS_Surjection
<1>4. \A T \in parts : IsFiniteSet(T)
  BY UnitsOfOne
<1>5. IsFiniteSet(UNION parts)
  <2> HIDE DEF parts
  <2>1. QED
    BY <1>3, <1>4, FS_UNION
<1>6. IsFiniteSet(Race!Units(S))
  BY <1>5 DEF Race!Units
<1>7. QED
  BY <1>6, FS_CardinalityType, RaceCounts DEF Race!Sum

LEMMA SumEmpty == Race!Sum({}) = 0
<1>1. Race!Units({}) = {}
  BY DEF Race!Units
<1>2. QED
  BY <1>1, RaceCounts, FS_EmptySet DEF Race!Sum

LEMMA SumAdded ==
  ASSUME NEW S \in SUBSET Transfers, NEW t \in Transfers, t \notin S
  PROVE  Race!Sum(S \cup {t}) = Race!Sum(S) + t
<1> DEFINE old == Race!Units(S)
           one == {t} \X (1..t)
<1>1. Race!Units(S \cup {t}) = old \cup one
  BY DEF Race!Units
<1>2. old \cap one = {}
  BY DEF Race!Units
<1>3. IsFiniteSet(old) /\ Cardinality(old) \in Nat
  BY UnitsFinite, FS_CardinalityType
<1>4. IsFiniteSet(one) /\ Cardinality(one) = t /\ t \in Nat
  BY UnitsOfOne, RaceBounds
<1> HIDE DEF old, one
<1>5. Cardinality(old \cup one) = Cardinality(old) + Cardinality(one) - Cardinality(old \cap one)
  BY <1>3, <1>4, FS_Union
<1>6. Cardinality({}) = 0
  BY FS_EmptySet
<1>7. Cardinality(old \cup one) = Cardinality(old) + t
  BY <1>2, <1>3, <1>4, <1>5, <1>6
<1>8. QED
  BY <1>1, <1>7, RaceCounts DEF Race!Sum, old

\* Every amount counts: what is left of a sum is less than all of it.
LEMMA SumOfAll ==
  ASSUME NEW S \in SUBSET Transfers, Race!Sum(S) = Race!Sum(Transfers)
  PROVE  S = Transfers
<1>1. Race!Units(S) \in SUBSET Race!Units(Transfers)
  BY DEF Race!Units
<1>2. IsFiniteSet(Race!Units(Transfers))
  BY UnitsFinite
<1>3. Race!Units(S) = Race!Units(Transfers)
  BY <1>1, <1>2, FS_Subset, RaceCounts DEF Race!Sum
<1>4. ASSUME NEW t \in Transfers PROVE t \in S
  <2>1. <<t, 1>> \in Race!Units(Transfers)
    BY RaceBounds DEF Race!Units
  <2>2. PICK u \in S : <<t, 1>> \in {u} \X (1..u)
    BY <1>3, <2>1 DEF Race!Units
  <2>3. QED
    BY <2>2
<1>5. QED
  BY <1>4

\* Who has stored the new balance of an account.
Stored(a) == {t \in Transfers : race_at[t] \in
                IF a = "bill" THEN {"deposit", "depositing", "done"} ELSE {"done"}}

\* The ledger of an account: base[t] are the transfers in the balance that t has
\* loaded, S those in the balance itself.  As long as nobody overlapped, all who have
\* stored are in both.  After an overlap somebody who has stored is missing, or will
\* be: of two that have loaded neither has the other, and the last one stays.
Ledger(between, stored, S, base, apart) ==
  /\ S \subseteq stored /\ (stored # {} => S # {})
  /\ \A t \in between : base[t] \subseteq stored
  /\ apart => /\ S = stored
              /\ \A t \in between : base[t] = stored
              /\ \A t, u \in between : t = u
  /\ ~apart => \/ \E t, u \in between : t # u
               \/ \E t \in between : between = {t} /\ stored \ base[t] # {}
               \/ between = {} /\ stored \ S # {}

LEMMA LedgerLoad ==
  ASSUME NEW between \in SUBSET Transfers, NEW stored \in SUBSET Transfers,
         NEW S \in SUBSET Transfers, NEW base \in [Transfers -> SUBSET Transfers],
         NEW apart \in BOOLEAN, NEW t \in Transfers, t \notin between, t \notin stored,
         Ledger(between, stored, S, base, apart)
  PROVE  Ledger(between \cup {t}, stored, S, [base EXCEPT ![t] = S], apart /\ between = {})
<1> DEFINE new == [base EXCEPT ![t] = S]
<1>1. new[t] = S /\ \A u \in between : new[u] = base[u]
  OBVIOUS
<1> HIDE DEF new
<1>2. CASE apart /\ between = {}
  BY <1>1, <1>2 DEF Ledger
<1>3. CASE between # {}
  <2>1. \E u \in between \cup {t} : u # t
    BY <1>3
  <2>2. QED
    BY <1>1, <1>3, <2>1 DEF Ledger
<1>4. CASE ~apart /\ between = {}
  BY <1>1, <1>4 DEF Ledger
<1>5. QED
  BY <1>2, <1>3, <1>4 DEF new

LEMMA LedgerStore ==
  ASSUME NEW between \in SUBSET Transfers, NEW stored \in SUBSET Transfers,
         NEW S \in SUBSET Transfers, NEW base \in [Transfers -> SUBSET Transfers],
         NEW apart \in BOOLEAN, NEW t \in between, t \notin stored,
         Ledger(between, stored, S, base, apart)
  PROVE  Ledger(between \ {t}, stored \cup {t}, base[t] \cup {t}, base, apart)
<1>1. CASE apart
  BY <1>1 DEF Ledger
<1>2. CASE ~apart /\ between = {t}
  BY <1>2 DEF Ledger
<1>3. CASE ~apart /\ between # {t}
  <2>1. PICK u \in between : u # t
    BY <1>3
  <2>2. t \notin base[u] /\ t \in stored \cup {t} /\ u \in between \ {t}
    BY <2>1 DEF Ledger
  <2>3. \/ \E v, w \in between \ {t} : v # w
        \/ between \ {t} = {u}
    BY <2>1
  <2>4. \/ \E v, w \in between \ {t} : v # w
        \/ \E v \in between \ {t} : between \ {t} = {v} /\ (stored \cup {t}) \ base[v] # {}
    BY <2>2, <2>3
  <2>5. QED
    BY <1>3, <2>4 DEF Ledger
<1>4. QED
  BY <1>1, <1>2, <1>3

Value(a, S) == IF a = "bill" THEN Initial - Race!Sum(S) ELSE Race!Sum(S)
Account(a) ==
  \E S \in SUBSET Transfers, base \in [Transfers -> SUBSET Transfers] :
     /\ Ledger(Race!Between(a), Stored(a), S, base, exact[a])
     /\ balance[a] = Value(a, S)
     /\ \A t \in Race!Between(a) : race_temp[t] = Value(a, base[t])

RacePlaces == {"withdraw", "withdrawing", "deposit", "depositing", "done"}
RaceTypes ==
  /\ race_at \in [Transfers -> RacePlaces]
  /\ DOMAIN race_temp = Transfers /\ race_temp = [t \in Transfers |-> race_temp[t]]
  /\ DOMAIN balance = Race!Accounts /\ balance = [a \in Race!Accounts |-> balance[a]]
  /\ exact \in [Race!Accounts -> BOOLEAN]
RaceInv == RaceTypes /\ \A a \in Race!Accounts : Account(a)

LEMMA RaceInit ==
  ASSUME Race!Init
  PROVE  RaceInv
<1> USE DEF Race!Init, Race!Accounts
<1>1. RaceTypes
  BY DEF RaceTypes, RacePlaces
<1>2. ASSUME NEW a \in Race!Accounts PROVE Account(a)
  <2>1. Race!Between(a) = {} /\ Stored(a) = {} /\ exact[a] = TRUE
    BY DEF Race!Between, Stored
  <2>2. balance[a] = Value(a, {})
    BY SumEmpty, RaceBounds DEF Value
  <2> DEFINE base == [t \in Transfers |-> {}]
  <2>3. base \in [Transfers -> SUBSET Transfers] /\ {} \in SUBSET Transfers
    OBVIOUS
  <2>4. Ledger(Race!Between(a), Stored(a), {}, base, exact[a])
    BY <2>1 DEF Ledger
  <2>5. \A t \in Race!Between(a) : race_temp[t] = Value(a, base[t])
    BY <2>1
  <2> HIDE DEF base
  <2>6. QED
    BY <2>2, <2>3, <2>4, <2>5 DEF Account
<1>3. QED
  BY <1>1, <1>2 DEF RaceInv

\* A thread that loads the balance has what the balance has.
LEMMA AccountLoad ==
  ASSUME RaceInv, NEW a \in Race!Accounts, NEW t \in Transfers,
         t \notin Race!Between(a), t \notin Stored(a),
         Race!Load(t, a),
         Race!Between(a)' = Race!Between(a) \cup {t}, Stored(a)' = Stored(a)
  PROVE  Account(a)'
<1>1. PICK S \in SUBSET Transfers, base \in [Transfers -> SUBSET Transfers] :
        /\ Ledger(Race!Between(a), Stored(a), S, base, exact[a])
        /\ balance[a] = Value(a, S)
        /\ \A u \in Race!Between(a) : race_temp[u] = Value(a, base[u])
  BY DEF RaceInv, Account
<1> DEFINE new == [base EXCEPT ![t] = S]
<1>2. new \in [Transfers -> SUBSET Transfers] /\ new[t] = S
      /\ \A u \in Race!Between(a) : new[u] = base[u]
  OBVIOUS
<1>3. /\ exact[a] \in BOOLEAN /\ exact'[a] = (exact[a] /\ Race!Between(a) = {})
      /\ balance' = balance
  BY DEF RaceInv, RaceTypes, Race!Load
<1>4. Race!Between(a) \in SUBSET Transfers /\ Stored(a) \in SUBSET Transfers
  BY DEF Race!Between, Stored
<1>5. Ledger(Race!Between(a) \cup {t}, Stored(a), S, new, exact[a] /\ Race!Between(a) = {})
  BY <1>1, <1>3, <1>4, LedgerLoad
<1>6. \A u \in Race!Between(a)' : race_temp'[u] = Value(a, new[u])
  <2>1. race_temp' = [race_temp EXCEPT ![t] = balance[a]] /\ DOMAIN race_temp = Transfers
    BY DEF RaceInv, RaceTypes, Race!Load
  <2>2. ASSUME NEW u \in Race!Between(a) PROVE race_temp'[u] = Value(a, new[u])
    BY <2>1, <2>2, <1>1, <1>2
  <2>3. race_temp'[t] = Value(a, new[t])
    BY <2>1, <1>1, <1>2
  <2>4. QED
    BY <2>2, <2>3
<1> HIDE DEF new
<1>7. Value(a, S)' = Value(a, S) /\ \A u \in Transfers : Value(a, new[u])' = Value(a, new[u])
  BY DEF Value
<1>8. Ledger(Race!Between(a), Stored(a), S, new, exact[a])'
  BY <1>3, <1>5 DEF Ledger
<1>9. balance'[a] = Value(a, S)
  BY <1>1, <1>3
<1>10. QED
  BY <1>2, <1>6, <1>8, <1>9 DEF Account

\* A thread that stores puts itself on what it has loaded.
LEMMA AccountStore ==
  ASSUME RaceInv, NEW a \in Race!Accounts, NEW t \in Race!Between(a), t \notin Stored(a),
         Race!Store(t, a, IF a = "bill" THEN -t ELSE t),
         Race!Between(a)' = Race!Between(a) \ {t}, Stored(a)' = Stored(a) \cup {t}
  PROVE  Account(a)'
<1>1. PICK S \in SUBSET Transfers, base \in [Transfers -> SUBSET Transfers] :
        /\ Ledger(Race!Between(a), Stored(a), S, base, exact[a])
        /\ balance[a] = Value(a, S)
        /\ \A u \in Race!Between(a) : race_temp[u] = Value(a, base[u])
  BY DEF RaceInv, Account
<1>2. Race!Between(a) \in SUBSET Transfers /\ Stored(a) \in SUBSET Transfers /\ t \in Transfers
  BY DEF Race!Between, Stored
<1> DEFINE new == base[t] \cup {t}
<1>3. new \in SUBSET Transfers /\ base[t] \in SUBSET Transfers
  BY <1>2
<1>4. exact[a] \in BOOLEAN /\ exact' = exact /\ race_temp' = race_temp
  BY DEF RaceInv, RaceTypes, Race!Store
<1>5. Ledger(Race!Between(a) \ {t}, Stored(a) \cup {t}, new, base, exact[a])
  BY <1>1, <1>2, <1>4, LedgerStore
<1>6. t \notin base[t]
  BY <1>1 DEF Ledger
<1>7. Race!Sum(new) = Race!Sum(base[t]) + t /\ Race!Sum(base[t]) \in Nat /\ t \in Nat
  BY <1>2, <1>3, <1>6, SumAdded, UnitsFinite, RaceBounds
<1>8. balance'[a] = race_temp[t] + (IF a = "bill" THEN -t ELSE t)
  BY DEF RaceInv, RaceTypes, Race!Store, Race!FromTemp
<1>9. race_temp[t] = Value(a, base[t])
  BY <1>1
<1> HIDE DEF new
<1>10. balance'[a] = Value(a, new)
  BY <1>7, <1>8, <1>9, RaceBounds DEF Value
<1>11. Ledger(Race!Between(a), Stored(a), new, base, exact[a])'
  BY <1>4, <1>5 DEF Ledger
<1>12. \A u \in Race!Between(a)' : race_temp'[u] = Value(a, base[u])
  BY <1>1, <1>4
<1>13. QED
  BY <1>3, <1>10, <1>11, <1>12 DEF Account

\* What happens on the other account changes nothing on this one.
LEMMA AccountKept ==
  ASSUME RaceInv, NEW a \in Race!Accounts,
         UNCHANGED <<balance[a], exact[a], Race!Between(a), Stored(a)>>,
         \A u \in Race!Between(a) : race_temp'[u] = race_temp[u]
  PROVE  Account(a)'
<1>1. PICK S \in SUBSET Transfers, base \in [Transfers -> SUBSET Transfers] :
        /\ Ledger(Race!Between(a), Stored(a), S, base, exact[a])
        /\ balance[a] = Value(a, S)
        /\ \A u \in Race!Between(a) : race_temp[u] = Value(a, base[u])
  BY DEF RaceInv, Account
<1>2. Ledger(Race!Between(a), Stored(a), S, base, exact[a])'
  BY <1>1 DEF Ledger
<1>3. balance'[a] = Value(a, S)
  BY <1>1
<1>4. \A u \in Race!Between(a)' : race_temp'[u] = Value(a, base[u])
  BY <1>1
<1>5. QED
  BY <1>2, <1>3, <1>4 DEF Account

LEMMA RaceTypesKept ==
  ASSUME RaceInv, NEW t \in Transfers, Race!TransferMoney(t)
  PROVE  RaceTypes'
<1> USE DEF RaceInv, RaceTypes, RacePlaces, Race!Accounts
<1>1. race_at' \in [Transfers -> RacePlaces]
  BY DEF Race!TransferMoney, Race!LoadFrom, Race!StoreFrom, Race!LoadTo, Race!StoreTo,
         Race!Go
<1>2. PICK a \in Race!Accounts : \/ Race!Load(t, a)
                                 \/ \E change : Race!Store(t, a, change)
  BY DEF Race!TransferMoney, Race!LoadFrom, Race!StoreFrom, Race!LoadTo, Race!StoreTo
<1>3. DOMAIN race_temp' = Transfers /\ race_temp' = [u \in Transfers |-> race_temp'[u]]
  BY <1>2 DEF Race!Load, Race!Store
<1>4. DOMAIN balance' = Race!Accounts /\ balance' = [b \in Race!Accounts |-> balance'[b]]
  BY <1>2 DEF Race!Load, Race!Store
<1>5. exact' \in [Race!Accounts -> BOOLEAN]
  BY <1>2 DEF Race!Load, Race!Store
<1>6. QED
  BY <1>1, <1>3, <1>4, <1>5

LEMMA RaceStepHolds ==
  ASSUME RaceInv, NEW t \in Transfers, Race!TransferMoney(t)
  PROVE  RaceInv'
<1>1. RaceTypes'
  BY RaceTypesKept
<1>2. /\ race_at \in [Transfers -> RacePlaces] /\ DOMAIN race_temp = Transfers
      /\ balance = [b \in Race!Accounts |-> balance[b]] /\ exact \in [Race!Accounts -> BOOLEAN]
      /\ "bill" \in Race!Accounts /\ "john" \in Race!Accounts
  BY DEF RaceInv, RaceTypes, Race!Accounts
<1>3. SUFFICES Account("bill")' /\ Account("john")'
  BY <1>1 DEF RaceInv, Race!Accounts
<1> USE DEF Race!Go, Race!Between, Stored
<1>4. CASE Race!LoadFrom(t)
  <2>1. /\ Race!Load(t, "bill") /\ race_at[t] = "withdraw"
        /\ race_at' = [race_at EXCEPT ![t] = "withdrawing"]
    BY <1>4 DEF Race!LoadFrom
  <2>2. /\ t \notin Race!Between("bill") /\ t \notin Stored("bill")
        /\ Race!Between("bill")' = Race!Between("bill") \cup {t}
        /\ Stored("bill")' = Stored("bill")
    BY <2>1, <1>2
  <2>3. /\ UNCHANGED <<balance["john"], exact["john"], Race!Between("john"), Stored("john")>>
        /\ \A u \in Race!Between("john") : race_temp'[u] = race_temp[u]
    BY <2>1, <1>2 DEF Race!Load
  <2>4. QED
    BY <2>1, <2>2, <2>3, <1>2, AccountLoad, AccountKept
<1>5. CASE Race!StoreFrom(t)
  <2>1. /\ Race!Store(t, "bill", -t) /\ race_at[t] = "withdrawing"
        /\ race_at' = [race_at EXCEPT ![t] = "deposit"]
    BY <1>5 DEF Race!StoreFrom
  <2>2. /\ t \in Race!Between("bill") /\ t \notin Stored("bill")
        /\ Race!Between("bill")' = Race!Between("bill") \ {t}
        /\ Stored("bill")' = Stored("bill") \cup {t}
    BY <2>1, <1>2
  <2>3. /\ UNCHANGED <<balance["john"], exact["john"], Race!Between("john"), Stored("john")>>
        /\ \A u \in Race!Between("john") : race_temp'[u] = race_temp[u]
    BY <2>1, <1>2 DEF Race!Store
  <2>4. QED
    BY <2>1, <2>2, <2>3, <1>2, AccountStore, AccountKept
<1>6. CASE Race!LoadTo(t)
  <2>1. /\ Race!Load(t, "john") /\ race_at[t] = "deposit"
        /\ race_at' = [race_at EXCEPT ![t] = "depositing"]
    BY <1>6 DEF Race!LoadTo
  <2>2. /\ t \notin Race!Between("john") /\ t \notin Stored("john")
        /\ Race!Between("john")' = Race!Between("john") \cup {t}
        /\ Stored("john")' = Stored("john")
    BY <2>1, <1>2
  <2>3. /\ UNCHANGED <<balance["bill"], exact["bill"], Race!Between("bill"), Stored("bill")>>
        /\ \A u \in Race!Between("bill") : race_temp'[u] = race_temp[u]
    BY <2>1, <1>2 DEF Race!Load
  <2>4. QED
    BY <2>1, <2>2, <2>3, <1>2, AccountLoad, AccountKept
<1>7. CASE Race!StoreTo(t)
  <2>1. /\ Race!Store(t, "john", t) /\ race_at[t] = "depositing"
        /\ race_at' = [race_at EXCEPT ![t] = "done"]
    BY <1>7 DEF Race!StoreTo
  <2>2. /\ t \in Race!Between("john") /\ t \notin Stored("john")
        /\ Race!Between("john")' = Race!Between("john") \ {t}
        /\ Stored("john")' = Stored("john") \cup {t}
    BY <2>1, <1>2
  <2>3. /\ UNCHANGED <<balance["bill"], exact["bill"], Race!Between("bill"), Stored("bill")>>
        /\ \A u \in Race!Between("bill") : race_temp'[u] = race_temp[u]
    BY <2>1, <1>2 DEF Race!Store
  <2>4. QED
    BY <2>1, <2>2, <2>3, <1>2, AccountStore, AccountKept
<1>8. QED
  BY <1>4, <1>5, <1>6, <1>7 DEF Race!TransferMoney

\* When all are through, the account has seen those in its set, which are all of them
\* exactly when nobody overlapped.
LEMMA AccountAtEnd ==
  ASSUME RaceInv, Race!Over, NEW a \in Race!Accounts, NEW amount,
         amount = IF a = "bill" THEN Initial - balance[a] ELSE balance[a]
  PROVE  /\ \E S \in (SUBSET Transfers) \ {{}} : amount = Race!Sum(S)
         /\ exact[a] <=> amount = Race!Sum(Transfers)
<1>1. PICK S \in SUBSET Transfers, base \in [Transfers -> SUBSET Transfers] :
        /\ Ledger(Race!Between(a), Stored(a), S, base, exact[a])
        /\ balance[a] = Value(a, S)
  BY DEF RaceInv, Account
<1>2. Race!Between(a) = {} /\ Stored(a) = Transfers
  BY DEF Race!Over, Race!Between, Stored
<1>3. exact[a] \in BOOLEAN
  BY DEF RaceInv, RaceTypes
<1>4. S # {} /\ (exact[a] <=> S = Transfers)
  BY <1>1, <1>2, <1>3, RaceBounds DEF Ledger
<1>5. amount = Race!Sum(S)
  <2>1. Race!Sum(S) \in Nat /\ Initial \in Nat
    BY UnitsFinite, RaceBounds
  <2>2. balance[a] = IF a = "bill" THEN Initial - Race!Sum(S) ELSE Race!Sum(S)
    BY <1>1 DEF Value
  <2>3. CASE a = "bill"
    BY <2>1, <2>2, <2>3
  <2>4. CASE a # "bill"
    BY <2>2, <2>4
  <2>5. QED
    BY <2>3, <2>4
<1>6. QED
  BY <1>4, <1>5, SumOfAll

\* Once all transfers are over, an account has seen some of them, and all of them
\* exactly when no two overlapped on it: one overlap is enough to lose money, and no
\* number of overlaps makes up for it, for any transfers (data-race.cpp lines 18-33).
THEOREM OverlapLosesMoney == Spec => []OverlapLoses
<1>1. Init => RaceInv
  BY RaceInit DEF Init
<1>2. RaceInv /\ [Next]_vars => RaceInv'
  <2>1. ASSUME RaceInv, UNCHANGED raceVars PROVE RaceInv'
    <3>1. UNCHANGED <<race_at, race_temp, balance, exact>>
      BY <2>1 DEF raceVars
    <3>2. RaceTypes'
      BY <2>1, <3>1 DEF RaceInv, RaceTypes
    <3>3. ASSUME NEW a \in Race!Accounts PROVE Account(a)'
      BY <2>1, <3>1, AccountKept DEF Race!Between, Stored
    <3>4. QED
      BY <3>2, <3>3 DEF RaceInv
  <2>2. [Next]_vars => Race!Next \/ UNCHANGED raceVars
    BY DEF Next, vars, LatchStep, RaceStep, CounterStep, StopStep, CoopStep
  <2>3. QED
    BY <2>1, <2>2, RaceStepHolds DEF Race!Next
<1>3. RaceInv => OverlapLoses
  <2>1. SUFFICES ASSUME RaceInv, Race!Over
                 PROVE  \A moved \in {<<"bill", Race!Withdrawn>>, <<"john", balance["john"]>>} :
                          /\ \E S \in (SUBSET Transfers) \ {{}} : moved[2] = Race!Sum(S)
                          /\ exact[moved[1]] <=> moved[2] = Race!Sum(Transfers)
    BY DEF OverlapLoses, Race!OverlapLoses
  <2>2. "bill" \in Race!Accounts /\ "john" \in Race!Accounts
    BY DEF Race!Accounts
  <2>3. /\ \E S \in (SUBSET Transfers) \ {{}} : Race!Withdrawn = Race!Sum(S)
        /\ exact["bill"] <=> Race!Withdrawn = Race!Sum(Transfers)
    BY <2>1, <2>2, AccountAtEnd DEF Race!Withdrawn
  <2>4. /\ \E S \in (SUBSET Transfers) \ {{}} : balance["john"] = Race!Sum(S)
        /\ exact["john"] <=> balance["john"] = Race!Sum(Transfers)
    BY <2>1, <2>2, AccountAtEnd
  <2>5. QED
    BY <2>3, <2>4
<1>4. QED
  BY <1>1, <1>2, <1>3, PTL DEF Spec
===============================================================================
