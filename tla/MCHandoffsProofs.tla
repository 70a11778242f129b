--------------------------- MODULE MCHandoffsProofs ---------------------------
(***************************************************************************)
(* Proofs about the programs of MCHandoffs, for every limit of their loops *)
(* and every size of their words.  A run of MCHandoffs is a run of one of  *)
(* them, so each part proves what holds of the steps of one program and    *)
(* ends with what holds of every run.                                      *)
(***************************************************************************)
EXTENDS MCHandoffs, Integers, TLAPS

-------------------------------------------------------------------------------
(* The two semaphores of cpp_sem_example.cpp *)

\* What the limit and the word sizes are
LEMMA HandoffBounds == Limit \in Nat /\ WordMax \in Nat /\ WordMax >= 1
BY BoundsAssumption DEF Handoff!Bounds

\* What a run of MCHandoffs does is a behaviour of this program, if it does not stutter.
LEMMA HandoffRuns ==
  Spec => Handoff!Init /\ [][Handoff!Next]_(Handoff!vars)
<1>1. Init => Handoff!Init
  BY DEF Init
<1>2. [Next]_vars => [Handoff!Next]_(Handoff!vars)
  BY DEF Next, vars, HandoffStep, FlagStep, PosixStep, handoffVars, Handoff!vars
<1>3. QED
  BY <1>1, <1>2, PTL DEF Spec

\* Nobody has a turn before main() releases a semaphore (lines 10-11, 38).
LEMMA HandoffInitHolds == Handoff!Init => Handoff!IInv
<1>1. Handoff!Init => Handoff!TypeOK
  <2>1. 0 \in 0..1 /\ 0 \in 0..WordMax /\ 0 \in 0..Limit + 1
    BY HandoffBounds
  <2>2. QED
    BY <2>1, Zenon DEF Handoff!Init, Handoff!TypeOK, Handoff!Initially
<1>2. Handoff!Init => \A t \in Handoff!Threads : ~Handoff!HasTurn(t)
  BY DEF Handoff!Init, Handoff!HasTurn, Handoff!Inside, Handoff!Initially
<1>3. Handoff!Init => /\ i["producer"] = 0 /\ i["consumer"] = 0
              /\ shared_resource = 0 /\ ~started
  BY DEF Handoff!Init, Handoff!Threads
<1>4. QED
  BY <1>1, <1>2, <1>3, HandoffBounds DEF Handoff!IInv, Handoff!TurnInv

\* The first turn is created once, and given to the producer (line 38).
LEMMA HandoffStartStep ==
  ASSUME Handoff!IInv, Handoff!Start
  PROVE  Handoff!IInv'
BY HandoffBounds
   DEF Handoff!Start, Handoff!IInv, Handoff!TypeOK, Handoff!TurnInv, Handoff!HasTurn,
       Handoff!Inside, Handoff!Threads, Handoff!Other, Handoff!Filled

\* acquire() moves the turn from the semaphore into the thread (lines 17, 29).
LEMMA HandoffAcquireStep ==
  ASSUME Handoff!IInv, NEW t \in Handoff!Threads, Handoff!Acquire(t)
  PROVE  Handoff!IInv'
<1>1. CASE t = "producer"
  BY <1>1, HandoffBounds
     DEF Handoff!Acquire, Handoff!Go, Handoff!IInv, Handoff!TypeOK, Handoff!TurnInv,
         Handoff!HasTurn, Handoff!Inside, Handoff!Threads, Handoff!Other,
         Handoff!Filled, Handoff!Turns
<1>2. CASE t = "consumer"
  BY <1>2, HandoffBounds
     DEF Handoff!Acquire, Handoff!Go, Handoff!IInv, Handoff!TypeOK, Handoff!TurnInv,
         Handoff!HasTurn, Handoff!Inside, Handoff!Threads, Handoff!Other,
         Handoff!Filled, Handoff!Turns
<1>3. QED
  BY <1>1, <1>2 DEF Handoff!Threads

\* The thread inside reads the resource nobody else can be writing.
LEMMA HandoffLoadStep ==
  ASSUME Handoff!IInv, NEW t \in Handoff!Threads, Handoff!Load(t)
  PROVE  Handoff!IInv'
<1>1. CASE t = "producer"
  BY <1>1
     DEF Handoff!Load, Handoff!Go, Handoff!IInv, Handoff!TypeOK, Handoff!TurnInv,
         Handoff!HasTurn, Handoff!Inside, Handoff!Threads, Handoff!Other,
         Handoff!Filled
<1>2. CASE t = "consumer"
  BY <1>2
     DEF Handoff!Load, Handoff!Go, Handoff!IInv, Handoff!TypeOK, Handoff!TurnInv,
         Handoff!HasTurn, Handoff!Inside, Handoff!Threads, Handoff!Other,
         Handoff!Filled
<1>3. QED
  BY <1>1, <1>2 DEF Handoff!Threads

\* What a store writes: 1 by the producer, over 0, and 0 by the consumer, over 1.
LEMMA HandoffStoreEffect ==
  ASSUME Handoff!IInv, NEW t \in Handoff!Threads, Handoff!Store(t)
  PROVE  IF t = "producer" THEN shared_resource = 0 /\ shared_resource' = 1
                           ELSE shared_resource = 1 /\ shared_resource' = 0
BY HandoffBounds
   DEF Handoff!Store, Handoff!Go, Handoff!IInv, Handoff!TypeOK, Handoff!TurnInv,
       Handoff!HasTurn, Handoff!Inside, Handoff!Threads, Handoff!Filled, Handoff!Change

\* A store fills the slot or empties it and leaves the turn where it is.
LEMMA HandoffStoreStep ==
  ASSUME Handoff!IInv, NEW t \in Handoff!Threads, Handoff!Store(t)
  PROVE  Handoff!IInv'
<1>1. CASE t = "producer"
  BY <1>1, HandoffStoreEffect, HandoffBounds
     DEF Handoff!Store, Handoff!Go, Handoff!IInv, Handoff!TypeOK, Handoff!TurnInv,
         Handoff!HasTurn, Handoff!Inside, Handoff!Threads, Handoff!Other, Handoff!Filled
<1>2. CASE t = "consumer"
  BY <1>2, HandoffStoreEffect, HandoffBounds
     DEF Handoff!Store, Handoff!Go, Handoff!IInv, Handoff!TypeOK, Handoff!TurnInv,
         Handoff!HasTurn, Handoff!Inside, Handoff!Threads, Handoff!Other, Handoff!Filled
<1>3. QED
  BY <1>1, <1>2 DEF Handoff!Threads

\* release() passes the turn to the other thread's semaphore (lines 21, 32).
LEMMA HandoffReleaseStep ==
  ASSUME Handoff!IInv, NEW t \in Handoff!Threads, Handoff!Release(t)
  PROVE  Handoff!IInv'
<1>1. CASE t = "producer"
  BY <1>1, HandoffBounds
     DEF Handoff!Release, Handoff!Go, Handoff!IInv, Handoff!TypeOK, Handoff!TurnInv,
         Handoff!HasTurn, Handoff!Inside, Handoff!Threads, Handoff!Other, Handoff!Filled
<1>2. CASE t = "consumer"
  BY <1>2, HandoffBounds
     DEF Handoff!Release, Handoff!Go, Handoff!IInv, Handoff!TypeOK, Handoff!TurnInv,
         Handoff!HasTurn, Handoff!Inside, Handoff!Threads, Handoff!Other, Handoff!Filled
<1>3. QED
  BY <1>1, <1>2 DEF Handoff!Threads

\* A step that changes no variable keeps the invariant.
LEMMA HandoffStutterStep ==
  ASSUME Handoff!IInv, UNCHANGED Handoff!vars
  PROVE  Handoff!IInv'
BY DEF Handoff!IInv, Handoff!TypeOK, Handoff!TurnInv, Handoff!HasTurn, Handoff!Inside,
       Handoff!Filled, Handoff!vars

\* There is one turn, and the resource and the loop counters say whose it is,
\* whatever the limit of the loops.
THEOREM HandoffInvariant == Spec => []Handoff!IInv
<1>1. Handoff!IInv /\ [Handoff!Next]_(Handoff!vars) => Handoff!IInv'
  BY HandoffStartStep, HandoffAcquireStep, HandoffLoadStep, HandoffStoreStep,
     HandoffReleaseStep, HandoffStutterStep
     DEF Handoff!Next, Handoff!Turn
<1>2. QED
  BY <1>1, HandoffInitHolds, HandoffRuns, PTL

\* The plain ++ and -- never overlap, and no binary_semaphore is released past 1.
THEOREM HandoffOneTurn == Spec => [](OneTurn /\ Handoff!TypeOK)
<1>1. Handoff!IInv => OneTurn /\ Handoff!TypeOK
  BY DEF OneTurn, Handoff!IInv, Handoff!OneTurn, Handoff!TypeOK, Handoff!TurnInv,
         Handoff!HasTurn, Handoff!Inside, Handoff!Threads, Handoff!Other
<1>2. QED
  BY <1>1, HandoffInvariant, PTL

\* The consumer is never given its last turn, so main() never returns: for every
\* limit, not a matter of scheduling.
THEOREM HandoffConsumerStays == Spec => []ConsumerNeverReturns
<1>1. Handoff!IInv => ConsumerNeverReturns
  BY HandoffBounds
     DEF ConsumerNeverReturns, Handoff!IInv, Handoff!ConsumerNeverReturns,
         Handoff!Returned, Handoff!Turns,
         Handoff!TypeOK, Handoff!Threads
<1>2. QED
  BY <1>1, HandoffInvariant, PTL

\* Between them the two loops implement the one-slot buffer.
THEOREM HandoffImplementsOneSlot == Spec => HandoffOneSlot
<1>1. Handoff!Init => Handoff!Slot!Init
  BY DEF Handoff!Init, Handoff!Slot!Init
<1>2. Handoff!IInv /\ [Handoff!Next]_(Handoff!vars) => [Handoff!Slot!Next]_shared_resource
  <2>1. SUFFICES ASSUME Handoff!IInv, Handoff!Next PROVE [Handoff!Slot!Next]_shared_resource
    BY DEF Handoff!vars
  <2>2. ASSUME NEW t \in Handoff!Threads, Handoff!Store(t) PROVE Handoff!Slot!Next
    BY <2>1, <2>2, HandoffStoreEffect
       DEF Handoff!Slot!Next, Handoff!Slot!Produce, Handoff!Slot!Consume
  <2>3. ASSUME NEW t \in Handoff!Threads,
               Handoff!Acquire(t) \/ Handoff!Load(t) \/ Handoff!Release(t)
        PROVE  UNCHANGED shared_resource
    BY <2>3 DEF Handoff!Acquire, Handoff!Load, Handoff!Release
  <2>4. CASE Handoff!Start
    BY <2>4 DEF Handoff!Start
  <2>5. QED
    BY <2>1, <2>2, <2>3, <2>4 DEF Handoff!Next, Handoff!Turn
<1>3. QED
  BY <1>1, <1>2, HandoffInvariant, HandoffRuns, PTL
     DEF HandoffOneSlot, Handoff!ImplementsOneSlot, Handoff!Slot!Spec
-------------------------------------------------------------------------------
(* The atomic_flag of cpp_atomic_flags.cpp *)

\* What the limit and the word sizes are
LEMMA FlagBounds == FlagLimit \in Nat /\ FlagMax \in Nat /\ FlagMax >= 3
BY BoundsAssumption DEF Flag!Bounds

\* What a run of MCHandoffs does is a behaviour of this program, if it does not stutter.
LEMMA FlagRuns ==
  Spec => Flag!Init /\ [][Flag!Next]_(Flag!vars)
<1>1. Init => Flag!Init
  BY DEF Init
<1>2. [Next]_vars => [Flag!Next]_(Flag!vars)
  BY DEF Next, vars, HandoffStep, FlagStep, PosixStep, flagVars, Flag!vars
<1>3. QED
  BY <1>1, <1>2, PTL DEF Spec

\* main() set the flag, and nobody has had a turn (lines 8, 35).
LEMMA FlagInitHolds == Flag!Init => Flag!IInv
<1>1. 0 \in 0..FlagMax /\ 0 \in 0..FlagLimit
  BY FlagBounds
<1>2. Flag!Init => Flag!TypeOK
  BY <1>1, Zenon DEF Flag!Init, Flag!TypeOK
<1>3. Flag!Init => Flag!NoLostWakeup
  BY DEF Flag!Init, Flag!NoLostWakeup
<1>4. QED
  BY <1>2, <1>3 DEF Flag!Init, Flag!IInv, Flag!Threads, Flag!Sets, Flag!Adds, Flag!Wrap

\* wait() returns with the flag the thread can set, or sleeps with the other.
LEMMA FlagWaitStep ==
  ASSUME Flag!IInv, NEW t \in Flag!Threads,
         Flag!Pass(t) \/ Flag!Sleep(t) \/ Flag!Spurious(t)
  PROVE  Flag!IInv'
BY DEF Flag!IInv, Flag!TypeOK, Flag!NoLostWakeup, Flag!NotYet, Flag!Old, Flag!Other,
       Flag!Sets, Flag!Adds, Flag!Threads,
       Flag!Pass, Flag!Sleep, Flag!Spurious, Flag!Go

\* The flag changes hands; the other thread may sleep until the notification.
LEMMA FlagSetStep ==
  ASSUME Flag!IInv, NEW t \in Flag!Threads, Flag!Set(t)
  PROVE  Flag!IInv'
<1>1. Flag!TypeOK'
  BY DEF Flag!IInv, Flag!TypeOK, Flag!Old, Flag!Set, Flag!Go
<1>2. Flag!NoLostWakeup'
  BY DEF Flag!IInv, Flag!TypeOK, Flag!NoLostWakeup, Flag!NotYet, Flag!Old, Flag!Other,
         Flag!Threads, Flag!Set, Flag!Go
<1>3. (Flag!Sets("decrement") = Flag!Sets("increment") + IF condFlag THEN 0 ELSE 1)'
  <2>1. CASE t = "increment"
    <3>1. condFlag = FALSE /\ condFlag' = TRUE
      BY <2>1 DEF Flag!IInv, Flag!TypeOK, Flag!NotYet, Flag!Old, Flag!Set, Flag!Go
    <3>2. /\ (Flag!Sets("increment"))' = Flag!Sets("increment") + 1
          /\ (Flag!Sets("decrement"))' = Flag!Sets("decrement")
      BY <2>1 DEF Flag!IInv, Flag!TypeOK, Flag!Sets, Flag!Threads, Flag!Set, Flag!Go
    <3>3. Flag!Sets("increment") \in Int /\ Flag!Sets("decrement") \in Int
      BY DEF Flag!IInv, Flag!TypeOK, Flag!Threads, Flag!Sets
    <3>4. QED
      BY <3>1, <3>2, <3>3 DEF Flag!IInv
  <2>2. CASE t = "decrement"
    <3>1. condFlag = TRUE /\ condFlag' = FALSE
      BY <2>2 DEF Flag!IInv, Flag!TypeOK, Flag!NotYet, Flag!Old, Flag!Set, Flag!Go
    <3>2. /\ (Flag!Sets("decrement"))' = Flag!Sets("decrement") + 1
          /\ (Flag!Sets("increment"))' = Flag!Sets("increment")
      BY <2>2 DEF Flag!IInv, Flag!TypeOK, Flag!Sets, Flag!Threads, Flag!Set, Flag!Go
    <3>3. Flag!Sets("increment") \in Int /\ Flag!Sets("decrement") \in Int
      BY DEF Flag!IInv, Flag!TypeOK, Flag!Threads, Flag!Sets
    <3>4. QED
      BY <3>1, <3>2, <3>3 DEF Flag!IInv
  <2>3. QED
    BY <2>1, <2>2 DEF Flag!Threads
<1>4. (\A u \in Flag!Threads : flag_at[u] = "set" => Flag!NotYet(u))'
  BY DEF Flag!IInv, Flag!TypeOK, Flag!NotYet, Flag!Old, Flag!Threads, Flag!Set, Flag!Go
<1>5. QED
  BY <1>1, <1>2, <1>3, <1>4
     DEF Flag!IInv, Flag!TypeOK, Flag!Adds, Flag!Threads, Flag!Set, Flag!Go

\* The resource moves by one, modulo the width of the word.
LEMMA FlagAddStep ==
  ASSUME Flag!IInv, NEW t \in Flag!Threads, Flag!Add(t)
  PROVE  Flag!IInv'
<1>1. Flag!TypeOK'
  BY FlagBounds DEF Flag!IInv, Flag!TypeOK, Flag!Add, Flag!Go, Flag!Change
<1>2. Flag!NoLostWakeup'
  BY DEF Flag!IInv, Flag!TypeOK, Flag!NoLostWakeup, Flag!NotYet, Flag!Other,
         Flag!Threads, Flag!Add, Flag!Go
<1>3. (flag_resource = Flag!Wrap(Flag!Adds("increment") - Flag!Adds("decrement")))'
  <2>1. /\ Flag!Adds("increment") - Flag!Adds("decrement") \in {-2, -1, 0, 1}
        /\ flag_resource = Flag!Wrap(Flag!Adds("increment") - Flag!Adds("decrement"))
    BY DEF Flag!IInv, Flag!TypeOK, Flag!Adds, Flag!Sets, Flag!Threads
  <2>2. flag_resource' = Flag!Change(t, flag_resource) /\ flag_i' = flag_i
    BY DEF Flag!Add
  <2>3. CASE t = "increment"
    <3>1. /\ (Flag!Adds("increment"))' = Flag!Adds("increment") + 1
          /\ (Flag!Adds("decrement"))' = Flag!Adds("decrement")
      BY <2>3 DEF Flag!IInv, Flag!TypeOK, Flag!Threads, Flag!Add, Flag!Go, Flag!Adds
    <3>2. Flag!Adds("increment") \in Int /\ Flag!Adds("decrement") \in Int
      BY DEF Flag!IInv, Flag!TypeOK, Flag!Threads, Flag!Adds
    <3>3. QED
      BY <2>1, <2>2, <2>3, <3>1, <3>2, FlagBounds DEF Flag!Wrap, Flag!Change
  <2>4. CASE t = "decrement"
    <3>1. /\ (Flag!Adds("decrement"))' = Flag!Adds("decrement") + 1
          /\ (Flag!Adds("increment"))' = Flag!Adds("increment")
      BY <2>4 DEF Flag!IInv, Flag!TypeOK, Flag!Threads, Flag!Add, Flag!Go, Flag!Adds
    <3>2. Flag!Adds("increment") \in Int /\ Flag!Adds("decrement") \in Int
      BY DEF Flag!IInv, Flag!TypeOK, Flag!Threads, Flag!Adds
    <3>3. QED
      BY <2>1, <2>2, <2>4, <3>1, <3>2, FlagBounds DEF Flag!Wrap, Flag!Change
  <2>5. QED
    BY <2>3, <2>4 DEF Flag!Threads
<1>4. QED
  BY <1>1, <1>2, <1>3
     DEF Flag!IInv, Flag!TypeOK, Flag!NotYet, Flag!Old, Flag!Sets, Flag!Threads,
         Flag!Add, Flag!Go

\* The notification reaches the other thread if it sleeps.
LEMMA FlagNotifyStep ==
  ASSUME Flag!IInv, NEW t \in Flag!Threads, Flag!Notify(t)
  PROVE  Flag!IInv'
BY FlagBounds
   DEF Flag!IInv, Flag!TypeOK, Flag!NoLostWakeup, Flag!NotYet, Flag!Old, Flag!Other,
       Flag!Sets, Flag!Adds, Flag!Threads,
       Flag!Notify, Flag!Woken

\* The threads set the flag in turn, and no notification is lost, whatever the
\* limit of the loops and however often wait() wakes for nothing.
THEOREM FlagInvariant == Spec => []Flag!IInv
<1>1. Flag!IInv /\ [Flag!Next]_(Flag!vars) => Flag!IInv'
  <2>1. Flag!IInv /\ UNCHANGED Flag!vars => Flag!IInv'
    BY DEF Flag!IInv, Flag!TypeOK, Flag!NoLostWakeup, Flag!NotYet, Flag!Sets,
           Flag!Adds, Flag!vars
  <2>2. QED
    BY <2>1, FlagWaitStep, FlagSetStep, FlagAddStep, FlagNotifyStep
       DEF Flag!Next, Flag!Turn
<1>2. QED
  BY <1>1, FlagInitHolds, FlagRuns, PTL

\* A sleeping thread whose flag has changed is about to be notified.
THEOREM FlagNoLostWakeup == Spec => []Flag!NoLostWakeup
<1>1. Flag!IInv => Flag!NoLostWakeup
  BY DEF Flag!IInv
<1>2. QED
  BY <1>1, FlagInvariant, PTL

\* The counter never leaves the four values around zero, for any limit.
THEOREM FlagSwing == Spec => []Swing
<1>1. Flag!IInv => Swing
  <2>1. SUFFICES ASSUME Flag!IInv PROVE Swing
    OBVIOUS
  <2>2. \A t \in Flag!Threads : /\ Flag!Sets(t) \in Int
                                /\ Flag!Adds(t) \in {Flag!Sets(t) - 1, Flag!Sets(t)}
    BY <2>1 DEF Flag!IInv, Flag!TypeOK, Flag!Sets, Flag!Adds
  <2>3. Flag!Adds("increment") - Flag!Adds("decrement") \in {-2, -1, 0, 1}
    BY <2>1, <2>2 DEF Flag!IInv, Flag!Threads
  <2>4. QED
    BY <2>1, <2>3, FlagBounds DEF Swing, Flag!IInv, Flag!Swing, Flag!Wrap
<1>2. QED
  BY <1>1, FlagInvariant, PTL
-------------------------------------------------------------------------------
(* The semaphore of posix_semaphore_example.c *)

\* What the limit and the word sizes are
LEMMA SemaphoreBounds == /\ COUNT_LIMIT \in Nat \ {0} /\ ShortMax \in Nat
                           /\ COUNT_LIMIT + 3 <= ShortMax /\ UIntMax \in Nat \ {0}
BY BoundsAssumption DEF Posix!Bounds

\* What a run of MCHandoffs does is a behaviour of this program, if it does not stutter.
LEMMA SemaphoreRuns ==
  Spec => Posix!Init /\ [][Posix!Next]_(Posix!vars)
<1>1. Init => Posix!Init
  BY DEF Init
<1>2. [Next]_vars => [Posix!Next]_(Posix!vars)
  BY DEF Next, vars, HandoffStep, FlagStep, PosixStep, posixVars, Posix!vars
<1>3. QED
  BY <1>1, <1>2, PTL DEF Spec

\* One permit, and the consumer about to add another.
LEMMA SemaphoreInitHolds == Posix!Init => Posix!IInv
<1>1. SUFFICES ASSUME Posix!Init PROVE Posix!IInv
  OBVIOUS
<1>2. Posix!TypeOK
  BY <1>1, SemaphoreBounds DEF Posix!Init, Posix!TypeOK, Posix!Threads, Posix!Places
<1>3. QED
  BY <1>1, <1>2, SemaphoreBounds
     DEF Posix!Init, Posix!IInv, Posix!PermitCount, Posix!Count, Posix!Exited,
         Posix!Threads, Posix!MyTurn

\* sem_post() adds a permit, or gives back the thread's own.
LEMMA SemaphorePostStep ==
  ASSUME Posix!IInv, NEW t \in Posix!Threads,
         \/ Posix!Post(t, "first", "count") /\ t = "consumer"
         \/ Posix!Post(t, "post", "count")
         \/ Posix!Post(t, "last", "done")
  PROVE  Posix!IInv'
<1>1. /\ UNCHANGED <<counter, full_flag, sem_resource, sem_reg>> /\ permits' = permits + 1
      /\ \/ sem_at[t] = "first" /\ t = "consumer" /\ sem_at' = [sem_at EXCEPT ![t] = "count"]
         \/ sem_at[t] = "post" /\ sem_at' = [sem_at EXCEPT ![t] = "count"]
         \/ sem_at[t] = "last" /\ sem_at' = [sem_at EXCEPT ![t] = "done"]
  BY DEF Posix!Post, Posix!Go, Posix!Up
<1>2. Posix!PermitCount'
  BY <1>1 DEF Posix!IInv, Posix!TypeOK, Posix!PermitCount, Posix!Count, Posix!Threads
<1>3. permits' \in 0..4
  <2>1. sem_at' \in [Posix!Threads -> Posix!Places] /\ permits \in Nat
    BY <1>1 DEF Posix!IInv, Posix!TypeOK, Posix!Places
  <2>2. QED
    BY <1>1, <1>2, <2>1 DEF Posix!PermitCount, Posix!Count
<1>4. Posix!TypeOK'
  BY <1>1, <1>3 DEF Posix!IInv, Posix!TypeOK, Posix!Places
<1>5. QED
  BY <1>1, <1>2, <1>4
     DEF Posix!IInv, Posix!TypeOK, Posix!Exited, Posix!Count, Posix!MyTurn,
         Posix!Threads

\* The counter may be set back, and passes the limit by one for each loop that ends.
LEMMA SemaphoreCountLoadStep ==
  ASSUME Posix!IInv, NEW t \in Posix!Threads, Posix!CountLoad(t)
  PROVE  Posix!IInv'
<1>1. /\ sem_at[t] = "count" /\ sem_at' = [sem_at EXCEPT ![t] = "test"]
      /\ sem_reg' = [sem_reg EXCEPT ![t] = counter]
      /\ UNCHANGED <<permits, counter, full_flag, sem_resource>>
  BY DEF Posix!CountLoad, Posix!Go
<1>2. Posix!TypeOK'
  BY <1>1, SemaphoreBounds DEF Posix!IInv, Posix!TypeOK, Posix!Places
<1>3. Posix!PermitCount'
  BY <1>1 DEF Posix!IInv, Posix!TypeOK, Posix!PermitCount, Posix!Count, Posix!Threads
<1>4. /\ sem_reg'[t] <= COUNT_LIMIT + 1 + Posix!Exited("producer") + Posix!Exited("consumer")
      /\ Posix!Exited(t) = 0 /\ \A u \in Posix!Threads : Posix!Exited(u)' = Posix!Exited(u)
  BY <1>1 DEF Posix!IInv, Posix!TypeOK, Posix!Exited, Posix!Count, Posix!Threads
<1>5. /\ (sem_at["producer"] = "test" =>
             sem_reg["producer"] <= COUNT_LIMIT + 1 + Posix!Exited("consumer"))'
      /\ (sem_at["consumer"] = "test" =>
             sem_reg["consumer"] <= COUNT_LIMIT + 1 + Posix!Exited("producer"))'
  <2>1. COUNT_LIMIT \in Nat /\ \A u \in Posix!Threads : Posix!Exited(u) \in 0..1
    BY SemaphoreBounds DEF Posix!Exited, Posix!Count
  <2>2. CASE t = "producer"
    BY <1>1, <1>4, <2>1, <2>2 DEF Posix!IInv, Posix!TypeOK, Posix!Threads
  <2>3. CASE t = "consumer"
    BY <1>1, <1>4, <2>1, <2>3 DEF Posix!IInv, Posix!TypeOK, Posix!Threads
  <2>4. QED
    BY <2>2, <2>3 DEF Posix!Threads
<1>6. (counter <= COUNT_LIMIT + 1 + Posix!Exited("producer") + Posix!Exited("consumer"))'
  BY <1>1, <1>4 DEF Posix!IInv, Posix!Threads
<1>7. /\ (sem_at["producer"] # "first")'
      /\ (\A u \in Posix!Threads : sem_at[u] \in {"load", "store", "hand"} => Posix!MyTurn(u))'
      /\ (\A u \in Posix!Threads : sem_at[u] = "store" => sem_reg[u] = sem_resource)'
      /\ (sem_resource = IF sem_at["producer"] = "hand" THEN 1
                            ELSE IF sem_at["consumer"] = "hand" THEN 0 ELSE full_flag)'
  BY <1>1 DEF Posix!IInv, Posix!TypeOK, Posix!MyTurn, Posix!Threads
<1>8. QED
  BY <1>2, <1>3, <1>5, <1>6, <1>7 DEF Posix!IInv

LEMMA SemaphoreCountStoreStep ==
  ASSUME Posix!IInv, NEW t \in Posix!Threads, Posix!CountStore(t)
  PROVE  Posix!IInv'
<1>1. /\ sem_at[t] = "test"
      /\ sem_at' = [sem_at EXCEPT ![t] = IF Posix!InLoop(t) THEN "wait" ELSE "last"]
      /\ UNCHANGED <<permits, full_flag, sem_resource, sem_reg>>
  BY DEF Posix!CountStore, Posix!Go
<1>2. sem_reg[t] \in Nat /\ COUNT_LIMIT \in Nat /\ sem_reg[t] <= COUNT_LIMIT + 2
  BY <1>1, SemaphoreBounds
     DEF Posix!IInv, Posix!TypeOK, Posix!Threads, Posix!Exited, Posix!Count
<1>3. counter' = sem_reg[t] + 1
  BY <1>2, SemaphoreBounds DEF Posix!CountStore
<1>4. counter' <= COUNT_LIMIT + 1 + Posix!Exited("producer")' + Posix!Exited("consumer")'
  <2>1. CASE t = "producer"
    BY <1>1, <1>2, <1>3, <2>1
       DEF Posix!IInv, Posix!TypeOK, Posix!Threads, Posix!Exited, Posix!Count,
           Posix!InLoop
  <2>2. CASE t = "consumer"
    BY <1>1, <1>2, <1>3, <2>2
       DEF Posix!IInv, Posix!TypeOK, Posix!Threads, Posix!Exited, Posix!Count,
           Posix!InLoop
  <2>3. QED
    BY <2>1, <2>2 DEF Posix!Threads
<1>5. Posix!TypeOK'
  BY <1>1, <1>2, <1>3 DEF Posix!IInv, Posix!TypeOK, Posix!Places
<1>6. Posix!PermitCount'
  BY <1>1 DEF Posix!IInv, Posix!TypeOK, Posix!PermitCount, Posix!Count, Posix!Threads
<1>7. QED
  BY <1>1, <1>2, <1>4, <1>5, <1>6
     DEF Posix!IInv, Posix!TypeOK, Posix!Exited, Posix!Count, Posix!MyTurn,
         Posix!Threads

\* A permit moves from the semaphore to the thread.
LEMMA SemaphoreWaitStep ==
  ASSUME Posix!IInv, NEW t \in Posix!Threads, Posix!Wait(t)
  PROVE  Posix!IInv'
<1>1. /\ sem_at[t] = "wait" /\ sem_at' = [sem_at EXCEPT ![t] = "flag"]
      /\ permits > 0 /\ permits' = permits - 1
      /\ UNCHANGED <<counter, full_flag, sem_resource, sem_reg>>
  BY DEF Posix!Wait, Posix!Go
<1>2. Posix!TypeOK'
  BY <1>1 DEF Posix!IInv, Posix!TypeOK, Posix!Places
<1>3. Posix!PermitCount'
  BY <1>1 DEF Posix!IInv, Posix!TypeOK, Posix!PermitCount, Posix!Count, Posix!Threads
<1>4. QED
  BY <1>1, <1>2, <1>3
     DEF Posix!IInv, Posix!TypeOK, Posix!Exited, Posix!Count, Posix!MyTurn,
         Posix!Threads

\* Only the thread that the flag names goes on to the resource,
LEMMA SemaphoreTestFlagStep ==
  ASSUME Posix!IInv, NEW t \in Posix!Threads, Posix!TestFlag(t)
  PROVE  Posix!IInv'
<1>1. /\ sem_at[t] = "flag"
      /\ sem_at' = [sem_at EXCEPT ![t] = IF Posix!MyTurn(t) THEN "load" ELSE "post"]
      /\ UNCHANGED <<permits, counter, full_flag, sem_resource, sem_reg>>
  BY DEF Posix!TestFlag, Posix!Go
<1>2. Posix!TypeOK'
  BY <1>1 DEF Posix!IInv, Posix!TypeOK, Posix!Places
<1>3. Posix!PermitCount'
  BY <1>1 DEF Posix!IInv, Posix!TypeOK, Posix!PermitCount, Posix!Count, Posix!Threads
<1>4. QED
  BY <1>1, <1>2, <1>3
     DEF Posix!IInv, Posix!TypeOK, Posix!Exited, Posix!Count, Posix!MyTurn,
         Posix!Threads

LEMMA SemaphoreLoadStep ==
  ASSUME Posix!IInv, NEW t \in Posix!Threads, Posix!Load(t)
  PROVE  Posix!IInv'
<1>1. /\ sem_at[t] = "load" /\ sem_at' = [sem_at EXCEPT ![t] = "store"]
      /\ sem_reg' = [sem_reg EXCEPT ![t] = sem_resource]
      /\ UNCHANGED <<permits, counter, full_flag, sem_resource>>
  BY DEF Posix!Load, Posix!Go
<1>2. sem_resource \in 0..ShortMax
  BY SemaphoreBounds DEF Posix!IInv, Posix!TypeOK
<1>3. Posix!TypeOK'
  BY <1>1, <1>2 DEF Posix!IInv, Posix!TypeOK, Posix!Places
<1>4. Posix!PermitCount'
  BY <1>1 DEF Posix!IInv, Posix!TypeOK, Posix!PermitCount, Posix!Count, Posix!Threads
<1>5. QED
  BY <1>1, <1>3, <1>4
     DEF Posix!IInv, Posix!TypeOK, Posix!Exited, Posix!Count, Posix!MyTurn,
         Posix!Threads

\* changes it from what the other thread left to what that waits for,
LEMMA SemaphoreStoreEffect ==
  ASSUME Posix!IInv, NEW t \in Posix!Threads, Posix!Store(t)
  PROVE  IF t = "producer" THEN sem_resource = 0 /\ sem_resource' = 1
                           ELSE sem_resource = 1 /\ sem_resource' = 0
<1>1. sem_at[t] = "store" /\ sem_reg[t] = sem_resource /\ Posix!MyTurn(t)
  BY DEF Posix!IInv, Posix!Store, Posix!Go
<1>2. sem_at["producer"] # "hand" /\ sem_at["consumer"] # "hand"
  BY <1>1 DEF Posix!IInv, Posix!MyTurn, Posix!Threads
<1>3. QED
  BY <1>1, <1>2, SemaphoreBounds
     DEF Posix!IInv, Posix!MyTurn, Posix!Threads, Posix!Store, Posix!Change

LEMMA SemaphoreStoreStep ==
  ASSUME Posix!IInv, NEW t \in Posix!Threads, Posix!Store(t)
  PROVE  Posix!IInv'
<1>1. /\ sem_at[t] = "store" /\ sem_at' = [sem_at EXCEPT ![t] = "hand"]
      /\ UNCHANGED <<permits, counter, full_flag, sem_reg>>
  BY DEF Posix!Store, Posix!Go
<1>2. Posix!TypeOK'
  BY <1>1, SemaphoreStoreEffect, SemaphoreBounds
     DEF Posix!IInv, Posix!TypeOK, Posix!Places
<1>3. Posix!PermitCount'
  BY <1>1 DEF Posix!IInv, Posix!TypeOK, Posix!PermitCount, Posix!Count, Posix!Threads
<1>4. \A u \in Posix!Threads : sem_at[u] \in {"load", "store", "hand"} => u = t
  BY <1>1 DEF Posix!IInv, Posix!MyTurn, Posix!Threads
<1>5. sem_resource' = IF sem_at'["producer"] = "hand" THEN 1
                         ELSE IF sem_at'["consumer"] = "hand" THEN 0 ELSE full_flag'
  BY <1>1, <1>4, SemaphoreStoreEffect DEF Posix!IInv, Posix!TypeOK, Posix!Threads
<1>6. QED
  BY <1>1, <1>2, <1>3, <1>4, <1>5
     DEF Posix!IInv, Posix!TypeOK, Posix!Exited, Posix!Count, Posix!MyTurn,
         Posix!Threads

\* and names the other.
LEMMA SemaphoreSetFlagStep ==
  ASSUME Posix!IInv, NEW t \in Posix!Threads, Posix!SetFlag(t)
  PROVE  Posix!IInv'
<1>1. /\ sem_at[t] = "hand" /\ sem_at' = [sem_at EXCEPT ![t] = "post"]
      /\ full_flag' = IF t = "producer" THEN 1 ELSE 0
      /\ UNCHANGED <<permits, counter, sem_resource, sem_reg>>
  BY DEF Posix!SetFlag, Posix!Go
<1>2. Posix!TypeOK'
  BY <1>1 DEF Posix!IInv, Posix!TypeOK, Posix!Places
<1>3. Posix!PermitCount'
  BY <1>1 DEF Posix!IInv, Posix!TypeOK, Posix!PermitCount, Posix!Count, Posix!Threads
<1>4. \A u \in Posix!Threads : sem_at[u] \in {"load", "store", "hand"} => u = t
  BY <1>1 DEF Posix!IInv, Posix!MyTurn, Posix!Threads
<1>5. QED
  BY <1>1, <1>2, <1>3, <1>4
     DEF Posix!IInv, Posix!TypeOK, Posix!Exited, Posix!Count, Posix!MyTurn,
         Posix!Threads

\* Where the permits are, whose turn it is and what is in the slot, for every
\* limit of the loops and however counts are lost (lines 38-72).
THEOREM SemaphoreInvariant == Spec => []Posix!IInv
<1>1. Posix!IInv /\ [Posix!Next]_(Posix!vars) => Posix!IInv'
  <2>1. Posix!IInv /\ UNCHANGED Posix!vars => Posix!IInv'
    BY DEF Posix!IInv, Posix!TypeOK, Posix!PermitCount, Posix!Exited, Posix!Count,
           Posix!MyTurn, Posix!vars
  <2>2. QED
    BY <2>1, SemaphorePostStep, SemaphoreCountLoadStep, SemaphoreCountStoreStep,
       SemaphoreWaitStep, SemaphoreTestFlagStep, SemaphoreLoadStep,
       SemaphoreStoreStep, SemaphoreSetFlagStep DEF Posix!Next, Posix!Step
<1>2. QED
  BY <1>1, SemaphoreInitHolds, SemaphoreRuns, PTL

\* Once the consumer has posted nobody is ever blocked, and still only the thread
\* that full_flag names touches the resource (lines 39-70).
THEOREM SemaphoreFlagExcludes == Spec => []FlagExcludes
<1>1. Posix!IInv => FlagExcludes
  <2>1. SUFFICES ASSUME Posix!IInv PROVE FlagExcludes
    OBVIOUS
  <2>2. Posix!NeverBlocks
    BY <2>1
       DEF Posix!IInv, Posix!TypeOK, Posix!PermitCount, Posix!Count, Posix!NeverBlocks,
           Posix!Threads
  <2>3. Posix!OneWorks
    BY <2>1 DEF Posix!IInv, Posix!OneWorks, Posix!MyTurn, Posix!Threads
  <2>4. QED
    BY <2>1, <2>2, <2>3 DEF FlagExcludes, Posix!IInv, Posix!FlagExcludes, Posix!Permits
<1>2. QED
  BY <1>1, SemaphoreInvariant, PTL

\* The resource is filled and emptied in turn, for every limit and word size.
THEOREM SemaphoreImplementsOneSlot == Spec => SemaphoreOneSlot
<1>1. Posix!Init => Posix!Slot!Init
  BY DEF Posix!Init, Posix!Slot!Init
<1>2. Posix!IInv /\ [Posix!Next]_(Posix!vars) => [Posix!Slot!Next]_sem_resource
  <2>1. SUFFICES ASSUME Posix!IInv, Posix!Next PROVE [Posix!Slot!Next]_sem_resource
    BY DEF Posix!vars
  <2>2. ASSUME NEW t \in Posix!Threads, Posix!Store(t) PROVE Posix!Slot!Next
    BY <2>1, <2>2, SemaphoreStoreEffect
       DEF Posix!Slot!Next, Posix!Slot!Produce, Posix!Slot!Consume
  <2>3. ASSUME NEW t \in Posix!Threads, Posix!Step(t), ~Posix!Store(t)
        PROVE  UNCHANGED sem_resource
    BY <2>3
       DEF Posix!Step, Posix!Post, Posix!CountLoad, Posix!CountStore, Posix!Wait,
           Posix!TestFlag, Posix!Load, Posix!SetFlag
  <2>4. QED
    BY <2>1, <2>2, <2>3 DEF Posix!Next
<1>3. QED
  BY <1>1, <1>2, SemaphoreInvariant, SemaphoreRuns, PTL
     DEF SemaphoreOneSlot, Posix!ImplementsOneSlot, Posix!Slot!Spec
===============================================================================
