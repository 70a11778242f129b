----------------------------- MODULE BarrierProofs -----------------------------
(***************************************************************************)
(* Proofs about Barrier for any rooms and any width of the timer.          *)
(***************************************************************************)
EXTENDS Barrier, FiniteSetTheorems, TLAPS

\* The rooms can be counted, and so can those that have arrived.
LEMMA Counting ==
  /\ Cardinality(Rooms) \in Nat \ {0}
  /\ IsFiniteSet(Arrived) /\ Cardinality(Arrived) \in Nat
  /\ Cardinality(Arrived) = Cardinality(Rooms) <=> Arrived = Rooms
<1>1. Arrived \subseteq Rooms
  BY DEF Arrived
<1>2. QED
  BY <1>1, RoomsAssumption, FS_Subset, FS_CardinalityType, FS_EmptySet

\* Nobody has arrived.
LEMMA InitHolds == Init => IInv
<1>1. SUFFICES ASSUME Init PROVE IInv
  OBVIOUS
<1>2. Arrived = {} /\ Cardinality({}) = 0
  BY <1>1, FS_EmptySet DEF Init, Arrived
<1>3. expected = Cardinality(Rooms) /\ Cardinality(Rooms) \in Nat \ {0}
  BY <1>1, Counting DEF Init, Expected
<1>4. TypeOK
  <2>1. used \in [Rooms -> BOOLEAN] /\ stop \in BOOLEAN
    BY <1>1, Zenon DEF Init
  <2>2. QED
    BY <1>1, <1>3, <2>1, UIntAssumption DEF Init, TypeOK
<1>5. /\ expected = Cardinality(Rooms) - Cardinality(Arrived)
      /\ comp = "idle" <=> expected > 0
  BY <1>1, <1>2, <1>3 DEF Init
<1>6. QED
  BY <1>1, <1>2, <1>4, <1>5 DEF Init, IInv

\* Before its arrival a sensor is not counted, whatever it does.
LEMMA TestStep ==
  ASSUME IInv, NEW r \in Rooms, Test(r)
  PROVE  IInv'
<1>1. Arrived' = Arrived
  BY DEF IInv, TypeOK, Test, Go, Arrived, barrierVars
<1>2. TypeOK'
  BY DEF IInv, TypeOK, Test, Go, barrierVars, compVars
<1>3. QED
  BY <1>1, <1>2 DEF IInv, TypeOK, Test, Go, barrierVars, compVars

LEMMA ProcessStep ==
  ASSUME IInv, NEW r \in Rooms, Process(r)
  PROVE  IInv'
<1>1. Arrived' = Arrived
  BY DEF IInv, TypeOK, Process, Go, Arrived, barrierVars
<1>2. TypeOK'
  BY DEF IInv, TypeOK, Process, Go, barrierVars, compVars
<1>3. QED
  BY <1>1, <1>2 DEF IInv, TypeOK, Process, Go, barrierVars, compVars, Arrived

\* The last to arrive finds one arrival missing, and everybody else waiting.
LEMMA ArriveStep ==
  ASSUME IInv, NEW r \in Rooms, Arrive(r)
  PROVE  IInv'
<1>1. /\ at[r] = "arrive" /\ at' = [at EXCEPT ![r] = "wait"]
      /\ token' = [token EXCEPT ![r] = phase] /\ phase' = phase
  BY DEF Arrive, Go
<1>2. Arrived' = Arrived \cup {r} /\ r \notin Arrived
  BY <1>1 DEF IInv, TypeOK, Arrived
<1>3. Cardinality(Arrived') = Cardinality(Arrived) + 1
  BY <1>2, Counting, FS_AddElement
<1>4. Cardinality(Arrived) # Cardinality(Rooms)
  BY <1>2, Counting
<1>5. expected \in 1..Cardinality(Rooms) /\ comp = "idle" /\ ~stop
  BY <1>1, <1>4, Counting DEF IInv, TypeOK
<1>6. TypeOK'
  BY <1>1, <1>5, Counting DEF IInv, TypeOK, Arrive
<1>7. (expected = Cardinality(Rooms) - Cardinality(Arrived))'
  BY <1>3, <1>5, Counting DEF IInv, Arrive
<1>8. (comp = "idle" <=> expected > 0)'
  BY <1>5 DEF Arrive
<1>9. QED
  BY <1>1, <1>2, <1>5, <1>6, <1>7, <1>8 DEF IInv, TypeOK, Arrive

\* A sensor that may return has arrived in the phase before.
LEMMA ReturnStep ==
  ASSUME IInv, NEW r \in Rooms, Return(r)
  PROVE  IInv'
<1>1. Arrived' = Arrived
  BY DEF IInv, TypeOK, Return, PhaseOver, Go, Arrived, barrierVars
<1>2. TypeOK'
  BY DEF IInv, TypeOK, Return, Go, barrierVars, compVars
<1>3. QED
  BY <1>1, <1>2 DEF IInv, TypeOK, Return, Go, barrierVars, compVars

\* While the completion function runs everybody has arrived, and nobody was asked
\* to stop.
LEMMA AllArrived ==
  ASSUME IInv, comp # "idle"
  PROVE  Arrived = Rooms /\ ~stop /\ \A r \in Rooms : at[r] = "wait" /\ token[r] = phase
<1>1. expected = 0
  BY Counting DEF IInv, TypeOK
<1>2. Arrived = Rooms
  BY <1>1, Counting DEF IInv
<1>3. QED
  BY <1>2, RoomsAssumption DEF IInv, Arrived

\* Report and Refresh leave the barrier and the sensors alone.
LEMMA ReportStep ==
  ASSUME IInv, Report \/ \E r \in Rooms : Refresh(r)
  PROVE  IInv'
<1>1. Arrived' = Arrived
  BY DEF Report, Refresh, Arrived, barrierVars
<1>2. comp # "idle" /\ comp' \notin {"idle", "report"}
  BY DEF Report, Refresh
<1>3. \A r \in Rooms : at[r] = "wait"
  BY <1>2, AllArrived
<1>4. TypeOK'
  BY DEF IInv, TypeOK, Report, Refresh, barrierVars
<1>5. UNCHANGED <<at, expected, timer, stop>>
  BY DEF Report, Refresh, barrierVars
<1>6. QED
  BY <1>1, <1>2, <1>3, <1>4, <1>5 DEF IInv

\* In the next phase nobody has arrived.
LEMMA CountStep ==
  ASSUME IInv, Count
  PROVE  IInv'
<1>1. comp = "count" /\ comp' = "idle" /\ UNCHANGED <<at, token, pending, used>>
  BY DEF Count
<1>2. ~stop /\ \A r \in Rooms : at[r] = "wait" /\ token[r] = phase
  BY <1>1, AllArrived
<1>3. phase \in 0..1 /\ phase' = 1 - phase
  BY DEF IInv, TypeOK, Count
<1>4. Arrived' = {} /\ Cardinality({}) = 0
  BY <1>1, <1>2, <1>3, FS_EmptySet DEF Arrived
<1>5. timer \in 0..3 /\ timer' = timer + 1 /\ stop' = (timer = 3)
  BY <1>2, UIntAssumption DEF IInv, TypeOK, Count, LastTurn
<1>6. expected' = Cardinality(Rooms)
  BY DEF Count, Expected
<1>7. TypeOK'
  BY <1>1, <1>3, <1>5, <1>6, Counting, UIntAssumption DEF IInv, TypeOK
<1>8. /\ (expected = Cardinality(Rooms) - Cardinality(Arrived))'
      /\ (comp = "idle" <=> expected > 0)'
  BY <1>1, <1>4, <1>6, Counting
<1>9. (timer <= 4 /\ (stop <=> timer = 4))'
  <2>1. timer' <= 4 /\ (timer' = 4 <=> timer = 3)
    BY <1>5
  <2>2. QED
    BY <1>5, <2>1, Zenon
<1>10. QED
  BY <1>1, <1>2, <1>4, <1>7, <1>8, <1>9 DEF IInv

\* The barrier's count is right in every phase, and the stop comes in the turn in
\* which nobody can be caught behind the barrier, for any number of rooms.
THEOREM BarrierInvariant == Spec => []IInv
<1>1. IInv /\ [Next]_vars => IInv'
  <2>1. IInv /\ UNCHANGED vars => IInv'
    BY DEF IInv, TypeOK, Arrived, vars, barrierVars, compVars
  <2>2. QED
    BY <2>1, TestStep, ProcessStep, ArriveStep, ReturnStep, ReportStep, CountStep
       DEF Next, Sensor, Completion, Finished
<1>2. QED
  BY <1>1, InitHolds, PTL DEF Spec

\* The completion function is alone with the lists, and what it reports is of
\* this turn (lines 49-71 against 76-81).
THEOREM BarrierUndisturbed == Spec => []Undisturbed
<1>1. IInv => Undisturbed
  <2>1. ASSUME IInv, comp # "idle" PROVE \A r \in Rooms : at[r] = "wait"
    BY <2>1, AllArrived
  <2>2. ASSUME IInv, comp = "report" PROVE \A r \in Rooms : used[r]
    BY <2>2, AllArrived DEF IInv
  <2>3. QED
    BY <2>1, <2>2 DEF IInv, Undisturbed, Quiet, FreshReport
<1>2. QED
  BY <1>1, BarrierInvariant, PTL

\* A sensor leaves its loop after the fourth report and leaves nobody behind at
\* the barrier (lines 65-69, 76-81).
THEOREM BarrierFourReports == Spec => []FourReports
<1>1. IInv => FourReports
  BY DEF IInv, FourReports, Arrived, PhaseOver
<1>2. QED
  BY <1>1, BarrierInvariant, PTL
===============================================================================
