-------------------------------- MODULE Barrier --------------------------------
(***************************************************************************)
(* Chapter 6/barrier-temperature.cpp: a sensor thread for each room, a     *)
(* std::barrier they meet at, its completion function, and the stop_source *)
(* that ends the sensors' loops.  A list of temperatures is only fresh or  *)
(* used: used once the room's mean was computed from it.                   *)
(***************************************************************************)
EXTENDS Naturals, FiniteSets

CONSTANTS Rooms,   \* room_temperatures, and the jthread of each
          UIntMax  \* the largest unsigned: 2^32 - 1 in the build

ASSUME RoomsAssumption == IsFiniteSet(Rooms) /\ Rooms # {}
ASSUME UIntAssumption == UIntMax \in Nat /\ UIntMax >= 4

VARIABLES at,       \* at[r]: where the sensor of r is in its loop
          token,    \* token[r]: the phase in which r arrived
          expected, \* std::barrier: arrivals missing in this phase
          phase,    \* std::barrier: parity of the phase
          comp,     \* where the completion function is
          pending,  \* completion: rooms its for_each has not reached
          used,     \* used[r]: r's mean was computed from r's current list
          timer,    \* the static counter of the completion function
          stop      \* message.request_stop() was called

barrierVars == <<token, expected, phase>>
compVars == <<comp, pending, timer, stop>>
vars == <<at, barrierVars, compVars, used>>

\* The count the barrier is constructed with, and starts each phase with.
Expected == Cardinality(Rooms)

Go(r, from, to) == at[r] = from /\ at' = [at EXCEPT ![r] = to]

\* main() has filled every room's list before it starts the first thread.
Init == /\ at = [r \in Rooms |-> "test"]
        /\ token = [r \in Rooms |-> 0]
        /\ expected = Expected
        /\ phase = 0
        /\ comp = "idle"
        /\ pending = {}
        /\ used = [r \in Rooms |-> FALSE]
        /\ timer = 0
        /\ stop = FALSE
-------------------------------------------------------------------------------
\* while (!token.stop_requested())
Test(r) == /\ Go(r, "test", IF stop THEN "done" ELSE "process")
           /\ UNCHANGED <<barrierVars, compVars, used>>

\* ProcessMeasurement returns.  It was reading the list since Test.
Process(r) == /\ Go(r, "process", "arrive")
              /\ used' = [used EXCEPT ![r] = TRUE]
              /\ UNCHANGED <<barrierVars, compVars>>

\* arrive_and_wait(): the last to arrive runs the completion function.
Arrive(r) == /\ Go(r, "arrive", "wait")
             /\ token' = [token EXCEPT ![r] = phase]
             /\ expected' = expected - 1
             /\ comp' = IF expected = 1 THEN "report" ELSE comp
             /\ UNCHANGED <<phase, pending, timer, stop, used>>

NoWait(r) == TRUE \* mutant: arrive() for arrive_and_wait()
PhaseOver(r) == token[r] # phase
\* arrive_and_wait() returns.
Return(r) == /\ Go(r, "wait", "test")
             /\ PhaseOver(r)
             /\ UNCHANGED <<barrierVars, compVars, used>>

Sensor(r) == Test(r) \/ Process(r) \/ Arrive(r) \/ Return(r)
-------------------------------------------------------------------------------
\* The completion function reads and prints every room's mean,
Report == /\ comp = "report"
          /\ comp' = "refresh"
          /\ pending' = Rooms
          /\ UNCHANGED <<at, barrierVars, used, timer, stop>>

\* gives each room a new list (a room at a time: GetTemperatures),
Refresh(r) == /\ comp = "refresh" /\ r \in pending
              /\ used' = [used EXCEPT ![r] = FALSE]
              /\ pending' = pending \ {r}
              /\ comp' = IF pending = {r} THEN "count" ELSE comp
              /\ UNCHANGED <<at, barrierVars, timer, stop>>

FiveTurns == timer > 3         \* mutant: > for >=
NeverStop == timer > UIntMax   \* mutant: the stop is not requested
LastTurn == timer >= 3
\* and counts its calls.  When it returns, the barrier enters its next phase.
Count == /\ comp = "count"
         /\ stop' = (stop \/ LastTurn)
         /\ timer' = IF timer = UIntMax THEN 0 ELSE timer + 1
         /\ comp' = "idle"
         /\ expected' = Expected
         /\ phase' = 1 - phase
         /\ UNCHANGED <<at, token, pending, used>>

Completion == Report \/ Count \/ \E r \in Rooms : Refresh(r)

\* The destructors of the jthreads have joined, and main() returns.
Finished == (\A r \in Rooms : at[r] = "done") /\ UNCHANGED vars

Next == (\E r \in Rooms : Sensor(r)) \/ Completion \/ Finished

\* Every sensor runs, and the last to arrive runs the completion function.
Spec == /\ Init /\ [][Next]_vars
        /\ \A r \in Rooms : WF_vars(Sensor(r))
        /\ WF_vars(Completion)
-------------------------------------------------------------------------------
TypeOK == /\ at \in [Rooms -> {"test", "process", "arrive", "wait", "done"}]
          /\ token \in [Rooms -> 0..1]
          /\ expected \in 0..Cardinality(Rooms)
          /\ phase \in 0..1
          /\ comp \in {"idle", "report", "refresh", "count"}
          /\ pending \subseteq Rooms
          /\ used \in [Rooms -> BOOLEAN]
          /\ timer \in 0..UIntMax
          /\ stop \in BOOLEAN

\* While the completion function runs, no sensor reads or writes a room: the
\* lists and means need no lock of their own (lines 49-71 against 76-81).
Quiet == TypeOK /\ (comp # "idle" => \A r \in Rooms : at[r] = "wait")

\* The report is of this turn: every mean it prints was computed from the list
\* of this turn, also by a sensor still asleep when others had moved on
\* (lines 52-58, 63, 78-80).
FreshReport == comp = "report" => \A r \in Rooms : used[r]

\* The completion function is alone with the lists, and they are all of this turn
\* (lines 49-71, 76-81).
Undisturbed == Quiet /\ FreshReport

\* "Make 4 measurements and request stop" (line 65): a sensor leaves its loop
\* after the fourth report, and not before, when all the others are past the
\* barrier or free to leave it, so nobody is left waiting for it.
FourReports ==
  \A r \in Rooms : at[r] = "done" =>
    timer = 4 /\ \A s \in Rooms : \/ at[s] \in {"test", "done"}
                                  \/ at[s] = "wait" /\ PhaseOver(s)

\* The inductive invariant.  The barrier counts the sensors that have arrived in
\* this phase, whose rooms were used unless they have a new list; the stop comes
\* with the fourth turn, when nobody is between the test and the barrier.
Arrived == {r \in Rooms : at[r] = "wait" /\ token[r] = phase}
IInv == /\ TypeOK
        /\ expected = Cardinality(Rooms) - Cardinality(Arrived)
        /\ comp = "idle" <=> expected > 0
        /\ \A r \in Rooms : at[r] = "arrive" => used[r]
        /\ comp \in {"idle", "report"} => \A r \in Arrived : used[r]
        /\ timer <= 4 /\ (stop <=> timer = 4)
        /\ \A r \in Rooms : at[r] = "done" => stop
        /\ stop => Arrived = {} /\ \A r \in Rooms : at[r] \in {"wait", "test", "done"}

\* Every sensor sees the stop request, so main() returns (lines 67-69, 78).
Termination == <>(\A r \in Rooms : at[r] = "done")
===============================================================================
