------------------------------- MODULE MCThreads -------------------------------
(***************************************************************************)
(* Programs of Chapters 6, 7 and 9 with a few threads each, in one state   *)
(* space: a behaviour is a run of one of them, and the variables of the    *)
(* others keep their initial values.                                       *)
(***************************************************************************)
EXTENDS Naturals

CONSTANTS Counters, Waiters,  \* Latch
          Transfers, Initial, \* DataRace
          Limit, Size,        \* MutexCounter
          Count               \* StopRequest

VARIABLES program,
          progress, latch_at, latch_main,
          race_at, race_temp, balance, exact,
          shared_resource, shres_guard, at, i, temp,
          kind, requested, returned, stop_main,
          worker, main, stopper, stop, callbacks, runs

Arrival == INSTANCE Latch WITH at <- latch_at, main <- latch_main
Race == INSTANCE DataRace WITH at <- race_at, temp <- race_temp
Counter == INSTANCE MutexCounter
Stopping == INSTANCE StopRequest WITH main <- stop_main
Coop == INSTANCE CoopCancellation

ASSUME BoundsAssumption ==
  Arrival!ThreadsBounds /\ Race!Covered /\ Counter!NoWrap /\ Stopping!CountBounds

latchVars == <<progress, latch_at, latch_main>>
raceVars == <<race_at, race_temp, balance, exact>>
counterVars == <<shared_resource, shres_guard, at, i, temp>>
stopVars == <<kind, requested, returned, stop_main>>
coopVars == <<worker, main, stopper, stop, callbacks, runs>>
vars == <<program, latchVars, raceVars, counterVars, stopVars, coopVars>>

Init == /\ program \in {"latch", "data-race", "cpp_mutex", "stop", "coop_cancellation"}
        /\ Arrival!Init /\ Race!Init /\ Counter!Init /\ Stopping!Init /\ Coop!Init
        /\ program # "stop" => kind = "stop-token"

LatchStep(A) == program = "latch" /\ A
                /\ UNCHANGED <<program, raceVars, counterVars, stopVars, coopVars>>
RaceStep(A) == program = "data-race" /\ A
               /\ UNCHANGED <<program, latchVars, counterVars, stopVars, coopVars>>
CounterStep(A) == program = "cpp_mutex" /\ A
                  /\ UNCHANGED <<program, latchVars, raceVars, stopVars, coopVars>>
StopStep(A) == program = "stop" /\ A
               /\ UNCHANGED <<program, latchVars, raceVars, counterVars, coopVars>>
CoopStep(A) == program = "coop_cancellation" /\ A
               /\ UNCHANGED <<program, latchVars, raceVars, counterVars, stopVars>>

Next == \/ LatchStep(Arrival!Next) \/ RaceStep(Race!Next) \/ CounterStep(Counter!Next)
        \/ StopStep(Stopping!Next) \/ CoopStep(Coop!Next)

\* The fairness of each module, for the program that runs.
Spec ==
  /\ Init /\ [][Next]_vars
  /\ WF_vars(LatchStep(Arrival!Main))
  /\ \A t \in Arrival!Threads : WF_vars(LatchStep(Arrival!Thread(t)))
  /\ \A t \in Transfers : WF_vars(RaceStep(Race!TransferMoney(t)))
  /\ \A t \in Counter!Threads : WF_vars(CounterStep(Counter!Thread(t)))
  /\ WF_vars(StopStep(Stopping!Main))
  /\ \A w \in Stopping!Workers : WF_vars(StopStep(Stopping!Poll(w)))
  /\ WF_vars(CoopStep(Coop!Worker)) /\ WF_vars(CoopStep(Coop!Stopper)) /\ WF_vars(CoopStep(Coop!Main))
-------------------------------------------------------------------------------
\* Nobody passes the latch early, or uses it when it is gone (latch.cpp lines 10-33).
LatchSafe == Arrival!LatchSafe

\* Money is lost exactly when two transfers overlap on an account (data-race.cpp
\* lines 18-33, 44-47).
OverlapLoses == Race!OverlapLoses

\* The mutex makes the increment one step (cpp_mutex.cpp lines 14-15).
ImplementsAtomicCounter == Counter!ImplementsAtomicCounter

\* The callback runs once, in the stopper's thread, and the worker's wakeup is not
\* lost (coop_cancellation.cpp lines 16-38).
CallbackOnce == Coop!CallbackOnce

\* main() returns, and the counter has counted everything; main() never waits for
\* a worker that nobody asked to stop (stop-source.cpp, stop-token.cpp).
Completes == /\ program = "latch" => Arrival!Completes
             /\ program = "data-race" => Race!Completes
             /\ program = "cpp_mutex" => Counter!Completes
             /\ program = "stop" => []Stopping!AskedBeforeJoin /\ Stopping!Completes
             /\ program = "coop_cancellation" => Coop!Completes
===============================================================================
