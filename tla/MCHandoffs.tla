------------------------------ MODULE MCHandoffs ------------------------------
(***************************************************************************)
(* Three programs of Chapter 7 in which two threads hand a counter to each *)
(* other without a mutex, in one state space: a behaviour is a run of one  *)
(* of them, and the variables of the two others keep their initial values. *)
(***************************************************************************)
EXTENDS Naturals

CONSTANTS Limit, WordMax,                \* SemaphoreHandoff
          FlagLimit, FlagMax,            \* AtomicFlag
          COUNT_LIMIT, ShortMax, UIntMax \* PosixSemaphore

VARIABLES program,
          sem, shared_resource, started, at, i, reg,
          condFlag, flag_resource, flag_at, flag_i,
          permits, counter, full_flag, sem_resource, sem_at, sem_reg

Handoff == INSTANCE SemaphoreHandoff
Flag == INSTANCE AtomicFlag WITH Limit <- FlagLimit, WordMax <- FlagMax,
                                 shared_resource <- flag_resource,
                                 at <- flag_at, i <- flag_i
Posix == INSTANCE PosixSemaphore WITH sem <- permits, shared_resource <- sem_resource,
                                      at <- sem_at, reg <- sem_reg

ASSUME BoundsAssumption == Handoff!Bounds /\ Flag!Bounds /\ Posix!Bounds

handoffVars == <<sem, shared_resource, started, at, i, reg>>
flagVars == <<condFlag, flag_resource, flag_at, flag_i>>
posixVars == <<permits, counter, full_flag, sem_resource, sem_at, sem_reg>>
vars == <<program, handoffVars, flagVars, posixVars>>

Init == /\ program \in {"cpp_sem_example", "cpp_atomic_flags", "posix_semaphore_example"}
        /\ Handoff!Init /\ Flag!Init /\ Posix!Init

HandoffStep(A) == program = "cpp_sem_example" /\ A
                  /\ UNCHANGED <<program, flagVars, posixVars>>
FlagStep(A) == program = "cpp_atomic_flags" /\ A
               /\ UNCHANGED <<program, handoffVars, posixVars>>
PosixStep(A) == program = "posix_semaphore_example" /\ A
                /\ UNCHANGED <<program, handoffVars, flagVars>>

Next == HandoffStep(Handoff!Next) \/ FlagStep(Flag!Next) \/ PosixStep(Posix!Next)

\* The fairness of each module, for the program that runs.
Spec ==
  /\ Init /\ [][Next]_vars
  /\ WF_vars(HandoffStep(Handoff!Start))
  /\ \A t \in Handoff!Threads : WF_vars(HandoffStep(Handoff!Turn(t)))
  /\ \A t \in Flag!Threads : WF_vars(FlagStep(Flag!Turn(t)))
  /\ \A t \in Posix!Threads : WF_vars(PosixStep(Posix!Step(t)))
-------------------------------------------------------------------------------
\* The plain ++ and -- never overlap, and no binary_semaphore is released at its
\* maximum (cpp_sem_example.cpp lines 17-21, 29-32, 38).
OneTurn == Handoff!OneTurn

\* The consumer's loop waits for one value more than there will be
\* (cpp_sem_example.cpp line 27 against 17).
ConsumerNeverReturns == Handoff!ConsumerNeverReturns

\* Nothing is lost or doubled on the way from one thread to the other
\* (cpp_sem_example.cpp lines 18, 30; posix_semaphore_example.c lines 44-47, 61-64).
HandoffOneSlot == Handoff!ImplementsOneSlot
SemaphoreOneSlot == Posix!ImplementsOneSlot

\* A decrement overtakes the increment before it, and no more
\* (cpp_atomic_flags.cpp lines 14-16, 25-27).
Swing == Flag!Swing

\* The semaphore excludes nobody, and the flag does (posix_semaphore_example.c
\* lines 39-70).
FlagExcludes == Posix!FlagExcludes

\* What the producer makes is consumed (cpp_sem_example.cpp lines 17-32).
AllConsumed == program = "cpp_sem_example" => Handoff!AllConsumed

\* No notification is lost: both loops end (cpp_atomic_flags.cpp lines 14-18, 25-29).
FlagLoopsEnd == program = "cpp_atomic_flags" => Flag!Termination

\* However many counts are lost, both loops end (posix_semaphore_example.c lines
\* 41, 58).
SemaphoreLoopsEnd == program = "posix_semaphore_example" => Posix!Termination
===============================================================================
