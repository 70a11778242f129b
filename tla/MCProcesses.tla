------------------------------ MODULE MCProcesses ------------------------------
(***************************************************************************)
(* Programs of Chapters 2, 3 and 8 made of parents, children, pipes and    *)
(* signals, in one state space: a behaviour is a run of one of them, and   *)
(* the variables of the others keep their initial values.                  *)
(***************************************************************************)
EXTENDS Naturals

CONSTANT Runs \* how often a program with a named pipe is started

VARIABLES program,
          pipe_program, fifo, pipe, at, fd, run,
          kind, pipe_parent, pipe_child, ends, full, got,
          parent, child, ended, status, said,
          main, handled, continue_execution

Named == INSTANCE NamedPipe WITH program <- pipe_program
Anonymous == INSTANCE AnonymousPipe WITH parent <- pipe_parent, child <- pipe_child
Reaping == INSTANCE ProcessReaping
Timer == INSTANCE Alarm

ASSUME BoundsAssumption == Named!RunsBound

namedVars == <<pipe_program, fifo, pipe, at, fd, run>>
anonymousVars == <<kind, pipe_parent, pipe_child, ends, full, got>>
reapingVars == <<parent, child, ended, status, said>>
timerVars == <<main, handled, continue_execution>>
vars == <<program, namedVars, anonymousVars, reapingVars, timerVars>>

Init == /\ program \in {"named_pipe", "anonymous_pipe", "waitpid", "alarm"}
        /\ Named!Init /\ Anonymous!Init /\ Reaping!Init /\ Timer!Init
        /\ program # "named_pipe" => \A r \in 1..Runs : pipe_program[r] = "C"
        /\ program # "anonymous_pipe" => kind = "reader"

NamedStep(A) == program = "named_pipe" /\ A
                /\ UNCHANGED <<program, anonymousVars, reapingVars, timerVars>>
AnonymousStep(A) == program = "anonymous_pipe" /\ A
                    /\ UNCHANGED <<program, namedVars, reapingVars, timerVars>>
ReapingStep(A) == program = "waitpid" /\ A
                  /\ UNCHANGED <<program, namedVars, anonymousVars, timerVars>>
TimerStep(A) == program = "alarm" /\ A
                /\ UNCHANGED <<program, namedVars, anonymousVars, reapingVars>>

Next == \/ NamedStep(Named!Next) \/ AnonymousStep(Anonymous!Next)
        \/ ReapingStep(Reaping!Next) \/ TimerStep(Timer!Next)

\* The fairness of each module, for the program that runs.
Spec ==
  /\ Init /\ [][Next]_vars
  /\ \A r \in 1..Runs : WF_vars(NamedStep(Named!Start(r)))
  /\ \A p \in Named!Processes : WF_vars(NamedStep(Named!Step(p)))
  /\ WF_vars(AnonymousStep(Anonymous!Parent)) /\ WF_vars(AnonymousStep(Anonymous!Child))
  /\ WF_vars(ReapingStep(Reaping!Parent))
  /\ \A n \in Reaping!Children : WF_vars(ReapingStep(Reaping!End(n)))
  /\ WF_vars(TimerStep(Timer!Main)) /\ WF_vars(TimerStep(Timer!Alarm))
-------------------------------------------------------------------------------
\* Every parent's read() has a message or a sender, and a C++ program whose fork()
\* worked leaves no FIFO, whatever an earlier run left that failed
\* (named_pipe_example.c lines 24-56, cpp_and_named_pipe.cpp lines 34-81).
PipesBalanced == Named!PipesBalanced

\* A message is lost only with a process that was killed
\* (anonymous_pipe_example.cpp lines 24-36, anonymous_pipe_sigpipe_example.c 26-37).
LostWithProcess == Anonymous!LostWithProcess

\* No child is reported wrongly or left a zombie, whichever fork() failed
\* (waitpid_example.cpp lines 8-29).
ReportsRight == Reaping!ReportsRight

\* Nobody is left in read(), waitpid() or the loop of posix-alarm.cpp, and SIGALRM
\* does not end that program.
Completes == /\ program = "named_pipe" => Named!ParentReturns
             /\ program = "anonymous_pipe" => Anonymous!Completes
             /\ program = "waitpid" => Reaping!Completes
             /\ program = "alarm" => Timer!Completes
===============================================================================
