------------------------------ MODULE MCChapter10 ------------------------------
(***************************************************************************)
(* The coroutines of Chapter 10 and the two classes that own a resource,   *)
(* in one state space: a behaviour is a run of one program, or any use of  *)
(* one class; the variables of the others keep their initial values.       *)
(***************************************************************************)
EXTENDS Naturals, Sequences

CONSTANTS Rounds,          \* CoroutineSocket
          Objects, Frames, \* Generator
          Guards, Fds      \* FileGuard

VARIABLES program,
          main, receiver, sender, suspended, coroutine, region, filled, event_shown,
          server, client, socket_main, frames, i, queue, sent, tmp_buf, shown,
          c_routine, frame,
          fd, open

Event == INSTANCE CoroutineEvent WITH frame <- coroutine, shown <- event_shown
Socket == INSTANCE CoroutineSocket WITH main <- socket_main
Gen == INSTANCE Generator
Guard == INSTANCE FileGuard

ASSUME ConstantsAssumption == Socket!RoundsBound /\ Gen!Distinct /\ Guard!Distinct

eventVars == <<main, receiver, sender, suspended, coroutine, region, filled, event_shown>>
socketVars == <<server, client, socket_main, frames, i, queue, sent, tmp_buf, shown>>
genVars == <<c_routine, frame>>
guardVars == <<fd, open>>
vars == <<program, eventVars, socketVars, genVars, guardVars>>

Init == /\ program \in {"shmem_coroutines", "coroutine_socket", "Generator", "file_guard"}
        /\ Event!Init /\ Socket!Init /\ Gen!Init /\ Guard!Init
        /\ program # "shmem_coroutines" => region = "absent"

EventStep(A) == program = "shmem_coroutines" /\ A
                /\ UNCHANGED <<program, socketVars, genVars, guardVars>>
SocketStep(A) == program = "coroutine_socket" /\ A
                 /\ UNCHANGED <<program, eventVars, genVars, guardVars>>
GenStep(A) == program = "Generator" /\ A
              /\ UNCHANGED <<program, eventVars, socketVars, guardVars>>
GuardStep(A) == program = "file_guard" /\ A
                /\ UNCHANGED <<program, eventVars, socketVars, genVars>>

Next == \/ EventStep(Event!Next) \/ SocketStep(Socket!Next)
        \/ GenStep(Gen!Next) \/ GuardStep(Guard!Next)

\* The fairness of each program, when it runs; nobody has to use a class.
Spec ==
  /\ Init /\ [][Next]_vars
  /\ WF_vars(EventStep(Event!Receiver)) /\ WF_vars(EventStep(Event!Sender))
  /\ WF_vars(EventStep(Event!Main))
  /\ WF_vars(SocketStep(Socket!Server)) /\ WF_vars(SocketStep(Socket!Client))
  /\ WF_vars(SocketStep(Socket!Close))
-------------------------------------------------------------------------------
\* The coroutine is resumed when it is suspended and its region is open
\* (shmem_coroutines.cpp lines 68-77, 96-132, 156-159).
ResumedSafely == Event!ResumedSafely

\* What the client prints is in order, with repetitions and without gaps
\* (coroutine_socket.cpp lines 104-119, 158-167).
ShownInOrder == Socket!ShownInOrder

\* A coroutine frame has one owner, which destroys it (coroutine_socket.cpp lines
\* 57-77).
ImplementsUniqueOwner == Gen!ImplementsUniqueOwner

\* A descriptor has one owner, unless an assignment has lost it (raii.cpp lines
\* 9-37).
LostByAssignment == Guard!LostByAssignment

\* The programs return, or crash on what another run left; a coroutine that was
\* suspended before the notification is resumed, and one that was not never is.
Returns == /\ program = "shmem_coroutines" => Event!Returns
           /\ program = "coroutine_socket" => Socket!Returns
===============================================================================
