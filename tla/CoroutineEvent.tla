---------------------------- MODULE CoroutineEvent ----------------------------
(***************************************************************************)
(* Chapter 10/shmem_coroutines.cpp: a coroutine that waits for an event is *)
(* started by one thread and resumed by another, which leaves it a message *)
(* in a named region.  The name is removed at the end of a run; a run that *)
(* was killed leaves there a pointer of a process that is gone.  The atomic *)
(* notified only ever holds false (lines 51, 97), so the test of line 73   *)
(* never holds, and nothing remembers a notification.                      *)
(***************************************************************************)
VARIABLES main,      \* where main() is
          receiver,  \* where the thread that calls receiver() is
          sender,    \* where notify() is
          suspended, \* the event has a waiter
          frame,     \* the coroutine
          region,    \* what the shared region holds
          filled,    \* history: notify() has mapped and filled it
          shown      \* what the coroutine printed

memory == <<region, filled, shown>>
vars == <<main, receiver, sender, suspended, frame, memory>>

Init == /\ main = "open" /\ receiver = "start" /\ sender = "sleep"
        /\ suspended = FALSE /\ frame = "none"
        /\ region \in {"absent", "empty", "stale"}
        /\ filled = FALSE /\ shown = "nothing"

\* The threads are there once shm_open() has succeeded.
ReceiverGo(from, to) == main = "join" /\ receiver = from /\ receiver' = to
SenderGo(from, to) == main = "join" /\ sender = from /\ sender' = to
-------------------------------------------------------------------------------
ShmOpen == /\ main = "open"
           /\ \/ main' = "join" /\ region' = IF region = "absent" THEN "empty" ELSE region
              \/ main' = "thrown" /\ UNCHANGED region
           /\ UNCHANGED <<receiver, sender, suspended, frame, filled, shown>>

\* receiver() up to co_await: await_ready() is false, and await_suspend() stores
\* its own address.  From here on it may be resumed, though its thread is still in it.
Suspend == /\ ReceiverGo("start", "suspended")
           /\ suspended' = TRUE /\ frame' = "suspended"
           /\ UNCHANGED <<main, sender, memory>>

ReceiverReturns == /\ ReceiverGo("suspended", "returned")
                   /\ UNCHANGED <<main, sender, suspended, frame, memory>>
-------------------------------------------------------------------------------
Unchecked == "fill" \* mutant: waiter is not compared with nullptr
Found == IF suspended THEN "fill" ELSE "returned"
\* Without a waiter notify() does nothing more, now or later.
Load == /\ SenderGo("sleep", Found)
        /\ UNCHANGED <<main, receiver, suspended, frame, memory>>

\* ftruncate() and mmap(), which may fail: the coroutine is resumed all the same.
Fill == /\ SenderGo("fill", "resume")
        /\ \/ region' = "own" /\ filled' = TRUE
           \/ UNCHANGED <<region, filled>>
        /\ UNCHANGED <<main, receiver, suspended, frame, shown>>

\* coroutineHandle.resume(): the rest of receiver() runs in the sender's thread.
Resume == /\ SenderGo("resume", "body")
          /\ frame' = "body"
          /\ UNCHANGED <<main, receiver, suspended, memory>>

Body == /\ SenderGo("body", "returned")
        /\ frame' = "ended"
        /\ shown' \in {region, "nothing"} \* this mmap() may fail, too
        /\ UNCHANGED <<main, receiver, suspended, region, filled>>

\* A pointer of a process that is gone points anywhere: to print what is there may
\* end the program, with its threads and its coroutine.
Crash == /\ SenderGo("body", "dead")
         /\ region = "stale"
         /\ main' = "crashed" /\ frame' = "dead"
         /\ UNCHANGED <<receiver, suspended, memory>>
-------------------------------------------------------------------------------
JoinReceiver == receiver = "returned" \* mutant: senderT is not joined
Joined == receiver = "returned" /\ sender = "returned"
\* Both joins, close(fd) and shm_unlink().
Close == /\ main = "join" /\ Joined
         /\ main' = "done" /\ region' = "absent"
         /\ UNCHANGED <<receiver, sender, suspended, frame, filled, shown>>

Receiver == Suspend \/ ReceiverReturns
Sender == Load \/ Fill \/ Resume \/ Body \/ Crash
Main == ShmOpen \/ Close
Next == Receiver \/ Sender \/ Main
\* Both threads run, and main() joins them.
Spec == Init /\ [][Next]_vars /\ WF_vars(Receiver) /\ WF_vars(Sender) /\ WF_vars(Main)
-------------------------------------------------------------------------------
TypeOK == /\ main \in {"open", "join", "done", "thrown", "crashed"}
          /\ receiver \in {"start", "suspended", "returned"}
          /\ sender \in {"sleep", "fill", "resume", "body", "returned", "dead"}
          /\ suspended \in BOOLEAN /\ filled \in BOOLEAN
          /\ frame \in {"none", "suspended", "body", "ended", "dead"}
          /\ region \in {"absent", "empty", "stale", "own"}
          /\ shown \in {"nothing", "empty", "stale", "own"}

\* The coroutine is resumed once, only when it is suspended, while the descriptor
\* it uses is open; it prints what another run left, or crashes when it tries to,
\* only when notify() could not map the region (lines 99-116, 121-132, 156-159).
ResumedSafely == /\ TypeOK
                 /\ sender \in {"fill", "resume"} => frame = "suspended"
                 /\ frame = "body" => main = "join"
                 /\ shown \in {"stale", "empty"} \/ main = "crashed" => ~filled

\* A waiter that came before the notification is resumed and ends, unless the
\* program crashes, and one that came later stays suspended though main() returns
\* (lines 73-74, 97-101).
WaiterResumed == (sender = "fill" ~> frame = "ended" \/ main = "crashed")
                 /\ [](sender = "returned" /\ frame # "ended" => [](frame # "ended"))
Returns == WaiterResumed /\ <>(main \in {"done", "thrown", "crashed"})
===============================================================================
