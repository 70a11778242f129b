------------------------------- MODULE NamedPipe -------------------------------
(***************************************************************************)
(* Chapter 3/named_pipe_example.c and cpp_and_named_pipe.cpp: a parent and *)
(* its child send each other a message through the FIFO "example_fifo",    *)
(* which both open O_RDWR.  The sleeps give the other side time but no     *)
(* guarantee, so they are no steps here.  A child that found no message    *)
(* waits on after its parent has returned to the shell and one of the two  *)
(* programs is started in the same directory.                              *)
(***************************************************************************)
EXTENDS Naturals, Sequences, FiniteSets

CONSTANT Runs \* bound: how often a program is started

RunsBound == Runs \in Nat \ {0}

Parent(r) == <<"parent", r>>
Child(r) == <<"child", r>>
Processes == {"parent", "child"} \X (1..Runs)

VARIABLES program, \* program[r]: "C" or "C++", the program of run r
          fifo,    \* the FIFO with the name: 0 for none, or the run that made it
          pipe,    \* pipe[f]: the messages in FIFO f, by sender
          at,      \* at[p]: the next call of process p
          fd,      \* fd[p]: the FIFO p has open, 0 for none
          run      \* how often a program was started

kernel == <<fifo, pipe, fd>>
vars == <<program, kernel, at, run>>

\* Only the C++ program looks at the FIFO before it uses it, and removes it.
First(r) == IF program[r] = "C++" THEN "exists" ELSE "mkfifo"

Init == /\ program \in [1..Runs -> {"C", "C++"}]
        /\ fifo = 0
        /\ pipe = [f \in 1..Runs |-> <<>>]
        /\ at = [p \in Processes |-> IF p = Parent(1) THEN First(1) ELSE "unborn"]
        /\ fd = [p \in Processes |-> 0]
        /\ run = 1

Go(p, from, to) == /\ at[p] = from /\ at' = [at EXCEPT ![p] = to]
                   /\ UNCHANGED <<program, run>>
-------------------------------------------------------------------------------
\* C++: exists(); then the FIFO may go, and mkfifo() is not called.
Exists(r) == /\ Go(Parent(r), "exists", IF fifo = 0 THEN "mkfifo" ELSE "fork")
             /\ UNCHANGED kernel

\* mkfifo(), which fails when there is one, or for want of room or permission;
\* nobody minds.
Mkfifo(r) == /\ Go(Parent(r), "mkfifo", "fork")
             /\ fifo' \in IF fifo = 0 THEN {0, r} ELSE {fifo}
             /\ UNCHANGED <<pipe, fd>>

Fork(r) == /\ at[Parent(r)] = "fork"
           /\ at' = [p \in Processes |->
                       IF p \in {Parent(r), Child(r)}
                         THEN IF program[r] = "C++" THEN "is_fifo" ELSE "open"
                         ELSE at[p]]
           /\ UNCHANGED <<program, kernel, run>>

\* There is no process left for the child: the program ends, the C++ program by
\* exit(), and neither removes the FIFO.
ForkFails(r) == Go(Parent(r), "fork", "failed") /\ UNCHANGED kernel

IsFifo(p) == /\ Go(p, "is_fifo", IF fifo = 0 THEN "done" ELSE "open")
             /\ UNCHANGED kernel

\* open(O_RDWR) does not wait for the other side.  It fails when the FIFO is gone,
\* or for want of a descriptor; then nothing that the process still calls before
\* remove() has an effect on a FIFO.
Open(p) == \E d \in {0, fifo} :
             /\ Go(p, "open", IF d = 0 THEN "remove"
                              ELSE IF p[1] = "parent" THEN "write" ELSE "read")
             /\ fd' = [fd EXCEPT ![p] = d]
             /\ UNCHANGED <<fifo, pipe>>

Write(p, from, to) == /\ Go(p, from, to)
                      /\ pipe' = [pipe EXCEPT ![fd[p]] = Append(@, p)]
                      /\ UNCHANGED <<fifo, fd>>

AfterRead == "reply"
\* read() blocks while the FIFO is empty, for with O_RDWR there is always a
\* writer, and takes all there is, which is at most one message (Balance).
Read(p) == /\ at[p] = "read" /\ pipe[fd[p]] # <<>>
           /\ Go(p, "read", IF p[1] = "parent" THEN "close" ELSE AfterRead)
           /\ pipe' = [pipe EXCEPT ![fd[p]] = <<>>]
           /\ UNCHANGED <<fifo, fd>>

\* With the last descriptor go the messages.
Close(p) == /\ Go(p, "close", "remove")
            /\ fd' = [fd EXCEPT ![p] = 0]
            /\ pipe' = IF \E q \in Processes \ {p} : fd[q] = fd[p] THEN pipe
                       ELSE [pipe EXCEPT ![fd[p]] = <<>>]
            /\ UNCHANGED fifo

NameKept(p) == fifo \* mutant: the FIFO is not removed
NameAfter(p) == IF program[p[2]] = "C++" THEN 0 ELSE fifo
\* remove() takes the name away, whichever FIFO has it now.
Remove(p) == /\ Go(p, "remove", "done")
             /\ fifo' = NameAfter(p)
             /\ UNCHANGED <<pipe, fd>>

\* The shell is back when the parent has ended.
Ended == {"done", "failed"}
Again == /\ at[Parent(run)] \in Ended /\ run < Runs
         /\ run' = run + 1
         /\ at' = [at EXCEPT ![Parent(run + 1)] = First(run + 1)]
         /\ UNCHANGED <<program, kernel>>

Start(r) == Exists(r) \/ Mkfifo(r) \/ Fork(r) \/ ForkFails(r)
Step(p) == \/ IsFifo(p) \/ Open(p) \/ Read(p) \/ Close(p) \/ Remove(p)
           \/ Write(p, "write", "read") \/ Write(p, "reply", "close")
Next == \/ \E r \in 1..Runs : Start(r)
        \/ \E p \in Processes : Step(p)
        \/ Again

\* Every process that was started runs.
Spec == /\ Init /\ [][Next]_vars
        /\ \A r \in 1..Runs : WF_vars(Start(r))
        /\ \A p \in Processes : WF_vars(Step(p))
-------------------------------------------------------------------------------
Places == {"unborn", "exists", "mkfifo", "fork", "is_fifo", "open", "write",
           "read", "reply", "close", "remove", "done", "failed"}
TypeOK == /\ program \in [1..Runs -> {"C", "C++"}]
          /\ fifo \in 0..Runs
          /\ pipe \in [1..Runs -> Seq(Processes)]
          /\ at \in [Processes -> Places]
          /\ fd \in [Processes -> 0..Runs]
          /\ \A p \in Processes :
               fd[p] # 0 <=> at[p] \in {"write", "read", "reply", "close"}
          /\ run \in 1..Runs

\* For every parent that waits in read() its FIFO holds a message, or a child of
\* this or an earlier run is about to write one: children that were left behind
\* pass messages on, and no message is left over (C: lines 24-35, 47-56; C++:
\* lines 50-55, 69-73).
At(f, processes, place) == {p \in processes : at[p] = place /\ fd[p] = f}
Balance ==
  /\ TypeOK
  /\ \A f \in 1..Runs :
       Len(pipe[f]) + Cardinality(At(f, {Child(r) : r \in 1..Runs}, "reply"))
         = Cardinality(At(f, {Parent(r) : r \in 1..Runs}, "read"))

\* So a parent is never left waiting, though its child may be, and it may be its
\* own message that it reads.
ParentReturns == \A r \in 1..Runs :
  (at[Parent(r)] = "fork" \/ at[Parent(r)] = "write") ~> at[Parent(r)] \in Ended

\* When a C++ parent that had a child has ended there is no FIFO of that name,
\* whoever removed it, also when an old child was slow and removed a later run's
\* (line 81).  A parent whose fork() failed leaves it (lines 37-40).
NothingLeft == at[Parent(run)] = "done" /\ program[run] = "C++" => fifo = 0

\* Neither a message nor, after a C++ program whose fork() worked, a FIFO is left
\* over (C lines 24-56; C++ lines 37-81).
PipesBalanced == Balance /\ NothingLeft
===============================================================================
