----------------------------- MODULE AnonymousPipe -----------------------------
(***************************************************************************)
(* Chapter 3/anonymous_pipe_example.cpp and                                *)
(* anonymous_pipe_sigpipe_example.c: a parent writes a message to a pipe.  *)
(* In the first program ("reader") the child reads it; in the second       *)
(* ("sigpipe") the child closes both ends, and the parent ignores SIGPIPE. *)
(* Either process may be killed at any moment.                             *)
(***************************************************************************)
VARIABLES kind,          \* which of the programs runs
          parent, child, \* where the processes are
          ends,          \* [process -> the ends of the pipe it has open]
          full,          \* the message is in the pipe
          got            \* what the child read: "eof" is nothing, at the end of file

vars == <<kind, parent, child, ends, full, got>>
Both == {"read_end", "write_end"}
Ended == {"returned", "failed", "killed", "SIGPIPE"}

Init == /\ kind \in {"reader", "sigpipe"}
        /\ parent = "fork" /\ child = "none"
        /\ ends = [p \in {"parent", "child"} |-> IF p = "parent" THEN Both ELSE {}]
        /\ full = FALSE /\ got = "nothing"

\* A process that ends closes what it has open.
Left(p, to, keeps) == ends' = [ends EXCEPT ![p] = IF to \in Ended THEN {} ELSE keeps]
ParentGo(from, to, keeps) == /\ parent = from /\ parent' = to
                             /\ Left("parent", to, keeps)
                             /\ UNCHANGED <<kind, child>>
ChildGo(from, to, keeps) == /\ child = from /\ child' = to
                            /\ Left("child", to, keeps)
                            /\ UNCHANGED <<kind, parent>>
-------------------------------------------------------------------------------
AfterFork == IF kind = "reader" THEN "close" ELSE "sigaction"
Fork == /\ parent = "fork"
        /\ parent' = AfterFork /\ child' = "close_write"
        /\ ends' = [ends EXCEPT !["child"] = Both]
        /\ UNCHANGED <<kind, full, got>>

\* The second program does not look at the -1 and goes on as the parent.
ForkFails == /\ ParentGo("fork", IF kind = "reader" THEN "failed" ELSE "sigaction", Both)
             /\ UNCHANGED <<full, got>>

Sigaction == /\ \/ ParentGo("sigaction", "close", Both)
                \/ ParentGo("sigaction", "failed", Both)
             /\ UNCHANGED <<full, got>>

CloseRead == /\ ParentGo("close", "write", {"write_end"})
             /\ UNCHANGED <<full, got>>

Fatal == "SIGPIPE" \* mutant: SIG_DFL
NoReader == IF kind = "reader" THEN "SIGPIPE" ELSE "returned"
\* Without a reader write() fails, and the signal ends a process that does not
\* ignore it.
Write == /\ full' = ("read_end" \in ends["child"])
         /\ ParentGo("write", IF full' THEN "returned" ELSE NoReader, {"write_end"})
         /\ UNCHANGED got
-------------------------------------------------------------------------------
CloseNothing == Both \* mutant: the child keeps its write end
Closed == {"read_end"}
CloseWrite == /\ ChildGo("close_write", IF kind = "reader" THEN "read" ELSE "close_read", Closed)
              /\ UNCHANGED <<full, got>>

CloseReadToo == /\ ChildGo("close_read", "returned", {})
                /\ UNCHANGED <<full, got>>

\* read() blocks while the pipe is empty and somebody can still write to it.
Read == /\ full \/ \A p \in DOMAIN ends : "write_end" \notin ends[p]
        /\ ChildGo("read", "returned", {})
        /\ got' = IF full THEN "message" ELSE "eof"
        /\ full' = FALSE

Kill == /\ \/ parent \notin Ended \cup {"fork"} /\ ParentGo(parent, "killed", {})
           \/ child \notin Ended \cup {"none"} /\ ChildGo(child, "killed", {})
        /\ UNCHANGED <<full, got>>

Parent == Fork \/ ForkFails \/ Sigaction \/ CloseRead \/ Write
Child == CloseWrite \/ CloseReadToo \/ Read
Next == Parent \/ Child \/ Kill
\* Both processes run; nobody has to kill them.
Spec == Init /\ [][Next]_vars /\ WF_vars(Parent) /\ WF_vars(Child)
-------------------------------------------------------------------------------
\* The message is lost only with a process that was killed: SIGPIPE ends the first
\* program's parent only when its reader was, and never the second's; the child
\* reads an end of file only when its parent was (lines 24-36; 26-37).
LostWithProcess ==
  /\ parent = "SIGPIPE" => kind = "reader" /\ child = "killed"
  /\ got = "eof" => parent = "killed"
  /\ kind = "reader" /\ parent = "returned" /\ child = "returned" => got = "message"

\* Nobody is left in write() or read(), whoever was killed (lines 28, 35).
Completes == <>(parent \in Ended /\ child \in Ended \cup {"none"})
===============================================================================
