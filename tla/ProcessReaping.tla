----------------------------- MODULE ProcessReaping -----------------------------
(***************************************************************************)
(* Chapter 2/waitpid_example.cpp: a parent forks two children and waits    *)
(* for one after the other.  It does not look at the result of fork():     *)
(* the -1 of a fork that failed makes waitpid() wait for any child.        *)
(***************************************************************************)
EXTENDS Naturals

VARIABLES parent, \* what it does, and with which of the two
          child,  \* [1..2 -> "none", "running", "zombie" or "reaped"]
          ended,  \* [1..2 -> how it ended]
          status, \* the variable of line 18
          said    \* the lines printed: about which pids[n], and what

vars == <<parent, child, ended, status, said>>
Children == 1..2
OwnCode(n) == IF n = 1 THEN "success" ELSE "failure"

Init == /\ parent = <<"fork", 1>>
        /\ child = [n \in Children |-> "none"] /\ ended = [n \in Children |-> "not"]
        /\ status = "success" /\ said = {}

Then(step, n) == IF n = 1 THEN <<step, 2>> ELSE IF step = "fork" THEN <<"wait", 1>> ELSE <<"done", 0>>
-------------------------------------------------------------------------------
Fork(n) == /\ parent = <<"fork", n>> /\ parent' = Then("fork", n)
           /\ \/ child' = [child EXCEPT ![n] = "running"]
              \/ UNCHANGED child
           /\ UNCHANGED <<ended, status, said>>

\* A child ends with exit(), or is killed.
End(n) == /\ child[n] = "running"
          /\ child' = [child EXCEPT ![n] = "zombie"]
          /\ ended' \in {[ended EXCEPT ![n] = how] : how \in {OwnCode(n), "signal"}}
          /\ UNCHANGED <<parent, status, said>>

AnyChild(n) == Children \* mutant: waitpid(-1) both times
\* The children that waitpid(pids[n]) is about
Awaited(n) == IF child[n] = "none" THEN Children ELSE {n}
Says(n, what) == said' = IF what = "signal" THEN said ELSE said \cup {<<n, what>>}

Reap(n) == /\ parent = <<"wait", n>> /\ parent' = Then("wait", n)
           /\ \E c \in Awaited(n) : /\ child[c] = "zombie"
                                    /\ child' = [child EXCEPT ![c] = "reaped"]
                                    /\ status' = ended[c]
           /\ Says(n, status')
           /\ UNCHANGED ended

\* waitpid() fails when there is no such child; status stays as it was.
NoChild(n) == /\ parent = <<"wait", n>> /\ parent' = Then("wait", n)
              /\ \A c \in Awaited(n) : child[c] \in {"none", "reaped"}
              /\ Says(n, status)
              /\ UNCHANGED <<child, ended, status>>

Parent == \E n \in Children : Fork(n) \/ Reap(n) \/ NoChild(n)
Next == Parent \/ \E n \in Children : End(n)
Spec == Init /\ [][Next]_vars /\ WF_vars(Parent) /\ \A n \in Children : WF_vars(End(n))
-------------------------------------------------------------------------------
\* Whatever fork() failed, whoever ended first and however: a line about a child
\* that there was tells how that child ended, and no child is left when the parent
\* returns (lines 18-29).
ReportsRight ==
  /\ \A line \in said : child[line[1]] # "none" => line[2] = ended[line[1]]
  /\ parent[1] = "done" => \A n \in Children : child[n] \in {"none", "reaped"}
Completes == <>(parent[1] = "done")
===============================================================================
