------------------------------ MODULE StopRequest ------------------------------
(***************************************************************************)
(* Chapter 6/stop-source.cpp and stop-token.cpp: workers poll a stop token *)
(* until main() asks them to stop.  In the first program all tokens come   *)
(* from one source of main()'s, and the workers do not take the token that *)
(* their jthread has; in the second they take that.                        *)
(***************************************************************************)
EXTENDS Naturals

CONSTANT Count  \* workers: three in the code
CountBounds == Count \in Nat \ {0}

VARIABLES kind,      \* which of the programs runs
          requested, \* the sources that were asked to stop
          returned,  \* the workers that have returned
          main       \* what main() does, and with which thread

vars == <<kind, requested, returned, main>>
Workers == 1..Count
Shared == 0

Init == /\ kind \in {"stop-source", "stop-token"}
        /\ requested = {} /\ returned = {}
        /\ main = <<"request", 1>>

Token(w) == IF kind = "stop-source" THEN Shared ELSE w
Poll(w) == /\ w \notin returned /\ Token(w) \in requested
           /\ returned' = returned \cup {w}
           /\ UNCHANGED <<kind, requested, main>>

\* One request for all, or one for each thread in turn.
RequestStop == /\ main[1] = "request"
               /\ requested' = requested \cup {IF kind = "stop-source" THEN Shared ELSE main[2]}
               /\ main' = IF kind = "stop-token" /\ main[2] < Count
                          THEN <<"request", main[2] + 1>> ELSE <<"destroy", Count>>
               /\ UNCHANGED <<kind, returned>>

\* The array is destroyed from its end.  ~jthread() asks its own source, then joins.
Destroy == /\ main[1] = "destroy"
           /\ main[2] \notin requested
           /\ requested' = requested \cup {main[2]}
           /\ UNCHANGED <<kind, returned, main>>

Join == /\ main[1] = "destroy" /\ main[2] \in requested /\ main[2] \in returned
        /\ main' = IF main[2] = 1 THEN <<"done", 0>> ELSE <<"destroy", main[2] - 1>>
        /\ UNCHANGED <<kind, requested, returned>>

Main == RequestStop \/ Destroy \/ Join
Next == Main \/ \E w \in Workers : Poll(w)
Spec == Init /\ [][Next]_vars /\ WF_vars(Main) /\ \A w \in Workers : WF_vars(Poll(w))
-------------------------------------------------------------------------------
\* main() destroys its threads one after the other; the worker that it waits for,
\* and in stop-source.cpp every worker, has been asked before (lines 10-11, 31-36).
AskedBeforeJoin ==
  /\ main[1] = "destroy" /\ main[2] \in requested => Token(main[2]) \in requested
  /\ main[1] = "done" => returned = Workers
Completes == <>(main[1] = "done")
================================================================================
