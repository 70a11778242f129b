---------------------------- MODULE CoopCancellation ----------------------------
(***************************************************************************)
(* Chapter 9/coop_cancellation.cpp: a worker waits on a condition variable *)
(* with a stop token, main() registers a callback for the same stop, and a *)
(* third thread requests it and runs what is registered.  wait() registers *)
(* a callback that notifies, and tests the token once more, in one step    *)
(* with falling asleep.                                                    *)
(***************************************************************************)
VARIABLES worker, main, stopper,
          stop,      \* stop was requested
          callbacks, \* registered and not yet run
          runs       \* history: the threads that ran main()'s callback

vars == <<worker, main, stopper, stop, callbacks, runs>>

Init == /\ worker = "wait" /\ main = "register" /\ stopper = "none"
        /\ stop = FALSE /\ callbacks = {} /\ runs = {}

WorkerGo(from, to) == /\ worker = from /\ worker' = to
                      /\ UNCHANGED <<main, stopper, stop, runs>>
-------------------------------------------------------------------------------
\* wait() with a token that was stopped before registers nothing.
Wait == /\ WorkerGo("wait", IF stop THEN "working" ELSE "test")
        /\ callbacks' = IF stop THEN callbacks ELSE callbacks \cup {"notify"}

NoTest == "asleep" \* mutant: the token is not tested again
Tested == IF stop THEN "working" ELSE "asleep"
Sleep == WorkerGo("test", Tested) /\ UNCHANGED callbacks

SpuriousWakeup == WorkerGo("asleep", "test") /\ UNCHANGED callbacks

\* wait() takes its callback back, and the thread returns.
WorkerReturns == /\ WorkerGo("working", "returned")
                 /\ callbacks' = callbacks \ {"notify"}
-------------------------------------------------------------------------------
\* The callback is registered, and then the stopper started.
RegisterCallback == /\ main = "register" /\ main' = "join"
                    /\ callbacks' = callbacks \cup {"main"}
                    /\ stopper' = "request"
                    /\ UNCHANGED <<worker, stop, runs>>

RequestStop == /\ stopper = "request" /\ stopper' = "callbacks"
               /\ stop' = TRUE
               /\ UNCHANGED <<worker, main, callbacks, runs>>

\* request_stop() runs the callbacks one by one, the worker's among them.
RunCallback == /\ stopper = "callbacks"
               /\ \E c \in callbacks :
                    /\ callbacks' = callbacks \ {c}
                    /\ runs' = IF c = "main" THEN runs \cup {"stopper"} ELSE runs
                    /\ worker' = IF c = "notify" /\ worker = "asleep" THEN "test" ELSE worker
               /\ UNCHANGED <<main, stopper, stop>>

StopperReturns == /\ stopper = "callbacks" /\ callbacks = {} /\ stopper' = "returned"
                  /\ UNCHANGED <<worker, main, stop, callbacks, runs>>

NotJoined == TRUE \* mutant: without stopper.join()
Joined == stopper = "returned"
\* join(), and the end of main(): ~stop_callback() takes the callback back.
DestroyCallback == /\ main = "join" /\ Joined /\ main' = "destroy_worker"
                   /\ callbacks' = callbacks \ {"main"}
                   /\ UNCHANGED <<worker, stopper, stop, runs>>

\* ~jthread() of the worker requests a stop that was requested before, and joins.
JoinWorker == /\ main = "destroy_worker" /\ stop /\ worker = "returned"
              /\ main' = "done"
              /\ UNCHANGED <<worker, stopper, stop, callbacks, runs>>

Worker == Wait \/ Sleep \/ WorkerReturns
Stopper == RequestStop \/ RunCallback \/ StopperReturns
Main == RegisterCallback \/ DestroyCallback \/ JoinWorker
Next == Worker \/ Stopper \/ Main \/ SpuriousWakeup
Spec == Init /\ [][Next]_vars /\ WF_vars(Worker) /\ WF_vars(Stopper) /\ WF_vars(Main)
-------------------------------------------------------------------------------
TypeOK == /\ worker \in {"wait", "test", "asleep", "working", "returned"}
          /\ main \in {"register", "join", "destroy_worker", "done"}
          /\ stopper \in {"none", "request", "callbacks", "returned"}
          /\ stop \in BOOLEAN
          /\ callbacks \subseteq {"main", "notify"} /\ runs \subseteq {"stopper"}

\* main()'s callback runs once, in the stopper's thread, before main() takes it
\* back; once stop was requested, a worker that sleeps has a notification coming
\* (lines 16-17, 24-38).
CallbackOnce == /\ TypeOK
                /\ main \in {"destroy_worker", "done"} => runs = {"stopper"}
                /\ runs = {"stopper"} => "main" \notin callbacks
                /\ stop /\ worker = "asleep" => "notify" \in callbacks
Completes == <>(main = "done")
===============================================================================
