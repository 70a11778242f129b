----------------------------- MODULE ReadWriteLock -----------------------------
(***************************************************************************)
(* Chapter 9/read_write_lock.cpp: five reading threads, each going through *)
(* the vector of books in its own way, two that add a book, a shared_mutex *)
(* and main(), which prints two books after it has joined them all.        *)
(***************************************************************************)
EXTENDS Naturals, Sequences, FiniteSets, SequencesExt

CONSTANTS Readers, \* threads that run a rd_ function
          Writers  \* threads that run wr_addNewBook, each with its book

Threads == Readers \cup Writers
FirstBooks == <<"Harry Potter", "East of Eden", "It">>

\* A thread runs one function, and a writer adds a book that is not there yet.
ThreadsBounds == /\ Readers \cap Writers = {} /\ IsFiniteSet(Writers)
                 /\ \A k \in DOMAIN FirstBooks : FirstBooks[k] \notin Writers

VARIABLES shared_data,
          moving, \* the writers inside emplace_back
          end,    \* end[t]: where the emplace_back of t puts its book
          at,     \* at[t]: where thread t is
          view,   \* view[t]: the vector a reader began to go through
          printed \* what main() printed

vars == <<shared_data, moving, end, at, view, printed>>

Init == /\ shared_data = FirstBooks
        /\ moving = {}
        /\ end = [t \in Writers |-> 0]
        /\ at = [t \in Threads |-> "lock"]
        /\ view = [t \in Readers |-> <<>>]
        /\ printed = <<>>

Go(t, from, to) == at[t] = from /\ at' = [at EXCEPT ![t] = to]
\* The lock objects of the functions hold the lock until they return.
Holding(t) == at[t] \in {"in", "emplace", "sleep"}
-------------------------------------------------------------------------------
NoReaderLock(t) == TRUE \* mutant: a reader without a lock
\* shared_lock: with other readers, but not with a writer
Shareable(t) == \A w \in Writers : ~Holding(w)
Enter(t) == /\ Shareable(t)
            /\ Go(t, "lock", "in")
            /\ view' = [view EXCEPT ![t] = shared_data]
            /\ UNCHANGED <<shared_data, moving, end, printed>>

\* The range-for has ended, and the shared_lock is destroyed.
Leave(t) == /\ Go(t, "in", "done")
            /\ UNCHANGED <<shared_data, moving, end, view, printed>>

\* lock_guard: alone
Exclusive(t) == \A u \in Threads : ~Holding(u)
Begin(t) == /\ Exclusive(t)
            /\ Go(t, "lock", "emplace")
            /\ end' = [end EXCEPT ![t] = Len(shared_data) + 1]
            /\ moving' = moving \cup {t}
            /\ UNCHANGED <<shared_data, view, printed>>

Extended(t) == SubSeq(shared_data, 1, end[t] - 1) \o <<t>>
\* emplace_back() returns with the book at the end it found.
Emplace(t) == /\ Go(t, "emplace", "sleep")
              /\ shared_data' = Extended(t)
              /\ moving' = moving \ {t}
              /\ UNCHANGED <<end, view, printed>>

\* sleep_for() with the lock held, and unlock
Unlock(t) == /\ Go(t, "sleep", "done")
             /\ UNCHANGED <<shared_data, moving, end, view, printed>>

Reader(t) == Enter(t) \/ Leave(t)
Writer(t) == Begin(t) \/ Emplace(t) \/ Unlock(t)

Joined == \A t \in Threads : at[t] = "done"
\* main() prints the second and third book.
MainPrints == /\ Joined /\ printed = <<>>
         /\ printed' = SubSeq(shared_data, 2, 3)
         /\ UNCHANGED <<shared_data, moving, end, at, view>>

Next == (\E t \in Readers : Reader(t)) \/ (\E t \in Writers : Writer(t)) \/ MainPrints

\* Every thread runs, and main() does when they have been joined.
Spec == /\ Init /\ [][Next]_vars
        /\ \A t \in Readers : WF_vars(Reader(t))
        /\ \A t \in Writers : WF_vars(Writer(t))
        /\ WF_vars(MainPrints)
-------------------------------------------------------------------------------
TypeOK == /\ IsPrefix(FirstBooks, shared_data)
          /\ moving \subseteq Writers
          /\ end \in [Writers -> 0..Len(FirstBooks) + Cardinality(Writers)]
          /\ at \in [Threads -> {"lock", "in", "emplace", "sleep", "done"}]
          /\ DOMAIN view = Readers
          /\ printed \in {<<>>, SubSeq(FirstBooks, 2, 3)}

\* The iterators of a reader stay good for all of its range-for: the vector is
\* the one it started with, and nobody is moving it to a larger block (lines
\* 29-33, 37-40, 44-51, 55-58 against 64-66).
IteratorsValid ==
  /\ TypeOK
  /\ \A t \in Readers : at[t] = "in" => view[t] = shared_data /\ moving = {}

\* Every book that was added is in the vector once, at whatever moment another
\* writer adds its own (lines 64-67), and main() reads the vector, without a
\* lock, only when nobody can change it any more (lines 86-101).
NoBookLost ==
  /\ \A t \in Writers : at[t] \in {"sleep", "done"} =>
       Cardinality({k \in DOMAIN shared_data : shared_data[k] = t}) = 1
  /\ printed # <<>> => \A t \in Threads : at[t] = "done"

\* Readers and writers cannot keep each other out for ever: main() prints
\* (lines 86-101).
MainReturns == <>(printed # <<>>)
===============================================================================
