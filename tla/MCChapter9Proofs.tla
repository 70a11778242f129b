---------------------------- MODULE MCChapter9Proofs ----------------------------
(***************************************************************************)
(* Proofs about the programs of MCChapter9, for any readers and writers.   *)
(* A run of MCChapter9 is a run of one of its programs, so each part       *)
(* proves what holds of the steps of one program and ends with what holds  *)
(* of every run.                                                           *)
(***************************************************************************)
EXTENDS MCChapter9, Naturals, Sequences, SequenceTheorems, FiniteSetTheorems, TLAPS

-------------------------------------------------------------------------------
(* The shared memory of shared_mem_sp.cpp *)

\* Whoever maps the region to print it finds what this run's producer put there;
\* work_done tells the consumer so.
MessageInv ==
  /\ Shm!TypeOK
  /\ \A t \in Shm!Threads : got[t] \in {"nothing", "new"}
  /\ work_done => region = "new"
  /\ shm_at["producer"] \in {"unlock", "notify", "print"} => region = "new"
  /\ shm_at["consumer"] \in {"open", "map", "unlock", "print"} => region = "new"

LEMMA MessageStepHolds ==
  ASSUME MessageInv, NEW t \in Shm!Threads, Shm!Thread(t) \/ Shm!Spurious(t)
  PROVE  MessageInv'
<1> USE DEF Shm!Threads, Shm!Regions, MessageInv, Shm!TypeOK, Shm!Go
<1>1. CASE Shm!Lock(t)
  BY <1>1 DEF Shm!Lock
<1>2. CASE Shm!Pass(t)
  <2>1. t = "consumer" => work_done
    BY <1>2 DEF Shm!Pass, Shm!Predicate
  <2>2. QED
    BY <1>2, <2>1 DEF Shm!Pass
<1>3. CASE Shm!Sleep(t)
  BY <1>3 DEF Shm!Sleep
<1>4. CASE Shm!Open(t)
  BY <1>4 DEF Shm!Open
<1>5. CASE Shm!Throw(t)
  BY <1>5 DEF Shm!Throw
<1>6. CASE Shm!Construct
  BY <1>6 DEF Shm!Construct
<1>7. CASE Shm!Notify
  BY <1>7 DEF Shm!Notify, Shm!Woken
<1>8. CASE Shm!Cast
  BY <1>8 DEF Shm!Cast
<1>9. CASE Shm!Unlock(t)
  BY <1>9 DEF Shm!Unlock
<1>10. CASE Shm!Show(t)
  BY <1>10 DEF Shm!Show
<1>11. CASE Shm!Spurious(t)
  BY <1>11 DEF Shm!Spurious
<1>12. QED
  BY <1>1, <1>2, <1>3, <1>4, <1>5, <1>6, <1>7, <1>8, <1>9, <1>10, <1>11 DEF Shm!Thread

\* Producer and consumer print the pointer of this run, whatever an earlier run left
\* in the region, whichever waits first and however often it wakes up
\* (shared_mem_sp.cpp lines 38, 77, 112-119).
THEOREM MessageIsOwn == Spec => []OwnMessage
<1>1. Init => MessageInv
  BY DEF Init, Shm!Init, MessageInv, Shm!TypeOK, Shm!Threads, Shm!Regions
<1>2. MessageInv /\ [Next]_vars => MessageInv'
  <2>1. ASSUME MessageInv, UNCHANGED shmVars PROVE MessageInv'
    BY <2>1 DEF shmVars, MessageInv, Shm!TypeOK
  <2>2. [Next]_vars => Shm!Next \/ UNCHANGED shmVars
    BY DEF Next, vars, BooksStep, ShmStep, CondStep
  <2>3. QED
    BY <2>1, <2>2, MessageStepHolds DEF Shm!Next, Shm!SpuriousWakeup
<1>3. MessageInv => OwnMessage
  BY DEF MessageInv, OwnMessage, Shm!OwnMessage
<1>4. QED
  BY <1>1, <1>2, <1>3, PTL DEF Spec
-------------------------------------------------------------------------------
(* The lock of read_write_lock.cpp *)

\* The writers whose book is in the vector
Added == {w \in Writers : books_at[w] \in {"sleep", "done"}}
Titles == {"Harry Potter", "East of Eden", "It"}

\* Each of them has added one book, behind those that were there before.
VectorInv ==
  /\ shared_data \in Seq(Titles \cup Writers)
  /\ Len(shared_data) = 3 + Cardinality(Added)
  /\ \A k \in 1..3 : shared_data[k] = Books!FirstBooks[k]
  /\ \A k \in 4..Len(shared_data) : shared_data[k] \in Added
  /\ \A w \in Added : \E k \in 4..Len(shared_data) : shared_data[k] = w
  /\ \A k, l \in 4..Len(shared_data) : shared_data[k] = shared_data[l] => k = l

\* A writer holds the lock alone, and a reader without a writer.
LockInv ==
  /\ books_at \in [Books!Threads -> {"lock", "in", "emplace", "sleep", "done"}]
  /\ \A t \in Readers : books_at[t] \in {"lock", "in", "done"}
  /\ \A t \in Writers : books_at[t] # "in"
  /\ \A w \in Writers, u \in Books!Threads : Books!Holding(w) /\ Books!Holding(u) => u = w

BooksInv ==
  /\ LockInv /\ VectorInv
  /\ DOMAIN view = Readers
  /\ end \in [Writers -> 0..3 + Cardinality(Writers)]
  /\ moving = {w \in Writers : books_at[w] = "emplace"}
  /\ \A w \in Writers : books_at[w] = "emplace" => end[w] = Len(shared_data) + 1
  /\ \A t \in Readers : books_at[t] = "in" => view[t] = shared_data
  /\ printed \in {<<>>, SubSeq(Books!FirstBooks, 2, 3)}
  /\ printed # <<>> => \A t \in Books!Threads : books_at[t] = "done"

\* ReadWriteLock counts with the operators of FiniteSets, which the instance renames.
LEMMA BooksCount ==
  \A S : /\ Books!Cardinality(S) = Cardinality(S)
         /\ Books!IsFiniteSet(S) <=> IsFiniteSet(S)
<1>1. \A S : Books!Cardinality(S) = Cardinality(S)
  BY DEF Books!Cardinality, Cardinality
<1>2. \A S : Books!IsFiniteSet(S) <=> IsFiniteSet(S)
  BY DEF Books!IsFiniteSet, IsFiniteSet
<1>3. QED
  BY <1>1, <1>2

LEMMA CountingAdded ==
  /\ IsFiniteSet(Writers) /\ Cardinality(Writers) \in Nat
  /\ IsFiniteSet(Added) /\ Cardinality(Added) \in 0..Cardinality(Writers)
  /\ \A w \in Writers \ Added : Cardinality(Added) < Cardinality(Writers)
<1>1. IsFiniteSet(Writers)
  BY ThreadsAssumption, BooksCount DEF Books!ThreadsBounds
<1>2. Added \subseteq Writers
  BY DEF Added
<1>3. ASSUME NEW w \in Writers, w \notin Added PROVE Cardinality(Added) < Cardinality(Writers)
  <2>1. Added \subseteq Writers \ {w}
    BY <1>2, <1>3
  <2>2. IsFiniteSet(Writers \ {w}) /\ Cardinality(Writers \ {w}) = Cardinality(Writers) - 1
    BY <1>1, FS_RemoveElement
  <2>3. QED
    BY <1>1, <2>1, <2>2, FS_Subset, FS_CardinalityType
<1>4. QED
  BY <1>1, <1>2, <1>3, FS_Subset, FS_CardinalityType

\* A book that comes at the end is one more, of a writer that had added none.
LEMMA EmplaceExtends ==
  ASSUME BooksInv, NEW w \in Writers, Books!Emplace(w)
  PROVE  /\ shared_data' = Append(shared_data, w)
         /\ Added' = Added \cup {w} /\ w \notin Added
<1>1. books_at[w] = "emplace" /\ books_at' = [books_at EXCEPT ![w] = "sleep"]
  BY DEF Books!Emplace, Books!Go
<1>2. end[w] = Len(shared_data) + 1 /\ shared_data \in Seq(Titles \cup Writers)
  BY <1>1 DEF BooksInv, VectorInv
<1>3. end[w] - 1 = Len(shared_data)
  BY <1>2
<1>4. shared_data' = SubSeq(shared_data, 1, Len(shared_data)) \o <<w>>
  BY <1>3 DEF Books!Emplace, Books!Extended
<1>5. SubSeq(shared_data, 1, Len(shared_data)) = shared_data
  BY <1>2, SubSeqFull
<1>6. shared_data \o <<w>> = Append(shared_data, w)
  BY <1>2, AppendIsConcat
<1>7. Added' = Added \cup {w} /\ w \notin Added
  BY <1>1 DEF Added, BooksInv, LockInv, Books!Threads
<1>8. QED
  BY <1>4, <1>5, <1>6, <1>7

LEMMA VectorGrows ==
  ASSUME BooksInv, NEW w \in Writers, Books!Emplace(w)
  PROVE  VectorInv'
<1> DEFINE n == Len(shared_data)
<1>1. /\ shared_data \in Seq(Titles \cup Writers) /\ w \in Titles \cup Writers
      /\ n \in Nat /\ n = 3 + Cardinality(Added) /\ n >= 3
  BY CountingAdded DEF BooksInv, VectorInv
<1>2. shared_data' = Append(shared_data, w) /\ Added' = Added \cup {w} /\ w \notin Added
  BY EmplaceExtends
<1>3. /\ shared_data' \in Seq(Titles \cup Writers) /\ Len(shared_data') = n + 1
      /\ \A k \in 1..n : shared_data'[k] = shared_data[k]
      /\ shared_data'[n + 1] = w
  BY <1>1, <1>2, AppendProperties
<1>4. Len(shared_data') = 3 + Cardinality(Added')
  <2>1. Cardinality(Added') = Cardinality(Added) + 1
    BY <1>2, CountingAdded, FS_AddElement
  <2>2. Cardinality(Added) \in Nat
    BY CountingAdded
  <2>3. QED
    BY <1>1, <1>3, <2>1, <2>2
<1>5. /\ \A k \in 1..3 : shared_data'[k] = Books!FirstBooks[k]
      /\ \A k \in 4..n : shared_data'[k] = shared_data[k] /\ shared_data[k] \in Added
  BY <1>1, <1>3 DEF BooksInv, VectorInv
<1>6. \A k \in 4..n + 1 : shared_data'[k] \in Added'
  BY <1>1, <1>2, <1>3, <1>5
<1>7. \A u \in Added' : \E k \in 4..n + 1 : shared_data'[k] = u
  <2>1. ASSUME NEW u \in Added PROVE \E k \in 4..n + 1 : shared_data'[k] = u
    <3>1. PICK k \in 4..n : shared_data[k] = u
      BY DEF BooksInv, VectorInv
    <3>2. k \in 4..n + 1 /\ shared_data'[k] = u
      BY <1>1, <1>5, <3>1
    <3>3. QED
      BY <3>2
  <2>2. n + 1 \in 4..n + 1
    BY <1>1
  <2>3. QED
    BY <1>2, <1>3, <2>1, <2>2
<1>8. ASSUME NEW k \in 4..n + 1, NEW l \in 4..n + 1, shared_data'[k] = shared_data'[l]
      PROVE  k = l
  <2>1. k \in 4..n \/ k = n + 1
    BY <1>1
  <2>2. l \in 4..n \/ l = n + 1
    BY <1>1
  <2>3. CASE k \in 4..n /\ l \in 4..n
    BY <1>5, <1>8, <2>3 DEF BooksInv, VectorInv
  <2>4. QED
    BY <1>2, <1>3, <1>5, <1>8, <2>1, <2>2, <2>3
<1>9. QED
  BY <1>3, <1>4, <1>5, <1>6, <1>7, <1>8 DEF VectorInv

\* Every step of a thread keeps the exclusion of the lock.
LEMMA LockHolds ==
  ASSUME LockInv, NEW t \in Books!Threads,
         (t \in Readers /\ Books!Reader(t)) \/ (t \in Writers /\ Books!Writer(t))
  PROVE  LockInv'
<1> USE ThreadsAssumption DEF Books!ThreadsBounds, LockInv, Books!Threads, Books!Go
<1>1. CASE t \in Readers /\ Books!Enter(t)
  BY <1>1 DEF Books!Enter, Books!Shareable, Books!Holding
<1>2. CASE t \in Readers /\ Books!Leave(t)
  BY <1>2 DEF Books!Leave, Books!Holding
<1>3. CASE t \in Writers /\ Books!Begin(t)
  BY <1>3 DEF Books!Begin, Books!Exclusive, Books!Holding
<1>4. CASE t \in Writers /\ Books!Emplace(t)
  BY <1>4 DEF Books!Emplace, Books!Holding
<1>5. CASE t \in Writers /\ Books!Unlock(t)
  BY <1>5 DEF Books!Unlock, Books!Holding
<1>6. QED
  BY <1>1, <1>2, <1>3, <1>4, <1>5 DEF Books!Reader, Books!Writer

\* The vector that main() makes
LEMMA ThreeBooks ==
  Books!FirstBooks \in Seq(Titles \cup Writers) /\ Len(Books!FirstBooks) = 3
BY DEF Books!FirstBooks, Titles

\* What main() prints of a vector
LEMMA SecondAndThird ==
  ASSUME NEW S, NEW s \in Seq(S), Len(s) >= 3
  PROVE  SubSeq(s, 2, 3) = <<s[2], s[3]>>
<1>1. \A k \in 2..3 : s[k] \in S
  OBVIOUS
<1>2. /\ SubSeq(s, 2, 3) \in Seq(S) /\ Len(SubSeq(s, 2, 3)) = 2
      /\ \A k \in 1..2 : SubSeq(s, 2, 3)[k] = s[k + 1]
  BY <1>1, SubSeqProperties
<1>3. <<s[2], s[3]>> \in Seq(S) /\ Len(<<s[2], s[3]>>) = 2
  BY <1>1
<1>4. \A k \in 1..2 : SubSeq(s, 2, 3)[k] = <<s[2], s[3]>>[k]
  BY <1>2
<1>5. QED
  BY <1>2, <1>3, <1>4, SeqEqual

\* What leaves the vector alone and puts no thread past emplace_back keeps it.
LEMMA VectorStays ==
  ASSUME VectorInv, shared_data' = shared_data, Added' = Added
  PROVE  VectorInv'
BY DEF VectorInv

LEMMA BooksStepHolds ==
  ASSUME BooksInv, Books!Next
  PROVE  BooksInv'
<1> USE ThreadsAssumption DEF Books!ThreadsBounds, Books!Threads, Books!Go
<1>1. ASSUME NEW t \in Readers, Books!Enter(t) PROVE BooksInv'
  <2>1. LockInv' /\ Added' = Added
    BY <1>1, LockHolds DEF BooksInv, LockInv, Books!Reader, Books!Enter, Added
  <2>2. moving = {}
    BY <1>1 DEF BooksInv, Books!Enter, Books!Shareable, Books!Holding
  <2>3. VectorInv'
    BY <1>1, <2>1, VectorStays DEF BooksInv, Books!Enter
  <2>4. QED
    BY <1>1, <2>1, <2>2, <2>3 DEF BooksInv, LockInv, Books!Enter
<1>2. ASSUME NEW t \in Readers, Books!Leave(t) PROVE BooksInv'
  <2>1. LockInv' /\ Added' = Added
    BY <1>2, LockHolds DEF BooksInv, LockInv, Books!Reader, Books!Leave, Added
  <2>2. VectorInv'
    BY <1>2, <2>1, VectorStays DEF BooksInv, Books!Leave
  <2>3. QED
    BY <1>2, <2>1, <2>2 DEF BooksInv, LockInv, Books!Leave
<1>3. ASSUME NEW t \in Writers, Books!Begin(t) PROVE BooksInv'
  <2>1. LockInv' /\ Added' = Added
    BY <1>3, LockHolds DEF BooksInv, LockInv, Books!Writer, Books!Begin, Added
  <2>2. VectorInv'
    BY <1>3, <2>1, VectorStays DEF BooksInv, Books!Begin
  <2>3. Len(shared_data) + 1 \in 0..3 + Cardinality(Writers)
    <3>1. t \in Writers \ Added
      BY <1>3 DEF Books!Begin, Added
    <3>2. /\ Cardinality(Added) < Cardinality(Writers)
          /\ Cardinality(Added) \in Nat /\ Cardinality(Writers) \in Nat
      BY <3>1, CountingAdded
    <3>3. Len(shared_data) = 3 + Cardinality(Added)
      BY DEF BooksInv, VectorInv
    <3>4. QED
      BY <3>2, <3>3
  <2>4. \A u \in Books!Threads : books_at[u] \notin {"in", "emplace", "sleep"}
    BY <1>3 DEF Books!Begin, Books!Exclusive, Books!Holding
  <2>5. QED
    BY <1>3, <2>1, <2>2, <2>3, <2>4 DEF BooksInv, LockInv, Books!Begin
<1>4. ASSUME NEW t \in Writers, Books!Emplace(t) PROVE BooksInv'
  <2>1. LockInv' /\ VectorInv'
    BY <1>4, LockHolds, VectorGrows DEF BooksInv, Books!Writer
  <2>2. \A u \in Books!Threads \ {t} : books_at[u] \notin {"in", "emplace", "sleep"}
    BY <1>4 DEF BooksInv, LockInv, Books!Emplace, Books!Holding
  <2>3. QED
    BY <1>4, <2>1, <2>2 DEF BooksInv, LockInv, Books!Emplace
<1>5. ASSUME NEW t \in Writers, Books!Unlock(t) PROVE BooksInv'
  <2>1. LockInv' /\ Added' = Added
    BY <1>5, LockHolds DEF BooksInv, LockInv, Books!Writer, Books!Unlock, Added
  <2>2. VectorInv'
    BY <1>5, <2>1, VectorStays DEF BooksInv, Books!Unlock
  <2>3. QED
    BY <1>5, <2>1, <2>2 DEF BooksInv, LockInv, Books!Unlock
<1>6. CASE Books!MainPrints
  <2>1. SubSeq(shared_data, 2, 3) = SubSeq(Books!FirstBooks, 2, 3)
    <3>1. /\ shared_data \in Seq(Titles \cup Writers) /\ Len(shared_data) >= 3
          /\ shared_data[2] = Books!FirstBooks[2] /\ shared_data[3] = Books!FirstBooks[3]
      BY CountingAdded DEF BooksInv, VectorInv
    <3>2. Books!FirstBooks \in Seq(Titles \cup Writers) /\ Len(Books!FirstBooks) = 3
      BY ThreeBooks
    <3>3. SubSeq(shared_data, 2, 3) = <<shared_data[2], shared_data[3]>>
      BY <3>1, SecondAndThird
    <3>4. SubSeq(Books!FirstBooks, 2, 3) = <<Books!FirstBooks[2], Books!FirstBooks[3]>>
      BY <3>2, SecondAndThird
    <3>5. QED
      BY <3>1, <3>3, <3>4
  <2>2. Added' = Added /\ LockInv'
    BY <1>6 DEF BooksInv, LockInv, Books!MainPrints, Books!Holding, Added
  <2>3. VectorInv'
    BY <1>6, <2>2, VectorStays DEF BooksInv, Books!MainPrints
  <2>4. QED
    BY <1>6, <2>1, <2>2, <2>3 DEF BooksInv, Books!MainPrints, Books!Joined
<1>7. QED
  BY <1>1, <1>2, <1>3, <1>4, <1>5, <1>6 DEF Books!Next, Books!Reader, Books!Writer

\* No thread has begun, and no book was added.
LEMMA BooksInit == Books!Init => BooksInv
<1>1. SUFFICES ASSUME Books!Init PROVE BooksInv
  OBVIOUS
<1>2. Added = {} /\ Cardinality({}) = 0
  BY <1>1, FS_EmptySet DEF Books!Init, Added, Books!Threads
<1>3. shared_data = Books!FirstBooks /\ shared_data \in Seq(Titles \cup Writers)
  BY <1>1, ThreeBooks DEF Books!Init
<1>4. Len(shared_data) = 3
  BY <1>3, ThreeBooks
<1>5. VectorInv
  BY <1>2, <1>3, <1>4 DEF VectorInv
<1>6. LockInv
  BY <1>1 DEF Books!Init, LockInv, Books!Threads, Books!Holding
<1>7. QED
  BY <1>1, <1>5, <1>6, CountingAdded DEF Books!Init, BooksInv, Books!Threads

\* The vector begins with the books it began with, and has each added book once.
LEMMA BooksAreSafe == BooksInv => BooksSafe
<1>1. SUFFICES ASSUME BooksInv PROVE BooksSafe
  OBVIOUS
<1>2. Books!IsPrefix(Books!FirstBooks, shared_data)
  <2>1. /\ shared_data \in Seq(Titles \cup Writers) /\ Len(shared_data) >= 3
        /\ \A k \in 1..3 : shared_data[k] = Books!FirstBooks[k]
    BY <1>1, CountingAdded DEF BooksInv, VectorInv
  <2>2. Books!FirstBooks \in Seq(Titles \cup Writers) /\ Len(Books!FirstBooks) = 3
    BY ThreeBooks
  <2>3. /\ SubSeq(shared_data, 1, 3) \in Seq(Titles \cup Writers)
        /\ Len(SubSeq(shared_data, 1, 3)) = 3
        /\ \A k \in 1..3 : SubSeq(shared_data, 1, 3)[k] = shared_data[k]
    BY <2>1, SubSeqProperties
  <2>4. SubSeq(Books!FirstBooks, 1, 3) = Books!FirstBooks
    BY <2>2, SubSeqFull
  <2>5. SubSeq(shared_data, 1, 3) = Books!FirstBooks
    BY <2>1, <2>2, <2>3, SeqEqual
  <2>6. QED
    BY <2>1, <2>2, <2>4, <2>5 DEF Books!IsPrefix
<1>3. Books!TypeOK
  BY <1>1, <1>2, BooksCount
     DEF BooksInv, LockInv, Books!TypeOK, Books!FirstBooks
<1>4. ASSUME NEW w \in Writers, books_at[w] \in {"sleep", "done"}
      PROVE  Cardinality({k \in DOMAIN shared_data : shared_data[k] = w}) = 1
  <2>1. PICK n \in 4..Len(shared_data) : shared_data[n] = w
    BY <1>1, <1>4 DEF BooksInv, VectorInv, Added
  <2>2. DOMAIN shared_data = 1..Len(shared_data) /\ Len(shared_data) \in Nat
    BY <1>1 DEF BooksInv, VectorInv
  <2>3. \A k \in 1..3 : shared_data[k] # w
    <3>1. DOMAIN Books!FirstBooks = 1..3
      BY DEF Books!FirstBooks
    <3>2. \A k \in 1..3 : Books!FirstBooks[k] \notin Writers
      BY <3>1, ThreadsAssumption DEF Books!ThreadsBounds
    <3>3. QED
      BY <1>1, <3>2 DEF BooksInv, VectorInv
  <2>4. \A k \in DOMAIN shared_data : shared_data[k] = w <=> k = n
    <3>1. \A k \in DOMAIN shared_data : k \in 1..3 \/ k \in 4..Len(shared_data)
      BY <2>2
    <3>2. QED
      BY <1>1, <2>1, <2>3, <3>1 DEF BooksInv, VectorInv
  <2>5. {k \in DOMAIN shared_data : shared_data[k] = w} = {n}
    BY <2>1, <2>2, <2>4
  <2>6. QED
    BY <2>5, FS_Singleton
<1>5. Books!NoBookLost
  <2>1. ASSUME NEW w \in Writers, books_at[w] \in {"sleep", "done"}
        PROVE  Books!Cardinality({k \in DOMAIN shared_data : shared_data[k] = w}) = 1
    BY <1>4, <2>1, BooksCount
  <2>2. QED
    BY <1>1, <2>1 DEF BooksInv, Books!NoBookLost
<1>6. Books!IteratorsValid
  BY <1>1, <1>3 DEF BooksInv, LockInv, Books!IteratorsValid, Books!Holding, Books!Threads
<1>7. QED
  BY <1>5, <1>6 DEF BooksSafe

\* A reader goes through one vector, and no book is lost or added twice, for any
\* number of readers and writers (read_write_lock.cpp lines 29-67, 86-101).
THEOREM NoBookIsLost == Spec => []BooksSafe
<1>1. Init => BooksInv
  BY BooksInit DEF Init
<1>2. BooksInv /\ [Next]_vars => BooksInv'
  <2>1. ASSUME BooksInv, UNCHANGED booksVars PROVE BooksInv'
    BY <2>1
       DEF booksVars, BooksInv, LockInv, VectorInv, Added, Books!Holding
  <2>2. [Next]_vars => Books!Next \/ UNCHANGED booksVars
    BY DEF Next, vars, BooksStep, ShmStep, CondStep
  <2>3. QED
    BY <2>1, <2>2, BooksStepHolds
<1>3. QED
  BY <1>1, <1>2, BooksAreSafe, PTL DEF Spec
===============================================================================
