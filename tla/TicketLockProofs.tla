--------------------------- MODULE TicketLockProofs ---------------------------
(***************************************************************************)
(* Proofs about TicketLock for every finite set of threads and every width *)
(* of size_t that has at least as many values as there are threads, and    *)
(* about TicketQueue, the program over it, for any producers, consumers    *)
(* and turns.                                                              *)
(***************************************************************************)
EXTENDS TicketQueue, FiniteSetTheorems, SequenceTheorems, TLAPS

\* After(n) is a ticket, and fetch_add moves it to After(n + 1): the arithmetic
\* of the wrapping counters (lines 21, 33).
LEMMA AfterFacts ==
  ASSUME serving \in 0..SizeMax, NEW n \in 0..SizeMax
  PROVE  /\ After(n) \in 0..SizeMax
         /\ FetchAdd(After(n)) = After(n + 1)
         /\ Ahead(After(n)) = n
         /\ After(0) = serving
BY WidthAssumption DEF After, FetchAdd, Ahead

\* Waiting is finite and never larger than the set of threads.
LEMMA WaitingFinite ==
  /\ IsFiniteSet(Waiting)
  /\ Cardinality(Waiting) \in Nat
  /\ Cardinality(Waiting) <= Cardinality(Threads)
  /\ Cardinality(Threads) \in Nat
<1>1. Waiting \subseteq Threads
  BY DEF Waiting
<1>2. QED
  BY <1>1, ThreadsAssumption, FS_Subset, FS_CardinalityType

\* A thread outside the lock leaves room for one more ticket.
LEMMA RoomForOne ==
  ASSUME NEW t \in Threads, t \notin Waiting
  PROVE  Cardinality(Waiting) + 1 <= SizeMax + 1
<1>1. Waiting \cup {t} \subseteq Threads
  BY DEF Waiting
<1>2. Cardinality(Waiting \cup {t}) <= Cardinality(Threads)
  BY <1>1, ThreadsAssumption, FS_Subset
<1>3. Cardinality(Waiting \cup {t}) = Cardinality(Waiting) + 1
  BY WaitingFinite, FS_AddElement
<1>4. QED
  BY <1>2, <1>3, WidthAssumption, WaitingFinite

\* Drawing a ticket keeps the tickets in use contiguous and distinct.
LEMMA DrawStep ==
  ASSUME IInv, NEW t \in Threads, Draw(t)
  PROVE  IInv'
<1> DEFINE n == Cardinality(Waiting)
<1>1. t \notin Waiting /\ pc' = [pc EXCEPT ![t] = "spin"]
  BY DEF Waiting, Draw
<1>2. n \in Nat /\ n <= SizeMax /\ SizeMax \in Nat
  BY <1>1, RoomForOne, WaitingFinite, WidthAssumption
<1>3. Waiting' = Waiting \cup {t}
  BY <1>1 DEF Waiting, IInv, LockTypeOK
<1>4. Cardinality(Waiting') = n + 1
  BY <1>1, <1>3, WaitingFinite, FS_AddElement
<1>5. /\ serving' = serving /\ serving \in 0..SizeMax
      /\ next' = FetchAdd(next) /\ next = After(n)
      /\ ticket' = [ticket EXCEPT ![t] = next]
      /\ ticket \in [Threads -> 0..SizeMax]
  BY DEF Draw, IInv, LockTypeOK
<1> HIDE DEF n
<1>6. next \in 0..SizeMax /\ FetchAdd(next) = After(n + 1) /\ Ahead(next) = n
  BY <1>2, <1>5, AfterFacts
<1>7. LockTypeOK'
  BY <1>1, <1>2, <1>5, <1>6 DEF IInv, LockTypeOK, FetchAdd
<1>8. (next = After(Cardinality(Waiting)))'
  BY <1>4, <1>5, <1>6 DEF After
<1>9. \A u \in Waiting : /\ u \in Threads /\ u # t
                         /\ Ahead(ticket[u]) < n
                         /\ ticket'[u] = ticket[u]
  BY <1>1, <1>5 DEF IInv, Waiting, n
<1>10. ticket'[t] = next
  BY <1>5
<1>11. (\A u \in Waiting : Ahead(ticket[u]) < Cardinality(Waiting))'
  <2>1. \A u \in Waiting : Ahead(ticket[u]) \in Int
    BY <1>5, <1>2 DEF Waiting, Ahead
  <2>2. SUFFICES ASSUME NEW u \in Waiting'
                 PROVE  Ahead(ticket'[u]) < n + 1
    BY <1>4, <1>5 DEF Ahead
  <2>3. CASE u = t
    BY <2>3, <1>2, <1>6, <1>10
  <2>4. CASE u \in Waiting
    BY <2>1, <2>4, <1>2, <1>9
  <2>5. QED
    BY <2>2, <2>3, <2>4, <1>3
<1>12. (\A u, v \in Waiting : ticket[u] = ticket[v] => u = v)'
  <2>1. \A u \in Waiting : ticket'[u] # next
    BY <1>2, <1>6, <1>9
  <2>2. \A u, v \in Waiting : ticket'[u] = ticket'[v] => u = v
    BY <1>9 DEF IInv
  <2>3. QED
    BY <2>1, <2>2, <1>3, <1>10
<1>13. (\A u \in Threads : pc[u] = "cs" => ticket[u] = serving)'
  <2>1. SUFFICES ASSUME NEW u \in Threads, pc'[u] = "cs"
                 PROVE  ticket'[u] = serving'
    OBVIOUS
  <2>2. pc[u] = "cs" /\ u # t
    BY <1>1, <2>1 DEF IInv, LockTypeOK
  <2>3. QED
    BY <2>2, <1>5 DEF IInv
<1>14. QED
  BY <1>7, <1>8, <1>11, <1>12, <1>13 DEF IInv

\* Leaving the spin changes nothing but the place of the thread that holds the
\* ticket being served.
LEMMA EnterStep ==
  ASSUME IInv, NEW t \in Threads, Enter(t)
  PROVE  IInv'
<1>1. /\ serving' = serving /\ next' = next /\ ticket' = ticket
      /\ pc' = [pc EXCEPT ![t] = "cs"] /\ pc[t] = "spin"
      /\ ticket[t] = serving
  BY DEF Enter, MyTurn
<1>2. Waiting' = Waiting
  BY <1>1 DEF Waiting, IInv, LockTypeOK
<1>3. LockTypeOK'
  BY <1>1 DEF IInv, LockTypeOK
<1>4. (\A u \in Threads : pc[u] = "cs" => ticket[u] = serving)'
  BY <1>1 DEF IInv, LockTypeOK
<1>5. QED
  BY <1>1, <1>2, <1>3, <1>4 DEF IInv, After, Ahead

\* The holder has ticket serving, so everybody else is one place further.
LEMMA UnlockStep ==
  ASSUME IInv, NEW t \in Threads, Unlock(t)
  PROVE  IInv'
<1> DEFINE n == Cardinality(Waiting)
<1>1. /\ t \in Waiting /\ ticket[t] = serving
      /\ pc' = [pc EXCEPT ![t] = "out"]
  BY DEF Waiting, Unlock, IInv
<1>2. Waiting' = Waiting \ {t}
  BY <1>1 DEF Waiting, IInv, LockTypeOK
<1>3. n \in Nat /\ Cardinality(Waiting') = n - 1 /\ n <= SizeMax + 1
      /\ SizeMax \in Nat
  BY <1>1, <1>2, WaitingFinite, FS_RemoveElement, WidthAssumption
<1>4. Cardinality(Waiting') \in Nat
  BY <1>2, WaitingFinite, FS_RemoveElement, FS_CardinalityType
<1>5. /\ serving' = FetchAdd(serving) /\ serving \in 0..SizeMax
      /\ next' = next /\ next = After(n)
      /\ ticket' = ticket /\ ticket \in [Threads -> 0..SizeMax]
  BY DEF Unlock, IInv, LockTypeOK
<1> HIDE DEF n
<1>6. LockTypeOK'
  BY <1>1, <1>3, <1>5 DEF IInv, LockTypeOK, FetchAdd
<1>7. (next = After(Cardinality(Waiting)))'
  BY <1>3, <1>4, <1>5 DEF After, FetchAdd
<1>8. \A u \in Waiting' : /\ ticket[u] \in 0..SizeMax
                          /\ ticket[u] # serving
                          /\ Ahead(ticket[u]) < n
                          /\ pc[u] # "cs"
  BY <1>1, <1>2, <1>5 DEF IInv, Waiting, n
<1>9. (\A u \in Waiting : Ahead(ticket[u]) < Cardinality(Waiting))'
  BY <1>3, <1>5, <1>8 DEF Ahead, FetchAdd
<1>10. (\A u, v \in Waiting : ticket[u] = ticket[v] => u = v)'
  BY <1>2, <1>5 DEF IInv
<1>11. (\A u \in Threads : pc[u] = "cs" => ticket[u] = serving)'
  <2>1. SUFFICES ASSUME NEW u \in Threads, pc'[u] = "cs"
                 PROVE  FALSE
    OBVIOUS
  <2>2. u # t /\ pc[u] = "cs"
    BY <1>1, <2>1 DEF IInv, LockTypeOK
  <2>3. u \in Waiting'
    BY <1>2, <2>2 DEF Waiting
  <2>4. QED
    BY <1>8, <2>2, <2>3
<1>12. QED
  BY <1>6, <1>7, <1>9, <1>10, <1>11 DEF IInv

\* A step that is none of these changes none of the variables.
LEMMA StutterStep ==
  ASSUME IInv, UNCHANGED lockVars
  PROVE  IInv'
BY DEF IInv, LockTypeOK, lockVars, Waiting, After, Ahead

\* Before the first call no ticket is drawn and nobody is inside (lines 14-17).
LEMMA InitHolds == LockInit => IInv
<1>1. SUFFICES ASSUME LockInit PROVE IInv
  OBVIOUS
<1>2. Waiting = {}
  BY <1>1 DEF LockInit, Waiting
<1>3. Cardinality(Waiting) = 0
  BY <1>2, FS_EmptySet
<1>4. QED
  BY <1>1, <1>2, <1>3, WidthAssumption
     DEF LockInit, IInv, LockTypeOK, After

\* The tickets in use are contiguous, distinct and start at the one served, for
\* every number of threads and through every wrap of the counters.
THEOREM TicketInvariant == LockSpec => []IInv
<1>1. IInv /\ [LockNext]_lockVars => IInv'
  BY DrawStep, EnterStep, UnlockStep, StutterStep DEF LockNext
<1>2. QED
  BY <1>1, InitHolds, PTL DEF LockSpec

\* Two threads are never between lock() and unlock() together: they would both
\* hold the ticket being served.
THEOREM TicketMutualExclusion == LockSpec => []MutualExclusion
<1>1. IInv => MutualExclusion
  BY DEF IInv, MutualExclusion, Waiting
<1>2. QED
  BY <1>1, TicketInvariant, PTL
-------------------------------------------------------------------------------
(* The refinement.  By the pigeonhole principle every ticket between serving  *)
(* and next is held, so Line is the sequence of the waiting threads by ticket. *)

\* Somebody holds the ticket that is n places from being served.
LEMMA EveryTicketHeld ==
  ASSUME IInv, NEW k \in 0..(Cardinality(Waiting) - 1)
  PROVE  \E t \in Waiting : Ahead(ticket[t]) = k
<1> DEFINE n == Cardinality(Waiting)
           Others == (0..(n - 1)) \ {k}
           f == [t \in Waiting |-> Ahead(ticket[t])]
<1>1. n \in Nat /\ n <= SizeMax + 1 /\ SizeMax \in Nat
  BY WaitingFinite, WidthAssumption
<1>2. \A t \in Waiting : ticket[t] \in 0..SizeMax
  BY DEF IInv, LockTypeOK, Waiting
<1>3. \A t \in Waiting : Ahead(ticket[t]) \in 0..(n - 1)
  BY <1>1, <1>2 DEF IInv, LockTypeOK, Ahead
<1>4. \A t, u \in Waiting : Ahead(ticket[t]) = Ahead(ticket[u]) => t = u
  <2>1. SUFFICES ASSUME NEW t \in Waiting, NEW u \in Waiting,
                        Ahead(ticket[t]) = Ahead(ticket[u])
                 PROVE  ticket[t] = ticket[u]
    BY DEF IInv
  <2>2. serving \in 0..SizeMax
    BY DEF IInv, LockTypeOK
  <2>3. QED
    BY <1>1, <1>2, <2>1, <2>2 DEF Ahead
<1>5. IsFiniteSet(Others) /\ Cardinality(Others) < n
  <2>1. IsFiniteSet(0..(n - 1)) /\ Cardinality(0..(n - 1)) = n
    BY <1>1, FS_Interval
  <2>2. k \in 0..(n - 1)
    OBVIOUS
  <2> HIDE DEF n
  <2>3. IsFiniteSet(Others) /\ Cardinality(Others) = n - 1
    BY <2>1, <2>2, FS_RemoveElement
  <2>4. QED
    BY <1>1, <2>3
<1>6. SUFFICES ASSUME \A t \in Waiting : Ahead(ticket[t]) # k
               PROVE  FALSE
  OBVIOUS
<1>7. f \in [Waiting -> Others]
  BY <1>3, <1>6
<1>8. PICK t, u \in Waiting : t # u /\ f[t] = f[u]
  <2> HIDE DEF f, Others
  <2>1. QED
    BY <1>5, <1>7, WaitingFinite, FS_PigeonHole
<1>9. QED
  BY <1>4, <1>8

\* The line as the prover sees it.
LineOK == /\ Line \in Seq(Threads)
          /\ Len(Line) = Cardinality(Waiting)
          /\ \A k \in 1..Len(Line) : /\ Line[k] \in Waiting
                                    /\ ticket[Line[k]] = After(k - 1)

\* Line lists every waiting thread once, in the order of the tickets (lines 21-25).
LEMMA LineFacts == IInv => LineOK
<1> SUFFICES ASSUME IInv PROVE LineOK
  OBVIOUS
<1> DEFINE n == Cardinality(Waiting)
<1>1. n \in Nat /\ n <= SizeMax + 1 /\ SizeMax \in Nat
  BY WaitingFinite, WidthAssumption
<1>2. \A k \in 1..n : \E t \in Waiting : ticket[t] = After(k - 1)
  <2>1. SUFFICES ASSUME NEW k \in 1..n
                 PROVE  \E t \in Waiting : ticket[t] = After(k - 1)
    OBVIOUS
  <2>2. PICK t \in Waiting : Ahead(ticket[t]) = k - 1
    BY <1>1, <2>1, EveryTicketHeld
  <2>3. ticket[t] \in 0..SizeMax /\ serving \in 0..SizeMax
    BY DEF IInv, LockTypeOK, Waiting
  <2>4. ticket[t] = After(k - 1)
    BY <1>1, <2>1, <2>2, <2>3 DEF Ahead, After
  <2>5. QED
    BY <2>4
<1>3. \A k \in 1..n : /\ Line[k] \in Waiting
                      /\ ticket[Line[k]] = After(k - 1)
  <2>1. SUFFICES ASSUME NEW k \in 1..n
                 PROVE  /\ Line[k] \in Waiting
                        /\ ticket[Line[k]] = After(k - 1)
    OBVIOUS
  <2>2. PICK t \in Waiting : ticket[t] = After(k - 1)
    BY <1>2, <2>1
  <2>3. t \in Threads /\ t \in Drawn(After(k - 1))
    BY <2>2 DEF Waiting, Drawn
  <2>4. Drawn(After(k - 1)) \subseteq {t}
    BY <2>2 DEF IInv, Drawn
  <2>5. Line[k] = CHOOSE u \in Threads : Drawn(After(k - 1)) \subseteq {u}
    BY <2>1 DEF Line
  <2>6. Drawn(After(k - 1)) \subseteq {Line[k]}
    BY <2>3, <2>4, <2>5
  <2>7. QED
    BY <2>2, <2>3, <2>6
<1>4. Line \in [1..n -> Threads]
  BY <1>3 DEF Line, Waiting
<1>5. Line \in Seq(Threads) /\ Len(Line) = n
  BY <1>1, <1>4
<1>6. QED
  BY <1>3, <1>5 DEF LineOK

\* fetch_add on next (line 21) is joining the end of the abstract line.
LEMMA DrawRefines ==
  ASSUME IInv, IInv', LineOK, LineOK', NEW t \in Threads, Draw(t)
  PROVE  Fifo!Arrive(t)
<1>n. PICK n \in Nat : n = Cardinality(Waiting)
  BY WaitingFinite
<1>1. /\ t \notin Waiting /\ n <= SizeMax /\ SizeMax \in Nat
      /\ serving' = serving /\ next = After(n)
      /\ ticket' = [ticket EXCEPT ![t] = next]
      /\ pc' = [pc EXCEPT ![t] = "spin"]
  BY <1>n, RoomForOne, WidthAssumption DEF Draw, Waiting, IInv
<1>2. Waiting' = Waiting \cup {t}
  BY <1>1 DEF Waiting, IInv, LockTypeOK
<1>3. Cardinality(Waiting') = n + 1
  BY <1>n, <1>1, <1>2, WaitingFinite, FS_AddElement
<1>4. Line' = Append(Line, t)
  <2>1. Line' \in Seq(Threads) /\ Len(Line') = n + 1
        /\ Line \in Seq(Threads) /\ Len(Line) = n
    BY <1>n, <1>3 DEF LineOK
  <2>2. \A k \in 1..n : Line'[k] = Line[k]
    <3>1. SUFFICES ASSUME NEW k \in 1..n PROVE Line'[k] = Line[k]
      OBVIOUS
    <3>2. Line[k] \in Waiting /\ ticket[Line[k]] = After(k - 1)
      BY <2>1 DEF LineOK
    <3>3. k \in 1..(n + 1)
      BY <1>1
    <3>4. Line'[k] \in Waiting' /\ ticket'[Line'[k]] = (After(k - 1))'
      BY <2>1, <3>3 DEF LineOK
    <3>5. (After(k - 1))' = After(k - 1)
      BY <1>1 DEF After
    <3>6. ticket'[Line[k]] = ticket[Line[k]]
      BY <1>1, <3>2 DEF IInv, LockTypeOK, Waiting
    <3>7. QED
      BY <1>2, <3>2, <3>4, <3>5, <3>6 DEF IInv
  <2>3. Line'[n + 1] = t
    <3>1. n + 1 \in 1..(n + 1)
      BY <1>1
    <3>2. Line'[n + 1] \in Waiting' /\ ticket'[Line'[n + 1]] = (After(n + 1 - 1))'
      BY <2>1, <3>1 DEF LineOK
    <3>3. (After(n + 1 - 1))' = next
      BY <1>1 DEF After
    <3>4. ticket'[t] = next
      BY <1>1 DEF IInv, LockTypeOK
    <3>5. QED
      BY <1>2, <3>2, <3>3, <3>4 DEF IInv
  <2>4. QED
    BY <1>1, <2>1, <2>2, <2>3
<1>5. ~Fifo!InLine(t)
  BY <1>1 DEF Fifo!InLine, LineOK
<1>6. (\E u \in Threads : pc[u] = "cs")' = \E u \in Threads : pc[u] = "cs"
  BY <1>1 DEF IInv, LockTypeOK, Waiting
<1>7. QED
  BY <1>4, <1>5, <1>6 DEF Fifo!Arrive

\* Seeing one's ticket in serving (lines 22-25) is taking the abstract lock.
LEMMA EnterRefines ==
  ASSUME IInv, LineOK, NEW t \in Threads, Enter(t)
  PROVE  Fifo!Take
<1>1. /\ pc[t] = "spin" /\ ticket[t] = serving
      /\ pc' = [pc EXCEPT ![t] = "cs"]
      /\ serving' = serving /\ ticket' = ticket
  BY DEF Enter, MyTurn
<1>2. Waiting' = Waiting /\ t \in Waiting
  BY <1>1 DEF Waiting, IInv, LockTypeOK
<1>3. Line' = Line
  BY <1>1, <1>2 DEF Line, Drawn, After
<1>4. Line # <<>>
  BY <1>2, WaitingFinite, FS_EmptySet DEF LineOK
<1>5. ~ \E u \in Threads : pc[u] = "cs"
  BY <1>1 DEF IInv, Waiting
<1>6. (\E u \in Threads : pc[u] = "cs")'
  BY <1>1 DEF IInv, LockTypeOK
<1>7. QED
  BY <1>3, <1>4, <1>5, <1>6 DEF Fifo!Take

\* fetch_add on serving (line 33) is leaving the head of the abstract line.
LEMMA UnlockRefines ==
  ASSUME IInv, IInv', LineOK, LineOK', NEW t \in Threads, Unlock(t)
  PROVE  Fifo!Release
<1>n. PICK n \in Nat : n = Cardinality(Waiting)
  BY WaitingFinite
<1>1. /\ t \in Waiting /\ ticket[t] = serving /\ pc[t] = "cs"
      /\ pc' = [pc EXCEPT ![t] = "out"]
      /\ serving' = FetchAdd(serving) /\ ticket' = ticket
  BY DEF Waiting, Unlock, IInv
<1>2. Waiting' = Waiting \ {t}
  BY <1>1 DEF Waiting, IInv, LockTypeOK
<1>3. Cardinality(Waiting') = n - 1
  BY <1>n, <1>1, <1>2, WaitingFinite, FS_RemoveElement
<1>4. n # 0 /\ n <= SizeMax + 1 /\ SizeMax \in Nat /\ serving \in 0..SizeMax
  BY <1>n, <1>1, WaitingFinite, FS_EmptySet, WidthAssumption
     DEF IInv, LockTypeOK
<1>5. Line \in Seq(Threads) /\ Len(Line) = n /\ Line # <<>>
      /\ Line' \in Seq(Threads) /\ Len(Line') = n - 1
  BY <1>n, <1>3, <1>4 DEF LineOK
<1>6. Line' = Tail(Line)
  <2>1. \A k \in 1..(n - 1) : Line'[k] = Line[k + 1]
    <3>1. SUFFICES ASSUME NEW k \in 1..(n - 1) PROVE Line'[k] = Line[k + 1]
      OBVIOUS
    <3>2. Line'[k] \in Waiting' /\ ticket[Line'[k]] = (After(k - 1))'
      BY <1>1, <1>5, <3>1 DEF LineOK
    <3>3. k + 1 \in 1..n
      BY <3>1
    <3>4. Line[k + 1] \in Waiting /\ ticket[Line[k + 1]] = After(k + 1 - 1)
      BY <1>5, <3>3 DEF LineOK
    <3>5. (After(k - 1))' = After(k + 1 - 1)
      BY <1>1, <1>4, <3>1 DEF After, FetchAdd
    <3>6. QED
      BY <1>2, <3>2, <3>4, <3>5 DEF IInv
  <2>2. /\ Tail(Line) \in Seq(Threads) /\ Len(Tail(Line)) = n - 1
        /\ \A k \in 1..(n - 1) : Tail(Line)[k] = Line[k + 1]
    BY <1>5, HeadTailProperties
  <2>3. QED
    BY <1>5, <2>1, <2>2, SeqEqual
<1>7. ~ (\E u \in Threads : pc[u] = "cs")'
  BY <1>1 DEF IInv, LockTypeOK, Waiting
<1>8. \E u \in Threads : pc[u] = "cs"
  BY <1>1 DEF Waiting
<1>9. QED
  BY <1>6, <1>7, <1>8 DEF Fifo!Release

\* The ticket lock serves first come, first served: it implements FifoLock for
\* any number of threads and through every wrap of size_t.
THEOREM TicketLockIsFifo == LockSpec => ImplementsFifoLock
<1>1. LockInit => Fifo!Init
  <2>1. SUFFICES ASSUME LockInit PROVE Fifo!Init
    OBVIOUS
  <2>2. LineOK /\ Waiting = {}
    BY <2>1, InitHolds, LineFacts DEF LockInit, Waiting
  <2>3. Len(Line) = 0 /\ Line \in Seq(Threads)
    BY <2>2, FS_EmptySet DEF LineOK
  <2>4. QED
    BY <2>1, <2>3, EmptySeq DEF Fifo!Init, LockInit
<1>2. IInv /\ IInv' /\ LineOK /\ LineOK' /\ [LockNext]_lockVars
        => [Fifo!Next]_(Fifo!vars)
  <2>1. SUFFICES ASSUME IInv, IInv', LineOK, LineOK', [LockNext]_lockVars
                 PROVE  [Fifo!Next]_(Fifo!vars)
    OBVIOUS
  <2>2. ASSUME NEW t \in Threads, Draw(t) PROVE Fifo!Next
    BY <2>1, <2>2, DrawRefines DEF Fifo!Next
  <2>3. ASSUME NEW t \in Threads, Enter(t) PROVE Fifo!Next
    BY <2>1, <2>3, EnterRefines DEF Fifo!Next
  <2>4. ASSUME NEW t \in Threads, Unlock(t) PROVE Fifo!Next
    BY <2>1, <2>4, UnlockRefines DEF Fifo!Next
  <2>5. CASE UNCHANGED lockVars
    BY <2>5 DEF lockVars, Fifo!vars, Line, Drawn, Waiting, After
  <2>6. QED
    BY <2>1, <2>2, <2>3, <2>4, <2>5 DEF LockNext
<1>3. QED
  BY <1>1, <1>2, TicketInvariant, LineFacts, PTL
     DEF LockSpec, ImplementsFifoLock, Fifo!Spec
-------------------------------------------------------------------------------
(* The program.  Its threads use the lock in no other way than by its calls.  *)

\* Where a thread has the lock.
Inside == {"test1", "test2", "print", "clear", "unlock"}

\* A thread is at a statement of its own loop, holds the lock at those between
\* lock() and unlock(), and a consumer is about to clear what it has printed.
QueueInv ==
  /\ at \in [Threads -> Places] /\ pc \in [Threads -> {"out", "spin", "cs"}]
  /\ DOMAIN seen = Consumers
  /\ \A t \in Threads : pc[t] = "cs" <=> at[t] \in Inside
  /\ \A p \in Producers : at[p] \notin {"print", "clear", "check"}
  /\ \A c \in Consumers : at[c] \notin {"test1", "test2"}
  /\ PrintedAll

\* Every step of the program is a step of the lock, or leaves the lock alone.
LEMMA ProgramSteps == [Next]_vars => [LockNext]_lockVars
<1>1. SUFFICES ASSUME [Next]_vars PROVE [LockNext]_lockVars
  OBVIOUS
<1>2. ASSUME NEW p \in Producers, Producer(p) PROVE [LockNext]_lockVars
  <2>1. p \in Threads
    BY ProgramAssumption
  <2>2. QED
    BY <1>2, <2>1 DEF Producer, Lock, Emplace, ProducerUnlock, LockNext
<1>3. ASSUME NEW c \in Consumers, Consumer(c) PROVE [LockNext]_lockVars
  <2>1. c \in Threads
    BY ProgramAssumption
  <2>2. QED
    BY <1>3, <2>1 DEF Consumer, Lock, Show, Clear, ConsumerUnlock, CheckEmpty, LockNext
<1>4. CASE UNCHANGED vars
  BY <1>4 DEF vars
<1>5. QED
  BY <1>1, <1>2, <1>3, <1>4 DEF Next

\* The program is a use of the lock, so what was proved of the lock holds in it.
THEOREM ProgramUsesLock == Spec => LockSpec
<1>1. Init => LockInit
  BY DEF Init
<1>2. QED
  BY <1>1, ProgramSteps, PTL DEF Spec, LockSpec

\* Producers and consumers are never inside together (lines 43-48, 57-61).
THEOREM QueueMutualExclusion == Spec => []MutualExclusion
BY ProgramUsesLock, TicketMutualExclusion, PTL

\* They get the lock in the order in which they ask for it (lines 43, 57).
THEOREM QueueIsFifo == Spec => ImplementsFifoLock
BY ProgramUsesLock, TicketLockIsFifo, PTL

\* All threads are before their first turn.
LEMMA QueueInitHolds == Init => QueueInv
<1>1. SUFFICES ASSUME Init PROVE QueueInv
  OBVIOUS
<1>2. QED
  BY <1>1, ProgramAssumption DEF Init, LockInit, QueueInv, PrintedAll, Inside, Places

\* A producer changes the vector while it has the lock, when no consumer is
\* between its range-for and its clear().
LEMMA ProducerStep ==
  ASSUME QueueInv, MutualExclusion, NEW p \in Producers, Producer(p)
  PROVE  QueueInv'
<1>1. /\ p \in Threads /\ p \notin Consumers
      /\ Consumers \subseteq Threads /\ Producers \subseteq Threads
  BY ProgramAssumption
<1>2. CASE Lock(p, "test1")
  <2>1. /\ UNCHANGED <<shared_res, seen>>
        /\ \/ at' = at /\ at[p] = "lock" /\ pc' = [pc EXCEPT ![p] = "spin"]
           \/ at[p] = "lock" /\ at' = [at EXCEPT ![p] = "test1"] /\ pc' = [pc EXCEPT ![p] = "cs"]
    BY <1>2 DEF Lock, Draw, Enter, Step, progVars
  <2>2. QED
    BY <1>1, <2>1 DEF QueueInv, PrintedAll, Inside, Places
<1>3. CASE Emplace(p, "test1", "test1", "test2") \/ Emplace(p, "test2", "test2", "unlock")
  <2>1. /\ pc' = pc /\ seen' = seen /\ at[p] \in {"test1", "test2"}
        /\ at' \in {[at EXCEPT ![p] = "test2"], [at EXCEPT ![p] = "unlock"]}
    BY <1>3 DEF Emplace, Step, lockVars
  <2>2. \A c \in Consumers : at[c] # "clear"
    BY <1>1, <2>1 DEF QueueInv, MutualExclusion, Inside
  <2>3. PrintedAll'
    BY <1>1, <2>1, <2>2 DEF QueueInv, PrintedAll
  <2>4. QED
    BY <1>1, <2>1, <2>3 DEF QueueInv, Inside, Places
<1>4. CASE ProducerUnlock(p)
  <2>1. /\ UNCHANGED <<shared_res, seen>> /\ at[p] = "unlock"
        /\ at' = [at EXCEPT ![p] = "lock"] /\ pc' = [pc EXCEPT ![p] = "out"]
    BY <1>4 DEF ProducerUnlock, Unlock, Step
  <2>2. QED
    BY <1>1, <2>1 DEF QueueInv, PrintedAll, Inside, Places
<1>5. QED
  BY <1>2, <1>3, <1>4 DEF Producer

\* A consumer prints and clears while it has the lock.
LEMMA ConsumerStep ==
  ASSUME QueueInv, MutualExclusion, NEW c \in Consumers, Consumer(c)
  PROVE  QueueInv'
<1>1. /\ c \in Threads /\ c \notin Producers
      /\ Consumers \subseteq Threads /\ Producers \subseteq Threads
  BY ProgramAssumption
<1>2. CASE Lock(c, "print")
  <2>1. /\ UNCHANGED <<shared_res, seen>>
        /\ \/ at' = at /\ at[c] = "lock" /\ pc' = [pc EXCEPT ![c] = "spin"]
           \/ at[c] = "lock" /\ at' = [at EXCEPT ![c] = "print"] /\ pc' = [pc EXCEPT ![c] = "cs"]
    BY <1>2 DEF Lock, Draw, Enter, Step, progVars
  <2>2. QED
    BY <1>1, <2>1 DEF QueueInv, PrintedAll, Inside, Places
<1>3. CASE Show(c)
  <2>1. /\ UNCHANGED <<shared_res, pc>> /\ at[c] = "print"
        /\ at' = [at EXCEPT ![c] = "clear"] /\ seen' = [seen EXCEPT ![c] = shared_res]
    BY <1>3 DEF Show, Step, lockVars
  <2>2. QED
    BY <1>1, <2>1 DEF QueueInv, PrintedAll, Inside, Places
<1>4. CASE Clear(c)
  <2>1. /\ UNCHANGED <<seen, pc>> /\ at[c] = "clear" /\ at' = [at EXCEPT ![c] = "unlock"]
    BY <1>4 DEF Clear, Step, lockVars
  <2>2. \A d \in Consumers : at'[d] # "clear"
    BY <1>1, <2>1 DEF QueueInv, MutualExclusion, Inside
  <2>3. QED
    BY <1>1, <2>1, <2>2 DEF QueueInv, PrintedAll, Inside, Places
<1>5. CASE ConsumerUnlock(c)
  <2>1. /\ UNCHANGED <<shared_res, seen>> /\ at[c] = "unlock"
        /\ at' = [at EXCEPT ![c] = "check"] /\ pc' = [pc EXCEPT ![c] = "out"]
    BY <1>5 DEF ConsumerUnlock, Unlock, Step
  <2>2. QED
    BY <1>1, <2>1 DEF QueueInv, PrintedAll, Inside, Places
<1>6. CASE CheckEmpty(c)
  <2>1. /\ UNCHANGED <<shared_res, seen, pc>> /\ at[c] = "check" /\ at' = [at EXCEPT ![c] = "lock"]
    BY <1>6 DEF CheckEmpty, Step, lockVars
  <2>2. QED
    BY <1>1, <2>1 DEF QueueInv, PrintedAll, Inside, Places
<1>7. QED
  BY <1>2, <1>3, <1>4, <1>5, <1>6 DEF Consumer

\* Who is inside is at a statement between lock() and unlock(), and a consumer
\* that is about to clear the vector has printed all of it (lines 43-48, 57-61).
THEOREM QueueInvariant == Spec => []QueueInv
<1>1. QueueInv /\ MutualExclusion /\ [Next]_vars => QueueInv'
  <2>1. QueueInv /\ UNCHANGED vars => QueueInv'
    BY DEF QueueInv, PrintedAll, vars, lockVars, progVars
  <2>2. QED
    BY <2>1, ProducerStep, ConsumerStep DEF Next
<1>2. QED
  BY <1>1, QueueInitHolds, QueueMutualExclusion, PTL DEF Spec

\* What is in the vector leaves it only when a consumer clears it, and that
\* consumer has printed every element of it, and counts each once.
ClearsPrinted ==
  [][shared_res' # shared_res =>
       \/ \E el \in {"test1", "test2"} : shared_res' = Append(shared_res, el) /\ consumed' = consumed
       \/ \E c \in Consumers : /\ seen[c] = shared_res /\ shared_res' = <<>>
                              /\ consumed' = consumed + Len(shared_res)]_vars

\* No step loses an element, for any producers, consumers and turns: the vector
\* grows by one element, or is cleared by who has printed it (lines 44-45, 58-60).
THEOREM QueueClearsPrinted == Spec => ClearsPrinted
<1>1. QueueInv /\ [Next]_vars =>
        (shared_res' # shared_res =>
           \/ \E el \in {"test1", "test2"} : shared_res' = Append(shared_res, el) /\ consumed' = consumed
           \/ \E c \in Consumers : /\ seen[c] = shared_res /\ shared_res' = <<>>
                                  /\ consumed' = consumed + Len(shared_res))
  <2>1. SUFFICES ASSUME QueueInv, [Next]_vars, shared_res' # shared_res
        PROVE  \/ \E el \in {"test1", "test2"} : shared_res' = Append(shared_res, el) /\ consumed' = consumed
               \/ \E c \in Consumers : /\ seen[c] = shared_res /\ shared_res' = <<>>
                                      /\ consumed' = consumed + Len(shared_res)
    OBVIOUS
  <2>2. ASSUME NEW p \in Producers, Producer(p)
        PROVE  \E el \in {"test1", "test2"} : shared_res' = Append(shared_res, el) /\ consumed' = consumed
    BY <2>1, <2>2 DEF Producer, Lock, Emplace, ProducerUnlock, progVars
  <2>3. ASSUME NEW c \in Consumers, Consumer(c)
        PROVE  /\ seen[c] = shared_res /\ shared_res' = <<>>
               /\ consumed' = consumed + Len(shared_res)
    <3>1. Clear(c)
      BY <2>1, <2>3 DEF Consumer, Lock, Show, ConsumerUnlock, CheckEmpty, progVars
    <3>2. seen[c] = shared_res
      BY <2>1, <3>1 DEF QueueInv, PrintedAll, Clear, Step
    <3>3. QED
      BY <3>1, <3>2 DEF Clear
  <2>4. ~ UNCHANGED vars
    BY <2>1 DEF vars, progVars
  <2>5. QED
    BY <2>1, <2>2, <2>3, <2>4 DEF Next
<1>2. QED
  BY <1>1, QueueInvariant, PTL DEF Spec, ClearsPrinted

-------------------------------------------------------------------------------
(* The elements: the sum of the producers' turns is counted in AllEmplaced *)

\* A thread is in one of its Iterations turns from its ticket to the end of the turn;
\* every element that was emplaced is in the vector or was counted by a consumer.
Elements == {"test1", "test2"}
InTurn(t) == at[t] # "lock" \/ pc[t] = "spin"
LossInv ==
  /\ shared_res \in Seq(Elements) /\ seen \in [Consumers -> Seq(Elements)]
  /\ i \in [Threads -> 0..Iterations]
  /\ \A t \in Threads : InTurn(t) => i[t] < Iterations
  /\ \A t \in Threads : pc[t] = "spin" => at[t] = "lock"
  /\ consumed \in Nat
  /\ consumed + Len(shared_res) = Cardinality(AllEmplaced)

LEMMA ProgramFacts ==
  /\ Producers \subseteq Threads /\ Consumers \subseteq Threads
  /\ Producers \cap Consumers = {} /\ Iterations \in Nat
  /\ IsFiniteSet(Producers) /\ Cardinality(Producers) \in Nat
<1>1. Producers \in SUBSET Threads /\ Consumers \subseteq Threads
  BY ProgramAssumption
<1>2. QED
  BY <1>1, ThreadsAssumption, ProgramAssumption, FS_Subset, FS_CardinalityType

\* There are at most two elements for each turn of each producer.
LEMMA EmplacedFinite ==
  /\ IsFiniteSet(AllEmplaced)
  /\ Cardinality(AllEmplaced) \in 0..2 * Iterations * Cardinality(Producers)
<1> DEFINE turns == 1..2 * Iterations
           all == Producers \X turns
<1>1. 2 * Iterations \in Nat
  BY ProgramFacts
<1>2. IsFiniteSet(turns) /\ Cardinality(turns) = 2 * Iterations
  BY <1>1, FS_Interval
<1>3. IsFiniteSet(all) /\ Cardinality(all) = Cardinality(Producers) * (2 * Iterations)
  BY <1>2, ProgramFacts, FS_Product
<1>4. AllEmplaced \in SUBSET all
  BY DEF AllEmplaced
<1> HIDE DEF all
<1>5. IsFiniteSet(AllEmplaced) /\ Cardinality(AllEmplaced) <= Cardinality(all)
  BY <1>3, <1>4, FS_Subset
<1>6. Cardinality(AllEmplaced) \in Nat
  BY <1>5, FS_CardinalityType
<1>7. Cardinality(Producers) * (2 * Iterations) = 2 * Iterations * Cardinality(Producers)
  BY ProgramFacts
<1>8. QED
  BY <1>1, <1>3, <1>5, <1>6, <1>7, ProgramFacts

\* When the producers' counts stay, so do the elements.
LEMMA NoneEmplaced ==
  ASSUME \A p \in Producers : Emplaced(p)' = Emplaced(p)
  PROVE  AllEmplaced' = AllEmplaced
BY DEF AllEmplaced

\* One more of one producer is one more element.
LEMMA OneEmplaced ==
  ASSUME NEW p \in Producers,
         Emplaced(p) \in Nat, Emplaced(p) < 2 * Iterations,
         Emplaced(p)' = Emplaced(p) + 1,
         \A q \in Producers : q # p => Emplaced(q)' = Emplaced(q)
  PROVE  Cardinality(AllEmplaced') = Cardinality(AllEmplaced) + 1
<1> DEFINE one == <<p, Emplaced(p) + 1>>
<1>1. one \notin AllEmplaced
  BY DEF AllEmplaced
<1>2. ASSUME NEW e \in Producers \X (1..2 * Iterations)
      PROVE  e \in AllEmplaced' <=> e \in AllEmplaced \/ e = one
  <2>1. e[1] \in Producers /\ e[2] \in Nat /\ e = <<e[1], e[2]>>
    OBVIOUS
  <2>2. CASE e[1] = p
    BY <2>1, <2>2 DEF AllEmplaced
  <2>3. CASE e[1] # p
    BY <2>1, <2>3 DEF AllEmplaced
  <2>4. QED
    BY <2>2, <2>3
<1>3. one \in Producers \X (1..2 * Iterations)
  BY ProgramFacts
<1>4. AllEmplaced' = AllEmplaced \cup {one}
  BY <1>2, <1>3 DEF AllEmplaced
<1>5. QED
  BY <1>1, <1>4, EmplacedFinite, FS_AddElement

LEMMA LossInitHolds == Init => LossInv
<1>1. SUFFICES ASSUME Init PROVE LossInv
  OBVIOUS
<1>2. <<>> \in Seq(Elements) /\ Len(<<>>) = 0
  BY EmptySeq
<1>3. \A p \in Producers : Emplaced(p) = 0
  BY <1>1, ProgramFacts DEF Init, Emplaced
<1>4. AllEmplaced = {}
  BY <1>3 DEF AllEmplaced
<1>5. Cardinality(AllEmplaced) = 0
  BY <1>4, FS_EmptySet
<1>6. i \in [Threads -> 0..Iterations] /\ \A t \in Threads : ~InTurn(t)
  BY <1>1, ProgramFacts DEF Init, LockInit, InTurn
<1>7. QED
  BY <1>1, <1>2, <1>5, <1>6 DEF Init, LossInv, InTurn

\* Taking a ticket and entering change neither the loop nor what was emplaced.
LEMMA LossLockStep ==
  ASSUME QueueInv, LossInv, NEW t \in Threads, NEW first \in {"test1", "print"},
         Lock(t, first)
  PROVE  LossInv'
<1>1. /\ UNCHANGED <<shared_res, i, seen, consumed>> /\ at[t] = "lock"
      /\ \/ at' = at /\ i[t] < Iterations /\ pc' = [pc EXCEPT ![t] = "spin"]
         \/ /\ at' = [at EXCEPT ![t] = first] /\ pc[t] = "spin"
            /\ pc' = [pc EXCEPT ![t] = "cs"]
  BY DEF Lock, Draw, Enter, Step, progVars
<1>2. at \in [Threads -> Places] /\ pc \in [Threads -> {"out", "spin", "cs"}]
  BY DEF QueueInv
<1>3. \A p \in Producers : Emplaced(p)' = Emplaced(p)
  BY <1>1, <1>2, ProgramFacts DEF Emplaced
<1>4. AllEmplaced' = AllEmplaced
  BY <1>3, NoneEmplaced
<1>5. \A u \in Threads : InTurn(u)' => i[u] < Iterations
  BY <1>1, <1>2 DEF LossInv, InTurn
<1>6. \A u \in Threads : pc'[u] = "spin" => at'[u] = "lock"
  BY <1>1, <1>2 DEF LossInv
<1>7. QED
  BY <1>1, <1>4, <1>5, <1>6 DEF LossInv

LEMMA LossEmplaceStep ==
  ASSUME QueueInv, LossInv, NEW p \in Producers, NEW from, NEW to,
         <<from, to>> \in {<<"test1", "test2">>, <<"test2", "unlock">>},
         Emplace(p, from, from, to)
  PROVE  LossInv'
<1>1. /\ at[p] = from /\ at' = [at EXCEPT ![p] = to] /\ shared_res' = Append(shared_res, from)
      /\ UNCHANGED <<pc, i, seen, consumed>> /\ from \in Elements
      /\ \/ from = "test1" /\ to = "test2"
         \/ from = "test2" /\ to = "unlock"
  BY DEF Emplace, Step, lockVars, Elements
<1>2. /\ at \in [Threads -> Places] /\ i \in [Threads -> 0..Iterations]
      /\ shared_res \in Seq(Elements) /\ p \in Threads
      /\ i[p] < Iterations /\ pc[p] = "cs"
  BY <1>1, ProgramFacts DEF QueueInv, LossInv, InTurn, Inside
<1>3. shared_res' \in Seq(Elements) /\ Len(shared_res') = Len(shared_res) + 1
      /\ Len(shared_res) \in Nat
  BY <1>1, <1>2, AppendProperties, LenProperties
<1>4. Emplaced(p) \in Nat /\ Emplaced(p) < 2 * Iterations /\ Emplaced(p)' = Emplaced(p) + 1
  <2>1. i[p] \in Nat /\ i'[p] = i[p] /\ at'[p] = to
    BY <1>1, <1>2
  <2>2. Iterations \in Nat
    BY ProgramFacts
  <2>3. CASE from = "test1" /\ to = "test2"
    <3>1. Emplaced(p) = 2 * i[p] /\ Emplaced(p)' = 2 * i[p] + 1
      BY <2>1, <2>3, <1>1 DEF Emplaced
    <3>2. QED
      BY <3>1, <2>1, <2>2, <1>2
  <2>4. CASE from = "test2" /\ to = "unlock"
    <3>1. Emplaced(p) = 2 * i[p] + 1 /\ Emplaced(p)' = 2 * i[p] + 2
      BY <2>1, <2>4, <1>1 DEF Emplaced
    <3>2. QED
      BY <3>1, <2>1, <2>2, <1>2
  <2>5. QED
    BY <1>1, <2>3, <2>4
<1>5. \A q \in Producers : q # p => Emplaced(q)' = Emplaced(q)
  BY <1>1, <1>2, ProgramFacts DEF Emplaced
<1>6. Cardinality(AllEmplaced') = Cardinality(AllEmplaced) + 1
  BY <1>4, <1>5, OneEmplaced
<1>7. \A u \in Threads : /\ InTurn(u)' => i[u] < Iterations
                         /\ pc'[u] = "spin" => at'[u] = "lock"
  BY <1>1, <1>2 DEF LossInv, InTurn
<1>8. consumed' + Len(shared_res') = Cardinality(AllEmplaced)'
  BY <1>1, <1>3, <1>6 DEF LossInv
<1>9. QED
  BY <1>1, <1>3, <1>7, <1>8 DEF LossInv

\* The end of a producer's turn: its two elements are now two of a turn before.
LEMMA LossProducerUnlockStep ==
  ASSUME QueueInv, LossInv, NEW p \in Producers, ProducerUnlock(p)
  PROVE  LossInv'
<1>1. /\ at[p] = "unlock" /\ at' = [at EXCEPT ![p] = "lock"]
      /\ i' = [i EXCEPT ![p] = @ + 1] /\ pc' = [pc EXCEPT ![p] = "out"]
      /\ UNCHANGED <<shared_res, seen, consumed>>
  BY DEF ProducerUnlock, Unlock, Step, NextTurn
<1>2. /\ at \in [Threads -> Places] /\ i \in [Threads -> 0..Iterations]
      /\ pc \in [Threads -> {"out", "spin", "cs"}] /\ p \in Threads
      /\ i[p] < Iterations
  BY <1>1, ProgramFacts DEF QueueInv, LossInv, InTurn
<1>3. i' \in [Threads -> 0..Iterations]
  BY <1>1, <1>2, ProgramFacts
<1>4. Emplaced(p)' = Emplaced(p)
  <2>1. i[p] \in Nat /\ i'[p] = i[p] + 1 /\ at'[p] = "lock"
    BY <1>1, <1>2
  <2>2. Emplaced(p) = 2 * i[p] + 2 /\ Emplaced(p)' = 2 * (i[p] + 1) + 0
    BY <2>1, <1>1 DEF Emplaced
  <2>3. QED
    BY <2>1, <2>2
<1>5. \A q \in Producers : q # p => Emplaced(q)' = Emplaced(q)
  BY <1>1, <1>2, ProgramFacts DEF Emplaced
<1>6. AllEmplaced' = AllEmplaced
  BY <1>4, <1>5, NoneEmplaced
<1>7. \A u \in Threads : /\ InTurn(u)' => i'[u] < Iterations
                         /\ pc'[u] = "spin" => at'[u] = "lock"
  BY <1>1, <1>2 DEF LossInv, InTurn
<1>8. QED
  BY <1>1, <1>3, <1>6, <1>7 DEF LossInv

\* A consumer's own steps: of these only clear() changes anything that is counted.
LEMMA LossConsumerStep ==
  ASSUME QueueInv, LossInv, NEW c \in Consumers,
         Show(c) \/ Clear(c) \/ ConsumerUnlock(c) \/ CheckEmpty(c)
  PROVE  LossInv'
<1>1. /\ at \in [Threads -> Places] /\ i \in [Threads -> 0..Iterations]
      /\ pc \in [Threads -> {"out", "spin", "cs"}] /\ c \in Threads /\ c \notin Producers
      /\ shared_res \in Seq(Elements) /\ Len(shared_res) \in Nat
      /\ seen \in [Consumers -> Seq(Elements)]
  BY ProgramFacts, LenProperties DEF QueueInv, LossInv
<1>2. /\ at[c] # "lock" /\ i[c] < Iterations
      /\ \E to \in Places : at' = [at EXCEPT ![c] = to] /\ (i' # i => to = "lock")
      /\ i' \in {i, [i EXCEPT ![c] = @ + 1]}
      /\ pc' \in {pc, [pc EXCEPT ![c] = "out"]}
  BY <1>1
     DEF Show, Clear, ConsumerUnlock, CheckEmpty, Step, Unlock, NextTurn, lockVars,
         Places,
              LossInv, InTurn
<1>3. pc[c] # "spin"
  BY <1>1, <1>2 DEF LossInv
<1>4. i' \in [Threads -> 0..Iterations]
  BY <1>1, <1>2, ProgramFacts
<1>5. \A p \in Producers : Emplaced(p)' = Emplaced(p)
  BY <1>1, <1>2, ProgramFacts DEF Emplaced
<1>6. AllEmplaced' = AllEmplaced
  BY <1>5, NoneEmplaced
<1>7. \A u \in Threads : /\ InTurn(u)' => i'[u] < Iterations
                         /\ pc'[u] = "spin" => at'[u] = "lock"
  <2>1. ASSUME NEW u \in Threads, u # c
        PROVE  /\ InTurn(u)' => i'[u] < Iterations
               /\ pc'[u] = "spin" => at'[u] = "lock"
    BY <2>1, <1>1, <1>2 DEF LossInv, InTurn
  <2>2. /\ InTurn(c)' => i'[c] < Iterations
        /\ pc'[c] = "spin" => at'[c] = "lock"
    BY <1>1, <1>2, <1>3 DEF InTurn
  <2>3. QED
    BY <2>1, <2>2
<1>8. seen' \in [Consumers -> Seq(Elements)]
  BY <1>1 DEF Show, Clear, ConsumerUnlock, CheckEmpty
<1>9. /\ shared_res' \in Seq(Elements) /\ consumed' \in Nat
      /\ consumed' + Len(shared_res') = consumed + Len(shared_res)
  <2>1. CASE Clear(c)
    <3>1. shared_res' = <<>> /\ consumed' = consumed + Len(seen[c])
      BY <2>1 DEF Clear
    <3>2. seen[c] = shared_res
      BY <2>1 DEF Clear, Step, QueueInv, PrintedAll
    <3>3. <<>> \in Seq(Elements) /\ Len(<<>>) = 0
      BY EmptySeq
    <3>4. consumed \in Nat
      BY DEF LossInv
    <3>5. QED
      BY <3>1, <3>2, <3>3, <3>4, <1>1
  <2>2. CASE Show(c) \/ ConsumerUnlock(c) \/ CheckEmpty(c)
    BY <2>2, <1>1 DEF Show, ConsumerUnlock, CheckEmpty, LossInv
  <2>3. QED
    BY <2>1, <2>2
<1>10. QED
  BY <1>4, <1>6, <1>7, <1>8, <1>9 DEF LossInv

\* Every element that a producer ever emplaced is in the vector or was printed and
\* counted before it was cleared, for any producers, consumers and turns (lines
\* 44-45, 58-60).
THEOREM NoElementIsLost == Spec => []NothingLost
<1>1. QueueInv /\ LossInv /\ [Next]_vars => LossInv'
  <2>1. SUFFICES ASSUME QueueInv, LossInv, [Next]_vars PROVE LossInv'
    OBVIOUS
  <2>2. ASSUME NEW p \in Producers, Producer(p) PROVE LossInv'
    BY <2>1, <2>2, ProgramFacts, LossLockStep, LossEmplaceStep, LossProducerUnlockStep
       DEF Producer
  <2>3. ASSUME NEW c \in Consumers, Consumer(c) PROVE LossInv'
    BY <2>1, <2>3, ProgramFacts, LossLockStep, LossConsumerStep DEF Consumer
  <2>4. CASE UNCHANGED vars
    BY <2>1, <2>4
       DEF vars, lockVars, progVars, LossInv, InTurn, AllEmplaced, Emplaced
  <2>5. QED
    BY <2>1, <2>2, <2>3, <2>4 DEF Next
<1>2. IInv /\ QueueInv /\ LossInv => NothingLost
  <2>1. SUFFICES ASSUME IInv, QueueInv, LossInv PROVE NothingLost
    OBVIOUS
  <2>2. consumed \in 0..2 * Iterations * Cardinality(Producers)
    <3>1. Len(shared_res) \in Nat
      BY <2>1, LenProperties DEF LossInv
    <3>2. 2 * Iterations * Cardinality(Producers) \in Nat
      BY ProgramFacts
    <3>3. QED
      BY <2>1, <3>1, <3>2, EmplacedFinite DEF LossInv
  <2>3. TypeOK
    BY <2>1, <2>2 DEF IInv, QueueInv, LossInv, TypeOK, Elements
  <2>4. QED
    BY <2>1, <2>3 DEF QueueInv, LossInv, NothingLost
<1>3. Spec => []IInv
  BY ProgramUsesLock, TicketInvariant, PTL
<1>4. QED
  BY <1>1, <1>2, <1>3, LossInitHolds, QueueInvariant, PTL DEF Spec
===============================================================================
