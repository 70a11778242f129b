---------------------------- MODULE MCChapter10Proofs ----------------------------
(***************************************************************************)
(* Proofs about the programs and classes of MCChapter10, for any objects,  *)
(* frames and descriptors, and any number of calls.  A run of MCChapter10  *)
(* is a run of one of them, so each part proves what holds of the steps of *)
(* one and ends with what holds of every run.                              *)
(***************************************************************************)
EXTENDS MCChapter10, TLAPS

-------------------------------------------------------------------------------
(* The class Generator of coroutine_socket.cpp *)

\* There are no objects and no frames.
LEMMA GenInit ==
  ASSUME Gen!Distinct, Gen!Init
  PROVE  Gen!IInv
BY DEF Gen!Distinct, Gen!Init, Gen!IInv, Gen!TypeOK, Gen!Holds

\* A new frame has been free, so nobody holds it.
LEMMA ConstructStep ==
  ASSUME Gen!Distinct, Gen!IInv, NEW o \in Objects, NEW f \in Frames, Gen!Construct(o, f)
  PROVE  Gen!IInv'
<1>1. /\ c_routine' = [c_routine EXCEPT ![o] = f]
      /\ frame' = [frame EXCEPT ![f] = "suspended"]
      /\ \A p \in Objects : c_routine[p] # f
  BY DEF Gen!IInv, Gen!Construct
<1>2. Gen!TypeOK'
  BY <1>1 DEF Gen!IInv, Gen!TypeOK
<1>3. (\A p, q \in Objects : Gen!Holds(p) /\ c_routine[p] = c_routine[q] => p = q)'
  BY <1>1 DEF Gen!IInv, Gen!TypeOK, Gen!Holds
<1>4. (\A g \in Frames : frame[g] # "free" <=> \E p \in Objects : c_routine[p] = g)'
  <2>1. SUFFICES ASSUME NEW g \in Frames
                 PROVE  frame'[g] # "free" <=> \E p \in Objects : c_routine'[p] = g
    OBVIOUS
  <2>2. CASE g = f
    BY <1>1, <2>2 DEF Gen!IInv, Gen!TypeOK
  <2>3. CASE g # f
    <3>1. c_routine[o] # g
      BY DEF Gen!Distinct, Gen!Construct, Gen!Exists
    <3>2. QED
      BY <1>1, <2>3, <3>1 DEF Gen!IInv, Gen!TypeOK
  <2>4. QED
    BY <2>2, <2>3
<1>5. QED
  BY <1>2, <1>3, <1>4 DEF Gen!IInv

\* What p held is held by o afterwards, and nothing by p.
LEMMA MoveStep ==
  ASSUME Gen!Distinct, Gen!IInv, NEW o \in Objects, NEW p \in Objects, o # p,
         c_routine[p] # Gen!Absent,
         c_routine' = [c_routine EXCEPT ![o] = c_routine[p], ![p] = Gen!Null],
         frame' = Gen!Destroyed(o)
  PROVE  Gen!IInv'
<1>1. Gen!TypeOK'
  BY DEF Gen!IInv, Gen!TypeOK, Gen!Destroyed
<1>2. (\A q, r \in Objects : Gen!Holds(q) /\ c_routine[q] = c_routine[r] => q = r)'
  BY DEF Gen!Distinct, Gen!IInv, Gen!TypeOK, Gen!Holds
<1>3. (\A g \in Frames : frame[g] # "free" <=> \E q \in Objects : c_routine[q] = g)'
  <2>1. SUFFICES ASSUME NEW g \in Frames
                 PROVE  frame'[g] # "free" <=> \E q \in Objects : c_routine'[q] = g
    OBVIOUS
  <2>2. g # Gen!Null
    BY DEF Gen!Distinct
  <2>3. CASE c_routine[o] = g
    <3>1. \A q \in Objects : c_routine[q] = g => q = o
      BY <2>3 DEF Gen!IInv, Gen!Holds
    <3>2. frame'[g] = "free"
      BY <2>3 DEF Gen!Destroyed
    <3>3. QED
      BY <2>2, <3>1, <3>2 DEF Gen!IInv, Gen!TypeOK
  <2>4. CASE c_routine[o] # g
    <3>1. frame'[g] = frame[g]
      BY <2>4 DEF Gen!Destroyed
    <3>2. (\E q \in Objects : c_routine'[q] = g) <=> \E q \in Objects : c_routine[q] = g
      BY <2>2, <2>4 DEF Gen!IInv, Gen!TypeOK
    <3>3. QED
      BY <3>1, <3>2 DEF Gen!IInv
  <2>5. QED
    BY <2>3, <2>4
<1>4. QED
  BY <1>1, <1>2, <1>3 DEF Gen!IInv

\* An object under construction holds no frame that could be destroyed.
LEMMA MoveConstructStep ==
  ASSUME Gen!Distinct, Gen!IInv, NEW o \in Objects, NEW p \in Objects, Gen!MoveConstruct(o, p)
  PROVE  Gen!IInv' /\ o # p /\ frame' = Gen!Destroyed(o)
<1>1. o # p
  BY DEF Gen!MoveConstruct, Gen!Exists
<1>2. Gen!Destroyed(o) = frame
  BY DEF Gen!Distinct, Gen!IInv, Gen!TypeOK, Gen!MoveConstruct, Gen!Exists,
         Gen!Destroyed
<1>3. QED
  BY <1>1, <1>2, MoveStep DEF Gen!MoveConstruct, Gen!Exists, Gen!Cleared

\* The frame that o had is destroyed, and the one of p handed on.
LEMMA MoveAssignStep ==
  ASSUME Gen!Distinct, Gen!IInv, NEW o \in Objects, NEW p \in Objects, Gen!MoveAssign(o, p)
  PROVE  Gen!IInv'
BY MoveStep DEF Gen!MoveAssign, Gen!Exists, Gen!Cleared

\* Nobody else holds the frame that is destroyed.
LEMMA DestroyFrameStep ==
  ASSUME Gen!Distinct, Gen!IInv, NEW o \in Objects, Gen!Destroy(o)
  PROVE  Gen!IInv'
<1>1. Gen!TypeOK'
  BY DEF Gen!IInv, Gen!TypeOK, Gen!Destroy, Gen!Destroyed
<1>2. (\A q, r \in Objects : Gen!Holds(q) /\ c_routine[q] = c_routine[r] => q = r)'
  BY DEF Gen!Distinct, Gen!IInv, Gen!TypeOK, Gen!Holds, Gen!Destroy
<1>3. (\A g \in Frames : frame[g] # "free" <=> \E q \in Objects : c_routine[q] = g)'
  <2>1. SUFFICES ASSUME NEW g \in Frames
                 PROVE  frame'[g] # "free" <=> \E q \in Objects : c_routine'[q] = g
    OBVIOUS
  <2>2. g # Gen!Absent
    BY DEF Gen!Distinct
  <2>3. \A q \in Objects \ {o} : c_routine'[q] = c_routine[q]
    BY DEF Gen!IInv, Gen!TypeOK, Gen!Destroy
  <2>4. c_routine'[o] = Gen!Absent
    BY DEF Gen!IInv, Gen!TypeOK, Gen!Destroy
  <2>5. frame'[g] = IF c_routine[o] = g THEN "free" ELSE frame[g]
    BY DEF Gen!Destroy, Gen!Destroyed
  <2>6. QED
    BY <2>2, <2>3, <2>4, <2>5 DEF Gen!IInv, Gen!Holds
<1>4. QED
  BY <1>1, <1>2, <1>3 DEF Gen!IInv

\* A call leaves the frame in use.
LEMMA CallStep ==
  ASSUME Gen!IInv, NEW o \in Objects, Gen!Call(o)
  PROVE  /\ Gen!IInv' /\ c_routine' = c_routine
         /\ \A g \in Frames : frame'[g] = "free" <=> frame[g] = "free"
<1>1. PICK f \in Frames : /\ frame[f] = "suspended" /\ c_routine' = c_routine
                          /\ frame' \in {frame, [frame EXCEPT ![f] = "done"]}
  BY DEF Gen!Call, Gen!Holds
<1>2. \A g \in Frames : frame'[g] = "free" <=> frame[g] = "free"
  BY <1>1 DEF Gen!IInv, Gen!TypeOK
<1>3. Gen!TypeOK'
  BY <1>1 DEF Gen!IInv, Gen!TypeOK
<1>4. QED
  BY <1>1, <1>2, <1>3 DEF Gen!IInv, Gen!Holds

\* What a run of MCChapter10 does with the generators is a run of the class.
LEMMA GenRuns ==
  Spec => Gen!Init /\ [][Gen!Next]_(Gen!vars)
<1>1. Init => Gen!Init
  BY DEF Init
<1>2. [Next]_vars => [Gen!Next]_(Gen!vars)
  BY DEF Next, vars, EventStep, SocketStep, GenStep, GuardStep, genVars, Gen!vars
<1>3. QED
  BY <1>1, <1>2, PTL DEF Spec

\* No frame has two owners, or none while it is in use, whatever sequence of
\* constructions, moves, assignments, calls and destructions a caller makes
\* (lines 57-85): destroy() is called once for each frame.
THEOREM GeneratorInvariant == Spec => []Gen!IInv
<1> USE ConstantsAssumption
<1>1. Gen!Init => Gen!IInv
  BY GenInit
<1>2. Gen!IInv /\ [Gen!Next]_(Gen!vars) => Gen!IInv'
  <2>1. Gen!IInv /\ UNCHANGED Gen!vars => Gen!IInv'
    BY DEF Gen!IInv, Gen!TypeOK, Gen!Holds, Gen!vars
  <2>2. QED
    BY <2>1, ConstructStep, MoveConstructStep, MoveAssignStep, DestroyFrameStep,
       CallStep DEF Gen!Next
<1>3. QED
  BY <1>1, <1>2, GenRuns, PTL
-------------------------------------------------------------------------------
\* The owner of a frame, in terms of the handles.
FramesKnown ==
  \A f \in Frames : /\ \A o \in Objects : Gen!Owner(f) = o <=> c_routine[o] = f
                    /\ Gen!Owner(f) = "nobody" <=> frame[f] = "free"
                    /\ Gen!Owner(f) \in Objects \cup {"nobody"}

\* CHOOSE finds the one object that holds the frame.
LEMMA FrameOwners ==
  ASSUME Gen!Distinct
  PROVE  Gen!IInv => FramesKnown
<1>1. SUFFICES ASSUME Gen!IInv, NEW f \in Frames
               PROVE  /\ \A o \in Objects : Gen!Owner(f) = o <=> c_routine[o] = f
                      /\ Gen!Owner(f) = "nobody" <=> frame[f] = "free"
                      /\ Gen!Owner(f) \in Objects \cup {"nobody"}
  BY DEF FramesKnown
<1>2. CASE frame[f] = "free"
  BY <1>1, <1>2 DEF Gen!Distinct, Gen!IInv, Gen!Owner
<1>3. CASE frame[f] # "free"
  <2>1. \E o \in Objects : c_routine[o] = f
    BY <1>1, <1>3 DEF Gen!IInv
  <2>2. Gen!Owner(f) = CHOOSE o \in Objects : c_routine[o] = f
    BY <1>3, <2>1 DEF Gen!Owner
  <2>3. Gen!Owner(f) \in Objects /\ c_routine[Gen!Owner(f)] = f
    BY <2>1, <2>2
  <2>4. QED
    BY <1>1, <1>3, <2>3 DEF Gen!Distinct, Gen!IInv, Gen!Holds
<1>4. QED
  BY <1>2, <1>3

\* Both ways of moving hand the frame on, and release the one that o had.
LEMMA MoveRefines ==
  ASSUME Gen!Distinct, Gen!IInv, FramesKnown, FramesKnown',
         NEW o \in Objects, NEW p \in Objects, o # p,
         c_routine' = [c_routine EXCEPT ![o] = c_routine[p], ![p] = Gen!Null],
         frame' = Gen!Destroyed(o)
  PROVE  Gen!Unique!Move(o, p)
<1>1. SUFFICES ASSUME NEW f \in Frames
               PROVE  Gen!Owner(f)' = IF Gen!Owner(f) = p THEN o
                                  ELSE IF Gen!Owner(f) = o THEN "nobody" ELSE Gen!Owner(f)
  BY DEF Gen!Unique!Move, Gen!Unique!Take, Gen!Unique!Owns
<1>2. f # Gen!Null /\ "nobody" \notin Objects
  BY DEF Gen!Distinct
<1>3. \A q \in Objects : c_routine'[q] = IF q = p THEN Gen!Null ELSE IF q = o THEN c_routine[p] ELSE c_routine[q]
  BY DEF Gen!IInv, Gen!TypeOK
<1>4. frame'[f] = IF c_routine[o] = f THEN "free" ELSE frame[f]
  BY DEF Gen!Destroyed
<1>5. /\ \A q \in Objects : Gen!Owner(f) = q <=> c_routine[q] = f
      /\ Gen!Owner(f) = "nobody" <=> frame[f] = "free"
      /\ Gen!Owner(f) \in Objects \cup {"nobody"}
  BY DEF FramesKnown
<1>6. /\ \A q \in Objects : Gen!Owner(f)' = q <=> c_routine'[q] = f
      /\ Gen!Owner(f)' = "nobody" <=> frame'[f] = "free"
      /\ Gen!Owner(f)' \in Objects \cup {"nobody"}
  BY DEF FramesKnown
<1>7. CASE Gen!Owner(f) = p
  BY <1>2, <1>3, <1>5, <1>6, <1>7
<1>8. CASE Gen!Owner(f) = o
  BY <1>4, <1>5, <1>6, <1>8
<1>9. CASE Gen!Owner(f) # p /\ Gen!Owner(f) # o
  BY <1>2, <1>3, <1>4, <1>5, <1>6, <1>9
<1>10. QED
  BY <1>7, <1>8, <1>9

\* An object without a frame gets one that was free.
LEMMA ConstructRefines ==
  ASSUME Gen!Distinct, Gen!IInv, FramesKnown, FramesKnown',
         NEW o \in Objects, NEW f \in Frames, Gen!Construct(o, f)
  PROVE  Gen!Unique!Acquire(o, f)
<1>1. /\ c_routine[o] = Gen!Absent /\ frame[f] = "free"
      /\ c_routine' = [c_routine EXCEPT ![o] = f]
      /\ frame' = [frame EXCEPT ![f] = "suspended"]
  BY DEF Gen!Construct, Gen!Exists
<1>2. \A g \in Frames : Gen!Owner(g) # o
  BY <1>1 DEF Gen!Distinct, FramesKnown
<1>3. Gen!Owner(f) = "nobody"
  BY <1>1 DEF FramesKnown
<1>4. ASSUME NEW g \in Frames PROVE Gen!Owner(g)' = IF g = f THEN o ELSE Gen!Owner(g)
  <2>1. CASE g = f
    BY <1>1, <2>1 DEF Gen!IInv, Gen!TypeOK, FramesKnown
  <2>2. CASE g # f
    <3>1. frame'[g] = frame[g] /\ c_routine'[o] # g /\ c_routine[o] # g
      BY <1>1, <2>2 DEF Gen!Distinct, Gen!IInv, Gen!TypeOK
    <3>2. \A p \in Objects : c_routine'[p] = g <=> c_routine[p] = g
      BY <1>1, <3>1 DEF Gen!IInv, Gen!TypeOK
    <3>3. QED
      BY <2>2, <3>1, <3>2 DEF FramesKnown
  <2>3. QED
    BY <2>1, <2>2
<1>5. QED
  BY <1>2, <1>3, <1>4 DEF Gen!Unique!Acquire, Gen!Unique!Owns

\* Destroying an object releases its frame, if it has one.
LEMMA DestroyFrameRefines ==
  ASSUME Gen!Distinct, Gen!IInv, FramesKnown, FramesKnown', NEW o \in Objects, Gen!Destroy(o)
  PROVE  \/ \E f \in Frames : Gen!Unique!Release(o, f)
         \/ \A g \in Frames : Gen!Owner(g)' = Gen!Owner(g)
<1>1. ASSUME NEW g \in Frames
      PROVE  Gen!Owner(g)' = IF c_routine[o] = g THEN "nobody" ELSE Gen!Owner(g)
  <2>1. frame'[g] = IF c_routine[o] = g THEN "free" ELSE frame[g]
    BY DEF Gen!Destroy, Gen!Destroyed
  <2>2. \A p \in Objects \ {o} : c_routine'[p] = c_routine[p]
    BY DEF Gen!IInv, Gen!TypeOK, Gen!Destroy
  <2>3. CASE c_routine[o] = g
    BY <2>1, <2>3 DEF FramesKnown
  <2>4. CASE c_routine[o] # g
    <3>1. Gen!Owner(g) # o
      BY <2>4 DEF FramesKnown
    <3>2. QED
      BY <2>1, <2>2, <2>4, <3>1 DEF FramesKnown
  <2>5. QED
    BY <2>3, <2>4
<1>2. CASE c_routine[o] \in Frames
  <2>1. Gen!Owner(c_routine[o]) = o
    BY <1>2 DEF FramesKnown
  <2>2. QED
    BY <1>1, <1>2, <2>1 DEF Gen!Unique!Release, Gen!Unique!Owns
<1>3. CASE c_routine[o] \notin Frames
  BY <1>1, <1>3
<1>4. QED
  BY <1>2, <1>3

\* Calls and stuttering change no owner.
LEMMA SameOwners ==
  ASSUME FramesKnown, FramesKnown', c_routine' = c_routine,
         \A g \in Frames : frame'[g] = "free" <=> frame[g] = "free"
  PROVE  \A g \in Frames : Gen!Owner(g)' = Gen!Owner(g)
BY DEF FramesKnown

\* Generator implements UniqueOwner: a frame is handed from object to object and
\* destroyed by the last, in every sequence of legal calls (lines 57-77).
THEOREM GeneratorHasUniqueOwner == Spec => ImplementsUniqueOwner
<1> USE ConstantsAssumption
<1>1. Gen!Init => Gen!Unique!Init
  BY DEF Gen!Init, Gen!Owner, Gen!Unique!Init
<1>2. Gen!IInv /\ FramesKnown /\ FramesKnown' /\ [Gen!Next]_(Gen!vars)
        => [Gen!Unique!Next]_([f \in Frames |-> Gen!Owner(f)])
  <2>1. SUFFICES ASSUME Gen!IInv, FramesKnown, FramesKnown', [Gen!Next]_(Gen!vars),
                        ~ \A g \in Frames : Gen!Owner(g)' = Gen!Owner(g)
                 PROVE  Gen!Unique!Next
    OBVIOUS
  <2>2. ASSUME NEW o \in Objects, NEW f \in Frames, Gen!Construct(o, f) PROVE Gen!Unique!Next
    BY <2>1, <2>2, ConstructRefines DEF Gen!Unique!Next
  <2>3. ASSUME NEW o \in Objects, NEW p \in Objects, Gen!MoveConstruct(o, p) PROVE Gen!Unique!Next
    <3>1. o # p /\ frame' = Gen!Destroyed(o)
      BY <2>1, <2>3, MoveConstructStep
    <3>2. Gen!Unique!Move(o, p)
      BY <2>1, <2>3, <3>1, MoveRefines DEF Gen!MoveConstruct, Gen!Cleared
    <3>3. QED
      BY <3>2 DEF Gen!Unique!Next
  <2>4. ASSUME NEW o \in Objects, NEW p \in Objects, Gen!MoveAssign(o, p) PROVE Gen!Unique!Next
    <3>1. Gen!Unique!Move(o, p)
      BY <2>1, <2>4, MoveRefines DEF Gen!MoveAssign, Gen!Cleared
    <3>2. QED
      BY <3>1 DEF Gen!Unique!Next
  <2>5. ASSUME NEW o \in Objects, Gen!Destroy(o) PROVE Gen!Unique!Next
    BY <2>1, <2>5, DestroyFrameRefines DEF Gen!Unique!Next
  <2>6. ASSUME NEW o \in Objects, Gen!Call(o) PROVE FALSE
    BY <2>1, <2>6, CallStep, SameOwners
  <2>7. CASE UNCHANGED Gen!vars
    BY <2>1, <2>7, SameOwners DEF Gen!vars
  <2>8. QED
    BY <2>1, <2>2, <2>3, <2>4, <2>5, <2>6, <2>7 DEF Gen!Next
<1>3. QED
  BY <1>1, <1>2, GeneratorInvariant, GenRuns, FrameOwners, PTL
     DEF ImplementsUniqueOwner, Gen!ImplementsUniqueOwner, Gen!Unique!Spec
-------------------------------------------------------------------------------
(* The class file_guard of raii.cpp *)

\* The invariant without the set of what is held.
Alone == /\ Guard!TypeOK
         /\ \A g \in Guards : fd[g] \in Fds => fd[g] \in open
         /\ \A g, h \in Guards : fd[g] \in Fds /\ fd[g] = fd[h] => g = h

\* It is the invariant.
LEMMA AloneIsIInv == Alone <=> Guard!IInv
BY DEF Alone, Guard!IInv, Guard!Held

\* No constructor, move, assignment or destructor gives a descriptor two owners
\* or closes it under one.
LEMMA GuardStepHolds ==
  ASSUME Guard!Distinct, Alone, [Guard!Next]_(Guard!vars)
  PROVE  Alone'
<1>1. ASSUME NEW g \in Guards, NEW d \in Fds, Guard!Open(g, d) PROVE Alone'
  <2>1. \A h \in Guards : fd[h] # d
    BY <1>1 DEF Alone, Guard!Open
  <2>2. Guard!TypeOK'
    BY <1>1 DEF Alone, Guard!TypeOK, Guard!Open
  <2>3. QED
    BY <1>1, <2>1, <2>2 DEF Alone, Guard!TypeOK, Guard!Open
<1>2. ASSUME NEW g \in Guards, NEW h \in Guards, Guard!MoveConstruct(g, h) \/ Guard!MoveAssign(g, h)
      PROVE  Alone'
  <2>1. fd' = [fd EXCEPT ![g] = fd[h], ![h] = Guard!Closed] /\ open' = open /\ fd[h] # Guard!Absent
    BY <1>2 DEF Guard!MoveConstruct, Guard!MoveAssign, Guard!Cleared, Guard!Exists
  <2>2. Guard!TypeOK'
    BY <2>1 DEF Alone, Guard!TypeOK
  <2>3. \A k \in Guards : fd'[k] = IF k = h THEN Guard!Closed ELSE IF k = g THEN fd[h] ELSE fd[k]
    BY <2>1 DEF Alone, Guard!TypeOK
  <2>4. ASSUME NEW k \in Guards, fd'[k] \in Fds PROVE fd'[k] \in open'
    <3>1. fd'[k] \in {fd[h], fd[k]}
      BY <2>3, <2>4 DEF Guard!Distinct
    <3>2. QED
      BY <2>1, <2>4, <3>1 DEF Alone
  <2>5. ASSUME NEW k \in Guards, NEW l \in Guards, fd'[k] \in Fds, fd'[k] = fd'[l]
        PROVE  k = l
    <3>1. k # h /\ l # h
      BY <2>3, <2>5 DEF Guard!Distinct
    <3>2. CASE k = g
      BY <2>3, <2>5, <3>1, <3>2 DEF Alone
    <3>3. CASE k # g
      BY <2>3, <2>5, <3>1, <3>3 DEF Alone
    <3>4. QED
      BY <3>2, <3>3
  <2>6. QED
    BY <2>2, <2>4, <2>5 DEF Alone
<1>3. ASSUME NEW g \in Guards, Guard!Destroy(g) PROVE Alone'
  <2>1. /\ open' = open \ {fd[g]}
        /\ \A k \in Guards : fd'[k] = IF k = g THEN Guard!Absent ELSE fd[k]
    BY <1>3 DEF Alone, Guard!TypeOK, Guard!Destroy
  <2>2. Guard!TypeOK'
    BY <1>3 DEF Alone, Guard!TypeOK, Guard!Destroy
  <2>3. QED
    BY <2>1, <2>2 DEF Guard!Distinct, Alone
<1>4. CASE UNCHANGED Guard!vars
  BY <1>4 DEF Alone, Guard!TypeOK, Guard!vars
<1>5. QED
  BY <1>1, <1>2, <1>3, <1>4 DEF Guard!Next

\* What a run of MCChapter10 does with the guards is a run of the class.
LEMMA GuardRuns ==
  Spec => Guard!Init /\ [][Guard!Next]_(Guard!vars)
<1>1. Init => Guard!Init
  BY DEF Init
<1>2. [Next]_vars => [Guard!Next]_(Guard!vars)
  BY DEF Next, vars, EventStep, SocketStep, GenStep, GuardStep, guardVars, Guard!vars
<1>3. QED
  BY <1>1, <1>2, PTL DEF Spec

\* What a guard holds is open and held by nobody else, in every sequence of calls
\* (lines 9-37): close() is called at most once for each open().
THEOREM GuardInvariant == Spec => []Guard!IInv
<1> USE ConstantsAssumption
<1>1. Guard!Init => Alone
  BY DEF Guard!Distinct, Guard!Init, Alone, Guard!TypeOK
<1>2. Alone /\ [Guard!Next]_(Guard!vars) => Alone'
  BY GuardStepHolds
<1>3. QED
  BY <1>1, <1>2, AloneIsIInv, GuardRuns, PTL
-------------------------------------------------------------------------------
\* The owner of a descriptor, in terms of the guards.
GuardsKnown ==
  \A d \in Fds : /\ \A g \in Guards : Guard!Owner(d) = g <=> fd[g] = d
                 /\ Guard!Owner(d) = "nobody" <=> d \notin open
                 /\ Guard!Owner(d) \in Guards \cup {"nobody", "lost"}

\* A descriptor that is open and not held is lost.
LEMMA GuardFacts ==
  ASSUME Guard!Distinct
  PROVE  Guard!IInv => GuardsKnown
<1>1. SUFFICES ASSUME Guard!IInv, NEW d \in Fds
               PROVE  /\ \A g \in Guards : Guard!Owner(d) = g <=> fd[g] = d
                      /\ Guard!Owner(d) = "nobody" <=> d \notin open
                      /\ Guard!Owner(d) \in Guards \cup {"nobody", "lost"}
  BY DEF GuardsKnown
<1>2. "nobody" \notin Guards /\ "lost" \notin Guards
  BY DEF Guard!Distinct
<1>3. d \in Guard!Held <=> \E g \in Guards : fd[g] = d
  BY DEF Guard!Held
<1>4. CASE d \notin open
  BY <1>1, <1>2, <1>3, <1>4 DEF Guard!IInv, Guard!Owner
<1>5. CASE d \in open /\ d \notin Guard!Held
  BY <1>2, <1>3, <1>5 DEF Guard!Owner
<1>6. CASE d \in open /\ d \in Guard!Held
  <2>1. Guard!Owner(d) = CHOOSE g \in Guards : fd[g] = d
    BY <1>6 DEF Guard!Owner
  <2>2. Guard!Owner(d) \in Guards /\ fd[Guard!Owner(d)] = d
    BY <1>3, <1>6, <2>1
  <2>3. QED
    BY <1>1, <1>2, <1>6, <2>2 DEF Guard!IInv
<1>7. QED
  BY <1>4, <1>5, <1>6

\* open() gives a descriptor to a guard that has none.
LEMMA OpenRefines ==
  ASSUME Guard!Distinct, Guard!IInv, GuardsKnown, GuardsKnown', NEW g \in Guards, NEW d \in Fds, Guard!Open(g, d)
  PROVE  Guard!Unique!Acquire(g, d)
<1>1. /\ \A k \in Guards : fd'[k] = IF k = g THEN d ELSE fd[k]
      /\ open' = open \cup {d} /\ d \notin open /\ fd[g] = Guard!Absent
  BY DEF Guard!IInv, Guard!TypeOK, Guard!Open, Guard!Exists
<1>2. \A e \in Fds : Guard!Owner(e) # g
  BY <1>1 DEF Guard!Distinct, GuardsKnown
<1>3. ASSUME NEW e \in Fds PROVE Guard!Owner(e)' = IF e = d THEN g ELSE Guard!Owner(e)
  BY <1>1, <1>2 DEF GuardsKnown
<1>4. Guard!Owner(d) = "nobody"
  BY <1>1 DEF GuardsKnown
<1>5. [e \in Fds |-> Guard!Owner(e)]' = [[e \in Fds |-> Guard!Owner(e)] EXCEPT ![d] = g]
  BY <1>3
<1>6. QED
  BY <1>2, <1>4, <1>5 DEF Guard!Unique!Acquire, Guard!Unique!Owns

\* h has nothing left, and what g held is lost.
LEMMA GuardMoves ==
  ASSUME Guard!Distinct, Guard!IInv, GuardsKnown, GuardsKnown', NEW g \in Guards, NEW h \in Guards,
         Guard!MoveConstruct(g, h) \/ Guard!MoveAssign(g, h), NEW d \in Fds
  PROVE  Guard!Owner(d)' = IF g # h /\ Guard!Owner(d) = h THEN g
                     ELSE IF Guard!Owner(d) = g THEN "lost" ELSE Guard!Owner(d)
<1>1. \A k \in Guards : fd'[k] = IF k = h THEN Guard!Closed ELSE IF k = g THEN fd[h] ELSE fd[k]
  BY DEF Guard!IInv, Guard!TypeOK, Guard!MoveConstruct, Guard!MoveAssign, Guard!Cleared
<1>2. open' = open /\ d # Guard!Closed
  BY DEF Guard!Distinct, Guard!MoveConstruct, Guard!MoveAssign
<1>3. QED
  BY <1>1, <1>2 DEF Guard!Distinct, GuardsKnown

\* Destroying a guard releases its descriptor, if it has one.
LEMMA DestroyGuardRefines ==
  ASSUME Guard!Distinct, Guard!IInv, GuardsKnown, GuardsKnown', NEW g \in Guards, Guard!Destroy(g)
  PROVE  \/ \E d \in Fds : Guard!Unique!Release(g, d)
         \/ \A d \in Fds : Guard!Owner(d)' = Guard!Owner(d)
<1>1. /\ \A k \in Guards : fd'[k] = IF k = g THEN Guard!Absent ELSE fd[k]
      /\ open' = open \ {fd[g]}
  BY DEF Guard!IInv, Guard!TypeOK, Guard!Destroy
<1>2. ASSUME NEW d \in Fds PROVE Guard!Owner(d)' = IF fd[g] = d THEN "nobody" ELSE Guard!Owner(d)
  BY <1>1 DEF Guard!Distinct, GuardsKnown
<1>3. CASE fd[g] \in Fds
  <2>1. Guard!Owner(fd[g]) = g
    BY <1>3 DEF GuardsKnown
  <2>2. QED
    BY <1>2, <1>3, <2>1 DEF Guard!Unique!Release, Guard!Unique!Owns
<1>4. CASE fd[g] \notin Fds
  BY <1>2, <1>4
<1>5. QED
  BY <1>3, <1>4

\* A descriptor has one owner, is closed, or is lost for good.
LEMMA GuardOwners == Spec => Guard!ImplementsLossyOwner
<1> USE ConstantsAssumption
<1>1. Guard!Init => Guard!Unique!Init
  BY DEF Guard!Init, Guard!Owner, Guard!Unique!Init
<1>2. Guard!IInv /\ GuardsKnown /\ GuardsKnown' /\ [Guard!Next]_(Guard!vars)
        => [Guard!Unique!LossyNext]_([d \in Fds |-> Guard!Owner(d)])
  <2>1. SUFFICES ASSUME Guard!IInv, GuardsKnown, GuardsKnown', [Guard!Next]_(Guard!vars),
                        ~ \A d \in Fds : Guard!Owner(d)' = Guard!Owner(d)
                 PROVE  Guard!Unique!LossyNext
    OBVIOUS
  <2>2. ASSUME NEW g \in Guards, NEW d \in Fds, Guard!Open(g, d) PROVE Guard!Unique!LossyNext
    BY <2>1, <2>2, OpenRefines DEF Guard!Unique!LossyNext, Guard!Unique!Next
  <2>3. ASSUME NEW g \in Guards, NEW h \in Guards, Guard!MoveConstruct(g, h) \/ Guard!MoveAssign(g, h)
        PROVE  Guard!Unique!LossyNext
    <3>1. CASE g = h
      <4>1. \A d \in Fds : Guard!Owner(d)' = IF Guard!Owner(d) = g THEN "lost" ELSE Guard!Owner(d)
        BY <2>1, <2>3, <3>1, GuardMoves
      <4>2. QED
        BY <4>1 DEF Guard!Unique!LossyNext, Guard!Unique!LoseOwn, Guard!Unique!Owns
    <3>2. CASE g # h
      <4>1. \A d \in Fds : Guard!Owner(d)' = IF Guard!Owner(d) = h THEN g
                                       ELSE IF Guard!Owner(d) = g THEN "lost" ELSE Guard!Owner(d)
        BY <2>1, <2>3, <3>2, GuardMoves
      <4>2. Guard!Unique!Lose(g, h)
        BY <4>1 DEF Guard!Unique!Lose, Guard!Unique!Take, Guard!Unique!Owns
      <4>3. QED
        BY <3>2, <4>2 DEF Guard!Unique!LossyNext
    <3>3. QED
      BY <3>1, <3>2
  <2>4. ASSUME NEW g \in Guards, Guard!Destroy(g) PROVE Guard!Unique!LossyNext
    BY <2>1, <2>4, DestroyGuardRefines DEF Guard!Unique!LossyNext, Guard!Unique!Next
  <2>5. CASE UNCHANGED Guard!vars
    BY <2>1, <2>5 DEF Guard!vars, Guard!Owner, Guard!Held
  <2>6. QED
    BY <2>1, <2>2, <2>3, <2>4, <2>5 DEF Guard!Next
<1>3. QED
  BY <1>1, <1>2, GuardInvariant, GuardRuns, GuardFacts, PTL
     DEF Guard!ImplementsLossyOwner, Guard!Unique!LossySpec

\* Every other step leaves a descriptor that stays open with a guard.
LEMMA OnlyAssignmentLoses ==
  ASSUME Guard!Distinct, Guard!IInv, [Guard!Next]_(Guard!vars), NEW d \in Fds, d \notin Guard!Held', d \in Guard!Held, d \in open'
  PROVE  \E g, h \in Guards : fd[g] = d /\ Guard!MoveAssign(g, h)
<1>1. PICK k \in Guards : fd[k] = d
  BY DEF Guard!Held
<1>2. \A g \in Guards : fd'[g] # d
  BY DEF Guard!Held
<1>3. d # Guard!Absent /\ d # Guard!Closed
  BY DEF Guard!Distinct
<1>4. ASSUME NEW g \in Guards, NEW e \in Fds, Guard!Open(g, e) PROVE FALSE
  BY <1>1, <1>2, <1>3, <1>4 DEF Guard!IInv, Guard!TypeOK, Guard!Open, Guard!Exists
<1>5. ASSUME NEW g \in Guards, NEW h \in Guards, Guard!MoveConstruct(g, h) PROVE FALSE
  BY <1>1, <1>2, <1>3, <1>5
     DEF Guard!IInv, Guard!TypeOK, Guard!MoveConstruct, Guard!Exists
<1>6. ASSUME NEW g \in Guards, Guard!Destroy(g) PROVE FALSE
  BY <1>1, <1>2, <1>6 DEF Guard!IInv, Guard!TypeOK, Guard!Destroy
<1>7. ASSUME NEW g \in Guards, NEW h \in Guards, Guard!MoveAssign(g, h) PROVE fd[g] = d
  BY <1>1, <1>2, <1>7 DEF Guard!IInv, Guard!TypeOK, Guard!MoveAssign
<1>8. CASE UNCHANGED Guard!vars
  BY <1>1, <1>2, <1>8 DEF Guard!vars
<1>9. QED
  BY <1>4, <1>5, <1>6, <1>7, <1>8 DEF Guard!Next

\* file_guard keeps each descriptor with one owner, which closes it, and loses one
\* only by an assignment to its owner (lines 9-37): for any guards and descriptors.
THEOREM GuardLosesByAssignment == Spec => LostByAssignment
<1> USE ConstantsAssumption
<1> DEFINE A == \A d \in open \ Guard!Held' : d \in Guard!Held /\ d \in open' =>
                  \E g, h \in Guards : fd[g] = d /\ Guard!MoveAssign(g, h)
<1>1. Guard!IInv /\ [Guard!Next]_(Guard!vars) => [A]_(Guard!vars)
  BY OnlyAssignmentLoses DEF Guard!IInv, Guard!TypeOK
<1>2. QED
  BY <1>1, GuardInvariant, GuardRuns, GuardOwners, PTL
     DEF LostByAssignment, Guard!LostByAssignment, Guard!OnlyByAssignment
-------------------------------------------------------------------------------
(* The event of shmem_coroutines.cpp *)

\* Where the coroutine is, in terms of where the two threads are, and what the
\* region holds once notify() has filled it.
EventInv ==
  /\ Event!TypeOK
  /\ suspended = (receiver # "start")
  /\ sender \in {"fill", "resume", "body"} => suspended /\ main = "join"
  /\ suspended /\ sender \in {"sleep", "fill", "resume"} => coroutine = "suspended"
  /\ coroutine = "body" <=> sender = "body"
  /\ main = "join" => region # "absent"
  /\ filled => region = "own" \/ main = "done"
  /\ event_shown # "nothing" => sender = "returned"
  /\ event_shown \in {"stale", "empty"} \/ main = "crashed" => ~filled

LEMMA EventStepHolds ==
  ASSUME EventInv, Event!Next
  PROVE  EventInv'
<1> USE DEF EventInv, Event!TypeOK, Event!SenderGo, Event!ReceiverGo, Event!memory
<1>1. CASE Event!ShmOpen
  BY <1>1 DEF Event!ShmOpen
<1>2. CASE Event!Suspend
  BY <1>2 DEF Event!Suspend
<1>3. CASE Event!ReceiverReturns
  BY <1>3 DEF Event!ReceiverReturns
<1>4. CASE Event!Load
  BY <1>4 DEF Event!Load, Event!Found
<1>5. CASE Event!Fill
  <2>1. event_shown' = "nothing" /\ suspended' = suspended
    BY <1>5 DEF Event!Fill
  <2>2. CASE region' = "own" /\ filled' = TRUE
    BY <1>5, <2>1, <2>2 DEF Event!Fill
  <2>3. CASE UNCHANGED <<region, filled>>
    BY <1>5, <2>1, <2>3 DEF Event!Fill
  <2>4. QED
    BY <1>5, <2>2, <2>3 DEF Event!Fill
<1>6. CASE Event!Resume
  BY <1>6 DEF Event!Resume
<1>7. CASE Event!Body
  BY <1>7 DEF Event!Body
<1>8. CASE Event!Crash
  BY <1>8 DEF Event!Crash
<1>9. CASE Event!Close
  BY <1>9 DEF Event!Close, Event!Joined
<1>10. QED
  BY <1>1, <1>2, <1>3, <1>4, <1>5, <1>6, <1>7, <1>8, <1>9
     DEF Event!Next, Event!Receiver, Event!Sender, Event!Main

\* The coroutine is resumed once and only when it is suspended, and prints what
\* another run left, or crashes on it, only when notify() could not map the region
\* (shmem_coroutines.cpp lines 68-77, 96-132), in whatever order the receiver and the sender run.
THEOREM CoroutineResumedSafely == Spec => []ResumedSafely
<1>1. Init => EventInv
  BY DEF Init, Event!Init, EventInv, Event!TypeOK
<1>2. EventInv /\ [Next]_vars => EventInv'
  <2>1. ASSUME EventInv, UNCHANGED eventVars PROVE EventInv'
    BY <2>1 DEF eventVars, EventInv, Event!TypeOK
  <2>2. [Next]_vars => Event!Next \/ UNCHANGED eventVars
    BY DEF Next, vars, EventStep, SocketStep, GenStep, GuardStep
  <2>3. QED
    BY <2>1, <2>2, EventStepHolds
<1>3. EventInv => ResumedSafely
  BY DEF EventInv, Event!TypeOK, ResumedSafely, Event!ResumedSafely
<1>4. QED
  BY <1>1, <1>2, <1>3, PTL DEF Spec

\* A notification that has come while nobody waited resumes nobody later: the coroutine
\* stays suspended, though main() returns (shmem_coroutines.cpp lines 73-74, 97-101).
\* It is the safety half of WaiterResumed.
THEOREM MissedNotificationIsLost ==
  Spec => [](sender = "returned" /\ coroutine # "ended" => [](coroutine # "ended"))
<1> DEFINE Missed == sender = "returned" /\ coroutine # "ended"
<1>1. Missed /\ [Next]_vars => Missed'
  <2>1. [Next]_vars => Event!Next \/ UNCHANGED eventVars
    BY DEF Next, vars, EventStep, SocketStep, GenStep, GuardStep
  <2>2. Missed /\ Event!Next => Missed'
    BY DEF Event!Next, Event!Receiver, Event!Sender, Event!Main, Event!Suspend,
           Event!ReceiverReturns, Event!Load, Event!Fill, Event!Resume, Event!Body, Event!Crash,
           Event!ShmOpen, Event!Close, Event!SenderGo, Event!ReceiverGo, Event!memory
  <2>3. Missed /\ UNCHANGED eventVars => Missed'
    BY DEF eventVars
  <2>4. QED
    BY <2>1, <2>2, <2>3
<1>2. Missed => coroutine # "ended"
  OBVIOUS
<1>3. QED
  BY <1>1, <1>2, PTL DEF Spec
-------------------------------------------------------------------------------
(* The generators of coroutine_socket.cpp *)

\* The datagrams at the socket are those after the one in the buffer, which is the
\* last that was printed.
InOrder ==
  /\ Len(queue) + tmp_buf = sent
  /\ \A n \in 1..Len(queue) : queue[n] = tmp_buf + n

\* While main() waits for its threads; afterwards nothing is sent or received.
SocketInv ==
  /\ Socket!TypeOK
  /\ sent <= i["server"]
  /\ server \in {"bind", "create", "returned"} => "server" \notin frames
  /\ client \in {"create", "returned"} => "client" \notin frames
  /\ socket_main = "closed" => server = "returned" /\ client = "returned"
  /\ socket_main = "join" => InOrder
  /\ tmp_buf = IF shown = <<>> THEN 0 ELSE shown[Len(shown)]
  /\ \A n \in DOMAIN shown :
       shown[n] - (IF n = 1 THEN 0 ELSE shown[n - 1]) \in {0, 1}

\* A datagram that is sent has the next number and comes last.
LEMMA SendHolds ==
  ASSUME Socket!RoundsBound, SocketInv, Socket!Send
  PROVE  SocketInv'
<1> USE DEF Socket!RoundsBound
<1>1. /\ socket_main = "join" /\ i["server"] < Rounds
      /\ i' = [i EXCEPT !["server"] = @ + 1] /\ i'["server"] = i["server"] + 1
      /\ UNCHANGED <<server, client, socket_main, frames, tmp_buf, shown>>
  BY DEF SocketInv, Socket!TypeOK, Socket!Send, Socket!ServerGo, Socket!Alive,
         Socket!Calls
<1>2. CASE UNCHANGED <<queue, sent>>
  <2>1. Socket!TypeOK'
    BY <1>1, <1>2 DEF SocketInv, Socket!TypeOK
  <2>2. QED
    BY <1>1, <1>2, <2>1 DEF SocketInv, Socket!TypeOK, InOrder
<1>3. CASE sent' = sent + 1 /\ queue' = Append(queue, sent + 1)
  <2>1. /\ sent + 1 \in 1..Rounds /\ queue \in Seq(1..sent + 1)
        /\ tmp_buf \in 0..sent + 1 /\ shown \in Seq(0..sent + 1)
    BY <1>1 DEF SocketInv, Socket!TypeOK
  <2>2. Socket!TypeOK'
    <3>1. queue' \in Seq(1..sent')
      BY <1>3, <2>1
    <3>2. sent' \in 0..Rounds /\ tmp_buf' \in 0..sent' /\ shown' \in Seq(0..sent')
      BY <1>1, <1>3, <2>1
    <3>3. i' \in [{"server", "client"} -> 0..Rounds]
      BY <1>1 DEF SocketInv, Socket!TypeOK
    <3>4. QED
      BY <1>1, <3>1, <3>2, <3>3 DEF SocketInv, Socket!TypeOK
  <2>3. InOrder'
    <3>1. /\ queue \in Seq(1..sent) /\ sent \in Nat /\ tmp_buf \in Nat /\ InOrder
          /\ tmp_buf' = tmp_buf
      BY <1>1 DEF SocketInv, Socket!TypeOK
    <3>2. /\ Len(queue') = Len(queue) + 1 /\ queue'[Len(queue) + 1] = sent + 1
          /\ \A n \in 1..Len(queue) : queue'[n] = queue[n]
      BY <1>3, <3>1
    <3>3. QED
      BY <1>3, <3>1, <3>2 DEF InOrder
  <2>4. QED
    BY <1>1, <1>3, <2>2, <2>3 DEF SocketInv, Socket!TypeOK
<1>4. QED
  BY <1>2, <1>3 DEF Socket!Send, Socket!socket

\* What is printed is the datagram after the last one, or the last one again.
LEMMA ReceiveHolds ==
  ASSUME Socket!RoundsBound, SocketInv, Socket!Receive
  PROVE  SocketInv'
<1> USE DEF Socket!RoundsBound
<1>1. /\ socket_main = "join"
      /\ i' = [i EXCEPT !["client"] = @ + 1] /\ i["client"] < Rounds
      /\ UNCHANGED <<server, client, socket_main, frames, sent>>
      /\ tmp_buf' = Socket!Received /\ shown' = Append(shown, tmp_buf')
  BY DEF SocketInv, Socket!TypeOK, Socket!Receive, Socket!ClientGo, Socket!Alive,
         Socket!Calls
<1>2. /\ tmp_buf' \in {tmp_buf, tmp_buf + 1} /\ tmp_buf' \in 0..sent
      /\ queue' \in Seq(1..sent) /\ InOrder'
  <2>1. CASE queue = <<>>
    BY <1>1, <2>1
       DEF SocketInv, Socket!TypeOK, InOrder, Socket!Receive, Socket!Received
  <2>2. CASE queue # <<>>
    <3>1. tmp_buf' = Head(queue) /\ queue' = Tail(queue)
      BY <1>1, <2>2 DEF Socket!Receive, Socket!Received
    <3>2. queue \in Seq(1..sent) /\ sent \in Nat /\ tmp_buf \in Nat /\ InOrder
      BY <1>1 DEF SocketInv, Socket!TypeOK
    <3>3. Head(queue) = queue[1] /\ 1 \in 1..Len(queue) /\ queue[1] \in 1..sent
      BY <2>2, <3>2
    <3>4. queue[1] = tmp_buf + 1
      BY <3>2, <3>3 DEF InOrder
    <3>5. /\ Len(queue') = Len(queue) - 1 /\ queue' \in Seq(1..sent)
          /\ \A n \in 1..Len(queue') : queue'[n] = queue[n + 1]
      BY <2>2, <3>1, <3>2
    <3>6. InOrder'
      <4>1. tmp_buf' = tmp_buf + 1 /\ sent' = sent /\ Len(queue) \in Nat
        BY <1>1, <3>1, <3>2, <3>3, <3>4
      <4>2. Len(queue') + tmp_buf' = sent'
        <5>1. Len(queue) + tmp_buf = sent /\ tmp_buf \in Nat
          BY <3>2 DEF InOrder
        <5>2. Len(queue') = Len(queue) - 1
          BY <3>5
        <5>3. QED
          BY <4>1, <5>1, <5>2
      <4>3. ASSUME NEW n \in 1..Len(queue') PROVE queue'[n] = tmp_buf' + n
        <5>1. n + 1 \in 1..Len(queue) /\ queue'[n] = queue[n + 1]
          BY <3>5, <4>1
        <5>2. queue[n + 1] = tmp_buf + (n + 1)
          BY <3>2, <5>1 DEF InOrder
        <5>3. QED
          BY <3>2, <4>1, <5>1, <5>2
      <4>4. QED
        BY <4>2, <4>3 DEF InOrder
    <3>7. QED
      BY <3>1, <3>2, <3>3, <3>4, <3>5, <3>6
  <2>3. QED
    BY <2>1, <2>2
<1>3. Socket!TypeOK'
  BY <1>1, <1>2 DEF SocketInv, Socket!TypeOK
<1>4. tmp_buf' = IF shown' = <<>> THEN 0 ELSE shown'[Len(shown')]
  BY <1>1, <1>2 DEF SocketInv, Socket!TypeOK
<1>5. ASSUME NEW n \in DOMAIN shown'
      PROVE  shown'[n] - (IF n = 1 THEN 0 ELSE shown'[n - 1]) \in {0, 1}
  <2>1. /\ shown \in Seq(Nat) /\ tmp_buf \in Nat /\ DOMAIN shown = 1..Len(shown)
        /\ Len(shown') = Len(shown) + 1 /\ DOMAIN shown' = 1..Len(shown) + 1
    BY <1>1, <1>2 DEF SocketInv, Socket!TypeOK
  <2>2. CASE n \in DOMAIN shown
    BY <1>1, <2>1, <2>2 DEF SocketInv
  <2>3. CASE n = Len(shown) + 1
    <3>1. shown'[n] = tmp_buf'
      BY <1>1, <2>1, <2>3
    <3>2. CASE shown = <<>>
      BY <1>2, <2>1, <2>3, <3>1, <3>2 DEF SocketInv
    <3>3. CASE shown # <<>>
      <4>1. n # 1 /\ n - 1 = Len(shown) /\ n - 1 \in 1..Len(shown)
        BY <2>1, <2>3, <3>3
      <4>2. shown'[n - 1] = tmp_buf
        BY <1>1, <2>1, <3>3, <4>1 DEF SocketInv
      <4>3. QED
        <5>1. tmp_buf' - tmp_buf \in {0, 1}
          <6>1. tmp_buf \in Nat /\ (tmp_buf' = tmp_buf \/ tmp_buf' = tmp_buf + 1)
            BY <1>2, <2>1
          <6>2. QED
            BY <6>1
        <5>2. QED
          BY <3>1, <4>1, <4>2, <5>1
    <3>4. QED
      BY <3>2, <3>3
  <2>4. QED
    BY <2>1, <2>2, <2>3
<1>6. QED
  BY <1>1, <1>2, <1>3, <1>4, <1>5 DEF SocketInv, Socket!TypeOK

LEMMA SocketStepHolds ==
  ASSUME Socket!RoundsBound, SocketInv, Socket!Next
  PROVE  SocketInv'
<1>1. CASE Socket!Send
  BY <1>1, SendHolds
<1>2. CASE Socket!Receive
  BY <1>2, ReceiveHolds
<1>3. CASE Socket!Bind
  BY <1>3 DEF SocketInv, Socket!TypeOK, InOrder, Socket!Bind, Socket!ServerGo,
              Socket!Alive, Socket!calls, Socket!socket
<1>4. CASE Socket!CreateSender \/ Socket!DestroySender
  BY <1>4 DEF SocketInv, Socket!TypeOK, InOrder, Socket!CreateSender,
              Socket!DestroySender, Socket!ServerGo, Socket!Alive, Socket!socket
<1>5. CASE Socket!CreateReceiver \/ Socket!DestroyReceiver
  BY <1>5 DEF SocketInv, Socket!TypeOK, InOrder, Socket!CreateReceiver,
              Socket!DestroyReceiver, Socket!ClientGo, Socket!Alive, Socket!socket
<1>6. CASE Socket!Close
  BY <1>6
     DEF SocketInv, Socket!TypeOK, InOrder, Socket!Close, Socket!Joined, Socket!calls
<1>7. QED
  BY <1>1, <1>2, <1>3, <1>4, <1>5, <1>6 DEF Socket!Next, Socket!Server, Socket!Client

\* The client prints every datagram up to the last one it got, in the order sent
\* and each at least once, whatever is lost before the socket has it; and both
\* coroutines are destroyed before the socket is closed (coroutine_socket.cpp lines
\* 104-119, 158-167), for any number of calls.
THEOREM DatagramsShownInOrder == Spec => []ShownInOrder
<1> USE ConstantsAssumption
<1>1. Init => SocketInv
  BY DEF Init, Socket!Init, SocketInv, Socket!TypeOK, InOrder, Socket!RoundsBound
<1>2. SocketInv /\ [Next]_vars => SocketInv'
  <2>1. ASSUME SocketInv, UNCHANGED socketVars PROVE SocketInv'
    BY <2>1 DEF socketVars, SocketInv, Socket!TypeOK, InOrder
  <2>2. [Next]_vars => Socket!Next \/ UNCHANGED socketVars
    BY DEF Next, vars, EventStep, SocketStep, GenStep, GuardStep
  <2>3. QED
    BY <2>1, <2>2, SocketStepHolds
<1>3. SocketInv => ShownInOrder
  BY DEF SocketInv, Socket!TypeOK, InOrder, ShownInOrder, Socket!ShownInOrder
<1>4. QED
  BY <1>1, <1>2, <1>3, PTL DEF Spec

===============================================================================
