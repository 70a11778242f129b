------------------------------- MODULE Generator -------------------------------
(***************************************************************************)
(* The class Generator of Chapter 10/coroutine_socket.cpp: objects that    *)
(* own a coroutine frame and are made, called, moved and destroyed in any  *)
(* order a caller may choose.  A call of a generator that was moved from,  *)
(* or whose coroutine has ended, is undefined, and no caller makes it.     *)
(***************************************************************************)
CONSTANTS Objects, \* places for Generator objects
          Frames   \* memory for coroutine frames

Absent == "absent" \* there is no object
Null == "null"     \* the object has an empty handle

\* Frames and objects are told from the two and from Nobody.
Distinct == /\ Absent \notin Frames /\ Null \notin Frames
            /\ "nobody" \notin Objects

VARIABLES c_routine, \* [Objects -> Frames \cup {Null, Absent}]
          frame      \* [Frames -> {"free", "suspended", "done"}]

vars == <<c_routine, frame>>
Exists(o) == c_routine[o] # Absent
Holds(o) == c_routine[o] \in Frames

Init == /\ c_routine = [o \in Objects |-> Absent]
        /\ frame = [f \in Frames |-> "free"]
-------------------------------------------------------------------------------
\* get_return_object() and initial_suspend()
Construct(o, f) == /\ ~Exists(o) /\ frame[f] = "free"
                   /\ c_routine' = [c_routine EXCEPT ![o] = f]
                   /\ frame' = [frame EXCEPT ![f] = "suspended"]

Kept(p) == c_routine[p] \* mutant: other.c_routine is not cleared
Cleared(p) == Null
MoveConstruct(o, p) == /\ ~Exists(o) /\ Exists(p)
                       /\ c_routine' = [c_routine EXCEPT ![o] = c_routine[p], ![p] = Cleared(p)]
                       /\ UNCHANGED frame

\* frame after the frame that o holds, if any, has been destroyed
Destroyed(o) == [f \in Frames |-> IF c_routine[o] = f THEN "free" ELSE frame[f]]

\* Assignment to itself returns early and changes nothing.
MoveAssign(o, p) == /\ Exists(o) /\ Exists(p) /\ o # p
                    /\ frame' = Destroyed(o)
                    /\ c_routine' = [c_routine EXCEPT ![o] = c_routine[p], ![p] = Cleared(p)]

Destroy(o) == /\ Exists(o)
              /\ frame' = Destroyed(o)
              /\ c_routine' = [c_routine EXCEPT ![o] = Absent]

\* operator(): the coroutine runs to its next co_yield, or to its end, where
\* final_suspend() keeps the frame and nullopt is returned.
Call(o) == /\ Holds(o)
           /\ \E f \in {c_routine[o]} : /\ frame[f] = "suspended"
                                        /\ frame' \in {frame, [frame EXCEPT ![f] = "done"]}
           /\ UNCHANGED c_routine

Next == \E o \in Objects : \/ \E f \in Frames : Construct(o, f)
                           \/ \E p \in Objects : MoveConstruct(o, p) \/ MoveAssign(o, p)
                           \/ Destroy(o) \/ Call(o)
Spec == Init /\ [][Next]_vars
-------------------------------------------------------------------------------
TypeOK == /\ c_routine \in [Objects -> Frames \cup {Null, Absent}]
          /\ frame \in [Frames -> {"free", "suspended", "done"}]

\* No two objects hold the same frame, and the frames in use are those held
\* (lines 60-77): destroy() is called once for each.
IInv == /\ TypeOK
        /\ \A o, p \in Objects : Holds(o) /\ c_routine[o] = c_routine[p] => o = p
        /\ \A f \in Frames : frame[f] # "free" <=> \E o \in Objects : c_routine[o] = f

Owner(f) == IF frame[f] = "free" THEN "nobody"
            ELSE IF \E o \in Objects : c_routine[o] = f
                   THEN CHOOSE o \in Objects : c_routine[o] = f
                   ELSE "lost"
Unique == INSTANCE UniqueOwner WITH Resources <- Frames, Nobody <- "nobody", Lost <- "lost",
                                    owner <- [f \in Frames |-> Owner(f)]
\* A frame has one owner until that destroys it (lines 57-77).
ImplementsUniqueOwner == Unique!Spec
===============================================================================
