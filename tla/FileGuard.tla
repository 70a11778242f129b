------------------------------- MODULE FileGuard -------------------------------
(***************************************************************************)
(* The class file_guard of Chapter 5/raii.cpp: objects that own a file     *)
(* descriptor, made, moved and destroyed in any order a caller may choose. *)
(* A constructor whose open() fails throws, and there is no object.        *)
(***************************************************************************)
CONSTANTS Guards, Fds

Absent == "absent" \* there is no object
Closed == "-1"

Distinct == Absent \notin Fds /\ Closed \notin Fds /\ {"nobody", "lost"} \cap Guards = {}

VARIABLES fd,     \* [Guards -> Fds \cup {Closed, Absent}]
          open    \* the descriptors the process has open

vars == <<fd, open>>
Exists(g) == fd[g] # Absent

Init == fd = [g \in Guards |-> Absent] /\ open = {}
-------------------------------------------------------------------------------
\* open() returns a descriptor that is not in use.
Open(g, d) == /\ ~Exists(g) /\ d \notin open
              /\ fd' = [fd EXCEPT ![g] = d]
              /\ open' = open \cup {d}

NotCleared(h) == fd[h] \* mutant: other.fd keeps its value
Cleared(h) == Closed
MoveConstruct(g, h) == /\ ~Exists(g) /\ Exists(h)
                       /\ fd' = [fd EXCEPT ![g] = fd[h], ![h] = Cleared(h)]
                       /\ UNCHANGED open

\* The descriptor that g had is not closed; h may be g.
MoveAssign(g, h) == /\ Exists(g) /\ Exists(h)
                    /\ fd' = [fd EXCEPT ![g] = fd[h], ![h] = Cleared(h)]
                    /\ UNCHANGED open

\* ~file_guard(), at the end of the scope or while an exception unwinds it
Destroy(g) == /\ Exists(g)
              /\ open' = open \ {fd[g]}
              /\ fd' = [fd EXCEPT ![g] = Absent]

Next == \E g \in Guards : \/ \E d \in Fds : Open(g, d)
                          \/ \E h \in Guards : MoveConstruct(g, h) \/ MoveAssign(g, h)
                          \/ Destroy(g)
Spec == Init /\ [][Next]_vars
-------------------------------------------------------------------------------
TypeOK == fd \in [Guards -> Fds \cup {Closed, Absent}] /\ open \subseteq Fds
Held == {fd[g] : g \in Guards} \cap Fds

\* No guard closes, or hands out, a descriptor it does not own alone (lines
\* 21-37): what it holds is open, and held by no other guard.
IInv == /\ TypeOK
        /\ Held \subseteq open
        /\ \A g, h \in Guards : fd[g] \in Fds /\ fd[g] = fd[h] => g = h

Owner(d) == IF d \notin open THEN "nobody"
            ELSE IF d \in Held THEN CHOOSE g \in Guards : fd[g] = d ELSE "lost"
Unique == INSTANCE UniqueOwner WITH Resources <- Fds, Objects <- Guards, Nobody <- "nobody",
                                    Lost <- "lost", owner <- [d \in Fds |-> Owner(d)]
\* A descriptor has one owner or is lost for good, still open: never closed twice,
\* nor under a guard that uses it (lines 9-37).
ImplementsLossyOwner == Unique!LossySpec

\* Only an assignment to a guard that holds a descriptor, or to itself, loses one
\* (lines 23-28).
OnlyByAssignment ==
  [][\A d \in open \ Held' : d \in Held /\ d \in open' =>
       \E g, h \in Guards : fd[g] = d /\ MoveAssign(g, h)]_vars

\* Owned by one or lost, and lost in one way only (lines 9-37).
LostByAssignment == ImplementsLossyOwner /\ OnlyByAssignment
===============================================================================
