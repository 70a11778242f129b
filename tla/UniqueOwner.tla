------------------------------ MODULE UniqueOwner ------------------------------
(***************************************************************************)
(* What a class that owns a resource and can be moved promises: a resource *)
(* in use has one owner, which hands it on or releases it, and an object   *)
(* owns at most one.  LossySpec is for a class that can also lose one.     *)
(***************************************************************************)
CONSTANTS Resources, Objects, Nobody, Lost

VARIABLE owner  \* the owner of each resource; Nobody when it is not in use

Owns(o, r) == owner[r] = o
Init == owner = [r \in Resources |-> Nobody]

Acquire(o, r) == /\ \A q \in Resources : ~Owns(o, q)
                 /\ owner[r] = Nobody
                 /\ owner' = [owner EXCEPT ![r] = o]

Release(o, r) == Owns(o, r) /\ owner' = [owner EXCEPT ![r] = Nobody]

\* p hands its resource, if it has one, to o; what o had is left as leaves says.
Take(o, p, leaves) ==
  owner' = [r \in Resources |-> IF Owns(p, r) THEN o ELSE IF Owns(o, r) THEN leaves ELSE owner[r]]

Move(o, p) == o # p /\ Take(o, p, Nobody)

\* What o had is never released.
Lose(o, p) == Take(o, p, Lost)
LoseOwn(o) == owner' = [r \in Resources |-> IF Owns(o, r) THEN Lost ELSE owner[r]]

Next == \E o \in Objects : \/ \E r \in Resources : Acquire(o, r) \/ Release(o, r)
                           \/ \E p \in Objects : Move(o, p)
Spec == Init /\ [][Next]_owner
LossyNext == Next \/ \E o \in Objects : LoseOwn(o) \/ \E p \in Objects \ {o} : Lose(o, p)
LossySpec == Init /\ [][LossyNext]_owner
================================================================================
