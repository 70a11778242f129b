-------------------------------- MODULE OneSlot --------------------------------
(***************************************************************************)
(* What the produce/consume examples of Chapter 7 promise about their      *)
(* shared counter: it is a slot that is filled only when it is empty and   *)
(* emptied only when it is full.                                           *)
(***************************************************************************)
VARIABLE slot

Init == slot = 0
Produce == slot = 0 /\ slot' = 1
Consume == slot = 1 /\ slot' = 0
Next == Produce \/ Consume

Spec == Init /\ [][Next]_slot
===============================================================================
