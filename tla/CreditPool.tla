----------------------------- MODULE CreditPool -----------------------------
(***************************************************************************)
(* What credit holds promise the owner of a balance: credits are reserved  *)
(* only when all of them are there, and each reservation ends once, given  *)
(* back whole or charged in part or in full.  A failing write may cost the *)
(* owner credits, but never makes any.                                     *)
(***************************************************************************)
EXTENDS Integers

CONSTANTS Holds, Initial

VARIABLES
  pool,   \* credits nobody has reserved
  held,   \* the credits each reservation keeps, 0 when there is none
  spent   \* credits charged

vars == << pool, held, spent >>

Init == pool = Initial /\ held = [h \in Holds |-> 0] /\ spent = 0

Reserve(h) ==
  /\ held[h] = 0
  /\ \E c \in 1 .. pool :
       held' = [held EXCEPT ![h] = c] /\ pool' = pool - c
  /\ UNCHANGED spent

End(h) == held[h] > 0 /\ held' = [held EXCEPT ![h] = 0]

GiveBack(h) ==
  /\ End(h)
  /\ pool' = pool + held[h]
  /\ UNCHANGED spent

\* The unused rest goes back, unless the write that returns it fails.
Charge(h) ==
  /\ End(h)
  /\ \E c \in 0 .. held[h] :
       spent' = spent + c /\ pool' \in {pool, pool + held[h] - c}

\* A crash or a failed write: the reservation is gone, or unreserved credits are.
Lose(h) == End(h) /\ UNCHANGED << pool, spent >>
Shrink == pool' < pool /\ UNCHANGED << held, spent >>

Next == Shrink \/ \E h \in Holds : Reserve(h) \/ GiveBack(h) \/ Charge(h) \/ Lose(h)

Spec == Init /\ [][Next]_vars
=============================================================================
