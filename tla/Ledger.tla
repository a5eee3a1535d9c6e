------------------------------- MODULE Ledger -------------------------------
(***************************************************************************)
(* What StateDB.enforce_and_reserve (state/db.py) promises: a reservation  *)
(* is one atomic step that happens only if it fits under the halt          *)
(* threshold.                                                              *)
(***************************************************************************)
EXTENDS Naturals

CONSTANTS Key,    \* (session, scope, target) of a budget row
          Amount, \* amounts that are asked for
          Halt    \* halt_threshold

VARIABLE spent

Init == spent = [k \in Key |-> 0]

Reserve(k, usd) == /\ spent[k] + usd <= Halt
                   /\ spent' = [spent EXCEPT ![k] = @ + usd]

Next == \E k \in Key, usd \in Amount : Reserve(k, usd)

Spec == Init /\ [][Next]_spent
=============================================================================
