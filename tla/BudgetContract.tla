--------------------------- MODULE BudgetContract ---------------------------
(***************************************************************************)
(* What the intervention budget of a run promises (BudgetLedger in         *)
(* adaptive_control.py): an amount is reserved for one plan at a time, out *)
(* of what remains, and the whole of it is then either spent or given      *)
(* back.                                                                   *)
(***************************************************************************)
EXTENDS Integers

CONSTANTS InitialBudget, Costs

VARIABLES remaining, reserved, spent

vars == <<remaining, reserved, spent>>

Init == remaining = InitialBudget /\ reserved = 0 /\ spent = 0

Reserve(cost) ==
  /\ reserved = 0 /\ cost <= remaining
  /\ reserved' = cost /\ remaining' = remaining - cost
  /\ UNCHANGED spent

Spend ==
  /\ spent' = spent + reserved /\ reserved' = 0
  /\ UNCHANGED remaining

Release ==
  /\ remaining' = remaining + reserved /\ reserved' = 0
  /\ UNCHANGED spent

Next == (\E cost \in Costs : Reserve(cost)) \/ Spend \/ Release

Spec == Init /\ [][Next]_vars
=============================================================================
