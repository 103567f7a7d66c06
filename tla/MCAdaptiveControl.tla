-------------------------- MODULE MCAdaptiveControl --------------------------
(* Rounds enough for a plan, its cooldown and a second plan; a free plan too. *)
EXTENDS AdaptiveControl, TLC

MCCosts == 0..2
=============================================================================
