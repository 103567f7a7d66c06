---------------------------- MODULE MCOneShotGates ----------------------------
(* Two command lines and qualifications of two cases. *)
EXTENDS OneShotGates, TLC

CONSTANTS a, b

MCLaunchers == {a, b}

MCSymmetry == Permutations(MCLaunchers)

=============================================================================
