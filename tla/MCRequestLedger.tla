--------------------------- MODULE MCRequestLedger ---------------------------
(***************************************************************************)
(* A small ledger: one agent turn, one probe, and a second rendering of    *)
(* the same probe (same coordinates, other content) and another probe.     *)
(***************************************************************************)
EXTENDS ProviderRetry

CONSTANTS turn, probe, probeEdited, otherProbe

MCRequests == {turn, probe, probeEdited, otherProbe}

MCKey == [r \in MCRequests |-> IF r = turn THEN "a0" ELSE IF r = otherProbe THEN "p2" ELSE "p1"]

MCPhase == [r \in MCRequests |-> IF r = turn THEN "agent_turn" ELSE "probe"]

MCMaxTokens == [r \in MCRequests |-> IF r = turn THEN 3 ELSE 2]

MCAllowlists == {{}, {probe}}
=============================================================================
