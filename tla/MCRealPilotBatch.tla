-------------------------- MODULE MCRealPilotBatch --------------------------
(* Two conditions over one ledger, with caps of the exact size of the group. *)
EXTENDS RealPilotBatch, TLC

CONSTANTS r1, r2

MCRuns == {r1, r2}
MCRunOrder == <<r1, r2>>
MCLedgerOf == [run \in MCRuns |-> "ledger"]
MCCap == 2 * (2 * ProbeCount + TurnCount)
=============================================================================
