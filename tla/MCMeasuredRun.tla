--------------------------- MODULE MCMeasuredRun ---------------------------
(* One condition with a ledger of its own. *)
EXTENDS MeasuredRun, TLC

CONSTANT r1

MCRuns == {r1}
MCLedgerOf == r1 :> "ledger"
MCCap == 2 * ProbeCount + TurnCount
=============================================================================
