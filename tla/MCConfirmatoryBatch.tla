------------------------- MODULE MCConfirmatoryBatch -------------------------
(* Two conditions, each with a ledger of its own and caps of its exact size. *)
EXTENDS ConfirmatoryBatch, TLC

CONSTANTS r1, r2

MCRuns == {r1, r2}
MCRunOrder == <<r1, r2>>
MCLedgerOf == r1 :> "ledger1" @@ r2 :> "ledger2"
MCCap == 2 * ProbeCount + TurnCount

\* So the hypothesis of BatchRefusedOnlyAsReplay is met.
ASSUME MCCapsFit == CapsCoverRuns
=============================================================================
