------------------------ MODULE MCCascadeCalibration ------------------------
(* Two runs of two agents over three rounds: a1 may share with a2; the second *)
(* run is steered, by a controller that acts upon a view of a1's share.       *)
EXTENDS CascadeCalibration, TLC

CONSTANTS r1, r2, a1, a2

MCRuns == {r1, r2}
MCRunOrder == <<r1, r2>>
MCAgents == <<a1, a2>>
MCTargets == a1 :> {a2} @@ a2 :> {}
MCPolicy == r1 :> {} @@ r2 :> {{a1}}
=============================================================================
