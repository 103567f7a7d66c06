------------------------- MODULE MCControlledRun -------------------------
EXTENDS ControlledRun

MCIntroduced == [card \in Cards |-> IF card = "early" THEN 0 ELSE 1]
MCAudience == [card \in Cards |-> IF card = "early" THEN Agents ELSE {1}]

P(action, targets, peers, evidence) ==
  [action |-> action, targets |-> targets, peers |-> peers, evidence |-> evidence,
   order |-> CHOOSE order \in [Agents -> Agents] : TargetsFirst(order, targets)]

\* Plans that fit in every round, in some, and in none; the second adaptive
\* one shows its target an own turn.
MCPlans ==
  {P("no_op", <<>>, {}, {}), P("request_evidence", <<1>>, {}, {}),
   P("minority_report", <<2>>, {}, {}),
   P("blind_evidence_reflection", <<1>>, {}, {"early"}),
   P("blind_evidence_reflection", <<2>>, {}, {"early", "late"}),
   P("solicit_dissent", <<2>>, {}, {}),
   P("adaptive_exposure", <<1>>, {<<0, 2>>}, {"early", "late"}),
   P("adaptive_exposure", <<2, 1>>, {<<0, 2>>}, {}),
   P("restructure", <<2>>, {}, {})}
==========================================================================
