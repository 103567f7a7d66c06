-------------------------- MODULE ControlledReplay --------------------------
(***************************************************************************)
(* The replay validation of fixed and controlled runs: what replay_core.py *)
(* asks of the turns of a record and of what each event says was visible,  *)
(* and replay_controlled.py of the plans that were applied, on top of the  *)
(* envelope and the lifecycle of ReplayValidator.                          *)
(***************************************************************************)
EXTENDS ReplayValidator, Exposure

TurnNamed(turns, id) == \E i \in DOMAIN turns : Id(turns[i]) = id

\* Peers are turns of others in earlier rounds, evidence is introduced and
\* granted, and the history is of earlier rounds.
ReferencesValid(view, turns, agent, round) ==
  /\ \A id \in view.peers : TurnNamed(turns, id) /\ id[1] < round /\ id[2] # agent
  /\ view.evidence \subseteq Granted(agent, round)

HistoryValid(view, turns, round) ==
  \A id \in view.history : TurnNamed(turns, id) /\ id[1] < round

SameView(view, turn) == view.peers = turn.peers /\ view.evidence = turn.evidence

\* An exposure or request fits the turn it led to; in a failed run it may have
\* led to none.
ContextValid(e, turns, status) ==
  /\ HistoryValid(e.view, turns, e.round)
  /\ IF TurnNamed(turns, <<e.round, e.who>>)
     THEN \A i \in DOMAIN turns :
            Id(turns[i]) = <<e.round, e.who>> => SameView(e.view, turns[i])
     ELSE status = "failed" /\ ReferencesValid(e.view, turns, e.who, e.round)

VisibilityValid(log, turns, status) ==
  LET ended == Of(log, {"turn_completed"})
  IN  /\ \A i, j \in DOMAIN turns : Id(turns[i]) = Id(turns[j]) => i = j
      /\ \A i \in DOMAIN turns :
           ReferencesValid(turns[i], turns, turns[i].speaker, turns[i].round)
      /\ \A k \in ended : \E i \in DOMAIN turns :
           Id(turns[i]) = <<log[k].round, log[k].who>> /\ SameView(log[k].view, turns[i])
      /\ \A j, k \in ended :
           log[j].round = log[k].round /\ log[j].who = log[k].who => j = k
      /\ \A k \in Of(log, {"exposure_created", "llm_request"}) :
           ContextValid(log[k], turns, status)
      /\ status = "completed" =>
           AllIds(turns) = {<<log[k].round, log[k].who>> : k \in ended}
      /\ \A j \in Of(log, {"llm_request"}), k \in Of(log, {"llm_response"}) :
           log[j].round = log[k].round /\ log[j].who = log[k].who
             => log[j].view = log[k].view

Effects == {"override_applied", "order_applied", "evidence_requested", "report_required"}

\* A plan is seen first and once, then applied or rejected once, and has an
\* effect only when it was applied.
PlanEventsValid(log) ==
  LET Before(types, k) == \E j \in Of(log, types) : j < k /\ log[j].plan = log[k].plan
                                                        /\ log[j].round = log[k].round
  IN  /\ \A k \in Of(log, {"plan_seen"}) : ~Before({"plan_seen"}, k)
      /\ \A k \in Of(log, {"plan_applied", "plan_rejected"}) :
           Before({"plan_seen"}, k) /\ ~Before({"plan_applied", "plan_rejected"}, k)
      /\ \A k \in Of(log, Effects) : Before({"plan_applied"}, k)

\* All agents in the order that puts the targets first.
TargetsFirst(order, targets) ==
  /\ order \in Bijection(Agents, Agents)
  /\ \A i \in DOMAIN targets : order[i] = targets[i]
  /\ \A i, j \in Agents : Len(targets) < i /\ i < j => order[i] < order[j]

\* The turns at these places, from first to last, are those of a list of agents.
MadeInOrder(turns, places, order) ==
  \E place \in Surjection(DOMAIN order, places) :
    \A i, j \in DOMAIN order :
      turns[place[i]].speaker = order[i] /\ (i < j => place[i] < place[j])

\* What the turns of the next round show of a plan.  The order is compared for
\* restructure alone, whose plan records it.
EffectShown(plan, round, log, turns) ==
  LET next == {i \in DOMAIN turns : turns[i].round = round + 1}
      targets == ToSet(plan.targets)
  IN  /\ plan.action = "blind_evidence_reflection" =>
           \A i \in next : turns[i].speaker \in targets => turns[i].peers = {}
      /\ plan.action = "adaptive_exposure" =>
           \A id \in plan.peers : TurnNamed(turns, id) /\ id[1] < round
      /\ plan.action = "restructure" => MadeInOrder(turns, next, plan.order)
      /\ \A i \in next : \E k \in Of(log, {"turn_completed"}) :
           <<log[k].round, log[k].who>> = Id(turns[i])

PlansShown(log, turns) ==
  \A k \in Of(log, {"plan_applied"}) :
    log[k].round + 1 < MaxRounds => EffectShown(log[k].plan, log[k].round, log, turns)

Replays(log, turns, status) ==
  /\ EnvelopeValid(log) /\ LifecycleValid(log, status)
  /\ VisibilityValid(log, turns, status)
  /\ PlanEventsValid(log) /\ PlansShown(log, turns)
=============================================================================
