--------------------------- MODULE ControlledRun ---------------------------
(***************************************************************************)
(* One public run: rounds of turns under a protocol, as the local runner   *)
(* (runner.py) makes them, the runner of an explicit schedule of plans     *)
(* (controlled_runner_core.py), and the one that asks a real agent         *)
(* (real_agent_runner.py).  The views of a round are made at its start.    *)
(* The local runners add the turns of a round together, the real one each  *)
(* as it is answered, and it logs request and response after the call.     *)
(*                                                                         *)
(* The schedule is an input that only the round of a plan looks at, so its *)
(* plans are chosen there.  A crash leaves the log and no record, and      *)
(* run() refuses the directory from then on: a behaviour that stops.       *)
(***************************************************************************)
EXTENDS ControlledReplay

CONSTANTS Plans,        \* the plans that may be scheduled
          NoPlan,
          FaultKinds,   \* what may go wrong
          MaxFaults     \* bound: how often

Actions == {"no_op", "request_evidence", "blind_evidence_reflection", "solicit_dissent",
            "adaptive_exposure", "minority_report", "restructure"}

\* A valid plan: who is targeted, who is asked first where its action says so,
\* and the evidence and peers it shows its targets, in the shape its action asks
\* for.  Cost and requested evidence, which no turn depends on, are in order.
Plan ==
  {plan \in [action : Actions, targets : Seq(Agents), order : Seq(Agents),
             peers : SUBSET TurnIds, evidence : SUBSET Cards] :
     /\ plan.action \in {"no_op", "request_evidence"} \/ plan.targets # <<>>
     /\ TargetsFirst(plan.order, plan.targets)
     /\ (plan.peers # {}) = (plan.action = "adaptive_exposure")
     /\ plan.action \in {"blind_evidence_reflection", "adaptive_exposure"}
          \/ plan.evidence = {}}

ASSUME ScheduleAssumption ==
  /\ Plans \subseteq Plan /\ NoPlan \notin Plan
  /\ FaultKinds \subseteq {"provider", "log", "record", "schedule"}
  /\ MaxFaults \in Nat

VARIABLES kind,       \* which runner
          protocol,
          at,         \* what run() does next
          round, asked,   \* asked: agents of this round that were answered
          views,      \* [Agents -> view], of this round
          answer,     \* of the agent being asked
          turns,
          plans,      \* [round -> the plan seen in it]
          applied,    \* rounds whose plan was applied: future_effects
          log, sequence,
          record, snapshot,   \* run_record.json, intervention_schedule.json
          faults

vars == <<kind, protocol, at, round, asked, views, answer, turns, plans, applied,
          log, sequence, record, snapshot, faults>>

Places == {"round", "plan", "apply", "effect", "views", "expose", "request", "call",
           "response", "turn", "close", "finish", "record", "schedule",
           "failing", "failed_record", "failed_schedule", "done", "raised"}

\* Where an event is written next, and where the handler of run() writes it.
Writing == {"round", "plan", "apply", "effect", "expose", "request", "response",
            "turn", "close", "finish", "failing"}

Files == {"none", "partial", "failed", "completed", "written"}

LogTypes ==
  {"run_started", "round_started", "plan_seen", "plan_applied", "plan_rejected",
   "exposure_created", "llm_request", "llm_response", "turn_completed",
   "round_completed", "run_completed", "run_failed"} \cup Effects

LogEvent == [type : LogTypes, round : Rounds, who : Nat, sequence : Nat, view : View,
             plan : Plans \cup {NoPlan}, ok : BOOLEAN]

TypeOK ==
  /\ kind \in {"local", "controlled", "real"} /\ protocol \in Protocols
  /\ at \in Places
  /\ round \in Rounds /\ asked \in 0..AgentCount
  /\ views \in [Agents -> View]
  /\ answer \in {"none", "ok", "failed"}
  /\ turns \in Seq(Turn)
  /\ plans \in [Rounds -> Plans \cup {NoPlan}] /\ applied \subseteq Rounds
  /\ log \in Seq(LogEvent) /\ sequence \in Nat
  /\ record \in Files /\ snapshot \in Files
  /\ faults \in 0..MaxFaults

NewEvent(type, r, who, n) ==
  [type |-> type, round |-> r, who |-> who, sequence |-> n,
   view |-> NoView, plan |-> NoPlan, ok |-> TRUE]

\* The directory is made and run_started logged.
Init ==
  /\ kind \in {"local", "controlled", "real"} /\ protocol \in Protocols
  /\ at = "round" /\ round = 0 /\ asked = 0
  /\ views = [a \in Agents |-> NoView] /\ answer = "none"
  /\ turns = <<>>
  /\ plans = [r \in Rounds |-> NoPlan] /\ applied = {}
  /\ log = <<NewEvent("run_started", 0, 0, 1)>> /\ sequence = 1
  /\ record = "none" /\ snapshot = "none" /\ faults = 0

-----------------------------------------------------------------------------

Fault(what) ==
  /\ what \in FaultKinds /\ faults < MaxFaults
  /\ faults' = faults + 1

\* JsonlEventLog.append
WriteEvent(event) == log' = Append(log, event) /\ sequence' = sequence + 1

Write(type, who) == WriteEvent(NewEvent(type, round, who, sequence + 1))

WriteView(type, who, view, ok) ==
  WriteEvent([NewEvent(type, round, who, sequence + 1) EXCEPT !.view = view, !.ok = ok])

WritePlan(type, plan) ==
  WriteEvent([NewEvent(type, round, 0, sequence + 1) EXCEPT !.plan = plan])

StartRound ==
  /\ at = "round"
  /\ Write("round_started", 0)
  /\ at' = IF kind = "controlled" THEN "plan" ELSE "views"
  /\ UNCHANGED <<kind, protocol, round, asked, views, answer, turns, plans, applied,
                 record, snapshot, faults>>

LastRound == round + 1 = MaxRounds

\* A schedule without a plan is not run by the controlled runner.
NoPlanHere ==
  /\ at = "plan" /\ at' = "views"
  /\ LastRound => \E r \in Rounds : plans[r] # NoPlan
  /\ UNCHANGED <<kind, protocol, round, asked, views, answer, turns, plans, applied,
                 log, sequence, record, snapshot, faults>>

SeePlan ==
  /\ at = "plan" /\ at' = "apply"
  /\ \E plan \in Plans :
       /\ WritePlan("plan_seen", plan)
       /\ plans' = [plans EXCEPT ![round] = plan]
  /\ UNCHANGED <<kind, protocol, round, asked, views, answer, turns, applied,
                 record, snapshot, faults>>

ThePlan == plans[round]

Overrides(plan) ==
  IF plan = NoPlan THEN FALSE
  ELSE plan.action \in {"blind_evidence_reflection", "adaptive_exposure"}

\* A slip that takes the peers of a plan as they are.
ApplicableTrusting(plan) ==
  Overrides(plan) =>
    \A i \in DOMAIN plan.targets : plan.evidence \subseteq Granted(plan.targets[i], round)

\* apply_intervention_plan: what it asks of the views a plan names.
Applicable(plan) ==
  Overrides(plan) =>
    /\ plan.peers \subseteq {id \in AllIds(turns) : id[1] < round}
    /\ \A i \in DOMAIN plan.targets : plan.evidence \subseteq Granted(plan.targets[i], round)

ApplyPlan ==
  /\ at = "apply" /\ Applicable(ThePlan) /\ at' = "effect"
  /\ WritePlan("plan_applied", ThePlan)
  /\ UNCHANGED <<kind, protocol, round, asked, views, answer, turns, plans, applied,
                 record, snapshot, faults>>

RejectPlan ==
  /\ at = "apply" /\ ~Applicable(ThePlan) /\ at' = "failing"
  /\ WritePlan("plan_rejected", ThePlan)
  /\ UNCHANGED <<kind, protocol, round, asked, views, answer, turns, plans, applied,
                 record, snapshot, faults>>

EffectOf(action) ==
  CASE action \in {"blind_evidence_reflection", "adaptive_exposure"} -> "override_applied"
    [] action \in {"solicit_dissent", "restructure"} -> "order_applied"
    [] action = "request_evidence" -> "evidence_requested"
    [] action = "minority_report" -> "report_required"

\* _log_effect_events, and then the effect is there for the next round.
LogEffect ==
  /\ at = "effect" /\ at' = "views"
  /\ IF ThePlan.action = "no_op" THEN UNCHANGED <<log, sequence>>
                                 ELSE WritePlan(EffectOf(ThePlan.action), ThePlan)
  /\ applied' = applied \cup {round}
  /\ UNCHANGED <<kind, protocol, round, asked, views, answer, turns, plans,
                 record, snapshot, faults>>

\* A slip that leaves a plan in effect until another is applied.
ActivePlanLingering ==
  IF \E r \in applied : r < round
  THEN plans[CHOOSE r \in applied : r < round /\ \A s \in applied : s < round => s <= r]
  ELSE NoPlan

\* future_effects.get(round_id)
ActivePlan == IF round - 1 \in applied THEN plans[round - 1] ELSE NoPlan

Overridden(agent) == Overrides(ActivePlan) /\ agent \in ToSet(ActivePlan.targets)

\* _apply_next_round_effect (preserve_own_history is always set and never read)
ViewOf(agent) ==
  IF Overridden(agent)
  THEN [peers |-> ActivePlan.peers, evidence |-> ActivePlan.evidence,
        history |-> OwnIds(turns, agent) \cup (ActivePlan.peers \cap AllIds(turns))]
  ELSE Snapshot(protocol, turns, agent, round)

MakeViews ==
  /\ at = "views" /\ at' = "expose"
  /\ views' = [a \in Agents |-> ViewOf(a)]
  /\ asked' = 0
  /\ UNCHANGED <<kind, protocol, round, answer, turns, plans, applied, log, sequence,
                 record, snapshot, faults>>

\* _turn_order
TurnOrder ==
  IF ActivePlan # NoPlan /\ ActivePlan.action \in {"solicit_dissent", "restructure"}
  THEN ActivePlan.order
  ELSE [a \in Agents |-> a]

Agent == TurnOrder[asked + 1]

-----------------------------------------------------------------------------

Expose ==
  /\ at = "expose" /\ at' = IF kind = "real" THEN "call" ELSE "request"
  /\ WriteView("exposure_created", Agent, views[Agent], TRUE)
  /\ UNCHANGED <<kind, protocol, round, asked, views, answer, turns, plans, applied,
                 record, snapshot, faults>>

Request ==
  /\ at = "request" /\ at' = IF kind = "real" THEN "response" ELSE "call"
  /\ WriteView("llm_request", Agent, views[Agent], TRUE)
  /\ UNCHANGED <<kind, protocol, round, asked, views, answer, turns, plans, applied,
                 record, snapshot, faults>>

Called == at' = IF kind = "real" THEN "request" ELSE "response"

\* A slip that goes to the handler before the response is logged.
ProviderFailsSilently ==
  /\ at = "call" /\ at' = "failing" /\ answer' = "none" /\ Fault("provider")
  /\ UNCHANGED <<kind, protocol, round, asked, views, turns, plans, applied, log, sequence,
                 record, snapshot>>

Answer ==
  /\ at = "call" /\ Called /\ answer' = "ok"
  /\ UNCHANGED <<kind, protocol, round, asked, views, turns, plans, applied, log, sequence,
                 record, snapshot, faults>>

\* The provider raises, or the runtime brings back an answer that is not valid.
ProviderFails ==
  /\ at = "call" /\ Called /\ answer' = "failed" /\ Fault("provider")
  /\ UNCHANGED <<kind, protocol, round, asked, views, turns, plans, applied, log, sequence,
                 record, snapshot>>

\* _build_turn
NewTurn(agent) ==
  [round |-> round, speaker |-> agent, peers |-> views[agent].peers,
   evidence |-> views[agent].evidence]

\* A slip of the real runner: the turn of a call that failed is kept.
LogResponseLenient ==
  /\ at = "response" /\ answer' = "none"
  /\ WriteView("llm_response", Agent, views[Agent], answer = "ok")
  /\ IF answer = "failed" /\ kind # "real"
     THEN at' = "failing" /\ UNCHANGED <<asked, turns>>
     ELSE IF kind = "real"
     THEN at' = "turn" /\ turns' = Append(turns, NewTurn(Agent)) /\ UNCHANGED asked
     ELSE IF asked + 1 < AgentCount
     THEN at' = "expose" /\ asked' = asked + 1 /\ UNCHANGED turns
     ELSE /\ at' = "turn" /\ asked' = 0
          /\ turns' = turns \o [i \in Agents |-> NewTurn(TurnOrder[i])]
  /\ UNCHANGED <<kind, protocol, round, views, plans, applied, record, snapshot, faults>>

\* The local runners add the turns of the round with its last answer.
LogResponse ==
  /\ at = "response" /\ answer' = "none"
  /\ WriteView("llm_response", Agent, views[Agent], answer = "ok")
  /\ IF answer = "failed"
     THEN at' = "failing" /\ UNCHANGED <<asked, turns>>
     ELSE IF kind = "real"
     THEN at' = "turn" /\ turns' = Append(turns, NewTurn(Agent)) /\ UNCHANGED asked
     ELSE IF asked + 1 < AgentCount
     THEN at' = "expose" /\ asked' = asked + 1 /\ UNCHANGED turns
     ELSE /\ at' = "turn" /\ asked' = 0
          /\ turns' = turns \o [i \in Agents |-> NewTurn(TurnOrder[i])]
  /\ UNCHANGED <<kind, protocol, round, views, plans, applied, record, snapshot, faults>>

LogTurn ==
  /\ at = "turn"
  /\ WriteView("turn_completed", Agent, views[Agent], TRUE)
  /\ IF asked + 1 < AgentCount
     THEN asked' = asked + 1 /\ at' = IF kind = "real" THEN "expose" ELSE "turn"
     ELSE asked' = 0 /\ at' = "close"
  /\ UNCHANGED <<kind, protocol, round, views, answer, turns, plans, applied,
                 record, snapshot, faults>>

CloseRound ==
  /\ at = "close"
  /\ Write("round_completed", 0)
  /\ IF LastRound THEN at' = "finish" /\ UNCHANGED round
                  ELSE at' = "round" /\ round' = round + 1
  /\ UNCHANGED <<kind, protocol, asked, views, answer, turns, plans, applied,
                 record, snapshot, faults>>

-----------------------------------------------------------------------------

Finish ==
  /\ at = "finish" /\ at' = "record"
  /\ Write("run_completed", 0)
  /\ UNCHANGED <<kind, protocol, round, asked, views, answer, turns, plans, applied,
                 record, snapshot, faults>>

\* _write_record, of the run that was completed or of the one that failed.
\* The file is opened to be made: one that is there already raises.
WriteRecord ==
  /\ at \in {"record", "failed_record"}
  /\ IF record # "none" THEN at' = "raised" /\ UNCHANGED record
     ELSE /\ record' = IF at = "record" THEN "completed" ELSE "failed"
          /\ at' = IF kind = "controlled"
                   THEN IF at = "record" THEN "schedule" ELSE "failed_schedule"
                   ELSE IF at = "record" THEN "done" ELSE "raised"
  /\ UNCHANGED <<kind, protocol, round, asked, views, answer, turns, plans, applied,
                 log, sequence, snapshot, faults>>

WriteSchedule ==
  /\ at \in {"schedule", "failed_schedule"}
  /\ snapshot' = IF snapshot = "none" THEN "written" ELSE snapshot
  /\ at' = IF at = "schedule" THEN "done" ELSE "raised"
  /\ UNCHANGED <<kind, protocol, round, asked, views, answer, turns, plans, applied,
                 log, sequence, record, faults>>

\* What escapes the body of run() goes to its handler; what escapes the
\* handler leaves run().
Escape == at' = IF at \in {"failing", "failed_record", "failed_schedule"}
                THEN "raised" ELSE "failing"

LogFails ==
  /\ at \in Writing /\ Fault("log")
  /\ at = "effect" => ThePlan.action # "no_op"
  /\ sequence' = sequence + 1
  /\ Escape
  /\ UNCHANGED <<kind, protocol, round, asked, views, answer, turns, plans, applied, log,
                 record, snapshot>>

\* Nothing of the file is there, or part of it.
RecordFails ==
  /\ at \in {"record", "failed_record"} /\ record = "none" /\ Fault("record")
  /\ record' \in {"none", "partial"}
  /\ Escape
  /\ UNCHANGED <<kind, protocol, round, asked, views, answer, turns, plans, applied,
                 log, sequence, snapshot>>

ScheduleFails ==
  /\ at \in {"schedule", "failed_schedule"} /\ snapshot = "none" /\ Fault("schedule")
  /\ snapshot' \in {"none", "partial"}
  /\ Escape
  /\ UNCHANGED <<kind, protocol, round, asked, views, answer, turns, plans, applied,
                 log, sequence, record>>

RecordFailure ==
  /\ at = "failing" /\ at' = "failed_record"
  /\ Write("run_failed", 0)
  /\ UNCHANGED <<kind, protocol, round, asked, views, answer, turns, plans, applied,
                 record, snapshot, faults>>

Next ==
  \/ StartRound \/ NoPlanHere \/ SeePlan \/ ApplyPlan \/ RejectPlan \/ LogEffect
  \/ MakeViews \/ Expose \/ Request \/ Answer \/ ProviderFails \/ LogResponse
  \/ LogTurn \/ CloseRound \/ Finish \/ WriteRecord \/ WriteSchedule
  \/ LogFails \/ RecordFails \/ ScheduleFails \/ RecordFailure

Spec == Init /\ [][Next]_vars

-----------------------------------------------------------------------------

\* Everything the others said before a round.
SaidBefore(agent, r) == {<<s, a>> : s \in 0..r - 1, a \in Agents \ {agent}}

\* The plan that is in effect in a round.
PlanBefore(r) == IF r - 1 \in applied THEN plans[r - 1] ELSE NoPlan

Targeted(agent, r) ==
  Overrides(PlanBefore(r)) /\ agent \in ToSet(PlanBefore(r).targets)

\* What an agent is to see in a round, by plan or by protocol.
Fits(agent, r, view) ==
  IF Targeted(agent, r)
  THEN SameView(PlanBefore(r), view) /\ \A id \in view.peers : id[1] + 1 < r
  ELSE /\ view.peers = IF protocol \in Social THEN SaidBefore(agent, r) ELSE {}
       /\ view.evidence = EvidenceFor(protocol, agent, r)

\* Whoever asks whom first, and however turns are added, a turn was made in
\* sight of just what its protocol shows of the rounds before: all of it, and
\* nothing of its own round.  A plan changes that for its targets alone, in the
\* next round alone, to turns that were there before it was seen.
ViewsAsPlanned ==
  \A i \in DOMAIN turns : Fits(turns[i].speaker, turns[i].round, turns[i])

\* A turn of the record has a good answer in the log, given in sight of the
\* same; no agent speaks twice in a round; a completed record has every turn.
TurnsAnswered ==
  /\ \A i \in DOMAIN turns : \E k \in Of(log, {"llm_response"}) :
       /\ <<log[k].round, log[k].who>> = Id(turns[i])
       /\ log[k].ok /\ SameView(log[k].view, turns[i])
  /\ \A i, j \in DOMAIN turns : Id(turns[i]) = Id(turns[j]) => i = j
  /\ record = "completed" => AllIds(turns) = Rounds \X Agents

\* No event is missing and run_completed, if it was written, is the last one.
LogWhole ==
  /\ \A i \in DOMAIN log : log[i].sequence = i
  /\ Cardinality(Of(log, {"run_completed", "run_failed"})) = 1

\* What replay refuses although nothing went wrong with the log: an own turn
\* shown as a peer's, and an order that was to hold in a round that broke off.
Misread ==
  \/ \E k \in Of(log, {"exposure_created"}) : \E id \in log[k].view.peers : id[2] = log[k].who
  \/ \E r \in applied :
       /\ plans[r].action = "restructure" /\ r + 1 \in Rounds
       /\ \E a \in Agents : ~TurnNamed(turns, <<r + 1, a>>)

\* A run that has ended with a record, completed or failed, and with every event
\* in its log, passes replay validation, but for the runs that are misread.
RecordedReplays ==
  at \in {"done", "raised"} /\ record \in {"completed", "failed"} /\ LogWhole
    => (Replays(log, turns, record) <=> ~Misread)
=============================================================================
