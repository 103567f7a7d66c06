--------------------------- MODULE AdaptiveControl ---------------------------
(***************************************************************************)
(* The adaptive run (adaptive_runner.py): rounds of agent turns, after     *)
(* each of which the controller may plan an intervention and reserve its   *)
(* cost, to be applied and paid for at the start of the next round.        *)
(* Anything it calls may raise; the run then releases what is pending and  *)
(* records its failure.  Each step is what lies between two writes of the  *)
(* event log; the events of exposures, turns and observations, on which    *)
(* nothing here depends, are left out of it.                               *)
(*                                                                         *)
(* What the monitor sees and what a plan does to the turns are data: the   *)
(* controller decides for some plan, or for none.  The plan is applicable  *)
(* when it is made; fault "stale" is a plan no longer so at the boundary.  *)
(***************************************************************************)
EXTENDS ReplayValidator, FiniteSetsExt

CONSTANTS Agents,          \* turns of a round
          InitialBudget,   \* intervention_budget, in the unit of the costs
          Costs,           \* what the actions of the policy cost
          Cooldown,        \* cooldown_rounds
          FaultKinds,      \* what may go wrong
          MaxFaults        \* bound: how often

ASSUME ControlAssumption ==
  /\ Agents \in Nat \ {0} /\ InitialBudget \in Nat
  /\ Costs \subseteq Nat /\ Cooldown \in Nat
  /\ FaultKinds \subseteq {"provider", "control", "stale", "log"}
  /\ MaxFaults \in Nat

VARIABLES at,          \* where run() is
          round, turn,
          budget,      \* the BudgetLedger
          pending,     \* the plan for the next round: none or one
          controller,  \* the ControllerState
          log,         \* events.jsonl
          sequence,    \* the sequence number given out last
          record,      \* run_record.json, written with controller_state.json
          faults       \* faults so far

vars == <<at, round, turn, budget, pending, controller, log, sequence, record, faults>>

\* Where run() is about to write to the log, outside and inside its handler.
Writing == {"round", "asking", "answering", "closing", "log_scheduled",
            "log_reserved", "log_applied", "log_spent", "log_cooldown",
            "log_rejected", "log_released", "finish"}
Handling == {"failing", "log_cancelled", "log_failed"}

Steps == Writing \cup Handling \cup {"boundary", "asked", "control", "done", "raised"}

NoRound == -1

Plan == [id : Rounds, cost : Costs]

Outcome == [plan : Rounds, cost : Costs,
            status : {"planned", "applied", "rejected", "cancelled"}]

Ledger == [remaining : 0..InitialBudget, reserved : 0..InitialBudget,
           spent : 0..InitialBudget]

\* cooldown_until is left out: it is set with last, and always to last + Cooldown.
Controller == [remaining : 0..InitialBudget, reserved : 0..InitialBudget,
               spent : 0..InitialBudget, last : Rounds \cup {NoRound},
               scheduled : SUBSET Rounds, history : Seq(Outcome)]

TypeOK ==
  /\ at \in Steps /\ round \in Rounds /\ turn \in 0..Agents
  /\ budget \in Ledger
  /\ pending \in SUBSET Plan /\ \A p, q \in pending : p = q
  /\ controller \in Controller
  /\ log \in Seq(Event) /\ sequence \in Nat
  /\ record \in {"none", "completed", "failed"}
  /\ faults \in 0..MaxFaults

Init ==
  /\ at = "round" /\ round = 0 /\ turn = 0
  /\ budget = [remaining |-> InitialBudget, reserved |-> 0, spent |-> 0]
  /\ pending = {}
  /\ controller = [remaining |-> InitialBudget, reserved |-> 0, spent |-> 0,
                   last |-> NoRound, scheduled |-> {}, history |-> <<>>]
  /\ log = <<[type |-> "run_started", round |-> 0, who |-> 0, sequence |-> 1]>>
  /\ sequence = 1
  /\ record = "none" /\ faults = 0

-----------------------------------------------------------------------------

Fault(kind) ==
  /\ kind \in FaultKinds /\ faults < MaxFaults
  /\ faults' = faults + 1

Write(type, who) ==
  /\ log' = Append(log, [type |-> type, round |-> round, who |-> who,
                         sequence |-> sequence + 1])
  /\ sequence' = sequence + 1

\* A slip that takes the cost out of what remains once more.
SpendTwice(cost) ==
  [budget EXCEPT !.reserved = @ - cost, !.remaining = @ - cost, !.spent = @ + cost]

Spend(cost) == [budget EXCEPT !.reserved = @ - cost, !.spent = @ + cost]

\* A slip that keeps the reservation beside what it gives back.
ReleaseHalf(cost) == [budget EXCEPT !.remaining = @ + cost]

Release(cost) == [budget EXCEPT !.reserved = @ - cost, !.remaining = @ + cost]

\* A slip that forgets the last intervention when the state is copied anew.
SyncForgets(b, ids, last) ==
  [controller EXCEPT !.remaining = b.remaining, !.reserved = b.reserved,
                     !.spent = b.spent, !.last = last,
                     !.scheduled = IF ids # {} THEN @ \cup ids
                                   ELSE IF pending = {} THEN {} ELSE @]

\* _sync_controller_state: without a new plan, the scheduled ones are cleared
\* only when none is pending any more.
Sync(b, ids, last) ==
  [controller EXCEPT !.remaining = b.remaining, !.reserved = b.reserved,
                     !.spent = b.spent,
                     !.last = IF last # NoRound THEN last ELSE @,
                     !.scheduled = IF ids # {} THEN @ \cup ids
                                   ELSE IF pending = {} THEN {} ELSE @]

Entry(plan, cost, status) == [plan |-> plan, cost |-> cost, status |-> status]

\* A slip that leaves the end of a plan out of the history.
NoteOnlyPlanned(c, plan, cost, status) ==
  IF status = "planned" THEN [c EXCEPT !.history = Append(@, Entry(plan, cost, status))] ELSE c

Note(c, plan, cost, status) == [c EXCEPT !.history = Append(@, Entry(plan, cost, status))]

-----------------------------------------------------------------------------

StartRound ==
  /\ at = "round"
  /\ Write("round_started", 0)
  /\ at' = IF pending = {} THEN "asking" ELSE "boundary"
  /\ controller' = IF pending = {} THEN Sync(budget, {}, NoRound) ELSE controller
  /\ UNCHANGED <<round, turn, budget, pending, record, faults>>

\* _apply_pending_plan
ApplyPlan ==
  /\ at = "boundary" /\ at' = "log_applied"
  /\ \E p \in pending :
       /\ p.cost <= budget.reserved
       /\ budget' = Spend(p.cost)
       /\ controller' = Note(Sync(budget', {}, round), p.id, p.cost, "applied")
  /\ UNCHANGED <<round, turn, pending, log, sequence, record, faults>>

LogApplied ==
  /\ at = "log_applied" /\ at' = "log_spent"
  /\ \E p \in pending : Write("plan_applied", p.id)
  /\ UNCHANGED <<round, turn, budget, pending, controller, record, faults>>

LogSpent ==
  /\ at = "log_spent" /\ at' = "log_cooldown"
  /\ \E p \in pending : Write("budget_spent", p.id)
  /\ UNCHANGED <<round, turn, budget, pending, controller, record, faults>>

\* The last event of an applied plan; then it is no longer pending.
LogCooldown ==
  /\ at = "log_cooldown" /\ at' = "asking"
  /\ \E p \in pending : Write("cooldown_updated", p.id)
  /\ pending' = {}
  /\ controller' = [controller EXCEPT !.scheduled = {}]
  /\ UNCHANGED <<round, turn, budget, record, faults>>

RejectPlan ==
  /\ at = "boundary" /\ at' = "log_rejected"
  /\ Fault("stale")
  /\ \E p \in pending :
       /\ p.cost <= budget.reserved
       /\ budget' = Release(p.cost)
       /\ controller' = Sync(budget', {}, NoRound)
  /\ UNCHANGED <<round, turn, pending, log, sequence, record>>

LogRejected ==
  /\ at = "log_rejected" /\ at' = "log_released"
  /\ \E p \in pending : Write("plan_rejected", p.id)
  /\ UNCHANGED <<round, turn, budget, pending, controller, record, faults>>

\* A slip that drops the rejected plan without the release event.
LogReleasedSilently ==
  /\ at = "log_released" /\ at' = "asking"
  /\ \E p \in pending :
       controller' = Note([controller EXCEPT !.scheduled = {}], p.id, p.cost, "rejected")
  /\ pending' = {}
  /\ UNCHANGED <<round, turn, budget, log, sequence, record, faults>>

LogReleased ==
  /\ at = "log_released" /\ at' = "asking"
  /\ \E p \in pending :
       /\ Write("budget_released", p.id)
       /\ controller' = Note([controller EXCEPT !.scheduled = {}], p.id, p.cost, "rejected")
  /\ pending' = {}
  /\ UNCHANGED <<round, turn, budget, record, faults>>

-----------------------------------------------------------------------------

Ask ==
  /\ at = "asking" /\ turn < Agents /\ at' = "asked"
  /\ Write("llm_request", turn + 1)
  /\ UNCHANGED <<round, turn, budget, pending, controller, record, faults>>

Answer ==
  /\ at = "asked" /\ at' = "answering"
  /\ UNCHANGED <<round, turn, budget, pending, controller, log, sequence, record, faults>>

LogAnswer ==
  /\ at = "answering"
  /\ Write("llm_response", turn + 1)
  /\ turn' = turn + 1
  /\ at' = IF turn' = Agents THEN "closing" ELSE "asking"
  /\ UNCHANGED <<round, budget, pending, controller, record, faults>>

ProviderFails ==
  /\ at = "asked" /\ Fault("provider") /\ at' = "failing"
  /\ UNCHANGED <<round, turn, budget, pending, controller, log, sequence, record>>

CloseRound ==
  /\ at = "closing" /\ at' = "control"
  /\ Write("round_completed", 0)
  /\ UNCHANGED <<round, turn, budget, pending, controller, record, faults>>

-----------------------------------------------------------------------------

LastRound == round + 1 = MaxRounds

NextRound ==
  IF LastRound THEN at' = "finish" /\ UNCHANGED <<round, turn>>
  ELSE at' = "round" /\ round' = round + 1 /\ turn' = 0

\* InterventionPolicy.decide: what it checks before it proposes anything.
CoolingDown == controller.last # NoRound /\ round <= controller.last + Cooldown

Affordable(cost) == budget.remaining > 0 /\ cost <= budget.remaining /\ ~CoolingDown

\* The monitor sees no risk, or the policy proposes nothing.
DecideNothing ==
  /\ at = "control" /\ NextRound
  /\ Write("policy_decided", 0)
  /\ UNCHANGED <<budget, pending, controller, record, faults>>

\* There is no round left to intervene in.
CancelAtEnd ==
  /\ at = "control" /\ LastRound /\ at' = "finish"
  /\ Write("policy_decided", 0)
  /\ \E cost \in Costs :
       /\ Affordable(cost)
       /\ controller' = Note(controller, round, cost, "cancelled")
  /\ UNCHANGED <<round, turn, budget, pending, record, faults>>

\* The two events of a plan, decided and created.
WriteCreated ==
  /\ log' = log \o <<[type |-> "policy_decided", round |-> round, who |-> 0,
                      sequence |-> sequence + 1],
                     [type |-> "plan_created", round |-> round, who |-> round,
                      sequence |-> sequence + 2]>>
  /\ sequence' = sequence + 2

\* The candidates named an agent nobody knows: the plan is not valid.
DiscardPlan ==
  /\ at = "control" /\ ~LastRound /\ NextRound
  /\ WriteCreated
  /\ \E cost \in Costs :
       /\ Affordable(cost)
       /\ controller' = Note(controller, round, cost, "rejected")
  /\ UNCHANGED <<budget, pending, record, faults>>

SchedulePlan ==
  /\ at = "control" /\ ~LastRound /\ at' = "log_scheduled"
  /\ WriteCreated
  /\ \E cost \in Costs :
       /\ Affordable(cost)
       /\ budget' = [budget EXCEPT !.reserved = @ + cost, !.remaining = @ - cost]
       /\ pending' = {[id |-> round, cost |-> cost]}
       /\ controller' = Note(Sync(budget', {round}, NoRound), round, cost, "planned")
  /\ UNCHANGED <<round, turn, record, faults>>

LogScheduled ==
  /\ at = "log_scheduled" /\ at' = "log_reserved"
  /\ \E p \in pending : Write("plan_scheduled", p.id)
  /\ UNCHANGED <<round, turn, budget, pending, controller, record, faults>>

LogReserved ==
  /\ at = "log_reserved" /\ NextRound
  /\ \E p \in pending : Write("budget_reserved", p.id)
  /\ UNCHANGED <<budget, pending, controller, record, faults>>

\* The state provider, the candidates, the policy or the executor raises.
ControlFails ==
  /\ at = "control" /\ Fault("control") /\ at' = "failing"
  /\ UNCHANGED <<round, turn, budget, pending, controller, log, sequence, record>>

-----------------------------------------------------------------------------

\* An event cannot be written: its number is used up, and append() raises, in
\* the handler of run() for good.
LogFails ==
  /\ at \in Writing \cup {"control", "log_cancelled", "log_failed"}
  /\ Fault("log")
  /\ sequence' = sequence + 1
  /\ at' = IF at \in Handling THEN "raised" ELSE "failing"
  /\ UNCHANGED <<round, turn, budget, pending, controller, log, record>>

NothingToRelease ==
  /\ at = "failing" /\ pending = {} /\ at' = "log_failed"
  /\ UNCHANGED <<round, turn, budget, pending, controller, log, sequence, record, faults>>

\* _release_pending, in the handler
ReleasePending ==
  /\ at = "failing" /\ at' = "log_cancelled"
  /\ \E p \in pending :
       /\ p.cost <= budget.reserved
       /\ budget' = Release(p.cost)
       /\ controller' = Sync(budget', {}, NoRound)
  /\ UNCHANGED <<round, turn, pending, log, sequence, record, faults>>

\* The plan was settled already and is still pending: release() raises.
ReleaseRaises ==
  /\ at = "failing" /\ at' = "raised"
  /\ \E p \in pending : p.cost > budget.reserved
  /\ UNCHANGED <<round, turn, budget, pending, controller, log, sequence, record, faults>>

LogCancelled ==
  /\ at = "log_cancelled" /\ at' = "log_failed"
  /\ \E p \in pending :
       /\ Write("budget_released", p.id)
       /\ controller' = Note(controller, p.id, p.cost, "cancelled")
  /\ pending' = {}
  /\ UNCHANGED <<round, turn, budget, record, faults>>

RecordFailure ==
  /\ at = "log_failed" /\ at' = "raised"
  /\ Write("run_failed", 0)
  /\ record' = "failed"
  /\ UNCHANGED <<round, turn, budget, pending, controller, faults>>

Finish ==
  /\ at = "finish" /\ at' = "done"
  /\ Write("run_completed", 0)
  /\ record' = "completed"
  /\ UNCHANGED <<round, turn, budget, pending, controller, faults>>

Next ==
  \/ StartRound \/ ApplyPlan \/ LogApplied \/ LogSpent \/ LogCooldown
  \/ RejectPlan \/ LogRejected \/ LogReleased
  \/ Ask \/ Answer \/ LogAnswer \/ ProviderFails \/ CloseRound
  \/ DecideNothing \/ CancelAtEnd \/ DiscardPlan \/ SchedulePlan
  \/ LogScheduled \/ LogReserved \/ ControlFails
  \/ LogFails \/ NothingToRelease \/ ReleasePending \/ ReleaseRaises
  \/ LogCancelled \/ RecordFailure \/ Finish

Spec == Init /\ [][Next]_vars

-----------------------------------------------------------------------------

Ends(status) == {i \in DOMAIN controller.history : controller.history[i].status = status}

\* What is reserved is the cost of the one pending plan, until it is settled;
\* what is spent is the cost of the plans applied; the rest remains; and the
\* controller state that is written out says the same.
BudgetBacked ==
  /\ budget.remaining + budget.reserved + budget.spent = InitialBudget
  /\ budget.spent = SumFunction([i \in Ends("applied") |-> controller.history[i].cost])
  /\ pending = {} => budget.reserved = 0
  /\ \A p \in pending :
       /\ budget.reserved \in {0, p.cost}
       /\ at \in {"round", "boundary", "log_scheduled", "log_reserved"}
            => budget.reserved = p.cost
  /\ \A part \in {"remaining", "reserved", "spent"} : controller[part] = budget[part]

\* No plan is made in the round another is applied in, nor in the cooldown
\* rounds after it, over all the copies the controller state goes through.
CooldownKept ==
  \A i \in Ends("applied"), j \in DOMAIN controller.history :
    LET applied == controller.history[i].plan
        later == controller.history[j].plan
    IN  later > applied => later > applied + 1 + Cooldown

\* A run that is recorded has brought every plan to one end: nothing stays
\* reserved, and each planned one is applied, rejected or cancelled, once.  A
\* plan that costs nothing may have two ends, since releasing it never raises.
EveryPlanEnds ==
  record # "none" =>
    /\ pending = {} /\ budget.reserved = 0
    /\ record = "completed" => controller.scheduled = {}
    /\ \A i \in Ends("planned") :
         LET plan == controller.history[i]
             ends == {j \in DOMAIN controller.history :
                        j > i /\ controller.history[j].plan = plan.plan}
         IN  IF plan.cost = 0 THEN ends # {} ELSE Cardinality(ends) = 1

\* The log of a recorded run passes replay validation, failed or completed,
\* if every event could be written and every request has its response; a run
\* whose last request was left unanswered is refused.
FinishedRunReplays ==
  record # "none" /\ (\A i \in DOMAIN log : log[i].sequence = i)
    => (ReplayAccepts(log, record) <=> Answered(log))

\* The budget moves as it promises to.
Contract == INSTANCE BudgetContract WITH
  remaining <- budget.remaining, reserved <- budget.reserved, spent <- budget.spent

KeepsContract == Contract!Spec

-----------------------------------------------------------------------------

\* The strengthening the proofs go by: where a plan may be pending and what is
\* then reserved for it; where the plans of the history lie before the current
\* round, the pending one and the last intervention.
Conserved == budget.remaining + budget.reserved + budget.spent = InitialBudget

PlaceInv ==
  /\ at \in {"asked", "answering"} => turn < Agents
  /\ pending = {} => budget.reserved = 0
  /\ \A p \in pending : budget.reserved \in {0, p.cost}
  /\ at \in {"control", "asking", "asked", "answering", "closing", "finish"} => pending = {}
  /\ at \in {"log_scheduled", "log_reserved"} => ~LastRound
  /\ at \in {"log_applied", "log_spent", "log_cooldown", "log_rejected",
            "log_released", "log_cancelled"} => budget.reserved = 0

HistoryInv ==
  /\ \A j \in DOMAIN controller.history : controller.history[j].plan <= round
  /\ \A p \in pending :
       /\ p.id <= round /\ (at \in {"round", "boundary"} => p.id < round)
       /\ \E j \in DOMAIN controller.history : controller.history[j].plan = p.id
       /\ \A j \in DOMAIN controller.history : controller.history[j].plan <= p.id
  /\ \A i \in Ends("applied") :
       controller.last # NoRound /\ controller.history[i].plan < controller.last

ControlInv == TypeOK /\ Conserved /\ PlaceInv /\ HistoryInv /\ CooldownKept
=============================================================================
