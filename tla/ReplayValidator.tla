--------------------------- MODULE ReplayValidator ---------------------------
(***************************************************************************)
(* The replay validation of an adaptive run, as an operator on its event   *)
(* log: what replay_core.py asks of every run and replay_stage13_previous  *)
(* of the plans of an adaptive one.  A plan is named by the round it was   *)
(* made in, which is part of its hash, and is scheduled for the next one.  *)
(*                                                                         *)
(* An event is its type, its round, its agent or plan ("who", 0 when it    *)
(* has none) and its sequence number.  What the events say of turns and    *)
(* visibility is left out.                                                 *)
(***************************************************************************)
EXTENDS Integers, Sequences, FiniteSets

CONSTANT MaxRounds

ASSUME RoundAssumption == MaxRounds \in Nat \ {0}

Rounds == 0..MaxRounds - 1

EventTypes ==
  {"run_started", "round_started", "llm_request", "llm_response",
   "round_completed", "policy_decided", "plan_created", "plan_scheduled",
   "budget_reserved", "plan_applied", "budget_spent", "cooldown_updated",
   "plan_rejected", "budget_released", "run_completed", "run_failed"}

Event == [type : EventTypes, round : Rounds, who : Nat, sequence : Nat]

Of(log, types) == {i \in DOMAIN log : log[i].type \in types}

RoundsOf(log, type) == {log[i].round : i \in Of(log, {type})}

\* The log is numbered without a gap, begins with run_started, and its last
\* event is its only terminal one.
EnvelopeValid(log) ==
  /\ log # <<>> /\ log[1].type = "run_started"
  /\ \A i \in DOMAIN log : log[i].sequence = i
  /\ Of(log, {"run_completed", "run_failed"}) = {Len(log)}

\* Of one request or response per agent and round, and of one start and end
\* per round.
NoDuplicates(log) ==
  \A i, j \in Of(log, {"round_started", "round_completed", "llm_request", "llm_response"}) :
    /\ log[i].type = log[j].type /\ log[i].round = log[j].round
    /\ log[i].who = log[j].who
    => i = j

RoundsValid(log, status) ==
  LET started == RoundsOf(log, "round_started")
      completed == RoundsOf(log, "round_completed")
      open == started \ completed
  IN  /\ completed \subseteq started
      /\ IF status = "completed" THEN open = {} /\ completed = Rounds
         ELSE \A r \in open : \A s \in started : s <= r

\* Every request has its response, and after it.
Answered(log) ==
  LET Pairs(type) == {<<log[i].round, log[i].who>> : i \in Of(log, {type})}
  IN  /\ Pairs("llm_request") = Pairs("llm_response")
      /\ \A i \in Of(log, {"llm_request"}), j \in Of(log, {"llm_response"}) :
           log[i].round = log[j].round /\ log[i].who = log[j].who => i < j

LifecycleValid(log, status) ==
  /\ NoDuplicates(log) /\ RoundsValid(log, status) /\ Answered(log)
  /\ log[Len(log)].type = IF status = "completed" THEN "run_completed" ELSE "run_failed"

\* The plans that have an event of one of these types before place i.
PlansBefore(log, i, types) == {log[j].who : j \in {k \in Of(log, types) : k < i}}

\* What each kind of event asks of the ones before it, for its plan.
EventInOrder(log, i) ==
  LET e == log[i]
      after(types) == e.who \in PlansBefore(log, i, types)
      settled == after({"plan_applied", "plan_rejected"})
      decided == \E j \in Of(log, {"policy_decided"}) : j < i /\ log[j].round = e.round
  IN  CASE e.type = "plan_created"     -> decided /\ ~after({"plan_created"})
        [] e.type = "plan_scheduled"   -> /\ decided /\ after({"plan_created"})
                                          /\ e.who + 1 > e.round
        [] e.type = "budget_reserved"  -> after({"plan_scheduled"})
        [] e.type = "plan_applied"     -> /\ after({"plan_scheduled"}) /\ ~settled
                                          /\ e.round = e.who + 1
        [] e.type = "plan_rejected"    -> after({"plan_scheduled"}) /\ ~settled
        [] e.type = "budget_spent"     -> after({"plan_applied"}) /\ ~after({"budget_spent"})
        [] e.type = "budget_released"  -> after({"plan_scheduled"}) /\ ~after({"budget_released"})
        [] e.type = "cooldown_updated" -> after({"plan_applied"}) /\ ~after({"cooldown_updated"})
        [] OTHER                       -> TRUE

\* And what is asked of the plans once the log is at its end.
PlansSettled(log, status) ==
  LET plans(type) == {log[i].who : i \in Of(log, {type})}
      unresolved == plans("plan_scheduled") \ (plans("plan_applied") \cup plans("plan_rejected"))
  IN  /\ plans("budget_spent") = plans("plan_applied")
      /\ plans("plan_rejected") \subseteq plans("budget_released")
      /\ unresolved \subseteq plans("budget_released")
      /\ status = "completed" => unresolved = {}

ReplayAccepts(log, status) ==
  /\ EnvelopeValid(log) /\ LifecycleValid(log, status)
  /\ \A i \in DOMAIN log : EventInOrder(log, i)
  /\ PlansSettled(log, status)
=============================================================================
