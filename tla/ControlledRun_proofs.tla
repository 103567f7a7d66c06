------------------------ MODULE ControlledRun_proofs ------------------------
(***************************************************************************)
(* Proofs about ControlledRun for any agents, rounds, cards, schedules and *)
(* faults: its types, what a turn was made in sight of, that each turn has *)
(* a good answer in the log, and what replay says of a run that ended.     *)
(***************************************************************************)
EXTENDS ControlledRun, SequenceTheorems, FiniteSetTheorems, TLAPS

Opening == {"round", "plan", "apply", "effect", "views"}
Asking == {"expose", "request", "call", "response"}
Closed == {"close", "finish", "record", "schedule", "done"}
Ended == {"finish", "record", "schedule", "done"}
Recording == {"schedule", "failing", "failed_record", "failed_schedule", "done", "raised"}

\* Where the process is in its round, and what it relies on there.
StageInv ==
  /\ at \in Asking \cup {"turn"} => asked + 1 \in Agents
  /\ at = "response" \/ (at = "request" /\ kind = "real") => answer \in {"ok", "failed"}
  /\ at \in Ended => LastRound
  /\ record # "none" => at \in Recording
  /\ record = "completed" => AllIds(turns) = Rounds \X Agents

\* A plan that was applied fitted in its round and is there to stay.
PlansInv ==
  /\ applied \subseteq 0..round
  /\ at \in Opening \ {"views"} => round \notin applied
  /\ at \in {"apply", "effect"} => ThePlan \in Plans
  /\ at = "effect" => Applicable(ThePlan)
  /\ \A r \in applied :
       plans[r] \in Plans /\ (Overrides(plans[r]) => \A id \in plans[r].peers : id[1] < r)

SaidInRound(n) == \A i \in 1..n : <<round, TurnOrder[i]>> \in AllIds(turns)

OnlySaid(n) ==
  \A i \in DOMAIN turns :
    turns[i].round = round => \E k \in 1..n : turns[i].speaker = TurnOrder[k]

\* The rounds before are whole, and of this one there is what was added so far.
TurnsInv ==
  /\ \A i, j \in DOMAIN turns : Id(turns[i]) = Id(turns[j]) => i = j
  /\ \A i \in DOMAIN turns : turns[i].round <= round
  /\ \A r \in 0..round - 1, a \in Agents : <<r, a>> \in AllIds(turns)
  /\ at \in Opening \/ (at \in Asking /\ kind # "real")
       => \A i \in DOMAIN turns : turns[i].round < round
  /\ at \in Asking /\ kind = "real" => SaidInRound(asked) /\ OnlySaid(asked)
  /\ at = "turn" /\ kind = "real" => SaidInRound(asked + 1) /\ OnlySaid(asked + 1)
  /\ at \in Closed \/ (at = "turn" /\ kind # "real")
       => \A a \in Agents : <<round, a>> \in AllIds(turns)

ViewsInv ==
  at \in Asking \cup {"turn"} => \A a \in Agents : Fits(a, round, views[a])

\* A good answer of an agent in a round, in sight of what a view shows.
AnswerLogged(r, agent, view) ==
  \E k \in Of(log, {"llm_response"}) :
    /\ log[k].round = r /\ log[k].who = agent
    /\ log[k].ok /\ SameView(log[k].view, view)

AnswersInv ==
  /\ \A i \in DOMAIN turns : AnswerLogged(turns[i].round, turns[i].speaker, turns[i])
  /\ at \in Asking /\ kind # "real" =>
       \A n \in 1..asked : AnswerLogged(round, TurnOrder[n], views[TurnOrder[n]])

RunInv == /\ TypeOK /\ StageInv /\ PlansInv /\ TurnsInv
          /\ ViewsInv /\ ViewsAsPlanned /\ AnswersInv

-----------------------------------------------------------------------------
(* Facts about plans, orders and turns. *)

\* The order of a round takes up every agent once.
LEMMA OrderPermutes ==
  ASSUME TypeOK, PlansInv
  PROVE  /\ TurnOrder \in [Agents -> Agents]
         /\ \A i, j \in Agents : TurnOrder[i] = TurnOrder[j] => i = j
         /\ \A a \in Agents : \E i \in Agents : TurnOrder[i] = a
<1>1. CASE TurnOrder = [a \in Agents |-> a]
  BY <1>1
<1>2. CASE TurnOrder # [a \in Agents |-> a]
  <2>1. ActivePlan \in Plans /\ TurnOrder = ActivePlan.order
    BY <1>2 DEF TurnOrder, ActivePlan, PlansInv
  <2>2. TurnOrder \in Bijection(Agents, Agents)
    BY <2>1, ScheduleAssumption DEF Plan, TargetsFirst
  <2> QED BY <2>2 DEF Bijection, Injection, Surjection, IsInjective
<1> QED BY <1>1, <1>2

\* The agent that is asked is an agent.
LEMMA AgentInAgents ==
  ASSUME TypeOK, PlansInv, asked + 1 \in Agents
  PROVE  Agent \in Agents
BY OrderPermutes DEF Agent

\* The fields of a plan.
LEMMA PlanTypes ==
  \A plan \in Plans :
    /\ plan.action \in Actions /\ plan.targets \in Seq(Agents)
    /\ plan.order \in Seq(Agents)
    /\ plan.peers \in SUBSET TurnIds /\ plan.evidence \in SUBSET Cards
    /\ plan # NoPlan
BY ScheduleAssumption DEF Plan

LEMMA IdsAreTurnIds ==
  ASSUME turns \in Seq(Turn)
  PROVE  AllIds(turns) \in SUBSET TurnIds
<1>1. \A i \in DOMAIN turns : turns[i] \in Turn
  OBVIOUS
<1> QED BY <1>1 DEF AllIds, Id, TurnIds, Turn

\* The turns of a round come after those that were there.
LEMMA IdsOfAppend ==
  ASSUME NEW s \in Seq(Turn), NEW new \in Seq(Turn)
  PROVE  AllIds(s \o new) = AllIds(s) \cup AllIds(new)
<1>1. \A i \in DOMAIN s : i \in DOMAIN (s \o new) /\ (s \o new)[i] = s[i]
  OBVIOUS
<1>2. \A i \in DOMAIN new :
        Len(s) + i \in DOMAIN (s \o new) /\ (s \o new)[Len(s) + i] = new[i]
  OBVIOUS
<1>3. \A k \in DOMAIN (s \o new) :
        \/ k \in DOMAIN s /\ (s \o new)[k] = s[k]
        \/ k - Len(s) \in DOMAIN new /\ (s \o new)[k] = new[k - Len(s)]
  OBVIOUS
<1> QED BY <1>1, <1>2, <1>3 DEF AllIds

\* A view that is made is a view.
LEMMA ViewsAreViews ==
  ASSUME TypeOK, PlansInv, NEW agent \in Agents
  PROVE  ViewOf(agent) \in View
<1>1. AllIds(turns) \in SUBSET TurnIds
  BY IdsAreTurnIds DEF TypeOK
<1>2. CASE Overridden(agent)
  <2>1. ActivePlan \in Plans
    BY <1>2 DEF Overridden, Overrides, ActivePlan, PlansInv
  <2> QED BY <1>1, <1>2, <2>1, PlanTypes DEF ViewOf, View, OwnIds
<1>3. CASE ~Overridden(agent)
  BY <1>1, <1>3
  DEF ViewOf, View, Snapshot, PeersFor, EarlierPeers, OwnIds, EvidenceFor, Granted,
      Available
<1> QED BY <1>2, <1>3

-----------------------------------------------------------------------------
(* Types. *)

LEMMA WriteTypes ==
  ASSUME TypeOK, NEW event \in LogEvent, WriteEvent(event)
  PROVE  log' \in Seq(LogEvent) /\ sequence' \in Nat
BY DEF WriteEvent, TypeOK

LEMMA InitTypes == Init => TypeOK
<1> SUFFICES ASSUME Init PROVE TypeOK
  OBVIOUS
<1>1. NoView \in View
  BY DEF NoView, View
<1>2. 0 \in Rounds
  BY RoundAssumption DEF Rounds
<1>3. NewEvent("run_started", 0, 0, 1) \in LogEvent
  BY <1>1, <1>2 DEF NewEvent, LogEvent, LogTypes
<1>4. views \in [Agents -> View] /\ plans \in [Rounds -> Plans \cup {NoPlan}]
  BY <1>1 DEF Init
<1>5. log \in Seq(LogEvent) /\ turns \in Seq(Turn) /\ sequence \in Nat
  BY <1>3 DEF Init
<1>6. round \in Rounds /\ asked \in 0..AgentCount /\ faults \in 0..MaxFaults
  BY <1>2, ExposureAssumption, ScheduleAssumption DEF Init
<1> QED BY <1>4, <1>5, <1>6 DEF Init, TypeOK, Places, Files

\* The turn of an agent that was asked.
LEMMA TurnTypes ==
  ASSUME TypeOK, NEW agent \in Agents
  PROVE  NewTurn(agent) \in Turn
BY DEF NewTurn, TypeOK, Turn, View, Rounds

LEMMA RoundTurnsTypes ==
  ASSUME TypeOK, PlansInv
  PROVE  [i \in Agents |-> NewTurn(TurnOrder[i])] \in Seq(Turn)
<1>1. \A i \in Agents : NewTurn(TurnOrder[i]) \in Turn
  BY OrderPermutes, TurnTypes
<1> QED BY <1>1, ExposureAssumption DEF Agents

\* The events that are written have their types.
LEMMA WritesAreTyped ==
  ASSUME TypeOK
  PROVE  /\ \A type \in LogTypes : Write(type, 0) =>
              log' \in Seq(LogEvent) /\ sequence' \in Nat
         /\ \A type \in LogTypes, agent \in Agents, ok \in BOOLEAN :
              WriteView(type, agent, views[agent], ok) =>
                log' \in Seq(LogEvent) /\ sequence' \in Nat
         /\ \A type \in LogTypes, plan \in Plans : WritePlan(type, plan) =>
              log' \in Seq(LogEvent) /\ sequence' \in Nat
<1>1. NoView \in View /\ 0 \in Nat
  BY DEF NoView, View
<1>2. round \in Rounds /\ sequence + 1 \in Nat /\ NoPlan \in Plans \cup {NoPlan}
  BY DEF TypeOK
<1>3. ASSUME NEW type \in LogTypes, Write(type, 0)
      PROVE  log' \in Seq(LogEvent) /\ sequence' \in Nat
  <2>1. NewEvent(type, round, 0, sequence + 1) \in LogEvent
    BY <1>1, <1>2 DEF NewEvent, LogEvent
  <2> QED BY <1>3, <2>1, WriteTypes DEF Write
<1>4. ASSUME NEW type \in LogTypes, NEW agent \in Agents, NEW ok \in BOOLEAN,
             WriteView(type, agent, views[agent], ok)
      PROVE  log' \in Seq(LogEvent) /\ sequence' \in Nat
  <2>1. views[agent] \in View /\ agent \in Nat
    BY ExposureAssumption DEF TypeOK, Agents
  <2>2. [NewEvent(type, round, agent, sequence + 1) EXCEPT !.view = views[agent], !.ok = ok]
          \in LogEvent
    BY <1>1, <1>2, <2>1 DEF NewEvent, LogEvent
  <2> QED BY <1>4, <2>2, WriteTypes DEF WriteView
<1>5. ASSUME NEW type \in LogTypes, NEW plan \in Plans, WritePlan(type, plan)
      PROVE  log' \in Seq(LogEvent) /\ sequence' \in Nat
  <2>1. [NewEvent(type, round, 0, sequence + 1) EXCEPT !.plan = plan] \in LogEvent
    BY <1>1, <1>2 DEF NewEvent, LogEvent
  <2> QED BY <1>5, <2>1, WriteTypes DEF WritePlan
<1> QED BY <1>3, <1>4, <1>5

LEMMA TypeStep ==
  ASSUME TypeOK, StageInv, PlansInv, [Next]_vars
  PROVE  TypeOK'
<1> USE DEF LogTypes, Places, Files
<1>1. CASE StartRound \/ CloseRound \/ Finish \/ RecordFailure
  <2>1. log' \in Seq(LogEvent) /\ sequence' \in Nat
    BY <1>1, WritesAreTyped DEF StartRound, CloseRound, Finish, RecordFailure
  <2>2. round' \in Rounds
    BY <1>1, RoundAssumption
    DEF StartRound, CloseRound, Finish, RecordFailure, LastRound, Rounds, TypeOK
  <2> QED BY <1>1, <2>1, <2>2
    DEF StartRound, CloseRound, Finish, RecordFailure, TypeOK
<1>2. CASE NoPlanHere
  BY <1>2 DEF NoPlanHere, TypeOK
<1>3. CASE SeePlan
  <2>1. PICK plan \in Plans : /\ WritePlan("plan_seen", plan)
                              /\ plans' = [plans EXCEPT ![round] = plan]
    BY <1>3 DEF SeePlan
  <2>2. log' \in Seq(LogEvent) /\ sequence' \in Nat
    BY <2>1, WritesAreTyped
  <2> QED BY <1>3, <2>1, <2>2 DEF SeePlan, TypeOK
<1>4. CASE ApplyPlan \/ RejectPlan
  <2>1. log' \in Seq(LogEvent) /\ sequence' \in Nat
    BY <1>4, WritesAreTyped DEF ApplyPlan, RejectPlan, PlansInv
  <2> QED BY <1>4, <2>1 DEF ApplyPlan, RejectPlan, TypeOK
<1>5. CASE LogEffect
  <2>1. ThePlan \in Plans
    BY <1>5 DEF LogEffect, PlansInv
  <2>2. ThePlan.action # "no_op" => EffectOf(ThePlan.action) \in LogTypes
    BY <2>1, PlanTypes DEF EffectOf, Actions, Effects
  <2>3. log' \in Seq(LogEvent) /\ sequence' \in Nat
    BY <1>5, <2>1, <2>2, WritesAreTyped DEF LogEffect, TypeOK
  <2>4. applied' \subseteq Rounds
    BY <1>5 DEF LogEffect, TypeOK
  <2> QED BY <1>5, <2>3, <2>4 DEF LogEffect, TypeOK
<1>6. CASE MakeViews
  <2>1. views' \in [Agents -> View]
    BY <1>6, ViewsAreViews DEF MakeViews
  <2>2. asked' \in 0..AgentCount
    BY <1>6, ExposureAssumption DEF MakeViews
  <2> QED BY <1>6, <2>1, <2>2 DEF MakeViews, TypeOK
<1>7. CASE Expose \/ Request
  <2>1. Agent \in Agents
    BY <1>7, AgentInAgents DEF Expose, Request, StageInv, Asking
  <2>2. log' \in Seq(LogEvent) /\ sequence' \in Nat
    BY <1>7, <2>1, WritesAreTyped DEF Expose, Request
  <2> QED BY <1>7, <2>2 DEF Expose, Request, TypeOK
<1>8. CASE Answer \/ ProviderFails
  BY <1>8, ScheduleAssumption DEF Answer, ProviderFails, Called, Fault, TypeOK
<1>9. CASE LogResponse
  <2>1. asked + 1 \in Agents /\ Agent \in Agents
    BY <1>9, AgentInAgents DEF LogResponse, StageInv, Asking
  <2>2. log' \in Seq(LogEvent) /\ sequence' \in Nat
    BY <1>9, <2>1, WritesAreTyped DEF LogResponse
  <2>3. NewTurn(Agent) \in Turn /\ [i \in Agents |-> NewTurn(TurnOrder[i])] \in Seq(Turn)
    BY <2>1, TurnTypes, RoundTurnsTypes
  <2>4. turns' \in Seq(Turn)
    <3>1. \/ UNCHANGED turns \/ turns' = Append(turns, NewTurn(Agent))
          \/ turns' = turns \o [i \in Agents |-> NewTurn(TurnOrder[i])]
      BY <1>9 DEF LogResponse
    <3>2. turns \in Seq(Turn)
      BY DEF TypeOK
    <3>3. \A new \in Seq(Turn) : turns \o new \in Seq(Turn)
      BY <3>2
    <3>4. \A new \in Turn : Append(turns, new) \in Seq(Turn)
      BY <3>2
    <3> QED BY <2>3, <3>1, <3>2, <3>3, <3>4
  <2>5. asked' \in 0..AgentCount
    BY <1>9, <2>1, ExposureAssumption DEF LogResponse, TypeOK, Agents
  <2> QED BY <1>9, <2>2, <2>4, <2>5 DEF LogResponse, TypeOK
<1>10. CASE LogTurn
  <2>1. asked + 1 \in Agents /\ Agent \in Agents
    BY <1>10, AgentInAgents DEF LogTurn, StageInv
  <2>2. log' \in Seq(LogEvent) /\ sequence' \in Nat
    BY <1>10, <2>1, WritesAreTyped DEF LogTurn
  <2>3. asked' \in 0..AgentCount
    BY <1>10, <2>1, ExposureAssumption DEF LogTurn, TypeOK, Agents
  <2> QED BY <1>10, <2>2, <2>3 DEF LogTurn, TypeOK
<1>11. CASE WriteRecord \/ WriteSchedule
  BY <1>11 DEF WriteRecord, WriteSchedule, TypeOK
<1>12. CASE LogFails \/ RecordFails \/ ScheduleFails
  BY <1>12, ScheduleAssumption
  DEF LogFails, RecordFails, ScheduleFails, Escape, Fault, TypeOK
<1>13. CASE UNCHANGED vars
  BY <1>13 DEF vars, TypeOK
<1> QED BY <1>1, <1>2, <1>3, <1>4, <1>5, <1>6, <1>7, <1>8, <1>9, <1>10, <1>11, <1>12, <1>13
        DEF Next

-----------------------------------------------------------------------------
(* Plans. *)

\* No step changes the plan that is in effect in a round that has begun.
LEMMA PlanFixed ==
  ASSUME TypeOK, PlansInv, [Next]_vars
  PROVE  \A r \in 0..round : PlanBefore(r)' = PlanBefore(r)
<1>1. round \in Nat
  BY RoundAssumption DEF TypeOK, Rounds
<1>2. CASE SeePlan
  <2>1. round \notin applied /\ applied' = applied
    BY <1>2 DEF SeePlan, PlansInv, Opening
  <2>2. \A r \in applied : plans'[r] = plans[r]
    BY <1>2, <2>1 DEF SeePlan, TypeOK
  <2> QED BY <2>1, <2>2 DEF PlanBefore
<1>3. CASE LogEffect
  BY <1>1, <1>3 DEF LogEffect, PlanBefore
<1>4. CASE ~SeePlan /\ ~LogEffect
  <2>1. UNCHANGED <<plans, applied>>
    BY <1>4
    DEF Next, vars, StartRound, NoPlanHere, ApplyPlan, RejectPlan, MakeViews, Expose,
        Request, Answer, ProviderFails, LogResponse, LogTurn, CloseRound, Finish,
        WriteRecord, WriteSchedule, LogFails, RecordFails, ScheduleFails, RecordFailure
  <2> QED BY <2>1 DEF PlanBefore
<1> QED BY <1>2, <1>3, <1>4

LEMMA ProtocolFixed ==
  ASSUME [Next]_vars
  PROVE  UNCHANGED <<protocol, kind>>
BY DEF Next, vars, StartRound, NoPlanHere, SeePlan, ApplyPlan, RejectPlan, LogEffect,
       MakeViews, Expose, Request, Answer, ProviderFails, LogResponse, LogTurn,
       CloseRound, Finish, WriteRecord, WriteSchedule, LogFails, RecordFails,
       ScheduleFails, RecordFailure

LEMMA PlansStep ==
  ASSUME TypeOK, PlansInv, [Next]_vars
  PROVE  PlansInv'
<1> USE DEF Opening
<1>1. round \in Nat /\ round \in Rounds
  BY RoundAssumption DEF TypeOK, Rounds
<1>2. CASE StartRound \/ NoPlanHere \/ RejectPlan \/ MakeViews
  BY <1>2 DEF StartRound, NoPlanHere, RejectPlan, MakeViews, PlansInv, ThePlan, Applicable,
              Overrides
<1>3. CASE SeePlan
  <2>1. PICK plan \in Plans : plans' = [plans EXCEPT ![round] = plan]
    BY <1>3 DEF SeePlan
  <2>2. ThePlan' = plan
    BY <1>1, <1>3, <2>1 DEF SeePlan, ThePlan, TypeOK
  <2>3. round \notin applied /\ applied' = applied
    BY <1>3 DEF SeePlan, PlansInv
  <2>4. \A r \in applied : plans'[r] = plans[r]
    BY <2>1, <2>3 DEF TypeOK
  <2> QED BY <1>3, <2>2, <2>3, <2>4 DEF SeePlan, PlansInv, Overrides
<1>4. CASE ApplyPlan
  BY <1>4 DEF ApplyPlan, PlansInv, ThePlan, Applicable, Overrides
<1>5. CASE LogEffect
  <2>1. ThePlan \in Plans /\ ThePlan = plans[round]
    BY <1>5 DEF LogEffect, PlansInv, ThePlan
  <2>2. Overrides(ThePlan) => \A id \in ThePlan.peers : id[1] < round
    BY <1>5 DEF LogEffect, PlansInv, Applicable
  <2>3. applied' = applied \cup {round} /\ UNCHANGED <<plans, round>> /\ at' = "views"
    BY <1>5 DEF LogEffect
  <2> QED BY <1>1, <2>1, <2>2, <2>3 DEF PlansInv, Overrides
<1>6. CASE CloseRound
  <2>1. round + 1 \notin applied /\ applied \subseteq 0..round + 1
    BY <1>1 DEF PlansInv
  <2> QED BY <1>6, <2>1 DEF CloseRound, PlansInv, Overrides
<1>7. CASE \/ Expose \/ Request \/ Answer \/ ProviderFails \/ LogTurn
           \/ Finish \/ WriteRecord \/ WriteSchedule \/ LogFails \/ RecordFails
           \/ ScheduleFails \/ RecordFailure \/ LogResponse
  <2>1. UNCHANGED <<plans, applied, round>> /\ at' \notin Opening
    BY <1>7
    DEF Expose, Request, Answer, ProviderFails, Called, LogTurn, Finish, WriteRecord,
        WriteSchedule, LogFails, RecordFails, ScheduleFails, Escape, RecordFailure,
        LogResponse
  <2> QED BY <2>1 DEF PlansInv, Overrides
<1>8. CASE UNCHANGED vars
  BY <1>8 DEF vars, PlansInv, ThePlan, Applicable, Overrides
<1> QED BY <1>2, <1>3, <1>4, <1>5, <1>6, <1>7, <1>8 DEF Next

-----------------------------------------------------------------------------
(* Turns. *)

\* The order of a round does not change in it.
LEMMA OrderFixed ==
  ASSUME TypeOK, PlansInv, [Next]_vars, round' = round
  PROVE  TurnOrder' = TurnOrder
<1>1. PlanBefore(round)' = PlanBefore(round)
  BY PlanFixed, RoundAssumption DEF TypeOK, Rounds
<1>2. ActivePlan' = ActivePlan
  BY <1>1 DEF ActivePlan, PlanBefore
<1> QED BY <1>2 DEF TurnOrder

LEMMA TurnTypeFacts ==
  ASSUME TypeOK
  PROVE  /\ round \in Nat
         /\ \A i \in DOMAIN turns : /\ turns[i] \in Turn /\ turns[i].round \in Nat
                                     /\ turns[i].speaker \in Agents
<1>1. \A i \in DOMAIN turns : turns[i] \in Turn
  BY DEF TypeOK
<1>2. \A turn \in Turn : turn.round \in Nat /\ turn.speaker \in Agents
  BY DEF Turn
<1>3. round \in Nat
  BY RoundAssumption DEF TypeOK, Rounds
<1> QED BY <1>1, <1>2, <1>3

\* The real runner adds the turn of the agent that was asked.
LEMMA TurnAdded ==
  ASSUME TypeOK, StageInv, PlansInv, TurnsInv, [Next]_vars,
         at = "response", kind = "real", round' = round, asked' = asked,
         at' = "turn", kind' = kind, turns' = Append(turns, NewTurn(Agent))
  PROVE  TurnsInv'
<1> DEFINE new == NewTurn(Agent)
<1>1. asked + 1 \in Agents /\ asked \in Nat /\ Agent = TurnOrder[asked + 1]
  BY DEF StageInv, Asking, TypeOK, Agents, Agent
<1>2. new \in Turn /\ new.round = round /\ new.speaker = Agent /\ Agent \in Agents
  BY <1>1, AgentInAgents, TurnTypes DEF NewTurn
<1>3. TurnOrder' = TurnOrder
  BY OrderFixed
<1>4. /\ turns \in Seq(Turn) /\ DOMAIN turns' = DOMAIN turns \cup {Len(turns) + 1}
      /\ Len(turns) + 1 \notin DOMAIN turns
      /\ turns'[Len(turns) + 1] = new
      /\ \A i \in DOMAIN turns : turns'[i] = turns[i]
  BY <1>2 DEF TypeOK
<1>5. AllIds(turns)' = AllIds(turns) \cup {Id(new)} /\ Id(new) = <<round, Agent>>
  BY <1>2, <1>4 DEF AllIds, Id
<1>6. OnlySaid(asked) /\ SaidInRound(asked)
  BY DEF TurnsInv, Asking
<1>7. \A i, j \in DOMAIN turns' : Id(turns'[i]) = Id(turns'[j]) => i = j
  <2>1. \A i \in DOMAIN turns : Id(turns[i]) # Id(new)
    <3> SUFFICES ASSUME NEW i \in DOMAIN turns, turns[i].round = round,
                        turns[i].speaker = Agent
                 PROVE  FALSE
      BY <1>2 DEF Id
    <3>1. PICK k \in 1..asked : TurnOrder[asked + 1] = TurnOrder[k]
      BY <1>1, <1>6 DEF OnlySaid
    <3>2. k \in Agents /\ k # asked + 1
      BY <1>1, ExposureAssumption DEF Agents
    <3> QED BY <1>1, <3>1, <3>2, OrderPermutes
  <2> QED BY <1>4, <2>1 DEF TurnsInv
<1>8. \A i \in DOMAIN turns' : turns'[i].round <= round
  BY <1>2, <1>4, TurnTypeFacts DEF TurnsInv
<1>9. SaidInRound(asked + 1)'
  <2>1. \A i \in 1..asked + 1 : i \in 1..asked \/ i = asked + 1
    BY <1>1
  <2> QED BY <1>1, <1>3, <1>5, <1>6, <2>1 DEF SaidInRound
<1>10. OnlySaid(asked + 1)'
  <2> SUFFICES ASSUME NEW i \in DOMAIN turns', turns'[i].round = round
               PROVE  \E k \in 1..asked + 1 : turns'[i].speaker = TurnOrder[k]
    BY <1>3 DEF OnlySaid
  <2>1. CASE i \in DOMAIN turns
    BY <1>1, <1>4, <1>6, <2>1 DEF OnlySaid
  <2>2. CASE i = Len(turns) + 1
    BY <1>1, <1>2, <1>4, <2>2
  <2> QED BY <1>4, <2>1, <2>2
<1>11. \A r \in 0..round - 1, a \in Agents : <<r, a>> \in AllIds(turns)'
  BY <1>5 DEF TurnsInv
<1> QED BY <1>7, <1>8, <1>9, <1>10, <1>11 DEF TurnsInv, Asking, Opening, Closed

\* The local runners add the turns of the round.
LEMMA RoundTurnsAdded ==
  ASSUME TypeOK, StageInv, PlansInv, TurnsInv, [Next]_vars,
         at = "response", kind # "real", round' = round, kind' = kind, at' = "turn",
         turns' = turns \o [i \in Agents |-> NewTurn(TurnOrder[i])]
  PROVE  TurnsInv'
<1> DEFINE new == [i \in Agents |-> NewTurn(TurnOrder[i])]
<1>1. new \in Seq(Turn) /\ turns \in Seq(Turn) /\ DOMAIN new = Agents /\ Agents = 1..Len(new)
  BY RoundTurnsTypes, ExposureAssumption DEF TypeOK, Agents
<1>2. \A i \in Agents : new[i].round = round /\ new[i].speaker = TurnOrder[i]
  BY DEF NewTurn
<1>3. AllIds(turns)' = AllIds(turns) \cup AllIds(new)
  BY <1>1, IdsOfAppend
<1>4. \A a \in Agents : <<round, a>> \in AllIds(new)
  <2> TAKE a \in Agents
  <2>1. PICK i \in Agents : TurnOrder[i] = a
    BY OrderPermutes
  <2>2. i \in DOMAIN new /\ Id(new[i]) = <<round, a>>
    BY <1>1, <1>2, <2>1 DEF Id
  <2> QED BY <2>2 DEF AllIds
<1>5. \A i \in DOMAIN turns : turns[i].round < round
  BY DEF TurnsInv, Asking
<1>6. \A k \in DOMAIN turns' :
        \/ k \in DOMAIN turns /\ turns'[k] = turns[k]
        \/ /\ k \notin DOMAIN turns
           /\ k - Len(turns) \in Agents /\ turns'[k] = new[k - Len(turns)]
  BY <1>1
<1>7. \A i, j \in DOMAIN turns' : Id(turns'[i]) = Id(turns'[j]) => i = j
  <2> SUFFICES ASSUME NEW i \in DOMAIN turns', NEW j \in DOMAIN turns',
                      Id(turns'[i]) = Id(turns'[j])
               PROVE  i = j
    OBVIOUS
  <2>1. turns'[i].round = turns'[j].round /\ turns'[i].speaker = turns'[j].speaker
    BY DEF Id
  <2>2. CASE i \in DOMAIN turns /\ j \in DOMAIN turns
    BY <1>6, <2>2 DEF TurnsInv
  <2>3. CASE i \in DOMAIN turns /\ j \notin DOMAIN turns
    BY <1>2, <1>5, <1>6, <2>1, <2>3, TurnTypeFacts
  <2>4. CASE i \notin DOMAIN turns /\ j \in DOMAIN turns
    BY <1>2, <1>5, <1>6, <2>1, <2>4, TurnTypeFacts
  <2>5. CASE i \notin DOMAIN turns /\ j \notin DOMAIN turns
    <3>1. /\ i - Len(turns) \in Agents /\ j - Len(turns) \in Agents
          /\ TurnOrder[i - Len(turns)] = TurnOrder[j - Len(turns)]
      BY <1>2, <1>6, <2>1, <2>5
    <3>2. i - Len(turns) = j - Len(turns)
      BY <3>1, OrderPermutes
    <3> QED BY <1>1, <3>2
  <2> QED BY <2>2, <2>3, <2>4, <2>5
<1>8. \A i \in DOMAIN turns' : turns'[i].round <= round
  BY <1>2, <1>5, <1>6, TurnTypeFacts
<1>9. \A r \in 0..round - 1, a \in Agents : <<r, a>> \in AllIds(turns)'
  BY <1>3 DEF TurnsInv
<1> QED BY <1>3, <1>4, <1>7, <1>8, <1>9 DEF TurnsInv, Asking, Opening, Closed

LEMMA TurnsStep ==
  ASSUME TypeOK, StageInv, PlansInv, TurnsInv, [Next]_vars
  PROVE  TurnsInv'
<1> USE DEF Opening, Asking, Closed
<1>1. round' = round => TurnOrder' = TurnOrder
  BY OrderFixed
<1>2. round \in Nat
  BY TurnTypeFacts
<1>3. CASE StartRound \/ NoPlanHere \/ SeePlan \/ ApplyPlan \/ RejectPlan \/ LogEffect
  <2>1. /\ UNCHANGED <<turns, round>> /\ at \in Opening
        /\ at' \in Opening \cup {"failing"}
    BY <1>3 DEF StartRound, NoPlanHere, SeePlan, ApplyPlan, RejectPlan, LogEffect
  <2> QED BY <2>1 DEF TurnsInv
<1>4. CASE MakeViews
  <2>1. UNCHANGED <<turns, round, kind>> /\ at = "views" /\ at' = "expose" /\ asked' = 0
    BY <1>4 DEF MakeViews
  <2>2. \A i \in DOMAIN turns : turns[i].round < round
    BY <2>1 DEF TurnsInv
  <2>3. SaidInRound(0)' /\ OnlySaid(0)'
    BY <2>1, <2>2, TurnTypeFacts DEF SaidInRound, OnlySaid
  <2> QED BY <2>1, <2>2, <2>3 DEF TurnsInv
<1>5. CASE Expose \/ Request \/ Answer \/ ProviderFails
  <2>1. /\ UNCHANGED <<turns, round, kind, asked>> /\ at \in Asking
        /\ at' \in Asking
    BY <1>5 DEF Expose, Request, Answer, ProviderFails, Called
  <2> QED BY <1>1, <2>1 DEF TurnsInv, SaidInRound, OnlySaid
<1>6. CASE LogResponse
  <2>1. at = "response" /\ UNCHANGED <<round, kind>>
    BY <1>6 DEF LogResponse
  <2>2. CASE answer = "failed"
    BY <1>6, <2>2 DEF LogResponse, TurnsInv
  <2>3. CASE answer # "failed" /\ kind = "real"
    BY <1>6, <2>1, <2>3, TurnAdded DEF LogResponse
  <2>4. CASE answer # "failed" /\ kind # "real" /\ asked + 1 < AgentCount
    BY <1>6, <2>1, <2>4 DEF LogResponse, TurnsInv
  <2>5. CASE answer # "failed" /\ kind # "real" /\ ~(asked + 1 < AgentCount)
    BY <1>6, <2>1, <2>5, RoundTurnsAdded DEF LogResponse
  <2> QED BY <2>2, <2>3, <2>4, <2>5
<1>7. CASE LogTurn
  <2>1. at = "turn" /\ UNCHANGED <<turns, round, kind>>
    BY <1>7 DEF LogTurn
  <2>2. asked \in Nat /\ AgentCount \in Nat /\ asked + 1 <= AgentCount
    BY <2>1, ExposureAssumption DEF StageInv, Agents, TypeOK
  <2>3. CASE asked + 1 < AgentCount
    BY <1>1, <1>7, <2>1, <2>3 DEF LogTurn, TurnsInv, SaidInRound, OnlySaid
  <2>4. CASE ~(asked + 1 < AgentCount)
    <3>1. at' = "close" /\ asked + 1 = AgentCount
      BY <1>7, <2>2, <2>4 DEF LogTurn
    <3>2. \A a \in Agents : <<round, a>> \in AllIds(turns)
      <4>1. kind = "real" => SaidInRound(AgentCount)
        BY <2>1, <3>1 DEF TurnsInv
      <4>2. CASE kind = "real"
        BY <4>1, <4>2, OrderPermutes DEF SaidInRound, Agents
      <4> QED BY <2>1, <4>2 DEF TurnsInv
    <3> QED BY <2>1, <3>1, <3>2 DEF TurnsInv
  <2> QED BY <2>3, <2>4
<1>8. CASE CloseRound
  <2>1. at = "close" /\ UNCHANGED turns
    BY <1>8 DEF CloseRound
  <2>2. \A r \in 0..round, a \in Agents : <<r, a>> \in AllIds(turns)
    <3>1. \A r \in 0..round : r \in 0..round - 1 \/ r = round
      BY <1>2
    <3> QED BY <2>1, <3>1 DEF TurnsInv
  <2>3. CASE LastRound
    BY <1>8, <2>1, <2>2, <2>3 DEF CloseRound, TurnsInv
  <2>4. CASE ~LastRound
    <3>1. round' = round + 1 /\ at' = "round"
      BY <1>8, <2>4 DEF CloseRound
    <3>2. \A i \in DOMAIN turns' : turns'[i].round < round'
      BY <1>2, <2>1, <3>1, TurnTypeFacts DEF TurnsInv
    <3>3. \A i \in DOMAIN turns' : turns'[i].round <= round'
      BY <1>2, <2>1, <3>1, <3>2, TurnTypeFacts
    <3>4. \A r \in 0..round' - 1, a \in Agents : <<r, a>> \in AllIds(turns)'
      <4>1. 0..round' - 1 = 0..round
        BY <1>2, <3>1
      <4>2. AllIds(turns)' = AllIds(turns)
        BY <2>1 DEF AllIds
      <4> QED BY <2>2, <4>1, <4>2
    <3> QED BY <2>1, <3>1, <3>2, <3>3, <3>4 DEF TurnsInv
  <2> QED BY <2>3, <2>4
<1>9. CASE Finish \/ WriteRecord \/ WriteSchedule \/ LogFails \/ RecordFails
           \/ ScheduleFails \/ RecordFailure
  <2>1. /\ UNCHANGED <<turns, round>>
        /\ \/ at \in Closed /\ at' \in Closed
           \/ at' \in {"failing", "failed_record", "failed_schedule", "raised"}
           \/ at = "failed_schedule"
    BY <1>9 DEF Finish, WriteRecord, WriteSchedule, LogFails, RecordFails, ScheduleFails,
                Escape, RecordFailure
  <2>2. at = "failed_schedule" => at' \notin Opening \cup Asking \cup Closed \cup {"turn"}
    BY <1>9 DEF Finish, WriteRecord, WriteSchedule, LogFails, RecordFails, ScheduleFails,
                Escape, RecordFailure, Writing
  <2> QED BY <2>1, <2>2 DEF TurnsInv
<1>10. CASE UNCHANGED vars
  <2>1. UNCHANGED <<at, kind, asked, turns, round, TurnOrder>>
    BY <1>1, <1>10 DEF vars
  <2> QED BY <2>1 DEF TurnsInv, SaidInRound, OnlySaid
<1> QED BY <1>3, <1>4, <1>5, <1>6, <1>7, <1>8, <1>9, <1>10 DEF Next

-----------------------------------------------------------------------------
(* Where the process is. *)

\* After the last round there is a turn of every agent in every round.
LEMMA WholeRecord ==
  ASSUME TypeOK, TurnsInv, at \in Closed, LastRound
  PROVE  AllIds(turns) = Rounds \X Agents
<1>1. Rounds = 0..round /\ round \in Nat
  BY RoundAssumption DEF LastRound, Rounds, TypeOK
<1>2. \A r \in 0..round, a \in Agents : <<r, a>> \in AllIds(turns)
  <2>1. \A r \in 0..round : r \in 0..round - 1 \/ r = round
    BY <1>1
  <2> QED BY <2>1 DEF TurnsInv
<1>3. \A i \in DOMAIN turns : Id(turns[i]) \in Rounds \X Agents
  <2> TAKE i \in DOMAIN turns
  <2>1. turns[i].round \in 0..round /\ turns[i].speaker \in Agents
    BY <1>1, TurnTypeFacts DEF TurnsInv
  <2> QED BY <1>1, <2>1 DEF Id
<1>4. AllIds(turns) \subseteq Rounds \X Agents
  BY <1>3 DEF AllIds
<1>5. Rounds \X Agents \subseteq AllIds(turns)
  BY <1>1, <1>2
<1> QED BY <1>4, <1>5

LEMMA StageStep ==
  ASSUME TypeOK, StageInv, TurnsInv, [Next]_vars
  PROVE  StageInv'
<1> USE DEF Asking, Ended, Recording
<1>1. 1 \in Agents /\ AgentCount \in Nat /\ asked \in Nat
  BY ExposureAssumption DEF Agents, TypeOK
<1>2. record = "none" \/ at \in Recording
  BY DEF StageInv
<1>3. CASE MakeViews
  BY <1>1, <1>2, <1>3 DEF MakeViews, StageInv
<1>4. CASE LogResponse
  BY <1>1, <1>2, <1>4 DEF LogResponse, StageInv, Agents
<1>5. CASE LogTurn
  BY <1>1, <1>2, <1>5 DEF LogTurn, StageInv, Agents
<1>6. CASE CloseRound
  BY <1>2, <1>6 DEF CloseRound, StageInv, LastRound
<1>7. CASE WriteRecord
  <2>1. record' = "completed" /\ record # "completed" => AllIds(turns) = Rounds \X Agents
    <3> SUFFICES ASSUME record' = "completed", record # "completed"
                 PROVE  AllIds(turns) = Rounds \X Agents
      OBVIOUS
    <3>1. at = "record"
      BY <1>7 DEF WriteRecord
    <3> QED BY <3>1, WholeRecord DEF StageInv, Closed
  <2>2. UNCHANGED turns
    BY <1>7 DEF WriteRecord
  <2> QED BY <1>7, <2>1, <2>2 DEF WriteRecord, StageInv, LastRound
<1>8. CASE StartRound \/ NoPlanHere \/ SeePlan \/ ApplyPlan \/ RejectPlan \/ LogEffect
  BY <1>2, <1>8 DEF StartRound, NoPlanHere, SeePlan, ApplyPlan, RejectPlan, LogEffect, StageInv
<1>9. CASE Expose \/ Request \/ Answer \/ ProviderFails
  BY <1>2, <1>9 DEF Expose, Request, Answer, ProviderFails, Called, StageInv
<1>10. CASE Finish \/ WriteSchedule \/ RecordFailure
  BY <1>2, <1>10 DEF Finish, WriteSchedule, RecordFailure, StageInv, LastRound
<1>11. CASE LogFails \/ RecordFails \/ ScheduleFails
  BY <1>2, <1>11 DEF LogFails, RecordFails, ScheduleFails, Escape, StageInv
<1>12. CASE UNCHANGED vars
  BY <1>12 DEF vars, StageInv, LastRound
<1> QED BY <1>3, <1>4, <1>5, <1>6, <1>7, <1>8, <1>9, <1>10, <1>11, <1>12 DEF Next

-----------------------------------------------------------------------------
(* Views. *)

\* The views that are made fit: the peers of a plan were there a round before
\* it takes effect, and those of a protocol are the rounds before, whole.
LEMMA ViewsFit ==
  ASSUME TypeOK, PlansInv, TurnsInv, at = "views", NEW agent \in Agents
  PROVE  Fits(agent, round, ViewOf(agent))
<1>1. round \in Nat /\ ActivePlan = PlanBefore(round)
  BY TurnTypeFacts DEF ActivePlan, PlanBefore
<1>2. Targeted(agent, round) <=> Overridden(agent)
  BY <1>1 DEF Targeted, Overridden
<1>3. CASE Overridden(agent)
  <2>1. /\ round - 1 \in applied /\ ActivePlan = plans[round - 1]
        /\ ActivePlan \in Plans /\ Overrides(ActivePlan)
    BY <1>3 DEF Overridden, Overrides, ActivePlan, PlansInv
  <2>2. \A id \in ActivePlan.peers : id[1] < round - 1 /\ id[1] \in Nat
    BY <2>1, PlanTypes DEF PlansInv, TurnIds
  <2>3. \A id \in ActivePlan.peers : id[1] + 1 < round
    BY <1>1, <2>2
  <2> QED BY <1>1, <1>2, <1>3, <2>3 DEF Fits, ViewOf, SameView
<1>4. CASE ~Overridden(agent)
  <2>1. EarlierPeers(turns, agent, round) = SaidBefore(agent, round)
    <3>1. \A id \in AllIds(turns) : id \in Nat \X Agents
      BY IdsAreTurnIds DEF TypeOK, TurnIds
    <3>2. ASSUME NEW id \in EarlierPeers(turns, agent, round)
          PROVE  id \in SaidBefore(agent, round)
      BY <1>1, <3>1, <3>2 DEF EarlierPeers, SaidBefore
    <3>3. ASSUME NEW id \in SaidBefore(agent, round)
          PROVE  id \in EarlierPeers(turns, agent, round)
      <4>1. PICK s \in 0..round - 1, a \in Agents \ {agent} : id = <<s, a>>
        BY DEF SaidBefore
      <4> QED BY <1>1, <4>1 DEF EarlierPeers, TurnsInv
    <3> QED BY <3>2, <3>3
  <2> QED BY <1>2, <1>4, <2>1 DEF Fits, ViewOf, Snapshot, PeersFor
<1> QED BY <1>3, <1>4

LEMMA ViewsStep ==
  ASSUME TypeOK, PlansInv, TurnsInv, ViewsInv, [Next]_vars
  PROVE  ViewsInv'
<1> USE DEF Asking
<1>1. round \in 0..round
  BY TurnTypeFacts
<1>2. CASE MakeViews
  <2> SUFFICES ASSUME NEW a \in Agents PROVE Fits(a, round, views[a])'
    BY DEF ViewsInv
  <2>1. Fits(a, round, ViewOf(a))
    BY <1>2, ViewsFit DEF MakeViews
  <2>2. round' = round /\ views'[a] = ViewOf(a)
    BY <1>2 DEF MakeViews
  <2>3. PlanBefore(round)' = PlanBefore(round) /\ protocol' = protocol
    BY <1>1, <2>2, PlanFixed, ProtocolFixed
  <2> QED BY <2>1, <2>2, <2>3
      DEF Fits, Targeted, Overrides, SaidBefore, EvidenceFor, Granted, Available, SameView
<1>3. CASE ~MakeViews
  <2>1. at' \in Asking \cup {"turn"} =>
          at \in Asking \cup {"turn"} /\ UNCHANGED <<round, views>>
    BY <1>3
    DEF Next, vars, StartRound, NoPlanHere, SeePlan, ApplyPlan, RejectPlan, LogEffect,
        Expose, Request, Answer, ProviderFails, Called, LogResponse, LogTurn, CloseRound,
        Finish, WriteRecord, WriteSchedule, LogFails, RecordFails, ScheduleFails, Escape,
        RecordFailure
  <2> SUFFICES ASSUME at' \in Asking \cup {"turn"}, NEW a \in Agents
               PROVE  Fits(a, round, views[a])'
    BY DEF ViewsInv
  <2>2. Fits(a, round, views[a]) /\ UNCHANGED <<round, views>>
    BY <2>1 DEF ViewsInv
  <2>3. PlanBefore(round)' = PlanBefore(round) /\ protocol' = protocol
    BY <1>1, <2>2, PlanFixed, ProtocolFixed
  <2> QED BY <2>2, <2>3
      DEF Fits, Targeted, Overrides, SaidBefore, EvidenceFor, Granted, Available, SameView
<1> QED BY <1>2, <1>3

\* A turn is one that was there, or that of an agent with a good answer.
LEMMA TurnsOfStep ==
  ASSUME TypeOK, StageInv, PlansInv, [Next]_vars, NEW i \in DOMAIN turns'
  PROVE  \/ i \in DOMAIN turns /\ turns'[i] = turns[i]
         \/ /\ LogResponse /\ answer = "ok"
            /\ \/ kind = "real" /\ turns'[i] = NewTurn(Agent)
               \/ /\ kind # "real" /\ ~(asked + 1 < AgentCount)
                  /\ \E n \in Agents : turns'[i] = NewTurn(TurnOrder[n])
<1>1. CASE LogResponse
  <2>1. answer \in {"ok", "failed"} /\ turns \in Seq(Turn)
    BY <1>1 DEF LogResponse, StageInv, TypeOK
  <2>2. CASE UNCHANGED turns
    BY <2>2
  <2>3. CASE answer = "ok" /\ kind = "real" /\ turns' = Append(turns, NewTurn(Agent))
    BY <1>1, <2>1, <2>3
  <2>4. CASE /\ answer = "ok" /\ kind # "real" /\ ~(asked + 1 < AgentCount)
             /\ turns' = turns \o [n \in Agents |-> NewTurn(TurnOrder[n])]
    <3> DEFINE new == [n \in Agents |-> NewTurn(TurnOrder[n])]
    <3>1. new \in Seq(Turn) /\ DOMAIN new = Agents
      BY RoundTurnsTypes
    <3>2. \/ i \in DOMAIN turns /\ turns'[i] = turns[i]
          \/ i - Len(turns) \in DOMAIN new /\ turns'[i] = new[i - Len(turns)]
      BY <2>1, <2>4, <3>1
    <3> QED BY <1>1, <2>4, <3>1, <3>2
  <2> QED BY <1>1, <2>1, <2>2, <2>3, <2>4 DEF LogResponse
<1>2. CASE ~LogResponse
  <2>1. UNCHANGED turns
    BY <1>2
    DEF Next, vars, StartRound, NoPlanHere, SeePlan, ApplyPlan, RejectPlan, LogEffect,
        MakeViews, Expose, Request, Answer, ProviderFails, LogTurn, CloseRound,
        Finish, WriteRecord, WriteSchedule, LogFails, RecordFails, ScheduleFails,
        RecordFailure
  <2> QED BY <2>1
<1> QED BY <1>1, <1>2

LEMMA ViewsAsPlannedStep ==
  ASSUME TypeOK, StageInv, PlansInv, TurnsInv, ViewsInv, ViewsAsPlanned, [Next]_vars
  PROVE  ViewsAsPlanned'
<1> SUFFICES ASSUME NEW i \in DOMAIN turns'
             PROVE  Fits(turns[i].speaker, turns[i].round, turns[i])'
  BY DEF ViewsAsPlanned
<1> DEFINE turn == turns'[i]
<1>1. turn.round \in 0..round /\ Fits(turn.speaker, turn.round, turn)
  <2>1. CASE i \in DOMAIN turns /\ turns'[i] = turns[i]
    BY <2>1, TurnTypeFacts DEF TurnsInv, ViewsAsPlanned
  <2>2. ASSUME NEW agent \in Agents, LogResponse, turns'[i] = NewTurn(agent)
        PROVE  turn.round \in 0..round /\ Fits(turn.speaker, turn.round, turn)
    <3>1. Fits(agent, round, views[agent])
      BY <2>2 DEF ViewsInv, LogResponse, Asking
    <3>2. Fits(agent, round, NewTurn(agent))
      BY <3>1 DEF Fits, NewTurn, SameView
    <3>3. NewTurn(agent).speaker = agent /\ NewTurn(agent).round = round
      BY DEF NewTurn
    <3> QED BY <2>2, <3>2, <3>3, TurnTypeFacts
  <2>3. LogResponse => Agent \in Agents
    BY AgentInAgents DEF LogResponse, StageInv, Asking
  <2> QED BY <2>1, <2>2, <2>3, TurnsOfStep, OrderPermutes
<1>2. PICK r \in 0..round : turn.round = r
  BY <1>1
<1>3. PlanBefore(r)' = PlanBefore(r) /\ protocol' = protocol
  BY PlanFixed, ProtocolFixed
<1> QED BY <1>1, <1>2, <1>3
    DEF Fits, Targeted, Overrides, SaidBefore, EvidenceFor, Granted, Available, SameView

-----------------------------------------------------------------------------
(* Answers. *)

\* An answer that is logged stays logged.
LEMMA AnswerStays ==
  ASSUME TypeOK, log' = log \/ \E event : log' = Append(log, event),
         NEW r, NEW agent, NEW view, AnswerLogged(r, agent, view)
  PROVE  AnswerLogged(r, agent, view)'
<1>1. PICK k \in Of(log, {"llm_response"}) :
        /\ log[k].round = r /\ log[k].who = agent
        /\ log[k].ok /\ SameView(log[k].view, view)
  BY DEF AnswerLogged
<1>2. k \in DOMAIN log' /\ log'[k] = log[k]
  BY <1>1 DEF Of, TypeOK
<1>3. k \in Of(log, {"llm_response"})'
  BY <1>1, <1>2 DEF Of
<1> QED BY <1>1, <1>2, <1>3 DEF AnswerLogged, SameView

LEMMA LogGrows ==
  ASSUME [Next]_vars
  PROVE  log' = log \/ \E event : log' = Append(log, event)
BY DEF Next, vars, StartRound, NoPlanHere, SeePlan, ApplyPlan, RejectPlan, LogEffect,
       MakeViews, Expose, Request, Answer, ProviderFails, LogResponse, LogTurn,
       CloseRound, Finish, WriteRecord, WriteSchedule, LogFails, RecordFails,
       ScheduleFails, RecordFailure, Write, WriteView, WritePlan, WriteEvent

\* A good answer is logged in sight of the view of its agent.
LEMMA AnswerIsLogged ==
  ASSUME TypeOK, LogResponse, answer = "ok", NEW r, r = round,
         NEW agent \in Agents, agent = Agent, NEW view, SameView(views[agent], view)
  PROVE  AnswerLogged(r, agent, view)'
<1> DEFINE event == [NewEvent("llm_response", r, agent, sequence + 1)
                       EXCEPT !.view = views[agent], !.ok = TRUE]
<1>1. log' = Append(log, event)
  BY DEF LogResponse, WriteView, WriteEvent
<1>2. /\ event.type = "llm_response" /\ event.round = r /\ event.who = agent
      /\ event.view = views[agent] /\ event.ok
  BY DEF NewEvent
<1> HIDE DEF event
<1>3. Len(log) + 1 \in DOMAIN log' /\ log'[Len(log) + 1] = event
  BY <1>1 DEF TypeOK
<1>4. Len(log) + 1 \in Of(log, {"llm_response"})'
  BY <1>2, <1>3 DEF Of
<1> QED BY <1>2, <1>3, <1>4 DEF AnswerLogged, SameView

LEMMA AnswersStep ==
  ASSUME TypeOK, StageInv, PlansInv, AnswersInv, [Next]_vars
  PROVE  AnswersInv'
<1> USE DEF Asking
<1>1. ASSUME NEW r, NEW agent, NEW view, AnswerLogged(r, agent, view)
      PROVE  AnswerLogged(r, agent, view)'
  BY <1>1, AnswerStays, LogGrows
<1>2. CASE LogResponse
  <2>1. asked + 1 \in Agents /\ asked \in Nat /\ AgentCount \in Nat
    BY <1>2, ExposureAssumption DEF LogResponse, StageInv, TypeOK, Agents
  <2>2. Agent \in Agents /\ Agent = TurnOrder[asked + 1]
    BY <2>1, AgentInAgents DEF Agent
  <2>3. UNCHANGED <<round, views, kind>> /\ TurnOrder' = TurnOrder
    BY <1>2, OrderFixed DEF LogResponse
  \* Every agent asked so far has its answer.
  <2>4. ASSUME answer = "ok", kind # "real", NEW n \in 1..asked + 1, NEW view,
               SameView(views[TurnOrder[n]], view), NEW r, r = round,
               NEW agent \in Agents, agent = TurnOrder[n]
        PROVE  AnswerLogged(r, agent, view)'
    <3>1. CASE n = asked + 1
      BY <1>2, <2>2, <2>4, <3>1, AnswerIsLogged
    <3>2. CASE n # asked + 1
      <4>1. n \in 1..asked
        BY <2>1, <3>2
      <4>2. AnswerLogged(r, agent, views[agent])
        BY <1>2, <2>4, <4>1 DEF AnswersInv, LogResponse
      <4>3. AnswerLogged(r, agent, view)
        BY <2>4, <4>2 DEF AnswerLogged, SameView
      <4> QED BY <1>1, <4>3
    <3> QED BY <3>1, <3>2
  <2>5. ASSUME NEW i \in DOMAIN turns'
        PROVE  AnswerLogged(turns[i].round, turns[i].speaker, turns[i])'
    <3>1. PICK turn, r, agent :
            turn = turns'[i] /\ r = turn.round /\ agent = turn.speaker
      OBVIOUS
    <3>2. AnswerLogged(r, agent, turn)'
      <4>1. CASE i \in DOMAIN turns /\ turns'[i] = turns[i]
        <5>1. AnswerLogged(r, agent, turn)
          BY <3>1, <4>1 DEF AnswersInv
        <5> QED BY <1>1, <5>1
      <4>2. CASE answer = "ok" /\ kind = "real" /\ turns'[i] = NewTurn(Agent)
        <5>1. r = round /\ agent = Agent /\ SameView(views[agent], turn)
          BY <3>1, <4>2 DEF NewTurn, SameView
        <5> QED BY <1>2, <2>2, <4>2, <5>1, AnswerIsLogged
      <4>3. ASSUME answer = "ok", kind # "real", ~(asked + 1 < AgentCount),
                   NEW n \in Agents, turns'[i] = NewTurn(TurnOrder[n])
            PROVE  AnswerLogged(r, agent, turn)'
        <5>1. r = round /\ agent = TurnOrder[n] /\ SameView(views[TurnOrder[n]], turn)
          BY <3>1, <4>3 DEF NewTurn, SameView
        <5>2. n \in 1..asked + 1 /\ agent \in Agents
          BY <2>1, <4>3, <5>1, OrderPermutes DEF Agents
        <5> QED BY <2>4, <4>3, <5>1, <5>2
      <4> QED BY <4>1, <4>2, <4>3, TurnsOfStep
    <3> QED BY <3>1, <3>2 DEF AnswerLogged, SameView
  <2>6. ASSUME at' \in Asking, kind' # "real", NEW n \in 1..asked'
        PROVE  AnswerLogged(round, TurnOrder[n], views[TurnOrder[n]])'
    <3>1. answer = "ok" /\ asked' = asked + 1 /\ kind # "real"
      BY <1>2, <2>6 DEF LogResponse, StageInv
    <3>2. n \in 1..asked + 1 /\ TurnOrder[n] \in Agents
      <4>1. n \in 1..asked + 1 /\ n \in Agents
        BY <2>1, <2>6, <3>1 DEF Agents
      <4> QED BY <4>1, OrderPermutes
    <3>3. PICK agent, view, r :
            agent \in Agents /\ agent = TurnOrder[n] /\ view = views[agent] /\ r = round
      BY <3>2
    <3>4. AnswerLogged(r, agent, view)'
      BY <2>4, <3>1, <3>2, <3>3 DEF SameView
    <3> QED BY <2>3, <3>3, <3>4 DEF AnswerLogged, SameView
  <2> QED BY <2>5, <2>6 DEF AnswersInv
<1>3. CASE ~LogResponse
  <2>1. UNCHANGED turns
    BY <1>3, TurnsOfStep
    DEF Next, vars, StartRound, NoPlanHere, SeePlan, ApplyPlan, RejectPlan, LogEffect,
        MakeViews, Expose, Request, Answer, ProviderFails, LogTurn, CloseRound,
        Finish, WriteRecord, WriteSchedule, LogFails, RecordFails, ScheduleFails,
        RecordFailure
  <2>2. ASSUME NEW i \in DOMAIN turns'
        PROVE  AnswerLogged(turns[i].round, turns[i].speaker, turns[i])'
    <3>1. PICK turn, r, agent :
            turn = turns[i] /\ r = turn.round /\ agent = turn.speaker
      OBVIOUS
    <3>2. AnswerLogged(r, agent, turn)'
      BY <1>1, <2>1, <2>2, <3>1 DEF AnswersInv
    <3> QED BY <2>1, <3>1, <3>2 DEF AnswerLogged, SameView
  <2>3. at' \in Asking /\ kind' # "real" =>
          \/ at \in Asking /\ kind # "real" /\ UNCHANGED <<asked, views, round>>
          \/ asked' = 0
    BY <1>3
    DEF Next, vars, StartRound, NoPlanHere, SeePlan, ApplyPlan, RejectPlan, LogEffect,
        MakeViews, Expose, Request, Answer, ProviderFails, Called, LogTurn, CloseRound,
        Finish, WriteRecord, WriteSchedule, LogFails, RecordFails, ScheduleFails, Escape,
        RecordFailure
  <2>4. ASSUME at' \in Asking, kind' # "real", NEW n \in 1..asked'
        PROVE  AnswerLogged(round, TurnOrder[n], views[TurnOrder[n]])'
    <3>1. at \in Asking /\ kind # "real" /\ UNCHANGED <<asked, views, round>>
      BY <2>3, <2>4
    <3>2. TurnOrder' = TurnOrder
      BY <3>1, OrderFixed
    <3>3. PICK agent, view, r :
            agent = TurnOrder[n] /\ view = views[agent] /\ r = round
      OBVIOUS
    <3>4. AnswerLogged(r, agent, view)'
      BY <1>1, <2>4, <3>1, <3>3 DEF AnswersInv
    <3> QED BY <3>1, <3>2, <3>3, <3>4 DEF AnswerLogged, SameView
  <2> QED BY <2>2, <2>4 DEF AnswersInv
<1> QED BY <1>2, <1>3

-----------------------------------------------------------------------------
(* The theorems. *)

LEMMA InitRun == Init => RunInv
<1> SUFFICES ASSUME Init PROVE RunInv
  OBVIOUS
<1>1. TypeOK
  BY InitTypes
<1>2. turns = <<>> /\ at = "round" /\ record = "none" /\ round = 0 /\ applied = {}
  BY DEF Init
<1>3. DOMAIN turns = {} /\ 0..round - 1 = {}
  BY <1>2
<1> QED BY <1>1, <1>2, <1>3
    DEF RunInv, StageInv, PlansInv, TurnsInv, ViewsInv, ViewsAsPlanned, AnswersInv,
        Opening, Asking, Closed, Ended, Recording

LEMMA RunStep == RunInv /\ [Next]_vars => RunInv'
BY TypeStep, StageStep, PlansStep, TurnsStep, ViewsStep, ViewsAsPlannedStep, AnswersStep
DEF RunInv

LEMMA RunInvariant == Spec => []RunInv
BY InitRun, RunStep, PTL DEF Spec

\* Every run keeps its types, whatever it is asked to do and whatever fails.
THEOREM TypeCorrect == Spec => []TypeOK
<1>1. RunInv => TypeOK
  BY DEF RunInv
<1> QED BY <1>1, RunInvariant, PTL

\* Whatever the order of a round and however its turns are added, a turn is
\* made in sight of what its protocol, or the plan in effect, shows of the
\* rounds before.
THEOREM ViewsAlwaysAsPlanned == Spec => []ViewsAsPlanned
<1>1. RunInv => ViewsAsPlanned
  BY DEF RunInv
<1> QED BY <1>1, RunInvariant, PTL

\* No turn of a record is without a good answer in the log, none is there
\* twice, and a completed record has one of every agent in every round.
THEOREM TurnsAlwaysAnswered == Spec => []TurnsAnswered
<1>1. RunInv => TurnsAnswered
  <2> SUFFICES ASSUME RunInv PROVE TurnsAnswered
    OBVIOUS
  <2>1. ASSUME NEW i \in DOMAIN turns
        PROVE  \E k \in Of(log, {"llm_response"}) :
                 /\ <<log[k].round, log[k].who>> = Id(turns[i])
                 /\ log[k].ok /\ SameView(log[k].view, turns[i])
    <3>1. AnswerLogged(turns[i].round, turns[i].speaker, turns[i])
      BY DEF RunInv, AnswersInv
    <3> QED BY <3>1 DEF AnswerLogged, Id
  <2>2. \A i, j \in DOMAIN turns : Id(turns[i]) = Id(turns[j]) => i = j
    BY DEF RunInv, TurnsInv
  <2>3. record = "completed" => AllIds(turns) = Rounds \X Agents
    BY DEF RunInv, StageInv
  <2> QED BY <2>1, <2>2, <2>3 DEF TurnsAnswered
<1> QED BY <1>1, RunInvariant, PTL

-----------------------------------------------------------------------------
(* The log of a run, for what replay makes of it. *)

\* The rounds and agents that the events of a type name.
PairsOf(events, type) == {<<events[i].round, events[i].who>> : i \in Of(events, {type})}

\* The events that end a run, those that say what was shown, those of plans, and
\* those that come once for a round and an agent.
Terminal == {"run_completed", "run_failed"}
Sights == {"exposure_created", "llm_request", "llm_response", "turn_completed"}
PlanEvents == {"plan_seen", "plan_applied", "plan_rejected"} \cup Effects
Once == {"round_started", "round_completed", "llm_request", "llm_response", "turn_completed"}

\* The order in which the turns of a round are made.
OrderIn(r) ==
  IF PlanBefore(r) # NoPlan /\ PlanBefore(r).action \in {"solicit_dissent", "restructure"}
  THEN PlanBefore(r).order
  ELSE [a \in Agents |-> a]

\* What a plan in effect shows is there, and granted to whom it targets.
PeersNamed ==
  \A r \in applied :
    Overrides(plans[r]) =>
      /\ plans[r].peers \subseteq AllIds(turns)
      /\ \A i \in DOMAIN plans[r].targets :
           plans[r].evidence \subseteq Granted(plans[r].targets[i], r)

\* A view shows a history of earlier rounds alone.
Earlier(r) == {id \in AllIds(turns) : id[1] < r}

HistoryNamed ==
  at \in Asking \cup {"turn"} => \A a \in Agents : views[a].history \subseteq Earlier(round)

\* Turns are kept in the order of their rounds, and of the agents in each.
Precedes(order, one, other) ==
  \A p, q \in Agents : order[p] = one /\ order[q] = other => p < q

TurnsOrdered ==
  \A i, j \in DOMAIN turns : i < j =>
    /\ turns[i].round <= turns[j].round
    /\ turns[i].round = turns[j].round =>
         Precedes(OrderIn(turns[i].round), turns[i].speaker, turns[j].speaker)

\* Whatever an event shows fits the round and the agent it names.
SightsFit ==
  \A k \in Of(log, Sights) :
    /\ log[k].round <= round /\ log[k].who \in Agents
    /\ Fits(log[k].who, log[k].round, log[k].view)
    /\ log[k].view.history \subseteq Earlier(log[k].round)

\* All events of an agent in a round show the same, the one its view says.
SightsAgree ==
  /\ \A j, k \in Of(log, Sights) :
       log[j].round = log[k].round /\ log[j].who = log[k].who => log[j].view = log[k].view
  /\ at \in Opening => \A k \in Of(log, Sights) : log[k].round < round
  /\ at \in Asking \cup {"turn"} =>
       \A k \in Of(log, Sights) : log[k].round = round => log[k].view = views[log[k].who]

\* The plan of a round is seen first, then settled, and in effect if it was applied.
PlanLog ==
  /\ \A k \in Of(log, PlanEvents) : log[k].round <= round /\ log[k].plan = plans[log[k].round]
  /\ at \in {"round", "plan"} => \A k \in Of(log, PlanEvents) : log[k].round < round
  /\ at = "apply" =>
       /\ round \in RoundsOf(log, "plan_seen")
       /\ round \notin RoundsOf(log, "plan_applied") \cup RoundsOf(log, "plan_rejected")
  /\ RoundsOf(log, "plan_applied") = applied \cup (IF at = "effect" THEN {round} ELSE {})
  /\ PlanEventsValid(log)

\* The rounds so far were started, and those before this one completed.
RoundLog ==
  LET started == RoundsOf(log, "round_started")
      completed == RoundsOf(log, "round_completed")
  IN  /\ started = IF at = "round" THEN 0..round - 1 ELSE 0..round
      /\ completed = IF at = "finish" THEN 0..round ELSE 0..round - 1
      /\ at \in Opening \cup {"close", "finish"} => asked = 0

\* The agents of the rounds before and the first n of this one.
UpTo(n) == ((0..round - 1) \X Agents) \cup {<<round, TurnOrder[i]>> : i \in 1..n}

\* How many were shown their view, asked, answered and noted in this round.
Responded ==
  CASE at \in Opening -> 0
    [] at \in Asking -> asked
    [] at = "turn" /\ kind = "real" -> asked + 1
    [] OTHER -> AgentCount
Exposed == IF at \in {"request", "call", "response"} THEN asked + 1 ELSE Responded
Requested == IF at = "response" \/ (at = "call" /\ kind # "real") THEN asked + 1 ELSE Responded
Told ==
  IF at \in {"close", "finish"} THEN AgentCount
  ELSE IF at = "turn" \/ (at \in Asking /\ kind = "real") THEN asked ELSE 0

\* Each agent so far was shown its view, asked, answered and noted; of a run that
\* fails, who was asked was answered, and who has a turn was noted.
AgentLog ==
  /\ at # "failing" =>
       /\ PairsOf(log, "exposure_created") = UpTo(Exposed)
       /\ PairsOf(log, "llm_request") = UpTo(Requested)
       /\ PairsOf(log, "llm_response") = UpTo(Responded)
       /\ PairsOf(log, "turn_completed") = UpTo(Told)
  /\ at = "failing" =>
       /\ PairsOf(log, "llm_request") = PairsOf(log, "llm_response")
       /\ PairsOf(log, "turn_completed") = AllIds(turns)
       /\ PairsOf(log, "llm_request") \cup AllIds(turns) \subseteq PairsOf(log, "exposure_created")

\* Nothing is written twice, no response before its request, and each event is
\* numbered by its place.
SingleIn(events) ==
  \A i, j \in Of(events, Once) :
    /\ events[i].type = events[j].type /\ events[i].round = events[j].round
    /\ events[i].who = events[j].who
    => i = j

AskedFirst(events) ==
  \A i \in Of(events, {"llm_request"}), j \in Of(events, {"llm_response"}) :
    events[i].round = events[j].round /\ events[i].who = events[j].who => i < j

Numbered(events) == \A i \in DOMAIN events : events[i].sequence = i
Begun(events) == events # <<>> /\ events[1].type = "run_started"

\* A log that follows the run step by step.
TidyLog ==
  /\ Numbered(log) /\ SingleIn(log) /\ AskedFirst(log)
  /\ SightsAgree /\ PlanLog /\ RoundLog /\ AgentLog

Running == Opening \cup Asking \cup {"turn", "close", "finish"}

\* No event was lost and none has ended the run.
Undisturbed == sequence = Len(log) /\ Of(log, Terminal) = {}

\* What is shown holds whatever became of the log.
ShownInv == PeersNamed /\ HistoryNamed /\ TurnsOrdered /\ SightsFit

\* From its end on, replay judges a whole log as it is to.
Verdict ==
  Of(log, Terminal) # {} /\ LogWhole =>
    \A status \in {"completed", "failed"} :
       Of(log, {IF status = "completed" THEN "run_completed" ELSE "run_failed"}) # {} =>
         (Replays(log, turns, status) <=> ~Misread)

\* Where a run may be once its end was written.
AfterTerminal ==
  {"record", "schedule", "done", "failing", "failed_record", "failed_schedule", "raised"}

\* The log is tidy as long as nothing went wrong in writing it, and its verdict
\* stands once it has an end.
RepInv ==
  /\ Begun(log) /\ Len(log) <= sequence
  /\ at \in Running => Undisturbed
  /\ at \in {"record", "schedule", "done"} => Of(log, {"run_completed"}) # {}
  /\ at \in {"failed_record", "failed_schedule"} => Of(log, {"run_failed"}) # {}
  /\ record = "completed" => Of(log, {"run_completed"}) # {}
  /\ record = "failed" => Of(log, {"run_failed"}) # {}
  /\ Undisturbed /\ at \in Running \cup {"failing"} => TidyLog
  /\ Of(log, Terminal) # {} => at \in AfterTerminal
  /\ Verdict

-----------------------------------------------------------------------------
(* A log that grows by an event. *)

\* Where an event is after another one was written.
LEMMA Appended ==
  ASSUME NEW events \in Seq(LogEvent), NEW e \in LogEvent
  PROVE  /\ Append(events, e) \in Seq(LogEvent)
         /\ Len(Append(events, e)) = Len(events) + 1
         /\ DOMAIN Append(events, e) = DOMAIN events \cup {Len(events) + 1}
         /\ DOMAIN events = 1..Len(events) /\ Len(events) \in Nat
         /\ \A i \in DOMAIN events : Append(events, e)[i] = events[i]
         /\ Append(events, e)[Len(events) + 1] = e
BY AppendProperties

\* The events of some types, after another event was written.
LEMMA OfAppended ==
  ASSUME NEW events \in Seq(LogEvent), NEW e \in LogEvent, NEW types
  PROVE  /\ e.type \in types =>
              Of(Append(events, e), types) = Of(events, types) \cup {Len(events) + 1}
         /\ e.type \notin types => Of(Append(events, e), types) = Of(events, types)
         /\ \A k \in Of(events, types) : Append(events, e)[k] = events[k] /\ k < Len(events) + 1
         /\ \A k \in Of(events, types) : k \in DOMAIN events /\ events[k].type \in types
BY Appended DEF Of

\* What the events of a type name, after another event was written.
LEMMA NamesAppended ==
  ASSUME NEW events \in Seq(LogEvent), NEW e \in LogEvent
  PROVE  /\ PairsOf(Append(events, e), e.type) = PairsOf(events, e.type) \cup {<<e.round, e.who>>}
         /\ RoundsOf(Append(events, e), e.type) = RoundsOf(events, e.type) \cup {e.round}
         /\ \A type : type # e.type =>
              /\ PairsOf(Append(events, e), type) = PairsOf(events, type)
              /\ RoundsOf(Append(events, e), type) = RoundsOf(events, type)
<1> DEFINE longer == Append(events, e)
           last == Len(events) + 1
<1>1. \A type : \A i \in Of(events, {type}) : longer[i] = events[i]
  BY OfAppended
<1>2. longer[last] = e
  BY Appended
<1>3. Of(longer, {e.type}) = Of(events, {e.type}) \cup {last}
  BY OfAppended
<1>4. \A type : type # e.type => Of(longer, {type}) = Of(events, {type})
  BY OfAppended
<1> HIDE DEF longer, last
<1>5. PairsOf(longer, e.type) = PairsOf(events, e.type) \cup {<<e.round, e.who>>}
  BY <1>1, <1>2, <1>3 DEF PairsOf
<1>6. RoundsOf(longer, e.type) = RoundsOf(events, e.type) \cup {e.round}
  <2>1. RoundsOf(longer, e.type) = {longer[i].round : i \in Of(events, {e.type}) \cup {last}}
    BY <1>3 DEF RoundsOf
  <2> QED BY <1>1, <1>2, <2>1 DEF RoundsOf
<1>7. ASSUME NEW type, type # e.type
      PROVE  /\ PairsOf(longer, type) = PairsOf(events, type)
             /\ RoundsOf(longer, type) = RoundsOf(events, type)
  <2>1. Of(longer, {type}) = Of(events, {type})
    BY <1>4, <1>7
  <2>2. PairsOf(longer, type) = PairsOf(events, type)
    BY <1>1, <2>1 DEF PairsOf
  <2>3. RoundsOf(longer, type) = RoundsOf(events, type)
    BY <1>1, <2>1 DEF RoundsOf
  <2> QED BY <2>2, <2>3
<1> QED BY <1>5, <1>6, <1>7 DEF longer

\* What comes once for a round and an agent is not written a second time.
LEMMA StaysSingle ==
  ASSUME NEW events \in Seq(LogEvent), NEW e \in LogEvent, SingleIn(events),
         e.type \in Once => <<e.round, e.who>> \notin PairsOf(events, e.type)
  PROVE  SingleIn(Append(events, e))
<1> DEFINE longer == Append(events, e)
           last == Len(events) + 1
<1>1. /\ e.type \in Once => Of(longer, Once) = Of(events, Once) \cup {last}
      /\ e.type \notin Once => Of(longer, Once) = Of(events, Once)
  BY OfAppended
<1>2. longer[last] = e /\ \A k \in Of(events, Once) : longer[k] = events[k] /\ k # last
  BY Appended, OfAppended
<1>3. \A k \in Of(events, Once) : k \in Of(events, {events[k].type})
  BY DEF Of
<1> HIDE DEF longer, last
<1>4. ASSUME NEW i \in Of(longer, Once), NEW j \in Of(longer, Once),
             longer[i].type = longer[j].type, longer[i].round = longer[j].round,
             longer[i].who = longer[j].who
      PROVE  i = j
  <2>1. CASE i # last /\ j # last
    <3>1. i \in Of(events, Once) /\ j \in Of(events, Once)
      BY <1>1, <2>1
    <3> QED BY <1>2, <1>4, <3>1 DEF SingleIn
  <2>2. ASSUME NEW k \in Of(events, Once), e.type \in Once, events[k].type = e.type,
               events[k].round = e.round, events[k].who = e.who
        PROVE  FALSE
    BY <1>3, <2>2 DEF PairsOf
  <2>3. CASE i = last \/ j = last
    BY <1>1, <1>2, <1>4, <2>2, <2>3
  <2> QED BY <2>1, <2>3
<1> QED BY <1>4 DEF SingleIn, longer

\* A request is not written after its response.
LEMMA StaysAskedFirst ==
  ASSUME NEW events \in Seq(LogEvent), NEW e \in LogEvent, AskedFirst(events),
         e.type = "llm_request" => <<e.round, e.who>> \notin PairsOf(events, "llm_response")
  PROVE  AskedFirst(Append(events, e))
<1> DEFINE longer == Append(events, e)
           last == Len(events) + 1
<1> SUFFICES ASSUME NEW i \in Of(longer, {"llm_request"}), NEW j \in Of(longer, {"llm_response"}),
                    longer[i].round = longer[j].round, longer[i].who = longer[j].who
             PROVE  i < j
  BY DEF AskedFirst
<1>1. /\ i \in Of(events, {"llm_request"}) \/ (i = last /\ e.type = "llm_request")
      /\ j \in Of(events, {"llm_response"}) \/ (j = last /\ e.type = "llm_response")
  BY OfAppended
<1>2. \A k \in Of(events, {"llm_request"}) \cup Of(events, {"llm_response"}) :
        longer[k] = events[k] /\ k < last
  BY OfAppended
<1>3. longer[last] = e
  BY Appended
<1> HIDE DEF longer, last
<1>4. CASE i \in Of(events, {"llm_request"}) /\ j \in Of(events, {"llm_response"})
  BY <1>2, <1>4 DEF AskedFirst
<1>5. CASE i \in Of(events, {"llm_request"}) /\ j = last
  BY <1>2, <1>5
<1>6. CASE i = last /\ e.type = "llm_request" /\ j \in Of(events, {"llm_response"})
  <2>1. <<e.round, e.who>> = <<events[j].round, events[j].who>>
    BY <1>2, <1>3, <1>6
  <2> QED BY <1>6, <2>1 DEF PairsOf
<1> QED BY <1>1, <1>4, <1>5, <1>6

\* What replay asks of the event of a plan as it is written.
FitsPlans(events, e) ==
  LET after(type) == \E j \in Of(events, {type}) :
                       events[j].plan = e.plan /\ events[j].round = e.round
  IN  /\ e.type = "plan_seen" => e.round \notin RoundsOf(events, "plan_seen")
      /\ e.type \in {"plan_applied", "plan_rejected"} =>
           /\ after("plan_seen")
           /\ e.round \notin RoundsOf(events, "plan_applied") \cup RoundsOf(events, "plan_rejected")
      /\ e.type \in Effects => after("plan_applied")

\* An earlier event of some types of the same plan in the same round.
PlanBeforePlace(events, types, k) ==
  \E j \in Of(events, types) : j < k /\ events[j].plan = events[k].plan
                                     /\ events[j].round = events[k].round

\* What replay asks of one event of a plan.
PlanEventAt(events, k) ==
  /\ events[k].type = "plan_seen" => ~PlanBeforePlace(events, {"plan_seen"}, k)
  /\ events[k].type \in {"plan_applied", "plan_rejected"} =>
       /\ PlanBeforePlace(events, {"plan_seen"}, k)
       /\ ~PlanBeforePlace(events, {"plan_applied", "plan_rejected"}, k)
  /\ events[k].type \in Effects => PlanBeforePlace(events, {"plan_applied"}, k)

\* Replay asks of plans what it asks of each event in turn.
LEMMA PlanEventsByPlace ==
  ASSUME NEW events
  PROVE  PlanEventsValid(events) <=> \A k \in DOMAIN events : PlanEventAt(events, k)
BY DEF PlanEventsValid, PlanEventAt, PlanBeforePlace, Of

\* An event that fits leaves the plans of a log in order.
LEMMA PlanEventsStay ==
  ASSUME NEW events \in Seq(LogEvent), NEW e \in LogEvent, PlanEventsValid(events),
         FitsPlans(events, e)
  PROVE  PlanEventsValid(Append(events, e))
<1> DEFINE longer == Append(events, e)
           last == Len(events) + 1
<1>1. /\ \A types : Of(longer, types) \subseteq Of(events, types) \cup {last}
      /\ \A types : Of(events, types) \subseteq Of(longer, types)
      /\ \A types : \A k \in Of(events, types) : longer[k] = events[k] /\ k < last
      /\ \A types : last \in Of(longer, types) => e.type \in types
  <2>1. \A types : last \notin Of(events, types)
    BY OfAppended, Appended
  <2> QED BY <2>1, OfAppended
<1>2. /\ longer[last] = e /\ DOMAIN longer = DOMAIN events \cup {last}
      /\ \A k \in DOMAIN events : longer[k] = events[k] /\ k \in Nat /\ k < last
  BY Appended
<1>3. \A types : \A k \in DOMAIN events :
        PlanBeforePlace(longer, types, k) <=> PlanBeforePlace(events, types, k)
  <2> SUFFICES ASSUME NEW k \in DOMAIN events, NEW types
               PROVE  PlanBeforePlace(longer, types, k) <=> PlanBeforePlace(events, types, k)
    OBVIOUS
  <2>1. last \in Nat /\ k \in Nat /\ k < last /\ longer[k] = events[k]
    BY <1>2, Appended
  <2>2. \A j \in Of(longer, types) : j < k => j \in Of(events, types)
    BY <1>1, <2>1
  <2> HIDE DEF longer, last
  <2> QED BY <1>1, <2>1, <2>2 DEF PlanBeforePlace
<1> HIDE DEF longer, last
<1>4. \A k \in DOMAIN events : PlanEventAt(longer, k)
  BY <1>2, <1>3, PlanEventsByPlace DEF PlanEventAt
<1>5. \A type : (\E j \in Of(events, {type}) : events[j].plan = e.plan /\ events[j].round = e.round)
                  => PlanBeforePlace(longer, {type}, last)
  BY <1>1, <1>2 DEF PlanBeforePlace
<1>6. ASSUME NEW types, PlanBeforePlace(longer, types, last)
      PROVE  \E j \in Of(events, types) : events[j].round = e.round
  <2>1. PICK j \in Of(longer, types) : j < last /\ longer[j].round = longer[last].round
    BY <1>6 DEF PlanBeforePlace
  <2>2. last \in Nat
    BY Appended DEF last
  <2>3. j # last
    BY <2>1, <2>2
  <2>4. j \in Of(events, types)
    BY <1>1, <2>3
  <2> QED BY <1>1, <1>2, <2>1, <2>4
<1>7. PlanEventAt(longer, last)
  <2>1. PlanBeforePlace(longer, {"plan_seen"}, last) => e.round \in RoundsOf(events, "plan_seen")
    BY <1>6 DEF RoundsOf
  <2>2. PlanBeforePlace(longer, {"plan_applied", "plan_rejected"}, last) =>
          e.round \in RoundsOf(events, "plan_applied") \cup RoundsOf(events, "plan_rejected")
    <3>1. \A j \in Of(events, {"plan_applied", "plan_rejected"}) :
            j \in Of(events, {"plan_applied"}) \/ j \in Of(events, {"plan_rejected"})
      BY DEF Of
    <3> QED BY <1>6, <3>1 DEF RoundsOf
  <2> QED BY <1>2, <1>5, <2>1, <2>2 DEF PlanEventAt, FitsPlans
<1> QED BY <1>2, <1>4, <1>7, PlanEventsByPlace DEF longer

-----------------------------------------------------------------------------
(* What is shown, and in which order, whatever becomes of the log. *)

\* A plan that was applied stays as it is.
LEMMA AppliedStay ==
  ASSUME TypeOK, PlansInv, [Next]_vars
  PROVE  /\ \A r \in applied : r \in applied' /\ plans'[r] = plans[r]
         /\ \A r \in applied' : r \in applied \/ (LogEffect /\ r = round /\ plans' = plans)
<1>1. CASE SeePlan
  <2>1. round \notin applied /\ applied' = applied
    BY <1>1 DEF SeePlan, PlansInv, Opening
  <2> QED BY <1>1, <2>1 DEF SeePlan, TypeOK
<1>2. CASE LogEffect
  BY <1>2 DEF LogEffect
<1>3. CASE ~SeePlan /\ ~LogEffect
  BY <1>3
  DEF Next, vars, StartRound, NoPlanHere, ApplyPlan, RejectPlan, MakeViews, Expose,
      Request, Answer, ProviderFails, LogResponse, LogTurn, CloseRound, Finish,
      WriteRecord, WriteSchedule, LogFails, RecordFails, ScheduleFails, RecordFailure
<1> QED BY <1>1, <1>2, <1>3

\* Turns are only added.
LEMMA TurnsGrow ==
  ASSUME TypeOK, StageInv, PlansInv, [Next]_vars
  PROVE  /\ turns' = turns \/ LogResponse
         /\ \A i \in DOMAIN turns : i \in DOMAIN turns' /\ turns'[i] = turns[i]
         /\ AllIds(turns) \subseteq AllIds(turns)'
<1>1. turns' = turns \/ LogResponse
  BY DEF Next, vars, StartRound, NoPlanHere, SeePlan, ApplyPlan, RejectPlan, LogEffect,
         MakeViews, Expose, Request, Answer, ProviderFails, LogTurn, CloseRound, Finish,
         WriteRecord, WriteSchedule, LogFails, RecordFails, ScheduleFails, RecordFailure
<1>2. \A i \in DOMAIN turns : i \in DOMAIN turns' /\ turns'[i] = turns[i]
  <2>1. CASE turns' = turns
    BY <2>1
  <2>2. CASE LogResponse /\ turns' # turns
    <3>1. turns \in Seq(Turn) /\ (asked + 1 \in Agents => Agent \in Agents)
      BY AgentInAgents DEF TypeOK
    <3>2. Agent \in Agents
      BY <2>2, <3>1 DEF LogResponse, StageInv, Asking
    <3>3. CASE turns' = Append(turns, NewTurn(Agent))
      <4>1. NewTurn(Agent) \in Turn
        BY <3>2, TurnTypes
      <4> QED BY <3>1, <3>3, <4>1
    <3>4. CASE turns' = turns \o [i \in Agents |-> NewTurn(TurnOrder[i])]
      <4>1. [i \in Agents |-> NewTurn(TurnOrder[i])] \in Seq(Turn)
        BY RoundTurnsTypes
      <4> QED BY <3>1, <3>4, <4>1
    <3> QED BY <2>2, <3>3, <3>4 DEF LogResponse
  <2> QED BY <1>1, <2>1, <2>2
<1>3. AllIds(turns) \subseteq AllIds(turns)'
  BY <1>2 DEF AllIds
<1> QED BY <1>1, <1>2, <1>3

\* Rounds come one after the other, as they are closed.
LEMMA RoundGrows ==
  ASSUME TypeOK, [Next]_vars
  PROVE  /\ round \in Nat /\ round' \in {round, round + 1}
         /\ round' # round => CloseRound
<1>1. round \in Nat
  BY TurnTypeFacts
<1> QED BY <1>1
    DEF Next, vars, StartRound, NoPlanHere, SeePlan, ApplyPlan, RejectPlan, LogEffect,
        MakeViews, Expose, Request, Answer, ProviderFails, LogResponse, LogTurn, CloseRound,
        Finish, WriteRecord, WriteSchedule, LogFails, RecordFails, ScheduleFails, RecordFailure

\* A plan was applicable when it was applied, and turns are only added.
LEMMA PeersNamedStep ==
  ASSUME TypeOK, StageInv, PlansInv, PeersNamed, [Next]_vars
  PROVE  PeersNamed'
<1> SUFFICES ASSUME NEW r \in applied', Overrides(plans'[r])
             PROVE  /\ plans'[r].peers \subseteq AllIds(turns)'
                    /\ \A i \in DOMAIN plans'[r].targets :
                         plans'[r].evidence \subseteq Granted(plans'[r].targets[i], r)
  BY DEF PeersNamed, Overrides, Granted, Available
<1>1. CASE r \in applied
  BY <1>1, AppliedStay, TurnsGrow DEF PeersNamed
<1>2. CASE LogEffect /\ r = round /\ plans' = plans
  <2>1. Applicable(plans[r])
    BY <1>2 DEF LogEffect, PlansInv, ThePlan
  <2>2. plans[r].peers \subseteq AllIds(turns) /\ plans' = plans
    BY <1>2, <2>1 DEF Applicable
  <2> QED BY <1>2, <2>1, <2>2, TurnsGrow DEF Applicable
<1> QED BY <1>1, <1>2, AppliedStay

\* What was named in the rounds before stays named.
LEMMA EarlierGrows ==
  ASSUME TypeOK, StageInv, PlansInv, [Next]_vars
  PROVE  \A r : Earlier(r) \subseteq Earlier(r)'
BY TurnsGrow DEF Earlier

\* Views are made at the start of their round.
LEMMA HistoryStep ==
  ASSUME TypeOK, StageInv, PlansInv, TurnsInv, PeersNamed, HistoryNamed, [Next]_vars
  PROVE  HistoryNamed'
<1> SUFFICES ASSUME at' \in Asking \cup {"turn"}, NEW a \in Agents
             PROVE  views'[a].history \subseteq {id \in AllIds(turns') : id[1] < round'}
  BY DEF HistoryNamed, Earlier
<1>1. CASE MakeViews
  <2>1. /\ at = "views" /\ round' = round /\ turns' = turns /\ views'[a] = ViewOf(a)
    BY <1>1 DEF MakeViews
  <2>2. \A id \in AllIds(turns) : id[1] < round
    BY <2>1 DEF TurnsInv, Opening, AllIds, Id
  <2>3. ViewOf(a).history \subseteq AllIds(turns)
    BY DEF ViewOf, OwnIds, Snapshot, PeersFor, EarlierPeers
  <2> QED BY <2>1, <2>2, <2>3 DEF Earlier
<1>2. CASE ~MakeViews
  <2>1. at \in Asking \cup {"turn"} /\ UNCHANGED <<round, views>>
    BY <1>2
    DEF Next, vars, StartRound, NoPlanHere, SeePlan, ApplyPlan, RejectPlan, LogEffect,
        Expose, Request, Answer, ProviderFails, Called, LogResponse, LogTurn, CloseRound,
        Finish, WriteRecord, WriteSchedule, LogFails, RecordFails, ScheduleFails, Escape,
        RecordFailure, Asking
  <2>2. views'[a].history \subseteq Earlier(round)
    BY <2>1 DEF HistoryNamed
  <2>3. AllIds(turns) \subseteq AllIds(turns')
    BY TurnsGrow
  <2> QED BY <2>1, <2>2, <2>3 DEF Earlier
<1> QED BY <1>1, <1>2

\* The order of a round that has begun does not change.
LEMMA OrderInFixed ==
  ASSUME TypeOK, PlansInv, [Next]_vars
  PROVE  /\ \A r \in 0..round : OrderIn(r)' = OrderIn(r)
         /\ TurnOrder = OrderIn(round)
<1>1. \A r \in 0..round : PlanBefore(r)' = PlanBefore(r)
  BY PlanFixed
<1> QED BY <1>1 DEF OrderIn, TurnOrder, ActivePlan, PlanBefore

\* A turn is added after those of its round that come before it in the order.
LEMMA TurnsOrderedStep ==
  ASSUME TypeOK, StageInv, PlansInv, TurnsInv, TurnsOrdered, [Next]_vars
  PROVE  TurnsOrdered'
<1> SUFFICES ASSUME NEW i \in DOMAIN turns', NEW j \in DOMAIN turns', i < j
             PROVE  (/\ turns[i].round <= turns[j].round
                     /\ turns[i].round = turns[j].round =>
                          Precedes(OrderIn(turns[i].round), turns[i].speaker, turns[j].speaker))'
  BY DEF TurnsOrdered
<1>1. \A k \in DOMAIN turns : turns[k].round \in 0..round
  BY TurnTypeFacts DEF TurnsInv
<1>2. round \in Nat /\ round \in 0..round /\ TurnOrder = OrderIn(round) /\ turns \in Seq(Turn)
  BY TurnTypeFacts, OrderInFixed DEF TypeOK
<1>0. PICK r, one, other :
        r = turns'[i].round /\ one = turns'[i].speaker /\ other = turns'[j].speaker
  OBVIOUS
<1>3. /\ r \in 0..round /\ r <= turns'[j].round
      /\ r = turns'[j].round => Precedes(OrderIn(r), one, other)
  <2>1. CASE i \in DOMAIN turns /\ j \in DOMAIN turns
    <3>1. turns'[i] = turns[i] /\ turns'[j] = turns[j]
      BY <2>1, TurnsGrow
    <3> QED BY <1>0, <1>1, <2>1, <3>1 DEF TurnsOrdered
  <2>2. CASE LogResponse /\ kind = "real" /\ j \notin DOMAIN turns
    <3>1. turns' = Append(turns, NewTurn(Agent)) /\ at = "response"
      BY <2>2 DEF LogResponse
    <3>2. asked + 1 \in Agents /\ Agent \in Agents /\ asked \in Nat
      BY <2>2, AgentInAgents DEF LogResponse, StageInv, Asking, TypeOK, Agents
    <3>3. j = Len(turns) + 1 /\ turns'[j] = NewTurn(Agent) /\ i \in DOMAIN turns
          /\ turns'[i] = turns[i]
      BY <1>2, <2>2, <3>1, <3>2, TurnTypes
    <3>4. turns'[j].round = round /\ other = TurnOrder[asked + 1]
      BY <1>0, <3>3 DEF NewTurn, Agent
    <3>5. OnlySaid(asked)
      BY <2>2, <3>1 DEF TurnsInv, Asking
    <3>6. r = round => Precedes(TurnOrder, one, other)
      <4> SUFFICES ASSUME r = round, NEW p \in Agents, NEW q \in Agents,
                          TurnOrder[p] = one, TurnOrder[q] = other
                   PROVE  p < q
        BY DEF Precedes
      <4>1. PICK k \in 1..asked : one = TurnOrder[k]
        BY <1>0, <3>3, <3>5 DEF OnlySaid
      <4>2. k \in Agents /\ k < asked + 1
        BY <3>2, ExposureAssumption DEF Agents
      <4>3. p = k /\ q = asked + 1
        BY <3>2, <3>4, <4>1, <4>2, OrderPermutes
      <4> QED BY <4>2, <4>3
    <3> QED BY <1>0, <1>1, <1>2, <3>3, <3>4, <3>6
  <2>3. CASE LogResponse /\ kind # "real" /\ turns' # turns /\ j \notin DOMAIN turns
    <3> DEFINE new == [n \in Agents |-> NewTurn(TurnOrder[n])]
    <3>1. turns' = turns \o new /\ at = "response"
      BY <2>3 DEF LogResponse
    <3>2. new \in Seq(Turn) /\ DOMAIN new = Agents
      BY RoundTurnsTypes
    <3>3. \A k \in Agents : new[k].round = round /\ new[k].speaker = TurnOrder[k]
      BY DEF NewTurn
    <3>4. \A k \in DOMAIN turns : turns[k].round < round
      BY <2>3, <3>1 DEF TurnsInv, Asking
    <3>5. \A k \in DOMAIN turns' :
            \/ k \in DOMAIN turns /\ turns'[k] = turns[k]
            \/ /\ k \notin DOMAIN turns /\ k - Len(turns) \in Agents
               /\ turns'[k] = new[k - Len(turns)]
      BY <1>2, <3>1, <3>2
    <3> HIDE DEF new
    <3>6. j - Len(turns) \in Agents /\ turns'[j].round = round
          /\ other = TurnOrder[j - Len(turns)]
      BY <1>0, <2>3, <3>3, <3>5
    <3>7. CASE i \in DOMAIN turns
      BY <1>0, <1>1, <1>2, <3>4, <3>5, <3>6, <3>7
    <3>8. CASE i \notin DOMAIN turns
      <4>1. /\ i - Len(turns) \in Agents /\ r = round
            /\ one = TurnOrder[i - Len(turns)]
        BY <1>0, <3>3, <3>5, <3>8
      <4>2. i - Len(turns) < j - Len(turns)
        BY <1>2, <3>1, <3>2
      <4>3. Precedes(TurnOrder, one, other)
        BY <3>6, <4>1, <4>2, OrderPermutes DEF Precedes
      <4> QED BY <1>2, <3>6, <4>1, <4>3
    <3> QED BY <3>7, <3>8
  <2>4. i \notin DOMAIN turns => j \notin DOMAIN turns
    <3>1. DOMAIN turns = 1..Len(turns) /\ DOMAIN turns' = 1..Len(turns') /\ Len(turns) \in Nat
      <4>1. turns' \in Seq(Turn)
        BY TypeStep DEF TypeOK
      <4> QED BY <1>2, <4>1
    <3> QED BY <3>1
  <2> QED BY <2>1, <2>2, <2>3, <2>4, TurnsGrow
<1>4. OrderIn(r)' = OrderIn(r)
  BY <1>3, OrderInFixed
<1> QED BY <1>0, <1>3, <1>4 DEF OrderIn, PlanBefore

-----------------------------------------------------------------------------
(* What the steps write. *)

\* An event of this round was written, under the next number.
Wrote(e, type, who) ==
  /\ e \in LogEvent /\ log' = Append(log, e) /\ sequence' = sequence + 1
  /\ e.type = type /\ e.round = round /\ e.who = who /\ e.sequence = sequence + 1

\* What each way of writing writes.
LEMMA WriteIs ==
  ASSUME TypeOK, NEW type \in LogTypes
  PROVE  /\ Write(type, 0) => \E e : Wrote(e, type, 0)
         /\ \A agent \in Agents, ok \in BOOLEAN :
              WriteView(type, agent, views[agent], ok) =>
                \E e : Wrote(e, type, agent) /\ e.view = views[agent]
         /\ \A plan \in Plans :
              WritePlan(type, plan) => \E e : Wrote(e, type, 0) /\ e.plan = plan
<1>1. NoView \in View /\ 0 \in Nat
  BY DEF NoView, View
<1>2. round \in Rounds /\ sequence + 1 \in Nat /\ NoPlan \in Plans \cup {NoPlan}
  BY DEF TypeOK
<1>3. ASSUME Write(type, 0) PROVE \E e : Wrote(e, type, 0)
  <2> DEFINE e == NewEvent(type, round, 0, sequence + 1)
  <2>1. e \in LogEvent
    BY <1>1, <1>2 DEF NewEvent, LogEvent
  <2>2. e.type = type /\ e.round = round /\ e.who = 0 /\ e.sequence = sequence + 1
    BY DEF NewEvent
  <2>3. log' = Append(log, e) /\ sequence' = sequence + 1
    BY <1>3 DEF Write, WriteEvent
  <2> HIDE DEF e
  <2> QED BY <2>1, <2>2, <2>3 DEF Wrote
<1>4. ASSUME NEW agent \in Agents, NEW ok \in BOOLEAN,
             WriteView(type, agent, views[agent], ok)
      PROVE  \E e : Wrote(e, type, agent) /\ e.view = views[agent]
  <2> DEFINE e == [NewEvent(type, round, agent, sequence + 1)
                     EXCEPT !.view = views[agent], !.ok = ok]
  <2>1. views[agent] \in View /\ agent \in Nat
    BY ExposureAssumption DEF TypeOK, Agents
  <2>2. e \in LogEvent
    BY <1>1, <1>2, <2>1 DEF NewEvent, LogEvent
  <2>3. /\ e.type = type /\ e.round = round /\ e.who = agent /\ e.sequence = sequence + 1
        /\ e.view = views[agent]
    BY DEF NewEvent
  <2>4. log' = Append(log, e) /\ sequence' = sequence + 1
    BY <1>4 DEF WriteView, WriteEvent
  <2> HIDE DEF e
  <2> QED BY <2>2, <2>3, <2>4 DEF Wrote
<1>5. ASSUME NEW plan \in Plans, WritePlan(type, plan)
      PROVE  \E e : Wrote(e, type, 0) /\ e.plan = plan
  <2> DEFINE e == [NewEvent(type, round, 0, sequence + 1) EXCEPT !.plan = plan]
  <2>1. e \in LogEvent
    BY <1>1, <1>2 DEF NewEvent, LogEvent
  <2>2. /\ e.type = type /\ e.round = round /\ e.who = 0 /\ e.sequence = sequence + 1
        /\ e.plan = plan
    BY DEF NewEvent
  <2>3. log' = Append(log, e) /\ sequence' = sequence + 1
    BY <1>5 DEF WritePlan, WriteEvent
  <2> HIDE DEF e
  <2> QED BY <2>1, <2>2, <2>3 DEF Wrote
<1> QED BY <1>3, <1>4, <1>5

\* Which event each step writes.
LEMMA StepWrites ==
  ASSUME TypeOK, StageInv, PlansInv
  PROVE  /\ StartRound => \E e : Wrote(e, "round_started", 0)
         /\ CloseRound => \E e : Wrote(e, "round_completed", 0)
         /\ Finish => \E e : Wrote(e, "run_completed", 0)
         /\ RecordFailure => \E e : Wrote(e, "run_failed", 0)
         /\ SeePlan => \E e : Wrote(e, "plan_seen", 0) /\ e.plan = plans'[round]
         /\ ApplyPlan => \E e : Wrote(e, "plan_applied", 0) /\ e.plan = ThePlan
         /\ RejectPlan => \E e : Wrote(e, "plan_rejected", 0) /\ e.plan = ThePlan
         /\ LogEffect /\ ThePlan.action # "no_op" =>
              \E e : e.type \in Effects /\ Wrote(e, e.type, 0) /\ e.plan = ThePlan
         /\ at \in Asking \cup {"turn"} => Agent \in Agents
         /\ Expose => \E e : Wrote(e, "exposure_created", Agent) /\ e.view = views[Agent]
         /\ Request => \E e : Wrote(e, "llm_request", Agent) /\ e.view = views[Agent]
         /\ LogResponse => \E e : Wrote(e, "llm_response", Agent) /\ e.view = views[Agent]
         /\ LogTurn => \E e : Wrote(e, "turn_completed", Agent) /\ e.view = views[Agent]
<1> USE DEF LogTypes
<1>1. /\ StartRound => \E e : Wrote(e, "round_started", 0)
      /\ CloseRound => \E e : Wrote(e, "round_completed", 0)
      /\ Finish => \E e : Wrote(e, "run_completed", 0)
      /\ RecordFailure => \E e : Wrote(e, "run_failed", 0)
  BY WriteIs DEF StartRound, CloseRound, Finish, RecordFailure
<1>2. SeePlan => \E e : Wrote(e, "plan_seen", 0) /\ e.plan = plans'[round]
  <2> SUFFICES ASSUME SeePlan
               PROVE  \E e : Wrote(e, "plan_seen", 0) /\ e.plan = plans'[round]
    OBVIOUS
  <2>1. PICK plan \in Plans :
          WritePlan("plan_seen", plan) /\ plans' = [plans EXCEPT ![round] = plan]
    BY DEF SeePlan
  <2>2. plans'[round] = plan
    BY <2>1 DEF TypeOK
  <2> QED BY <2>1, <2>2, WriteIs
<1>3. /\ ApplyPlan => \E e : Wrote(e, "plan_applied", 0) /\ e.plan = ThePlan
      /\ RejectPlan => \E e : Wrote(e, "plan_rejected", 0) /\ e.plan = ThePlan
  BY WriteIs DEF ApplyPlan, RejectPlan, PlansInv
<1>4. ASSUME LogEffect, ThePlan.action # "no_op"
      PROVE  \E e : e.type \in Effects /\ Wrote(e, e.type, 0) /\ e.plan = ThePlan
  <2>1. ThePlan \in Plans
    BY <1>4 DEF LogEffect, PlansInv
  <2>2. EffectOf(ThePlan.action) \in Effects
    BY <1>4, <2>1, PlanTypes DEF EffectOf, Actions, Effects
  <2>3. WritePlan(EffectOf(ThePlan.action), ThePlan)
    BY <1>4 DEF LogEffect
  <2>4. PICK e : Wrote(e, EffectOf(ThePlan.action), 0) /\ e.plan = ThePlan
    BY <2>1, <2>2, <2>3, WriteIs
  <2> QED BY <2>2, <2>4 DEF Wrote
<1>5. at \in Asking \cup {"turn"} => Agent \in Agents
  BY AgentInAgents DEF StageInv
<1>6. /\ Expose => \E e : Wrote(e, "exposure_created", Agent) /\ e.view = views[Agent]
      /\ Request => \E e : Wrote(e, "llm_request", Agent) /\ e.view = views[Agent]
      /\ LogResponse => \E e : Wrote(e, "llm_response", Agent) /\ e.view = views[Agent]
      /\ LogTurn => \E e : Wrote(e, "turn_completed", Agent) /\ e.view = views[Agent]
  BY <1>5, WriteIs DEF Expose, Request, LogResponse, LogTurn, Asking
<1> QED BY <1>1, <1>2, <1>3, <1>4, <1>5, <1>6

\* The steps that write nothing, and the one whose event is lost.
LEMMA StepSilent ==
  /\ NoPlanHere \/ MakeViews \/ Answer \/ ProviderFails \/ WriteRecord \/ WriteSchedule
       \/ RecordFails \/ ScheduleFails \/ UNCHANGED vars => UNCHANGED <<log, sequence>>
  /\ LogEffect /\ ThePlan.action = "no_op" => UNCHANGED <<log, sequence>>
  /\ LogFails => log' = log /\ sequence' = sequence + 1
BY DEF NoPlanHere, MakeViews, Answer, ProviderFails, WriteRecord, WriteSchedule, RecordFails,
       ScheduleFails, vars, LogEffect, LogFails

\* An event adds what it names to what those of its type name.
LEMMA WroteNames ==
  ASSUME TypeOK, NEW e, NEW type, NEW who, Wrote(e, type, who)
  PROVE  /\ PairsOf(log', type) = PairsOf(log, type) \cup {<<round, who>>}
         /\ RoundsOf(log', type) = RoundsOf(log, type) \cup {round}
         /\ \A other : other # type =>
              /\ PairsOf(log', other) = PairsOf(log, other)
              /\ RoundsOf(log', other) = RoundsOf(log, other)
BY NamesAppended DEF Wrote, TypeOK

\* Where an event that was written is.
LEMMA WrotePlaces ==
  ASSUME TypeOK, NEW e, NEW type, NEW who, Wrote(e, type, who), NEW types
  PROVE  /\ type \in types => Of(log', types) = Of(log, types) \cup {Len(log) + 1}
         /\ type \notin types => Of(log', types) = Of(log, types)
         /\ \A k \in Of(log, types) : log'[k] = log[k] /\ k < Len(log) + 1
         /\ log'[Len(log) + 1] = e
BY OfAppended, Appended DEF Wrote, TypeOK

-----------------------------------------------------------------------------
(* What an event shows. *)

\* An event that shows something is one that was there, or the last one, of
\* the agent that is asked.
LEMMA SightsOfStep ==
  ASSUME TypeOK, StageInv, PlansInv, [Next]_vars, NEW k \in Of(log', Sights)
  PROVE  \/ k \in Of(log, Sights) /\ log'[k] = log[k]
         \/ /\ Expose \/ Request \/ LogResponse \/ LogTurn
            /\ at \in Asking \cup {"turn"} /\ Agent \in Agents
            /\ log'[k].round = round /\ log'[k].who = Agent /\ log'[k].view = views[Agent]
<1> USE DEF Sights
<1>1. ASSUME NEW e, NEW type, Wrote(e, type, 0), type \notin Sights
      PROVE  k \in Of(log, Sights) /\ log'[k] = log[k]
  BY <1>1, WrotePlaces
<1>2. CASE StartRound \/ CloseRound \/ Finish \/ RecordFailure
  BY <1>1, <1>2, StepWrites
<1>3. CASE SeePlan \/ ApplyPlan \/ RejectPlan
  BY <1>1, <1>3, StepWrites
<1>4. CASE LogEffect
  <2>1. CASE ThePlan.action = "no_op"
    BY <1>4, <2>1, StepSilent
  <2>2. CASE ThePlan.action # "no_op"
    <3>1. PICK e : e.type \in Effects /\ Wrote(e, e.type, 0)
      BY <1>4, <2>2, StepWrites
    <3>2. e.type \notin Sights
      BY <3>1 DEF Effects
    <3> QED BY <1>1, <3>1, <3>2
  <2> QED BY <2>1, <2>2
<1>5. CASE Expose \/ Request \/ LogResponse \/ LogTurn
  <2>1. at \in Asking \cup {"turn"} /\ Agent \in Agents
    BY <1>5, StepWrites DEF Expose, Request, LogResponse, LogTurn, Asking
  <2>2. PICK type \in Sights : \E e : Wrote(e, type, Agent) /\ e.view = views[Agent]
    BY <1>5, StepWrites
  <2>0. PICK e : Wrote(e, type, Agent) /\ e.view = views[Agent]
    BY <2>2
  <2>3. \/ k \in Of(log, Sights) /\ log'[k] = log[k]
        \/ k = Len(log) + 1 /\ log'[k] = e
    BY <2>0, WrotePlaces
  <2>4. e.round = round /\ e.who = Agent
    BY <2>0 DEF Wrote
  <2> QED BY <1>5, <2>0, <2>1, <2>3, <2>4
<1>6. CASE NoPlanHere \/ MakeViews \/ Answer \/ ProviderFails \/ WriteRecord \/ WriteSchedule
           \/ RecordFails \/ ScheduleFails \/ LogFails \/ UNCHANGED vars
  BY <1>6, StepSilent
<1> QED BY <1>2, <1>3, <1>4, <1>5, <1>6 DEF Next

\* What is shown fits when it is written, and fits from then on.
LEMMA SightsFitStep ==
  ASSUME TypeOK, StageInv, PlansInv, ViewsInv, HistoryNamed, SightsFit, [Next]_vars
  PROVE  SightsFit'
<1> SUFFICES ASSUME NEW k \in Of(log', Sights)
             PROVE  (/\ log[k].round <= round /\ log[k].who \in Agents
                     /\ Fits(log[k].who, log[k].round, log[k].view)
                     /\ log[k].view.history \subseteq Earlier(log[k].round))'
  BY DEF SightsFit
<1>1. PICK r, agent, view : r = log'[k].round /\ agent = log'[k].who /\ view = log'[k].view
  OBVIOUS
<1>2. r \in 0..round /\ agent \in Agents /\ Fits(agent, r, view)
      /\ view.history \subseteq Earlier(r)
  <2>1. CASE k \in Of(log, Sights) /\ log'[k] = log[k]
    <3>1. log[k].round \in Nat
      <4>1. log[k] \in LogEvent
        BY <2>1 DEF Of, TypeOK
      <4> QED BY <4>1, RoundAssumption DEF LogEvent, Rounds
    <3> QED BY <1>1, <2>1, <3>1, RoundGrows DEF SightsFit
  <2>2. CASE /\ at \in Asking \cup {"turn"} /\ Agent \in Agents
             /\ log'[k].round = round /\ log'[k].who = Agent /\ log'[k].view = views[Agent]
    BY <1>1, <2>2, RoundGrows DEF ViewsInv, HistoryNamed
  <2> QED BY <2>1, <2>2, SightsOfStep
<1>3. r <= round'
  BY <1>2, RoundGrows
<1>4. Fits(agent, r, view)'
  <2>1. PlanBefore(r)' = PlanBefore(r) /\ protocol' = protocol
    BY <1>2, PlanFixed, ProtocolFixed
  <2> QED BY <1>2, <2>1
      DEF Fits, Targeted, Overrides, SaidBefore, EvidenceFor, Granted, Available, SameView
<1>5. view.history \subseteq Earlier(r)'
  BY <1>2, EarlierGrows
<1>6. agent \in Agents
  BY <1>2
<1> QED BY <1>1, <1>3, <1>4, <1>5, <1>6
    DEF Fits, Targeted, Overrides, SaidBefore, SameView, Earlier, PlanBefore

-----------------------------------------------------------------------------
(* A log that stays tidy. *)

\* A step of a run that nothing has gone wrong with in writing, and that leaves
\* it so.
Undisturbing ==
  /\ RunInv /\ ShownInv /\ TidyLog /\ at \in Running \cup {"failing"}
  /\ Undisturbed /\ [Next]_vars /\ Undisturbed'

\* What is known in such a step.
LEMMA UndisturbingFacts ==
  ASSUME Undisturbing
  PROVE  /\ TypeOK /\ StageInv /\ PlansInv /\ TurnsInv /\ ViewsInv
         /\ PeersNamed /\ HistoryNamed /\ TurnsOrdered /\ SightsFit
         /\ Numbered(log) /\ SingleIn(log) /\ AskedFirst(log)
         /\ SightsAgree /\ PlanLog /\ RoundLog /\ AgentLog
         /\ sequence = Len(log) /\ [Next]_vars
         /\ round \in Nat /\ asked \in Nat /\ AgentCount \in Nat
BY ExposureAssumption, TurnTypeFacts
DEF Undisturbing, RunInv, ShownInv, TidyLog, Undisturbed, TypeOK

\* It is none that loses an event, ends the run or writes its record.
LEMMA UndisturbingSteps ==
  ASSUME Undisturbing
  PROVE  \/ StartRound \/ NoPlanHere \/ SeePlan \/ ApplyPlan \/ RejectPlan \/ LogEffect
         \/ MakeViews \/ Expose \/ Request \/ Answer \/ ProviderFails \/ LogResponse
         \/ LogTurn \/ CloseRound \/ UNCHANGED vars
<1> USE UndisturbingFacts
<1>1. ~LogFails
  <2> SUFFICES ASSUME LogFails PROVE FALSE
    OBVIOUS
  <2>1. log' = log /\ sequence' = sequence + 1
    BY StepSilent
  <2>2. Len(log) \in Nat
    BY DEF TypeOK
  <2> QED BY <2>1, <2>2 DEF Undisturbing, Undisturbed
<1>2. ~Finish /\ ~RecordFailure
  <2> SUFFICES ASSUME NEW type \in Terminal, NEW e, Wrote(e, type, 0) PROVE FALSE
    BY StepWrites DEF Terminal
  <2>1. Len(log) + 1 \in Of(log', Terminal)
    BY WrotePlaces
  <2> QED BY <2>1 DEF Undisturbing, Undisturbed, Of
<1>3. ~WriteRecord /\ ~WriteSchedule /\ ~RecordFails /\ ~ScheduleFails
  BY DEF Undisturbing, Running, Opening, Asking, WriteRecord, WriteSchedule, RecordFails,
         ScheduleFails
<1> QED BY <1>1, <1>2, <1>3 DEF Next

\* A round is started and closed once.
LEMMA RoundLogStep == Undisturbing => RoundLog'
<1> SUFFICES ASSUME Undisturbing PROVE RoundLog'
  OBVIOUS
<1> USE UndisturbingFacts DEF Opening
<1>1. CASE StartRound
  <2>1. PICK e : Wrote(e, "round_started", 0)
    BY <1>1, StepWrites
  <2>2. /\ RoundsOf(log', "round_started") = RoundsOf(log, "round_started") \cup {round}
        /\ RoundsOf(log', "round_completed") = RoundsOf(log, "round_completed")
    BY <2>1, WroteNames
  <2>3. at = "round" /\ at' \in {"plan", "views"} /\ UNCHANGED <<round, asked>>
    BY <1>1 DEF StartRound
  <2>4. (0..round - 1) \cup {round} = 0..round
    OBVIOUS
  <2> QED BY <2>2, <2>3, <2>4 DEF RoundLog
<1>2. CASE CloseRound
  <2>1. PICK e : Wrote(e, "round_completed", 0)
    BY <1>2, StepWrites
  <2>2. /\ RoundsOf(log', "round_completed") = RoundsOf(log, "round_completed") \cup {round}
        /\ RoundsOf(log', "round_started") = RoundsOf(log, "round_started")
    BY <2>1, WroteNames
  <2>3. /\ at = "close" /\ asked' = asked
        /\ \/ at' = "finish" /\ round' = round
           \/ at' = "round" /\ round' = round + 1
    BY <1>2 DEF CloseRound
  <2>4. (0..round - 1) \cup {round} = 0..round /\ round + 1 - 1 = round
    OBVIOUS
  <2>5. /\ RoundsOf(log, "round_started") = 0..round
        /\ RoundsOf(log, "round_completed") = 0..round - 1 /\ asked = 0
    BY <2>3 DEF RoundLog
  <2>6. /\ RoundsOf(log', "round_completed") = 0..round
        /\ RoundsOf(log', "round_started") = 0..round
    BY <2>2, <2>4, <2>5
  <2>7. CASE at' = "finish" /\ round' = round
    BY <2>3, <2>5, <2>6, <2>7 DEF RoundLog
  <2>8. CASE at' = "round" /\ round' = round + 1
    <3>1. 0..round' - 1 = 0..round
      BY <2>8
    <3> QED BY <2>3, <2>5, <2>6, <2>8, <3>1 DEF RoundLog
  <2> QED BY <2>3, <2>7, <2>8
<1>3. CASE ~StartRound /\ ~CloseRound
  <2>1. /\ RoundsOf(log', "round_started") = RoundsOf(log, "round_started")
        /\ RoundsOf(log', "round_completed") = RoundsOf(log, "round_completed")
    <3>1. ASSUME NEW e, NEW type, NEW who, Wrote(e, type, who),
                 type \notin {"round_started", "round_completed"}
          PROVE  /\ RoundsOf(log', "round_started") = RoundsOf(log, "round_started")
                 /\ RoundsOf(log', "round_completed") = RoundsOf(log, "round_completed")
      BY <3>1, WroteNames
    <3>2. CASE SeePlan \/ ApplyPlan \/ RejectPlan
      BY <3>1, <3>2, StepWrites
    <3>3. CASE LogEffect
      BY <3>1, <3>3, StepWrites, StepSilent DEF Effects
    <3>4. CASE Expose \/ Request \/ LogResponse \/ LogTurn
      BY <3>1, <3>4, StepWrites
    <3>5. CASE NoPlanHere \/ MakeViews \/ Answer \/ ProviderFails \/ UNCHANGED vars
      BY <3>5, StepSilent
    <3> QED BY <1>3, <3>2, <3>3, <3>4, <3>5, UndisturbingSteps
  <2>2. /\ round' = round /\ (at' = "round" <=> at = "round") /\ (at' = "finish" <=> at = "finish")
        /\ at' \in Opening \cup {"close", "finish"} => asked' = 0
    BY <1>3, UndisturbingSteps
    DEF NoPlanHere, SeePlan, ApplyPlan, RejectPlan, LogEffect, MakeViews, Expose, Request,
        Answer, ProviderFails, Called, LogResponse, LogTurn, vars, RoundLog
  <2> QED BY <2>1, <2>2 DEF RoundLog
<1> QED BY <1>1, <1>2, <1>3

\* An event of a plan is one that was there, or the last one, of the plan of
\* this round.
LEMMA PlanEventsOfStep ==
  ASSUME Undisturbing, NEW k \in Of(log', PlanEvents)
  PROVE  \/ k \in Of(log, PlanEvents) /\ log'[k] = log[k]
         \/ /\ SeePlan \/ ApplyPlan \/ RejectPlan \/ LogEffect
            /\ log'[k].round = round /\ log'[k].plan = plans'[round]
<1> USE UndisturbingFacts DEF PlanEvents
<1>1. ASSUME NEW e, NEW type, NEW who, Wrote(e, type, who), type \notin PlanEvents
      PROVE  k \in Of(log, PlanEvents) /\ log'[k] = log[k]
  BY <1>1, WrotePlaces
<1>2. ASSUME NEW e, NEW type, Wrote(e, type, 0), e.plan = plans'[round]
      PROVE  \/ k \in Of(log, PlanEvents) /\ log'[k] = log[k]
             \/ log'[k].round = round /\ log'[k].plan = plans'[round]
  <2>1. (log'[k] = log[k] /\ k \in Of(log, PlanEvents)) \/ log'[k] = e
    BY <1>2, WrotePlaces
  <2> QED BY <1>2, <2>1 DEF Wrote
<1>3. CASE SeePlan
  BY <1>2, <1>3, StepWrites
<1>4. CASE ApplyPlan \/ RejectPlan
  <2>1. ThePlan = plans'[round]
    BY <1>4 DEF ApplyPlan, RejectPlan, ThePlan
  <2> QED BY <1>2, <1>4, <2>1, StepWrites
<1>5. CASE LogEffect
  <2>1. ThePlan = plans'[round]
    BY <1>5 DEF LogEffect, ThePlan
  <2> QED BY <1>2, <1>5, <2>1, StepWrites, StepSilent
<1>6. CASE StartRound \/ CloseRound
  BY <1>1, <1>6, StepWrites, UndisturbingFacts DEF Effects
<1>7. CASE Expose \/ Request \/ LogResponse \/ LogTurn
  BY <1>1, <1>7, StepWrites, UndisturbingFacts DEF Effects
<1>8. CASE NoPlanHere \/ MakeViews \/ Answer \/ ProviderFails \/ UNCHANGED vars
  BY <1>8, StepSilent
<1> QED BY <1>3, <1>4, <1>5, <1>6, <1>7, <1>8, UndisturbingSteps

\* The events of a plan are asked for in order.
LEMMA PlanEventsStep == Undisturbing => PlanEventsValid(log')
<1> SUFFICES ASSUME Undisturbing PROVE PlanEventsValid(log')
  OBVIOUS
<1> USE UndisturbingFacts
<1>1. PlanEventsValid(log)
  BY DEF PlanLog
<1>2. ASSUME NEW e, NEW type, NEW who, Wrote(e, type, who), FitsPlans(log, e)
      PROVE  PlanEventsValid(log')
  <2>1. log \in Seq(LogEvent)
    BY DEF TypeOK
  <2> QED BY <1>1, <1>2, <2>1, PlanEventsStay DEF Wrote
<1>3. ASSUME NEW e, NEW type, NEW who, Wrote(e, type, who), type \notin PlanEvents
      PROVE  PlanEventsValid(log')
  <2>1. FitsPlans(log, e)
    BY <1>3 DEF Wrote, FitsPlans, PlanEvents
  <2> QED BY <1>2, <1>3, <2>1
<1>4. \A k \in Of(log, PlanEvents) : log[k].plan = plans[log[k].round]
  BY DEF PlanLog
<1>5. \A type \in PlanEvents : \A k \in Of(log, {type}) : k \in Of(log, PlanEvents)
  BY DEF Of
<1>6. CASE SeePlan
  <2>1. PICK e : Wrote(e, "plan_seen", 0)
    BY <1>6, StepWrites
  <2>2. \A k \in Of(log, {"plan_seen"}) : log[k].round < round
    BY <1>5, <1>6 DEF SeePlan, PlanLog, PlanEvents
  <2>3. round \notin RoundsOf(log, "plan_seen")
    BY <2>2 DEF RoundsOf
  <2>4. FitsPlans(log, e)
    BY <2>1, <2>3 DEF Wrote, FitsPlans, Effects
  <2> QED BY <1>2, <2>1, <2>4
<1>7. CASE ApplyPlan \/ RejectPlan
  <2>1. PICK type \in {"plan_applied", "plan_rejected"} :
          \E e : Wrote(e, type, 0) /\ e.plan = plans[round]
    BY <1>7, StepWrites DEF ThePlan
  <2>2. PICK e : Wrote(e, type, 0) /\ e.plan = plans[round]
    BY <2>1
  <2>3. /\ round \in RoundsOf(log, "plan_seen")
        /\ round \notin RoundsOf(log, "plan_applied") \cup RoundsOf(log, "plan_rejected")
    BY <1>7 DEF ApplyPlan, RejectPlan, PlanLog
  <2>4. PICK k \in Of(log, {"plan_seen"}) : log[k].round = round
    BY <2>3 DEF RoundsOf
  <2>5. log[k].plan = plans[round]
    BY <1>4, <1>5, <2>4 DEF PlanEvents
  <2>6. FitsPlans(log, e)
    BY <2>1, <2>2, <2>3, <2>4, <2>5 DEF Wrote, FitsPlans, Effects
  <2> QED BY <1>2, <2>2, <2>6
<1>8. CASE LogEffect
  <2>1. CASE ThePlan.action = "no_op"
    BY <1>1, <1>8, <2>1, StepSilent
  <2>2. CASE ThePlan.action # "no_op"
    <3>1. PICK e : e.type \in Effects /\ Wrote(e, e.type, 0) /\ e.plan = plans[round]
      BY <1>8, <2>2, StepWrites DEF ThePlan
    <3>2. round \in RoundsOf(log, "plan_applied")
      BY <1>8 DEF LogEffect, PlanLog
    <3>3. PICK k \in Of(log, {"plan_applied"}) : log[k].round = round
      BY <3>2 DEF RoundsOf
    <3>4. log[k].plan = plans[round]
      BY <1>4, <1>5, <3>3 DEF PlanEvents
    <3>5. e.round = round
      BY <3>1 DEF Wrote
    <3>6. FitsPlans(log, e)
      BY <3>1, <3>3, <3>4, <3>5 DEF FitsPlans, Effects
    <3> QED BY <1>2, <3>1, <3>6
  <2> QED BY <2>1, <2>2
<1>9. CASE StartRound \/ CloseRound
  BY <1>3, <1>9, StepWrites DEF PlanEvents, Effects
<1>10. CASE Expose \/ Request \/ LogResponse \/ LogTurn
  BY <1>3, <1>10, StepWrites DEF PlanEvents, Effects
<1>11. CASE NoPlanHere \/ MakeViews \/ Answer \/ ProviderFails \/ UNCHANGED vars
  BY <1>1, <1>11, StepSilent
<1> QED BY <1>6, <1>7, <1>8, <1>9, <1>10, <1>11, UndisturbingSteps

\* A plan is seen, settled and put into effect in its round.
LEMMA PlanLogStep == Undisturbing => PlanLog'
<1> SUFFICES ASSUME Undisturbing PROVE PlanLog'
  OBVIOUS
<1> USE UndisturbingFacts
<1>1. \A k \in Of(log', PlanEvents) : log'[k].round <= round /\ log'[k].plan = plans'[log'[k].round]
  <2> SUFFICES ASSUME NEW k \in Of(log', PlanEvents)
               PROVE  log'[k].round <= round /\ log'[k].plan = plans'[log'[k].round]
    OBVIOUS
  <2>1. ASSUME k \in Of(log, PlanEvents), log'[k] = log[k]
        PROVE  log'[k].round <= round /\ log'[k].plan = plans'[log'[k].round]
    <3>1. log[k].round <= round /\ log[k].plan = plans[log[k].round]
      BY <2>1 DEF PlanLog
    <3>2. log[k].round \in Rounds /\ \A r \in Rounds : r \in Nat
      <4>1. log[k] \in LogEvent
        BY <2>1 DEF Of, TypeOK
      <4> QED BY <4>1, RoundAssumption DEF LogEvent, Rounds
    <3>3. CASE SeePlan
      <4>1. log[k].round < round
        BY <2>1, <3>3 DEF SeePlan, PlanLog
      <4>2. PICK plan \in Plans : plans' = [plans EXCEPT ![round] = plan]
        BY <3>3 DEF SeePlan
      <4>3. plans'[log[k].round] = plans[log[k].round]
        BY <3>2, <4>1, <4>2 DEF TypeOK
      <4> QED BY <2>1, <3>1, <4>3
    <3>4. CASE ~SeePlan
      <4>1. plans' = plans
        BY <3>4, UndisturbingSteps
        DEF StartRound, NoPlanHere, ApplyPlan, RejectPlan, LogEffect, MakeViews, Expose,
            Request, Answer, ProviderFails, LogResponse, LogTurn, CloseRound, vars
      <4> QED BY <2>1, <3>1, <4>1
    <3> QED BY <3>3, <3>4
  <2> QED BY <2>1, PlanEventsOfStep
<1>2. at' \in {"round", "plan"} => \A k \in Of(log', PlanEvents) : log'[k].round < round'
  <2>1. CASE CloseRound /\ at' = "round"
    <3>1. round' = round + 1
      BY <2>1 DEF CloseRound
    <3>2. \A k \in Of(log', PlanEvents) : log'[k].round \in Nat
      <4>1. log' \in Seq(LogEvent)
        BY TypeStep DEF TypeOK
      <4>2. \A k \in Of(log', PlanEvents) : log'[k] \in LogEvent
        BY <4>1 DEF Of
      <4> QED BY <4>2, RoundAssumption DEF LogEvent, Rounds
    <3> QED BY <1>1, <3>1, <3>2
  <2>2. CASE at' \in {"round", "plan"} /\ ~(CloseRound /\ at' = "round")
    <3>1. at \in {"round", "plan"} /\ round' = round
          /\ ~SeePlan /\ ~ApplyPlan /\ ~RejectPlan /\ ~LogEffect
      BY <2>2, UndisturbingSteps
      DEF StartRound, NoPlanHere, SeePlan, ApplyPlan, RejectPlan, LogEffect, MakeViews, Expose,
          Request, Answer, ProviderFails, Called, LogResponse, LogTurn, CloseRound, vars
    <3>2. \A k \in Of(log', PlanEvents) : k \in Of(log, PlanEvents) /\ log'[k] = log[k]
      BY <3>1, PlanEventsOfStep
    <3> QED BY <3>1, <3>2 DEF PlanLog
  <2> QED BY <2>1, <2>2
<1>3. at' = "apply" =>
        /\ round' \in RoundsOf(log', "plan_seen")
        /\ round' \notin RoundsOf(log', "plan_applied") \cup RoundsOf(log', "plan_rejected")
  <2> SUFFICES ASSUME at' = "apply"
               PROVE  /\ round' \in RoundsOf(log', "plan_seen")
                      /\ round' \notin RoundsOf(log', "plan_applied") \cup RoundsOf(log', "plan_rejected")
    OBVIOUS
  <2>1. CASE SeePlan
    <3>1. PICK e : Wrote(e, "plan_seen", 0)
      BY <2>1, StepWrites
    <3>2. \A k \in Of(log, {"plan_applied"}) \cup Of(log, {"plan_rejected"}) : log[k].round < round
      <4>1. \A k \in Of(log, {"plan_applied"}) \cup Of(log, {"plan_rejected"}) :
              k \in Of(log, PlanEvents)
        BY DEF Of, PlanEvents
      <4> QED BY <2>1, <4>1 DEF SeePlan, PlanLog
    <3>3. round \notin RoundsOf(log, "plan_applied") \cup RoundsOf(log, "plan_rejected")
      BY <3>2 DEF RoundsOf
    <3>4. round' = round
      BY <2>1 DEF SeePlan
    <3> QED BY <3>1, <3>3, <3>4, WroteNames
  <2>2. CASE ~SeePlan
    <3>1. UNCHANGED vars
      BY <2>2, UndisturbingSteps
      DEF StartRound, NoPlanHere, SeePlan, ApplyPlan, RejectPlan, LogEffect, MakeViews, Expose,
          Request, Answer, ProviderFails, Called, LogResponse, LogTurn, CloseRound
    <3>2. UNCHANGED <<at, log, round>>
      BY <3>1 DEF vars
    <3> QED BY <3>2 DEF PlanLog
  <2> QED BY <2>1, <2>2
<1>4. RoundsOf(log', "plan_applied") = applied' \cup (IF at' = "effect" THEN {round'} ELSE {})
  <2>1. CASE ApplyPlan
    <3>1. PICK e : Wrote(e, "plan_applied", 0)
      BY <2>1, StepWrites
    <3>2. RoundsOf(log', "plan_applied") = RoundsOf(log, "plan_applied") \cup {round}
      BY <3>1, WroteNames
    <3>3. at = "apply" /\ at' = "effect" /\ UNCHANGED <<applied, round>>
      BY <2>1 DEF ApplyPlan
    <3> QED BY <3>2, <3>3 DEF PlanLog
  <2>2. CASE ~ApplyPlan
    <3>1. RoundsOf(log', "plan_applied") = RoundsOf(log, "plan_applied")
      <4>1. ASSUME NEW e, NEW type, NEW who, Wrote(e, type, who), type # "plan_applied"
            PROVE  RoundsOf(log', "plan_applied") = RoundsOf(log, "plan_applied")
        BY <4>1, WroteNames
      <4>2. CASE SeePlan \/ RejectPlan \/ StartRound \/ CloseRound
        BY <4>1, <4>2, StepWrites
      <4>3. CASE LogEffect
        BY <4>1, <4>3, StepWrites, StepSilent DEF Effects
      <4>4. CASE Expose \/ Request \/ LogResponse \/ LogTurn
        BY <4>1, <4>4, StepWrites
      <4>5. CASE NoPlanHere \/ MakeViews \/ Answer \/ ProviderFails \/ UNCHANGED vars
        BY <4>5, StepSilent
      <4> QED BY <2>2, <4>2, <4>3, <4>4, <4>5, UndisturbingSteps
    <3>2. CASE LogEffect
      BY <3>1, <3>2 DEF LogEffect, PlanLog
    <3>3. CASE ~LogEffect
      <4>1. applied' = applied /\ \/ UNCHANGED <<at, round>>
                                  \/ at # "effect" /\ at' # "effect"
        BY <2>2, <3>3, UndisturbingSteps
        DEF StartRound, NoPlanHere, SeePlan, RejectPlan, MakeViews, Expose,
            Request, Answer, ProviderFails, Called, LogResponse, LogTurn, CloseRound, vars
      <4> QED BY <3>1, <4>1 DEF PlanLog
    <3> QED BY <3>2, <3>3
  <2> QED BY <2>1, <2>2
<1>5. \A k \in Of(log', PlanEvents) : log'[k].round <= round'
  <2>1. \A k \in Of(log', PlanEvents) : log'[k].round \in Nat
    <3>1. log' \in Seq(LogEvent)
      BY TypeStep DEF TypeOK
    <3>2. \A k \in Of(log', PlanEvents) : log'[k] \in LogEvent
      BY <3>1 DEF Of
    <3> QED BY <3>2, RoundAssumption DEF LogEvent, Rounds
  <2> QED BY <1>1, <2>1, RoundGrows
<1> QED BY <1>1, <1>2, <1>3, <1>4, <1>5, PlanEventsStep DEF PlanLog

-----------------------------------------------------------------------------
(* Who was shown, asked, answered and noted. *)

\* One agent more.
LEMMA UpToNext ==
  ASSUME TypeOK, NEW n \in Nat
  PROVE  /\ UpTo(n + 1) = UpTo(n) \cup {<<round, TurnOrder[n + 1]>>}
         /\ UpTo(0) = (0..round - 1) \X Agents
<1>1. 1..n + 1 = (1..n) \cup {n + 1} /\ 1..0 = {}
  OBVIOUS
<1> QED BY <1>1 DEF UpTo

\* All agents of a round.
LEMMA UpToAll ==
  ASSUME TypeOK, PlansInv
  PROVE  UpTo(AgentCount) = (0..round) \X Agents
<1>1. round \in Nat
  BY TurnTypeFacts
<1>2. (0..round) \X Agents = ((0..round - 1) \X Agents) \cup ({round} \X Agents)
  <2>1. 0..round = (0..round - 1) \cup {round}
    BY <1>1
  <2> QED BY <2>1
<1>3. {<<round, TurnOrder[i]>> : i \in 1..AgentCount} = {round} \X Agents
  <2>1. \A i \in 1..AgentCount : TurnOrder[i] \in Agents
    BY OrderPermutes DEF Agents
  <2>2. \A a \in Agents : \E i \in 1..AgentCount : TurnOrder[i] = a
    BY OrderPermutes DEF Agents
  <2>3. ASSUME NEW pair \in {round} \X Agents
        PROVE  pair \in {<<round, TurnOrder[i]>> : i \in 1..AgentCount}
    <3>1. PICK a \in Agents : pair = <<round, a>>
      OBVIOUS
    <3> QED BY <2>2, <3>1
  <2>4. ASSUME NEW i \in 1..AgentCount
        PROVE  <<round, TurnOrder[i]>> \in {round} \X Agents
    BY <2>1
  <2> QED BY <2>3, <2>4
<1> QED BY <1>2, <1>3 DEF UpTo

\* The agent that is asked next is not among them yet.
LEMMA AgentFresh ==
  ASSUME TypeOK, PlansInv, asked + 1 \in Agents
  PROVE  <<round, Agent>> \notin UpTo(asked)
<1>1. round \in Nat /\ asked \in Nat /\ AgentCount \in Nat
  BY TurnTypeFacts, ExposureAssumption DEF TypeOK
<1>2. <<round, Agent>> \notin (0..round - 1) \X Agents
  BY <1>1
<1>3. ASSUME NEW i \in 1..asked, TurnOrder[i] = TurnOrder[asked + 1]
      PROVE  FALSE
  <2>1. i \in Agents /\ i # asked + 1
    BY <1>1 DEF Agents
  <2> QED BY <1>3, <2>1, OrderPermutes
<1> QED BY <1>2, <1>3 DEF UpTo, Agent

\* The turns there are.
LEMMA IdsUpTo ==
  ASSUME TypeOK, StageInv, PlansInv, TurnsInv
  PROVE  /\ at \in Opening \/ (at \in Asking /\ kind # "real") => AllIds(turns) = UpTo(0)
         /\ at \in Asking /\ kind = "real" => AllIds(turns) = UpTo(asked)
         /\ at \in Closed => AllIds(turns) = UpTo(AgentCount)
<1>1. round \in Nat /\ asked \in Nat /\ AgentCount \in Nat
  BY TurnTypeFacts, ExposureAssumption DEF TypeOK
<1>2. \A i \in DOMAIN turns : Id(turns[i]) = <<turns[i].round, turns[i].speaker>>
                              /\ turns[i].round \in 0..round /\ turns[i].speaker \in Agents
  BY TurnTypeFacts DEF TurnsInv, Id
<1>3. (0..round - 1) \X Agents \subseteq AllIds(turns)
  BY DEF TurnsInv
<1>4. ASSUME at \in Opening \/ (at \in Asking /\ kind # "real")
      PROVE  AllIds(turns) = UpTo(0)
  <2>1. \A i \in DOMAIN turns : turns[i].round \in 0..round - 1
    BY <1>1, <1>2, <1>4, TurnTypeFacts DEF TurnsInv
  <2>2. AllIds(turns) \subseteq (0..round - 1) \X Agents
    BY <1>2, <2>1 DEF AllIds
  <2> QED BY <1>3, <2>2, UpToNext
<1>5. ASSUME at \in Asking, kind = "real"
      PROVE  AllIds(turns) = UpTo(asked)
  <2>1. SaidInRound(asked) /\ OnlySaid(asked)
    BY <1>5 DEF TurnsInv
  <2>2. \A i \in DOMAIN turns :
          \/ turns[i].round \in 0..round - 1
          \/ turns[i].round = round /\ \E n \in 1..asked : turns[i].speaker = TurnOrder[n]
    BY <1>1, <1>2, <2>1 DEF OnlySaid
  <2>3. \A i \in DOMAIN turns : Id(turns[i]) \in UpTo(asked)
    BY <1>2, <2>2 DEF UpTo
  <2>4. AllIds(turns) \subseteq UpTo(asked)
    BY <2>3 DEF AllIds
  <2>5. UpTo(asked) \subseteq AllIds(turns)
    BY <1>3, <2>1 DEF UpTo, SaidInRound
  <2> QED BY <2>4, <2>5
<1>6. ASSUME at \in Closed
      PROVE  AllIds(turns) = UpTo(AgentCount)
  <2>1. {round} \X Agents \subseteq AllIds(turns)
    BY <1>6 DEF TurnsInv
  <2>2. AllIds(turns) \subseteq (0..round) \X Agents
    BY <1>2 DEF AllIds
  <2>3. 0..round = (0..round - 1) \cup {round}
    BY <1>1
  <2>4. (0..round) \X Agents \subseteq AllIds(turns)
    BY <1>3, <2>1, <2>3
  <2> QED BY <2>2, <2>4, UpToAll
<1> QED BY <1>4, <1>5, <1>6

\* One count moves with what its type names.
LEMMA UpToStays ==
  ASSUME Undisturbing, round' = round
  PROVE  \A n : UpTo(n)' = UpTo(n)
BY UndisturbingFacts, OrderFixed DEF UpTo

\* A round that was closed belongs to the rounds before the next one.
LEMMA UpToTurns ==
  ASSUME Undisturbing, round' = round + 1
  PROVE  UpTo(0)' = UpTo(AgentCount)
<1>1. round' - 1 = round
  BY UndisturbingFacts
<1>2. UpTo(0)' = (0..round' - 1) \X Agents
  BY DEF UpTo
<1> QED BY <1>1, <1>2, UndisturbingFacts, UpToAll

\* The events of an agent in a round.
AgentTypes == {"exposure_created", "llm_request", "llm_response", "turn_completed"}

\* What the events of these types name is changed by the steps that write them.
LEMMA AgentNames ==
  ASSUME Undisturbing
  PROVE  /\ \A type \in AgentTypes :
              PairsOf(log', type) # PairsOf(log, type) =>
                Expose \/ Request \/ LogResponse \/ LogTurn
         /\ Expose =>
              /\ PairsOf(log', "exposure_created") =
                   PairsOf(log, "exposure_created") \cup {<<round, Agent>>}
              /\ \A type \in AgentTypes \ {"exposure_created"} :
                   PairsOf(log', type) = PairsOf(log, type)
         /\ Request =>
              /\ PairsOf(log', "llm_request") = PairsOf(log, "llm_request") \cup {<<round, Agent>>}
              /\ \A type \in AgentTypes \ {"llm_request"} : PairsOf(log', type) = PairsOf(log, type)
         /\ LogResponse =>
              /\ PairsOf(log', "llm_response") = PairsOf(log, "llm_response") \cup {<<round, Agent>>}
              /\ \A type \in AgentTypes \ {"llm_response"} : PairsOf(log', type) = PairsOf(log, type)
         /\ LogTurn =>
              /\ PairsOf(log', "turn_completed") =
                   PairsOf(log, "turn_completed") \cup {<<round, Agent>>}
              /\ \A type \in AgentTypes \ {"turn_completed"} :
                   PairsOf(log', type) = PairsOf(log, type)
<1> USE UndisturbingFacts
<1>1. ASSUME NEW type, \E e : Wrote(e, type, Agent)
      PROVE  /\ PairsOf(log', type) = PairsOf(log, type) \cup {<<round, Agent>>}
             /\ \A other : other # type => PairsOf(log', other) = PairsOf(log, other)
  BY <1>1, WroteNames
<1>2. Expose => \E e : Wrote(e, "exposure_created", Agent)
  BY StepWrites
<1>3. Request => \E e : Wrote(e, "llm_request", Agent)
  BY StepWrites
<1>4. LogResponse => \E e : Wrote(e, "llm_response", Agent)
  BY StepWrites
<1>5. LogTurn => \E e : Wrote(e, "turn_completed", Agent)
  BY StepWrites
<1>6. ASSUME NEW type \in AgentTypes, ~Expose, ~Request, ~LogResponse, ~LogTurn
      PROVE  PairsOf(log', type) = PairsOf(log, type)
  <2>1. ASSUME NEW e, NEW other, NEW who, Wrote(e, other, who), other \notin AgentTypes
        PROVE  PairsOf(log', type) = PairsOf(log, type)
    BY <1>6, <2>1, WroteNames
  <2>2. CASE SeePlan \/ ApplyPlan \/ RejectPlan \/ StartRound \/ CloseRound
    BY <2>1, <2>2, StepWrites DEF AgentTypes
  <2>3. CASE LogEffect
    BY <2>1, <2>3, StepWrites, StepSilent DEF Effects, AgentTypes
  <2>4. CASE NoPlanHere \/ MakeViews \/ Answer \/ ProviderFails \/ UNCHANGED vars
    BY <2>4, StepSilent
  <2> QED BY <1>6, <2>2, <2>3, <2>4, UndisturbingSteps
<1>7. Expose => /\ PairsOf(log', "exposure_created") =
                     PairsOf(log, "exposure_created") \cup {<<round, Agent>>}
                /\ \A type \in AgentTypes \ {"exposure_created"} :
                     PairsOf(log', type) = PairsOf(log, type)
  BY <1>1, <1>2
<1>8. Request =>
        /\ PairsOf(log', "llm_request") = PairsOf(log, "llm_request") \cup {<<round, Agent>>}
        /\ \A type \in AgentTypes \ {"llm_request"} : PairsOf(log', type) = PairsOf(log, type)
  BY <1>1, <1>3
<1>9. LogResponse => /\ PairsOf(log', "llm_response") =
                          PairsOf(log, "llm_response") \cup {<<round, Agent>>}
                     /\ \A type \in AgentTypes \ {"llm_response"} :
                          PairsOf(log', type) = PairsOf(log, type)
  BY <1>1, <1>4
<1>10. LogTurn => /\ PairsOf(log', "turn_completed") =
                       PairsOf(log, "turn_completed") \cup {<<round, Agent>>}
                  /\ \A type \in AgentTypes \ {"turn_completed"} :
                       PairsOf(log', type) = PairsOf(log, type)
  BY <1>1, <1>5
<1> QED BY <1>6, <1>7, <1>8, <1>9, <1>10

\* Agents are shown, asked, answered and noted one after the other.
LEMMA AgentLogStep == Undisturbing => AgentLog'
<1> SUFFICES ASSUME Undisturbing PROVE AgentLog'
  OBVIOUS
<1> USE UndisturbingFacts
<1> USE DEF Opening, Asking
<1>1. at \in {"expose", "request", "call", "response", "turn"} =>
        /\ asked + 1 \in Agents /\ asked + 1 <= AgentCount
        /\ UpTo(asked + 1) = UpTo(asked) \cup {<<round, Agent>>}
  <2>1. UpTo(asked + 1) = UpTo(asked) \cup {<<round, Agent>>}
    BY UpToNext DEF Agent
  <2> QED BY <2>1 DEF StageInv, Agents
<1>2. round' = round => \A n : UpTo(n)' = UpTo(n)
  BY UpToStays
<1>3. at # "failing" =>
        /\ PairsOf(log, "exposure_created") = UpTo(Exposed)
        /\ PairsOf(log, "llm_request") = UpTo(Requested)
        /\ PairsOf(log, "llm_response") = UpTo(Responded)
        /\ PairsOf(log, "turn_completed") = UpTo(Told)
  BY DEF AgentLog
<1>4. ~Expose /\ ~Request /\ ~LogResponse /\ ~LogTurn =>
        /\ PairsOf(log', "exposure_created") = PairsOf(log, "exposure_created")
        /\ PairsOf(log', "llm_request") = PairsOf(log, "llm_request")
        /\ PairsOf(log', "llm_response") = PairsOf(log, "llm_response")
        /\ PairsOf(log', "turn_completed") = PairsOf(log, "turn_completed")
  BY AgentNames DEF AgentTypes
<1>5. ASSUME at' # "failing", NEW n1, NEW n2, NEW n3, NEW n4,
             n1 = Exposed', n2 = Requested', n3 = Responded', n4 = Told',
             PairsOf(log', "exposure_created") = UpTo(n1)',
             PairsOf(log', "llm_request") = UpTo(n2)',
             PairsOf(log', "llm_response") = UpTo(n3)',
             PairsOf(log', "turn_completed") = UpTo(n4)'
      PROVE  AgentLog'
  BY <1>5 DEF AgentLog
<1>6. CASE StartRound \/ NoPlanHere \/ SeePlan \/ ApplyPlan \/ LogEffect
  <2>1. at \in Opening /\ at' \in Opening /\ round' = round
        /\ ~Expose /\ ~Request /\ ~LogResponse /\ ~LogTurn
    BY <1>6 DEF StartRound, NoPlanHere, SeePlan, ApplyPlan, LogEffect, Expose, Request,
                LogResponse, LogTurn
  <2>2. Exposed' = 0 /\ Requested' = 0 /\ Responded' = 0 /\ Told' = 0
    BY <2>1 DEF Exposed, Requested, Responded, Told
  <2>3. Exposed = 0 /\ Requested = 0 /\ Responded = 0 /\ Told = 0
    BY <2>1 DEF Exposed, Requested, Responded, Told
  <2> QED BY <1>2, <1>3, <1>4, <1>5, <2>1, <2>2, <2>3
<1>7. CASE MakeViews
  <2>1. at = "views" /\ at' = "expose" /\ round' = round /\ asked' = 0
        /\ ~Expose /\ ~Request /\ ~LogResponse /\ ~LogTurn
    BY <1>7 DEF MakeViews, Expose, Request, LogResponse, LogTurn
  <2>2. Exposed' = 0 /\ Requested' = 0 /\ Responded' = 0 /\ Told' = 0
    BY <2>1 DEF Exposed, Requested, Responded, Told
  <2>3. Exposed = 0 /\ Requested = 0 /\ Responded = 0 /\ Told = 0
    BY <2>1 DEF Exposed, Requested, Responded, Told
  <2> QED BY <1>2, <1>3, <1>4, <1>5, <2>1, <2>2, <2>3
<1>8. CASE Expose
  <2>1. at = "expose" /\ at' = (IF kind = "real" THEN "call" ELSE "request")
        /\ UNCHANGED <<round, asked, kind>>
    BY <1>8 DEF Expose
  <2>2. Exposed = asked /\ Requested = asked /\ Responded = asked
        /\ Told = IF kind = "real" THEN asked ELSE 0
    BY <2>1 DEF Exposed, Requested, Responded, Told
  <2>3. Exposed' = asked + 1 /\ Requested' = asked /\ Responded' = asked
        /\ Told' = IF kind = "real" THEN asked ELSE 0
    BY <2>1 DEF Exposed, Requested, Responded, Told
  <2>4. /\ PairsOf(log', "exposure_created") = UpTo(asked + 1)
        /\ PairsOf(log', "llm_request") = UpTo(asked)
        /\ PairsOf(log', "llm_response") = UpTo(asked)
        /\ PairsOf(log', "turn_completed") = UpTo(Told)
    BY <1>1, <1>3, <1>8, <2>1, <2>2, AgentNames DEF AgentTypes
  <2>5. at' # "failing" /\ Told' = Told
    BY <2>1, <2>2, <2>3
  <2> QED BY <1>2, <1>5, <2>1, <2>3, <2>4, <2>5
<1>9. CASE Request
  <2>1. at = "request" /\ at' = (IF kind = "real" THEN "response" ELSE "call")
        /\ UNCHANGED <<round, asked, kind>>
    BY <1>9 DEF Request
  <2>2. Exposed = asked + 1 /\ Requested = asked /\ Responded = asked
        /\ Told = IF kind = "real" THEN asked ELSE 0
    BY <2>1 DEF Exposed, Requested, Responded, Told
  <2>3. Exposed' = asked + 1 /\ Requested' = asked + 1 /\ Responded' = asked
        /\ Told' = IF kind = "real" THEN asked ELSE 0
    BY <2>1 DEF Exposed, Requested, Responded, Told
  <2>4. /\ PairsOf(log', "exposure_created") = UpTo(asked + 1)
        /\ PairsOf(log', "llm_request") = UpTo(asked + 1)
        /\ PairsOf(log', "llm_response") = UpTo(asked)
        /\ PairsOf(log', "turn_completed") = UpTo(Told)
    BY <1>1, <1>3, <1>9, <2>1, <2>2, AgentNames DEF AgentTypes
  <2>5. at' # "failing" /\ Told' = Told
    BY <2>1, <2>2, <2>3
  <2> QED BY <1>2, <1>5, <2>1, <2>3, <2>4, <2>5
<1>10. CASE Answer \/ ProviderFails
  <2>1. at = "call" /\ at' = (IF kind = "real" THEN "request" ELSE "response")
        /\ UNCHANGED <<round, asked, kind>>
        /\ ~Expose /\ ~Request /\ ~LogResponse /\ ~LogTurn
    BY <1>10 DEF Answer, ProviderFails, Called, Expose, Request, LogResponse, LogTurn
  <2>2. Exposed' = Exposed /\ Requested' = Requested /\ Responded' = Responded /\ Told' = Told
    BY <2>1 DEF Exposed, Requested, Responded, Told
  <2> QED BY <1>2, <1>3, <1>4, <1>5, <2>1, <2>2
<1>11. CASE LogResponse /\ at' # "failing"
  <2>1. at = "response" /\ UNCHANGED <<round, kind>>
        /\ \/ kind = "real" /\ at' = "turn" /\ asked' = asked
           \/ kind # "real" /\ at' = "expose" /\ asked' = asked + 1
           \/ kind # "real" /\ at' = "turn" /\ asked' = 0 /\ asked + 1 = AgentCount
    BY <1>1, <1>11 DEF LogResponse
  <2>2. Exposed = asked + 1 /\ Requested = asked + 1 /\ Responded = asked
        /\ Told = IF kind = "real" THEN asked ELSE 0
    BY <2>1 DEF Exposed, Requested, Responded, Told
  <2>3. Exposed' = asked + 1 /\ Requested' = asked + 1 /\ Responded' = asked + 1
        /\ Told' = IF kind = "real" THEN asked ELSE 0
    BY <2>1 DEF Exposed, Requested, Responded, Told
  <2>4. /\ PairsOf(log', "exposure_created") = UpTo(asked + 1)
        /\ PairsOf(log', "llm_request") = UpTo(asked + 1)
        /\ PairsOf(log', "llm_response") = UpTo(asked + 1)
        /\ PairsOf(log', "turn_completed") = UpTo(Told)
    BY <1>1, <1>3, <1>11, <2>1, <2>2, AgentNames DEF AgentTypes
  <2>5. Told' = Told
    BY <2>2, <2>3
  <2> QED BY <1>2, <1>5, <1>11, <2>1, <2>3, <2>4, <2>5
<1>12. CASE LogTurn
  <2>1. at = "turn" /\ UNCHANGED <<round, kind>>
        /\ \/ kind = "real" /\ at' = "expose" /\ asked' = asked + 1
           \/ kind # "real" /\ at' = "turn" /\ asked' = asked + 1
           \/ at' = "close" /\ asked + 1 = AgentCount
    BY <1>1, <1>12 DEF LogTurn
  <2>2. Exposed' = Exposed /\ Requested' = Requested /\ Responded' = Responded
        /\ Told = asked /\ Told' = asked + 1
    BY <2>1 DEF Exposed, Requested, Responded, Told
  <2>4. /\ PairsOf(log', "exposure_created") = UpTo(Exposed)
        /\ PairsOf(log', "llm_request") = UpTo(Requested)
        /\ PairsOf(log', "llm_response") = UpTo(Responded)
        /\ PairsOf(log', "turn_completed") = UpTo(asked + 1)
    BY <1>1, <1>3, <1>12, <2>1, <2>2, AgentNames DEF AgentTypes
  <2>5. at' # "failing"
    BY <2>1
  <2> QED BY <1>2, <1>5, <2>1, <2>2, <2>4, <2>5
<1>13. CASE CloseRound
  <2>1. at = "close" /\ ~Expose /\ ~Request /\ ~LogResponse /\ ~LogTurn
        /\ \/ at' = "finish" /\ round' = round
           \/ at' = "round" /\ round' = round + 1
    BY <1>13 DEF CloseRound, Expose, Request, LogResponse, LogTurn
  <2>2. Exposed = AgentCount /\ Requested = AgentCount
        /\ Responded = AgentCount /\ Told = AgentCount
    BY <2>1 DEF Exposed, Requested, Responded, Told
  <2>3. CASE at' = "finish" /\ round' = round
    <3>1. Exposed' = AgentCount /\ Requested' = AgentCount /\ Responded' = AgentCount
          /\ Told' = AgentCount
      BY <2>3 DEF Exposed, Requested, Responded, Told
    <3> QED BY <1>2, <1>3, <1>4, <1>5, <2>1, <2>2, <2>3, <3>1
  <2>4. CASE at' = "round" /\ round' = round + 1
    <3>1. Exposed' = 0 /\ Requested' = 0 /\ Responded' = 0 /\ Told' = 0
      BY <2>4 DEF Exposed, Requested, Responded, Told
    <3>2. UpTo(0)' = UpTo(AgentCount)
      BY <2>4, UpToTurns
    <3> QED BY <1>3, <1>4, <1>5, <2>1, <2>2, <2>4, <3>1, <3>2
  <2> QED BY <2>1, <2>3, <2>4
<1>14. CASE RejectPlan
  <2>1. at = "apply" /\ at' = "failing" /\ turns' = turns
        /\ ~Expose /\ ~Request /\ ~LogResponse /\ ~LogTurn
    BY <1>14 DEF RejectPlan, Expose, Request, LogResponse, LogTurn
  <2>2. Exposed = 0 /\ Requested = 0 /\ Responded = 0 /\ Told = 0
    BY <2>1 DEF Exposed, Requested, Responded, Told
  <2>3. AllIds(turns) = UpTo(0)
    BY <2>1, IdsUpTo
  <2> QED BY <1>3, <1>4, <2>1, <2>2, <2>3 DEF AgentLog
<1>15. CASE LogResponse /\ at' = "failing"
  <2>1. at = "response" /\ turns' = turns
    BY <1>15 DEF LogResponse
  <2>2. Exposed = asked + 1 /\ Requested = asked + 1 /\ Responded = asked
        /\ Told = IF kind = "real" THEN asked ELSE 0
    BY <2>1 DEF Exposed, Requested, Responded, Told
  <2>3. AllIds(turns) = UpTo(Told)
    BY <2>1, <2>2, IdsUpTo
  <2>4. UpTo(Told) \subseteq UpTo(asked + 1)
    BY <2>2 DEF UpTo
  <2>5. PairsOf(log', "llm_request") = UpTo(asked + 1)
        /\ PairsOf(log', "llm_response") = UpTo(asked + 1)
        /\ PairsOf(log', "exposure_created") = UpTo(asked + 1)
        /\ PairsOf(log', "turn_completed") = UpTo(Told)
    BY <1>1, <1>3, <1>15, <2>1, <2>2, AgentNames DEF AgentTypes
  <2> QED BY <1>15, <2>1, <2>3, <2>4, <2>5 DEF AgentLog
<1>16. CASE UNCHANGED vars
  <2>1. UNCHANGED <<at, kind, asked, round, log, turns, applied, plans>>
    BY <1>16 DEF vars
  <2>2. Exposed' = Exposed /\ Requested' = Requested /\ Responded' = Responded /\ Told' = Told
    BY <2>1 DEF Exposed, Requested, Responded, Told
  <2>3. CASE at = "failing"
    BY <2>1, <2>3 DEF AgentLog
  <2>4. CASE at # "failing"
    BY <1>2, <1>3, <1>5, <2>1, <2>2, <2>4
  <2> QED BY <2>3, <2>4
<1> QED BY <1>6, <1>7, <1>8, <1>9, <1>10, <1>11, <1>12, <1>13, <1>14, <1>15, <1>16,
           UndisturbingSteps

-----------------------------------------------------------------------------
(* A tidy log stays tidy. *)

\* All that is written of an agent in a round is its view.
LEMMA SightsAgreeStep == Undisturbing => SightsAgree'
<1> SUFFICES ASSUME Undisturbing PROVE SightsAgree'
  OBVIOUS
<1> USE UndisturbingFacts
<1>1. /\ \A j, k \in Of(log, Sights) :
           log[j].round = log[k].round /\ log[j].who = log[k].who => log[j].view = log[k].view
      /\ at \in Asking \cup {"turn"} =>
           \A k \in Of(log, Sights) : log[k].round = round => log[k].view = views[log[k].who]
  BY DEF SightsAgree
<1>2. ASSUME NEW j \in Of(log', Sights), NEW k \in Of(log', Sights),
             log'[j].round = log'[k].round, log'[j].who = log'[k].who
      PROVE  log'[j].view = log'[k].view
  <2>1. \A i \in {j, k} :
          \/ i \in Of(log, Sights) /\ log'[i] = log[i]
          \/ /\ at \in Asking \cup {"turn"}
             /\ log'[i].round = round /\ log'[i].who = Agent /\ log'[i].view = views[Agent]
    BY SightsOfStep
  <2> QED BY <1>1, <1>2, <2>1
<1>3. ASSUME at' \in Opening, NEW k \in Of(log', Sights)
      PROVE  log'[k].round < round'
  <2>1. CASE CloseRound
    <3>1. round' = round + 1
      BY <1>3, <2>1 DEF CloseRound, Opening
    <3>2. k \in Of(log, Sights) /\ log'[k] = log[k]
      BY <2>1, SightsOfStep DEF CloseRound, Asking
    <3>3. log[k].round <= round /\ log[k].round \in Nat
      <4>1. log[k] \in LogEvent
        BY <3>2 DEF Of, TypeOK
      <4> QED BY <3>2, <4>1, RoundAssumption DEF SightsFit, LogEvent, Rounds
    <3> QED BY <3>1, <3>2, <3>3
  <2>2. CASE ~CloseRound
    <3>1. at \in Opening /\ round' = round
      BY <1>3, <2>2, UndisturbingSteps
      DEF StartRound, NoPlanHere, SeePlan, ApplyPlan, RejectPlan, LogEffect, MakeViews, Expose,
          Request, Answer, ProviderFails, Called, LogResponse, LogTurn, vars, Opening
    <3>2. k \in Of(log, Sights) /\ log'[k] = log[k]
      BY <3>1, SightsOfStep DEF Opening, Asking
    <3> QED BY <3>1, <3>2 DEF SightsAgree
  <2> QED BY <2>1, <2>2
<1>4. ASSUME at' \in Asking \cup {"turn"}, NEW k \in Of(log', Sights), log'[k].round = round'
      PROVE  log'[k].view = views'[log'[k].who]
  <2>1. CASE MakeViews
    <3>1. at = "views" /\ round' = round
      BY <2>1 DEF MakeViews
    <3>2. k \in Of(log, Sights) /\ log'[k] = log[k]
      BY <3>1, SightsOfStep DEF Asking
    <3>3. log[k].round < round
      BY <3>1, <3>2 DEF SightsAgree, Opening
    <3> QED BY <1>4, <3>1, <3>2, <3>3
  <2>2. CASE ~MakeViews
    <3>1. at \in Asking \cup {"turn"} /\ UNCHANGED <<round, views>>
      BY <1>4, <2>2, UndisturbingSteps
      DEF StartRound, NoPlanHere, SeePlan, ApplyPlan, RejectPlan, LogEffect, Expose,
          Request, Answer, ProviderFails, Called, LogResponse, LogTurn, CloseRound, vars, Asking
    <3> QED BY <1>1, <1>4, <3>1, SightsOfStep
  <2> QED BY <2>1, <2>2
<1> QED BY <1>2, <1>3, <1>4 DEF SightsAgree

\* Each event has its own number, comes once and after what it answers.
LEMMA ListedStep == Undisturbing => Numbered(log') /\ SingleIn(log') /\ AskedFirst(log')
<1> SUFFICES ASSUME Undisturbing PROVE Numbered(log') /\ SingleIn(log') /\ AskedFirst(log')
  OBVIOUS
<1> USE UndisturbingFacts
<1>1. ASSUME NEW e, NEW type, NEW who, Wrote(e, type, who),
             type \in Once => <<round, who>> \notin PairsOf(log, type),
             type = "llm_request" => <<round, who>> \notin PairsOf(log, "llm_response")
      PROVE  Numbered(log') /\ SingleIn(log') /\ AskedFirst(log')
  <2>1. /\ log \in Seq(LogEvent) /\ e \in LogEvent /\ log' = Append(log, e)
        /\ e.type = type /\ e.round = round /\ e.who = who /\ e.sequence = Len(log) + 1
    BY <1>1 DEF Wrote, TypeOK
  <2>2. Numbered(log')
    BY <2>1, Appended DEF Numbered
  <2>3. SingleIn(log')
    BY <1>1, <2>1, StaysSingle
  <2>4. AskedFirst(log')
    BY <1>1, <2>1, StaysAskedFirst
  <2> QED BY <2>2, <2>3, <2>4
<1>2. \A type, who : <<round, who>> \in PairsOf(log, type) => round \in RoundsOf(log, type)
  BY DEF PairsOf, RoundsOf
<1>3. CASE StartRound
  <2>1. round \notin RoundsOf(log, "round_started")
    BY <1>3 DEF StartRound, RoundLog
  <2> QED BY <1>1, <1>2, <1>3, <2>1, StepWrites
<1>4. CASE CloseRound
  <2>1. round \notin RoundsOf(log, "round_completed")
    BY <1>4 DEF CloseRound, RoundLog
  <2> QED BY <1>1, <1>2, <1>4, <2>1, StepWrites
<1>5. CASE SeePlan \/ ApplyPlan \/ RejectPlan
  BY <1>1, <1>5, StepWrites DEF Once
<1>6. CASE LogEffect
  <2>1. CASE ThePlan.action = "no_op"
    BY <1>6, <2>1, StepSilent
  <2>2. CASE ThePlan.action # "no_op"
    BY <1>1, <1>6, <2>2, StepWrites DEF Once, Effects
  <2> QED BY <2>1, <2>2
<1>7. at \in Asking \cup {"turn"} => <<round, Agent>> \notin UpTo(asked)
  BY AgentFresh DEF StageInv
<1>8. CASE Expose
  BY <1>1, <1>8, StepWrites DEF Once
<1>9. CASE Request
  <2>1. at = "request"
    BY <1>9 DEF Request
  <2>2. <<round, Agent>> \notin PairsOf(log, "llm_request") \cup PairsOf(log, "llm_response")
    BY <1>7, <2>1 DEF AgentLog, Requested, Responded, Asking, Opening
  <2> QED BY <1>1, <1>9, <2>2, StepWrites
<1>10. CASE LogResponse
  <2>1. at = "response"
    BY <1>10 DEF LogResponse
  <2>2. <<round, Agent>> \notin PairsOf(log, "llm_response")
    BY <1>7, <2>1 DEF AgentLog, Responded, Asking, Opening
  <2> QED BY <1>1, <1>10, <2>2, StepWrites
<1>11. CASE LogTurn
  <2>1. at = "turn"
    BY <1>11 DEF LogTurn
  <2>2. <<round, Agent>> \notin PairsOf(log, "turn_completed")
    BY <1>7, <2>1 DEF AgentLog, Told, Asking
  <2> QED BY <1>1, <1>11, <2>2, StepWrites
<1>12. CASE NoPlanHere \/ MakeViews \/ Answer \/ ProviderFails \/ UNCHANGED vars
  BY <1>12, StepSilent
<1> QED BY <1>3, <1>4, <1>5, <1>6, <1>8, <1>9, <1>10, <1>11, <1>12, UndisturbingSteps

\* All of it together.
LEMMA TidyLogStep == Undisturbing => TidyLog'
<1> SUFFICES ASSUME Undisturbing PROVE TidyLog'
  OBVIOUS
<1>1. Numbered(log') /\ SingleIn(log') /\ AskedFirst(log')
  BY ListedStep
<1>2. SightsAgree' /\ PlanLog' /\ RoundLog' /\ AgentLog'
  BY SightsAgreeStep, PlanLogStep, RoundLogStep, AgentLogStep
<1> QED BY <1>1, <1>2 DEF TidyLog, Numbered, SingleIn, AskedFirst

-----------------------------------------------------------------------------
(* What replay makes of a run that ends with a tidy log. *)

\* What fits shows earlier turns, of others unless a plan says otherwise, and
\* evidence that is granted.
LEMMA FitsRefers ==
  ASSUME RunInv, PeersNamed, NEW r \in 0..round, NEW agent \in Agents, NEW view,
         Fits(agent, r, view)
  PROVE  /\ \A id \in view.peers : id \in AllIds(turns) /\ id[1] < r
         /\ view.evidence \subseteq Granted(agent, r)
<1>1. TypeOK /\ PlansInv /\ TurnsInv /\ round \in Nat
  BY TurnTypeFacts DEF RunInv
<1>2. CASE Targeted(agent, r)
  <2> DEFINE plan == plans[r - 1]
  <2>1. r - 1 \in applied /\ PlanBefore(r) = plan /\ Overrides(plan)
        /\ agent \in ToSet(plan.targets)
    BY <1>2 DEF Targeted, PlanBefore, Overrides
  <2>2. plan \in Plans /\ (\A id \in plan.peers : id[1] < r - 1) /\ r - 1 \in 0..round
    BY <1>1, <2>1 DEF PlansInv
  <2>3. PICK i \in DOMAIN plan.targets : plan.targets[i] = agent
    <3>1. plan.targets \in Seq(Agents)
      BY <2>2, PlanTypes
    <3> QED BY <2>1, <3>1 DEF ToSet
  <2>4. plan.peers \subseteq AllIds(turns) /\ plan.evidence \subseteq Granted(agent, r - 1)
    BY <2>1, <2>3 DEF PeersNamed
  <2>5. view.peers = plan.peers /\ view.evidence = plan.evidence
    BY <1>2, <2>1 DEF Fits, SameView
  <2>6. Granted(agent, r - 1) \subseteq Granted(agent, r)
    BY <2>2, ExposureAssumption DEF Granted, Available
  <2>7. \A id \in AllIds(turns) : id[1] \in Nat
    BY <1>1, IdsAreTurnIds DEF TypeOK, TurnIds
  <2> HIDE DEF plan
  <2>8. \A id \in view.peers : id \in AllIds(turns) /\ id[1] < r
    BY <1>1, <2>2, <2>4, <2>5, <2>7
  <2> QED BY <2>4, <2>5, <2>6, <2>8
<1>3. CASE ~Targeted(agent, r)
  <2>1. view.peers = (IF protocol \in Social THEN SaidBefore(agent, r) ELSE {})
        /\ view.evidence = EvidenceFor(protocol, agent, r)
    BY <1>3 DEF Fits
  <2>2. \A s \in 0..r - 1, a \in Agents : <<s, a>> \in AllIds(turns)
    <3>1. \A s \in 0..r - 1 : s \in 0..round - 1
      BY <1>1
    <3> QED BY <1>1, <3>1 DEF TurnsInv
  <2>3. \A id \in SaidBefore(agent, r) : id \in AllIds(turns) /\ id[1] < r
    BY <2>2 DEF SaidBefore
  <2>4. view.evidence \subseteq Granted(agent, r)
    BY <2>1 DEF EvidenceFor
  <2> QED BY <2>1, <2>3, <2>4
<1> QED BY <1>2, <1>3

\* Two that fit in the same place show the same.
LEMMA FitsAgree ==
  ASSUME NEW agent, NEW r, NEW one, NEW other, Fits(agent, r, one), Fits(agent, r, other)
  PROVE  SameView(one, other)
BY DEF Fits, SameView

\* Replay looks turns up by their round and speaker.
LEMMA NamedIsId ==
  ASSUME NEW id
  PROVE  TurnNamed(turns, id) <=> id \in AllIds(turns)
BY DEF TurnNamed, AllIds

\* Who is named in an event of a type.
LEMMA InPairs ==
  ASSUME NEW events, NEW type, NEW pair
  PROVE  pair \in PairsOf(events, type) <=>
           \E k \in Of(events, {type}) : <<events[k].round, events[k].who>> = pair
BY DEF PairsOf

\* The event that ends a run, in a tidy log.
Ending(e, status) ==
  /\ RunInv /\ ShownInv /\ TidyLog /\ Undisturbed /\ UNCHANGED <<turns, plans, applied>>
  /\ \/ status = "completed" /\ at = "finish" /\ Wrote(e, "run_completed", 0)
     \/ status = "failed" /\ at = "failing" /\ Wrote(e, "run_failed", 0)

\* What is known of a run that ends.
LEMMA EndingFacts ==
  ASSUME NEW e, NEW status, Ending(e, status)
  PROVE  /\ TypeOK /\ StageInv /\ PlansInv /\ TurnsInv /\ ViewsAsPlanned /\ RunInv
         /\ PeersNamed /\ TurnsOrdered /\ SightsFit
         /\ Numbered(log) /\ SingleIn(log) /\ AskedFirst(log)
         /\ SightsAgree /\ PlanLog /\ RoundLog /\ AgentLog
         /\ sequence = Len(log) /\ Of(log, Terminal) = {} /\ UNCHANGED <<turns, plans, applied>>
         /\ round \in Nat /\ at \in {"finish", "failing"} /\ status \in {"completed", "failed"}
         /\ e \in LogEvent /\ log' = Append(log, e) /\ log \in Seq(LogEvent)
         /\ e.type \in Terminal /\ e.sequence = Len(log) + 1
         /\ e.type = IF status = "completed" THEN "run_completed" ELSE "run_failed"
BY TurnTypeFacts
DEF Ending, RunInv, ShownInv, TidyLog, Undisturbed, Wrote, Terminal, TypeOK

\* It adds itself and nothing else.
LEMMA EndingAdds ==
  ASSUME NEW e, NEW status, Ending(e, status)
  PROVE  /\ \A types : types \cap Terminal = {} => Of(log', types) = Of(log, types)
         /\ \A types : \A k \in Of(log, types) : log'[k] = log[k]
         /\ \A type : type \notin Terminal =>
              PairsOf(log', type) = PairsOf(log, type) /\ RoundsOf(log', type) = RoundsOf(log, type)
         /\ Of(log', Terminal) = {Len(log')} /\ log'[Len(log')] = e
<1> USE EndingFacts
<1>1. /\ log \in Seq(LogEvent) /\ e \in LogEvent /\ log' = Append(log, e)
      /\ e.type \in Terminal /\ Of(log, Terminal) = {}
  OBVIOUS
<1>2. ASSUME NEW types, types \cap Terminal = {}
      PROVE  Of(log', types) = Of(log, types)
  <2>1. e.type \notin types
    BY <1>1, <1>2
  <2> QED BY <1>1, <2>1, OfAppended
<1>3. \A types : \A k \in Of(log, types) : log'[k] = log[k]
  BY <1>1, OfAppended
<1>4. ASSUME NEW type, type \notin Terminal
      PROVE  PairsOf(log', type) = PairsOf(log, type) /\ RoundsOf(log', type) = RoundsOf(log, type)
  <2>1. type # e.type
    BY <1>1, <1>4
  <2> QED BY <1>1, <2>1, NamesAppended
<1>5. Len(log') = Len(log) + 1 /\ log'[Len(log')] = e
  BY <1>1, Appended
<1>6. Of(log', Terminal) = {Len(log')}
  <2>1. Of(log', Terminal) = Of(log, Terminal) \cup {Len(log) + 1}
    BY <1>1, OfAppended
  <2> QED BY <1>1, <1>5, <2>1
<1> QED BY <1>2, <1>3, <1>4, <1>5, <1>6

\* Who has a turn was shown what it says, and the turns that were noted are those.
LEMMA EndingPairs ==
  ASSUME NEW e, NEW status, Ending(e, status)
  PROVE  /\ PairsOf(log', "llm_request") = PairsOf(log', "llm_response")
         /\ PairsOf(log', "turn_completed") = AllIds(turns)
         /\ AllIds(turns) \cup PairsOf(log', "llm_request") \subseteq PairsOf(log', "exposure_created")
         /\ status = "completed" => Rounds = 0..round /\ AllIds(turns) = Rounds \X Agents
<1> USE EndingFacts
<1>1. \A type \in {"llm_request", "llm_response", "turn_completed", "exposure_created"} :
        PairsOf(log', type) = PairsOf(log, type)
  BY EndingAdds DEF Terminal
<1>2. CASE at = "failing"
  <2>1. status # "completed"
    BY <1>2 DEF Ending
  <2> QED BY <1>1, <1>2, <2>1 DEF AgentLog
<1>3. CASE at = "finish"
  <2>1. Exposed = AgentCount /\ Requested = AgentCount
        /\ Responded = AgentCount /\ Told = AgentCount
    BY <1>3 DEF Exposed, Requested, Responded, Told, Opening, Asking
  <2>2. AllIds(turns) = UpTo(AgentCount)
    BY <1>3, IdsUpTo DEF Closed
  <2>3. Rounds = 0..round /\ AllIds(turns) = Rounds \X Agents
    BY <1>3, WholeRecord, RoundAssumption DEF StageInv, Ended, Closed, LastRound, Rounds
  <2> QED BY <1>1, <1>3, <2>1, <2>2, <2>3 DEF AgentLog
<1> QED BY <1>2, <1>3

\* Its log is numbered, ends once, and has its rounds and answers whole.
LEMMA EndingEnvelope ==
  ASSUME NEW e, NEW status, Ending(e, status), Begun(log)
  PROVE  EnvelopeValid(log') /\ LifecycleValid(log', status)
<1>1. 1 \in DOMAIN log /\ DOMAIN log' = DOMAIN log \cup {Len(log) + 1}
  <2>1. log \in Seq(LogEvent) /\ e \in LogEvent /\ log' = Append(log, e) /\ log # <<>>
    BY EndingFacts DEF Begun
  <2>2. DOMAIN log = 1..Len(log) /\ DOMAIN log' = DOMAIN log \cup {Len(log) + 1}
    BY <2>1, Appended
  <2>3. Len(log) \in Nat /\ Len(log) # 0
    BY <2>1, EmptySeq, LenProperties
  <2> QED BY <2>2, <2>3
<1> USE EndingFacts
<1>2. EnvelopeValid(log')
  <2>1. log'[1].type = "run_started"
    BY <1>1, Appended DEF Begun
  <2>2. \A i \in DOMAIN log' : log'[i].sequence = i
    BY <1>1, Appended DEF Numbered
  <2>3. log' # <<>>
    BY <1>1
  <2> QED BY <2>1, <2>2, <2>3, EndingAdds DEF EnvelopeValid, Terminal
<1>3. NoDuplicates(log')
  <2> DEFINE few == {"round_started", "round_completed", "llm_request", "llm_response"}
  <2>1. Of(log', few) = Of(log, few) /\ Of(log, few) \subseteq Of(log, Once)
    <3>1. few \cap Terminal = {}
      BY DEF Terminal
    <3>2. Of(log, few) \subseteq Of(log, Once)
      BY DEF Of, Once
    <3> QED BY <3>1, <3>2, EndingAdds
  <2>2. \A k \in Of(log, few) : log'[k] = log[k]
    BY EndingAdds
  <2> QED BY <2>1, <2>2 DEF NoDuplicates, SingleIn
<1>4. RoundsValid(log', status)
  <2>1. /\ RoundsOf(log', "round_started") = RoundsOf(log, "round_started")
        /\ RoundsOf(log', "round_completed") = RoundsOf(log, "round_completed")
    BY EndingAdds DEF Terminal
  <2>2. CASE status = "completed"
    <3>1. at = "finish" /\ Rounds = 0..round
      BY <2>2, EndingPairs DEF Ending
    <3> QED BY <2>1, <2>2, <3>1 DEF RoundsValid, RoundLog
  <2>3. CASE status = "failed"
    <3>1. at = "failing"
      BY <2>3 DEF Ending
    <3>2. RoundsOf(log', "round_started") = 0..round
          /\ RoundsOf(log', "round_completed") = 0..round - 1
      BY <2>1, <3>1 DEF RoundLog
    <3> QED BY <2>3, <3>2 DEF RoundsValid
  <2> QED BY <2>2, <2>3
<1>5. Answered(log')
  <2>1. PairsOf(log', "llm_request") = PairsOf(log', "llm_response")
    BY EndingPairs
  <2>2. \A i \in Of(log', {"llm_request"}), j \in Of(log', {"llm_response"}) :
          log'[i].round = log'[j].round /\ log'[i].who = log'[j].who => i < j
    <3>1. Of(log', {"llm_request"}) = Of(log, {"llm_request"})
          /\ Of(log', {"llm_response"}) = Of(log, {"llm_response"})
      BY EndingAdds DEF Terminal
    <3> QED BY <3>1, EndingAdds DEF AskedFirst
  <2> QED BY <2>1, <2>2 DEF Answered, PairsOf
<1>6. log'[Len(log')].type = IF status = "completed" THEN "run_completed" ELSE "run_failed"
  BY EndingAdds
<1> QED BY <1>2, <1>3, <1>4, <1>5, <1>6 DEF LifecycleValid

\* Its plans are in order.
LEMMA EndingPlanEvents ==
  ASSUME NEW e, NEW status, Ending(e, status)
  PROVE  PlanEventsValid(log')
<1>1. FitsPlans(log, e)
  BY EndingFacts DEF FitsPlans, Terminal, Effects
<1> QED BY <1>1, EndingFacts, PlanEventsStay DEF PlanLog

\* No agent was shown a turn of its own as one of a peer.
NoneOwn ==
  \A k \in Of(log', {"exposure_created"}) : \A id \in log'[k].view.peers : id[2] # log'[k].who

\* An event of the ended log that shows something fits.
LEMMA EndingSights ==
  ASSUME NEW e, NEW status, Ending(e, status)
  PROVE  /\ \A k \in Of(log', Sights) :
              /\ log'[k].round \in 0..round /\ log'[k].who \in Agents
              /\ Fits(log'[k].who, log'[k].round, log'[k].view)
              /\ log'[k].view.history \subseteq Earlier(log'[k].round)
         /\ \A j, k \in Of(log', Sights) :
              log'[j].round = log'[k].round /\ log'[j].who = log'[k].who
                => log'[j].view = log'[k].view
         /\ \A type \in Sights : \A k \in Of(log', {type}) : k \in Of(log', Sights)
<1> USE EndingFacts
<1>1. Of(log', Sights) = Of(log, Sights) /\ \A k \in Of(log, Sights) : log'[k] = log[k]
  <2>1. Sights \cap Terminal = {}
    BY DEF Sights, Terminal
  <2> QED BY <2>1, EndingAdds
<1>2. \A k \in Of(log, Sights) : log[k].round \in Nat
  <2>1. \A k \in Of(log, Sights) : log[k] \in LogEvent
    BY DEF Of
  <2> QED BY <2>1, RoundAssumption DEF LogEvent, Rounds
<1>3. \A type \in Sights : \A k \in Of(log', {type}) : k \in Of(log', Sights)
  BY DEF Of
<1>4. \A k \in Of(log, Sights) :
        /\ log[k].round \in 0..round /\ log[k].who \in Agents
        /\ Fits(log[k].who, log[k].round, log[k].view)
        /\ log[k].view.history \subseteq Earlier(log[k].round)
  BY <1>2 DEF SightsFit
<1>5. \A j, k \in Of(log, Sights) :
        log[j].round = log[k].round /\ log[j].who = log[k].who => log[j].view = log[k].view
  BY DEF SightsAgree
<1> QED BY <1>1, <1>3, <1>4, <1>5

\* The peers that who was asked or has a turn was shown are others.
LEMMA EndingOthers ==
  ASSUME NEW e, NEW status, Ending(e, status), NoneOwn,
         NEW r \in 0..round, NEW agent \in Agents, NEW view, Fits(agent, r, view),
         <<r, agent>> \in PairsOf(log', "exposure_created")
  PROVE  ReferencesValid(view, turns, agent, r)
<1> USE EndingFacts
<1>1. PICK k \in Of(log', {"exposure_created"}) : <<log'[k].round, log'[k].who>> = <<r, agent>>
  <2>1. <<r, agent>> \in {<<log'[i].round, log'[i].who>> : i \in Of(log', {"exposure_created"})}
    BY DEF PairsOf
  <2> QED BY <2>1
<1>2. log'[k].round = r /\ log'[k].who = agent
  BY <1>1
<1>3. SameView(log'[k].view, view)
  <2>1. k \in Of(log', Sights)
    BY EndingSights DEF Sights
  <2>2. Fits(agent, r, log'[k].view)
    BY <1>2, <2>1, EndingSights
  <2> QED BY <2>2, FitsAgree
<1>4. \A id \in view.peers : id[2] # agent
  BY <1>2, <1>3 DEF NoneOwn, SameView
<1>5. /\ \A id \in view.peers : id \in AllIds(turns) /\ id[1] < r
      /\ view.evidence \subseteq Granted(agent, r)
  BY FitsRefers
<1> QED BY <1>4, <1>5, NamedIsId DEF ReferencesValid

\* What it shows is what replay finds, if none was shown a turn of its own.
LEMMA EndingVisible ==
  ASSUME NEW e, NEW status, Ending(e, status), NoneOwn
  PROVE  VisibilityValid(log', turns, status)
<1> USE EndingFacts
<1>1. \A i \in DOMAIN turns :
        /\ turns[i].round \in 0..round /\ turns[i].speaker \in Agents
        /\ Id(turns[i]) = <<turns[i].round, turns[i].speaker>> /\ Id(turns[i]) \in AllIds(turns)
        /\ Fits(turns[i].speaker, turns[i].round, turns[i])
  BY TurnTypeFacts DEF TurnsInv, Id, AllIds, ViewsAsPlanned
<1>2. \A i, j \in DOMAIN turns : Id(turns[i]) = Id(turns[j]) => i = j
  BY DEF TurnsInv
<1>3. \A i \in DOMAIN turns : ReferencesValid(turns[i], turns, turns[i].speaker, turns[i].round)
  BY <1>1, EndingPairs, EndingOthers
<1>4. ASSUME NEW k \in Of(log', {"turn_completed"})
      PROVE  \E i \in DOMAIN turns :
               Id(turns[i]) = <<log'[k].round, log'[k].who>> /\ SameView(log'[k].view, turns[i])
  <2>1. <<log'[k].round, log'[k].who>> \in AllIds(turns)
    BY InPairs, EndingPairs
  <2>2. PICK i \in DOMAIN turns : Id(turns[i]) = <<log'[k].round, log'[k].who>>
    BY <2>1 DEF AllIds
  <2>3. Fits(log'[k].who, log'[k].round, log'[k].view)
    BY EndingSights DEF Sights
  <2>4. turns[i].round = log'[k].round /\ turns[i].speaker = log'[k].who
    BY <1>1, <2>2
  <2>5. SameView(log'[k].view, turns[i])
    BY <1>1, <2>3, <2>4, FitsAgree
  <2> QED BY <2>2, <2>5
<1>5. \A j, k \in Of(log', {"turn_completed"}) :
        log'[j].round = log'[k].round /\ log'[j].who = log'[k].who => j = k
  <2>1. Of(log', {"turn_completed"}) = Of(log, {"turn_completed"})
    BY EndingAdds DEF Terminal
  <2>2. \A k \in Of(log, {"turn_completed"}) :
          k \in Of(log, Once) /\ log[k].type = "turn_completed" /\ log'[k] = log[k]
    BY EndingAdds DEF Of, Once
  <2> QED BY <2>1, <2>2 DEF SingleIn
<1>6. ASSUME NEW k \in Of(log', {"exposure_created", "llm_request"})
      PROVE  ContextValid(log'[k], turns, status)
  <2>1. k \in Of(log', Sights)
    BY DEF Of, Sights
  <2> DEFINE r == log'[k].round
             agent == log'[k].who
             view == log'[k].view
  <2>2. r \in 0..round /\ agent \in Agents /\ Fits(agent, r, view)
        /\ view.history \subseteq Earlier(r)
    BY <2>1, EndingSights
  <2>3. HistoryValid(view, turns, r)
    BY <2>2, NamedIsId DEF Earlier, HistoryValid
  <2>4. ASSUME NEW i \in DOMAIN turns, Id(turns[i]) = <<r, agent>>
        PROVE  SameView(view, turns[i])
    <3>1. turns[i].round = r /\ turns[i].speaker = agent
      BY <1>1, <2>4
    <3> QED BY <1>1, <2>2, <3>1, FitsAgree
  <2>5. ASSUME ~TurnNamed(turns, <<r, agent>>)
        PROVE  status = "failed" /\ ReferencesValid(view, turns, agent, r)
    <3>1. <<r, agent>> \notin AllIds(turns)
      BY <2>5, NamedIsId
    <3>2. status = "failed"
      BY <2>2, <3>1, EndingPairs
    <3>3. <<r, agent>> \in PairsOf(log', "exposure_created")
      <4>1. k \in Of(log', {"exposure_created"}) \/ k \in Of(log', {"llm_request"})
        BY DEF Of
      <4>2. <<r, agent>> \in PairsOf(log', "exposure_created") \cup PairsOf(log', "llm_request")
        BY <4>1, InPairs
      <4> QED BY <4>2, EndingPairs
    <3> QED BY <2>2, <3>2, <3>3, EndingOthers
  <2> QED BY <2>3, <2>4, <2>5 DEF ContextValid
<1>7. status = "completed" =>
        AllIds(turns) = {<<log'[k].round, log'[k].who>> : k \in Of(log', {"turn_completed"})}
  BY EndingPairs DEF PairsOf
<1>8. \A j \in Of(log', {"llm_request"}), k \in Of(log', {"llm_response"}) :
        log'[j].round = log'[k].round /\ log'[j].who = log'[k].who => log'[j].view = log'[k].view
  BY EndingSights DEF Sights
<1> QED BY <1>2, <1>3, <1>4, <1>5, <1>6, <1>7, <1>8 DEF VisibilityValid

\* The turns of a round that is whole were made in the order it was to have.
LEMMA MadeAsOrdered ==
  ASSUME RunInv, TurnsOrdered, NEW r \in Nat, NEW order, order = OrderIn(r),
         order \in Bijection(Agents, Agents), \A a \in Agents : <<r, a>> \in AllIds(turns)
  PROVE  MadeInOrder(turns, {i \in DOMAIN turns : turns[i].round = r}, order)
<1> DEFINE next == {i \in DOMAIN turns : turns[i].round = r}
           place == [p \in Agents |-> CHOOSE i \in next : turns[i].speaker = order[p]]
<1>1. /\ order \in [Agents -> Agents] /\ \A a \in Agents : \E p \in Agents : order[p] = a
      /\ \A p, q \in Agents : order[p] = order[q] => p = q
  BY DEF Bijection, Injection, Surjection, IsInjective
<1>2. TypeOK /\ TurnsInv
  BY DEF RunInv
<1>3. \A i \in DOMAIN turns : Id(turns[i]) = <<turns[i].round, turns[i].speaker>>
                              /\ turns[i].speaker \in Agents
  BY <1>2, TurnTypeFacts DEF Id
<1>4. \A p \in Agents : \E i \in next : turns[i].speaker = order[p]
  <2> TAKE p \in Agents
  <2>1. <<r, order[p]>> \in AllIds(turns)
    BY <1>1
  <2>2. PICK i \in DOMAIN turns : Id(turns[i]) = <<r, order[p]>>
    BY <2>1 DEF AllIds
  <2> QED BY <1>3, <2>2
<1>5. \A p \in Agents : place[p] \in next /\ turns[place[p]].speaker = order[p]
  BY <1>4
<1> HIDE DEF place
<1>6. \A i \in next : \E p \in Agents : place[p] = i
  <2> TAKE i \in next
  <2>1. PICK p \in Agents : order[p] = turns[i].speaker
    BY <1>1, <1>3
  <2>2. place[p] \in DOMAIN turns /\ Id(turns[place[p]]) = Id(turns[i])
    BY <1>3, <1>5, <2>1
  <2> QED BY <1>2, <2>1, <2>2 DEF TurnsInv
<1>7. ASSUME NEW p \in Agents, NEW q \in Agents, p < q
      PROVE  place[p] < place[q]
  <2>1. place[p] \in next /\ place[q] \in next
    BY <1>5
  <2>2. place[p] # place[q]
    <3>1. p # q
      BY <1>7, ExposureAssumption DEF Agents
    <3> QED BY <1>1, <1>5, <3>1
  <2>3. ~(place[q] < place[p])
    <3> SUFFICES ASSUME place[q] < place[p] PROVE FALSE
      OBVIOUS
    <3>1. Precedes(order, order[q], order[p])
      BY <1>5, <2>1 DEF TurnsOrdered
    <3>2. q < p
      BY <3>1 DEF Precedes
    <3> QED BY <1>7, <3>2, ExposureAssumption DEF Agents
  <2>4. place[p] \in Int /\ place[q] \in Int
    BY <1>2, <2>1 DEF TypeOK
  <2> QED BY <2>2, <2>3, <2>4
<1>8. place \in Surjection(DOMAIN order, next)
  <2>1. place \in [Agents -> next] /\ DOMAIN order = Agents
    BY <1>1, <1>5 DEF place
  <2> QED BY <1>6, <2>1 DEF Surjection
<1> QED BY <1>1, <1>5, <1>7, <1>8 DEF MadeInOrder

\* And its plans show in the turns of the next round.
LEMMA EndingShown ==
  ASSUME NEW e, NEW status, Ending(e, status), ~Misread'
  PROVE  PlansShown(log', turns)
<1> USE EndingFacts
<1> SUFFICES ASSUME NEW k \in Of(log', {"plan_applied"}), log'[k].round + 1 < MaxRounds
             PROVE  EffectShown(log'[k].plan, log'[k].round, log', turns)
  BY DEF PlansShown
<1>1. k \in Of(log, {"plan_applied"}) /\ log'[k] = log[k] /\ log[k] \in LogEvent
  BY EndingAdds DEF Terminal, Of
<1>2. PICK r : r = log'[k].round
  OBVIOUS
<1>3. r \in applied /\ log'[k].plan = plans[r] /\ r \in Nat
  <2>1. r \in RoundsOf(log, "plan_applied")
    BY <1>1, <1>2 DEF RoundsOf
  <2>2. k \in Of(log, PlanEvents)
    BY <1>1 DEF Of, PlanEvents
  <2>3. r \in Nat
    BY <1>1, <1>2, RoundAssumption DEF LogEvent, Rounds
  <2> QED BY <1>1, <1>2, <2>1, <2>2, <2>3 DEF PlanLog
<1>4. PICK plan : plan = plans[r]
  OBVIOUS
<1>5. plan \in Plans /\ (Overrides(plan) => \A id \in plan.peers : id[1] < r)
  BY <1>3, <1>4 DEF PlansInv
<1>6. plan # NoPlan /\ plan.targets \in Seq(Agents)
      /\ ((plan.peers # {}) <=> (plan.action = "adaptive_exposure"))
      /\ TargetsFirst(plan.order, plan.targets)
  BY <1>5, PlanTypes, ScheduleAssumption DEF Plan
<1>7. PlanBefore(r + 1) = plan
  <2>1. r + 1 - 1 = r
    BY <1>3
  <2> QED BY <1>3, <1>4, <2>1 DEF PlanBefore
<1> DEFINE next == {i \in DOMAIN turns : turns[i].round = r + 1}
<1>8. ASSUME plan.action = "blind_evidence_reflection", NEW i \in next,
             turns[i].speaker \in ToSet(plan.targets)
      PROVE  turns[i].peers = {}
  <2>1. Targeted(turns[i].speaker, r + 1)
    BY <1>6, <1>7, <1>8 DEF Targeted, Overrides
  <2>2. Fits(turns[i].speaker, r + 1, turns[i])
    BY <1>8 DEF ViewsAsPlanned
  <2> QED BY <1>6, <1>7, <1>8, <2>1, <2>2 DEF Fits, SameView
<1>9. ASSUME plan.action = "adaptive_exposure", NEW id \in plan.peers
      PROVE  TurnNamed(turns, id) /\ id[1] < r
  <2>1. Overrides(plan)
    BY <1>6, <1>9 DEF Overrides
  <2> QED BY <1>3, <1>4, <1>5, <1>9, <2>1, NamedIsId DEF PeersNamed
<1>10. ASSUME plan.action = "restructure"
       PROVE  MadeInOrder(turns, next, plan.order)
  <2>1. r + 1 \in Rounds
    BY <1>2, <1>3, RoundAssumption DEF Rounds
  <2>2. \A a \in Agents : TurnNamed(turns, <<r + 1, a>>)
    BY <1>3, <1>4, <1>10, <2>1 DEF Misread
  <2>3. OrderIn(r + 1) = plan.order
    BY <1>6, <1>7, <1>10 DEF OrderIn
  <2>4. plan.order \in Bijection(Agents, Agents)
    BY <1>6 DEF TargetsFirst
  <2>5. r + 1 \in Nat /\ \A a \in Agents : <<r + 1, a>> \in AllIds(turns)
    BY <1>3, <2>2, NamedIsId
  <2> QED BY <2>3, <2>4, <2>5, MadeAsOrdered
<1>11. ASSUME NEW i \in next
       PROVE  \E j \in Of(log', {"turn_completed"}) : <<log'[j].round, log'[j].who>> = Id(turns[i])
  <2>1. Id(turns[i]) \in AllIds(turns)
    BY DEF AllIds
  <2>2. Id(turns[i]) \in
          {<<log'[j].round, log'[j].who>> : j \in Of(log', {"turn_completed"})}
    BY <2>1, EndingPairs DEF PairsOf
  <2> QED BY <2>2
<1> HIDE DEF next
<1>12. EffectShown(plan, r, log', turns)
  BY <1>8, <1>9, <1>10, <1>11 DEF EffectShown, next
<1> QED BY <1>2, <1>3, <1>4, <1>12

\* Replay refuses a run in which an agent was shown a turn of its own.
LEMMA RefusesOwn ==
  ASSUME NEW e, NEW status, Ending(e, status), VisibilityValid(log', turns, status)
  PROVE  NoneOwn
<1> USE EndingFacts
<1> SUFFICES ASSUME NEW k \in Of(log', {"exposure_created"}), NEW id \in log'[k].view.peers
             PROVE  id[2] # log'[k].who
  BY DEF NoneOwn
<1>1. ContextValid(log'[k], turns, status)
  <2>1. k \in Of(log', {"exposure_created", "llm_request"})
    BY DEF Of
  <2> QED BY <2>1 DEF VisibilityValid
<1>2. CASE TurnNamed(turns, <<log'[k].round, log'[k].who>>)
  <2>1. PICK i \in DOMAIN turns : Id(turns[i]) = <<log'[k].round, log'[k].who>>
    BY <1>2 DEF TurnNamed
  <2>2. SameView(log'[k].view, turns[i])
    BY <1>1, <1>2, <2>1 DEF ContextValid
  <2>3. turns[i].speaker = log'[k].who
    BY <2>1 DEF Id
  <2>4. \A other \in turns[i].peers : other[2] # turns[i].speaker
    BY DEF VisibilityValid, ReferencesValid
  <2> QED BY <2>2, <2>3, <2>4 DEF SameView
<1>3. CASE ~TurnNamed(turns, <<log'[k].round, log'[k].who>>)
  BY <1>1, <1>3 DEF ContextValid, ReferencesValid
<1> QED BY <1>2, <1>3

\* And one in which a round that was to have an order is not whole.
LEMMA RefusesBroken ==
  ASSUME NEW e, NEW status, Ending(e, status), PlansShown(log', turns),
         NEW r \in applied, plans[r].action = "restructure", r + 1 \in Rounds, NEW a \in Agents
  PROVE  TurnNamed(turns, <<r + 1, a>>)
<1> USE EndingFacts
<1>1. r \in Nat /\ plans[r] \in Plans
  BY DEF PlansInv
<1>2. PICK k \in Of(log, {"plan_applied"}) : log[k].round = r
  <2>1. r \in RoundsOf(log, "plan_applied")
    BY DEF PlanLog
  <2>2. r \in {log[i].round : i \in Of(log, {"plan_applied"})}
    BY <2>1 DEF RoundsOf
  <2> QED BY <2>2
<1>3. k \in Of(log', {"plan_applied"}) /\ log'[k] = log[k] /\ log[k].plan = plans[r]
  <2>1. k \in Of(log, PlanEvents)
    BY DEF Of, PlanEvents
  <2> QED BY <1>2, <2>1, EndingAdds DEF PlanLog, Terminal
<1>4. EffectShown(plans[r], r, log', turns)
  <2>1. r + 1 < MaxRounds
    BY <1>1, RoundAssumption DEF Rounds
  <2> QED BY <1>2, <1>3, <2>1 DEF PlansShown
<1>5. PICK plan : plan = plans[r]
  OBVIOUS
<1> DEFINE next == {i \in DOMAIN turns : turns[i].round = r + 1}
<1>6. MadeInOrder(turns, next, plan.order)
  BY <1>4, <1>5 DEF EffectShown
<1>7. plan.order \in Bijection(Agents, Agents)
  BY <1>1, <1>5, PlanTypes, ScheduleAssumption DEF Plan, TargetsFirst
<1>8. PICK p \in Agents : plan.order[p] = a
  BY <1>7 DEF Bijection, Surjection
<1>9. DOMAIN plan.order = Agents
  BY <1>7 DEF Bijection, Injection
<1>10. PICK i \in next : turns[i].speaker = a
  BY <1>6, <1>8, <1>9 DEF MadeInOrder, Surjection
<1>11. Id(turns[i]) = <<r + 1, a>>
  BY <1>10 DEF Id
<1> QED BY <1>10, <1>11 DEF TurnNamed

\* Replay accepts a run that ended with a tidy log unless it misreads it.
LEMMA EndReplays ==
  ASSUME NEW e, NEW status, Ending(e, status), Begun(log)
  PROVE  Replays(log', turns', status) <=> ~Misread'
<1> USE EndingFacts
<1>1. ASSUME ~Misread'
      PROVE  Replays(log', turns, status)
  <2>1. NoneOwn
    BY <1>1 DEF Misread, NoneOwn
  <2> QED BY <1>1, <2>1, EndingEnvelope, EndingVisible, EndingPlanEvents, EndingShown DEF Replays
<1>2. ASSUME Replays(log', turns, status)
      PROVE  ~Misread'
  <2>1. NoneOwn
    BY <1>2, RefusesOwn DEF Replays
  <2>2. \A r \in applied : plans[r].action = "restructure" /\ r + 1 \in Rounds =>
          \A a \in Agents : TurnNamed(turns, <<r + 1, a>>)
    BY <1>2, RefusesBroken DEF Replays
  <2> QED BY <2>1, <2>2 DEF Misread, NoneOwn
<1> QED BY <1>1, <1>2

-----------------------------------------------------------------------------
(* What a run has written when it ends. *)

\* A step that writes an event that does not end the run.
WritesOn == /\ at \in Running /\ ~LogFails
            /\ \E e : e.type \notin Terminal /\ Wrote(e, e.type, e.who)

\* What a step does to the log.
LEMMA LogOfStep ==
  ASSUME TypeOK, StageInv, PlansInv, [Next]_vars
  PROVE  \/ UNCHANGED <<log, sequence>> /\ ~LogFails
         \/ LogFails /\ log' = log /\ sequence' = sequence + 1
         \/ Finish /\ \E e : Wrote(e, "run_completed", 0)
         \/ RecordFailure /\ \E e : Wrote(e, "run_failed", 0)
         \/ WritesOn
<1> USE DEF Running, Opening, Asking
<1>1. ASSUME NEW e, NEW type, NEW who, Wrote(e, type, who), type \notin Terminal,
             at \in Running, ~LogFails
      PROVE  WritesOn
  <2>1. e.type = type /\ e.who = who
    BY <1>1 DEF Wrote
  <2> QED BY <1>1, <2>1 DEF WritesOn
<1>2. LogFails => log' = log /\ sequence' = sequence + 1
  BY StepSilent
<1>3. CASE StartRound \/ CloseRound
  <2>1. at \in Running
    BY <1>3 DEF StartRound, CloseRound
  <2>2. PICK e : \E type \in {"round_started", "round_completed"} : Wrote(e, type, 0)
    BY <1>3, StepWrites
  <2> QED BY <1>1, <1>2, <2>1, <2>2 DEF Terminal
<1>4. CASE SeePlan \/ ApplyPlan \/ RejectPlan
  <2>1. at \in Running
    BY <1>4 DEF SeePlan, ApplyPlan, RejectPlan
  <2>2. PICK e : \E type \in {"plan_seen", "plan_applied", "plan_rejected"} : Wrote(e, type, 0)
    BY <1>4, StepWrites
  <2> QED BY <1>1, <1>2, <2>1, <2>2 DEF Terminal
<1>5. CASE Expose \/ Request \/ LogResponse \/ LogTurn
  <2>1. at \in Running
    BY <1>5 DEF Expose, Request, LogResponse, LogTurn
  <2>2. PICK e : \E type \in Sights : Wrote(e, type, Agent)
    BY <1>5, StepWrites DEF Sights
  <2> QED BY <1>1, <1>2, <2>1, <2>2 DEF Terminal, Sights
<1>6. CASE LogEffect
  <2>1. at \in Running
    BY <1>6 DEF LogEffect
  <2>2. CASE ThePlan.action = "no_op"
    BY <1>2, <1>6, <2>2, StepSilent
  <2>3. CASE ThePlan.action # "no_op"
    <3>1. PICK e : e.type \in Effects /\ Wrote(e, e.type, 0)
      BY <1>6, <2>3, StepWrites
    <3> QED BY <1>1, <1>2, <2>1, <3>1 DEF Terminal, Effects
  <2> QED BY <2>2, <2>3
<1>7. CASE Finish \/ RecordFailure
  BY <1>7, StepWrites
<1>8. CASE NoPlanHere \/ MakeViews \/ Answer \/ ProviderFails \/ WriteRecord \/ WriteSchedule
           \/ RecordFails \/ ScheduleFails \/ UNCHANGED vars
  BY <1>2, <1>8, StepSilent
<1>9. CASE LogFails
  BY <1>2, <1>9
<1> QED BY <1>3, <1>4, <1>5, <1>6, <1>7, <1>8, <1>9 DEF Next

\* The log keeps its start and what it has of a type, and its length and that of
\* what was to be written.
LEMMA LogKept ==
  ASSUME TypeOK, StageInv, PlansInv, Begun(log), Len(log) <= sequence, [Next]_vars
  PROVE  /\ Begun(log') /\ Len(log') <= sequence'
         /\ \A types : Of(log, types) \subseteq Of(log', types)
         /\ Undisturbed' => Undisturbed
         /\ WritesOn => Of(log', Terminal) = Of(log, Terminal)
                        /\ (sequence = Len(log) => sequence' = Len(log'))
<1>1. log \in Seq(LogEvent) /\ Len(log) \in Nat /\ sequence \in Nat
  BY DEF TypeOK
<1>2. ASSUME NEW e, NEW type, NEW who, Wrote(e, type, who)
      PROVE  /\ Len(log') = Len(log) + 1 /\ sequence' = sequence + 1
             /\ Begun(log') /\ \A types : Of(log, types) \subseteq Of(log', types)
             /\ type \notin Terminal => Of(log', Terminal) = Of(log, Terminal)
  <2>1. e \in LogEvent /\ log' = Append(log, e) /\ sequence' = sequence + 1 /\ e.type = type
    BY <1>2 DEF Wrote
  <2>2. /\ Len(log') = Len(log) + 1 /\ DOMAIN log' = DOMAIN log \cup {Len(log) + 1}
        /\ DOMAIN log = 1..Len(log) /\ \A i \in DOMAIN log : log'[i] = log[i]
    BY <1>1, <2>1, Appended
  <2>3. log # <<>> => 1 \in DOMAIN log
    BY <1>1, <2>2, EmptySeq
  <2>4. Begun(log')
    BY <1>1, <2>2, <2>3 DEF Begun
  <2>5. \A types : Of(log, types) \subseteq Of(log', types)
    BY <2>2 DEF Of
  <2>6. type \notin Terminal => Of(log', Terminal) = Of(log, Terminal)
    BY <1>1, <2>1, OfAppended
  <2> QED BY <2>1, <2>2, <2>4, <2>5, <2>6
<1>3. CASE UNCHANGED <<log, sequence>> /\ ~LogFails
  <2>1. ~WritesOn
    <3> SUFFICES ASSUME NEW e, NEW type, NEW who, Wrote(e, type, who) PROVE FALSE
      BY DEF WritesOn
    <3> QED BY <1>1, <1>2, <1>3
  <2> QED BY <1>3, <2>1 DEF Undisturbed
<1>4. CASE LogFails /\ log' = log /\ sequence' = sequence + 1
  BY <1>1, <1>4 DEF Undisturbed, WritesOn
<1>5. CASE \E e, type, who : Wrote(e, type, who)
  <2>1. PICK e, type, who : Wrote(e, type, who)
    BY <1>5
  <2>2. WritesOn => Of(log', Terminal) = Of(log, Terminal)
    BY <1>2 DEF WritesOn
  <2> QED BY <1>1, <1>2, <2>1, <2>2 DEF Undisturbed
<1>6. WritesOn => \E e, type, who : Wrote(e, type, who)
  BY DEF WritesOn
<1> QED BY <1>3, <1>4, <1>5, <1>6, LogOfStep

\* Once the end of a run was written, what it did is left as it is.
LEMMA AfterStays ==
  ASSUME TypeOK, StageInv, PlansInv, at \in AfterTerminal, [Next]_vars
  PROVE  /\ at' \in AfterTerminal /\ UNCHANGED <<turns, plans, applied>>
         /\ ~WritesOn /\ ~Finish
BY DEF AfterTerminal, WritesOn, Running, Opening, Asking, Next, vars, StartRound, NoPlanHere,
      SeePlan, ApplyPlan, RejectPlan, LogEffect, MakeViews, Expose, Request, Answer, ProviderFails,
      LogResponse, LogTurn, CloseRound, Finish, WriteRecord, WriteSchedule, LogFails,
      Escape, RecordFails, ScheduleFails, RecordFailure

\* What is known of a step of a run.
RepFacts == RunInv /\ ShownInv /\ RepInv /\ [Next]_vars

\* Of it, what most proofs need.
LEMMA RepTypes ==
  ASSUME RepFacts
  PROVE  /\ TypeOK /\ StageInv /\ PlansInv /\ Begun(log) /\ Len(log) <= sequence
         /\ log \in Seq(LogEvent) /\ Len(log) \in Nat /\ sequence \in Nat /\ [Next]_vars
BY DEF RepFacts, RunInv, RepInv, TypeOK

\* A run that goes on has lost no event.
LEMMA UndisturbedStep == RepFacts /\ at' \in Running => Undisturbed'
<1> SUFFICES ASSUME RepFacts, at' \in Running PROVE Undisturbed'
  OBVIOUS
<1> USE RepTypes
<1>1. at \in Running /\ ~LogFails /\ ~Finish /\ ~RecordFailure
  BY DEF Running, Opening, Asking, Next, vars, StartRound, NoPlanHere,
      SeePlan, ApplyPlan, RejectPlan, LogEffect, MakeViews, Expose, Request, Answer, ProviderFails,
      Called, LogResponse, LogTurn, CloseRound, Finish, WriteRecord, WriteSchedule, LogFails,
      Escape, RecordFails, ScheduleFails, RecordFailure
<1>2. Undisturbed
  BY <1>1 DEF RepFacts, RepInv
<1>3. CASE UNCHANGED <<log, sequence>>
  BY <1>2, <1>3 DEF Undisturbed
<1>4. CASE WritesOn
  BY <1>2, <1>4, LogKept DEF Undisturbed
<1> QED BY <1>1, <1>3, <1>4, LogOfStep

\* What is written at the end is in the log.
LEMMA EndWritten ==
  ASSUME TypeOK
  PROVE  \A type \in Terminal : (\E e : Wrote(e, type, 0)) => Of(log', {type}) # {}
<1> SUFFICES ASSUME NEW type \in Terminal, NEW e, Wrote(e, type, 0)
             PROVE  Of(log', {type}) # {}
  OBVIOUS
<1> QED BY WrotePlaces

\* A record follows the end of its run in the log, and only its writing follows that.
LEMMA TerminalStep ==
  ASSUME RepFacts
  PROVE  /\ at' \in {"record", "schedule", "done"} => Of(log', {"run_completed"}) # {}
         /\ at' \in {"failed_record", "failed_schedule"} => Of(log', {"run_failed"}) # {}
         /\ record' = "completed" => Of(log', {"run_completed"}) # {}
         /\ record' = "failed" => Of(log', {"run_failed"}) # {}
         /\ Of(log', Terminal) # {} => at' \in AfterTerminal
<1> USE RepTypes
<1>1. \A types : Of(log, types) # {} => Of(log', types) # {}
  BY LogKept
<1>2. \A type \in Terminal : (\E e : Wrote(e, type, 0)) => Of(log', {type}) # {}
  BY EndWritten
<1>3. /\ Finish => Of(log', {"run_completed"}) # {}
      /\ RecordFailure => Of(log', {"run_failed"}) # {}
  BY <1>2, StepWrites DEF Terminal
<1>4. /\ at' \in {"record", "schedule", "done"} =>
           Finish \/ at \in {"record", "schedule", "done"}
      /\ at' \in {"failed_record", "failed_schedule"} =>
           RecordFailure \/ at \in {"failed_record", "failed_schedule"}
  <2>1. CASE WriteRecord
    BY <2>1 DEF WriteRecord
  <2>2. CASE RecordFails \/ WriteSchedule \/ ScheduleFails \/ LogFails
    BY <2>2 DEF RecordFails, WriteSchedule, ScheduleFails, LogFails, Escape
  <2>3. CASE \/ StartRound \/ NoPlanHere \/ SeePlan \/ ApplyPlan \/ RejectPlan \/ LogEffect
             \/ MakeViews \/ Expose \/ Request
    BY <2>3 DEF StartRound, NoPlanHere, SeePlan, ApplyPlan, RejectPlan, LogEffect, MakeViews,
        Expose, Request
  <2>4. CASE Answer \/ ProviderFails \/ LogResponse \/ LogTurn \/ CloseRound \/ UNCHANGED vars
    BY <2>4 DEF Answer, ProviderFails, Called, LogResponse, LogTurn, CloseRound, vars
  <2>5. CASE Finish \/ RecordFailure
    BY <2>5 DEF Finish, RecordFailure
  <2> QED BY <2>1, <2>2, <2>3, <2>4, <2>5 DEF Next
<1>5. /\ record' = "completed" => record = "completed" \/ at = "record"
      /\ record' = "failed" => record = "failed" \/ at = "failed_record"
  <2>1. CASE WriteRecord
    BY <2>1 DEF WriteRecord
  <2>2. CASE RecordFails
    BY <2>2 DEF RecordFails
  <2>3. CASE ~WriteRecord /\ ~RecordFails
    <3>1. record' = record
      BY <2>3 DEF Next, vars, StartRound, NoPlanHere,
          SeePlan, ApplyPlan, RejectPlan, LogEffect, MakeViews, Expose, Request, Answer,
          ProviderFails, LogResponse, LogTurn, CloseRound, Finish, WriteSchedule, LogFails,
          ScheduleFails, RecordFailure
    <3> QED BY <3>1
  <2> QED BY <2>1, <2>2, <2>3
<1>6. /\ at \in {"record", "schedule", "done"} => Of(log, {"run_completed"}) # {}
      /\ at \in {"failed_record", "failed_schedule"} => Of(log, {"run_failed"}) # {}
      /\ record = "completed" => Of(log, {"run_completed"}) # {}
      /\ record = "failed" => Of(log, {"run_failed"}) # {}
  BY DEF RepFacts, RepInv
<1>7. ASSUME Of(log', Terminal) # {} PROVE at' \in AfterTerminal
  <2>1. CASE Of(log, Terminal) # {}
    <3>1. at \in AfterTerminal
      BY <2>1 DEF RepFacts, RepInv
    <3> QED BY <3>1, AfterStays
  <2>2. CASE Of(log, Terminal) = {}
    <3>1. Finish \/ RecordFailure
      BY <1>7, <2>2, LogOfStep, LogKept
    <3> QED BY <3>1 DEF Finish, RecordFailure, AfterTerminal
  <2> QED BY <2>1, <2>2
<1> QED BY <1>1, <1>3, <1>4, <1>5, <1>6, <1>7

\* A run that nothing has gone wrong with in writing keeps a tidy log.
LEMMA TidyStep ==
  ASSUME RepFacts, Undisturbed', at' \in Running \cup {"failing"}
  PROVE  TidyLog'
<1> USE RepTypes
<1>1. Undisturbed
  BY LogKept
<1>2. at \notin {"record", "schedule", "done"}
  <2>1. Of(log, {"run_completed"}) \subseteq Of(log, Terminal)
    BY DEF Of, Terminal
  <2> QED BY <1>1, <2>1 DEF RepFacts, RepInv, Undisturbed
<1>3. at \in Running \cup {"failing"}
  <2>1. at \in {"failed_record", "failed_schedule", "raised"} =>
          at' \in {"failed_record", "failed_schedule", "raised"}
    BY DEF Next, vars, StartRound, NoPlanHere,
        SeePlan, ApplyPlan, RejectPlan, LogEffect, MakeViews, Expose, Request, Answer,
        ProviderFails, LogResponse, LogTurn, CloseRound, Finish, WriteRecord, WriteSchedule, LogFails,
        Writing, Escape, RecordFails, ScheduleFails, RecordFailure
  <2>2. at \in Places
    BY DEF TypeOK
  <2> QED BY <1>2, <2>1, <2>2 DEF Running, Opening, Asking, Places
<1>4. TidyLog
  BY <1>1, <1>3 DEF RepFacts, RepInv
<1> QED BY <1>1, <1>3, <1>4, TidyLogStep DEF Undisturbing, RepFacts

\* The number of the event that ends a run is its place if none is missing, and
\* it is the first of its kind.
LEMMA WholeAtEnd ==
  ASSUME RepFacts, NEW type \in Terminal, NEW e, Wrote(e, type, 0), LogWhole'
  PROVE  Undisturbed
<1> USE RepTypes
<1>1. e \in LogEvent /\ log' = Append(log, e) /\ e.sequence = sequence + 1 /\ e.type = type
  BY DEF Wrote
<1>2. /\ DOMAIN log' = DOMAIN log \cup {Len(log) + 1} /\ log'[Len(log) + 1] = e
      /\ Of(log', Terminal) = Of(log, Terminal) \cup {Len(log) + 1}
      /\ \A k \in Of(log, Terminal) : k < Len(log) + 1
  BY <1>1, Appended, OfAppended
<1>3. sequence = Len(log)
  <2>1. e.sequence = Len(log) + 1
    BY <1>2 DEF LogWhole
  <2> QED BY <1>1, <2>1
<1>4. Of(log, Terminal) = {}
  <2>1. Cardinality(Of(log', Terminal)) = 1
    BY DEF LogWhole, Terminal
  <2>2. IsFiniteSet(Of(log', Terminal))
    <3>1. log' \in Seq(LogEvent) /\ DOMAIN log' = 1..Len(log') /\ Len(log') \in Nat
      BY <1>1, Appended
    <3>2. IsFiniteSet(1..Len(log'))
      BY <3>1, FS_Interval
    <3>3. Of(log', Terminal) \subseteq 1..Len(log')
      BY <3>1 DEF Of
    <3> QED BY <3>2, <3>3, FS_Subset
  <2>3. PICK only : Of(log', Terminal) = {only}
    BY <2>1, <2>2, FS_Singleton
  <2>4. only = Len(log) + 1
    BY <1>2, <2>3
  <2> SUFFICES ASSUME NEW k \in Of(log, Terminal) PROVE FALSE
    OBVIOUS
  <2>5. k = Len(log) + 1 /\ k < Len(log) + 1
    BY <1>2, <2>3, <2>4
  <2> QED BY <2>5
<1> QED BY <1>3, <1>4 DEF Undisturbed

\* Of a run that ends, replay judges as it is to.
LEMMA VerdictAtEnd ==
  ASSUME RepFacts, NEW e, NEW ending, Ending(e, ending), NEW status \in {"completed", "failed"},
         Of(log', {IF status = "completed" THEN "run_completed" ELSE "run_failed"}) # {}
  PROVE  Replays(log', turns', status) <=> ~Misread'
<1>1. Of(log', Terminal) = {Len(log')} /\ log'[Len(log')] = e
  BY EndingAdds
<1>2. PICK k : k \in Of(log', {IF status = "completed" THEN "run_completed" ELSE "run_failed"})
  OBVIOUS
<1>3. k \in Of(log', Terminal)
  BY <1>2 DEF Of, Terminal
<1>4. e.type = IF status = "completed" THEN "run_completed" ELSE "run_failed"
  BY <1>1, <1>2, <1>3 DEF Of
<1>5. status = ending
  BY <1>4, EndingFacts
<1> QED BY <1>5, RepTypes, EndReplays

\* The verdict is right when the end is written and stays so.
LEMMA VerdictStep == RepFacts => Verdict'
<1> SUFFICES ASSUME RepFacts, Of(log', Terminal) # {}, LogWhole',
                    NEW status \in {"completed", "failed"},
                    Of(log', {IF status = "completed" THEN "run_completed" ELSE "run_failed"}) # {}
             PROVE  (Replays(log, turns, status) <=> ~Misread)'
  BY DEF Verdict, RepFacts
<1> USE RepTypes
<1>1. CASE Finish
  <2>1. PICK e : Wrote(e, "run_completed", 0)
    BY <1>1, StepWrites
  <2>2. at = "finish" /\ UNCHANGED <<turns, plans, applied>>
    BY <1>1 DEF Finish
  <2>3. Undisturbed /\ TidyLog
    BY <2>2 DEF RepFacts, RepInv, Running
  <2>4. Ending(e, "completed")
    BY <2>1, <2>2, <2>3 DEF Ending, RepFacts
  <2> QED BY <2>4, VerdictAtEnd
<1>2. CASE RecordFailure
  <2>1. PICK e : Wrote(e, "run_failed", 0)
    BY <1>2, StepWrites
  <2>2. at = "failing" /\ UNCHANGED <<turns, plans, applied>>
    BY <1>2 DEF RecordFailure
  <2>3. Undisturbed
    BY <2>1, WholeAtEnd DEF Terminal
  <2>4. TidyLog
    BY <2>2, <2>3 DEF RepFacts, RepInv
  <2>5. Ending(e, "failed")
    BY <2>1, <2>2, <2>3, <2>4 DEF Ending, RepFacts
  <2> QED BY <2>5, VerdictAtEnd
<1>3. CASE log' = log /\ ~Finish /\ ~RecordFailure
  <2>1. Of(log, Terminal) # {}
    BY <1>3
  <2>2. at \in AfterTerminal
    BY <2>1 DEF RepFacts, RepInv
  <2>3. UNCHANGED <<turns, plans, applied>>
    BY <2>2, AfterStays
  <2>4. LogWhole
    BY <1>3 DEF LogWhole
  <2>5. Replays(log, turns, status) <=> ~Misread
    BY <1>3, <2>1, <2>4 DEF RepFacts, RepInv, Verdict
  <2>6. Misread' <=> Misread
    BY <1>3, <2>3 DEF Misread, TurnNamed
  <2> QED BY <1>3, <2>3, <2>5, <2>6
<1>4. CASE WritesOn
  <2>1. Of(log, Terminal) # {}
    BY <1>4, LogKept
  <2>2. Undisturbed
    BY <1>4 DEF WritesOn, RepFacts, RepInv
  <2> QED BY <2>1, <2>2 DEF Undisturbed
<1> QED BY <1>1, <1>2, <1>3, <1>4, LogOfStep

\* The invariant is kept by every step.
LEMMA RepStep == RepFacts => RepInv'
<1> SUFFICES ASSUME RepFacts PROVE RepInv'
  OBVIOUS
<1>1. Begun(log') /\ Len(log') <= sequence'
  BY RepTypes, LogKept
<1>2. Verdict'
  BY VerdictStep
<1> QED BY <1>1, <1>2, UndisturbedStep, TerminalStep, TidyStep DEF RepInv, Begun

\* So is what holds whatever becomes of the log.
LEMMA ShownStep ==
  ASSUME RunInv, ShownInv, [Next]_vars
  PROVE  ShownInv'
BY PeersNamedStep, HistoryStep, TurnsOrderedStep, SightsFitStep DEF RunInv, ShownInv

\* And both hold of the log that has run_started alone.
LEMMA InitRep == Init => ShownInv /\ RepInv
<1> SUFFICES ASSUME Init PROVE ShownInv /\ RepInv
  OBVIOUS
<1>1. TypeOK /\ round = 0 /\ at = "round" /\ asked = 0 /\ turns = <<>> /\ applied = {}
      /\ record = "none" /\ sequence = 1
  BY InitTypes DEF Init
<1>2. /\ Len(log) = 1 /\ DOMAIN log = {1} /\ log[1].type = "run_started"
      /\ log[1].sequence = 1
  <2>1. log = <<NewEvent("run_started", 0, 0, 1)>>
    BY DEF Init
  <2> QED BY <2>1 DEF NewEvent
<1>3. \A types : "run_started" \notin types => Of(log, types) = {}
  BY <1>2 DEF Of
<1>4. /\ Of(log, Terminal) = {} /\ Of(log, Sights) = {} /\ Of(log, PlanEvents) = {}
      /\ Of(log, Once) = {}
  BY <1>3 DEF Terminal, Sights, PlanEvents, Effects, Once
<1>5. \A type : type # "run_started" => RoundsOf(log, type) = {} /\ PairsOf(log, type) = {}
  BY <1>3 DEF RoundsOf, PairsOf
<1>6. ShownInv
  BY <1>1, <1>4 DEF ShownInv, PeersNamed, HistoryNamed, TurnsOrdered, SightsFit, Asking
<1>7. TidyLog
  <2>1. Numbered(log) /\ SingleIn(log) /\ AskedFirst(log)
    BY <1>2, <1>3, <1>4 DEF Numbered, SingleIn, AskedFirst
  <2>2. SightsAgree
    BY <1>1, <1>4 DEF SightsAgree, Asking
  <2>3. PlanLog
    <3>1. PlanEventsValid(log)
      BY <1>3 DEF PlanEventsValid, Effects
    <3>2. RoundsOf(log, "plan_applied") = {}
      BY <1>5
    <3> QED BY <1>1, <1>4, <3>1, <3>2 DEF PlanLog
  <2>4. RoundLog
    <3>1. RoundsOf(log, "round_started") = {} /\ RoundsOf(log, "round_completed") = {}
      BY <1>5
    <3> QED BY <1>1, <3>1 DEF RoundLog
  <2>5. AgentLog
    <3>1. UpTo(0) = {}
      BY <1>1 DEF UpTo
    <3>2. /\ PairsOf(log, "exposure_created") = {} /\ PairsOf(log, "llm_request") = {}
          /\ PairsOf(log, "llm_response") = {} /\ PairsOf(log, "turn_completed") = {}
      BY <1>5
    <3>3. Exposed = 0 /\ Requested = 0 /\ Responded = 0 /\ Told = 0
      BY <1>1 DEF Exposed, Requested, Responded, Told, Opening, Asking
    <3> QED BY <1>1, <3>1, <3>2, <3>3 DEF AgentLog
  <2> QED BY <2>1, <2>2, <2>3, <2>4, <2>5 DEF TidyLog
<1>8. Begun(log) /\ Len(log) <= sequence /\ Undisturbed
  BY <1>1, <1>2, <1>4 DEF Begun, Undisturbed
<1>9. Verdict
  BY <1>4 DEF Verdict
<1> QED BY <1>1, <1>4, <1>6, <1>7, <1>8, <1>9 DEF RepInv

\* The inductive invariant behind the replay of what was recorded.
LEMMA RepInvariant == Spec => [](RunInv /\ ShownInv /\ RepInv)
<1>1. Init => RunInv /\ ShownInv /\ RepInv
  BY InitRun, InitRep
<1>2. RunInv /\ ShownInv /\ RepInv /\ [Next]_vars => (RunInv /\ ShownInv /\ RepInv)'
  BY RunStep, ShownStep, RepStep DEF RepFacts
<1> QED BY <1>1, <1>2, PTL DEF Spec

\* A run that has ended with a record, completed or failed, and with every event
\* in its log, passes replay validation just when it is not one that replay
\* misreads: what run() writes and what replay_core.py and replay_controlled.py
\* ask for agree, whatever failed on the way.
THEOREM RecordedAlwaysReplay == Spec => []RecordedReplays
<1>1. RepInv => RecordedReplays
  <2> SUFFICES ASSUME RepInv, record \in {"completed", "failed"}, LogWhole
               PROVE  Replays(log, turns, record) <=> ~Misread
    BY DEF RecordedReplays
  <2>1. Of(log, {IF record = "completed" THEN "run_completed" ELSE "run_failed"}) # {}
    BY DEF RepInv
  <2>2. Of(log, Terminal) # {}
    BY <2>1 DEF Of, Terminal
  <2> QED BY <2>1, <2>2 DEF RepInv, Verdict
<1> QED BY <1>1, RepInvariant, PTL
=============================================================================
