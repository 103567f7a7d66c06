---------------------------- MODULE CascadeRounds ----------------------------
(***************************************************************************)
(* The rounds of one cascade (CascadeRealAgentRunner.run_scenario, with    *)
(* the exposure of cascade_protocol.py and cascade_hg1_replay.py and the   *)
(* interventions of cascade_intervention_application.py) as operators on   *)
(* what the process holds in memory.  A resumed run holds nothing: it goes *)
(* through the rounds again, from the answers it finds in its checkpoint,  *)
(* and must come to the very requests it sent before.                      *)
(*                                                                         *)
(* Content is abstracted to who shared it: an agent sees the actors whose  *)
(* share reached it.  Content that is there from the start, or published   *)
(* in a round by the scenario, is the same in every launch and left out.   *)
(***************************************************************************)
EXTENDS Naturals, Sequences, FiniteSets

CONSTANTS Runs,
          AgentOrder,     \* scenario.agent_ids
          Rounds,         \* scenario.max_rounds
          Targets,        \* [agent -> whom its propagation slot reaches]
          Policy          \* [run -> the views its controller proposes upon]

Agents == {AgentOrder[i] : i \in DOMAIN AgentOrder}

ASSUME RoundsAssumption ==
  /\ AgentOrder \in Seq(Agents) /\ AgentOrder # <<>>
  /\ Cardinality(Agents) = Len(AgentOrder)
  /\ Rounds \in Nat \ {0}
  /\ Targets \in [Agents -> SUBSET Agents]
  /\ Policy \in [Runs -> SUBSET SUBSET Agents]

(* A request is what its fingerprint covers: the coordinate, what the agent  *)
(* sees and whether it carries a directive.                                  *)
Requests == [run : Runs, agent : Agents, round : 0..(Rounds - 1),
             seen : SUBSET Agents, told : BOOLEAN]

(* What is in memory: the round and the agent next in it, the actors of the  *)
(* exposure events, the shares among round_responses, and the directives     *)
(* applied to this round.                                                    *)
Afresh == [round |-> 0, next |-> 1, shared |-> {}, sharing |-> {}, told |-> {}]

Done(mem) == mem.round = Rounds

(* build_round_snapshot: nothing of this round. *)
View(shared, a) == {b \in shared : a \in Targets[b]}

Pending(run, mem) ==
  LET a == AgentOrder[mem.next]
  IN  [run |-> run, agent |-> a, round |-> mem.round,
       seen |-> View(mem.shared, a), told |-> a \in mem.told]

(* A slot opens only for the actor that shared the parent it is declared     *)
(* with, and slots are declared for round 0.                                 *)
Propagated(mem, sharing) == IF mem.round = 0 THEN {a \in sharing : Targets[a] # {}} ELSE {}

(* What the controller proposes upon the snapshots of a round is scheduled   *)
(* for the next one and applied when that begins.                            *)
Directed(run, mem) ==
  IF mem.round < Rounds - 1 THEN {a \in Agents : View(mem.shared, a) \in Policy[run]} ELSE {}

EndRound(run, mem, sharing) ==
  [round |-> mem.round + 1, next |-> 1, sharing |-> {},
   shared |-> mem.shared \cup Propagated(mem, sharing),
   told |-> Directed(run, mem)]

Answered(mem, share) ==
  mem.sharing \cup IF share THEN {AgentOrder[mem.next]} ELSE {}

\* A slip: a share is appended to the events as soon as it is answered.
AdvanceAtOnce(run, mem, share) ==
  LET now == [mem EXCEPT !.shared = @ \cup Propagated(mem, Answered(mem, share))]
  IN  IF mem.next < Len(AgentOrder)
      THEN [now EXCEPT !.next = @ + 1]
      ELSE EndRound(run, now, {})

(* An answer is taken, cached or fresh; the last one ends its round.         *)
Advance(run, mem, share) ==
  IF mem.next < Len(AgentOrder)
  THEN [mem EXCEPT !.next = @ + 1, !.sharing = Answered(mem, share)]
  ELSE EndRound(run, mem, Answered(mem, share))
=============================================================================
