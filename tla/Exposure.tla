------------------------------ MODULE Exposure ------------------------------
(***************************************************************************)
(* What an agent may see in a round (exposure.py): its own turns, those of *)
(* its peers in earlier rounds where the protocol is social, the evidence  *)
(* introduced by then where it gives evidence.  A turn is named by its     *)
(* round and speaker; its text is left out.                                *)
(***************************************************************************)
EXTENDS Naturals, Sequences, SequencesExt

CONSTANTS AgentCount,
          Cards,        \* evidence cards
          Introduced,   \* [Cards -> the round that brings the card]
          Audience      \* [Cards -> the agents that may see it]

Agents == 1..AgentCount

ASSUME ExposureAssumption ==
  /\ AgentCount \in Nat \ {0}
  /\ Introduced \in [Cards -> Nat]
  /\ Audience \in [Cards -> SUBSET Agents]

Social == {"social_only", "evidence_social"}
Evidential == {"evidence_only", "evidence_social"}
Protocols == {"independent"} \cup Social \cup Evidential

TurnIds == Nat \X Agents

View == [peers : SUBSET TurnIds, evidence : SUBSET Cards, history : SUBSET TurnIds]
NoView == [peers |-> {}, evidence |-> {}, history |-> {}]

Turn == [round : Nat, speaker : Agents, peers : SUBSET TurnIds,
         evidence : SUBSET Cards]

Id(turn) == <<turn.round, turn.speaker>>

AllIds(turns) == {Id(turns[i]) : i \in DOMAIN turns}

OwnIds(turns, agent) == {id \in AllIds(turns) : id[2] = agent}

EarlierPeers(turns, agent, round) ==
  {id \in AllIds(turns) : id[1] < round /\ id[2] # agent}

PeersFor(protocol, turns, agent, round) ==
  IF protocol \in Social THEN EarlierPeers(turns, agent, round) ELSE {}

Available(round) == {card \in Cards : Introduced[card] <= round}

Granted(agent, round) == {card \in Available(round) : agent \in Audience[card]}

EvidenceFor(protocol, agent, round) ==
  IF protocol \in Evidential THEN Granted(agent, round) ELSE {}

Snapshot(protocol, turns, agent, round) ==
  LET peers == PeersFor(protocol, turns, agent, round)
  IN  [peers |-> peers, evidence |-> EvidenceFor(protocol, agent, round),
       history |-> peers \cup OwnIds(turns, agent)]
=============================================================================
