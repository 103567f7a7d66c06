------------------------ MODULE MeasurementProtocol ------------------------
(***************************************************************************)
(* What a measured condition promises (the fixed sequence run() names): a  *)
(* full baseline, then every turn of one trajectory, then the same probes  *)
(* again, then one publication, which is final.  Nothing here fails or     *)
(* restarts; a run that breaks off just stays where it is.                 *)
(***************************************************************************)
EXTENDS Naturals

CONSTANTS Runs, ProbeCount, TurnCount

Probes == 1..ProbeCount

VARIABLES baseline,   \* [run -> baseline probes answered]
          spoken,     \* [run -> turns the agents have taken]
          final,      \* [run -> final probes answered]
          published   \* [run -> the measurement is out]

vars == <<baseline, spoken, final, published>>

Init ==
  /\ baseline = [run \in Runs |-> {}]
  /\ spoken = [run \in Runs |-> 0]
  /\ final = [run \in Runs |-> {}]
  /\ published = [run \in Runs |-> FALSE]

HearBaseline(run) ==
  /\ spoken[run] = 0
  /\ \E i \in Probes \ baseline[run] :
       baseline' = [baseline EXCEPT ![run] = @ \cup {i}]
  /\ UNCHANGED <<spoken, final, published>>

Speak(run) ==
  /\ baseline[run] = Probes /\ spoken[run] < TurnCount
  /\ spoken' = [spoken EXCEPT ![run] = @ + 1]
  /\ UNCHANGED <<baseline, final, published>>

HearFinal(run) ==
  /\ spoken[run] = TurnCount
  /\ \E i \in Probes \ final[run] : final' = [final EXCEPT ![run] = @ \cup {i}]
  /\ UNCHANGED <<baseline, spoken, published>>

Publish(run) ==
  /\ final[run] = Probes /\ ~published[run]
  /\ published' = [published EXCEPT ![run] = TRUE]
  /\ UNCHANGED <<baseline, spoken, final>>

Next == \E run \in Runs :
  HearBaseline(run) \/ Speak(run) \/ HearFinal(run) \/ Publish(run)

Spec == Init /\ [][Next]_vars
=============================================================================
