---------------------- MODULE CascadeCalibration_proofs ----------------------
(***************************************************************************)
(* Proofs about CascadeCalibration, for any runs, agents, rounds, targets, *)
(* policies and faults: its three safety invariants, from one inductive    *)
(* invariant.  At its heart are two facts.  A request is in the ledger of  *)
(* its run only when everything before it in the rounds is kept, so that   *)
(* the answers an agent's view is made of never change after it is asked;  *)
(* and what a process holds in memory is what those answers make of it,    *)
(* whether they came to it or out of the checkpoint.                       *)
(***************************************************************************)
EXTENDS CascadeCalibration, Sums_proofs, TLAPS, FiniteSetTheorems, SequenceTheorems

-----------------------------------------------------------------------------
(* The invariant: types. *)

Steps == {"closed", "create", "loop", "ask", "sent", "audit", "judge", "save",
          "recorded", "failing", "complete", "final"}

\* Where the memory of the rounds is in use, and where a request is in hand.
Asked == {"sent", "audit", "judge", "save"}
Walking == Asked \cup {"ask"}

Logs == {"ledger", "audit", "decisions"}

Memory == [round : 0..Rounds, next : DOMAIN AgentOrder, shared : SUBSET Agents,
           sharing : SUBSET Agents, told : SUBSET Agents]

Session == [at : Steps, resume : BOOLEAN, amended : BOOLEAN,
            index : 1..(Len(RunOrder) + 1), mem : Memory, calls : Nat,
            answer : Answers, code : {"none", "timeout", "other"}]

Types ==
  /\ ledger \in [Runs -> Seq(Receipt)]
  /\ audit \in [Runs -> Seq([req : Requests, cut : BOOLEAN])]
  /\ decisions \in [Runs -> SUBSET Requests]
  /\ checkpoint \in [Runs -> SUBSET [req : Requests, share : BOOLEAN]]
  /\ torn \in [Runs -> SUBSET Logs]
  /\ session \in Session
  /\ said \in SUBSET [req : Requests, share : BOOLEAN, cut : BOOLEAN]
  /\ root \in BOOLEAN

-----------------------------------------------------------------------------
(* The invariant: the logs. *)

\* A place in the rounds that comes before another.
Before(rd, a, round, next) ==
  \/ rd < round
  \/ rd = round /\ \E i \in DOMAIN AgentOrder : i < next /\ AgentOrder[i] = a

KeptUpTo(run, round, next) ==
  \A a \in Agents, rd \in 0..(Rounds - 1) :
    Before(rd, a, round, next) => \E q \in Kept(run) : q.agent = a /\ q.round = rd

\* What SeenFromEarlierRounds says of one request.
AsSeen(r) ==
  /\ r.seen = Reached(r.run, r.agent, r.round)
  /\ r.told <=> r.round > 0 /\ Reached(r.run, r.agent, r.round - 1) \in Policy[r.run]

\* Everything before the place of a request is kept.
Follows(run, r) ==
  \E n \in DOMAIN AgentOrder : AgentOrder[n] = r.agent /\ KeptUpTo(run, r.round, n)

\* Every request in a ledger is its run's, shows what it should, and follows on what is kept.
LedgerOK(run) ==
  \A i \in DOMAIN ledger[run] :
    LET r == ledger[run][i].req IN r.run = run /\ AsSeen(r) /\ Follows(run, r)

\* An attempt that was completed is the last of its request.
AttemptsOK(run) ==
  \A r \in Requests : \A i \in TerminalsOf(ledger[run], r) :
    /\ ledger[run][i].attempt <= Cardinality(StartsOf(ledger[run], r))
    /\ ledger[run][i].status = "completed" =>
         \A j \in TerminalsOf(ledger[run], r) :
           j # i => ledger[run][j].attempt < ledger[run][i].attempt

Failed(run, r) == \E i \in TerminalsOf(ledger[run], r) : ledger[run][i].status = "failed"

\* One answer came to a request at most, and its completed receipt is there.
SaidOK ==
  /\ \A s \in said :
       /\ s.req \in CompletedRequests(s.req.run)
       /\ s.share => s.req.round = 0 /\ Targets[s.req.agent] # {}
  /\ \A s, t \in said : s.req = t.req => s = t

\* What is kept was decided, what was decided audited and completed.
LogsOK(run) ==
  /\ \A e \in checkpoint[run] :
       /\ e.req \in decisions[run]
       /\ \E s \in said : s.req = e.req /\ s.share = e.share
  /\ decisions[run] \subseteq Audited(run) \cap CompletedRequests(run)
  /\ \A r \in Audited(run) :
       Failed(run, r) \/ r \in CompletedRequests(run) \/ "ledger" \in torn[run]
  /\ \A s \in said :
       s.cut /\ s.req.run = run /\ s.req \in decisions[run] => Failed(run, s.req)

LogInv == SaidOK /\ \A run \in Runs : LedgerOK(run) /\ AttemptsOK(run) /\ LogsOK(run)

-----------------------------------------------------------------------------
(* The invariant: the session. *)

SharedAt(run, b, rd) ==
  \E s \in said : s.req.run = run /\ s.req.agent = b /\ s.req.round = rd /\ s.share

\* What the memory holds of the answers that were taken.
HoldsSaid(run, mem) ==
  /\ mem.shared = IF mem.round = 0 THEN {} ELSE {b \in Agents : SharedAt(run, b, 0)}
  /\ mem.sharing = {b \in Agents : SharedAt(run, b, mem.round)
                      /\ \E i \in DOMAIN AgentOrder : i < mem.next /\ AgentOrder[i] = b}
  /\ mem.round < Rounds =>
       mem.told = {a \in Agents : mem.round > 0 /\ Reached(run, a, mem.round - 1) \in Policy[run]}

MemOK(run, mem) ==
  /\ mem.round = Rounds => mem.next = 1
  /\ KeptUpTo(run, mem.round, mem.next)
  /\ HoldsSaid(run, mem)

\* Where the session may be, and what it holds there.
PlaceOK ==
  /\ session.at \in Walking \cup {"recorded", "failing"} => session.index \in DOMAIN RunOrder
  /\ session.at \in Asked => ~Done(session.mem)
  /\ session.at = "closed" => session = NoSession
  /\ session.at \in Walking => MemOK(Current, session.mem)

\* A call in flight has written the last receipt, of a new attempt.
SentOK ==
  session.at = "sent" =>
    LET log == ledger[Current]
    IN  /\ log # <<>> /\ Last(log).req = Request /\ Last(log).status = "started"
        /\ Last(log).attempt = Cardinality(StartsOf(log, Request))
        /\ \A j \in TerminalsOf(log, Request) : log[j].attempt < Last(log).attempt
        /\ Request \notin CompletedRequests(Current)
        /\ "ledger" \notin torn[Current]

\* What the logs say of the answer in hand, at each step of its way through them.
AnswerOK ==
  session.at \in {"audit", "judge", "save"} =>
    /\ session.answer.valid =>
         /\ Request \in CompletedRequests(Current)
         /\ \E s \in said : /\ s.req = Request /\ s.share = session.answer.share
                            /\ s.cut = session.answer.cut
    /\ Failed(Current, Request) \/ Request \in CompletedRequests(Current)
         \/ "ledger" \in torn[Current]
    /\ session.at = "audit" /\ session.answer.cut /\ Request \in Audited(Current) =>
         Failed(Current, Request)
    /\ session.at = "judge" =>
         /\ Request \in Audited(Current)
         /\ session.answer.cut => Failed(Current, Request) \/ CutOff
    /\ session.at = "save" => session.answer.valid /\ Request \in decisions[Current]

\* The first session comes upon nothing: whatever is in a ledger is its own.
FirstOK ==
  /\ ~root => /\ session.at = "closed" /\ batch = {} /\ amendment = {}
               /\ \A run \in Runs : ledger[run] = <<>>
  /\ session.at # "closed" /\ ~session.resume =>
       /\ \A j \in DOMAIN RunOrder :
            j > session.index \/ (j = session.index /\ session.at \in {"create", "loop"}) =>
              ledger[RunOrder[j]] = <<>>
       /\ session.at \in Walking => \A i \in DOMAIN ledger[Current] :
            LET r == ledger[Current][i].req
            IN  \/ Before(r.round, r.agent, session.mem.round, session.mem.next)
                \/ session.at # "ask" /\ r = Request

-----------------------------------------------------------------------------
(* The invariant: the amendment. *)

\* The amended resume that sent the request again is past it.
PastIt(am) ==
  \E n \in DOMAIN RunOrder :
    /\ RunOrder[n] = am.run
    /\ \/ n < session.index
       \/ /\ n = session.index
          /\ session.at \in Walking \cup {"recorded", "failing"}
          /\ session.at \in Walking =>
               \/ Before(am.req.round, am.req.agent, session.mem.round, session.mem.next)
               \/ session.at # "ask" /\ am.req = Request

\* The logs have only grown since the amendment, and not by what it found kept.
AmendmentOK(am) ==
  /\ am.run \in Runs /\ am.req \in Requests /\ am.req.run = am.run
  /\ am.found.ledger \in Seq(Receipt) /\ Len(am.found.ledger) <= Len(ledger[am.run])
  /\ am.checkpoint \subseteq checkpoint[am.run]
  /\ \A entry \in am.checkpoint :
       Cardinality(StartsOf(ledger[am.run], entry.req)) =
         Cardinality(StartsOf(am.found.ledger, entry.req))
  /\ retried = 1 => Len(am.found.ledger) < Len(ledger[am.run])
  /\ retried = 1 /\ session.amended => PastIt(am)

AmendOK ==
  /\ retried \in {0, 1} /\ (amendment = {} => retried = 0)
  /\ \A am, an \in amendment : am = an
  /\ \A am \in amendment : AmendmentOK(am)

CalInv ==
  /\ Types /\ LogInv
  /\ PlaceOK /\ SentOK /\ AnswerOK /\ FirstOK /\ AmendOK

-----------------------------------------------------------------------------
(* The orders of the agents and of the runs. *)

\* A sequence as long as what it lists is large lists nothing twice.
LEMMA ListsOnce ==
  ASSUME NEW S, NEW s \in Seq(S), {s[i] : i \in DOMAIN s} = S, Len(s) = Cardinality(S)
  PROVE  /\ IsFiniteSet(S) /\ Len(s) \in Nat /\ DOMAIN s = 1..Len(s)
         /\ \A i, j \in DOMAIN s : s[i] = s[j] => i = j
<1>1. /\ Len(s) \in Nat /\ DOMAIN s = 1..Len(s) /\ s \in [1..Len(s) -> S]
  BY LenProperties
<1>2. s \in Surjection(1..Len(s), S)
  BY <1>1 DEF Surjection
<1>3. IsFiniteSet(1..Len(s)) /\ Cardinality(1..Len(s)) = Len(s)
  <2> DEFINE n == Len(s)
  <2>1. n \in Int /\ n \in Nat /\ 1 \in Int
    BY <1>1
  <2> HIDE DEF n
  <2>2. IsFiniteSet(1..n) /\ Cardinality(1..n) = IF 1 > n THEN 0 ELSE n - 1 + 1
    BY <2>1, FS_Interval
  <2>3. QED
    BY <2>1, <2>2 DEF n
<1>4. IsFiniteSet(S)
  BY <1>2, <1>3, FS_Surjection
<1>5. s \in Injection(1..Len(s), S)
  BY <1>2, <1>3, FS_SurjSameCardinalityImpliesInj
<1>6. \A i, j \in 1..Len(s) : s[i] = s[j] => i = j
  BY <1>5 DEF Injection, IsInjective
<1>7. QED
  BY <1>1, <1>4, <1>6

\* Each agent is listed once.
LEMMA AgentsListed ==
  /\ IsFiniteSet(Agents) /\ Cardinality(Agents) = Len(AgentOrder)
  /\ Len(AgentOrder) \in Nat \ {0} /\ DOMAIN AgentOrder = 1..Len(AgentOrder)
  /\ \A i \in DOMAIN AgentOrder : AgentOrder[i] \in Agents
  /\ \A a \in Agents : \E i \in DOMAIN AgentOrder : AgentOrder[i] = a
  /\ \A i, j \in DOMAIN AgentOrder : AgentOrder[i] = AgentOrder[j] => i = j
<1>1. {AgentOrder[i] : i \in DOMAIN AgentOrder} = Agents
  BY DEF Agents
<1>2. /\ IsFiniteSet(Agents) /\ Len(AgentOrder) \in Nat
      /\ DOMAIN AgentOrder = 1..Len(AgentOrder)
      /\ \A i, j \in DOMAIN AgentOrder : AgentOrder[i] = AgentOrder[j] => i = j
  BY <1>1, RoundsAssumption, ListsOnce
<1>3. Len(AgentOrder) # 0
  BY RoundsAssumption, EmptySeq
<1>4. QED
  BY <1>1, <1>2, <1>3, RoundsAssumption

\* Each run is listed once.
LEMMA RunsListed ==
  /\ Len(RunOrder) \in Nat /\ DOMAIN RunOrder = 1..Len(RunOrder)
  /\ \A i \in DOMAIN RunOrder : RunOrder[i] \in Runs
  /\ \A i, j \in DOMAIN RunOrder : RunOrder[i] = RunOrder[j] => i = j
BY CalibrationAssumption, ListsOnce

\* The answer at one place of the rounds is all there is between it and the next.
LEMMA BeforeNext ==
  ASSUME NEW mem \in Memory, ~Done(mem), NEW run, NEW share
  PROVE  LET on == Advance(run, mem, share)
         IN  /\ on.round \in 0..Rounds /\ on.next \in DOMAIN AgentOrder
             /\ on.round = Rounds => on.next = 1
             /\ \A a \in Agents, rd \in 0..Rounds :
                  Before(rd, a, on.round, on.next) <=>
                    \/ Before(rd, a, mem.round, mem.next)
                    \/ rd = mem.round /\ a = AgentOrder[mem.next]
<1> DEFINE on == Advance(run, mem, share)
<1>1. /\ mem.round \in 0..Rounds /\ mem.round < Rounds /\ mem.next \in 1..Len(AgentOrder)
      /\ Rounds \in Nat
  BY AgentsListed, RoundsAssumption DEF Memory, Done
<1>2. CASE mem.next < Len(AgentOrder)
  <2>1. on.round = mem.round /\ on.next = mem.next + 1
    BY <1>2 DEF Advance, Memory
  <2> HIDE DEF on
  <2>2. mem.next + 1 \in DOMAIN AgentOrder
    BY <1>1, <1>2, AgentsListed
  <2>3. ASSUME NEW a \in Agents
        PROVE  (\E i \in DOMAIN AgentOrder : i < mem.next + 1 /\ AgentOrder[i] = a)
                 <=> \/ \E i \in DOMAIN AgentOrder : i < mem.next /\ AgentOrder[i] = a
                     \/ a = AgentOrder[mem.next]
    BY <1>1, <1>2, AgentsListed
  <2>4. QED
    BY <1>1, <2>1, <2>2, <2>3 DEF Before, on
<1>3. CASE ~(mem.next < Len(AgentOrder))
  <2>1. on.round = mem.round + 1 /\ on.next = 1 /\ mem.next = Len(AgentOrder)
    BY <1>1, <1>3, AgentsListed DEF Advance, EndRound
  <2> HIDE DEF on
  <2>2. 1 \in DOMAIN AgentOrder /\ mem.round + 1 \in 0..Rounds
    BY <1>1, AgentsListed
  <2>3. ASSUME NEW a \in Agents
        PROVE  \/ \E i \in DOMAIN AgentOrder : i < mem.next /\ AgentOrder[i] = a
               \/ a = AgentOrder[mem.next]
    BY <1>1, <2>1, AgentsListed
  <2>4. ASSUME NEW a \in Agents, NEW rd \in 0..Rounds
        PROVE  Before(rd, a, mem.round + 1, 1) <=> rd < mem.round + 1
    BY <1>1, AgentsListed DEF Before
  <2>5. ASSUME NEW a \in Agents, NEW rd \in 0..Rounds
        PROVE  rd < mem.round + 1 <=>
                 \/ Before(rd, a, mem.round, mem.next)
                 \/ rd = mem.round /\ a = AgentOrder[mem.next]
    BY <1>1, <2>3 DEF Before
  <2>6. QED
    BY <2>1, <2>2, <2>4, <2>5 DEF on
<1>4. QED
  BY <1>2, <1>3

\* No place comes before itself.
LEMMA NotBeforeItself ==
  ASSUME NEW mem \in Memory
  PROVE  ~Before(mem.round, AgentOrder[mem.next], mem.round, mem.next)
<1>1. mem.round \in Nat /\ mem.next \in DOMAIN AgentOrder
  BY RoundsAssumption DEF Memory
<1>2. QED
  BY <1>1, AgentsListed DEF Before

-----------------------------------------------------------------------------
(* What the logs of a run say of its requests. *)

\* A ledger is a sequence of receipts.
LEMMA LedgerTyped ==
  ASSUME Types, NEW run \in Runs
  PROVE  /\ ledger[run] \in Seq(Receipt)
         /\ DOMAIN ledger[run] = 1..Len(ledger[run]) /\ Len(ledger[run]) \in Nat
         /\ \A i \in DOMAIN ledger[run] :
              /\ ledger[run][i] \in Receipt /\ ledger[run][i].req \in Requests
              /\ ledger[run][i].attempt \in Nat
<1>1. ledger[run] \in Seq(Receipt)
  BY DEF Types
<1>2. DOMAIN ledger[run] = 1..Len(ledger[run]) /\ Len(ledger[run]) \in Nat
  BY <1>1, LenProperties
<1>3. \A i \in DOMAIN ledger[run] : ledger[run][i] \in Receipt
  BY <1>1, <1>2, ElementOfSeq
<1>4. QED
  BY <1>1, <1>2, <1>3 DEF Receipt

\* The receipts of a request are finitely many.
LEMMA IndexSetsFinite ==
  ASSUME NEW log \in Seq(Receipt), NEW r
  PROVE  /\ IsFiniteSet(StartsOf(log, r)) /\ StartsOf(log, r) \subseteq 1..Len(log)
         /\ TerminalsOf(log, r) \subseteq 1..Len(log)
         /\ Cardinality(StartsOf(log, r)) \in Nat
<1>1. IsFiniteSet(1..Len(log)) /\ DOMAIN log = 1..Len(log)
  BY FS_Interval
<1>2. StartsOf(log, r) \subseteq 1..Len(log) /\ TerminalsOf(log, r) \subseteq 1..Len(log)
  BY <1>1 DEF StartsOf, TerminalsOf
<1>3. QED
  BY <1>1, <1>2, FS_Subset, FS_CardinalityType

\* A receipt that is appended is in one of the index sets of its request.
LEMMA Appended ==
  ASSUME NEW log \in Seq(Receipt), NEW e \in Receipt, NEW r
  PROVE  LET new == Append(log, e)
             added == IF e.req = r THEN {Len(log) + 1} ELSE {}
         IN  /\ new \in Seq(Receipt) /\ Len(new) = Len(log) + 1 /\ Last(new) = e /\ new # <<>>
             /\ \A i \in 1..Len(log) : new[i] = log[i]
             /\ new[Len(log) + 1] = e /\ DOMAIN new = 1..(Len(log) + 1)
             /\ StartsOf(new, r) = StartsOf(log, r) \cup (IF e.status = "started" THEN added ELSE {})
             /\ TerminalsOf(new, r)
                  = TerminalsOf(log, r) \cup (IF e.status = "started" THEN {} ELSE added)
<1> DEFINE new == Append(log, e)
           added == IF e.req = r THEN {Len(log) + 1} ELSE {}
<1>1. /\ DOMAIN log = 1..Len(log) /\ Len(log) \in Nat
      /\ new \in Seq(Receipt) /\ Len(new) = Len(log) + 1
      /\ DOMAIN new = 1..(Len(log) + 1)
      /\ \A i \in 1..Len(log) : new[i] = log[i]
      /\ new[Len(log) + 1] = e
      /\ e.status \in {"started", "completed", "failed"}
  BY AppendProperties DEF Receipt
<1>2. Last(new) = e /\ new # <<>>
  BY <1>1, EmptySeq DEF Last
<1> HIDE DEF new
<1>3. StartsOf(new, r) = StartsOf(log, r) \cup (IF e.status = "started" THEN added ELSE {})
  BY <1>1 DEF StartsOf
<1>4. TerminalsOf(new, r) = TerminalsOf(log, r) \cup (IF e.status = "started" THEN {} ELSE added)
  BY <1>1 DEF TerminalsOf
<1>5. QED
  BY <1>1, <1>2, <1>3, <1>4 DEF new

\* A request is its place and what its agent is shown there.
LEMMA SameRequest ==
  ASSUME NEW r \in Requests, NEW q \in Requests, AsSeen(r), AsSeen(q),
         r.run = q.run, r.agent = q.agent, r.round = q.round
  PROVE  r = q
<1>1. r.seen = q.seen /\ r.told = q.told
  BY DEF AsSeen, Requests
<1>2. QED
  BY <1>1 DEF Requests

\* A completed request is one of the ledger, with all that is known of those.
LEMMA CompletedMeans ==
  ASSUME Types, NEW run \in Runs, LedgerOK(run), NEW r \in CompletedRequests(run)
  PROVE  /\ r \in Requests /\ r.run = run /\ AsSeen(r) /\ Follows(run, r)
         /\ \E i \in TerminalsOf(ledger[run], r) : ledger[run][i].status = "completed"
<1>1. PICK i \in DOMAIN ledger[run] : ledger[run][i].status = "completed" /\ r = ledger[run][i].req
  BY DEF CompletedRequests
<1>2. i \in TerminalsOf(ledger[run], r)
  BY <1>1 DEF TerminalsOf
<1>3. QED
  BY <1>1, <1>2, LedgerTyped DEF LedgerOK

\* What is kept was decided and completed.
LEMMA KeptMeans ==
  ASSUME Types, NEW run \in Runs, LedgerOK(run), LogsOK(run), NEW q \in Kept(run)
  PROVE  q \in decisions[run] /\ q \in CompletedRequests(run)
         /\ q \in Requests /\ q.run = run /\ AsSeen(q)
<1>1. q \in decisions[run] /\ q \in CompletedRequests(run)
  BY DEF Kept, LogsOK
<1>2. QED
  BY <1>1, CompletedMeans

\* Before the place of a request of the ledger everything is kept, so that two
\* requests of one place are one.
LEMMA OneOfPlace ==
  ASSUME Types, NEW run \in Runs, LedgerOK(run), LogsOK(run),
         NEW r \in Requests, r.run = run, AsSeen(r),
         NEW q \in Kept(run), q.agent = r.agent, q.round = r.round
  PROVE  r = q
BY KeptMeans, SameRequest

\* The terminal receipt of the highest attempt is that of a completed attempt
\* exactly when there is one.
LEMMA CompletedIsLatest ==
  ASSUME Types, NEW run \in Runs, AttemptsOK(run), NEW r \in Requests
  PROVE  IsRecovery(ledger[run], r) <=> r \in CompletedRequests(run)
<1> DEFINE log == ledger[run]
           T == TerminalsOf(log, r)
           highest(m) == \A j \in T : log[j].attempt <= log[m].attempt
<1>1. /\ log \in Seq(Receipt) /\ T \subseteq DOMAIN log
      /\ \A j \in T : log[j].attempt \in Nat
  BY LedgerTyped DEF TerminalsOf
<1>2. r \in CompletedRequests(run) <=> \E i \in T : log[i].status = "completed"
  BY DEF CompletedRequests, TerminalsOf
<1>3. ASSUME NEW i \in T, log[i].status = "completed"
      PROVE  IsRecovery(log, r)
  <2>1. \A j \in T : j # i => log[j].attempt < log[i].attempt
    BY <1>3 DEF AttemptsOK
  <2>2. highest(i)
    BY <1>1, <2>1
  <2>3. \A m \in T : highest(m) => m = i
    BY <1>1, <2>1
  <2>4. LatestStatus(log, r) = log[CHOOSE m \in T : highest(m)].status
    BY DEF LatestStatus
  <2> HIDE DEF highest, T, log
  <2>5. (CHOOSE m \in T : highest(m)) = i
    BY <2>2, <2>3
  <2>6. QED
    BY <1>3, <2>4, <2>5 DEF IsRecovery, log
<1>4. ASSUME IsRecovery(log, r)
      PROVE  \E i \in T : log[i].status = "completed"
  <2>1. T # {} /\ LatestStatus(log, r) = "completed"
    BY <1>4 DEF IsRecovery, LatestStatus
  <2>2. LatestStatus(log, r) = log[CHOOSE m \in T : highest(m)].status
    BY <2>1 DEF LatestStatus
  <2> DEFINE n == Cardinality(StartsOf(log, r))
             attempts == {log[j].attempt : j \in T}
  <2>3. n \in Nat /\ attempts # {}
    BY <1>1, <2>1, IndexSetsFinite
  <2>4. attempts \subseteq 1..n
    <3> SUFFICES ASSUME NEW j \in T PROVE log[j].attempt \in 1..n
      OBVIOUS
    <3>1. log[j].attempt <= n
      BY DEF AttemptsOK
    <3>2. log[j].attempt \in Nat \ {0}
      BY <1>1, LedgerTyped DEF Receipt
    <3>3. QED
      BY <2>3, <3>1, <3>2
  <2>5. PICK m \in attempts : \A k \in attempts : k <= m
    <3> HIDE DEF n, attempts
    <3> QED
      BY <2>3, <2>4, LastLine
  <2>6. \E i \in T : highest(i)
    BY <2>5
  <2> HIDE DEF highest, T, log
  <2>7. (CHOOSE i \in T : highest(i)) \in T
    BY <2>6
  <2>8. QED
    BY <2>1, <2>2, <2>7
<1>5. QED
  BY <1>2, <1>3, <1>4

\* What is visible in a round is what was shared before it.
LEMMA ViewIsReached ==
  ASSUME NEW run, NEW mem \in Memory, HoldsSaid(run, mem), NEW a \in Agents
  PROVE  View(mem.shared, a) = Reached(run, a, mem.round) /\ View(mem.shared, a) \subseteq Agents
<1>1. mem.round \in Nat /\ mem.shared \in SUBSET Agents
  BY RoundsAssumption DEF Memory
<1>2. QED
  BY <1>1 DEF View, Reached, HoldsSaid, SharedAt

\* The request a process comes to with a memory that is right.
LEMMA PendingMeans ==
  ASSUME Types, NEW run \in Runs, NEW mem \in Memory, ~Done(mem), MemOK(run, mem)
  PROVE  LET r == Pending(run, mem)
         IN  /\ r \in Requests /\ r.run = run /\ r.agent = AgentOrder[mem.next]
             /\ r.agent \in Agents /\ r.round = mem.round /\ AsSeen(r) /\ Follows(run, r)
<1> DEFINE r == Pending(run, mem)  a == AgentOrder[mem.next]
<1>1. /\ mem.round \in 0..(Rounds - 1) /\ mem.round < Rounds
      /\ mem.next \in DOMAIN AgentOrder /\ a \in Agents
      /\ mem.shared \in SUBSET Agents
  BY RoundsAssumption, AgentsListed DEF Memory, Done
<1>2. r = [run |-> run, agent |-> a, round |-> mem.round,
           seen |-> View(mem.shared, a), told |-> a \in mem.told]
  BY DEF Pending
<1>3. View(mem.shared, a) = Reached(run, a, mem.round) /\ View(mem.shared, a) \subseteq Agents
  BY <1>1, ViewIsReached DEF MemOK
<1>4. a \in mem.told <=> mem.round > 0 /\ Reached(run, a, mem.round - 1) \in Policy[run]
  BY <1>1 DEF MemOK, HoldsSaid
<1>5. r \in Requests
  BY <1>1, <1>2, <1>3 DEF Requests
<1>6. AsSeen(r)
  <2> HIDE DEF r, a
  <2>1. /\ r.run = run /\ r.agent = a /\ r.round = mem.round
        /\ r.seen = View(mem.shared, a) /\ r.told = (a \in mem.told)
    BY <1>2
  <2>2. QED
    BY <1>3, <1>4, <2>1 DEF AsSeen
<1>7. Follows(run, r)
  BY <1>1, <1>2 DEF Follows, MemOK
<1>8. QED
  BY <1>1, <1>2, <1>5, <1>6, <1>7

-----------------------------------------------------------------------------
(* What the ledger admits, and what it refuses. *)

\* Beside a request that was not started there is room for it under the caps,
\* which are those of a whole run.
LEMMA CapRoom ==
  ASSUME Types, NEW run \in Runs, LedgerOK(run),
         NEW r \in Requests, r.run = run, AsSeen(r), StartsOf(ledger[run], r) = {}
  PROVE  /\ UnderRequestCap(ledger[run], r)
         /\ UnderReservationCap(ledger[run], r)
<1> DEFINE log == ledger[run]
           S == StartedRequests(log)
           T == Agents \X (0..(Rounds - 1))
           place == [q \in S \cup {r} |-> <<q.agent, q.round>>]
<1>1. \A q \in S \cup {r} : q \in Requests /\ q.run = run /\ AsSeen(q)
  BY LedgerTyped DEF StartedRequests, StartsOf, LedgerOK
<1>2. r \notin S
  BY DEF StartedRequests
<1>3. IsFiniteSet(T) /\ Cardinality(T) = Expected
  <2> DEFINE R == 0..(Rounds - 1)
  <2>1. IsFiniteSet(R) /\ Cardinality(R) = Rounds
    <3> DEFINE n == Rounds - 1
    <3>1. n \in Int /\ 0 \in Int /\ n >= 0 /\ n + 1 = Rounds
      BY RoundsAssumption
    <3> HIDE DEF n
    <3>2. IsFiniteSet(0..n) /\ Cardinality(0..n) = IF 0 > n THEN 0 ELSE n - 0 + 1
      BY <3>1, FS_Interval
    <3>3. QED
      BY <3>1, <3>2 DEF n
  <2> HIDE DEF R
  <2>2. IsFiniteSet(Agents \X R) /\ Cardinality(Agents \X R) = Cardinality(Agents) * Cardinality(R)
    BY <2>1, AgentsListed, FS_Product
  <2>3. QED
    BY <2>1, <2>2, AgentsListed DEF Expected, R
<1>4. place \in Injection(S \cup {r}, T)
  <2>1. \A q \in S \cup {r} : <<q.agent, q.round>> \in T
    BY <1>1 DEF Requests
  <2>2. ASSUME NEW p \in S \cup {r}, NEW q \in S \cup {r}, place[p] = place[q]
        PROVE  p = q
    <3>1. p.agent = q.agent /\ p.round = q.round
      BY <2>2
    <3>2. p \in Requests /\ q \in Requests /\ AsSeen(p) /\ AsSeen(q) /\ p.run = q.run
      BY <1>1
    <3>3. QED
      BY <3>1, <3>2, SameRequest
  <2>3. place \in [S \cup {r} -> T]
    BY <2>1
  <2> HIDE DEF place, S, T
  <2>4. QED
    BY <2>2, <2>3 DEF Injection, IsInjective
<1> HIDE DEF T, place
<1>5. IsFiniteSet(S \cup {r}) /\ Cardinality(S \cup {r}) <= Expected
  <2> HIDE DEF S
  <2> QED
    BY <1>3, <1>4, FS_Injection
<1>6. IsFiniteSet(S) /\ Cardinality(S) \in Nat /\ Cardinality(S) + 1 <= Expected
  <2> HIDE DEF S
  <2>1. IsFiniteSet(S)
    BY <1>5, FS_Subset
  <2>2. Cardinality(S \cup {r}) = Cardinality(S) + 1
    BY <1>2, <2>1, FS_AddElement
  <2>3. QED
    BY <1>5, <2>1, <2>2, FS_CardinalityType
<1>7. Expected \in Nat
  BY AgentsListed, RoundsAssumption DEF Expected
<1>8. ReservedTokens(log) = Cardinality(S)
  <2>1. ReservedTokens(log) = SumFunctionOnSet(MaxTokens, S)
    BY DEF ReservedTokens, MapThenSumSet, SumFunctionOnSet, FoldFunctionOnSet
  <2>2. \A q \in S : MaxTokens[q] = 1
    BY <1>1 DEF MaxTokens
  <2> HIDE DEF S
  <2>3. QED
    BY <1>6, <2>1, <2>2, SumOfOnes
<1>9. MaxTokens[r] = 1
  BY DEF MaxTokens
<1>10. QED
  BY <1>6, <1>7, <1>8, <1>9 DEF UnderRequestCap, UnderReservationCap

\* No completed request is sent again, and none over a ledger that is torn.
LEMMA AdmittedMeans ==
  ASSUME Types, NEW run \in Runs, AttemptsOK(run), run = Current, Request \in Requests, Admitted
  PROVE  "ledger" \notin torn[run] /\ Request \notin CompletedRequests(run)
<1>1. Refusal(ledger[run], Provides, Request) = "none" /\ "ledger" \notin torn[run]
  BY DEF Admitted
<1>2. NoReplay(ledger[run], Provides, Request)
  BY <1>1 DEF Refusal
<1>3. ~IsRecovery(ledger[run], Request)
  BY <1>2 DEF NoReplay, Allowed, Provides
<1>4. QED
  BY <1>1, <1>3, CompletedIsLatest

\* And what a ledger refuses that is not torn is a completed request.
LEMMA RefusedMeans ==
  ASSUME CalInv, Asking, ~Admitted, "ledger" \notin torn[Current]
  PROVE  Request \in CompletedRequests(Current)
<1> DEFINE log == ledger[Current]
<1>1. /\ Types /\ Current \in Runs /\ session.mem \in Memory /\ ~Done(session.mem)
      /\ MemOK(Current, session.mem) /\ LedgerOK(Current) /\ AttemptsOK(Current)
      /\ session.at = "ask"
  BY RunsListed DEF CalInv, LogInv, Asking, PlaceOK, Walking, Types, Session, Current
<1>2. Request \in Requests /\ Request.run = Current /\ AsSeen(Request)
      /\ Request.round = session.mem.round /\ Request.agent = AgentOrder[session.mem.next]
  BY <1>1, PendingMeans DEF Request
<1> SUFFICES ASSUME Request \notin CompletedRequests(Current) PROVE FALSE
  OBVIOUS
<1>3. ~IsRecovery(log, Request)
  BY <1>1, <1>2, CompletedIsLatest
<1>4. ~Conflicts(log, Request)
  <2> SUFFICES ASSUME NEW i \in DOMAIN log, Key[log[i].req] = Key[Request] PROVE log[i].req = Request
    BY DEF Conflicts
  <2>1. log[i].req \in Requests /\ log[i].req.run = Current /\ AsSeen(log[i].req)
    BY <1>1, LedgerTyped DEF LedgerOK
  <2>2. log[i].req.agent = Request.agent /\ log[i].req.round = Request.round
    BY <1>2, <2>1 DEF Key
  <2>3. QED
    BY <1>2, <2>1, <2>2, SameRequest
<1>5. ResumeGiven(log, Provides, Request)
  <2> SUFFICES ASSUME ~session.resume, NEW i \in DOMAIN log, log[i].req = Request PROVE FALSE
    BY DEF ResumeGiven, Provides, IsFresh, StartsOf
  <2>1. Before(Request.round, Request.agent, session.mem.round, session.mem.next)
    BY <1>1 DEF CalInv, FirstOK, Walking
  <2>2. QED
    BY <1>1, <1>2, <2>1, NotBeforeItself
<1>6. UnderRequestCap(log, Request) /\ UnderReservationCap(log, Request)
  <2>1. CASE StartsOf(log, Request) = {}
    BY <1>1, <1>2, <2>1, CapRoom
  <2>2. CASE StartsOf(log, Request) # {}
    BY <2>2 DEF UnderRequestCap, UnderReservationCap, IsFresh
  <2>3. QED
    BY <2>1, <2>2
<1>7. ~OutsideRecovery(log, Provides, Request)
  BY DEF OutsideRecovery, Provides
<1>8. NoReplay(log, Provides, Request) /\ RecoveryLeft(log, Request)
  BY <1>3 DEF NoReplay, RecoveryLeft
<1>9. Refusal(log, Provides, Request) = "none"
  BY <1>4, <1>5, <1>6, <1>7, <1>8 DEF Refusal
<1>10. QED
  BY <1>9 DEF Admitted

-----------------------------------------------------------------------------
(* The memory, as a process goes on from a request with its answer. *)

\* Only one answer came to the request of a place.
LEMMA SharedHere ==
  ASSUME Types, SaidOK, NEW run \in Runs, LedgerOK(run),
         NEW mem \in Memory, ~Done(mem), MemOK(run, mem),
         NEW s \in said, s.req = Pending(run, mem)
  PROVE  SharedAt(run, AgentOrder[mem.next], mem.round) <=> s.share
<1> DEFINE r == Pending(run, mem)
<1>1. /\ r \in Requests /\ r.run = run /\ r.agent = AgentOrder[mem.next]
      /\ r.round = mem.round /\ AsSeen(r)
  BY PendingMeans
<1>2. s.share \in BOOLEAN
  BY DEF Types
<1>3. ASSUME NEW t \in said, t.req.run = run, t.req.agent = r.agent, t.req.round = r.round
      PROVE  t = s
  <2>1. t.req \in CompletedRequests(run)
    BY <1>3 DEF SaidOK
  <2>2. t.req \in Requests /\ AsSeen(t.req)
    BY <2>1, CompletedMeans
  <2>3. t.req = r
    BY <1>1, <1>3, <2>2, SameRequest
  <2>4. QED
    BY <2>3 DEF SaidOK
<1> HIDE DEF r
<1>4. QED
  BY <1>1, <1>2, <1>3 DEF SharedAt, r

\* With the answer of a place, the memory of the next one is right.
LEMMA WalkMemory ==
  ASSUME Types, SaidOK, NEW run \in Runs, LedgerOK(run),
         NEW mem \in Memory, ~Done(mem), MemOK(run, mem),
         NEW s \in said, s.req = Pending(run, mem)
  PROVE  LET on == Advance(run, mem, s.share) IN on \in Memory /\ HoldsSaid(run, on)
<1> DEFINE a == AgentOrder[mem.next]
           on == Advance(run, mem, s.share)
           heard == Answered(mem, s.share)
<1>1. /\ mem.round \in 0..(Rounds - 1) /\ mem.round < Rounds /\ mem.round \in Nat
      /\ mem.next \in 1..Len(AgentOrder) /\ a \in Agents /\ Len(AgentOrder) \in Nat
      /\ mem.shared \in SUBSET Agents /\ mem.sharing \in SUBSET Agents
      /\ mem.told \in SUBSET Agents
  BY RoundsAssumption, AgentsListed DEF Memory, Done
<1>2. SharedAt(run, a, mem.round) <=> s.share
  BY SharedHere
<1>3. HoldsSaid(run, mem)
  BY DEF MemOK
<1>4. heard = {b \in Agents : SharedAt(run, b, mem.round)
                 /\ \E i \in DOMAIN AgentOrder : i < mem.next + 1 /\ AgentOrder[i] = b}
  <2>1. heard = mem.sharing \cup (IF s.share THEN {a} ELSE {})
    BY DEF Answered
  <2>2. ASSUME NEW b \in Agents
        PROVE  (\E i \in DOMAIN AgentOrder : i < mem.next + 1 /\ AgentOrder[i] = b)
                 <=> (b = a \/ \E i \in DOMAIN AgentOrder : i < mem.next /\ AgentOrder[i] = b)
    BY <1>1, AgentsListed
  <2>3. ASSUME NEW b \in Agents
        PROVE  b \in mem.sharing <=>
                 /\ SharedAt(run, b, mem.round)
                 /\ \E i \in DOMAIN AgentOrder : i < mem.next /\ AgentOrder[i] = b
    BY <1>3 DEF HoldsSaid
  <2> HIDE DEF heard, a
  <2>4. QED
    BY <1>1, <1>2, <2>1, <2>2, <2>3
<1>5. heard \subseteq Agents
  BY <1>4
<1>6. CASE mem.next < Len(AgentOrder)
  <2>1. /\ on.round = mem.round /\ on.next = mem.next + 1 /\ on.shared = mem.shared
        /\ on.sharing = heard /\ on.told = mem.told /\ on \in Memory
    <3>1. mem.next + 1 \in DOMAIN AgentOrder
      BY <1>1, <1>6, AgentsListed
    <3>2. on = [mem EXCEPT !.next = @ + 1, !.sharing = heard]
      BY <1>6 DEF Advance
    <3> HIDE DEF on, heard, a
    <3>3. QED
      BY <1>1, <1>5, <3>1, <3>2 DEF Memory
  <2> HIDE DEF on, heard, a
  <2>2. QED
    BY <1>3, <1>4, <2>1 DEF HoldsSaid, on
<1>7. CASE ~(mem.next < Len(AgentOrder))
  <2>1. on = EndRound(run, mem, heard) /\ mem.next = Len(AgentOrder)
    BY <1>1, <1>7 DEF Advance
  <2>2. heard = {b \in Agents : SharedAt(run, b, mem.round)}
    <3>1. \A b \in Agents : \E i \in DOMAIN AgentOrder : i < mem.next + 1 /\ AgentOrder[i] = b
      BY <1>1, <2>1, AgentsListed
    <3> HIDE DEF heard
    <3>2. QED
      BY <1>4, <3>1
  <2>3. /\ on.round = mem.round + 1 /\ on.next = 1 /\ on.sharing = {}
        /\ on.shared = mem.shared \cup Propagated(mem, heard)
        /\ on.told = Directed(run, mem) /\ on \in Memory
    <3>1. Propagated(mem, heard) \subseteq Agents /\ Directed(run, mem) \subseteq Agents
      BY <1>5 DEF Propagated, Directed
    <3>2. mem.round + 1 \in 0..Rounds /\ 1 \in DOMAIN AgentOrder
      BY <1>1, RoundsAssumption, AgentsListed
    <3> HIDE DEF on, heard
    <3>3. QED
      BY <1>1, <2>1, <3>1, <3>2 DEF EndRound, Memory
  <2> HIDE DEF on, heard, a
  <2>4. on.shared = {b \in Agents : SharedAt(run, b, 0)}
    <3>1. CASE mem.round = 0
      <4>1. mem.shared = {}
        BY <1>3, <3>1 DEF HoldsSaid
      <4>2. \A b \in Agents : SharedAt(run, b, 0) => Targets[b] # {}
        BY DEF SharedAt, SaidOK
      <4>3. QED
        BY <2>2, <2>3, <3>1, <4>1, <4>2 DEF Propagated
    <3>2. CASE mem.round # 0
      BY <1>3, <2>3, <3>2 DEF Propagated, HoldsSaid
    <3>3. QED
      BY <3>1, <3>2
  <2>5. on.sharing = {b \in Agents : SharedAt(run, b, on.round)
                        /\ \E i \in DOMAIN AgentOrder : i < on.next /\ AgentOrder[i] = b}
    BY <2>3, AgentsListed
  <2>6. on.round < Rounds =>
          on.told = {b \in Agents : on.round > 0 /\ Reached(run, b, on.round - 1) \in Policy[run]}
    <3> SUFFICES ASSUME on.round < Rounds
                 PROVE  on.told = {b \in Agents : on.round > 0
                                     /\ Reached(run, b, on.round - 1) \in Policy[run]}
      OBVIOUS
    <3>1. /\ mem.round < Rounds - 1 /\ on.round > 0 /\ on.round - 1 = mem.round
      BY <1>1, <2>3, RoundsAssumption
    <3>2. on.told = {b \in Agents : View(mem.shared, b) \in Policy[run]}
      BY <2>3, <3>1 DEF Directed
    <3>3. \A b \in Agents : View(mem.shared, b) = Reached(run, b, mem.round)
      BY <1>3, ViewIsReached
    <3>4. QED
      BY <3>1, <3>2, <3>3
  <2>7. on.round # 0
    BY <1>1, <2>3
  <2>8. QED
    BY <2>3, <2>4, <2>5, <2>6, <2>7 DEF HoldsSaid, on
<1>8. QED
  BY <1>6, <1>7

-----------------------------------------------------------------------------
(* Steps that leave the logs and the amendment alone. *)

\* A process that is not there, or has just begun, is well typed.
LEMMA NoSessionType ==
  /\ Afresh \in Memory /\ NoSession \in Session /\ NoSession.at = "closed"
  /\ ~NoSession.resume /\ ~NoSession.amended /\ NoSession.index = 1
  /\ NoSession.mem = Afresh
<1>1. 1 \in DOMAIN AgentOrder /\ 0 \in 0..Rounds
  BY AgentsListed, RoundsAssumption
<1>2. Afresh \in Memory
  BY <1>1 DEF Afresh, Memory
<1>3. 1 \in 1..(Len(RunOrder) + 1)
  BY RunsListed
<1>4. QED
  BY <1>2, <1>3 DEF NoSession, Session, Steps, NoAnswer, Answers

\* The logs stay in step when nothing is written but perhaps a partial line.
LEMMA QuietLogs ==
  ASSUME LogInv, UNCHANGED <<ledger, audit, decisions, checkpoint, said>>,
         \A run \in Runs : torn[run] \subseteq torn'[run]
  PROVE  LogInv'
<1>1. SaidOK'
  BY DEF LogInv, SaidOK, CompletedRequests
<1>2. ASSUME NEW run \in Runs
      PROVE  (LedgerOK(run) /\ AttemptsOK(run) /\ LogsOK(run))'
  <2>1. LedgerOK(run)'
    <3>1. ASSUME NEW r PROVE AsSeen(r)' <=> AsSeen(r)
      BY DEF AsSeen, Reached
    <3>2. ASSUME NEW r PROVE Follows(run, r)' <=> Follows(run, r)
      BY DEF Follows, KeptUpTo, Kept
    <3>3. QED
      BY <3>1, <3>2 DEF LogInv, LedgerOK
  <2>2. AttemptsOK(run)'
    BY <1>2 DEF LogInv, AttemptsOK
  <2>3. LogsOK(run)'
    BY <1>2 DEF LogInv, LogsOK, Audited, CompletedRequests, Failed
  <2>4. QED
    BY <2>1, <2>2, <2>3
<1>3. QED
  BY <1>1, <1>2 DEF LogInv

\* The amendment does not lose what it says when nothing is taken from the
\* checkpoints and no other start joins the ledger than of what was not kept.
LEMMA QuietAmendment ==
  ASSUME AmendOK, UNCHANGED <<amendment, retried>>,
         \A run \in Runs : checkpoint[run] \subseteq checkpoint'[run],
         \A run \in Runs : Len(ledger[run]) \in Nat /\ Len(ledger'[run]) \in Nat
                             /\ Len(ledger[run]) <= Len(ledger'[run]),
         \A run \in Runs : \A q \in Kept(run) :
           StartsOf(ledger'[run], q) = StartsOf(ledger[run], q),
         \A am \in amendment : retried = 1 /\ session'.amended => PastIt(am)'
  PROVE  AmendOK'
<1>1. ASSUME NEW am \in amendment
      PROVE  AmendmentOK(am)'
  <2>1. /\ am.run \in Runs /\ am.req \in Requests /\ am.req.run = am.run
        /\ am.found.ledger \in Seq(Receipt) /\ Len(am.found.ledger) <= Len(ledger[am.run])
        /\ am.checkpoint \subseteq checkpoint[am.run]
        /\ retried = 1 => Len(am.found.ledger) < Len(ledger[am.run])
    BY DEF AmendOK, AmendmentOK
  <2>2. Len(am.found.ledger) \in Nat
    BY <2>1, LenProperties
  <2>3. /\ Len(am.found.ledger) <= Len(ledger'[am.run])
        /\ retried = 1 => Len(am.found.ledger) < Len(ledger'[am.run])
    BY <2>1, <2>2
  <2>4. ASSUME NEW entry \in am.checkpoint
        PROVE  StartsOf(ledger'[am.run], entry.req) = StartsOf(ledger[am.run], entry.req)
    BY <2>1 DEF Kept
  <2>5. \A entry \in am.checkpoint :
          Cardinality(StartsOf(ledger'[am.run], entry.req)) =
            Cardinality(StartsOf(am.found.ledger, entry.req))
    BY <2>4 DEF AmendOK, AmendmentOK
  <2>6. am.checkpoint \subseteq checkpoint'[am.run]
    BY <2>1
  <2>7. QED
    BY <2>1, <2>3, <2>5, <2>6 DEF AmendmentOK
<1>2. QED
  BY <1>1 DEF AmendOK

\* And then types and amendment stay as they are, too.
LEMMA Quiet ==
  ASSUME CalInv, UNCHANGED <<ledger, audit, decisions, checkpoint, said, amendment, retried>>,
         torn' \in [Runs -> SUBSET Logs], \A run \in Runs : torn[run] \subseteq torn'[run],
         root' \in BOOLEAN, session' \in Session,
         \A am \in amendment : retried = 1 /\ session'.amended => PastIt(am)'
  PROVE  Types' /\ LogInv' /\ AmendOK'
<1>1. Types'
  BY DEF CalInv, Types
<1>2. LogInv'
  BY QuietLogs DEF CalInv
<1>3. \A run \in Runs : Len(ledger[run]) \in Nat
  BY LedgerTyped DEF CalInv
<1>4. AmendOK'
  BY <1>3, QuietAmendment DEF CalInv
<1>5. QED
  BY <1>1, <1>2, <1>4

\* A step to where no request is in hand.
LEMMA LeavesWalk ==
  ASSUME CalInv, UNCHANGED <<ledger, audit, decisions, checkpoint, said, amendment, retried>>,
         torn' \in [Runs -> SUBSET Logs], \A run \in Runs : torn[run] \subseteq torn'[run],
         root' = TRUE,
         session' \in Session, session'.at \notin Walking,
         session'.at \in {"recorded", "failing"} => session'.index \in DOMAIN RunOrder,
         session'.at = "closed" => session' = NoSession,
         session'.at # "closed" /\ ~session'.resume =>
           \A j \in DOMAIN RunOrder :
             j > session'.index
               \/ (j = session'.index /\ session'.at \in {"create", "loop"}) =>
                 ledger[RunOrder[j]] = <<>>,
         \A am \in amendment : retried = 1 /\ session'.amended => PastIt(am)'
  PROVE  CalInv'
<1>1. Types' /\ LogInv' /\ AmendOK'
  <2>1. root' \in BOOLEAN
    OBVIOUS
  <2>2. QED
    BY <2>1, Quiet
<1>2. PlaceOK'
  BY DEF PlaceOK, Walking, Asked
<1>3. SentOK' /\ AnswerOK'
  BY DEF SentOK, AnswerOK, Walking, Asked
<1>4. FirstOK'
  BY DEF FirstOK, CalInv
<1>5. QED
  BY <1>1, <1>2, <1>3, <1>4 DEF CalInv

\* What is left alone by a step that does not write into the logs of a run.
LEMMA NothingTorn ==
  ASSUME CalInv, UNCHANGED runVars
  PROVE  /\ UNCHANGED <<ledger, audit, decisions, checkpoint, torn>>
         /\ torn' \in [Runs -> SUBSET Logs] /\ \A run \in Runs : torn[run] \subseteq torn'[run]
BY DEF CalInv, Types, runVars

\* A session that ends is no session.
LEMMA Closes ==
  ASSUME CalInv, session.at # "closed",
         UNCHANGED <<ledger, audit, decisions, checkpoint, said, amendment, retried, root>>,
         torn' \in [Runs -> SUBSET Logs], \A run \in Runs : torn[run] \subseteq torn'[run],
         session' = NoSession
  PROVE  CalInv'
<1>1. session' \in Session /\ session'.at = "closed" /\ ~session'.amended
  BY NoSessionType
<1>2. root' = TRUE
  BY DEF CalInv, Types, FirstOK
<1>3. QED
  BY <1>1, <1>2, LeavesWalk DEF Walking, Asked

\* A first session finds nothing.
LEMMA StartStep == CalInv /\ Start => CalInv'
<1> SUFFICES ASSUME CalInv, Start PROVE CalInv'
  OBVIOUS
<1>1. session = NoSession /\ ~root /\ session' = [NoSession EXCEPT !.at = "create"]
  BY DEF Start, Go, CalInv, PlaceOK
<1>2. /\ session' \in Session /\ session'.at = "create" /\ ~session'.amended
      /\ session'.index = 1
  BY <1>1, NoSessionType DEF Session, Steps
<1>3. \A j \in DOMAIN RunOrder : ledger[RunOrder[j]] = <<>>
  BY <1>1, RunsListed DEF CalInv, FirstOK
<1>4. UNCHANGED runVars /\ root' = TRUE /\ UNCHANGED <<amendment, said, retried>>
  BY DEF Start
<1>5. QED
  BY <1>2, <1>3, <1>4, NothingTorn, LeavesWalk DEF Walking, Asked

\* A resume starts over from the first run; an amended one only from what it is locked to.
LEMMA ResumeStep == CalInv /\ (Resume \/ ResumeAmended) => CalInv'
<1> SUFFICES ASSUME CalInv, Resume \/ ResumeAmended PROVE CalInv'
  OBVIOUS
<1>1. session' \in Session /\ session'.at = "loop" /\ session'.resume
  BY NoSessionType DEF Resume, ResumeAmended, Session, Steps
<1>2. UNCHANGED runVars /\ UNCHANGED <<root, amendment, said, retried>>
  BY DEF Resume, ResumeAmended, batchVars
<1>3. \A am \in amendment : ~(retried = 1 /\ session'.amended)
  <2> SUFFICES ASSUME NEW am \in amendment, retried = 1, session'.amended PROVE FALSE
    OBVIOUS
  <2>1. CASE Resume
    <3>1. ~session'.amended
      BY <2>1, NoSessionType DEF Resume, Session
    <3>2. QED
      BY <3>1
  <2>2. CASE ResumeAmended
    <3>1. StillInitial(am)
      BY <2>2 DEF ResumeAmended, CalInv, AmendOK
    <3>2. ledger[am.run] = am.found.ledger
      BY <3>1 DEF StillInitial, Found
    <3>3. Len(am.found.ledger) < Len(ledger[am.run]) /\ Len(ledger[am.run]) \in Nat
      BY LedgerTyped DEF CalInv, AmendOK, AmendmentOK
    <3>4. QED
      BY <3>2, <3>3
  <2>3. QED
    BY <2>1, <2>2
<1>4. root' = TRUE
  <2>1. batch # {} \/ amendment # {}
    BY DEF Resume, ResumeAmended
  <2>2. QED
    BY <1>2, <2>1 DEF CalInv, Types, FirstOK
<1>5. QED
  BY <1>1, <1>2, <1>3, <1>4, NothingTorn, LeavesWalk DEF Walking, Asked

\* The steps of the loop over the runs, and the last ones of a batch.
LEMMA LoopStep ==
  CalInv /\ (CreateBatch \/ SkipRecorded \/ MarkCompleted \/ WriteReceipt \/ CompleteBatch) => CalInv'
<1> SUFFICES ASSUME CalInv, CreateBatch \/ SkipRecorded \/ MarkCompleted \/ WriteReceipt
                              \/ CompleteBatch
             PROVE  CalInv'
  OBVIOUS
<1>1. /\ UNCHANGED runVars /\ UNCHANGED <<root, amendment, said, retried>>
      /\ session.at \in {"create", "loop", "recorded", "complete"}
  BY DEF CreateBatch, SkipRecorded, MarkCompleted, WriteReceipt, CompleteBatch, batchVars
<1>2. session \in Session /\ session.index \in 1..(Len(RunOrder) + 1)
  BY DEF CalInv, Types, Session
<1>3. CASE session' = NoSession
  BY <1>1, <1>3, NothingTorn, Closes
<1>4. ASSUME NEW n \in 1..(Len(RunOrder) + 1), NEW place \in {"loop", "complete", "final"},
             session' = [session EXCEPT !.at = place, !.index = n],
             \/ session.at \in {"loop", "complete"} /\ n = session.index
             \/ session.at = "create" /\ n = session.index
             \/ session.at \in {"loop", "recorded"} /\ n = session.index + 1,
             place = "loop" => session.at # "complete"
      PROVE  CalInv'
  <2>1. /\ session' \in Session /\ session'.at = place /\ session'.index = n
        /\ session'.resume = session.resume /\ session'.amended = session.amended
    BY <1>2, <1>4 DEF Session, Steps
  <2>2. n \in Nat /\ session.index \in Nat /\ session.index <= n
    BY <1>2, <1>4, RunsListed
  <2>3. ~session'.resume =>
          \A j \in DOMAIN RunOrder :
            j > n \/ (j = n /\ place = "loop") => ledger[RunOrder[j]] = <<>>
    BY <1>1, <1>4, <2>1, <2>2, RunsListed DEF CalInv, FirstOK
  <2>4. ASSUME NEW am \in amendment, retried = 1, session'.amended
        PROVE  PastIt(am)'
    <3>1. PastIt(am)
      BY <2>1, <2>4 DEF CalInv, AmendOK, AmendmentOK
    <3>2. PICK k \in DOMAIN RunOrder :
            /\ RunOrder[k] = am.run
            /\ k < session.index \/ (k = session.index /\ session.at = "recorded")
      BY <1>1, <3>1 DEF PastIt, Walking, Asked
    <3>3. k < n
      BY <1>4, <2>2, <3>2, RunsListed
    <3>4. QED
      BY <2>1, <3>2, <3>3 DEF PastIt
  <2>5. root' = TRUE
    BY <1>1 DEF CalInv, Types, FirstOK
  <2>6. QED
    BY <1>1, <2>1, <2>3, <2>4, <2>5, NothingTorn, LeavesWalk DEF Walking, Asked
<1>5. CASE CreateBatch
  <2>1. session.at = "create" /\ session' = [session EXCEPT !.at = "loop", !.index = session.index]
    BY <1>2, <1>5 DEF CreateBatch, Go, Session
  <2>2. QED
    BY <1>2, <1>4, <2>1
<1>6. CASE SkipRecorded
  <2>1. session.at = "loop" /\ ~(session.index > Len(RunOrder))
    BY <1>6 DEF SkipRecorded, AllConsidered
  <2>2. session.index + 1 \in 1..(Len(RunOrder) + 1)
    BY <1>2, <2>1, RunsListed
  <2>3. session' = [session EXCEPT !.at = "loop", !.index = session.index + 1]
    BY <1>2, <1>6, <2>1 DEF SkipRecorded, Session
  <2>4. QED
    BY <1>4, <2>1, <2>2, <2>3
<1>7. CASE MarkCompleted
  <2>1. session.at = "recorded" /\ session.index \in DOMAIN RunOrder
    BY <1>7 DEF MarkCompleted, CalInv, PlaceOK
  <2>2. /\ session.index + 1 \in 1..(Len(RunOrder) + 1)
        /\ session' = [session EXCEPT !.at = "loop", !.index = session.index + 1]
    BY <1>2, <1>7, <2>1, RunsListed DEF MarkCompleted, Session
  <2>3. QED
    BY <1>4, <2>1, <2>2
<1>8. CASE WriteReceipt /\ session' # NoSession
  <2>1. session.at = "loop" /\ session' = [session EXCEPT !.at = "complete", !.index = session.index]
    BY <1>2, <1>8 DEF WriteReceipt, Go, Session
  <2>2. QED
    BY <1>2, <1>4, <2>1
<1>9. CASE CompleteBatch /\ session' # NoSession
  <2>1. /\ session.at = "complete"
        /\ session' = [session EXCEPT !.at = "final", !.index = session.index]
    BY <1>2, <1>9 DEF CompleteBatch, Go, Session
  <2>2. QED
    BY <1>2, <1>4, <2>1
<1>10. QED
  BY <1>3, <1>5, <1>6, <1>7, <1>8, <1>9

\* The steps that end a session.
LEMMA EndStep == CalInv /\ (MarkFailed \/ WriteFinalReceipt \/ Crash) => CalInv'
<1> SUFFICES ASSUME CalInv, MarkFailed \/ WriteFinalReceipt \/ Crash PROVE CalInv'
  OBVIOUS
<1>1. CASE MarkFailed \/ WriteFinalReceipt
  BY <1>1, NothingTorn, Closes DEF MarkFailed, WriteFinalReceipt
<1>2. CASE Crash
  <2>1. /\ UNCHANGED <<ledger, audit, decisions, checkpoint, said, amendment, retried, root>>
        /\ session' = NoSession /\ session.at # "closed"
    BY <1>2 DEF Crash, batchVars
  <2>2. torn' \in [Runs -> SUBSET Logs] /\ \A run \in Runs : torn[run] \subseteq torn'[run]
    <3>1. torn \in [Runs -> SUBSET Logs] /\ AppendsTo \subseteq Logs
      BY DEF CalInv, Types, AppendsTo, Logs
    <3>2. QED
      BY <1>2, <3>1 DEF Crash
  <2>3. QED
    BY <2>1, <2>2, Closes
<1>3. QED
  BY <1>1, <1>2

\* A run that is through its rounds.
LEMMA FinishStep == CalInv /\ FinishRun => CalInv'
<1> SUFFICES ASSUME CalInv, FinishRun PROVE CalInv'
  OBVIOUS
<1>1. /\ UNCHANGED <<ledger, audit, decisions, checkpoint, torn, said, amendment, retried, root>>
      /\ session.at = "ask" /\ session \in Session /\ session.index \in DOMAIN RunOrder
      /\ root' = TRUE
      /\ torn' \in [Runs -> SUBSET Logs] /\ \A run \in Runs : torn[run] \subseteq torn'[run]
  BY DEF FinishRun, batchVars, CalInv, Types, PlaceOK, Walking, FirstOK
<1>2. /\ session' \in Session /\ session'.at \in {"recorded", "failing"}
      /\ session'.index = session.index
      /\ session'.resume = session.resume /\ session'.amended = session.amended
  BY <1>1 DEF FinishRun, Go, Session, Steps
<1>3. ~session'.resume =>
        \A j \in DOMAIN RunOrder : j > session'.index => ledger[RunOrder[j]] = <<>>
  BY <1>1, <1>2 DEF CalInv, FirstOK
<1>4. ASSUME NEW am \in amendment, retried = 1, session'.amended
      PROVE  PastIt(am)'
  BY <1>2, <1>4 DEF CalInv, AmendOK, AmendmentOK, PastIt, Walking, Asked
<1>5. QED
  BY <1>1, <1>2, <1>3, <1>4, LeavesWalk DEF Walking, Asked

-----------------------------------------------------------------------------
(* Steps to the next request, the logs left alone. *)

\* The memory is right when no answer is taken and none comes.
LEMMA MemStays ==
  ASSUME UNCHANGED <<checkpoint, said>>, NEW run, NEW mem, MemOK(run, mem)
  PROVE  MemOK(run, mem)'
BY DEF MemOK, KeptUpTo, Kept, HoldsSaid, SharedAt, Reached

\* The amended resume that went past a request goes on past it.
LEMMA GoesOn ==
  ASSUME CalInv, session.at \in Walking, session' \in Session, session'.at = "ask",
         session'.index = session.index,
         \A a \in Agents, rd \in 0..Rounds :
           Before(rd, a, session.mem.round, session.mem.next)
             \/ (rd = session.mem.round /\ a = AgentOrder[session.mem.next]) =>
               Before(rd, a, session'.mem.round, session'.mem.next),
         NEW am \in amendment, PastIt(am)
  PROVE  PastIt(am)'
<1>1. am.req \in Requests /\ am.req.agent \in Agents /\ am.req.round \in 0..Rounds
  BY RoundsAssumption DEF CalInv, AmendOK, AmendmentOK, Requests
<1>2. PICK n \in DOMAIN RunOrder :
        /\ RunOrder[n] = am.run
        /\ \/ n < session.index
           \/ /\ n = session.index
              /\ \/ Before(am.req.round, am.req.agent, session.mem.round, session.mem.next)
                 \/ session.at # "ask" /\ am.req = Request
  BY DEF PastIt
<1>3. CASE n < session.index
  BY <1>2, <1>3 DEF PastIt
<1>4. CASE ~(n < session.index)
  <2>1. am.req = Request => am.req.round = session.mem.round
                              /\ am.req.agent = AgentOrder[session.mem.next]
    BY DEF Request, Pending
  <2>2. Before(am.req.round, am.req.agent, session'.mem.round, session'.mem.next)
    BY <1>1, <1>2, <1>4, <2>1
  <2>3. QED
    BY <1>2, <1>4, <2>2 DEF PastIt, Walking
<1>5. QED
  BY <1>2, <1>3, <1>4

\* A session comes to its next request without one in the logs changing.
LEMMA ComesToAsk ==
  ASSUME CalInv, UNCHANGED <<runVars, said, amendment, retried, root>>,
         session.at # "closed", session' \in Session, session'.at = "ask",
         session'.index = session.index, session.index \in DOMAIN RunOrder,
         session'.resume = session.resume,
         NEW mem, mem = session'.mem, MemOK(Current, mem),
         session.resume \/ (session.at = "loop" /\ mem = Afresh),
         \A am \in amendment : retried = 1 /\ session'.amended => PastIt(am)'
  PROVE  CalInv'
<1>1. /\ UNCHANGED <<ledger, audit, decisions, checkpoint, torn>>
      /\ torn' \in [Runs -> SUBSET Logs] /\ \A run \in Runs : torn[run] \subseteq torn'[run]
  BY NothingTorn
<1>2. root = TRUE /\ root' = TRUE
  BY DEF CalInv, Types, FirstOK
<1>3. Types' /\ LogInv' /\ AmendOK'
  BY <1>1, <1>2, Quiet
<1>4. PlaceOK'
  <2>1. \A run : MemOK(run, mem) => MemOK(run, mem)'
    BY <1>1, MemStays
  <2>2. Current' = Current
    BY DEF Current
  <2>3. MemOK(Current, session.mem)'
    BY <2>1, <2>2
  <2>4. QED
    BY <2>3 DEF PlaceOK, Walking, Asked
<1>5. SentOK' /\ AnswerOK'
  BY DEF SentOK, AnswerOK
<1>6. FirstOK'
  <2>1. CASE session.resume
    BY <1>2, <2>1 DEF FirstOK
  <2>2. CASE ~session.resume
    <3>1. \A j \in DOMAIN RunOrder : j > session.index \/ j = session.index => ledger[RunOrder[j]] = <<>>
      BY <2>2 DEF CalInv, FirstOK
    <3>2. ledger'[Current'] = <<>> /\ DOMAIN <<>> = {}
      BY <1>1, <3>1 DEF Current
    <3>3. QED
      BY <1>1, <1>2, <3>1, <3>2 DEF FirstOK
  <2>3. QED
    BY <2>1, <2>2
<1>7. QED
  BY <1>3, <1>4, <1>5, <1>6 DEF CalInv

\* A run is begun, or begun again, with nothing in memory.
LEMMA MarkRunningStep == CalInv /\ MarkRunning => CalInv'
<1> SUFFICES ASSUME CalInv, MarkRunning PROVE CalInv'
  OBVIOUS
<1>1. /\ session.at = "loop" /\ ~(session.index > Len(RunOrder)) /\ session \in Session
      /\ session' = [session EXCEPT !.at = "ask", !.mem = Afresh, !.calls = 0]
      /\ UNCHANGED <<runVars, said, amendment, retried, root>>
  BY DEF MarkRunning, AllConsidered, CalInv, Types
<1>2. /\ session' \in Session /\ session'.at = "ask" /\ session'.mem = Afresh
      /\ session'.index = session.index /\ session'.resume = session.resume
      /\ session'.amended = session.amended
  BY <1>1, NoSessionType DEF Session, Steps
<1>3. session.index \in DOMAIN RunOrder
  BY <1>1, RunsListed DEF Session
<1>4. MemOK(Current, Afresh)
  <2>1. /\ Afresh.round = 0 /\ Afresh.next = 1 /\ Afresh.shared = {} /\ Afresh.sharing = {}
        /\ Afresh.told = {}
    BY DEF Afresh
  <2>2. \A rd \in 0..(Rounds - 1), a \in Agents : ~Before(rd, a, 0, 1)
    BY AgentsListed DEF Before
  <2>3. \A i \in DOMAIN AgentOrder : ~(i < 1)
    BY AgentsListed
  <2>4. QED
    BY <2>1, <2>2, <2>3 DEF MemOK, KeptUpTo, HoldsSaid
<1>5. ASSUME NEW am \in amendment, retried = 1, session'.amended
      PROVE  PastIt(am)'
  <2>1. PastIt(am)
    BY <1>2, <1>5 DEF CalInv, AmendOK, AmendmentOK
  <2>2. PICK n \in DOMAIN RunOrder : RunOrder[n] = am.run /\ n < session.index
    BY <1>1, <2>1 DEF PastIt, Walking, Asked
  <2>3. QED
    BY <1>2, <2>2 DEF PastIt
<1>6. QED
  BY <1>1, <1>2, <1>3, <1>4, <1>5, ComesToAsk

\* A kept answer is taken, which is the one that came.
LEMMA TakeCachedStep == CalInv /\ TakeCached => CalInv'
<1> SUFFICES ASSUME CalInv, TakeCached PROVE CalInv'
  OBVIOUS
<1>1. /\ Types /\ SaidOK /\ session \in Session /\ session.mem \in Memory /\ ~Done(session.mem)
      /\ session.at = "ask" /\ session.index \in DOMAIN RunOrder /\ Current \in Runs
      /\ MemOK(Current, session.mem) /\ LedgerOK(Current) /\ LogsOK(Current)
      /\ session.resume /\ UNCHANGED <<runVars, said, amendment, retried, root>>
  BY RunsListed DEF TakeCached, Asking, Cached, CalInv, LogInv, PlaceOK, Walking, Types,
                    Session, Current, batchVars
<1>2. PICK entry \in checkpoint[Current] :
        /\ entry.req = Request
        /\ session' = [session EXCEPT !.mem = Advance(Current, @, entry.share)]
  BY DEF TakeCached
<1>3. PICK s \in said : s.req = Request /\ s.share = entry.share
  BY <1>1, <1>2 DEF LogsOK
<1> DEFINE on == Advance(Current, session.mem, s.share)
<1>4. on \in Memory /\ HoldsSaid(Current, on)
  BY <1>1, <1>3, WalkMemory DEF Request
<1>5. /\ on.round = Rounds => on.next = 1
      /\ \A a \in Agents, rd \in 0..Rounds :
           Before(rd, a, on.round, on.next) <=>
             \/ Before(rd, a, session.mem.round, session.mem.next)
             \/ rd = session.mem.round /\ a = AgentOrder[session.mem.next]
  BY <1>1, BeforeNext
<1>6. /\ session' = [session EXCEPT !.mem = on]
      /\ session' \in Session /\ session'.at = "ask" /\ session'.mem = on
      /\ session'.index = session.index /\ session'.resume = session.resume
      /\ session'.amended = session.amended
  <2>1. session' = [session EXCEPT !.mem = on]
    BY <1>2, <1>3
  <2> HIDE DEF on
  <2>2. QED
    BY <1>1, <1>4, <2>1 DEF Session
<1> HIDE DEF on
<1>7. KeptUpTo(Current, on.round, on.next)
  <2>1. Request \in Kept(Current) /\ Request.agent = AgentOrder[session.mem.next]
        /\ Request.round = session.mem.round
    BY <1>2 DEF Kept, Request, Pending
  <2>2. KeptUpTo(Current, session.mem.round, session.mem.next)
    BY <1>1 DEF MemOK
  <2>3. 0..(Rounds - 1) \subseteq 0..Rounds
    BY RoundsAssumption
  <2>4. QED
    BY <1>5, <2>1, <2>2, <2>3 DEF KeptUpTo
<1>8. MemOK(Current, on)
  BY <1>4, <1>5, <1>7 DEF MemOK
<1>9. ASSUME NEW am \in amendment, retried = 1, session'.amended
      PROVE  PastIt(am)'
  <2>1. PastIt(am)
    BY <1>6, <1>9 DEF CalInv, AmendOK, AmendmentOK
  <2>2. session.at \in Walking
    BY <1>1 DEF Walking
  <2>3. QED
    BY <1>5, <1>6, <2>1, <2>2, GoesOn
<1>10. QED
  BY <1>1, <1>6, <1>8, <1>9, ComesToAsk

-----------------------------------------------------------------------------
(* Steps of the request in hand, the ledger left alone. *)

\* What is known while a request is in hand.
LEMMA InWalk ==
  ASSUME CalInv, session.at \in Walking, ~Done(session.mem)
  PROVE  /\ Types /\ SaidOK /\ session \in Session /\ session.mem \in Memory
         /\ session.index \in DOMAIN RunOrder /\ Current \in Runs
         /\ MemOK(Current, session.mem)
         /\ LedgerOK(Current) /\ AttemptsOK(Current) /\ LogsOK(Current)
         /\ Request \in Requests /\ Request.run = Current
         /\ Request.agent = AgentOrder[session.mem.next] /\ Request.round = session.mem.round
         /\ AsSeen(Request) /\ Follows(Current, Request)
         /\ root = TRUE /\ ledger[Current] \in Seq(Receipt) /\ Request.agent \in Agents
<1>1. /\ Types /\ SaidOK /\ session \in Session /\ session.mem \in Memory
      /\ session.index \in DOMAIN RunOrder /\ Current \in Runs
      /\ MemOK(Current, session.mem)
      /\ LedgerOK(Current) /\ AttemptsOK(Current) /\ LogsOK(Current)
  BY RunsListed DEF CalInv, LogInv, PlaceOK, Types, Session, Current
<1>2. root = TRUE /\ ledger[Current] \in Seq(Receipt)
  BY <1>1 DEF CalInv, FirstOK, Types, Walking, Asked
<1>3. QED
  BY <1>1, <1>2, PendingMeans DEF Request

\* What is in hand stays in hand.
LEMMA InHandStill ==
  ASSUME session.at \in Walking, session'.at \in Asked,
         session'.index = session.index, session'.mem = session.mem
  PROVE  /\ Current' = Current /\ Request' = Request /\ (Done(session.mem) <=> Done(session'.mem))
         /\ \A am \in amendment : PastIt(am) => PastIt(am)'
<1>1. Current' = Current /\ Request' = Request
  BY DEF Current, Request
<1>2. ASSUME NEW am \in amendment, PastIt(am) PROVE PastIt(am)'
  <2>1. PICK n \in DOMAIN RunOrder :
          /\ RunOrder[n] = am.run
          /\ \/ n < session.index
             \/ /\ n = session.index
                /\ \/ Before(am.req.round, am.req.agent, session.mem.round, session.mem.next)
                   \/ session.at # "ask" /\ am.req = Request
    BY <1>2 DEF PastIt
  <2>2. session'.at \in Walking \cup {"recorded", "failing"} /\ session'.at # "ask"
    BY DEF Asked, Walking
  <2>3. QED
    BY <1>1, <2>1, <2>2 DEF PastIt
<1>3. QED
  BY <1>1, <1>2

\* And the first session has still come upon nothing.
LEMMA FirstStill ==
  ASSUME CalInv, UNCHANGED <<ledger, root>>, session.at \in Walking, session'.at \in Asked,
         session'.index = session.index, session'.mem = session.mem,
         session'.resume = session.resume
  PROVE  FirstOK'
<1>1. root = TRUE /\ root' = TRUE /\ session.at # "closed"
  BY DEF CalInv, Types, FirstOK, Walking, Asked
<1>2. Current' = Current /\ Request' = Request
  BY InHandStill
<1>3. session'.at \notin {"closed", "create", "loop", "ask"} /\ session'.at \in Walking
  BY DEF Asked, Walking
<1>4. ASSUME ~session.resume
      PROVE  /\ \A j \in DOMAIN RunOrder : j > session.index => ledger[RunOrder[j]] = <<>>
             /\ \A i \in DOMAIN ledger[Current] :
                  \/ Before(ledger[Current][i].req.round, ledger[Current][i].req.agent,
                            session.mem.round, session.mem.next)
                  \/ ledger[Current][i].req = Request
  BY <1>1, <1>4 DEF CalInv, FirstOK
<1>5. QED
  BY <1>1, <1>2, <1>3, <1>4 DEF FirstOK

\* A request that is not through fails its run.
LEMMA FailsInHand ==
  ASSUME CalInv, UNCHANGED <<runVars, said, amendment, retried, root>>,
         session.at \in Walking, session' \in Session, session'.at = "failing",
         session'.index = session.index, session'.resume = session.resume,
         session'.amended = session.amended
  PROVE  CalInv'
<1>1. session.index \in DOMAIN RunOrder /\ root' = TRUE /\ session.at # "closed"
  BY DEF CalInv, PlaceOK, Types, FirstOK, Walking, Asked
<1>2. ~session'.resume =>
        \A j \in DOMAIN RunOrder : j > session'.index => ledger[RunOrder[j]] = <<>>
  BY <1>1 DEF CalInv, FirstOK
<1>3. ASSUME NEW am \in amendment, retried = 1, session'.amended
      PROVE  PastIt(am)'
  <2>1. PastIt(am)
    BY <1>3 DEF CalInv, AmendOK, AmendmentOK
  <2>2. PICK n \in DOMAIN RunOrder :
          RunOrder[n] = am.run /\ (n < session.index \/ n = session.index)
    BY <2>1 DEF PastIt
  <2>3. QED
    BY <2>2 DEF PastIt, Walking, Asked
<1>4. QED
  BY <1>1, <1>2, <1>3, NothingTorn, LeavesWalk DEF Walking, Asked

\* A refused request is handled as a failure, and was completed.
LEMMA RefuseStep == CalInv /\ Refuse => CalInv'
<1> SUFFICES ASSUME CalInv, Refuse PROVE CalInv'
  OBVIOUS
<1>1. /\ session.at = "ask" /\ session.at \in Walking /\ ~Done(session.mem)
      /\ Asking /\ ~Admitted
      /\ session' = [session EXCEPT !.at = "audit", !.answer = NoAnswer, !.code = "other"]
      /\ UNCHANGED <<ledger, audit, decisions, checkpoint, torn, said, amendment, retried, root>>
  BY DEF Refuse, Asking, Walking, runVars, batchVars
<1>2. session \in Session /\ root = TRUE /\ session.index \in DOMAIN RunOrder
      /\ MemOK(Current, session.mem) /\ torn \in [Runs -> SUBSET Logs]
  BY <1>1, InWalk DEF Types
<1>3. /\ session' \in Session /\ session'.at = "audit" /\ session'.at \in Asked
      /\ session'.index = session.index /\ session'.mem = session.mem
      /\ session'.resume = session.resume /\ session'.amended = session.amended
      /\ session'.answer = NoAnswer
  BY <1>1, <1>2 DEF Session, Steps, Asked, NoAnswer, Answers
<1>4. /\ Current' = Current /\ Request' = Request /\ ~Done(session'.mem)
      /\ \A am \in amendment : PastIt(am) => PastIt(am)'
  BY <1>1, <1>3, InHandStill
<1>5. \A am \in amendment : retried = 1 /\ session'.amended => PastIt(am)'
  BY <1>3, <1>4 DEF CalInv, AmendOK, AmendmentOK
<1>6. root' \in BOOLEAN
  BY <1>1, <1>2
<1>7. Types' /\ LogInv' /\ AmendOK'
  BY <1>1, <1>2, <1>3, <1>5, <1>6, Quiet
<1>8. PlaceOK'
  <2>1. \A run, mem : MemOK(run, mem) => MemOK(run, mem)'
    BY <1>1, MemStays
  <2>2. MemOK(Current, session.mem)'
    BY <1>2, <1>3, <1>4, <2>1
  <2>3. QED
    BY <1>2, <1>3, <1>4, <2>2 DEF PlaceOK
<1>9. SentOK'
  BY <1>3 DEF SentOK
<1>10. AnswerOK'
  <2>1. Request \in CompletedRequests(Current) \/ "ledger" \in torn[Current]
    BY <1>1, RefusedMeans
  <2>2. (Request \in CompletedRequests(Current) \/ "ledger" \in torn[Current])'
    BY <1>1, <1>4, <2>1 DEF CompletedRequests
  <2>3. ~session'.answer.valid /\ ~session'.answer.cut
    BY <1>3 DEF NoAnswer
  <2>4. QED
    BY <1>3, <2>2, <2>3 DEF AnswerOK
<1>11. FirstOK'
  BY <1>1, <1>3, FirstStill
<1>12. QED
  BY <1>7, <1>8, <1>9, <1>10, <1>11 DEF CalInv

\* A failure or answer is audited, unless its request was before.
LEMMA AppendAuditStep == CalInv /\ AppendAudit => CalInv'
<1> SUFFICES ASSUME CalInv, AppendAudit PROVE CalInv'
  OBVIOUS
<1>1. /\ session.at = "audit" /\ session.at \in Walking
      /\ UNCHANGED <<ledger, decisions, checkpoint, torn, said, amendment, retried, root, record>>
  BY DEF AppendAudit, Walking, Asked, batchVars
<1>2. ~Done(session.mem)
  BY <1>1 DEF CalInv, PlaceOK, Asked
<1>3. /\ Types /\ session \in Session /\ root = TRUE /\ session.index \in DOMAIN RunOrder
      /\ Current \in Runs /\ MemOK(Current, session.mem) /\ Request \in Requests
      /\ LogInv /\ AnswerOK /\ AmendOK
  BY <1>1, <1>2, InWalk DEF CalInv
<1>4. CASE "audit" \in torn[Current]
  <2>1. UNCHANGED <<runVars, said, amendment, retried, root>>
    BY <1>1, <1>4 DEF AppendAudit, runVars
  <2>2. session' = [session EXCEPT !.at = "failing", !.code = "other"]
    BY <1>4 DEF AppendAudit
  <2>3. /\ session' \in Session /\ session'.at = "failing"
        /\ session'.index = session.index /\ session'.resume = session.resume
        /\ session'.amended = session.amended
    BY <1>3, <2>2 DEF Session, Steps
  <2>4. QED
    BY <1>1, <2>1, <2>3, FailsInHand
<1>5. CASE "audit" \notin torn[Current]
  <2> DEFINE entry == [req |-> Request, cut |-> session.answer.cut]
  <2>1. /\ session' = [session EXCEPT !.at = "judge"]
        /\ audit' = IF Request \in Audited(Current) THEN audit
                    ELSE [audit EXCEPT ![Current] = Append(@, entry)]
    BY <1>5 DEF AppendAudit, Go
  <2>2. /\ session' \in Session /\ session'.at = "judge" /\ session'.at \in Asked
        /\ session'.index = session.index /\ session'.mem = session.mem
        /\ session'.resume = session.resume /\ session'.amended = session.amended
        /\ session'.answer = session.answer
    BY <1>3, <2>1 DEF Session, Steps, Asked
  <2>3. /\ Current' = Current /\ Request' = Request /\ ~Done(session'.mem)
        /\ \A am \in amendment : PastIt(am) => PastIt(am)'
    BY <1>1, <1>2, <2>2, InHandStill
  <2>4. entry \in [req : Requests, cut : BOOLEAN]
    BY <1>3 DEF Session, Answers
  <2>5. \A run \in Runs : audit[run] \in Seq([req : Requests, cut : BOOLEAN])
    BY <1>3 DEF Types
  <2>6. /\ audit' \in [Runs -> Seq([req : Requests, cut : BOOLEAN])]
        /\ \A run \in Runs : Audited(run)' = Audited(run)
                                \/ (run = Current /\ Audited(run)' = Audited(run) \cup {Request})
        /\ Request \in Audited(Current)'
        /\ Request \notin Audited(Current) =>
             audit'[Current] # <<>> /\ Last(audit'[Current]) = entry
    <3>1. CASE Request \in Audited(Current)
      <4>1. audit' = audit
        BY <2>1, <3>1
      <4>2. \A run : Audited(run)' = Audited(run)
        BY <4>1 DEF Audited
      <4>3. QED
        BY <1>3, <2>3, <3>1, <4>1, <4>2 DEF Types
    <3>2. CASE Request \notin Audited(Current)
      <4> DEFINE log == audit[Current]  new == Append(log, entry)
      <4>1. audit' = [audit EXCEPT ![Current] = new] /\ audit'[Current] = new
        BY <1>3, <2>1, <3>2 DEF Types
      <4>2. /\ log \in Seq([req : Requests, cut : BOOLEAN])
            /\ DOMAIN log = 1..Len(log) /\ Len(log) \in Nat
        BY <1>3, <2>5, LenProperties
      <4> HIDE DEF entry, log
      <4>3. /\ new \in Seq([req : Requests, cut : BOOLEAN]) /\ Len(new) = Len(log) + 1
            /\ DOMAIN new = 1..(Len(log) + 1)
            /\ \A i \in 1..Len(log) : new[i] = log[i]
            /\ new[Len(log) + 1] = entry
        BY <2>4, <4>2, AppendProperties
      <4>4. new # <<>> /\ Last(new) = entry
        BY <4>2, <4>3, EmptySeq DEF Last
      <4> HIDE DEF new
      <4>5. {new[i].req : i \in DOMAIN new} = {log[i].req : i \in DOMAIN log} \cup {entry.req}
        BY <4>2, <4>3
      <4>6. entry.req = Request
        BY DEF entry
      <4>7. Audited(Current)' = Audited(Current) \cup {Request}
        BY <2>3, <4>1, <4>5, <4>6 DEF Audited, log
      <4>8. \A run \in Runs : run # Current => Audited(run)' = Audited(run)
        BY <4>1, <1>3 DEF Audited, Types
      <4>9. audit' \in [Runs -> Seq([req : Requests, cut : BOOLEAN])]
        BY <1>3, <4>1, <4>3 DEF Types
      <4>10. QED
        BY <2>3, <3>2, <4>1, <4>4, <4>7, <4>8, <4>9
    <3>3. QED
      BY <3>1, <3>2
  <2> HIDE DEF entry
  <2>7. Types'
    BY <1>1, <1>3, <2>2, <2>6 DEF Types
  <2>8. /\ \A run, r : Failed(run, r)' <=> Failed(run, r)
        /\ \A run : CompletedRequests(run)' = CompletedRequests(run)
    BY <1>1 DEF Failed, CompletedRequests
  <2>9. LogInv'
    <3>1. SaidOK'
      BY <1>1, <1>3, <2>8 DEF LogInv, SaidOK
    <3>2. ASSUME NEW run \in Runs
          PROVE  (LedgerOK(run) /\ AttemptsOK(run) /\ LogsOK(run))'
      <4>1. /\ \A r : AsSeen(r)' <=> AsSeen(r)
            /\ \A r : Follows(run, r)' <=> Follows(run, r)
        BY <1>1 DEF AsSeen, Reached, Follows, KeptUpTo, Kept
      <4>2. LedgerOK(run)' /\ AttemptsOK(run)'
        BY <1>1, <1>3, <3>2, <4>1 DEF LogInv, LedgerOK, AttemptsOK
      <4>3. LogsOK(run)
        BY <1>3, <3>2 DEF LogInv
      <4>4. Failed(Current, Request) \/ Request \in CompletedRequests(Current)
              \/ "ledger" \in torn[Current]
        BY <1>1, <1>3 DEF AnswerOK
      <4>5. \A r \in Audited(run)' :
              Failed(run, r) \/ r \in CompletedRequests(run) \/ "ledger" \in torn[run]
        BY <2>6, <3>2, <4>3, <4>4 DEF LogsOK
      <4>6. Audited(run) \subseteq Audited(run)'
        BY <2>6, <3>2
      <4>7. LogsOK(run)'
        BY <1>1, <2>8, <4>3, <4>5, <4>6 DEF LogsOK
      <4>8. QED
        BY <4>2, <4>7
    <3>3. QED
      BY <3>1, <3>2 DEF LogInv
  <2>10. AmendOK'
    <3>1. \A run \in Runs : Len(ledger[run]) \in Nat
      BY <1>3, LedgerTyped
    <3>2. \A am \in amendment : retried = 1 /\ session'.amended => PastIt(am)'
      BY <1>3, <2>2, <2>3 DEF AmendOK, AmendmentOK
    <3>3. QED
      BY <1>1, <1>3, <3>1, <3>2, QuietAmendment
  <2>11. PlaceOK'
    <3>1. \A run, mem : MemOK(run, mem) => MemOK(run, mem)'
      BY <1>1, MemStays
    <3>2. MemOK(Current, session.mem)'
      BY <1>3, <2>2, <2>3, <3>1
    <3>3. QED
      BY <1>3, <2>2, <2>3, <3>2 DEF PlaceOK
  <2>12. SentOK'
    BY <2>2 DEF SentOK
  <2>13. AnswerOK'
    <3>1. session'.answer.cut => Failed(Current, Request)' \/ CutOff'
      <4>1. CASE Request \in Audited(Current)
        BY <1>1, <1>3, <2>2, <2>3, <2>8, <4>1 DEF AnswerOK
      <4>2. CASE Request \notin Audited(Current)
        <5>1. Last(audit'[Current]).cut = session.answer.cut
          BY <2>6, <4>2 DEF entry
        <5>2. QED
          BY <2>2, <2>3, <5>1 DEF CutOff
      <4>3. QED
        BY <4>1, <4>2
    <3>2. /\ session.answer.valid =>
               /\ Request \in CompletedRequests(Current)
               /\ \E s \in said : /\ s.req = Request /\ s.share = session.answer.share
                                  /\ s.cut = session.answer.cut
          /\ Failed(Current, Request) \/ Request \in CompletedRequests(Current)
               \/ "ledger" \in torn[Current]
      BY <1>1, <1>3 DEF AnswerOK
    <3>3. /\ Failed(Current, Request)' <=> Failed(Current, Request)
          /\ CompletedRequests(Current)' = CompletedRequests(Current)
      BY <2>3, <2>8
    <3>4. QED
      BY <1>1, <2>2, <2>3, <2>6, <3>1, <3>2, <3>3 DEF AnswerOK
  <2>14. FirstOK'
    BY <1>1, <2>2, FirstStill
  <2>15. QED
    BY <2>7, <2>9, <2>10, <2>11, <2>12, <2>13, <2>14 DEF CalInv
<1>6. QED
  BY <1>4, <1>5

\* Only a whole and valid answer is decided upon.
LEMMA RecordDecisionStep == CalInv /\ RecordDecision => CalInv'
<1> SUFFICES ASSUME CalInv, RecordDecision PROVE CalInv'
  OBVIOUS
<1>1. /\ session.at = "judge" /\ session.at \in Walking
      /\ UNCHANGED <<ledger, audit, checkpoint, torn, said, amendment, retried, root, record>>
  BY DEF RecordDecision, Walking, Asked, batchVars
<1>2. ~Done(session.mem)
  BY <1>1 DEF CalInv, PlaceOK, Asked
<1>3. /\ Types /\ session \in Session /\ root = TRUE /\ session.index \in DOMAIN RunOrder
      /\ Current \in Runs /\ MemOK(Current, session.mem) /\ Request \in Requests
      /\ LogInv /\ AnswerOK /\ AmendOK /\ Request.run = Current
  BY <1>1, <1>2, InWalk DEF CalInv
<1>4. CASE CutOff \/ ~session.answer.valid \/ "decisions" \in torn[Current]
  <2>1. UNCHANGED <<runVars, said, amendment, retried, root>>
    BY <1>1, <1>4 DEF RecordDecision, runVars
  <2>2. \/ session' = [session EXCEPT !.at = "failing", !.code = "other"]
        \/ session' = [session EXCEPT !.at = "failing"]
    BY <1>4 DEF RecordDecision, Go
  <2>3. /\ session' \in Session /\ session'.at = "failing"
        /\ session'.index = session.index /\ session'.resume = session.resume
        /\ session'.amended = session.amended
    BY <1>3, <2>2 DEF Session, Steps
  <2>4. QED
    BY <1>1, <2>1, <2>3, FailsInHand
<1>5. CASE ~(CutOff \/ ~session.answer.valid \/ "decisions" \in torn[Current])
  <2>1. /\ session' = [session EXCEPT !.at = "save"]
        /\ decisions' = [decisions EXCEPT ![Current] = @ \cup {Request}]
    BY <1>5 DEF RecordDecision, Go
  <2>2. /\ session' \in Session /\ session'.at = "save" /\ session'.at \in Asked
        /\ session'.index = session.index /\ session'.mem = session.mem
        /\ session'.resume = session.resume /\ session'.amended = session.amended
        /\ session'.answer = session.answer
    BY <1>3, <2>1 DEF Session, Steps, Asked
  <2>3. /\ Current' = Current /\ Request' = Request /\ ~Done(session'.mem)
        /\ \A am \in amendment : PastIt(am) => PastIt(am)'
    BY <1>1, <1>2, <2>2, InHandStill
  <2>4. /\ decisions' \in [Runs -> SUBSET Requests]
        /\ decisions'[Current] = decisions[Current] \cup {Request}
        /\ \A run \in Runs : run # Current => decisions'[run] = decisions[run]
    BY <1>3, <2>1 DEF Types
  <2>5. Types'
    BY <1>1, <1>3, <2>2, <2>4 DEF Types
  <2>6. /\ \A run, r : Failed(run, r)' <=> Failed(run, r)
        /\ \A run : CompletedRequests(run)' = CompletedRequests(run)
        /\ \A run : Audited(run)' = Audited(run)
    BY <1>1 DEF Failed, CompletedRequests, Audited
  <2>7. /\ Request \in CompletedRequests(Current) /\ Request \in Audited(Current)
        /\ session.answer.cut => Failed(Current, Request)
        /\ \E s \in said : s.req = Request /\ s.share = session.answer.share
                             /\ s.cut = session.answer.cut
    BY <1>1, <1>3, <1>5 DEF AnswerOK
  <2>8. LogInv'
    <3>1. SaidOK'
      BY <1>1, <1>3, <2>6 DEF LogInv, SaidOK
    <3>2. ASSUME NEW run \in Runs
          PROVE  (LedgerOK(run) /\ AttemptsOK(run) /\ LogsOK(run))'
      <4>1. /\ \A r : AsSeen(r)' <=> AsSeen(r)
            /\ \A r : Follows(run, r)' <=> Follows(run, r)
        BY <1>1 DEF AsSeen, Reached, Follows, KeptUpTo, Kept
      <4>2. LedgerOK(run)' /\ AttemptsOK(run)'
        BY <1>1, <1>3, <3>2, <4>1 DEF LogInv, LedgerOK, AttemptsOK
      <4>3. LogsOK(run)
        BY <1>3, <3>2 DEF LogInv
      <4>4. decisions[run] \subseteq decisions'[run]
        BY <2>4, <3>2
      <4>5. decisions'[run] \subseteq Audited(run) \cap CompletedRequests(run)
        BY <2>4, <2>7, <3>2, <4>3 DEF LogsOK
      <4>6. ASSUME NEW s \in said, s.cut, s.req.run = run, s.req \in decisions'[run]
            PROVE  Failed(run, s.req)
        <5>1. CASE s.req \in decisions[run]
          BY <4>3, <4>6, <5>1 DEF LogsOK
        <5>2. CASE s.req \notin decisions[run]
          <6>1. run = Current /\ s.req = Request
            BY <2>4, <3>2, <4>6, <5>2
          <6>2. PICK t \in said : t.req = Request /\ t.cut = session.answer.cut
            BY <2>7
          <6>3. s = t
            BY <1>3, <6>1, <6>2 DEF LogInv, SaidOK
          <6>4. QED
            BY <2>7, <4>6, <6>1, <6>2, <6>3
        <5>3. QED
          BY <5>1, <5>2
      <4>7. LogsOK(run)'
        BY <1>1, <2>6, <4>3, <4>4, <4>5, <4>6 DEF LogsOK
      <4>8. QED
        BY <4>2, <4>7
    <3>3. QED
      BY <3>1, <3>2 DEF LogInv
  <2>9. AmendOK'
    <3>1. \A run \in Runs : Len(ledger[run]) \in Nat
      BY <1>3, LedgerTyped
    <3>2. \A am \in amendment : retried = 1 /\ session'.amended => PastIt(am)'
      BY <1>3, <2>2, <2>3 DEF AmendOK, AmendmentOK
    <3>3. QED
      BY <1>1, <1>3, <3>1, <3>2, QuietAmendment
  <2>10. PlaceOK'
    <3>1. \A run, mem : MemOK(run, mem) => MemOK(run, mem)'
      BY <1>1, MemStays
    <3>2. MemOK(Current, session.mem)'
      BY <1>3, <2>2, <2>3, <3>1
    <3>3. QED
      BY <1>3, <2>2, <2>3, <3>2 DEF PlaceOK
  <2>11. SentOK'
    BY <2>2 DEF SentOK
  <2>12. AnswerOK'
    <3>1. /\ (Request \in CompletedRequests(Current))'
          /\ (Request \in decisions[Current])'
      BY <2>3, <2>4, <2>6, <2>7
    <3>2. session'.answer.valid = session.answer.valid /\ session.answer.valid
      BY <1>5, <2>2
    <3>3. QED
      BY <1>1, <2>2, <2>3, <2>7, <3>1, <3>2 DEF AnswerOK
  <2>13. FirstOK'
    BY <1>1, <2>2, FirstStill
  <2>14. QED
    BY <2>5, <2>8, <2>9, <2>10, <2>11, <2>12, <2>13 DEF CalInv
<1>6. QED
  BY <1>4, <1>5

\* The answer in hand is kept, and the process goes on from it.
LEMMA SaveCheckpointStep == CalInv /\ SaveCheckpoint => CalInv'
<1> SUFFICES ASSUME CalInv, SaveCheckpoint PROVE CalInv'
  OBVIOUS
<1>1. /\ session.at = "save" /\ session.at \in Walking
      /\ UNCHANGED <<ledger, audit, decisions, torn, said, amendment, retried, root, record>>
  BY DEF SaveCheckpoint, Walking, Asked, batchVars
<1>2. ~Done(session.mem)
  BY <1>1 DEF CalInv, PlaceOK, Asked
<1>3. /\ Types /\ SaidOK /\ session \in Session /\ session.mem \in Memory /\ root = TRUE
      /\ session.index \in DOMAIN RunOrder
      /\ Current \in Runs /\ MemOK(Current, session.mem) /\ Request \in Requests
      /\ LogInv /\ AnswerOK /\ AmendOK /\ LedgerOK(Current)
      /\ Request.agent = AgentOrder[session.mem.next] /\ Request.round = session.mem.round
      /\ FirstOK
  BY <1>1, <1>2, InWalk DEF CalInv
<1>4. PICK s \in said : s.req = Request /\ s.share = session.answer.share
  BY <1>1, <1>3 DEF AnswerOK
<1> DEFINE on == Advance(Current, session.mem, s.share)
           entry == [req |-> Request, share |-> s.share]
<1>5. on \in Memory /\ HoldsSaid(Current, on)
  BY <1>2, <1>3, <1>4, WalkMemory DEF Request
<1>6. /\ on.round = Rounds => on.next = 1
      /\ \A a \in Agents, rd \in 0..Rounds :
           Before(rd, a, on.round, on.next) <=>
             \/ Before(rd, a, session.mem.round, session.mem.next)
             \/ rd = session.mem.round /\ a = AgentOrder[session.mem.next]
  BY <1>2, <1>3, BeforeNext
<1>7. /\ session' = [session EXCEPT !.at = "ask", !.answer = NoAnswer, !.code = "none", !.mem = on]
      /\ checkpoint' = [checkpoint EXCEPT ![Current] = @ \cup {entry}]
  BY <1>4 DEF SaveCheckpoint
<1>8. entry \in [req : Requests, share : BOOLEAN] /\ entry.req = Request /\ entry.share = s.share
  BY <1>3 DEF Types
<1> HIDE DEF on, entry
<1>9. /\ session' \in Session /\ session'.at = "ask" /\ session'.mem = on
      /\ session'.index = session.index /\ session'.resume = session.resume
      /\ session'.amended = session.amended
  BY <1>3, <1>5, <1>7 DEF Session, Steps, NoAnswer, Answers
<1>10. /\ checkpoint' \in [Runs -> SUBSET [req : Requests, share : BOOLEAN]]
       /\ checkpoint'[Current] = checkpoint[Current] \cup {entry}
       /\ \A run \in Runs : run # Current => checkpoint'[run] = checkpoint[run]
  BY <1>3, <1>7, <1>8 DEF Types
<1>11. /\ \A run \in Runs : checkpoint[run] \subseteq checkpoint'[run]
                              /\ Kept(run) \subseteq Kept(run)'
       /\ \A q : q \in checkpoint'[Current] => q \in checkpoint[Current] \/ q = entry
  BY <1>10 DEF Kept
<1>12. Types'
  BY <1>1, <1>3, <1>9, <1>10 DEF Types
<1>13. /\ \A run, r : Failed(run, r)' <=> Failed(run, r)
       /\ \A run : CompletedRequests(run)' = CompletedRequests(run)
       /\ \A run : Audited(run)' = Audited(run)
       /\ Current' = Current
  BY <1>1, <1>9 DEF Failed, CompletedRequests, Audited, Current
<1>14. \A run \in Runs : \A rd, n : KeptUpTo(run, rd, n) => KeptUpTo(run, rd, n)'
  BY <1>11 DEF KeptUpTo
<1>15. LogInv'
  <2>1. SaidOK'
    BY <1>1, <1>3, <1>13 DEF SaidOK
  <2>2. ASSUME NEW run \in Runs
        PROVE  (LedgerOK(run) /\ AttemptsOK(run) /\ LogsOK(run))'
    <3>1. /\ \A r : AsSeen(r)' <=> AsSeen(r)
          /\ \A r : Follows(run, r) => Follows(run, r)'
      BY <1>1, <1>14, <2>2 DEF AsSeen, Reached, Follows
    <3>2. LedgerOK(run)' /\ AttemptsOK(run)'
      BY <1>1, <1>3, <2>2, <3>1 DEF LogInv, LedgerOK, AttemptsOK
    <3>3. LogsOK(run)
      BY <1>3, <2>2 DEF LogInv
    <3>4. Request \in decisions[Current]
      BY <1>1, <1>3 DEF AnswerOK
    <3>5. ASSUME NEW e \in checkpoint'[run]
          PROVE  /\ e.req \in decisions[run]
                 /\ \E t \in said : t.req = e.req /\ t.share = e.share
      <4>1. CASE e \in checkpoint[run]
        BY <3>3, <4>1 DEF LogsOK
      <4>2. CASE e \notin checkpoint[run]
        <5>1. run = Current /\ e = entry
          BY <1>10, <2>2, <3>5, <4>2
        <5>2. QED
          BY <1>4, <1>8, <3>4, <5>1
      <4>3. QED
        BY <4>1, <4>2
    <3>6. LogsOK(run)'
      BY <1>1, <1>13, <3>3, <3>5 DEF LogsOK
    <3>7. QED
      BY <3>2, <3>6
  <2>3. QED
    BY <2>1, <2>2 DEF LogInv
<1>16. AmendOK'
  <2>1. \A run \in Runs : Len(ledger[run]) \in Nat
    BY <1>3, LedgerTyped
  <2>2. ASSUME NEW am \in amendment, retried = 1, session'.amended
        PROVE  PastIt(am)'
    <3>1. PastIt(am)
      BY <1>3, <1>9, <2>2 DEF AmendOK, AmendmentOK
    <3>2. QED
      BY <1>1, <1>6, <1>9, <3>1, GoesOn
  <2>3. QED
    BY <1>1, <1>3, <1>11, <2>1, <2>2, QuietAmendment
<1>17. PlaceOK'
  <2> PICK mem : mem = on
    OBVIOUS
  <2>1. KeptUpTo(Current, mem.round, mem.next)'
    <3>1. Request \in {q.req : q \in checkpoint'[Current]}
      BY <1>8, <1>10
    <3>2. \A a \in Agents, rd \in 0..(Rounds - 1) :
            Before(rd, a, session.mem.round, session.mem.next) =>
              \E q \in {e.req : e \in checkpoint'[Current]} : q.agent = a /\ q.round = rd
      BY <1>3, <1>11, <1>13 DEF MemOK, KeptUpTo, Kept
    <3>3. 0..(Rounds - 1) \subseteq 0..Rounds
      BY RoundsAssumption
    <3>4. ASSUME NEW a \in Agents, NEW rd \in 0..(Rounds - 1), Before(rd, a, mem.round, mem.next)
          PROVE  \E q \in {e.req : e \in checkpoint'[Current]} : q.agent = a /\ q.round = rd
      BY <1>3, <1>6, <3>1, <3>2, <3>3, <3>4
    <3>5. QED
      BY <1>13, <3>4 DEF KeptUpTo, Kept
  <2>2. HoldsSaid(Current, mem)'
    BY <1>1, <1>5, <1>13 DEF HoldsSaid, SharedAt, Reached
  <2>3. MemOK(Current, mem)'
    BY <1>6, <2>1, <2>2 DEF MemOK
  <2>4. QED
    BY <1>3, <1>9, <1>13, <2>3 DEF PlaceOK, Asked
<1>18. SentOK' /\ AnswerOK'
  BY <1>9 DEF SentOK, AnswerOK
<1>19. FirstOK'
  <2>1. ASSUME ~session.resume
        PROVE  /\ \A j \in DOMAIN RunOrder : j > session.index => ledger[RunOrder[j]] = <<>>
               /\ \A i \in DOMAIN ledger[Current] :
                    LET r == ledger[Current][i].req
                    IN  Before(r.round, r.agent, on.round, on.next)
    <3>1. /\ \A j \in DOMAIN RunOrder : j > session.index => ledger[RunOrder[j]] = <<>>
          /\ \A i \in DOMAIN ledger[Current] :
               \/ Before(ledger[Current][i].req.round, ledger[Current][i].req.agent,
                         session.mem.round, session.mem.next)
               \/ ledger[Current][i].req = Request
      BY <1>1, <1>3, <2>1 DEF FirstOK
    <3>2. \A i \in DOMAIN ledger[Current] :
            ledger[Current][i].req.agent \in Agents /\ ledger[Current][i].req.round \in 0..Rounds
      BY <1>3, LedgerTyped, RoundsAssumption DEF Requests
    <3>3. QED
      BY <1>3, <1>6, <3>1, <3>2
  <2>2. QED
    BY <1>1, <1>3, <1>9, <1>13, <2>1 DEF FirstOK
<1>20. QED
  BY <1>12, <1>15, <1>16, <1>17, <1>18, <1>19 DEF CalInv

-----------------------------------------------------------------------------
(* The steps that write into a ledger. *)

\* The request in hand is sent: it is the one of its place that was not kept.
LEMMA AskStep == CalInv /\ Ask => CalInv'
<1> SUFFICES ASSUME CalInv, Ask PROVE CalInv'
  OBVIOUS
<1>1. /\ session.at = "ask" /\ session.at \in Walking /\ ~Done(session.mem) /\ Admitted
      /\ session' = [session EXCEPT !.at = "sent", !.calls = @ + 1]
      /\ UNCHANGED <<audit, decisions, checkpoint, torn, said, amendment, root>>
  BY DEF Ask, Asking, Walking, batchVars
<1>2. /\ Types /\ SaidOK /\ session \in Session /\ session.mem \in Memory /\ root = TRUE
      /\ session.index \in DOMAIN RunOrder
      /\ Current \in Runs /\ MemOK(Current, session.mem) /\ Request \in Requests
      /\ LogInv /\ AmendOK /\ FirstOK
      /\ LedgerOK(Current) /\ AttemptsOK(Current) /\ LogsOK(Current)
      /\ Request.agent = AgentOrder[session.mem.next] /\ Request.round = session.mem.round
      /\ Request.run = Current /\ AsSeen(Request) /\ Follows(Current, Request)
      /\ ledger[Current] \in Seq(Receipt)
  BY <1>1, InWalk DEF CalInv
<1>3. "ledger" \notin torn[Current] /\ Request \notin CompletedRequests(Current)
  BY <1>1, <1>2, AdmittedMeans
<1>4. /\ session' \in Session /\ session'.at = "sent" /\ session'.at \in Asked
      /\ session'.index = session.index /\ session'.mem = session.mem
      /\ session'.resume = session.resume /\ session'.amended = session.amended
  <2>1. session.calls + 1 \in Nat /\ "sent" \in Steps /\ "sent" \in Asked
    BY <1>2 DEF Session, Steps, Asked
  <2>2. session' = [session EXCEPT !.at = "sent", !.calls = session.calls + 1]
    BY <1>1
  <2>3. session' \in Session
    BY <1>2, <2>1, <2>2 DEF Session
  <2>4. QED
    BY <1>2, <2>1, <2>2, <2>3 DEF Session
<1>5. /\ Current' = Current /\ Request' = Request /\ ~Done(session'.mem)
      /\ \A am \in amendment : PastIt(am) => PastIt(am)'
  BY <1>1, <1>4, InHandStill
<1> DEFINE run == Current
           log == ledger[run]
           start == StartReceipt(log, Request)
           new == Append(log, start)
<1>6. /\ ledger' = [ledger EXCEPT ![run] = new] /\ ledger'[run] = new
      /\ \A other \in Runs : other # run => ledger'[other] = ledger[other]
  BY <1>2 DEF Ask, Types
<1>7. /\ start \in Receipt /\ start.req = Request /\ start.status = "started"
      /\ start.attempt = 1 + Cardinality(StartsOf(log, Request))
  <2>1. Cardinality(StartsOf(log, Request)) \in Nat
    BY <1>2, IndexSetsFinite
  <2> HIDE DEF log, run
  <2>2. QED
    BY <1>2, <2>1 DEF StartReceipt, Receipt, NextAttempt, IsRecovery
<1> HIDE DEF run, log, start, new
<1>8. log \in Seq(Receipt) /\ Len(log) \in Nat /\ DOMAIN log = 1..Len(log)
  BY <1>2, LenProperties DEF log, run
<1>9. /\ new \in Seq(Receipt) /\ Len(new) = Len(log) + 1 /\ Last(new) = start /\ new # <<>>
      /\ \A i \in 1..Len(log) : new[i] = log[i]
      /\ new[Len(log) + 1] = start /\ DOMAIN new = 1..(Len(log) + 1)
  BY <1>7, <1>8, Appended DEF new
<1>10. ASSUME NEW r
       PROVE  /\ TerminalsOf(new, r) = TerminalsOf(log, r)
              /\ r # Request => StartsOf(new, r) = StartsOf(log, r)
  <2>1. \A i \in DOMAIN log : log[i] = new[i]
    BY <1>8, <1>9
  <2>2. TerminalsOf(new, r) = TerminalsOf(log, r)
    BY <1>7, <1>8, <1>9, <2>1 DEF TerminalsOf
  <2>3. r # Request => StartsOf(new, r) = StartsOf(log, r)
    BY <1>7, <1>8, <1>9, <2>1 DEF StartsOf
  <2>4. QED
    BY <2>2, <2>3
<1>11. /\ StartsOf(new, Request) = StartsOf(log, Request) \cup {Len(log) + 1}
       /\ IsFiniteSet(StartsOf(log, Request))
       /\ Cardinality(StartsOf(new, Request)) = Cardinality(StartsOf(log, Request)) + 1
       /\ Cardinality(StartsOf(log, Request)) \in Nat
  <2>1. StartsOf(new, Request) = StartsOf(log, Request) \cup {Len(log) + 1}
    BY <1>7, <1>8, Appended DEF new
  <2>2. /\ IsFiniteSet(StartsOf(log, Request)) /\ StartsOf(log, Request) \subseteq 1..Len(log)
        /\ Cardinality(StartsOf(log, Request)) \in Nat
    BY <1>8, IndexSetsFinite
  <2>3. Len(log) + 1 \notin StartsOf(log, Request)
    BY <1>8, <2>2
  <2> DEFINE S == StartsOf(log, Request)  n == Len(log) + 1
  <2> HIDE DEF S, n
  <2>4. IsFiniteSet(S) /\ n \notin S
    BY <2>2, <2>3 DEF S, n
  <2>5. Cardinality(S \cup {n}) = Cardinality(S) + 1
    BY <2>4, FS_AddElement
  <2>6. QED
    BY <2>1, <2>2, <2>5 DEF S, n
<1>12. \A other \in Runs : Len(ledger[other]) \in Nat /\ Len(ledger'[other]) \in Nat
                             /\ Len(ledger[other]) <= Len(ledger'[other])
  <2>1. \A other \in Runs : Len(ledger[other]) \in Nat
    BY <1>2, LedgerTyped
  <2>2. QED
    BY <1>6, <1>8, <1>9, <2>1 DEF log
<1>13. \A other \in Runs :
         /\ CompletedRequests(other)' = CompletedRequests(other)
         /\ \A r : Failed(other, r)' <=> Failed(other, r)
         /\ Audited(other)' = Audited(other) /\ Kept(other)' = Kept(other)
  <2>1. Kept(run)' = Kept(run) /\ \A other : Audited(other)' = Audited(other)
                                             /\ Kept(other)' = Kept(other)
    BY <1>1, <1>5 DEF Kept, Audited, run
  <2>2. {i \in DOMAIN new : new[i].status = "completed"} = {i \in DOMAIN log : log[i].status = "completed"}
    BY <1>7, <1>8, <1>9
  <2>3. {new[i].req : i \in {j \in DOMAIN new : new[j].status = "completed"}}
          = {log[i].req : i \in {j \in DOMAIN log : log[j].status = "completed"}}
    BY <1>8, <1>9, <2>2
  <2>4. ASSUME NEW other \in Runs
        PROVE  CompletedRequests(other)' = CompletedRequests(other)
    BY <1>6, <2>3 DEF CompletedRequests, log
  <2>5. ASSUME NEW other \in Runs, NEW r
        PROVE  Failed(other, r)' <=> Failed(other, r)
    <3>1. CASE other = run
      <4>1. \A i \in TerminalsOf(log, r) : new[i] = log[i]
        BY <1>8, <1>9 DEF TerminalsOf
      <4>2. (\E i \in TerminalsOf(new, r) : new[i].status = "failed")
              <=> \E i \in TerminalsOf(log, r) : log[i].status = "failed"
        BY <1>10, <4>1
      <4>3. QED
        BY <1>6, <3>1, <4>2 DEF Failed, log
    <3>2. CASE other # run
      BY <1>6, <3>2 DEF Failed
    <3>3. QED
      BY <3>1, <3>2
  <2>6. QED
    BY <2>1, <2>4, <2>5
<1>14. Types'
  BY <1>1, <1>2, <1>4, <1>6, <1>9 DEF Types
<1>15. LogInv'
  <2>1. SaidOK'
    <3>1. \A s \in said : s.req.run \in Runs
      BY <1>2 DEF Types, Requests
    <3>2. QED
      BY <1>1, <1>2, <1>13, <3>1 DEF SaidOK
  <2>2. ASSUME NEW other \in Runs
        PROVE  (LedgerOK(other) /\ AttemptsOK(other) /\ LogsOK(other))'
    <3>1. /\ \A r : AsSeen(r)' <=> AsSeen(r)
          /\ \A r : Follows(other, r)' <=> Follows(other, r)
      BY <1>1, <1>13, <2>2 DEF AsSeen, Reached, Follows, KeptUpTo
    <3>2. LedgerOK(other) /\ AttemptsOK(other) /\ LogsOK(other)
      BY <1>2, <2>2 DEF LogInv
    <3>3. ASSUME other = run, NEW i \in DOMAIN new
          PROVE  new[i].req.run = run /\ AsSeen(new[i].req) /\ Follows(run, new[i].req)
      <4>1. CASE i = Len(log) + 1
        BY <1>2, <1>7, <1>9, <4>1 DEF run
      <4>2. CASE i # Len(log) + 1
        <5>1. i \in DOMAIN log /\ new[i] = log[i]
          BY <1>8, <1>9, <3>3, <4>2
        <5>2. QED
          BY <3>2, <3>3, <5>1 DEF LedgerOK, log
      <4>3. QED
        BY <4>1, <4>2
    <3>4. LedgerOK(other)'
      BY <1>6, <2>2, <3>1, <3>2, <3>3 DEF LedgerOK
    <3>5. AttemptsOK(other)'
      <4>1. CASE other # run
        BY <1>6, <2>2, <3>2, <4>1 DEF AttemptsOK
      <4>2. CASE other = run
        <5>1. ASSUME NEW r \in Requests
              PROVE  /\ TerminalsOf(new, r) = TerminalsOf(log, r)
                     /\ \A i \in TerminalsOf(log, r) : new[i] = log[i] /\ log[i].attempt \in Nat
                     /\ Cardinality(StartsOf(log, r)) <= Cardinality(StartsOf(new, r))
                     /\ Cardinality(StartsOf(log, r)) \in Nat
                     /\ Cardinality(StartsOf(new, r)) \in Nat
          <6>1. \A i \in TerminalsOf(log, r) : new[i] = log[i] /\ log[i].attempt \in Nat
            BY <1>2, <1>8, <1>9, LedgerTyped DEF TerminalsOf, log, run
          <6>2. Cardinality(StartsOf(log, r)) \in Nat
            BY <1>8, IndexSetsFinite
          <6>3. Cardinality(StartsOf(log, r)) <= Cardinality(StartsOf(new, r))
                  /\ Cardinality(StartsOf(new, r)) \in Nat
            <7>1. CASE r = Request
              <8>1. Cardinality(StartsOf(log, Request)) <= Cardinality(StartsOf(new, Request))
                      /\ Cardinality(StartsOf(new, Request)) \in Nat
                BY <1>11
              <8>2. QED
                BY <7>1, <8>1
            <7>2. CASE r # Request
              BY <1>10, <6>2, <7>2
            <7>3. QED
              BY <7>1, <7>2
          <6>4. QED
            BY <1>10, <6>1, <6>2, <6>3
        <5>2. ASSUME NEW r \in Requests, NEW i \in TerminalsOf(new, r)
              PROVE  /\ new[i].attempt <= Cardinality(StartsOf(new, r))
                     /\ new[i].status = "completed" =>
                          \A j \in TerminalsOf(new, r) :
                            j # i => new[j].attempt < new[i].attempt
          <6>1. /\ log[i].attempt <= Cardinality(StartsOf(log, r))
                /\ log[i].status = "completed" =>
                     \A j \in TerminalsOf(log, r) :
                       j # i => log[j].attempt < log[i].attempt
            BY <3>2, <4>2, <5>1, <5>2 DEF AttemptsOK, log
          <6>2. QED
            BY <5>1, <5>2, <6>1
        <5>3. QED
          BY <1>6, <4>2, <5>2 DEF AttemptsOK
      <4>3. QED
        BY <4>1, <4>2
    <3>6. LogsOK(other)'
      BY <1>1, <1>13, <2>2, <3>2 DEF LogsOK
    <3>7. QED
      BY <3>4, <3>5, <3>6
  <2>3. QED
    BY <2>1, <2>2 DEF LogInv
<1>16. PlaceOK'
  <2>1. \A any, mem : MemOK(any, mem) => MemOK(any, mem)'
    BY <1>1, MemStays
  <2>2. MemOK(Current, session.mem)'
    BY <1>2, <1>4, <1>5, <2>1
  <2>3. QED
    BY <1>2, <1>4, <1>5, <2>2 DEF PlaceOK
<1>17. SentOK'
  <2>1. \A j \in TerminalsOf(new, Request) : new[j].attempt < start.attempt
    <3> SUFFICES ASSUME NEW j \in TerminalsOf(log, Request)
                 PROVE  new[j].attempt < start.attempt
      BY <1>10
    <3>1. j \in 1..Len(log) /\ log[j].attempt \in Nat /\ new[j] = log[j]
      BY <1>2, <1>8, <1>9, LedgerTyped DEF TerminalsOf, log, run
    <3>2. log[j].attempt <= Cardinality(StartsOf(log, Request))
      BY <1>2 DEF AttemptsOK, log, run
    <3>3. QED
      BY <1>7, <1>11, <3>1, <3>2
  <2>2. start.attempt = Cardinality(StartsOf(new, Request))
    BY <1>7, <1>11
  <2>3. (Request \notin CompletedRequests(Current))' /\ "ledger" \notin torn'[Current]
    BY <1>1, <1>2, <1>3, <1>5, <1>13
  <2>4. (ledger[Current])' = new
    BY <1>5, <1>6 DEF run
  <2>5. QED
    BY <1>5, <1>7, <1>9, <2>1, <2>2, <2>3, <2>4 DEF SentOK
<1>18. AnswerOK'
  BY <1>4 DEF AnswerOK
<1>19. FirstOK'
  <2>1. ASSUME ~session.resume
        PROVE  /\ \A j \in DOMAIN RunOrder : j > session.index => ledger'[RunOrder[j]] = <<>>
               /\ \A i \in DOMAIN new :
                    \/ Before(new[i].req.round, new[i].req.agent, session.mem.round, session.mem.next)
                    \/ new[i].req = Request
    <3>1. /\ \A j \in DOMAIN RunOrder : j > session.index => ledger[RunOrder[j]] = <<>>
          /\ \A i \in DOMAIN log :
               Before(log[i].req.round, log[i].req.agent, session.mem.round, session.mem.next)
      BY <1>1, <1>2, <2>1 DEF FirstOK, log, run
    <3>2. \A j \in DOMAIN RunOrder : j > session.index => RunOrder[j] # run /\ RunOrder[j] \in Runs
      BY <1>2, RunsListed DEF run, Current
    <3>3. QED
      BY <1>6, <1>7, <1>8, <1>9, <3>1, <3>2
  <2>2. (ledger[Current])' = new
    BY <1>5, <1>6 DEF run
  <2>3. QED
    BY <1>1, <1>2, <1>4, <1>5, <2>1, <2>2 DEF FirstOK, Asked, Walking
<1>20. AmendOK'
  <2> DEFINE again == session.amended /\ \E am \in amendment : am.req = Request
  <2>1. retried' = IF again THEN retried + 1 ELSE retried
    <3>1. retried \in {0, 1} /\ retried' = retried + IF again THEN 1 ELSE 0
      BY <1>2 DEF Ask, AmendOK
    <3>2. QED
      BY <3>1
  <2>2. \A am \in amendment : AmendmentOK(am)
    BY <1>2 DEF AmendOK
  <2>3. ASSUME NEW am \in amendment, am.req = Request
        PROVE  am.run = Current /\ (PastIt(am)' ) /\ ~PastIt(am)
    <3>1. am.run = Current
      BY <1>2, <2>2, <2>3 DEF AmendmentOK
    <3>2. \A n \in DOMAIN RunOrder : RunOrder[n] = am.run => n = session.index
      BY <1>2, <3>1, RunsListed DEF Current
    <3>3. ~(session.index < session.index)
      BY <1>2, RunsListed
    <3>4. ~Before(am.req.round, am.req.agent, session.mem.round, session.mem.next)
      BY <1>2, <2>3, NotBeforeItself
    <3>5. ~PastIt(am)
      BY <1>1, <3>2, <3>3, <3>4 DEF PastIt
    <3>6. PastIt(am)'
      BY <1>2, <1>4, <1>5, <2>3, <3>1 DEF PastIt, Current, Walking
    <3>7. QED
      BY <3>1, <3>5, <3>6
  <2>4. ASSUME again PROVE retried = 0
    BY <1>2, <2>2, <2>3, <2>4 DEF AmendmentOK, AmendOK
  <2>5. retried' \in {0, 1} /\ (amendment = {} => retried' = 0)
    BY <1>2, <2>1, <2>4 DEF AmendOK
  <2>6. ASSUME NEW am \in amendment
        PROVE  AmendmentOK(am)'
    <3>1. AmendmentOK(am)
      BY <2>2
    <3>2. Len(am.found.ledger) \in Nat
      BY <3>1, LenProperties DEF AmendmentOK
    <3>3. am.run \in Runs /\ Len(am.found.ledger) <= Len(ledger'[am.run])
      BY <1>12, <3>1, <3>2 DEF AmendmentOK
    <3>4. ASSUME NEW entry \in am.checkpoint
          PROVE  StartsOf(ledger'[am.run], entry.req) = StartsOf(ledger[am.run], entry.req)
      <4>1. CASE am.run = run
        <5>1. entry.req \in Kept(run)
          BY <3>1, <4>1 DEF AmendmentOK, Kept
        <5>2. entry.req \in CompletedRequests(run)
          BY <1>2, <5>1, KeptMeans DEF run
        <5>3. entry.req # Request
          BY <1>3, <5>2 DEF run
        <5>4. QED
          BY <1>6, <1>10, <4>1, <5>3 DEF log
      <4>2. CASE am.run # run
        BY <1>6, <3>3, <4>2
      <4>3. QED
        BY <4>1, <4>2
    <3>5. \A entry \in am.checkpoint :
            Cardinality(StartsOf(ledger'[am.run], entry.req)) =
              Cardinality(StartsOf(am.found.ledger, entry.req))
      BY <3>1, <3>4 DEF AmendmentOK
    <3>6. retried' = 1 => Len(am.found.ledger) < Len(ledger'[am.run])
      <4>1. CASE ~again
        BY <1>12, <2>1, <3>1, <3>2, <3>3, <4>1 DEF AmendmentOK
      <4>2. CASE again
        <5>1. am.req = Request
          BY <1>2, <4>2 DEF AmendOK
        <5>2. am.run = run
          BY <2>3, <5>1 DEF run
        <5>3. Len(am.found.ledger) <= Len(log)
          BY <3>1, <5>2 DEF AmendmentOK, log
        <5>4. QED
          BY <1>6, <1>8, <1>9, <3>2, <5>2, <5>3
      <4>3. QED
        BY <4>1, <4>2
    <3>7. retried' = 1 /\ session'.amended => PastIt(am)'
      <4>1. CASE ~again
        <5>1. retried = 1 /\ session.amended => PastIt(am)
          BY <3>1 DEF AmendmentOK
        <5>2. QED
          BY <1>4, <1>5, <2>1, <4>1, <5>1
      <4>2. CASE again
        <5>1. am.req = Request
          BY <1>2, <4>2 DEF AmendOK
        <5>2. QED
          BY <2>3, <5>1
      <4>3. QED
        BY <4>1, <4>2
    <3>8. QED
      BY <1>1, <3>1, <3>3, <3>5, <3>6, <3>7 DEF AmendmentOK
  <2>7. QED
    BY <1>1, <1>2, <2>5, <2>6 DEF AmendOK
<1>21. QED
  BY <1>14, <1>15, <1>16, <1>17, <1>18, <1>19, <1>20 DEF CalInv

\* A call ends, with what came of it.  What an agent was asked before does not
\* change by an answer that comes: whoever was asked in a later round was asked
\* when this one was kept.
LEMMA CallEnds ==
  ASSUME CalInv, session.at = "sent", NEW outcome \in {"completed", "failed"}, EndCall(outcome),
         UNCHANGED <<audit, decisions, checkpoint, torn, amendment, retried, root>>,
         session' \in Session, session'.at = "audit",
         session'.index = session.index, session'.mem = session.mem,
         session'.resume = session.resume, session'.amended = session.amended,
         NEW fresh, said' = said \cup fresh,
         fresh \subseteq [req : Requests, share : BOOLEAN, cut : BOOLEAN],
         \A s \in fresh : /\ outcome = "completed" /\ s.req = Request
                          /\ s.share => Request.round = 0 /\ Targets[Request.agent] # {},
         \A s, t \in fresh : s = t,
         session'.answer.valid =>
           /\ outcome = "completed"
           /\ \E s \in fresh : s.share = session'.answer.share /\ s.cut = session'.answer.cut
  PROVE  CalInv'
<1>1. session.at \in Walking /\ session'.at \in Asked /\ ~Done(session.mem)
  BY DEF CalInv, PlaceOK, Walking, Asked
<1>2. /\ Types /\ SaidOK /\ session \in Session /\ session.mem \in Memory /\ root = TRUE
      /\ session.index \in DOMAIN RunOrder
      /\ Current \in Runs /\ MemOK(Current, session.mem) /\ Request \in Requests
      /\ LogInv /\ AmendOK /\ FirstOK /\ SentOK
      /\ LedgerOK(Current) /\ AttemptsOK(Current) /\ LogsOK(Current)
      /\ Request.agent = AgentOrder[session.mem.next] /\ Request.round = session.mem.round
      /\ Request.run = Current /\ Request.agent \in Agents
      /\ ledger[Current] \in Seq(Receipt)
  BY <1>1, InWalk DEF CalInv
<1>3. /\ Current' = Current /\ Request' = Request /\ ~Done(session'.mem)
      /\ \A am \in amendment : PastIt(am) => PastIt(am)'
  BY <1>1, InHandStill
<1> DEFINE run == Current
           log == ledger[run]
           end == EndReceipt(Last(log), outcome)
           new == Append(log, end)
<1>4. /\ ledger' = [ledger EXCEPT ![run] = new] /\ ledger'[run] = new
      /\ \A other \in Runs : other # run => ledger'[other] = ledger[other]
  BY <1>2 DEF EndCall, Types
<1>5. /\ log # <<>> /\ Last(log).req = Request
      /\ Last(log).attempt = Cardinality(StartsOf(log, Request))
      /\ \A j \in TerminalsOf(log, Request) : log[j].attempt < Last(log).attempt
      /\ Request \notin CompletedRequests(run)
      /\ "ledger" \notin torn[run]
  BY <1>2 DEF SentOK
<1>6. Last(log) \in Receipt
  BY <1>2, <1>5 DEF Last
<1>7. /\ end \in Receipt /\ end.req = Request /\ end.status = outcome
      /\ end.attempt = Last(log).attempt
  BY <1>5, <1>6 DEF EndReceipt, Receipt
<1> HIDE DEF run, log, end, new
<1>8. log \in Seq(Receipt) /\ Len(log) \in Nat /\ DOMAIN log = 1..Len(log)
  BY <1>2, LenProperties DEF log, run
<1>9. /\ new \in Seq(Receipt) /\ Len(new) = Len(log) + 1
      /\ \A i \in 1..Len(log) : new[i] = log[i]
      /\ new[Len(log) + 1] = end /\ DOMAIN new = 1..(Len(log) + 1)
  BY <1>7, <1>8, Appended DEF new
<1>10. ASSUME NEW r
       PROVE  /\ StartsOf(new, r) = StartsOf(log, r)
              /\ r # Request => TerminalsOf(new, r) = TerminalsOf(log, r)
  <2>1. \A i \in DOMAIN log : log[i] = new[i]
    BY <1>8, <1>9
  <2>2. StartsOf(new, r) = StartsOf(log, r)
    BY <1>7, <1>8, <1>9, <2>1 DEF StartsOf
  <2>3. r # Request => TerminalsOf(new, r) = TerminalsOf(log, r)
    BY <1>7, <1>8, <1>9, <2>1 DEF TerminalsOf
  <2>4. QED
    BY <2>2, <2>3
<1>11. TerminalsOf(new, Request) = TerminalsOf(log, Request) \cup {Len(log) + 1}
  <2>1. \A i \in DOMAIN log : log[i] = new[i]
    BY <1>8, <1>9
  <2>2. QED
    BY <1>7, <1>8, <1>9, <2>1 DEF TerminalsOf
<1>12. \A other \in Runs : Len(ledger[other]) \in Nat /\ Len(ledger'[other]) \in Nat
                             /\ Len(ledger[other]) <= Len(ledger'[other])
  <2>1. \A other \in Runs : Len(ledger[other]) \in Nat
    BY <1>2, LedgerTyped
  <2>2. QED
    BY <1>4, <1>8, <1>9, <2>1 DEF log
<1>13. \A other : Audited(other)' = Audited(other) /\ Kept(other)' = Kept(other)
  BY DEF Kept, Audited
<1>14. \A other \in Runs :
         /\ CompletedRequests(other) \subseteq CompletedRequests(other)'
         /\ \A r : Failed(other, r) => Failed(other, r)'
  <2>1. ASSUME NEW other \in Runs, NEW r \in CompletedRequests(other)
        PROVE  r \in CompletedRequests(other)'
    <3>1. CASE other # run
      BY <1>4, <2>1, <3>1 DEF CompletedRequests
    <3>2. CASE other = run
      <4>1. PICK i \in DOMAIN log : log[i].status = "completed" /\ r = log[i].req
        BY <2>1, <3>2 DEF CompletedRequests, log
      <4>2. i \in DOMAIN new /\ new[i] = log[i]
        BY <1>8, <1>9
      <4>3. QED
        BY <1>4, <3>2, <4>1, <4>2 DEF CompletedRequests
    <3>3. QED
      BY <3>1, <3>2
  <2>2. ASSUME NEW other \in Runs, NEW r, Failed(other, r)
        PROVE  Failed(other, r)'
    <3>1. CASE other # run
      BY <1>4, <2>2, <3>1 DEF Failed
    <3>2. CASE other = run
      <4>1. PICK i \in TerminalsOf(log, r) : log[i].status = "failed"
        BY <2>2, <3>2 DEF Failed, log
      <4>2. i \in TerminalsOf(new, r) /\ new[i] = log[i]
        BY <1>8, <1>9, <1>10, <1>11, <4>1 DEF TerminalsOf
      <4>3. QED
        BY <1>4, <3>2, <4>1, <4>2 DEF Failed
    <3>3. QED
      BY <3>1, <3>2
  <2>3. QED
    BY <2>1, <2>2
<1>15. /\ outcome = "completed" => (Request \in CompletedRequests(Current))'
       /\ outcome = "failed" => Failed(Current, Request)'
  <2>1. Len(log) + 1 \in DOMAIN new /\ new[Len(log) + 1].req = Request
          /\ new[Len(log) + 1].status = outcome
    BY <1>7, <1>8, <1>9
  <2>2. (ledger[Current])' = new
    BY <1>3, <1>4 DEF run
  <2>3. QED
    BY <1>3, <1>11, <2>1, <2>2 DEF CompletedRequests, Failed
<1>16. Types'
  <2>1. ledger' \in [Runs -> Seq(Receipt)]
    BY <1>2, <1>4, <1>9 DEF Types
  <2>2. QED
    BY <1>2, <2>1 DEF Types
<1>17. SaidOK'
  <2>1. ASSUME NEW s \in said'
        PROVE  /\ (s.req \in CompletedRequests(s.req.run))'
               /\ s.share => s.req.round = 0 /\ Targets[s.req.agent] # {}
    <3>1. CASE s \in said
      <4>1. s.req.run \in Runs
        BY <1>2, <3>1 DEF Types, Requests
      <4>2. QED
        BY <1>2, <1>14, <3>1, <4>1 DEF SaidOK
    <3>2. CASE s \in fresh
      <4>1. s.req = Request /\ s.req.run = Current /\ outcome = "completed"
        BY <1>2, <3>2
      <4>2. Request \in CompletedRequests(Current)'
        BY <1>3, <1>15, <4>1
      <4>3. QED
        BY <1>3, <3>2, <4>1, <4>2
    <3>3. QED
      BY <2>1, <3>1, <3>2
  <2>2. ASSUME NEW s \in said', NEW t \in said', s.req = t.req
        PROVE  s = t
    <3>1. \A u \in said : u.req # Request
      BY <1>2, <1>5 DEF SaidOK, run
    <3>2. QED
      BY <1>2, <2>2, <3>1 DEF SaidOK
  <2>3. QED
    BY <2>1, <2>2 DEF SaidOK
<1>18. ASSUME NEW other \in Runs, NEW r \in Requests, r.run = other, AsSeen(r), Follows(other, r)
       PROVE  AsSeen(r)'
  <2>1. ASSUME r.round > 0, NEW s \in fresh, s.req.run = other, s.req.round = 0
        PROVE  FALSE
    <3>1. s.req = Request /\ other = run
      BY <1>2, <2>1 DEF run
    <3>2. PICK n \in DOMAIN AgentOrder : KeptUpTo(other, r.round, n)
      BY <1>18 DEF Follows
    <3>3. 0 \in 0..(Rounds - 1) /\ Before(0, Request.agent, r.round, n)
      BY <2>1, RoundsAssumption DEF Before
    <3>4. PICK q \in Kept(run) : q.agent = Request.agent /\ q.round = 0
      BY <1>2, <3>1, <3>2, <3>3 DEF KeptUpTo
    <3>5. AsSeen(Request)
      BY <1>1, InWalk
    <3>6. Request = q
      BY <1>2, <2>1, <3>1, <3>4, <3>5, OneOfPlace DEF run
    <3>7. QED
      BY <1>2, <1>5, <3>6, KeptMeans DEF run
  <2>2. \A a, rd : r.round > 0 => Reached(r.run, a, rd)' = Reached(r.run, a, rd)
    BY <1>18, <2>1 DEF Reached
  <2>3. r.round \in Nat
    BY RoundsAssumption DEF Requests
  <2>4. CASE r.round > 0
    BY <1>18, <2>2, <2>4 DEF AsSeen
  <2>5. CASE ~(r.round > 0)
    BY <1>18, <2>3, <2>5 DEF AsSeen, Reached
  <2>6. QED
    BY <2>4, <2>5
<1>19. LogInv'
  <2>1. ASSUME NEW other \in Runs
        PROVE  (LedgerOK(other) /\ AttemptsOK(other) /\ LogsOK(other))'
    <3>1. LedgerOK(other) /\ AttemptsOK(other) /\ LogsOK(other)
      BY <1>2, <2>1 DEF LogInv
    <3>2. LedgerOK(other)'
      <4>1. \A r : Follows(other, r)' <=> Follows(other, r)
        BY <1>13, <2>1 DEF Follows, KeptUpTo
      <4>2. \A r \in Requests :
              r.run = other /\ AsSeen(r) /\ Follows(other, r) => AsSeen(r)'
        BY <1>18, <2>1
      <4>3. ASSUME other = run, NEW i \in DOMAIN new
            PROVE  \E j \in DOMAIN log : new[i].req = log[j].req
        <5>1. CASE i = Len(log) + 1
          <6>1. Len(log) \in DOMAIN log /\ log[Len(log)].req = Request
            BY <1>5, <1>8, EmptySeq DEF Last
          <6>2. QED
            BY <1>7, <1>9, <5>1, <6>1
        <5>2. CASE i # Len(log) + 1
          BY <1>8, <1>9, <4>3, <5>2
        <5>3. QED
          BY <5>1, <5>2
      <4>4. \A i \in DOMAIN ledger'[other] : \E j \in DOMAIN ledger[other] :
              ledger'[other][i].req = ledger[other][j].req
        BY <1>4, <2>1, <4>3 DEF log
      <4>5. \A j \in DOMAIN ledger[other] :
              /\ ledger[other][j].req \in Requests /\ ledger[other][j].req.run = other
              /\ AsSeen(ledger[other][j].req) /\ Follows(other, ledger[other][j].req)
        BY <1>2, <2>1, <3>1, LedgerTyped DEF LedgerOK
      <4>6. \A i \in DOMAIN ledger'[other] :
              /\ ledger'[other][i].req \in Requests /\ ledger'[other][i].req.run = other
              /\ AsSeen(ledger'[other][i].req) /\ Follows(other, ledger'[other][i].req)
        BY <4>4, <4>5
      <4>7. QED
        BY <4>1, <4>2, <4>6 DEF LedgerOK
    <3>3. AttemptsOK(other)'
      <4>1. CASE other # run
        BY <1>4, <2>1, <3>1, <4>1 DEF AttemptsOK
      <4>2. CASE other = run
        <5>1. ASSUME NEW r \in Requests, NEW i \in TerminalsOf(new, r)
              PROVE  /\ new[i].attempt <= Cardinality(StartsOf(new, r))
                     /\ new[i].status = "completed" =>
                          \A j \in TerminalsOf(new, r) :
                            j # i => new[j].attempt < new[i].attempt
          <6>1. \A k \in TerminalsOf(log, r) :
                  /\ new[k] = log[k] /\ log[k].attempt \in Nat
                  /\ log[k].attempt <= Cardinality(StartsOf(log, r))
                  /\ log[k].status = "completed" =>
                       \A j \in TerminalsOf(log, r) : j # k => log[j].attempt < log[k].attempt
            <7>1. \A k \in TerminalsOf(log, r) : new[k] = log[k] /\ log[k].attempt \in Nat
              BY <1>2, <1>8, <1>9, LedgerTyped DEF TerminalsOf, log, run
            <7>2. QED
              BY <3>1, <4>2, <7>1 DEF AttemptsOK, log
          <6>2. CASE r # Request
            BY <1>10, <5>1, <6>1, <6>2
          <6>3. CASE r = Request
            <7>1. \A k \in TerminalsOf(log, Request) : log[k].status # "completed"
              BY <1>5 DEF CompletedRequests, TerminalsOf, log
            <7>2. /\ new[Len(log) + 1].attempt = Cardinality(StartsOf(new, Request))
                  /\ Cardinality(StartsOf(new, Request)) \in Nat
                  /\ \A k \in TerminalsOf(log, Request) :
                       new[k].attempt < new[Len(log) + 1].attempt
              <8>1. \A k \in TerminalsOf(log, Request) : new[k] = log[k]
                BY <6>1, <6>3
              <8>2. Cardinality(StartsOf(log, Request)) \in Nat
                BY <1>8, IndexSetsFinite
              <8>3. StartsOf(new, Request) = StartsOf(log, Request)
                BY <1>10
              <8>4. QED
                BY <1>5, <1>7, <1>9, <8>1, <8>2, <8>3
            <7>3. CASE i = Len(log) + 1
              BY <1>11, <6>3, <7>2, <7>3
            <7>4. CASE i \in TerminalsOf(log, Request)
              <8>1. new[i] = log[i] /\ log[i].status # "completed"
                BY <6>1, <6>3, <7>1, <7>4
              <8>2. log[i].attempt \in Nat
                BY <6>1, <6>3, <7>4
              <8>3. new[i].attempt < Cardinality(StartsOf(new, Request))
                BY <7>2, <7>4
              <8>4. QED
                BY <6>3, <7>2, <8>1, <8>2, <8>3
            <7>5. QED
              BY <1>11, <5>1, <6>3, <7>3, <7>4
          <6>4. QED
            BY <6>2, <6>3
        <5>2. QED
          BY <1>4, <4>2, <5>1 DEF AttemptsOK
      <4>3. QED
        BY <4>1, <4>2
    <3>4. LogsOK(other)'
      <4>1. \A s \in fresh : s.req \notin decisions[run] /\ s.req.run = run
        BY <1>2, <1>5 DEF LogsOK, run
      <4>2. ASSUME NEW s \in said', s.cut, s.req.run = other, s.req \in decisions[other]
            PROVE  Failed(other, s.req)
        <5>1. s \in said
          BY <4>1, <4>2
        <5>2. QED
          BY <3>1, <4>2, <5>1 DEF LogsOK
      <4>3. said \subseteq said'
        OBVIOUS
      <4>4. /\ CompletedRequests(other) \subseteq CompletedRequests(other)'
            /\ \A r : Failed(other, r) => Failed(other, r)'
            /\ Audited(other)' = Audited(other)
        BY <1>13, <1>14, <2>1
      <4>5. /\ \A e \in checkpoint'[other] :
                 /\ e.req \in decisions'[other]
                 /\ \E s \in said' : s.req = e.req /\ s.share = e.share
            /\ decisions'[other] \subseteq Audited(other)' \cap CompletedRequests(other)'
        BY <3>1, <4>3, <4>4 DEF LogsOK
      <4>6. \A r \in Audited(other)' : Failed(other, r)' \/ r \in CompletedRequests(other)'
                                          \/ "ledger" \in torn'[other]
        BY <3>1, <4>4 DEF LogsOK
      <4>7. \A s \in said' : s.cut /\ s.req.run = other /\ s.req \in decisions'[other]
                               => Failed(other, s.req)'
        BY <4>2, <4>4
      <4>8. QED
        BY <4>5, <4>6, <4>7 DEF LogsOK
    <3>5. QED
      BY <3>2, <3>3, <3>4
  <2>2. QED
    BY <1>17, <2>1 DEF LogInv
<1>20. PlaceOK'
  <2> PICK mem : mem = session.mem
    OBVIOUS
  <2>1. mem \in Memory /\ mem.round \in Nat /\ mem.next \in DOMAIN AgentOrder
        /\ MemOK(Current, mem)
    BY <1>2, RoundsAssumption DEF Memory
  <2>2. \A s \in fresh : s.req.round = mem.round /\ s.req.agent = AgentOrder[mem.next]
    BY <1>2
  <2>3. \A b \in Agents : \A rd : rd # mem.round => (SharedAt(Current, b, rd)' <=> SharedAt(Current, b, rd))
    BY <1>3, <2>2 DEF SharedAt
  <2>4. \A b \in Agents : (\E i \in DOMAIN AgentOrder : i < mem.next /\ AgentOrder[i] = b) =>
          (SharedAt(Current, b, mem.round)' <=> SharedAt(Current, b, mem.round))
    <3>1. \A i \in DOMAIN AgentOrder : i < mem.next => AgentOrder[i] # AgentOrder[mem.next]
      BY <2>1, AgentsListed
    <3>2. QED
      BY <1>3, <2>2, <3>1 DEF SharedAt
  <2>5. mem.round > 0 => \A a \in Agents : \A rd : Reached(Current, a, rd)' = Reached(Current, a, rd)
    BY <1>3, <2>1, <2>2 DEF Reached
  <2>6. HoldsSaid(Current, mem)'
    <3>1. HoldsSaid(Current, mem)
      BY <2>1 DEF MemOK
    <3>2. mem.shared = (IF mem.round = 0 THEN {} ELSE {b \in Agents : SharedAt(Current, b, 0)'})
      BY <2>1, <2>3, <3>1 DEF HoldsSaid
    <3>3. mem.sharing = {b \in Agents : SharedAt(Current, b, mem.round)'
                           /\ \E i \in DOMAIN AgentOrder : i < mem.next /\ AgentOrder[i] = b}
      BY <2>4, <3>1 DEF HoldsSaid
    <3>4. mem.round < Rounds =>
            mem.told = {a \in Agents : mem.round > 0
                                        /\ Reached(Current, a, mem.round - 1)' \in Policy[Current]}
      BY <2>1, <2>5, <3>1 DEF HoldsSaid
    <3>5. QED
      BY <1>3, <3>2, <3>3, <3>4 DEF HoldsSaid
  <2>7. KeptUpTo(Current, mem.round, mem.next)'
    BY <1>3, <1>13, <2>1 DEF KeptUpTo, MemOK
  <2>8. MemOK(Current, mem)'
    BY <2>1, <2>6, <2>7 DEF MemOK
  <2>9. QED
    BY <1>2, <1>3, <2>8 DEF PlaceOK
<1>21. SentOK'
  BY DEF SentOK
<1>22. AnswerOK'
  <2>1. session'.answer.valid =>
          /\ (Request \in CompletedRequests(Current))'
          /\ \E s \in said' : /\ s.req = Request /\ s.share = session'.answer.share
                               /\ s.cut = session'.answer.cut
    BY <1>15
  <2>2. Failed(Current, Request)' \/ (Request \in CompletedRequests(Current))'
    BY <1>15
  <2>3. (Request \in Audited(Current))' => Failed(Current, Request)'
    <3>1. Request \in Audited(Current) => Failed(Current, Request)
      BY <1>2, <1>5 DEF LogsOK, run
    <3>2. QED
      BY <1>2, <1>3, <1>13, <1>14, <3>1
  <2>4. QED
    BY <1>3, <2>1, <2>2, <2>3 DEF AnswerOK
<1>23. FirstOK'
  <2>1. ASSUME ~session.resume
        PROVE  /\ \A j \in DOMAIN RunOrder : j > session.index => ledger'[RunOrder[j]] = <<>>
               /\ \A i \in DOMAIN new :
                    \/ Before(new[i].req.round, new[i].req.agent, session.mem.round, session.mem.next)
                    \/ new[i].req = Request
    <3>1. /\ \A j \in DOMAIN RunOrder : j > session.index => ledger[RunOrder[j]] = <<>>
          /\ \A i \in DOMAIN log :
               \/ Before(log[i].req.round, log[i].req.agent, session.mem.round, session.mem.next)
               \/ log[i].req = Request
      BY <1>1, <1>2, <2>1 DEF FirstOK, log, run
    <3>2. \A j \in DOMAIN RunOrder : j > session.index => RunOrder[j] # run /\ RunOrder[j] \in Runs
      BY <1>2, RunsListed DEF run, Current
    <3>3. QED
      BY <1>4, <1>7, <1>8, <1>9, <3>1, <3>2
  <2>2. (ledger[Current])' = new
    BY <1>3, <1>4 DEF run
  <2>3. QED
    BY <1>2, <1>3, <2>1, <2>2 DEF FirstOK, Asked, Walking
<1>24. AmendOK'
  <2>1. \A am \in amendment : retried = 1 /\ session'.amended => PastIt(am)'
    BY <1>2, <1>3 DEF AmendOK, AmendmentOK
  <2>2. \A other \in Runs : \A q \in Kept(other) :
          StartsOf(ledger'[other], q) = StartsOf(ledger[other], q)
    BY <1>4, <1>10 DEF log
  <2>3. QED
    BY <1>2, <1>12, <2>1, <2>2, QuietAmendment
<1>25. QED
  BY <1>16, <1>19, <1>20, <1>21, <1>22, <1>23, <1>24 DEF CalInv

\* An answer comes.
LEMMA AnswerStep == CalInv /\ Answer => CalInv'
<1> SUFFICES ASSUME CalInv, Answer PROVE CalInv'
  OBVIOUS
<1>1. /\ session.at = "sent" /\ session.at \in Walking /\ ~Done(session.mem)
      /\ EndCall("completed")
      /\ UNCHANGED <<audit, decisions, checkpoint, torn, amendment, retried, root>>
  BY DEF Answer, Walking, Asked, batchVars, CalInv, PlaceOK
<1>2. PICK ans \in Answers :
        /\ ans.share => Request.round = 0 /\ Targets[Request.agent] # {}
        /\ session' = [session EXCEPT !.at = "audit", !.answer = ans, !.code = "other"]
        /\ said' = said \cup {[req |-> Request, share |-> ans.share, cut |-> ans.cut]}
  BY DEF Answer
<1>3. session \in Session /\ Request \in Requests
  BY <1>1, InWalk
<1>4. /\ session' \in Session /\ session'.at = "audit" /\ session'.answer = ans
      /\ session'.index = session.index /\ session'.mem = session.mem
      /\ session'.resume = session.resume /\ session'.amended = session.amended
  BY <1>2, <1>3 DEF Session, Steps
<1> DEFINE s == [req |-> Request, share |-> ans.share, cut |-> ans.cut]
<1>5. /\ s \in [req : Requests, share : BOOLEAN, cut : BOOLEAN]
      /\ s.req = Request /\ s.share = ans.share /\ s.cut = ans.cut
  BY <1>3 DEF Answers
<1>6. PICK fresh : fresh = {s}
  OBVIOUS
<1> HIDE DEF s
<1>7. /\ said' = said \cup fresh
      /\ fresh \subseteq [req : Requests, share : BOOLEAN, cut : BOOLEAN]
      /\ \A t \in fresh : t.req = Request /\ t.share = ans.share /\ t.cut = ans.cut
      /\ \A t, u \in fresh : t = u
      /\ \E t \in fresh : t.share = ans.share /\ t.cut = ans.cut
  BY <1>2, <1>5, <1>6 DEF s
<1>8. \A t \in fresh : /\ "completed" = "completed" /\ t.req = Request
                       /\ t.share => Request.round = 0 /\ Targets[Request.agent] # {}
  BY <1>2, <1>7
<1>9. session'.answer.valid =>
        /\ "completed" = "completed"
        /\ \E t \in fresh : t.share = session'.answer.share /\ t.cut = session'.answer.cut
  BY <1>4, <1>7
<1>10. QED
  BY <1>1, <1>4, <1>7, <1>8, <1>9, CallEnds

\* No answer comes.
LEMMA ProviderFailsStep == CalInv /\ ProviderFails => CalInv'
<1> SUFFICES ASSUME CalInv, ProviderFails PROVE CalInv'
  OBVIOUS
<1>1. /\ session.at = "sent" /\ session.at \in Walking /\ ~Done(session.mem)
      /\ EndCall("failed")
      /\ UNCHANGED <<audit, decisions, checkpoint, torn, amendment, retried, root>>
      /\ said' = said
  BY DEF ProviderFails, Walking, Asked, batchVars, CalInv, PlaceOK
<1>2. session' = [session EXCEPT !.at = "audit", !.answer = NoAnswer,
                    !.code = IF GuardAdmits(Request) THEN "timeout" ELSE "other"]
  BY DEF ProviderFails
<1>3. session \in Session
  BY <1>1, InWalk
<1>4. /\ session' \in Session /\ session'.at = "audit" /\ ~session'.answer.valid
      /\ session'.index = session.index /\ session'.mem = session.mem
      /\ session'.resume = session.resume /\ session'.amended = session.amended
  <2>1. NoAnswer \in Answers /\ ~NoAnswer.valid
    BY DEF NoAnswer, Answers
  <2> HIDE DEF NoAnswer
  <2>2. QED
    BY <1>2, <1>3, <2>1 DEF Session, Steps
<1>5. PICK fresh : fresh = {}
  OBVIOUS
<1>6. /\ said' = said \cup fresh
      /\ fresh \subseteq [req : Requests, share : BOOLEAN, cut : BOOLEAN]
      /\ \A s \in fresh : FALSE
  BY <1>1, <1>5
<1>7. /\ \A s \in fresh : /\ "failed" = "completed" /\ s.req = Request
                          /\ s.share => Request.round = 0 /\ Targets[Request.agent] # {}
      /\ \A s, t \in fresh : s = t
      /\ session'.answer.valid =>
           /\ "failed" = "completed"
           /\ \E s \in fresh : s.share = session'.answer.share /\ s.cut = session'.answer.cut
  BY <1>4, <1>6
<1>8. "failed" \in {"completed", "failed"}
  OBVIOUS
<1>9. QED
  BY <1>1, <1>4, <1>6, <1>7, <1>8, CallEnds

\* The amendment is locked to what is there.
LEMMA LockAmendmentStep == CalInv /\ LockAmendment => CalInv'
<1> SUFFICES ASSUME CalInv, LockAmendment PROVE CalInv'
  OBVIOUS
<1>1. /\ batch # {} /\ amendment = {}
      /\ UNCHANGED <<runVars, root, batch, session, said, retried>>
  BY DEF LockAmendment
<1>2. /\ UNCHANGED <<ledger, audit, decisions, checkpoint, torn>>
      /\ \A run \in Runs : torn[run] \subseteq torn'[run]
  BY <1>1, NothingTorn
<1>3. Types /\ LogInv /\ AmendOK /\ FirstOK
  BY DEF CalInv
<1>4. PICK n \in DOMAIN RunOrder :
        /\ TimedOut(n)
        /\ LET run == RunOrder[n]
           IN  amendment' = {[run |-> run, found |-> Found(run), checkpoint |-> checkpoint[run],
                              req |-> ledger[run][CHOOSE k \in FailedReceipts(run) : TRUE].req]}
  BY DEF LockAmendment
<1>5. PICK run \in Runs : run = RunOrder[n]
  BY RunsListed
<1>6. PICK k \in DOMAIN ledger[run] : k = CHOOSE j \in FailedReceipts(run) : TRUE
  <2>1. Cardinality(FailedReceipts(run)) = 1
    BY <1>4, <1>5 DEF TimedOut
  <2>2. FailedReceipts(run) # {}
    BY <2>1, FS_EmptySet
  <2>3. FailedReceipts(run) \subseteq DOMAIN ledger[run]
    BY DEF FailedReceipts
  <2> HIDE DEF FailedReceipts
  <2>4. QED
    BY <2>2, <2>3
<1>7. PICK found : found = Found(run)
  OBVIOUS
<1>8. PICK am : am = [run |-> run, found |-> found, checkpoint |-> checkpoint[run],
                      req |-> ledger[run][k].req]
  OBVIOUS
<1>9. amendment' = {am}
  BY <1>4, <1>5, <1>6, <1>7, <1>8
<1>10. am.run = run /\ am.found = found /\ am.checkpoint = checkpoint[run]
       /\ am.req = ledger[run][k].req
  BY <1>8
<1>11. found.ledger = ledger[run]
  BY <1>7 DEF Found
<1>12. ledger[run] \in Seq(Receipt) /\ Len(ledger[run]) \in Nat /\ ledger[run][k].req \in Requests
       /\ ledger[run][k].req.run = run
  BY <1>3, LedgerTyped DEF LogInv, LedgerOK
<1>13. retried = 0 /\ retried' = 0
  BY <1>1, <1>3 DEF AmendOK
<1>14. AmendmentOK(am)'
  BY <1>2, <1>10, <1>11, <1>12, <1>13 DEF AmendmentOK
<1>15. AmendOK'
  BY <1>9, <1>13, <1>14 DEF AmendOK
<1>16. Types'
  BY <1>1, <1>2, <1>3 DEF Types
<1>17. LogInv'
  BY <1>1, <1>2, <1>3, QuietLogs
<1>18. PlaceOK'
  <2>1. \A any, mem : MemOK(any, mem) => MemOK(any, mem)'
    BY <1>1, <1>2, MemStays
  <2>2. Current' = Current /\ session' = session
    BY <1>1 DEF Current
  <2> PICK mem : mem = session.mem
    OBVIOUS
  <2>3. session.at \in Walking => MemOK(Current, mem)
    BY DEF CalInv, PlaceOK
  <2>4. session.at \in Walking => MemOK(Current, mem)'
    BY <2>1, <2>2, <2>3
  <2>5. QED
    BY <2>2, <2>4 DEF CalInv, PlaceOK
<1>19. SentOK' /\ AnswerOK'
  BY <1>1, <1>2 DEF CalInv, SentOK, AnswerOK, Current, Request, CompletedRequests, Failed,
                    Audited, CutOff
<1>20. FirstOK'
  BY <1>1, <1>2, <1>3 DEF FirstOK, Current, Request
<1>21. QED
  BY <1>15, <1>16, <1>17, <1>18, <1>19, <1>20 DEF CalInv

-----------------------------------------------------------------------------
(* The invariant holds of every state. *)

\* It holds at first.
LEMMA CalInit == Init => CalInv
<1> SUFFICES ASSUME Init PROVE CalInv
  OBVIOUS
<1>1. /\ \A run \in Runs : /\ ledger[run] = <<>> /\ audit[run] = <<>> /\ decisions[run] = {}
                           /\ checkpoint[run] = {} /\ torn[run] = {}
      /\ session = NoSession /\ said = {} /\ retried = 0 /\ amendment = {} /\ batch = {}
      /\ root = FALSE
  BY DEF Init
<1>2. NoSession.at = "closed" /\ NoSession \in Session
  BY NoSessionType
<1>3. Types
  <2>1. /\ ledger \in [Runs -> Seq(Receipt)]
        /\ audit \in [Runs -> Seq([req : Requests, cut : BOOLEAN])]
    BY DEF Init
  <2>2. QED
    BY <1>1, <1>2, <2>1 DEF Init, Types
<1>4. LogInv
  <2>1. DOMAIN <<>> = {}
    OBVIOUS
  <2>2. SaidOK
    BY <1>1 DEF SaidOK
  <2>3. ASSUME NEW run \in Runs
        PROVE  LedgerOK(run) /\ AttemptsOK(run) /\ LogsOK(run)
    <3>1. LedgerOK(run)
      BY <1>1, <2>1 DEF LedgerOK
    <3>2. AttemptsOK(run)
      BY <1>1, <2>1 DEF AttemptsOK, TerminalsOf
    <3>3. Audited(run) = {} /\ decisions[run] = {} /\ checkpoint[run] = {}
      BY <1>1, <2>1 DEF Audited
    <3>4. LogsOK(run)
      BY <1>1, <3>3 DEF LogsOK
    <3>5. QED
      BY <3>1, <3>2, <3>4
  <2>4. QED
    BY <2>2, <2>3 DEF LogInv
<1>5. PlaceOK /\ SentOK /\ AnswerOK
  BY <1>1, <1>2 DEF PlaceOK, SentOK, AnswerOK, Walking, Asked
<1>6. FirstOK /\ AmendOK
  BY <1>1, <1>2 DEF FirstOK, AmendOK
<1>7. QED
  BY <1>3, <1>4, <1>5, <1>6 DEF CalInv

\* And after every step.
LEMMA CalStep == CalInv /\ [Next]_calibrationVars => CalInv'
<1> SUFFICES ASSUME CalInv, [Next]_calibrationVars PROVE CalInv'
  OBVIOUS
<1>1. CASE Next
  BY <1>1, StartStep, ResumeStep, LoopStep, EndStep, FinishStep, MarkRunningStep,
     TakeCachedStep, RefuseStep, AskStep, AnswerStep, ProviderFailsStep, AppendAuditStep,
     RecordDecisionStep, SaveCheckpointStep, LockAmendmentStep
     DEF Next, SessionStep
<1>2. CASE UNCHANGED calibrationVars
  <2>1. UNCHANGED <<ledger, audit, decisions, checkpoint, torn, root, batch, amendment, session,
                    said, retried>>
    BY <1>2 DEF calibrationVars, runVars, batchVars
  <2>2. Types'
    BY <2>1 DEF CalInv, Types
  <2>3. LogInv'
    BY <2>1, QuietLogs DEF CalInv
  <2>4. PlaceOK'
    <3>1. \A any, mem : MemOK(any, mem) => MemOK(any, mem)'
      BY <2>1, MemStays
    <3>2. Current' = Current
      BY <2>1 DEF Current
    <3> PICK mem : mem = session.mem
      OBVIOUS
    <3>3. session.at \in Walking => MemOK(Current, mem)
      BY DEF CalInv, PlaceOK
    <3>4. session.at \in Walking => MemOK(Current, mem)'
      BY <3>1, <3>2, <3>3
    <3>5. QED
      BY <2>1, <3>2, <3>4 DEF CalInv, PlaceOK
  <2>5. SentOK' /\ AnswerOK'
    BY <2>1 DEF CalInv, SentOK, AnswerOK, Current, Request, CompletedRequests, Failed,
                Audited, CutOff
  <2>6. FirstOK'
    BY <2>1 DEF CalInv, FirstOK, Current, Request
  <2>7. AmendOK'
    <3>1. \A am : PastIt(am)' <=> PastIt(am)
      BY <2>1 DEF PastIt, Request, Current
    <3>2. \A am : AmendmentOK(am) => AmendmentOK(am)'
      BY <2>1, <3>1 DEF AmendmentOK
    <3>3. QED
      BY <2>1, <3>2 DEF CalInv, AmendOK
  <2>8. QED
    BY <2>2, <2>3, <2>4, <2>5, <2>6, <2>7 DEF CalInv
<1>3. QED
  BY <1>1, <1>2

\* So it holds always.
LEMMA CalAlways == CalibrationSpec => []CalInv
<1>1. Init => CalInv
  BY CalInit
<1>2. CalInv /\ [Next]_calibrationVars => CalInv'
  BY CalStep
<1>3. QED
  BY <1>1, <1>2, PTL DEF CalibrationSpec

-----------------------------------------------------------------------------
(* The safety invariants of the calibration. *)

\* What is asked is what the ledger says of it.
LEMMA SeenFollows == CalInv => SeenFromEarlierRounds
<1> SUFFICES ASSUME CalInv PROVE SeenFromEarlierRounds
  OBVIOUS
<1>1. ASSUME NEW run \in Runs, NEW i \in DOMAIN ledger[run]
      PROVE  LET r == ledger[run][i].req
             IN  /\ r.seen = Reached(run, r.agent, r.round)
                 /\ r.told <=> (r.round > 0 /\ Reached(run, r.agent, r.round - 1) \in Policy[run])
  <2>1. ledger[run][i].req.run = run /\ AsSeen(ledger[run][i].req)
    BY DEF CalInv, LogInv, LedgerOK
  <2>2. QED
    BY <2>1 DEF AsSeen
<1>2. QED
  BY <1>1 DEF SeenFromEarlierRounds

\* Two completed answers that are not kept are of one place, since before the
\* place of each everything is kept: they are one.
LEMMA LogsFollow == CalInv => LogsInStep
<1> SUFFICES ASSUME CalInv, NEW run \in Runs
             PROVE  /\ Kept(run) \subseteq decisions[run]
                    /\ decisions[run] \subseteq Audited(run) \cap CompletedRequests(run)
                    /\ Cardinality(CompletedRequests(run) \ Kept(run)) <= 1
                    /\ \A s \in said : s.cut /\ s.req.run = run /\ s.req \in decisions[run] =>
                         \E i \in TerminalsOf(ledger[run], s.req) : ledger[run][i].status = "failed"
  BY DEF LogsInStep
<1>1. Types /\ LedgerOK(run) /\ LogsOK(run)
  BY DEF CalInv, LogInv
<1>2. Kept(run) \subseteq decisions[run]
  BY <1>1 DEF LogsOK, Kept
<1>3. \A r \in CompletedRequests(run) :
        /\ r \in Requests /\ r.run = run /\ AsSeen(r) /\ r.round \in 0..(Rounds - 1)
        /\ r.agent \in Agents
        /\ \E n \in DOMAIN AgentOrder : AgentOrder[n] = r.agent /\ KeptUpTo(run, r.round, n)
  BY <1>1, CompletedMeans DEF Follows, Requests
<1>4. ASSUME NEW r \in CompletedRequests(run), NEW n \in DOMAIN AgentOrder, KeptUpTo(run, r.round, n),
             NEW q \in CompletedRequests(run) \ Kept(run)
      PROVE  ~Before(q.round, q.agent, r.round, n)
  <2> SUFFICES ASSUME Before(q.round, q.agent, r.round, n) PROVE FALSE
    OBVIOUS
  <2>1. PICK p \in Kept(run) : p.agent = q.agent /\ p.round = q.round
    BY <1>3, <1>4 DEF KeptUpTo
  <2>2. q = p
    BY <1>1, <1>3, <2>1, OneOfPlace
  <2>3. QED
    BY <1>4, <2>2
<1>5. ASSUME NEW r \in CompletedRequests(run) \ Kept(run), NEW q \in CompletedRequests(run) \ Kept(run)
      PROVE  r = q
  <2>1. PICK n \in DOMAIN AgentOrder : AgentOrder[n] = r.agent /\ KeptUpTo(run, r.round, n)
    BY <1>3
  <2>2. PICK m \in DOMAIN AgentOrder : AgentOrder[m] = q.agent /\ KeptUpTo(run, q.round, m)
    BY <1>3
  <2>3. ~Before(q.round, q.agent, r.round, n) /\ ~Before(r.round, r.agent, q.round, m)
    BY <1>4, <2>1, <2>2
  <2>4. r.round \in Nat /\ q.round \in Nat
    BY <1>3, RoundsAssumption
  <2>5. r.round = q.round
    BY <2>3, <2>4 DEF Before
  <2>6. ~(m < n) /\ ~(n < m)
    BY <2>1, <2>2, <2>3, <2>5 DEF Before
  <2>7. r.agent = q.agent
    BY <2>1, <2>2, <2>6, AgentsListed
  <2>8. QED
    BY <1>3, <2>5, <2>7, SameRequest
<1>6. Cardinality(CompletedRequests(run) \ Kept(run)) <= 1
  <2> DEFINE S == CompletedRequests(run) \ Kept(run)
  <2>1. \A r, q \in S : r = q
    BY <1>5
  <2> HIDE DEF S
  <2>2. CASE S = {}
    <3>1. Cardinality(S) = 0
      BY <2>2, FS_EmptySet
    <3>2. QED
      BY <3>1 DEF S
  <2>3. CASE S # {}
    <3>1. PICK r : S = {r}
      BY <2>1, <2>3
    <3>2. Cardinality(S) = 1
      BY <3>1, FS_Singleton
    <3>3. QED
      BY <3>2 DEF S
  <2>4. QED
    BY <2>2, <2>3
<1>7. QED
  BY <1>1, <1>2, <1>6 DEF LogsOK, Failed

\* The amendment says it of itself.
LEMMA OnceFollows == CalInv => RetriedOnce
BY DEF CalInv, AmendOK, AmendmentOK, RetriedOnce

\* Whatever crashes, fails or is resumed, what an agent is asked in a round is
\* what the answers of the earlier rounds make of it (the rounds of
\* CascadeRealAgentRunner.run_scenario, replayed from a checkpoint).
THEOREM AskedFromEarlierRounds == CalibrationSpec => []SeenFromEarlierRounds
<1>1. CalInv => SeenFromEarlierRounds
  BY SeenFollows
<1>2. QED
  BY <1>1, CalAlways, PTL

\* The ledger, the audit, the decisions and the checkpoint of a run never part
\* by more than the one answer in hand.
THEOREM LogsAlwaysInStep == CalibrationSpec => []LogsInStep
<1>1. CalInv => LogsInStep
  BY LogsFollow
<1>2. QED
  BY <1>1, CalAlways, PTL

\* The timeout resume sends the request that timed out once more and never
\* again, however it ends, and nothing that it found completed.
THEOREM TimeoutRetriedOnce == CalibrationSpec => []RetriedOnce
<1>1. CalInv => RetriedOnce
  BY OnceFollows
<1>2. QED
  BY <1>1, CalAlways, PTL
=============================================================================
