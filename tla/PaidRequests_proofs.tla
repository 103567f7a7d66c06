------------------------ MODULE PaidRequests_proofs ------------------------
(***************************************************************************)
(* Proofs about what guards a paid request: the request ledger, with the   *)
(* retries below it, for every set of requests, every caps and every       *)
(* length of file; and the one-shot gates, for any number of command       *)
(* lines, cases, launches, edits and faults.                               *)
(*                                                                         *)
(* The argument about the gates turns on the claim.  A launch between      *)
(* Acquire and its end holds the claim of its gate alone (HolderAlone),    *)
(* and one that has not sent anything yet holds it over a gate that has    *)
(* sent nothing or has its receipt (in LaunchOK): so whoever gives a claim *)
(* back leaves a gate without requests, or with a receipt.                 *)
(***************************************************************************)
EXTENDS ProviderRetry, OneShotGates, Sums_proofs, TLAPS, FiniteSetTheorems, SequenceTheorems,
        WellFoundedInduction

(***************************************************************************)
(* What one more receipt does to the index sets the decisions are made of. *)
(***************************************************************************)

\* StartsOf, TerminalsOf and RecoveriesOf are finite sets of line numbers.
LEMMA IndexSetsFinite ==
  ASSUME NEW log \in Seq(Receipt), NEW r
  PROVE  /\ IsFiniteSet(StartsOf(log, r)) /\ StartsOf(log, r) \subseteq 1..Len(log)
         /\ IsFiniteSet(TerminalsOf(log, r)) /\ TerminalsOf(log, r) \subseteq 1..Len(log)
         /\ IsFiniteSet(RecoveriesOf(log, r)) /\ RecoveriesOf(log, r) \subseteq 1..Len(log)
<1>1. IsFiniteSet(1..Len(log)) /\ DOMAIN log = 1..Len(log)
  BY FS_Interval
<1>2. /\ StartsOf(log, r) \subseteq 1..Len(log)
      /\ TerminalsOf(log, r) \subseteq 1..Len(log)
      /\ RecoveriesOf(log, r) \subseteq 1..Len(log)
  BY <1>1 DEF StartsOf, TerminalsOf, RecoveriesOf
<1>3. QED
  BY <1>1, <1>2, FS_Subset

\* Appending a start receipt adds its line to the starts of its request, to
\* the recoveries when it is tagged, and to nothing else.
LEMMA AppendStart ==
  ASSUME NEW log \in Seq(Receipt), NEW e \in Receipt, e.status = "started", NEW r
  PROVE  /\ StartsOf(Append(log, e), r)
              = StartsOf(log, r) \cup (IF e.req = r THEN {Len(log) + 1} ELSE {})
         /\ TerminalsOf(Append(log, e), r) = TerminalsOf(log, r)
         /\ RecoveriesOf(Append(log, e), r)
              = RecoveriesOf(log, r)
                  \cup (IF e.req = r /\ e.recovery THEN {Len(log) + 1} ELSE {})
<1> DEFINE new == Append(log, e)
<1>1. /\ DOMAIN log = 1..Len(log) /\ Len(log) \in Nat
      /\ DOMAIN new = 1..(Len(log) + 1)
      /\ \A i \in 1..Len(log) : new[i] = log[i]
      /\ new[Len(log) + 1] = e
  BY AppendProperties
<1> HIDE DEF new
<1>2. StartsOf(new, r) = StartsOf(log, r) \cup (IF e.req = r THEN {Len(log) + 1} ELSE {})
  BY <1>1 DEF StartsOf
<1>3. TerminalsOf(new, r) = TerminalsOf(log, r)
  BY <1>1 DEF TerminalsOf
<1>4. RecoveriesOf(new, r) = RecoveriesOf(log, r)
        \cup (IF e.req = r /\ e.recovery THEN {Len(log) + 1} ELSE {})
  <2>1. \A i \in RecoveriesOf(log, r) : new[i] = log[i]
    BY <1>1 DEF RecoveriesOf, StartsOf
  <2>2. QED
    BY <1>1, <1>2, <2>1 DEF RecoveriesOf, StartsOf
<1>5. QED
  BY <1>2, <1>3, <1>4 DEF new

\* Appending a terminal receipt adds its line to the terminals of its request
\* and to nothing else.
LEMMA AppendEnd ==
  ASSUME NEW log \in Seq(Receipt), NEW e \in Receipt, e.status # "started", NEW r
  PROVE  /\ StartsOf(Append(log, e), r) = StartsOf(log, r)
         /\ TerminalsOf(Append(log, e), r)
              = TerminalsOf(log, r) \cup (IF e.req = r THEN {Len(log) + 1} ELSE {})
         /\ RecoveriesOf(Append(log, e), r) = RecoveriesOf(log, r)
<1> DEFINE new == Append(log, e)
<1>1. /\ DOMAIN log = 1..Len(log) /\ Len(log) \in Nat
      /\ DOMAIN new = 1..(Len(log) + 1)
      /\ \A i \in 1..Len(log) : new[i] = log[i]
      /\ new[Len(log) + 1] = e
      /\ e.status \in {"completed", "failed"}
  BY AppendProperties DEF Receipt
<1> HIDE DEF new
<1>2. StartsOf(new, r) = StartsOf(log, r)
  BY <1>1 DEF StartsOf
<1>3. TerminalsOf(new, r) = TerminalsOf(log, r) \cup (IF e.req = r THEN {Len(log) + 1} ELSE {})
  BY <1>1 DEF TerminalsOf
<1>4. RecoveriesOf(new, r) = RecoveriesOf(log, r)
  BY <1>1, <1>2 DEF RecoveriesOf, StartsOf
<1>5. QED
  BY <1>2, <1>3, <1>4 DEF new

-----------------------------------------------------------------------------
(***************************************************************************)
(* Types.                                                                  *)
(***************************************************************************)

\* The receipts complete() writes are receipts.
LEMMA NewReceiptType ==
  ASSUME TypeOK, NEW r \in Requests
  PROVE  /\ NewReceipt(r) \in Receipt
         /\ NewReceipt(r).req = r /\ NewReceipt(r).status = "started"
         /\ NewReceipt(r).attempt = 1 + Cardinality(StartsOf(entries, r))
         /\ NewReceipt(r).recovery = IsRecovery(entries, r)
<1>1. Cardinality(StartsOf(entries, r)) \in Nat
  BY IndexSetsFinite, FS_CardinalityType DEF TypeOK
<1>2. IsRecovery(entries, r) \in BOOLEAN
  BY DEF IsRecovery
<1>3. QED
  BY <1>1, <1>2 DEF NewReceipt, StartReceipt, NextAttempt, Receipt

\* The terminal receipt repeats the receipt in flight with its outcome.
LEMMA EndReceiptType ==
  ASSUME TypeOK, CallInv, stage \in {"receipted", "sent"},
         NEW outcome \in {"completed", "failed"}
  PROVE  /\ Len(entries) \in 1..Len(entries) /\ InFlight \in Receipt
         /\ EndReceipt(InFlight, outcome) \in Receipt
         /\ EndReceipt(InFlight, outcome).status = outcome
         /\ EndReceipt(InFlight, outcome).req = InFlight.req
         /\ EndReceipt(InFlight, outcome).attempt = InFlight.attempt
<1>1. Len(entries) \in 1..Len(entries)
  BY EmptySeq, LenProperties DEF TypeOK, CallInv
<1>2. InFlight \in Receipt
  BY <1>1, ElementOfSeq DEF TypeOK, InFlight
<1>3. QED
  BY <1>1, <1>2 DEF Receipt, EndReceipt

\* Every step leaves the file alone or appends one of the two receipts.
LEMMA StepCases ==
  ASSUME TypeOK, CallInv, [Next]_vars
  PROVE  \/ /\ entries' = entries
            /\ stage' = "closed" \/ stage' = "idle"
            /\ transports' = transports
         \/ /\ stage = "receipted" /\ stage' = "sent" /\ entries' = entries
            /\ transports' = [transports EXCEPT ![InFlight.req] = @ + 1]
         \/ UNCHANGED vars
         \/ \E r \in Requests : Admit(r)
         \/ \E outcome \in {"completed", "failed"} : Answer(outcome)
BY DEF Next, vars, Open, Transport, AnswerUnwritten, Stop, TearReceipt

\* Every step of complete(), and every end of a process, keeps the types and
\* leaves the start receipt of a call in flight last in the file.
LEMMA TypeStep == TypeOK /\ CallInv /\ [Next]_vars => TypeOK' /\ CallInv'
<1> SUFFICES ASSUME TypeOK, CallInv, [Next]_vars PROVE TypeOK' /\ CallInv'
  OBVIOUS
<1>1. ASSUME NEW resume \in BOOLEAN, NEW allowed \in Allowlists, Open(resume, allowed)
      PROVE  TypeOK' /\ CallInv'
  <2>1. provider' \in Provider
    BY <1>1, SessionAssumption DEF Open, Provider
  <2>2. QED
    BY <1>1, <2>1 DEF Open, TypeOK, CallInv, Stages
<1>2. ASSUME NEW r \in Requests, Admit(r)
      PROVE  TypeOK' /\ CallInv'
  <2>1. NewReceipt(r) \in Receipt /\ NewReceipt(r).status = "started"
    BY NewReceiptType
  <2>2. /\ entries' \in Seq(Receipt) /\ entries' # <<>>
        /\ Len(entries') = Len(entries) + 1
        /\ entries'[Len(entries')] = NewReceipt(r)
    BY <1>2, <2>1, AppendProperties DEF TypeOK, Admit
  <2>3. provider' \in Provider
    BY <1>2 DEF TypeOK, Admit, Consume, Provider, IsRecovery
  <2>4. QED
    BY <1>2, <2>1, <2>2, <2>3 DEF Admit, TypeOK, CallInv, InFlight, Stages
<1>3. CASE Transport
  <2>1. InFlight.req \in Requests
    BY <1>3, EndReceiptType DEF Transport, Receipt
  <2>2. QED
    BY <1>3, <2>1 DEF Transport, TypeOK, CallInv, InFlight, Stages
<1>4. ASSUME NEW outcome \in {"completed", "failed"}, Answer(outcome)
      PROVE  TypeOK' /\ CallInv'
  <2>1. EndReceipt(InFlight, outcome) \in Receipt
    BY <1>4, EndReceiptType DEF Answer
  <2>2. entries' \in Seq(Receipt)
    BY <1>4, <2>1, AppendProperties DEF TypeOK, Answer
  <2>3. QED
    BY <1>4, <2>2 DEF Answer, TypeOK, CallInv, Stages
<1>5. CASE AnswerUnwritten
  BY <1>5 DEF AnswerUnwritten, TypeOK, CallInv, Stages
<1>6. CASE Stop
  BY <1>6 DEF Stop, TypeOK, CallInv, Stages, NoProvider, Provider
<1>7. CASE TearReceipt
  BY <1>7 DEF TearReceipt, TypeOK, CallInv, Stages, NoProvider, Provider
<1>8. CASE UNCHANGED vars
  BY <1>8 DEF vars, TypeOK, CallInv, InFlight
<1>9. QED
  BY <1>1, <1>2, <1>3, <1>4, <1>5, <1>6, <1>7, <1>8 DEF Next

\* An empty ledger file without a process is well typed.
LEMMA TypeInit == Init => TypeOK /\ CallInv
<1> SUFFICES ASSUME Init PROVE TypeOK /\ CallInv
  OBVIOUS
<1>1. entries \in Seq(Receipt)
  BY DEF Init
<1>2. provider \in Provider
  BY DEF Init, NoProvider, Provider
<1>3. transports \in [Requests -> Nat]
  BY DEF Init
<1>4. QED
  BY <1>1, <1>2, <1>3 DEF Init, TypeOK, CallInv, Stages

\* The receipt file, the provider and the call in flight keep their types.
THEOREM TypeCorrect == Spec => []TypeOK
<1>1. Init => TypeOK /\ CallInv
  BY TypeInit
<1>2. TypeOK /\ CallInv /\ [Next]_vars => TypeOK' /\ CallInv'
  BY TypeStep
<1>3. QED
  BY <1>1, <1>2, PTL DEF Spec

-----------------------------------------------------------------------------
(***************************************************************************)
(* Order of the lines.                                                     *)
(***************************************************************************)

\* What a step that appends does to the file, line by line.
LEMMA AppendedLines ==
  ASSUME NEW log \in Seq(Receipt), NEW e \in Receipt
  PROVE  /\ Append(log, e) \in Seq(Receipt)
         /\ Len(log) \in Nat /\ DOMAIN log = 1..Len(log)
         /\ DOMAIN Append(log, e) = 1..(Len(log) + 1)
         /\ \A i \in 1..Len(log) : Append(log, e)[i] = log[i]
         /\ Append(log, e)[Len(log) + 1] = e
BY AppendProperties

\* A terminal receipt is only ever written right after its start receipt: a
\* process makes one call at a time.
LEMMA EndFollowsStartStep ==
  TypeOK /\ CallInv /\ EndFollowsStart /\ [Next]_vars => EndFollowsStart'
<1> SUFFICES ASSUME TypeOK, CallInv, EndFollowsStart, [Next]_vars
             PROVE  EndFollowsStart'
  OBVIOUS
<1>1. ASSUME NEW r \in Requests, Admit(r)
      PROVE  EndFollowsStart'
  <2>1. /\ NewReceipt(r) \in Receipt /\ NewReceipt(r).status = "started"
        /\ entries' = Append(entries, NewReceipt(r))
    BY <1>1, NewReceiptType DEF Admit
  <2>2. QED
    BY <2>1, AppendedLines DEF TypeOK, EndFollowsStart
<1>2. ASSUME NEW outcome \in {"completed", "failed"}, Answer(outcome)
      PROVE  EndFollowsStart'
  <2> DEFINE e == EndReceipt(InFlight, outcome)
  <2>1. /\ e \in Receipt /\ e.status = outcome /\ entries' = Append(entries, e)
        /\ Len(entries) \in 1..Len(entries)
        /\ InFlight.status = "started" /\ InFlight = entries[Len(entries)]
        /\ e = EndReceipt(InFlight, e.status)
    BY <1>2, EndReceiptType DEF Answer, CallInv, InFlight
  <2> HIDE DEF e
  <2>2. QED
    BY <2>1, AppendedLines DEF TypeOK, EndFollowsStart
<1>3. CASE UNCHANGED entries
  BY <1>3 DEF EndFollowsStart
<1>4. QED
  BY <1>1, <1>2, <1>3, StepCases DEF vars

\* The starts before a given line, once a line has been appended.
LEMMA StartsBefore ==
  ASSUME NEW log \in Seq(Receipt), NEW e \in Receipt, NEW j \in 1..Len(log), NEW r
  PROVE  {i \in StartsOf(Append(log, e), r) : i < j} = {i \in StartsOf(log, r) : i < j}
BY AppendedLines DEF StartsOf

\* A new start receipt takes the number of the starts before it plus one.
LEMMA StartsNumberedStep ==
  TypeOK /\ CallInv /\ StartsNumbered /\ [Next]_vars => StartsNumbered'
<1> SUFFICES ASSUME TypeOK, CallInv, StartsNumbered, [Next]_vars
             PROVE  StartsNumbered'
  OBVIOUS
<1> DEFINE Numbered(log, j) ==
      log[j].attempt = 1 + Cardinality({i \in StartsOf(log, log[j].req) : i < j})
<1>1. ASSUME NEW e \in Receipt, entries' = Append(entries, e),
             NEW j \in 1..Len(entries), entries[j].status = "started"
      PROVE  Numbered(entries', j)
  <2>1. entries'[j] = entries[j] /\ j \in DOMAIN entries
    BY <1>1, AppendedLines DEF TypeOK
  <2>2. Numbered(entries, j)
    BY <1>1, <2>1 DEF StartsNumbered
  <2>3. {i \in StartsOf(entries', entries[j].req) : i < j}
          = {i \in StartsOf(entries, entries[j].req) : i < j}
    BY <1>1, StartsBefore DEF TypeOK
  <2>4. QED
    BY <2>1, <2>2, <2>3
<1>2. ASSUME NEW r \in Requests, Admit(r)
      PROVE  StartsNumbered'
  <2> DEFINE e == NewReceipt(r)  n == Len(entries) + 1
  <2>1. /\ e \in Receipt /\ e.req = r /\ e.status = "started"
        /\ e.attempt = 1 + Cardinality(StartsOf(entries, r))
        /\ entries' = Append(entries, e)
    BY <1>2, NewReceiptType DEF Admit
  <2> HIDE DEF e
  <2>2. /\ DOMAIN entries' = 1..n /\ entries'[n] = e /\ n \in Nat
        /\ \A i \in 1..Len(entries) : entries'[i] = entries[i]
        /\ DOMAIN entries' = 1..Len(entries) \cup {n}
    BY <2>1, AppendedLines DEF TypeOK
  <2>3. {i \in StartsOf(entries', r) : i < n} = StartsOf(entries, r)
    BY <2>1, AppendStart, IndexSetsFinite DEF TypeOK
  <2>4. Numbered(entries', n)
    BY <2>1, <2>2, <2>3
  <2>5. \A j \in 1..Len(entries) : entries[j].status = "started" => Numbered(entries', j)
    BY <1>1, <2>1
  <2> HIDE DEF n
  <2>6. QED
    BY <2>2, <2>4, <2>5 DEF StartsNumbered
<1>3. ASSUME NEW outcome \in {"completed", "failed"}, Answer(outcome)
      PROVE  StartsNumbered'
  <2> DEFINE e == EndReceipt(InFlight, outcome)
  <2>1. e \in Receipt /\ e.status # "started" /\ entries' = Append(entries, e)
    BY <1>3, EndReceiptType DEF Answer
  <2> HIDE DEF e
  <2>2. /\ DOMAIN entries' = 1..(Len(entries) + 1)
        /\ entries'[Len(entries) + 1] = e /\ Len(entries) \in Nat
        /\ \A i \in 1..Len(entries) : entries'[i] = entries[i]
    BY <2>1, AppendedLines DEF TypeOK
  <2>3. \A j \in 1..Len(entries) : entries[j].status = "started" => Numbered(entries', j)
    BY <1>1, <2>1
  <2>4. ASSUME NEW j \in DOMAIN entries', entries'[j].status = "started"
        PROVE  j \in 1..Len(entries) /\ entries[j].status = "started"
    BY <2>1, <2>2, <2>4
  <2>5. QED
    BY <2>3, <2>4 DEF StartsNumbered
<1>4. CASE UNCHANGED entries
  BY <1>4 DEF StartsNumbered, StartsOf
<1>5. QED
  BY <1>2, <1>3, <1>4, StepCases DEF vars

-----------------------------------------------------------------------------
(***************************************************************************)
(* Write-ahead.                                                            *)
(***************************************************************************)

\* Each of the three steps of a call moves one count and the stage that says
\* which one is behind.
LEMMA CountsBehindStep ==
  TypeOK /\ CallInv /\ CountsBehind /\ [Next]_vars => CountsBehind'
<1> SUFFICES ASSUME TypeOK, CallInv, CountsBehind, [Next]_vars
             PROVE  CountsBehind'
  OBVIOUS
<1> DEFINE starts(r) == Cardinality(StartsOf(entries, r))
           ends(r) == Cardinality(TerminalsOf(entries, r))
<1>0. \A r \in Requests :
        /\ starts(r) \in Nat /\ ends(r) \in Nat /\ transports[r] \in Nat
        /\ transports[r] + At("receipted", r) <= starts(r)
        /\ ends(r) + At("sent", r) <= transports[r]
  BY IndexSetsFinite, FS_CardinalityType DEF TypeOK, CountsBehind
<1>1. ASSUME NEW q \in Requests, Admit(q), NEW r \in Requests
      PROVE  /\ transports'[r] + At("receipted", r)' <= Cardinality(StartsOf(entries', r))
             /\ Cardinality(TerminalsOf(entries', r)) + At("sent", r)' <= transports'[r]
  <2> DEFINE e == NewReceipt(q)
  <2>1. /\ e \in Receipt /\ e.req = q /\ e.status = "started"
        /\ entries' = Append(entries, e)
    BY <1>1, NewReceiptType DEF Admit
  <2>2. InFlight'.req = q
    <3>1. Len(entries') = Len(entries) + 1 /\ entries'[Len(entries) + 1] = e
      BY <2>1, AppendProperties DEF TypeOK
    <3>2. QED
      BY <3>1, <2>1 DEF InFlight
  <2> HIDE DEF e
  <2>3. At("receipted", r)' = (IF q = r THEN 1 ELSE 0) /\ At("sent", r)' = 0
    BY <1>1, <2>2 DEF Admit, At
  <2>4. TerminalsOf(entries', r) = TerminalsOf(entries, r)
    BY <2>1, AppendStart DEF TypeOK
  <2>5. Cardinality(StartsOf(entries', r)) = starts(r) + (IF q = r THEN 1 ELSE 0)
    <3>1. StartsOf(entries', r)
            = StartsOf(entries, r) \cup (IF q = r THEN {Len(entries) + 1} ELSE {})
      BY <2>1, AppendStart DEF TypeOK
    <3>2. /\ IsFiniteSet(StartsOf(entries, r))
          /\ Len(entries) + 1 \notin StartsOf(entries, r)
      BY IndexSetsFinite DEF TypeOK
    <3>3. CASE q = r
      <4>1. StartsOf(entries', r) = StartsOf(entries, r) \cup {Len(entries) + 1}
        BY <3>1, <3>3
      <4>2. QED
        BY <4>1, <3>2, <3>3, FS_AddElement
    <3>4. CASE q # r
      <4>1. StartsOf(entries', r) = StartsOf(entries, r)
        BY <3>1, <3>4
      <4>2. QED
        BY <4>1, <3>4, <1>0
    <3>5. QED
      BY <3>3, <3>4
  <2>6. transports' = transports /\ At("receipted", r) = 0 /\ At("sent", r) = 0
    BY <1>1 DEF Admit, At
  <2>7. QED
    BY <1>0, <2>3, <2>4, <2>5, <2>6
<1>2. ASSUME Transport, NEW r \in Requests
      PROVE  /\ transports'[r] + At("receipted", r)' <= Cardinality(StartsOf(entries', r))
             /\ Cardinality(TerminalsOf(entries', r)) + At("sent", r)' <= transports'[r]
  <2>1. /\ entries' = entries /\ InFlight' = InFlight
        /\ At("receipted", r) = (IF InFlight.req = r THEN 1 ELSE 0) /\ At("sent", r) = 0
        /\ At("receipted", r)' = 0 /\ At("sent", r)' = (IF InFlight.req = r THEN 1 ELSE 0)
    BY <1>2 DEF Transport, At, InFlight
  <2>2. transports'[r] = transports[r] + (IF InFlight.req = r THEN 1 ELSE 0)
    BY <1>2 DEF Transport, TypeOK
  <2>3. QED
    BY <1>0, <2>1, <2>2
<1>3. ASSUME NEW outcome \in {"completed", "failed"}, Answer(outcome), NEW r \in Requests
      PROVE  /\ transports'[r] + At("receipted", r)' <= Cardinality(StartsOf(entries', r))
             /\ Cardinality(TerminalsOf(entries', r)) + At("sent", r)' <= transports'[r]
  <2> DEFINE e == EndReceipt(InFlight, outcome)
  <2>1. /\ e \in Receipt /\ e.req = InFlight.req /\ e.status # "started"
        /\ entries' = Append(entries, e)
    BY <1>3, EndReceiptType DEF Answer
  <2> HIDE DEF e
  <2>2. /\ At("receipted", r) = 0 /\ At("sent", r) = (IF InFlight.req = r THEN 1 ELSE 0)
        /\ At("receipted", r)' = 0 /\ At("sent", r)' = 0 /\ transports' = transports
    BY <1>3 DEF Answer, At
  <2>3. StartsOf(entries', r) = StartsOf(entries, r)
    BY <2>1, AppendEnd DEF TypeOK
  <2>4. Cardinality(TerminalsOf(entries', r)) = ends(r) + (IF InFlight.req = r THEN 1 ELSE 0)
    <3>1. TerminalsOf(entries', r)
            = TerminalsOf(entries, r) \cup (IF InFlight.req = r THEN {Len(entries) + 1} ELSE {})
      BY <2>1, AppendEnd DEF TypeOK
    <3>2. /\ IsFiniteSet(TerminalsOf(entries, r))
          /\ Len(entries) + 1 \notin TerminalsOf(entries, r)
      BY IndexSetsFinite DEF TypeOK
    <3>3. CASE InFlight.req = r
      <4>1. TerminalsOf(entries', r) = TerminalsOf(entries, r) \cup {Len(entries) + 1}
        BY <3>1, <3>3
      <4>2. QED
        BY <4>1, <3>2, <3>3, FS_AddElement
    <3>4. CASE InFlight.req # r
      <4>1. TerminalsOf(entries', r) = TerminalsOf(entries, r)
        BY <3>1, <3>4
      <4>2. QED
        BY <4>1, <3>4, <1>0
    <3>5. QED
      BY <3>3, <3>4
  <2>5. QED
    BY <1>0, <2>2, <2>3, <2>4
<1>4. ASSUME entries' = entries, stage' = "closed" \/ stage' = "idle",
             transports' = transports, NEW r \in Requests
      PROVE  /\ transports'[r] + At("receipted", r)' <= Cardinality(StartsOf(entries', r))
             /\ Cardinality(TerminalsOf(entries', r)) + At("sent", r)' <= transports'[r]
  <2>1. /\ At("receipted", r)' = 0 /\ At("sent", r)' = 0
        /\ At("receipted", r) \in Nat /\ At("sent", r) \in Nat
    BY <1>4 DEF At
  <2>2. QED
    BY <1>0, <1>4, <2>1
<1>5. CASE UNCHANGED vars
  BY <1>5 DEF vars, CountsBehind, At, InFlight, StartsOf, TerminalsOf
<1>6. QED
  <2>1. CASE \E q \in Requests : Admit(q)
    BY <2>1, <1>1 DEF CountsBehind
  <2>2. CASE Transport
    BY <2>2, <1>2 DEF CountsBehind
  <2>3. CASE \E outcome \in {"completed", "failed"} : Answer(outcome)
    BY <2>3, <1>3 DEF CountsBehind
  <2>4. CASE entries' = entries /\ (stage' = "closed" \/ stage' = "idle")
               /\ transports' = transports
    BY <2>4, <1>4 DEF CountsBehind
  <2>5. QED
    BY <2>1, <2>2, <2>3, <2>4, <1>5 DEF Next, Open, AnswerUnwritten, Stop, TearReceipt

\* With the stages left out, the counts are the write-ahead rule.
LEMMA CountsGiveWriteAhead == TypeOK /\ CountsBehind => WriteAhead
<1> SUFFICES ASSUME TypeOK, CountsBehind, NEW r \in Requests
             PROVE  /\ transports[r] <= Cardinality(StartsOf(entries, r))
                    /\ Cardinality(TerminalsOf(entries, r)) <= transports[r]
  BY DEF WriteAhead
<1>1. /\ transports[r] \in Nat
      /\ Cardinality(StartsOf(entries, r)) \in Nat
      /\ Cardinality(TerminalsOf(entries, r)) \in Nat
      /\ At("receipted", r) \in Nat /\ At("sent", r) \in Nat
  BY IndexSetsFinite, FS_CardinalityType DEF TypeOK, At
<1>2. QED
  BY <1>1 DEF CountsBehind

\* Nothing is started, sent or ended in the beginning.
LEMMA CountsInit == Init => CountsBehind
<1> SUFFICES ASSUME Init, NEW r \in Requests
             PROVE  /\ transports[r] + At("receipted", r) <= Cardinality(StartsOf(entries, r))
                    /\ Cardinality(TerminalsOf(entries, r)) + At("sent", r) <= transports[r]
  BY DEF CountsBehind
<1>1. StartsOf(entries, r) = {} /\ TerminalsOf(entries, r) = {}
  BY DEF Init, StartsOf, TerminalsOf
<1>2. /\ Cardinality(StartsOf(entries, r)) = 0
      /\ Cardinality(TerminalsOf(entries, r)) = 0
  BY <1>1, FS_EmptySet
<1>3. transports[r] = 0 /\ At("receipted", r) = 0 /\ At("sent", r) = 0
  BY DEF Init, At
<1>4. QED
  BY <1>2, <1>3

\* Every call the wrapped provider has received is covered by a start receipt
\* and every terminal receipt by a call, in every reachable state.
THEOREM WriteAheadHolds == Spec => []WriteAhead
<1>1. Init => TypeOK /\ CallInv /\ CountsBehind
  BY TypeInit, CountsInit
<1>2. TypeOK /\ CallInv /\ CountsBehind /\ [Next]_vars => TypeOK' /\ CallInv' /\ CountsBehind'
  BY TypeStep, CountsBehindStep
<1>3. TypeOK /\ CountsBehind => WriteAhead
  BY CountsGiveWriteAhead
<1>4. QED
  BY <1>1, <1>2, <1>3, PTL DEF Spec

-----------------------------------------------------------------------------
(***************************************************************************)
(* Caps and recoveries.                                                    *)
(***************************************************************************)

\* An admitted request has passed every check.
LEMMA AdmitsMeans ==
  ASSUME NEW r \in Requests, Admits(r)
  PROVE  /\ NoReplay(entries, ProviderFor(r), r)
         /\ RecoveryLeft(entries, r)
         /\ UnderRequestCap(entries, r)
         /\ UnderReservationCap(entries, r)
BY DEF Admits, Refusal

\* A request is added to those started only below the cap.
LEMMA RequestCapStep ==
  TypeOK /\ CallInv /\ RequestCapHolds /\ [Next]_vars => RequestCapHolds'
<1> SUFFICES ASSUME TypeOK, CallInv, RequestCapHolds, [Next]_vars
             PROVE  RequestCapHolds'
  OBVIOUS
<1>0. IsFiniteSet(StartedRequests(entries)) /\ Cardinality(StartedRequests(entries)) \in Nat
  <2>1. StartedRequests(entries) \in SUBSET Requests
    BY DEF StartedRequests
  <2>2. QED
    BY <2>1, FS_Subset, FS_CardinalityType, LedgerAssumption
<1>1. ASSUME NEW q \in Requests, Admit(q)
      PROVE  RequestCapHolds'
  <2> DEFINE e == NewReceipt(q)
  <2>1. /\ e \in Receipt /\ e.req = q /\ e.status = "started"
        /\ entries' = Append(entries, e)
    BY <1>1, NewReceiptType DEF Admit
  <2> HIDE DEF e
  <2>2. \A r : StartsOf(entries', r)
                 = StartsOf(entries, r) \cup (IF q = r THEN {Len(entries) + 1} ELSE {})
    BY <2>1, AppendStart DEF TypeOK
  <2>3. StartedRequests(entries') = StartedRequests(entries) \cup {q}
    BY <2>2 DEF StartedRequests
  <2>4. CASE q \in StartedRequests(entries)
    <3>1. StartedRequests(entries') = StartedRequests(entries)
      BY <2>3, <2>4
    <3>2. QED
      BY <3>1 DEF RequestCapHolds
  <2>5. CASE q \notin StartedRequests(entries)
    <3>1. Cardinality(StartedRequests(entries')) = Cardinality(StartedRequests(entries)) + 1
      BY <1>0, <2>3, <2>5, FS_AddElement
    <3>2. Cardinality(StartedRequests(entries)) < RequestCap
      BY <1>1, <2>5, AdmitsMeans DEF Admit, UnderRequestCap, IsFresh, StartedRequests
    <3>3. QED
      BY <1>0, <3>1, <3>2, LedgerAssumption DEF RequestCapHolds
  <2>6. QED
    BY <2>4, <2>5
<1>2. ASSUME NEW outcome \in {"completed", "failed"}, Answer(outcome)
      PROVE  RequestCapHolds'
  <2> DEFINE e == EndReceipt(InFlight, outcome)
  <2>1. e \in Receipt /\ e.status # "started" /\ entries' = Append(entries, e)
    BY <1>2, EndReceiptType DEF Answer
  <2> HIDE DEF e
  <2>2. \A r : StartsOf(entries', r) = StartsOf(entries, r)
    BY <2>1, AppendEnd DEF TypeOK
  <2>3. QED
    BY <2>2 DEF RequestCapHolds, StartedRequests
<1>3. CASE UNCHANGED entries
  BY <1>3 DEF RequestCapHolds, StartedRequests, StartsOf
<1>4. QED
  BY <1>1, <1>2, <1>3, StepCases DEF vars

\* Nothing is started in the beginning.
LEMMA RequestCapInit == Init => RequestCapHolds
<1> SUFFICES ASSUME Init PROVE RequestCapHolds
  OBVIOUS
<1>1. StartedRequests(entries) = {}
  BY DEF Init, StartedRequests, StartsOf
<1>2. QED
  BY <1>1, FS_EmptySet, LedgerAssumption DEF RequestCapHolds

\* However many processes open the file and whatever they retry or recover, it
\* never names more started requests than the request cap.
THEOREM RequestCapNeverExceeded == Spec => []RequestCapHolds
<1>1. Init => TypeOK /\ CallInv /\ RequestCapHolds
  BY TypeInit, RequestCapInit
<1>2. TypeOK /\ CallInv /\ RequestCapHolds /\ [Next]_vars
        => TypeOK' /\ CallInv' /\ RequestCapHolds'
  BY TypeStep, RequestCapStep
<1>3. QED
  BY <1>1, <1>2, PTL DEF Spec

\* What is reserved is a sum, and one more started request adds its tokens.
LEMMA ReservedIsSum ==
  ASSUME NEW log
  PROVE  /\ ReservedTokens(log) = SumFunctionOnSet(MaxTokens, StartedRequests(log))
         /\ Numbers(MaxTokens, StartedRequests(log))
         /\ \A q \in Requests : Numbers(MaxTokens, StartedRequests(log) \cup {q})
<1>1. StartedRequests(log) \subseteq Requests
  BY DEF StartedRequests
<1>2. \A q \in Requests : Numbers(MaxTokens, StartedRequests(log) \cup {q})
  <2> SUFFICES ASSUME NEW q \in Requests PROVE Numbers(MaxTokens, StartedRequests(log) \cup {q})
    OBVIOUS
  <2>1. StartedRequests(log) \cup {q} \subseteq Requests
    BY <1>1
  <2>2. IsFiniteSet(StartedRequests(log) \cup {q})
    BY <2>1, FS_Subset, LedgerAssumption
  <2>3. QED
    BY <2>1, <2>2, LedgerAssumption DEF Numbers
<1>3. Numbers(MaxTokens, StartedRequests(log))
  BY <1>1, FS_Subset, LedgerAssumption DEF Numbers
<1>4. ReservedTokens(log) = SumFunctionOnSet(MaxTokens, StartedRequests(log))
  BY DEF ReservedTokens, MapThenSumSet, SumFunctionOnSet, FoldFunctionOnSet
<1>5. QED
  BY <1>2, <1>3, <1>4

\* Tokens are reserved for one more request only below the cap.
LEMMA ReservationCapStep ==
  TypeOK /\ CallInv /\ ReservationCapHolds /\ [Next]_vars => ReservationCapHolds'
<1> SUFFICES ASSUME TypeOK, CallInv, ReservationCapHolds, [Next]_vars
             PROVE  ReservationCapHolds'
  OBVIOUS
<1>0. ReservedTokens(entries') = SumFunctionOnSet(MaxTokens, StartedRequests(entries'))
  BY ReservedIsSum
<1>1. ASSUME NEW q \in Requests, Admit(q)
      PROVE  ReservationCapHolds'
  <2> DEFINE e == NewReceipt(q)
  <2>1. /\ e \in Receipt /\ e.req = q /\ e.status = "started"
        /\ entries' = Append(entries, e)
    BY <1>1, NewReceiptType DEF Admit
  <2> HIDE DEF e
  <2>2. \A r : StartsOf(entries', r)
                 = StartsOf(entries, r) \cup (IF q = r THEN {Len(entries) + 1} ELSE {})
    BY <2>1, AppendStart DEF TypeOK
  <2>3. StartedRequests(entries') = StartedRequests(entries) \cup {q}
    BY <2>2 DEF StartedRequests
  <2>4. CASE q \in StartedRequests(entries)
    <3>1. StartedRequests(entries') = StartedRequests(entries)
      BY <2>3, <2>4
    <3>2. ReservedTokens(entries') = ReservedTokens(entries)
      BY <1>0, <3>1, ReservedIsSum
    <3>3. QED
      BY <3>2 DEF ReservationCapHolds
  <2>5. CASE q \notin StartedRequests(entries)
    <3>1. Numbers(MaxTokens, StartedRequests(entries) \cup {q})
      BY ReservedIsSum
    <3>2. ReservedTokens(entries')
            = SumFunctionOnSet(MaxTokens, StartedRequests(entries)) + MaxTokens[q]
      <4>1. SumFunctionOnSet(MaxTokens, StartedRequests(entries) \cup {q})
              = SumFunctionOnSet(MaxTokens, StartedRequests(entries)) + MaxTokens[q]
        BY <2>5, <3>1, SumAdds
      <4>2. QED
        BY <1>0, <2>3, <4>1
    <3>3. ReservedTokens(entries) = SumFunctionOnSet(MaxTokens, StartedRequests(entries))
      BY ReservedIsSum
    <3>4. ReservedTokens(entries) + MaxTokens[q] <= ReservationCap
      BY <1>1, <2>5, AdmitsMeans DEF Admit, UnderReservationCap, IsFresh, StartedRequests
    <3>5. ReservedTokens(entries') <= ReservationCap
      BY <3>2, <3>3, <3>4
    <3>6. QED
      BY <3>5 DEF ReservationCapHolds
  <2>6. QED
    BY <2>4, <2>5
<1>2. ASSUME StartedRequests(entries') = StartedRequests(entries)
      PROVE  ReservationCapHolds'
  <2>1. ReservedTokens(entries') = ReservedTokens(entries)
    BY <1>0, <1>2, ReservedIsSum
  <2>2. QED
    BY <2>1 DEF ReservationCapHolds
<1>3. ASSUME NEW outcome \in {"completed", "failed"}, Answer(outcome)
      PROVE  StartedRequests(entries') = StartedRequests(entries)
  <2> DEFINE e == EndReceipt(InFlight, outcome)
  <2>1. e \in Receipt /\ e.status # "started" /\ entries' = Append(entries, e)
    BY <1>3, EndReceiptType DEF Answer
  <2> HIDE DEF e
  <2>2. \A r : StartsOf(entries', r) = StartsOf(entries, r)
    BY <2>1, AppendEnd DEF TypeOK
  <2>3. QED
    BY <2>2 DEF StartedRequests
<1>4. ASSUME UNCHANGED entries
      PROVE  StartedRequests(entries') = StartedRequests(entries)
  BY <1>4
<1>5. QED
  BY <1>1, <1>2, <1>3, <1>4, StepCases DEF vars

\* Nothing is reserved in the beginning.
LEMMA ReservationCapInit == Init => ReservationCapHolds
<1> SUFFICES ASSUME Init PROVE ReservationCapHolds
  OBVIOUS
<1>1. StartedRequests(entries) = {}
  BY DEF Init, StartedRequests, StartsOf
<1>2. Numbers(MaxTokens, {}) /\ ReservedTokens(entries) = SumFunctionOnSet(MaxTokens, {})
  BY <1>1, ReservedIsSum
<1>3. SumFunctionOnSet(MaxTokens, {}) = 0
  BY <1>2, SumPicks
<1>4. ReservationCap \in Nat
  BY LedgerAssumption
<1>5. QED
  BY <1>2, <1>3, <1>4 DEF ReservationCapHolds

\* Neither the requests that the file shows as started nor the tokens they may
\* complete exceed their caps, whatever is retried, recovered or left without a
\* terminal receipt (LedgeredProvider.complete).
THEOREM CapsAlwaysRespected == Spec => []CapsRespected
<1>1. Init => TypeOK /\ CallInv /\ ReservationCapHolds
  BY TypeInit, ReservationCapInit
<1>2. TypeOK /\ CallInv /\ ReservationCapHolds /\ [Next]_vars
        => TypeOK' /\ CallInv' /\ ReservationCapHolds'
  BY TypeStep, ReservationCapStep
<1>3. RequestCapHolds /\ ReservationCapHolds => CapsRespected
  BY DEF CapsRespected
<1>4. QED
  BY <1>1, <1>2, <1>3, RequestCapNeverExceeded, PTL DEF Spec

\* A recovery is admitted only below its bound, and only for a probe.
LEMMA RecoveryBoundedStep ==
  TypeOK /\ CallInv /\ RecoveryBounded /\ [Next]_vars => RecoveryBounded'
<1> SUFFICES ASSUME TypeOK, CallInv, RecoveryBounded, [Next]_vars
             PROVE  RecoveryBounded'
  OBVIOUS
<1> DEFINE Bounded(log, r) ==
      /\ Cardinality(RecoveriesOf(log, r)) <= MaxRecovery
      /\ RecoveriesOf(log, r) # {} => Phase[r] \in RecoveryPhases
<1>1. ASSUME NEW q \in Requests, Admit(q), NEW r \in Requests
      PROVE  Bounded(entries', r)
  <2> DEFINE e == NewReceipt(q)
  <2>1. /\ e \in Receipt /\ e.req = q /\ e.status = "started"
        /\ e.recovery = IsRecovery(entries, q) /\ entries' = Append(entries, e)
    BY <1>1, NewReceiptType DEF Admit
  <2> HIDE DEF e
  <2>2. RecoveriesOf(entries', r) = RecoveriesOf(entries, r)
          \cup (IF q = r /\ IsRecovery(entries, q) THEN {Len(entries) + 1} ELSE {})
    BY <2>1, AppendStart DEF TypeOK
  <2>3. Bounded(entries, r)
    BY DEF RecoveryBounded
  <2>4. CASE q = r /\ IsRecovery(entries, q)
    <3>1. RecoveriesOf(entries', r) = RecoveriesOf(entries, r) \cup {Len(entries) + 1}
      BY <2>2, <2>4
    <3>2. /\ IsFiniteSet(RecoveriesOf(entries, r))
          /\ Cardinality(RecoveriesOf(entries, r)) \in Nat
          /\ Len(entries) + 1 \notin RecoveriesOf(entries, r)
      BY IndexSetsFinite, FS_CardinalityType DEF TypeOK
    <3>3. Cardinality(RecoveriesOf(entries', r)) = Cardinality(RecoveriesOf(entries, r)) + 1
      BY <3>1, <3>2, FS_AddElement
    <3>4. Cardinality(RecoveriesOf(entries, r)) < MaxRecovery
      BY <1>1, <2>4, AdmitsMeans DEF Admit, RecoveryLeft
    <3>5. Phase[r] \in RecoveryPhases
      BY <1>1, <2>4, AdmitsMeans DEF Admit, NoReplay, Allowed
    <3>6. QED
      BY <3>2, <3>3, <3>4, <3>5, LedgerAssumption
  <2>5. CASE ~(q = r /\ IsRecovery(entries, q))
    <3>1. RecoveriesOf(entries', r) = RecoveriesOf(entries, r)
      BY <2>2, <2>5
    <3>2. QED
      BY <2>3, <3>1
  <2>6. QED
    BY <2>4, <2>5
<1>2. ASSUME NEW outcome \in {"completed", "failed"}, Answer(outcome), NEW r \in Requests
      PROVE  Bounded(entries', r)
  <2> DEFINE e == EndReceipt(InFlight, outcome)
  <2>1. e \in Receipt /\ e.status # "started" /\ entries' = Append(entries, e)
    BY <1>2, EndReceiptType DEF Answer
  <2> HIDE DEF e
  <2>2. RecoveriesOf(entries', r) = RecoveriesOf(entries, r)
    BY <2>1, AppendEnd DEF TypeOK
  <2>3. QED
    BY <2>2 DEF RecoveryBounded
<1>3. CASE UNCHANGED entries
  BY <1>3 DEF RecoveryBounded, RecoveriesOf, StartsOf
<1>4. QED
  BY <1>1, <1>2, <1>3, StepCases DEF vars, RecoveryBounded

\* Nothing is recovered in the beginning.
LEMMA RecoveryBoundedInit == Init => RecoveryBounded
<1> SUFFICES ASSUME Init, NEW r \in Requests
             PROVE  /\ Cardinality(RecoveriesOf(entries, r)) <= MaxRecovery
                    /\ RecoveriesOf(entries, r) # {} => Phase[r] \in RecoveryPhases
  BY DEF RecoveryBounded
<1>1. RecoveriesOf(entries, r) = {}
  BY DEF Init, RecoveriesOf, StartsOf
<1>2. Cardinality(RecoveriesOf(entries, r)) = 0
  BY <1>1, FS_EmptySet
<1>3. QED
  BY <1>1, <1>2, LedgerAssumption

\* No fingerprint is recovered more often than the limit, and none but a probe.
THEOREM RecoveryNeverExceeded == Spec => []RecoveryBounded
<1>1. Init => TypeOK /\ CallInv /\ RecoveryBounded
  BY TypeInit, RecoveryBoundedInit
<1>2. TypeOK /\ CallInv /\ RecoveryBounded /\ [Next]_vars
        => TypeOK' /\ CallInv' /\ RecoveryBounded'
  BY TypeStep, RecoveryBoundedStep
<1>3. QED
  BY <1>1, <1>2, PTL DEF Spec

-----------------------------------------------------------------------------
(***************************************************************************)
(* Attempts and replays.                                                   *)
(***************************************************************************)

\* Of two starts of one request the later line has the higher attempt.
LEMMA AttemptsIncrease ==
  ASSUME TypeOK, StartsNumbered, NEW r,
         NEW i \in StartsOf(entries, r), NEW j \in StartsOf(entries, r), i < j
  PROVE  entries[i].attempt < entries[j].attempt
<1> DEFINE before(k) == {l \in StartsOf(entries, r) : l < k}
<1>1. IsFiniteSet(StartsOf(entries, r)) /\ StartsOf(entries, r) \subseteq 1..Len(entries)
  BY IndexSetsFinite DEF TypeOK
<1>2. IsFiniteSet(before(i)) /\ IsFiniteSet(before(j))
  BY <1>1, FS_Subset
<1>3. Cardinality(before(i) \cup {i}) = Cardinality(before(i)) + 1
  <2>1. i \notin before(i)
    BY <1>1
  <2> HIDE DEF before
  <2>2. QED
    BY <1>2, <2>1, FS_AddElement
<1>4. before(i) \cup {i} \subseteq before(j)
  BY <1>1
<1>5. Cardinality(before(i) \cup {i}) <= Cardinality(before(j))
  BY <1>2, <1>4, FS_Subset
<1>6. Cardinality(before(i)) \in Nat /\ Cardinality(before(j)) \in Nat
  BY <1>2, FS_CardinalityType
<1>7. /\ entries[i].attempt = 1 + Cardinality(before(i))
      /\ entries[j].attempt = 1 + Cardinality(before(j))
  BY DEF StartsNumbered, StartsOf
<1> HIDE DEF before
<1>8. QED
  BY <1>3, <1>5, <1>6, <1>7

\* A terminal receipt stands right after the start of its attempt.
LEMMA StartOfEnd ==
  ASSUME TypeOK, EndFollowsStart, NEW r, NEW i \in TerminalsOf(entries, r)
  PROVE  /\ i \in 1..Len(entries) /\ i - 1 \in StartsOf(entries, r)
         /\ entries[i].attempt = entries[i - 1].attempt
         /\ entries[i].status # "started"
<1>1. /\ i \in DOMAIN entries /\ entries[i].req = r /\ entries[i].status # "started"
      /\ DOMAIN entries = 1..Len(entries) /\ Len(entries) \in Nat
  BY DEF TerminalsOf, TypeOK
<1>2. /\ i > 1 /\ entries[i - 1].status = "started"
      /\ entries[i] = EndReceipt(entries[i - 1], entries[i].status)
  BY <1>1 DEF EndFollowsStart
<1>3. i - 1 \in DOMAIN entries /\ entries[i - 1] \in Receipt
  BY <1>1, <1>2, ElementOfSeq DEF TypeOK
<1>4. entries[i].req = entries[i - 1].req /\ entries[i].attempt = entries[i - 1].attempt
  BY <1>2, <1>3 DEF EndReceipt, Receipt
<1>5. QED
  BY <1>1, <1>2, <1>3, <1>4 DEF StartsOf

\* Of two terminal receipts of one request the later has the higher attempt.
LEMMA TerminalsIncrease ==
  ASSUME TypeOK, EndFollowsStart, StartsNumbered, NEW r,
         NEW i \in TerminalsOf(entries, r), NEW j \in TerminalsOf(entries, r), i < j
  PROVE  entries[i].attempt < entries[j].attempt
<1>1. /\ i \in Nat /\ j \in Nat
      /\ i - 1 \in StartsOf(entries, r) /\ j - 1 \in StartsOf(entries, r)
      /\ entries[i].attempt = entries[i - 1].attempt
      /\ entries[j].attempt = entries[j - 1].attempt
  BY StartOfEnd
<1>2. i - 1 < j - 1
  BY <1>1
<1>3. QED
  BY <1>1, <1>2, AttemptsIncrease

\* The receipts are in the order the code's lookups by attempt assume.
LEMMA LinearFromOrder ==
  TypeOK /\ EndFollowsStart /\ StartsNumbered => AttemptsLinear
<1> SUFFICES ASSUME TypeOK, EndFollowsStart, StartsNumbered, NEW j \in DOMAIN entries
             PROVE  LET e == entries[j]
                        earlier == {i \in StartsOf(entries, e.req) : i < j}
                    IN  IF e.status = "started"
                        THEN e.attempt = 1 + Cardinality(earlier)
                        ELSE /\ \E i \in earlier : entries[i].attempt = e.attempt
                             /\ \A i \in TerminalsOf(entries, e.req) :
                                  entries[i].attempt = e.attempt => i = j
  BY DEF AttemptsLinear
<1>1. CASE entries[j].status = "started"
  BY <1>1 DEF StartsNumbered
<1>2. CASE entries[j].status # "started"
  <2> DEFINE r == entries[j].req
  <2>1. j \in TerminalsOf(entries, r)
    <3>1. entries[j] \in Receipt
      BY ElementOfSeq, LenProperties DEF TypeOK
    <3>2. QED
      BY <1>2, <3>1 DEF TerminalsOf, Receipt
  <2> HIDE DEF r
  <2>2. j - 1 \in StartsOf(entries, r) /\ j - 1 < j /\ entries[j - 1].attempt = entries[j].attempt
    BY <2>1, StartOfEnd
  <2>3. ASSUME NEW i \in TerminalsOf(entries, r), entries[i].attempt = entries[j].attempt
        PROVE  i = j
    <3>1. /\ i \in Nat /\ j \in Nat
          /\ i - 1 \in StartsOf(entries, r) /\ entries[i - 1].attempt = entries[i].attempt
      BY <2>1, StartOfEnd
    <3>2. entries[j].attempt \in Nat /\ entries[i].attempt \in Nat
      <4>1. ASSUME NEW k \in TerminalsOf(entries, r)
            PROVE  entries[k].attempt \in Nat
        <5>1. k \in 1..Len(entries)
          BY StartOfEnd
        <5>2. entries[k] \in Receipt
          BY <5>1, ElementOfSeq DEF TypeOK
        <5>3. QED
          BY <5>2 DEF Receipt
      <4>2. QED
        BY <2>1, <4>1
    <3>3. ~(i < j) /\ ~(j < i)
      BY <2>1, <2>3, <3>2, TerminalsIncrease
    <3>4. QED
      BY <3>1, <3>3
  <2>4. QED
    BY <1>2, <2>2, <2>3 DEF r
<1>3. QED
  BY <1>1, <1>2
\* LatestStatus is the status of a terminal receipt that no other exceeds in
\* attempt_count: the maximum _latest_terminal takes exists.
LEMMA LatestIsMaximal ==
  ASSUME TypeOK, EndFollowsStart, StartsNumbered, NEW r, TerminalsOf(entries, r) # {}
  PROVE  \E m \in TerminalsOf(entries, r) :
           /\ \A j \in TerminalsOf(entries, r) : entries[j].attempt <= entries[m].attempt
           /\ LatestStatus(entries, r) = entries[m].status
<1> DEFINE T == TerminalsOf(entries, r)
           maximal(m) == \A j \in T : entries[j].attempt <= entries[m].attempt
<1>1. T \subseteq 1..Len(entries) /\ Len(entries) \in Nat
  BY IndexSetsFinite DEF TypeOK
<1>2. PICK m \in T : \A j \in T : j <= m
  BY <1>1, LastLine
<1>3. \A j \in T : entries[j].attempt \in Nat
  <2> SUFFICES ASSUME NEW j \in T PROVE entries[j].attempt \in Nat
    OBVIOUS
  <2>1. entries[j] \in Receipt
    BY <1>1, ElementOfSeq DEF TypeOK
  <2>2. QED
    BY <2>1 DEF Receipt
<1>4. maximal(m)
  <2> SUFFICES ASSUME NEW j \in T PROVE entries[j].attempt <= entries[m].attempt
    OBVIOUS
  <2>1. j = m \/ j < m
    BY <1>1, <1>2
  <2>2. CASE j = m
    BY <1>3, <2>2
  <2>3. CASE j < m
    <3>1. entries[j].attempt < entries[m].attempt
      BY <2>3, TerminalsIncrease
    <3>2. QED
      BY <1>3, <3>1
  <2>4. QED
    BY <2>1, <2>2, <2>3
<1>5. LatestStatus(entries, r) = entries[CHOOSE i \in T : maximal(i)].status
  BY DEF LatestStatus
<1>6. (CHOOSE i \in T : maximal(i)) \in T /\ maximal(CHOOSE i \in T : maximal(i))
  <2> HIDE DEF maximal, T
  <2> QED
    BY <1>4
<1>7. QED
  BY <1>5, <1>6

\* A request whose latest terminal receipt is completed starts again only as a
\* recovery, and the latest by attempt number is the last in the file.
LEMMA ReplayStep ==
  /\ TypeOK /\ CallInv /\ EndFollowsStart /\ StartsNumbered
  /\ ReplayBeginsWithRecovery /\ [Next]_vars
  => ReplayBeginsWithRecovery'
<1> SUFFICES ASSUME TypeOK, CallInv, EndFollowsStart, StartsNumbered,
                    ReplayBeginsWithRecovery, [Next]_vars
             PROVE  ReplayBeginsWithRecovery'
  OBVIOUS
<1> DEFINE n == Len(entries) + 1
           Recovered(log, r, i, j) ==
             i < j /\ log[i].status = "completed"
               => \E k \in RecoveriesOf(log, r) : i < k /\ k <= j
<1>1. Len(entries) \in Nat /\ DOMAIN entries = 1..Len(entries)
  BY DEF TypeOK
<1>2. ASSUME NEW q \in Requests, Admit(q), NEW r \in Requests,
             NEW j \in StartsOf(entries', r), NEW i \in TerminalsOf(entries', r),
             i < j, entries'[i].status = "completed"
      PROVE  \E k \in RecoveriesOf(entries', r) : i < k /\ k <= j
  <2> DEFINE e == NewReceipt(q)
  <2>1. /\ e \in Receipt /\ e.req = q /\ e.status = "started"
        /\ e.recovery = IsRecovery(entries, q) /\ entries' = Append(entries, e)
    BY <1>2, NewReceiptType DEF Admit
  <2> HIDE DEF e
  <2>2. /\ TerminalsOf(entries', r) = TerminalsOf(entries, r)
        /\ StartsOf(entries', r) = StartsOf(entries, r) \cup (IF q = r THEN {n} ELSE {})
        /\ RecoveriesOf(entries', r) = RecoveriesOf(entries, r)
             \cup (IF q = r /\ IsRecovery(entries, q) THEN {n} ELSE {})
    BY <2>1, AppendStart DEF TypeOK
  <2>3. /\ i \in TerminalsOf(entries, r) /\ i \in 1..Len(entries)
        /\ entries[i].status = "completed"
    <3>1. i \in TerminalsOf(entries, r) /\ i \in 1..Len(entries)
      BY <2>2, IndexSetsFinite DEF TypeOK
    <3>2. entries'[i] = entries[i]
      BY <2>1, <3>1, AppendedLines DEF TypeOK
    <3>3. QED
      BY <1>2, <3>1, <3>2
  <2>4. CASE j \in StartsOf(entries, r)
    <3>1. \E k \in RecoveriesOf(entries, r) : i < k /\ k <= j
      BY <1>2, <2>3, <2>4 DEF ReplayBeginsWithRecovery
    <3>2. QED
      BY <2>2, <3>1
  <2>5. CASE j = n /\ q = r /\ IsRecovery(entries, q)
    BY <1>1, <2>2, <2>3, <2>5
  <2>6. CASE j = n /\ q = r /\ ~IsRecovery(entries, q)
    <3>1. PICK m \in TerminalsOf(entries, r) :
            /\ \A l \in TerminalsOf(entries, r) : entries[l].attempt <= entries[m].attempt
            /\ LatestStatus(entries, r) = entries[m].status
      BY <2>3, LatestIsMaximal
    <3>2. entries[m].status # "completed"
      BY <2>6, <3>1 DEF IsRecovery
    <3>3. m \in 1..Len(entries) /\ m - 1 \in StartsOf(entries, r)
      BY <3>1, StartOfEnd
    <3>4. i < m
      <4>1. i # m
        BY <2>3, <3>2
      <4>2. entries[i].attempt \in Nat /\ entries[m].attempt \in Nat
        <5>1. entries[i] \in Receipt /\ entries[m] \in Receipt
          BY <2>3, <3>3, ElementOfSeq DEF TypeOK
        <5>2. QED
          BY <5>1 DEF Receipt
      <4>3. entries[i].attempt <= entries[m].attempt
        BY <2>3, <3>1
      <4>4. m < i => entries[m].attempt < entries[i].attempt
        BY <2>3, <3>1, TerminalsIncrease
      <4>5. ~(m < i)
        BY <4>2, <4>3, <4>4
      <4>6. QED
        BY <2>3, <3>3, <4>1, <4>5
    <3>5. i < m - 1
      <4>1. entries[m - 1].status = "started"
        BY <3>3 DEF StartsOf
      <4>2. i # m - 1
        BY <2>3, <4>1
      <4>3. QED
        BY <2>3, <3>3, <3>4, <4>2
    <3>6. PICK k \in RecoveriesOf(entries, r) : i < k /\ k <= m - 1
      BY <2>3, <3>3, <3>5 DEF ReplayBeginsWithRecovery
    <3>7. k \in 1..Len(entries) /\ k \in RecoveriesOf(entries', r)
      BY <2>2, <3>6, IndexSetsFinite DEF TypeOK
    <3>8. k <= j
      BY <1>1, <2>6, <3>7
    <3>9. QED
      BY <3>6, <3>7, <3>8
  <2>7. QED
    BY <1>2, <2>2, <2>4, <2>5, <2>6
<1>3. ASSUME NEW outcome \in {"completed", "failed"}, Answer(outcome), NEW r \in Requests,
             NEW j \in StartsOf(entries', r), NEW i \in TerminalsOf(entries', r),
             i < j, entries'[i].status = "completed"
      PROVE  \E k \in RecoveriesOf(entries', r) : i < k /\ k <= j
  <2> DEFINE e == EndReceipt(InFlight, outcome)
  <2>1. e \in Receipt /\ e.status # "started" /\ entries' = Append(entries, e)
    BY <1>3, EndReceiptType DEF Answer
  <2> HIDE DEF e
  <2>2. /\ StartsOf(entries', r) = StartsOf(entries, r)
        /\ TerminalsOf(entries', r)
             = TerminalsOf(entries, r) \cup (IF e.req = r THEN {n} ELSE {})
        /\ RecoveriesOf(entries', r) = RecoveriesOf(entries, r)
    BY <2>1, AppendEnd DEF TypeOK
  <2>3. j \in 1..Len(entries)
    BY <2>2, IndexSetsFinite DEF TypeOK
  <2>4. i # n
    BY <1>1, <1>3, <2>3
  <2>5. i \in TerminalsOf(entries, r) /\ i \in 1..Len(entries)
    BY <2>2, <2>4, IndexSetsFinite DEF TypeOK
  <2>6. entries[i].status = "completed"
    BY <1>3, <2>1, <2>5, AppendedLines DEF TypeOK
  <2>7. QED
    BY <1>3, <2>2, <2>5, <2>6 DEF ReplayBeginsWithRecovery
<1>4. CASE UNCHANGED entries
  BY <1>4 DEF ReplayBeginsWithRecovery, RecoveriesOf, StartsOf, TerminalsOf
<1>5. QED
  BY <1>2, <1>3, <1>4, StepCases DEF vars, ReplayBeginsWithRecovery

\* Of an empty file everything said of the order of receipts holds.
LEMMA OrderInit ==
  Init => EndFollowsStart /\ StartsNumbered /\ ReplayBeginsWithRecovery
BY DEF Init, EndFollowsStart, StartsNumbered, ReplayBeginsWithRecovery, StartsOf, TerminalsOf

\* Attempts are numbered in file order and each has at most one terminal receipt.
THEOREM AttemptsAlwaysLinear == Spec => []AttemptsLinear
<1>1. Init => TypeOK /\ CallInv /\ EndFollowsStart /\ StartsNumbered
  BY TypeInit, OrderInit
<1>2. TypeOK /\ CallInv /\ EndFollowsStart /\ StartsNumbered /\ [Next]_vars
        => TypeOK' /\ CallInv' /\ EndFollowsStart' /\ StartsNumbered'
  BY TypeStep, EndFollowsStartStep, StartsNumberedStep
<1>3. TypeOK /\ EndFollowsStart /\ StartsNumbered => AttemptsLinear
  BY LinearFromOrder
<1>4. QED
  BY <1>1, <1>2, <1>3, PTL DEF Spec

\* A completed request is started again only from a tagged recovery on.
THEOREM ReplayAlwaysBeginsWithRecovery == Spec => []ReplayBeginsWithRecovery
<1> DEFINE I == /\ TypeOK /\ CallInv /\ EndFollowsStart /\ StartsNumbered
                /\ ReplayBeginsWithRecovery
<1>1. Init => I
  BY TypeInit, OrderInit
<1>2. I /\ [Next]_vars => I'
  BY TypeStep, EndFollowsStartStep, StartsNumberedStep, ReplayStep
<1>3. I => ReplayBeginsWithRecovery
  OBVIOUS
<1> HIDE DEF I
<1>4. QED
  BY <1>1, <1>2, <1>3, PTL DEF Spec

-----------------------------------------------------------------------------

(* Each step of a call over the wire is a step of the ledger's provider or   *)
(* changes nothing of the ledger.                                            *)
LEMMA RetryStepIsLedgerStep == [RetryNext]_retryVars => [Next]_vars
<1>1. \A outcome \in {"completed", "failed"} : Ends(outcome) => Next
  BY DEF Ends, Next
<1>2. Outside => Next
  BY DEF Outside, Next
<1>3. CallStep => [Next]_vars
  <2>1. Call => Next
    BY DEF Call, Next
  <2>2. Post \/ TryAgain => UNCHANGED vars
    BY DEF Post, TryAgain
  <2>3. GiveUp \/ Parse => Next
    BY <1>1 DEF GiveUp, Parse
  <2>4. QED  BY <2>1, <2>2, <2>3 DEF CallStep
<1>4. Unready \/ Dies => Next
  BY <1>1 DEF Unready, Dies, Next
<1>5. UNCHANGED retryVars => UNCHANGED vars
  BY DEF retryVars
<1>6. QED  BY <1>2, <1>3, <1>4, <1>5 DEF RetryNext

(* What is proved of RequestLedger holds with the retries of the provider    *)
(* under it: for any number of retries, the ledger takes its steps.          *)
THEOREM LedgerUnderRetries == RetrySpec => Spec
<1>1. RetryInit => Init
  BY DEF RetryInit
<1>2. QED  BY <1>1, RetryStepIsLedgerStep, PTL DEF RetrySpec, Spec

-----------------------------------------------------------------------------
(***************************************************************************)
(* The one-shot gates.                                                     *)
(***************************************************************************)

(* What a gate rests on. *)
Founded(g) ==
  /\ g = "q1" => receipt["v1"] # NoReceipt
  /\ g = "q2" => receipt["v4"] # NoReceipt
  /\ g = "b3" => receipt["q2"].status = "passed"

(* What is known of a launch from where it is. *)
LaunchOK(l) ==
  /\ l.at = "inflight" /\ l.gate \in Quals => l.done < Cases
  /\ l.gate \in Compat => l.ok
  /\ l.at # "idle" => l.id > 0
  /\ l.at \in {"started", "looked", "frozen", "holding"} => l.calls = 0
  /\ l.at \in Holding => claim[l.gate]
  /\ l.at \in Holding /\ sent[l.gate] > l.calls => receipt[l.gate].status = "passed"
  /\ l.at = "releasing" => receipt[l.gate].status = "passed" /\ receipt[l.gate].by = l.id
  /\ l.at \in {"audits", "rechecking", "linking"} /\ l.gate \in Quals => output[l.gate].made
  /\ l.at \notin {"idle", "started", "looked"} => Founded(l.gate)

(* The gate of a launch has passed in one that began before it. *)
PassedBefore(l) ==
  receipt[l.gate].status = "passed" /\ 0 < receipt[l.gate].by /\ receipt[l.gate].by < l.id

(* A launch that began after a request of its gate was sent: the gate has    *)
(* passed since, or the launch is between its looks and the claim stands,    *)
(* held by nobody or by an earlier launch that has sent its request.         *)
LateOK(l) ==
  l.at # "idle" /\ ~l.early =>
    \/ PassedBefore(l)
    \/ /\ l.at = "started" /\ claim[l.gate]
       /\ \A q \in Launchers : Holds(q, l.gate) => proc[q].calls > 0 /\ proc[q].id < l.id

(* What is known of the order in which launches began. *)
InOrder == \A p \in Launchers : proc[p].id <= launches /\ LateOK(proc[p])

(* At most one launch holds the claim of a gate. *)
HolderAlone ==
  \A p, q \in Launchers :
    proc[p].at \in Holding /\ proc[q].at \in Holding /\ proc[p].gate = proc[q].gate => p = q

(* What is known of a gate. *)
GateOK(g) ==
  /\ sent[g] > 0 => claim[g] \/ receipt[g].status = "passed"
  /\ sent[g] > 0 => Founded(g)
  /\ g \in Quals /\ receipt[g] # NoReceipt => output[g].made

(* The inductive invariant. *)
GateInv ==
  /\ GateTypeOK
  /\ \A p \in Launchers : LaunchOK(proc[p])
  /\ HolderAlone
  /\ InOrder
  /\ \A g \in Gates : GateOK(g)

(* The same launch, which may have sent more. *)
Continues(p, l) ==
  /\ l.gate = proc[p].gate /\ l.id = proc[p].id /\ l.early = proc[p].early
  /\ proc[p].calls <= l.calls

-----------------------------------------------------------------------------
(* A launch that ends, and the ranges its fields keep.                       *)
LEMMA NobodyOK ==
  /\ Nobody \in Launch /\ LaunchOK(Nobody) /\ LateOK(Nobody)
  /\ Nobody.at = "idle" /\ Nobody.id = 0
BY GateAssumption DEF Nobody, Launch, LaunchOK, LateOK, NoBinding, Bindings, Steps, Gates,
                      Compat, Quals, Holding, FileStates

LEMMA ParentIsGate == \A g \in Quals : ParentOf(g) \in Gates
BY DEF Quals, ParentOf, Gates, Compat

LEMMA BindingType ==
  ASSUME GateTypeOK, NEW g \in Gates
  PROVE  BindingOf(g) \in Bindings
<1>1. \A h \in Gates : receipt[h].by \in Nat BY DEF GateTypeOK, Receipts
<1>2. CASE g \in Quals BY <1>1, <1>2, ParentIsGate DEF GateTypeOK, BindingOf, Bindings
<1>3. CASE g \notin Quals BY <1>3 DEF GateTypeOK, BindingOf, Bindings
<1> QED BY <1>2, <1>3

LEMMA ProcType ==
  ASSUME GateTypeOK, NEW p \in Launchers
  PROVE  /\ proc[p] \in Launch /\ proc[p].at \in Steps /\ proc[p].gate \in Gates
         /\ proc[p].id \in Nat /\ proc[p].bound \in Bindings /\ proc[p].calls \in Nat
         /\ proc[p].done \in 0..Cases /\ proc[p].ok \in BOOLEAN /\ proc[p].early \in BOOLEAN
BY DEF GateTypeOK, Launch

(* The order of launches over any step of one of them: a pass is for good,   *)
(* who becomes a holder finds the claim free, and a claim is given up by its *)
(* holder, which has passed or has sent nothing.                             *)
LEMMA InOrderStep ==
  ASSUME GateInv, NEW p \in Launchers, NEW l \in Launch,
         proc' = [proc EXCEPT ![p] = l],
         launches' \in Nat, launches <= launches', l.id <= launches', LateOK(l),
         \A g \in Gates : receipt[g].status = "passed" => receipt'[g] = receipt[g],
         l.at \in Holding =>
           \/ proc[p].at \in Holding /\ Continues(p, l)
           \/ ~claim[l.gate],
         \A g \in Gates : claim[g] /\ ~claim'[g] =>
           /\ Holds(p, g)
           /\ proc[p].at = "releasing" \/ proc[p].calls = 0
  PROVE  InOrder'
<1> SUFFICES ASSUME NEW q \in Launchers PROVE (proc[q].id <= launches /\ LateOK(proc[q]))'
  BY DEF InOrder
<1>1. \A r \in Launchers : proc'[r] = IF r = p THEN l ELSE proc[r]
  BY DEF GateInv, GateTypeOK
<1>2. PICK m \in Launch : m = proc'[q]
  BY <1>1, ProcType DEF GateInv
<1> DEFINE g == m.gate
<1>3. g \in Gates /\ m.id \in Nat /\ launches \in Nat
  BY DEF GateInv, GateTypeOK, Launch
<1>4. LateOK(m) /\ m.id <= launches'
  <2>1. CASE q = p BY <1>2, <1>1, <2>1
  <2>2. CASE q # p
    <3>1. LateOK(proc[q]) /\ proc[q].id <= launches BY DEF GateInv, InOrder
    <3> QED BY <1>2, <1>1, <1>3, <2>2, <3>1
  <2> QED BY <2>1, <2>2
<1>5. PassedBefore(m) => PassedBefore(m)'
  BY <1>3 DEF PassedBefore
<1>6. ASSUME m.at # "idle", ~m.early, ~PassedBefore(m)
      PROVE  LateOK(m)'
  <2>1. /\ m.at = "started" /\ claim[g]
        /\ \A r \in Launchers : Holds(r, g) => proc[r].calls > 0 /\ proc[r].id < m.id
    BY <1>4, <1>6 DEF LateOK
  <2>2. claim'[g]
    <3> SUFFICES ASSUME ~claim'[g] PROVE FALSE
      OBVIOUS
    <3>1. Holds(p, g) /\ (proc[p].at = "releasing" \/ proc[p].calls = 0)
      BY <1>3, <2>1
    <3>2. proc[p].calls > 0 /\ proc[p].id < m.id /\ proc[p].calls \in Nat
      BY <2>1, <3>1, ProcType DEF GateInv
    <3>3. proc[p].at = "releasing" /\ proc[p].gate = g BY <3>1, <3>2 DEF Holds
    <3>4. receipt[g].status = "passed" /\ receipt[g].by = proc[p].id /\ proc[p].id > 0
      BY <3>3 DEF GateInv, LaunchOK
    <3> QED BY <1>6, <3>2, <3>4 DEF PassedBefore
  <2>3. ASSUME NEW r \in Launchers, Holds(r, g)'
        PROVE  proc'[r].calls > 0 /\ proc'[r].id < m.id
    <3>1. CASE r # p BY <1>1, <2>1, <2>3, <3>1 DEF Holds
    <3>2. CASE r = p
      <4>1. l.at \in Holding /\ l.gate = g /\ proc'[r] = l BY <1>1, <2>3, <3>2 DEF Holds
      <4>2. proc[p].at \in Holding /\ Continues(p, l) BY <2>1, <4>1
      <4>3. Holds(p, g) BY <4>1, <4>2 DEF Holds, Continues
      <4>4. proc[p].calls \in Nat /\ l.calls \in Nat BY ProcType DEF GateInv, Launch
      <4> QED BY <2>1, <4>1, <4>2, <4>3, <4>4 DEF Continues
    <3> QED BY <3>1, <3>2
  <2> QED BY <2>1, <2>2, <2>3 DEF LateOK
<1>7. m.at # "idle" /\ ~m.early => PassedBefore(m)' \/ LateOK(m)'
  BY <1>5, <1>6
<1>8. LateOK(m)' BY <1>7 DEF LateOK
<1>9. LateOK(proc[q])' BY <1>2, <1>8 DEF LateOK, PassedBefore
<1> QED BY <1>2, <1>4, <1>9

(* The steps of a launch that leave claims, receipts, outputs and requests   *)
(* alone, and do not make it a holder.                                       *)
LEMMA QuietStep ==
  ASSUME GateInv, NEW p \in Launchers, NEW l \in Launch,
         proc' = [proc EXCEPT ![p] = l],
         UNCHANGED <<claim, receipt, output, sent>>,
         GateTypeOK', launches <= launches',
         LaunchOK(l), LateOK(l), l.id <= launches',
         l.at \in Holding => proc[p].at \in Holding /\ Continues(p, l)
  PROVE  GateInv'
<1>1. \A q \in Launchers : proc'[q] = IF q = p THEN l ELSE proc[q]
  BY DEF GateInv, GateTypeOK
<1>2. ASSUME NEW q \in Launchers PROVE LaunchOK(proc[q])'
  <2>1. LaunchOK(proc[q]) BY DEF GateInv
  <2>2. CASE q = p BY <1>1, <2>2 DEF LaunchOK, Founded
  <2>3. CASE q # p BY <1>1, <2>1, <2>3 DEF LaunchOK, Founded
  <2> QED BY <2>2, <2>3
<1>3. HolderAlone' BY <1>1 DEF GateInv, HolderAlone, Continues
<1>4. (\A g \in Gates : GateOK(g))' BY DEF GateInv, GateOK, Founded
<1>5. InOrder'
  <2>1. launches' \in Nat BY DEF GateTypeOK
  <2> QED BY <2>1, InOrderStep
<1> QED BY <1>2, <1>3, <1>4, <1>5 DEF GateInv

(* A launch that goes on from beyond its looks is as late as it was.         *)
LEMMA LateOn ==
  ASSUME GateInv, NEW p \in Launchers, NEW l \in Launch,
         proc[p].at \notin {"idle", "started"}, Continues(p, l)
  PROVE  LateOK(l) /\ l.id <= launches
BY DEF GateInv, InOrder, LateOK, PassedBefore, Continues

(* A launch frozen over the bindings of a gate has what the gate rests on.   *)
LEMMA FreezesFounded ==
  ASSUME GateTypeOK, NEW g \in Gates, NEW strict, Freezes(g, strict)
  PROVE  Founded(g)
<1>1. CASE g = "q1"
  BY <1>1 DEF Freezes, Q1Freezes, V1Loads, Bound, Founded
<1>2. CASE g = "q2"
  BY <1>2 DEF Freezes, Q2Freezes, V4Loads, Bound, Founded
<1>3. CASE g = "b3"
  BY <1>3 DEF Freezes, B3Freezes, Founded
<1> QED BY <1>1, <1>2, <1>3 DEF Founded

(* A claim given back by the launch that holds it.                           *)
LEMMA GiveBackStep ==
  ASSUME GateInv, NEW p \in Launchers,
         proc[p].at \in Holding,
         proc[p].at = "releasing" \/ proc[p].calls = 0,
         DropClaim(proc[p].gate), Leave(p),
         UNCHANGED <<files, receipt, output, sent, Counters>>
  PROVE  GateInv'
<1> DEFINE g == proc[p].gate
<1>0. g \in Gates BY ProcType DEF GateInv
<1>1. \A q \in Launchers : proc'[q] = IF q = p THEN Nobody ELSE proc[q]
  BY DEF Leave, GateInv, GateTypeOK
<1>2. \A h \in Gates : claim'[h] = IF h = g THEN FALSE ELSE claim[h]
  BY DEF DropClaim, GateInv, GateTypeOK
<1>3. sent[g] > 0 => receipt[g].status = "passed"
  BY DEF GateInv, LaunchOK
<1>4. GateTypeOK'
  BY NobodyOK DEF GateInv, GateTypeOK, Leave, DropClaim, Counters
<1>5. InOrder'
  <2>1. launches \in Nat /\ launches' = launches BY DEF GateInv, GateTypeOK, Counters
  <2>2. launches <= launches' /\ Nobody.id <= launches' BY <2>1, NobodyOK
  <2>3. \A h \in Gates : claim[h] /\ ~claim'[h] => Holds(p, h) BY <1>2 DEF Holds
  <2> QED BY <2>1, <2>2, <2>3, NobodyOK, InOrderStep DEF Leave, Holding, Counters
<1>6. ASSUME NEW q \in Launchers PROVE LaunchOK(proc[q])'
  <2>1. CASE q = p BY <1>1, <2>1, NobodyOK DEF LaunchOK, Nobody, Holding
  <2>2. CASE q # p
    <3>1. LaunchOK(proc[q]) /\ proc[q].gate \in Gates BY ProcType DEF GateInv
    <3>2. proc[q].at \in Holding => proc[q].gate # g BY <2>2 DEF GateInv, HolderAlone
    <3> QED BY <1>1, <1>2, <2>2, <3>1, <3>2 DEF LaunchOK, Founded
  <2> QED BY <2>1, <2>2
<1>7. HolderAlone' BY <1>1 DEF GateInv, HolderAlone, Nobody, Holding
<1>8. ASSUME NEW h \in Gates PROVE GateOK(h)'
  BY <1>2, <1>3 DEF GateInv, GateOK, Founded
<1> QED BY <1>4, <1>6, <1>7, <1>8, <1>5 DEF GateInv

(* A step of a launch that only moves it on.                                 *)
LEMMA MoveStep ==
  ASSUME GateInv, NEW p \in Launchers, NEW l \in Launch,
         proc' = [proc EXCEPT ![p] = l], LaunchOK(l),
         LateOK(l), l.id <= launches,
         UNCHANGED <<files, claim, receipt, output, sent, Counters>>,
         l.at \in Holding => proc[p].at \in Holding /\ Continues(p, l)
  PROVE  GateInv'
<1>1. GateTypeOK' BY DEF GateInv, GateTypeOK, Counters
<1>2. launches \in Nat /\ launches' = launches BY DEF GateInv, GateTypeOK, Counters
<1>3. launches <= launches' /\ l.id <= launches' BY <1>2
<1> QED BY <1>1, <1>3, QuietStep

LEMMA LeaveStep ==
  ASSUME GateInv, NEW p \in Launchers, Leave(p),
         UNCHANGED <<files, claim, receipt, output, sent, Counters>>
  PROVE  GateInv'
<1>1. Nobody.id <= launches BY NobodyOK DEF GateInv, GateTypeOK
<1> QED BY <1>1, NobodyOK, MoveStep DEF Leave, Holding

-----------------------------------------------------------------------------
LEMMA LookForResultStep ==
  ASSUME GateInv, NEW p \in Launchers, NEW g \in Gates, LookForResult(p, g)
  PROVE  GateInv'
<1> DEFINE l == [Nobody EXCEPT !.at = "started", !.gate = g, !.id = launches + 1,
                               !.early = (sent[g] = 0)]
<1>1. launches + 1 \in 0..MaxLaunches /\ launches + 1 \in Nat /\ launches \in Nat
  BY GateAssumption DEF LookForResult, GateInv, GateTypeOK
<1>2. l \in Launch
  BY <1>1, NobodyOK DEF Launch, Nobody, Steps
<1>3. /\ l.at = "started" /\ l.gate = g /\ l.id = launches + 1 /\ l.early = (sent[g] = 0)
      /\ l.calls = 0 /\ l.ok /\ l.at \notin Holding
  BY DEF Nobody, Holding
<1> HIDE DEF l
<1>4. receipt[g].status # "passed"
  <2>1. GateOK(g) /\ NoReceipt.status # "passed" BY DEF GateInv, NoReceipt
  <2>2. CASE g \in Compat BY <2>1, <2>2 DEF LookForResult
  <2>3. CASE g \in Quals
    <3>1. output[g] = NoOutput BY <2>3 DEF LookForResult, Quals, Compat
    <3> QED BY <2>1, <2>3, <3>1 DEF GateOK, NoOutput
  <2> QED BY <2>2, <2>3 DEF Gates
<1>5. LaunchOK(l) BY <1>1, <1>3 DEF LaunchOK
<1>6. LateOK(l)
  <2> SUFFICES ASSUME sent[g] # 0
               PROVE  /\ claim[g]
                      /\ \A q \in Launchers : Holds(q, g) =>
                           proc[q].calls > 0 /\ proc[q].id < launches + 1
    BY <1>3 DEF LateOK
  <2>1. sent[g] \in Nat /\ sent[g] > 0 BY DEF GateInv, GateTypeOK
  <2>2. claim[g] BY <1>4, <2>1 DEF GateInv, GateOK
  <2>3. ASSUME NEW q \in Launchers, Holds(q, g)
        PROVE  proc[q].calls > 0 /\ proc[q].id < launches + 1
    <3>1. proc[q].calls \in Nat /\ proc[q].id \in Nat /\ proc[q].id <= launches
      BY ProcType DEF GateInv, InOrder
    <3>2. ~(sent[g] > proc[q].calls)
      BY <1>4, <2>3 DEF GateInv, LaunchOK, Holds
    <3> QED BY <1>1, <2>1, <3>1, <3>2
  <2> QED BY <2>2, <2>3
<1>7. launches' = launches + 1 /\ launches <= launches' /\ l.id <= launches'
  BY <1>1, <1>3 DEF LookForResult
<1>8. proc' = [proc EXCEPT ![p] = l] BY DEF LookForResult, l
<1>9. GateTypeOK' BY <1>1, <1>2, <1>7, <1>8 DEF GateInv, GateTypeOK, LookForResult
<1> QED BY <1>2, <1>3, <1>5, <1>6, <1>7, <1>8, <1>9, QuietStep DEF LookForResult

(* The claim is gone although a request was sent: the gate has passed.       *)
LEMMA LookForClaimStep ==
  ASSUME GateInv, NEW p \in Launchers, LookForClaim(p)
  PROVE  GateInv'
<1> DEFINE l == [proc[p] EXCEPT !.at = "looked"]
<1>1. CASE claim[proc[p].gate]
  <2>1. Leave(p) BY <1>1 DEF LookForClaim
  <2> QED BY <2>1, LeaveStep DEF LookForClaim
<1>2. CASE ~claim[proc[p].gate]
  <2>1. l \in Launch BY ProcType DEF GateInv, Launch, Steps
  <2>2. /\ l.at = "looked" /\ l.gate = proc[p].gate /\ l.calls = proc[p].calls
        /\ l.early = proc[p].early /\ l.id = proc[p].id /\ l.ok = proc[p].ok
    BY ProcType DEF GateInv, Launch
  <2>3. proc' = [proc EXCEPT ![p] = l] BY <1>2 DEF LookForClaim, Go
  <2> HIDE DEF l
  <2>4. LaunchOK(proc[p]) /\ LateOK(proc[p]) /\ proc[p].id <= launches
    BY DEF GateInv, InOrder
  <2>5. LaunchOK(l) BY <2>2, <2>4 DEF LookForClaim, LaunchOK, Holding
  <2>6. LateOK(l) BY <1>2, <2>2, <2>4 DEF LookForClaim, LateOK, PassedBefore
  <2> QED BY <2>1, <2>2, <2>3, <2>4, <2>5, <2>6, MoveStep DEF LookForClaim, Holding
<1> QED BY <1>1, <1>2

LEMMA FreezeStep ==
  ASSUME GateInv, NEW p \in Launchers, Freeze(p)
  PROVE  GateInv'
<1> DEFINE g == proc[p].gate
           l == [proc[p] EXCEPT !.at = "frozen", !.bound = BindingOf(g)]
<1>0. g \in Gates BY ProcType DEF GateInv
<1>1. CASE Freezes(g, TRUE) /\ proc' = [proc EXCEPT ![p] = l]
  <2>1. l \in Launch BY <1>0, ProcType, BindingType DEF GateInv, Launch, Steps
  <2>2. LaunchOK(proc[p]) BY DEF GateInv
  <2>3. Founded(g) BY <1>0, <1>1, FreezesFounded DEF GateInv
  <2>4. /\ l.at = "frozen" /\ l.gate = g /\ l.calls = proc[p].calls /\ l.early = proc[p].early
        /\ l.id = proc[p].id /\ l.ok = proc[p].ok
    BY ProcType DEF GateInv, Launch
  <2>5. LaunchOK(l) BY <2>2, <2>3, <2>4 DEF LaunchOK, Freeze, Holding
  <2> HIDE DEF l
  <2>6. Continues(p, l) /\ l.at \notin Holding
    BY <2>4, ProcType DEF GateInv, Continues, Holding
  <2>7. LateOK(l) /\ l.id <= launches BY <2>1, <2>6, LateOn DEF Freeze
  <2> QED BY <1>1, <2>1, <2>5, <2>6, <2>7, MoveStep DEF Freeze
<1>2. CASE Leave(p) BY <1>2, LeaveStep DEF Freeze
<1> QED BY <1>1, <1>2 DEF Freeze

LEMMA AcquireStep ==
  ASSUME GateInv, NEW p \in Launchers, Acquire(p)
  PROVE  GateInv'
<1> DEFINE g == proc[p].gate
           l == [proc[p] EXCEPT !.at = "holding"]
<1>0. g \in Gates BY ProcType DEF GateInv
<1>1. CASE ~claim[g] /\ claim' = [claim EXCEPT ![g] = TRUE] /\ Go(p, "holding")
  <2>1. \A q \in Launchers : proc'[q] = IF q = p THEN l ELSE proc[q]
    BY <1>1 DEF Go, GateInv, GateTypeOK
  <2>2. \A h \in Gates : claim'[h] = IF h = g THEN TRUE ELSE claim[h]
    BY <1>0, <1>1 DEF GateInv, GateTypeOK
  <2>3. l \in Launch BY ProcType DEF GateInv, Launch, Steps
  <2>4. GateTypeOK'
    BY <1>1, <2>3 DEF Acquire, Go, GateInv, GateTypeOK, Counters
  <2>5. /\ proc'[p].at = "holding" /\ proc'[p].gate = g /\ proc'[p].calls = proc[p].calls
        /\ proc'[p].early = proc[p].early /\ proc'[p].id = proc[p].id
        /\ proc'[p].ok = proc[p].ok
    BY <2>1, ProcType DEF GateInv, Launch
  <2>6. GateOK(g) /\ LaunchOK(proc[p]) BY <1>0 DEF GateInv
  <2>7. InOrder'
    <3>1. proc' = [proc EXCEPT ![p] = l] BY <1>1 DEF Go
    <3>2. l.gate = g /\ Continues(p, l) BY <2>1, <2>5, ProcType DEF GateInv, Continues
    <3>3. LateOK(l) /\ l.id <= launches BY <2>3, <3>2, LateOn DEF Acquire
    <3>4. launches \in Nat /\ launches' = launches
      BY DEF Acquire, GateInv, GateTypeOK, Counters
    <3>5. launches <= launches' /\ l.id <= launches' BY <3>3, <3>4
    <3>6. \A h \in Gates : claim[h] => claim'[h] BY <2>2
    <3> HIDE DEF l
    <3> QED BY <1>1, <2>3, <3>1, <3>2, <3>3, <3>4, <3>5, <3>6, InOrderStep DEF Acquire
  <2> HIDE DEF l
  <2>8. ASSUME NEW q \in Launchers PROVE LaunchOK(proc[q])'
    <3>1. LaunchOK(proc[q]) /\ proc[q].gate \in Gates BY ProcType DEF GateInv
    <3>2. CASE q = p
      <4>1. /\ claim'[g] /\ (sent[g] > 0 => receipt[g].status = "passed")
            /\ proc[p].at = "frozen"
            /\ UNCHANGED <<receipt, sent>>
        BY <1>0, <1>1, <2>2, <2>6 DEF Acquire, GateOK
      <4> QED BY <2>5, <2>6, <3>2, <4>1 DEF LaunchOK, Founded
    <3>3. CASE q # p BY <2>1, <2>2, <3>1, <3>3 DEF Acquire, LaunchOK, Founded
    <3> QED BY <3>2, <3>3
  <2>9. \A q \in Launchers : q # p /\ proc[q].at \in Holding => proc[q].gate # g
    BY <1>1 DEF GateInv, LaunchOK
  <2>10. HolderAlone'
    <3> SUFFICES ASSUME NEW q \in Launchers, NEW r \in Launchers,
                        proc'[q].at \in Holding, proc'[r].at \in Holding,
                        proc'[q].gate = proc'[r].gate
                 PROVE  q = r
      BY DEF HolderAlone
    <3> QED BY <2>1, <2>5, <2>9 DEF GateInv, HolderAlone
  <2>11. ASSUME NEW h \in Gates PROVE GateOK(h)'
    BY <2>2 DEF Acquire, GateInv, GateOK, Founded
  <2> QED BY <2>4, <2>8, <2>10, <2>11, <2>7 DEF GateInv
<1>2. CASE Leave(p) /\ UNCHANGED claim BY <1>2, LeaveStep DEF Acquire
<1> QED BY <1>1, <1>2 DEF Acquire

LEMMA PrepareStep ==
  ASSUME GateInv, NEW p \in Launchers, Prepare(p)
  PROVE  GateInv'
<1>0. LaunchOK(proc[p]) BY DEF GateInv
<1>1. CASE DropClaim(proc[p].gate) /\ Leave(p)
  BY <1>0, <1>1, GiveBackStep DEF Prepare, LaunchOK, Holding, Steps
<1>2. CASE Go(p, "ready") /\ UNCHANGED claim
  <2> DEFINE l == [proc[p] EXCEPT !.at = "ready"]
  <2>1. l \in Launch BY ProcType DEF GateInv, Launch, Steps
  <2>2. /\ l.at = "ready" /\ l.gate = proc[p].gate /\ l.calls = proc[p].calls
        /\ l.early = proc[p].early /\ l.id = proc[p].id /\ l.ok = proc[p].ok
    BY ProcType DEF GateInv, Launch
  <2>3. LaunchOK(l) BY <1>0, <2>2 DEF Prepare, LaunchOK, Holding, Steps
  <2>4. proc' = [proc EXCEPT ![p] = l] BY <1>2 DEF Go
  <2> HIDE DEF l
  <2>5. Continues(p, l) BY <2>2, ProcType DEF GateInv, Continues
  <2>6. LateOK(l) /\ l.id <= launches BY <2>1, <2>5, LateOn DEF Prepare
  <2>7. proc[p].at \in Holding BY DEF Prepare, Holding, Steps
  <2> QED BY <1>2, <2>1, <2>3, <2>4, <2>5, <2>6, <2>7, MoveStep DEF Prepare
<1> QED BY <1>1, <1>2 DEF Prepare

LEMMA ReleaseStep ==
  ASSUME GateInv, NEW p \in Launchers, Release(p)
  PROVE  GateInv'
BY GiveBackStep DEF Release, Holding, Steps

LEMMA GiveBackB3Step ==
  ASSUME GateInv, NEW p \in Launchers, GiveBack(p)
  PROVE  GateInv'
BY GiveBackStep DEF GiveBack, Holding, Steps

(* A request goes out under the claim of the launch that sends it.           *)
LEMMA SendStep ==
  ASSUME GateInv, NEW p \in Launchers, proc[p].at = "ready", Send(p),
         proc[p].gate \in Quals => proc[p].done < Cases,
         UNCHANGED <<files, claim, receipt, output, Counters>>
  PROVE  GateInv'
<1> DEFINE g == proc[p].gate
           l == [proc[p] EXCEPT !.at = "inflight", !.calls = @ + 1]
<1>0. g \in Gates /\ LaunchOK(proc[p]) BY ProcType DEF GateInv
<1>1. \A q \in Launchers : proc'[q] = IF q = p THEN l ELSE proc[q]
  BY DEF Send, GateInv, GateTypeOK
<1>2. \A h \in Gates : h # g => sent'[h] = sent[h]
  BY DEF Send, GateInv, GateTypeOK
<1>3. l \in Launch
  <2>1. proc[p].calls + 1 \in Nat BY ProcType DEF GateInv
  <2> QED BY <2>1, ProcType DEF GateInv, Launch, Steps
<1>4. GateTypeOK' BY <1>0, <1>3 DEF Send, GateInv, GateTypeOK, Counters
<1>5. /\ l.at = "inflight" /\ l.gate = g /\ l.calls = proc[p].calls + 1 /\ l.calls # 0
      /\ l.early = proc[p].early /\ l.done = proc[p].done
      /\ l.id = proc[p].id /\ l.ok = proc[p].ok
  BY ProcType DEF GateInv, Launch
<1>6. sent'[g] = sent[g] + 1 /\ sent[g] \in Nat /\ proc[p].calls \in Nat
  BY <1>0, ProcType DEF Send, GateInv, GateTypeOK
<1>7. proc' = [proc EXCEPT ![p] = l] BY DEF Send, GateInv, GateTypeOK, Launch
<1>8. claim[g] /\ Founded(g) BY <1>0 DEF LaunchOK, Holding, Steps
<1> HIDE DEF l
<1>9. ASSUME NEW q \in Launchers PROVE LaunchOK(proc[q])'
  <2>1. LaunchOK(proc[q]) BY DEF GateInv
  <2>2. CASE q = p
    <3>1. l.at \in Holding BY <1>5 DEF Holding, Steps
    <3>2. sent'[g] > l.calls => receipt[g].status = "passed"
      <4>1. proc[p].at \in Holding BY DEF Holding, Steps
      <4>2. sent'[g] > l.calls => sent[g] > proc[p].calls BY <1>5, <1>6
      <4> QED BY <1>0, <4>1, <4>2 DEF LaunchOK
    <3> QED BY <1>0, <1>1, <1>5, <1>8, <2>2, <3>1, <3>2 DEF LaunchOK, Founded
  <2>3. CASE q # p
    <3>1. proc[q].at \in Holding => proc[q].gate # g
      BY <2>3 DEF GateInv, HolderAlone, Holding, Steps
    <3>2. proc[q].gate \in Gates BY ProcType DEF GateInv
    <3>3. proc'[q] = proc[q] BY <1>1, <2>3
    <3>4. proc[q].at \in Holding => sent'[proc[q].gate] = sent[proc[q].gate] BY <1>2, <3>1, <3>2
    <3> QED BY <2>1, <3>3, <3>4 DEF LaunchOK, Founded
  <2> QED BY <2>2, <2>3
<1>10. HolderAlone'
  <2> SUFFICES ASSUME NEW q \in Launchers, NEW r \in Launchers,
                      proc'[q].at \in Holding, proc'[r].at \in Holding,
                      proc'[q].gate = proc'[r].gate
               PROVE  q = r
    BY DEF HolderAlone
  <2>1. proc[p].at \in Holding BY DEF Holding, Steps
  <2>2. /\ proc[q].at \in Holding /\ proc[q].gate = proc'[q].gate
        /\ proc[r].at \in Holding /\ proc[r].gate = proc'[r].gate
    BY <1>1, <1>5, <2>1
  <2> QED BY <2>2 DEF GateInv, HolderAlone
<1>11. ASSUME NEW h \in Gates PROVE GateOK(h)'
  <2>1. GateOK(h) BY DEF GateInv
  <2> QED BY <1>2, <1>8, <2>1 DEF GateOK, Founded
<1>12. InOrder'
  <2>1. Continues(p, l) BY <1>5, <1>6 DEF Continues
  <2>2. LateOK(l) /\ l.id <= launches BY <1>3, <2>1, LateOn
  <2>3. launches \in Nat /\ launches' = launches BY DEF GateInv, GateTypeOK, Counters
  <2>4. launches <= launches' /\ l.id <= launches' BY <2>2, <2>3
  <2>5. proc[p].at \in Holding BY DEF Holding, Steps
  <2> QED BY <1>3, <1>7, <2>1, <2>2, <2>3, <2>4, <2>5, InOrderStep
<1> QED BY <1>4, <1>9, <1>10, <1>11, <1>12 DEF GateInv

(* Where the case loop ends and what is written after it.                    *)
LEMMA FailStep ==
  ASSUME GateInv, NEW p \in Launchers, proc[p].at \in {"ready", "inflight"}, Fail(p),
         proc[p].gate \in Quals,
         UNCHANGED <<files, claim, receipt, output, sent, Counters>>
  PROVE  GateInv'
<1> DEFINE l == [proc[p] EXCEPT !.at = "directory", !.ok = FALSE]
<1>1. l \in Launch BY ProcType DEF GateInv, Launch, Steps
<1>2. /\ l.at = "directory" /\ l.gate = proc[p].gate /\ l.calls = proc[p].calls
      /\ l.early = proc[p].early /\ l.id = proc[p].id
  BY ProcType DEF GateInv, Launch
<1>3. proc' = [proc EXCEPT ![p] = l] BY DEF Fail, GateInv, GateTypeOK, Launch
<1> HIDE DEF l
<1>4. LaunchOK(l) BY <1>2 DEF GateInv, LaunchOK, Holding, Steps, Quals, Compat
<1>5. Continues(p, l) BY <1>2, ProcType DEF GateInv, Continues
<1>6. LateOK(l) /\ l.id <= launches BY <1>1, <1>5, LateOn
<1>7. proc[p].at \in Holding BY DEF Holding, Steps
<1> QED BY <1>1, <1>3, <1>4, <1>5, <1>6, <1>7, MoveStep

(* A holder that goes on, with nothing more sent and the gate as it was.     *)
LEMMA OnwardStep ==
  ASSUME GateInv, NEW p \in Launchers, NEW l \in Launch,
         proc[p].at \in Holding, l.at \in Holding \ {"inflight", "holding", "releasing"},
         l.gate = proc[p].gate, l.calls = proc[p].calls, l.early = proc[p].early,
         l.id = proc[p].id, l.gate \in Compat => l.ok = proc[p].ok,
         l.at \in {"audits", "rechecking", "linking"} /\ l.gate \in Quals => output[l.gate].made,
         proc' = [proc EXCEPT ![p] = l],
         UNCHANGED <<files, claim, receipt, output, sent, Counters>>
  PROVE  GateInv'
<1>1. LaunchOK(proc[p]) BY DEF GateInv
<1>2. LaunchOK(l) BY <1>1 DEF LaunchOK, Holding, Steps
<1>3. Continues(p, l) BY ProcType DEF GateInv, Continues
<1>4. LateOK(l) /\ l.id <= launches BY <1>3, LateOn DEF Holding
<1> QED BY <1>2, <1>3, <1>4, MoveStep

LEMMA AskOnceStep ==
  ASSUME GateInv, NEW p \in Launchers, AskOnce(p)
  PROVE  GateInv'
BY SendStep DEF AskOnce, Compat, Quals

LEMMA AnswerOnceStep ==
  ASSUME GateInv, NEW p \in Launchers, AnswerOnce(p)
  PROVE  GateInv'
<1>1. CASE Leave(p) BY <1>1, LeaveStep DEF AnswerOnce
<1>2. CASE proc' = [proc EXCEPT ![p].at = "answered", ![p].done = 1]
  <2> DEFINE l == [proc[p] EXCEPT !.at = "answered", !.done = 1]
  <2>1. 1 \in 0..Cases BY GateAssumption
  <2>2. l \in Launch BY <2>1, ProcType DEF GateInv, Launch, Steps
  <2>3. /\ l.at = "answered" /\ l.gate = proc[p].gate /\ l.calls = proc[p].calls
        /\ l.early = proc[p].early /\ l.id = proc[p].id /\ l.ok = proc[p].ok
    BY ProcType DEF GateInv, Launch
  <2>4. proc' = [proc EXCEPT ![p] = l] BY <1>2 DEF GateInv, GateTypeOK, Launch
  <2>5. /\ proc[p].at \in Holding /\ l.at \in Holding \ {"inflight", "holding", "releasing"}
        /\ l.at \notin {"audits", "rechecking", "linking"}
    BY <2>3 DEF AnswerOnce, Holding, Steps
  <2> HIDE DEF l
  <2> QED BY <2>2, <2>3, <2>4, <2>5, OnwardStep DEF AnswerOnce
<1> QED BY <1>1, <1>2 DEF AnswerOnce

LEMMA RegisterStep ==
  ASSUME GateInv, NEW p \in Launchers, proc[p].gate \in Compat, Register(p)
  PROVE  GateInv'
<1>1. CASE Leave(p) BY <1>1, LeaveStep DEF Register
<1>2. CASE Go(p, "linking")
  <2> DEFINE l == [proc[p] EXCEPT !.at = "linking"]
  <2>2. l \in Launch BY ProcType DEF GateInv, Launch, Steps
  <2>3. /\ l.at = "linking" /\ l.gate = proc[p].gate /\ l.calls = proc[p].calls
        /\ l.early = proc[p].early /\ l.id = proc[p].id /\ l.ok = proc[p].ok
    BY ProcType DEF GateInv, Launch
  <2> QED BY <1>2, <2>2, <2>3, OnwardStep DEF Register, Go, Holding, Steps, Compat, Quals
<1> QED BY <1>1, <1>2 DEF Register

LEMMA ReceiptType ==
  ASSUME GateTypeOK, NEW p \in Launchers
  PROVE  ReceiptOf(p) \in Receipts /\ NoReceipt \in Receipts /\ ReceiptOf(p) # NoReceipt
         /\ ReceiptOf(p).status # "none" /\ NoReceipt.status = "none"
<1>1. proc[p].done \in Nat BY GateAssumption, ProcType
<1> QED BY <1>1, ProcType DEF ReceiptOf, Receipts, NoReceipt, NoBinding, Bindings, FileStates

(* A receipt put where there was none, by the holder of the claim.  It moves *)
(* on to release the claim or ends.                                          *)
LEMMA PublishStep ==
  ASSUME GateInv, NEW p \in Launchers, proc[p].at = "linking",
         receipt[proc[p].gate] = NoReceipt,
         receipt' = [receipt EXCEPT ![proc[p].gate] = ReceiptOf(p)],
         (Go(p, "releasing") /\ proc[p].ok) \/ Leave(p),
         UNCHANGED <<files, claim, output, sent, Counters>>
  PROVE  GateInv'
<1> DEFINE g == proc[p].gate
<1>0. g \in Gates /\ LaunchOK(proc[p]) BY ProcType DEF GateInv
<1>1. \A h \in Gates : receipt'[h] = IF h = g THEN ReceiptOf(p) ELSE receipt[h]
  BY <1>0 DEF GateInv, GateTypeOK
<1>2. \A h \in Gates : receipt[h] # NoReceipt => receipt'[h] = receipt[h]
  BY <1>1
<1>3. receipt'[g] # NoReceipt /\ (\A h \in Gates : receipt[h] # NoReceipt => receipt'[h] # NoReceipt)
  BY <1>0, <1>1, ReceiptType DEF GateInv
<1>4. \A q \in Launchers : q # p => proc'[q] = proc[q]
  BY DEF Go, Leave, GateInv, GateTypeOK
<1>5. /\ \/ proc'[p] = Nobody
         \/ proc'[p] = [proc[p] EXCEPT !.at = "releasing"] /\ proc[p].ok
      /\ proc'[p] \in Launch
  <2>1. [proc[p] EXCEPT !.at = "releasing"] \in Launch BY ProcType DEF GateInv, Launch, Steps
  <2> QED BY <2>1, NobodyOK DEF Go, Leave, GateInv, GateTypeOK
<1>6. GateTypeOK'
  BY <1>0, <1>4, <1>5, ReceiptType DEF GateInv, GateTypeOK, Counters, Go, Leave
<1>7. ASSUME NEW h PROVE Founded(h) => Founded(h)'
  <2>1. receipt["q2"].status = "passed" => receipt["q2"] # NoReceipt
    BY ReceiptType DEF GateInv
  <2>2. {"v1", "v4", "q2"} \subseteq Gates BY DEF Gates, Compat, Quals
  <2> QED BY <1>2, <1>3, <2>1, <2>2 DEF Founded
<1>8. \A h \in Gates : receipt[h].status = "passed" => receipt'[h] = receipt[h]
  BY <1>2, ReceiptType DEF GateInv
<1>9. ASSUME NEW q \in Launchers PROVE LaunchOK(proc[q])'
  <2>1. CASE q = p
    <3>1. CASE proc'[p] = Nobody
      BY <2>1, <3>1 DEF LaunchOK, Nobody, Holding
    <3>2. CASE proc'[p] = [proc[p] EXCEPT !.at = "releasing"] /\ proc[p].ok
      <4>1. /\ proc'[p].at = "releasing" /\ proc'[p].gate = g /\ proc'[p].calls = proc[p].calls
            /\ proc'[p].early = proc[p].early /\ proc'[p].id = proc[p].id /\ proc'[p].ok
        BY <3>2, ProcType DEF GateInv, Launch
      <4>2. claim[g] /\ Founded(g) /\ proc[p].id > 0
        BY <1>0 DEF LaunchOK, Holding, Steps
      <4>3. receipt'[g].status = "passed" /\ receipt'[g].by = proc[p].id
        BY <1>0, <1>1, <3>2 DEF ReceiptOf
      <4> QED BY <1>7, <2>1, <4>1, <4>2, <4>3 DEF LaunchOK
    <3> QED BY <1>5, <3>1, <3>2
  <2>2. CASE q # p
    <3>1. LaunchOK(proc[q]) /\ proc[q].gate \in Gates BY ProcType DEF GateInv
    <3>2. receipt[proc[q].gate].status = "passed" => receipt'[proc[q].gate] = receipt[proc[q].gate]
      BY <1>8, <3>1
    <3> QED BY <1>4, <1>7, <2>2, <3>1, <3>2 DEF LaunchOK
  <2> QED BY <2>1, <2>2
<1>10. HolderAlone'
  <2> SUFFICES ASSUME NEW q \in Launchers, NEW r \in Launchers,
                      proc'[q].at \in Holding, proc'[r].at \in Holding,
                      proc'[q].gate = proc'[r].gate
               PROVE  q = r
    BY DEF HolderAlone
  <2>1. proc'[p].at \in Holding => proc[p].at \in Holding /\ proc'[p].gate = g
    BY <1>5, ProcType DEF GateInv, Launch, Nobody, Holding, Steps
  <2> QED BY <1>4, <2>1 DEF GateInv, HolderAlone
<1>11. ASSUME NEW h \in Gates PROVE GateOK(h)'
  <2>1. GateOK(h) BY DEF GateInv
  <2>2. h = g /\ g \in Quals => output[g].made
    BY <1>0 DEF LaunchOK
  <2>3. claim[g] BY <1>0 DEF LaunchOK, Holding, Steps
  <2> QED BY <1>1, <1>3, <1>7, <1>8, <2>1, <2>2, <2>3 DEF GateOK
<1>12. InOrder'
  <2> DEFINE l == proc'[p]
  <2>1. proc' = [proc EXCEPT ![p] = l] /\ l \in Launch BY <1>5 DEF Go, Leave
  <2>2. launches \in Nat /\ launches' = launches BY DEF GateInv, GateTypeOK, Counters
  <2>3. proc[p].at \in Holding BY DEF Holding, Steps
  <2>4. CASE l = Nobody
    <3>1. LateOK(l) /\ l.at \notin Holding /\ l.id <= launches' /\ launches <= launches'
      BY <2>2, <2>4, NobodyOK DEF Holding
    <3> HIDE DEF l
    <3> QED BY <1>8, <2>1, <2>2, <3>1, InOrderStep
  <2>5. CASE l = [proc[p] EXCEPT !.at = "releasing"]
    <3>1. Continues(p, l) BY <2>5, ProcType DEF GateInv, Launch, Continues
    <3> HIDE DEF l
    <3>2. LateOK(l) /\ l.id <= launches BY <2>1, <3>1, LateOn
    <3>3. launches <= launches' /\ l.id <= launches' BY <2>2, <3>2
    <3> QED BY <1>8, <2>1, <2>2, <2>3, <3>1, <3>2, <3>3, InOrderStep
  <2> QED BY <1>5, <2>4, <2>5
<1> QED BY <1>6, <1>9, <1>10, <1>11, <1>12 DEF GateInv

LEMMA LinkReceiptStep ==
  ASSUME GateInv, NEW p \in Launchers, LinkReceipt(p)
  PROVE  GateInv'
<1>1. CASE Leave(p) /\ UNCHANGED receipt BY <1>1, LeaveStep DEF LinkReceipt
<1>2. CASE receipt[proc[p].gate] = NoReceipt /\ Go(p, "releasing")
           /\ receipt' = [receipt EXCEPT ![proc[p].gate] = ReceiptOf(p)]
  <2>1. proc[p].ok BY DEF LinkReceipt, GateInv, LaunchOK
  <2> QED BY <1>2, <2>1, PublishStep DEF LinkReceipt
<1> QED BY <1>1, <1>2 DEF LinkReceipt

LEMMA WriteAttemptReceiptStep ==
  ASSUME GateInv, NEW p \in Launchers, WriteAttemptReceipt(p)
  PROVE  GateInv'
<1> DEFINE g == proc[p].gate
<1>0. g \in Gates BY ProcType DEF GateInv
<1>1. CASE receipt[g] = NoReceipt
  <2>1. receipt' = [receipt EXCEPT ![g] = ReceiptOf(p)]
    BY <1>1 DEF WriteAttemptReceipt
  <2>2. (Go(p, "releasing") /\ proc[p].ok) \/ Leave(p) BY DEF WriteAttemptReceipt
  <2> QED BY <1>1, <2>1, <2>2, PublishStep DEF WriteAttemptReceipt
<1>2. CASE receipt[g] # NoReceipt
  <2>1. UNCHANGED receipt /\ Leave(p)
    BY <1>0, <1>2 DEF WriteAttemptReceipt, GateInv, GateTypeOK
  <2> QED BY <2>1, LeaveStep DEF WriteAttemptReceipt
<1> QED BY <1>1, <1>2

LEMMA BuildFailsStep ==
  ASSUME GateInv, NEW p \in Launchers, BuildFails(p)
  PROVE  GateInv'
BY FailStep DEF BuildFails, Quals

LEMMA AskCaseStep ==
  ASSUME GateInv, NEW p \in Launchers, AskCase(p)
  PROVE  GateInv'
<1>1. CASE Fail(p) /\ UNCHANGED sent BY <1>1, FailStep DEF AskCase
<1>2. CASE Send(p) BY <1>2, SendStep DEF AskCase
<1> QED BY <1>1, <1>2 DEF AskCase

LEMMA AnswerCaseStep ==
  ASSUME GateInv, NEW p \in Launchers, AnswerCase(p)
  PROVE  GateInv'
<1>1. CASE Fail(p) BY <1>1, FailStep DEF AnswerCase
<1>2. CASE proc' = [proc EXCEPT ![p].at = "ready", ![p].done = @ + 1]
  <2> DEFINE l == [proc[p] EXCEPT !.at = "ready", !.done = @ + 1]
  <2>1. LaunchOK(proc[p]) BY DEF GateInv
  <2>2. proc[p].done + 1 \in 0..Cases
    BY <2>1, ProcType, GateAssumption DEF GateInv, AnswerCase, LaunchOK
  <2>3. l \in Launch BY <2>2, ProcType DEF GateInv, Launch, Steps
  <2>4. /\ l.at = "ready" /\ l.gate = proc[p].gate /\ l.calls = proc[p].calls
        /\ l.early = proc[p].early /\ l.id = proc[p].id /\ l.ok = proc[p].ok
    BY ProcType DEF GateInv, Launch
  <2>5. proc' = [proc EXCEPT ![p] = l] BY <1>2 DEF GateInv, GateTypeOK, Launch
  <2>6. /\ proc[p].at \in Holding /\ l.at \in Holding \ {"inflight", "holding", "releasing"}
        /\ l.at \notin {"audits", "rechecking", "linking"}
    BY <2>4 DEF AnswerCase, Holding, Steps
  <2> HIDE DEF l
  <2> QED BY <2>3, <2>4, <2>5, <2>6, OnwardStep DEF AnswerCase
<1> QED BY <1>1, <1>2 DEF AnswerCase

LEMMA ConcludeStep ==
  ASSUME GateInv, NEW p \in Launchers, Conclude(p)
  PROVE  GateInv'
<1> DEFINE l == [proc[p] EXCEPT !.at = "directory", !.ok = Current(p)]
<1>1. Current(p) \in BOOLEAN BY DEF Current, Freezes
<1>2. l \in Launch BY <1>1, ProcType DEF GateInv, Launch, Steps
<1>3. /\ l.at = "directory" /\ l.gate = proc[p].gate /\ l.calls = proc[p].calls
      /\ l.early = proc[p].early /\ l.id = proc[p].id
  BY ProcType DEF GateInv, Launch
<1> QED BY <1>2, <1>3, OnwardStep DEF Conclude, Holding, Steps, Quals, Compat

LEMMA RecheckStep ==
  ASSUME GateInv, NEW p \in Launchers, proc[p].gate \in Quals, Recheck(p)
  PROVE  GateInv'
<1> DEFINE l == [proc[p] EXCEPT !.at = "linking", !.ok = @ /\ Current(p)]
<1>1. (proc[p].ok /\ Current(p)) \in BOOLEAN OBVIOUS
<1>2. l \in Launch BY <1>1, ProcType DEF GateInv, Launch, Steps
<1>3. /\ l.at = "linking" /\ l.gate = proc[p].gate /\ l.calls = proc[p].calls
      /\ l.early = proc[p].early /\ l.id = proc[p].id
  BY ProcType DEF GateInv, Launch
<1>4. LaunchOK(proc[p]) BY DEF GateInv
<1>5. l.gate \in Quals => output[l.gate].made BY <1>3, <1>4 DEF Recheck, LaunchOK
<1>6. proc' = [proc EXCEPT ![p] = l] BY DEF Recheck, GateInv, GateTypeOK, Launch
<1>7. proc[p].at \in Holding /\ l.at \in Holding \ {"inflight", "holding", "releasing"}
  BY <1>3 DEF Recheck, Holding, Steps
<1> HIDE DEF l
<1>8. l.gate \notin Compat BY <1>3 DEF Quals, Compat
<1> QED BY <1>2, <1>3, <1>5, <1>6, <1>7, <1>8, OnwardStep DEF Recheck

(* The directory of a qualification and what goes into it.                   *)
LEMMA OutputStep ==
  ASSUME GateInv, NEW p \in Launchers, NEW step \in {"audits", "rechecking", "linking"},
         NEW o \in Outputs, o.made,
         proc[p].at \in {"directory", "audits"}, proc[p].gate \in Quals,
         output' = [output EXCEPT ![proc[p].gate] = o], Go(p, step),
         UNCHANGED <<files, claim, receipt, sent, Counters>>
  PROVE  GateInv'
<1> DEFINE g == proc[p].gate
<1>0. g \in Gates /\ LaunchOK(proc[p]) BY ProcType DEF GateInv
<1>1. \A h \in Quals : output'[h] = IF h = g THEN o ELSE output[h]
  BY DEF GateInv, GateTypeOK
<1>2. output'[g].made /\ (\A h \in Quals : output[h].made => output'[h].made)
  BY <1>1
<1>3. \A q \in Launchers : q # p => proc'[q] = proc[q]
  BY DEF Go, GateInv, GateTypeOK
<1>4. /\ proc'[p].at = step /\ proc'[p].gate = g /\ proc'[p].calls = proc[p].calls
      /\ proc'[p].early = proc[p].early /\ proc'[p] \in Launch
      /\ proc'[p].id = proc[p].id /\ proc'[p].ok = proc[p].ok
  <2>1. [proc[p] EXCEPT !.at = step] \in Launch BY ProcType DEF GateInv, Launch, Steps
  <2> QED BY <2>1, ProcType DEF Go, GateInv, GateTypeOK, Launch
<1>5. GateTypeOK' BY <1>4 DEF GateInv, GateTypeOK, Counters, Go
<1>6. ASSUME NEW q \in Launchers PROVE LaunchOK(proc[q])'
  <2>1. CASE q = p BY <1>0, <1>2, <1>4, <2>1 DEF LaunchOK, Founded, Holding, Steps
  <2>2. CASE q # p
    <3>1. LaunchOK(proc[q]) BY DEF GateInv
    <3> QED BY <1>2, <1>3, <2>2, <3>1 DEF LaunchOK, Founded
  <2> QED BY <2>1, <2>2
<1>7. HolderAlone'
  <2> SUFFICES ASSUME NEW q \in Launchers, NEW r \in Launchers,
                      proc'[q].at \in Holding, proc'[r].at \in Holding,
                      proc'[q].gate = proc'[r].gate
               PROVE  q = r
    BY DEF HolderAlone
  <2>1. proc[p].at \in Holding BY DEF Holding, Steps
  <2> QED BY <1>3, <1>4, <2>1 DEF GateInv, HolderAlone
<1>8. ASSUME NEW h \in Gates PROVE GateOK(h)'
  <2>1. GateOK(h) BY DEF GateInv
  <2> QED BY <1>2, <2>1 DEF GateOK, Founded
<1>9. InOrder'
  <2> DEFINE l == proc'[p]
  <2>1. proc' = [proc EXCEPT ![p] = l] /\ l \in Launch BY <1>4 DEF Go
  <2>2. Continues(p, l) BY <1>4, ProcType DEF GateInv, Continues
  <2>3. proc[p].at \in Holding BY DEF Holding, Steps
  <2> HIDE DEF l
  <2>4. LateOK(l) /\ l.id <= launches BY <2>1, <2>2, LateOn
  <2>5. launches \in Nat /\ launches' = launches BY DEF GateInv, GateTypeOK, Counters
  <2>6. launches <= launches' /\ l.id <= launches' BY <2>4, <2>5
  <2> QED BY <2>1, <2>2, <2>3, <2>4, <2>5, <2>6, InOrderStep
<1> QED BY <1>5, <1>6, <1>7, <1>8, <1>9 DEF GateInv

LEMMA MakeDirectoryStep ==
  ASSUME GateInv, NEW p \in Launchers, proc[p].gate \in Quals, MakeDirectory(p)
  PROVE  GateInv'
<1>1. CASE Leave(p) /\ UNCHANGED output BY <1>1, LeaveStep DEF MakeDirectory
<1>2. CASE output' = [output EXCEPT ![proc[p].gate] = [NoOutput EXCEPT !.made = TRUE]]
           /\ Go(p, "audits")
  <2>1. [NoOutput EXCEPT !.made = TRUE] \in Outputs /\ [NoOutput EXCEPT !.made = TRUE].made
    BY DEF NoOutput, Outputs
  <2> QED BY <1>2, <2>1, OutputStep DEF MakeDirectory
<1> QED BY <1>1, <1>2 DEF MakeDirectory

LEMMA WriteAuditsStep ==
  ASSUME GateInv, NEW p \in Launchers, proc[p].gate \in Quals, WriteAudits(p)
  PROVE  GateInv'
<1> DEFINE g == proc[p].gate
           o == IF output[g].audits = 0
                  THEN [output[g] EXCEPT !.audits = proc[p].done, !.by = proc[p].id]
                  ELSE output[g]
<1>1. output[g] \in Outputs BY DEF GateInv, GateTypeOK
<1>2. output[g].made BY DEF GateInv, LaunchOK, WriteAudits
<1>3. proc[p].done \in Nat /\ proc[p].id \in Nat BY GateAssumption, ProcType DEF GateInv
<1>4. o \in Outputs /\ o.made BY <1>1, <1>2, <1>3 DEF Outputs
<1>5. output' = [output EXCEPT ![g] = o] BY DEF WriteAudits
<1> QED BY <1>4, <1>5, OutputStep DEF WriteAudits

-----------------------------------------------------------------------------
LEMMA CrashStep ==
  ASSUME GateInv, NEW p \in Launchers, Crash(p)
  PROVE  GateInv'
<1>1. GateTypeOK'
  BY NobodyOK, ProcType, GateAssumption DEF Crash, Leave, GateInv, GateTypeOK
<1>2. launches \in Nat /\ launches' = launches BY DEF Crash, GateInv, GateTypeOK
<1>3. launches <= launches' /\ Nobody.id <= launches' BY <1>2, NobodyOK
<1> QED BY <1>1, <1>3, NobodyOK, QuietStep DEF Crash, Leave, Holding

LEMMA EditStep ==
  ASSUME GateInv, NEW g \in Gates, NEW to \in FileStates, Edit(g, to)
  PROVE  GateInv'
<1>1. GateTypeOK' BY GateAssumption DEF Edit, GateInv, GateTypeOK
<1>2. ASSUME NEW q \in Launchers PROVE LaunchOK(proc[q])'
  BY DEF Edit, GateInv, LaunchOK, Founded
<1>3. HolderAlone' BY DEF Edit, GateInv, HolderAlone
<1>4. ASSUME NEW h \in Gates PROVE GateOK(h)' BY DEF Edit, GateInv, GateOK, Founded
<1>5. InOrder' BY DEF Edit, GateInv, InOrder, LateOK, PassedBefore, Holds
<1> QED BY <1>1, <1>2, <1>3, <1>4, <1>5 DEF GateInv

LEMMA GateInit == GatesInit => GateInv
<1> SUFFICES ASSUME NEW n \in 0..3, NEW passed \in {{}, {"v4"}, {"v4", "q2"}},
                    InitWith(n, passed)
             PROVE  GateInv
  BY DEF GatesInit
<1>1. \A g \in Gates : NoReceipt \in Receipts /\ Passed(1) \in Receipts /\ Passed(Cases) \in Receipts
  BY GateAssumption DEF NoReceipt, Passed, Receipts, NoBinding, Bindings, FileStates
<1>2. receipt \in [Gates -> Receipts] BY <1>1 DEF InitWith
<1>3. output \in [Quals -> Outputs] BY GateAssumption DEF InitWith, NoOutput, Outputs
<1>4. sent \in [Gates -> Nat]
  <2>1. \A g \in Gates : receipt[g].cases \in Nat BY <1>2 DEF Receipts
  <2> QED BY <2>1 DEF InitWith
<1>5. GateTypeOK
  <2>1. files \in [Gates -> FileStates] /\ claim \in [Gates -> BOOLEAN]
    BY DEF InitWith, FileStates
  <2>2. proc \in [Launchers -> Launch] BY NobodyOK DEF InitWith
  <2>3. hurt \subseteq Gates BY DEF InitWith
  <2>4. launches \in 0..MaxLaunches /\ edits \in 0..MaxEdits /\ faults \in 0..MaxFaults
    BY GateAssumption DEF InitWith
  <2> QED BY <1>2, <1>3, <1>4, <2>1, <2>2, <2>3, <2>4 DEF GateTypeOK
<1>6. ASSUME NEW q \in Launchers PROVE LaunchOK(proc[q]) BY NobodyOK DEF InitWith
<1>7. HolderAlone BY NobodyOK DEF InitWith, HolderAlone, Holding
<1>8. ASSUME NEW h \in Gates PROVE GateOK(h)
  <2>1. sent[h] > 0 => claim[h] \/ h \in passed
    <3>1. sent[h] = IF h \in Failed(n) THEN 1 ELSE IF h \in passed THEN receipt[h].cases ELSE 0
      BY DEF InitWith
    <3>2. claim[h] = (h \in Failed(n)) BY DEF InitWith
    <3>3. ~(0 > 0) OBVIOUS
    <3>4. CASE h \in Failed(n) BY <3>2, <3>4
    <3>5. CASE h \notin Failed(n) BY <3>1, <3>3, <3>5
    <3> QED BY <3>4, <3>5
  <2>2. /\ receipt[h] # NoReceipt <=> h \in passed
        /\ h \in passed => receipt[h].status = "passed"
    BY DEF InitWith, NoReceipt, Passed
  <2>3. sent[h] > 0 => h \notin {"q1", "b3"} /\ (h = "q2" => "v4" \in passed)
    BY DEF InitWith, Failed
  <2>4. "v4" \in Gates BY DEF Gates, Compat
  <2>5. "v4" \in passed => receipt["v4"] # NoReceipt BY <2>4 DEF InitWith, NoReceipt, Passed
  <2>6. h \in Quals /\ h \in passed => output[h].made BY DEF InitWith
  <2> QED BY <2>1, <2>2, <2>3, <2>5, <2>6 DEF GateOK, Founded
<1>9. InOrder
  <2>1. 0 <= launches BY DEF InitWith
  <2> QED BY <2>1, NobodyOK DEF InitWith, InOrder
<1> QED BY <1>5, <1>6, <1>7, <1>8, <1>9 DEF GateInv

LEMMA GateNext ==
  ASSUME GateInv, [GatesNext]_gateVars
  PROVE  GateInv'
<1>1. CASE UNCHANGED gateVars
  <2>1. GateTypeOK' BY <1>1 DEF gateVars, GateInv, GateTypeOK
  <2>2. ASSUME NEW q \in Launchers PROVE LaunchOK(proc[q])'
    BY <1>1 DEF gateVars, GateInv, LaunchOK, Founded
  <2>3. HolderAlone' BY <1>1 DEF gateVars, GateInv, HolderAlone
  <2>4. ASSUME NEW h \in Gates PROVE GateOK(h)' BY <1>1 DEF gateVars, GateInv, GateOK, Founded
  <2>5. InOrder' BY <1>1 DEF gateVars, GateInv, InOrder, LateOK, PassedBefore, Holds
  <2> QED BY <2>1, <2>2, <2>3, <2>4, <2>5 DEF GateInv
<1>2. ASSUME NEW p \in Launchers, NEW g \in Compat, CompatAttempt(p, g) PROVE GateInv'
  <2>0. g \in Gates BY DEF Gates
  <2> QED BY <1>2, <2>0, LookForResultStep, LookForClaimStep, FreezeStep, AcquireStep,
             PrepareStep, AskOnceStep, AnswerOnceStep, RegisterStep, LinkReceiptStep, ReleaseStep DEF CompatAttempt
<1>3. ASSUME NEW p \in Launchers, NEW g \in Quals, QualAttempt(p, g) PROVE GateInv'
  <2>0. g \in Gates BY DEF Gates
  <2> QED BY <1>3, <2>0, LookForResultStep, LookForClaimStep, FreezeStep, AcquireStep,
             PrepareStep, AskCaseStep, AnswerCaseStep, ConcludeStep, MakeDirectoryStep, WriteAuditsStep,
             WriteAttemptReceiptStep, ReleaseStep DEF QualAttempt
<1>4. ASSUME NEW p \in Launchers, ExecuteV1(p) \/ ExecuteV2(p) \/ ExecuteV3(p) \/ ExecuteV4(p)
      PROVE  GateInv'
  BY <1>2, <1>4 DEF ExecuteV1, ExecuteV2, ExecuteV3, ExecuteV4, Compat
<1>5. ASSUME NEW p \in Launchers, ExecuteQ1(p) \/ ExecuteQ2(p) \/ ExecuteB3(p)
      PROVE  GateInv'
  BY <1>3, <1>5, BuildFailsStep, RecheckStep, GiveBackB3Step
     DEF ExecuteQ1, ExecuteQ2, ExecuteB3, Quals
<1> QED BY <1>1, <1>4, <1>5, CrashStep, EditStep DEF GatesNext

THEOREM GatesInductive == GateSpec => []GateInv
BY GateInit, GateNext, PTL DEF GateSpec

(* At no time do two launches hold the claim of one gate.                    *)
THEOREM ClaimExclusive ==
  GateSpec => [](\A g \in Gates, p, q \in Launchers : Holds(p, g) /\ Holds(q, g) => p = q)
<1>1. GateInv => \A g \in Gates, p, q \in Launchers : Holds(p, g) /\ Holds(q, g) => p = q
  BY DEF GateInv, HolderAlone, Holds
<1> QED BY <1>1, GatesInductive, PTL

(* A gate whose request reached the transport always shows it.               *)
THEOREM EvidenceKeptAlways == GateSpec => []EvidenceKept
<1>1. GateInv => EvidenceKept BY DEF GateInv, GateOK, EvidenceKept, NoReceipt
<1> QED BY <1>1, GatesInductive, PTL

(* A launch holds the claim of a gate for which another has sent a request   *)
(* only once the gate has passed; and if the request came before the launch  *)
(* itself, the pass is that of an earlier launch which it overlapped.        *)
THEOREM NoSilentRerunAlways == GateSpec => []NoSilentRerun
<1>1. ASSUME GateInv PROVE NoSilentRerun
  <2> SUFFICES ASSUME NEW p \in Launchers, proc[p].at \in Holding
               PROVE  LET known == receipt[proc[p].gate]
                      IN  /\ sent[proc[p].gate] > proc[p].calls => known.status = "passed"
                          /\ ~proc[p].early =>
                               known.status = "passed" /\ known.by \in 1..proc[p].id - 1
    BY DEF NoSilentRerun
  <2> DEFINE known == receipt[proc[p].gate]
  <2>1. LaunchOK(proc[p]) /\ LateOK(proc[p]) BY <1>1 DEF GateInv, InOrder
  <2>2. sent[proc[p].gate] > proc[p].calls => known.status = "passed"
    BY <2>1 DEF LaunchOK
  <2>3. ASSUME ~proc[p].early PROVE known.status = "passed" /\ known.by \in 1..proc[p].id - 1
    <3>1. PassedBefore(proc[p]) BY <2>1, <2>3 DEF LateOK, Holding
    <3>2. known.by \in Nat /\ proc[p].id \in Nat
      BY <1>1, ProcType DEF GateInv, GateTypeOK, Receipts
    <3> QED BY <3>1, <3>2 DEF PassedBefore
  <2> QED BY <2>2, <2>3
<1> QED BY <1>1, GatesInductive, PTL

(* A qualification sends nothing before the receipt it rests on is there.    *)
THEOREM LadderClimbedAlways == GateSpec => []LadderClimbed
<1>1. GateInv => LadderClimbed
  BY DEF GateInv, GateOK, Founded, LadderClimbed, Gates, Compat, Quals
<1> QED BY <1>1, GatesInductive, PTL

(* The state of the gates is always well formed.                             *)
THEOREM GateTypeCorrect == GateSpec => []GateTypeOK
BY GatesInductive, PTL DEF GateInv

-----------------------------------------------------------------------------
(* What a launch has done and what its gate shows for it.                    *)

Writing == {"audits", "rechecking", "linking"}

(* A reason why a gate may stay used up with no launch at work on it.        *)
Excused(g) == sent[g] > 0 \/ g \in hurt \/ receipt[g].status = "failed"

WholeLaunch(l) ==
  /\ l.done <= l.calls /\ l.calls <= sent[l.gate]
  /\ l.at = "inflight" => l.done < l.calls
  /\ l.at = "answered" => l.gate \in Compat
  /\ l.gate \in Compat /\ l.at \in {"answered", "linking"} => l.calls > 0
  /\ l.gate \in Quals /\ l.at \in {"directory"} \cup Writing /\ l.ok => l.done = Cases
  /\ l.gate \in Quals /\ l.at \in Writing => receipt[l.gate] = NoReceipt
  /\ l.gate \in Quals /\ l.at = "audits" => output[l.gate].audits = 0
  /\ l.gate \in Quals /\ l.at \in {"rechecking", "linking"} =>
       output[l.gate].audits = l.done /\ (l.done > 0 => output[l.gate].by = l.id)

WholeGate(g) ==
  /\ claim[g] => (\E p \in Launchers : Holds(p, g)) \/ Excused(g)
  /\ g \in Quals =>
       /\ output[g] = NoOutput \/ output[g].made
       /\ output[g].made =>
            \/ \E p \in Launchers : proc[p].gate = g /\ proc[p].at \in Writing
            \/ Excused(g)
       /\ receipt[g].status = "passed" =>
            /\ receipt[g].cases = Cases /\ sent[g] >= Cases
            /\ output[g].audits = Cases /\ output[g].by = receipt[g].by

WholeInv ==
  /\ \A p \in Launchers : WholeLaunch(proc[p])
  /\ \A g \in Gates : WholeGate(g)

(* The reason a launch leaves behind when it goes without changing its gate. *)
LeftExcused(p) ==
  LET g == proc[p].gate
  IN  sent[g] > 0 \/ g \in hurt' \/ receipt[g].status = "failed"

LEMMA NobodyWhole ==
  ASSUME GateTypeOK PROVE WholeLaunch(Nobody)
<1>1. sent["v1"] >= 0 BY DEF GateTypeOK, Gates, Compat
<1> QED BY <1>1 DEF Nobody, WholeLaunch, Writing, Quals

(* A step of a launch that leaves its gate as it was, and leaves the claim   *)
(* and the directory to nobody only where there is a reason for it.          *)
LEMMA WholeMove ==
  ASSUME GateInv, WholeInv, NEW p \in Launchers, NEW l \in Launch,
         proc' = [proc EXCEPT ![p] = l], WholeLaunch(l),
         UNCHANGED <<claim, receipt, output, sent>>, hurt \subseteq hurt',
         proc[p].at \in Holding =>
           (l.at \in Holding /\ l.gate = proc[p].gate) \/ LeftExcused(p),
         proc[p].at \in Writing =>
           (l.at \in Writing /\ l.gate = proc[p].gate) \/ LeftExcused(p)
  PROVE  WholeInv'
<1>1. \A q \in Launchers : proc'[q] = IF q = p THEN l ELSE proc[q]
  BY DEF GateInv, GateTypeOK
<1>2. ASSUME NEW q \in Launchers PROVE WholeLaunch(proc[q])'
  <2>1. WholeLaunch(proc[q]) BY DEF WholeInv
  <2>2. CASE q = p BY <1>1, <2>2 DEF WholeLaunch
  <2>3. CASE q # p BY <1>1, <2>1, <2>3 DEF WholeLaunch
  <2> QED BY <2>2, <2>3
<1>3. ASSUME NEW g \in Gates PROVE WholeGate(g)'
  <2>1. WholeGate(g) BY DEF WholeInv
  <2>2. Excused(g) => Excused(g)' BY DEF Excused
  <2>3. (\E q \in Launchers : Holds(q, g)) => (\E q \in Launchers : Holds(q, g))' \/ Excused(g)'
    <3> SUFFICES ASSUME NEW q \in Launchers, Holds(q, g)
                 PROVE  Holds(q, g)' \/ Excused(g)'
      OBVIOUS
    <3>1. CASE q = p
      <4>1. LeftExcused(p) => Excused(g)' BY <3>1 DEF LeftExcused, Excused, Holds
      <4> QED BY <1>1, <3>1, <4>1 DEF Holds
    <3>2. CASE q # p BY <1>1, <3>2 DEF Holds
    <3> QED BY <3>1, <3>2
  <2>4. (\E q \in Launchers : proc[q].gate = g /\ proc[q].at \in Writing) =>
          (\E q \in Launchers : proc'[q].gate = g /\ proc'[q].at \in Writing) \/ Excused(g)'
    <3> SUFFICES ASSUME NEW q \in Launchers, proc[q].gate = g, proc[q].at \in Writing
                 PROVE  (proc'[q].gate = g /\ proc'[q].at \in Writing) \/ Excused(g)'
      OBVIOUS
    <3>1. CASE q = p
      <4>1. LeftExcused(p) => Excused(g)' BY <3>1 DEF LeftExcused, Excused
      <4> QED BY <1>1, <3>1, <4>1
    <3>2. CASE q # p BY <1>1, <3>2
    <3> QED BY <3>1, <3>2
  <2> QED BY <2>1, <2>2, <2>3, <2>4 DEF WholeGate
<1> QED BY <1>2, <1>3 DEF WholeInv

LEMMA WholeLeave ==
  ASSUME GateInv, WholeInv, NEW p \in Launchers, Leave(p),
         proc[p].at \in Holding => LeftExcused(p),
         UNCHANGED <<claim, receipt, output, sent>>, hurt \subseteq hurt'
  PROVE  WholeInv'
BY NobodyOK, NobodyWhole, WholeMove DEF Leave, GateInv, Writing, Holding, Steps

(* The claim is given up, by the one launch that holds it.                   *)
LEMMA WholeGiveBack ==
  ASSUME GateInv, WholeInv, NEW p \in Launchers,
         proc[p].at \in Holding \ Writing,
         DropClaim(proc[p].gate), Leave(p),
         UNCHANGED <<files, receipt, output, sent, Counters>>
  PROVE  WholeInv'
<1> DEFINE g == proc[p].gate
<1>0. g \in Gates BY ProcType DEF GateInv
<1>1. \A q \in Launchers : proc'[q] = IF q = p THEN Nobody ELSE proc[q]
  BY DEF Leave, GateInv, GateTypeOK
<1>2. \A h \in Gates : claim'[h] = IF h = g THEN FALSE ELSE claim[h]
  BY DEF DropClaim, GateInv, GateTypeOK
<1>3. ASSUME NEW q \in Launchers PROVE WholeLaunch(proc[q])'
  <2>1. WholeLaunch(proc[q]) BY DEF WholeInv
  <2>2. WholeLaunch(Nobody)' BY NobodyWhole DEF GateInv, WholeLaunch
  <2>3. CASE q = p BY <1>1, <2>2, <2>3 DEF WholeLaunch
  <2>4. CASE q # p BY <1>1, <2>1, <2>4 DEF WholeLaunch
  <2> QED BY <2>3, <2>4
<1>4. ASSUME NEW h \in Gates PROVE WholeGate(h)'
  <2>1. WholeGate(h) BY DEF WholeInv
  <2>2. Excused(h) => Excused(h)' BY DEF Excused, Counters
  <2>3. claim'[h] => claim[h] /\ h # g BY <1>2
  <2>4. h # g /\ (\E q \in Launchers : Holds(q, h)) => (\E q \in Launchers : Holds(q, h))'
    BY <1>1 DEF Holds
  <2>5. (\E q \in Launchers : proc[q].gate = h /\ proc[q].at \in Writing) =>
          (\E q \in Launchers : proc'[q].gate = h /\ proc'[q].at \in Writing)
    BY <1>1
  <2> QED BY <2>1, <2>2, <2>3, <2>4, <2>5 DEF WholeGate
<1> QED BY <1>3, <1>4 DEF WholeInv

(* A holder that moves on, having sent nothing more.                         *)
LEMMA WholeOnward ==
  ASSUME GateInv, WholeInv, NEW p \in Launchers, NEW l \in Launch,
         proc[p].at \in Holding, l.at \in Holding, l.gate = proc[p].gate,
         proc[p].at \in Writing => l.at \in Writing,
         proc' = [proc EXCEPT ![p] = l], WholeLaunch(l),
         UNCHANGED <<files, claim, receipt, output, sent, Counters>>
  PROVE  WholeInv'
BY WholeMove DEF Counters

LEMMA WholeFail ==
  ASSUME GateInv, WholeInv, NEW p \in Launchers, proc[p].at \in {"ready", "inflight"}, Fail(p),
         proc[p].gate \in Quals,
         UNCHANGED <<files, claim, receipt, output, sent, Counters>>
  PROVE  WholeInv'
<1> DEFINE l == [proc[p] EXCEPT !.at = "directory", !.ok = FALSE]
<1>1. l \in Launch BY ProcType DEF GateInv, Launch, Steps
<1>2. /\ l.at = "directory" /\ l.gate = proc[p].gate /\ l.calls = proc[p].calls
      /\ l.done = proc[p].done /\ ~l.ok
  BY ProcType DEF GateInv, Launch
<1>3. proc' = [proc EXCEPT ![p] = l] BY DEF Fail, GateInv, GateTypeOK, Launch
<1>4. WholeLaunch(proc[p]) BY DEF WholeInv
<1>5. WholeLaunch(l) BY <1>2, <1>4 DEF WholeLaunch, Quals, Compat, Writing
<1>6. /\ proc[p].at \in Holding /\ proc[p].at \notin Writing /\ l.at \in Holding
  BY <1>2 DEF Holding, Steps, Writing
<1> HIDE DEF l
<1> QED BY <1>1, <1>2, <1>3, <1>5, <1>6, WholeOnward

LEMMA WholeLookForResult ==
  ASSUME GateInv, WholeInv, NEW p \in Launchers, NEW g \in Gates, LookForResult(p, g), GateInv'
  PROVE  WholeInv'
<1> DEFINE l == proc'[p]
<1>1. /\ proc' = [proc EXCEPT ![p] = l] /\ l \in Launch
      /\ l.at = "started" /\ l.gate = g /\ l.done = 0 /\ l.calls = 0
  BY DEF LookForResult, GateInv, GateTypeOK, Nobody
<1>2. sent[g] >= 0 BY DEF GateInv, GateTypeOK
<1>3. WholeLaunch(l) BY <1>1, <1>2 DEF WholeLaunch, Writing
<1>4. proc[p].at \notin Holding /\ proc[p].at \notin Writing
  BY DEF LookForResult, Holding, Writing
<1> QED BY <1>1, <1>3, <1>4, WholeMove DEF LookForResult

LEMMA WholeLookForClaim ==
  ASSUME GateInv, WholeInv, NEW p \in Launchers, LookForClaim(p), GateInv'
  PROVE  WholeInv'
<1>1. CASE Leave(p) BY <1>1, WholeLeave DEF LookForClaim, Holding, Counters
<1>2. CASE Go(p, "looked")
  <2> DEFINE l == proc'[p]
  <2>1. /\ proc' = [proc EXCEPT ![p] = l] /\ l \in Launch
        /\ l.at = "looked" /\ l.gate = proc[p].gate /\ l.done = proc[p].done
        /\ l.calls = proc[p].calls
    BY <1>2 DEF Go, GateInv, GateTypeOK, Launch
  <2>2. WholeLaunch(proc[p]) BY DEF WholeInv
  <2>3. WholeLaunch(l) BY <2>1, <2>2 DEF WholeLaunch, Writing
  <2>4. proc[p].at \notin Holding /\ proc[p].at \notin Writing
    BY DEF LookForClaim, Holding, Writing
  <2> QED BY <2>1, <2>3, <2>4, WholeMove DEF LookForClaim, Counters
<1> QED BY <1>1, <1>2 DEF LookForClaim

LEMMA WholeFreeze ==
  ASSUME GateInv, WholeInv, NEW p \in Launchers, Freeze(p), GateInv'
  PROVE  WholeInv'
<1>1. CASE Leave(p) BY <1>1, WholeLeave DEF Freeze, Holding, Counters
<1>2. CASE proc' = [proc EXCEPT ![p].at = "frozen", ![p].bound = BindingOf(proc[p].gate)]
  <2> DEFINE l == proc'[p]
  <2>1. /\ proc' = [proc EXCEPT ![p] = l] /\ l \in Launch
        /\ l.at = "frozen" /\ l.gate = proc[p].gate /\ l.done = proc[p].done
        /\ l.calls = proc[p].calls
    BY <1>2 DEF GateInv, GateTypeOK, Launch
  <2>2. WholeLaunch(proc[p]) BY DEF WholeInv
  <2>3. WholeLaunch(l) BY <2>1, <2>2 DEF WholeLaunch, Writing
  <2>4. proc[p].at \notin Holding /\ proc[p].at \notin Writing
    BY DEF Freeze, Holding, Writing
  <2> QED BY <2>1, <2>3, <2>4, WholeMove DEF Freeze, Counters
<1> QED BY <1>1, <1>2 DEF Freeze

LEMMA WholeAcquire ==
  ASSUME GateInv, WholeInv, NEW p \in Launchers, Acquire(p), GateInv'
  PROVE  WholeInv'
<1> DEFINE g == proc[p].gate
<1>0. g \in Gates BY ProcType DEF GateInv
<1>1. CASE Leave(p) /\ UNCHANGED claim BY <1>1, WholeLeave DEF Acquire, Holding, Counters
<1>2. CASE claim' = [claim EXCEPT ![g] = TRUE] /\ Go(p, "holding")
  <2>1. \A q \in Launchers : q # p => proc'[q] = proc[q]
    BY <1>2 DEF Go, GateInv, GateTypeOK
  <2>2. /\ proc'[p].at = "holding" /\ proc'[p].gate = g /\ proc'[p].calls = proc[p].calls
        /\ proc'[p].done = proc[p].done
    BY <1>2, ProcType DEF Go, GateInv, GateTypeOK, Launch
  <2>3. ASSUME NEW q \in Launchers PROVE WholeLaunch(proc[q])'
    <3>1. WholeLaunch(proc[q]) BY DEF WholeInv
    <3>2. CASE q = p BY <2>2, <3>1, <3>2 DEF Acquire, WholeLaunch, Writing
    <3>3. CASE q # p BY <2>1, <3>1, <3>3 DEF Acquire, WholeLaunch
    <3> QED BY <3>2, <3>3
  <2>4. ASSUME NEW h \in Gates PROVE WholeGate(h)'
    <3>1. WholeGate(h) BY DEF WholeInv
    <3>2. Excused(h) => Excused(h)' BY DEF Acquire, Excused, Counters
    <3>3. h # g => claim'[h] = claim[h] BY <1>2 DEF GateInv, GateTypeOK
    <3>4. proc[p].at \notin Holding /\ proc[p].at \notin Writing
      BY DEF Acquire, Holding, Writing
    <3>5. (\E q \in Launchers : Holds(q, h)) => (\E q \in Launchers : Holds(q, h))'
      BY <2>1, <3>4 DEF Holds
    <3>6. (\E q \in Launchers : proc[q].gate = h /\ proc[q].at \in Writing) =>
            (\E q \in Launchers : proc'[q].gate = h /\ proc'[q].at \in Writing)
      BY <2>1, <3>4
    <3>7. claim'[h] => (\E q \in Launchers : Holds(q, h))' \/ Excused(h)'
      <4>1. CASE h = g
        <5>1. Holds(p, h)' BY <2>2, <4>1 DEF Holds, Holding, Steps
        <5> QED BY <5>1
      <4>2. CASE h # g BY <3>1, <3>2, <3>3, <3>5, <4>2 DEF WholeGate
      <4> QED BY <4>1, <4>2
    <3>8. ASSUME h \in Quals
          PROVE  /\ output[h] = NoOutput \/ output[h].made
                 /\ output[h].made =>
                      \/ \E q \in Launchers : proc'[q].gate = h /\ proc'[q].at \in Writing
                      \/ Excused(h)'
                 /\ receipt[h].status = "passed" =>
                      /\ receipt[h].cases = Cases /\ sent[h] >= Cases
                      /\ output[h].audits = Cases /\ output[h].by = receipt[h].by
      BY <3>1, <3>2, <3>6, <3>8 DEF WholeGate
    <3> QED BY <3>7, <3>8 DEF Acquire, WholeGate
  <2> QED BY <2>3, <2>4 DEF WholeInv
<1> QED BY <1>1, <1>2 DEF Acquire

LEMMA WholePrepare ==
  ASSUME GateInv, WholeInv, NEW p \in Launchers, Prepare(p), GateInv'
  PROVE  WholeInv'
<1>1. CASE DropClaim(proc[p].gate) /\ Leave(p)
  BY <1>1, WholeGiveBack DEF Prepare, Holding, Steps, Writing
<1>2. CASE Go(p, "ready") /\ UNCHANGED claim
  <2> DEFINE l == [proc[p] EXCEPT !.at = "ready"]
  <2>1. l \in Launch BY ProcType DEF GateInv, Launch, Steps
  <2>2. /\ l.at = "ready" /\ l.gate = proc[p].gate /\ l.calls = proc[p].calls
        /\ l.done = proc[p].done
    BY ProcType DEF GateInv, Launch
  <2>3. WholeLaunch(proc[p]) BY DEF WholeInv
  <2>4. WholeLaunch(l) BY <2>2, <2>3 DEF WholeLaunch, Writing
  <2>5. proc[p].at \in Holding /\ proc[p].at \notin Writing /\ l.at \in Holding
    BY <2>2 DEF Prepare, Holding, Steps, Writing
  <2>6. proc' = [proc EXCEPT ![p] = l] BY <1>2 DEF Go
  <2> HIDE DEF l
  <2> QED BY <1>2, <2>1, <2>2, <2>4, <2>5, <2>6, WholeOnward DEF Prepare
<1> QED BY <1>1, <1>2 DEF Prepare

LEMMA WholeSend ==
  ASSUME GateInv, WholeInv, NEW p \in Launchers, proc[p].at = "ready", Send(p),
         UNCHANGED <<files, claim, receipt, output, Counters>>
  PROVE  WholeInv'
<1> DEFINE g == proc[p].gate
<1>0. g \in Gates /\ sent[g] \in Nat /\ proc[p].calls \in Nat /\ proc[p].done \in 0..Cases
  BY ProcType DEF GateInv, GateTypeOK
<1>1. \A q \in Launchers : q # p => proc'[q] = proc[q]
  BY DEF Send, GateInv, GateTypeOK
<1>2. \A h \in Gates : sent'[h] = IF h = g THEN sent[g] + 1 ELSE sent[h]
  BY DEF Send, GateInv, GateTypeOK
<1>3. /\ proc'[p].at = "inflight" /\ proc'[p].gate = g /\ proc'[p].calls = proc[p].calls + 1
      /\ proc'[p].done = proc[p].done
  BY ProcType DEF Send, GateInv, GateTypeOK, Launch
<1>4. \A h \in Gates : sent[h] \in Nat /\ sent'[h] \in Nat /\ sent'[h] >= sent[h]
  BY <1>2 DEF GateInv, GateTypeOK
<1>5. ASSUME NEW q \in Launchers PROVE WholeLaunch(proc[q])'
  <2>1. WholeLaunch(proc[q]) BY DEF WholeInv
  <2>2. CASE q = p
    <3>1. proc[p].done <= proc[p].calls /\ proc[p].calls <= sent[g]
      BY <2>1, <2>2 DEF WholeLaunch
    <3>2. /\ proc'[p].done <= proc'[p].calls /\ proc'[p].calls <= sent'[g]
          /\ proc'[p].done < proc'[p].calls
      BY <1>0, <1>2, <1>3, <3>1, GateAssumption
    <3> QED BY <1>3, <2>2, <3>2 DEF WholeLaunch, Writing
  <2>3. CASE q # p
    <3>1. proc'[q] = proc[q] /\ proc[q].gate \in Gates /\ proc[q].calls \in Nat
      BY <1>1, <2>3, ProcType DEF GateInv
    <3>2. proc[q].calls <= sent'[proc[q].gate]
      BY <1>4, <2>1, <3>1 DEF WholeLaunch
    <3> QED BY <2>1, <3>1, <3>2 DEF WholeLaunch
  <2> QED BY <2>2, <2>3
<1>6. ASSUME NEW h \in Gates PROVE WholeGate(h)'
  <2>1. WholeGate(h) BY DEF WholeInv
  <2>2. Excused(h) => Excused(h)' BY <1>4 DEF Excused, Counters
  <2>3. (\E q \in Launchers : Holds(q, h)) =>
          (\E q \in Launchers : Holds(q, h))' \/ Excused(h)'
    <3> SUFFICES ASSUME NEW q \in Launchers, Holds(q, h)
                 PROVE  Holds(q, h)' \/ Excused(h)'
      OBVIOUS
    <3>1. CASE q = p BY <1>3, <3>1 DEF Holds, Holding, Steps
    <3>2. CASE q # p BY <1>1, <3>2 DEF Holds
    <3> QED BY <3>1, <3>2
  <2>4. (\E q \in Launchers : proc[q].gate = h /\ proc[q].at \in Writing) =>
          (\E q \in Launchers : proc'[q].gate = h /\ proc'[q].at \in Writing)
    BY <1>1 DEF Writing
  <2>5. sent[h] >= Cases => sent'[h] >= Cases BY <1>4, GateAssumption
  <2>6. claim[h] => (\E q \in Launchers : Holds(q, h))' \/ Excused(h)'
    BY <2>1, <2>2, <2>3 DEF WholeGate
  <2>7. ASSUME h \in Quals
        PROVE  /\ output[h] = NoOutput \/ output[h].made
               /\ output[h].made =>
                    \/ \E q \in Launchers : proc'[q].gate = h /\ proc'[q].at \in Writing
                    \/ Excused(h)'
               /\ receipt[h].status = "passed" =>
                    /\ receipt[h].cases = Cases /\ sent'[h] >= Cases
                    /\ output[h].audits = Cases /\ output[h].by = receipt[h].by
    BY <2>1, <2>2, <2>4, <2>5, <2>7 DEF WholeGate
  <2> QED BY <2>6, <2>7 DEF WholeGate
<1> QED BY <1>5, <1>6 DEF WholeInv

LEMMA WholeAskOnce ==
  ASSUME GateInv, WholeInv, NEW p \in Launchers, AskOnce(p)
  PROVE  WholeInv'
BY WholeSend DEF AskOnce

LEMMA WholeAnswerOnce ==
  ASSUME GateInv, WholeInv, NEW p \in Launchers, AnswerOnce(p), GateInv'
  PROVE  WholeInv'
<1>0. /\ WholeLaunch(proc[p]) /\ proc[p].gate \in Gates /\ sent[proc[p].gate] \in Nat
      /\ proc[p].calls \in Nat /\ proc[p].done \in 0..Cases
  BY ProcType DEF WholeInv, GateInv, GateTypeOK
<1>1. proc[p].calls > 0 /\ sent[proc[p].gate] > 0
  BY <1>0, GateAssumption DEF AnswerOnce, WholeLaunch
<1>2. CASE Leave(p)
  BY <1>1, <1>2, WholeLeave DEF AnswerOnce, LeftExcused, Counters
<1>3. CASE proc' = [proc EXCEPT ![p].at = "answered", ![p].done = 1]
  <2> DEFINE l == [proc[p] EXCEPT !.at = "answered", !.done = 1]
  <2>1. proc' = [proc EXCEPT ![p] = l] BY <1>3 DEF GateInv, GateTypeOK, Launch
  <2>2. /\ l.at = "answered" /\ l.gate = proc[p].gate /\ l.calls = proc[p].calls /\ l.done = 1
    BY ProcType DEF GateInv, Launch
  <2>3. l \in Launch
    <3>1. 1 \in 0..Cases BY GateAssumption
    <3> QED BY <3>1, ProcType DEF GateInv, Launch, Steps
  <2>4. WholeLaunch(l)
    <3>1. l.done <= l.calls /\ l.calls <= sent[l.gate] /\ l.calls > 0
      BY <1>0, <1>1, <2>2 DEF WholeLaunch
    <3> QED BY <2>2, <3>1 DEF AnswerOnce, WholeLaunch, Writing, Compat, Quals
  <2>5. proc[p].at \in Holding /\ proc[p].at \notin Writing /\ l.at \in Holding
    BY <2>2 DEF AnswerOnce, Holding, Steps, Writing
  <2> HIDE DEF l
  <2> QED BY <2>1, <2>2, <2>3, <2>4, <2>5, WholeOnward DEF AnswerOnce
<1> QED BY <1>2, <1>3 DEF AnswerOnce

LEMMA WholeRegister ==
  ASSUME GateInv, WholeInv, NEW p \in Launchers, proc[p].gate \in Compat, Register(p), GateInv'
  PROVE  WholeInv'
<1>0. /\ WholeLaunch(proc[p]) /\ proc[p].gate \in Gates /\ sent[proc[p].gate] \in Nat
      /\ proc[p].calls \in Nat
  BY ProcType DEF WholeInv, GateInv, GateTypeOK
<1>1. proc[p].calls > 0 /\ sent[proc[p].gate] > 0
  BY <1>0 DEF Register, WholeLaunch
<1>2. CASE Leave(p)
  BY <1>1, <1>2, WholeLeave DEF Register, LeftExcused, Counters
<1>3. CASE Go(p, "linking")
  <2> DEFINE l == [proc[p] EXCEPT !.at = "linking"]
  <2>1. proc' = [proc EXCEPT ![p] = l] BY <1>3 DEF Go
  <2>2. /\ l.at = "linking" /\ l.gate = proc[p].gate /\ l.calls = proc[p].calls
        /\ l.done = proc[p].done
    BY ProcType DEF GateInv, Launch
  <2>3. l \in Launch BY ProcType DEF GateInv, Launch, Steps
  <2>4. WholeLaunch(l) BY <1>0, <1>1, <2>2 DEF WholeLaunch, Writing, Compat, Quals
  <2>5. proc[p].at \in Holding /\ proc[p].at \notin Writing /\ l.at \in Holding
    BY <2>2 DEF Register, Holding, Steps, Writing
  <2> HIDE DEF l
  <2> QED BY <2>1, <2>2, <2>3, <2>4, <2>5, WholeOnward DEF Register
<1> QED BY <1>2, <1>3 DEF Register

(* A receipt is put where there was none: by a launch that goes on to        *)
(* release the claim, or writes a failure down and goes.                     *)
LEMMA WholePublish ==
  ASSUME GateInv, WholeInv, NEW p \in Launchers, proc[p].at = "linking",
         receipt[proc[p].gate] = NoReceipt,
         receipt' = [receipt EXCEPT ![proc[p].gate] = ReceiptOf(p)],
         Go(p, "releasing") \/ (Leave(p) /\ ~proc[p].ok),
         UNCHANGED <<files, claim, output, sent, Counters>>,
         GateInv'
  PROVE  WholeInv'
<1> PICK g \in Gates : g = proc[p].gate
  BY ProcType DEF GateInv
<1>0. /\ WholeLaunch(proc[p]) /\ sent[g] \in Nat
      /\ proc[p].calls \in Nat /\ proc[p].done \in 0..Cases /\ proc[p].id \in Nat
  BY ProcType DEF WholeInv, GateInv, GateTypeOK
<1>1. \A h \in Gates : receipt'[h] = IF h = g THEN ReceiptOf(p) ELSE receipt[h]
  BY DEF GateInv, GateTypeOK
<1>2. \A q \in Launchers : q # p => proc'[q] = proc[q]
  BY DEF Go, Leave, GateInv, GateTypeOK
<1>3. \/ proc'[p] = Nobody /\ ~proc[p].ok
      \/ /\ proc'[p].at = "releasing" /\ proc'[p].gate = g /\ proc'[p].calls = proc[p].calls
         /\ proc'[p].done = proc[p].done
  BY ProcType DEF Go, Leave, GateInv, GateTypeOK, Launch
<1>4. ASSUME NEW q \in Launchers PROVE WholeLaunch(proc[q])'
  <2>1. CASE q = p
    <3>1. CASE proc'[p] = Nobody
      <4>1. sent'["v1"] >= 0 BY DEF GateInv, GateTypeOK, Gates, Compat
      <4> QED BY <2>1, <3>1, <4>1 DEF Nobody, WholeLaunch, Writing, Quals
    <3>2. CASE /\ proc'[p].at = "releasing" /\ proc'[p].gate = g
               /\ proc'[p].calls = proc[p].calls /\ proc'[p].done = proc[p].done
      BY <1>0, <2>1, <3>2 DEF WholeLaunch, Writing
    <3> QED BY <1>3, <3>1, <3>2
  <2>2. CASE q # p
    <3>1. WholeLaunch(proc[q]) /\ proc[q].gate \in Gates BY ProcType DEF WholeInv, GateInv
    <3>2. proc[q].at \in Writing => proc[q].gate # g
      BY <2>2 DEF GateInv, HolderAlone, Holding, Steps, Writing
    <3>3. proc[q].at \in Writing => receipt'[proc[q].gate] = receipt[proc[q].gate]
      BY <1>1, <3>1, <3>2
    <3> QED BY <1>2, <2>2, <3>1, <3>3 DEF WholeLaunch
  <2> QED BY <2>1, <2>2
<1>5. /\ receipt'[g].status = IF proc[p].ok THEN "passed" ELSE "failed"
      /\ receipt'[g].cases = proc[p].done /\ receipt'[g].by = proc[p].id
  BY <1>1 DEF ReceiptOf
<1>6. g \in Quals /\ proc[p].ok =>
        /\ proc[p].done = Cases /\ sent[g] >= Cases /\ sent[g] > 0
        /\ output[g].audits = Cases /\ output[g].by = proc[p].id
  <2> HAVE g \in Quals /\ proc[p].ok
  <2>1. proc[p].done = Cases BY <1>0 DEF WholeLaunch, Writing
  <2>2. proc[p].done <= proc[p].calls /\ proc[p].calls <= sent[g] BY <1>0 DEF WholeLaunch
  <2>3. proc[p].done > 0 BY <2>1, GateAssumption
  <2>4. output[g].audits = proc[p].done /\ output[g].by = proc[p].id
    BY <1>0, <2>3 DEF WholeLaunch
  <2>5. sent[g] >= Cases /\ sent[g] > 0 BY <1>0, <2>1, <2>2, GateAssumption
  <2> QED BY <2>1, <2>4, <2>5
<1>7. g \in Quals => Excused(g)'
  BY <1>5, <1>6 DEF Excused
<1>8. (\E q \in Launchers : Holds(q, g))' \/ Excused(g)'
  <2>1. CASE proc'[p] = Nobody /\ ~proc[p].ok BY <1>5, <2>1 DEF Excused
  <2>2. CASE proc'[p].at = "releasing" /\ proc'[p].gate = g
    <3>1. Holds(p, g)' BY <2>2 DEF Holds, Holding, Steps
    <3> QED BY <3>1
  <2> QED BY <1>3, <2>1, <2>2
<1>9. ASSUME NEW h \in Gates PROVE WholeGate(h)'
  <2>1. WholeGate(h) BY DEF WholeInv
  <2>2. CASE h = g
    <3>1. claim'[h] => (\E q \in Launchers : Holds(q, h))' \/ Excused(h)' BY <1>8, <2>2
    <3>2. ASSUME h \in Quals
          PROVE  /\ output[h] = NoOutput \/ output[h].made
                 /\ Excused(h)'
                 /\ receipt'[h].status = "passed" =>
                      /\ receipt'[h].cases = Cases /\ sent[h] >= Cases
                      /\ output[h].audits = Cases /\ output[h].by = receipt'[h].by
      <4>1. output[h] = NoOutput \/ output[h].made BY <2>1, <3>2 DEF WholeGate
      <4>2. receipt'[h].status = "passed" => proc[p].ok BY <1>5, <2>2
      <4> QED BY <1>5, <1>6, <1>7, <2>2, <3>2, <4>1, <4>2
    <3> QED BY <3>1, <3>2 DEF WholeGate
  <2>3. CASE h # g
    <3>1. receipt'[h] = receipt[h] BY <1>1, <2>3
    <3>2. Excused(h) => Excused(h)' BY <3>1 DEF Excused, Counters
    <3>3. (\E q \in Launchers : Holds(q, h)) => (\E q \in Launchers : Holds(q, h))'
      BY <1>2, <2>3 DEF Holds
    <3>4. (\E q \in Launchers : proc[q].gate = h /\ proc[q].at \in Writing) =>
            (\E q \in Launchers : proc'[q].gate = h /\ proc'[q].at \in Writing)
      BY <1>2, <2>3
    <3> QED BY <2>1, <3>1, <3>2, <3>3, <3>4 DEF WholeGate
  <2> QED BY <2>2, <2>3
<1> QED BY <1>4, <1>9 DEF WholeInv

LEMMA WholeLinkReceipt ==
  ASSUME GateInv, WholeInv, NEW p \in Launchers, LinkReceipt(p), GateInv'
  PROVE  WholeInv'
<1>1. CASE Leave(p) /\ UNCHANGED receipt
  <2>0. /\ WholeLaunch(proc[p]) /\ proc[p].gate \in Gates /\ sent[proc[p].gate] \in Nat
        /\ proc[p].calls \in Nat
    BY ProcType DEF WholeInv, GateInv, GateTypeOK
  <2>1. sent[proc[p].gate] > 0 BY <2>0 DEF LinkReceipt, WholeLaunch
  <2> QED BY <1>1, <2>1, WholeLeave DEF LinkReceipt, LeftExcused, Counters
<1>2. CASE receipt[proc[p].gate] = NoReceipt /\ Go(p, "releasing")
           /\ receipt' = [receipt EXCEPT ![proc[p].gate] = ReceiptOf(p)]
  BY <1>2, WholePublish DEF LinkReceipt
<1> QED BY <1>1, <1>2 DEF LinkReceipt

LEMMA WholeWriteAttemptReceipt ==
  ASSUME GateInv, WholeInv, NEW p \in Launchers, WriteAttemptReceipt(p), GateInv'
  PROVE  WholeInv'
<1> PICK g \in Gates : g = proc[p].gate
  BY ProcType DEF GateInv
<1>1. WholeLaunch(proc[p]) BY DEF WholeInv
<1>2. receipt[g] = NoReceipt BY <1>1 DEF WriteAttemptReceipt, WholeLaunch, Writing
<1>3. receipt' = [receipt EXCEPT ![proc[p].gate] = ReceiptOf(p)]
  BY <1>2 DEF WriteAttemptReceipt
<1>4. Go(p, "releasing") \/ (Leave(p) /\ ~proc[p].ok) BY <1>2 DEF WriteAttemptReceipt
<1> QED BY <1>2, <1>3, <1>4, WholePublish DEF WriteAttemptReceipt

LEMMA WholeBuildFails ==
  ASSUME GateInv, WholeInv, NEW p \in Launchers, BuildFails(p)
  PROVE  WholeInv'
BY WholeFail DEF BuildFails, Quals

LEMMA WholeAskCase ==
  ASSUME GateInv, WholeInv, NEW p \in Launchers, AskCase(p)
  PROVE  WholeInv'
<1>1. CASE Fail(p) /\ UNCHANGED sent BY <1>1, WholeFail DEF AskCase
<1>2. CASE Send(p) BY <1>2, WholeSend DEF AskCase
<1> QED BY <1>1, <1>2 DEF AskCase

LEMMA WholeAnswerCase ==
  ASSUME GateInv, WholeInv, NEW p \in Launchers, AnswerCase(p), GateInv'
  PROVE  WholeInv'
<1>1. CASE Fail(p) BY <1>1, WholeFail DEF AnswerCase
<1>2. CASE proc' = [proc EXCEPT ![p].at = "ready", ![p].done = @ + 1]
  <2> DEFINE l == [proc[p] EXCEPT !.at = "ready", !.done = @ + 1]
  <2>0. WholeLaunch(proc[p]) /\ LaunchOK(proc[p]) BY DEF WholeInv, GateInv
  <2>1. proc' = [proc EXCEPT ![p] = l] BY <1>2 DEF GateInv, GateTypeOK, Launch
  <2>2. /\ l.at = "ready" /\ l.gate = proc[p].gate /\ l.calls = proc[p].calls
        /\ l.done = proc[p].done + 1
    BY ProcType DEF GateInv, Launch
  <2>3. proc[p].done \in 0..Cases /\ proc[p].calls \in Nat /\ proc[p].done < Cases
        /\ proc[p].done < proc[p].calls
    BY <2>0, ProcType DEF GateInv, AnswerCase, LaunchOK, WholeLaunch
  <2>4. proc[p].done + 1 \in 0..Cases /\ proc[p].done + 1 <= proc[p].calls
    BY <2>3, GateAssumption
  <2>5. l \in Launch BY <2>4, ProcType DEF GateInv, Launch, Steps
  <2>6. WholeLaunch(l) BY <2>0, <2>2, <2>4 DEF AnswerCase, WholeLaunch, Writing
  <2>7. proc[p].at \in Holding /\ proc[p].at \notin Writing /\ l.at \in Holding
    BY <2>2 DEF AnswerCase, Holding, Steps, Writing
  <2> HIDE DEF l
  <2> QED BY <2>1, <2>2, <2>5, <2>6, <2>7, WholeOnward DEF AnswerCase
<1> QED BY <1>1, <1>2 DEF AnswerCase

LEMMA WholeConclude ==
  ASSUME GateInv, WholeInv, NEW p \in Launchers, Conclude(p), GateInv'
  PROVE  WholeInv'
<1> DEFINE l == [proc[p] EXCEPT !.at = "directory", !.ok = Current(p)]
<1>0. WholeLaunch(proc[p]) BY DEF WholeInv
<1>1. l \in Launch
  <2>1. Current(p) \in BOOLEAN BY DEF Current, Freezes
  <2> QED BY <2>1, ProcType DEF GateInv, Launch, Steps
<1>2. /\ l.at = "directory" /\ l.gate = proc[p].gate /\ l.calls = proc[p].calls
      /\ l.done = proc[p].done
  BY ProcType DEF GateInv, Launch
<1>3. WholeLaunch(l) BY <1>0, <1>2 DEF Conclude, WholeLaunch, Writing, Compat, Quals
<1>4. proc[p].at \in Holding /\ proc[p].at \notin Writing /\ l.at \in Holding
  BY <1>2 DEF Conclude, Holding, Steps, Writing
<1>5. proc' = [proc EXCEPT ![p] = l] BY DEF Conclude, GateInv, GateTypeOK, Launch
<1> HIDE DEF l
<1> QED BY <1>1, <1>2, <1>3, <1>4, <1>5, WholeOnward DEF Conclude

LEMMA WholeRecheck ==
  ASSUME GateInv, WholeInv, NEW p \in Launchers, proc[p].gate \in Quals, Recheck(p), GateInv'
  PROVE  WholeInv'
<1> DEFINE l == [proc[p] EXCEPT !.at = "linking", !.ok = @ /\ Current(p)]
<1>0. WholeLaunch(proc[p]) BY DEF WholeInv
<1>1. l \in Launch
  <2>1. (proc[p].ok /\ Current(p)) \in BOOLEAN OBVIOUS
  <2> QED BY <2>1, ProcType DEF GateInv, Launch, Steps
<1>2. /\ l.at = "linking" /\ l.gate = proc[p].gate /\ l.calls = proc[p].calls
      /\ l.done = proc[p].done /\ l.id = proc[p].id
  BY ProcType DEF GateInv, Launch
<1>3. l.ok => proc[p].ok BY ProcType DEF GateInv, Launch
<1>4. WholeLaunch(l)
  BY <1>0, <1>2, <1>3 DEF Recheck, WholeLaunch, Writing, Compat, Quals
<1>5. /\ proc[p].at \in Holding /\ l.at \in Writing /\ l.at \in Holding
  BY <1>2 DEF Recheck, Holding, Steps, Writing
<1>6. proc' = [proc EXCEPT ![p] = l] BY DEF Recheck, GateInv, GateTypeOK, Launch
<1> HIDE DEF l
<1> QED BY <1>1, <1>2, <1>4, <1>5, <1>6, WholeOnward DEF Recheck

(* The directory is made, or the audits go into it.                          *)
LEMMA WholeOutput ==
  ASSUME GateInv, WholeInv, NEW p \in Launchers, NEW step \in Writing, NEW o \in Outputs,
         proc[p].at \in {"directory", "audits"}, proc[p].gate \in Quals,
         receipt[proc[p].gate] = NoReceipt, o.made,
         step = "audits" => o.audits = 0,
         step \in {"rechecking", "linking"} =>
           o.audits = proc[p].done /\ (proc[p].done > 0 => o.by = proc[p].id),
         output' = [output EXCEPT ![proc[p].gate] = o], Go(p, step),
         UNCHANGED <<files, claim, receipt, sent, Counters>>
  PROVE  WholeInv'
<1> PICK g \in Gates : g = proc[p].gate
  BY ProcType DEF GateInv
<1>0. WholeLaunch(proc[p]) /\ g \in Quals BY DEF WholeInv
<1>1. \A h \in Quals : output'[h] = IF h = g THEN o ELSE output[h]
  BY DEF GateInv, GateTypeOK
<1>2. \A q \in Launchers : q # p => proc'[q] = proc[q]
  BY DEF Go, GateInv, GateTypeOK
<1>3. /\ proc'[p].at = step /\ proc'[p].gate = g /\ proc'[p].calls = proc[p].calls
      /\ proc'[p].done = proc[p].done /\ proc'[p].ok = proc[p].ok /\ proc'[p].id = proc[p].id
  BY ProcType DEF Go, GateInv, GateTypeOK, Launch
<1>4. ASSUME NEW q \in Launchers PROVE WholeLaunch(proc[q])'
  <2>1. CASE q = p
    <3>1. proc[p].ok => proc[p].done = Cases \/ proc[p].at \notin {"directory"} \cup Writing
      BY <1>0 DEF WholeLaunch
    <3>2. proc[p].ok => proc[p].done = Cases BY <3>1 DEF Writing
    <3>3. output'[g] = o BY <1>0, <1>1
    <3>4. /\ proc'[p].done <= proc'[p].calls /\ proc'[p].calls <= sent'[g]
          /\ proc'[p].ok => proc'[p].done = Cases
      BY <1>0, <1>3, <3>2 DEF WholeLaunch
    <3> QED BY <1>0, <1>3, <2>1, <3>3, <3>4 DEF WholeLaunch, Writing, Compat, Quals
  <2>2. CASE q # p
    <3>1. WholeLaunch(proc[q]) BY DEF WholeInv
    <3>2. proc[q].at \in Writing => proc[q].gate # g
      BY <2>2 DEF GateInv, HolderAlone, Holding, Steps, Writing
    <3>3. proc[q].at \in Writing /\ proc[q].gate \in Quals =>
            output'[proc[q].gate] = output[proc[q].gate]
      BY <1>1, <3>2
    <3> QED BY <1>2, <2>2, <3>1, <3>3 DEF WholeLaunch, Writing
  <2> QED BY <2>1, <2>2
<1>5. ASSUME NEW h \in Gates PROVE WholeGate(h)'
  <2>1. WholeGate(h) BY DEF WholeInv
  <2>2. Excused(h) => Excused(h)' BY DEF Excused, Counters
  <2>3. (\E q \in Launchers : Holds(q, h)) => (\E q \in Launchers : Holds(q, h))'
    <3> SUFFICES ASSUME NEW q \in Launchers, Holds(q, h) PROVE Holds(q, h)' OBVIOUS
    <3>1. CASE q = p BY <1>3, <3>1 DEF Holds, Holding, Steps, Writing
    <3>2. CASE q # p BY <1>2, <3>2 DEF Holds
    <3> QED BY <3>1, <3>2
  <2>4. claim'[h] => (\E q \in Launchers : Holds(q, h))' \/ Excused(h)'
    BY <2>1, <2>2, <2>3 DEF WholeGate
  <2>5. ASSUME h \in Quals, h = g
        PROVE  /\ output'[h].made
               /\ \E q \in Launchers : proc'[q].gate = h /\ proc'[q].at \in Writing
               /\ receipt[h].status # "passed"
    <3>1. NoReceipt.status # "passed" BY DEF NoReceipt
    <3> QED BY <1>1, <1>3, <2>5, <3>1
  <2>6. ASSUME h \in Quals, h # g
        PROVE  /\ output'[h] = output[h]
               /\ (\E q \in Launchers : proc[q].gate = h /\ proc[q].at \in Writing) =>
                    (\E q \in Launchers : proc'[q].gate = h /\ proc'[q].at \in Writing)
    BY <1>1, <1>2, <2>6
  <2>7. CASE h \in Quals /\ h = g BY <2>4, <2>5, <2>7 DEF WholeGate
  <2>8. CASE h \in Quals /\ h # g BY <2>1, <2>2, <2>4, <2>6, <2>8 DEF WholeGate
  <2>9. CASE h \notin Quals BY <2>4, <2>9 DEF WholeGate
  <2> QED BY <2>7, <2>8, <2>9
<1> QED BY <1>4, <1>5 DEF WholeInv

LEMMA WholeMakeDirectory ==
  ASSUME GateInv, WholeInv, NEW p \in Launchers, proc[p].gate \in Quals, MakeDirectory(p), GateInv'
  PROVE  WholeInv'
<1> PICK g \in Gates : g = proc[p].gate
  BY ProcType DEF GateInv
<1>0. WholeGate(g) /\ GateOK(g) BY DEF WholeInv, GateInv
<1>1. CASE output[g] # NoOutput /\ Leave(p) /\ UNCHANGED output
  <2>1. output[g].made BY <1>0, <1>1 DEF WholeGate
  <2>2. \A q \in Launchers : proc[q].gate = g /\ proc[q].at \in Holding => q = p
    BY DEF MakeDirectory, GateInv, HolderAlone, Holding, Steps
  <2>3. ~ \E q \in Launchers : proc[q].gate = g /\ proc[q].at \in Writing
    BY <2>2 DEF MakeDirectory, Writing, Holding, Steps
  <2>4. Excused(g) BY <1>0, <2>1, <2>3 DEF WholeGate
  <2>5. LeftExcused(p) BY <2>4 DEF LeftExcused, Excused, MakeDirectory, Counters
  <2> QED BY <1>1, <2>5, WholeLeave DEF MakeDirectory, Counters
<1>2. CASE /\ output[g] = NoOutput
           /\ output' = [output EXCEPT ![proc[p].gate] = [NoOutput EXCEPT !.made = TRUE]]
           /\ Go(p, "audits")
  <2> DEFINE o == [NoOutput EXCEPT !.made = TRUE]
  <2>1. o \in Outputs /\ o.made /\ o.audits = 0 BY DEF NoOutput, Outputs
  <2>2. ~ NoOutput.made BY DEF NoOutput
  <2>3. receipt[g] = NoReceipt BY <1>0, <1>2, <2>2 DEF GateOK
  <2>4. "audits" \in Writing BY DEF Writing
  <2> HIDE DEF o
  <2>5. output' = [output EXCEPT ![proc[p].gate] = o] BY <1>2 DEF o
  <2> QED BY <1>2, <2>1, <2>3, <2>4, <2>5, WholeOutput DEF MakeDirectory
<1> QED BY <1>1, <1>2 DEF MakeDirectory

LEMMA WholeWriteAudits ==
  ASSUME GateInv, WholeInv, NEW p \in Launchers, proc[p].gate \in Quals, WriteAudits(p), GateInv'
  PROVE  WholeInv'
<1> PICK g \in Gates : g = proc[p].gate
  BY ProcType DEF GateInv
<1> DEFINE o == [output[g] EXCEPT !.audits = proc[p].done, !.by = proc[p].id]
           step == IF g = "b3" THEN "linking" ELSE "rechecking"
<1>0. WholeLaunch(proc[p]) /\ LaunchOK(proc[p]) BY DEF WholeInv, GateInv
<1>1. output[g].audits = 0 /\ output[g].made /\ receipt[g] = NoReceipt
  BY <1>0 DEF WriteAudits, WholeLaunch, LaunchOK, Writing
<1>2. output[g] \in Outputs /\ proc[p].done \in Nat /\ proc[p].id \in Nat
  BY ProcType, GateAssumption DEF GateInv, GateTypeOK
<1>3. o \in Outputs /\ o.made /\ o.audits = proc[p].done /\ o.by = proc[p].id
  BY <1>1, <1>2 DEF Outputs
<1>4. output' = [output EXCEPT ![proc[p].gate] = o] BY <1>1 DEF WriteAudits
<1>5. step \in Writing /\ step # "audits" /\ Go(p, step) BY DEF Writing, WriteAudits
<1> HIDE DEF o, step
<1> QED BY <1>1, <1>3, <1>4, <1>5, WholeOutput DEF WriteAudits

LEMMA WholeCrash ==
  ASSUME GateInv, WholeInv, NEW p \in Launchers, Crash(p)
  PROVE  WholeInv'
<1>1. LeftExcused(p) BY DEF Crash, LeftExcused
<1> QED BY <1>1, WholeLeave DEF Crash

LEMMA WholeEdit ==
  ASSUME GateInv, WholeInv, NEW g \in Gates, NEW to \in FileStates, Edit(g, to)
  PROVE  WholeInv'
<1>1. ASSUME NEW q \in Launchers PROVE WholeLaunch(proc[q])'
  BY DEF Edit, WholeInv, WholeLaunch
<1>2. ASSUME NEW h \in Gates PROVE WholeGate(h)'
  <2>1. WholeGate(h) BY DEF WholeInv
  <2>2. Excused(h) => Excused(h)' BY DEF Edit, Excused
  <2>3. (\E q \in Launchers : Holds(q, h)) => (\E q \in Launchers : Holds(q, h))'
    BY DEF Edit, Holds
  <2> QED BY <2>1, <2>2, <2>3 DEF Edit, WholeGate
<1> QED BY <1>1, <1>2 DEF WholeInv

LEMMA WholeInit == GatesInit /\ GateInv => WholeInv
<1> SUFFICES ASSUME NEW n \in 0..3, NEW passed \in {{}, {"v4"}, {"v4", "q2"}},
                    InitWith(n, passed), GateInv
             PROVE  WholeInv
  BY DEF GatesInit
<1>1. ASSUME NEW q \in Launchers PROVE WholeLaunch(proc[q])
  BY NobodyWhole DEF GateInv, InitWith
<1>2. ASSUME NEW h \in Gates PROVE WholeGate(h)
  <2>1. claim[h] => sent[h] > 0
    <3>1. claim[h] => h \in Failed(n) BY DEF InitWith
    <3>2. h \in Failed(n) => sent[h] = 1 BY DEF InitWith
    <3>3. 1 > 0 OBVIOUS
    <3> QED BY <3>1, <3>2, <3>3
  <2>2. ASSUME h \in Quals, h \in passed
        PROVE  /\ h = "q2" /\ output[h].made /\ output[h].audits = Cases /\ output[h].by = 0
               /\ receipt[h].cases = Cases /\ receipt[h].by = 0
               /\ sent[h] = receipt[h].cases
    <3>1. h = "q2" BY <2>2 DEF Quals
    <3>2. "q2" \notin Failed(n) BY DEF Failed
    <3> QED BY <2>2, <3>1, <3>2 DEF InitWith, Passed
  <2>3. ASSUME h \in Quals, h \notin passed
        PROVE  output[h] = NoOutput /\ ~output[h].made /\ receipt[h].status # "passed"
    BY <2>3 DEF InitWith, NoOutput, NoReceipt
  <2>4. Cases >= Cases /\ Cases > 0 BY GateAssumption
  <2>5. CASE h \in Quals /\ h \in passed
    BY <2>1, <2>2, <2>4, <2>5 DEF WholeGate, Excused
  <2>6. CASE h \in Quals /\ h \notin passed
    BY <2>1, <2>3, <2>6 DEF WholeGate, Excused
  <2>7. CASE h \notin Quals BY <2>1, <2>7 DEF WholeGate, Excused
  <2> QED BY <2>5, <2>6, <2>7
<1> QED BY <1>1, <1>2 DEF WholeInv

LEMMA WholeNext ==
  ASSUME GateInv, WholeInv, [GatesNext]_gateVars, GateInv'
  PROVE  WholeInv'
<1>1. CASE UNCHANGED gateVars
  <2>1. ASSUME NEW q \in Launchers PROVE WholeLaunch(proc[q])'
    BY <1>1 DEF gateVars, WholeInv, WholeLaunch
  <2>2. ASSUME NEW h \in Gates PROVE WholeGate(h)'
    <3>1. WholeGate(h) BY DEF WholeInv
    <3>2. Excused(h) => Excused(h)' BY <1>1 DEF gateVars, Excused
    <3>3. (\E q \in Launchers : Holds(q, h)) => (\E q \in Launchers : Holds(q, h))'
      BY <1>1 DEF gateVars, Holds
    <3> QED BY <1>1, <3>1, <3>2, <3>3 DEF gateVars, WholeGate
  <2> QED BY <2>1, <2>2 DEF WholeInv
<1>2. ASSUME NEW p \in Launchers, Release(p) \/ GiveBack(p) PROVE WholeInv'
  BY <1>2, WholeGiveBack DEF Release, GiveBack, Holding, Steps, Writing
<1>3. ASSUME NEW p \in Launchers, NEW g \in Compat, CompatAttempt(p, g) PROVE WholeInv'
  <2>0. g \in Gates BY DEF Gates
  <2> QED BY <1>2, <1>3, <2>0, WholeLookForResult, WholeLookForClaim, WholeFreeze, WholeAcquire,
             WholePrepare, WholeAskOnce, WholeAnswerOnce, WholeRegister, WholeLinkReceipt DEF CompatAttempt
<1>4. ASSUME NEW p \in Launchers, NEW g \in Quals, QualAttempt(p, g) PROVE WholeInv'
  <2>0. g \in Gates BY DEF Gates
  <2> QED BY <1>2, <1>4, <2>0, WholeLookForResult, WholeLookForClaim, WholeFreeze, WholeAcquire,
             WholePrepare, WholeAskCase, WholeAnswerCase, WholeConclude, WholeMakeDirectory, WholeWriteAudits,
             WholeWriteAttemptReceipt DEF QualAttempt
<1>5. ASSUME NEW p \in Launchers, ExecuteV1(p) \/ ExecuteV2(p) \/ ExecuteV3(p) \/ ExecuteV4(p)
      PROVE  WholeInv'
  BY <1>3, <1>5 DEF ExecuteV1, ExecuteV2, ExecuteV3, ExecuteV4, Compat
<1>6. ASSUME NEW p \in Launchers, ExecuteQ1(p) \/ ExecuteQ2(p) \/ ExecuteB3(p)
      PROVE  WholeInv'
  BY <1>2, <1>4, <1>6, WholeBuildFails, WholeRecheck
     DEF ExecuteQ1, ExecuteQ2, ExecuteB3, Quals
<1> QED BY <1>1, <1>5, <1>6, WholeCrash, WholeEdit DEF GatesNext

LEMMA WholeAlways == GateSpec => [](GateInv /\ WholeInv)
<1>1. GatesInit => GateInv /\ WholeInv BY GateInit, WholeInit
<1>2. GateInv /\ WholeInv /\ [GatesNext]_gateVars => (GateInv /\ WholeInv)' BY GateNext, WholeNext
<1> QED BY <1>1, <1>2, PTL DEF GateSpec

(* A gate is not used up for nothing: a claim that nobody holds has its      *)
(* reason.                                                                   *)
THEOREM ClaimExplainedAlways == GateSpec => []ClaimExplained
<1>1. WholeInv => ClaimExplained BY DEF WholeInv, WholeGate, Excused, ClaimExplained
<1> QED BY <1>1, WholeAlways, PTL

(* A passed qualification is whole.                                          *)
THEOREM QualifiedIsWholeAlways == GateSpec => []QualifiedIsWhole
<1>1. WholeInv => QualifiedIsWhole
  BY DEF WholeInv, WholeGate, QualifiedIsWhole, Gates
<1> QED BY <1>1, WholeAlways, PTL
=============================================================================
