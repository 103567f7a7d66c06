-------------------------- MODULE MeasuredRun_proofs --------------------------
(***************************************************************************)
(* Proofs about a measured run, for any runs, ledger files, probes, turns, *)
(* caps and faults.                                                        *)
(*                                                                         *)
(* The file part of the argument (RunOK) follows the checkpoints, the      *)
(* directory and the records of one run through every order in which       *)
(* launches may leave them; StageOK says what the process may rely on at   *)
(* each of its steps.  Both see the ledger as two sets of requests, those  *)
(* that were started (B) and those that were completed (F).  None of it    *)
(* asks who launched the process, so it serves the batches too.  That no   *)
(* launch of an operator asks for a completed answer again (NoRecovery)    *)
(* is a part of its own.                                                   *)
(***************************************************************************)
EXTENDS MeasuredRun, Sums_proofs, TLAPS, FiniteSetTheorems, SequenceTheorems, Functions

TurnOf(run, t) == [run |-> run, phase |-> "turn", at |-> t]

FinishedRequests(log) ==
  {r \in Requests : \E i \in TerminalsOf(log, r) : log[i].status = "completed"}

-----------------------------------------------------------------------------
(* The receipts. *)

(* No receipt numbers more attempts than its request has starts. *)
AttemptsBounded(log) ==
  \A i \in DOMAIN log : log[i].attempt <= Cardinality(StartsOf(log, log[i].req))

(* A completed receipt is the last of its request and ends its last attempt. *)
CompletedNewest(log) ==
  \A i, j \in DOMAIN log :
    log[i].status = "completed" /\ log[j].req = log[i].req /\ j # i =>
      j < i /\ (log[j].status # "started" => log[j].attempt < log[i].attempt)

(* The last receipt starts the call of r, and is newer than any other of r.  *)
NewestStart(log, r) ==
  /\ log # <<>>
  /\ log[Len(log)].req = r /\ log[Len(log)].status = "started"
  /\ \A i \in DOMAIN log :
       log[i].req = r /\ i # Len(log) => log[i].attempt < log[Len(log)].attempt

LogOK(log) ==
  AttemptsBounded(log) /\ FinishedRequests(log) \subseteq StartedRequests(log)

\* StartsOf and TerminalsOf are finite sets of line numbers.
LEMMA IndexSetsFinite ==
  ASSUME NEW log \in Seq(Receipt), NEW r
  PROVE  /\ IsFiniteSet(StartsOf(log, r)) /\ StartsOf(log, r) \subseteq 1..Len(log)
         /\ TerminalsOf(log, r) \subseteq 1..Len(log)
         /\ Cardinality(StartsOf(log, r)) \in Nat
<1>1. IsFiniteSet(1..Len(log)) /\ DOMAIN log = 1..Len(log)
  BY FS_Interval
<1>2. StartsOf(log, r) \subseteq 1..Len(log) /\ TerminalsOf(log, r) \subseteq 1..Len(log)
  BY <1>1 DEF StartsOf, TerminalsOf
<1>3. IsFiniteSet(StartsOf(log, r))
  BY <1>1, <1>2, FS_Subset
<1>4. QED
  BY <1>2, <1>3, FS_CardinalityType

\* A new start receipt adds its line to the starts of its request.
LEMMA AppendStart ==
  ASSUME NEW log \in Seq(Receipt), NEW e \in Receipt, e.status = "started"
  PROVE  /\ \A r : StartsOf(Append(log, e), r)
              = StartsOf(log, r) \cup (IF e.req = r THEN {Len(log) + 1} ELSE {})
         /\ \A r : TerminalsOf(Append(log, e), r) = TerminalsOf(log, r)
         /\ StartedRequests(Append(log, e)) = StartedRequests(log) \cup {e.req}
         /\ FinishedRequests(Append(log, e)) = FinishedRequests(log)
<1> DEFINE new == Append(log, e)
<1>1. /\ DOMAIN log = 1..Len(log) /\ Len(log) \in Nat
      /\ DOMAIN new = 1..(Len(log) + 1)
      /\ \A i \in 1..Len(log) : new[i] = log[i]
      /\ new[Len(log) + 1] = e
  BY AppendProperties
<1> HIDE DEF new
<1>2. \A r : StartsOf(new, r) = StartsOf(log, r) \cup (IF e.req = r THEN {Len(log) + 1} ELSE {})
  BY <1>1 DEF StartsOf
<1>3. \A r : TerminalsOf(new, r) = TerminalsOf(log, r)
  BY <1>1 DEF TerminalsOf
<1>4. StartedRequests(new) = StartedRequests(log) \cup {e.req}
  <2>1. e.req \in Requests
    BY DEF Receipt
  <2>2. QED
    BY <1>2, <2>1 DEF StartedRequests
<1>5. FinishedRequests(new) = FinishedRequests(log)
  <2>1. \A r : \A i \in TerminalsOf(log, r) : new[i] = log[i]
    BY <1>1 DEF TerminalsOf
  <2>2. QED
    BY <1>3, <2>1 DEF FinishedRequests
<1>6. QED
  BY <1>2, <1>3, <1>4, <1>5 DEF new

\* A new terminal receipt starts nothing, and finishes its request when it
\* says so.
LEMMA AppendEnd ==
  ASSUME NEW log \in Seq(Receipt), NEW e \in Receipt, e.status # "started"
  PROVE  /\ \A r : StartsOf(Append(log, e), r) = StartsOf(log, r)
         /\ \A r : TerminalsOf(Append(log, e), r)
              = TerminalsOf(log, r) \cup (IF e.req = r THEN {Len(log) + 1} ELSE {})
         /\ StartedRequests(Append(log, e)) = StartedRequests(log)
         /\ FinishedRequests(Append(log, e))
              = FinishedRequests(log) \cup (IF e.status = "completed" THEN {e.req} ELSE {})
<1> DEFINE new == Append(log, e)
<1>1. /\ DOMAIN log = 1..Len(log) /\ Len(log) \in Nat
      /\ DOMAIN new = 1..(Len(log) + 1)
      /\ \A i \in 1..Len(log) : new[i] = log[i]
      /\ new[Len(log) + 1] = e
      /\ e.status \in {"completed", "failed"} /\ e.req \in Requests
  BY AppendProperties DEF Receipt
<1> HIDE DEF new
<1>2. \A r : StartsOf(new, r) = StartsOf(log, r)
  BY <1>1 DEF StartsOf
<1>3. \A r : TerminalsOf(new, r)
               = TerminalsOf(log, r) \cup (IF e.req = r THEN {Len(log) + 1} ELSE {})
  BY <1>1 DEF TerminalsOf
<1>4. FinishedRequests(new)
        = FinishedRequests(log) \cup (IF e.status = "completed" THEN {e.req} ELSE {})
  <2>1. \A r : \A i \in TerminalsOf(log, r) : new[i] = log[i]
    BY <1>1 DEF TerminalsOf
  <2>2. \A r \in Requests : (\E i \in TerminalsOf(new, r) : new[i].status = "completed")
          <=> \/ \E i \in TerminalsOf(log, r) : log[i].status = "completed"
              \/ e.req = r /\ e.status = "completed"
    BY <1>1, <1>3, <2>1
  <2>3. QED
    BY <1>1, <2>2 DEF FinishedRequests
<1>5. StartedRequests(new) = StartedRequests(log)
  BY <1>2 DEF StartedRequests
<1>6. QED
  BY <1>2, <1>3, <1>4, <1>5 DEF new

\* A call that was started last is not finished.
LEMMA NewestUnfinished ==
  ASSUME NEW log \in Seq(Receipt), CompletedNewest(log), NEW r, NewestStart(log, r)
  PROVE  r \notin FinishedRequests(log)
<1>1. Len(log) \in DOMAIN log /\ DOMAIN log = 1..Len(log)
  BY EmptySeq, LenProperties DEF NewestStart
<1>2. SUFFICES ASSUME NEW i \in TerminalsOf(log, r), log[i].status = "completed"
               PROVE  FALSE
  BY DEF FinishedRequests
<1>3. i \in DOMAIN log /\ log[i].req = r /\ i # Len(log)
  BY <1>2 DEF TerminalsOf, NewestStart
<1>4. Len(log) < i
  BY <1>1, <1>2, <1>3 DEF CompletedNewest, NewestStart
<1>5. QED
  BY <1>1, <1>3, <1>4

\* The new receipt of a request that is started is its newest.
LEMMA LogStart ==
  ASSUME NEW log \in Seq(Receipt), LogOK(log), NEW r \in Requests
  PROVE  /\ StartReceipt(log, r) \in Receipt
         /\ StartReceipt(log, r).status = "started" /\ StartReceipt(log, r).req = r
         /\ LogOK(Append(log, StartReceipt(log, r)))
         /\ NewestStart(Append(log, StartReceipt(log, r)), r)
<1> DEFINE e == StartReceipt(log, r)
           new == Append(log, e)
           n == Len(log) + 1
<1>1. /\ e \in Receipt /\ e.status = "started" /\ e.req = r
      /\ e.attempt = 1 + Cardinality(StartsOf(log, r))
  <2>1. Cardinality(StartsOf(log, r)) \in Nat
    BY IndexSetsFinite
  <2>2. IsRecovery(log, r) \in BOOLEAN
    BY DEF IsRecovery
  <2>3. QED
    BY <2>1, <2>2 DEF StartReceipt, NextAttempt, Receipt
<1> HIDE DEF e
<1>2. /\ DOMAIN log = 1..Len(log) /\ Len(log) \in Nat
      /\ DOMAIN new = 1..n /\ Len(new) = n /\ new \in Seq(Receipt)
      /\ \A i \in 1..Len(log) : new[i] = log[i]
      /\ new[n] = e
  BY <1>1, AppendProperties
<1>3. /\ StartsOf(new, r) = StartsOf(log, r) \cup {n}
      /\ \A q : q # r => StartsOf(new, q) = StartsOf(log, q)
      /\ StartedRequests(new) = StartedRequests(log) \cup {r}
      /\ FinishedRequests(new) = FinishedRequests(log)
  <2>1. /\ \A q : StartsOf(new, q)
                     = StartsOf(log, q) \cup (IF e.req = q THEN {n} ELSE {})
        /\ StartedRequests(new) = StartedRequests(log) \cup {e.req}
        /\ FinishedRequests(new) = FinishedRequests(log)
    BY <1>1, AppendStart
  <2> HIDE DEF new, n
  <2>2. QED
    BY <1>1, <2>1
<1> HIDE DEF new
<1>4. Cardinality(StartsOf(new, r)) = Cardinality(StartsOf(log, r)) + 1
  <2>1. IsFiniteSet(StartsOf(log, r)) /\ n \notin StartsOf(log, r)
    BY <1>2, IndexSetsFinite
  <2> HIDE DEF n
  <2>2. QED
    BY <1>3, <2>1, FS_AddElement
<1>5. AttemptsBounded(new)
  <2> SUFFICES ASSUME NEW i \in 1..n
               PROVE  new[i].attempt <= Cardinality(StartsOf(new, new[i].req))
    BY <1>2 DEF AttemptsBounded
  <2>1. CASE i = n
    BY <1>1, <1>2, <1>4, <2>1, IndexSetsFinite
  <2>2. CASE i # n
    <3>1. i \in 1..Len(log) /\ new[i] = log[i]
      BY <1>2, <2>2
    <3>2. log[i] \in Receipt
      BY <3>1, ElementOfSeq
    <3>3. log[i].attempt <= Cardinality(StartsOf(log, log[i].req)) /\ log[i].attempt \in Nat
      BY <1>2, <3>1, <3>2 DEF LogOK, AttemptsBounded, Receipt
    <3>4. Cardinality(StartsOf(log, log[i].req)) \in Nat
          /\ Cardinality(StartsOf(new, log[i].req)) \in Nat
      BY <1>2, IndexSetsFinite
    <3>5. Cardinality(StartsOf(log, log[i].req)) <= Cardinality(StartsOf(new, log[i].req))
      <4>1. CASE log[i].req = r
        BY <1>4, <3>4, <4>1
      <4>2. CASE log[i].req # r
        BY <1>3, <3>4, <4>2
      <4>3. QED
        BY <4>1, <4>2
    <3>6. QED
      BY <3>1, <3>3, <3>4, <3>5
  <2>3. QED
    BY <2>1, <2>2
<1>6. NewestStart(new, r)
  <2>1. new # <<>>
    BY <1>2
  <2>2. ASSUME NEW i \in 1..n, new[i].req = r, i # n
        PROVE  new[i].attempt < new[n].attempt
    <3>1. i \in 1..Len(log) /\ new[i] = log[i]
      BY <1>2, <2>2
    <3>2. log[i] \in Receipt
      BY <3>1, ElementOfSeq
    <3>3. log[i].attempt <= Cardinality(StartsOf(log, r)) /\ log[i].attempt \in Nat
      BY <1>2, <2>2, <3>1, <3>2 DEF LogOK, AttemptsBounded, Receipt
    <3>4. Cardinality(StartsOf(log, r)) \in Nat
      BY IndexSetsFinite
    <3>5. QED
      BY <1>1, <1>2, <3>1, <3>3, <3>4
  <2>3. QED
    BY <1>1, <1>2, <2>1, <2>2 DEF NewestStart
<1>7. FinishedRequests(new) \subseteq StartedRequests(new)
  BY <1>3 DEF LogOK
<1>8. QED
  BY <1>1, <1>5, <1>6, <1>7 DEF LogOK, new, e

\* The terminal receipt of the newest call keeps the order of receipts.
LEMMA LogEnd ==
  ASSUME NEW log \in Seq(Receipt), LogOK(log),
         NEW r \in Requests, NewestStart(log, r), NEW outcome \in {"completed", "failed"}
  PROVE  /\ EndReceipt(log[Len(log)], outcome) \in Receipt
         /\ EndReceipt(log[Len(log)], outcome).status = outcome
         /\ EndReceipt(log[Len(log)], outcome).req = r
         /\ LogOK(Append(log, EndReceipt(log[Len(log)], outcome)))
<1> DEFINE e == EndReceipt(log[Len(log)], outcome)
           new == Append(log, e)
           n == Len(log) + 1
<1>1. Len(log) \in 1..Len(log) /\ DOMAIN log = 1..Len(log) /\ Len(log) \in Nat
  BY EmptySeq, LenProperties DEF NewestStart
<1>2. log[Len(log)] \in Receipt /\ log[Len(log)].req = r /\ log[Len(log)].status = "started"
  BY <1>1, ElementOfSeq DEF NewestStart
<1>3. /\ e \in Receipt /\ e.status = outcome /\ e.req = r
      /\ e.attempt = log[Len(log)].attempt
  BY <1>2 DEF EndReceipt, Receipt
<1> HIDE DEF e
<1>4. /\ DOMAIN new = 1..n /\ Len(new) = n /\ new \in Seq(Receipt)
      /\ \A i \in 1..Len(log) : new[i] = log[i]
      /\ new[n] = e
  BY <1>3, AppendProperties
<1>5. /\ \A q : StartsOf(new, q) = StartsOf(log, q)
      /\ StartedRequests(new) = StartedRequests(log)
      /\ FinishedRequests(new) \subseteq FinishedRequests(log) \cup {r}
  BY <1>3, AppendEnd
<1> HIDE DEF new
<1>6. AttemptsBounded(new)
  <2> SUFFICES ASSUME NEW i \in 1..n
               PROVE  new[i].attempt <= Cardinality(StartsOf(log, new[i].req))
    BY <1>4, <1>5 DEF AttemptsBounded
  <2>1. \A k \in 1..Len(log) : log[k].attempt <= Cardinality(StartsOf(log, log[k].req))
    BY <1>1 DEF LogOK, AttemptsBounded
  <2>2. QED
    BY <1>1, <1>2, <1>3, <1>4, <2>1
<1>7. FinishedRequests(new) \subseteq StartedRequests(new)
  <2>1. Len(log) \in StartsOf(log, r)
    BY <1>1, <1>2 DEF StartsOf
  <2>2. r \in StartedRequests(log)
    BY <2>1 DEF StartedRequests
  <2>3. QED
    BY <1>5, <2>2 DEF LogOK
<1>8. QED
  BY <1>3, <1>6, <1>7 DEF LogOK, new, e

\* A receipt that starts a request which is not finished completes nothing.
LEMMA StartNewest ==
  ASSUME NEW log \in Seq(Receipt), CompletedNewest(log), NEW e \in Receipt,
         e.status = "started", e.req \notin FinishedRequests(log)
  PROVE  CompletedNewest(Append(log, e))
<1> DEFINE new == Append(log, e)
           n == Len(log) + 1
<1>1. /\ DOMAIN log = 1..Len(log) /\ Len(log) \in Nat
      /\ DOMAIN new = 1..n
      /\ \A i \in 1..Len(log) : new[i] = log[i]
      /\ new[n] = e /\ e.req \in Requests
  BY AppendProperties DEF Receipt
<1> HIDE DEF new
<1>2. \A i \in 1..Len(log) : log[i].req = e.req => log[i].status # "completed"
  BY <1>1 DEF FinishedRequests, TerminalsOf
<1> SUFFICES ASSUME NEW i \in 1..n, NEW j \in 1..n,
                    new[i].status = "completed", new[j].req = new[i].req, j # i
             PROVE  /\ j < i
                    /\ new[j].status # "started" => new[j].attempt < new[i].attempt
  BY <1>1 DEF CompletedNewest, new
<1>3. i \in 1..Len(log) /\ new[i] = log[i]
  BY <1>1
<1>4. new[i].req # e.req
  BY <1>2, <1>3
<1>5. j \in 1..Len(log) /\ new[j] = log[j]
  BY <1>1, <1>4
<1>6. QED
  BY <1>1, <1>3, <1>5 DEF CompletedNewest

\* The terminal receipt of the newest call is the newest of its request.
LEMMA EndNewest ==
  ASSUME NEW log \in Seq(Receipt), CompletedNewest(log),
         NEW r \in Requests, NewestStart(log, r), NEW outcome \in {"completed", "failed"}
  PROVE  CompletedNewest(Append(log, EndReceipt(log[Len(log)], outcome)))
<1> DEFINE e == EndReceipt(log[Len(log)], outcome)
           new == Append(log, e)
           n == Len(log) + 1
<1>1. Len(log) \in 1..Len(log) /\ DOMAIN log = 1..Len(log) /\ Len(log) \in Nat
  BY EmptySeq, LenProperties DEF NewestStart
<1>2. log[Len(log)] \in Receipt /\ log[Len(log)].req = r /\ log[Len(log)].status = "started"
  BY <1>1, ElementOfSeq DEF NewestStart
<1>3. /\ e \in Receipt /\ e.status = outcome /\ e.req = r
      /\ e.attempt = log[Len(log)].attempt
  BY <1>2 DEF EndReceipt, Receipt
<1> HIDE DEF e
<1>4. /\ DOMAIN new = 1..n /\ Len(new) = n /\ new \in Seq(Receipt)
      /\ \A i \in 1..Len(log) : new[i] = log[i]
      /\ new[n] = e
  BY <1>3, AppendProperties
<1> HIDE DEF new
<1>5. \A i \in 1..Len(log) : log[i].req = r => log[i].status # "completed"
  BY <1>1, NewestUnfinished DEF FinishedRequests, TerminalsOf
<1>6. SUFFICES ASSUME NEW i \in 1..n, NEW j \in 1..n,
                      new[i].status = "completed", new[j].req = new[i].req, j # i
               PROVE  /\ j < i
                      /\ new[j].status # "started" => new[j].attempt < new[i].attempt
  BY <1>4 DEF CompletedNewest, new, e
<1>7. CASE i = n
  <2>1. j \in 1..Len(log) /\ new[j] = log[j] /\ log[j].req = r
    BY <1>1, <1>3, <1>4, <1>6, <1>7
  <2>2. new[j].status # "started" => log[j].attempt < log[Len(log)].attempt
    BY <1>1, <1>2, <2>1 DEF NewestStart
  <2>3. j < i
    BY <1>1, <1>7, <2>1
  <2>4. new[i].attempt = log[Len(log)].attempt
    BY <1>3, <1>4, <1>7
  <2>5. QED
    BY <2>1, <2>2, <2>3, <2>4
<1>8. CASE i # n
  <2>1. i \in 1..Len(log) /\ new[i] = log[i]
    BY <1>1, <1>4, <1>8
  <2>2. log[i].req # r
    BY <1>5, <1>6, <2>1
  <2>3. j \in 1..Len(log) /\ new[j] = log[j]
    BY <1>1, <1>3, <1>4, <1>6, <2>1, <2>2
  <2>4. QED
    BY <1>1, <1>6, <2>1, <2>3 DEF CompletedNewest
<1>9. QED
  BY <1>7, <1>8

\* Without an allow-list a completed request is refused.
LEMMA FinishedRefused ==
  ASSUME NEW log \in Seq(Receipt), CompletedNewest(log), NEW p, p.allowed = {},
         NEW r \in FinishedRequests(log)
  PROVE  Refusal(log, p, r) # "none"
<1> DEFINE T == TerminalsOf(log, r)
           maximal(m) == \A j \in T : log[j].attempt <= log[m].attempt
           c == CHOOSE i \in T : maximal(i)
<1>1. PICK i \in T : log[i].status = "completed"
  BY DEF FinishedRequests
<1>2. T \subseteq 1..Len(log) /\ DOMAIN log = 1..Len(log) /\ Len(log) \in Nat
  BY IndexSetsFinite
<1>3. \A j \in T : log[j].attempt \in Nat /\ log[j].req = r /\ log[j].status # "started"
  <2> SUFFICES ASSUME NEW j \in T
               PROVE  log[j].attempt \in Nat /\ log[j].req = r /\ log[j].status # "started"
    OBVIOUS
  <2>1. log[j] \in Receipt
    BY <1>2, ElementOfSeq
  <2>2. QED
    BY <2>1 DEF Receipt, TerminalsOf
<1>4. \A j \in T : j # i => log[j].attempt < log[i].attempt
  BY <1>1, <1>2, <1>3 DEF CompletedNewest
<1>5. maximal(i)
  BY <1>3, <1>4
<1>6. c \in T /\ maximal(c)
  <2> HIDE DEF maximal, T
  <2> QED
    BY <1>1, <1>5
<1>7. c = i
  <2>1. log[i].attempt <= log[c].attempt
    BY <1>1, <1>6
  <2> HIDE DEF c, T, maximal
  <2>2. QED
    BY <1>3, <1>4, <1>6, <2>1
<1>8. LatestStatus(log, r) = log[c].status
  BY <1>1 DEF LatestStatus
<1> HIDE DEF c, T, maximal
<1>9. IsRecovery(log, r)
  BY <1>1, <1>7, <1>8 DEF IsRecovery
<1>10. ~NoReplay(log, p, r)
  BY <1>9 DEF NoReplay, Allowed
<1>11. QED
  BY <1>10 DEF Refusal

-----------------------------------------------------------------------------
(* The files of a run. *)

(* FrontierHolds of one checkpoint. *)
Frontier(B, F, saved, run, phase) ==
  \E n \in 0..ProbeCount :
    /\ saved = 1..n
    /\ \A i \in Probes : /\ i <= n => ProbeOf(run, phase, i) \in F
                         /\ i > n + 1 => ProbeOf(run, phase, i) \notin B

NothingBegun(B, run, phase) == \A i \in Probes : ProbeOf(run, phase, i) \notin B

(* A checkpoint that is not there holds nothing, and was there before or     *)
(* nothing of its phase was asked.                                           *)
CheckpointsOK(B, F, ck, out, run) ==
  /\ \A phase \in {"pre", "post"} :
       IF ck[phase].exists THEN Frontier(B, F, ck[phase].saved, run, phase)
                           ELSE ck[phase].saved = {}
  /\ ~ck["pre"].exists /\ ~out.dir => NothingBegun(B, run, "pre")
  /\ ~ck["post"].exists /\ (ck["pre"].exists \/ ~out.dir) => NothingBegun(B, run, "post")

(* A run without an output directory has nothing but its first checkpoint.   *)
Virgin(B, ck, out, run) ==
  /\ out.record = "none" /\ out.profiles = "none" /\ out.measurement = "none"
  /\ ~ck["post"].exists
  /\ \A t \in Turns : TurnOf(run, t) \notin B

OutputOK(B, F, ck, out, run) ==
  /\ ~out.dir => Virgin(B, ck, out, run)
  /\ out.dir => /\ \A i \in Probes : ProbeOf(run, "pre", i) \in F
                /\ IF ck["pre"].exists THEN ck["pre"].saved = Probes
                                        ELSE out.profiles = "written"
  /\ out.record = "completed" => \A t \in Turns : TurnOf(run, t) \in F
  /\ out.profiles # "none" => out.record = "completed"
  /\ out.profiles # "none" /\ ck["pre"].exists => ck["post"].saved = Probes
  /\ out.profiles = "written" => \A r \in Requests : r.run = run => r \in F
  /\ out.measurement = "completed" => out.profiles = "written"

RunOK(B, F, ck, out, run) ==
  CheckpointsOK(B, F, ck, out, run) /\ OutputOK(B, F, ck, out, run)

(* No turn was sent twice. *)
TurnsOnce(log, run) ==
  \A t \in Turns : StartsOf(log, TurnOf(run, t)) # {} =>
    Cardinality(StartsOf(log, TurnOf(run, t))) = 1

FilesOK(log, ck, out, run) ==
  /\ RunOK(StartedRequests(log), FinishedRequests(log), ck, out, run)
  /\ TurnsOnce(log, run)

-----------------------------------------------------------------------------
(* The process. *)

(* The agents have taken the first turns, and at most the next is under way. *)
TurnsInOrder(B, F, p, c) ==
  \A t \in Turns :
    /\ t <= p.turns => TurnOf(p.run, t) \in F
    /\ t > p.turns => \/ TurnOf(p.run, t) \notin B
                      \/ t = p.turns + 1 /\ c # "none"
    /\ t > p.turns /\ c = "sent" => TurnOf(p.run, t) \notin F

AfterPre == {"pre", "turn", "turn_failed", "agent_failed", "open_post", "post",
             "post_failed", "profiling", "recording", "clear_pre"}
AfterPost == {"post", "profiling", "recording", "clear_pre", "clear_post"}
InTrajectory == {"turn", "turn_failed", "agent_failed"}
AfterTrajectory == {"open_post", "post", "post_failed", "profiling", "recording",
                    "clear_pre", "clear_post"}

StageOK(B, F, ck, out, p, c) ==
  /\ p.reuse => p.resume
  /\ p.at \in {"open_pre", "pre"} => p.turns = 0 /\ p.reuse = out.dir
  /\ p.at \in AfterPre => ck["pre"].exists
  /\ p.at \in AfterPost => ck["post"].exists
  /\ p.at \in InTrajectory \cup AfterTrajectory => out.dir
  /\ p.at \in InTrajectory => ~p.reuse
  /\ p.at \in InTrajectory \cup {"open_post", "post", "post_failed"} /\ ~p.reuse =>
       out.profiles = "none" /\ out.measurement = "none"
  /\ p.at \in AfterTrajectory => out.record = "completed"
  /\ p.at = "post_failed" => out.measurement # "completed"
  /\ p.at = "profiling" => out.profiles = "partial"
  /\ p.at \in {"recording", "clear_pre", "clear_post"} => out.profiles = "written"
  /\ p.at \in {"clear_pre", "clear_post"} => out.measurement = "completed"
  /\ p.at = "clear_post" => ~ck["pre"].exists
  /\ p.at = "turn" => TurnsInOrder(B, F, p, c)

Begun == StartedRequests(Log)
Finished == FinishedRequests(Log)
Ck == checkpoint[proc.run]
Out == output[proc.run]

CallOK ==
  /\ call # "none" => proc.at \in {"pre", "turn", "post"} /\ PhaseLeft
  /\ call = "sent" => NewestStart(Log, Pending)
  /\ call = "answered" => Pending \in Finished

ProcOK ==
  /\ proc.at # "idle" => proc.run \in Runs
  /\ proc.at \notin {"idle", "returned"} => StageOK(Begun, Finished, Ck, Out, proc, call)
  /\ CallOK

(* The inductive invariant. *)
RunInv ==
  /\ TypeOK
  /\ \A f \in Files : LogOK(ledger[f])
  /\ \A run \in Runs :
       FilesOK(ledger[LedgerOf[run]], checkpoint[run], output[run], run)
  /\ ProcOK

\* Nothing was written yet.
LEMMA InvInit == Init => RunInv
<1> SUFFICES ASSUME Init PROVE RunInv
  OBVIOUS
<1>1. TypeOK
  BY RunAssumption DEF Init, TypeOK, Checkpoint, NoCheckpoint, Output, NoOutput, Process,
    Idle, Steps, Results, Errors, Provider
<1>2. ASSUME NEW f \in Files PROVE LogOK(ledger[f])
  BY <1>2 DEF Init, LogOK, AttemptsBounded, FinishedRequests, TerminalsOf
<1>3. ASSUME NEW run \in Runs
      PROVE  FilesOK(ledger[LedgerOf[run]], checkpoint[run], output[run], run)
  <2>1. LedgerOf[run] \in Files /\ ledger[LedgerOf[run]] = <<>>
    BY DEF Files, Init
  <2>2. \A r : StartsOf(<<>>, r) = {}
    BY DEF StartsOf
  <2>3. StartedRequests(<<>>) = {}
    BY <2>2 DEF StartedRequests
  <2>4. checkpoint[run] = [ph \in {"pre", "post"} |-> NoCheckpoint] /\ output[run] = NoOutput
    BY DEF Init
  <2>5. QED
    BY <2>1, <2>2, <2>3, <2>4 DEF FilesOK, RunOK, CheckpointsOK, NothingBegun, OutputOK,
      Virgin, TurnsOnce, NoCheckpoint, NoOutput
<1>4. ProcOK
  BY DEF Init, ProcOK, CallOK, Idle
<1>5. QED
  BY <1>1, <1>2, <1>3, <1>4 DEF RunInv

-----------------------------------------------------------------------------
(* Coordinates, fields and what a request comes to. *)

\* Every request is a probe or a turn of a run.
LEMMA Coordinates ==
  /\ \A run \in Runs : \A phase \in {"pre", "post"} : \A i \in Probes :
       /\ ProbeOf(run, phase, i) \in Requests
       /\ ProbeOf(run, phase, i).run = run
       /\ ProbeOf(run, phase, i).phase = phase
       /\ ProbeOf(run, phase, i).at = i
  /\ \A run \in Runs : \A t \in Turns :
       /\ TurnOf(run, t) \in Requests
       /\ TurnOf(run, t).run = run
       /\ TurnOf(run, t).phase = "turn"
       /\ TurnOf(run, t).at = t
  /\ \A r \in Requests : \/ \E phase \in {"pre", "post"}, i \in Probes :
                              r = ProbeOf(r.run, phase, i)
                         \/ \E t \in Turns : r = TurnOf(r.run, t)
  /\ \A r \in Requests : r.run \in Runs
BY DEF Requests, ProbeOf, TurnOf

\* What the invariant says of the running process and its run.
LEMMA Setting ==
  ASSUME RunInv, proc.at # "idle"
  PROVE  /\ proc.run \in Runs /\ LedgerOf[proc.run] \in Files
         /\ Log \in Seq(Receipt) /\ LogOK(Log)
         /\ RunOK(Begun, Finished, Ck, Out, proc.run) /\ TurnsOnce(Log, proc.run)
         /\ Finished \subseteq Begun /\ Begun \subseteq Requests
         /\ Ck \in [{"pre", "post"} -> Checkpoint] /\ Out \in Output /\ proc \in Process
         /\ proc.at # "returned" => StageOK(Begun, Finished, Ck, Out, proc, call)
<1>1. proc.run \in Runs /\ LedgerOf[proc.run] \in Files
  BY DEF RunInv, ProcOK, Files
<1>2. Log \in Seq(Receipt) /\ LogOK(Log)
  BY <1>1 DEF RunInv, TypeOK, Log
<1>3. RunOK(Begun, Finished, Ck, Out, proc.run) /\ TurnsOnce(Log, proc.run)
  BY <1>1 DEF RunInv, FilesOK, Begun, Finished, Ck, Out, Log
<1>4. Finished \subseteq Begun /\ Begun \subseteq Requests
  BY <1>2 DEF LogOK, Begun, Finished, StartedRequests
<1>5. Ck \in [{"pre", "post"} -> Checkpoint] /\ Out \in Output /\ proc \in Process
  BY <1>1 DEF RunInv, TypeOK, Ck, Out
<1>6. QED
  BY <1>1, <1>2, <1>3, <1>4, <1>5 DEF RunInv, ProcOK

\* The first probe that is not saved is the one after those that are.
LEMMA MinFrontier ==
  ASSUME NEW n \in 0..ProbeCount, 1..n # Probes
  PROVE  n + 1 \in Probes /\ Min(Probes \ (1..n)) = n + 1
<1>1. n < ProbeCount /\ n \in Nat /\ ProbeCount \in Nat
  BY RunAssumption DEF Probes
<1>2. n + 1 \in Probes /\ n + 1 \in Probes \ (1..n) /\ n + 1 \in Int
  BY <1>1 DEF Probes
<1>3. \A i \in Probes \ (1..n) : i \in Int /\ n + 1 <= i
  BY <1>1 DEF Probes
<1> DEFINE S == Probes \ (1..n)
           m == CHOOSE x \in S : \A y \in S : x <= y
<1>4. m \in S /\ \A y \in S : m <= y
  <2> HIDE DEF S
  <2> QED
    BY <1>2, <1>3 DEF S
<1>5. Min(S) = m
  BY DEF Min
<1> HIDE DEF m, S
<1>6. m = n + 1
  BY <1>2, <1>3, <1>4 DEF S
<1>7. QED
  BY <1>2, <1>5, <1>6 DEF S

\* What the process asks next, while something of its phase is left.
LEMMA PendingIs ==
  ASSUME RunInv, proc.at \in {"pre", "turn", "post"}, PhaseLeft
  PROVE  /\ Pending \in Requests /\ Pending.run = proc.run
         /\ proc.at = "turn" => /\ proc.turns + 1 \in Turns
                                /\ Pending = TurnOf(proc.run, proc.turns + 1)
         /\ proc.at # "turn" =>
              \E n \in 0..ProbeCount :
                /\ Ck[proc.at].saved = 1..n
                /\ n + 1 \in Probes /\ Pending = ProbeOf(proc.run, proc.at, n + 1)
                /\ \A i \in Probes :
                     /\ i <= n => ProbeOf(proc.run, proc.at, i) \in Finished
                     /\ i > n + 1 => ProbeOf(proc.run, proc.at, i) \notin Begun
<1>1. CASE proc.at = "turn"
  <2>1. proc.run \in Runs /\ proc.turns \in 0..TurnCount /\ proc.turns < TurnCount
    BY <1>1, Setting DEF PhaseLeft, Probing, Process
  <2>2. proc.turns + 1 \in Turns
    BY <2>1, RunAssumption DEF Turns
  <2>3. Pending = TurnOf(proc.run, proc.turns + 1)
    BY <1>1 DEF Pending, Probing, TurnOf
  <2>4. QED
    BY <1>1, <2>1, <2>2, <2>3, Coordinates
<1>2. CASE proc.at \in {"pre", "post"}
  <2>1. /\ proc.run \in Runs /\ File(proc.at) = Ck[proc.at] /\ Probing
        /\ Ck[proc.at].saved # Probes
    BY <1>2, Setting DEF PhaseLeft, Probing, File, Ck
  <2>2. Ck[proc.at].exists
    BY <1>2, Setting DEF StageOK, AfterPre, AfterPost
  <2>3. Frontier(Begun, Finished, Ck[proc.at].saved, proc.run, proc.at)
    BY <1>2, <2>2, Setting DEF RunOK, CheckpointsOK
  <2>4. PICK n \in 0..ProbeCount :
          /\ Ck[proc.at].saved = 1..n
          /\ \A i \in Probes :
               /\ i <= n => ProbeOf(proc.run, proc.at, i) \in Finished
               /\ i > n + 1 => ProbeOf(proc.run, proc.at, i) \notin Begun
    BY <2>3 DEF Frontier
  <2>5. n + 1 \in Probes /\ Min(Probes \ (1..n)) = n + 1
    BY <2>1, <2>4, MinFrontier
  <2>6. Pending = ProbeOf(proc.run, proc.at, n + 1)
    BY <2>1, <2>4, <2>5 DEF Pending, ProbeOf
  <2>7. QED
    BY <1>2, <2>1, <2>4, <2>5, <2>6, Coordinates
<1>3. QED
  BY <1>1, <1>2

-----------------------------------------------------------------------------
(* What the steps have in common. *)

\* What was started and completed for other runs does not matter to a run.
LEMMA OtherRun ==
  ASSUME NEW run \in Runs, NEW B, NEW F, NEW B2, NEW F2, NEW ck, NEW out,
         \A r \in Requests : r.run = run => (r \in B <=> r \in B2) /\ (r \in F <=> r \in F2),
         RunOK(B, F, ck, out, run)
  PROVE  RunOK(B2, F2, ck, out, run)
<1>1. /\ \A phase \in {"pre", "post"} : \A i \in Probes :
           /\ ProbeOf(run, phase, i) \in B <=> ProbeOf(run, phase, i) \in B2
           /\ ProbeOf(run, phase, i) \in F <=> ProbeOf(run, phase, i) \in F2
      /\ \A t \in Turns : /\ TurnOf(run, t) \in B <=> TurnOf(run, t) \in B2
                          /\ TurnOf(run, t) \in F <=> TurnOf(run, t) \in F2
  BY Coordinates
<1>2. ASSUME NEW phase \in {"pre", "post"}, Frontier(B, F, ck[phase].saved, run, phase)
      PROVE  Frontier(B2, F2, ck[phase].saved, run, phase)
  BY <1>1, <1>2 DEF Frontier
<1>3. CheckpointsOK(B2, F2, ck, out, run)
  BY <1>1, <1>2 DEF RunOK, CheckpointsOK, NothingBegun
<1>4. OutputOK(B2, F2, ck, out, run)
  BY <1>1 DEF RunOK, OutputOK, Virgin
<1>5. QED
  BY <1>3, <1>4 DEF RunOK

\* A step that leaves the ledger alone and ends no call in flight, by what it
\* does to the files of the running run.
LEMMA FilesStep ==
  ASSUME RunInv, proc.at # "idle", UNCHANGED ledger,
         NEW ck \in [{"pre", "post"} -> Checkpoint], NEW out \in Output,
         checkpoint' = [checkpoint EXCEPT ![proc.run] = ck],
         output' = [output EXCEPT ![proc.run] = out],
         RunOK(Begun, Finished, ck, out, proc.run),
         proc' \in Process, proc'.run = proc.run, proc'.provider = proc.provider,
         proc'.at \notin {"idle", "returned"} =>
           StageOK(Begun, Finished, ck, out, proc', "none"),
         call' = "none", faults' \in 0..MaxFaults
  PROVE  RunInv'
<1>1. /\ proc.run \in Runs /\ LedgerOf[proc.run] \in Files
      /\ TurnsOnce(Log, proc.run)
  BY Setting
<1>2. /\ checkpoint' \in [Runs -> [{"pre", "post"} -> Checkpoint]]
      /\ output' \in [Runs -> Output]
      /\ checkpoint'[proc.run] = ck /\ output'[proc.run] = out
      /\ \A run \in Runs : run # proc.run =>
           checkpoint'[run] = checkpoint[run] /\ output'[run] = output[run]
  BY <1>1 DEF RunInv, TypeOK
<1>3. TypeOK'
  BY <1>2 DEF RunInv, TypeOK
<1>4. \A f \in Files : LogOK(ledger'[f])
  BY DEF RunInv
<1>5. ASSUME NEW run \in Runs
      PROVE  FilesOK(ledger'[LedgerOf[run]], checkpoint'[run], output'[run], run)
  <2>1. CASE run = proc.run
    BY <1>1, <1>2, <2>1 DEF FilesOK, Begun, Finished, Log
  <2>2. CASE run # proc.run
    BY <1>2, <2>2 DEF RunInv
  <2>3. QED
    BY <2>1, <2>2
<1>6. ProcOK'
  <2>1. Begun' = Begun /\ Finished' = Finished /\ Ck' = ck /\ Out' = out
    BY <1>2 DEF Begun, Finished, Log, Ck, Out
  <2>2. CallOK'
    BY DEF CallOK
  <2>3. QED
    BY <1>1, <2>1, <2>2 DEF ProcOK
<1>7. QED
  BY <1>3, <1>4, <1>5, <1>6 DEF RunInv

\* A step that writes a receipt of the running run.
LEMMA LedgerStep ==
  ASSUME RunInv, proc.at # "idle", NEW e \in Receipt, e.req.run = proc.run,
         ledger' = [ledger EXCEPT ![LedgerOf[proc.run]] = Append(@, e)],
         UNCHANGED <<checkpoint, output>>,
         LogOK(Append(Log, e)),
         RunOK(StartedRequests(Append(Log, e)), FinishedRequests(Append(Log, e)),
               Ck, Out, proc.run),
         TurnsOnce(Append(Log, e), proc.run),
         proc' \in Process, proc'.run = proc.run,
         proc'.at \notin {"idle", "returned"} =>
           StageOK(StartedRequests(Append(Log, e)), FinishedRequests(Append(Log, e)),
                   Ck, Out, proc', call'),
         CallOK', call' \in {"none", "sent", "answered"}, faults' \in 0..MaxFaults
  PROVE  RunInv'
<1>1. /\ proc.run \in Runs /\ LedgerOf[proc.run] \in Files
      /\ Log \in Seq(Receipt)
  BY Setting
<1>2. /\ ledger'[LedgerOf[proc.run]] = Append(Log, e)
      /\ \A f \in Files : f # LedgerOf[proc.run] => ledger'[f] = ledger[f]
      /\ ledger' \in [Files -> Seq(Receipt)]
  <2>1. Append(Log, e) \in Seq(Receipt)
    BY <1>1, AppendProperties
  <2>2. ledger' = [ledger EXCEPT ![LedgerOf[proc.run]] = Append(Log, e)]
    BY DEF Log
  <2>3. QED
    BY <1>1, <2>1, <2>2 DEF RunInv, TypeOK
<1>3. TypeOK'
  BY <1>2 DEF RunInv, TypeOK
<1>4. \A f \in Files : LogOK(ledger'[f])
  BY <1>2 DEF RunInv
<1>5. ASSUME NEW run \in Runs
      PROVE  FilesOK(ledger'[LedgerOf[run]], checkpoint'[run], output'[run], run)
  <2>0. FilesOK(ledger[LedgerOf[run]], checkpoint[run], output[run], run)
    BY DEF RunInv
  <2>1. CASE run = proc.run
    BY <1>2, <2>1 DEF FilesOK, Ck, Out
  <2>2. CASE LedgerOf[run] # LedgerOf[proc.run]
    <3>1. LedgerOf[run] \in Files
      BY DEF Files
    <3>2. QED
      BY <1>2, <2>0, <2>2, <3>1
  <2>3. CASE run # proc.run /\ LedgerOf[run] = LedgerOf[proc.run]
    <3>1. /\ ledger[LedgerOf[run]] = Log
          /\ ledger'[LedgerOf[run]] = Append(Log, e)
      BY <1>2, <2>3 DEF Log
    <3>2. \A r \in Requests : r.run = run =>
            /\ StartsOf(Append(Log, e), r) = StartsOf(Log, r)
            /\ r \in StartedRequests(Log) <=> r \in StartedRequests(Append(Log, e))
            /\ r \in FinishedRequests(Log) <=> r \in FinishedRequests(Append(Log, e))
      <4>1. CASE e.status = "started"
        <5>1. /\ \A r : StartsOf(Append(Log, e), r)
                   = StartsOf(Log, r) \cup (IF e.req = r THEN {Len(Log) + 1} ELSE {})
              /\ StartedRequests(Append(Log, e)) = StartedRequests(Log) \cup {e.req}
              /\ FinishedRequests(Append(Log, e)) = FinishedRequests(Log)
          BY <1>1, <4>1, AppendStart
        <5>2. QED
          BY <2>3, <5>1
      <4>2. CASE e.status # "started"
        <5>1. /\ \A r : StartsOf(Append(Log, e), r) = StartsOf(Log, r)
              /\ StartedRequests(Append(Log, e)) = StartedRequests(Log)
              /\ FinishedRequests(Append(Log, e)) = FinishedRequests(Log)
                   \cup (IF e.status = "completed" THEN {e.req} ELSE {})
          BY <1>1, <4>2, AppendEnd
        <5>2. QED
          BY <2>3, <5>1
      <4>3. QED
        BY <4>1, <4>2
    <3>3. RunOK(StartedRequests(Log), FinishedRequests(Log), checkpoint[run], output[run], run)
          /\ TurnsOnce(Log, run)
      BY <2>0, <3>1 DEF FilesOK
    <3>4. RunOK(StartedRequests(Append(Log, e)), FinishedRequests(Append(Log, e)),
                checkpoint[run], output[run], run)
      BY <3>2, <3>3, OtherRun
    <3>5. TurnsOnce(Append(Log, e), run)
      <4>1. \A t \in Turns : StartsOf(Append(Log, e), TurnOf(run, t))
                               = StartsOf(Log, TurnOf(run, t))
        BY <3>2, Coordinates
      <4>2. QED
        BY <3>3, <4>1 DEF TurnsOnce
    <3>6. QED
      BY <3>1, <3>4, <3>5 DEF FilesOK
  <2>4. QED
    BY <2>1, <2>2, <2>3
<1>6. ProcOK'
  <2>1. /\ Begun' = StartedRequests(Append(Log, e))
        /\ Finished' = FinishedRequests(Append(Log, e))
        /\ Ck' = Ck /\ Out' = Out
    BY <1>2 DEF Begun, Finished, Log, Ck, Out
  <2>2. QED
    BY <1>1, <2>1 DEF ProcOK
<1>7. QED
  BY <1>3, <1>4, <1>5, <1>6 DEF RunInv

\* The process moves on.
LEMMA Moves ==
  ASSUME proc \in Process, NEW s \in Steps, proc' = [proc EXCEPT !.at = s]
  PROVE  /\ proc' \in Process /\ proc'.at = s /\ proc'.run = proc.run
         /\ proc'.resume = proc.resume /\ proc'.reuse = proc.reuse
         /\ proc'.provider = proc.provider /\ proc'.turns = proc.turns
BY DEF Process

\* The process returns.
LEMMA Leaves ==
  ASSUME proc \in Process, NEW result \in Results, NEW error \in Errors,
         Leave(result, error)
  PROVE  /\ proc' \in Process /\ proc'.at = "returned" /\ proc'.run = proc.run
         /\ proc'.provider = proc.provider
BY DEF Process, Leave, Steps

\* A failure leaves the files in a state its handler may find them in.
LEMMA Fails ==
  ASSUME proc \in Process, NEW error \in Errors, Fail(error),
         proc.at \in {"open_pre", "pre", "turn", "open_post", "post"},
         NEW B, NEW F, NEW B2, NEW F2, NEW ck, NEW out, NEW c,
         StageOK(B, F, ck, out, proc, c),
         proc.at \in {"open_post", "post"} => out.measurement # "completed"
  PROVE  /\ proc' \in Process /\ proc'.at # "idle" /\ proc'.run = proc.run
         /\ proc'.provider = proc.provider
         /\ proc'.at # "returned" => StageOK(B2, F2, ck, out, proc', "none")
<1>1. CASE proc.at \in {"open_pre", "pre"}
  <2>1. Leave("pre_probe_failed", error)
    BY <1>1 DEF Fail
  <2>2. QED
    BY <2>1, Leaves DEF Results
<1>2. CASE proc.at = "turn"
  <2>1. proc' = [proc EXCEPT !.at = "turn_failed"]
    BY <1>2 DEF Fail
  <2>2. /\ proc' \in Process /\ proc'.at = "turn_failed" /\ proc'.run = proc.run
        /\ proc'.resume = proc.resume /\ proc'.reuse = proc.reuse
        /\ proc'.provider = proc.provider
    BY <2>1, Moves DEF Steps
  <2>3. StageOK(B2, F2, ck, out, proc', "none")
    BY <1>2, <2>2 DEF StageOK, AfterPre, AfterPost, InTrajectory, AfterTrajectory
  <2>4. QED
    BY <2>2, <2>3
<1>3. CASE proc.at \in {"open_post", "post"}
  <2>1. proc' = [proc EXCEPT !.at = "post_failed", !.error = error]
    BY <1>3 DEF Fail
  <2>2. /\ proc' \in Process /\ proc'.at = "post_failed" /\ proc'.run = proc.run
        /\ proc'.resume = proc.resume /\ proc'.reuse = proc.reuse
        /\ proc'.provider = proc.provider
    BY <2>1 DEF Process, Steps
  <2>3. StageOK(B2, F2, ck, out, proc', "none")
    BY <1>3, <2>2 DEF StageOK, AfterPre, AfterPost, InTrajectory, AfterTrajectory
  <2>4. QED
    BY <2>2, <2>3
<1>4. QED
  BY <1>1, <1>2, <1>3

\* A step that leaves every file alone.
LEMMA QuietStep ==
  ASSUME RunInv, proc.at # "idle", UNCHANGED <<ledger, checkpoint, output>>,
         proc' \in Process, proc'.run = proc.run, proc'.provider = proc.provider,
         proc'.at \notin {"idle", "returned"} =>
           StageOK(Begun, Finished, Ck, Out, proc', "none"),
         call' = "none", faults' \in 0..MaxFaults
  PROVE  RunInv'
<1>1. /\ Ck \in [{"pre", "post"} -> Checkpoint] /\ Out \in Output /\ proc.run \in Runs
      /\ RunOK(Begun, Finished, Ck, Out, proc.run)
  BY Setting
<1>2. /\ checkpoint' = [checkpoint EXCEPT ![proc.run] = Ck]
      /\ output' = [output EXCEPT ![proc.run] = Out]
  BY DEF RunInv, TypeOK, Ck, Out
<1>3. QED
  BY <1>1, <1>2, FilesStep

\* Outside the loops, and when a loop is done, no call is in flight.
LEMMA NoCall ==
  ASSUME RunInv, proc.at \notin {"pre", "turn", "post"} \/ ~PhaseLeft
  PROVE  call = "none"
BY DEF RunInv, ProcOK, CallOK

\* A fault is counted.
LEMMA FaultCounted ==
  ASSUME RunInv, NEW kind, Fault(kind) PROVE faults' \in 0..MaxFaults
BY RunAssumption DEF RunInv, TypeOK, Fault

\* The final phase has something left only of a measurement that is not out.
LEMMA PostLeft ==
  ASSUME RunInv, proc.at = "post", PhaseLeft
  PROVE  Out.measurement # "completed"
<1>1. Ck["post"].saved # Probes
  BY DEF PhaseLeft, Probing, File, Ck
<1>2. Ck["pre"].exists
  BY Setting DEF StageOK, AfterPre
<1>3. QED
  BY <1>1, <1>2, Setting DEF RunOK, OutputOK

-----------------------------------------------------------------------------
(* The steps that open and fill a checkpoint. *)

\* A fresh run finds nothing of its first phase begun, a resumed one its frontier.
LEMMA OpenCheckpointStep == ASSUME RunInv, OpenCheckpoint PROVE RunInv'
<1> DEFINE ph == OpeningPhase
           ck == [Ck EXCEPT ![ph].exists = TRUE]
<1>1. /\ proc.at \in {"open_pre", "open_post"}
      /\ ph = IF proc.at = "open_pre" THEN "pre" ELSE "post"
      /\ proc' = [proc EXCEPT !.at = ph]
      /\ OpenRefusal(ph) = "none"
      /\ UNCHANGED <<ledger, output, call, faults>>
  BY DEF OpenCheckpoint, OpeningPhase
<1>2. /\ proc.run \in Runs
      /\ RunOK(Begun, Finished, Ck, Out, proc.run)
      /\ Ck \in [{"pre", "post"} -> Checkpoint] /\ Out \in Output /\ proc \in Process
      /\ StageOK(Begun, Finished, Ck, Out, proc, call)
  BY <1>1, Setting
<1>3. checkpoint' = [checkpoint EXCEPT ![proc.run] = ck]
  BY DEF OpenCheckpoint, Ck
<1> HIDE DEF ph
<1>4. /\ ck \in [{"pre", "post"} -> Checkpoint] /\ ph \in {"pre", "post"}
      /\ ck[ph].exists /\ ck[ph].saved = Ck[ph].saved
      /\ \A phase \in {"pre", "post"} : phase # ph => ck[phase] = Ck[phase]
  BY <1>1, <1>2 DEF Checkpoint
<1> HIDE DEF ck
<1>5. /\ proc' \in Process /\ proc'.at = ph /\ proc'.run = proc.run
      /\ proc'.resume = proc.resume /\ proc'.reuse = proc.reuse
      /\ proc'.provider = proc.provider /\ proc'.turns = proc.turns
  BY <1>1, <1>2, <1>4, Moves DEF Steps
<1>6. ~Ck[ph].exists => (ph = "pre" => ~Out.dir)
  BY <1>1, <1>2 DEF OpenRefusal, File, StageOK, Ck
<1>7. ph = "post" => Ck["pre"].exists /\ Out.dir
  BY <1>1, <1>2 DEF StageOK, AfterPre, AfterTrajectory
<1>8. ~Ck[ph].exists => NothingBegun(Begun, proc.run, ph)
  BY <1>2, <1>4, <1>6, <1>7 DEF RunOK, CheckpointsOK
<1>9. Frontier(Begun, Finished, ck[ph].saved, proc.run, ph)
  <2>1. CASE Ck[ph].exists
    BY <1>2, <1>4, <2>1 DEF RunOK, CheckpointsOK
  <2>2. CASE ~Ck[ph].exists
    <3>1. ck[ph].saved = 1..0 /\ 0 \in 0..ProbeCount
      BY <1>2, <1>4, <2>2, RunAssumption DEF RunOK, CheckpointsOK
    <3>2. \A i \in Probes : ~(i <= 0)
      BY DEF Probes
    <3>3. QED
      BY <1>8, <2>2, <3>1, <3>2 DEF Frontier, NothingBegun
  <2>3. QED
    BY <2>1, <2>2
<1>10. CheckpointsOK(Begun, Finished, ck, Out, proc.run)
  BY <1>2, <1>4, <1>6, <1>9 DEF RunOK, CheckpointsOK
<1>11. OutputOK(Begun, Finished, ck, Out, proc.run)
  BY <1>2, <1>4, <1>6, <1>7 DEF RunOK, OutputOK, Virgin
<1>12. StageOK(Begun, Finished, ck, Out, proc', "none")
  BY <1>1, <1>2, <1>4, <1>5, <1>7 DEF StageOK, AfterPre, AfterPost, InTrajectory, AfterTrajectory
<1>13. call' = "none" /\ faults' \in 0..MaxFaults
  BY <1>1, NoCall DEF RunInv, TypeOK
<1>14. output' = [output EXCEPT ![proc.run] = Out]
  BY <1>1, <1>2 DEF RunInv, TypeOK, Out
<1>15. QED
  BY <1>1, <1>2, <1>3, <1>4, <1>5, <1>10, <1>11, <1>12, <1>13, <1>14, FilesStep DEF RunOK

\* A refused checkpoint ends the launch, or fails its second phase.
LEMMA RefuseCheckpointStep == ASSUME RunInv, RefuseCheckpoint PROVE RunInv'
<1>1. /\ proc.at \in {"open_pre", "open_post"} /\ Fail(OpenRefusal(OpeningPhase))
      /\ OpenRefusal(OpeningPhase) # "none"
      /\ UNCHANGED <<ledger, checkpoint, output, call, faults>>
  BY DEF RefuseCheckpoint
<1>2. OpenRefusal(OpeningPhase) \in Errors
  BY <1>1 DEF OpenRefusal, Errors
<1>3. /\ proc \in Process /\ StageOK(Begun, Finished, Ck, Out, proc, call)
  BY <1>1, Setting
<1>4. proc.at \in {"open_post", "post"} => Out.measurement # "completed"
  <2> SUFFICES ASSUME proc.at = "open_post" PROVE Out.measurement # "completed"
    BY <1>1
  <2>1. ~proc.resume
    BY <1>1 DEF OpenRefusal, OpeningPhase
  <2>2. QED
    BY <1>3, <2>1 DEF StageOK
<1>5. /\ proc' \in Process /\ proc'.at # "idle" /\ proc'.run = proc.run
      /\ proc'.provider = proc.provider
      /\ proc'.at # "returned" => StageOK(Begun, Finished, Ck, Out, proc', "none")
  BY <1>1, <1>2, <1>3, <1>4, Fails
<1>6. call' = "none" /\ faults' \in 0..MaxFaults
  BY <1>1, NoCall DEF RunInv, TypeOK
<1>7. QED
  BY <1>1, <1>5, <1>6, QuietStep

\* The answered probe is the next one, so the frontier moves by one.
LEMMA SaveAnswerStep == ASSUME RunInv, SaveAnswer PROVE RunInv'
<1> DEFINE ph == proc.at
           ck == [Ck EXCEPT ![ph].saved = @ \cup {Pending.at}]
<1>1. /\ ph \in {"pre", "post"} /\ call = "answered" /\ call' = "none"
      /\ UNCHANGED <<ledger, output, proc, faults>>
  BY DEF SaveAnswer, Probing
<1>2. /\ proc.run \in Runs
      /\ RunOK(Begun, Finished, Ck, Out, proc.run)
      /\ Ck \in [{"pre", "post"} -> Checkpoint] /\ Out \in Output /\ proc \in Process
      /\ StageOK(Begun, Finished, Ck, Out, proc, call)
  BY <1>1, Setting
<1>3. PhaseLeft /\ Pending \in Finished
  BY <1>1 DEF RunInv, ProcOK, CallOK
<1>4. PICK n \in 0..ProbeCount :
        /\ Ck[ph].saved = 1..n
        /\ n + 1 \in Probes /\ Pending = ProbeOf(proc.run, ph, n + 1)
        /\ \A i \in Probes :
             /\ i <= n => ProbeOf(proc.run, ph, i) \in Finished
             /\ i > n + 1 => ProbeOf(proc.run, ph, i) \notin Begun
  BY <1>1, <1>3, PendingIs
<1>5. Pending.at = n + 1
  BY <1>1, <1>2, <1>4, Coordinates
<1>6. checkpoint' = [checkpoint EXCEPT ![proc.run] = ck]
  BY DEF SaveAnswer, Ck
<1>7. /\ ck \in [{"pre", "post"} -> Checkpoint]
      /\ ck[ph].exists = Ck[ph].exists /\ ck[ph].saved = 1..(n + 1)
      /\ \A phase \in {"pre", "post"} : phase # ph => ck[phase] = Ck[phase]
  <2>1. ck[ph] = [Ck[ph] EXCEPT !.saved = (1..n) \cup {n + 1}]
    BY <1>1, <1>2, <1>4, <1>5
  <2>2. (1..n) \cup {n + 1} = 1..(n + 1) /\ (1..(n + 1)) \subseteq Probes
    BY <1>4, RunAssumption DEF Probes
  <2>3. Ck[ph] \in Checkpoint
    BY <1>1, <1>2
  <2>4. ck[ph] \in Checkpoint /\ ck[ph].exists = Ck[ph].exists /\ ck[ph].saved = 1..(n + 1)
    BY <2>1, <2>2, <2>3 DEF Checkpoint
  <2>5. QED
    BY <1>1, <1>2, <2>4
<1> HIDE DEF ck
<1>8. Ck[ph].exists
  BY <1>1, <1>2 DEF StageOK, AfterPre, AfterPost
<1>9. Frontier(Begun, Finished, ck[ph].saved, proc.run, ph)
  <2>1. n + 1 \in 0..ProbeCount
    BY <1>4, RunAssumption DEF Probes
  <2>2. ASSUME NEW i \in Probes
        PROVE  /\ i <= n + 1 => ProbeOf(proc.run, ph, i) \in Finished
               /\ i > n + 1 + 1 => ProbeOf(proc.run, ph, i) \notin Begun
    <3>1. i <= n + 1 => i <= n \/ i = n + 1
      BY <1>4 DEF Probes
    <3>2. i > n + 1 + 1 => i > n + 1
      BY <1>4 DEF Probes
    <3>3. QED
      BY <1>3, <1>4, <3>1, <3>2
  <2>3. QED
    BY <1>7, <2>1, <2>2 DEF Frontier
<1>10. CheckpointsOK(Begun, Finished, ck, Out, proc.run)
  BY <1>1, <1>2, <1>7, <1>8, <1>9 DEF RunOK, CheckpointsOK
<1>11. Ck[ph].saved # Probes
  BY <1>1, <1>3 DEF PhaseLeft, Probing, File, Ck
<1>12. OutputOK(Begun, Finished, ck, Out, proc.run)
  <2>1. Ck["pre"].exists
    BY <1>1, <1>2 DEF StageOK, AfterPre
  <2>2. CASE ph = "pre"
    <3>1. ~Out.dir
      BY <1>2, <1>11, <2>1, <2>2 DEF RunOK, OutputOK
    <3>2. QED
      BY <1>2, <1>7, <2>2, <3>1 DEF RunOK, OutputOK, Virgin
  <2>3. CASE ph = "post"
    <3>1. Out.profiles = "none"
      BY <1>2, <1>11, <2>1, <2>3 DEF RunOK, OutputOK
    <3>2. QED
      BY <1>2, <1>7, <1>8, <2>3, <3>1 DEF RunOK, OutputOK, Virgin
  <2>4. QED
    BY <1>1, <2>2, <2>3
<1>13. StageOK(Begun, Finished, ck, Out, proc', "none")
  BY <1>1, <1>2, <1>7 DEF StageOK, AfterPre, AfterPost, InTrajectory, AfterTrajectory
<1>14. faults' \in 0..MaxFaults
  BY <1>1 DEF RunInv, TypeOK
<1>15. output' = [output EXCEPT ![proc.run] = Out]
  BY <1>1, <1>2 DEF RunInv, TypeOK, Out
<1>16. QED
  BY <1>1, <1>2, <1>6, <1>7, <1>10, <1>12, <1>13, <1>14, <1>15, FilesStep DEF RunOK

\* A checkpoint that cannot be written leaves the files as they were.
LEMMA SaveFailsStep == ASSUME RunInv, SaveFails PROVE RunInv'
<1>1. /\ proc.at \in {"open_pre", "pre", "open_post", "post"}
      /\ Fail("checkpoint_write_failed") /\ Fault("save") /\ call' = "none"
      /\ UNCHANGED <<ledger, checkpoint, output>>
      /\ \/ proc.at \in {"pre", "post"} /\ call = "answered"
         \/ /\ proc.at \in {"open_pre", "open_post"}
            /\ ~File(OpeningPhase).exists
  BY DEF SaveFails, Probing
<1>2. proc \in Process /\ StageOK(Begun, Finished, Ck, Out, proc, call)
      /\ RunOK(Begun, Finished, Ck, Out, proc.run)
  BY <1>1, Setting
<1>3. proc.at \in {"open_post", "post"} => Out.measurement # "completed"
  <2>1. CASE proc.at = "post"
    <3>1. PhaseLeft
      BY <1>1, <2>1 DEF RunInv, ProcOK, CallOK
    <3>2. QED
      BY <2>1, <3>1, PostLeft
  <2>2. CASE proc.at = "open_post"
    <3>1. ~Ck["post"].exists
      BY <1>1, <2>2 DEF File, OpeningPhase, Ck
    <3>2. Ck["post"].saved # Probes
      <4>1. Ck["post"].saved = {}
        BY <1>2, <3>1 DEF RunOK, CheckpointsOK
      <4>2. 1 \in Probes
        BY RunAssumption DEF Probes
      <4>3. QED
        BY <4>1, <4>2
    <3>3. Ck["pre"].exists
      BY <1>2, <2>2 DEF StageOK, AfterPre
    <3>4. QED
      BY <1>2, <3>2, <3>3 DEF RunOK, OutputOK
  <2>3. QED
    BY <2>1, <2>2
<1>4. /\ proc' \in Process /\ proc'.at # "idle" /\ proc'.run = proc.run
      /\ proc'.provider = proc.provider
      /\ proc'.at # "returned" => StageOK(Begun, Finished, Ck, Out, proc', "none")
  <2>1. "checkpoint_write_failed" \in Errors
    BY DEF Errors
  <2>2. QED
    BY <1>1, <1>2, <1>3, <2>1, Fails
<1>5. faults' \in 0..MaxFaults
  BY <1>1, FaultCounted
<1>6. QED
  BY <1>1, <1>4, <1>5, QuietStep

-----------------------------------------------------------------------------
(* The steps of a request. *)

\* While the process is in a loop, the request it asks next, once started,
\* leaves the files as they may be.
LEMMA StartedRunOK ==
  ASSUME RunInv, proc.at \in {"pre", "turn", "post"}, PhaseLeft
  PROVE  RunOK(Begun \cup {Pending}, Finished, Ck, Out, proc.run)
<1> DEFINE B == Begun \cup {Pending}
<1>1. /\ proc.run \in Runs
      /\ RunOK(Begun, Finished, Ck, Out, proc.run)
      /\ StageOK(Begun, Finished, Ck, Out, proc, call)
  BY Setting
<1>2. Ck["pre"].exists /\ (proc.at = "post" => Ck["post"].exists)
  BY <1>1 DEF StageOK, AfterPre, AfterPost
<1>3. ASSUME NEW phase \in {"pre", "post"}, proc.at # phase, NEW i \in Probes
      PROVE  ProbeOf(proc.run, phase, i) # Pending
  <2>1. CASE proc.at = "turn"
    BY <1>1, <2>1, PendingIs, Coordinates
  <2>2. CASE proc.at # "turn"
    <3>1. PICK j \in Probes : Pending = ProbeOf(proc.run, proc.at, j)
      BY <2>2, PendingIs
    <3>2. Pending.phase = proc.at
      BY <1>1, <2>2, <3>1, Coordinates
    <3>3. QED
      BY <1>1, <1>3, <3>2, Coordinates
  <2>3. QED
    BY <2>1, <2>2
<1>4. ASSUME NEW phase \in {"pre", "post"}, Ck[phase].exists
      PROVE  Frontier(B, Finished, Ck[phase].saved, proc.run, phase)
  <2>1. CASE proc.at # phase
    <3>1. Frontier(Begun, Finished, Ck[phase].saved, proc.run, phase)
      BY <1>1, <1>4 DEF RunOK, CheckpointsOK
    <3>2. QED
      BY <1>3, <2>1, <3>1 DEF Frontier
  <2>2. CASE proc.at = phase
    <3>1. PICK n \in 0..ProbeCount :
            /\ Ck[phase].saved = 1..n
            /\ n + 1 \in Probes /\ Pending = ProbeOf(proc.run, phase, n + 1)
            /\ \A i \in Probes :
                 /\ i <= n => ProbeOf(proc.run, phase, i) \in Finished
                 /\ i > n + 1 => ProbeOf(proc.run, phase, i) \notin Begun
      BY <2>2, PendingIs
    <3>2. ASSUME NEW i \in Probes, i > n + 1
          PROVE  ProbeOf(proc.run, phase, i) # Pending
      <4>1. ProbeOf(proc.run, phase, i).at = i /\ Pending.at = n + 1
        BY <1>1, <3>1, Coordinates
      <4>2. n + 1 \in Nat /\ i \in Nat
        BY DEF Probes
      <4>3. QED
        BY <3>2, <4>1, <4>2
    <3>3. QED
      BY <3>1, <3>2 DEF Frontier
  <2>3. QED
    BY <2>1, <2>2
<1>5. CheckpointsOK(B, Finished, Ck, Out, proc.run)
  BY <1>1, <1>2, <1>3, <1>4 DEF RunOK, CheckpointsOK, NothingBegun
<1>6. OutputOK(B, Finished, Ck, Out, proc.run)
  <2>1. ~Out.dir => \A t \in Turns : TurnOf(proc.run, t) # Pending
    <3>1. ~Out.dir => proc.at = "pre"
      BY <1>1 DEF StageOK, InTrajectory, AfterTrajectory
    <3>2. proc.at = "pre" => Pending.phase = "pre"
      BY <1>1, PendingIs, Coordinates
    <3>3. QED
      BY <1>1, <3>1, <3>2, Coordinates
  <2>2. QED
    BY <1>1, <2>1 DEF RunOK, OutputOK, Virgin
<1>7. QED
  BY <1>5, <1>6 DEF RunOK

\* Once completed, too.
LEMMA FinishedRunOK ==
  ASSUME NEW run, NEW B, NEW F, NEW G, NEW ck, NEW out,
         RunOK(B, F, ck, out, run), F \subseteq G
  PROVE  RunOK(B, G, ck, out, run)
<1>1. ASSUME NEW phase \in {"pre", "post"}, Frontier(B, F, ck[phase].saved, run, phase)
      PROVE  Frontier(B, G, ck[phase].saved, run, phase)
  BY <1>1 DEF Frontier
<1>2. CheckpointsOK(B, G, ck, out, run)
  BY <1>1 DEF RunOK, CheckpointsOK
<1>3. OutputOK(B, G, ck, out, run)
  BY DEF RunOK, OutputOK
<1>4. QED
  BY <1>2, <1>3 DEF RunOK

\* What is asked is the next of its phase.
LEMMA AskStep == ASSUME RunInv, Ask PROVE RunInv'
<1> DEFINE e == StartReceipt(Log, Pending)
<1>1. /\ proc.at \in {"pre", "turn", "post"} /\ call = "none" /\ PhaseLeft
      /\ RefusalNow = "none"
      /\ ledger' = [ledger EXCEPT ![LedgerOf[proc.run]] = Append(@, e)]
      /\ proc' = [proc EXCEPT !.provider = Consume(Log, @, Pending)]
      /\ call' = "sent" /\ UNCHANGED <<checkpoint, output, faults>>
  BY DEF Ask, AtRequest
<1>2. /\ proc.run \in Runs /\ LedgerOf[proc.run] \in Files
      /\ Log \in Seq(Receipt) /\ LogOK(Log)
      /\ proc \in Process
      /\ StageOK(Begun, Finished, Ck, Out, proc, call) /\ TurnsOnce(Log, proc.run)
  BY <1>1, Setting
<1>3. Pending \in Requests /\ Pending.run = proc.run
  BY <1>1, PendingIs
<1>4. /\ e \in Receipt /\ e.status = "started" /\ e.req = Pending
      /\ LogOK(Append(Log, e)) /\ NewestStart(Append(Log, e), Pending)
  BY <1>2, <1>3, LogStart
<1> HIDE DEF e
<1>5. /\ \A r : StartsOf(Append(Log, e), r)
           = StartsOf(Log, r) \cup (IF Pending = r THEN {Len(Log) + 1} ELSE {})
      /\ StartedRequests(Append(Log, e)) = Begun \cup {Pending}
      /\ FinishedRequests(Append(Log, e)) = Finished
  BY <1>2, <1>4, AppendStart DEF Begun, Finished
<1>6. RunOK(StartedRequests(Append(Log, e)), FinishedRequests(Append(Log, e)),
            Ck, Out, proc.run)
  BY <1>1, <1>5, StartedRunOK
<1>7. TurnsOnce(Append(Log, e), proc.run)
  <2> SUFFICES ASSUME NEW t \in Turns, StartsOf(Append(Log, e), TurnOf(proc.run, t)) # {}
               PROVE  Cardinality(StartsOf(Append(Log, e), TurnOf(proc.run, t))) = 1
    BY DEF TurnsOnce
  <2>1. CASE TurnOf(proc.run, t) # Pending
    <3>1. StartsOf(Append(Log, e), TurnOf(proc.run, t)) = StartsOf(Log, TurnOf(proc.run, t))
      BY <1>5, <2>1
    <3>2. QED
      BY <1>2, <3>1 DEF TurnsOnce
  <2>2. CASE TurnOf(proc.run, t) = Pending
    <3>1. proc.at = "turn" /\ t = proc.turns + 1
      <4>1. Pending.phase = "turn" /\ Pending.at = t
        BY <1>2, <2>2, Coordinates
      <4>2. proc.at # "turn" => Pending.phase = proc.at
        BY <1>1, <1>2, PendingIs, Coordinates
      <4>3. proc.at = "turn"
        BY <4>1, <4>2
      <4>4. QED
        BY <1>1, <1>2, <4>1, <4>3, PendingIs, Coordinates
    <3>2. t > proc.turns /\ t \in Nat
      BY <1>2, <3>1 DEF Process
    <3>3. Pending \notin Begun
      BY <1>1, <1>2, <2>2, <3>1, <3>2 DEF StageOK, TurnsInOrder
    <3>4. StartsOf(Log, Pending) = {}
      BY <1>3, <3>3 DEF Begun, StartedRequests
    <3>5. StartsOf(Append(Log, e), Pending) = {Len(Log) + 1}
      BY <1>5, <3>4
    <3>6. QED
      BY <2>2, <3>5, FS_Singleton
  <2>3. QED
    BY <2>1, <2>2
<1>8. /\ proc' \in Process /\ proc'.at = proc.at /\ proc'.run = proc.run
      /\ proc'.resume = proc.resume /\ proc'.reuse = proc.reuse
      /\ proc'.turns = proc.turns
  <2>1. Consume(Log, proc.provider, Pending) \in Provider
    BY <1>2 DEF Consume, Process, Provider
  <2>2. QED
    BY <1>1, <1>2, <2>1 DEF Process
<1>9. StageOK(StartedRequests(Append(Log, e)), FinishedRequests(Append(Log, e)),
               Ck, Out, proc', call')
  <2>1. ASSUME proc.at = "turn"
        PROVE  TurnsInOrder(Begun \cup {Pending}, Finished, proc', "sent")
    <3>1. Pending = TurnOf(proc.run, proc.turns + 1) /\ proc.turns + 1 \in Turns
      BY <1>1, <2>1, PendingIs
    <3>2. TurnsInOrder(Begun, Finished, proc, call)
      BY <1>2, <2>1 DEF StageOK
    <3>3. \A t \in Turns : TurnOf(proc.run, t) = Pending => t = proc.turns + 1
      BY <1>2, <3>1, Coordinates
    <3>4. Finished \subseteq Begun
      BY <1>1, Setting
    <3>5. QED
      BY <1>1, <1>8, <3>2, <3>3, <3>4 DEF TurnsInOrder
  <2>2. QED
    BY <1>1, <1>2, <1>5, <1>8, <2>1
    DEF StageOK, AfterPre, AfterPost, InTrajectory, AfterTrajectory
<1>10. CallOK'
  <2>1. Log' = Append(Log, e)
    BY <1>1, <1>2, <1>8 DEF Log, RunInv, TypeOK
  <2>2. PhaseLeft' /\ Pending' = Pending
    BY <1>1, <1>8 DEF PhaseLeft, Probing, File, Pending
  <2>3. QED
    BY <1>1, <1>4, <1>8, <2>1, <2>2 DEF CallOK
<1>11. faults' \in 0..MaxFaults
  BY <1>1 DEF RunInv, TypeOK
<1>12. QED
  BY <1>1, <1>3, <1>4, <1>6, <1>7, <1>8, <1>9, <1>10, <1>11, LedgerStep

\* A refused request fails its phase.
LEMMA RefuseRequestStep == ASSUME RunInv, RefuseRequest PROVE RunInv'
<1>1. /\ proc.at \in {"pre", "turn", "post"} /\ call = "none" /\ PhaseLeft
      /\ Fail("invalid_request")
      /\ UNCHANGED <<ledger, checkpoint, output, call, faults>>
  BY DEF RefuseRequest, AtRequest
<1>2. proc \in Process /\ StageOK(Begun, Finished, Ck, Out, proc, call)
  BY <1>1, Setting
<1>3. "invalid_request" \in Errors
  BY DEF Errors
<1>4. proc.at \in {"open_post", "post"} => Out.measurement # "completed"
  BY <1>1, PostLeft
<1>5. /\ proc' \in Process /\ proc'.at # "idle" /\ proc'.run = proc.run
      /\ proc'.provider = proc.provider
      /\ proc'.at # "returned" => StageOK(Begun, Finished, Ck, Out, proc', "none")
  BY <1>1, <1>2, <1>3, <1>4, Fails
<1>6. faults' \in 0..MaxFaults
  BY <1>1 DEF RunInv, TypeOK
<1>7. QED
  BY <1>1, <1>5, <1>6, QuietStep

\* The terminal receipt of the call in flight.
LEMMA CallEnded ==
  ASSUME RunInv, call = "sent", NEW outcome \in {"completed", "failed"}, EndCall(outcome)
  PROVE  LET e == EndReceipt(Log[Len(Log)], outcome)
         IN  /\ e \in Receipt /\ e.req = Pending /\ e.req.run = proc.run
             /\ ledger' = [ledger EXCEPT ![LedgerOf[proc.run]] = Append(@, e)]
             /\ LogOK(Append(Log, e))
             /\ StartedRequests(Append(Log, e)) = Begun
             /\ FinishedRequests(Append(Log, e))
                  = Finished \cup (IF outcome = "completed" THEN {Pending} ELSE {})
             /\ RunOK(StartedRequests(Append(Log, e)), FinishedRequests(Append(Log, e)),
                      Ck, Out, proc.run)
             /\ TurnsOnce(Append(Log, e), proc.run)
<1> DEFINE e == EndReceipt(Log[Len(Log)], outcome)
<1>1. proc.at \in {"pre", "turn", "post"} /\ PhaseLeft /\ NewestStart(Log, Pending)
  BY DEF RunInv, ProcOK, CallOK
<1>2. /\ proc.run \in Runs /\ LedgerOf[proc.run] \in Files
      /\ Log \in Seq(Receipt) /\ LogOK(Log)
      /\ RunOK(Begun, Finished, Ck, Out, proc.run) /\ TurnsOnce(Log, proc.run)
  BY <1>1, Setting
<1>3. Pending \in Requests /\ Pending.run = proc.run
  BY <1>1, PendingIs
<1>4. e \in Receipt /\ e.status = outcome /\ e.req = Pending /\ LogOK(Append(Log, e))
  BY <1>1, <1>2, <1>3, LogEnd
<1>5. ledger' = [ledger EXCEPT ![LedgerOf[proc.run]] = Append(@, e)]
  BY <1>2 DEF EndCall, Log
<1> HIDE DEF e
<1>6. /\ \A r : StartsOf(Append(Log, e), r) = StartsOf(Log, r)
      /\ StartedRequests(Append(Log, e)) = Begun
      /\ FinishedRequests(Append(Log, e))
           = Finished \cup (IF outcome = "completed" THEN {Pending} ELSE {})
  BY <1>2, <1>4, AppendEnd DEF Begun, Finished
<1>7. RunOK(StartedRequests(Append(Log, e)), FinishedRequests(Append(Log, e)),
            Ck, Out, proc.run)
  BY <1>2, <1>6, FinishedRunOK
<1>8. TurnsOnce(Append(Log, e), proc.run)
  BY <1>2, <1>6 DEF TurnsOnce
<1>9. QED
  BY <1>3, <1>4, <1>5, <1>6, <1>7, <1>8 DEF e

\* The answer of the newest call completes its request.
LEMMA AnswerStep == ASSUME RunInv, Answer PROVE RunInv'
<1> DEFINE e == EndReceipt(Log[Len(Log)], "completed")
<1>1. /\ call = "sent" /\ call' = "answered" /\ EndCall("completed")
      /\ UNCHANGED <<checkpoint, output, proc, faults>>
  BY DEF Answer
<1>2. proc.at \in {"pre", "turn", "post"} /\ PhaseLeft
  BY <1>1 DEF RunInv, ProcOK, CallOK
<1>3. /\ e \in Receipt /\ e.req = Pending /\ e.req.run = proc.run
      /\ ledger' = [ledger EXCEPT ![LedgerOf[proc.run]] = Append(@, e)]
      /\ LogOK(Append(Log, e))
      /\ StartedRequests(Append(Log, e)) = Begun
      /\ FinishedRequests(Append(Log, e)) = Finished \cup {Pending}
      /\ RunOK(StartedRequests(Append(Log, e)), FinishedRequests(Append(Log, e)),
               Ck, Out, proc.run)
      /\ TurnsOnce(Append(Log, e), proc.run)
  BY <1>1, CallEnded
<1> HIDE DEF e
<1>4. /\ proc \in Process /\ LedgerOf[proc.run] \in Files
      /\ StageOK(Begun, Finished, Ck, Out, proc, call)
  BY <1>2, Setting
<1>5. StageOK(StartedRequests(Append(Log, e)), FinishedRequests(Append(Log, e)),
              Ck, Out, proc', call')
  BY <1>1, <1>3, <1>4 DEF StageOK, TurnsInOrder
<1>6. CallOK'
  <2>1. Finished' = Finished \cup {Pending}
    BY <1>1, <1>3, <1>4 DEF Finished, Log, RunInv, TypeOK
  <2>2. PhaseLeft' /\ Pending' = Pending
    BY <1>1, <1>2 DEF PhaseLeft, Probing, File, Pending
  <2>3. QED
    BY <1>1, <1>2, <2>1, <2>2 DEF CallOK
<1>7. faults' \in 0..MaxFaults
  BY <1>1 DEF RunInv, TypeOK
<1>8. QED
  BY <1>1, <1>2, <1>3, <1>4, <1>5, <1>6, <1>7, LedgerStep

\* A failed call leaves nothing behind but its receipts.
LEMMA ProviderFailsStep == ASSUME RunInv, ProviderFails PROVE RunInv'
<1> DEFINE e == EndReceipt(Log[Len(Log)], "failed")
<1>1. /\ call = "sent" /\ call' = "none" /\ EndCall("failed") /\ Fail("provider_failure")
      /\ \E kind \in {"probe", "turn"} : Fault(kind)
      /\ UNCHANGED <<checkpoint, output>>
  BY DEF ProviderFails
<1>2. proc.at \in {"pre", "turn", "post"} /\ PhaseLeft
  BY <1>1 DEF RunInv, ProcOK, CallOK
<1>3. /\ e \in Receipt /\ e.req = Pending /\ e.req.run = proc.run
      /\ ledger' = [ledger EXCEPT ![LedgerOf[proc.run]] = Append(@, e)]
      /\ LogOK(Append(Log, e))
      /\ RunOK(StartedRequests(Append(Log, e)), FinishedRequests(Append(Log, e)),
               Ck, Out, proc.run)
      /\ TurnsOnce(Append(Log, e), proc.run)
  BY <1>1, CallEnded
<1> HIDE DEF e
<1>4. /\ proc \in Process
      /\ StageOK(Begun, Finished, Ck, Out, proc, call)
  BY <1>2, Setting
<1>5. proc.at \in {"open_post", "post"} => Out.measurement # "completed"
  BY <1>2, PostLeft
<1>6. /\ proc' \in Process /\ proc'.at # "idle" /\ proc'.run = proc.run
      /\ proc'.provider = proc.provider
      /\ proc'.at # "returned" =>
           StageOK(StartedRequests(Append(Log, e)), FinishedRequests(Append(Log, e)),
                   Ck, Out, proc', "none")
  <2>1. "provider_failure" \in Errors
    BY DEF Errors
  <2>2. QED
    BY <1>1, <1>2, <1>4, <1>5, <2>1, Fails
<1>7. CallOK'
  BY <1>1 DEF CallOK
<1>8. faults' \in 0..MaxFaults
  BY <1>1, FaultCounted
<1>9. QED
  BY <1>1, <1>2, <1>3, <1>4, <1>6, <1>7, <1>8, LedgerStep

\* A failure in the middle of a request that writes nothing.
LEMMA RequestBreaks ==
  ASSUME RunInv, proc.at \in {"pre", "turn", "post"}, PhaseLeft,
         NEW error \in Errors, Fail(error), NEW kind, Fault(kind), call' = "none",
         UNCHANGED <<ledger, checkpoint, output>>
  PROVE  RunInv'
<1>1. proc \in Process /\ StageOK(Begun, Finished, Ck, Out, proc, call)
  BY Setting
<1>2. proc.at \in {"open_post", "post"} => Out.measurement # "completed"
  BY PostLeft
<1>3. /\ proc' \in Process /\ proc'.at # "idle" /\ proc'.run = proc.run
      /\ proc'.provider = proc.provider
      /\ proc'.at # "returned" => StageOK(Begun, Finished, Ck, Out, proc', "none")
  BY <1>1, <1>2, Fails
<1>4. faults' \in 0..MaxFaults
  BY FaultCounted
<1>5. QED
  BY <1>3, <1>4, QuietStep

\* A receipt that cannot be written leaves the call open, or unbegun.
LEMMA ReceiptUnwrittenStep == ASSUME RunInv, ReceiptUnwritten PROVE RunInv'
<1>1. /\ proc.at \in {"pre", "turn", "post"} /\ PhaseLeft
  BY DEF RunInv, ProcOK, CallOK, ReceiptUnwritten, AtRequest
<1>2. "provider_failure" \in Errors
  BY DEF Errors
<1>3. QED
  BY <1>1, <1>2, RequestBreaks DEF ReceiptUnwritten

\* An answer the parser refuses stays completed in the ledger, and unsaved.
LEMMA AnswerInvalidStep == ASSUME RunInv, AnswerInvalid PROVE RunInv'
<1>1. /\ proc.at \in {"pre", "turn", "post"} /\ PhaseLeft
  BY DEF RunInv, ProcOK, CallOK, AnswerInvalid
<1>2. "invalid_schema" \in Errors
  BY DEF Errors
<1>3. QED
  BY <1>1, <1>2, RequestBreaks DEF AnswerInvalid

\* A turn is taken once it is answered.
LEMMA TakeTurnStep == ASSUME RunInv, TakeTurn PROVE RunInv'
<1>1. /\ call = "answered" /\ proc.at = "turn" /\ call' = "none"
      /\ proc' = [proc EXCEPT !.turns = @ + 1]
      /\ UNCHANGED <<ledger, checkpoint, output, faults>>
  BY DEF TakeTurn
<1>2. PhaseLeft /\ Pending \in Finished
  BY <1>1 DEF RunInv, ProcOK, CallOK
<1>3. proc.turns + 1 \in Turns /\ Pending = TurnOf(proc.run, proc.turns + 1)
  BY <1>1, <1>2, PendingIs
<1>4. proc \in Process /\ StageOK(Begun, Finished, Ck, Out, proc, call)
  BY <1>1, Setting
<1>5. /\ proc' \in Process /\ proc'.at = proc.at /\ proc'.run = proc.run
      /\ proc'.resume = proc.resume /\ proc'.reuse = proc.reuse
      /\ proc'.provider = proc.provider /\ proc'.turns = proc.turns + 1
  <2>1. proc.turns + 1 \in 0..TurnCount
    BY <1>3, RunAssumption DEF Turns
  <2>2. QED
    BY <1>1, <1>4, <2>1 DEF Process
<1>6. TurnsInOrder(Begun, Finished, proc', "none")
  <2>1. TurnsInOrder(Begun, Finished, proc, call) /\ proc.turns \in Nat
    BY <1>1, <1>4, RunAssumption DEF StageOK, Process
  <2>2. ASSUME NEW t \in Turns
        PROVE  /\ t <= proc.turns + 1 => TurnOf(proc.run, t) \in Finished
               /\ t > proc.turns + 1 => TurnOf(proc.run, t) \notin Begun
    <3>1. t \in Nat
      BY DEF Turns
    <3>2. t <= proc.turns + 1 => t <= proc.turns \/ t = proc.turns + 1
      BY <2>1, <3>1
    <3>3. t > proc.turns + 1 => t > proc.turns /\ t # proc.turns + 1
      BY <2>1, <3>1
    <3>4. QED
      BY <1>2, <1>3, <2>1, <3>2, <3>3 DEF TurnsInOrder
  <2>3. QED
    BY <1>5, <2>2 DEF TurnsInOrder
<1>7. StageOK(Begun, Finished, Ck, Out, proc', "none")
  BY <1>1, <1>4, <1>5, <1>6 DEF StageOK, AfterPre, AfterPost, InTrajectory, AfterTrajectory
<1>8. faults' \in 0..MaxFaults
  BY <1>1 DEF RunInv, TypeOK
<1>9. QED
  BY <1>1, <1>5, <1>7, <1>8, QuietStep

-----------------------------------------------------------------------------
(* The steps between the phases. *)

\* A phase that is done has every answer saved and completed.
LEMMA AllSaved ==
  ASSUME RunInv, NEW ph \in {"pre", "post"}, PhaseDone(ph)
  PROVE  /\ proc.at = ph /\ call = "none" /\ Ck[ph].exists /\ Ck[ph].saved = Probes
         /\ \A i \in Probes : ProbeOf(proc.run, ph, i) \in Finished
<1>1. proc.at = ph /\ call = "none" /\ Ck[ph].saved = Probes
  BY DEF PhaseDone, PhaseLeft, Probing, File, Ck
<1>2. Ck[ph].exists
  BY <1>1, Setting DEF StageOK, AfterPre, AfterPost
<1>3. PICK n \in 0..ProbeCount :
        /\ Probes = 1..n
        /\ \A i \in Probes : i <= n => ProbeOf(proc.run, ph, i) \in Finished
  BY <1>1, <1>2, Setting DEF RunOK, CheckpointsOK, Frontier
<1>4. QED
  BY <1>1, <1>2, <1>3

\* A step that changes nothing but the output directory.
LEMMA OutputStep ==
  ASSUME RunInv, proc.at # "idle", UNCHANGED <<ledger, checkpoint, call, faults>>,
         call = "none", NEW out \in Output,
         output' = [output EXCEPT ![proc.run] = out],
         RunOK(Begun, Finished, Ck, out, proc.run),
         proc' \in Process, proc'.run = proc.run, proc'.provider = proc.provider,
         proc'.at \notin {"idle", "returned"} =>
           StageOK(Begun, Finished, Ck, out, proc', "none")
  PROVE  RunInv'
<1>1. Ck \in [{"pre", "post"} -> Checkpoint]
  BY Setting
<1>2. checkpoint' = [checkpoint EXCEPT ![proc.run] = Ck]
  BY Setting DEF RunInv, TypeOK, Ck
<1>3. faults' \in 0..MaxFaults
  BY DEF RunInv, TypeOK
<1>4. QED
  BY <1>1, <1>2, <1>3, FilesStep

\* The first trajectory of a run begins after its whole baseline.
LEMMA BeginTrajectoryStep == ASSUME RunInv, BeginTrajectory PROVE RunInv'
<1> DEFINE out == [Out EXCEPT !.dir = TRUE]
<1>1. /\ proc.at = "pre" /\ call = "none" /\ ~proc.reuse
      /\ Ck["pre"].exists /\ Ck["pre"].saved = Probes
      /\ \A i \in Probes : ProbeOf(proc.run, "pre", i) \in Finished
  BY AllSaved DEF BeginTrajectory
<1>2. /\ output' = [output EXCEPT ![proc.run] = out]
      /\ proc' = [proc EXCEPT !.at = "turn"]
      /\ UNCHANGED <<ledger, checkpoint, call, faults>>
  BY DEF BeginTrajectory, Out
<1>3. /\ proc.run \in Runs /\ Out \in Output /\ proc \in Process
      /\ RunOK(Begun, Finished, Ck, Out, proc.run)
      /\ StageOK(Begun, Finished, Ck, Out, proc, call) /\ Finished \subseteq Begun
  BY <1>1, Setting
<1>4. /\ out \in Output /\ out.dir /\ out.record = Out.record
      /\ out.profiles = Out.profiles /\ out.measurement = Out.measurement
  BY <1>3 DEF Output
<1> HIDE DEF out
<1>5. ~Out.dir /\ proc.turns = 0
  BY <1>1, <1>3 DEF StageOK
<1>6. Virgin(Begun, Ck, Out, proc.run)
  BY <1>3, <1>5 DEF RunOK, OutputOK
<1>7. RunOK(Begun, Finished, Ck, out, proc.run)
  BY <1>1, <1>3, <1>4, <1>5, <1>6 DEF RunOK, CheckpointsOK, OutputOK, Virgin
<1>8. /\ proc' \in Process /\ proc'.at = "turn" /\ proc'.run = proc.run
      /\ proc'.resume = proc.resume /\ proc'.reuse = proc.reuse
      /\ proc'.provider = proc.provider /\ proc'.turns = proc.turns
  BY <1>2, <1>3, Moves DEF Steps
<1>9. TurnsInOrder(Begun, Finished, proc', "none")
  <2>1. \A t \in Turns : ~(t <= 0) /\ t > 0
    BY DEF Turns
  <2>2. QED
    BY <1>5, <1>6, <1>8, <2>1 DEF TurnsInOrder, Virgin
<1>10. StageOK(Begun, Finished, Ck, out, proc', "none")
  BY <1>1, <1>3, <1>4, <1>6, <1>8, <1>9
  DEF StageOK, AfterPre, AfterPost, InTrajectory, AfterTrajectory, Virgin
<1>11. QED
  BY <1>1, <1>2, <1>4, <1>7, <1>8, <1>10, OutputStep

\* A resumed run takes over a completed trajectory.
LEMMA ReuseTrajectoryStep == ASSUME RunInv, ReuseTrajectory PROVE RunInv'
<1>1. /\ proc.at = "pre" /\ call = "none" /\ Ck["pre"].exists
      /\ proc.reuse /\ Out.record = "completed"
      /\ proc' = [proc EXCEPT !.at = "open_post"]
      /\ UNCHANGED <<ledger, checkpoint, output, call, faults>>
  BY AllSaved DEF ReuseTrajectory, Out
<1>2. proc \in Process /\ StageOK(Begun, Finished, Ck, Out, proc, call)
  BY <1>1, Setting
<1>3. /\ proc' \in Process /\ proc'.at = "open_post" /\ proc'.run = proc.run
      /\ proc'.resume = proc.resume /\ proc'.reuse = proc.reuse
      /\ proc'.provider = proc.provider
  BY <1>1, <1>2, Moves DEF Steps
<1>4. StageOK(Begun, Finished, Ck, Out, proc', "none")
  BY <1>1, <1>2, <1>3 DEF StageOK, AfterPre, AfterPost, InTrajectory, AfterTrajectory
<1>5. call' = "none" /\ faults' \in 0..MaxFaults
  BY <1>1 DEF RunInv, TypeOK
<1>6. QED
  BY <1>1, <1>3, <1>4, <1>5, QuietStep

\* A trajectory that broke off is not taken up.
LEMMA RefuseTrajectoryStep == ASSUME RunInv, RefuseTrajectory PROVE RunInv'
<1>1. /\ proc.at = "pre" /\ call = "none"
      /\ Leave("agent_run_failed", "agent_recovery_not_supported")
      /\ UNCHANGED <<ledger, checkpoint, output, call, faults>>
  BY AllSaved DEF RefuseTrajectory
<1>2. /\ proc' \in Process /\ proc'.at = "returned" /\ proc'.run = proc.run
      /\ proc'.provider = proc.provider
  BY <1>1, Setting, Leaves DEF Results, Errors
<1>3. call' = "none" /\ faults' \in 0..MaxFaults
  BY <1>1 DEF RunInv, TypeOK
<1>4. QED
  BY <1>1, <1>2, <1>3, QuietStep

\* A trajectory is recorded as completed after its last turn.
LEMMA FinishTrajectoryStep == ASSUME RunInv, FinishTrajectory PROVE RunInv'
<1> DEFINE out == [Out EXCEPT !.record = "completed"]
<1>1. /\ proc.at = "turn" /\ call = "none" /\ ~(proc.turns < TurnCount)
      /\ output' = [output EXCEPT ![proc.run] = out]
      /\ proc' = [proc EXCEPT !.at = "open_post"]
      /\ UNCHANGED <<ledger, checkpoint, call, faults>>
  BY DEF FinishTrajectory, PhaseDone, PhaseLeft, Probing, Out
<1>2. /\ proc.run \in Runs /\ Out \in Output /\ proc \in Process
      /\ RunOK(Begun, Finished, Ck, Out, proc.run)
      /\ StageOK(Begun, Finished, Ck, Out, proc, call)
  BY <1>1, Setting
<1>3. /\ out \in Output /\ out.dir = Out.dir /\ out.record = "completed"
      /\ out.profiles = Out.profiles /\ out.measurement = Out.measurement
  BY <1>2 DEF Output
<1> HIDE DEF out
<1>4. \A t \in Turns : TurnOf(proc.run, t) \in Finished
  <2>1. \A t \in Turns : t <= proc.turns
    BY <1>1, <1>2, RunAssumption DEF Turns, Process
  <2>2. QED
    BY <1>1, <1>2, <2>1 DEF StageOK, TurnsInOrder
<1>5. Out.dir /\ ~proc.reuse /\ Out.profiles = "none" /\ Out.measurement = "none"
  BY <1>1, <1>2 DEF StageOK, InTrajectory
<1>6. RunOK(Begun, Finished, Ck, out, proc.run)
  BY <1>2, <1>3, <1>4, <1>5 DEF RunOK, CheckpointsOK, OutputOK
<1>7. /\ proc' \in Process /\ proc'.at = "open_post" /\ proc'.run = proc.run
      /\ proc'.resume = proc.resume /\ proc'.reuse = proc.reuse
      /\ proc'.provider = proc.provider
  BY <1>1, <1>2, Moves DEF Steps
<1>8. StageOK(Begun, Finished, Ck, out, proc', "none")
  BY <1>1, <1>2, <1>3, <1>7 DEF StageOK, AfterPre, AfterPost, InTrajectory, AfterTrajectory
<1>9. QED
  BY <1>1, <1>3, <1>6, <1>7, <1>8, OutputStep

\* A trajectory that broke off is recorded as failed.
LEMMA RecordFailedTrajectoryStep == ASSUME RunInv, RecordFailedTrajectory PROVE RunInv'
<1> DEFINE out == [Out EXCEPT !.record = "failed"]
<1>1. /\ proc.at = "turn_failed" /\ call = "none"
      /\ output' = [output EXCEPT ![proc.run] = out]
      /\ proc' = [proc EXCEPT !.at = "agent_failed"]
      /\ UNCHANGED <<ledger, checkpoint, call, faults>>
  BY NoCall DEF RecordFailedTrajectory, Out
<1>2. /\ Out \in Output /\ proc \in Process
      /\ RunOK(Begun, Finished, Ck, Out, proc.run)
      /\ StageOK(Begun, Finished, Ck, Out, proc, call)
  BY <1>1, Setting
<1>3. /\ out \in Output /\ out.dir = Out.dir /\ out.record = "failed"
      /\ out.profiles = Out.profiles /\ out.measurement = Out.measurement
  BY <1>2 DEF Output
<1> HIDE DEF out
<1>4. Out.dir /\ ~proc.reuse /\ Out.profiles = "none" /\ Out.measurement = "none"
  BY <1>1, <1>2 DEF StageOK, InTrajectory
<1>5. RunOK(Begun, Finished, Ck, out, proc.run)
  BY <1>2, <1>3, <1>4 DEF RunOK, CheckpointsOK, OutputOK
<1>6. /\ proc' \in Process /\ proc'.at = "agent_failed" /\ proc'.run = proc.run
      /\ proc'.resume = proc.resume /\ proc'.reuse = proc.reuse
      /\ proc'.provider = proc.provider
  BY <1>1, <1>2, Moves DEF Steps
<1>7. StageOK(Begun, Finished, Ck, out, proc', "none")
  BY <1>1, <1>2, <1>3, <1>6 DEF StageOK, AfterPre, AfterPost, InTrajectory, AfterTrajectory
<1>8. QED
  BY <1>1, <1>3, <1>5, <1>6, <1>7, OutputStep

\* A failed measurement is recorded over none that was completed.
LEMMA RecordFailureStep ==
  ASSUME RunInv, RecordAgentFailure \/ RecordPostFailure PROVE RunInv'
<1> DEFINE out == [Out EXCEPT !.measurement = "failed"]
<1>1. /\ proc.at \in {"agent_failed", "post_failed"} /\ call = "none"
      /\ output' = [output EXCEPT ![proc.run] = out]
      /\ \E result \in Results, error \in Errors : Leave(result, error)
      /\ UNCHANGED <<ledger, checkpoint, call, faults>>
  <2>1. proc.at \in {"agent_failed", "post_failed"}
    BY DEF RecordAgentFailure, RecordPostFailure
  <2>2. proc.error \in Errors
    BY <2>1, Setting DEF Process
  <2>3. QED
    BY <2>1, <2>2, NoCall DEF RecordAgentFailure, RecordPostFailure, Out, Results, Errors
<1>2. /\ Out \in Output /\ proc \in Process
      /\ RunOK(Begun, Finished, Ck, Out, proc.run)
      /\ StageOK(Begun, Finished, Ck, Out, proc, call)
  BY <1>1, Setting
<1>3. /\ out \in Output /\ out.dir = Out.dir /\ out.record = Out.record
      /\ out.profiles = Out.profiles /\ out.measurement = "failed"
  BY <1>2 DEF Output
<1> HIDE DEF out
<1>4. Out.dir
  BY <1>1, <1>2 DEF StageOK, InTrajectory, AfterTrajectory
<1>5. RunOK(Begun, Finished, Ck, out, proc.run)
  BY <1>2, <1>3, <1>4 DEF RunOK, CheckpointsOK, OutputOK
<1>6. /\ proc' \in Process /\ proc'.at = "returned" /\ proc'.run = proc.run
      /\ proc'.provider = proc.provider
  BY <1>1, <1>2, Leaves
<1>7. QED
  BY <1>1, <1>3, <1>5, <1>6, OutputStep

\* The profiles are begun once both phases are saved whole.
LEMMA MakeProfilesStep == ASSUME RunInv, MakeProfiles PROVE RunInv'
<1>1. /\ proc.at = "post" /\ call = "none" /\ Ck["post"].saved = Probes
  BY AllSaved DEF MakeProfiles
<1>2. /\ Out \in Output /\ proc \in Process
      /\ RunOK(Begun, Finished, Ck, Out, proc.run)
      /\ StageOK(Begun, Finished, Ck, Out, proc, call)
  BY <1>1, Setting
<1>3. CASE Out.profiles = "none"
  <2> DEFINE out == [Out EXCEPT !.profiles = "partial"]
  <2>1. /\ output' = [output EXCEPT ![proc.run] = out]
        /\ proc' = [proc EXCEPT !.at = "profiling"]
        /\ UNCHANGED <<ledger, checkpoint, call, faults>>
    BY <1>3 DEF MakeProfiles, Out
  <2>2. /\ out \in Output /\ out.dir = Out.dir /\ out.record = Out.record
        /\ out.profiles = "partial" /\ out.measurement = Out.measurement
    BY <1>2 DEF Output
  <2> HIDE DEF out
  <2>3. Out.dir /\ Out.record = "completed" /\ Ck["pre"].exists /\ Out.measurement # "completed"
    BY <1>1, <1>2, <1>3 DEF StageOK, AfterPre, AfterTrajectory, RunOK, OutputOK
  <2>4. RunOK(Begun, Finished, Ck, out, proc.run)
    BY <1>1, <1>2, <2>2, <2>3 DEF RunOK, CheckpointsOK, OutputOK
  <2>5. /\ proc' \in Process /\ proc'.at = "profiling" /\ proc'.run = proc.run
        /\ proc'.resume = proc.resume /\ proc'.reuse = proc.reuse
        /\ proc'.provider = proc.provider
    BY <1>2, <2>1, Moves DEF Steps
  <2>6. StageOK(Begun, Finished, Ck, out, proc', "none")
    BY <1>1, <1>2, <2>2, <2>5 DEF StageOK, AfterPre, AfterPost, InTrajectory, AfterTrajectory
  <2>7. QED
    BY <1>1, <2>1, <2>2, <2>4, <2>5, <2>6, OutputStep
<1>4. CASE Out.profiles # "none"
  <2>1. /\ Leave("raised", "condition_execution_failed")
        /\ UNCHANGED <<ledger, checkpoint, output, call, faults>>
    BY <1>4 DEF MakeProfiles, Out
  <2>2. /\ proc' \in Process /\ proc'.at = "returned" /\ proc'.run = proc.run
        /\ proc'.provider = proc.provider
    BY <1>2, <2>1, Leaves DEF Results, Errors
  <2>3. call' = "none" /\ faults' \in 0..MaxFaults
    BY <1>1, <2>1 DEF RunInv, TypeOK
  <2>4. QED
    BY <1>1, <2>1, <2>2, <2>3, QuietStep
<1>5. QED
  BY <1>3, <1>4

\* Once the profiles are made, every request of the run is completed.
LEMMA AllFinished ==
  ASSUME RunInv, proc.at = "profiling"
  PROVE  \A r \in Requests : r.run = proc.run => r \in Finished
<1>1. /\ RunOK(Begun, Finished, Ck, Out, proc.run)
      /\ StageOK(Begun, Finished, Ck, Out, proc, call)
  BY Setting
<1>2. /\ Ck["pre"].exists /\ Ck["post"].exists /\ Out.dir
      /\ Out.record = "completed" /\ Out.profiles = "partial"
  BY <1>1 DEF StageOK, AfterPre, AfterPost, AfterTrajectory
<1>3. Ck["post"].saved = Probes
  BY <1>1, <1>2 DEF RunOK, OutputOK
<1>4. PICK n \in 0..ProbeCount :
        /\ Probes = 1..n
        /\ \A i \in Probes : i <= n => ProbeOf(proc.run, "post", i) \in Finished
  BY <1>1, <1>2, <1>3 DEF RunOK, CheckpointsOK, Frontier
<1>5. \A i \in Probes : ProbeOf(proc.run, "post", i) \in Finished
  BY <1>4
<1>6. \A i \in Probes : ProbeOf(proc.run, "pre", i) \in Finished
  BY <1>1, <1>2 DEF RunOK, OutputOK
<1>7. \A t \in Turns : TurnOf(proc.run, t) \in Finished
  BY <1>1, <1>2 DEF RunOK, OutputOK
<1>8. QED
  BY <1>5, <1>6, <1>7, Coordinates

\* They are written when every request of the run is completed.
LEMMA FillProfilesStep == ASSUME RunInv, FillProfiles PROVE RunInv'
<1> DEFINE out == [Out EXCEPT !.profiles = "written"]
<1>1. /\ proc.at = "profiling" /\ call = "none"
      /\ output' = [output EXCEPT ![proc.run] = out]
      /\ proc' = [proc EXCEPT !.at = "recording"]
      /\ UNCHANGED <<ledger, checkpoint, call, faults>>
  BY NoCall DEF FillProfiles, Out
<1>2. /\ Out \in Output /\ proc \in Process
      /\ RunOK(Begun, Finished, Ck, Out, proc.run)
      /\ StageOK(Begun, Finished, Ck, Out, proc, call)
  BY <1>1, Setting
<1>3. /\ out \in Output /\ out.dir = Out.dir /\ out.record = Out.record
      /\ out.profiles = "written" /\ out.measurement = Out.measurement
  BY <1>2 DEF Output
<1> HIDE DEF out
<1>4. Out.dir /\ Out.profiles = "partial"
  BY <1>1, <1>2 DEF StageOK, AfterTrajectory
<1>5. \A r \in Requests : r.run = proc.run => r \in Finished
  BY <1>1, AllFinished
<1>6. RunOK(Begun, Finished, Ck, out, proc.run)
  BY <1>2, <1>3, <1>4, <1>5 DEF RunOK, CheckpointsOK, OutputOK
<1>7. /\ proc' \in Process /\ proc'.at = "recording" /\ proc'.run = proc.run
      /\ proc'.resume = proc.resume /\ proc'.reuse = proc.reuse
      /\ proc'.provider = proc.provider
  BY <1>1, <1>2, Moves DEF Steps
<1>8. StageOK(Begun, Finished, Ck, out, proc', "none")
  BY <1>1, <1>2, <1>3, <1>7 DEF StageOK, AfterPre, AfterPost, InTrajectory, AfterTrajectory
<1>9. QED
  BY <1>1, <1>3, <1>6, <1>7, <1>8, OutputStep

\* The measurement is recorded after its profiles.
LEMMA RecordMeasurementStep == ASSUME RunInv, RecordMeasurement PROVE RunInv'
<1> DEFINE out == [Out EXCEPT !.measurement = "completed"]
<1>1. /\ proc.at = "recording" /\ call = "none"
      /\ output' = [output EXCEPT ![proc.run] = out]
      /\ proc' = [proc EXCEPT !.at = "clear_pre"]
      /\ UNCHANGED <<ledger, checkpoint, call, faults>>
  BY NoCall DEF RecordMeasurement, Out
<1>2. /\ Out \in Output /\ proc \in Process
      /\ RunOK(Begun, Finished, Ck, Out, proc.run)
      /\ StageOK(Begun, Finished, Ck, Out, proc, call)
  BY <1>1, Setting
<1>3. /\ out \in Output /\ out.dir = Out.dir /\ out.record = Out.record
      /\ out.profiles = Out.profiles /\ out.measurement = "completed"
  BY <1>2 DEF Output
<1> HIDE DEF out
<1>4. Out.dir /\ Out.profiles = "written"
  BY <1>1, <1>2 DEF StageOK, AfterTrajectory
<1>5. RunOK(Begun, Finished, Ck, out, proc.run)
  BY <1>2, <1>3, <1>4 DEF RunOK, CheckpointsOK, OutputOK
<1>6. /\ proc' \in Process /\ proc'.at = "clear_pre" /\ proc'.run = proc.run
      /\ proc'.resume = proc.resume /\ proc'.reuse = proc.reuse
      /\ proc'.provider = proc.provider
  BY <1>1, <1>2, Moves DEF Steps
<1>7. StageOK(Begun, Finished, Ck, out, proc', "none")
  BY <1>1, <1>2, <1>3, <1>6 DEF StageOK, AfterPre, AfterPost, InTrajectory, AfterTrajectory
<1>8. QED
  BY <1>1, <1>3, <1>5, <1>6, <1>7, OutputStep

\* A checkpoint is cleared only when the profiles hold its answers.
LEMMA ClearStep == ASSUME RunInv, Clear PROVE RunInv'
<1> DEFINE ph == IF proc.at = "clear_pre" THEN "pre" ELSE "post"
           ck == [Ck EXCEPT ![ph] = NoCheckpoint]
<1>1. /\ proc.at \in {"clear_pre", "clear_post"} /\ call = "none"
      /\ checkpoint' = [checkpoint EXCEPT ![proc.run] = ck]
      /\ IF proc.at = "clear_pre" THEN proc' = [proc EXCEPT !.at = "clear_post"]
                                  ELSE Leave("completed", "none")
      /\ UNCHANGED <<ledger, output, call, faults>>
  BY NoCall DEF Clear, Ck
<1>2. /\ Ck \in [{"pre", "post"} -> Checkpoint] /\ Out \in Output /\ proc \in Process
      /\ RunOK(Begun, Finished, Ck, Out, proc.run)
      /\ StageOK(Begun, Finished, Ck, Out, proc, call)
  BY <1>1, Setting
<1>3. /\ ck \in [{"pre", "post"} -> Checkpoint] /\ ph \in {"pre", "post"}
      /\ ~ck[ph].exists /\ ck[ph].saved = {}
      /\ \A phase \in {"pre", "post"} : phase # ph => ck[phase] = Ck[phase]
  BY <1>2 DEF Checkpoint, NoCheckpoint
<1> HIDE DEF ck
<1>4. /\ Out.dir /\ Out.profiles = "written"
      /\ proc.at = "clear_pre" => Ck["post"].exists
      /\ proc.at = "clear_post" => ~Ck["pre"].exists
  BY <1>1, <1>2 DEF StageOK, AfterTrajectory, AfterPost
<1>5. CheckpointsOK(Begun, Finished, ck, Out, proc.run)
  <2>1. CASE proc.at = "clear_pre"
    BY <1>2, <1>3, <1>4, <2>1 DEF RunOK, CheckpointsOK
  <2>2. CASE proc.at = "clear_post"
    BY <1>2, <1>3, <1>4, <2>2 DEF RunOK, CheckpointsOK
  <2>3. QED
    BY <1>1, <2>1, <2>2
<1>6. OutputOK(Begun, Finished, ck, Out, proc.run)
  <2>1. ~ck["pre"].exists
    BY <1>1, <1>3, <1>4
  <2>2. QED
    BY <1>2, <1>4, <2>1 DEF RunOK, OutputOK
<1>7. /\ proc' \in Process /\ proc'.at # "idle" /\ proc'.run = proc.run
      /\ proc'.provider = proc.provider
      /\ proc'.at # "returned" => StageOK(Begun, Finished, ck, Out, proc', "none")
  <2>1. CASE proc.at = "clear_pre"
    <3>1. /\ proc' \in Process /\ proc'.at = "clear_post" /\ proc'.run = proc.run
          /\ proc'.resume = proc.resume /\ proc'.reuse = proc.reuse
          /\ proc'.provider = proc.provider
      BY <1>1, <1>2, <2>1, Moves DEF Steps
    <3>2. StageOK(Begun, Finished, ck, Out, proc', "none")
      BY <1>2, <1>3, <2>1, <3>1
      DEF StageOK, AfterPre, AfterPost, InTrajectory, AfterTrajectory
    <3>3. QED
      BY <3>1, <3>2
  <2>2. CASE proc.at = "clear_post"
    BY <1>1, <1>2, <2>2, Leaves DEF Results, Errors
  <2>3. QED
    BY <1>1, <2>1, <2>2
<1>8. call' = "none" /\ faults' \in 0..MaxFaults
  BY <1>1 DEF RunInv, TypeOK
<1>9. output' = [output EXCEPT ![proc.run] = Out]
  BY <1>1, <1>2 DEF RunInv, TypeOK, Out
<1>10. QED
  BY <1>1, <1>2, <1>3, <1>5, <1>6, <1>7, <1>8, <1>9, FilesStep DEF RunOK

-----------------------------------------------------------------------------
(* The steps of the operator, and the ends of a process. *)

\* A process that starts or is gone.
LEMMA NewProcess ==
  ASSUME RunInv, UNCHANGED <<ledger, checkpoint, output>>, call' = "none",
         faults' \in 0..MaxFaults, proc' \in Process,
         proc'.at # "idle" => proc'.run \in Runs,
         proc'.at \notin {"idle", "returned"} =>
           StageOK(Begun', Finished', Ck', Out', proc', "none")
  PROVE  RunInv'
<1>1. TypeOK'
  BY DEF RunInv, TypeOK
<1>2. CallOK'
  BY DEF CallOK
<1>3. ProcOK'
  BY <1>2 DEF ProcOK
<1>4. QED
  BY <1>1, <1>3 DEF RunInv

\* The idle process is a process.
LEMMA IdleType ==
  /\ Idle \in Process /\ Idle.turns = 0
  /\ Idle.at = "idle" /\ Idle.provider.allowed = {}
BY RunAssumption DEF Idle, Process, Provider, Steps, Results, Errors

\* A launch starts over from the files.
LEMMA LaunchStep ==
  ASSUME RunInv, NEW run \in Runs, NEW resume \in BOOLEAN,
         NEW provider \in Provider, Launch(run, resume, provider)
  PROVE  RunInv'
<1> DEFINE started == [Idle EXCEPT !.at = "open_pre", !.run = run, !.resume = resume,
                                   !.reuse = output[run].dir, !.provider = provider]
<1>1. /\ proc.at = "idle"
      /\ proc' = IF output[run].dir /\ ~resume
                 THEN [started EXCEPT !.at = "returned", !.result = "raised",
                                      !.error = "condition_execution_failed"]
                 ELSE started
      /\ UNCHANGED <<ledger, checkpoint, output, call, faults>>
  BY DEF Launch
<1>2. output[run].dir \in BOOLEAN /\ faults \in 0..MaxFaults
  BY DEF RunInv, TypeOK, Output
<1>3. /\ started \in Process /\ started.at = "open_pre" /\ started.run = run
      /\ started.resume = resume /\ started.reuse = output[run].dir
      /\ started.turns = 0
  <2>1. Idle \in Process /\ Idle.turns = 0
    BY IdleType
  <2>2. "open_pre" \in Steps /\ run \in Runs \cup {NoRun}
    BY DEF Steps
  <2>3. QED
    BY <1>2, <2>1, <2>2 DEF Process
<1> HIDE DEF started
<1>4. call' = "none"
  BY <1>1, NoCall
<1>5. CASE output[run].dir /\ ~resume
  <2>1. proc' \in Process /\ proc'.at = "returned" /\ proc'.run = run
    BY <1>1, <1>3, <1>5 DEF Process, Steps, Results, Errors
  <2>2. QED
    BY <1>1, <1>2, <1>4, <2>1, NewProcess
<1>6. CASE ~(output[run].dir /\ ~resume)
  <2>1. proc' = started
    BY <1>1, <1>6
  <2>2. Out' = output[run]
    BY <1>1, <1>3, <2>1 DEF Out
  <2>3. StageOK(Begun', Finished', Ck', Out', proc', "none")
    BY <1>3, <1>6, <2>1, <2>2
    DEF StageOK, AfterPre, AfterPost, InTrajectory, AfterTrajectory
  <2>4. QED
    BY <1>1, <1>2, <1>3, <1>4, <2>1, <2>3, NewProcess
<1>7. QED
  BY <1>5, <1>6

\* The end of a launch, or its crash, leaves the files to the next.
LEMMA EndStep ==
  ASSUME RunInv, proc' = Idle, UNCHANGED <<ledger, checkpoint, output>>,
         \/ proc.at = "returned" /\ UNCHANGED <<call, faults>>
         \/ call' = "none" /\ Fault("crash")
  PROVE  RunInv'
<1>1. call' = "none"
  BY NoCall
<1>2. faults' \in 0..MaxFaults
  BY FaultCounted DEF RunInv, TypeOK
<1>3. QED
  BY <1>1, <1>2, IdleType, NewProcess

-----------------------------------------------------------------------------
(* The invariant. *)

\* Every step keeps the invariant.
LEMMA InvStep == RunInv /\ [Next]_vars => RunInv'
<1> SUFFICES ASSUME RunInv, [Next]_vars PROVE RunInv'
  OBVIOUS
<1>1. ASSUME NEW run \in Runs, NEW resume \in BOOLEAN, Operate(run, resume)
      PROVE  RunInv'
  <2> DEFINE provider == [resume |-> resume, allowed |-> {}, consumed |-> FALSE]
  <2>1. provider \in Provider /\ Launch(run, resume, provider)
    BY <1>1 DEF Operate, Provider
  <2> HIDE DEF provider
  <2>2. QED
    BY <2>1, LaunchStep
<1>2. CASE Work
  BY <1>2, OpenCheckpointStep, RefuseCheckpointStep, AskStep, RefuseRequestStep, AnswerStep,
    SaveAnswerStep, TakeTurnStep, BeginTrajectoryStep, ReuseTrajectoryStep,
    RefuseTrajectoryStep, FinishTrajectoryStep, RecordFailedTrajectoryStep,
    RecordFailureStep, MakeProfilesStep, FillProfilesStep, RecordMeasurementStep, ClearStep
  DEF Work
<1>3. CASE Return \/ Crash
  BY <1>3, EndStep DEF Return, Crash
<1>4. CASE Mishap
  BY <1>4, ProviderFailsStep, ReceiptUnwrittenStep, AnswerInvalidStep, SaveFailsStep
  DEF Mishap
<1>5. CASE UNCHANGED vars
  <2>1. UNCHANGED <<ledger, checkpoint, output, proc, call, faults>>
    BY <1>5 DEF vars
  <2>2. TypeOK'
    BY <2>1 DEF RunInv, TypeOK
  <2>3. ProcOK'
    BY <2>1 DEF RunInv, ProcOK, CallOK, Begun, Finished, Ck, Out, Log, PhaseLeft, Pending,
      Probing, File
  <2>4. QED
    BY <2>1, <2>2, <2>3 DEF RunInv
<1>6. QED
  BY <1>1, <1>2, <1>3, <1>4, <1>5 DEF Next

\* Every launch, failure and crash keeps the files of every run in order.
THEOREM RunInvariant == Spec => []RunInv
BY InvInit, InvStep, PTL DEF Spec

\* The receipts, the checkpoints, the directories and the process keep their types.
THEOREM TypeCorrect == Spec => []TypeOK
<1>1. RunInv => TypeOK
  BY DEF RunInv
<1>2. QED
  BY <1>1, RunInvariant, PTL

\* What the properties say of a request, in terms of the two sets.
LEMMA Views ==
  ASSUME NEW r \in Requests
  PROVE  /\ Completed(r) <=> r \in FinishedRequests(ledger[LedgerOf[r.run]])
         /\ Started(r) <=> r \in StartedRequests(ledger[LedgerOf[r.run]])
BY DEF Completed, Started, ReceiptsOf, FinishedRequests, StartedRequests

\* The frontier is part of the invariant.
LEMMA FrontierFollows == RunInv => FrontierHolds
<1> SUFFICES ASSUME RunInv, NEW run \in Runs, NEW phase \in {"pre", "post"},
                    checkpoint[run][phase].exists
             PROVE  \E n \in 0..ProbeCount :
                      /\ Saved(run, phase) = 1..n
                      /\ \A i \in Probes :
                           /\ i <= n => Completed(ProbeOf(run, phase, i))
                           /\ i > n + 1 => ~Started(ProbeOf(run, phase, i))
  BY DEF FrontierHolds
<1> DEFINE log == ledger[LedgerOf[run]]
<1>1. Frontier(StartedRequests(log), FinishedRequests(log), checkpoint[run][phase].saved,
               run, phase)
  BY DEF RunInv, FilesOK, RunOK, CheckpointsOK
<1>2. \A i \in Probes :
        LET probe == ProbeOf(run, phase, i)
        IN  /\ Completed(probe) <=> probe \in FinishedRequests(log)
            /\ Started(probe) <=> probe \in StartedRequests(log)
  BY Coordinates, Views
<1> HIDE DEF log
<1>3. QED
  BY <1>1, <1>2 DEF Frontier, Saved

\* A checkpoint and the ledger never disagree by more than the probe under way.
THEOREM FrontierAlwaysHolds == Spec => []FrontierHolds
BY FrontierFollows, RunInvariant, PTL

\* So is that turns were started once, and only with a directory.
LEMMA OneTrajectory == RunInv => TurnsNeverReplayed
<1> SUFFICES ASSUME RunInv, NEW r \in Requests, r.phase = "turn", Started(r)
             PROVE  /\ Cardinality(StartsOf(ReceiptsOf(r), r)) = 1
                    /\ \A i \in Probes : Completed(ProbeOf(r.run, "pre", i))
  BY DEF TurnsNeverReplayed
<1> DEFINE log == ledger[LedgerOf[r.run]]
<1>1. r.run \in Runs /\ FilesOK(log, checkpoint[r.run], output[r.run], r.run)
  BY Coordinates DEF RunInv
<1>2. PICK t \in Turns : r = TurnOf(r.run, t)
  BY <1>1, Coordinates
<1>3. r \in StartedRequests(log) /\ StartsOf(log, r) # {}
  BY Views DEF Started, ReceiptsOf
<1>4. Cardinality(StartsOf(log, r)) = 1
  BY <1>1, <1>2, <1>3 DEF FilesOK, TurnsOnce
<1>5. output[r.run].dir
  BY <1>1, <1>2, <1>3 DEF FilesOK, RunOK, OutputOK, Virgin
<1>6. \A i \in Probes : ProbeOf(r.run, "pre", i) \in FinishedRequests(log)
  BY <1>1, <1>5 DEF FilesOK, RunOK, OutputOK
<1>7. \A i \in Probes : Completed(ProbeOf(r.run, "pre", i))
  BY <1>1, <1>6, Coordinates, Views
<1>8. QED
  BY <1>4, <1>7 DEF ReceiptsOf

\* A run has one trajectory, begun after its whole baseline.
THEOREM TurnsAreNeverReplayed == Spec => []TurnsNeverReplayed
BY OneTrajectory, RunInvariant, PTL

\* A directory is there with its baseline, profiles with both phases.
LEMMA AnswersFollow == RunInv => AnswersKept
<1> SUFFICES ASSUME RunInv, NEW run \in Runs
             PROVE  /\ output[run].dir =>
                         output[run].profiles = "written" \/ Saved(run, "pre") = Probes
                    /\ output[run].profiles = "partial" => Saved(run, "post") = Probes
  BY DEF AnswersKept
<1>1. OutputOK(StartedRequests(ledger[LedgerOf[run]]), FinishedRequests(ledger[LedgerOf[run]]),
               checkpoint[run], output[run], run)
  BY DEF RunInv, FilesOK, RunOK
<1>2. QED
  BY <1>1 DEF OutputOK, Virgin, Saved

\* No private answer is lost once the run depends on it.
THEOREM AnswersAlwaysKept == Spec => []AnswersKept
BY AnswersFollow, RunInvariant, PTL

\* A completed measurement has written profiles, which have it all.
LEMMA WholeFollows == RunInv => CompletedIsWhole
<1> SUFFICES ASSUME RunInv, NEW run \in Runs, output[run].measurement = "completed"
             PROVE  /\ output[run].record = "completed" /\ output[run].profiles = "written"
                    /\ \A r \in Requests : r.run = run => Completed(r)
  BY DEF CompletedIsWhole
<1>1. OutputOK(StartedRequests(ledger[LedgerOf[run]]), FinishedRequests(ledger[LedgerOf[run]]),
               checkpoint[run], output[run], run)
  BY DEF RunInv, FilesOK, RunOK
<1>2. /\ output[run].record = "completed" /\ output[run].profiles = "written"
      /\ \A r \in Requests : r.run = run => r \in FinishedRequests(ledger[LedgerOf[run]])
  BY <1>1 DEF OutputOK
<1>3. QED
  BY <1>2, Views

\* A completed measurement is backed by every receipt of its run.
THEOREM CompletedAlwaysWhole == Spec => []CompletedIsWhole
BY WholeFollows, RunInvariant, PTL

-----------------------------------------------------------------------------
(* What a step may do. *)

\* Where a failure takes the process.
LEMMA FailsTo ==
  ASSUME proc \in Process, NEW error, Fail(error),
         proc.at \in {"open_pre", "pre", "turn", "open_post", "post"}
  PROVE  /\ proc'.at \in {"returned", "turn_failed", "post_failed"}
         /\ proc'.run = proc.run /\ proc'.provider = proc.provider
         /\ proc'.at = "returned" => proc'.result # "completed"
<1>1. CASE proc.at \in {"open_pre", "pre"}
  BY <1>1 DEF Fail, Leave, Process
<1>2. CASE proc.at = "turn"
  BY <1>2 DEF Fail, Process
<1>3. CASE proc.at \in {"open_post", "post"}
  BY <1>3 DEF Fail, Process
<1>4. QED
  BY <1>1, <1>2, <1>3

\* The steps, with all failures as one and all ends of a process as one.
LEMMA StepCases ==
  ASSUME RunInv, [Next]_vars
  PROVE  \/ UNCHANGED vars
         \/ /\ proc'.at \in {"idle", "open_pre", "returned"} /\ call' = "none"
            /\ UNCHANGED <<ledger, checkpoint, output>>
         \/ /\ proc'.at \in {"returned", "turn_failed", "post_failed"} /\ proc'.run = proc.run
            /\ call' = "none" /\ UNCHANGED <<checkpoint, output>>
            /\ \/ ledger' = ledger
               \/ call = "sent" /\ EndCall("failed")
         \/ OpenCheckpoint \/ Ask \/ Answer \/ SaveAnswer \/ TakeTurn
         \/ BeginTrajectory \/ ReuseTrajectory \/ FinishTrajectory
         \/ RecordFailedTrajectory \/ RecordAgentFailure \/ RecordPostFailure
         \/ MakeProfiles \/ FillProfiles \/ RecordMeasurement \/ Clear
<1>1. ASSUME NEW run \in Runs, NEW resume \in BOOLEAN, Operate(run, resume)
      PROVE  /\ proc'.at \in {"idle", "open_pre", "returned"} /\ call' = "none"
             /\ UNCHANGED <<ledger, checkpoint, output>>
  <2>1. proc.at = "idle" /\ UNCHANGED <<ledger, checkpoint, output, call>>
    BY <1>1 DEF Operate, Launch
  <2>2. proc'.at \in {"open_pre", "returned"}
    BY <1>1 DEF Operate, Launch, Idle
  <2>3. QED
    BY <2>1, <2>2, NoCall
<1>2. CASE Return \/ Crash
  <2>1. /\ proc' = Idle /\ UNCHANGED <<ledger, checkpoint, output>>
        /\ \/ proc.at = "returned" /\ UNCHANGED call
           \/ call' = "none"
    BY <1>2 DEF Return, Crash
  <2>2. QED
    BY <2>1, NoCall, IdleType
<1>3. CASE RefuseCheckpoint
  <2>1. /\ proc.at \in {"open_pre", "open_post"} /\ Fail(OpenRefusal(OpeningPhase))
        /\ OpenRefusal(OpeningPhase) \in Errors
        /\ UNCHANGED <<ledger, checkpoint, output, call>>
    BY <1>3 DEF RefuseCheckpoint, OpenRefusal, Errors
  <2>2. call' = "none"
    BY <2>1, NoCall
  <2>3. proc \in Process
    BY <2>1, Setting
  <2>4. proc'.at \in {"returned", "turn_failed", "post_failed"} /\ proc'.run = proc.run
    BY <2>1, <2>3, FailsTo
  <2>5. QED
    BY <2>1, <2>2, <2>4
<1>4. CASE RefuseRequest
  <2>1. /\ proc.at \in {"pre", "turn", "post"} /\ call = "none" /\ Fail("invalid_request")
        /\ UNCHANGED <<ledger, checkpoint, output, call>>
    BY <1>4 DEF RefuseRequest, AtRequest
  <2>2. "invalid_request" \in Errors
    BY DEF Errors
  <2>3. proc \in Process
    BY <2>1, Setting
  <2>4. proc'.at \in {"returned", "turn_failed", "post_failed"} /\ proc'.run = proc.run
    BY <2>1, <2>2, <2>3, FailsTo
  <2>5. QED
    BY <2>1, <2>4
<1>5. CASE RefuseTrajectory
  <2>1. /\ proc.at = "pre" /\ call = "none"
        /\ Leave("agent_run_failed", "agent_recovery_not_supported")
        /\ UNCHANGED <<ledger, checkpoint, output, call>>
    BY <1>5, AllSaved DEF RefuseTrajectory
  <2>2. QED
    BY <2>1, Setting, Leaves DEF Results, Errors
<1>6. CASE Mishap
  <2>1. /\ proc.at \in {"open_pre", "pre", "turn", "open_post", "post"} /\ call' = "none"
        /\ UNCHANGED <<checkpoint, output>>
        /\ \/ Fail("provider_failure")
           \/ Fail("invalid_schema")
           \/ Fail("checkpoint_write_failed")
        /\ \/ ledger' = ledger
           \/ call = "sent" /\ EndCall("failed")
    <3>1. call # "none" => proc.at \in {"pre", "turn", "post"}
      BY DEF RunInv, ProcOK, CallOK
    <3>2. CASE ProviderFails
      BY <3>1, <3>2 DEF ProviderFails
    <3>3. CASE ReceiptUnwritten
      BY <3>1, <3>3 DEF ReceiptUnwritten, AtRequest
    <3>4. CASE AnswerInvalid
      BY <3>1, <3>4 DEF AnswerInvalid
    <3>5. CASE SaveFails
      BY <3>5 DEF SaveFails, Probing
    <3>6. QED
      BY <1>6, <3>2, <3>3, <3>4, <3>5 DEF Mishap
  <2>2. proc \in Process
    BY <2>1, Setting
  <2>3. {"provider_failure", "invalid_schema", "checkpoint_write_failed"} \subseteq Errors
    BY DEF Errors
  <2>4. proc'.at \in {"returned", "turn_failed", "post_failed"} /\ proc'.run = proc.run
    BY <2>1, <2>2, <2>3, FailsTo
  <2>5. QED
    BY <2>1, <2>4
<1>7. QED
  BY <1>1, <1>2, <1>3, <1>4, <1>5, <1>6 DEF Next, Work

\* Receipts are written by a request that is sent and by one that ends.
LEMMA LedgerMoves ==
  ASSUME RunInv, [Next]_vars
  PROVE  ledger' = ledger \/ Ask \/ \E outcome \in {"completed", "failed"} :
                                       call = "sent" /\ EndCall(outcome)
<1>1. Answer => call = "sent" /\ EndCall("completed")
  BY DEF Answer
<1>2. QED
  BY <1>1, StepCases
  DEF vars, OpenCheckpoint, SaveAnswer, TakeTurn, BeginTrajectory, ReuseTrajectory,
    FinishTrajectory, RecordFailedTrajectory, RecordAgentFailure, RecordPostFailure,
    MakeProfiles, FillProfiles, RecordMeasurement, Clear

\* The receipt of a request that is sent.
LEMMA AskReceipt ==
  ASSUME RunInv, Ask
  PROVE  LET e == StartReceipt(Log, Pending)
         IN  /\ e \in Receipt /\ e.status = "started" /\ e.req = Pending
             /\ e.recovery = IsRecovery(Log, Pending)
             /\ Pending \in Requests /\ Pending.run = proc.run
             /\ ledger' = [ledger EXCEPT ![LedgerOf[proc.run]] = Append(@, e)]
<1>1. proc.at \in {"pre", "turn", "post"} /\ PhaseLeft
  BY DEF Ask, AtRequest
<1>2. Log \in Seq(Receipt) /\ LogOK(Log)
  BY <1>1, Setting
<1>3. Pending \in Requests /\ Pending.run = proc.run
  BY <1>1, PendingIs
<1>4. QED
  BY <1>2, <1>3, LogStart DEF Ask, StartReceipt

\* What was completed stays completed.
LEMMA FinishedGrows ==
  ASSUME RunInv, [Next]_vars, NEW f \in Files
  PROVE  FinishedRequests(ledger[f]) \subseteq FinishedRequests(ledger'[f])
<1>1. CASE ledger' = ledger
  BY <1>1
<1>2. ASSUME NEW e \in Receipt, proc.at # "idle",
             ledger' = [ledger EXCEPT ![LedgerOf[proc.run]] = Append(@, e)]
      PROVE  FinishedRequests(ledger[f]) \subseteq FinishedRequests(ledger'[f])
  <2>1. Log \in Seq(Receipt) /\ LedgerOf[proc.run] \in Files
    BY <1>2, Setting
  <2>2. FinishedRequests(Log) \subseteq FinishedRequests(Append(Log, e))
    <3>1. CASE e.status = "started"
      BY <2>1, <3>1, AppendStart
    <3>2. CASE e.status # "started"
      BY <2>1, <3>2, AppendEnd
    <3>3. QED
      BY <3>1, <3>2
  <2>3. ledger'[f] = IF f = LedgerOf[proc.run] THEN Append(Log, e) ELSE ledger[f]
    BY <1>2, <2>1 DEF RunInv, TypeOK, Log
  <2>4. QED
    BY <2>2, <2>3 DEF Log
<1>3. CASE Ask
  BY <1>2, <1>3, AskReceipt DEF Ask, AtRequest
<1>4. ASSUME call = "sent", NEW outcome \in {"completed", "failed"}, EndCall(outcome)
      PROVE  FinishedRequests(ledger[f]) \subseteq FinishedRequests(ledger'[f])
  <2>1. proc.at # "idle"
    BY <1>4 DEF RunInv, ProcOK, CallOK
  <2>2. QED
    BY <1>2, <1>4, <2>1, CallEnded
<1>5. QED
  BY <1>1, <1>3, <1>4, LedgerMoves

\* A run at work stays the run it is, and returns as completed only from its
\* last step, which leaves its directory alone.
LEMMA RunStays ==
  ASSUME RunInv, Work \/ Mishap
  PROVE  /\ proc.at \notin {"idle", "returned"} /\ proc'.at # "idle" /\ proc'.run = proc.run
         /\ proc'.provider = proc.provider \/ Ask
         /\ proc'.at = "returned" /\ proc'.result = "completed" =>
              proc.at = "clear_post" /\ UNCHANGED output
<1>1. proc \in Process /\ (call # "none" => proc.at \in {"pre", "turn", "post"})
  BY DEF RunInv, TypeOK, ProcOK, CallOK
<1>2. CASE RefuseCheckpoint
  BY <1>1, <1>2, FailsTo DEF RefuseCheckpoint
<1>3. CASE RefuseRequest
  BY <1>1, <1>3, FailsTo DEF RefuseRequest, AtRequest
<1>4. CASE Mishap
  <2>1. /\ proc.at \in {"open_pre", "pre", "turn", "open_post", "post"}
        /\ \E error : Fail(error)
    BY <1>1, <1>4
    DEF Mishap, ProviderFails, ReceiptUnwritten, AnswerInvalid, SaveFails, AtRequest, Probing
  <2>2. QED
    BY <1>1, <2>1, FailsTo
<1>5. CASE OpenCheckpoint \/ Ask \/ Answer \/ SaveAnswer \/ TakeTurn
  BY <1>1, <1>5
  DEF OpenCheckpoint, OpeningPhase, Ask, AtRequest, Answer, SaveAnswer, TakeTurn, Process
<1>6. CASE \/ BeginTrajectory \/ ReuseTrajectory \/ FinishTrajectory \/ RecordFailedTrajectory
           \/ FillProfiles \/ RecordMeasurement
  BY <1>1, <1>6
  DEF BeginTrajectory, ReuseTrajectory, FinishTrajectory, RecordFailedTrajectory,
    FillProfiles, RecordMeasurement, PhaseDone, Process
<1>7. CASE RefuseTrajectory \/ RecordAgentFailure \/ RecordPostFailure
  BY <1>1, <1>7
  DEF RefuseTrajectory, RecordAgentFailure, RecordPostFailure, PhaseDone, Leave, Process
<1>8. CASE MakeProfiles
  BY <1>1, <1>8 DEF MakeProfiles, PhaseDone, Leave, Process
<1>9. CASE Clear
  BY <1>1, <1>9 DEF Clear, Leave, Process
<1>10. QED
  BY <1>2, <1>3, <1>4, <1>5, <1>6, <1>7, <1>8, <1>9 DEF Work

\* A measurement that is out stays out.
LEMMA MeasurementStays ==
  ASSUME RunInv, [Next]_vars, NEW run \in Runs, output[run].measurement = "completed"
  PROVE  output'[run].measurement = "completed"
<1>1. output \in [Runs -> Output]
  BY DEF RunInv, TypeOK
<1>2. CASE UNCHANGED output
  BY <1>2
<1>3. CASE BeginTrajectory \/ FinishTrajectory \/ RecordFailedTrajectory \/ FillProfiles
  BY <1>1, <1>3
  DEF BeginTrajectory, FinishTrajectory, RecordFailedTrajectory, FillProfiles, Output
<1>4. CASE MakeProfiles \/ RecordMeasurement
  BY <1>1, <1>4 DEF MakeProfiles, RecordMeasurement, Output
<1>5. CASE RecordAgentFailure \/ RecordPostFailure
  <2>1. /\ output' = [output EXCEPT ![proc.run].measurement = "failed"]
        /\ proc.at \in {"agent_failed", "post_failed"}
    BY <1>5 DEF RecordAgentFailure, RecordPostFailure
  <2>2. Out.measurement # "completed"
    BY <2>1, Setting DEF StageOK, InTrajectory
  <2>3. QED
    BY <1>1, <2>1, <2>2 DEF Out
<1>6. QED
  BY <1>2, <1>3, <1>4, <1>5, StepCases
  DEF vars, OpenCheckpoint, Ask, Answer, SaveAnswer, TakeTurn, ReuseTrajectory, Clear

\* Only the run at work begins requests.
LEMMA StartedBy ==
  ASSUME RunInv, Work \/ Mishap, NEW r \in Requests,
         r \in StartedRequests(ledger'[LedgerOf[r.run]])
  PROVE  r \in StartedRequests(ledger[LedgerOf[r.run]]) \/ r.run = proc.run
<1>1. proc.at # "idle"
  BY RunStays
<1>2. Log \in Seq(Receipt) /\ LedgerOf[proc.run] \in Files /\ LedgerOf[r.run] \in Files
  BY <1>1, Setting, Coordinates DEF Files
<1>3. CASE ledger' = ledger
  BY <1>3
<1>4. ASSUME NEW e \in Receipt, e.req.run = proc.run,
             ledger' = [ledger EXCEPT ![LedgerOf[proc.run]] = Append(@, e)]
      PROVE  r \in StartedRequests(ledger[LedgerOf[r.run]]) \/ r.run = proc.run
  <2>1. StartedRequests(Append(Log, e)) \subseteq StartedRequests(Log) \cup {e.req}
    <3>1. CASE e.status = "started"
      BY <1>2, <3>1, AppendStart
    <3>2. CASE e.status # "started"
      BY <1>2, <3>2, AppendEnd
    <3>3. QED
      BY <3>1, <3>2
  <2>2. ledger'[LedgerOf[r.run]] = IF LedgerOf[r.run] = LedgerOf[proc.run]
                                   THEN Append(Log, e) ELSE ledger[LedgerOf[r.run]]
    BY <1>2, <1>4 DEF RunInv, TypeOK, Log
  <2>3. QED
    BY <1>4, <2>1, <2>2 DEF Log
<1>5. CASE Ask
  BY <1>4, <1>5, AskReceipt
<1>6. ASSUME call = "sent", NEW outcome \in {"completed", "failed"}, EndCall(outcome)
      PROVE  r \in StartedRequests(ledger[LedgerOf[r.run]]) \/ r.run = proc.run
  BY <1>4, <1>6, CallEnded
<1>7. [Next]_vars
  BY DEF Next
<1>8. QED
  BY <1>3, <1>5, <1>6, <1>7, LedgerMoves

\* An order of all runs takes up every run once.
LEMMA OrderOnce ==
  ASSUME NEW order \in Seq(Runs), {order[i] : i \in DOMAIN order} = Runs,
         Len(order) = Cardinality(Runs)
  PROVE  /\ DOMAIN order = 1..Len(order) /\ Len(order) \in Nat
         /\ \A i \in DOMAIN order : order[i] \in Runs
         /\ \A i, j \in DOMAIN order : order[i] = order[j] => i = j
<1> DEFINE S == 1..Len(order)
<1>1. /\ DOMAIN order = S /\ Len(order) \in Nat
      /\ order \in [S -> Runs] /\ {order[i] : i \in S} = Runs
  OBVIOUS
<1>2. IsFiniteSet(S) /\ Cardinality(S) = Len(order)
  <2>1. /\ IsFiniteSet(S)
        /\ Cardinality(S) = IF 1 > Len(order) THEN 0 ELSE Len(order) - 1 + 1
    <3>1. /\ 1 \in Int /\ Len(order) \in Int
      BY <1>1
    <3>2. QED
      BY <3>1, FS_Interval
  <2> HIDE DEF S
  <2>2. QED
    BY <1>1, <2>1
<1>3. Cardinality(S) = Cardinality(Runs)
  BY <1>2
<1>4. order \in Surjection(S, Runs)
  BY <1>1 DEF Surjection
<1>5. order \in Injection(S, Runs)
  <2> HIDE DEF S
  <2> QED
    BY <1>2, <1>3, <1>4, FS_SurjSameCardinalityImpliesInj
<1>6. QED
  BY <1>1, <1>5 DEF Injection, IsInjective

-----------------------------------------------------------------------------
(* What a wedged run stays. *)

(* Without an allow-list no completed request is sent again, so a completed  *)
(* receipt stays the newest of its request.                                  *)
NoRecovery ==
  /\ proc.provider.allowed = {}
  /\ \A f \in Files : CompletedNewest(ledger[f])

\* No step of a run, and no launch of an operator, recovers anything.
LEMMA NoRecoveryStep ==
  ASSUME RunInv, NoRecovery, [Next]_vars PROVE NoRecovery'
<1>1. proc'.provider.allowed = {}
  <2>1. CASE \E run \in Runs, resume \in BOOLEAN : Operate(run, resume)
    <3>1. PICK run \in Runs, resume \in BOOLEAN : Operate(run, resume)
      BY <2>1
    <3> DEFINE provider == [resume |-> resume, allowed |-> {}, consumed |-> FALSE]
               started == [Idle EXCEPT !.at = "open_pre", !.run = run, !.resume = resume,
                                       !.reuse = output[run].dir, !.provider = provider]
    <3>2. \/ proc' = started
          \/ proc' = [started EXCEPT !.at = "returned", !.result = "raised",
                                     !.error = "condition_execution_failed"]
      BY <3>1 DEF Operate, Launch
    <3>3. provider.allowed = {}
      OBVIOUS
    <3> HIDE DEF provider
    <3>4. QED
      BY <3>2, <3>3 DEF Idle
  <2>2. CASE Work \/ Mishap
    <3>1. CASE Ask
      BY <3>1, Setting DEF Ask, AtRequest, Consume, NoRecovery, Process, Provider
    <3>2. QED
      BY <2>2, <3>1, RunStays DEF NoRecovery
  <2>3. CASE Return \/ Crash
    BY <2>3, IdleType DEF Return, Crash
  <2>4. CASE UNCHANGED vars
    BY <2>4 DEF vars, NoRecovery
  <2>5. QED
    BY <2>1, <2>2, <2>3, <2>4 DEF Next
<1>2. ASSUME NEW f \in Files PROVE CompletedNewest(ledger'[f])
  <2>1. ASSUME NEW e, proc.at # "idle",
               ledger' = [ledger EXCEPT ![LedgerOf[proc.run]] = Append(@, e)],
               CompletedNewest(Append(Log, e))
        PROVE  CompletedNewest(ledger'[f])
    BY <2>1, Setting DEF RunInv, TypeOK, Log, NoRecovery
  <2>2. CASE ledger' = ledger
    BY <2>2 DEF NoRecovery
  <2>3. CASE Ask
    <3>1. proc.at # "idle" /\ RefusalNow = "none" /\ proc \in Process
      BY <2>3, Setting DEF Ask, AtRequest
    <3>2. Log \in Seq(Receipt) /\ CompletedNewest(Log)
      BY <3>1, Setting DEF NoRecovery, Log
    <3>3. ProviderNow.allowed = {}
      BY <3>1 DEF ProviderNow, NoRecovery, Process, Provider
    <3>4. Pending \notin FinishedRequests(Log)
      BY <3>1, <3>2, <3>3, FinishedRefused DEF RefusalNow
    <3>5. CompletedNewest(Append(Log, StartReceipt(Log, Pending)))
      BY <2>3, <3>2, <3>4, AskReceipt, StartNewest
    <3>6. QED
      BY <2>1, <2>3, <3>1, <3>5, AskReceipt
  <2>4. ASSUME call = "sent", NEW outcome \in {"completed", "failed"}, EndCall(outcome)
        PROVE  CompletedNewest(ledger'[f])
    <3>1. /\ proc.at \in {"pre", "turn", "post"} /\ PhaseLeft /\ NewestStart(Log, Pending)
      BY <2>4 DEF RunInv, ProcOK, CallOK
    <3>2. Log \in Seq(Receipt) /\ CompletedNewest(Log) /\ Pending \in Requests
      BY <3>1, Setting, PendingIs DEF NoRecovery, Log
    <3>3. CompletedNewest(Append(Log, EndReceipt(Log[Len(Log)], outcome)))
      BY <3>1, <3>2, EndNewest
    <3>4. QED
      BY <2>1, <2>4, <3>1, <3>3, CallEnded
  <2>5. QED
    BY <2>2, <2>3, <2>4, LedgerMoves
<1>3. QED
  BY <1>1, <1>2 DEF NoRecovery

\* What an operator launches never asks for an answer again that came in.
LEMMA OperatorsNeverRecover == Spec => []NoRecovery
<1>1. Init => NoRecovery
  BY DEF Init, Idle, NoRecovery, CompletedNewest
<1>2. QED
  BY <1>1, NoRecoveryStep, RunInvariant, PTL DEF Spec

(* How a step may move the process of a run and what its directory holds.    *)
OutputMoves(run) ==
  /\ output[run].dir => output'[run].dir
  /\ output[run].profiles # "none" => output'[run].profiles # "none"
  /\ output'[run].record = "completed" =>
       output[run].record = "completed" \/ (proc.run = run /\ proc.at = "turn")
  /\ output'[run].measurement = "completed" =>
       output[run].measurement = "completed" \/ (proc.run = run /\ proc.at = "recording")
  /\ proc'.run = run /\ proc'.at = "turn" =>
       proc.run = run /\ (proc.at = "turn" \/ ~output[run].dir)
  /\ proc'.run = run /\ proc'.at = "profiling" =>
       proc.run = run /\ (proc.at = "profiling" \/ output[run].profiles = "none")
  /\ proc'.run = run /\ proc'.at = "recording" =>
       proc.run = run /\ proc.at \in {"profiling", "recording"}

\* OutputMoves of any step: its actions one by one.
LEMMA OutputMovesSo ==
  ASSUME RunInv, [Next]_vars, NEW run \in Runs
  PROVE  OutputMoves(run)
<1>1. output \in [Runs -> Output] /\ proc \in Process
  BY DEF RunInv, TypeOK
<1>2. CASE UNCHANGED output /\ proc'.at \notin {"turn", "profiling", "recording"}
  BY <1>2 DEF OutputMoves
<1>3. CASE UNCHANGED output /\ proc'.at = proc.at /\ proc'.run = proc.run
  BY <1>3 DEF OutputMoves
<1>4. CASE BeginTrajectory
  <2>1. proc.run \in Runs /\ ~output[proc.run].dir
    BY <1>4, AllSaved, Setting DEF BeginTrajectory, StageOK, Out
  <2>2. QED
    BY <1>1, <1>4, <2>1 DEF OutputMoves, BeginTrajectory, Output, Process
<1>5. CASE FinishTrajectory
  BY <1>1, <1>5 DEF OutputMoves, FinishTrajectory, PhaseDone, Output, Process
<1>6. CASE RecordFailedTrajectory
  BY <1>1, <1>6 DEF OutputMoves, RecordFailedTrajectory, Output, Process
<1>7. CASE RecordAgentFailure \/ RecordPostFailure
  <2>1. /\ output' = [output EXCEPT ![proc.run].measurement = "failed"]
        /\ \E result, error : Leave(result, error)
    BY <1>7 DEF RecordAgentFailure, RecordPostFailure
  <2>2. proc'.at = "returned"
    BY <1>1, <2>1 DEF Leave, Process
  <2>3. QED
    BY <1>1, <2>1, <2>2 DEF OutputMoves, Output
<1>8. CASE MakeProfiles
  <2>1. CASE output[proc.run].profiles = "none"
    <3>1. /\ output' = [output EXCEPT ![proc.run].profiles = "partial"]
          /\ proc' = [proc EXCEPT !.at = "profiling"]
      BY <1>8, <2>1 DEF MakeProfiles
    <3>2. QED
      BY <1>1, <2>1, <3>1 DEF OutputMoves, Output, Process
  <2>2. CASE output[proc.run].profiles # "none"
    <3>1. UNCHANGED output /\ Leave("raised", "condition_execution_failed")
      BY <1>8, <2>2 DEF MakeProfiles
    <3>2. proc'.at = "returned"
      BY <1>1, <3>1 DEF Leave, Process
    <3>3. QED
      BY <1>2, <3>1, <3>2
  <2>3. QED
    BY <2>1, <2>2
<1>9. CASE FillProfiles
  BY <1>1, <1>9 DEF OutputMoves, FillProfiles, Output, Process
<1>10. CASE RecordMeasurement
  BY <1>1, <1>10 DEF OutputMoves, RecordMeasurement, Output, Process
<1>11. CASE OpenCheckpoint \/ ReuseTrajectory \/ Clear
  <2>1. UNCHANGED output /\ proc'.at \notin {"turn", "profiling", "recording"}
    BY <1>1, <1>11
    DEF OpenCheckpoint, OpeningPhase, ReuseTrajectory, Clear, Leave, Process
  <2>2. QED
    BY <1>2, <2>1
<1>12. CASE Ask \/ Answer \/ SaveAnswer \/ TakeTurn
  <2>1. UNCHANGED output /\ proc'.at = proc.at /\ proc'.run = proc.run
    BY <1>1, <1>12 DEF Ask, Answer, SaveAnswer, TakeTurn, Process
  <2>2. QED
    BY <1>3, <2>1
<1>13. QED
  BY <1>2, <1>3, <1>4, <1>5, <1>6, <1>7, <1>8, <1>9, <1>10, <1>11, <1>12, StepCases
  DEF vars, OutputMoves

\* Answers are saved, and calls answered, only by the phase that asked.
LEMMA AnswerMoves ==
  ASSUME RunInv, [Next]_vars, NEW run \in Runs, NEW phase \in {"pre", "post"}
  PROVE  /\ \A i \in checkpoint'[run][phase].saved :
              \/ i \in checkpoint[run][phase].saved
              \/ proc.run = run /\ proc.at = phase /\ call = "answered"
         /\ proc'.run = run /\ proc'.at = phase /\ call' = "answered" =>
              proc.run = run /\ proc.at = phase /\ call \in {"sent", "answered"}
<1>1. /\ checkpoint \in [Runs -> [{"pre", "post"} -> Checkpoint]] /\ proc \in Process
      /\ call \in {"none", "sent", "answered"}
  BY DEF RunInv, TypeOK
<1>2. CASE UNCHANGED checkpoint /\ call' # "answered"
  BY <1>2
<1>3. CASE UNCHANGED vars
  BY <1>3 DEF vars
<1>4. CASE Answer
  BY <1>4 DEF Answer
<1>5. CASE SaveAnswer
  BY <1>1, <1>5 DEF SaveAnswer, Checkpoint
<1>6. CASE OpenCheckpoint
  <2>1. call = "none" /\ call' = "none"
    BY <1>6, NoCall DEF OpenCheckpoint
  <2>2. \A p \in {"pre", "post"} : checkpoint'[run][p].saved = checkpoint[run][p].saved
    BY <1>1, <1>6 DEF OpenCheckpoint, Checkpoint
  <2>3. QED
    BY <2>1, <2>2
<1>7. CASE Clear
  <2>1. call = "none" /\ call' = "none"
    BY <1>7, NoCall DEF Clear
  <2>2. \A p \in {"pre", "post"} : checkpoint'[run][p].saved \subseteq checkpoint[run][p].saved
    BY <1>1, <1>7 DEF Clear, Checkpoint, NoCheckpoint
  <2>3. QED
    BY <2>1, <2>2
<1>8. CASE Ask \/ TakeTurn \/ BeginTrajectory \/ ReuseTrajectory \/ FinishTrajectory \/ MakeProfiles
  BY <1>2, <1>8
  DEF Ask, TakeTurn, BeginTrajectory, ReuseTrajectory, FinishTrajectory, MakeProfiles, PhaseDone
<1>9. CASE \/ RecordFailedTrajectory \/ RecordAgentFailure \/ RecordPostFailure
           \/ FillProfiles \/ RecordMeasurement
  <2>1. call = "none"
    BY <1>9, NoCall DEF RecordFailedTrajectory, RecordAgentFailure, RecordPostFailure,
      FillProfiles, RecordMeasurement
  <2>2. UNCHANGED <<checkpoint, call>>
    BY <1>9 DEF RecordFailedTrajectory, RecordAgentFailure, RecordPostFailure,
      FillProfiles, RecordMeasurement
  <2>3. QED
    BY <1>2, <2>1, <2>2
<1>10. QED
  BY <1>2, <1>3, <1>4, <1>5, <1>6, <1>7, <1>8, <1>9, StepCases

(* Wedged, of what it looks at. *)
WedgedOf(log, ck, out, p, c, run) ==
  LET running(steps) == p.run = run /\ p.at \in steps
  IN  /\ out.measurement # "completed"
      /\ \/ out.dir /\ out.record # "completed" /\ ~running({"turn"})
         \/ out.profiles # "none" /\ ~running({"profiling", "recording"})
         \/ \E phase \in {"pre", "post"}, i \in Probes :
              /\ ProbeOf(run, phase, i) \in FinishedRequests(log) /\ i \notin ck[phase].saved
              /\ ~(running({phase}) /\ c = "answered")

\* Wedged before and after a step, by the state it depends on.
LEMMA WedgedAs ==
  ASSUME NEW run \in Runs
  PROVE  /\ Wedged(run)
              <=> WedgedOf(ledger[LedgerOf[run]], checkpoint[run], output[run], proc, call, run)
         /\ Wedged(run)'
              <=> WedgedOf(ledger'[LedgerOf[run]], checkpoint'[run], output'[run], proc', call', run)
<1>1. \A phase \in {"pre", "post"}, i \in Probes :
        Completed(ProbeOf(run, phase, i))
          <=> ProbeOf(run, phase, i) \in FinishedRequests(ledger[LedgerOf[run]])
  BY Coordinates, Views
<1>2. Wedged(run)
        <=> WedgedOf(ledger[LedgerOf[run]], checkpoint[run], output[run], proc, call, run)
  BY <1>1 DEF Wedged, WedgedOf, Saved
<1>3. ASSUME NEW phase \in {"pre", "post"}, NEW i \in Probes
      PROVE  (\E j \in TerminalsOf(ledger'[LedgerOf[ProbeOf(run, phase, i).run]],
                                   ProbeOf(run, phase, i)) :
                ledger'[LedgerOf[ProbeOf(run, phase, i).run]][j].status = "completed")
             <=> ProbeOf(run, phase, i) \in FinishedRequests(ledger'[LedgerOf[run]])
  <2>1. ProbeOf(run, phase, i) \in Requests /\ ProbeOf(run, phase, i).run = run
    BY Coordinates
  <2>2. QED
    BY <2>1 DEF FinishedRequests
<1>4. Wedged(run)'
        <=> WedgedOf(ledger'[LedgerOf[run]], checkpoint'[run], output'[run], proc', call', run)
  BY <1>3 DEF Wedged, WedgedOf, Saved, Completed, ReceiptsOf
<1>5. QED
  BY <1>2, <1>4

\* An answer that was not saved is not the one under way.
LEMMA LostAnswer ==
  ASSUME RunInv, NoRecovery, proc.at \in {"pre", "post"}, call = "sent", NEW i \in Probes,
         ProbeOf(proc.run, proc.at, i) \in Finished, i \notin Ck[proc.at].saved
  PROVE  FALSE
<1>1. PhaseLeft /\ NewestStart(Log, Pending)
  BY DEF RunInv, ProcOK, CallOK
<1>2. Log \in Seq(Receipt) /\ CompletedNewest(Log) /\ Finished \subseteq Begun
  BY Setting DEF NoRecovery, Log
<1>3. Pending \notin Finished
  BY <1>1, <1>2, NewestUnfinished DEF Finished
<1>4. PICK n \in 0..ProbeCount :
        /\ Ck[proc.at].saved = 1..n /\ Pending = ProbeOf(proc.run, proc.at, n + 1)
        /\ \A j \in Probes : j > n + 1 => ProbeOf(proc.run, proc.at, j) \notin Begun
  BY <1>1, PendingIs
<1>5. i > n + 1
  <2>1. i # n + 1
    BY <1>3, <1>4
  <2>2. QED
    BY <1>4, <2>1 DEF Probes
<1>6. QED
  BY <1>2, <1>4, <1>5

\* Where the measurement is recorded nothing is lost.
LEMMA NothingLost ==
  ASSUME RunInv, proc.at = "recording",
         NEW phase \in {"pre", "post"}, NEW i \in Probes
  PROVE  i \in Ck[phase].saved
<1>1. /\ StageOK(Begun, Finished, Ck, Out, proc, call)
      /\ RunOK(Begun, Finished, Ck, Out, proc.run)
  BY Setting
<1>2. Ck["pre"].exists /\ Out.profiles = "written" /\ Out.dir
  BY <1>1 DEF StageOK, AfterPre, AfterTrajectory
<1>3. Ck["pre"].saved = Probes /\ Ck["post"].saved = Probes
  BY <1>1, <1>2 DEF RunOK, OutputOK
<1>4. QED
  BY <1>3

\* No step leads out of Wedged.
LEMMA WedgedStep ==
  ASSUME RunInv, NoRecovery, [Next]_vars, NEW run \in Runs, Wedged(run)
  PROVE  Wedged(run)'
<1>1. WedgedOf(ledger[LedgerOf[run]], checkpoint[run], output[run], proc, call, run)
  BY WedgedAs
<1>2. OutputMoves(run)
  BY OutputMovesSo
<1>3. LedgerOf[run] \in Files
  BY DEF Files
<1>4. FinishedRequests(ledger[LedgerOf[run]]) \subseteq FinishedRequests(ledger'[LedgerOf[run]])
  BY <1>3, FinishedGrows
<1>5. output'[run].measurement # "completed"
  <2> SUFFICES ASSUME proc.run = run, proc.at = "recording" PROVE FALSE
    BY <1>1, <1>2 DEF OutputMoves, WedgedOf
  <2>1. Out.record = "completed"
    BY Setting DEF StageOK, AfterTrajectory
  <2>2. \A phase \in {"pre", "post"}, i \in Probes : i \in checkpoint[run][phase].saved
    BY NothingLost DEF Ck
  <2>3. QED
    BY <1>1, <2>1, <2>2 DEF WedgedOf, Out
<1>6. CASE /\ output[run].dir /\ output[run].record # "completed"
           /\ ~(proc.run = run /\ proc.at \in {"turn"})
  <2>1. /\ output'[run].dir /\ output'[run].record # "completed"
        /\ ~(proc'.run = run /\ proc'.at \in {"turn"})
    BY <1>2, <1>6 DEF OutputMoves
  <2>2. QED
    BY <1>5, <2>1, WedgedAs DEF WedgedOf
<1>7. CASE /\ output[run].profiles # "none"
           /\ ~(proc.run = run /\ proc.at \in {"profiling", "recording"})
  <2>1. /\ output'[run].profiles # "none"
        /\ ~(proc'.run = run /\ proc'.at \in {"profiling", "recording"})
    BY <1>2, <1>7 DEF OutputMoves
  <2>2. QED
    BY <1>5, <2>1, WedgedAs DEF WedgedOf
<1>8. ASSUME NEW phase \in {"pre", "post"}, NEW i \in Probes,
             ProbeOf(run, phase, i) \in FinishedRequests(ledger[LedgerOf[run]]),
             i \notin checkpoint[run][phase].saved,
             ~(proc.run = run /\ proc.at = phase /\ call = "answered")
      PROVE  Wedged(run)'
  <2>1. ProbeOf(run, phase, i) \in FinishedRequests(ledger'[LedgerOf[run]])
    BY <1>4, <1>8
  <2>2. i \notin checkpoint'[run][phase].saved
    BY <1>8, AnswerMoves
  <2>3. ~(proc'.run = run /\ proc'.at = phase /\ call' = "answered")
    <3> SUFFICES ASSUME proc'.run = run, proc'.at = phase, call' = "answered" PROVE FALSE
      OBVIOUS
    <3>1. proc.run = run /\ proc.at = phase /\ call = "sent"
      BY <1>8, AnswerMoves
    <3>2. ProbeOf(proc.run, proc.at, i) \in Finished /\ i \notin Ck[proc.at].saved
      BY <1>8, <3>1 DEF Finished, Log, Ck
    <3>3. QED
      BY <3>1, <3>2, LostAnswer
  <2>4. QED
    BY <1>5, <2>1, <2>2, <2>3, WedgedAs DEF WedgedOf
<1>9. QED
  BY <1>1, <1>6, <1>7, <1>8 DEF WedgedOf

\* Nothing an operator may launch leads out of a wedged run.
THEOREM WedgedStaysForever == Spec => WedgedForever
<1>1. RunInv /\ NoRecovery /\ [Next]_vars => [\A run \in Runs : Wedged(run) => Wedged(run)']_vars
  BY WedgedStep
<1>2. QED
  BY <1>1, RunInvariant, OperatorsNeverRecover, PTL DEF Spec, WedgedForever

-----------------------------------------------------------------------------
(* The refinement. *)

(* What the protocol sees of a run, by the files of the run. *)
BaselineOf(ck, out) == IF out.profiles = "written" THEN Probes ELSE ck["pre"].saved
FinalOf(ck, out) == IF out.profiles = "written" THEN Probes ELSE ck["post"].saved
SpokenOf(log, run) == Cardinality({t \in Turns : TurnOf(run, t) \in FinishedRequests(log)})

\* The mapping, by the files and the ledger of each run.
LEMMA ProtocolSees ==
  /\ Baseline = [run \in Runs |-> BaselineOf(checkpoint[run], output[run])]
  /\ Spoken = [run \in Runs |-> SpokenOf(ledger[LedgerOf[run]], run)]
  /\ Final = [run \in Runs |-> FinalOf(checkpoint[run], output[run])]
<1>1. ASSUME NEW run \in Runs
      PROVE  {t \in Turns : Completed([run |-> run, phase |-> "turn", at |-> t])}
               = {t \in Turns : TurnOf(run, t) \in FinishedRequests(ledger[LedgerOf[run]])}
  BY Coordinates, Views DEF TurnOf
<1>2. \A run \in Runs :
        Cardinality({t \in Turns : Completed([run |-> run, phase |-> "turn", at |-> t])})
          = SpokenOf(ledger[LedgerOf[run]], run)
  BY <1>1, Zenon DEF SpokenOf
<1>3. Spoken = [run \in Runs |-> SpokenOf(ledger[LedgerOf[run]], run)]
  BY <1>2, Zenon DEF Spoken
<1>4. QED
  BY <1>3 DEF Baseline, BaselineOf, Final, FinalOf, Saved

\* And after a step.
LEMMA ProtocolSeesNext ==
  /\ Baseline' = [run \in Runs |-> BaselineOf(checkpoint'[run], output'[run])]
  /\ Spoken' = [run \in Runs |-> SpokenOf(ledger'[LedgerOf[run]], run)]
  /\ Final' = [run \in Runs |-> FinalOf(checkpoint'[run], output'[run])]
<1>1. ASSUME NEW run \in Runs, NEW t \in Turns
      PROVE  Completed([run |-> run, phase |-> "turn", at |-> t])'
               <=> TurnOf(run, t) \in FinishedRequests(ledger'[LedgerOf[run]])
  BY Coordinates DEF TurnOf, Completed, ReceiptsOf, FinishedRequests
<1>2. ASSUME NEW run \in Runs
      PROVE  {t \in Turns : Completed([run |-> run, phase |-> "turn", at |-> t])}'
               = {t \in Turns : TurnOf(run, t) \in FinishedRequests(ledger'[LedgerOf[run]])}
  BY <1>1, Zenon DEF Completed, ReceiptsOf
<1>3. \A run \in Runs :
        Cardinality({t \in Turns : Completed([run |-> run, phase |-> "turn", at |-> t])})'
          = SpokenOf(ledger'[LedgerOf[run]], run)
  BY <1>2, Zenon DEF SpokenOf, Completed, ReceiptsOf
<1>4. Spoken' = [run \in Runs |-> SpokenOf(ledger'[LedgerOf[run]], run)]
  BY <1>3, Zenon DEF Spoken, Completed, ReceiptsOf
<1>5. QED
  BY <1>4 DEF Baseline, BaselineOf, Final, FinalOf, Saved

\* The protocol starts where nothing was written yet.
LEMMA ProtocolInit == Init => Protocol!Init
<1> SUFFICES ASSUME Init PROVE Protocol!Init
  OBVIOUS
<1>1. \A run \in Runs : SpokenOf(ledger[LedgerOf[run]], run) = 0
  <2> SUFFICES ASSUME NEW run \in Runs PROVE SpokenOf(ledger[LedgerOf[run]], run) = 0
    OBVIOUS
  <2>1. ledger[LedgerOf[run]] = <<>>
    BY DEF Init, Files
  <2>2. FinishedRequests(<<>>) = {}
    BY DEF FinishedRequests, TerminalsOf
  <2>3. {t \in Turns : TurnOf(run, t) \in FinishedRequests(ledger[LedgerOf[run]])} = {}
    BY <2>1, <2>2
  <2>4. QED
    BY <2>3, FS_EmptySet DEF SpokenOf
<1>2. \A run \in Runs : /\ output[run] = NoOutput
                        /\ checkpoint[run] = [ph \in {"pre", "post"} |-> NoCheckpoint]
  BY DEF Init
<1>3. Spoken = [run \in Runs |-> 0]
  BY <1>1, ProtocolSees
<1>4. Baseline = [run \in Runs |-> {}] /\ Final = [run \in Runs |-> {}]
  BY <1>2, ProtocolSees DEF BaselineOf, FinalOf, NoOutput, NoCheckpoint
<1>5. Published = [run \in Runs |-> FALSE]
  <2>1. \A run \in Runs : ~(output[run].measurement = "completed")
    BY <1>2 DEF NoOutput
  <2>2. QED
    BY <2>1, Zenon DEF Published
<1>6. QED
  BY <1>3, <1>4, <1>5 DEF Protocol!Init

\* What a step that leaves the ledger alone shows the protocol.
LEMMA FilesSeen ==
  ASSUME RunInv, proc.at # "idle", UNCHANGED ledger, NEW ck, NEW out,
         checkpoint' = [checkpoint EXCEPT ![proc.run] = ck],
         output' = [output EXCEPT ![proc.run] = out]
  PROVE  /\ proc.run \in Runs /\ Spoken' = Spoken
         /\ Baseline' = [Baseline EXCEPT ![proc.run] = BaselineOf(ck, out)]
         /\ Final' = [Final EXCEPT ![proc.run] = FinalOf(ck, out)]
         /\ Published' = [Published EXCEPT ![proc.run] = (out.measurement = "completed")]
         /\ Baseline[proc.run] = BaselineOf(Ck, Out) /\ Final[proc.run] = FinalOf(Ck, Out)
         /\ Published[proc.run] = (Out.measurement = "completed")
<1>1. /\ proc.run \in Runs
      /\ checkpoint \in [Runs -> [{"pre", "post"} -> Checkpoint]] /\ output \in [Runs -> Output]
  BY Setting DEF RunInv, TypeOK
<1>2. /\ checkpoint'[proc.run] = ck /\ output'[proc.run] = out
      /\ \A run \in Runs : run # proc.run =>
           checkpoint'[run] = checkpoint[run] /\ output'[run] = output[run]
  BY <1>1
<1>3. Spoken' = Spoken
  BY ProtocolSees, ProtocolSeesNext
<1>4. Baseline' = [Baseline EXCEPT ![proc.run] = BaselineOf(ck, out)]
  BY <1>1, <1>2, ProtocolSees, ProtocolSeesNext
<1>5. Final' = [Final EXCEPT ![proc.run] = FinalOf(ck, out)]
  BY <1>1, <1>2, ProtocolSees, ProtocolSeesNext
<1>6. Published' = [Published EXCEPT ![proc.run] = (out.measurement = "completed")]
  BY <1>1, <1>2 DEF Published
<1>7. QED
  BY <1>1, <1>3, <1>4, <1>5, <1>6, ProtocolSees DEF Published, Ck, Out

\* It is a stutter when the answers and the measurement stay what they were.
LEMMA FilesUnseen ==
  ASSUME RunInv, proc.at # "idle", UNCHANGED ledger, NEW ck, NEW out,
         checkpoint' = [checkpoint EXCEPT ![proc.run] = ck],
         output' = [output EXCEPT ![proc.run] = out],
         BaselineOf(ck, out) = BaselineOf(Ck, Out), FinalOf(ck, out) = FinalOf(Ck, Out),
         (out.measurement = "completed") <=> (Out.measurement = "completed")
  PROVE  UNCHANGED Protocol!vars
<1>1. /\ Baseline' = [Baseline EXCEPT ![proc.run] = Baseline[proc.run]]
      /\ Final' = [Final EXCEPT ![proc.run] = Final[proc.run]]
      /\ Spoken' = Spoken
  <2>1. /\ Baseline' = [Baseline EXCEPT ![proc.run] = BaselineOf(ck, out)]
        /\ Final' = [Final EXCEPT ![proc.run] = FinalOf(ck, out)]
        /\ Baseline[proc.run] = BaselineOf(Ck, Out) /\ Final[proc.run] = FinalOf(Ck, Out)
        /\ Spoken' = Spoken
    BY FilesSeen
  <2>2. QED
    BY <2>1, Zenon
<1>2. Published' = [Published EXCEPT ![proc.run] = Published[proc.run]]
  <2>1. (out.measurement = "completed") = (Out.measurement = "completed")
    BY Zenon
  <2>2. /\ Published' = [Published EXCEPT ![proc.run] = (out.measurement = "completed")]
        /\ Published[proc.run] = (Out.measurement = "completed")
    BY FilesSeen
  <2>3. QED
    BY <2>1, <2>2, Zenon
<1>3. Baseline' = Baseline /\ Final' = Final /\ Published' = Published
  BY <1>1, <1>2 DEF Baseline, Final, Published
<1>4. QED
  BY <1>1, <1>3 DEF Protocol!vars

\* A receipt shows the protocol a turn, when it completes one.
LEMMA ReceiptSeen ==
  ASSUME RunInv, proc.at # "idle", UNCHANGED <<checkpoint, output>>, NEW e \in Receipt,
         ledger' = [ledger EXCEPT ![LedgerOf[proc.run]] = Append(@, e)],
         e.req.run = proc.run, e.status = "completed" => e.req.phase # "turn"
  PROVE  UNCHANGED Protocol!vars
<1>1. Log \in Seq(Receipt) /\ LedgerOf[proc.run] \in Files
  BY Setting
<1>2. FinishedRequests(Append(Log, e)) = FinishedRequests(Log)
        \cup (IF e.status = "completed" THEN {e.req} ELSE {})
  <2>1. CASE e.status = "started"
    BY <1>1, <2>1, AppendStart
  <2>2. CASE e.status # "started"
    BY <1>1, <2>2, AppendEnd
  <2>3. QED
    BY <2>1, <2>2
<1>3. ASSUME NEW run \in Runs
      PROVE  SpokenOf(ledger'[LedgerOf[run]], run) = SpokenOf(ledger[LedgerOf[run]], run)
  <2>1. LedgerOf[run] \in Files
    BY DEF Files
  <2>2. \A t \in Turns : TurnOf(run, t) \in FinishedRequests(ledger'[LedgerOf[run]])
                           <=> TurnOf(run, t) \in FinishedRequests(ledger[LedgerOf[run]])
    <3>1. CASE LedgerOf[run] # LedgerOf[proc.run]
      BY <1>1, <2>1, <3>1 DEF RunInv, TypeOK
    <3>2. CASE LedgerOf[run] = LedgerOf[proc.run]
      <4>1. ledger'[LedgerOf[run]] = Append(Log, e) /\ ledger[LedgerOf[run]] = Log
        BY <1>1, <3>2 DEF RunInv, TypeOK, Log
      <4>2. QED
        BY <1>2, <4>1, Coordinates
    <3>3. QED
      BY <3>1, <3>2
  <2>3. {t \in Turns : TurnOf(run, t) \in FinishedRequests(ledger'[LedgerOf[run]])}
          = {t \in Turns : TurnOf(run, t) \in FinishedRequests(ledger[LedgerOf[run]])}
    BY <2>2
  <2>4. QED
    BY <2>3, Zenon DEF SpokenOf
<1>4. Spoken' = Spoken
  BY <1>3, ProtocolSees, ProtocolSeesNext
<1>5. Baseline' = Baseline /\ Final' = Final /\ Published' = Published
  BY ProtocolSees, ProtocolSeesNext DEF Published
<1>6. QED
  BY <1>4, <1>5 DEF Protocol!vars

\* An answered turn is the next the agents take, after their whole baseline.
LEMMA TurnSeen ==
  ASSUME RunInv, Answer, proc.at = "turn"
  PROVE  Protocol!Speak(proc.run)
<1> DEFINE e == EndReceipt(Log[Len(Log)], "completed")
           said(log, run) == {t \in Turns : TurnOf(run, t) \in FinishedRequests(log)}
           next == proc.turns + 1
<1>1. /\ call = "sent" /\ EndCall("completed") /\ UNCHANGED <<checkpoint, output, proc>>
  BY DEF Answer
<1>2. PhaseLeft /\ NewestStart(Log, Pending)
  BY <1>1 DEF RunInv, ProcOK, CallOK
<1>3. /\ proc.run \in Runs /\ Log \in Seq(Receipt) /\ LogOK(Log)
      /\ LedgerOf[proc.run] \in Files
      /\ RunOK(Begun, Finished, Ck, Out, proc.run)
      /\ StageOK(Begun, Finished, Ck, Out, proc, call) /\ proc \in Process
  BY Setting
<1>4. /\ next \in Turns /\ Pending = TurnOf(proc.run, next)
      /\ Pending \notin FinishedRequests(Log)
  BY <1>1, <1>2, <1>3, PendingIs DEF StageOK, TurnsInOrder, Process, Finished
<1>5. /\ ledger' = [ledger EXCEPT ![LedgerOf[proc.run]] = Append(@, e)]
      /\ FinishedRequests(Append(Log, e)) = FinishedRequests(Log) \cup {Pending}
  BY <1>1, CallEnded DEF Finished
<1> HIDE DEF e, next
<1>6. ledger[LedgerOf[proc.run]] = Log /\ ledger'[LedgerOf[proc.run]] = Append(Log, e)
  BY <1>3, <1>5 DEF RunInv, TypeOK, Log
<1>7. said(Append(Log, e), proc.run) = said(Log, proc.run) \cup {next}
      /\ next \notin said(Log, proc.run)
  BY <1>3, <1>4, <1>5, Coordinates
<1>8. /\ SpokenOf(Append(Log, e), proc.run) = SpokenOf(Log, proc.run) + 1
      /\ SpokenOf(Log, proc.run) < TurnCount
  <2>1. IsFiniteSet(Turns) /\ Cardinality(Turns) = TurnCount
    BY RunAssumption, FS_Interval DEF Turns
  <2>2. /\ IsFiniteSet(said(Log, proc.run)) /\ said(Log, proc.run) \subseteq Turns
        /\ said(Log, proc.run) # Turns
    BY <1>4, <1>7, <2>1, FS_Subset
  <2>3. Cardinality(said(Log, proc.run)) < Cardinality(Turns)
    <3>1. /\ Cardinality(said(Log, proc.run)) \in Nat /\ Cardinality(Turns) \in Nat
          /\ Cardinality(said(Log, proc.run)) <= Cardinality(Turns)
          /\ Cardinality(said(Log, proc.run)) # Cardinality(Turns)
      <4> HIDE DEF said
      <4> QED
        BY <2>1, <2>2, FS_Subset, FS_CardinalityType
    <3> HIDE DEF said
    <3>2. QED
      BY <3>1
  <2>4. Cardinality(said(Log, proc.run) \cup {next}) = Cardinality(said(Log, proc.run)) + 1
    <3> HIDE DEF said
    <3> QED
      BY <1>7, <2>2, FS_AddElement
  <2>5. QED
    BY <1>7, <2>1, <2>3, <2>4 DEF SpokenOf
<1>9. ASSUME NEW run \in Runs, run # proc.run
      PROVE  SpokenOf(ledger'[LedgerOf[run]], run) = SpokenOf(ledger[LedgerOf[run]], run)
  <2>1. LedgerOf[run] \in Files
    BY DEF Files
  <2>2. \A t \in Turns : TurnOf(run, t) \in FinishedRequests(ledger'[LedgerOf[run]])
                           <=> TurnOf(run, t) \in FinishedRequests(ledger[LedgerOf[run]])
    <3>1. CASE LedgerOf[run] # LedgerOf[proc.run]
      BY <1>3, <1>5, <2>1, <3>1 DEF RunInv, TypeOK
    <3>2. CASE LedgerOf[run] = LedgerOf[proc.run]
      BY <1>3, <1>4, <1>5, <1>6, <1>9, <3>2, Coordinates
    <3>3. QED
      BY <3>1, <3>2
  <2>3. said(ledger'[LedgerOf[run]], run) = said(ledger[LedgerOf[run]], run)
    BY <2>2
  <2>4. QED
    BY <2>3, Zenon DEF SpokenOf
<1>10. /\ Spoken[proc.run] < TurnCount
       /\ Spoken' = [Spoken EXCEPT ![proc.run] = @ + 1]
  BY <1>3, <1>6, <1>8, <1>9, ProtocolSees, ProtocolSeesNext
<1>11. Baseline[proc.run] = Probes
  <2>1. Out.dir
    BY <1>3 DEF StageOK, InTrajectory
  <2>2. BaselineOf(Ck, Out) = Probes
    BY <1>3, <2>1 DEF RunOK, OutputOK, BaselineOf
  <2>3. QED
    BY <1>3, <2>2, ProtocolSees DEF Ck, Out
<1>12. UNCHANGED <<Baseline, Final, Published>>
  BY <1>1, ProtocolSees, ProtocolSeesNext DEF Published
<1>13. QED
  BY <1>10, <1>11, <1>12 DEF Protocol!Speak, Protocol!Probes, Probes

\* Where neither the ledger nor the files move, the protocol sees nothing.
LEMMA NothingSeen ==
  ASSUME UNCHANGED <<ledger, checkpoint, output>>
  PROVE  UNCHANGED Protocol!vars
BY ProtocolSees, ProtocolSeesNext DEF Published, Protocol!vars

\* Nor does it see a step that only adds to the directory what is no profile
\* and no measurement.
LEMMA OutputUnseen ==
  ASSUME RunInv, proc.at # "idle", UNCHANGED <<ledger, checkpoint>>, NEW out,
         output' = [output EXCEPT ![proc.run] = out],
         out.profiles = "written" <=> Out.profiles = "written",
         (out.measurement = "completed") <=> (Out.measurement = "completed")
  PROVE  UNCHANGED Protocol!vars
<1>1. checkpoint' = [checkpoint EXCEPT ![proc.run] = Ck]
  BY Setting DEF RunInv, TypeOK, Ck
<1>2. BaselineOf(Ck, out) = BaselineOf(Ck, Out) /\ FinalOf(Ck, out) = FinalOf(Ck, Out)
  BY DEF BaselineOf, FinalOf
<1>3. QED
  BY <1>1, <1>2, FilesUnseen

\* A saved baseline answer is one more the protocol hears, before any turn.
LEMMA BaselineHeard ==
  ASSUME RunInv, SaveAnswer, proc.at = "pre"
  PROVE  Protocol!HearBaseline(proc.run)
<1> DEFINE ck == [Ck EXCEPT !["pre"].saved = @ \cup {Pending.at}]
<1>1. call = "answered" /\ UNCHANGED <<ledger, output, proc>>
  BY DEF SaveAnswer
<1>2. PhaseLeft
  BY <1>1 DEF RunInv, ProcOK, CallOK
<1>3. /\ proc.run \in Runs /\ Finished \subseteq Begun
      /\ RunOK(Begun, Finished, Ck, Out, proc.run)
      /\ Ck \in [{"pre", "post"} -> Checkpoint] /\ Out \in Output
      /\ StageOK(Begun, Finished, Ck, Out, proc, call)
  BY Setting
<1>4. PICK n \in 0..ProbeCount :
        /\ Ck["pre"].saved = 1..n
        /\ n + 1 \in Probes /\ Pending = ProbeOf(proc.run, "pre", n + 1)
  BY <1>2, PendingIs
<1>5. Pending.at = n + 1 /\ Pending.at \in Probes /\ Pending.at \notin Ck["pre"].saved
  BY <1>3, <1>4, Coordinates
<1>6. /\ checkpoint' = [checkpoint EXCEPT ![proc.run] = ck]
      /\ output' = [output EXCEPT ![proc.run] = Out]
  BY <1>1, <1>3 DEF SaveAnswer, RunInv, TypeOK, Ck, Out
<1>7. ck["pre"].saved = Ck["pre"].saved \cup {Pending.at} /\ ck["post"] = Ck["post"]
  BY <1>3 DEF Checkpoint
<1> HIDE DEF ck
<1>8. Virgin(Begun, Ck, Out, proc.run)
  <2>1. Ck["pre"].exists /\ Ck["pre"].saved # Probes
    BY <1>2, <1>3 DEF StageOK, AfterPre, PhaseLeft, Probing, File, Ck
  <2>2. ~Out.dir
    BY <1>3, <2>1 DEF RunOK, OutputOK
  <2>3. QED
    BY <1>3, <2>2 DEF RunOK, OutputOK
<1>9. Spoken[proc.run] = 0
  <2>1. {t \in Turns : TurnOf(proc.run, t) \in Finished} = {}
    BY <1>3, <1>8 DEF Virgin
  <2>2. SpokenOf(Log, proc.run) = 0
    BY <2>1, FS_EmptySet DEF SpokenOf, Finished
  <2>3. QED
    BY <1>3, <2>2, ProtocolSees DEF Log
<1>10. Out.profiles = "none"
  BY <1>8 DEF Virgin
<1>11. /\ BaselineOf(Ck, Out) = Ck["pre"].saved
       /\ BaselineOf(ck, Out) = Ck["pre"].saved \cup {Pending.at}
       /\ FinalOf(ck, Out) = FinalOf(Ck, Out)
  BY <1>7, <1>10 DEF BaselineOf, FinalOf
<1>12. /\ Baseline[proc.run] = Ck["pre"].saved
       /\ Baseline' = [Baseline EXCEPT ![proc.run] = Ck["pre"].saved \cup {Pending.at}]
       /\ Final' = [Final EXCEPT ![proc.run] = Final[proc.run]]
       /\ Spoken' = Spoken
  <2>1. /\ Baseline' = [Baseline EXCEPT ![proc.run] = BaselineOf(ck, Out)]
        /\ Final' = [Final EXCEPT ![proc.run] = FinalOf(ck, Out)]
        /\ Baseline[proc.run] = BaselineOf(Ck, Out) /\ Final[proc.run] = FinalOf(Ck, Out)
        /\ Spoken' = Spoken
    BY <1>1, <1>6, FilesSeen DEF BaselineOf, FinalOf
  <2>2. QED
    BY <1>11, <2>1, Zenon
<1>13. Published' = Published /\ Final' = Final
  BY <1>1, <1>12 DEF Published, Final
<1>14. Baseline' = [Baseline EXCEPT ![proc.run] = @ \cup {Pending.at}]
  BY <1>3, <1>12 DEF Baseline
<1>15. QED
  BY <1>5, <1>9, <1>12, <1>13, <1>14
  DEF Protocol!HearBaseline, Protocol!Probes, Probes

\* A saved final answer is one more the protocol hears, after every turn.
LEMMA FinalHeard ==
  ASSUME RunInv, SaveAnswer, proc.at = "post"
  PROVE  Protocol!HearFinal(proc.run)
<1> DEFINE ck == [Ck EXCEPT !["post"].saved = @ \cup {Pending.at}]
<1>1. call = "answered" /\ UNCHANGED <<ledger, output, proc>>
  BY DEF SaveAnswer
<1>2. PhaseLeft
  BY <1>1 DEF RunInv, ProcOK, CallOK
<1>3. /\ proc.run \in Runs
      /\ RunOK(Begun, Finished, Ck, Out, proc.run)
      /\ Ck \in [{"pre", "post"} -> Checkpoint] /\ Out \in Output
      /\ StageOK(Begun, Finished, Ck, Out, proc, call)
  BY Setting
<1>4. PICK n \in 0..ProbeCount :
        /\ Ck["post"].saved = 1..n
        /\ n + 1 \in Probes /\ Pending = ProbeOf(proc.run, "post", n + 1)
  BY <1>2, PendingIs
<1>5. Pending.at = n + 1 /\ Pending.at \in Probes /\ Pending.at \notin Ck["post"].saved
  BY <1>3, <1>4, Coordinates
<1>6. /\ checkpoint' = [checkpoint EXCEPT ![proc.run] = ck]
      /\ output' = [output EXCEPT ![proc.run] = Out]
  BY <1>1, <1>3 DEF SaveAnswer, RunInv, TypeOK, Ck, Out
<1>7. ck["post"].saved = Ck["post"].saved \cup {Pending.at} /\ ck["pre"] = Ck["pre"]
  BY <1>3 DEF Checkpoint
<1> HIDE DEF ck
<1>8. Out.profiles = "none" /\ Out.record = "completed"
  <2>1. Ck["pre"].exists /\ Ck["post"].saved # Probes /\ Out.record = "completed"
    BY <1>2, <1>3 DEF StageOK, AfterPre, AfterTrajectory, PhaseLeft, Probing, File, Ck
  <2>2. QED
    BY <1>3, <2>1 DEF RunOK, OutputOK
<1>9. Spoken[proc.run] = TurnCount
  <2>1. {t \in Turns : TurnOf(proc.run, t) \in Finished} = Turns
    BY <1>3, <1>8 DEF RunOK, OutputOK
  <2>2. Cardinality(Turns) = TurnCount
    BY RunAssumption, FS_Interval DEF Turns
  <2>3. SpokenOf(Log, proc.run) = TurnCount
    BY <2>1, <2>2 DEF SpokenOf, Finished
  <2>4. QED
    BY <1>3, <2>3, ProtocolSees DEF Log
<1>10. /\ FinalOf(Ck, Out) = Ck["post"].saved
       /\ FinalOf(ck, Out) = Ck["post"].saved \cup {Pending.at}
       /\ BaselineOf(ck, Out) = BaselineOf(Ck, Out)
  BY <1>7, <1>8 DEF BaselineOf, FinalOf
<1>11. /\ Final[proc.run] = Ck["post"].saved
       /\ Final' = [Final EXCEPT ![proc.run] = Ck["post"].saved \cup {Pending.at}]
       /\ Baseline' = [Baseline EXCEPT ![proc.run] = Baseline[proc.run]]
       /\ Spoken' = Spoken
  <2>1. /\ Baseline' = [Baseline EXCEPT ![proc.run] = BaselineOf(ck, Out)]
        /\ Final' = [Final EXCEPT ![proc.run] = FinalOf(ck, Out)]
        /\ Baseline[proc.run] = BaselineOf(Ck, Out) /\ Final[proc.run] = FinalOf(Ck, Out)
        /\ Spoken' = Spoken
    BY <1>1, <1>6, FilesSeen DEF BaselineOf, FinalOf
  <2>2. QED
    BY <1>10, <2>1, Zenon
<1>12. Published' = Published /\ Baseline' = Baseline
  BY <1>1, <1>11 DEF Published, Baseline
<1>13. Final' = [Final EXCEPT ![proc.run] = @ \cup {Pending.at}]
  BY <1>3, <1>11 DEF Final
<1>14. QED
  BY <1>5, <1>9, <1>11, <1>12, <1>13
  DEF Protocol!HearFinal, Protocol!Probes, Probes

\* The measurement is published once; recorded again after a crash, it is
\* what it was.
LEMMA MeasurementSeen ==
  ASSUME RunInv, RecordMeasurement
  PROVE  UNCHANGED Protocol!vars \/ Protocol!Publish(proc.run)
<1> DEFINE out == [Out EXCEPT !.measurement = "completed"]
<1>1. /\ proc.at = "recording" /\ output' = [output EXCEPT ![proc.run] = out]
      /\ UNCHANGED <<ledger, checkpoint>>
  BY DEF RecordMeasurement, Out
<1>2. proc.run \in Runs /\ Out \in Output /\ Out.profiles = "written"
  BY <1>1, Setting DEF StageOK
<1>3. out.profiles = "written" /\ out.measurement = "completed"
  BY <1>2 DEF Output
<1> HIDE DEF out
<1>4. CASE Out.measurement = "completed"
  BY <1>1, <1>2, <1>3, <1>4, OutputUnseen
<1>5. CASE Out.measurement # "completed"
  <2>1. checkpoint' = [checkpoint EXCEPT ![proc.run] = Ck]
    BY <1>1, <1>2 DEF RunInv, TypeOK, Ck
  <2>2. /\ Spoken' = Spoken
        /\ Baseline' = [Baseline EXCEPT ![proc.run] = BaselineOf(Ck, out)]
        /\ Final' = [Final EXCEPT ![proc.run] = FinalOf(Ck, out)]
        /\ Baseline[proc.run] = BaselineOf(Ck, Out) /\ Final[proc.run] = FinalOf(Ck, Out)
    BY <1>1, <2>1, FilesSeen DEF BaselineOf, FinalOf
  <2>3. /\ BaselineOf(Ck, out) = BaselineOf(Ck, Out)
        /\ FinalOf(Ck, out) = FinalOf(Ck, Out) /\ FinalOf(Ck, Out) = Probes
    BY <1>2, <1>3 DEF BaselineOf, FinalOf
  <2>4. /\ Baseline' = [Baseline EXCEPT ![proc.run] = Baseline[proc.run]]
        /\ Final' = [Final EXCEPT ![proc.run] = Final[proc.run]] /\ Final[proc.run] = Probes
    BY <2>2, <2>3, Zenon
  <2>5. Baseline' = Baseline /\ Final' = Final
    BY <2>4 DEF Baseline, Final
  <2>6. /\ Published' = [Published EXCEPT ![proc.run] = (out.measurement = "completed")]
        /\ Published[proc.run] = (Out.measurement = "completed")
    <3>1. /\ UNCHANGED ledger /\ proc.at # "idle"
          /\ output' = [output EXCEPT ![proc.run] = out]
      BY <1>1
    <3>2. Published' = [Published EXCEPT ![proc.run] = (out.measurement = "completed")]
      BY <2>1, <3>1, FilesSeen, Zenon
    <3>3. Published[proc.run] = (Out.measurement = "completed")
      BY <2>1, <3>1, FilesSeen, Zenon
    <3>4. QED
      BY <3>2, <3>3
  <2>7. Published' = [Published EXCEPT ![proc.run] = TRUE] /\ ~Published[proc.run]
    <3>1. (out.measurement = "completed") = TRUE
      BY <1>3, Zenon
    <3>2. QED
      BY <1>5, <2>6, <3>1, Zenon
  <2>8. QED
    BY <2>2, <2>4, <2>5, <2>7 DEF Protocol!Publish, Protocol!Probes, Probes
<1>6. QED
  BY <1>4, <1>5

\* The steps that make the directory, the trajectory's record, a failed
\* measurement or empty profiles.
LEMMA DirectoryUnseen ==
  ASSUME RunInv, \/ BeginTrajectory \/ FinishTrajectory \/ RecordFailedTrajectory
                 \/ RecordAgentFailure \/ RecordPostFailure \/ MakeProfiles
  PROVE  UNCHANGED Protocol!vars
<1>1. UNCHANGED <<ledger, checkpoint>>
  BY DEF BeginTrajectory, FinishTrajectory, RecordFailedTrajectory, RecordAgentFailure,
    RecordPostFailure, MakeProfiles
<1>2. proc.at \in {"pre", "turn", "turn_failed", "agent_failed", "post_failed", "post"}
  BY DEF BeginTrajectory, FinishTrajectory, RecordFailedTrajectory, RecordAgentFailure,
    RecordPostFailure, MakeProfiles, PhaseDone
<1>3. Out \in Output /\ StageOK(Begun, Finished, Ck, Out, proc, call)
  BY <1>2, Setting
<1>4. CASE BeginTrajectory
  <2> DEFINE out == [Out EXCEPT !.dir = TRUE]
  <2>1. output' = [output EXCEPT ![proc.run] = out]
    BY <1>4 DEF BeginTrajectory, Out
  <2>2. out.profiles = Out.profiles /\ out.measurement = Out.measurement
    BY <1>3 DEF Output
  <2> HIDE DEF out
  <2>3. QED
    BY <1>1, <1>2, <2>1, <2>2, OutputUnseen
<1>5. CASE FinishTrajectory
  <2> DEFINE out == [Out EXCEPT !.record = "completed"]
  <2>1. output' = [output EXCEPT ![proc.run] = out]
    BY <1>5 DEF FinishTrajectory, Out
  <2>2. out.profiles = Out.profiles /\ out.measurement = Out.measurement
    BY <1>3 DEF Output
  <2> HIDE DEF out
  <2>3. QED
    BY <1>1, <1>2, <2>1, <2>2, OutputUnseen
<1>6. CASE RecordFailedTrajectory
  <2> DEFINE out == [Out EXCEPT !.record = "failed"]
  <2>1. output' = [output EXCEPT ![proc.run] = out]
    BY <1>6 DEF RecordFailedTrajectory, Out
  <2>2. out.profiles = Out.profiles /\ out.measurement = Out.measurement
    BY <1>3 DEF Output
  <2> HIDE DEF out
  <2>3. QED
    BY <1>1, <1>2, <2>1, <2>2, OutputUnseen
<1>7. CASE RecordAgentFailure \/ RecordPostFailure
  <2> DEFINE out == [Out EXCEPT !.measurement = "failed"]
  <2>1. output' = [output EXCEPT ![proc.run] = out]
    BY <1>7 DEF RecordAgentFailure, RecordPostFailure, Out
  <2>2. proc.at \in {"agent_failed", "post_failed"}
    BY <1>7 DEF RecordAgentFailure, RecordPostFailure
  <2>3. Out.measurement # "completed"
    BY <1>3, <2>2 DEF StageOK, InTrajectory
  <2>4. out.profiles = Out.profiles /\ out.measurement = "failed"
    BY <1>3 DEF Output
  <2> HIDE DEF out
  <2>5. QED
    BY <1>1, <1>2, <2>1, <2>3, <2>4, OutputUnseen
<1>8. CASE MakeProfiles /\ output[proc.run].profiles = "none"
  <2> DEFINE out == [Out EXCEPT !.profiles = "partial"]
  <2>1. output' = [output EXCEPT ![proc.run] = out] /\ Out.profiles = "none"
    BY <1>8 DEF MakeProfiles, Out
  <2>2. out.profiles = "partial" /\ out.measurement = Out.measurement
    BY <1>3 DEF Output
  <2> HIDE DEF out
  <2>3. QED
    BY <1>1, <1>2, <2>1, <2>2, OutputUnseen
<1>9. CASE MakeProfiles /\ output[proc.run].profiles # "none"
  BY <1>1, <1>9, NothingSeen DEF MakeProfiles
<1>10. QED
  BY <1>4, <1>5, <1>6, <1>7, <1>8, <1>9

\* Filling the profiles moves the private answers, whole, to where they stay.
LEMMA ProfilesUnseen ==
  ASSUME RunInv, FillProfiles
  PROVE  UNCHANGED Protocol!vars
<1> DEFINE out == [Out EXCEPT !.profiles = "written"]
<1>1. /\ proc.at = "profiling" /\ output' = [output EXCEPT ![proc.run] = out]
      /\ UNCHANGED <<ledger, checkpoint>>
  BY DEF FillProfiles, Out
<1>2. /\ Out \in Output /\ RunOK(Begun, Finished, Ck, Out, proc.run)
      /\ StageOK(Begun, Finished, Ck, Out, proc, call)
  BY <1>1, Setting
<1>3. out.profiles = "written" /\ out.measurement = Out.measurement
  BY <1>2 DEF Output
<1> HIDE DEF out
<1>4. Ck["pre"].saved = Probes /\ Ck["post"].saved = Probes
  BY <1>1, <1>2 DEF StageOK, AfterPre, AfterTrajectory, RunOK, OutputOK
<1>5. BaselineOf(Ck, out) = BaselineOf(Ck, Out) /\ FinalOf(Ck, out) = FinalOf(Ck, Out)
  BY <1>3, <1>4 DEF BaselineOf, FinalOf
<1>6. checkpoint' = [checkpoint EXCEPT ![proc.run] = Ck]
  BY <1>1, Setting DEF RunInv, TypeOK, Ck
<1>7. QED
  BY <1>1, <1>3, <1>5, <1>6, FilesUnseen

\* Clearing a checkpoint loses no answer: the profiles have them.
LEMMA ClearUnseen ==
  ASSUME RunInv, Clear
  PROVE  UNCHANGED Protocol!vars
<1> DEFINE ph == IF proc.at = "clear_pre" THEN "pre" ELSE "post"
           ck == [Ck EXCEPT ![ph] = NoCheckpoint]
<1>1. /\ proc.at \in {"clear_pre", "clear_post"}
      /\ checkpoint' = [checkpoint EXCEPT ![proc.run] = ck] /\ UNCHANGED <<ledger, output>>
  BY DEF Clear, Ck
<1> HIDE DEF ck
<1>2. Out.profiles = "written"
  BY <1>1, Setting DEF StageOK
<1>3. BaselineOf(ck, Out) = BaselineOf(Ck, Out) /\ FinalOf(ck, Out) = FinalOf(Ck, Out)
  BY <1>2 DEF BaselineOf, FinalOf
<1>4. output' = [output EXCEPT ![proc.run] = Out]
  BY <1>1, Setting DEF RunInv, TypeOK, Out
<1>5. QED
  BY <1>1, <1>3, <1>4, FilesUnseen

\* A checkpoint that is opened keeps its answers.
LEMMA OpenUnseen ==
  ASSUME RunInv, OpenCheckpoint
  PROVE  UNCHANGED Protocol!vars
<1> DEFINE ck == [Ck EXCEPT ![OpeningPhase].exists = TRUE]
<1>1. /\ proc.at \in {"open_pre", "open_post"} /\ OpeningPhase \in {"pre", "post"}
      /\ checkpoint' = [checkpoint EXCEPT ![proc.run] = ck] /\ UNCHANGED <<ledger, output>>
  BY DEF OpenCheckpoint, OpeningPhase, Ck
<1>2. Ck \in [{"pre", "post"} -> Checkpoint]
  BY <1>1, Setting
<1>3. ck["pre"].saved = Ck["pre"].saved /\ ck["post"].saved = Ck["post"].saved
  BY <1>1, <1>2 DEF Checkpoint
<1> HIDE DEF ck
<1>4. BaselineOf(ck, Out) = BaselineOf(Ck, Out) /\ FinalOf(ck, Out) = FinalOf(Ck, Out)
  BY <1>3 DEF BaselineOf, FinalOf
<1>5. output' = [output EXCEPT ![proc.run] = Out]
  BY <1>1, Setting DEF RunInv, TypeOK, Out
<1>6. QED
  BY <1>1, <1>4, <1>5, FilesUnseen

\* A request that is sent shows the protocol nothing yet.
LEMMA AskUnseen ==
  ASSUME RunInv, Ask
  PROVE  UNCHANGED Protocol!vars
<1> DEFINE e == StartReceipt(Log, Pending)
<1>1. /\ proc.at \in {"pre", "turn", "post"} /\ PhaseLeft /\ RefusalNow = "none"
      /\ ledger' = [ledger EXCEPT ![LedgerOf[proc.run]] = Append(@, e)]
      /\ UNCHANGED <<checkpoint, output>>
  BY DEF Ask, AtRequest
<1>2. Log \in Seq(Receipt) /\ LogOK(Log)
  BY <1>1, Setting
<1>3. Pending \in Requests /\ Pending.run = proc.run
  BY <1>1, PendingIs
<1>4. e \in Receipt /\ e.status = "started" /\ e.req.run = proc.run
  BY <1>2, <1>3, LogStart
<1> HIDE DEF e
<1>5. QED
  BY <1>1, <1>4, ReceiptSeen

\* Nor does one that failed, nor a probe's answer before it is saved.
LEMMA EndUnseen ==
  ASSUME RunInv, call = "sent", UNCHANGED <<checkpoint, output>>,
         NEW outcome \in {"completed", "failed"}, EndCall(outcome),
         outcome = "completed" => proc.at # "turn"
  PROVE  UNCHANGED Protocol!vars
<1> DEFINE e == EndReceipt(Log[Len(Log)], outcome)
<1>1. /\ e \in Receipt /\ e.req = Pending /\ e.req.run = proc.run
      /\ ledger' = [ledger EXCEPT ![LedgerOf[proc.run]] = Append(@, e)]
  BY CallEnded
<1>2. /\ proc.at \in {"pre", "turn", "post"} /\ Pending.phase = proc.at
      /\ PhaseLeft /\ NewestStart(Log, Pending)
  BY DEF RunInv, ProcOK, CallOK, Pending
<1>3. e.status = outcome
  BY <1>2, Setting, PendingIs, LogEnd
<1> HIDE DEF e
<1>4. QED
  BY <1>1, <1>2, <1>3, ReceiptSeen

\* Every step of a run is a step of the protocol, or shows it nothing.
LEMMA ProtocolStep ==
  RunInv /\ [Next]_vars => [Protocol!Next]_Protocol!vars
<1> SUFFICES ASSUME RunInv, [Next]_vars PROVE UNCHANGED Protocol!vars \/ Protocol!Next
  OBVIOUS
<1>1. CASE UNCHANGED <<ledger, checkpoint, output>>
  BY <1>1, NothingSeen
<1>2. CASE OpenCheckpoint
  BY <1>2, OpenUnseen
<1>3. CASE Ask
  BY <1>3, AskUnseen
<1>4. CASE UNCHANGED <<checkpoint, output>> /\ call = "sent" /\ EndCall("failed")
  BY <1>4, EndUnseen
<1>5. CASE Answer
  <2>1. CASE proc.at = "turn"
    <3>1. proc.run \in Runs
      BY <2>1, Setting
    <3>2. QED
      BY <1>5, <2>1, <3>1, TurnSeen DEF Protocol!Next
  <2>2. CASE proc.at # "turn"
    BY <1>5, <2>2, EndUnseen DEF Answer
  <2>3. QED
    BY <2>1, <2>2
<1>6. CASE SaveAnswer
  <2>1. proc.at \in {"pre", "post"} /\ proc.run \in Runs
    BY <1>6, Setting DEF SaveAnswer, Probing
  <2>2. CASE proc.at = "pre"
    BY <1>6, <2>1, <2>2, BaselineHeard DEF Protocol!Next
  <2>3. CASE proc.at = "post"
    BY <1>6, <2>1, <2>3, FinalHeard DEF Protocol!Next
  <2>4. QED
    BY <2>1, <2>2, <2>3
<1>7. CASE \/ TakeTurn \/ ReuseTrajectory
  BY <1>7, NothingSeen DEF TakeTurn, ReuseTrajectory
<1>8. CASE \/ BeginTrajectory \/ FinishTrajectory \/ RecordFailedTrajectory
           \/ RecordAgentFailure \/ RecordPostFailure \/ MakeProfiles
  BY <1>8, DirectoryUnseen
<1>9. CASE FillProfiles
  BY <1>9, ProfilesUnseen
<1>10. CASE RecordMeasurement
  <2>1. proc.run \in Runs
    BY <1>10, Setting DEF RecordMeasurement
  <2>2. QED
    BY <1>10, <2>1, MeasurementSeen DEF Protocol!Next
<1>11. CASE Clear
  BY <1>11, ClearUnseen
<1>12. QED
  <2>1. UNCHANGED vars => UNCHANGED <<ledger, checkpoint, output>>
    BY DEF vars
  <2>2. QED
    BY <1>1, <1>2, <1>3, <1>4, <1>5, <1>6, <1>7, <1>8, <1>9, <1>10, <1>11, <2>1, StepCases

\* A measured run is an implementation of the measurement protocol: whatever
\* fails, crashes and is launched again, its private answers, its turns and
\* its publication go through the fixed sequence run() names.
THEOREM ProtocolImplemented == Spec => ImplementsProtocol
<1>1. QED
  BY ProtocolInit, ProtocolStep, RunInvariant, PTL DEF Spec, ImplementsProtocol, Protocol!Spec

-----------------------------------------------------------------------------
(* What is refused. *)

(* A terminal receipt directly follows a start of its request.               *)
EndsDirect(lines) ==
  \A j \in DOMAIN lines : lines[j].status # "started" =>
    j > 1 /\ lines[j - 1].status = "started" /\ lines[j - 1].req = lines[j].req

(* A ledger file holds requests of its runs, and ends what it starts at once. *)
FilesKept ==
  \A f \in Files : EndsDirect(ledger[f]) /\ StartedRequests(ledger[f]) \subseteq RequestsOf(f)

(* Where the process makes requests, or may come to.                         *)
Asking == {"open_pre", "pre", "turn", "open_post", "post"}

(* What a fresh launch asks was never asked before.                          *)
FirstAsked ==
  AtRequest /\ ~proc.resume /\ proc.at # "turn" => Pending \notin Begun

(* The request to recover is still ahead: it is the final probe that will be *)
(* asked first.                                                              *)
RecoveryAhead(a) ==
  /\ a = ProbeOf(proc.run, "post", Min(Probes \ Ck["post"].saved))
  /\ IsRecovery(Log, a) /\ RecoveriesOf(Log, a) = {}
  /\ Out.dir /\ proc.at # "turn" /\ call = "none"

(* The recovery was made, and its answer is saved or on its way.             *)
RecoveryMade(a) ==
  /\ proc.at = "post"
  /\ a.at \in Ck["post"].saved \/ (call # "none" /\ Pending = a)

RecoveryPlaced ==
  proc.provider.allowed # {} /\ proc.at \in Asking =>
    /\ proc.resume
    /\ \E a \in Requests : /\ proc.provider.allowed = {a} /\ a.phase = "post"
                           /\ IF proc.provider.consumed THEN RecoveryMade(a)
                                                        ELSE RecoveryAhead(a)

AskInv ==
  /\ FilesKept /\ FirstAsked /\ RecoveryPlaced
  /\ proc.at # "idle" /\ proc.resume => proc.provider.resume

\* A receipt of the run at work goes to a file of that run, a terminal one
\* after the start it ends.
LEMMA FilesKeptStep ==
  ASSUME RunInv, FilesKept, [Next]_vars PROVE FilesKept'
<1>1. ASSUME NEW e \in Receipt, proc.at # "idle", e.req.run = proc.run,
             ledger' = [ledger EXCEPT ![LedgerOf[proc.run]] = Append(@, e)],
             e.status = "started" \/ (NewestStart(Log, e.req))
      PROVE  FilesKept'
  <2>1. Log \in Seq(Receipt) /\ LedgerOf[proc.run] \in Files
    BY <1>1, Setting
  <2>2. /\ ledger'[LedgerOf[proc.run]] = Append(Log, e)
        /\ \A f \in Files : f # LedgerOf[proc.run] => ledger'[f] = ledger[f]
    BY <1>1, <2>1 DEF RunInv, TypeOK, Log
  <2>3. EndsDirect(Append(Log, e))
    <3>1. EndsDirect(Log)
      BY <2>1 DEF FilesKept, Log
    <3>2. /\ DOMAIN Log = 1..Len(Log) /\ Len(Log) \in Nat
          /\ DOMAIN Append(Log, e) = 1..(Len(Log) + 1)
          /\ \A i \in 1..Len(Log) : Append(Log, e)[i] = Log[i]
          /\ Append(Log, e)[Len(Log) + 1] = e
      BY <2>1, AppendProperties
    <3>3. NewestStart(Log, e.req) =>
            /\ Len(Log) \in 1..Len(Log) /\ Log[Len(Log)].status = "started"
            /\ Log[Len(Log)].req = e.req
      BY <2>1, <3>2, EmptySeq DEF NewestStart
    <3> DEFINE new == Append(Log, e)
    <3> HIDE DEF new
    <3>4. ASSUME NEW j \in DOMAIN new, new[j].status # "started"
          PROVE  j > 1 /\ new[j - 1].status = "started" /\ new[j - 1].req = new[j].req
      <4>1. CASE j = Len(Log) + 1
        <5>1. new[j] = e /\ j - 1 = Len(Log)
          BY <3>2, <4>1 DEF new
        <5>2. NewestStart(Log, e.req)
          BY <1>1, <3>4, <5>1
        <5>3. Len(Log) \in 1..Len(Log) /\ new[Len(Log)] = Log[Len(Log)]
          BY <3>2, <3>3, <5>2 DEF new
        <5>4. QED
          BY <3>2, <3>3, <4>1, <5>1, <5>2, <5>3
      <4>2. CASE j # Len(Log) + 1
        <5>1. j \in 1..Len(Log) /\ new[j] = Log[j]
          BY <3>2, <4>2 DEF new
        <5>2. j > 1 /\ Log[j - 1].status = "started" /\ Log[j - 1].req = Log[j].req
          BY <3>1, <3>2, <3>4, <5>1 DEF EndsDirect
        <5>3. new[j - 1] = Log[j - 1]
          BY <3>2, <5>1, <5>2 DEF new
        <5>4. QED
          BY <5>1, <5>2, <5>3
      <4>3. QED
        BY <4>1, <4>2
    <3>5. QED
      BY <3>4 DEF EndsDirect, new
  <2>4. StartedRequests(Append(Log, e)) \subseteq RequestsOf(LedgerOf[proc.run])
    <3>1. StartedRequests(Append(Log, e)) \subseteq StartedRequests(Log) \cup {e.req}
      <4>1. CASE e.status = "started"
        BY <2>1, <4>1, AppendStart
      <4>2. CASE e.status # "started"
        BY <2>1, <4>2, AppendEnd
      <4>3. QED
        BY <4>1, <4>2
    <3>2. e.req \in RequestsOf(LedgerOf[proc.run])
      BY <1>1 DEF RequestsOf, Receipt
    <3>3. StartedRequests(Log) \subseteq RequestsOf(LedgerOf[proc.run])
      BY <2>1 DEF FilesKept, Log
    <3>4. QED
      BY <3>1, <3>2, <3>3
  <2>5. QED
    BY <2>2, <2>3, <2>4 DEF FilesKept
<1>2. CASE ledger' = ledger
  BY <1>2 DEF FilesKept
<1>3. CASE Ask
  <2> DEFINE e == StartReceipt(Log, Pending)
  <2>1. /\ e \in Receipt /\ e.status = "started" /\ e.req.run = proc.run
        /\ ledger' = [ledger EXCEPT ![LedgerOf[proc.run]] = Append(@, e)]
        /\ proc.at # "idle"
    BY <1>3, AskReceipt DEF Ask, AtRequest
  <2> HIDE DEF e
  <2>2. QED
    BY <1>1, <2>1
<1>4. ASSUME call = "sent", NEW outcome \in {"completed", "failed"}, EndCall(outcome)
      PROVE  FilesKept'
  <2> DEFINE e == EndReceipt(Log[Len(Log)], outcome)
  <2>1. /\ e \in Receipt /\ e.req = Pending /\ e.req.run = proc.run
        /\ ledger' = [ledger EXCEPT ![LedgerOf[proc.run]] = Append(@, e)]
    BY <1>4, CallEnded
  <2>2. NewestStart(Log, Pending) /\ proc.at # "idle"
    BY <1>4 DEF RunInv, ProcOK, CallOK
  <2> HIDE DEF e
  <2>3. QED
    BY <1>1, <2>1, <2>2
<1>5. QED
  BY <1>2, <1>3, <1>4, LedgerMoves

\* The steps of a run at work that lead to where it makes requests.
LEMMA AskingMoves ==
  ASSUME RunInv, Work \/ Mishap
  PROVE  /\ proc'.resume = proc.resume
         /\ proc'.provider.resume = proc.provider.resume
         /\ proc'.provider.allowed = proc.provider.allowed
         /\ ~Ask => proc'.provider.consumed = proc.provider.consumed
         /\ proc'.at \in Asking =>
              /\ proc.at \in Asking
              /\ \/ OpenCheckpoint \/ Ask \/ Answer \/ SaveAnswer \/ TakeTurn
                 \/ BeginTrajectory \/ ReuseTrajectory \/ FinishTrajectory
<1>1. /\ proc \in Process /\ proc.provider \in Provider
      /\ (call # "none" => proc.at \in {"pre", "turn", "post"})
  BY DEF RunInv, TypeOK, ProcOK, CallOK, Process
<1>2. ASSUME NEW error, Fail(error), proc.at \in Asking
      PROVE  /\ proc'.resume = proc.resume /\ proc'.provider = proc.provider
             /\ proc'.at \notin Asking
  <2>1. CASE proc.at \in {"open_pre", "pre"}
    BY <1>1, <1>2, <2>1 DEF Fail, Leave, Process, Asking
  <2>2. CASE proc.at = "turn"
    BY <1>1, <1>2, <2>2 DEF Fail, Process, Asking
  <2>3. CASE proc.at \in {"open_post", "post"}
    BY <1>1, <1>2, <2>3 DEF Fail, Process, Asking
  <2>4. QED
    BY <1>2, <2>1, <2>2, <2>3 DEF Asking
<1>3. CASE RefuseCheckpoint
  BY <1>2, <1>3 DEF RefuseCheckpoint, Asking
<1>4. CASE RefuseRequest
  BY <1>2, <1>4 DEF RefuseRequest, AtRequest, Asking
<1>5. CASE Mishap
  <2>1. proc.at \in Asking /\ \E error : Fail(error)
    BY <1>1, <1>5
    DEF Mishap, ProviderFails, ReceiptUnwritten, AnswerInvalid, SaveFails, AtRequest, Probing,
      Asking
  <2>2. QED
    BY <1>2, <2>1
<1>6. CASE Ask
  BY <1>1, <1>6 DEF Ask, AtRequest, Consume, Process, Provider, Asking
<1>7. CASE OpenCheckpoint \/ Answer \/ SaveAnswer \/ TakeTurn
  BY <1>1, <1>7
  DEF OpenCheckpoint, OpeningPhase, Answer, SaveAnswer, Probing, TakeTurn, Process, Asking
<1>8. CASE \/ BeginTrajectory \/ ReuseTrajectory \/ FinishTrajectory \/ RecordFailedTrajectory
           \/ FillProfiles \/ RecordMeasurement
  BY <1>1, <1>8
  DEF BeginTrajectory, ReuseTrajectory, FinishTrajectory, RecordFailedTrajectory,
    FillProfiles, RecordMeasurement, PhaseDone, Process, Asking
<1>9. CASE RefuseTrajectory \/ RecordAgentFailure \/ RecordPostFailure
  <2>1. \E result, error : Leave(result, error)
    BY <1>9 DEF RefuseTrajectory, RecordAgentFailure, RecordPostFailure
  <2>2. QED
    BY <1>1, <2>1 DEF Leave, Process, Asking
<1>10. CASE MakeProfiles
  BY <1>1, <1>10 DEF MakeProfiles, PhaseDone, Leave, Process, Asking
<1>11. CASE Clear
  BY <1>1, <1>11 DEF Clear, Leave, Process, Asking
<1>12. QED
  BY <1>3, <1>4, <1>5, <1>6, <1>7, <1>8, <1>9, <1>10, <1>11 DEF Work

\* A fresh launch goes on asking what was never asked.
LEMMA FirstAskedStep ==
  ASSUME RunInv, FirstAsked, Work \/ Mishap, proc'.at \in Asking PROVE FirstAsked'
<1> SUFFICES ASSUME AtRequest', ~proc'.resume, proc'.at # "turn" PROVE (Pending \notin Begun)'
  BY DEF FirstAsked
<1>1. /\ proc.at \in Asking /\ ~proc.resume /\ proc'.run = proc.run /\ proc.at # "idle"
      /\ \/ OpenCheckpoint \/ Ask \/ Answer \/ SaveAnswer \/ TakeTurn
         \/ BeginTrajectory \/ ReuseTrajectory \/ FinishTrajectory
  BY AskingMoves, RunStays
<1>2. /\ proc'.at \in {"pre", "post"} /\ call' = "none"
      /\ checkpoint'[proc.run][proc'.at].saved # Probes
  BY <1>1 DEF AtRequest, PhaseLeft, Probing, File
<1>3. Pending' = ProbeOf(proc.run, proc'.at, Min(Probes \ checkpoint'[proc.run][proc'.at].saved))
  BY <1>1, <1>2 DEF Pending, Probing, File, ProbeOf
<1>4. /\ proc.run \in Runs /\ Ck \in [{"pre", "post"} -> Checkpoint] /\ proc \in Process
      /\ RunOK(Begun, Finished, Ck, Out, proc.run)
      /\ StageOK(Begun, Finished, Ck, Out, proc, call)
  BY <1>1, Setting DEF Asking
<1>5. CASE OpenCheckpoint
  <2>1. /\ proc.at \in {"open_pre", "open_post"} /\ proc'.at = OpeningPhase
        /\ OpenRefusal(OpeningPhase) = "none"
        /\ checkpoint' = [checkpoint EXCEPT ![proc.run][OpeningPhase].exists = TRUE]
        /\ ledger' = ledger
    BY <1>4, <1>5 DEF OpenCheckpoint, Process
  <2>2. ~Ck[OpeningPhase].exists
    BY <1>1, <2>1 DEF OpenRefusal, File, Ck
  <2>3. OpeningPhase \in {"pre", "post"}
    BY DEF OpeningPhase
  <2>4. Ck[OpeningPhase].saved = {}
    BY <1>4, <2>2, <2>3 DEF RunOK, CheckpointsOK
  <2>5. checkpoint'[proc.run][OpeningPhase].saved = {}
    BY <1>4, <2>1, <2>3, <2>4 DEF RunInv, TypeOK, Ck, Checkpoint
  <2>6. NothingBegun(Begun, proc.run, OpeningPhase)
    <3>1. CASE proc.at = "open_pre"
      BY <1>1, <1>4, <2>2, <3>1 DEF OpeningPhase, StageOK, RunOK, CheckpointsOK
    <3>2. CASE proc.at = "open_post"
      BY <1>4, <2>2, <3>2 DEF OpeningPhase, StageOK, AfterPre, RunOK, CheckpointsOK
    <3>3. QED
      BY <2>1, <3>1, <3>2
  <2>7. Probes \ {} # {} /\ Min(Probes \ {}) \in Probes
    <3>1. 0 \in 0..ProbeCount /\ 1..0 = {} /\ 1 \in Probes
      BY RunAssumption DEF Probes
    <3>2. 0 + 1 \in Probes /\ Min(Probes \ (1..0)) = 0 + 1
      BY <3>1, MinFrontier
    <3>3. QED
      BY <3>1, <3>2
  <2>8. Pending' \notin Begun
    BY <1>3, <2>1, <2>5, <2>6, <2>7 DEF NothingBegun
  <2>9. Begun' = Begun
    BY <1>1, <2>1 DEF Begun, Log
  <2>10. QED
    BY <2>8, <2>9
<1>6. CASE SaveAnswer
  <2>1. /\ call = "answered" /\ proc.at \in {"pre", "post"} /\ proc' = proc /\ ledger' = ledger
        /\ checkpoint' = [checkpoint EXCEPT ![proc.run][proc.at].saved = @ \cup {Pending.at}]
    BY <1>6 DEF SaveAnswer, Probing
  <2>2. PhaseLeft
    BY <2>1 DEF RunInv, ProcOK, CallOK
  <2>3. PICK n \in 0..ProbeCount :
          /\ Ck[proc.at].saved = 1..n
          /\ n + 1 \in Probes /\ Pending = ProbeOf(proc.run, proc.at, n + 1)
          /\ \A i \in Probes : i > n + 1 => ProbeOf(proc.run, proc.at, i) \notin Begun
    BY <2>1, <2>2, PendingIs
  <2>4. checkpoint'[proc.run][proc.at].saved = 1..(n + 1)
    <3>1. checkpoint'[proc.run][proc.at].saved = Ck[proc.at].saved \cup {Pending.at}
      BY <1>4, <2>1 DEF RunInv, TypeOK, Ck, Checkpoint
    <3>2. Pending.at = n + 1
      BY <2>3 DEF ProbeOf
    <3>3. (1..n) \cup {n + 1} = 1..(n + 1)
      OBVIOUS
    <3>4. QED
      BY <2>3, <3>1, <3>2, <3>3
  <2>5. n + 1 \in 0..ProbeCount /\ n + 1 > n
    BY <2>3, RunAssumption DEF Probes
  <2>6. 1..(n + 1) # Probes
    BY <1>2, <2>1, <2>4
  <2>7. (n + 1) + 1 \in Probes /\ Min(Probes \ (1..(n + 1))) = (n + 1) + 1
    <3> DEFINE k == n + 1
    <3>1. k \in 0..ProbeCount /\ 1..k # Probes
      BY <2>5, <2>6
    <3> HIDE DEF k
    <3>2. k + 1 \in Probes /\ Min(Probes \ (1..k)) = k + 1
      BY <3>1, MinFrontier
    <3>3. QED
      BY <3>2 DEF k
  <2>8. Pending' = ProbeOf(proc.run, proc.at, (n + 1) + 1)
    BY <1>3, <2>1, <2>4, <2>7
  <2>9. (n + 1) + 1 > n + 1
    BY <2>5
  <2>10. Pending' \notin Begun
    BY <2>3, <2>7, <2>8, <2>9
  <2>11. Begun' = Begun
    BY <2>1 DEF Begun, Log
  <2>12. QED
    BY <2>10, <2>11
<1>7. CASE Ask \/ Answer
  BY <1>2, <1>7 DEF Ask, Answer
<1>8. CASE TakeTurn
  BY <1>2, <1>4, <1>8 DEF TakeTurn, Process
<1>9. CASE BeginTrajectory \/ ReuseTrajectory \/ FinishTrajectory
  BY <1>2, <1>4, <1>9 DEF BeginTrajectory, ReuseTrajectory, FinishTrajectory, Process
<1>10. QED
  BY <1>1, <1>5, <1>6, <1>7, <1>8, <1>9

\* A launch that may recover comes to the request it may recover, and makes
\* the recovery no more than once.
LEMMA RecoveryPlacedStep ==
  ASSUME RunInv, RecoveryPlaced, Work \/ Mishap PROVE RecoveryPlaced'
<1> SUFFICES ASSUME proc'.provider.allowed # {}, proc'.at \in Asking
             PROVE  /\ proc'.resume
                    /\ \E a \in Requests :
                         /\ proc'.provider.allowed = {a} /\ a.phase = "post"
                         /\ IF proc'.provider.consumed THEN RecoveryMade(a)' ELSE RecoveryAhead(a)'
  BY DEF RecoveryPlaced
<1>1. /\ proc'.resume = proc.resume /\ proc'.provider.allowed = proc.provider.allowed
      /\ ~Ask => proc'.provider.consumed = proc.provider.consumed
      /\ proc.at \in Asking /\ proc'.run = proc.run /\ proc.at # "idle"
      /\ \/ OpenCheckpoint \/ Ask \/ Answer \/ SaveAnswer \/ TakeTurn
         \/ BeginTrajectory \/ ReuseTrajectory \/ FinishTrajectory
  BY AskingMoves, RunStays
<1>2. PICK a \in Requests :
        /\ proc.provider.allowed = {a} /\ a.phase = "post"
        /\ IF proc.provider.consumed THEN RecoveryMade(a) ELSE RecoveryAhead(a)
  BY <1>1 DEF RecoveryPlaced
<1>3. /\ proc.run \in Runs /\ Ck \in [{"pre", "post"} -> Checkpoint] /\ proc \in Process
      /\ proc.provider \in Provider
      /\ RunOK(Begun, Finished, Ck, Out, proc.run)
      /\ StageOK(Begun, Finished, Ck, Out, proc, call)
  BY <1>1, Setting DEF Asking, Process
<1>4. SUFFICES IF proc'.provider.consumed THEN RecoveryMade(a)' ELSE RecoveryAhead(a)'
  BY <1>1, <1>2 DEF RecoveryPlaced
<1>5. proc.at # "turn"
  BY <1>2 DEF RecoveryMade, RecoveryAhead
<1>6. ~proc.provider.consumed /\ proc.at = "pre" => Ck["pre"].saved = Probes /\ proc.reuse
  BY <1>2, <1>3 DEF RecoveryAhead, StageOK, AfterPre, RunOK, OutputOK
<1>7. CASE OpenCheckpoint
  <2>1. /\ proc.at \in {"open_pre", "open_post"} /\ proc'.at = OpeningPhase
        /\ checkpoint' = [checkpoint EXCEPT ![proc.run][OpeningPhase].exists = TRUE]
        /\ UNCHANGED <<ledger, output, call>> /\ OpeningPhase \in {"pre", "post"}
    BY <1>3, <1>7 DEF OpenCheckpoint, Process, OpeningPhase
  <2>2. checkpoint'[proc.run]["post"].saved = Ck["post"].saved
    BY <1>3, <2>1 DEF RunInv, TypeOK, Ck, Checkpoint
  <2>3. ~proc.provider.consumed /\ RecoveryAhead(a)
    BY <1>2, <2>1 DEF RecoveryMade
  <2>4. /\ Ck["post"]'.saved = Ck["post"].saved /\ Log' = Log /\ Out' = Out
    BY <1>1, <2>1, <2>2 DEF Ck, Log, Out
  <2>5. RecoveryAhead(a)'
    BY <1>1, <2>1, <2>3, <2>4 DEF RecoveryAhead
  <2>6. proc'.provider.consumed = proc.provider.consumed
    BY <1>3, <1>7 DEF OpenCheckpoint, Process
  <2>7. QED
    BY <2>3, <2>5, <2>6
<1>8. CASE Ask
  <2>1. /\ proc.at \in {"pre", "post"} /\ call = "none" /\ PhaseLeft
        /\ proc' = [proc EXCEPT !.provider = Consume(Log, @, Pending)]
        /\ call' = "sent" /\ checkpoint' = checkpoint
    BY <1>5, <1>8 DEF Ask, AtRequest
  <2>2. proc.at = "post"
    <3>1. proc.provider.consumed => proc.at = "post"
      BY <1>2 DEF RecoveryMade
    <3>2. proc.at = "pre" => proc.provider.consumed
      BY <1>6, <2>1 DEF PhaseLeft, Probing, File, Ck
    <3>3. QED
      BY <2>1, <3>1, <3>2
  <2>3. /\ proc'.at = "post" /\ Ck["post"]' = Ck["post"] /\ Pending' = Pending
    BY <1>1, <1>3, <2>1, <2>2 DEF Process, Ck, Pending, Probing, File
  <2>4. CASE proc.provider.consumed
    <3>1. proc'.provider.consumed
      BY <1>3, <2>1, <2>4 DEF Consume, Process, Provider
    <3>2. RecoveryMade(a)'
      BY <1>2, <2>1, <2>3, <2>4 DEF RecoveryMade
    <3>3. QED
      BY <3>1, <3>2
  <2>5. CASE ~proc.provider.consumed
    <3>1. Pending = a /\ IsRecovery(Log, a)
      BY <1>2, <2>2, <2>5 DEF RecoveryAhead, Pending, Probing, File, Ck, ProbeOf
    <3>2. proc'.provider.consumed
      BY <1>3, <2>1, <3>1 DEF Consume, Process, Provider
    <3>3. RecoveryMade(a)'
      BY <2>1, <2>3, <3>1 DEF RecoveryMade
    <3>4. QED
      BY <3>2, <3>3
  <2>6. QED
    BY <2>4, <2>5
<1>9. CASE Answer
  <2>1. call = "sent" /\ call' = "answered" /\ UNCHANGED <<checkpoint, proc>>
    BY <1>9 DEF Answer
  <2>2. proc.provider.consumed /\ RecoveryMade(a)
    BY <1>2, <2>1 DEF RecoveryAhead
  <2>3. RecoveryMade(a)'
    BY <2>1, <2>2 DEF RecoveryMade, Ck, Pending, Probing, File
  <2>4. QED
    BY <2>1, <2>2, <2>3
<1>10. CASE SaveAnswer
  <2>1. /\ call = "answered" /\ proc' = proc
        /\ checkpoint' = [checkpoint EXCEPT ![proc.run][proc.at].saved = @ \cup {Pending.at}]
    BY <1>10 DEF SaveAnswer
  <2>2. proc.provider.consumed /\ RecoveryMade(a) /\ proc.at = "post"
    BY <1>2, <2>1 DEF RecoveryAhead, RecoveryMade
  <2>3. checkpoint'[proc.run]["post"].saved = Ck["post"].saved \cup {Pending.at}
    BY <1>3, <2>1, <2>2 DEF RunInv, TypeOK, Ck, Checkpoint
  <2>4. a.at \in checkpoint'[proc.run]["post"].saved
    BY <2>2, <2>3 DEF RecoveryMade
  <2>5. RecoveryMade(a)'
    BY <2>1, <2>2, <2>4 DEF RecoveryMade, Ck
  <2>6. QED
    BY <2>1, <2>2, <2>5
<1>11. CASE TakeTurn \/ FinishTrajectory
  BY <1>5, <1>11 DEF TakeTurn, FinishTrajectory, PhaseDone
<1>12. CASE BeginTrajectory
  <2>1. proc.at = "pre" /\ ~proc.reuse
    BY <1>12 DEF BeginTrajectory, PhaseDone
  <2>2. proc.provider.consumed
    BY <1>6, <2>1
  <2>3. QED
    BY <1>2, <2>1, <2>2 DEF RecoveryMade
<1>13. CASE ReuseTrajectory
  <2>1. /\ proc.at = "pre" /\ proc' = [proc EXCEPT !.at = "open_post"]
        /\ UNCHANGED <<ledger, checkpoint, output, call>>
    BY <1>13 DEF ReuseTrajectory, PhaseDone
  <2>2. ~proc.provider.consumed /\ RecoveryAhead(a)
    BY <1>2, <2>1 DEF RecoveryMade
  <2>3. /\ proc'.at = "open_post" /\ proc'.provider = proc.provider
        /\ Ck' = Ck /\ Log' = Log /\ Out' = Out
    BY <1>1, <1>3, <2>1 DEF Process, Ck, Log, Out
  <2>4. RecoveryAhead(a)'
    BY <1>1, <2>1, <2>2, <2>3 DEF RecoveryAhead
  <2>5. QED
    BY <2>2, <2>3, <2>4
<1>14. QED
  BY <1>1, <1>7, <1>8, <1>9, <1>10, <1>11, <1>12, <1>13

\* A run at work asks for nothing it may not ask.
LEMMA AskWorks == ASSUME RunInv, AskInv, Work \/ Mishap PROVE AskInv'
<1>1. [Next]_vars
  BY DEF Next
<1>2. FilesKept'
  BY <1>1, FilesKeptStep DEF AskInv
<1>3. FirstAsked'
  <2>1. CASE proc'.at \in Asking
    BY <2>1, FirstAskedStep DEF AskInv
  <2>2. CASE proc'.at \notin Asking
    BY <2>2 DEF FirstAsked, AtRequest, Asking
  <2>3. QED
    BY <2>1, <2>2
<1>4. RecoveryPlaced'
  BY RecoveryPlacedStep DEF AskInv
<1>5. proc'.resume => proc'.provider.resume
  BY AskingMoves, RunStays DEF AskInv
<1>6. QED
  BY <1>2, <1>3, <1>4, <1>5 DEF AskInv

\* So does a process that is gone, and one that stays.
LEMMA AskEnds ==
  ASSUME RunInv, AskInv, ledger' = ledger,
         proc' = Idle \/ UNCHANGED <<checkpoint, output, proc, call>>
  PROVE  AskInv'
<1>1. FilesKept'
  BY DEF AskInv, FilesKept
<1>2. CASE proc' = Idle
  BY <1>1, <1>2, IdleType DEF AskInv, FirstAsked, AtRequest, RecoveryPlaced, Asking
<1>3. CASE UNCHANGED <<checkpoint, output, proc, call>>
  BY <1>1, <1>3
  DEF AskInv, FirstAsked, AtRequest, PhaseLeft, Probing, File, Pending, Begun, Log,
    RecoveryPlaced, RecoveryMade, RecoveryAhead, Ck, Out
<1>4. QED
  BY <1>2, <1>3

\* A launch may recover the final probe it will ask first, when its answer
\* came and it was not recovered before.
LEMMA AskLaunch ==
  ASSUME RunInv, AskInv, NEW run \in Runs, NEW resume \in BOOLEAN, NEW provider \in Provider,
         Launch(run, resume, provider), resume => provider.resume, ~provider.consumed,
         provider.allowed # {} =>
           /\ resume
           /\ \E a \in Requests :
                /\ provider.allowed = {a} /\ Completed(a)
                /\ a = ProbeOf(run, "post", Min(Probes \ checkpoint[run]["post"].saved))
                /\ IsRecovery(ledger[LedgerOf[run]], a)
                /\ RecoveriesOf(ledger[LedgerOf[run]], a) = {}
  PROVE  AskInv'
<1>1. /\ UNCHANGED <<ledger, checkpoint, output>> /\ call' = "none" /\ proc.at = "idle"
      /\ proc'.at \in {"open_pre", "returned"} /\ proc'.run = run
      /\ proc'.resume = resume /\ proc'.provider = provider
  BY NoCall DEF Launch, Idle
<1>2. FilesKept' /\ FirstAsked'
  BY <1>1 DEF AskInv, FilesKept, FirstAsked, AtRequest
<1>3. RecoveryPlaced'
  <2>1. SUFFICES ASSUME provider.allowed # {}, proc'.at = "open_pre" PROVE RecoveryPlaced'
    BY <1>1 DEF RecoveryPlaced, Asking
  <2>2. PICK a \in Requests :
          /\ provider.allowed = {a} /\ Completed(a)
          /\ a = ProbeOf(run, "post", Min(Probes \ checkpoint[run]["post"].saved))
          /\ IsRecovery(ledger[LedgerOf[run]], a)
          /\ RecoveriesOf(ledger[LedgerOf[run]], a) = {}
    BY <2>1
  <2>3. /\ a.phase = "post" /\ a.run = run
        /\ Ck' = checkpoint[run] /\ Log' = ledger[LedgerOf[run]] /\ Out' = output[run]
    BY <1>1, <2>2 DEF ProbeOf, Ck, Log, Out
  <2>4. output[run].dir
    <3> DEFINE B == StartedRequests(ledger[LedgerOf[run]])
               F == FinishedRequests(ledger[LedgerOf[run]])
    <3>1. RunOK(B, F, checkpoint[run], output[run], run) /\ LogOK(ledger[LedgerOf[run]])
      BY DEF RunInv, FilesOK, Files
    <3>2. a \in B
      BY <2>2, <2>3, <3>1, Views DEF LogOK
    <3> HIDE DEF B, F
    <3>3. PICK i \in Probes : a = ProbeOf(run, "post", i)
      BY <2>3, Coordinates
    <3>4. ~NothingBegun(B, run, "post")
      BY <3>2, <3>3 DEF NothingBegun
    <3>5. QED
      BY <3>1, <3>4 DEF RunOK, CheckpointsOK, OutputOK, Virgin
  <2>5. RecoveryAhead(a)'
    BY <1>1, <2>1, <2>2, <2>3, <2>4 DEF RecoveryAhead
  <2>6. QED
    BY <1>1, <2>1, <2>2, <2>3, <2>5 DEF RecoveryPlaced
<1>4. QED
  BY <1>1, <1>2, <1>3 DEF AskInv

\* The one answer a launch may recover is the one its next request is about,
\* or it has it already.
LEMMA RecoveryAsked ==
  ASSUME RunInv, AskInv, AtRequest, proc.provider.allowed # {}, proc.at # "turn"
  PROVE  \E a \in Requests :
           /\ proc.provider.allowed = {a} /\ Phase[a] = "probe"
           /\ IF proc.provider.consumed THEN Pending # a
                                        ELSE Pending = a /\ RecoveriesOf(Log, a) = {}
<1>1. proc.at \in {"pre", "post"} /\ PhaseLeft /\ call = "none" /\ proc.at # "idle"
  BY DEF AtRequest
<1>2. PICK a \in Requests :
        /\ proc.provider.allowed = {a} /\ a.phase = "post"
        /\ IF proc.provider.consumed THEN RecoveryMade(a) ELSE RecoveryAhead(a)
  BY <1>1 DEF AskInv, RecoveryPlaced, Asking
<1>3. Phase[a] = "probe"
  BY <1>2 DEF Phase
<1>4. /\ RunOK(Begun, Finished, Ck, Out, proc.run)
      /\ StageOK(Begun, Finished, Ck, Out, proc, call)
  BY <1>1, Setting
<1>5. CASE proc.provider.consumed
  <2>1. proc.at = "post" /\ a.at \in Ck["post"].saved
    BY <1>1, <1>2, <1>5 DEF RecoveryMade
  <2>2. PICK n \in 0..ProbeCount : /\ Ck["post"].saved = 1..n
                                   /\ Pending = ProbeOf(proc.run, "post", n + 1)
    BY <1>1, <2>1, PendingIs
  <2>3. Pending.at = n + 1 /\ n + 1 \notin 1..n
    BY <2>2 DEF ProbeOf
  <2>4. QED
    BY <1>2, <1>3, <1>5, <2>1, <2>2, <2>3
<1>6. CASE ~proc.provider.consumed
  <2>1. RecoveryAhead(a)
    BY <1>2, <1>6
  <2>2. proc.at = "post"
    <3>1. Ck["pre"].exists
      BY <1>1, <1>4 DEF StageOK, AfterPre
    <3>2. Ck["pre"].saved = Probes
      BY <1>4, <2>1, <3>1 DEF RecoveryAhead, RunOK, OutputOK
    <3>3. QED
      BY <1>1, <3>2 DEF PhaseLeft, Probing, File, Ck
  <2>3. Pending = a
    BY <2>1, <2>2 DEF RecoveryAhead, Pending, Probing, File, Ck, ProbeOf
  <2>4. QED
    BY <1>2, <1>3, <1>6, <2>1, <2>3 DEF RecoveryAhead
<1>7. QED
  BY <1>5, <1>6

\* There are only so many requests.
LEMMA RequestsFinite == IsFiniteSet(Requests)
<1> DEFINE Phases == {"pre", "post", "turn"}
           P == 1..(ProbeCount + TurnCount)
           S == (Runs \X Phases) \X P
           T == [run : Runs, phase : Phases, at : P]
           f == [x \in S |-> [run |-> x[1][1], phase |-> x[1][2], at |-> x[2]]]
<1>1. IsFiniteSet(S)
  <2>1. IsFiniteSet(Phases)
    <3>1. \A e : IsFiniteSet({e})
      BY FS_Singleton
    <3>2. IsFiniteSet({"pre"} \cup {"post"})
      BY <3>1, FS_Union
    <3>3. IsFiniteSet(({"pre"} \cup {"post"}) \cup {"turn"})
      BY <3>1, <3>2, FS_Union
    <3>4. QED
      BY <3>3
  <2>2. IsFiniteSet(P)
    BY FS_Interval, RunAssumption
  <2>3. IsFiniteSet(Runs)
    BY RunAssumption
  <2> HIDE DEF Phases, P
  <2>4. QED
    BY <2>1, <2>2, <2>3, FS_Product
<1>2. f \in Surjection(S, T)
  <2>1. f \in [S -> T]
    OBVIOUS
  <2>2. ASSUME NEW t \in T PROVE \E x \in S : f[x] = t
    <3>1. <<<<t.run, t.phase>>, t.at>> \in S
      BY <2>2
    <3>2. f[<<<<t.run, t.phase>>, t.at>>] = t
      BY <2>2, <3>1
    <3>3. QED
      BY <3>1, <3>2
  <2> HIDE DEF f, S, T
  <2>3. QED
    BY <2>1, <2>2 DEF Surjection
<1>3. IsFiniteSet(T)
  <2> HIDE DEF f, S, T
  <2>1. QED
    BY <1>1, <1>2, FS_Surjection
<1>4. Requests \subseteq T
  <2>1. Probes \subseteq P /\ Turns \subseteq P
    BY RunAssumption DEF Probes, Turns
  <2>2. QED
    BY <2>1 DEF Requests
<1>5. QED
  <2> HIDE DEF T
  <2>1. QED
    BY <1>3, <1>4, FS_Subset

\* The caps have room for what was never asked of a ledger file.
LEMMA CapsLeaveRoom ==
  ASSUME CapsCoverRuns, NEW f \in Files, NEW log, NEW r \in RequestsOf(f),
         StartedRequests(log) \subseteq RequestsOf(f)
  PROVE  UnderRequestCap(log, r) /\ UnderReservationCap(log, r)
<1> SUFFICES ASSUME IsFresh(log, r)
             PROVE  /\ Cardinality(StartedRequests(log)) < RequestCap
                    /\ ReservedTokens(log) + MaxTokens[r] <= ReservationCap
  BY DEF UnderRequestCap, UnderReservationCap
<1> DEFINE S == StartedRequests(log)
           Q == RequestsOf(f)
<1>1. r \notin S /\ r \in Requests /\ S \subseteq Requests
  BY DEF StartedRequests, IsFresh, RequestsOf
<1>2. IsFiniteSet(Requests) /\ RequestCap \in Nat /\ ReservationCap \in Nat
  BY RequestsFinite, RunAssumption
<1>3. IsFiniteSet(Q) /\ IsFiniteSet(S)
  <2>1. Q \subseteq Requests
    BY DEF RequestsOf
  <2> HIDE DEF Q, S
  <2>2. QED
    BY <1>1, <1>2, <2>1, FS_Subset
<1>4. ReservedTokens(log) = SumFunctionOnSet(MaxTokens, S)
  BY DEF ReservedTokens, MapThenSumSet, SumFunctionOnSet, FoldFunctionOnSet
<1>5. MaxTokens[r] = 1 /\ \A q \in S : MaxTokens[q] = 1
  BY <1>1 DEF MaxTokens
<1>6. Cardinality(Q) <= RequestCap /\ Cardinality(Q) <= ReservationCap
  BY DEF CapsCoverRuns
<1>7. S \subseteq Q \ {r} /\ r \in Q
  BY <1>1
<1> DEFINE M == MaxTokens
<1> HIDE DEF S, Q, M
<1>8. SumFunctionOnSet(M, S) = Cardinality(S)
  <2>1. \A q \in S : M[q] = 1
    BY <1>5 DEF M
  <2>2. QED
    BY <1>3, <2>1, SumOfOnes
<1>9. Cardinality(S) <= Cardinality(Q \ {r})
  <2>1. IsFiniteSet(Q \ {r})
    BY <1>3, FS_RemoveElement
  <2>2. QED
    BY <1>7, <2>1, FS_Subset
<1>10. Cardinality(Q \ {r}) = Cardinality(Q) - 1
  BY <1>3, <1>7, FS_RemoveElement
<1>11. Cardinality(S) \in Nat /\ Cardinality(Q) \in Nat
  BY <1>3, FS_CardinalityType
<1>12. Cardinality(S) + 1 <= Cardinality(Q)
  BY <1>9, <1>10, <1>11
<1>13. ReservedTokens(log) = Cardinality(S)
  BY <1>4, <1>8 DEF M
<1>14. QED
  BY <1>2, <1>5, <1>6, <1>11, <1>12, <1>13 DEF S

\* A request that is not the recovery a launch was made for is refused only
\* if its answer is there.
LEMMA OnlyReplaysRefused ==
  ASSUME RunInv, AskInv, CapsCoverRuns, proc.provider.allowed # {} => MaxRecovery > 0
  PROVE  RefusedOnlyAsReplay
<1> SUFFICES ASSUME AtRequest
             PROVE  RefusalNow \in {"none", "completed_request_fingerprint_exists"}
  BY DEF RefusedOnlyAsReplay
<1> DEFINE p == ProviderNow
<1>1. proc.at \in {"pre", "turn", "post"} /\ PhaseLeft /\ call = "none" /\ proc.at # "idle"
  BY DEF AtRequest
<1>2. /\ proc.run \in Runs /\ proc \in Process /\ LedgerOf[proc.run] \in Files
      /\ Log \in Seq(Receipt) /\ StageOK(Begun, Finished, Ck, Out, proc, call)
  BY <1>1, Setting
<1>3. Pending \in Requests /\ Pending.run = proc.run
  BY <1>1, PendingIs
<1>4. /\ proc.resume => p.resume
      /\ p.consumed = proc.provider.consumed
      /\ p.allowed = IF proc.at = "turn" THEN {} ELSE proc.provider.allowed
  BY <1>1, <1>2 DEF ProviderNow, Probing, AskInv, Process, Provider
<1> HIDE DEF p
<1>5. ~Conflicts(Log, Pending)
  <2> SUFFICES ASSUME NEW i \in DOMAIN Log, Key[Log[i].req] = Key[Pending]
               PROVE  Log[i].req = Pending
    BY DEF Conflicts
  <2>1. Log[i] \in Receipt
    BY <1>2, ElementOfSeq
  <2>2. Log[i].req \in Requests
    BY <2>1 DEF Receipt
  <2>3. QED
    BY <1>3, <2>2 DEF Key
<1>6. CASE proc.at # "turn" /\ proc.provider.allowed # {}
  <2>1. PICK a \in Requests :
          /\ p.allowed = {a} /\ Phase[a] = "probe"
          /\ IF p.consumed THEN Pending # a ELSE Pending = a /\ RecoveriesOf(Log, a) = {}
    BY <1>4, <1>6, RecoveryAsked
  <2>2. QED
    <3>1. ~OutsideRecovery(Log, p, Pending)
      BY <2>1 DEF OutsideRecovery, Allowed, RecoveryPhases
    <3>2. NoReplay(Log, p, Pending) => RecoveryLeft(Log, Pending)
      <4>1. Cardinality({}) = 0
        BY FS_EmptySet
      <4>2. QED
        BY <1>6, <2>1, <4>1 DEF NoReplay, RecoveryLeft, Allowed
    <3>3. ResumeGiven(Log, p, Pending)
      BY <1>1, <1>4, <1>6 DEF AskInv, RecoveryPlaced, Asking, ResumeGiven
    <3>4. UnderRequestCap(Log, Pending) /\ UnderReservationCap(Log, Pending)
      <4>1. /\ Pending \in RequestsOf(LedgerOf[proc.run])
            /\ StartedRequests(Log) \subseteq RequestsOf(LedgerOf[proc.run])
        BY <1>2, <1>3 DEF AskInv, FilesKept, RequestsOf, Log
      <4>2. QED
        BY <1>2, <4>1, CapsLeaveRoom
    <3>5. QED
      BY <1>5, <3>1, <3>2, <3>3, <3>4 DEF RefusalNow, Refusal, p
<1>7. CASE proc.at = "turn" \/ proc.provider.allowed = {}
  <2>1. p.allowed = {}
    BY <1>4, <1>7
  <2>2. ~OutsideRecovery(Log, p, Pending)
    BY <2>1 DEF OutsideRecovery
  <2>3. NoReplay(Log, p, Pending) => RecoveryLeft(Log, Pending)
    BY <2>1 DEF NoReplay, RecoveryLeft, Allowed
  <2>4. ResumeGiven(Log, p, Pending)
    <3>1. SUFFICES ASSUME Pending \in Begun PROVE proc.resume
      BY <1>3, <1>4 DEF ResumeGiven, IsFresh, Begun, StartedRequests
    <3>2. CASE proc.at = "turn"
      <4>1. proc.turns + 1 \in Turns /\ Pending = TurnOf(proc.run, proc.turns + 1)
        BY <1>1, <3>2, PendingIs
      <4>2. proc.turns \in Nat /\ proc.turns + 1 > proc.turns
        BY <1>2, RunAssumption DEF Process
      <4>3. Pending \notin Begun
        BY <1>1, <1>2, <3>2, <4>1, <4>2 DEF StageOK, TurnsInOrder
      <4>4. QED
        BY <3>1, <4>3
    <3>3. CASE proc.at # "turn"
      BY <3>1, <3>3 DEF AskInv, FirstAsked
    <3>4. QED
      BY <3>2, <3>3
  <2>5. UnderRequestCap(Log, Pending) /\ UnderReservationCap(Log, Pending)
    <3>1. /\ Pending \in RequestsOf(LedgerOf[proc.run])
          /\ StartedRequests(Log) \subseteq RequestsOf(LedgerOf[proc.run])
      BY <1>2, <1>3 DEF AskInv, FilesKept, RequestsOf, Log
    <3>2. QED
      BY <1>2, <3>1, CapsLeaveRoom
  <2>6. QED
    BY <1>5, <2>2, <2>3, <2>4, <2>5 DEF RefusalNow, Refusal, p
<1>8. QED
  BY <1>6, <1>7

\* Nothing is asked before the first launch.
LEMMA AskInit == Init => AskInv
<1> SUFFICES ASSUME Init PROVE AskInv
  OBVIOUS
<1>1. FilesKept
  <2> SUFFICES ASSUME NEW f \in Files
               PROVE  /\ EndsDirect(<<>>) /\ StartedRequests(<<>>) \subseteq RequestsOf(f)
    BY DEF FilesKept, Init
  <2>1. \A r : StartsOf(<<>>, r) = {}
    BY DEF StartsOf
  <2>2. QED
    BY <2>1 DEF EndsDirect, StartedRequests
<1>2. QED
  BY <1>1 DEF Init, Idle, AskInv, FirstAsked, AtRequest, RecoveryPlaced, Asking

\* So it is with an operator, who never recovers anything.
LEMMA AskInvStep ==
  ASSUME RunInv, AskInv, [Next]_vars PROVE AskInv'
<1>1. CASE \E run \in Runs, resume \in BOOLEAN : Operate(run, resume)
  <2>1. PICK run \in Runs, resume \in BOOLEAN : Operate(run, resume)
    BY <1>1
  <2> DEFINE provider == [resume |-> resume, allowed |-> {}, consumed |-> FALSE]
  <2>2. /\ provider \in Provider /\ provider.resume = resume
        /\ ~provider.consumed /\ provider.allowed = {} /\ Launch(run, resume, provider)
    BY <2>1 DEF Provider, Operate
  <2> HIDE DEF provider
  <2>3. QED
    BY <2>2, AskLaunch
<1>2. CASE Work \/ Mishap
  BY <1>2, AskWorks
<1>3. CASE Return \/ Crash
  BY <1>3, AskEnds DEF Return, Crash
<1>4. CASE UNCHANGED vars
  BY <1>4, AskEnds DEF vars
<1>5. QED
  BY <1>1, <1>2, <1>3, <1>4 DEF Next

\* With caps that cover the requests of a ledger file, no launch of an operator
\* comes to a request it may not make, in any order of launches, crashes and
\* faults, unless the answer came in before: a retry is not charged twice, and
\* whoever starts afresh finds nothing started.
THEOREM OperatorsRefusedOnlyAsReplay ==
  ASSUME CapsCoverRuns PROVE Spec => []RefusedOnlyAsReplay
<1>1. RunInv /\ AskInv /\ NoRecovery => RefusedOnlyAsReplay
  BY OnlyReplaysRefused DEF NoRecovery
<1>2. RunInv /\ AskInv /\ [Next]_vars => AskInv'
  BY AskInvStep
<1>3. QED
  BY <1>1, <1>2, AskInit, RunInvariant, OperatorsNeverRecover, PTL DEF Spec

=============================================================================
