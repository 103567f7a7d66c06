----------------------- MODULE ConfirmatoryBatch_proofs -----------------------
(***************************************************************************)
(* Proofs about the confirmatory batch, for any order of runs, whatever    *)
(* their ledger files, probes, turns, caps and faults.                     *)
(*                                                                         *)
(* Unlike an operator the batch may send a completed request once more, to *)
(* recover an answer its parser refused; the runs of the batch are         *)
(* measured runs all the same (RunInv).  On top of it, BatchInv follows    *)
(* the batch record, the one amendment and the receipts tagged as          *)
(* recoveries through sessions that fail, crash and are resumed.           *)
(***************************************************************************)
EXTENDS ConfirmatoryBatch, MeasuredRun_proofs

-----------------------------------------------------------------------------
(* The invariant. *)

Record == [status : {"planned", "running", "completed", "failed"},
           result : Results, error : Errors \cup {"parser_recovery_refused"}]

SessionSteps == {"closed", "initialize", "loop", "mark_running", "authorize", "condition",
                 "mark_failed", "mark_completed", "close", "validate", "evaluate",
                 "report", "audit", "receipt"}

Session == [at : SessionSteps, resume : BOOLEAN, index : 1..(Len(RunOrder) + 1),
            current : Record, outcome : Record, recovering : SUBSET Requests]

BatchTypes ==
  /\ files \in [FileNames -> {"none", "partial", "whole"}]
  /\ records \in [Runs -> Record]
  /\ amendment \in [for : SUBSET Requests, attempted : BOOLEAN]
  /\ session \in Session

(* The runs before a place in the order are recorded as completed. *)
DoneBefore(recs, n) ==
  \A i \in DOMAIN RunOrder : i < n => recs[RunOrder[i]].status = "completed"

(* No run is taken up before those before it are completed. *)
InOrder ==
  \A j \in DOMAIN RunOrder : records[RunOrder[j]].status # "planned" => DoneBefore(records, j)

(* The measurement of a run is out and its checkpoints are cleared. *)
Measured(run) ==
  /\ output[run].measurement = "completed"
  /\ \A phase \in {"pre", "post"} : ~checkpoint[run][phase].exists

(* The record knows of every run that was begun, and completed ones are      *)
(* measured.                                                                 *)
RecordsOK ==
  /\ \A r \in Requests :
       r \in StartedRequests(ledger[LedgerOf[r.run]]) => records[r.run].status # "planned"
  /\ \A run \in Runs : records[run].status = "completed" => Measured(run)

AllRecorded == \A run \in Runs : records[run].status = "completed"

Taking == {"mark_running", "authorize", "condition", "mark_failed", "mark_completed"}

Finishing == {"validate", "evaluate", "report", "audit", "receipt"}

(* What the session relies on at each of its steps. *)
SessionOK ==
  /\ session.at \in {"initialize", "loop"} => DoneBefore(records, session.index)
  /\ session.at \in Taking =>
       /\ session.index \in DOMAIN RunOrder /\ DoneBefore(records, session.index)
       /\ records[Current].status # "completed"
  /\ session.at \in {"authorize", "condition"} => records[Current].status = "running"
  /\ IF session.at = "condition" THEN proc.at # "idle" /\ proc.run = Current
                                 ELSE proc.at = "idle" /\ proc.provider.allowed = {}
  /\ session.at = "mark_failed" => session.outcome.status = "failed"
  /\ session.at = "mark_completed" =>
       session.outcome.status = "completed" /\ Measured(Current)
  /\ session.at \in Finishing => AllRecorded

(* A run returns as completed only when it is measured and cleared. *)
ResultOK == proc.at = "returned" /\ proc.result = "completed" => Measured(proc.run)

ReceiptOK == files["receipt"] # "none" => AllRecorded

(* The amendment on disk is about this post probe. *)
Named(r) ==
  r.phase = "post" /\ amendment.for = {r} /\ files["amendment"] = "whole"

(* What was recovered, and what may be, is the request the amendment names. *)
RecoveryOK ==
  /\ \A r \in Requests : RecoveriesOf(ReceiptsOf(r), r) # {} =>
       Named(r) /\ Cardinality(RecoveriesOf(ReceiptsOf(r), r)) = 1
  /\ \A r \in proc.provider.allowed : Named(r)

BatchInv ==
  /\ RunInv /\ BatchTypes /\ InOrder /\ RecordsOK /\ SessionOK /\ ResultOK /\ ReceiptOK
  /\ RecoveryOK

-----------------------------------------------------------------------------
(* What a step of a measured run means to the batch. *)

\* The order takes up every run once.
LEMMA OrderIsInjective ==
  /\ DOMAIN RunOrder = 1..Len(RunOrder) /\ Len(RunOrder) \in Nat
  /\ \A i \in DOMAIN RunOrder : RunOrder[i] \in Runs
  /\ \A i, j \in DOMAIN RunOrder : RunOrder[i] = RunOrder[j] => i = j
BY BatchAssumption, OrderOnce

\* A step of one run leaves the files of the others alone.
LEMMA OthersStay ==
  ASSUME RunInv, Work \/ Mishap, NEW run \in Runs, run # proc.run
  PROVE  output'[run] = output[run] /\ checkpoint'[run] = checkpoint[run]
<1>1. /\ output \in [Runs -> Output]
      /\ checkpoint \in [Runs -> [{"pre", "post"} -> Checkpoint]]
  BY DEF RunInv, TypeOK
<1>2. [Next]_vars
  BY DEF Next
<1>3. UNCHANGED vars => UNCHANGED <<output, checkpoint>>
  BY DEF vars
<1>4. CASE OpenCheckpoint \/ SaveAnswer \/ Clear
  BY <1>1, <1>4 DEF OpenCheckpoint, SaveAnswer, Clear
<1>5. CASE \/ BeginTrajectory \/ FinishTrajectory \/ RecordFailedTrajectory
           \/ RecordAgentFailure \/ RecordPostFailure \/ MakeProfiles \/ FillProfiles
           \/ RecordMeasurement
  BY <1>1, <1>5
  DEF BeginTrajectory, FinishTrajectory, RecordFailedTrajectory, RecordAgentFailure,
    RecordPostFailure, MakeProfiles, FillProfiles, RecordMeasurement
<1>6. CASE Ask \/ Answer \/ TakeTurn \/ ReuseTrajectory
  BY <1>6 DEF Ask, Answer, TakeTurn, ReuseTrajectory
<1>7. QED
  BY <1>2, <1>3, <1>4, <1>5, <1>6, StepCases

\* A run that returns as completed is measured, and both checkpoints are gone.
LEMMA ReturnsMeasured ==
  ASSUME RunInv, Work \/ Mishap, proc'.at = "returned", proc'.result = "completed"
  PROVE  Measured(proc.run)'
<1>1. proc.at = "clear_post" /\ output' = output /\ proc'.run = proc.run
  BY RunStays
<1>2. /\ proc.run \in Runs /\ Ck \in [{"pre", "post"} -> Checkpoint]
      /\ Out.measurement = "completed" /\ ~Ck["pre"].exists
  BY <1>1, Setting DEF StageOK
<1>3. Clear
  <2>1. /\ proc.at \notin {"open_pre", "pre", "turn", "open_post", "post", "turn_failed",
                           "agent_failed", "post_failed", "profiling", "recording"}
        /\ call = "none"
    BY <1>1 DEF RunInv, ProcOK, CallOK
  <2>2. QED
    BY <2>1
    DEF Work, Mishap, OpenCheckpoint, RefuseCheckpoint, Ask, RefuseRequest, AtRequest, Answer,
      SaveAnswer, TakeTurn, BeginTrajectory, ReuseTrajectory, RefuseTrajectory,
      FinishTrajectory, RecordFailedTrajectory, RecordAgentFailure, RecordPostFailure,
      MakeProfiles, FillProfiles, RecordMeasurement, PhaseDone, ProviderFails,
      ReceiptUnwritten, AnswerInvalid, SaveFails
<1>4. checkpoint' = [checkpoint EXCEPT ![proc.run]["post"] = NoCheckpoint]
  BY <1>1, <1>3 DEF Clear
<1>5. ~checkpoint'[proc.run]["post"].exists /\ ~checkpoint'[proc.run]["pre"].exists
  BY <1>2, <1>4 DEF RunInv, TypeOK, Ck, NoCheckpoint
<1>6. QED
  BY <1>1, <1>2, <1>5 DEF Measured, Out

-----------------------------------------------------------------------------
(* Recoveries. *)

\* A receipt adds a recovery when it starts one.
LEMMA RecoveriesAfter ==
  ASSUME NEW log \in Seq(Receipt), NEW e \in Receipt, NEW r
  PROVE  /\ RecoveriesOf(Append(log, e), r) \subseteq RecoveriesOf(log, r) \cup {Len(log) + 1}
         /\ RecoveriesOf(log, r) \subseteq RecoveriesOf(Append(log, e), r)
         /\ Len(log) + 1 \in RecoveriesOf(Append(log, e), r)
              <=> e.status = "started" /\ e.recovery /\ e.req = r
<1> DEFINE new == Append(log, e)
<1>1. /\ DOMAIN log = 1..Len(log) /\ Len(log) \in Nat
      /\ DOMAIN new = 1..(Len(log) + 1)
      /\ \A i \in 1..Len(log) : new[i] = log[i]
      /\ new[Len(log) + 1] = e
  BY AppendProperties
<1> HIDE DEF new
<1>2. /\ RecoveriesOf(new, r) \subseteq RecoveriesOf(log, r) \cup {Len(log) + 1}
      /\ RecoveriesOf(log, r) \subseteq RecoveriesOf(new, r)
  BY <1>1 DEF RecoveriesOf, StartsOf
<1>3. Len(log) + 1 \in RecoveriesOf(new, r)
        <=> e.status = "started" /\ e.recovery /\ e.req = r
  BY <1>1 DEF RecoveriesOf, StartsOf
<1>4. QED
  BY <1>2, <1>3 DEF new

\* A request is sent again after its answer only when its probe provider was
\* given it, and then for the first time.
LEMMA RecoversOnce ==
  ASSUME RunInv, Ask, IsRecovery(Log, Pending)
  PROVE  Pending \in proc.provider.allowed /\ RecoveriesOf(Log, Pending) = {}
<1>1. RefusalNow = "none" /\ proc.at # "idle"
  BY DEF Ask, AtRequest
<1>2. proc \in Process /\ Log \in Seq(Receipt)
  BY <1>1, Setting
<1>3. NoReplay(Log, ProviderNow, Pending) /\ RecoveryLeft(Log, Pending)
  BY <1>1 DEF RefusalNow, Refusal
<1>4. Pending \in ProviderNow.allowed
  BY <1>3 DEF NoReplay, Allowed
<1>5. ProviderNow.allowed \subseteq proc.provider.allowed
  BY <1>2 DEF ProviderNow, Process, Provider
<1>6. RecoveriesOf(Log, Pending) = {}
  <2>1. Cardinality(RecoveriesOf(Log, Pending)) < 1
    BY <1>3, BatchAssumption DEF RecoveryLeft
  <2>2. IsFiniteSet(RecoveriesOf(Log, Pending))
    BY <1>2, IndexSetsFinite, FS_Subset DEF RecoveriesOf
  <2>3. Cardinality(RecoveriesOf(Log, Pending)) = 0
    BY <2>1, <2>2, FS_CardinalityType
  <2>4. QED
    BY <2>2, <2>3, FS_EmptySet
<1>7. QED
  BY <1>4, <1>5, <1>6

\* The run at hand recovers what the amendment names, and nothing else.
LEMMA RecoveryWorks ==
  ASSUME BatchInv, Work \/ Mishap, UNCHANGED <<files, amendment>>
  PROVE  RecoveryOK'
<1>1. RunInv /\ RecoveryOK /\ [Next]_vars
  BY DEF BatchInv, Next
<1>2. proc.at # "idle"
  BY <1>1, RunStays
<1>3. Log \in Seq(Receipt) /\ LedgerOf[proc.run] \in Files
  BY <1>1, <1>2, Setting
<1>4. proc'.provider.allowed = proc.provider.allowed
  <2>1. CASE Ask
    BY <1>1, <1>2, <2>1, Setting DEF Ask, Consume, Process, Provider
  <2>2. QED
    BY <1>1, <2>1, RunStays
<1>5. \A r : Named(r)' <=> Named(r)
  BY DEF Named
<1>6. ASSUME NEW e \in Receipt, e.req.run = proc.run,
             ledger' = [ledger EXCEPT ![LedgerOf[proc.run]] = Append(@, e)],
             e.status = "started" /\ e.recovery =>
               Named(e.req) /\ RecoveriesOf(Log, e.req) = {},
             NEW r \in Requests, RecoveriesOf(ledger'[LedgerOf[r.run]], r) # {}
      PROVE  Named(r) /\ Cardinality(RecoveriesOf(ledger'[LedgerOf[r.run]], r)) = 1
  <2>1. LedgerOf[r.run] \in Files
    BY Coordinates DEF Files
  <2>2. RecoveriesOf(ledger[LedgerOf[r.run]], r) # {} =>
          Named(r) /\ Cardinality(RecoveriesOf(ledger[LedgerOf[r.run]], r)) = 1
    BY <1>1 DEF RecoveryOK, ReceiptsOf
  <2>3. CASE LedgerOf[r.run] # LedgerOf[proc.run]
    <3>1. ledger'[LedgerOf[r.run]] = ledger[LedgerOf[r.run]]
      BY <1>1, <1>3, <1>6, <2>1, <2>3 DEF RunInv, TypeOK
    <3>2. QED
      BY <1>6, <2>2, <3>1
  <2>4. CASE LedgerOf[r.run] = LedgerOf[proc.run]
    <3>1. ledger'[LedgerOf[r.run]] = Append(Log, e) /\ ledger[LedgerOf[r.run]] = Log
      BY <1>1, <1>3, <1>6, <2>4 DEF RunInv, TypeOK, Log
    <3>2. CASE e.status = "started" /\ e.recovery /\ e.req = r
      <4>1. RecoveriesOf(Append(Log, e), r) = {Len(Log) + 1}
        BY <1>3, <1>6, <3>2, RecoveriesAfter
      <4>2. QED
        <5>1. Cardinality({Len(Log) + 1}) = 1
          BY FS_Singleton
        <5>2. Named(r)
          BY <1>6, <3>2
        <5>3. QED
          BY <3>1, <4>1, <5>1, <5>2
    <3>3. CASE ~(e.status = "started" /\ e.recovery /\ e.req = r)
      <4>1. RecoveriesOf(Append(Log, e), r) = RecoveriesOf(Log, r)
        <5>1. Len(Log) + 1 \notin RecoveriesOf(Append(Log, e), r)
          BY <1>3, <3>3, RecoveriesAfter, Zenon
        <5>2. /\ RecoveriesOf(Append(Log, e), r)
                   \subseteq RecoveriesOf(Log, r) \cup {Len(Log) + 1}
              /\ RecoveriesOf(Log, r) \subseteq RecoveriesOf(Append(Log, e), r)
          BY <1>3, RecoveriesAfter
        <5>3. QED
          BY <5>1, <5>2
      <4>2. QED
        BY <1>6, <2>2, <3>1, <4>1
    <3>4. QED
      BY <3>2, <3>3
  <2>5. QED
    BY <2>3, <2>4
<1>7. ASSUME NEW r \in Requests, RecoveriesOf(ledger'[LedgerOf[r.run]], r) # {}
      PROVE  Named(r) /\ Cardinality(RecoveriesOf(ledger'[LedgerOf[r.run]], r)) = 1
  <2>1. CASE ledger' = ledger
    BY <1>1, <1>7, <2>1 DEF RecoveryOK, ReceiptsOf
  <2>2. CASE Ask
    <3> DEFINE e == StartReceipt(Log, Pending)
    <3>1. /\ e \in Receipt /\ e.req = Pending /\ e.req.run = proc.run
          /\ e.recovery = IsRecovery(Log, Pending)
          /\ ledger' = [ledger EXCEPT ![LedgerOf[proc.run]] = Append(@, e)]
      BY <1>1, <2>2, AskReceipt
    <3> HIDE DEF e
    <3>2. IsRecovery(Log, Pending) => Named(Pending) /\ RecoveriesOf(Log, Pending) = {}
      BY <1>1, <2>2, RecoversOnce DEF RecoveryOK
    <3>3. e.recovery => Named(e.req) /\ RecoveriesOf(Log, e.req) = {}
      BY <3>1, <3>2
    <3>4. QED
      BY <1>6, <1>7, <3>1, <3>3
  <2>3. ASSUME call = "sent", NEW outcome \in {"completed", "failed"}, EndCall(outcome)
        PROVE  Named(r) /\ Cardinality(RecoveriesOf(ledger'[LedgerOf[r.run]], r)) = 1
    <3> DEFINE e == EndReceipt(Log[Len(Log)], outcome)
    <3>1. /\ e \in Receipt /\ e.req.run = proc.run
          /\ ledger' = [ledger EXCEPT ![LedgerOf[proc.run]] = Append(@, e)]
      BY <1>1, <2>3, CallEnded
    <3>2. e.status # "started"
      <4>1. /\ proc.at \in {"pre", "turn", "post"} /\ PhaseLeft
            /\ NewestStart(Log, Pending)
        BY <1>1, <2>3 DEF RunInv, ProcOK, CallOK
      <4>2. QED
        BY <1>1, <1>2, <4>1, Setting, PendingIs, LogEnd
    <3> HIDE DEF e
    <3>3. QED
      BY <1>6, <1>7, <3>1, <3>2
  <2>4. QED
    BY <1>1, <2>1, <2>2, <2>3, LedgerMoves
<1>8. QED
  BY <1>1, <1>4, <1>5, <1>7 DEF RecoveryOK, ReceiptsOf

-----------------------------------------------------------------------------
(* The steps that only move the session. *)

\* What the types say of the run at hand.
LEMMA AtHand ==
  ASSUME BatchInv
  PROVE  /\ records \in [Runs -> Record] /\ session \in Session
         /\ files \in [FileNames -> {"none", "partial", "whole"}]
         /\ amendment \in [for : SUBSET Requests, attempted : BOOLEAN]
         /\ session.index \in 1..(Len(RunOrder) + 1)
         /\ session.index \in DOMAIN RunOrder =>
              Current \in Runs /\ records[Current] \in Record
         /\ \A step \in SessionSteps :
              Go(step) => /\ session' \in Session /\ session'.at = step
                          /\ session'.index = session.index /\ Current' = Current
                          /\ session'.outcome = session.outcome
<1>1. records \in [Runs -> Record] /\ session \in Session
  BY DEF BatchInv, BatchTypes
<1>2. session.index \in 1..(Len(RunOrder) + 1)
  BY <1>1 DEF Session
<1>3. ASSUME NEW step \in SessionSteps, Go(step)
      PROVE  /\ session' \in Session /\ session'.at = step
             /\ session'.index = session.index /\ session'.outcome = session.outcome
  BY <1>1, <1>3 DEF Go, Session
<1>4. session'.index = session.index => Current' = Current
  BY DEF Current
<1>5. QED
  BY <1>1, <1>2, <1>3, <1>4, OrderIsInjective DEF BatchInv, BatchTypes, Current

\* A closed session and a planned record are what they are.
LEMMA NoSessionType ==
  /\ Planned \in Record /\ Planned.status = "planned"
  /\ NoSession \in Session /\ NoSession.at = "closed" /\ NoSession.index = 1
BY OrderIsInjective
DEF NoSession, Planned, Session, SessionSteps, Record, Errors, Results

\* A step that leaves the runs, their records and the amendment alone.
LEMMA SessionMoves ==
  ASSUME BatchInv, UNCHANGED <<vars, records, amendment>>,
         files' \in [FileNames -> {"none", "partial", "whole"}],
         files'["amendment"] = files["amendment"],
         files'["receipt"] # files["receipt"] => AllRecorded,
         session' \in Session, SessionOK'
  PROVE  BatchInv'
<1>1. RunInv'
  BY InvStep DEF BatchInv
<1>2. UNCHANGED <<ledger, checkpoint, output, proc, call, faults>>
  BY DEF vars
<1>3. BatchTypes'
  BY DEF BatchInv, BatchTypes
<1>4. InOrder'
  BY DEF BatchInv, InOrder, DoneBefore
<1>5. RecordsOK' /\ ResultOK'
  BY <1>2 DEF BatchInv, RecordsOK, ResultOK, Measured
<1>6. ReceiptOK'
  BY DEF BatchInv, ReceiptOK, AllRecorded
<1>7. RecoveryOK'
  BY <1>2 DEF BatchInv, RecoveryOK, ReceiptsOf, Named
<1>8. QED
  BY <1>1, <1>3, <1>4, <1>5, <1>6, <1>7 DEF BatchInv

\* The start of a session, and of its loop.
LEMMA BeginStep == ASSUME BatchInv, Begin \/ InitializeRecords PROVE BatchInv'
<1>1. UNCHANGED <<vars, records, amendment>> /\ session.at \in {"closed", "initialize"}
  BY DEF Begin, InitializeRecords
<1>2. proc' = proc /\ proc.at = "idle" /\ proc.provider.allowed = {}
  BY <1>1 DEF vars, BatchInv, SessionOK
<1>3. /\ files' \in [FileNames -> {"none", "partial", "whole"}]
      /\ files'["amendment"] = files["amendment"] /\ files'["receipt"] = files["receipt"]
  BY AtHand DEF Begin, InitializeRecords, Write, FileNames
<1>4. /\ session' \in Session /\ session'.at \in {"initialize", "loop"}
      /\ session'.index = 1 \/ (session'.index = session.index /\ session.at = "initialize")
  <2>1. CASE InitializeRecords
    BY <2>1, AtHand DEF InitializeRecords, SessionSteps
  <2>2. CASE Begin
    <3>1. \/ session' = [NoSession EXCEPT !.at = "initialize"]
          \/ session' = [NoSession EXCEPT !.at = "loop", !.resume = TRUE]
      BY <2>2 DEF Begin
    <3>2. QED
      BY <3>1, NoSessionType DEF Session, SessionSteps
  <2>3. QED
    BY <2>1, <2>2
<1>5. DoneBefore(records, session.index)'
  <2>1. CASE session'.index = 1
    BY <2>1, OrderIsInjective DEF DoneBefore
  <2>2. CASE session'.index = session.index /\ session.at = "initialize"
    BY <1>1, <2>2 DEF BatchInv, SessionOK, DoneBefore
  <2>3. QED
    BY <1>4, <2>1, <2>2
<1>6. SessionOK'
  BY <1>2, <1>4, <1>5 DEF SessionOK, Taking, Finishing
<1>7. QED
  BY <1>1, <1>3, <1>4, <1>6, SessionMoves

\* The loop goes past a completed run.
LEMMA SkipCompletedStep == ASSUME BatchInv, SkipCompleted PROVE BatchInv'
<1>1. /\ session.at = "loop" /\ session.index \in DOMAIN RunOrder
      /\ records[Current].status = "completed"
      /\ session' = [session EXCEPT !.index = @ + 1]
      /\ UNCHANGED <<vars, files, records, amendment>>
  BY AtHand, OrderIsInjective DEF SkipCompleted, AllConsidered
<1>2. proc' = proc /\ proc.at = "idle" /\ proc.provider.allowed = {}
  BY <1>1 DEF vars, BatchInv, SessionOK
<1>3. /\ session' \in Session /\ session'.at = "loop"
      /\ session'.index = session.index + 1
  <2>1. session \in Session /\ session.index + 1 \in 1..(Len(RunOrder) + 1)
    BY <1>1, AtHand, OrderIsInjective
  <2>2. QED
    BY <1>1, <2>1 DEF Session
<1>4. DoneBefore(records, session.index)'
  <2>1. DoneBefore(records, session.index)
    BY <1>1 DEF BatchInv, SessionOK
  <2>2. \A i \in DOMAIN RunOrder :
          i < session.index + 1 => i < session.index \/ i = session.index
    BY <1>1, OrderIsInjective
  <2>3. QED
    BY <1>1, <1>3, <2>1, <2>2 DEF DoneBefore, Current
<1>5. SessionOK'
  BY <1>2, <1>3, <1>4 DEF SessionOK, Taking, Finishing
<1>6. QED
  BY <1>1, <1>3, <1>5, AtHand, SessionMoves

\* A run that is taken up has all before it completed, and is not completed.
LEMMA TakeUpStep == ASSUME BatchInv, TakeUp PROVE BatchInv'
<1>1. /\ session.at = "loop" /\ session.index \in DOMAIN RunOrder
      /\ records[Current].status # "completed"
      /\ session' = [session EXCEPT !.at = "mark_running", !.current = records[Current]]
      /\ UNCHANGED <<vars, files, records, amendment>>
  BY AtHand, OrderIsInjective DEF TakeUp, AllConsidered
<1>2. proc' = proc /\ proc.at = "idle" /\ proc.provider.allowed = {}
  BY <1>1 DEF vars, BatchInv, SessionOK
<1>3. /\ session' \in Session /\ session'.at = "mark_running"
      /\ session'.index = session.index /\ Current' = Current
  BY <1>1, AtHand DEF Session, SessionSteps, Current
<1>4. DoneBefore(records, session.index)'
  BY <1>1, <1>3 DEF BatchInv, SessionOK, DoneBefore
<1>5. SessionOK'
  BY <1>1, <1>2, <1>3, <1>4 DEF SessionOK, Taking, Finishing
<1>6. QED
  BY <1>1, <1>3, <1>5, AtHand, SessionMoves

\* A recovery that is refused fails the run.
LEMMA RefuseRecoveryStep == ASSUME BatchInv, RefuseRecovery PROVE BatchInv'
<1> DEFINE outcome == [status |-> "failed", result |-> "none",
                       error |-> "parser_recovery_refused"]
<1>1. /\ session.at = "authorize" /\ session.at \in Taking
      /\ session' = [session EXCEPT !.at = "mark_failed", !.outcome = outcome]
      /\ UNCHANGED <<vars, files, records, amendment>>
  BY DEF RefuseRecovery, Taking
<1>2. outcome \in Record /\ outcome.status = "failed"
  BY DEF Record, Results
<1> HIDE DEF outcome
<1>3. proc' = proc /\ proc.at = "idle" /\ proc.provider.allowed = {}
  BY <1>1 DEF vars, BatchInv, SessionOK
<1>4. /\ session' \in Session /\ session'.at = "mark_failed" /\ session'.outcome = outcome
      /\ session'.index = session.index /\ Current' = Current
  BY <1>1, <1>2, AtHand DEF Session, SessionSteps, Current
<1>5. /\ session'.index \in DOMAIN RunOrder /\ DoneBefore(records, session.index)'
      /\ records[Current]'.status # "completed"
  BY <1>1, <1>4 DEF BatchInv, SessionOK, DoneBefore
<1>6. SessionOK'
  BY <1>2, <1>3, <1>4, <1>5 DEF SessionOK, Taking, Finishing
<1>7. QED
  BY <1>1, <1>4, <1>6, AtHand, SessionMoves

\* The loop ends, the batch is judged complete or not, and what a complete
\* batch is owed is written.
LEMMA ClosingStep ==
  ASSUME BatchInv, \/ LoopEnds \/ Close \/ Validate \/ Evaluate \/ WriteReport \/ Audit
                   \/ IssueReceipt
  PROVE  BatchInv'
<1>1. /\ UNCHANGED <<vars, records, amendment>>
      /\ session.at \in Finishing \cup {"loop", "close"}
  BY DEF LoopEnds, Close, Validate, Evaluate, WriteReport, Audit, IssueReceipt, Finishing
<1>2. proc' = proc /\ proc.at = "idle" /\ proc.provider.allowed = {}
  BY <1>1 DEF vars, BatchInv, SessionOK, Finishing
<1>3. \/ files' = files
      \/ \E file \in FileNames \ {"amendment"} :
           /\ Write(file) /\ (file = "receipt" => session.at = "receipt")
  BY DEF LoopEnds, Close, Validate, Evaluate, WriteReport, Audit, IssueReceipt, FileNames
<1>4. /\ files' \in [FileNames -> {"none", "partial", "whole"}]
      /\ files'["amendment"] = files["amendment"]
      /\ files'["receipt"] # files["receipt"] => session.at = "receipt"
  BY <1>3, AtHand DEF Write, FileNames
<1>5. session.at \in Finishing => AllRecorded
  BY DEF BatchInv, SessionOK
<1>6. \/ session' = NoSession
      \/ Go("close")
      \/ /\ \/ Go("validate") \/ Go("evaluate") \/ Go("report") \/ Go("audit") \/ Go("receipt")
         /\ AllRecorded
  BY <1>5
  DEF LoopEnds, Close, Validate, Evaluate, WriteReport, Audit, IssueReceipt, End, Finishing,
    AllRecorded
<1>7. /\ session' \in Session
      /\ session'.at \in {"closed", "close"} \/ (session'.at \in Finishing /\ AllRecorded)
  BY <1>6, AtHand, NoSessionType DEF SessionSteps, Finishing
<1>8. SessionOK'
  BY <1>1, <1>2, <1>7 DEF SessionOK, Taking, Finishing, AllRecorded
<1>9. QED
  BY <1>1, <1>4, <1>5, <1>7, <1>8, SessionMoves DEF Finishing

-----------------------------------------------------------------------------
(* The steps that write the record of a run. *)

\* Writing the record of the run at hand, which was not completed, keeps the
\* order and the truth of the records.
LEMMA Recorded ==
  ASSUME BatchInv, session.at \in Taking, NEW rec \in Record, rec.status # "planned",
         rec.status = "completed" => Measured(Current),
         records' = [records EXCEPT ![Current] = rec],
         UNCHANGED <<vars, files, amendment>>,
         session' \in Session, SessionOK'
  PROVE  BatchInv'
<1>1. /\ session.index \in DOMAIN RunOrder /\ Current \in Runs
      /\ Current = RunOrder[session.index]
      /\ DoneBefore(records, session.index) /\ records[Current].status # "completed"
  BY AtHand DEF BatchInv, SessionOK, Current
<1>2. /\ records' \in [Runs -> Record] /\ records'[Current] = rec
      /\ \A run \in Runs : run # Current => records'[run] = records[run]
  BY <1>1, AtHand
<1>3. UNCHANGED <<ledger, checkpoint, output, proc, call, faults>>
  BY DEF vars
<1>4. \A j \in DOMAIN RunOrder : j # session.index =>
        records'[RunOrder[j]] = records[RunOrder[j]]
  BY <1>1, <1>2, OrderIsInjective
<1>5. RunInv'
  BY InvStep DEF BatchInv
<1>6. DOMAIN RunOrder \subseteq Nat /\ session.index \in Nat
  BY <1>1, OrderIsInjective
<1>7. ASSUME NEW j \in DOMAIN RunOrder, records'[RunOrder[j]].status # "planned",
             NEW i \in DOMAIN RunOrder, i < j
      PROVE  records'[RunOrder[i]].status = "completed"
  <2>1. CASE j = session.index
    BY <1>1, <1>4, <1>6, <1>7, <2>1 DEF DoneBefore
  <2>2. CASE j # session.index
    <3>1. DoneBefore(records, j)
      BY <1>4, <1>7, <2>2 DEF BatchInv, InOrder
    <3>2. i # session.index /\ records[RunOrder[i]].status = "completed"
      BY <1>1, <1>7, <3>1 DEF DoneBefore
    <3>3. QED
      BY <1>4, <3>2
  <2>3. QED
    BY <2>1, <2>2
<1>8. InOrder'
  BY <1>7 DEF InOrder, DoneBefore
<1>9. RecordsOK'
  <2>1. \A r \in Requests : r.run \in Runs
    BY Coordinates
  <2>2. QED
    BY <1>2, <1>3, <2>1 DEF BatchInv, RecordsOK, Measured
<1>10. ResultOK' /\ RecoveryOK'
  BY <1>3 DEF BatchInv, ResultOK, Measured, RecoveryOK, ReceiptsOf, Named
<1>11. ReceiptOK'
  <2>1. files["receipt"] = "none"
    BY <1>1 DEF BatchInv, ReceiptOK, AllRecorded
  <2>2. QED
    BY <2>1 DEF ReceiptOK
<1>12. BatchTypes'
  BY <1>2 DEF BatchInv, BatchTypes
<1>13. QED
  BY <1>5, <1>8, <1>9, <1>10, <1>11, <1>12 DEF BatchInv

\* What is recorded of the run at hand does not disturb those before it.
LEMMA StillBefore ==
  ASSUME BatchInv, session.at \in Taking, NEW rec \in Record,
         records' = [records EXCEPT ![Current] = rec]
  PROVE  /\ DoneBefore(records', session.index)
         /\ rec.status = "completed" => DoneBefore(records', session.index + 1)
<1>1. /\ session.index \in DOMAIN RunOrder /\ Current \in Runs
      /\ Current = RunOrder[session.index] /\ DoneBefore(records, session.index)
  BY AtHand DEF BatchInv, SessionOK, Current
<1>2. /\ records'[Current] = rec
      /\ \A j \in DOMAIN RunOrder : j # session.index =>
           records'[RunOrder[j]] = records[RunOrder[j]]
  BY <1>1, AtHand, OrderIsInjective
<1>3. DOMAIN RunOrder \subseteq Nat /\ session.index \in Nat
  BY <1>1, OrderIsInjective
<1>4. DoneBefore(records', session.index)
  BY <1>1, <1>2, <1>3 DEF DoneBefore
<1>5. ASSUME rec.status = "completed" PROVE DoneBefore(records', session.index + 1)
  <2>1. \A i \in DOMAIN RunOrder :
          i < session.index + 1 => i < session.index \/ i = session.index
    BY <1>3
  <2>2. QED
    BY <1>1, <1>2, <1>4, <1>5, <2>1 DEF DoneBefore
<1>6. QED
  BY <1>4, <1>5

\* A run is marked before it is launched.
LEMMA MarkRunningStep == ASSUME BatchInv, MarkRunning PROVE BatchInv'
<1> DEFINE rec == [Planned EXCEPT !.status = "running"]
<1>1. /\ rec \in Record /\ rec.status = "running"
  BY NoSessionType DEF Planned, Record
<1> HIDE DEF rec
<1>2. /\ session.at = "mark_running" /\ session.at \in Taking
      /\ records' = [records EXCEPT ![Current] = rec] /\ Go("authorize")
      /\ UNCHANGED <<vars, files, amendment>>
  BY DEF MarkRunning, Taking, rec
<1>3. /\ session' \in Session /\ session'.at = "authorize"
      /\ session'.index = session.index /\ Current' = Current
  BY <1>2, AtHand DEF SessionSteps
<1>4. /\ session.index \in DOMAIN RunOrder /\ proc' = proc
      /\ proc.at = "idle" /\ proc.provider.allowed = {} /\ records'[Current] = rec
  BY <1>2, AtHand DEF BatchInv, SessionOK, vars
<1>5. DoneBefore(records, session.index)'
  BY <1>1, <1>2, <1>3, StillBefore
<1>6. SessionOK'
  BY <1>1, <1>3, <1>4, <1>5 DEF SessionOK, Taking, Finishing
<1>7. QED
  BY <1>1, <1>2, <1>3, <1>6, Recorded

\* A failure is recorded, and ends the loop.
LEMMA MarkFailedStep == ASSUME BatchInv, MarkFailed PROVE BatchInv'
<1>1. /\ session.at = "mark_failed" /\ session.at \in Taking
      /\ records' = [records EXCEPT ![Current] = session.outcome] /\ Go("close")
      /\ UNCHANGED <<vars, files, amendment>>
  BY DEF MarkFailed, Taking
<1>2. session.outcome \in Record /\ session.outcome.status = "failed"
  BY <1>1, AtHand DEF BatchInv, SessionOK, Session
<1>3. session' \in Session /\ session'.at = "close"
  BY <1>1, AtHand DEF SessionSteps
<1>4. proc' = proc /\ proc.at = "idle" /\ proc.provider.allowed = {}
  BY <1>1 DEF BatchInv, SessionOK, vars
<1>5. SessionOK'
  BY <1>3, <1>4 DEF SessionOK, Taking, Finishing
<1>6. QED
  BY <1>1, <1>2, <1>3, <1>5, Recorded

\* A run is recorded as completed only when it is measured.
LEMMA MarkCompletedStep == ASSUME BatchInv, MarkCompleted PROVE BatchInv'
<1>1. /\ session.at = "mark_completed" /\ session.at \in Taking
      /\ records' = [records EXCEPT ![Current] = session.outcome]
      /\ session' = [session EXCEPT !.at = "loop", !.index = @ + 1, !.recovering = {}]
      /\ UNCHANGED <<vars, files, amendment>>
  BY DEF MarkCompleted, Taking
<1>2. /\ session.outcome \in Record /\ session.outcome.status = "completed"
      /\ Measured(Current) /\ session.index \in DOMAIN RunOrder
  BY <1>1, AtHand DEF BatchInv, SessionOK, Session
<1>3. /\ session' \in Session /\ session'.at = "loop"
      /\ session'.index = session.index + 1
  <2>1. session \in Session /\ session.index + 1 \in 1..(Len(RunOrder) + 1)
    BY <1>2, AtHand, OrderIsInjective
  <2>2. QED
    BY <1>1, <2>1 DEF Session, SessionSteps
<1>4. proc' = proc /\ proc.at = "idle" /\ proc.provider.allowed = {}
  BY <1>1 DEF BatchInv, SessionOK, vars
<1>5. DoneBefore(records, session.index)'
  BY <1>1, <1>2, <1>3, StillBefore
<1>6. SessionOK'
  BY <1>3, <1>4, <1>5 DEF SessionOK, Taking, Finishing
<1>7. QED
  BY <1>1, <1>2, <1>3, <1>6, Recorded

-----------------------------------------------------------------------------
(* A run is launched, works and returns. *)

\* The run at hand is launched, to recover no more than the amendment names.
LEMMA LaunchCurrentStep ==
  ASSUME BatchInv, session.at = "authorize", NEW allowed \in SUBSET Requests,
         LaunchCurrent(allowed), records' = records,
         files' \in [FileNames -> {"none", "partial", "whole"}],
         files'["receipt"] = files["receipt"],
         amendment' \in [for : SUBSET Requests, attempted : BOOLEAN],
         \A r \in Requests : Named(r) /\ RecoveriesOf(ReceiptsOf(r), r) # {} => Named(r)',
         \A r \in allowed : Named(r)'
  PROVE  BatchInv'
<1> DEFINE again == ResumeRun
           provider == [resume |-> again, allowed |-> allowed, consumed |-> FALSE]
<1>1. again \in BOOLEAN
  BY DEF ResumeRun
<1> HIDE DEF again
<1>2. provider \in Provider /\ provider.allowed = allowed
  BY <1>1 DEF Provider
<1>3. /\ Launch(Current, again, provider)
      /\ session' = [session EXCEPT !.at = "condition", !.recovering = allowed]
  BY DEF LaunchCurrent, again
<1> HIDE DEF provider
<1>4. /\ session.at \in Taking /\ session.index \in DOMAIN RunOrder /\ Current \in Runs
      /\ DoneBefore(records, session.index) /\ records[Current].status = "running"
  BY AtHand DEF BatchInv, SessionOK, Taking
<1>5. RunInv'
  BY <1>1, <1>2, <1>3, <1>4, LaunchStep DEF BatchInv
<1>6. /\ session' \in Session /\ session'.at = "condition"
      /\ session'.index = session.index /\ Current' = Current
  BY <1>3, AtHand DEF Session, SessionSteps, Current
<1>7. /\ proc'.at # "idle" /\ proc'.run = Current /\ proc'.result # "completed"
      /\ proc'.provider = provider /\ UNCHANGED <<ledger, checkpoint, output>>
  BY <1>3 DEF Launch, Idle
<1>8. BatchTypes'
  BY <1>6 DEF BatchInv, BatchTypes
<1>9. InOrder' /\ RecordsOK' /\ ReceiptOK' /\ ResultOK'
  BY <1>7
  DEF BatchInv, InOrder, DoneBefore, RecordsOK, ReceiptOK, AllRecorded, Measured, ResultOK
<1>10. SessionOK'
  BY <1>4, <1>6, <1>7 DEF SessionOK, Taking, Finishing, DoneBefore
<1>11. RecoveryOK'
  <2>1. \A r \in Requests : ReceiptsOf(r)' = ReceiptsOf(r)
    BY <1>7 DEF ReceiptsOf
  <2>2. proc'.provider.allowed = allowed
    BY <1>2, <1>7
  <2>3. ASSUME NEW r \in Requests, RecoveriesOf(ReceiptsOf(r)', r) # {}
        PROVE  Named(r)' /\ Cardinality(RecoveriesOf(ReceiptsOf(r)', r)) = 1
    BY <2>1, <2>3 DEF BatchInv, RecoveryOK
  <2>4. QED
    BY <2>2, <2>3 DEF RecoveryOK
<1>12. QED
  BY <1>5, <1>8, <1>9, <1>10, <1>11 DEF BatchInv

\* An ordinary launch recovers nothing.
LEMMA RunConditionStep == ASSUME BatchInv, RunCondition PROVE BatchInv'
<1>1. /\ session.at = "authorize" /\ LaunchCurrent({})
      /\ UNCHANGED <<files, records, amendment>>
  BY DEF RunCondition
<1>2. /\ files' \in [FileNames -> {"none", "partial", "whole"}]
      /\ amendment' \in [for : SUBSET Requests, attempted : BOOLEAN]
  BY <1>1 DEF BatchInv, BatchTypes
<1>3. \A r : Named(r)' <=> Named(r)
  BY <1>1 DEF Named
<1>4. QED
  BY <1>1, <1>2, <1>3, LaunchCurrentStep

\* The one amendment is granted for a post probe, and only while nothing of
\* the batch was recovered.
LEMMA GrantRecoveryStep == ASSUME BatchInv, GrantRecovery PROVE BatchInv'
<1>1. /\ session.at = "authorize" /\ Authorised # {} /\ Authorised \subseteq Requests
      /\ amendment' = [for |-> Authorised, attempted |-> FALSE]
      /\ Write("amendment") /\ LaunchCurrent(Authorised) /\ records' = records
  BY DEF GrantRecovery, Authorised
<1>2. PICK a \in Requests : Authorises(a)
  BY <1>1 DEF Authorised
<1>3. \A r \in Authorised : r = a /\ r.phase = "post"
  BY <1>2 DEF Authorised, Authorises, PostProbe, ProbeOf
<1>4. Authorised = {a}
  BY <1>1, <1>3
<1>5. /\ files' \in [FileNames -> {"none", "partial", "whole"}]
      /\ files'["amendment"] = "whole" /\ files'["receipt"] = files["receipt"]
  BY <1>1, AtHand DEF Write, FileNames
<1>6. \A r \in Authorised : Named(r)'
  BY <1>1, <1>3, <1>4, <1>5 DEF Named
<1>7. \A r \in Requests : ~(Named(r) /\ RecoveriesOf(ReceiptsOf(r), r) # {})
  BY <1>2 DEF Authorises, Named
<1>8. amendment' \in [for : SUBSET Requests, attempted : BOOLEAN]
  BY <1>1
<1>9. QED
  BY <1>1, <1>5, <1>6, <1>7, <1>8, LaunchCurrentStep

\* The run at hand begins requests, may recover the answer it was launched to
\* recover, and may finish its measurement.
LEMMA RunWorks ==
  ASSUME BatchInv, Work \/ Mishap, UNCHANGED batchVars PROVE BatchInv'
<1>1. proc.at \notin {"idle", "returned"} /\ proc'.at # "idle" /\ proc'.run = proc.run
  BY RunStays DEF BatchInv
<1>2. UNCHANGED <<files, records, amendment, session>>
  BY DEF batchVars
<1>3. /\ session.at = "condition" /\ proc.run = Current
      /\ records[Current].status = "running"
      /\ session.index \in DOMAIN RunOrder /\ DoneBefore(records, session.index)
  BY <1>1 DEF BatchInv, SessionOK, Taking
<1>4. RunInv'
  BY InvStep DEF Next, BatchInv
<1>5. BatchTypes'
  BY <1>2 DEF BatchInv, BatchTypes
<1>6. InOrder' /\ ReceiptOK'
  BY <1>2 DEF BatchInv, InOrder, DoneBefore, ReceiptOK, AllRecorded
<1>7. RecordsOK'
  <2>1. ASSUME NEW r \in Requests, r \in StartedRequests(ledger'[LedgerOf[r.run]])
        PROVE  records'[r.run].status # "planned"
    BY <1>2, <1>3, <2>1, StartedBy DEF BatchInv, RecordsOK
  <2>2. ASSUME NEW run \in Runs, records'[run].status = "completed"
        PROVE  Measured(run)'
    <3>1. run # proc.run /\ Measured(run)
      BY <1>2, <1>3, <2>2 DEF BatchInv, RecordsOK
    <3>2. output'[run] = output[run] /\ checkpoint'[run] = checkpoint[run]
      BY <3>1, OthersStay DEF BatchInv
    <3>3. QED
      BY <3>1, <3>2 DEF Measured
  <2>3. QED
    BY <2>1, <2>2 DEF RecordsOK
<1>8. SessionOK'
  BY <1>1, <1>2, <1>3 DEF SessionOK, Taking, Finishing, Current
<1>9. ResultOK'
  <2>1. ASSUME proc'.at = "returned", proc'.result = "completed"
        PROVE  Measured(proc.run)'
    BY <2>1, ReturnsMeasured DEF BatchInv
  <2>2. QED
    BY <1>1, <2>1 DEF ResultOK, Measured
<1>10. RecoveryOK'
  BY <1>2, RecoveryWorks
<1>11. QED
  BY <1>4, <1>5, <1>6, <1>7, <1>8, <1>9, <1>10 DEF BatchInv

\* The outcome of a run is completed only when it is measured, and settles the
\* amendment without changing what it names.
LEMMA ConcludeStep == ASSUME BatchInv, Conclude PROVE BatchInv'
<1> DEFINE outcome == Judged(proc.result, proc.error)
           next == IF outcome.status = "completed" THEN "mark_completed" ELSE "mark_failed"
           attempted == \/ amendment.attempted
                        \/ session.recovering # {} /\ proc.result # "raised"
<1>1. /\ session.at = "condition" /\ session.at \in Taking /\ Return
      /\ UNCHANGED <<files, records>>
  BY DEF Conclude, Taking
<1>2. session' = [session EXCEPT !.at = next, !.outcome = outcome]
  BY DEF Conclude, Concluded
<1>3. /\ proc.at = "returned" /\ proc' = Idle
      /\ UNCHANGED <<ledger, checkpoint, output, call, faults>>
  BY <1>1 DEF Return
<1>4. /\ outcome \in Record /\ outcome.status \in {"completed", "failed"}
      /\ outcome.status = "completed" => proc.result = "completed"
  <2>1. proc.error \in Errors /\ proc.result \in Results
    BY DEF BatchInv, RunInv, TypeOK, Process
  <2>2. QED
    BY <2>1 DEF Judged, Record, Results
<1>5. /\ amendment' \in [for : SUBSET Requests, attempted : BOOLEAN]
      /\ amendment'.for = amendment.for
  <2>1. amendment \in [for : SUBSET Requests, attempted : BOOLEAN]
    BY DEF BatchInv, BatchTypes
  <2>2. attempted \in BOOLEAN /\ amendment' = [amendment EXCEPT !.attempted = attempted]
    BY <2>1, Zenon DEF Conclude
  <2> HIDE DEF attempted
  <2>3. QED
    BY <2>1, <2>2
<1>6. next \in {"mark_completed", "mark_failed"}
  OBVIOUS
<1>7. /\ next = "mark_failed" => outcome.status = "failed"
      /\ next = "mark_completed" => outcome.status = "completed"
  BY <1>4
<1> HIDE DEF outcome, next
<1>8. /\ session' \in Session /\ session'.at = next /\ session'.outcome = outcome
      /\ session'.index = session.index /\ Current' = Current
  BY <1>2, <1>4, <1>6, AtHand DEF Session, SessionSteps, Current
<1>9. RunInv'
  BY <1>3, EndStep DEF BatchInv
<1>10. BatchTypes'
  BY <1>1, <1>5, <1>8 DEF BatchInv, BatchTypes
<1>11. InOrder' /\ RecordsOK' /\ ReceiptOK'
  BY <1>1, <1>3
  DEF BatchInv, InOrder, DoneBefore, RecordsOK, Measured, ReceiptOK, AllRecorded
<1>12. proc'.at = "idle" /\ proc'.provider.allowed = {}
  BY <1>3, IdleType
<1>13. SessionOK'
  <2>1. /\ session.index \in DOMAIN RunOrder /\ DoneBefore(records, session.index)
        /\ records[Current].status # "completed" /\ proc.run = Current
    BY <1>1 DEF BatchInv, SessionOK
  <2>2. next = "mark_completed" => Measured(Current)
    BY <1>3, <1>4, <1>7, <2>1 DEF BatchInv, ResultOK
  <2>3. next = "mark_completed" => Measured(Current)'
    BY <1>3, <1>8, <2>2 DEF Measured
  <2>4. DoneBefore(records, session.index)' /\ records[Current]'.status # "completed"
    BY <1>1, <1>8, <2>1 DEF DoneBefore
  <2>5. QED
    BY <1>6, <1>7, <1>8, <1>12, <2>1, <2>3, <2>4 DEF SessionOK, Taking, Finishing
<1>14. ResultOK'
  BY <1>12 DEF ResultOK
<1>15. RecoveryOK'
  BY <1>1, <1>3, <1>5, <1>12 DEF BatchInv, RecoveryOK, ReceiptsOf, Named
<1>16. QED
  BY <1>9, <1>10, <1>11, <1>13, <1>14, <1>15 DEF BatchInv

-----------------------------------------------------------------------------
(* Crashes. *)

\* A crash leaves the runs and the files to the next session.
LEMMA BatchCrashStep == ASSUME BatchInv, BatchCrash PROVE BatchInv'
<1>1. /\ proc' = Idle /\ call' = "none" /\ Fault("crash") /\ session' = NoSession
      /\ UNCHANGED <<ledger, checkpoint, output, files, records, amendment>>
  BY DEF BatchCrash
<1>2. RunInv'
  BY <1>1, EndStep DEF BatchInv
<1>3. BatchTypes'
  BY <1>1, NoSessionType DEF BatchInv, BatchTypes
<1>4. InOrder' /\ RecordsOK' /\ ReceiptOK'
  BY <1>1
  DEF BatchInv, InOrder, DoneBefore, RecordsOK, Measured, ReceiptOK, AllRecorded
<1>5. proc'.at = "idle" /\ proc'.provider.allowed = {}
  BY <1>1, IdleType
<1>6. SessionOK' /\ ResultOK'
  BY <1>1, <1>5, NoSessionType DEF SessionOK, ResultOK, Taking, Finishing
<1>7. RecoveryOK'
  BY <1>1, <1>5 DEF BatchInv, RecoveryOK, ReceiptsOf, Named
<1>8. QED
  BY <1>2, <1>3, <1>4, <1>6, <1>7 DEF BatchInv

\* A write that is broken off spoils one file: the amendment only before
\* anything is recovered, the receipt only of a complete batch.
LEMMA TearWriteStep == ASSUME BatchInv, TearWrite PROVE BatchInv'
<1>1. /\ Fault("crash") /\ session' = NoSession
      /\ UNCHANGED <<ledger, checkpoint, output, proc, call, records, amendment>>
  BY DEF TearWrite
<1>2. PICK file \in WritesTo :
        /\ file = "record" \/ files[file] = "none"
        /\ files' = [files EXCEPT ![file] = "partial"]
  BY DEF TearWrite
<1>3. /\ file \in FileNames /\ session.at # "condition"
      /\ file = "receipt" => session.at = "receipt"
  BY <1>2 DEF WritesTo, FileNames
<1>4. proc.at = "idle" /\ proc.provider.allowed = {}
  BY <1>3 DEF BatchInv, SessionOK
<1>5. RunInv'
  <2>1. /\ proc' \in Process /\ proc'.at = "idle"
        /\ call' = "none" /\ faults' \in 0..MaxFaults
    BY <1>1, <1>4, NoCall, FaultCounted DEF BatchInv, RunInv, TypeOK, ProcOK
  <2>2. QED
    BY <1>1, <2>1, NewProcess DEF BatchInv
<1>6. /\ files' \in [FileNames -> {"none", "partial", "whole"}]
      /\ \A other \in FileNames : other # file => files'[other] = files[other]
  BY <1>2, <1>3, AtHand
<1>7. BatchTypes'
  BY <1>1, <1>6, NoSessionType DEF BatchInv, BatchTypes
<1>8. InOrder' /\ RecordsOK'
  BY <1>1 DEF BatchInv, InOrder, DoneBefore, RecordsOK, Measured
<1>9. ReceiptOK'
  <2>1. file = "receipt" => AllRecorded
    BY <1>3 DEF BatchInv, SessionOK, Finishing
  <2>2. "receipt" \in FileNames
    BY DEF FileNames
  <2>3. QED
    BY <1>1, <1>6, <2>1, <2>2 DEF BatchInv, ReceiptOK, AllRecorded
<1>10. SessionOK' /\ ResultOK'
  BY <1>1, <1>4, NoSessionType DEF SessionOK, ResultOK, Taking, Finishing
<1>11. RecoveryOK'
  <2>1. "amendment" \in FileNames
    BY DEF FileNames
  <2>2. \A r : Named(r) => Named(r)'
    BY <1>1, <1>2, <1>6, <2>1 DEF Named
  <2>3. QED
    BY <1>1, <1>4, <2>2 DEF BatchInv, RecoveryOK, ReceiptsOf
<1>12. QED
  BY <1>5, <1>7, <1>8, <1>9, <1>10, <1>11 DEF BatchInv

-----------------------------------------------------------------------------
(* The invariant, and what follows from it. *)

\* Nothing was recorded yet.
LEMMA BatchInvInit == BatchInit => BatchInv
<1> SUFFICES ASSUME BatchInit PROVE BatchInv
  OBVIOUS
<1>1. /\ Init /\ proc = Idle /\ session = NoSession
      /\ files = [f \in FileNames |-> "none"]
      /\ records = [run \in Runs |-> Planned]
      /\ amendment = [for |-> {}, attempted |-> FALSE]
  BY DEF BatchInit, Init
<1>2. RunInv
  BY <1>1, InvInit
<1>3. BatchTypes
  <2>1. amendment \in [for : SUBSET Requests, attempted : BOOLEAN]
    BY <1>1
  <2>2. QED
    BY <1>1, <2>1, NoSessionType DEF BatchTypes
<1>4. InOrder
  BY <1>1, NoSessionType, OrderIsInjective DEF InOrder
<1>5. \A r \in Requests : ReceiptsOf(r) = <<>>
  BY <1>1, Coordinates DEF Init, Files, ReceiptsOf
<1>6. RecordsOK
  <2>1. ASSUME NEW r \in Requests PROVE StartedRequests(ledger[LedgerOf[r.run]]) = {}
    BY <1>5, <2>1 DEF ReceiptsOf, StartedRequests, StartsOf
  <2>2. QED
    BY <1>1, <2>1, NoSessionType DEF RecordsOK
<1>7. RecoveryOK
  <2>1. \A r \in Requests : RecoveriesOf(ReceiptsOf(r), r) = {}
    BY <1>5 DEF RecoveriesOf, StartsOf
  <2>2. QED
    BY <1>1, <2>1, IdleType DEF RecoveryOK
<1>8. SessionOK /\ ResultOK /\ ReceiptOK
  BY <1>1, NoSessionType, IdleType
  DEF SessionOK, ResultOK, ReceiptOK, Taking, Finishing, FileNames
<1>9. QED
  BY <1>2, <1>3, <1>4, <1>6, <1>7, <1>8 DEF BatchInv

\* Every step of the batch keeps the invariant.
LEMMA BatchInvStep == BatchInv /\ [BatchNext]_allVars => BatchInv'
<1> SUFFICES ASSUME BatchInv, [BatchNext]_allVars PROVE BatchInv'
  OBVIOUS
<1>1. CASE Begin \/ BatchCrash \/ TearWrite
  BY <1>1, BeginStep, BatchCrashStep, TearWriteStep
<1>2. CASE SessionStep
  BY <1>2, BeginStep, SkipCompletedStep, TakeUpStep, MarkRunningStep, RunConditionStep,
    GrantRecoveryStep, RefuseRecoveryStep, ConcludeStep, MarkFailedStep, MarkCompletedStep,
    ClosingStep
  DEF SessionStep
<1>3. CASE RunStep \/ (Mishap /\ UNCHANGED batchVars)
  BY <1>3, RunWorks DEF RunStep
<1>4. CASE UNCHANGED allVars
  <2>1. UNCHANGED <<vars, files, records, amendment, session>>
    BY <1>4 DEF allVars, batchVars
  <2>2. SessionOK'
    BY <2>1
    DEF vars, BatchInv, SessionOK, DoneBefore, AllRecorded, Measured, Current
  <2>3. QED
    BY <2>1, <2>2, AtHand, SessionMoves
<1>5. QED
  BY <1>1, <1>2, <1>3, <1>4 DEF BatchNext

\* Through failures, crashes, recoveries and resumed sessions the batch record
\* stays in order and true.
THEOREM BatchInvariant == BatchSpec => []BatchInv
BY BatchInvInit, BatchInvStep, PTL DEF BatchSpec

\* The runs of the batch keep what a measured run keeps, although the batch may
\* send a completed probe once more.
THEOREM BatchRunsStayWhole ==
  BatchSpec => [](FrontierHolds /\ TurnsNeverReplayed /\ AnswersKept /\ CompletedIsWhole)
<1>1. BatchInv => FrontierHolds /\ TurnsNeverReplayed /\ AnswersKept /\ CompletedIsWhole
  BY FrontierFollows, OneTrajectory, AnswersFollow, WholeFollows DEF BatchInv
<1>2. QED
  BY <1>1, BatchInvariant, PTL

\* Nothing of a run is sent before every earlier run is recorded as completed.
THEOREM SerialAlways == BatchSpec => []SerialOrder
<1>1. BatchInv => SerialOrder
  <2> SUFFICES ASSUME BatchInv, NEW r \in Requests, Started(r),
                      NEW i \in DOMAIN RunOrder, NEW j \in DOMAIN RunOrder,
                      RunOrder[j] = r.run, i < j
               PROVE  records[RunOrder[i]].status = "completed"
    BY DEF SerialOrder
  <2>1. records[RunOrder[j]].status # "planned"
    BY Views DEF BatchInv, RecordsOK
  <2>2. QED
    BY <2>1 DEF BatchInv, InOrder, DoneBefore
<1>2. QED
  BY <1>1, BatchInvariant, PTL

\* What the batch record calls completed is measured and its checkpoints are
\* cleared.
THEOREM RecordsAlwaysTruthful == BatchSpec => []RecordsTruthful
<1>1. BatchInv => RecordsTruthful
  BY DEF BatchInv, RecordsOK, Measured, RecordsTruthful
<1>2. QED
  BY <1>1, BatchInvariant, PTL

\* A receipt, even one that was broken off, is there only for a batch in which
\* every run is recorded as completed and every request has its answer.
THEOREM ReceiptAlwaysComplete == BatchSpec => []ReceiptMeansComplete
<1>1. BatchInv => ReceiptMeansComplete
  <2> SUFFICES ASSUME BatchInv, files["receipt"] # "none"
               PROVE  /\ \A run \in Runs : records[run].status = "completed"
                      /\ \A r \in Requests : Completed(r)
    BY DEF ReceiptMeansComplete
  <2>1. \A run \in Runs : /\ records[run].status = "completed"
                          /\ output[run].measurement = "completed"
    BY DEF BatchInv, ReceiptOK, AllRecorded, RecordsOK, Measured
  <2>2. CompletedIsWhole
    BY WholeFollows DEF BatchInv
  <2>3. \A r \in Requests : Completed(r)
    BY <2>1, <2>2, Coordinates DEF CompletedIsWhole
  <2>4. QED
    BY <2>1, <2>3
<1>2. QED
  BY <1>1, BatchInvariant, PTL

\* Whatever the crashes and however often the batch is resumed, one request at
\* most is ever recovered, once, and the amendment on disk names it.
THEOREM RecoveryAlwaysConfined == BatchSpec => []RecoveryConfined
<1>1. BatchInv => RecoveryConfined
  BY DEF BatchInv, RecoveryOK, Named, RecoveryConfined
<1>2. QED
  BY <1>1, BatchInvariant, PTL

\* Whatever its sessions do, the batch takes every run through the measurement
\* protocol: a recovery shows the protocol no second answer.
THEOREM BatchKeepsProtocol == BatchSpec => ImplementsProtocol
<1>1. BatchInit => Protocol!Init
  BY ProtocolInit DEF BatchInit
<1>2. BatchInv /\ [BatchNext]_allVars => [Protocol!Next]_Protocol!vars
  <2> SUFFICES ASSUME BatchInv, [BatchNext]_allVars
               PROVE  [Protocol!Next]_Protocol!vars
    OBVIOUS
  <2>1. CASE RunStep \/ (Mishap /\ UNCHANGED batchVars)
    <3>1. [Next]_vars
      BY <2>1 DEF RunStep, Next
    <3>2. QED
      BY <3>1, ProtocolStep DEF BatchInv
  <2>2. CASE UNCHANGED <<ledger, checkpoint, output>>
    BY <2>2, NothingSeen
  <2>3. UNCHANGED <<ledger, checkpoint, output>> \/ RunStep \/ (Mishap /\ UNCHANGED batchVars)
    <3>1. UNCHANGED vars => UNCHANGED <<ledger, checkpoint, output>>
      BY DEF vars
    <3>2. SessionStep => UNCHANGED <<ledger, checkpoint, output>>
      BY <3>1 DEF SessionStep, InitializeRecords, SkipCompleted, TakeUp, LoopEnds,
        MarkRunning, RunCondition, GrantRecovery, LaunchCurrent, Launch, RefuseRecovery,
        Conclude, Return, MarkFailed, MarkCompleted, Close, Validate, Evaluate,
        WriteReport, Audit, IssueReceipt
    <3>3. Begin \/ BatchCrash \/ TearWrite \/ UNCHANGED allVars
            => UNCHANGED <<ledger, checkpoint, output>>
      BY <3>1 DEF Begin, BatchCrash, TearWrite, allVars
    <3>4. QED
      BY <3>2, <3>3 DEF BatchNext
  <2>4. QED
    BY <2>1, <2>2, <2>3
<1>3. QED
  BY <1>1, <1>2, BatchInvariant, PTL DEF BatchSpec, ImplementsProtocol, Protocol!Spec

-----------------------------------------------------------------------------
(* What the batch is refused. *)

\* A request that was started once and completed is one to recover.
LEMMA OneStartRecovered ==
  ASSUME NEW log \in Seq(Receipt), EndsDirect(log), NEW r \in FinishedRequests(log),
         Cardinality(StartsOf(log, r)) = 1
  PROVE  IsRecovery(log, r)
<1> DEFINE T == TerminalsOf(log, r)
           latest(i) == \A j \in T : log[j].attempt <= log[i].attempt
           c == CHOOSE i \in T : latest(i)
<1>1. PICK s : StartsOf(log, r) = {s}
  BY IndexSetsFinite, FS_Singleton
<1>2. ASSUME NEW j \in T PROVE j = s + 1 /\ log[j].attempt \in Nat
  <2>1. j \in DOMAIN log /\ log[j].req = r /\ log[j].status # "started" /\ j \in 1..Len(log)
    BY <1>2 DEF TerminalsOf
  <2>2. j > 1 /\ log[j - 1].status = "started" /\ log[j - 1].req = r
    BY <2>1 DEF EndsDirect
  <2>3. j - 1 \in StartsOf(log, r)
    BY <2>1, <2>2 DEF StartsOf
  <2>4. j - 1 = s
    BY <1>1, <2>3
  <2>5. log[j] \in Receipt
    BY <2>1, ElementOfSeq
  <2>6. QED
    BY <2>1, <2>4, <2>5 DEF Receipt
<1>3. PICK i \in T : log[i].status = "completed"
  BY DEF FinishedRequests
<1>4. \A j \in T : j = i
  BY <1>2, <1>3
<1>5. latest(i)
  BY <1>2, <1>3, <1>4
<1>6. LatestStatus(log, r) = log[c].status
  BY <1>3 DEF LatestStatus
<1>7. c = i
  <2> HIDE DEF T, latest
  <2>1. QED
    BY <1>3, <1>4, <1>5
<1>8. QED
  BY <1>3, <1>6, <1>7 DEF IsRecovery

\* The one answer a launch of the batch may recover is the one the run asks for
\* first.
LEMMA BatchLaunchAsks ==
  ASSUME BatchInv, AskInv, RunCondition \/ GrantRecovery PROVE AskInv'
<1> DEFINE again == ResumeRun
           log == ledger[LedgerOf[Current]]
<1>1. session.at = "authorize" /\ Current \in Runs
  <2>1. session.at = "authorize"
    BY DEF RunCondition, GrantRecovery
  <2>2. QED
    BY <2>1, AtHand DEF BatchInv, SessionOK, Taking
<1>2. again \in BOOLEAN
  BY DEF ResumeRun
<1>3. ASSUME NEW allowed \in SUBSET Requests, LaunchCurrent(allowed),
             allowed # {} =>
               /\ again
               /\ \E a \in Requests :
                    /\ allowed = {a} /\ Completed(a)
                    /\ a = ProbeOf(Current, "post", Min(Probes \ checkpoint[Current]["post"].saved))
                    /\ IsRecovery(log, a) /\ RecoveriesOf(log, a) = {}
      PROVE  AskInv'
  <2> DEFINE provider == [resume |-> again, allowed |-> allowed, consumed |-> FALSE]
  <2>1. Launch(Current, again, provider)
    BY <1>3 DEF LaunchCurrent
  <2> HIDE DEF again
  <2>2. /\ provider \in Provider /\ provider.resume = again
        /\ ~provider.consumed /\ provider.allowed = allowed
    BY <1>2 DEF Provider
  <2> HIDE DEF provider
  <2>3. QED
    BY <1>1, <1>2, <1>3, <2>1, <2>2, AskLaunch DEF BatchInv
<1>4. CASE RunCondition
  BY <1>3, <1>4 DEF RunCondition
<1>5. CASE GrantRecovery
  <2>1. Authorised # {} /\ Authorised \subseteq Requests /\ LaunchCurrent(Authorised)
    BY <1>5 DEF GrantRecovery, Authorised
  <2>2. PICK a \in Requests : NeedsRecovery /\ Authorises(a)
    BY <2>1 DEF Authorised
  <2>3. again
    BY <2>2 DEF NeedsRecovery
  <2>4. /\ Completed(a) /\ Cardinality(StartsOf(ReceiptsOf(a), a)) = 1
        /\ RecoveriesOf(ReceiptsOf(a), a) = {}
        /\ a = ProbeOf(Current, "post", Min(Probes \ checkpoint[Current]["post"].saved))
    BY <2>2 DEF Authorises, PostProbe, Missing, Saved
  <2>5. Authorised = {a}
    BY <2>2 DEF Authorised, Authorises
  <2>6. a.run = Current /\ ReceiptsOf(a) = log
    BY <2>4 DEF ProbeOf, ReceiptsOf
  <2>7. log \in Seq(Receipt) /\ EndsDirect(log) /\ a \in FinishedRequests(log)
    <3>1. LedgerOf[Current] \in Files
      BY <1>1 DEF Files
    <3>2. QED
      BY <2>4, <2>6, <3>1, Views DEF BatchInv, RunInv, TypeOK, AskInv, FilesKept
  <2> HIDE DEF log, again
  <2>8. IsRecovery(log, a)
    BY <2>4, <2>6, <2>7, OneStartRecovered
  <2>9. QED
    BY <1>3, <2>1, <2>3, <2>4, <2>5, <2>6, <2>8
<1>6. QED
  BY <1>4, <1>5

\* Nothing a session does brings a run to a request it may not make.
LEMMA BatchAskStep == ASSUME BatchInv, AskInv, [BatchNext]_allVars PROVE AskInv'
<1>1. CASE RunStep \/ (Mishap /\ UNCHANGED batchVars)
  BY <1>1, AskWorks DEF RunStep, BatchInv
<1>2. CASE RunCondition \/ GrantRecovery
  BY <1>2, BatchLaunchAsks
<1>3. CASE BatchCrash \/ Conclude
  BY <1>3, AskEnds DEF BatchCrash, Conclude, Return, BatchInv
<1>4. CASE TearWrite
  BY <1>4, AskEnds DEF TearWrite, BatchInv
<1>5. CASE UNCHANGED vars
  BY <1>5, AskEnds DEF vars, BatchInv
<1>6. \/ RunStep \/ (Mishap /\ UNCHANGED batchVars)
      \/ RunCondition \/ GrantRecovery \/ BatchCrash \/ Conclude \/ TearWrite
      \/ UNCHANGED vars
  <2>1. SessionStep => RunCondition \/ GrantRecovery \/ Conclude \/ UNCHANGED vars
    BY DEF SessionStep, InitializeRecords, SkipCompleted, TakeUp, LoopEnds, MarkRunning,
      RefuseRecovery, MarkFailed, MarkCompleted, Close, Validate, Evaluate, WriteReport,
      Audit, IssueReceipt
  <2>2. Begin \/ UNCHANGED allVars => UNCHANGED vars
    BY DEF Begin, allVars
  <2>3. QED
    BY <2>1, <2>2 DEF BatchNext
<1>7. QED
  BY <1>1, <1>2, <1>3, <1>4, <1>5, <1>6

\* With caps of exactly the requests of a run, no session is ever refused a
\* request, be it in a resumed run or a recovery, but for an answer that is
\* there already: retries and the recovery are not charged again, no ordinary
\* resume forgets its flag, and the request a recovery is granted for is the
\* first the launch comes to.
THEOREM BatchRefusedOnlyAsReplay ==
  ASSUME CapsCoverRuns PROVE BatchSpec => []RefusedOnlyAsReplay
<1>1. BatchInit => AskInv
  BY AskInit DEF BatchInit
<1>2. BatchInv /\ AskInv /\ [BatchNext]_allVars => AskInv'
  BY BatchAskStep
<1>3. BatchInv /\ AskInv => RefusedOnlyAsReplay
  BY OnlyReplaysRefused, BatchAssumption DEF BatchInv
<1>4. QED
  BY <1>1, <1>2, <1>3, BatchInvariant, PTL DEF BatchSpec
=============================================================================
