------------------------ MODULE RealPilotBatch_proofs ------------------------
(***************************************************************************)
(* Proofs about the pilot batch, for any group of runs over any ledger     *)
(* files.  Whatever its sessions do, the runs of the batch are measured    *)
(* runs: RunInv holds of them (its launches differ from those of an        *)
(* operator, its crashes from those of a run).  On top of it, PilotInv     *)
(* follows the batch record through sessions that fail and are resumed.    *)
(***************************************************************************)
EXTENDS RealPilotBatch, MeasuredRun_proofs

-----------------------------------------------------------------------------
(* The invariant. *)

Record == [status : {"planned", "running", "completed", "failed"},
           error : Errors \cup {"existing_failed_run_directory"}]

SessionSteps == {"closed", "initialize", "loop", "mark_running", "launch", "condition",
                 "mark", "close", "evaluate", "report", "summarize"}

Session == [at : SessionSteps, resume : BOOLEAN, groupFailed : BOOLEAN,
            index : 1..(Len(RunOrder) + 1), resumeRun : BOOLEAN, outcome : Record]

PilotTypes ==
  /\ recordFile \in {"none", "partial", "whole"}
  /\ records \in [Runs -> Record]
  /\ evaluation \in {"none", "manifest", "partial", "whole"}
  /\ summary \in {"none", "failed", "completed"}
  /\ session \in Session

(* The runs before a place in the order are recorded as completed. *)
DoneBefore(recs, n) ==
  \A i \in DOMAIN RunOrder : i < n => recs[RunOrder[i]].status = "completed"

(* No run is taken up before those before it are completed. *)
InOrder ==
  \A j \in DOMAIN RunOrder : records[RunOrder[j]].status # "planned" => DoneBefore(records, j)

(* The record knows of every run that was begun, and of no measurement that  *)
(* is not there.                                                             *)
RecordsOK ==
  /\ \A r \in Requests :
       r \in StartedRequests(ledger[LedgerOf[r.run]]) => records[r.run].status # "planned"
  /\ \A run \in Runs :
       records[run].status = "completed" => output[run].measurement = "completed"

Taking == {"mark_running", "launch", "condition", "mark"}

(* What the session relies on at each of its steps. *)
SessionOK ==
  /\ session.at \in {"initialize", "loop"} /\ ~session.groupFailed =>
       DoneBefore(records, session.index)
  /\ session.at \in Taking =>
       /\ session.index \in DOMAIN RunOrder /\ DoneBefore(records, session.index)
       /\ records[Current].status # "completed"
  /\ session.at \in {"launch", "condition"} => records[Current].status = "running"
  /\ IF session.at = "condition" THEN proc.at # "idle" /\ proc.run = Current
                                 ELSE proc.at = "idle"
  /\ session.at = "mark" =>
       /\ session.outcome.status \in {"completed", "failed"}
       /\ session.outcome.status = "completed" => output[Current].measurement = "completed"
  /\ session.at \in {"evaluate", "report"} => AllCompleted
  /\ session.at = "report" => evaluation = "manifest"
  /\ session.at = "summarize" /\ AllCompleted => evaluation = "whole"

(* A run returns as completed only after it recorded its measurement. *)
ResultOK ==
  proc.at = "returned" /\ proc.result = "completed" =>
    output[proc.run].measurement = "completed"

SummaryOK == summary = "completed" => AllCompleted /\ evaluation = "whole"

PilotInv ==
  /\ RunInv /\ PilotTypes /\ InOrder /\ RecordsOK /\ SessionOK /\ ResultOK /\ SummaryOK

-----------------------------------------------------------------------------
(* The steps that only move the session. *)

\* The order takes up every run once.
LEMMA OrderIsInjective ==
  /\ DOMAIN RunOrder = 1..Len(RunOrder) /\ Len(RunOrder) \in Nat
  /\ \A i \in DOMAIN RunOrder : RunOrder[i] \in Runs
  /\ \A i, j \in DOMAIN RunOrder : RunOrder[i] = RunOrder[j] => i = j
BY PilotAssumption, OrderOnce

\* What the types say of the run at hand.
LEMMA AtHand ==
  ASSUME PilotInv
  PROVE  /\ records \in [Runs -> Record] /\ session \in Session
         /\ session.index \in 1..(Len(RunOrder) + 1)
         /\ session.index \in DOMAIN RunOrder =>
              Current \in Runs /\ records[Current] \in Record
<1>1. records \in [Runs -> Record] /\ session \in Session
  BY DEF PilotInv, PilotTypes
<1>2. session.index \in 1..(Len(RunOrder) + 1)
  BY <1>1 DEF Session
<1>3. QED
  BY <1>1, <1>2, OrderIsInjective DEF Current

\* A step that leaves the runs and their records alone.
LEMMA FilesSame ==
  ASSUME PilotInv, UNCHANGED <<vars, records>>,
         SummaryOK' \/ UNCHANGED <<evaluation, summary>>
  PROVE  RunInv' /\ InOrder' /\ RecordsOK' /\ ResultOK' /\ SummaryOK'
<1>1. RunInv'
  BY InvStep DEF PilotInv
<1>2. UNCHANGED <<ledger, checkpoint, output, proc, call, faults>>
  BY DEF vars
<1>3. InOrder'
  BY DEF PilotInv, InOrder, DoneBefore
<1>4. RecordsOK'
  BY <1>2 DEF PilotInv, RecordsOK
<1>5. ResultOK'
  BY <1>2 DEF PilotInv, ResultOK
<1>6. SummaryOK'
  BY DEF PilotInv, SummaryOK, AllCompleted
<1>7. QED
  BY <1>1, <1>3, <1>4, <1>5, <1>6

\* The start of a session, and of its loop.
LEMMA BeginStep == ASSUME PilotInv, Begin \/ InitializeRecords PROVE PilotInv'
<1>1. UNCHANGED <<vars, records, evaluation, summary>>
  BY DEF Begin, InitializeRecords
<1>2. proc' = proc /\ proc.at = "idle"
  BY <1>1 DEF vars, PilotInv, SessionOK, Begin, InitializeRecords
<1>3. 1 \in 1..(Len(RunOrder) + 1) /\ Planned \in Record
  BY OrderIsInjective DEF Planned, Record, Errors
<1>4. /\ session' \in Session /\ session'.at \in {"initialize", "loop"}
      /\ \/ session'.index = 1
         \/ /\ session'.index = session.index /\ session.at = "initialize"
            /\ session'.groupFailed = session.groupFailed
  <2>1. CASE InitializeRecords
    BY <2>1, AtHand DEF InitializeRecords, Go, Session, SessionSteps
  <2>2. CASE Begin /\ recordFile = "none"
    BY <1>3, <2>2 DEF Begin, NoSession, Session, SessionSteps
  <2>3. CASE Begin /\ recordFile # "none"
    <3>1. AnyFailed(records) \in BOOLEAN
      BY DEF AnyFailed
    <3>2. session' = [NoSession EXCEPT !.at = "loop", !.resume = TRUE,
                                       !.groupFailed = AnyFailed(records)]
      BY <2>3 DEF Begin
    <3>3. QED
      BY <1>3, <3>1, <3>2 DEF NoSession, Session, SessionSteps
  <2>4. QED
    BY <2>1, <2>2, <2>3
<1>5. recordFile' \in {"none", "partial", "whole"}
  BY DEF Begin, InitializeRecords, PilotInv, PilotTypes
<1>6. PilotTypes'
  BY <1>1, <1>4, <1>5 DEF PilotInv, PilotTypes
<1>7. ~session'.groupFailed => DoneBefore(records, session.index)'
  <2>1. CASE session'.index = 1
    BY <2>1, OrderIsInjective DEF DoneBefore
  <2>2. CASE session'.index = session.index /\ session'.groupFailed = session.groupFailed
             /\ session.at = "initialize"
    BY <1>1, <2>2 DEF PilotInv, SessionOK, DoneBefore
  <2>3. QED
    BY <1>4, <2>1, <2>2
<1>8. SessionOK'
  BY <1>2, <1>4, <1>7 DEF SessionOK, Taking
<1>9. QED
  BY <1>1, <1>6, <1>8, FilesSame DEF PilotInv

\* The loop goes past a run, and beyond an uncompleted one only as failed.
LEMMA PassOverStep == ASSUME PilotInv, PassOver PROVE PilotInv'
<1>1. /\ session.at = "loop" /\ session.index \in DOMAIN RunOrder /\ PassedOver
      /\ session' = [session EXCEPT !.index = @ + 1,
                                    !.groupFailed = @ \/ Status = "failed"]
      /\ UNCHANGED <<vars, recordFile, records, evaluation, summary>>
  BY AtHand, OrderIsInjective DEF PassOver, InLoop
<1>2. proc' = proc /\ proc.at = "idle"
  BY <1>1 DEF vars, PilotInv, SessionOK
<1>3. /\ session' \in Session /\ session'.at = "loop"
      /\ session'.index = session.index + 1
      /\ ~session'.groupFailed => ~session.groupFailed /\ Status # "failed"
  <2>1. session \in Session /\ session.index + 1 \in 1..(Len(RunOrder) + 1)
    BY <1>1, AtHand, OrderIsInjective
  <2>2. session.groupFailed \in BOOLEAN /\ (Status = "failed") \in BOOLEAN
    BY <2>1 DEF Session
  <2> DEFINE failed == session.groupFailed \/ Status = "failed"
  <2>3. failed \in BOOLEAN /\ session' = [session EXCEPT !.index = session.index + 1,
                                                        !.groupFailed = failed]
    BY <1>1, <2>1, <2>2 DEF Session
  <2>4. ~failed => ~session.groupFailed /\ Status # "failed"
    OBVIOUS
  <2> HIDE DEF failed
  <2>5. QED
    BY <1>1, <2>1, <2>3, <2>4 DEF Session
<1>4. PilotTypes'
  BY <1>1, <1>3 DEF PilotInv, PilotTypes
<1>5. ASSUME ~session'.groupFailed PROVE DoneBefore(records, session.index)'
  <2>1. DoneBefore(records, session.index) /\ Status = "completed"
    BY <1>1, <1>3, <1>5 DEF PassedOver, PilotInv, SessionOK
  <2>2. \A i \in DOMAIN RunOrder :
          i < session.index + 1 => i < session.index \/ i = session.index
    BY <1>1, OrderIsInjective
  <2>3. QED
    BY <1>1, <1>3, <2>1, <2>2 DEF DoneBefore, Status, Current
<1>6. SessionOK'
  BY <1>2, <1>3, <1>5 DEF SessionOK, Taking
<1>7. QED
  BY <1>1, <1>4, <1>6, FilesSame DEF PilotInv

\* A run that is taken up has all before it completed.
LEMMA TakeUpStep == ASSUME PilotInv, TakeUp \/ RefuseDirectory PROVE PilotInv'
<1>1. /\ session.at = "loop" /\ session.index \in DOMAIN RunOrder /\ ~PassedOver
      /\ UNCHANGED <<vars, recordFile, records, evaluation, summary>>
  BY AtHand, OrderIsInjective DEF TakeUp, RefuseDirectory, InLoop
<1>2. proc' = proc /\ proc.at = "idle"
  BY <1>1 DEF vars, PilotInv, SessionOK
<1>3. /\ session' \in Session /\ session'.index = session.index
      /\ \/ session'.at = "mark_running"
         \/ session'.at = "mark" /\ session'.outcome.status = "failed"
  <2>1. CASE RefuseDirectory
    BY <2>1, AtHand DEF RefuseDirectory, Session, SessionSteps, Record
  <2>2. CASE TakeUp
    <3> DEFINE again == session.resume /\ Status = "failed"
    <3>1. again \in BOOLEAN
      BY AtHand DEF Session
    <3>2. session' = [session EXCEPT !.at = "mark_running", !.resumeRun = again]
      BY <2>2 DEF TakeUp
    <3> HIDE DEF again
    <3>3. QED
      BY <3>1, <3>2, AtHand DEF Session, SessionSteps
  <2>3. QED
    BY <2>1, <2>2
<1>4. PilotTypes'
  BY <1>1, <1>3 DEF PilotInv, PilotTypes
<1>5. DoneBefore(records, session.index) /\ records[Current].status # "completed"
  <2>1. Status # "completed" /\ (session.groupFailed => Status = "failed")
    BY <1>1 DEF PassedOver
  <2>2. session.groupFailed => DoneBefore(records, session.index)
    BY <1>1, <2>1 DEF PilotInv, InOrder, Status, Current
  <2>3. ~session.groupFailed => DoneBefore(records, session.index)
    BY <1>1 DEF PilotInv, SessionOK
  <2>4. QED
    BY <2>1, <2>2, <2>3 DEF Status
<1>6. DoneBefore(records, session.index)' /\ Current' = Current
  BY <1>1, <1>3, <1>5 DEF DoneBefore, Current
<1>7. SessionOK'
  BY <1>1, <1>2, <1>3, <1>5, <1>6 DEF SessionOK, Taking, DoneBefore, Current
<1>8. QED
  BY <1>1, <1>4, <1>7, FilesSame DEF PilotInv

-----------------------------------------------------------------------------
(* The steps that write the record of a run. *)

\* Writing the record of the run at hand, which was not completed, keeps the
\* order and the truth of the records.
LEMMA Recorded ==
  ASSUME PilotInv, session.at \in Taking, NEW rec \in Record, rec.status # "planned",
         rec.status = "completed" => output[Current].measurement = "completed",
         records' = [records EXCEPT ![Current] = rec],
         UNCHANGED <<vars, summary>>
  PROVE  /\ RunInv' /\ records' \in [Runs -> Record] /\ InOrder' /\ RecordsOK'
         /\ ResultOK' /\ SummaryOK'
         /\ DoneBefore(records', session.index)
         /\ rec.status = "completed" => DoneBefore(records', session.index + 1)
<1>1. /\ session.index \in DOMAIN RunOrder /\ Current \in Runs
      /\ Current = RunOrder[session.index]
      /\ DoneBefore(records, session.index) /\ records[Current].status # "completed"
  BY AtHand DEF PilotInv, SessionOK, Current
<1>2. /\ records \in [Runs -> Record] /\ records' \in [Runs -> Record]
      /\ records'[Current] = rec
      /\ \A run \in Runs : run # Current => records'[run] = records[run]
  BY <1>1, AtHand
<1>3. UNCHANGED <<ledger, checkpoint, output, proc, call, faults>>
  BY DEF vars
<1>4. \A j \in DOMAIN RunOrder : j # session.index =>
        records'[RunOrder[j]] = records[RunOrder[j]]
  BY <1>1, <1>2, OrderIsInjective
<1>5. RunInv'
  BY InvStep DEF PilotInv
<1>6. DOMAIN RunOrder \subseteq Nat /\ session.index \in Nat
  BY <1>1, OrderIsInjective
<1>7. \A i \in DOMAIN RunOrder : i < session.index =>
        records'[RunOrder[i]].status = "completed"
  BY <1>1, <1>4, <1>6 DEF DoneBefore
<1>8. ASSUME NEW j \in DOMAIN RunOrder, records'[RunOrder[j]].status # "planned",
             NEW i \in DOMAIN RunOrder, i < j
      PROVE  records'[RunOrder[i]].status = "completed"
  <2>1. CASE j = session.index
    BY <1>7, <1>8, <2>1
  <2>2. CASE j # session.index
    <3>1. DoneBefore(records, j)
      BY <1>4, <1>8, <2>2 DEF PilotInv, InOrder
    <3>2. i # session.index /\ records[RunOrder[i]].status = "completed"
      BY <1>1, <1>8, <3>1 DEF DoneBefore
    <3>3. QED
      BY <1>4, <3>2
  <2>3. QED
    BY <2>1, <2>2
<1>9. InOrder'
  BY <1>8 DEF InOrder, DoneBefore
<1>10. RecordsOK'
  <2>1. \A r \in Requests : r.run \in Runs
    BY Coordinates
  <2>2. QED
    BY <1>2, <1>3, <2>1 DEF PilotInv, RecordsOK
<1>11. ResultOK'
  BY <1>3 DEF PilotInv, ResultOK
<1>12. SummaryOK'
  <2>1. summary # "completed"
    BY <1>1 DEF PilotInv, SummaryOK, AllCompleted
  <2>2. QED
    BY <2>1 DEF SummaryOK
<1>13. DoneBefore(records', session.index)
  BY <1>7 DEF DoneBefore
<1>14. ASSUME rec.status = "completed" PROVE DoneBefore(records', session.index + 1)
  <2>1. \A i \in DOMAIN RunOrder :
          i < session.index + 1 => i < session.index \/ i = session.index
    BY <1>6
  <2>2. QED
    BY <1>1, <1>2, <1>7, <1>14, <2>1 DEF DoneBefore
<1>15. QED
  BY <1>2, <1>5, <1>9, <1>10, <1>11, <1>12, <1>13, <1>14

\* A run is marked before it is launched.
LEMMA MarkRunningStep == ASSUME PilotInv, MarkRunning PROVE PilotInv'
<1> DEFINE rec == [status |-> "running", error |-> "none"]
<1>1. /\ rec \in Record /\ rec.status = "running"
      /\ session.at = "mark_running" /\ session.at \in Taking
      /\ records' = [records EXCEPT ![Current] = rec] /\ Go("launch")
      /\ UNCHANGED <<vars, recordFile, evaluation, summary>>
  BY DEF MarkRunning, Record, Errors, Taking
<1> HIDE DEF rec
<1>2. /\ RunInv' /\ records' \in [Runs -> Record] /\ InOrder' /\ RecordsOK'
      /\ ResultOK' /\ SummaryOK' /\ DoneBefore(records', session.index)
  BY <1>1, Recorded
<1>3. /\ session' \in Session /\ session'.at = "launch"
      /\ session'.index = session.index /\ Current' = Current
  BY <1>1, AtHand DEF Go, Session, SessionSteps, Current
<1>4. PilotTypes'
  BY <1>1, <1>2, <1>3 DEF PilotInv, PilotTypes
<1>5. /\ session.index \in DOMAIN RunOrder /\ proc.at = "idle" /\ proc' = proc
      /\ records'[Current] = rec
  BY <1>1, AtHand DEF PilotInv, SessionOK, vars
<1>6. SessionOK'
  BY <1>1, <1>2, <1>3, <1>5 DEF SessionOK, Taking
<1>7. QED
  BY <1>2, <1>4, <1>6 DEF PilotInv

\* The outcome of a run is marked, and with it the group.
LEMMA MarkStep == ASSUME PilotInv, Mark PROVE PilotInv'
<1> DEFINE rec == session.outcome
<1>1. /\ rec \in Record /\ rec.status \in {"completed", "failed"}
      /\ rec.status = "completed" => output[Current].measurement = "completed"
      /\ session.at = "mark" /\ session.at \in Taking
      /\ records' = [records EXCEPT ![Current] = rec]
      /\ UNCHANGED <<vars, recordFile, evaluation, summary>>
  BY AtHand DEF Mark, Taking, PilotInv, SessionOK, Session
<1> HIDE DEF rec
<1>2. /\ RunInv' /\ records' \in [Runs -> Record] /\ InOrder' /\ RecordsOK'
      /\ ResultOK' /\ SummaryOK'
      /\ rec.status = "completed" => DoneBefore(records', session.index + 1)
  BY <1>1, Recorded
<1>3. /\ session.index \in DOMAIN RunOrder /\ proc.at = "idle" /\ proc' = proc
      /\ Current \in Runs /\ records'[Current] = rec
  BY <1>1, AtHand DEF PilotInv, SessionOK, vars
<1>4. /\ session' \in Session /\ session'.at = "loop"
      /\ session'.index = session.index + 1
      /\ ~session'.groupFailed => ~AnyFailed(records')
  <2> DEFINE failed == AnyFailed(records')
  <2>1. session' = [session EXCEPT !.at = "loop", !.index = @ + 1, !.groupFailed = failed]
    BY DEF Mark
  <2>2. failed \in BOOLEAN
    BY DEF AnyFailed
  <2>3. session.index + 1 \in 1..(Len(RunOrder) + 1)
    BY <1>3, OrderIsInjective
  <2> HIDE DEF failed
  <2>4. /\ session' \in Session /\ session'.at = "loop"
        /\ session'.index = session.index + 1 /\ session'.groupFailed = failed
    BY <2>1, <2>2, <2>3, AtHand DEF Session, SessionSteps
  <2>5. QED
    BY <2>4 DEF failed
<1>5. PilotTypes'
  BY <1>1, <1>2, <1>4 DEF PilotInv, PilotTypes
<1>6. ~session'.groupFailed => DoneBefore(records, session.index)'
  <2>1. ~session'.groupFailed => rec.status = "completed"
    BY <1>1, <1>3, <1>4 DEF AnyFailed
  <2>2. QED
    BY <1>2, <1>4, <2>1
<1>7. SessionOK'
  BY <1>3, <1>4, <1>6 DEF SessionOK, Taking
<1>8. QED
  BY <1>2, <1>5, <1>7 DEF PilotInv

-----------------------------------------------------------------------------
(* The steps of the run at hand. *)

\* The batch launches a run as an operator would.
LEMMA RunConditionStep == ASSUME PilotInv, RunCondition PROVE PilotInv'
<1> DEFINE provider == [resume |-> session.resume, allowed |-> {}, consumed |-> FALSE]
<1>1. /\ session.at = "launch" /\ session.at \in Taking
      /\ session.index \in DOMAIN RunOrder /\ Current \in Runs
      /\ session.resume \in BOOLEAN /\ session.resumeRun \in BOOLEAN
  BY AtHand DEF RunCondition, PilotInv, SessionOK, Taking, Session
<1>2. provider \in Provider
  BY <1>1 DEF Provider
<1>3. /\ Launch(Current, session.resumeRun, provider) /\ Go("condition")
      /\ UNCHANGED <<recordFile, records, evaluation, summary>>
  BY DEF RunCondition
<1> HIDE DEF provider
<1>4. RunInv'
  BY <1>1, <1>2, <1>3, LaunchStep DEF PilotInv
<1>5. /\ session' \in Session /\ session'.at = "condition"
      /\ session'.index = session.index /\ Current' = Current
  BY <1>3, AtHand DEF Go, Session, SessionSteps, Current
<1>6. /\ proc'.at # "idle" /\ proc'.run = Current /\ proc'.result # "completed"
      /\ UNCHANGED <<ledger, output>>
  BY <1>3 DEF Launch, Idle
<1>7. PilotTypes'
  BY <1>3, <1>5 DEF PilotInv, PilotTypes
<1>8. InOrder' /\ RecordsOK' /\ SummaryOK'
  BY <1>3, <1>6
  DEF PilotInv, InOrder, DoneBefore, RecordsOK, SummaryOK, AllCompleted
<1>9. SessionOK'
  <2>1. DoneBefore(records, session.index) /\ records[Current].status = "running"
    BY <1>1 DEF PilotInv, SessionOK
  <2>2. QED
    BY <1>1, <1>3, <1>5, <1>6, <2>1 DEF SessionOK, Taking
<1>10. ResultOK'
  BY <1>6 DEF ResultOK
<1>11. QED
  BY <1>4, <1>7, <1>8, <1>9, <1>10 DEF PilotInv

\* The run at hand begins requests and may finish its measurement.
LEMMA RunWorks ==
  ASSUME PilotInv, Work \/ Mishap, UNCHANGED pilotVars PROVE PilotInv'
<1>1. /\ proc.at \notin {"idle", "returned"} /\ proc'.at # "idle" /\ proc'.run = proc.run
      /\ proc'.at = "returned" /\ proc'.result = "completed" =>
           proc.at = "clear_post" /\ UNCHANGED output
  BY RunStays DEF PilotInv
<1>2. UNCHANGED <<recordFile, records, evaluation, summary, session>>
  BY DEF pilotVars
<1>3. /\ session.at = "condition" /\ proc.run = Current
      /\ records[Current].status = "running"
      /\ session.index \in DOMAIN RunOrder /\ DoneBefore(records, session.index)
  BY <1>1 DEF PilotInv, SessionOK, Taking
<1>4. [Next]_vars /\ RunInv'
  BY InvStep DEF Next, PilotInv
<1>5. PilotTypes'
  BY <1>2 DEF PilotInv, PilotTypes
<1>6. InOrder' /\ SummaryOK'
  BY <1>2 DEF PilotInv, InOrder, DoneBefore, SummaryOK, AllCompleted
<1>7. RecordsOK'
  <2>1. ASSUME NEW r \in Requests, r \in StartedRequests(ledger'[LedgerOf[r.run]])
        PROVE  records'[r.run].status # "planned"
    BY <1>2, <1>3, <2>1, StartedBy DEF PilotInv, RecordsOK
  <2>2. ASSUME NEW run \in Runs, records'[run].status = "completed"
        PROVE  output'[run].measurement = "completed"
    BY <1>2, <1>4, <2>2, MeasurementStays DEF PilotInv, RecordsOK
  <2>3. QED
    BY <2>1, <2>2 DEF RecordsOK
<1>8. SessionOK'
  BY <1>1, <1>2, <1>3 DEF SessionOK, Taking, Current
<1>9. ResultOK'
  <2>1. ASSUME proc'.at = "returned", proc'.result = "completed"
        PROVE  output'[proc'.run].measurement = "completed"
    <3>1. proc.at = "clear_post" /\ output' = output /\ proc'.run = proc.run
      BY <1>1, <2>1
    <3>2. Out.measurement = "completed"
      BY <3>1, Setting DEF PilotInv, StageOK
    <3>3. QED
      BY <3>1, <3>2 DEF Out
  <2>2. QED
    BY <2>1 DEF ResultOK
<1>10. QED
  BY <1>4, <1>5, <1>6, <1>7, <1>8, <1>9 DEF PilotInv

\* The outcome of a run is completed only with its measurement.
LEMMA ConcludeStep == ASSUME PilotInv, Conclude PROVE PilotInv'
<1> DEFINE status == IF proc.result = "completed" THEN "completed" ELSE "failed"
           outcome == [status |-> status, error |-> proc.error]
<1>1. /\ session.at = "condition" /\ session.at \in Taking /\ Return
      /\ session' = [session EXCEPT !.at = "mark", !.outcome = outcome]
      /\ UNCHANGED <<recordFile, records, evaluation, summary>>
  BY DEF Conclude, Taking
<1>2. /\ proc.at = "returned" /\ proc' = Idle
      /\ UNCHANGED <<ledger, checkpoint, output, call, faults>>
  BY <1>1 DEF Return
<1>3. proc.error \in Errors /\ proc'.at = "idle"
  BY <1>2, IdleType DEF PilotInv, RunInv, TypeOK, Process
<1>4. /\ outcome \in Record /\ outcome.status \in {"completed", "failed"}
      /\ outcome.status = "completed" => proc.result = "completed"
  BY <1>3 DEF Record
<1> HIDE DEF outcome
<1>5. /\ session' \in Session /\ session'.at = "mark" /\ session'.outcome = outcome
      /\ session'.index = session.index /\ Current' = Current
  BY <1>1, <1>4, AtHand DEF Session, SessionSteps, Current
<1>6. RunInv'
  BY <1>2, EndStep DEF PilotInv
<1>7. PilotTypes'
  BY <1>1, <1>5 DEF PilotInv, PilotTypes
<1>8. InOrder' /\ RecordsOK' /\ SummaryOK'
  BY <1>1, <1>2
  DEF PilotInv, InOrder, DoneBefore, RecordsOK, SummaryOK, AllCompleted
<1>9. SessionOK'
  <2>1. /\ session.index \in DOMAIN RunOrder /\ DoneBefore(records, session.index)
        /\ records[Current].status # "completed" /\ proc.run = Current
    BY <1>1 DEF PilotInv, SessionOK
  <2>2. outcome.status = "completed" => output[Current].measurement = "completed"
    BY <1>2, <1>4, <2>1 DEF PilotInv, ResultOK
  <2>3. QED
    BY <1>1, <1>2, <1>3, <1>4, <1>5, <2>1, <2>2 DEF SessionOK, Taking
<1>10. ResultOK'
  BY <1>3 DEF ResultOK
<1>11. QED
  BY <1>6, <1>7, <1>8, <1>9, <1>10 DEF PilotInv

-----------------------------------------------------------------------------
(* The end of a session. *)

\* The session closes, and goes on to evaluate a group that is complete.
LEMMA ClosingStep ==
  ASSUME PilotInv, EndLoop \/ Close \/ Evaluate \/ WriteReport \/ Summarize PROVE PilotInv'
<1>1. /\ UNCHANGED <<vars, recordFile, records>>
      /\ session.at \in {"loop", "close", "evaluate", "report", "summarize"}
  BY DEF EndLoop, Close, Evaluate, WriteReport, Summarize
<1>2. proc' = proc /\ proc.at = "idle"
  BY <1>1 DEF vars, PilotInv, SessionOK
<1>3. NoSession \in Session /\ NoSession.at = "closed"
  BY OrderIsInjective DEF NoSession, Planned, Session, SessionSteps, Record, Errors
<1>4. \A step \in SessionSteps : Go(step) => session' \in Session /\ session'.at = step
  BY AtHand DEF Go, Session
<1>5. /\ session' \in Session
      /\ session'.at \in {"closed", "close", "evaluate", "report", "summarize"}
      /\ evaluation' \in {"none", "manifest", "partial", "whole"}
      /\ summary' \in {"none", "failed", "completed"}
      /\ session'.at \in {"evaluate", "report"} => AllCompleted
      /\ session'.at = "report" => evaluation' = "manifest"
      /\ session'.at = "summarize" /\ AllCompleted => evaluation' = "whole"
      /\ summary' = "completed" => AllCompleted /\ evaluation' = "whole"
  <2>1. CASE EndLoop
    BY <1>4, <2>1 DEF EndLoop, SessionSteps, PilotInv, PilotTypes, SummaryOK
  <2>2. CASE Close
    BY <1>3, <1>4, <2>2 DEF Close, SessionSteps, PilotInv, PilotTypes, SummaryOK
  <2>3. CASE Evaluate
    BY <1>3, <1>4, <2>3 DEF Evaluate, SessionSteps, PilotInv, PilotTypes, SummaryOK, SessionOK
  <2>4. CASE WriteReport
    BY <1>4, <2>4 DEF WriteReport, SessionSteps, PilotInv, PilotTypes, SummaryOK, SessionOK
  <2>5. CASE Summarize
    BY <1>3, <2>5 DEF Summarize, PilotInv, PilotTypes, SessionOK
  <2>6. QED
    BY <2>1, <2>2, <2>3, <2>4, <2>5
<1>6. AllCompleted' <=> AllCompleted
  BY <1>1 DEF AllCompleted
<1>7. PilotTypes'
  BY <1>1, <1>5 DEF PilotInv, PilotTypes
<1>8. SessionOK'
  BY <1>2, <1>5, <1>6 DEF SessionOK, Taking
<1>9. SummaryOK'
  BY <1>5, <1>6 DEF SummaryOK
<1>10. QED
  BY <1>1, <1>7, <1>8, <1>9, FilesSame DEF PilotInv

\* A crash leaves the runs to the next session.
LEMMA PilotCrashStep == ASSUME PilotInv, PilotCrash PROVE PilotInv'
<1>1. /\ proc' = Idle /\ call' = "none" /\ Fault("crash") /\ session' = NoSession
      /\ UNCHANGED <<ledger, checkpoint, output, recordFile, records, evaluation, summary>>
  BY DEF PilotCrash
<1>2. RunInv'
  BY <1>1, EndStep DEF PilotInv
<1>3. NoSession \in Session /\ NoSession.at = "closed"
  BY OrderIsInjective DEF NoSession, Planned, Session, SessionSteps, Record, Errors
<1>4. PilotTypes'
  BY <1>1, <1>3 DEF PilotInv, PilotTypes
<1>5. InOrder' /\ RecordsOK' /\ SummaryOK'
  BY <1>1 DEF PilotInv, InOrder, DoneBefore, RecordsOK, SummaryOK, AllCompleted
<1>6. SessionOK' /\ ResultOK'
  BY <1>1, <1>3, IdleType DEF SessionOK, ResultOK, Taking
<1>7. QED
  BY <1>2, <1>4, <1>5, <1>6 DEF PilotInv

\* A write that is broken off spoils the batch record or the evaluation.
LEMMA TearWriteStep == ASSUME PilotInv, TearWrite PROVE PilotInv'
<1>1. /\ session.at \in {"mark_running", "mark", "close", "report"} /\ Fault("crash")
      /\ session' = NoSession
      /\ UNCHANGED <<ledger, checkpoint, output, proc, call, records, summary>>
      /\ recordFile' \in {"none", "partial", "whole"}
      /\ evaluation' = evaluation \/ (session.at = "report" /\ evaluation' = "partial")
  BY DEF TearWrite, PilotInv, PilotTypes
<1>2. proc.at = "idle"
  BY <1>1 DEF PilotInv, SessionOK
<1>3. RunInv'
  <2>1. /\ proc' \in Process /\ proc'.at = "idle"
        /\ call' = "none" /\ faults' \in 0..MaxFaults
    BY <1>1, <1>2, NoCall, FaultCounted DEF PilotInv, RunInv, TypeOK, ProcOK
  <2>2. QED
    BY <1>1, <2>1, NewProcess DEF PilotInv
<1>4. NoSession \in Session /\ NoSession.at = "closed"
  BY OrderIsInjective DEF NoSession, Planned, Session, SessionSteps, Record, Errors
<1>5. PilotTypes'
  BY <1>1, <1>4 DEF PilotInv, PilotTypes
<1>6. InOrder' /\ RecordsOK'
  BY <1>1 DEF PilotInv, InOrder, DoneBefore, RecordsOK
<1>7. SummaryOK'
  <2>1. session.at = "report" => evaluation = "manifest"
    BY DEF PilotInv, SessionOK
  <2>2. QED
    BY <1>1, <2>1 DEF PilotInv, SummaryOK, AllCompleted
<1>8. SessionOK' /\ ResultOK'
  BY <1>1, <1>2, <1>4 DEF SessionOK, ResultOK, Taking
<1>9. QED
  BY <1>3, <1>5, <1>6, <1>7, <1>8 DEF PilotInv

-----------------------------------------------------------------------------
(* The invariant, and what follows from it. *)

\* Nothing was recorded yet.
LEMMA PilotInvInit == PilotInit => PilotInv
<1> SUFFICES ASSUME PilotInit PROVE PilotInv
  OBVIOUS
<1>1. /\ Init /\ proc = Idle /\ session = NoSession /\ summary = "none"
      /\ recordFile = "none" /\ evaluation = "none"
      /\ records = [run \in Runs |-> Planned]
  BY DEF PilotInit, Init
<1>2. /\ Planned \in Record /\ Planned.status = "planned"
      /\ NoSession \in Session /\ NoSession.at = "closed"
  BY OrderIsInjective DEF NoSession, Planned, Session, SessionSteps, Record, Errors
<1>3. RunInv
  BY <1>1, InvInit
<1>4. PilotTypes
  BY <1>1, <1>2 DEF PilotTypes
<1>5. InOrder
  BY <1>1, <1>2, OrderIsInjective DEF InOrder
<1>6. RecordsOK
  <2>1. ASSUME NEW r \in Requests PROVE StartedRequests(ledger[LedgerOf[r.run]]) = {}
    BY <1>1, <2>1, Coordinates DEF Init, Files, StartedRequests, StartsOf
  <2>2. QED
    BY <1>1, <1>2, <2>1 DEF RecordsOK
<1>7. SessionOK /\ ResultOK /\ SummaryOK
  BY <1>1, <1>2, IdleType DEF SessionOK, ResultOK, SummaryOK, Taking
<1>8. QED
  BY <1>3, <1>4, <1>5, <1>6, <1>7 DEF PilotInv

\* Every step of the batch keeps the invariant.
LEMMA PilotInvStep == PilotInv /\ [PilotNext]_allVars => PilotInv'
<1> SUFFICES ASSUME PilotInv, [PilotNext]_allVars PROVE PilotInv'
  OBVIOUS
<1>1. CASE Begin
  BY <1>1, BeginStep
<1>2. CASE SessionStep
  BY <1>2, BeginStep, PassOverStep, TakeUpStep, MarkRunningStep, RunConditionStep,
    ConcludeStep, MarkStep, ClosingStep
  DEF SessionStep
<1>3. CASE RunStep \/ (Mishap /\ UNCHANGED pilotVars)
  BY <1>3, RunWorks DEF RunStep
<1>4. CASE PilotCrash \/ TearWrite
  BY <1>4, PilotCrashStep, TearWriteStep
<1>5. CASE UNCHANGED allVars
  <2>1. UNCHANGED <<vars, recordFile, records, evaluation, summary, session>>
    BY <1>5 DEF allVars, pilotVars
  <2>2. PilotTypes'
    BY <2>1 DEF PilotInv, PilotTypes
  <2>3. SessionOK'
    BY <2>1 DEF vars, PilotInv, SessionOK, DoneBefore, AllCompleted, Current
  <2>4. QED
    BY <2>1, <2>2, <2>3, FilesSame DEF PilotInv
<1>6. QED
  BY <1>1, <1>2, <1>3, <1>4, <1>5 DEF PilotNext

\* Through failures, crashes and resumed sessions the batch record stays in
\* order and true.
THEOREM PilotInvariant == PilotSpec => []PilotInv
BY PilotInvInit, PilotInvStep, PTL DEF PilotSpec

\* The runs of a batch keep what a measured run keeps, whatever its sessions do.
THEOREM RunsStayWhole ==
  PilotSpec => [](FrontierHolds /\ TurnsNeverReplayed /\ AnswersKept /\ CompletedIsWhole)
<1>1. PilotInv => FrontierHolds /\ TurnsNeverReplayed /\ AnswersKept /\ CompletedIsWhole
  BY FrontierFollows, OneTrajectory, AnswersFollow, WholeFollows DEF PilotInv
<1>2. QED
  BY <1>1, PilotInvariant, PTL

\* Nothing of a run is sent while an earlier run is not recorded as completed.
THEOREM GroupAlwaysStops == PilotSpec => []GroupStopsAtFailure
<1>1. PilotInv => GroupStopsAtFailure
  <2> SUFFICES ASSUME PilotInv, NEW r \in Requests, Started(r),
                      NEW i \in DOMAIN RunOrder, NEW j \in DOMAIN RunOrder,
                      RunOrder[j] = r.run, i < j
               PROVE  records[RunOrder[i]].status = "completed"
    BY DEF GroupStopsAtFailure
  <2>1. records[RunOrder[j]].status # "planned"
    BY Views DEF PilotInv, RecordsOK
  <2>2. QED
    BY <2>1 DEF PilotInv, InOrder, DoneBefore
<1>2. QED
  BY <1>1, PilotInvariant, PTL

\* A summary that says completed has every measurement, every answer and the
\* whole evaluation behind it.
THEOREM SummaryAlwaysComplete == PilotSpec => []SummaryMeansComplete
<1>1. PilotInv => SummaryMeansComplete
  <2> SUFFICES ASSUME PilotInv, summary = "completed"
               PROVE  /\ \A run \in Runs : output[run].measurement = "completed"
                      /\ \A r \in Requests : Completed(r)
                      /\ evaluation = "whole"
    BY DEF SummaryMeansComplete
  <2>1. evaluation = "whole" /\ \A run \in Runs : output[run].measurement = "completed"
    BY DEF PilotInv, SummaryOK, AllCompleted, RecordsOK
  <2>2. CompletedIsWhole
    BY WholeFollows DEF PilotInv
  <2>3. \A r \in Requests : Completed(r)
    BY <2>1, <2>2, Coordinates DEF CompletedIsWhole
  <2>4. QED
    BY <2>1, <2>3
<1>2. QED
  BY <1>1, PilotInvariant, PTL

\* Whatever its sessions do, a batch takes every run through the measurement
\* protocol: no session, failure or crash shows the protocol a step of its own.
THEOREM PilotKeepsProtocol == PilotSpec => ImplementsProtocol
<1>1. PilotInit => Protocol!Init
  BY ProtocolInit DEF PilotInit
<1>2. PilotInv /\ [PilotNext]_allVars => [Protocol!Next]_Protocol!vars
  <2> SUFFICES ASSUME PilotInv, [PilotNext]_allVars
               PROVE  [Protocol!Next]_Protocol!vars
    OBVIOUS
  <2>1. CASE RunStep \/ (Mishap /\ UNCHANGED pilotVars)
    <3>1. [Next]_vars
      BY <2>1 DEF RunStep, Next
    <3>2. QED
      BY <3>1, ProtocolStep DEF PilotInv
  <2>2. CASE UNCHANGED <<ledger, checkpoint, output>>
    BY <2>2, NothingSeen
  <2>3. UNCHANGED <<ledger, checkpoint, output>> \/ RunStep \/ (Mishap /\ UNCHANGED pilotVars)
    <3>1. UNCHANGED vars => UNCHANGED <<ledger, checkpoint, output>>
      BY DEF vars
    <3>2. SessionStep => UNCHANGED <<ledger, checkpoint, output>>
      BY <3>1 DEF SessionStep, InitializeRecords, PassOver, TakeUp, RefuseDirectory,
        MarkRunning, RunCondition, Launch, Conclude, Return, Mark, EndLoop, Close,
        Evaluate, WriteReport, Summarize
    <3>3. Begin \/ PilotCrash \/ TearWrite \/ UNCHANGED allVars
            => UNCHANGED <<ledger, checkpoint, output>>
      BY <3>1 DEF Begin, PilotCrash, TearWrite, allVars
    <3>4. QED
      BY <3>2, <3>3 DEF PilotNext
  <2>4. QED
    BY <2>1, <2>2, <2>3
<1>3. QED
  BY <1>1, <1>2, PilotInvariant, PTL DEF PilotSpec, ImplementsProtocol, Protocol!Spec

-----------------------------------------------------------------------------
(* What the group is refused. *)

(* The provider has the flag of the run at least, and recovers nothing.      *)
PilotAsks ==
  /\ AskInv
  /\ proc.provider.allowed = {}
  /\ session.resumeRun => session.resume

\* No session of the pilot comes to a request it may not make.
LEMMA PilotAsksStep == ASSUME PilotInv, PilotAsks, [PilotNext]_allVars PROVE PilotAsks'
<1>1. /\ session \in Session /\ ~NoSession.resumeRun
      /\ session.resumeRun => session.resume
  BY DEF PilotInv, PilotTypes, NoSession, PilotAsks
<1>2. CASE RunStep \/ (Mishap /\ UNCHANGED pilotVars)
  <2>1. (Work \/ Mishap) /\ session' = session
    BY <1>2 DEF RunStep, pilotVars
  <2>2. proc'.provider.allowed = proc.provider.allowed
    BY <2>1, AskingMoves DEF PilotInv
  <2>3. QED
    BY <2>1, <2>2, AskWorks DEF PilotInv, PilotAsks
<1>3. CASE RunCondition
  <2> DEFINE provider == [resume |-> session.resume, allowed |-> {}, consumed |-> FALSE]
  <2>1. /\ session.at = "launch" /\ Current \in Runs
        /\ session.resume \in BOOLEAN /\ session.resumeRun \in BOOLEAN
    BY <1>3, AtHand DEF RunCondition, PilotInv, SessionOK, Taking, Session
  <2>2. /\ provider \in Provider /\ (session.resumeRun => provider.resume)
        /\ ~provider.consumed /\ provider.allowed = {}
    BY <1>1, <2>1 DEF Provider
  <2>3. Launch(Current, session.resumeRun, provider) /\ Go("condition")
    BY <1>3 DEF RunCondition
  <2> HIDE DEF provider
  <2>4. AskInv'
    BY <2>1, <2>2, <2>3, AskLaunch DEF PilotInv, PilotAsks
  <2>5. proc'.provider = provider
    BY <2>3 DEF Launch, Idle
  <2>6. session'.resumeRun = session.resumeRun /\ session'.resume = session.resume
    BY <1>1, <2>3 DEF Go, Session
  <2>7. QED
    BY <1>1, <2>2, <2>4, <2>5, <2>6 DEF PilotAsks
<1>4. CASE PilotCrash \/ Conclude
  <2>1. proc' = Idle /\ ledger' = ledger
    BY <1>4 DEF PilotCrash, Conclude, Return
  <2>2. session'.resumeRun => session'.resume
    BY <1>1, <1>4 DEF PilotCrash, Conclude, Session
  <2>3. QED
    BY <2>1, <2>2, AskEnds, IdleType DEF PilotInv, PilotAsks
<1>5. ASSUME UNCHANGED <<ledger, checkpoint, output, proc, call>>,
             session'.resumeRun => session'.resume
      PROVE  PilotAsks'
  BY <1>5, AskEnds DEF PilotInv, PilotAsks
<1>6. CASE Begin \/ TearWrite \/ UNCHANGED allVars
  <2>1. UNCHANGED <<ledger, checkpoint, output, proc, call>>
    BY <1>6 DEF Begin, TearWrite, allVars, vars
  <2>2. session'.resumeRun => session'.resume
    BY <1>1, <1>6 DEF Begin, TearWrite, allVars, pilotVars, NoSession
  <2>3. QED
    BY <1>5, <2>1, <2>2
<1>7. CASE \/ InitializeRecords \/ PassOver \/ RefuseDirectory \/ TakeUp \/ MarkRunning
           \/ Mark \/ EndLoop \/ Close \/ Evaluate \/ WriteReport \/ Summarize
  <2>1. UNCHANGED <<ledger, checkpoint, output, proc, call>>
    BY <1>7 DEF InitializeRecords, PassOver, RefuseDirectory, TakeUp, MarkRunning, Mark,
      EndLoop, Close, Evaluate, WriteReport, Summarize, vars
  <2>2. session'.resumeRun => session'.resume
    BY <1>1, <1>7 DEF InitializeRecords, PassOver, RefuseDirectory, TakeUp, MarkRunning,
      Mark, EndLoop, Close, Evaluate, WriteReport, Summarize, Go, Session
  <2>3. QED
    BY <1>5, <2>1, <2>2
<1>8. QED
  BY <1>2, <1>3, <1>4, <1>6, <1>7 DEF PilotNext, SessionStep

\* The pilot passes the ledger's provider the flag of the batch and the run one
\* of its own; still, with caps for the whole group, no session is refused a
\* request but for an answer that is there already.
THEOREM PilotRefusedOnlyAsReplay ==
  ASSUME CapsCoverRuns PROVE PilotSpec => []RefusedOnlyAsReplay
<1>1. PilotInit => PilotAsks
  BY AskInit DEF PilotInit, Init, Idle, PilotAsks, NoSession
<1>2. PilotInv /\ PilotAsks /\ [PilotNext]_allVars => PilotAsks'
  BY PilotAsksStep
<1>3. PilotInv /\ PilotAsks => RefusedOnlyAsReplay
  BY OnlyReplaysRefused DEF PilotInv, PilotAsks
<1>4. QED
  BY <1>1, <1>2, <1>3, PilotInvariant, PTL DEF PilotSpec
=============================================================================
