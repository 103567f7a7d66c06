---------------------------- MODULE RealPilotBatch ----------------------------
(***************************************************************************)
(* WVS7RealPilotRunner (wvs7_real_pilot.py): four conditions of one matched*)
(* group over one shared ledger.  Unlike the confirmatory runner it opens  *)
(* its providers once per session with the resume flag of the batch, goes  *)
(* on round its loop after a failure, and refuses a run whose output       *)
(* directory exists.                                                       *)
(***************************************************************************)
EXTENDS MeasuredRun

CONSTANT RunOrder

ASSUME PilotAssumption ==
  /\ RunOrder \in Seq(Runs)
  /\ {RunOrder[i] : i \in DOMAIN RunOrder} = Runs
  /\ Len(RunOrder) = Cardinality(Runs)

VARIABLES recordFile,   \* how much there is of batch_record.json
          records,      \* what it says of each run
          evaluation,   \* how much there is of the offline evaluation
          summary,      \* the status real_pilot_summary.json gives
          session

pilotVars == <<recordFile, records, evaluation, summary, session>>
allVars == <<vars, pilotVars>>

Planned == [status |-> "planned", error |-> "none"]

\* resumeRun: the loop found the run failed; outcome: the record it is to write.
NoSession == [at |-> "closed", resume |-> FALSE, groupFailed |-> FALSE, index |-> 1,
              resumeRun |-> FALSE, outcome |-> Planned]

PilotInit ==
  /\ Init
  /\ recordFile = "none"
  /\ records = [run \in Runs |-> Planned]
  /\ evaluation = "none"
  /\ summary = "none"
  /\ session = NoSession

-----------------------------------------------------------------------------

AnyFailed(recs) == \E run \in Runs : recs[run].status = "failed"

Go(step) == session' = [session EXCEPT !.at = step]

\* A batch directory needs resume, and then a record that can be read.
Begin ==
  /\ session.at = "closed" /\ recordFile # "partial"
  /\ IF recordFile = "none"
     THEN /\ recordFile' = "partial"
          /\ session' = [NoSession EXCEPT !.at = "initialize"]
     ELSE /\ session' = [NoSession EXCEPT !.at = "loop", !.resume = TRUE,
                                          !.groupFailed = AnyFailed(records)]
          /\ UNCHANGED recordFile
  /\ UNCHANGED <<vars, records, evaluation, summary>>

InitializeRecords ==
  /\ session.at = "initialize"
  /\ recordFile' = "whole"
  /\ Go("loop")
  /\ UNCHANGED <<vars, records, evaluation, summary>>

InLoop == session.at = "loop" /\ session.index <= Len(RunOrder)

Current == RunOrder[session.index]

Status == records[Current].status

\* A slip that forgets the failures of earlier sessions and runs.
PassedOverAlone ==
  Status = "completed" \/ (Status = "failed" /\ ~session.resume)

\* Once the group has failed, only failed runs are taken up, and on resume.
PassedOver ==
  \/ Status = "completed"
  \/ session.groupFailed /\ Status # "failed"
  \/ Status = "failed" /\ ~session.resume

PassOver ==
  /\ InLoop /\ PassedOver
  /\ session' = [session EXCEPT !.index = @ + 1,
                                !.groupFailed = @ \/ Status = "failed"]
  /\ UNCHANGED <<vars, recordFile, records, evaluation, summary>>

RefuseDirectory ==
  /\ InLoop /\ ~PassedOver /\ output[Current].dir
  /\ session' = [session EXCEPT !.at = "mark", !.outcome =
       [status |-> "failed", error |-> "existing_failed_run_directory"]]
  /\ UNCHANGED <<vars, recordFile, records, evaluation, summary>>

\* A slip that always starts the run afresh.
TakeUpAfresh ==
  /\ InLoop /\ ~PassedOver /\ ~output[Current].dir
  /\ session' = [session EXCEPT !.at = "mark_running", !.resumeRun = FALSE]
  /\ UNCHANGED <<vars, recordFile, records, evaluation, summary>>

TakeUp ==
  /\ InLoop /\ ~PassedOver /\ ~output[Current].dir
  /\ session' = [session EXCEPT !.at = "mark_running",
                                !.resumeRun = session.resume /\ Status = "failed"]
  /\ UNCHANGED <<vars, recordFile, records, evaluation, summary>>

MarkRunning ==
  /\ session.at = "mark_running"
  /\ records' = [records EXCEPT ![Current] = [status |-> "running", error |-> "none"]]
  /\ Go("launch")
  /\ UNCHANGED <<vars, recordFile, evaluation, summary>>

\* The provider has the flag of the batch, the run has one of its own.
RunCondition ==
  /\ session.at = "launch"
  /\ Launch(Current, session.resumeRun,
            [resume |-> session.resume, allowed |-> {}, consumed |-> FALSE])
  /\ Go("condition")
  /\ UNCHANGED <<recordFile, records, evaluation, summary>>

\* run() raises only for a directory that is there, and none was.
Conclude ==
  /\ session.at = "condition" /\ Return
  /\ session' = [session EXCEPT !.at = "mark", !.outcome =
       [status |-> IF proc.result = "completed" THEN "completed" ELSE "failed",
        error |-> proc.error]]
  /\ UNCHANGED <<recordFile, records, evaluation, summary>>

\* After each run the group counts as failed if the records now say so of any.
Mark ==
  /\ session.at = "mark"
  /\ records' = [records EXCEPT ![Current] = session.outcome]
  /\ session' = [session EXCEPT !.at = "loop", !.index = @ + 1,
                                !.groupFailed = AnyFailed(records')]
  /\ UNCHANGED <<vars, recordFile, evaluation, summary>>

-----------------------------------------------------------------------------

EndLoop ==
  /\ session.at = "loop" /\ session.index > Len(RunOrder)
  /\ Go("close")
  /\ UNCHANGED <<vars, recordFile, records, evaluation, summary>>

AllCompleted == \A run \in Runs : records[run].status = "completed"

ValidOutputs ==
  \A run \in Runs : output[run].record = "completed" /\ output[run].profiles = "written"

\* The last record of the session; an incomplete group gets its summary at once,
\* a complete one has its outputs validated first.
Close ==
  /\ session.at = "close"
  /\ IF ~AllCompleted THEN Go("summarize")
     ELSE IF ValidOutputs THEN Go("evaluate") ELSE session' = NoSession
  /\ UNCHANGED <<vars, recordFile, records, evaluation, summary>>

\* A slip that takes any evaluation it finds.
EvaluatePresent ==
  /\ session.at = "evaluate"
  /\ IF evaluation = "none" THEN evaluation' = "manifest" /\ Go("report")
                            ELSE Go("summarize") /\ UNCHANGED evaluation
  /\ UNCHANGED <<vars, recordFile, records, summary>>

\* The evaluation is made once; one that is not whole is an error.
Evaluate ==
  /\ session.at = "evaluate"
  /\ \/ /\ evaluation = "none"
        /\ evaluation' = "manifest" /\ Go("report")
     \/ /\ evaluation = "whole"
        /\ Go("summarize") /\ UNCHANGED evaluation
     \/ /\ evaluation \in {"manifest", "partial"}
        /\ session' = NoSession /\ UNCHANGED evaluation
  /\ UNCHANGED <<vars, recordFile, records, summary>>

WriteReport ==
  /\ session.at = "report"
  /\ evaluation' = "whole"
  /\ Go("summarize")
  /\ UNCHANGED <<vars, recordFile, records, summary>>

\* The summary is rewritten by every session.
Summarize ==
  /\ session.at = "summarize"
  /\ summary' = IF AllCompleted THEN "completed" ELSE "failed"
  /\ session' = NoSession
  /\ UNCHANGED <<vars, recordFile, records, evaluation>>

PilotCrash ==
  /\ session.at # "closed" /\ Fault("crash")
  /\ proc' = Idle /\ call' = "none"
  /\ session' = NoSession
  /\ UNCHANGED <<ledger, checkpoint, output, recordFile, records, evaluation, summary>>

\* The process dies inside a write to the batch record or the report.
TearWrite ==
  /\ session.at \in {"mark_running", "mark", "close", "report"} /\ Fault("crash")
  /\ IF session.at = "report" THEN evaluation' = "partial" /\ UNCHANGED recordFile
                              ELSE recordFile' = "partial" /\ UNCHANGED evaluation
  /\ session' = NoSession
  /\ UNCHANGED <<ledger, checkpoint, output, proc, call, records, summary>>

SessionStep ==
  \/ InitializeRecords \/ PassOver \/ RefuseDirectory \/ TakeUp \/ MarkRunning
  \/ RunCondition \/ Conclude \/ Mark \/ EndLoop
  \/ Close \/ Evaluate \/ WriteReport \/ Summarize

RunStep == Work /\ UNCHANGED pilotVars

PilotNext ==
  \/ Begin \/ SessionStep \/ RunStep
  \/ Mishap /\ UNCHANGED pilotVars
  \/ PilotCrash \/ TearWrite

PilotSpec == PilotInit /\ [][PilotNext]_allVars

\* The process runs on, and its operator resumes the batch whenever it stopped.
FairPilotSpec == PilotSpec /\ WF_allVars(Begin) /\ WF_allVars(SessionStep \/ RunStep)

-----------------------------------------------------------------------------

\* A failure stops the later conditions of the group: nothing of a run is sent
\* while an earlier run of the order is not recorded as completed.
GroupStopsAtFailure ==
  \A r \in Requests : Started(r) =>
    \A i, j \in DOMAIN RunOrder :
      RunOrder[j] = r.run /\ i < j => records[RunOrder[i]].status = "completed"

\* A summary that says completed is of a whole group: every run is measured,
\* every request answered, the evaluation written to its end.
SummaryMeansComplete ==
  summary = "completed" =>
    /\ \A run \in Runs : output[run].measurement = "completed"
    /\ \A r \in Requests : Completed(r)
    /\ evaluation = "whole"

\* No session leads out of these: a batch record or an evaluation broken off, a
\* wedged run, and any run whose output directory was made in a session that
\* ended before the run was recorded as completed.
PilotStuck ==
  \/ recordFile = "partial" /\ session.at # "initialize"
  \/ evaluation \in {"manifest", "partial"} /\ session.at # "report"
  \/ \E run \in Runs :
       \/ Wedged(run)
       \/ /\ output[run].dir /\ records[run].status # "completed"
          /\ ~(/\ session.at \in {"condition", "mark"} /\ Current = run
               /\ session.at = "condition" =>
                    proc.at # "returned" \/ proc.result = "completed"
               /\ session.at = "mark" => session.outcome.status = "completed")

\* A failed run whose baseline checkpoint could not be made: a resume wants the
\* checkpoint, and a failed run is only ever resumed.
Unstartable(run) == records[run].status = "failed" /\ ~checkpoint[run]["pre"].exists

\* And nothing else is lost: an operator who keeps resuming gets the group,
\* unless it is stuck for good or keeps resuming a run that cannot start.
GroupUnlessStuck ==
  <>(summary = "completed") \/ <>[]PilotStuck \/ []<>(\E run \in Runs : Unstartable(run))

\* A resumed post-probe phase reuses the completed public trajectory: no run
\* that has one is given up because its directory exists.
TrajectoryReused ==
  \A run \in Runs :
    records[run].error = "existing_failed_run_directory" => output[run].record # "completed"
=============================================================================
