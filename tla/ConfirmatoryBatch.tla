-------------------------- MODULE ConfirmatoryBatch --------------------------
(***************************************************************************)
(* WVS7ConfirmatoryRealRunner (wvs7_confirmatory_real_runner.py): the      *)
(* measured conditions one after another, each with a ledger of its own,   *)
(* a batch record rewritten around each, one parser-recovery amendment,    *)
(* and at the end a report, an audit and a receipt.  A session is one      *)
(* execution of run(); every file it writes can be left partial by a crash.*)
(***************************************************************************)
EXTENDS MeasuredRun

CONSTANT RunOrder          \* the manifest's run_order

ASSUME BatchAssumption ==
  /\ RunOrder \in Seq(Runs)
  /\ {RunOrder[i] : i \in DOMAIN RunOrder} = Runs
  /\ Len(RunOrder) = Cardinality(Runs)
  /\ MaxRecovery = 1       \* what _run_condition gives the probe provider

VARIABLES files,      \* [batch file -> how much of it there is]
          records,    \* what batch_record.json says of each run
          amendment,  \* what the recovery amendment says
          session

batchVars == <<files, records, amendment, session>>
allVars == <<vars, batchVars>>

FileNames == {"record", "amendment", "manifest", "report", "audit", "receipt"}

\* The record of a run: its status, and the result and the error it gives.
Planned == [status |-> "planned", result |-> "none", error |-> "none"]

\* current is the record the loop found, outcome the one it is to write; a
\* recovery is authorised for one request, {} stands for none.
NoSession == [at |-> "closed", resume |-> FALSE, index |-> 1, current |-> Planned,
              outcome |-> Planned, recovering |-> {}]

BatchInit ==
  /\ Init
  /\ files = [f \in FileNames |-> "none"]
  /\ records = [run \in Runs |-> Planned]
  /\ amendment = [for |-> {}, attempted |-> FALSE]
  /\ session = NoSession

-----------------------------------------------------------------------------

Go(step) == session' = [session EXCEPT !.at = step]

Write(file) == files' = [files EXCEPT ![file] = "whole"]

\* Preflight: a fresh start needs the batch directory absent, --resume needs it
\* there, and then a batch record that can be read.
Begin ==
  /\ session.at = "closed" /\ files["record"] # "partial"
  /\ IF files["record"] = "none"
     THEN /\ files' = [files EXCEPT !["record"] = "partial"]
          /\ session' = [NoSession EXCEPT !.at = "initialize"]
     ELSE /\ session' = [NoSession EXCEPT !.at = "loop", !.resume = TRUE]
          /\ UNCHANGED files
  /\ UNCHANGED <<vars, records, amendment>>

\* The directory is made first, the record of planned runs written last.
InitializeRecords ==
  /\ session.at = "initialize"
  /\ Write("record")
  /\ Go("loop")
  /\ UNCHANGED <<vars, records, amendment>>

AllConsidered == session.index > Len(RunOrder)

Current == RunOrder[session.index]

SkipCompleted ==
  /\ session.at = "loop" /\ ~AllConsidered
  /\ records[Current].status = "completed"
  /\ session' = [session EXCEPT !.index = @ + 1]
  /\ UNCHANGED <<vars, files, records, amendment>>

\* A failed run needs resume; one found running or planned starts afresh.
Runnable == records[Current].status = "failed" => session.resume

TakeUp ==
  /\ session.at = "loop" /\ ~AllConsidered
  /\ records[Current].status # "completed" /\ Runnable
  /\ session' = [session EXCEPT !.at = "mark_running", !.current = records[Current]]
  /\ UNCHANGED <<vars, files, records, amendment>>

LoopEnds ==
  /\ session.at = "loop" /\ (~AllConsidered => ~Runnable)
  /\ Go("close")
  /\ UNCHANGED <<vars, files, records, amendment>>

MarkRunning ==
  /\ session.at = "mark_running"
  /\ records' = [records EXCEPT ![Current] = [Planned EXCEPT !.status = "running"]]
  /\ Go("authorize")
  /\ UNCHANGED <<vars, files, amendment>>

-----------------------------------------------------------------------------

\* A slip that resumes the runs found running.
ResumeRunning == session.resume /\ session.current.status = "running"

\* The run itself is resumed only if the record found it failed.
ResumeRun == session.resume /\ session.current.status = "failed"

NeedsRecovery == ResumeRun /\ session.current.error = "invalid_schema"

PostProbe(i) == ProbeOf(Current, "post", i)

Missing == Probes \ Saved(Current, "post")

\* A slip that looks only at the run's own history, not at the amendment.
AuthorisesRun(r) ==
  /\ session.current.result = "post_probe_failed"
  /\ checkpoint[Current]["post"].exists /\ Missing # {}
  /\ r = PostProbe(Min(Missing))
  /\ Completed(r)
  /\ \A i \in Missing \ {Min(Missing)} : ~Completed(PostProbe(i))
  /\ Cardinality(StartsOf(ReceiptsOf(r), r)) = 1
  /\ RecoveriesOf(ReceiptsOf(r), r) = {}

\* _authorize_parser_recovery: the first missing post probe, completed once at
\* the first attempt, none of the later ones completed, and the one amendment
\* of the batch either absent or about this very request and not yet used.
Authorises(r) ==
  /\ session.current.result = "post_probe_failed"
  /\ checkpoint[Current]["post"].exists /\ Missing # {}
  /\ r = PostProbe(Min(Missing))
  /\ Completed(r)
  /\ \A i \in Missing \ {Min(Missing)} : ~Completed(PostProbe(i))
  /\ Cardinality(StartsOf(ReceiptsOf(r), r)) = 1
  /\ RecoveriesOf(ReceiptsOf(r), r) = {}
  /\ files["amendment"] # "partial"
  /\ files["amendment"] = "whole" => amendment.for = {r} /\ ~amendment.attempted

Authorised == {r \in Requests : NeedsRecovery /\ Authorises(r)}

LaunchCurrent(allowed) ==
  /\ Launch(Current, ResumeRun,
            [resume |-> ResumeRun, allowed |-> allowed, consumed |-> FALSE])
  /\ session' = [session EXCEPT !.at = "condition", !.recovering = allowed]

RunCondition ==
  /\ session.at = "authorize" /\ ~NeedsRecovery
  /\ LaunchCurrent({})
  /\ UNCHANGED <<files, records, amendment>>

\* An amendment that exists already says so.
GrantRecovery ==
  /\ session.at = "authorize" /\ Authorised # {}
  /\ amendment' = [for |-> Authorised, attempted |-> FALSE]
  /\ Write("amendment")
  /\ LaunchCurrent(Authorised)
  /\ UNCHANGED records

RefuseRecovery ==
  /\ session.at = "authorize" /\ NeedsRecovery /\ Authorised = {}
  /\ session' = [session EXCEPT !.at = "mark_failed", !.outcome =
       [status |-> "failed", result |-> "none", error |-> "parser_recovery_refused"]]
  /\ UNCHANGED <<vars, files, records, amendment>>

\* What the batch makes of the result of a condition.  An error raised out of
\* the measured run is reported as a failed agent run.
Judged(result, error) ==
  [status |-> IF result = "completed" THEN "completed" ELSE "failed",
   result |-> IF result = "raised" THEN "agent_run_failed" ELSE result,
   error |-> error]

Concluded == Judged(proc.result, proc.error)

\* A slip that judges the condition by its trajectory.
ConcludeOnTrajectory ==
  /\ session.at = "condition" /\ Return
  /\ session' = [session EXCEPT
       !.at = IF output[Current].record = "completed" THEN "mark_completed" ELSE "mark_failed",
       !.outcome = IF output[Current].record = "completed"
                   THEN Judged("completed", "none") ELSE Concluded]
  /\ UNCHANGED <<files, records, amendment>>

\* The amendment is settled before the batch record is.
Conclude ==
  /\ session.at = "condition" /\ Return
  /\ session' = [session EXCEPT
       !.at = IF Concluded.status = "completed" THEN "mark_completed" ELSE "mark_failed",
       !.outcome = Concluded]
  /\ amendment' = [amendment EXCEPT
       !.attempted = @ \/ (session.recovering # {} /\ proc.result # "raised")]
  /\ UNCHANGED <<files, records>>

\* A slip that goes on to the next run after a failure.
MarkFailedGoOn ==
  /\ session.at = "mark_failed"
  /\ records' = [records EXCEPT ![Current] = session.outcome]
  /\ session' = [session EXCEPT !.at = "loop", !.index = @ + 1, !.recovering = {}]
  /\ UNCHANGED <<vars, files, amendment>>

MarkFailed ==
  /\ session.at = "mark_failed"
  /\ records' = [records EXCEPT ![Current] = session.outcome]
  /\ Go("close")
  /\ UNCHANGED <<vars, files, amendment>>

MarkCompleted ==
  /\ session.at = "mark_completed"
  /\ records' = [records EXCEPT ![Current] = session.outcome]
  /\ session' = [session EXCEPT !.at = "loop", !.index = @ + 1, !.recovering = {}]
  /\ UNCHANGED <<vars, files, amendment>>

-----------------------------------------------------------------------------

End == session' = NoSession

\* A slip that leaves it to the validation of the outputs.
CloseUnchecked ==
  /\ session.at = "close"
  /\ Go("validate")
  /\ UNCHANGED <<vars, files, records, amendment>>

\* The last batch record of the session; only a complete batch goes on.
Close ==
  /\ session.at = "close"
  /\ IF \A run \in Runs : records[run].status = "completed" THEN Go("validate") ELSE End
  /\ UNCHANGED <<vars, files, records, amendment>>

\* _validate_run_ledger: every request of the run, started and completed.
LedgerWhole(run) ==
  LET log == ledger[LedgerOf[run]]
      done == {r \in Requests : Completed(r) /\ r.run = run}
  IN  /\ Cardinality(StartedRequests(log)) = RequestCap
      /\ StartedRequests(log) = done
      /\ Cardinality({i \in DOMAIN log : log[i].recovery /\ log[i].status = "started"}) <= 1

Validate ==
  /\ session.at = "validate"
  /\ IF \A run \in Runs : output[run].profiles = "written" /\ LedgerWhole(run)
     THEN Go("evaluate") ELSE End
  /\ UNCHANGED <<vars, files, records, amendment>>

Exists(file) == files[file] # "none"

\* An evaluation that was begun must be complete; one report is enough to skip it.
Evaluate ==
  /\ session.at = "evaluate"
  /\ IF Exists("manifest") # Exists("report") THEN End /\ UNCHANGED files
     ELSE IF Exists("report") THEN Go("audit") /\ UNCHANGED files
     ELSE Go("report") /\ Write("manifest")
  /\ UNCHANGED <<vars, records, amendment>>

WriteReport ==
  /\ session.at = "report"
  /\ Go("audit")
  /\ Write("report")
  /\ UNCHANGED <<vars, records, amendment>>

\* An audit that exists is read back.
Audit ==
  /\ session.at = "audit"
  /\ IF files["audit"] = "partial" THEN End /\ UNCHANGED files
                                   ELSE Go("receipt") /\ Write("audit")
  /\ UNCHANGED <<vars, records, amendment>>

IssueReceipt ==
  /\ session.at = "receipt"
  /\ End
  /\ IF files["receipt"] = "partial" THEN UNCHANGED files ELSE Write("receipt")
  /\ UNCHANGED <<vars, records, amendment>>

-----------------------------------------------------------------------------

\* The file the next step of the session writes in place, if any.
WritesTo ==
  CASE session.at \in {"mark_running", "mark_failed", "mark_completed", "close"} -> {"record"}
    [] session.at = "authorize" /\ Authorised # {} -> {"amendment"}
    [] session.at = "evaluate" /\ ~Exists("report")  -> {"manifest"}
    [] session.at \in {"report", "audit", "receipt"}  -> {session.at}
    [] OTHER -> {}

\* The process dies between two steps, or inside a write.
BatchCrash ==
  /\ session.at # "closed" /\ Fault("crash")
  /\ proc' = Idle /\ call' = "none"
  /\ session' = NoSession
  /\ UNCHANGED <<ledger, checkpoint, output, files, records, amendment>>

TearWrite ==
  /\ Fault("crash")
  /\ \E file \in WritesTo :
       /\ file = "record" \/ files[file] = "none"
       /\ files' = [files EXCEPT ![file] = "partial"]
  /\ session' = NoSession
  /\ UNCHANGED <<ledger, checkpoint, output, proc, call, records, amendment>>

SessionStep ==
  \/ InitializeRecords \/ SkipCompleted \/ TakeUp \/ LoopEnds \/ MarkRunning
  \/ RunCondition \/ GrantRecovery \/ RefuseRecovery \/ Conclude
  \/ MarkFailed \/ MarkCompleted
  \/ Close \/ Validate \/ Evaluate \/ WriteReport \/ Audit \/ IssueReceipt

RunStep == Work /\ UNCHANGED batchVars

BatchNext ==
  \/ Begin \/ SessionStep \/ RunStep
  \/ Mishap /\ UNCHANGED batchVars
  \/ BatchCrash \/ TearWrite

BatchSpec == BatchInit /\ [][BatchNext]_allVars

\* The process runs on, and its operator resumes the batch whenever it stopped.
FairBatchSpec == BatchSpec /\ WF_allVars(Begin) /\ WF_allVars(SessionStep \/ RunStep)

-----------------------------------------------------------------------------

\* Conditions are strictly serial: nothing of a run is ever sent before the
\* batch record has every earlier run as completed.
SerialOrder ==
  \A r \in Requests : Started(r) =>
    \A i, j \in DOMAIN RunOrder :
      RunOrder[j] = r.run /\ i < j => records[RunOrder[i]].status = "completed"

\* What the batch record calls completed is measured, cleared and whole.
RecordsTruthful ==
  \A run \in Runs : records[run].status = "completed" =>
    /\ output[run].measurement = "completed"
    /\ \A phase \in {"pre", "post"} : ~checkpoint[run][phase].exists

\* A receipt is there only for a batch recorded as complete, run by run, in
\* which every request came to a completed answer.
ReceiptMeansComplete ==
  files["receipt"] # "none" =>
    /\ \A run \in Runs : records[run].status = "completed"
    /\ \A r \in Requests : Completed(r)

\* Over the whole batch, at most one request is ever sent to recover an answer,
\* it is a post probe, and the amendment on disk names it.
RecoveryConfined ==
  LET recovered == {r \in Requests : RecoveriesOf(ReceiptsOf(r), r) # {}}
  IN  /\ \A r \in recovered : /\ r.phase = "post" /\ amendment.for = {r}
                              /\ files["amendment"] = "whole"
                              /\ Cardinality(RecoveriesOf(ReceiptsOf(r), r)) = 1

\* The session is past the measurement of the run, and on its way to record it.
FinishingRun(run) ==
  \/ session.at = "mark_completed" /\ Current = run
  \/ /\ session.at = "condition" /\ proc.run = run
     /\ proc.at \in {"clear_pre", "clear_post"} \/ proc.result = "completed"

\* The answer to a probe came and no checkpoint holds it.
Unsaved(r) ==
  /\ r.phase # "turn"
  /\ LatestStatus(ReceiptsOf(r), r) = "completed"
  /\ r.at \notin Saved(r.run, r.phase)
  /\ ~(proc.run = r.run /\ proc.at = r.phase /\ call = "answered")

\* The parser refused it, and that is recorded, or on its way to be.
RefusedByParser(run) ==
  \/ proc.run = run /\ proc.at \in {"post_failed", "returned"} /\ proc.error = "invalid_schema"
  \/ session.at = "mark_failed" /\ Current = run /\ session.outcome.error = "invalid_schema"
  \/ session.at \in {"mark_running", "authorize"} /\ Current = run
     /\ session.current.error = "invalid_schema"
  \/ records[run].error = "invalid_schema"

\* A recovery can still be granted for it, was granted and is ahead, or is in
\* transport.
Recoverable(r) ==
  LET first == RecoveriesOf(ReceiptsOf(r), r) = {}
  IN  /\ r.phase = "post"
      /\ \/ /\ first /\ RefusedByParser(r.run)
            /\ files["amendment"] # "partial"
            /\ files["amendment"] = "whole" => amendment.for = {r} /\ ~amendment.attempted
         \/ /\ session.at = "condition" /\ session.recovering = {r}
            /\ \/ first /\ proc.at \in {"open_pre", "pre", "open_post", "post"}
               \/ call = "sent"

\* No launch leads out of these: a trajectory that broke off, profiles begun and
\* not recorded, an answer lost beyond recovery.
Lost(run) ==
  LET running(steps) == proc.run = run /\ proc.at \in steps
      out == output[run]
  IN  /\ out.measurement # "completed"
      /\ \/ out.dir /\ out.record # "completed" /\ ~running({"turn"})
         \/ out.profiles # "none" /\ ~running({"profiling", "recording"})
         \/ \E r \in Requests : r.run = run /\ Unsaved(r) /\ ~Recoverable(r)

\* No session leads out of these: a batch record, evaluation, audit or receipt
\* broken off by a crash; a lost run; a run that is measured and cleared and
\* was not recorded as completed.
Stuck ==
  \/ files["record"] = "partial" /\ session.at # "initialize"
  \/ Exists("manifest") /\ ~Exists("report") /\ session.at # "report"
  \/ files["audit"] = "partial"
  \/ files["receipt"] = "partial"
  \/ \E run \in Runs :
       \/ Lost(run)
       \/ /\ output[run].measurement = "completed"
          /\ records[run].status # "completed"
          /\ ~FinishingRun(run)

\* A failed run whose baseline checkpoint could not be made: a resume wants the
\* checkpoint, and a failed run is only ever resumed.
Unstartable(run) == records[run].status = "failed" /\ ~checkpoint[run]["pre"].exists

\* And nothing else is lost: an operator who keeps resuming gets the receipt,
\* unless the batch is stuck for good or he keeps resuming a run that cannot
\* start.
ReceiptUnlessStuck ==
  <>(files["receipt"] = "whole") \/ <>[]Stuck \/ []<>(\E run \in Runs : Unstartable(run))

\* A completed fingerprint is never replayed by an ordinary resume: whatever is
\* sent of a request after a completed receipt is tagged as a recovery.
OrdinaryResumeNeverReplays ==
  \A r \in Requests :
    LET log == ReceiptsOf(r)
    IN  \A i \in TerminalsOf(log, r), j \in StartsOf(log, r) :
          i < j /\ log[i].status = "completed" => log[j].recovery

\* A receipt is issued only with a report that was written to its end.
ReceiptNamesWholeReport == files["receipt"] = "whole" => files["report"] = "whole"
=============================================================================
