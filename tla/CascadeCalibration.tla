------------------------- MODULE CascadeCalibration --------------------------
(***************************************************************************)
(* The calibration of the provenance cascade                               *)
(* (provenance_cascade_hg232_calibration.py): its runs one after another,  *)
(* each over a request ledger, a response audit, a log of decisions and a  *)
(* checkpoint, with a batch record rewritten around each; its plain        *)
(* resume; and the one-shot resume of a run that failed by a timeout       *)
(* (provenance_cascade_hg232_timeout_resume_v4.py), which is locked to the *)
(* bytes of the batch it found.  A session is one execution of run_all().  *)
(***************************************************************************)
EXTENDS CascadeRounds, SequencesExt

CONSTANTS RunOrder,      \* HG232CalibrationRunner.runs
          FaultKinds,    \* what may go wrong
          MaxFaults      \* bound: how often

ASSUME CalibrationAssumption ==
  /\ RunOrder \in Seq(Runs)
  /\ {RunOrder[i] : i \in DOMAIN RunOrder} = Runs
  /\ Len(RunOrder) = Cardinality(Runs)
  /\ FaultKinds \subseteq {"timeout", "cut", "invalid", "crash"}
  /\ MaxFaults \in Nat

\* The caps are those of a whole run, and no recovery is ever allowed.
Expected == Len(AgentOrder) * Rounds
Key == [r \in Requests |-> [run |-> r.run, agent |-> r.agent, round |-> r.round]]
Phase == [r \in Requests |-> "agent_turn"]
MaxTokens == [r \in Requests |-> 1]

INSTANCE LedgerReceipts WITH
  RequestCap <- Expected, ReservationCap <- Expected, MaxRecovery <- 0

VARIABLES ledger,       \* [run -> its receipts]
          audit,        \* [run -> its response audit]
          decisions,    \* [run -> requests with a recorded decision]
          checkpoint,   \* [run -> the answers kept for a resume]
          torn,         \* [run -> its logs that end in a partial line]
          record,       \* [run -> run_record.json is there]
          root,         \* the output root is there
          batch,        \* the batch record, as a set of at most one
          receipt,      \* calibration_receipt.json is there
          amendment,    \* what the timeout resume is locked to, at most one
          session,
          said,         \* the answers that came (history)
          retried,      \* transports of the amended request by amended resumes (history)
          faults

runVars == <<ledger, audit, decisions, checkpoint, torn, record>>
batchVars == <<root, batch, receipt, amendment>>
calibrationVars == <<runVars, batchVars, session, said, retried, faults>>

Answers == [valid : BOOLEAN, share : BOOLEAN, cut : BOOLEAN]
NoAnswer == [valid |-> FALSE, share |-> FALSE, cut |-> FALSE]

NoSession == [at |-> "closed", resume |-> FALSE, amended |-> FALSE, index |-> 1,
              mem |-> Afresh, calls |-> 0, answer |-> NoAnswer, code |-> "none"]

Init ==
  /\ ledger = [run \in Runs |-> <<>>]
  /\ audit = [run \in Runs |-> <<>>]
  /\ decisions = [run \in Runs |-> {}]
  /\ checkpoint = [run \in Runs |-> {}]
  /\ torn = [run \in Runs |-> {}]
  /\ record = [run \in Runs |-> FALSE]
  /\ root = FALSE /\ batch = {} /\ receipt = FALSE /\ amendment = {}
  /\ session = NoSession
  /\ said = {} /\ retried = 0 /\ faults = 0

-----------------------------------------------------------------------------
(* Sessions and the loop over the runs. *)

Go(step) == session' = [session EXCEPT !.at = step]

Fault(kind) ==
  /\ kind \in FaultKinds /\ faults < MaxFaults
  /\ faults' = faults + 1

Current == RunOrder[session.index]

AllConsidered == session.index > Len(RunOrder)

TheBatch == CHOOSE b \in batch : TRUE

WriteBatch(status, code, state) ==
  batch' = {[status |-> status, code |-> code,
             runs |-> [TheBatch.runs EXCEPT ![Current] = state]]}

Start ==
  /\ session.at = "closed" /\ ~root
  /\ root' = TRUE
  /\ Go("create")
  /\ UNCHANGED <<runVars, batch, receipt, amendment, said, retried, faults>>

CreateBatch ==
  /\ session.at = "create"
  /\ batch' = {[status |-> "running", code |-> "none", runs |-> [run \in Runs |-> "planned"]]}
  /\ Go("loop")
  /\ UNCHANGED <<runVars, root, receipt, amendment, said, retried, faults>>

(* execute_real(resume=True): whatever the batch record says. *)
Resume ==
  /\ session.at = "closed" /\ batch # {}
  /\ session' = [NoSession EXCEPT !.at = "loop", !.resume = TRUE]
  /\ UNCHANGED <<runVars, batchVars, said, retried, faults>>

(* A run with a record is taken as it is, whatever the batch says of it. *)
SkipRecorded ==
  /\ session.at = "loop" /\ ~AllConsidered /\ record[Current]
  /\ session' = [session EXCEPT !.index = @ + 1]
  /\ UNCHANGED <<runVars, batchVars, said, retried, faults>>

MarkRunning ==
  /\ session.at = "loop" /\ ~AllConsidered /\ ~record[Current]
  /\ WriteBatch("running", "none", "running")
  /\ session' = [session EXCEPT !.at = "ask", !.mem = Afresh, !.calls = 0]
  /\ UNCHANGED <<runVars, root, receipt, amendment, said, retried, faults>>

-----------------------------------------------------------------------------
(* One request. *)

Request == Pending(Current, session.mem)

Receipts(r) == ledger[r.run]

Provides == [resume |-> session.resume, allowed |-> {}, consumed |-> FALSE]

Kept(run) == {entry.req : entry \in checkpoint[run]}

Asking == session.at = "ask" /\ ~Done(session.mem)

\* A slip: only the resume of an amendment loads the checkpoint.
CachedIfAmended == session.amended /\ Request \in Kept(Current)

Cached == session.resume /\ Request \in Kept(Current)

TakeCached ==
  /\ Asking /\ Cached
  /\ \E entry \in checkpoint[Current] :
       /\ entry.req = Request
       /\ session' = [session EXCEPT !.mem = Advance(Current, @, entry.share)]
  /\ UNCHANGED <<runVars, batchVars, said, retried, faults>>

Admitted == "ledger" \notin torn[Current] /\ Refusal(ledger[Current], Provides, Request) = "none"

Refuse ==
  /\ Asking /\ ~Cached /\ ~Admitted
  /\ session' = [session EXCEPT !.at = "audit", !.answer = NoAnswer, !.code = "other"]
  /\ UNCHANGED <<runVars, batchVars, said, retried, faults>>

(* TimeoutResumeFingerprintGuard, which the run that failed is given. *)
Guarded == session.amended /\ \E am \in amendment : am.run = Current

GuardAdmits(r) ==
  Guarded => \A am \in amendment :
    IF session.calls = 1 THEN r = am.req
    ELSE r # am.req /\ r \notin {entry.req : entry \in am.checkpoint}

Ask ==
  /\ Asking /\ ~Cached /\ Admitted
  /\ ledger' = [ledger EXCEPT ![Current] = Append(@, StartReceipt(@, Request))]
  /\ session' = [session EXCEPT !.at = "sent", !.calls = @ + 1]
  /\ retried' = retried + IF session.amended /\ \E am \in amendment : am.req = Request
                           THEN 1 ELSE 0
  /\ UNCHANGED <<audit, decisions, checkpoint, torn, record, batchVars, said, faults>>

EndCall(outcome) ==
  ledger' = [ledger EXCEPT ![Current] = Append(@, EndReceipt(Last(@), outcome))]

(* An answer parses or not, and may be cut off at the token limit and parse. *)
Answer ==
  /\ session.at = "sent" /\ GuardAdmits(Request)
  /\ \E ans \in Answers :
       /\ \/ ans.valid /\ ~ans.cut /\ UNCHANGED faults
          \/ ans.valid /\ ans.cut /\ Fault("cut")
          \/ ~ans.valid /\ ~ans.cut /\ ~ans.share /\ Fault("invalid")
       /\ ans.share => Request.round = 0 /\ Targets[Request.agent] # {}
       /\ session' = [session EXCEPT !.at = "audit", !.answer = ans, !.code = "other"]
       /\ said' = said \cup {[req |-> Request, share |-> ans.share, cut |-> ans.cut]}
  /\ EndCall("completed")
  /\ UNCHANGED <<audit, decisions, checkpoint, torn, record, batchVars, retried>>

ProviderFails ==
  /\ session.at = "sent"
  /\ IF GuardAdmits(Request) THEN Fault("timeout") ELSE UNCHANGED faults
  /\ EndCall("failed")
  /\ session' = [session EXCEPT !.at = "audit", !.answer = NoAnswer,
                   !.code = IF GuardAdmits(Request) THEN "timeout" ELSE "other"]
  /\ UNCHANGED <<audit, decisions, checkpoint, torn, record, batchVars, said, retried>>

Audited(run) == {audit[run][i].req : i \in DOMAIN audit[run]}

(* AuditedHG232Runtime.execute: one entry a fingerprint, the first. *)
AppendAudit ==
  /\ session.at = "audit"
  /\ IF "audit" \in torn[Current]
     THEN /\ session' = [session EXCEPT !.at = "failing", !.code = "other"]
          /\ UNCHANGED audit
     ELSE /\ audit' = IF Request \in Audited(Current) THEN audit
                      ELSE [audit EXCEPT ![Current] =
                              Append(@, [req |-> Request, cut |-> session.answer.cut])]
          /\ Go("judge")
  /\ UNCHANGED <<ledger, decisions, checkpoint, torn, record, batchVars, said, retried, faults>>

(* The last entry of the audit is looked at for a finish by length. *)
CutOff == Last(audit[Current]).cut

\* A slip: an answer is kept for the resume without its decision.
RecordNoDecision ==
  /\ session.at = "judge"
  /\ IF CutOff THEN session' = [session EXCEPT !.at = "failing", !.code = "other"]
     ELSE IF ~session.answer.valid \/ "decisions" \in torn[Current] THEN Go("failing")
     ELSE Go("save")
  /\ UNCHANGED <<runVars, batchVars, said, retried, faults>>

(* RecordingHG232Runtime.execute: only a whole and valid answer goes on. *)
RecordDecision ==
  /\ session.at = "judge"
  /\ IF CutOff THEN /\ session' = [session EXCEPT !.at = "failing", !.code = "other"]
                    /\ UNCHANGED decisions
     ELSE IF ~session.answer.valid \/ "decisions" \in torn[Current]
     THEN Go("failing") /\ UNCHANGED decisions
     ELSE /\ decisions' = [decisions EXCEPT ![Current] = @ \cup {Request}]
          /\ Go("save")
  /\ UNCHANGED <<ledger, audit, checkpoint, torn, record, batchVars, said, retried, faults>>

SaveCheckpoint ==
  /\ session.at = "save"
  /\ checkpoint' = [checkpoint EXCEPT ![Current] =
                      @ \cup {[req |-> Request, share |-> session.answer.share]}]
  /\ session' = [session EXCEPT !.at = "ask", !.answer = NoAnswer, !.code = "none",
                   !.mem = Advance(Current, @, session.answer.share)]
  /\ UNCHANGED <<ledger, audit, decisions, torn, record, batchVars, said, retried, faults>>

-----------------------------------------------------------------------------
(* The end of a run and of the batch. *)

(* A run counts its decisions, then writes its record. *)
FinishRun ==
  /\ session.at = "ask" /\ Done(session.mem)
  /\ IF Cardinality(decisions[Current]) = Expected
     THEN /\ record' = [record EXCEPT ![Current] = TRUE]
          /\ Go("recorded")
     ELSE /\ session' = [session EXCEPT !.at = "failing", !.code = "other"]
          /\ UNCHANGED record
  /\ UNCHANGED <<ledger, audit, decisions, checkpoint, torn, batchVars, said, retried, faults>>

MarkCompleted ==
  /\ session.at = "recorded"
  /\ WriteBatch("running", "none", "completed")
  /\ session' = [session EXCEPT !.at = "loop", !.index = @ + 1]
  /\ UNCHANGED <<runVars, root, receipt, amendment, said, retried, faults>>

MarkFailed ==
  /\ session.at = "failing"
  /\ WriteBatch("failed", session.code, "failed")
  /\ session' = NoSession
  /\ UNCHANGED <<runVars, root, receipt, amendment, said, retried, faults>>

AllCounted == \A run \in Runs : Cardinality(StartedRequests(ledger[run])) = Expected

(* An amended resume leaves the receipt to execute_resume. *)
WriteReceipt ==
  /\ session.at = "loop" /\ AllConsidered
  /\ receipt' = (receipt \/ (AllCounted /\ ~session.amended))
  /\ IF AllCounted THEN Go("complete") ELSE session' = NoSession
  /\ UNCHANGED <<runVars, root, batch, amendment, said, retried, faults>>

CompleteBatch ==
  /\ session.at = "complete"
  /\ batch' = {[TheBatch EXCEPT !.status = "completed", !.code = "none"]}
  /\ IF session.amended THEN Go("final") ELSE session' = NoSession
  /\ UNCHANGED <<runVars, root, receipt, amendment, said, retried, faults>>

WriteFinalReceipt ==
  /\ session.at = "final"
  /\ receipt' = TRUE
  /\ session' = NoSession
  /\ UNCHANGED <<runVars, root, batch, amendment, said, retried, faults>>

-----------------------------------------------------------------------------
(* The timeout resume v4. *)

FailedReceipts(run) == {i \in DOMAIN ledger[run] : ledger[run][i].status = "failed"}

CompletedRequests(run) ==
  {ledger[run][i].req : i \in {j \in DOMAIN ledger[run] : ledger[run][j].status = "completed"}}

(* The state the amendment is written for: one run failed by its one timeout *)
(* at the first attempt, with the runs before it completed, those after it   *)
(* not begun, and every completed answer in its checkpoint.                  *)
TimedOut(i) ==
  LET run == RunOrder[i]
  IN  /\ TheBatch.status = "failed" /\ TheBatch.code = "timeout"
      /\ \A j \in DOMAIN RunOrder :
           TheBatch.runs[RunOrder[j]] =
             IF j < i THEN "completed" ELSE IF j = i THEN "failed" ELSE "planned"
      /\ "ledger" \notin torn[run]
      /\ Cardinality(FailedReceipts(run)) = 1
      /\ \A k \in FailedReceipts(run) : ledger[run][k].attempt = 1
      /\ CompletedRequests(run) = Kept(run)

(* What the amendment pins by hash of the run that failed. *)
Found(run) == [batch |-> batch, ledger |-> ledger[run], checkpoint |-> checkpoint[run],
               audit |-> audit[run], torn |-> torn[run] \ {"decisions"}]

LockAmendment ==
  /\ session.at = "closed" /\ batch # {} /\ amendment = {}
  /\ \E i \in DOMAIN RunOrder :
       /\ TimedOut(i)
       /\ LET run == RunOrder[i]
          IN  amendment' = {[run |-> run, found |-> Found(run), checkpoint |-> checkpoint[run],
                             req |-> ledger[run][CHOOSE k \in FailedReceipts(run) : TRUE].req]}
  /\ UNCHANGED <<runVars, root, batch, receipt, session, said, retried, faults>>

\* A slip: the batch record alone is compared.
SameBatch(am) == batch = am.found.batch

(* _initial_audit *)
StillInitial(am) == Found(am.run) = am.found

ResumeAmended ==
  /\ session.at = "closed"
  /\ \E am \in amendment : StillInitial(am)
  /\ session' = [NoSession EXCEPT !.at = "loop", !.resume = TRUE, !.amended = TRUE]
  /\ UNCHANGED <<runVars, batchVars, said, retried, faults>>

-----------------------------------------------------------------------------

(* The log the next step of the session appends a line to. *)
AppendsTo ==
  CASE Asking /\ ~Cached /\ Admitted -> {"ledger"}
    [] session.at = "sent" -> {"ledger"}
    [] session.at = "audit" /\ Request \notin Audited(Current) -> {"audit"}
    [] session.at = "judge" /\ ~CutOff /\ session.answer.valid -> {"decisions"}
    [] OTHER -> {}

(* The process dies between two steps, or with a line half appended. *)
Crash ==
  /\ session.at # "closed" /\ Fault("crash")
  /\ session' = NoSession
  /\ \/ UNCHANGED torn
     \/ /\ \E log \in AppendsTo : torn' = [torn EXCEPT ![Current] = @ \cup {log}]
  /\ UNCHANGED <<ledger, audit, decisions, checkpoint, record, batchVars, said, retried>>

SessionStep ==
  \/ CreateBatch \/ SkipRecorded \/ MarkRunning
  \/ TakeCached \/ Refuse \/ Ask \/ Answer \/ AppendAudit \/ RecordDecision \/ SaveCheckpoint
  \/ FinishRun \/ MarkCompleted \/ MarkFailed
  \/ WriteReceipt \/ CompleteBatch \/ WriteFinalReceipt

Next ==
  \/ Start \/ Resume \/ SessionStep
  \/ ProviderFails \/ Crash
  \/ LockAmendment \/ ResumeAmended

CalibrationSpec == Init /\ [][Next]_calibrationVars

(* The process runs on, and its operator resumes whenever it stopped. *)
FairCalibrationSpec ==
  CalibrationSpec /\ WF_calibrationVars(Start \/ Resume \/ SessionStep)

-----------------------------------------------------------------------------
(* The actors whose share had reached an agent before a round. *)
Reached(run, a, round) ==
  {b \in Agents :
     /\ round > 0 /\ a \in Targets[b]
     /\ \E s \in said : s.req.run = run /\ s.req.agent = b /\ s.req.round = 0 /\ s.share}

(* Over every crash and resume, what an agent is asked depends on the        *)
(* answers of earlier rounds alone, and on all of them: no request shows a   *)
(* share of its own round or misses an earlier one, and none carries a       *)
(* directive but that of the views of the round before.                      *)
SeenFromEarlierRounds ==
  \A run \in Runs : \A i \in DOMAIN ledger[run] :
    LET r == ledger[run][i].req
    IN  /\ r.seen = Reached(run, r.agent, r.round)
        /\ r.told <=> r.round > 0 /\ Reached(run, r.agent, r.round - 1) \in Policy[run]

(* The four logs of a run tell one story: what is kept for a resume has its  *)
(* decision, a decision its audit and its completed receipt, and at most one *)
(* completed answer is not kept.  An answer that was cut off at the token    *)
(* limit has no decision, unless its request was sent before and the audit   *)
(* is still that of the attempt that failed.                                 *)
LogsInStep ==
  \A run \in Runs :
    /\ Kept(run) \subseteq decisions[run]
    /\ decisions[run] \subseteq Audited(run) \cap CompletedRequests(run)
    /\ Cardinality(CompletedRequests(run) \ Kept(run)) <= 1
    /\ \A s \in said : s.cut /\ s.req.run = run /\ s.req \in decisions[run] =>
         \E i \in TerminalsOf(ledger[run], s.req) : ledger[run][i].status = "failed"

(* The amendment buys one transport of the request that timed out, whatever  *)
(* becomes of it, and none of a request it found completed.                  *)
RetriedOnce ==
  /\ retried <= 1
  /\ \A am \in amendment : \A entry \in am.checkpoint :
       Cardinality(StartsOf(ledger[am.run], entry.req)) =
         Cardinality(StartsOf(am.found.ledger, entry.req))

(* No session leads out of these: a root without a batch record, a log that  *)
(* ends in a partial line, a completed answer that was not kept.             *)
InHand(r) ==
  /\ session.at \in {"audit", "judge", "save"} /\ session.answer.valid
  /\ Current = r.run /\ Request = r

Stuck ==
  \/ root /\ batch = {} /\ session.at # "create"
  \/ \E run \in Runs :
       \/ torn[run] # {}
       \/ \E r \in CompletedRequests(run) \ Kept(run) : ~InHand(r)

(* And nothing else is lost: an operator who keeps resuming gets the receipt *)
(* and a batch that says completed, or is stuck for good.                    *)
CalibratedUnlessStuck ==
  <>(receipt /\ \E b \in batch : b.status = "completed") \/ <>[]Stuck
=============================================================================
