----------------------------- MODULE MeasuredRun -----------------------------
(***************************************************************************)
(* One measured condition (measured_protocol_experiment.py): private       *)
(* probes, one public trajectory of agent turns, the same probes again.    *)
(* It runs over the request ledger, the private checkpoint files           *)
(* (private_probe_recovery.py) and its output directory, and is launched   *)
(* again, fresh or to resume, after any failure or crash.                  *)
(*                                                                         *)
(* A request is its coordinate: the content of a probe or a turn is fixed  *)
(* by its coordinate and by the trajectory, and a run has one trajectory   *)
(* (TurnsNeverReplayed).                                                   *)
(***************************************************************************)
EXTENDS Naturals, Sequences, FiniteSets, FiniteSetsExt

CONSTANTS Runs, NoRun,
          LedgerOf,        \* [Runs -> ledger files]
          ProbeCount,      \* probes of one phase, over all agents
          TurnCount,       \* agent turns, over all rounds
          RequestCap, ReservationCap, MaxRecovery,
          FaultKinds,      \* what may go wrong
          MaxFaults        \* bound: how often

\* The caps are what the ledger's constructor takes; a manifest names its runs.
ASSUME RunAssumption ==
  /\ NoRun \notin Runs /\ IsFiniteSet(Runs)
  /\ RequestCap \in Nat \ {0} /\ ReservationCap \in Nat \ {0} /\ MaxRecovery \in Nat
  /\ ProbeCount \in Nat \ {0} /\ TurnCount \in Nat \ {0}
  /\ FaultKinds \subseteq {"probe", "turn", "receipt", "invalid", "save", "crash"}
  /\ MaxFaults \in Nat

Probes == 1..ProbeCount
Turns == 1..TurnCount

Requests == [run : Runs, phase : {"pre", "post"}, at : Probes]
              \cup [run : Runs, phase : {"turn"}, at : Turns]
Key == [r \in Requests |-> r]
Phase == [r \in Requests |-> IF r.phase = "turn" THEN "agent_turn" ELSE "probe"]
MaxTokens == [r \in Requests |-> 1]

INSTANCE LedgerReceipts

VARIABLES ledger,      \* [ledger file -> its receipts]
          checkpoint,  \* [run -> [phase -> its checkpoint file]]
          output,      \* [run -> what its output directory holds]
          proc,        \* the one process, NoRun when none runs
          call,        \* where the process is in a request
          faults       \* faults so far

vars == <<ledger, checkpoint, output, proc, call, faults>>

Files == {LedgerOf[r] : r \in Runs}

Checkpoint == [exists : BOOLEAN, saved : SUBSET Probes]
NoCheckpoint == [exists |-> FALSE, saved |-> {}]

\* A record that is absent or cannot be read back is "none".
Output == [dir : BOOLEAN,
           record : {"none", "failed", "completed"},
           profiles : {"none", "partial", "written"},
           measurement : {"none", "failed", "completed"}]
NoOutput == [dir |-> FALSE, record |-> "none", profiles |-> "none",
             measurement |-> "none"]

Steps == {"idle", "open_pre", "pre", "turn", "turn_failed", "agent_failed",
          "open_post", "post", "post_failed", "profiling", "recording",
          "clear_pre", "clear_post", "returned"}

Results == {"none", "completed", "pre_probe_failed", "agent_run_failed",
            "post_probe_failed", "raised"}

Errors == {"none", "invalid_request", "provider_failure", "invalid_schema",
           "checkpoint_write_failed", "checkpoint_already_exists",
           "checkpoint_missing", "agent_recovery_not_supported",
           "agent_run_failed", "condition_execution_failed"}

Process == [at : Steps, run : Runs \cup {NoRun}, resume : BOOLEAN,
            reuse : BOOLEAN,        \* the output directory was there already
            provider : Provider, turns : 0..TurnCount,
            result : Results, error : Errors]

Idle == [at |-> "idle", run |-> NoRun, resume |-> FALSE, reuse |-> FALSE,
         provider |-> [resume |-> FALSE, allowed |-> {}, consumed |-> FALSE],
         turns |-> 0, result |-> "none", error |-> "none"]

TypeOK ==
  /\ ledger \in [Files -> Seq(Receipt)]
  /\ checkpoint \in [Runs -> [{"pre", "post"} -> Checkpoint]]
  /\ output \in [Runs -> Output]
  /\ proc \in Process
  /\ call \in {"none", "sent", "answered"}
  /\ faults \in 0..MaxFaults

Init ==
  /\ ledger = [f \in Files |-> <<>>]
  /\ checkpoint = [r \in Runs |-> [ph \in {"pre", "post"} |-> NoCheckpoint]]
  /\ output = [r \in Runs |-> NoOutput]
  /\ proc = Idle
  /\ call = "none"
  /\ faults = 0

-----------------------------------------------------------------------------

Fault(kind) ==
  /\ kind \in FaultKinds /\ faults < MaxFaults
  /\ faults' = faults + 1

Leave(result, error) ==
  proc' = [proc EXCEPT !.at = "returned", !.result = result, !.error = error]

\* Where a failure in each phase goes on: a pre-probe failure returns at once.
Fail(error) ==
  CASE proc.at \in {"open_pre", "pre"}   -> Leave("pre_probe_failed", error)
    [] proc.at = "turn"                  -> proc' = [proc EXCEPT !.at = "turn_failed"]
    [] proc.at \in {"open_post", "post"} -> proc' = [proc EXCEPT !.at = "post_failed",
                                                                !.error = error]

\* run(): an existing output directory needs resume.
Launch(run, resume, provider) ==
  /\ proc.at = "idle"
  /\ LET started == [Idle EXCEPT !.at = "open_pre", !.run = run, !.resume = resume,
                                 !.reuse = output[run].dir, !.provider = provider]
     IN  proc' = IF output[run].dir /\ ~resume
                 THEN [started EXCEPT !.at = "returned", !.result = "raised",
                                      !.error = "condition_execution_failed"]
                 ELSE started
  /\ UNCHANGED <<ledger, checkpoint, output, call, faults>>

\* The phase whose checkpoint the process is about to open.
OpeningPhase == IF proc.at = "open_pre" THEN "pre" ELSE "post"

File(phase) == checkpoint[proc.run][phase]

\* A slip that lets a resumed run start its baseline from nothing.
OpenRefusalLenient(phase) ==
  IF File(phase).exists /\ ~proc.resume THEN "checkpoint_already_exists" ELSE "none"

\* A slip that wants the checkpoint of either phase on a resume.
OpenRefusalStrict(phase) ==
  IF File(phase).exists /\ ~proc.resume THEN "checkpoint_already_exists"
  ELSE IF proc.resume /\ ~File(phase).exists THEN "checkpoint_missing"
  ELSE "none"

OpenRefusal(phase) ==
  IF File(phase).exists /\ ~proc.resume THEN "checkpoint_already_exists"
  ELSE IF proc.resume /\ phase = "pre" /\ ~File(phase).exists THEN "checkpoint_missing"
  ELSE "none"

OpenCheckpoint ==
  /\ proc.at \in {"open_pre", "open_post"}
  /\ OpenRefusal(OpeningPhase) = "none"
  /\ checkpoint' = [checkpoint EXCEPT ![proc.run][OpeningPhase].exists = TRUE]
  /\ proc' = [proc EXCEPT !.at = OpeningPhase]
  /\ UNCHANGED <<ledger, output, call, faults>>

RefuseCheckpoint ==
  /\ proc.at \in {"open_pre", "open_post"}
  /\ OpenRefusal(OpeningPhase) # "none"
  /\ Fail(OpenRefusal(OpeningPhase))
  /\ UNCHANGED <<ledger, checkpoint, output, call, faults>>

-----------------------------------------------------------------------------

Log == ledger[LedgerOf[proc.run]]

Probing == proc.at \in {"pre", "post"}

\* What the loop over agents and items, or over rounds and agents, asks next:
\* restored answers are skipped.
Pending ==
  [run |-> proc.run, phase |-> proc.at,
   at |-> IF Probing THEN Min(Probes \ File(proc.at).saved) ELSE proc.turns + 1]

\* A slip that goes on once one answer is missing.
AnyLeft ==
  IF Probing THEN Cardinality(File(proc.at).saved) + 1 < ProbeCount
             ELSE proc.turns < TurnCount

PhaseLeft ==
  IF Probing THEN File(proc.at).saved # Probes ELSE proc.turns < TurnCount

\* The agent provider is wrapped without an allow-list.
ProviderNow ==
  IF Probing THEN proc.provider ELSE [proc.provider EXCEPT !.allowed = {}]

AtRequest == proc.at \in {"pre", "turn", "post"} /\ call = "none" /\ PhaseLeft

RefusalNow == Refusal(Log, ProviderNow, Pending)

Ask ==
  /\ AtRequest /\ RefusalNow = "none"
  /\ ledger' = [ledger EXCEPT ![LedgerOf[proc.run]] = Append(@, StartReceipt(Log, Pending))]
  /\ proc' = [proc EXCEPT !.provider = Consume(Log, @, Pending)]
  /\ call' = "sent"
  /\ UNCHANGED <<checkpoint, output, faults>>

RefuseRequest ==
  /\ AtRequest /\ RefusalNow # "none"
  /\ Fail("invalid_request")
  /\ UNCHANGED <<ledger, checkpoint, output, call, faults>>

\* The started receipt of the call in flight is the last line of the file.
EndCall(outcome) ==
  ledger' = [ledger EXCEPT ![LedgerOf[proc.run]] =
               Append(@, EndReceipt(@[Len(@)], outcome))]

Answer ==
  /\ call = "sent"
  /\ EndCall("completed")
  /\ call' = "answered"
  /\ UNCHANGED <<checkpoint, output, proc, faults>>

ProviderFails ==
  /\ call = "sent" /\ Fault(IF Probing THEN "probe" ELSE "turn")
  /\ EndCall("failed")
  /\ Fail("provider_failure")
  /\ call' = "none"
  /\ UNCHANGED <<checkpoint, output>>

\* A receipt, started or terminal, cannot be written: the error leaves
\* complete() and counts as a provider failure.
ReceiptUnwritten ==
  /\ (call = "none" => AtRequest /\ RefusalNow = "none") /\ call # "answered"
  /\ proc.at # "idle" /\ Fault("receipt")
  /\ Fail("provider_failure")
  /\ call' = "none"
  /\ UNCHANGED <<ledger, checkpoint, output>>

\* The answer came, and the parser refuses it.
AnswerInvalid ==
  /\ call = "answered" /\ Fault("invalid")
  /\ Fail("invalid_schema")
  /\ call' = "none"
  /\ UNCHANGED <<ledger, checkpoint, output>>

SaveAnswer ==
  /\ call = "answered" /\ Probing
  /\ checkpoint' = [checkpoint EXCEPT ![proc.run][proc.at].saved = @ \cup {Pending.at}]
  /\ call' = "none"
  /\ UNCHANGED <<ledger, output, proc, faults>>

\* A checkpoint cannot be written: not when it is first made, or not with an
\* answer added.
SaveFails ==
  /\ \/ call = "answered" /\ Probing
     \/ /\ proc.at \in {"open_pre", "open_post"} /\ OpenRefusal(OpeningPhase) = "none"
        /\ ~File(OpeningPhase).exists
  /\ Fault("save")
  /\ Fail("checkpoint_write_failed")
  /\ call' = "none"
  /\ UNCHANGED <<ledger, checkpoint, output>>

TakeTurn ==
  /\ call = "answered" /\ proc.at = "turn"
  /\ proc' = [proc EXCEPT !.turns = @ + 1]
  /\ call' = "none"
  /\ UNCHANGED <<ledger, checkpoint, output, faults>>

-----------------------------------------------------------------------------

PhaseDone(phase) == proc.at = phase /\ call = "none" /\ ~PhaseLeft

\* RealAgentProtocolRunner.run() makes the output directory first.
BeginTrajectory ==
  /\ PhaseDone("pre") /\ ~proc.reuse
  /\ output' = [output EXCEPT ![proc.run].dir = TRUE]
  /\ proc' = [proc EXCEPT !.at = "turn"]
  /\ UNCHANGED <<ledger, checkpoint, call, faults>>

\* A slip that takes any trajectory it finds.
ReuseAny ==
  /\ PhaseDone("pre") /\ proc.reuse
  /\ proc' = [proc EXCEPT !.at = "open_post"]
  /\ UNCHANGED <<ledger, checkpoint, output, call, faults>>

\* A slip that takes up a trajectory it finds broken off.
ReuseOrReplay ==
  /\ PhaseDone("pre") /\ proc.reuse
  /\ proc' = [proc EXCEPT !.at = IF output[proc.run].record = "completed"
                                 THEN "open_post" ELSE "turn"]
  /\ UNCHANGED <<ledger, checkpoint, output, call, faults>>

ReuseTrajectory ==
  /\ PhaseDone("pre") /\ proc.reuse /\ output[proc.run].record = "completed"
  /\ proc' = [proc EXCEPT !.at = "open_post"]
  /\ UNCHANGED <<ledger, checkpoint, output, call, faults>>

RefuseTrajectory ==
  /\ PhaseDone("pre") /\ proc.reuse /\ output[proc.run].record # "completed"
  /\ Leave("agent_run_failed", "agent_recovery_not_supported")
  /\ UNCHANGED <<ledger, checkpoint, output, call, faults>>

FinishTrajectory ==
  /\ PhaseDone("turn")
  /\ output' = [output EXCEPT ![proc.run].record = "completed"]
  /\ proc' = [proc EXCEPT !.at = "open_post"]
  /\ UNCHANGED <<ledger, checkpoint, call, faults>>

\* The agent runner writes its failed record and raises; the measured runner
\* then writes a failed measurement record.
RecordFailedTrajectory ==
  /\ proc.at = "turn_failed"
  /\ output' = [output EXCEPT ![proc.run].record = "failed"]
  /\ proc' = [proc EXCEPT !.at = "agent_failed"]
  /\ UNCHANGED <<ledger, checkpoint, call, faults>>

RecordAgentFailure ==
  /\ proc.at = "agent_failed"
  /\ output' = [output EXCEPT ![proc.run].measurement = "failed"]
  /\ Leave("agent_run_failed", "agent_run_failed")
  /\ UNCHANGED <<ledger, checkpoint, call, faults>>

RecordPostFailure ==
  /\ proc.at = "post_failed"
  /\ output' = [output EXCEPT ![proc.run].measurement = "failed"]
  /\ Leave("post_probe_failed", proc.error)
  /\ UNCHANGED <<ledger, checkpoint, call, faults>>

\* mkdir(exist_ok=False), whose error leaves run().
MakeProfiles ==
  /\ PhaseDone("post")
  /\ IF output[proc.run].profiles = "none"
     THEN /\ output' = [output EXCEPT ![proc.run].profiles = "partial"]
          /\ proc' = [proc EXCEPT !.at = "profiling"]
     ELSE /\ Leave("raised", "condition_execution_failed")
          /\ UNCHANGED output
  /\ UNCHANGED <<ledger, checkpoint, call, faults>>

FillProfiles ==
  /\ proc.at = "profiling"
  /\ output' = [output EXCEPT ![proc.run].profiles = "written"]
  /\ proc' = [proc EXCEPT !.at = "recording"]
  /\ UNCHANGED <<ledger, checkpoint, call, faults>>

RecordMeasurement ==
  /\ proc.at = "recording"
  /\ output' = [output EXCEPT ![proc.run].measurement = "completed"]
  /\ proc' = [proc EXCEPT !.at = "clear_pre"]
  /\ UNCHANGED <<ledger, checkpoint, call, faults>>

\* clear() unlinks the phases in the order of ProbeRecoveryPhase.
Clear ==
  /\ proc.at \in {"clear_pre", "clear_post"}
  /\ LET phase == IF proc.at = "clear_pre" THEN "pre" ELSE "post"
     IN  checkpoint' = [checkpoint EXCEPT ![proc.run][phase] = NoCheckpoint]
  /\ IF proc.at = "clear_pre" THEN proc' = [proc EXCEPT !.at = "clear_post"]
                              ELSE Leave("completed", "none")
  /\ UNCHANGED <<ledger, output, call, faults>>

\* The caller has the result.
Return ==
  /\ proc.at = "returned"
  /\ proc' = Idle
  /\ UNCHANGED <<ledger, checkpoint, output, call, faults>>

\* The process dies; what it held in memory is gone.
Crash ==
  /\ proc.at # "idle" /\ Fault("crash")
  /\ proc' = Idle
  /\ call' = "none"
  /\ UNCHANGED <<ledger, checkpoint, output>>

\* What the process does while nothing fails around it, and what may fail.
Work ==
  \/ OpenCheckpoint \/ RefuseCheckpoint
  \/ Ask \/ RefuseRequest \/ Answer \/ SaveAnswer \/ TakeTurn
  \/ BeginTrajectory \/ ReuseTrajectory \/ RefuseTrajectory \/ FinishTrajectory
  \/ RecordFailedTrajectory \/ RecordAgentFailure \/ RecordPostFailure
  \/ MakeProfiles \/ FillProfiles \/ RecordMeasurement \/ Clear

Mishap == ProviderFails \/ ReceiptUnwritten \/ AnswerInvalid \/ SaveFails

\* An operator starts the run with or without resume, with a provider that was
\* given the same flag and no recovery to make.
Operate(run, resume) ==
  Launch(run, resume, [resume |-> resume, allowed |-> {}, consumed |-> FALSE])

Next ==
  \/ \E run \in Runs, resume \in BOOLEAN : Operate(run, resume)
  \/ Work
  \/ Return
  \/ Mishap
  \/ Crash

Spec == Init /\ [][Next]_vars

\* The process runs on, and its operator keeps trying both ways.
FairSpec ==
  /\ Spec
  /\ WF_vars(Work \/ Return)
  /\ \A run \in Runs, resume \in BOOLEAN : SF_vars(Operate(run, resume))

-----------------------------------------------------------------------------

ReceiptsOf(r) == ledger[LedgerOf[r.run]]

Started(r) == StartsOf(ReceiptsOf(r), r) # {}

Completed(r) ==
  \E i \in TerminalsOf(ReceiptsOf(r), r) : ReceiptsOf(r)[i].status = "completed"

Saved(run, phase) == checkpoint[run][phase].saved

ProbeOf(run, phase, i) == [run |-> run, phase |-> phase, at |-> i]

\* The checkpoint and the ledger agree but for one probe: while a checkpoint
\* exists it holds the first n answers, each with a completed receipt, and no
\* probe beyond the next one was ever started.  Resuming relies on it to know
\* what to ask, parser recovery to name the one answer that is missing.
FrontierHolds ==
  \A run \in Runs, phase \in {"pre", "post"} :
    checkpoint[run][phase].exists =>
      \E n \in 0..ProbeCount :
        /\ Saved(run, phase) = 1..n
        /\ \A i \in Probes :
             /\ i <= n => Completed(ProbeOf(run, phase, i))
             /\ i > n + 1 => ~Started(ProbeOf(run, phase, i))

\* A run has one trajectory: no turn is ever sent twice, over all launches,
\* retries and crashes, and none before every baseline answer came.
TurnsNeverReplayed ==
  \A r \in Requests : r.phase = "turn" /\ Started(r) =>
    /\ Cardinality(StartsOf(ReceiptsOf(r), r)) = 1
    /\ \A i \in Probes : Completed(ProbeOf(r.run, "pre", i))

\* The private answers exist nowhere else, so from the first turn on every
\* baseline answer is in the checkpoint or in the written profiles, and so is
\* every final answer once the profiles are begun.
AnswersKept ==
  \A run \in Runs :
    /\ output[run].dir =>
         output[run].profiles = "written" \/ Saved(run, "pre") = Probes
    /\ output[run].profiles = "partial" => Saved(run, "post") = Probes

\* A measurement recorded as completed has its whole trajectory, its written
\* profiles and a completed receipt for every probe and turn of the run.
CompletedIsWhole ==
  \A run \in Runs : output[run].measurement = "completed" =>
    /\ output[run].record = "completed" /\ output[run].profiles = "written"
    /\ \A r \in Requests : r.run = run => Completed(r)

\* What a batch makes of the caps of a ledger file: room for every request of
\* the file's runs, once.
RequestsOf(f) == {r \in Requests : LedgerOf[r.run] = f}

CapsCoverRuns ==
  \A f \in Files : /\ Cardinality(RequestsOf(f)) <= RequestCap
                   /\ Cardinality(RequestsOf(f)) <= ReservationCap

\* The caps are the exact size of a run, and the resume flags are the
\* operator's; still a request is refused only because its answer came in
\* before: no retry is charged twice, no launch gets to a request it may not
\* make.
RefusedOnlyAsReplay ==
  AtRequest => RefusalNow \in {"none", "completed_request_fingerprint_exists"}

\* The runs no launch can finish: a trajectory that broke off, profiles that
\* were begun and not recorded, or a probe that was answered and not saved.
Wedged(run) ==
  LET running(steps) == proc.run = run /\ proc.at \in steps
      out == output[run]
  IN  /\ out.measurement # "completed"
      /\ \/ out.dir /\ out.record # "completed" /\ ~running({"turn"})
         \/ out.profiles # "none" /\ ~running({"profiling", "recording"})
         \/ \E phase \in {"pre", "post"}, i \in Probes :
              /\ Completed(ProbeOf(run, phase, i)) /\ i \notin Saved(run, phase)
              /\ ~(running({phase}) /\ call = "answered")

\* Wedged is right to say so: nothing the operator may launch leads out of it.
WedgedForever == [][\A run \in Runs : Wedged(run) => Wedged(run)']_vars

\* And nothing else is lost: an operator who keeps launching the run gets its
\* measurement, unless it is wedged for good.
FinishedUnlessWedged ==
  \A run \in Runs : <>(output[run].measurement = "completed") \/ <>[]Wedged(run)

\* What the protocol sees of each run: its private answers, wherever they are
\* kept, the turns it has taken, and whether its measurement is out.
Baseline == [run \in Runs |-> IF output[run].profiles = "written"
                              THEN Probes ELSE Saved(run, "pre")]

Spoken ==
  [run \in Runs |->
     Cardinality({t \in Turns : Completed([run |-> run, phase |-> "turn", at |-> t])})]

Final == [run \in Runs |-> IF output[run].profiles = "written"
                           THEN Probes ELSE Saved(run, "post")]

Published == [run \in Runs |-> output[run].measurement = "completed"]

\* The run implements the protocol it is to measure by.
Protocol == INSTANCE MeasurementProtocol WITH
  baseline <- Baseline, spoken <- Spoken, final <- Final, published <- Published

ImplementsProtocol == Protocol!Spec
=============================================================================
