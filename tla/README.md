# A verification project for evicon-lab

evicon-lab (`src/src/evicon`) runs experiments on groups of language-model
agents: scenarios with private opinions, rounds of public turns, probes before
and after, interventions in between, and evaluations over batches of such runs.
Requests to a real model cost money, and an answer that was received may never
be asked for again, so much of the code is about what happens when something
breaks off: a ledger of requests written ahead of each call, checkpoints of
private answers, resumes, one approved recovery, caps, and records that must
agree with each other.

This directory holds TLA+ models of that core, the TLC runs that check them and
TLAPS proofs about several of them. `PROJECT.json` lists every component, run, mutant,
mapped definition, hazard, finding and theorem.

## 1. Inventory

The program is a single process without threads, and a study is run by one
process at a time. What interleaves is not threads but *lives of the process*: a
launch, a crash or an error at some point, another launch that reads the files the
former one left behind. Two commands guard against another launch of themselves and are
modelled with launches that overlap: the one-shot gates (`O_EXCL` claims, `os.link`) and
the batch without resume (`mkdir(exist_ok=False)`, files opened with `"x"`).

| component | files (`src/src/evicon/`) | state | operations | what makes it correct |
|---|---|---|---|---|
| request ledger | `request_ledger.py` | a JSONL file of receipts; in the process: resume flag, recovery allow-list, its consumed flag | open, `complete()` = check, start receipt, call, terminal receipt | write-ahead; caps; linear attempts; a completed request is replayed only by approved recovery |
| private probe checkpoints | `private_probe_recovery.py` | one file per phase | `open`, `append`, `clear` | agrees with the ledger but for one probe |
| measured protocol experiment | `measured_protocol_experiment.py`, `contextual_probe_runtime.py` | output directory, run record, profiles, measurement record | `run()`: pre probes, trajectory, post probes, profiles, publication | answers never lost before they are published; published is whole and final |
| real agent run | `real_agent_runner.py`, `agent_runtime.py` | run record, turns | one request per turn, in order | no turn twice |
| WVS7 confirmatory batch | `wvs7_confirmatory_real_runner.py` | batch record, amendment, manifest, report, audit, receipt | run, resume, recover, evaluate, audit, issue the receipt | serial; truthful records; a receipt only for a whole batch; one recovery at most |
| WVS7 real pilot | `wvs7_real_pilot.py` | batch record, evaluation, summary | run, resume, evaluate, summarise | a failure stops its group; the summary means a whole group |
| adaptive controller and runner | `adaptive_runner*.py`, `adaptive_control.py` | round, budget ledger, pending plan, controller state, event log, record | rounds, control step, apply / reject / release a plan, failure handler | the budget is conserved and backed; each plan ends once; cooldown |
| monitor, policy, executor | `intervention_*.py`, `monitor*.py` | none | pure decisions | budget and cooldown guards |
| replay validation and event log | `replay*.py`, `events*.py` | the log | append; validate | a recorded run replays |
| public protocol runner, exposure | `runner.py`, `exposure.py`, `controlled_*.py`, `real_agent_runner.py` | turns, plans applied, event log, record, schedule snapshot | rounds of turns under a visibility rule; a plan applied in one round and in effect in the next; failure handler | a turn was made in sight of just what protocol and plan show; log and record agree |
| batch experiment runner | `batch_experiment.py` | batch directory and record, run directories | serial runs, no ledger, no resume | stops at the first failure; a record is backed by what was done; no trajectory twice |
| provenance cascade | `cascade_*.py`, `provenance_cascade*.py` | events of rounds, controller; ledger, response audit, decisions, checkpoint; batch record, receipts, amendment | rounds, calibration, plain resume, locked timeout resume | exposure of earlier rounds only; the logs agree; the request that timed out is sent once more and no other again |
| source conformity studies | `conformity_*.py` | configuration and approval, attempt claim, attempt receipt, output directory of each gate | compatibility gates, qualifications, each on the receipt of the one before | a gate that sent its request shows it; it is not used up for nothing; a pass is whole |
| study preparation | `wvs7_*.py` (authoring, review, locks), `study_*.py` | write-once lock files | author, review, lock, validate | a lock names what was reviewed |
| analysis | `evaluation/`, `metrics/` | none | pure numerical functions | (floating point) |
| model provider | `openai_provider.py`, `llm*.py` | retry counter | one request, retried | bounded attempts |
| mediator, portfolio | `mediator*.py`, `interview_portfolio.py` | none | a prompt, a report | |

### How the modelled components interact

```
 operator --launch/resume--> confirmatory batch / real pilot
                                 |  writes batch record, amendment, evaluation, ...
                                 v
                           measured run  ---> checkpoints (pre, post)
                             |        |-----> output directory, record, profiles
                             v
                         LedgeredProvider --> ledger file --> model provider

 adaptive run --control step--> policy --> plan --> BudgetLedger
      |                                               |
      +------------------ events.jsonl ---------------+--> replay validation

 public runners --> Exposure --> turns --> events.jsonl, run record --> replay validation
   (fixed / explicit schedule / real agent; a plan of one round shapes the next)

 batch experiment runner --run--> measured run without ledger or resume

 calibration --run--> rounds of a cascade --> LedgeredProvider --> ledger, audit,
   | batch record        ^  exposure, directives                  decisions, checkpoint
   +-- plain resume -----+
   +-- timeout resume v4 (amendment locked to the bytes it found)

 v1 -> q1        v1 -x-> v2 -x-> v3 -x-> v4 -> q2 -> b3
 (-> rests on the receipt of; -x-> wants the claim of one that failed)
```

A batch calls a measured run for one condition and learns its result; the
measured run calls the ledgered provider for every request and learns an answer
or an error; both leave files. A resume knows nothing but the files.

### What is hard here

* two files that are written one after the other, with a crash between them
  (ledger and checkpoint; checkpoint and checkpoint; condition and batch record;
  manifest and report; amendment and batch record);
* a file that is replaced in place and torn;
* the same request reached again over a resume, a retry and a recovery;
* caps counted over the life of a file while flags live in a process;
* guards that look at a directory where the record says otherwise;
* a budget reserved in one round and settled in the next, with a failure in
  between, and a handler that may itself fail;
* a request retried on the wire under one receipt;
* a run that is gone through again from its checkpoint and must come to the very
  requests it sent before;
* two launches of one gate: each looks for the result, then for the claim, and takes the
  claim later, while the other may send, pass and release in between;
* two batches that find the same run directories free and come upon them later;
* a view made before the turns of its round are added, or a plan that outlives its round.

`PROJECT.json` lists 40 hazards at their lines, with the properties that
cover them.

## 2. Modules

| module | models | state and actions against the code |
|---|---|---|
| `LedgerReceipts` | the receipts of a ledger file and every check of `LedgeredProvider.complete` (lines 190-260), as operators on a sequence of receipts | no state of its own; `Refusal` is the chain of checks in the order of the code |
| `RequestLedger` | one ledger file under providers that come and go | `Open`, `Admit` (all checks and the start receipt), `Transport`, `Answer`, `AnswerUnwritten`, `Stop`, `TearReceipt` |
| `MeasurementProtocol` | what a measured run promises | four steps, nothing fails |
| `MeasuredRun` | one condition: checkpoints, ledger, output directory, the process | one action per step between two file writes; `Crash` between any two, failures where the code can raise |
| `ConfirmatoryBatch` | `MeasuredRun` composed with the confirmatory runner | session steps in the order of `run()`; `RunStep` is a step of the condition; `TearWrite` a crash inside a write in place |
| `RealPilotBatch` | `MeasuredRun` composed with the pilot | likewise |
| `BudgetContract` | what the intervention budget promises | `Reserve`, `Spend`, `Release` of one whole reservation |
| `ReplayValidator` | `validate_replay` for adaptive runs, as an operator on the log | pure |
| `AdaptiveControl` | the adaptive run, its control step and its handler | one action per stretch between two event-log writes |
| `ProviderRetry` | `RequestLedger` over `openai_provider.py`: the posts and retries of one call | `Call`, `Post`, `TryAgain`, `GiveUp`, `Parse`, `Unready`; each end of a call is an `Answer` of the ledger |
| `CascadeRounds` | the rounds of one cascade in memory: exposure, sharing, directives | no state of its own; `Pending` is the next request, `Advance` takes its answer |
| `CascadeCalibration` | the calibration of hg232 over `CascadeRounds` and `LedgerReceipts`: four logs of each run, batch record, plain resume, timeout resume v4 | session steps in the order of `run_all`; `LockAmendment`, `ResumeAmended`; `Crash` with or without a partial line |
| `OneShotGates` | four compatibility gates and three qualifications under overlapping launches | one action per stretch between two accesses to a shared file; `Crash`, `Edit` |
| `Exposure` | what each protocol shows an agent in a round (`exposure.py`) | no state of its own |
| `ControlledReplay` | `replay_core.py` and `replay_controlled.py` on top of `ReplayValidator`: turns, visibility, plans and their effects | pure, on log, turns and record |
| `ControlledRun` | the rounds of three runners: the local one, that of an explicit schedule, the one that asks a real agent | one action per stretch between two event-log writes; `LogFails`, `RecordFails`, `ScheduleFails`, `ProviderFails`; `RecordFailure` is the handler |
| `BatchRunner` | `BatchMeasuredExperimentRunner.run` over a coarse measured run | one action per stretch between two accesses to a shared file; two launches overlap; `Crash`, `RunWriteFails`, `TrajectoryWriteFails`, `BatchWriteFails` |
| `*_proofs` | theorems and proofs | |
| `MC*` | instances for TLC | |

Definitions whose comment begins "A slip" are deliberate faults: none is part of
a specification. Putting one in the place of the definition it distorts must make TLC
violate the property it is paired with in `PROJECT.json`; this is how each property
is shown to say something about the code.

### Abstractions

* A request of a measured run is its coordinate (run, phase, place). Its
  fingerprint covers content, but content is a function of the coordinate and
  of the one trajectory a run has, which `TurnsNeverReplayed` checks. The
  fingerprint conflict that editing the study files would cause is in
  `RequestLedger` only (`probeEdited`).
* The torn last line of a ledger file makes the file unreadable for good. It is
  in `RequestLedger` and is not composed into the batches.
* A run record or measurement that cannot be read back counts as `"none"`.
* A post on the wire comes back with an answer, with what may be retried or with what
  may not; status codes and the content of an answer are data.
* In the cascade, content is who shared it: an agent sees the actors whose share
  reached it. What is published by the scenario is the same in every launch. The
  controller is a set of views it acts upon.
* The files of a gate (configuration, approval, module) are in one of four states:
  awaiting review, accepted in the bytes later gates bind, accepted in others, at
  variance with the hashes they bind. Hashes of receipts are the launch that wrote them.
* Checkpoints are replaced atomically (`os.replace`) and so are never torn. Their
  identity check is left out: a run does not change identity.
* Failures while the measurement context is built, profiles are aggregated or
  the finished run is validated are not modelled; they end like the failures
  that are.
* A batch's preflight is reduced to the checks on files it can meet again on a
  resume. Locks and hashes of the study do not change.
* `preserve_own_history`, which every agent view of a plan sets and nothing reads, is left out
  of `ViewOf`: the history of an agent always has its own turns.
* In `AdaptiveControl`, what the monitor observes and what a plan does to
  turns are data: the control step decides for some affordable plan, or none.
  Costs are integers in one unit, so the tolerance of 1e-9 of the ledger is
  left out. A plan is named by the round it was made in (its hash includes
  it). `"stale"`, a plan no longer applicable at the boundary, can happen only
  with providers other than the scripted ones. A failure while `run_record.json` or
  `controller_state.json` is written at the very end is left out.

* In `ControlledRun`, a turn is who spoke when in sight of what; what it says is data. A plan
  is its action, targets, peers, cards and order; its cost and what `request_evidence` asks for
  are taken to be in order, as the schedule's validators want them. A failed append of the log
  takes its number with it, so the log has a gap. `kind` and `protocol` are chosen once;
  the schedule is chosen plan by plan when its round comes, which gives the same runs.
* In `BatchRunner` the measured run of one condition is coarse: baseline, directory,
  trajectory, final probes, profiles, record. It is launched without ledger, checkpoints
  or resume there, so a request that failed is an end and nothing is counted. Run directories
  are shared by batch directories because a manifest names them freely (`output_dir`).

## 3. Runs

All bounds are constants of the modules, named in the `.cfg`: `MaxFaults` is
how often anything may go wrong, `MaxReceipts` the length of a ledger file,
`FaultKinds` what may go wrong (in `BatchRunner`, `MaxMishaps` and `MishapKinds`).

| run | instance | states | what it shows |
|---|---|---|---|
| `request_ledger` | 4 requests (turn, probe, an edited rendering of it, another probe), caps 2 and 4, 1 recovery, 6 receipts, 2 retries | 270,833 | the receipts stay truthful under any sequence of launches, retries, recoveries and crashes, and each call ends |
| `measured_run` | 3 probes, 2 turns, 3 faults of any of six kinds, every launch order | 37,311 | safety, liveness and refinement of one condition |
| `confirmatory_batch` | 2 conditions x (2 probes, 1 turn), 3 faults of six kinds | 357,106 | safety of the batch with recovery; an operator who keeps resuming gets the receipt or a named stuck state |
| `pilot_batch` | 2 conditions over one ledger, 2 faults of six kinds | 16,143 | safety and liveness of the pilot |
| `adaptive_control` | 5 rounds, 2 agents, budget 3, costs 0-2, cooldown 1, 2 faults of four kinds | 163,779 | budget, plans, cooldown, replay, and the budget contract |
| `one_shot_gates` | 7 gates, 2 command lines, 2 cases, 3 launches, an edit, a crash, from 6 starting points | 1,839,605 | a sent request stays visible, a rerun comes only after a pass, no gate is used up for nothing, each rests on what it must |
| `cascade_calibration` | 2 runs (one steered) x 2 agents x 3 rounds, 2 faults of four kinds | 299,290 | the same requests over every resume, logs in step, one retry bought, the receipt or a stuck state |
| `controlled_run` | 3 runners, 4 protocols, 2 agents, 3 rounds, 2 cards, any schedule of 9 plans, 2 faults of provider, log, record or schedule | 441,214 | turns made in sight of what they should be, answered once; replay accepts every recorded log but the misread |
| `batch_runner` | 2 runs, 2 batch directories over the same run directories, 2 command lines, 2 faults of three kinds | 27,733 | no trajectory twice, truthful records, every batch ends for good |
| `confirmatory_replay`, `confirmatory_report`, `pilot_resume` | the smallest instance that shows the finding | | see Findings |

**Why the bounds are enough.** Six receipts hold two requests each with
a failed and a completed attempt and a recovery; the request cap binds with the
third request. Three probes are one before, one at and one beyond the
frontier of a checkpoint; two turns are a first and a later one. Two
conditions are one the other waits for. Three faults are one that needs a
resume, one in the resume, and one in what repairs it. Five rounds are a plan, its
application, the cooldown, a second plan and its application; a budget of 3 with
costs up to 2 makes the second plan affordable or not. Two command lines are the
launch and the one that overlaps it; the third launch is the one after both. A case
before and a case after the first audit are two. Three rounds are one that is
shared in, one that sees it and may be steered by it, and one that is steered; two runs are
one the other waits for. Two faults are the timeout and one in its retry. The nine plans
of `controlled_run` are each action of the schedule, two of them in a form that fits some
rounds or agents and not others; three rounds are one a plan is seen in, one it is in effect in,
and one it must be gone in. Two batch directories and two command lines are the batch that
overlaps another on its own directory or on its runs; a later launch after both is a
command line launched again. Symmetry is used
for the command lines alone, which nothing distinguishes.

**Deadlock** is checked for the ledger and the measured run, which can always
be launched again. It is off for batches and the adaptive run: they really
stop, after the receipt, the summary or the record; off too for the gates, whose
launches are bounded, for the calibration, which stops at its receipt, for the public run,
which stops at its record, and for the batches without resume, which leave nothing to launch.

**Fairness.** The code is sequential and has no unbounded wait of its own, so a step
of the process that can be taken is taken (weak fairness of `Work \/ Return`,
of session and run steps). The operator is assumed to go on: in `MeasuredRun`
to try both kinds of launch again and again (strong fairness of each `Operate`,
which is enabled only between runs), in the batches to resume whenever the session
has ended (weak fairness of `Begin`). Faults are never fair, and end with
`MaxFaults`. In `request_ledger` a call runs on, for each post has a timeout; nothing
else is fair there. In `cascade_calibration` the session runs on and its plain resume is
taken whenever it has stopped; nobody has to write or use an amendment. In `batch_runner` a
process that was started runs on; nobody has to launch one.

**Liveness is stated with its exceptions, and the exceptions are traps.**
`FinishedUnlessWedged` says a measured run finishes or is `Wedged` for good (`<>[]`), so that
the definition is no loophole; that no launch at all leads out of a wedge (`WedgedForever`) is
proved. `ReceiptUnlessStuck`, `GroupUnlessStuck` and `CalibratedUnlessStuck` say the same of
the two batches and the calibration; `Stuck` in the confirmatory batch counts only what
parser recovery cannot rescue. `EveryBatchEnds` says that a batch is settled for good, or
broken off for good after a crash or a write that failed. In the pilot there is one more exception, `Unstartable`, which is a run whose first checkpoint could not be made: it is
recorded as failed, only resumes are offered, and a resume wants the
checkpoint. A crash can rescue such a run (its record is left RUNNING and
it is launched afresh), hence the `[]<>`.

### Properties

* `request_ledger`: `CapsRespected`, `AttemptsLinear`, `WriteAhead`,
  `RecoveryBounded`, `ReplayBeginsWithRecovery`, `CallEnds`.
* `measured_run`: `FrontierHolds` (ledger and checkpoint agree but for one
  probe), `TurnsNeverReplayed`, `CompletedIsWhole`, `FinishedUnlessWedged`,
  `ImplementsProtocol` (refinement of `MeasurementProtocol`).
* `confirmatory_batch`: `SerialOrder`, `RecordsTruthful`,
  `ReceiptMeansComplete`, `RecoveryConfined`, `RefusedOnlyAsReplay` (a request is
  refused only because its answer came, also under a recovering provider),
  `ReceiptUnlessStuck`.
* `pilot_batch`: `GroupStopsAtFailure`, `SummaryMeansComplete`, `GroupUnlessStuck`.
* `adaptive_control`: `BudgetBacked` (what is reserved is the pending plan's cost,
  what is spent is the applied plans' cost, the controller state says the same),
  `CooldownKept`, `EveryPlanEnds`, `FinishedRunReplays` (replay accepts a recorded log
  exactly when every request has its response), `KeepsContract`
  (refinement of `BudgetContract`).
* `one_shot_gates`: `EvidenceKept`, `NoSilentRerun` (a launch holds the claim of a gate for
  which another has sent a request only once the gate has passed, so that what failed or died
  is not sent again; if the request came before the launch began, the pass is that of an
  earlier launch which it overlapped), `ClaimExplained`, `QualifiedIsWhole`, `LadderClimbed`.
* `cascade_calibration`: `SeenFromEarlierRounds`, `LogsInStep` (also: an answer that was cut
  off has a decision only where an earlier attempt left its audit), `RetriedOnce`,
  `CalibratedUnlessStuck`.
* `controlled_run`: `ViewsAsPlanned`, `TurnsAnswered`, `RecordedReplays` (replay accepts a
  recorded log with no gap exactly when it is not `Misread`).
* `batch_runner`: `SpokenOnce`, `RecordBacked`, `EveryBatchEnds`.

All of these but the liveness properties are also proved for every value of the constants
(section 5).

## 4. Findings

Three places where the code and what is said of it disagree; each is a run TLC
refutes.

1. `confirmatory_replay`: a recovery that fails at transport makes the latest
   terminal receipt a failure, and the next *ordinary* resume sends the completed
   fingerprint again (`request_ledger.py:219`), which
   `docs/wvs7-protocol-blind-v2-confirmatory-real-run.md:44` says it never does.
2. `confirmatory_report`: a report broken off by a crash is accepted by
   the next resume because it exists (`wvs7_confirmatory_real_runner.py:891`), and the
   completion receipt names its path.
3. `pilot_resume`: after a post-probe failure the pilot refuses the run because
   its directory exists (`wvs7_real_pilot.py:128`), so the trajectory is not reused,
   although `docs/wvs7-real-baseline-pilot.md:80` says it is.

Six more are named as exact exceptions in properties of the passing runs, which would fail
without them:

* an adaptive run whose provider fails writes no response for the failing request
  (`adaptive_runner.py:71`), although `docs/failure-replay-semantics.md:7` says every request
  has one; replay refuses its log (`Answered` in `FinishedRunReplays`). The base and controlled
  runners do write it.
* the audit log of the calibration takes one entry a fingerprint
  (`cascade_agent_protocol_hg232_audit.py:58`), so when a request is sent again after a timeout
  the check of the finish reads the entry of the attempt that timed out
  (`provenance_cascade_hg232_calibration.py:116`): an answer cut off at the token limit
  that still parses gets its decision, although
  `docs/provenance-cascade-hg232-timeout-resume-amendment-v4.md:11` says such an outcome
  remains fail-fast (last conjunct of `LogsInStep`).
* a restructure plan names the whole order of the next round; when that round breaks off, replay
  compares the order with the turns that are there and refuses the failed run
  (`replay_controlled.py:188`), whose log `docs/failure-replay-semantics.md:7` calls valid
  (`Misread`).
* adaptive exposure asks of a turn that it is of an earlier round, not whose it is
  (`intervention_executor_core.py:403`), although `docs/intervention-executor.md:37` says
  *peer* turns; the target may see an own turn as a peer's, and replay refuses the run (`Misread`).
* a plan may show its targets a card that was introduced and names them also under a
  protocol that shows no evidence (`intervention_application.py:191`, whose comment at 184 says
  a plan never grants what the target cannot already see); `ViewsAsPlanned` says a target sees
  what the plan names, not what the protocol shows.
* a launch looks for the receipt of its gate and then for the claim
  (`conformity_source_relation_comprehension_compatibility_v1.py:997` and `1003`). When
  another launch writes its receipt and releases its claim between the two, it sees neither
  and sends again, although
  `docs/conformity-source-relation-comprehension-calibration-v1.zh-CN.md:103` says that a
  gate only ever sends one request (`status = "passed"` in `NoSilentRerun`).

Seen while modelling, without a run: the same document of the confirmatory run speaks of
recovery "per fingerprint" (line 50) where the runner keeps one amendment for
the batch; after a failed adaptive run, `controller_state.json` may still list
the released plan in `scheduled_plan_ids`, since the list is cleared only at the
next round start; a cost-free plan may appear both applied and cancelled when its
events cannot be written, since releasing nothing never raises.

Of the provider: one ledger request is up to `max_retries + 1` posts, and the caps count
the request. `docs/openai-compatible-provider.md:27` says only timeouts, 429 and 5xx are
retried; `openai_provider.py:201-210` retries URL, connection and value errors too, and a
body that is no UTF-8 is a value error, so an answer that came may be asked for again
under its one receipt.

Of the cascade: a partial last line in the audit or decision log lets the next resume send
one more request before it fails; a crash after a run's record and before the batch record
leaves that run RUNNING in a batch that ends COMPLETED; the plain `execute_real(resume=True)`
has no guard and may send the timed-out request again, though the amendment's document asks
for a new amendment; after a crash before its receipt, v4 cannot be run again, and the plain
resume writes the receipt instead; a second timeout reproduces the batch record byte for
byte, so that only the hash of the ledger stops v4 from running twice.

Of the gates: the request of an overlapping launch that comes after the pass finds the
receipt there, so its own outcome is not kept and its claim stays beside the receipt of the
first; a gate in flight looks like a consumed parent, so v2 .. v4 may be admitted meanwhile,
and a late success of the parent makes their receipts unloadable; v2 does not ask for the
absence of v1's receipt; q1 and q2 keep claim and failure receipt when the bindings fail
before any request, b3 gives the claim back.

## 5. Proofs

Checked by `tlapm` for every value of the constants: any set of requests, caps, number of
recoveries and retries; any number of rounds, agents, costs, budget, cooldown; any runs,
ledger files, probes and turns; any command lines of the batches and launches of the gates;
any agents, rounds, cards and schedule of a public run; any agents, rounds, targets and policies of
a calibration; any number of faults. Three theorems
apart, the assumptions are those on the constants (`LedgerAssumption` and `SessionAssumption` for the
ledger, `RetryAssumption` for its retries, `RunAssumption` for the measured run,
`PilotAssumption` and `BatchAssumption`, that the order names each run once, for the batches;
`RoundAssumption` and `ControlAssumption` for the adaptive run, `GateAssumption` for the
gates, `ExposureAssumption` and `ScheduleAssumption` for the public run, `RoundsAssumption` and
`CalibrationAssumption` for the calibration, that agents and runs are listed once each), which only give
them their types (and the caps the values the ledger's constructor takes); `BatchAssumption` of `ConfirmatoryBatch` also fixes `MaxRecovery = 1`, which
`_run_condition` passes to the probe provider (`wvs7_confirmatory_real_runner.py` 552).
The theorems on refused requests (`OperatorsRefusedOnlyAsReplay`, `PilotRefusedOnlyAsReplay`,
`BatchRefusedOnlyAsReplay`) have the hypothesis `CapsCoverRuns`: the caps of a ledger file admit each
request of its runs once. The batches pass just these numbers (`REQUESTS_PER_RUN`, 545 and 550),
and `MCConfirmatoryBatch` has TLC evaluate the hypothesis; with smaller caps the
statement is false.

**Sums_proofs.** What the sum of a finite set of numbers is. The library adds up by a
recursive function over an element of its choice, so nothing is known of a sum before it is
proved that the recursion has a solution and one only (`SumsExist`, `SumsAgree`). Then
any element may be taken out first (`SumTakesOut`, `SumAdds`), a set of ones sums to its size
(`SumOfOnes`), and values outside the set do not matter (`SumAgrees`). By the same induction a bounded set of
numbers has a last one (`LastLine`). The library's induction
theorems take an operator as a parameter, which the provers cannot instantiate; the
induction here goes by `EveryNumber`, on a set of numbers that is closed under successor,
from the least number outside it. No run checks these lemmas: they are the ground of the theorems on
caps and budgets below.

**PaidRequests_proofs**, on the two places where a request must not be paid for
unseen or twice. *The ledger*: `TypeCorrect`, `WriteAheadHolds`,
`RequestCapNeverExceeded`, `CapsAlwaysRespected`, `RecoveryNeverExceeded`,
`AttemptsAlwaysLinear`, `ReplayAlwaysBeginsWithRecovery`. None of the invariants is inductive alone.
The strengthening `LedgerInv` says: a call in flight has just written its start
receipt (`CallInv`); a terminal receipt directly follows the start of its own
attempt (`EndFollowsStart`); which of the counts of starts, transports and ends is
behind at each stage of a call (`CountsBehind`); the starts of a request
are numbered by their order (`StartsNumbered`). From these, attempt numbers
grow along the file, so that the latest terminal receipt by attempt number is the
last one in the file, which is what the replay argument needs. The reservation cap is about a
sum over the started fingerprints: a retry or recovery adds none, and a fresh
one adds its tokens once (`ReservationCapStep`, by `SumAdds`).
`LedgerUnderRetries` (of `ProviderRetry`): every step of the ledger over a provider
that retries on the wire is a step of `RequestLedger` or a stutter, so that all the theorems
of the ledger hold whatever the number of posts under one receipt.

*The gates*: `GatesInductive`, `GateTypeCorrect`, `ClaimExclusive`,
`EvidenceKeptAlways`, `NoSilentRerunAlways`, `LadderClimbedAlways`, `ClaimExplainedAlways`,
`QualifiedIsWholeAlways`. `GateInv` says for each launch what it has found and taken by its stage
(`LaunchOK`), that the holder of a claim is alone (`HolderAlone`), and for each gate what its
files show of the requests that were sent (`GateOK`). `NoSilentRerunAlways` rests on the last
and on `InOrder`: a launch that began after a request was sent is still between its looks, with the
claim standing and any holder an earlier launch that has sent, or its gate has passed since
(`LateOK`). A claim is given up only by a holder that has passed or has sent nothing, so a claim
that is gone at the second look means the pass. The last two theorems need `WholeInv` on
top: what a qualification has audited so far (`WholeLaunch`, `WholeGate`), and that a claim
nobody holds is excused by a request, a death or a failed write (`Excused`).

**Runners_proofs**, on the adaptive runner and on the batches of experiments. *The adaptive run*: `TypeCorrect`, `BudgetConserved`, `ContractKept`
(the adaptive run implements `BudgetContract`), `CooldownAlwaysKept`, `BudgetAlwaysBacked`,
`EveryPlanAlwaysEnds`, `FinishedRunsReplay`: every safety property of the run. The budget's range
is not inductive without `Conserved` (what is released fits into the initial
budget) and `PlaceInv`: what is reserved is nothing or the pending plan's whole cost, and
nothing once it is settled; nothing is pending while the agents speak. From
`PlaceInv`, a release or spend that does not raise is of the whole reservation,
which is the refinement. The cooldown needs `HistoryInv`: no plan in the history
is later than the current round nor than the pending plan, the pending
plan is in the history, and every applied plan was made before the round of the
last intervention. A new plan is then past the cooldown of them all; the entry of
a pending plan adds no number the history has not got.
`ControlInv` puts these together; TLC confirms it on the run's instance.

That the budget is backed is a sum over the history, and the history outlives the budget
ledger that is rebuilt around it: `BackedInv` says that until the plan is settled its whole cost is
reserved, and that the controller state copies the ledger, so that the one entry that
adds to the sum (`applied`) is written with the spending, and every other entry leaves
it alone. That every plan ends needs three more facts (`EndInv`): a planned entry whose plan is
not pending has its one end, and the pending one has none unless its reservation is settled and
only its events are still to be logged (`PlansEnd`); until a round decides, the history names no
plan of that round, so that a new plan is not confused with an old one (`FreshInv`); and where a run
is over or between rounds nothing is pending or scheduled (`SettledInv`). The delicate steps are
the failures: an event that cannot be written after its plan was settled leaves the plan pending and
settled, and the handler's release then raises instead of giving the plan a second end; only a
plan that costs nothing may have two.

What replay says of a whole log is proved event by event. Replay looks from each event back
at those before it, so what it asks of an event can be asked once, as the event is written
(`FitsNext`), and stays true (`EarlierStays`, `LastInOrder`, `StaysOrdered`). `LogInv` then has
two cases. As long as no number was used up for an event that is not there, the log is tidy: each round
and turn has what the place of the run says (`RoundLog`, `TurnLog`), each plan is as far in the log as
in the ledger, and only the pending one may be unsettled (`PlanLog`). Such a run
breaks off only where a provider or the controller fails, and there nothing is pending (`NoneLost`).
Once a number is missing the run is in its handler, and whatever it still writes shows the gap, so that
no such record is one the property is about.

*The batches*: `TrajectoriesSpokenOnce`, `RecordsAlwaysBacked`, for any number of
command lines at once. `BatchInv` says what a launch may rely on while others work on the same
directories: a process that made its batch directory is the only one in it, and one that made the
directory of its run is the only holder of that run (`Alone`); what it has in memory is what
its batch record says, with nothing asked beyond its place in the order (`MemoryOK`); the
files of the run it holds are as far as its own steps took them, and no batch has claimed
that run yet (`HeldOK`); what has no directory is untouched (`Fresh`). A second launch does
write into a run another one holds, for a failed run records itself in whatever directory
it finds: `FilesFrame` says what such a step can do, `OthersStep` that it disturbs no holder,
because a measurement that is there is never replaced and the trajectory is the holder's alone.

**MeasuredRun_proofs.** `RunInvariant`, `TypeCorrect`, `FrontierAlwaysHolds`,
`TurnsAreNeverReplayed`, `AnswersAlwaysKept`, `CompletedAlwaysWhole`, `WedgedStaysForever` and
`ProtocolImplemented`. None of these holds of a run by itself: what the files of one
launch mean to the next depends on everything that may have been broken off before. `RunInv`
says it in three layers, each of which sees the ledger as two sets of requests, those begun
and those finished:

* of each ledger file (`LogOK`): no receipt numbers more attempts than its request has
  starts, and nothing is finished that was not begun.
* of the files of each run (`FilesOK`): a checkpoint is at the frontier of its phase; one that
  is not there was either never there, and nothing of its phase was begun, or was cleared after
  the profiles; a run without a directory has begun no turn (`Virgin`); a directory rests on
  the whole baseline, a completed record on every turn, begun profiles on both whole
  phases; no turn was started twice.
* of the process (`ProcOK`): what it relies on at each of its steps (`StageOK`), above all that
  a process in the trajectory made the directory itself, so that its turns are the first;
  and that a call in flight wrote the newest receipt (`CallOK`).

`RunInv` does not say who launches the run or what its probe provider may recover, so that
it serves the batches too. What an operator's launches add is `NoRecovery`: no
provider has an allow-list, and a completed receipt is the newest of its request, so that
the ledger, which looks at the latest terminal receipt, refuses every finished request
(`FinishedRefused`). `WedgedForever` needs it: a recovery is a way out of a wedge.

`WedgedForever` follows from how a step can move the directory and the answers of a run:
the one step that would record a measurement is taken where nothing is missing (`NothingLost`),
and an answer that was not saved is never that of the call in flight (`LostAnswer`). For the
refinement, one lemma for each kind of write says what the protocol sees of it: an answered
turn is `Speak`, a saved answer `HearBaseline` or `HearFinal`, the first record of the
measurement `Publish`, and everything else nothing; filling the profiles and
clearing the checkpoints move the answers without changing them.

`RefusedOnlyAsReplay` is proved for whoever launches: by an operator
(`OperatorsRefusedOnlyAsReplay`), by the pilot and by the confirmatory batch, from one invariant
`AskInv` on top of `RunInv`. It rules out one by one the refusals of `complete()` but the replay.
A ledger file holds requests of its own runs only, so the caps have room for what was not started
yet, whatever was retried (`FilesKept`, `CapsLeaveRoom`, by `SumOfOnes`); what a fresh launch asks
was never started, since it made its checkpoint itself (`FirstAsked`), so nothing needs
a resume flag that is not given; and a launch that may recover an answer comes to that very request
before any other and has it not pending once it was recovered (`RecoveryPlaced`), so that
neither the allow-list nor the limit of recoveries stops the run in between.

**RealPilotBatch_proofs.** `PilotInvariant`, `RunsStayWhole`, `GroupAlwaysStops`,
`SummaryAlwaysComplete`, `PilotKeepsProtocol`, `PilotRefusedOnlyAsReplay`. The composition is proved, not assumed: the batch launches its runs
with flags no operator gives (a provider that resumes for a run that does not), and ends
them by its own crashes, yet `RunInv` still holds, because its lemmas on a launch and on the end
of a process (`LaunchStep`, `EndStep`) are stated for any resume flags and any end. On top
of it `PilotInv` says that no run is taken up before those before it are completed
(`InOrder`); that the records know of every run with a request and of no measurement that is
not there (`RecordsOK`); what the session relies on at each of its steps (`SessionOK`); that a
run returns as completed only with its measurement out (`ResultOK`). Writing
a record can break none of these for another run, since the order is injective
(`Recorded`, `OrderIsInjective`).

**ConfirmatoryBatch_proofs.** `BatchInvariant`, `BatchRunsStayWhole`, `SerialAlways`,
`RecordsAlwaysTruthful`, `ReceiptAlwaysComplete`, `RecoveryAlwaysConfined`, `BatchKeepsProtocol`,
`BatchRefusedOnlyAsReplay`.
Here the batch gives its probe provider an allow-list, and a completed request may be sent
again. `BatchInv` has the parts of `PilotInv`, with the cleared checkpoints in `Measured`, and
`RecoveryOK`: a request that was recovered was recovered once, and it, like one that
may be, is the post probe that a whole amendment names (`Named`). The argument goes: an
amendment is granted only for a request that was not recovered, and where a whole one exists, only
for the request it names; so at a grant nothing of the batch was recovered yet
(`GrantRecoveryStep`). A provider lets a recovery through only for its allow-list and only the
first time (`RecoversOnce`, from `MaxRecovery = 1`), and neither a crash nor the settlement
of the amendment changes what it names. A torn amendment names nothing, and it
is torn only when there was none before. For the refusals, a grant is of a request with one
start and a completed receipt; as a terminal receipt directly follows its start, the latest status
the ledger sees is that one, so the ledger takes the request for the recovery the batch meant
(`OneStartRecovered`).

**ControlledRun_proofs.** `TypeCorrect`, `ViewsAlwaysAsPlanned`, `TurnsAlwaysAnswered`,
`RecordedAlwaysReplay`. That a
turn was made in sight of what its round should show needs the views to be right from the
moment they are made until the turn is added, with the plan that is in effect: the
invariant carries what each step of a round relies on (the views of this round made, the answer
in hand given in sight of its agent's view, the plan of the round before settled as
applied or not) and that the turns of rounds that are over no longer change. From it a
turn is always added next to a good answer in the log, and a record completed has every
agent of every round.

`RecordedAlwaysReplay` is about three parts that were written apart: what `run()` logs, what it
keeps as turns, and what the replay validators ask of both. It says that a record and a log with no
gap pass just when the run is not `Misread`, in both directions and for failed runs as for completed
ones. Its invariant has two halves. `ShownInv` holds whatever becomes of the log: a plan in effect
shows what is there and granted (`PeersNamed`), histories are of earlier rounds (`HistoryNamed`),
turns are kept in the order of their rounds and agents (`TurnsOrdered`), and what an event shows fits
its agent and round (`SightsFit`). `RepInv` says that, as long as no event was lost and none has
ended the run (`Undisturbed`), the log is a `TidyLog`: numbered by place, nothing twice and no
response before its request, one view for all events of an agent in a round, the plan of
a round seen, then settled, in effect only if applied (`PlanLog`), and exactly the
agents shown, asked, answered and noted that the place in `run()` says (`AgentLog`, counted along the
order of the round by `UpTo`). A step that loses an event leaves its number out for good, so a log
that is whole at the end was tidy all along (`WholeAtEnd`): the same argument rules out
`run_failed` after `run_completed`. At the end, `Ending...` goes through the validators one by one
(`EndingEnvelope`, `EndingVisible`, `EndingPlanEvents`, `EndingShown`), `RefusesOwn` and
`RefusesBroken` give the other direction, and from then on nothing that replay compares
changes (`AfterStays`, `VerdictStep`). The order of a `restructure` is met because turns are kept in
order and the round is whole (`MadeAsOrdered`); that it need not be whole in a failed run is the second
kind of `Misread`.

**CascadeCalibration_proofs.** `AskedFromEarlierRounds`, `LogsAlwaysInStep`, `TimeoutRetriedOnce`,
for any runs, agents, rounds, targets and policies, and any number of faults: the three safety
invariants of the calibration, from one inductive invariant `CalInv`. Its heart is `Follows`: a
request is in the ledger of its run only when everything before its place in the rounds is kept in
the checkpoint. So two requests of one place are one (`OneOfPlace`), an answer that comes can
change nothing that an agent of a later round has been shown (`CallEnds`), and two
completed answers that are not kept would have to be each before the other (`LogsFollow`). A
process goes by what it holds in memory, and after a resume by what it finds: `HoldsSaid` says that the
memory at each place is what the answers before it make of it, and `WalkMemory` that this is kept
from place to place, whether the answer came now or out of the checkpoint. The ledger refuses
only completed requests (`RefusedMeans`): since the caps are those of a whole run, there
is room beside a request that was never started, by counting places (`CapRoom`); and a first
session comes upon nothing in a ledger but its own requests (`FirstOK`), so that no resume flag is
wanted. `AmendOK` says that an amended resume that sent the request again is past its place
(`PastIt`), and that the ledger has grown beyond what the amendment pinned, which is why there is
no second one.

**Left to TLC.** Liveness and fairness, which are out of the provers' reach: `CallEnds`,
`FinishedUnlessWedged`, `ReceiptUnlessStuck`, `GroupUnlessStuck`, `CalibratedUnlessStuck` and
`EveryBatchEnds`. Every safety property of a passing run is stated by a theorem.

## 6. What could come next

1. The gates of behaviour compatibility and factorization, which have no claim: they test for
   their target and write it in place.
2. The cascade pilots (`provenance_cascade_*_pilot.py`): the batch of `CascadeCalibration`
   with conditions, groups and parser recovery.
3. Authoring, review and lock files of WVS7.

## 7. Not modelled, and why

* Analysis and metrics: floating-point statistics, outside TLC's data.
* Prompts, parsing of answers, rendering of interventions: their content is data
  here; only whether an answer is valid matters to the control.
* The frozen per-version variants of the cascade: copies of one protocol with other
  parameters. The calibration of hg232 with its last resume is modelled, being the one that
  has every log. Of the conformity studies the seven gates that build on each other are.
* Study preparation, smoke scripts, portfolio: sequential checks of files
  against hashes, or reports.
* The filesystem beyond whole, partial and absent files; the operating system
  killing a process is `Crash`.

## 8. Running

```
tlc -workers 2 -config MCRequestLedger.cfg MCRequestLedger
tlapm PaidRequests_proofs.tla
```

Every `MC*.cfg` names its module: `MCConfirmatory*.cfg` go with
`MCConfirmatoryBatch`, `MCRealPilot*.cfg` with `MCRealPilotBatch`,
`MCAdaptive*.cfg` with `MCAdaptiveControl`, `MCCascade*.cfg` with
`MCCascadeCalibration`, and each other one with the module of its name.
