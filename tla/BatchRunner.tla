---------------------------- MODULE BatchRunner ----------------------------
(***************************************************************************)
(* BatchMeasuredExperimentRunner (batch_experiment.py): the conditions of  *)
(* a manifest one after another, stopping at the first failure, with no    *)
(* ledger, no checkpoints and no resume.  Command lines may overlap: they  *)
(* may name the same batch directory, or several whose runs have the same  *)
(* directories.  A measured run is its phases; each says what it asks of   *)
(* the provider and what it leaves on disk.                                *)
(***************************************************************************)
EXTENDS Naturals, Sequences

CONSTANTS Runs, RunOrder,
          Homes,        \* batch directories
          NoHome,
          Launches,     \* command lines that may run at once
          MishapKinds,  \* what may go wrong
          MaxMishaps    \* bound: how often

ASSUME BatchAssumption ==
  /\ RunOrder \in Seq(Runs)
  /\ \A i, j \in DOMAIN RunOrder : RunOrder[i] = RunOrder[j] => i = j
  /\ NoHome \notin Homes
  /\ MishapKinds \subseteq {"provider", "write", "crash"} /\ MaxMishaps \in Nat

VARIABLES batch,    \* [Homes -> what the batch directory holds]
          files,    \* [Runs -> what the run directory holds]
          asked,    \* [Homes -> runs whose first request was sent for it]
          spoken,   \* [Runs -> how often its public trajectory was begun]
          proc,     \* [Launches -> the process]
          mishaps

batchVars == <<batch, files, asked, spoken, proc, mishaps>>

\* batch_record.json: how much there is of it, and what it says.
NoBatch == [dir |-> FALSE, record |-> "none", status |-> "running",
            runs |-> [run \in Runs |-> "planned"]]

NoFiles == [dir |-> FALSE, record |-> "none", profiles |-> "none", measurement |-> "none"]

\* runs: the records in memory; result: of the run that was made last.
NoProcess == [at |-> "closed", home |-> NoHome, index |-> 1,
              runs |-> [run \in Runs |-> "planned"], result |-> "none"]

BatchInit ==
  /\ batch = [h \in Homes |-> NoBatch]
  /\ files = [run \in Runs |-> NoFiles]
  /\ asked = [h \in Homes |-> {}]
  /\ spoken = [run \in Runs |-> 0]
  /\ proc = [l \in Launches |-> NoProcess]
  /\ mishaps = 0

-----------------------------------------------------------------------------

Mishap(kind) ==
  /\ kind \in MishapKinds /\ mishaps < MaxMishaps
  /\ mishaps' = mishaps + 1

At(l, step) == proc[l].at = step

Go(l, step) == proc' = [proc EXCEPT ![l].at = step]

Close(l) == proc' = [proc EXCEPT ![l] = NoProcess]

Home(l) == proc[l].home

Current(l) == RunOrder[proc[l].index]

\* _prepare_output_directories: nothing of the batch or of its runs is there.
Free(h) == ~batch[h].dir /\ \A run \in Runs : ~files[run].dir

Begin(l, h) ==
  /\ At(l, "closed") /\ Free(h)
  /\ proc' = [proc EXCEPT ![l].at = "mkdir", ![l].home = h]
  /\ UNCHANGED <<batch, files, asked, spoken, mishaps>>

\* mkdir(exist_ok=False)
MakeBatchDirectory(l) ==
  /\ At(l, "mkdir")
  /\ IF batch[Home(l)].dir THEN Close(l) ELSE Go(l, "manifest")
  /\ batch' = [batch EXCEPT ![Home(l)].dir = TRUE]
  /\ UNCHANGED <<files, asked, spoken, mishaps>>

WriteManifest(l) ==
  /\ At(l, "manifest") /\ Go(l, "plan")
  /\ UNCHANGED <<batch, files, asked, spoken, mishaps>>

\* _write_batch_record of what is in memory.
WriteBatchRecord(l, status, runs) ==
  batch' = [batch EXCEPT ![Home(l)].record = "whole", ![Home(l)].status = status,
                         ![Home(l)].runs = runs]

WritePlan(l) ==
  /\ At(l, "plan") /\ Go(l, "loop")
  /\ WriteBatchRecord(l, "running", proc[l].runs)
  /\ UNCHANGED <<files, asked, spoken, mishaps>>

TakeUp(l) ==
  /\ At(l, "loop") /\ proc[l].index <= Len(RunOrder)
  /\ LET runs == [proc[l].runs EXCEPT ![Current(l)] = "running"]
     IN  /\ proc' = [proc EXCEPT ![l].at = "run", ![l].runs = runs]
         /\ WriteBatchRecord(l, "running", runs)
  /\ UNCHANGED <<files, asked, spoken, mishaps>>

-----------------------------------------------------------------------------
(* One measured run, launched without resume. *)

Leave(l, result) ==
  proc' = [proc EXCEPT ![l].at = "returned", ![l].result = result]

BeginRun(l) ==
  /\ At(l, "run")
  /\ IF files[Current(l)].dir THEN Leave(l, "raised") ELSE Go(l, "pre")
  /\ UNCHANGED <<batch, files, asked, spoken, mishaps>>

AskBaseline(l) ==
  /\ At(l, "pre") /\ asked' = [asked EXCEPT ![Home(l)] = @ \cup {Current(l)}]
  /\ \/ Go(l, "directory") /\ UNCHANGED mishaps
     \/ Leave(l, "failed") /\ Mishap("provider")
  /\ UNCHANGED <<batch, files, spoken>>

\* A slip that takes a directory another launch has made.
MakeRunDirectoryAgain(l) ==
  /\ At(l, "directory") /\ Go(l, "turns")
  /\ files' = [files EXCEPT ![Current(l)].dir = TRUE]
  /\ UNCHANGED <<batch, asked, spoken, mishaps>>

\* The directory is made by the agent runner, whose every error is a failure.
MakeRunDirectory(l) ==
  /\ At(l, "directory")
  /\ IF files[Current(l)].dir THEN Go(l, "agent_failed") ELSE Go(l, "turns")
  /\ files' = [files EXCEPT ![Current(l)].dir = TRUE]
  /\ UNCHANGED <<batch, asked, spoken, mishaps>>

Speak(l) ==
  /\ At(l, "turns")
  /\ spoken' = [spoken EXCEPT ![Current(l)] = @ + 1]
  /\ \/ /\ Go(l, "post") /\ UNCHANGED mishaps
        /\ files' = [files EXCEPT ![Current(l)].record = "completed"]
     \/ /\ Go(l, "agent_failed") /\ Mishap("provider")
        /\ files' = [files EXCEPT ![Current(l)].record = "failed"]
  /\ UNCHANGED <<batch, asked>>

AskFinal(l) ==
  /\ At(l, "post")
  /\ \/ Go(l, "profiles") /\ UNCHANGED mishaps
     \/ Go(l, "post_failed") /\ Mishap("provider")
  /\ UNCHANGED <<batch, files, asked, spoken>>

WriteProfiles(l) ==
  /\ At(l, "profiles")
  /\ IF files[Current(l)].profiles # "none"
     THEN Leave(l, "raised") /\ UNCHANGED files
     ELSE /\ Go(l, "measure")
          /\ files' = [files EXCEPT ![Current(l)].profiles = "written"]
  /\ UNCHANGED <<batch, asked, spoken, mishaps>>

\* A slip that puts a record in the place of one that is there.
RecordAgain(l) ==
  /\ proc[l].at \in {"measure", "agent_failed", "post_failed"}
  /\ LET result == IF At(l, "measure") THEN "completed" ELSE "failed"
     IN  /\ Leave(l, result)
         /\ files' = [files EXCEPT ![Current(l)].measurement = result]
  /\ UNCHANGED <<batch, asked, spoken, mishaps>>

\* _write_measurement_record: a record that is there raises.
Record(l) ==
  /\ proc[l].at \in {"measure", "agent_failed", "post_failed"}
  /\ LET result == IF At(l, "measure") THEN "completed" ELSE "failed"
     IN  IF files[Current(l)].measurement # "none"
         THEN Leave(l, "raised") /\ UNCHANGED files
         ELSE /\ Leave(l, result)
              /\ files' = [files EXCEPT ![Current(l)].measurement = result]
  /\ UNCHANGED <<batch, asked, spoken, mishaps>>

\* A file of the run that is being written has part of it.
Torn(l) ==
  LET run == Current(l)
  IN  \/ /\ At(l, "turns") /\ files[run].record = "none"
         /\ files' = [files EXCEPT ![run].record = "partial"]
      \/ /\ At(l, "profiles") /\ files[run].profiles = "none"
         /\ files' = [files EXCEPT ![run].profiles = "partial"]
      \/ /\ proc[l].at \in {"measure", "agent_failed", "post_failed"}
         /\ files[run].measurement = "none"
         /\ files' = [files EXCEPT ![run].measurement = "partial"]

\* A file of the run cannot be written, or not to its end.
RunWriteFails(l) ==
  /\ proc[l].at \in {"profiles", "measure", "agent_failed", "post_failed"}
  /\ Mishap("write")
  /\ Leave(l, "raised")
  /\ UNCHANGED files \/ Torn(l)
  /\ UNCHANGED <<batch, asked, spoken>>

MayHaveSpoken(l) ==
  spoken' \in {spoken, [spoken EXCEPT ![Current(l)] = @ + 1]}

\* Nor can the log or the record of the trajectory, at its start or later.
TrajectoryWriteFails(l) ==
  /\ At(l, "turns") /\ Mishap("write")
  /\ Go(l, "agent_failed")
  /\ MayHaveSpoken(l)
  /\ \/ UNCHANGED files \/ Torn(l)
     \/ files' = [files EXCEPT ![Current(l)].record = "failed"]
  /\ UNCHANGED <<batch, asked>>

-----------------------------------------------------------------------------

\* A slip that takes every run that returns for a good one.
OutcomeLenient(l) == IF proc[l].result = "raised" THEN "failed" ELSE "completed"

\* _artifacts_exist asks for files only, whatever they say.
ArtifactsExist(run) ==
  files[run].record # "none" /\ files[run].profiles = "written"
    /\ files[run].measurement # "none"

RunOutcome(l) ==
  IF proc[l].result = "completed" /\ ArtifactsExist(Current(l))
  THEN "completed" ELSE "failed"

\* A slip that goes on to the next run after a failure.
MarkAndGoOn(l) ==
  /\ At(l, "returned")
  /\ LET runs == [proc[l].runs EXCEPT ![Current(l)] = RunOutcome(l)]
     IN  /\ WriteBatchRecord(l, "running", runs)
         /\ proc' = [proc EXCEPT ![l].at = "loop", ![l].index = @ + 1, ![l].runs = runs]
  /\ UNCHANGED <<files, asked, spoken, mishaps>>

\* A slip that takes the run up again after a failure.
MarkAndRetry(l) ==
  /\ At(l, "returned")
  /\ LET runs == [proc[l].runs EXCEPT ![Current(l)] = RunOutcome(l)]
         next == IF RunOutcome(l) = "failed" THEN 0 ELSE 1
     IN  /\ WriteBatchRecord(l, "running", runs)
         /\ proc' = [proc EXCEPT ![l].at = "loop", ![l].index = @ + next, ![l].runs = runs]
  /\ UNCHANGED <<files, asked, spoken, mishaps>>

Mark(l) ==
  /\ At(l, "returned")
  /\ LET runs == [proc[l].runs EXCEPT ![Current(l)] = RunOutcome(l)]
     IN  IF RunOutcome(l) = "failed"
         THEN WriteBatchRecord(l, "failed", runs) /\ Close(l)
         ELSE /\ WriteBatchRecord(l, "running", runs)
              /\ proc' = [proc EXCEPT ![l].at = "loop", ![l].index = @ + 1,
                                      ![l].runs = runs]
  /\ UNCHANGED <<files, asked, spoken, mishaps>>

FinishBatch(l) ==
  /\ At(l, "loop") /\ proc[l].index > Len(RunOrder)
  /\ WriteBatchRecord(l, "completed", proc[l].runs) /\ Close(l)
  /\ UNCHANGED <<files, asked, spoken, mishaps>>

\* The record is written in place: what is left of a write that fails, or in
\* which the process dies, is the old one or part of the new one.
BatchWriteFails(l) ==
  /\ proc[l].at \in {"manifest", "plan", "loop", "returned"} /\ Mishap("write")
  /\ Close(l)
  /\ \/ UNCHANGED batch
     \/ ~At(l, "manifest") /\ batch' = [batch EXCEPT ![Home(l)].record = "partial"]
  /\ UNCHANGED <<files, asked, spoken>>

Crash(l) ==
  /\ ~At(l, "closed") /\ Mishap("crash")
  /\ Close(l)
  /\ UNCHANGED files \/ Torn(l)
  /\ IF At(l, "turns") THEN MayHaveSpoken(l) ELSE UNCHANGED spoken
  /\ \/ UNCHANGED asked
     \/ At(l, "pre") /\ asked' = [asked EXCEPT ![Home(l)] = @ \cup {Current(l)}]
  /\ UNCHANGED batch

Work(l) ==
  \/ MakeBatchDirectory(l) \/ WriteManifest(l) \/ WritePlan(l) \/ TakeUp(l)
  \/ BeginRun(l) \/ AskBaseline(l) \/ MakeRunDirectory(l) \/ Speak(l) \/ AskFinal(l)
  \/ WriteProfiles(l) \/ Record(l) \/ Mark(l) \/ FinishBatch(l)

BatchNext ==
  \E l \in Launches :
    \/ \E h \in Homes : Begin(l, h)
    \/ Work(l)
    \/ RunWriteFails(l) \/ TrajectoryWriteFails(l) \/ BatchWriteFails(l) \/ Crash(l)

BatchSpec == BatchInit /\ [][BatchNext]_batchVars

\* A process that was started runs on until it ends or dies.
FairBatchSpec == BatchSpec /\ \A l \in Launches : WF_batchVars(Work(l))

-----------------------------------------------------------------------------

Working(h) == \E l \in Launches : Home(l) = h /\ ~At(l, "mkdir")

\* Without resume and without ledger, the directories alone keep a trajectory
\* from being said again, whoever else is at work on the same runs and wherever
\* an earlier batch died.
SpokenOnce == \A run \in Runs : spoken[run] <= 1

\* A batch record that can be read is backed by what was done, whatever another
\* batch does that came upon the same directories: nothing is asked for a run
\* before those that come first are recorded as completed, a failure ends the
\* batch, and a run recorded as completed is measured to its end and recorded
\* so by no other batch.
RecordBacked ==
  \A h \in Homes : batch[h].record = "whole" =>
    /\ \A i, j \in DOMAIN RunOrder : i < j /\ RunOrder[j] \in asked[h] =>
         batch[h].runs[RunOrder[i]] = "completed"
    /\ batch[h].status = "failed" <=> \E run \in Runs : batch[h].runs[run] = "failed"
    /\ \A run \in Runs : batch[h].runs[run] = "completed" =>
         /\ files[run].record = "completed" /\ files[run].profiles = "written"
         /\ files[run].measurement = "completed"
         /\ \A g \in Homes \ {h} : batch[g].runs[run] # "completed"

Settled(h) ==
  batch[h].record = "whole" /\ batch[h].status \in {"completed", "failed"}

\* A batch that is begun is settled for good, or broken off for good by a crash
\* or a write that failed; it never goes on for ever, and no later launch takes
\* it up again or writes over it.
EveryBatchEnds ==
  \A h \in Homes :
    batch[h].dir ~> ([]Settled(h) \/ [](~Working(h) /\ mishaps > 0))
=============================================================================
