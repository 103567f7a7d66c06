--------------------------- MODULE Runners_proofs ---------------------------
(***************************************************************************)
(* Proofs about the two runners that work without a request ledger, which  *)
(* share nothing but the absence of one: BatchRunner, for any runs, batch  *)
(* directories, command lines and mishaps, and AdaptiveControl, for every  *)
(* number of rounds and agents, every budget, cost and cooldown, and any   *)
(* number of faults.                                                       *)
(***************************************************************************)
EXTENDS BatchRunner, AdaptiveControl, Sums_proofs, TLAPS, SequenceTheorems

-----------------------------------------------------------------------------
(* The batch runner. *)

RunSteps == {"run", "pre", "directory", "turns", "post", "profiles", "measure",
             "agent_failed", "post_failed", "returned"}

Places == RunSteps \cup {"closed", "mkdir", "manifest", "plan", "loop"}
States == {"planned", "running", "completed", "failed"}
Results == {"none", "completed", "failed", "raised"}

Batch == [dir : BOOLEAN, record : {"none", "whole", "partial"},
          status : {"running", "completed", "failed"},
          runs : [Runs -> States]]

Files == [dir : BOOLEAN, record : {"none", "partial", "completed", "failed"},
          profiles : {"none", "partial", "written"},
          measurement : {"none", "partial", "completed", "failed"}]

Process == [at : Places, home : Homes \cup {NoHome}, index : 1..(Len(RunOrder) + 1),
            runs : [Runs -> States], result : Results]

Types ==
  /\ batch \in [Homes -> Batch] /\ files \in [Runs -> Files]
  /\ asked \in [Homes -> SUBSET Runs] /\ spoken \in [Runs -> Nat]
  /\ proc \in [Launches -> Process]

(* A process that made its batch directory, and one whose run it made the    *)
(* directory of and may yet record as completed.                             *)
Busy(l) == ~At(l, "closed") /\ ~At(l, "mkdir")

Holds(l) ==
  \/ proc[l].at \in {"turns", "post", "profiles", "measure"}
  \/ At(l, "returned") /\ proc[l].result = "completed"

PlaceOK(l) ==
  /\ ~At(l, "closed") => Home(l) \in Homes
  /\ proc[l].at \in RunSteps => proc[l].index \in DOMAIN RunOrder

(* What a process has in memory is what its batch record says: everything    *)
(* before its place in the order is completed, and asked for no run beyond.  *)
PlannedOK(l) ==
  /\ proc[l].at \in {"closed", "mkdir", "manifest", "plan"} =>
       proc[l].index = 1 /\ proc[l].runs = [run \in Runs |-> "planned"]
  /\ proc[l].at \in {"manifest", "plan"} =>
       batch[Home(l)] = [NoBatch EXCEPT !.dir = TRUE] /\ asked[Home(l)] = {}

Reached(l) ==
  {RunOrder[i] : i \in {j \in DOMAIN RunOrder :
     j < proc[l].index \/ (j = proc[l].index /\ proc[l].at \in RunSteps)}}

MemoryOK(l) ==
  proc[l].at \in RunSteps \cup {"loop"} =>
    /\ batch[Home(l)].record = "whole" /\ batch[Home(l)].status = "running"
    /\ batch[Home(l)].runs = proc[l].runs
    /\ \A i \in DOMAIN RunOrder : i < proc[l].index => proc[l].runs[RunOrder[i]] = "completed"
    /\ \A run \in Runs : proc[l].runs[run] # "failed"
    /\ asked[Home(l)] \subseteq Reached(l)

(* What the process knows of the files of the run it holds.                  *)
HeldOK(l) ==
  Holds(l) =>
    /\ files[Current(l)].dir
    /\ \A h \in Homes : batch[h].runs[Current(l)] # "completed"
    /\ IF At(l, "turns") THEN files[Current(l)].record = "none" /\ spoken[Current(l)] = 0
                         ELSE files[Current(l)].record = "completed"
    /\ proc[l].at \in {"measure", "returned"} => files[Current(l)].profiles = "written"
    /\ At(l, "returned") => files[Current(l)].measurement = "completed"

LaunchOK ==
  \A l \in Launches : PlaceOK(l) /\ PlannedOK(l) /\ MemoryOK(l) /\ HeldOK(l)
                        /\ (Busy(l) => batch[Home(l)].dir)

(* One process a batch directory, and one holder a run.                      *)
Alone ==
  \A l, m \in Launches :
    /\ Busy(l) /\ Busy(m) /\ Home(l) = Home(m) => l = m
    /\ Holds(l) /\ Holds(m) /\ Current(l) = Current(m) => l = m

(* What was not begun is untouched.                                          *)
Fresh ==
  /\ \A h \in Homes : ~batch[h].dir => batch[h] = NoBatch /\ asked[h] = {}
  /\ \A run \in Runs : ~files[run].dir =>
       /\ spoken[run] = 0 /\ files[run].record = "none"
       /\ \A h \in Homes : batch[h].runs[run] # "completed"

(* RecordBacked in its two parts, the second of records broken off as well.  *)
InOrder(h) ==
  batch[h].record = "whole" =>
    /\ \A i, j \in DOMAIN RunOrder : i < j /\ RunOrder[j] \in asked[h] =>
         batch[h].runs[RunOrder[i]] = "completed"
    /\ batch[h].status = "failed" <=> \E run \in Runs : batch[h].runs[run] = "failed"

Truthful(h) ==
  \A run \in Runs : batch[h].runs[run] = "completed" =>
    /\ files[run].record = "completed" /\ files[run].profiles = "written"
    /\ files[run].measurement = "completed"
    /\ \A g \in Homes \ {h} : batch[g].runs[run] # "completed"

Backed == \A h \in Homes : InOrder(h) /\ Truthful(h)

BatchInv == Types /\ LaunchOK /\ Alone /\ Fresh /\ Backed /\ SpokenOnce

-----------------------------------------------------------------------------
(* The steps, by the process that takes them. *)

Step(l) ==
  \/ \E h \in Homes : Begin(l, h)
  \/ Work(l)
  \/ RunWriteFails(l) \/ TrajectoryWriteFails(l) \/ BatchWriteFails(l) \/ Crash(l)

\* The order names its runs once each.
LEMMA OrderIsInjective ==
  /\ DOMAIN RunOrder = 1..Len(RunOrder) /\ Len(RunOrder) \in Nat
  /\ \A i \in DOMAIN RunOrder : RunOrder[i] \in Runs
  /\ \A i, j \in DOMAIN RunOrder : RunOrder[i] = RunOrder[j] => i = j
BY BatchAssumption

\* What the types say of a process and of the run at hand.
LEMMA AtHand ==
  ASSUME Types, LaunchOK, NEW l \in Launches
  PROVE  /\ proc[l] \in Process
         /\ PlaceOK(l) /\ PlannedOK(l) /\ MemoryOK(l) /\ HeldOK(l)
         /\ ~At(l, "closed") => Home(l) \in Homes /\ batch[Home(l)] \in Batch
         /\ proc[l].at \in RunSteps =>
              /\ proc[l].index \in DOMAIN RunOrder
              /\ Current(l) \in Runs /\ files[Current(l)] \in Files
<1>1. proc[l] \in Process
  BY DEF Types
<1>2. PlaceOK(l) /\ PlannedOK(l) /\ MemoryOK(l) /\ HeldOK(l)
  BY DEF LaunchOK
<1>3. ~At(l, "closed") => Home(l) \in Homes /\ batch[Home(l)] \in Batch
  BY <1>2 DEF PlaceOK, Types
<1>4. proc[l].at \in RunSteps =>
        /\ proc[l].index \in DOMAIN RunOrder
        /\ Current(l) \in Runs /\ files[Current(l)] \in Files
  BY <1>2, OrderIsInjective DEF PlaceOK, Types, Current
<1>5. QED  BY <1>1, <1>2, <1>3, <1>4

\* The values the steps write.
LEMMA ProcessesTyped ==
  ASSUME NEW p \in Process
  PROVE  /\ NoProcess \in Process
         /\ \A place \in Places : [p EXCEPT !.at = place] \in Process
         /\ \A place \in Places, h \in Homes : [p EXCEPT !.at = place, !.home = h] \in Process
         /\ \A place \in Places, runs \in [Runs -> States] :
              [p EXCEPT !.at = place, !.runs = runs] \in Process
         /\ \A place \in Places, runs \in [Runs -> States], i \in 1..(Len(RunOrder) + 1) :
              [p EXCEPT !.at = place, !.index = i, !.runs = runs] \in Process
         /\ \A place \in Places, result \in Results :
              [p EXCEPT !.at = place, !.result = result] \in Process
<1>1. NoProcess \in Process
  BY OrderIsInjective DEF NoProcess, Process, Places, States, Results
<1>2. QED  BY <1>1 DEF Process

LEMMA BatchesTyped ==
  ASSUME NEW b \in Batch
  PROVE  /\ NoBatch \in Batch
         /\ [b EXCEPT !.dir = TRUE] \in Batch
         /\ [b EXCEPT !.record = "partial"] \in Batch
         /\ \A status \in {"running", "completed", "failed"}, runs \in [Runs -> States] :
              [b EXCEPT !.record = "whole", !.status = status, !.runs = runs] \in Batch
<1>1. NoBatch \in Batch
  BY DEF NoBatch, Batch, States
<1>2. QED  BY <1>1 DEF Batch

LEMMA FilesTyped ==
  ASSUME NEW f \in Files
  PROVE  /\ NoFiles \in Files
         /\ [f EXCEPT !.dir = TRUE] \in Files
         /\ \A v \in {"none", "partial", "completed", "failed"} :
              [f EXCEPT !.record = v] \in Files /\ [f EXCEPT !.measurement = v] \in Files
         /\ \A v \in {"none", "partial", "written"} : [f EXCEPT !.profiles = v] \in Files
<1>1. NoFiles \in Files
  BY DEF NoFiles, Files
<1>2. QED  BY <1>1 DEF Files

LEMMA TypesInit == BatchInit => Types
BY OrderIsInjective
DEF BatchInit, Types, Batch, Files, Process, NoBatch, NoFiles, NoProcess, RunSteps, Places,
    States, Results

\* What one step writes to the process that takes it, and to its batch record.
LEMMA ProcessStep ==
  ASSUME Types, LaunchOK, NEW l \in Launches, Step(l)
  PROVE  \E p \in Process : proc' = [proc EXCEPT ![l] = p]
<1> DEFINE p == proc[l]
<1>1. /\ p \in Process /\ p.index \in 1..(Len(RunOrder) + 1) /\ p.runs \in [Runs -> States]
      /\ p.at \in RunSteps => Current(l) \in Runs /\ p.index \in DOMAIN RunOrder
  BY AtHand DEF Process
<1>2. ASSUME NEW place \in Places, Go(l, place)
      PROVE  \E q \in Process : proc' = [proc EXCEPT ![l] = q]
  BY <1>1, <1>2, ProcessesTyped DEF Go
<1>3. ASSUME Close(l)
      PROVE  \E q \in Process : proc' = [proc EXCEPT ![l] = q]
  BY <1>1, <1>3, ProcessesTyped DEF Close
<1>4. ASSUME NEW result \in Results, Leave(l, result)
      PROVE  \E q \in Process : proc' = [proc EXCEPT ![l] = q]
  BY <1>1, <1>4, ProcessesTyped DEF Leave, Places, RunSteps
<1>5. ASSUME NEW h \in Homes, Begin(l, h)
      PROVE  \E q \in Process : proc' = [proc EXCEPT ![l] = q]
  BY <1>1, <1>5, ProcessesTyped DEF Begin, Places
<1>6. CASE TakeUp(l)
  <2>1. [p.runs EXCEPT ![Current(l)] = "running"] \in [Runs -> States]
    BY <1>1 DEF States
  <2>2. QED  BY <1>1, <1>6, <2>1, ProcessesTyped DEF TakeUp, Places, RunSteps
<1>7. CASE Mark(l)
  <2>1. p.at \in RunSteps /\ RunOutcome(l) \in States
    BY <1>7 DEF Mark, At, RunSteps, RunOutcome, States
  <2>2. [p.runs EXCEPT ![Current(l)] = RunOutcome(l)] \in [Runs -> States]
    BY <1>1, <2>1
  <2>3. p.index + 1 \in 1..(Len(RunOrder) + 1)
    BY <1>1, <2>1, OrderIsInjective
  <2>4. CASE RunOutcome(l) = "failed"
    BY <1>3, <1>7, <2>4 DEF Mark
  <2>5. CASE RunOutcome(l) # "failed"
    <3>1. proc' = [proc EXCEPT ![l] = [p EXCEPT !.at = "loop", !.index = p.index + 1,
                     !.runs = [p.runs EXCEPT ![Current(l)] = RunOutcome(l)]]]
      BY <1>7, <2>5 DEF Mark
    <3>2. QED  BY <1>1, <2>2, <2>3, <3>1, ProcessesTyped DEF Places
  <2>6. QED  BY <2>4, <2>5
<1>8. CASE MakeBatchDirectory(l) \/ WriteManifest(l) \/ WritePlan(l) \/ FinishBatch(l)
             \/ BatchWriteFails(l) \/ Crash(l)
  BY <1>2, <1>3, <1>8
  DEF MakeBatchDirectory, WriteManifest, WritePlan, FinishBatch, BatchWriteFails, Crash, Places
<1>9. CASE BeginRun(l) \/ AskBaseline(l) \/ MakeRunDirectory(l) \/ Speak(l) \/ AskFinal(l)
  BY <1>2, <1>4, <1>9
  DEF BeginRun, AskBaseline, MakeRunDirectory, Speak, AskFinal, Places, RunSteps, Results
<1>10. CASE WriteProfiles(l) \/ Record(l) \/ RunWriteFails(l) \/ TrajectoryWriteFails(l)
  BY <1>2, <1>4, <1>10
  DEF WriteProfiles, Record, RunWriteFails, TrajectoryWriteFails, Places, RunSteps, Results
<1>11. QED
  BY <1>5, <1>6, <1>7, <1>8, <1>9, <1>10 DEF Step, Work

\* A step changes the record of its own batch only, which it has made or finds
\* free, and claims no run but the one it holds.
BatchFrame(l) ==
  /\ batch' \in [Homes -> Batch] /\ asked' \in [Homes -> SUBSET Runs]
  /\ \A h \in Homes :
       \/ h = Home(l) /\ batch'[h].dir /\ (Busy(l) \/ ~batch[h].dir)
       \/ batch'[h] = batch[h] /\ asked'[h] = asked[h]
  /\ \A h \in Homes : batch[h].dir => batch'[h].dir
  /\ \A h \in Homes, run \in Runs : batch'[h].runs[run] = "completed" =>
       \/ batch[h].runs[run] = "completed"
       \/ At(l, "returned") /\ Holds(l) /\ run = Current(l) /\ h = Home(l)

LEMMA BatchStep ==
  ASSUME Types, LaunchOK, NEW l \in Launches, Step(l)
  PROVE  BatchFrame(l)
<1> DEFINE p == proc[l]
           H == Home(l)
<1>1. /\ p \in Process /\ p.runs \in [Runs -> States] /\ MemoryOK(l) /\ PlannedOK(l)
      /\ ~At(l, "closed") => H \in Homes /\ batch[H] \in Batch
      /\ p.at \in RunSteps => Current(l) \in Runs /\ p.index \in DOMAIN RunOrder
      /\ Busy(l) => batch[H].dir
  BY AtHand DEF Process, LaunchOK
<1>2. batch \in [Homes -> Batch] /\ asked \in [Homes -> SUBSET Runs]
  BY DEF Types
<1>3. ASSUME UNCHANGED <<batch, asked>>
      PROVE  BatchFrame(l)
  BY <1>2, <1>3 DEF BatchFrame
<1>4. ASSUME NEW b \in Batch, Busy(l) \/ (At(l, "mkdir") /\ ~batch[H].dir), UNCHANGED asked,
             batch' = [batch EXCEPT ![H] = b],
             b.dir,
             \A run \in Runs : b.runs[run] = "completed" =>
               \/ batch[H].runs[run] = "completed"
               \/ At(l, "returned") /\ Holds(l) /\ run = Current(l)
      PROVE  BatchFrame(l)
  <2>1. ~At(l, "closed") /\ H \in Homes
    BY <1>1, <1>4 DEF Busy, At
  <2>2. batch' \in [Homes -> Batch] /\ batch'[H] = b
          /\ \A h \in Homes \ {H} : batch'[h] = batch[h]
    BY <1>2, <1>4, <2>1
  <2>3. \A h \in Homes : batch[h].dir => batch'[h].dir
    BY <1>4, <2>2
  <2>4. \A h \in Homes :
          \/ h = H /\ batch'[h].dir /\ (Busy(l) \/ ~batch[h].dir)
          \/ batch'[h] = batch[h] /\ asked'[h] = asked[h]
    BY <1>4, <2>1, <2>2
  <2>5. \A h \in Homes, run \in Runs : batch'[h].runs[run] = "completed" =>
          \/ batch[h].runs[run] = "completed"
          \/ At(l, "returned") /\ Holds(l) /\ run = Current(l) /\ h = H
    BY <1>4, <2>2
  <2>6. QED  BY <1>2, <1>4, <2>2, <2>3, <2>4, <2>5 DEF BatchFrame
<1>5. ASSUME NEW status \in {"running", "completed", "failed"}, NEW runs \in [Runs -> States],
             Busy(l), UNCHANGED asked, WriteBatchRecord(l, status, runs),
             \A run \in Runs : runs[run] = "completed" =>
               \/ batch[H].runs[run] = "completed"
               \/ At(l, "returned") /\ Holds(l) /\ run = Current(l)
      PROVE  BatchFrame(l)
  <2> DEFINE b == [batch[H] EXCEPT !.record = "whole", !.status = status, !.runs = runs]
  <2>1. H \in Homes /\ batch[H] \in Batch
    BY <1>1, <1>5 DEF Busy
  <2>2. b \in Batch
    BY <1>5, <2>1, BatchesTyped
  <2>3. b.dir = batch[H].dir /\ b.runs = runs
    BY <2>1 DEF Batch
  <2>4. batch' = [batch EXCEPT ![H] = b]
    BY <1>5 DEF WriteBatchRecord
  <2> HIDE DEF b
  <2>5. QED  BY <1>1, <1>4, <1>5, <2>2, <2>3, <2>4
<1>6. CASE MakeBatchDirectory(l)
  <2> DEFINE b == [batch[H] EXCEPT !.dir = TRUE]
  <2>1. At(l, "mkdir") /\ ~At(l, "closed") /\ UNCHANGED asked
    BY <1>6 DEF MakeBatchDirectory, At
  <2>2. b \in Batch
    BY <1>1, <2>1, BatchesTyped
  <2>3. b.dir /\ b.runs = batch[H].runs /\ (batch[H].dir => b = batch[H])
    BY <1>1, <2>1 DEF Batch
  <2>4. batch' = [batch EXCEPT ![H] = b]
    BY <1>6 DEF MakeBatchDirectory
  <2> HIDE DEF b
  <2>5. CASE batch[H].dir
    <3>1. batch' = batch
      BY <1>1, <1>2, <2>1, <2>3, <2>4, <2>5
    <3>2. QED  BY <1>3, <2>1, <3>1
  <2>6. CASE ~batch[H].dir
    BY <1>4, <2>1, <2>2, <2>3, <2>4, <2>6
  <2>7. QED  BY <2>5, <2>6
<1>7. CASE WritePlan(l)
  <2>1. p.runs = [run \in Runs |-> "planned"] /\ Busy(l)
    BY <1>1, <1>7 DEF WritePlan, PlannedOK, At, Busy
  <2>2. WriteBatchRecord(l, "running", p.runs) /\ UNCHANGED asked
    BY <1>7 DEF WritePlan
  <2>3. \A run \in Runs : p.runs[run] # "completed"
    BY <2>1
  <2>4. QED  BY <1>1, <1>5, <2>1, <2>2, <2>3
<1>8. CASE TakeUp(l)
  <2> DEFINE runs == [p.runs EXCEPT ![Current(l)] = "running"]
  <2>1. Busy(l) /\ batch[H].runs = p.runs
    BY <1>1, <1>8 DEF TakeUp, At, Busy, MemoryOK
  <2>2. runs \in [Runs -> States]
    BY <1>1 DEF States
  <2>3. \A run \in Runs : runs[run] = "completed" => p.runs[run] = "completed"
    BY <1>1
  <2>4. WriteBatchRecord(l, "running", runs) /\ UNCHANGED asked
    BY <1>8 DEF TakeUp
  <2> HIDE DEF runs
  <2>5. QED  BY <1>5, <2>1, <2>2, <2>3, <2>4
<1>9. CASE Mark(l)
  <2> DEFINE runs == [p.runs EXCEPT ![Current(l)] = RunOutcome(l)]
  <2>1. Busy(l) /\ batch[H].runs = p.runs /\ At(l, "returned") /\ RunOutcome(l) \in States
    BY <1>1, <1>9 DEF Mark, At, Busy, MemoryOK, RunSteps, RunOutcome, States
  <2>2. runs \in [Runs -> States]
    BY <1>1, <2>1
  <2>3. RunOutcome(l) = "completed" => Holds(l)
    BY <2>1 DEF RunOutcome, Holds
  <2>4. \A run \in Runs : runs[run] = "completed" =>
          p.runs[run] = "completed" \/ (Holds(l) /\ run = Current(l))
    BY <1>1, <2>3
  <2>5. (WriteBatchRecord(l, "running", runs) \/ WriteBatchRecord(l, "failed", runs))
          /\ UNCHANGED asked
    BY <1>9 DEF Mark
  <2> HIDE DEF runs
  <2>6. QED  BY <1>5, <2>1, <2>2, <2>4, <2>5
<1>10. CASE FinishBatch(l)
  <2>1. Busy(l) /\ batch[H].runs = p.runs
    BY <1>1, <1>10 DEF FinishBatch, At, Busy, MemoryOK
  <2>2. WriteBatchRecord(l, "completed", p.runs) /\ UNCHANGED asked
    BY <1>10 DEF FinishBatch
  <2>3. QED  BY <1>1, <1>5, <2>1, <2>2
<1>11. CASE BatchWriteFails(l)
  <2> DEFINE b == [batch[H] EXCEPT !.record = "partial"]
  <2>1. Busy(l) /\ ~At(l, "closed") /\ UNCHANGED asked
    BY <1>11 DEF BatchWriteFails, At, Busy
  <2>2. b \in Batch
    BY <1>1, <2>1, BatchesTyped
  <2>3. b.runs = batch[H].runs /\ b.dir = batch[H].dir
    BY <1>1, <2>1 DEF Batch
  <2>4. batch' = batch \/ batch' = [batch EXCEPT ![H] = b]
    BY <1>11 DEF BatchWriteFails
  <2> HIDE DEF b
  <2>5. QED  BY <1>1, <1>3, <1>4, <2>1, <2>2, <2>3, <2>4
<1>12. CASE AskBaseline(l) \/ Crash(l)
  <2>1. \/ asked' = asked
        \/ At(l, "pre") /\ asked' = [asked EXCEPT ![H] = asked[H] \cup {Current(l)}]
    BY <1>12 DEF AskBaseline, Crash
  <2>2. batch' = batch
    BY <1>12 DEF AskBaseline, Crash
  <2>3. CASE At(l, "pre") /\ asked' = [asked EXCEPT ![H] = asked[H] \cup {Current(l)}]
    <3>1. H \in Homes /\ Current(l) \in Runs /\ Busy(l) /\ ~At(l, "closed")
      BY <1>1, <2>3 DEF At, RunSteps, Busy
    <3>2. asked' \in [Homes -> SUBSET Runs]
            /\ \A h \in Homes : h # H => asked'[h] = asked[h]
      BY <1>2, <2>3, <3>1
    <3>3. QED  BY <1>1, <1>2, <2>2, <3>1, <3>2 DEF BatchFrame
  <2>4. QED  BY <1>3, <2>1, <2>2, <2>3
<1>13. CASE (\E h \in Homes : Begin(l, h)) \/ WriteManifest(l) \/ BeginRun(l)
              \/ MakeRunDirectory(l) \/ Speak(l) \/ AskFinal(l) \/ WriteProfiles(l)
              \/ Record(l) \/ RunWriteFails(l) \/ TrajectoryWriteFails(l)
  BY <1>3, <1>13
  DEF Begin, WriteManifest, BeginRun, MakeRunDirectory, Speak, AskFinal, WriteProfiles,
      Record, RunWriteFails, TrajectoryWriteFails
<1>14. QED
  BY <1>6, <1>7, <1>8, <1>9, <1>10, <1>11, <1>12, <1>13 DEF Step, Work

\* A step changes the files of the run at hand only, makes nothing undone of
\* them, and speaks at most once.
Kept(l, old, new) ==
  /\ old.dir => new.dir
  /\ old.record = new.record \/ At(l, "turns")
  /\ old.profiles = "written" => new.profiles = "written"
  /\ old.measurement # "none" => new.measurement = old.measurement

FilesFrame(l) ==
  /\ files' \in [Runs -> Files] /\ spoken' \in [Runs -> Nat]
  /\ \A run \in Runs :
       \/ files'[run] = files[run] /\ spoken'[run] = spoken[run]
       \/ /\ run = Current(l) /\ proc[l].at \in RunSteps
          /\ Kept(l, files[run], files'[run])
          /\ \/ spoken'[run] = spoken[run]
             \/ At(l, "turns") /\ spoken'[run] = spoken[run] + 1

LEMMA FilesStep ==
  ASSUME Types, LaunchOK, NEW l \in Launches, Step(l)
  PROVE  FilesFrame(l)
<1> DEFINE C == Current(l)
<1>1. proc[l].at \in RunSteps => C \in Runs /\ files[C] \in Files
  BY AtHand
<1>2. files \in [Runs -> Files] /\ spoken \in [Runs -> Nat]
  BY DEF Types
<1>3. ASSUME UNCHANGED <<files, spoken>>
      PROVE  FilesFrame(l)
  BY <1>2, <1>3 DEF FilesFrame
<1>4. ASSUME NEW f \in Files, proc[l].at \in RunSteps, Kept(l, files[C], f),
             files' = [files EXCEPT ![C] = f],
             UNCHANGED spoken \/ (At(l, "turns") /\ MayHaveSpoken(l))
      PROVE  FilesFrame(l)
  <2>1. files' \in [Runs -> Files] /\ files'[C] = f
          /\ \A run \in Runs : run # C => files'[run] = files[run]
    BY <1>1, <1>2, <1>4
  <2>2. /\ spoken' \in [Runs -> Nat]
        /\ spoken'[C] = spoken[C] \/ (At(l, "turns") /\ spoken'[C] = spoken[C] + 1)
        /\ \A run \in Runs : run # C => spoken'[run] = spoken[run]
    BY <1>1, <1>2, <1>4 DEF MayHaveSpoken
  <2>3. QED  BY <1>4, <2>1, <2>2 DEF FilesFrame
<1>5. ASSUME proc[l].at \in RunSteps, UNCHANGED files,
             UNCHANGED spoken \/ (At(l, "turns") /\ MayHaveSpoken(l))
      PROVE  FilesFrame(l)
  <2>1. files' = [files EXCEPT ![C] = files[C]] /\ Kept(l, files[C], files[C])
    BY <1>1, <1>2, <1>5 DEF Kept
  <2>2. QED  BY <1>1, <1>4, <1>5, <2>1
<1>6. ASSUME proc[l].at \in RunSteps, Torn(l),
             UNCHANGED spoken \/ (At(l, "turns") /\ MayHaveSpoken(l))
      PROVE  FilesFrame(l)
  <2> DEFINE trajectory == [files[C] EXCEPT !.record = "partial"]
             profiles == [files[C] EXCEPT !.profiles = "partial"]
             measurement == [files[C] EXCEPT !.measurement = "partial"]
  <2>1. trajectory \in Files /\ profiles \in Files /\ measurement \in Files
    BY <1>1, <1>6, FilesTyped
  <2>2. /\ At(l, "turns") => Kept(l, files[C], trajectory)
        /\ files[C].profiles = "none" => Kept(l, files[C], profiles)
        /\ files[C].measurement = "none" => Kept(l, files[C], measurement)
    BY <1>1, <1>6 DEF Files, Kept
  <2>3. \/ At(l, "turns") /\ files' = [files EXCEPT ![C] = trajectory]
        \/ files[C].profiles = "none" /\ files' = [files EXCEPT ![C] = profiles]
        \/ files[C].measurement = "none" /\ files' = [files EXCEPT ![C] = measurement]
    BY <1>6 DEF Torn
  <2> HIDE DEF trajectory, profiles, measurement
  <2>4. QED  BY <1>4, <1>6, <2>1, <2>2, <2>3
<1>7. ASSUME NEW v \in {"none", "partial", "completed", "failed"}, At(l, "turns"),
             files' = [files EXCEPT ![C].record = v], MayHaveSpoken(l)
      PROVE  FilesFrame(l)
  <2> DEFINE f == [files[C] EXCEPT !.record = v]
  <2>1. proc[l].at \in RunSteps
    BY <1>7 DEF At, RunSteps
  <2>2. f \in Files
    BY <1>1, <1>7, <2>1, FilesTyped
  <2>3. Kept(l, files[C], f)
    BY <1>1, <1>7, <2>1 DEF Files, Kept
  <2>4. files' = [files EXCEPT ![C] = f]
    BY <1>7
  <2> HIDE DEF f
  <2>5. QED  BY <1>4, <1>7, <2>1, <2>2, <2>3, <2>4
<1>8. CASE MakeRunDirectory(l)
  <2> DEFINE f == [files[C] EXCEPT !.dir = TRUE]
  <2>1. proc[l].at \in RunSteps /\ UNCHANGED spoken
    BY <1>8 DEF MakeRunDirectory, At, RunSteps
  <2>2. f \in Files
    BY <1>1, <2>1, FilesTyped
  <2>3. Kept(l, files[C], f)
    BY <1>1, <2>1 DEF Files, Kept
  <2>4. files' = [files EXCEPT ![C] = f]
    BY <1>8 DEF MakeRunDirectory
  <2> HIDE DEF f
  <2>5. QED  BY <1>4, <2>1, <2>2, <2>3, <2>4
<1>9. CASE Speak(l)
  <2>1. At(l, "turns") /\ MayHaveSpoken(l)
    BY <1>9 DEF Speak, MayHaveSpoken
  <2>2. \/ files' = [files EXCEPT ![C].record = "completed"]
        \/ files' = [files EXCEPT ![C].record = "failed"]
    BY <1>9 DEF Speak
  <2>3. QED  BY <1>7, <2>1, <2>2
<1>10. CASE WriteProfiles(l)
  <2> DEFINE f == [files[C] EXCEPT !.profiles = "written"]
  <2>1. proc[l].at \in RunSteps /\ UNCHANGED spoken
    BY <1>10 DEF WriteProfiles, At, RunSteps
  <2>2. f \in Files
    BY <1>1, <2>1, FilesTyped
  <2>3. Kept(l, files[C], f)
    BY <1>1, <2>1 DEF Files, Kept
  <2>4. UNCHANGED files \/ files' = [files EXCEPT ![C] = f]
    BY <1>10 DEF WriteProfiles
  <2> HIDE DEF f
  <2>5. QED  BY <1>4, <1>5, <2>1, <2>2, <2>3, <2>4
<1>11. CASE Record(l)
  <2> DEFINE v == IF At(l, "measure") THEN "completed" ELSE "failed"
             f == [files[C] EXCEPT !.measurement = v]
  <2>1. proc[l].at \in RunSteps /\ UNCHANGED spoken
    BY <1>11 DEF Record, RunSteps
  <2>2. f \in Files
    BY <1>1, <2>1, FilesTyped
  <2>3. files[C].measurement = "none" => Kept(l, files[C], f)
    BY <1>1, <2>1 DEF Files, Kept
  <2>4. \/ UNCHANGED files
        \/ files[C].measurement = "none" /\ files' = [files EXCEPT ![C] = f]
    BY <1>11 DEF Record
  <2> HIDE DEF f
  <2>5. QED  BY <1>4, <1>5, <2>1, <2>2, <2>3, <2>4
<1>12. CASE RunWriteFails(l)
  <2>1. proc[l].at \in RunSteps /\ UNCHANGED spoken /\ (UNCHANGED files \/ Torn(l))
    BY <1>12 DEF RunWriteFails, RunSteps
  <2>2. QED  BY <1>5, <1>6, <2>1
<1>13. CASE TrajectoryWriteFails(l)
  <2>1. proc[l].at \in RunSteps /\ At(l, "turns") /\ MayHaveSpoken(l)
    BY <1>13 DEF TrajectoryWriteFails, RunSteps, At
  <2>2. UNCHANGED files \/ Torn(l) \/ files' = [files EXCEPT ![C].record = "failed"]
    BY <1>13 DEF TrajectoryWriteFails
  <2>3. QED  BY <1>5, <1>6, <1>7, <2>1, <2>2
<1>14. CASE Crash(l)
  <2>1. UNCHANGED spoken \/ (At(l, "turns") /\ MayHaveSpoken(l))
    BY <1>14 DEF Crash
  <2>2. UNCHANGED files \/ Torn(l)
    BY <1>14 DEF Crash
  <2>3. Torn(l) => proc[l].at \in RunSteps
    BY DEF Torn, At, RunSteps
  <2>4. CASE proc[l].at \in RunSteps
    BY <1>5, <1>6, <2>1, <2>2, <2>4
  <2>5. CASE proc[l].at \notin RunSteps
    BY <1>3, <2>1, <2>2, <2>3, <2>5 DEF At, RunSteps
  <2>6. QED  BY <2>4, <2>5
<1>15. CASE (\E h \in Homes : Begin(l, h)) \/ MakeBatchDirectory(l) \/ WriteManifest(l)
              \/ WritePlan(l) \/ TakeUp(l) \/ BeginRun(l) \/ AskBaseline(l) \/ AskFinal(l)
              \/ Mark(l) \/ FinishBatch(l) \/ BatchWriteFails(l)
  BY <1>3, <1>15
  DEF Begin, MakeBatchDirectory, WriteManifest, WritePlan, TakeUp, BeginRun, AskBaseline,
      AskFinal, Mark, FinishBatch, BatchWriteFails
<1>16. QED
  BY <1>8, <1>9, <1>10, <1>11, <1>12, <1>13, <1>14, <1>15 DEF Step, Work

\* What a launch is right about stays so whatever another launch does.
LaunchFine(l) ==
  PlaceOK(l) /\ PlannedOK(l) /\ MemoryOK(l) /\ HeldOK(l) /\ (Busy(l) => batch[Home(l)].dir)

LEMMA OthersStep ==
  ASSUME Types, LaunchOK, Alone, NEW l \in Launches, NEW m \in Launches, m # l, Step(l)
  PROVE  LaunchFine(m)' /\ proc'[m] = proc[m]
<1>1. proc'[m] = proc[m]
  <2>1. PICK q \in Process : proc' = [proc EXCEPT ![l] = q]
    BY ProcessStep
  <2>2. QED  BY <2>1 DEF Types
<1>2. /\ At(m, "closed")' <=> At(m, "closed")
      /\ At(m, "turns")' <=> At(m, "turns")
      /\ At(m, "returned")' <=> At(m, "returned")
      /\ Busy(m)' <=> Busy(m)
      /\ Holds(m)' <=> Holds(m)
      /\ Home(m)' = Home(m) /\ Current(m)' = Current(m) /\ Reached(m)' = Reached(m)
  BY <1>1 DEF At, Busy, Holds, Home, Current, Reached
<1>3. BatchFrame(l) /\ FilesFrame(l)
  BY BatchStep, FilesStep
<1>4. LaunchFine(m)
  BY DEF LaunchOK, LaunchFine
<1>5. ~At(m, "closed") => Home(m) \in Homes
  BY <1>4 DEF LaunchFine, PlaceOK
<1>6. Busy(m) => batch'[Home(m)] = batch[Home(m)] /\ asked'[Home(m)] = asked[Home(m)]
  <2>1. SUFFICES ASSUME Busy(m)
                 PROVE  batch'[Home(m)] = batch[Home(m)] /\ asked'[Home(m)] = asked[Home(m)]
    OBVIOUS
  <2>2. Home(m) \in Homes /\ batch[Home(m)].dir
    BY <1>4, <1>5, <2>1 DEF LaunchFine, Busy
  <2>3. ~(Busy(l) /\ Home(m) = Home(l))
    BY <2>1 DEF Alone
  <2>4. QED  BY <1>3, <2>2, <2>3 DEF BatchFrame
<1>7. PlaceOK(m)'
  BY <1>1, <1>2, <1>4 DEF LaunchFine, PlaceOK
<1>8. proc[m].at \in RunSteps \cup {"manifest", "plan", "loop"} => Busy(m)
  BY DEF Busy, At, RunSteps
<1>9. PlannedOK(m)'
  BY <1>1, <1>2, <1>4, <1>6, <1>8 DEF LaunchFine, PlannedOK, NoBatch
<1>10. MemoryOK(m)'
  BY <1>1, <1>2, <1>4, <1>6, <1>8 DEF LaunchFine, MemoryOK
<1>11. HeldOK(m)'
  <2>1. SUFFICES ASSUME Holds(m)
                 PROVE  HeldOK(m)'
    BY <1>2 DEF HeldOK
  <2> DEFINE C == Current(m)
  <2>2. C \in Runs
    BY <2>1, AtHand DEF Holds, At, RunSteps
  <2>3. ~(Holds(l) /\ C = Current(l))
    BY <2>1 DEF Alone
  <2>4. At(l, "turns") => Holds(l)
    BY DEF At, Holds
  <2>5. \/ files'[C] = files[C]
        \/ /\ files[C].dir => files'[C].dir
           /\ files'[C].record = files[C].record
           /\ files[C].profiles = "written" => files'[C].profiles = "written"
           /\ files[C].measurement # "none" => files'[C].measurement = files[C].measurement
    BY <1>3, <2>2, <2>3, <2>4 DEF FilesFrame, Kept
  <2>6. spoken'[C] = spoken[C]
    BY <1>3, <2>2, <2>3, <2>4 DEF FilesFrame
  <2>7. \A h \in Homes : batch'[h].runs[C] # "completed"
    BY <1>3, <1>4, <2>1, <2>2, <2>3 DEF BatchFrame, LaunchFine, HeldOK
  <2>8. QED
    BY <1>1, <1>2, <1>4, <2>1, <2>5, <2>6, <2>7 DEF LaunchFine, HeldOK
<1>12. (Busy(m) => batch[Home(m)].dir)'
  BY <1>2, <1>4, <1>6 DEF LaunchFine
<1>13. QED  BY <1>1, <1>7, <1>9, <1>10, <1>11, <1>12 DEF LaunchFine

\* A step inside a measured run leaves the memory and the batch record alone.
LEMMA InsideStep ==
  ASSUME Types, LaunchOK, NEW l \in Launches, proc[l].at \in RunSteps,
         proc'[l].at \in RunSteps, proc'[l].home = proc[l].home,
         proc'[l].index = proc[l].index, proc'[l].runs = proc[l].runs,
         UNCHANGED batch, asked'[Home(l)] \subseteq asked[Home(l)] \cup {Current(l)},
         HeldOK(l)'
  PROVE  LaunchFine(l)'
<1>1. PlaceOK(l) /\ MemoryOK(l) /\ (Busy(l) => batch[Home(l)].dir)
  BY DEF LaunchOK
<1>2. Home(l)' = Home(l) /\ Busy(l) /\ ~At(l, "closed")
  BY DEF Home, Busy, At, RunSteps
<1>3. PlaceOK(l)'
  BY <1>1, <1>2 DEF PlaceOK
<1>4. PlannedOK(l)'
  BY DEF PlannedOK, RunSteps
<1>5. Reached(l)' = Reached(l) /\ Current(l) \in Reached(l)
  <2>1. proc[l].index \in DOMAIN RunOrder
    BY <1>1 DEF PlaceOK
  <2>2. QED  BY <2>1 DEF Reached, Current
<1>6. MemoryOK(l)'
  BY <1>1, <1>2, <1>5 DEF MemoryOK
<1>7. QED  BY <1>1, <1>2, <1>3, <1>4, <1>6 DEF LaunchFine

\* A process that has ended is right about everything.
LEMMA ClosedStep ==
  ASSUME Types, NEW l \in Launches, Close(l)
  PROVE  LaunchFine(l)'
<1>1. proc'[l] = NoProcess
  BY DEF Close, Types
<1>2. QED
  BY <1>1
  DEF NoProcess, LaunchFine, PlaceOK, PlannedOK, MemoryOK, HeldOK, Holds, Busy, At, RunSteps

\* The steps of a measured run.
LEMMA RunStepOwn ==
  ASSUME Types, LaunchOK, Fresh, NEW l \in Launches,
         \/ BeginRun(l) \/ AskBaseline(l) \/ MakeRunDirectory(l) \/ Speak(l) \/ AskFinal(l)
         \/ WriteProfiles(l) \/ Record(l) \/ RunWriteFails(l) \/ TrajectoryWriteFails(l)
  PROVE  LaunchFine(l)'
<1> DEFINE C == Current(l)
           p == proc[l]
           q == proc'[l]
<1>1. Step(l) /\ p.at \in RunSteps
  BY DEF Step, Work, BeginRun, AskBaseline, MakeRunDirectory, Speak, AskFinal,
     WriteProfiles, Record, RunWriteFails, TrajectoryWriteFails, At, RunSteps
<1>2. /\ p \in Process /\ HeldOK(l)
      /\ C \in Runs /\ files[C] \in Files
  BY <1>1, AtHand
<1>3. FilesFrame(l) /\ files \in [Runs -> Files] /\ spoken \in [Runs -> Nat]
        /\ proc \in [Launches -> Process] /\ asked \in [Homes -> SUBSET Runs]
  BY <1>1, FilesStep DEF Types
<1>4. ASSUME NEW place, Go(l, place)
      PROVE  q = [p EXCEPT !.at = place] /\ q.at = place
  <2>1. q = [p EXCEPT !.at = place]
    BY <1>3, <1>4 DEF Go
  <2>2. QED  BY <1>2, <2>1 DEF Process
<1>5. ASSUME NEW result, Leave(l, result)
      PROVE  /\ q = [p EXCEPT !.at = "returned", !.result = result]
             /\ q.at = "returned" /\ q.result = result
  <2>1. q = [p EXCEPT !.at = "returned", !.result = result]
    BY <1>3, <1>5 DEF Leave
  <2>2. QED  BY <1>2, <2>1 DEF Process
<1>6. \/ \E place \in RunSteps : Go(l, place)
      \/ \E result \in Results : Leave(l, result)
  BY DEF BeginRun, AskBaseline, MakeRunDirectory, Speak, AskFinal, WriteProfiles, Record,
     RunWriteFails, TrajectoryWriteFails, RunSteps, Results
<1>7. q.at \in RunSteps /\ q.home = p.home /\ q.index = p.index /\ q.runs = p.runs
  <2>1. ASSUME NEW place \in RunSteps, q = [p EXCEPT !.at = place]
        PROVE  <1>7!:
    BY <1>2, <2>1 DEF Process
  <2>2. ASSUME NEW result \in Results, q = [p EXCEPT !.at = "returned", !.result = result]
        PROVE  <1>7!:
    BY <1>2, <2>2 DEF Process, RunSteps
  <2>3. QED  BY <1>4, <1>5, <1>6, <2>1, <2>2
<1>8. UNCHANGED batch /\ asked'[Home(l)] \subseteq asked[Home(l)] \cup {C}
  <2>1. UNCHANGED batch /\ (asked' = asked
          \/ asked' = [asked EXCEPT ![Home(l)] = asked[Home(l)] \cup {C}])
    BY DEF BeginRun, AskBaseline, MakeRunDirectory, Speak, AskFinal, WriteProfiles, Record,
       RunWriteFails, TrajectoryWriteFails
  <2>2. Home(l) \in Homes
    BY <1>1, AtHand DEF At, RunSteps
  <2>3. QED  BY <1>3, <2>1, <2>2
<1>9. Current(l)' = C
  BY <1>7 DEF Current
<1>10. ASSUME ~Holds(l)'
       PROVE  HeldOK(l)'
  BY <1>10 DEF HeldOK
<1>11. ASSUME NEW place \in RunSteps, Go(l, place),
              place \notin {"turns", "post", "profiles", "measure", "returned"}
       PROVE  HeldOK(l)'
  <2>1. q.at = place
    BY <1>4, <1>11
  <2>2. QED  BY <1>10, <1>11, <2>1 DEF Holds, At
<1>12. ASSUME NEW result \in Results, Leave(l, result), result # "completed"
       PROVE  HeldOK(l)'
  <2>1. q.at = "returned" /\ q.result = result
    BY <1>5, <1>12
  <2>2. QED  BY <1>10, <1>12, <2>1 DEF Holds, At
<1>13. CASE BeginRun(l) \/ AskBaseline(l) \/ RunWriteFails(l) \/ TrajectoryWriteFails(l)
  <2>1. \/ Go(l, "pre") \/ Go(l, "directory") \/ Go(l, "agent_failed")
        \/ Leave(l, "raised") \/ Leave(l, "failed")
    BY <1>13 DEF BeginRun, AskBaseline, RunWriteFails, TrajectoryWriteFails
  <2>2. HeldOK(l)'
    BY <1>11, <1>12, <2>1 DEF RunSteps, Results
  <2>3. QED  BY <1>1, <1>7, <1>8, <2>2, InsideStep
<1>14. CASE MakeRunDirectory(l)
  <2>1. CASE files[C].dir
    <3>1. HeldOK(l)'
      BY <1>11, <1>14, <2>1 DEF MakeRunDirectory, RunSteps
    <3>2. QED  BY <1>1, <1>7, <1>8, <3>1, InsideStep
  <2>2. CASE ~files[C].dir
    <3>1. q.at = "turns" /\ UNCHANGED <<batch, spoken>>
      BY <1>4, <1>14, <2>2 DEF MakeRunDirectory
    <3>2. spoken[C] = 0 /\ files[C].record = "none"
            /\ \A h \in Homes : batch[h].runs[C] # "completed"
      BY <1>2, <2>2 DEF Fresh
    <3>3. files' = [files EXCEPT ![C] = [files[C] EXCEPT !.dir = TRUE]]
      BY <1>14 DEF MakeRunDirectory
    <3>4. files'[C].dir /\ files'[C].record = "none"
      BY <1>2, <1>3, <3>2, <3>3 DEF Files
    <3>5. HeldOK(l)'
      BY <1>9, <3>1, <3>2, <3>4 DEF HeldOK, Holds, At
    <3>6. QED  BY <1>1, <1>7, <1>8, <3>5, InsideStep
  <2>3. QED  BY <2>1, <2>2
<1>15. CASE Speak(l)
  <2>1. CASE Go(l, "agent_failed")
    <3>1. HeldOK(l)'
      BY <1>11, <2>1 DEF RunSteps
    <3>2. QED  BY <1>1, <1>7, <1>8, <3>1, InsideStep
  <2>2. CASE Go(l, "post") /\ files' = [files EXCEPT ![C].record = "completed"]
    <3>1. q.at = "post"
      BY <1>4, <2>2
    <3>2. files'[C] = [files[C] EXCEPT !.record = "completed"]
      BY <1>2, <1>3, <2>2
    <3>3. files'[C].record = "completed" /\ files'[C].dir = files[C].dir
      BY <1>2, <3>2 DEF Files
    <3>4. files[C].dir /\ \A h \in Homes : batch[h].runs[C] # "completed"
      BY <1>2, <1>15 DEF HeldOK, Holds, Speak, At
    <3>5. HeldOK(l)'
      BY <1>8, <1>9, <3>1, <3>3, <3>4 DEF HeldOK, Holds, At
    <3>6. QED  BY <1>1, <1>7, <1>8, <3>5, InsideStep
  <2>3. QED  BY <1>15, <2>1, <2>2 DEF Speak
<1>16. CASE AskFinal(l)
  <2>1. CASE Go(l, "post_failed")
    <3>1. HeldOK(l)'
      BY <1>11, <2>1 DEF RunSteps
    <3>2. QED  BY <1>1, <1>7, <1>8, <3>1, InsideStep
  <2>2. CASE Go(l, "profiles")
    <3>1. q.at = "profiles" /\ p.at = "post" /\ UNCHANGED <<files, batch>>
      BY <1>4, <1>16, <2>2 DEF AskFinal, At
    <3>2. HeldOK(l)'
      BY <1>2, <1>9, <3>1 DEF HeldOK, Holds, At
    <3>3. QED  BY <1>1, <1>7, <1>8, <3>2, InsideStep
  <2>3. QED  BY <1>16, <2>1, <2>2 DEF AskFinal
<1>17. CASE WriteProfiles(l)
  <2>1. CASE Leave(l, "raised")
    <3>1. HeldOK(l)'
      BY <1>12, <2>1 DEF Results
    <3>2. QED  BY <1>1, <1>7, <1>8, <3>1, InsideStep
  <2>2. CASE Go(l, "measure") /\ files' = [files EXCEPT ![C].profiles = "written"]
    <3>1. q.at = "measure" /\ p.at = "profiles" /\ UNCHANGED batch
      BY <1>4, <1>17, <2>2 DEF WriteProfiles, At
    <3>2. files'[C] = [files[C] EXCEPT !.profiles = "written"]
      BY <1>2, <1>3, <2>2
    <3>3. files'[C].profiles = "written" /\ files'[C].dir = files[C].dir
            /\ files'[C].record = files[C].record
      BY <1>2, <3>2 DEF Files
    <3>4. HeldOK(l)'
      BY <1>2, <1>9, <3>1, <3>3 DEF HeldOK, Holds, At
    <3>5. QED  BY <1>1, <1>7, <1>8, <3>4, InsideStep
  <2>3. QED  BY <1>17, <2>1, <2>2 DEF WriteProfiles
<1>18. CASE Record(l)
  <2>1. CASE Leave(l, "raised") \/ Leave(l, "failed")
    <3>1. HeldOK(l)'
      BY <1>12, <2>1 DEF Results
    <3>2. QED  BY <1>1, <1>7, <1>8, <3>1, InsideStep
  <2>2. CASE Leave(l, "completed") /\ At(l, "measure")
               /\ files' = [files EXCEPT ![C].measurement = "completed"]
    <3>1. q.at = "returned" /\ p.at = "measure" /\ UNCHANGED batch
      BY <1>5, <1>18, <2>2 DEF Record, At
    <3>2. files'[C] = [files[C] EXCEPT !.measurement = "completed"]
      BY <1>2, <1>3, <2>2
    <3>3. files'[C].measurement = "completed" /\ files'[C].dir = files[C].dir
            /\ files'[C].record = files[C].record /\ files'[C].profiles = files[C].profiles
      BY <1>2, <3>2 DEF Files
    <3>4. HeldOK(l)'
      BY <1>2, <1>9, <3>1, <3>3 DEF HeldOK, Holds, At
    <3>5. QED  BY <1>1, <1>7, <1>8, <3>4, InsideStep
  <2>3. QED  BY <1>18, <2>1, <2>2 DEF Record, At
<1>19. QED
  BY <1>13, <1>14, <1>15, <1>16, <1>17, <1>18

\* What a whole batch record holds after it was written.
LEMMA RecordWritten ==
  ASSUME Types, NEW l \in Launches, Home(l) \in Homes, NEW status, NEW runs,
         WriteBatchRecord(l, status, runs)
  PROVE  /\ batch'[Home(l)].record = "whole" /\ batch'[Home(l)].status = status
         /\ batch'[Home(l)].runs = runs /\ batch'[Home(l)].dir = batch[Home(l)].dir
<1>1. batch[Home(l)] \in Batch /\ batch \in [Homes -> Batch]
  BY DEF Types
<1>2. batch'[Home(l)] =
        [batch[Home(l)] EXCEPT !.record = "whole", !.status = status, !.runs = runs]
  BY <1>1 DEF WriteBatchRecord
<1>3. QED  BY <1>1, <1>2 DEF Batch

\* A process at the head of its loop, its batch record written.
LEMMA AtLoop ==
  ASSUME NEW l \in Launches, Home(l) \in Homes, proc'[l].home = proc[l].home,
         proc'[l].at = "loop",
         batch'[Home(l)].record = "whole", batch'[Home(l)].status = "running",
         batch'[Home(l)].runs = proc'[l].runs, batch'[Home(l)].dir,
         \A i \in DOMAIN RunOrder :
           i < proc'[l].index => proc'[l].runs[RunOrder[i]] = "completed",
         \A run \in Runs : proc'[l].runs[run] # "failed",
         asked'[Home(l)] \subseteq {RunOrder[i] : i \in {j \in DOMAIN RunOrder : j < proc'[l].index}}
  PROVE  LaunchFine(l)'
<1>1. Home(l)' = Home(l)
  BY DEF Home
<1>2. Reached(l)' = {RunOrder[i] : i \in {j \in DOMAIN RunOrder : j < proc'[l].index}}
  BY DEF Reached, RunSteps
<1>3. PlaceOK(l)'
  BY <1>1 DEF PlaceOK, RunSteps
<1>4. PlannedOK(l)'
  BY DEF PlannedOK
<1>5. MemoryOK(l)'
  BY <1>1, <1>2 DEF MemoryOK
<1>6. HeldOK(l)'
  BY DEF HeldOK, Holds, At
<1>7. QED  BY <1>1, <1>3, <1>4, <1>5, <1>6 DEF LaunchFine

\* The steps of the batch around its runs.
LEMMA BatchStepOwn ==
  ASSUME Types, LaunchOK, Fresh, NEW l \in Launches,
         \/ \E h \in Homes : Begin(l, h)
         \/ MakeBatchDirectory(l) \/ WriteManifest(l) \/ WritePlan(l) \/ TakeUp(l)
         \/ Mark(l) \/ FinishBatch(l) \/ BatchWriteFails(l) \/ Crash(l)
  PROVE  LaunchFine(l)'
<1> DEFINE p == proc[l]
           q == proc'[l]
           H == Home(l)
           C == Current(l)
<1>1. /\ p \in Process /\ p.runs \in [Runs -> States] /\ p.index \in Nat
      /\ MemoryOK(l) /\ PlannedOK(l) /\ (Busy(l) => batch[H].dir)
      /\ ~At(l, "closed") => H \in Homes /\ batch[H] \in Batch
      /\ p.at \in RunSteps => p.index \in DOMAIN RunOrder /\ C \in Runs
  BY AtHand, OrderIsInjective DEF Process, LaunchOK
<1>2. proc \in [Launches -> Process]
  BY DEF Types
<1>3. CASE \E h \in Homes : Begin(l, h)
  <2>1. PICK h \in Homes : Begin(l, h)
    BY <1>3
  <2>2. q = [p EXCEPT !.at = "mkdir", !.home = h] /\ At(l, "closed")
    BY <1>2, <2>1 DEF Begin
  <2>3. q.at = "mkdir" /\ q.home = h /\ q.index = 1 /\ q.runs = [run \in Runs |-> "planned"]
    BY <1>1, <2>2 DEF Process, PlannedOK, At
  <2>4. QED
    BY <2>3 DEF LaunchFine, PlaceOK, PlannedOK, MemoryOK, HeldOK, Holds, Busy, At, RunSteps, Home
<1>4. CASE MakeBatchDirectory(l) /\ ~batch[H].dir
  <2>1. q = [p EXCEPT !.at = "manifest"] /\ At(l, "mkdir")
    BY <1>2, <1>4 DEF MakeBatchDirectory, Go
  <2>2. q.at = "manifest" /\ q.home = p.home /\ q.index = 1
          /\ q.runs = [run \in Runs |-> "planned"]
    BY <1>1, <2>1 DEF Process, PlannedOK, At
  <2>3. H \in Homes /\ H = Home(l)'
    BY <1>1, <2>1, <2>2 DEF At, Home
  <2>4. batch[H] = NoBatch /\ asked[H] = {}
    BY <1>4, <2>3 DEF Fresh
  <2>5. batch'[H] = [batch[H] EXCEPT !.dir = TRUE] /\ asked' = asked
    BY <1>4, <2>3 DEF MakeBatchDirectory, Types
  <2>6. batch'[H] = [NoBatch EXCEPT !.dir = TRUE]' /\ asked'[H] = {}
    BY <2>4, <2>5 DEF NoBatch
  <2>7. batch'[H].dir
    BY <2>6 DEF NoBatch
  <2>8. QED
    BY <2>2, <2>3, <2>6, <2>7
    DEF LaunchFine, PlaceOK, PlannedOK, MemoryOK, HeldOK, Holds, Busy, At, RunSteps
<1>5. CASE WriteManifest(l)
  <2>1. q = [p EXCEPT !.at = "plan"] /\ At(l, "manifest") /\ UNCHANGED <<batch, asked>>
    BY <1>2, <1>5 DEF WriteManifest, Go
  <2>2. q.at = "plan" /\ q.home = p.home /\ q.index = p.index /\ q.runs = p.runs
    BY <1>1, <2>1 DEF Process
  <2>3. H \in Homes /\ H = Home(l)' /\ batch[H].dir /\ p.at = "manifest"
    BY <1>1, <2>1, <2>2 DEF At, Home, Busy
  <2>4. PlannedOK(l)'
    BY <1>1, <2>1, <2>2, <2>3 DEF PlannedOK, NoBatch
  <2>5. QED
    BY <2>1, <2>2, <2>3, <2>4
    DEF LaunchFine, PlaceOK, MemoryOK, HeldOK, Holds, Busy, At, RunSteps
<1>6. CASE WritePlan(l)
  <2>1. q = [p EXCEPT !.at = "loop"] /\ p.at = "plan"
          /\ WriteBatchRecord(l, "running", p.runs) /\ asked' = asked
    BY <1>2, <1>6 DEF WritePlan, Go, At
  <2>2. q.at = "loop" /\ q.home = p.home /\ q.index = p.index /\ q.runs = p.runs
    BY <1>1, <2>1 DEF Process
  <2>3. H \in Homes /\ batch[H].dir /\ asked[H] = {}
          /\ p.index = 1 /\ p.runs = [run \in Runs |-> "planned"]
    BY <1>1, <2>1 DEF At, Busy, PlannedOK
  <2>4. \A i \in DOMAIN RunOrder : ~(i < 1)
    BY OrderIsInjective
  <2>5. /\ batch'[H].record = "whole" /\ batch'[H].status = "running"
        /\ batch'[H].runs = p.runs /\ batch'[H].dir
    BY <2>1, <2>3, RecordWritten
  <2>6. \A run \in Runs : p.runs[run] # "failed"
    BY <2>3
  <2>7. QED  BY <2>1, <2>2, <2>3, <2>4, <2>5, <2>6, AtLoop
<1>7. CASE TakeUp(l)
  <2> DEFINE runs == [p.runs EXCEPT ![C] = "running"]
  <2>1. q = [p EXCEPT !.at = "run", !.runs = runs] /\ p.at = "loop"
          /\ p.index <= Len(RunOrder) /\ WriteBatchRecord(l, "running", runs) /\ asked' = asked
    BY <1>2, <1>7 DEF TakeUp, At
  <2>2. q.at = "run" /\ q.home = p.home /\ q.index = p.index /\ q.runs = runs
    BY <1>1, <2>1 DEF Process
  <2>3. H \in Homes /\ batch[H].dir /\ H = Home(l)' /\ p.index \in DOMAIN RunOrder
          /\ C \in Runs /\ C = RunOrder[p.index]
    BY <1>1, <2>1, <2>2, OrderIsInjective DEF At, Busy, Home, Process, Current
  <2>4. /\ batch'[H].record = "whole" /\ batch'[H].status = "running"
        /\ batch'[H].runs = runs /\ batch'[H].dir
    BY <2>1, <2>3, RecordWritten
  <2>5. \A i \in DOMAIN RunOrder : i < p.index => runs[RunOrder[i]] = "completed"
    <3>1. SUFFICES ASSUME NEW i \in DOMAIN RunOrder, i < p.index
                   PROVE  runs[RunOrder[i]] = "completed"
      OBVIOUS
    <3>2. RunOrder[i] # C /\ RunOrder[i] \in Runs
      BY <1>1, <2>3, <3>1, OrderIsInjective
    <3>3. p.runs[RunOrder[i]] = "completed"
      BY <1>1, <2>1, <3>1 DEF MemoryOK
    <3>4. QED  BY <1>1, <3>2, <3>3
  <2>6. \A run \in Runs : runs[run] # "failed"
    BY <1>1, <2>1 DEF MemoryOK
  <2>7. asked'[H] \subseteq Reached(l)'
    <3>1. asked[H] \subseteq Reached(l)
      BY <1>1, <2>1 DEF MemoryOK
    <3>2. Reached(l) \subseteq Reached(l)'
      BY <2>1, <2>2 DEF Reached, RunSteps
    <3>3. QED  BY <2>1, <3>1, <3>2
  <2> HIDE DEF runs
  <2>8. MemoryOK(l)'
    BY <2>2, <2>3, <2>4, <2>5, <2>6, <2>7 DEF MemoryOK
  <2>9. QED
    BY <2>2, <2>3, <2>4, <2>8
    DEF LaunchFine, PlaceOK, PlannedOK, HeldOK, Holds, Busy, At, RunSteps
<1>8. CASE Mark(l) /\ RunOutcome(l) # "failed"
  <2> DEFINE runs == [p.runs EXCEPT ![C] = RunOutcome(l)]
  <2>1. RunOutcome(l) = "completed" /\ p.at = "returned" /\ asked' = asked
    BY <1>8 DEF RunOutcome, Mark, At
  <2>2. q = [p EXCEPT !.at = "loop", !.index = p.index + 1, !.runs = runs]
          /\ WriteBatchRecord(l, "running", runs)
    BY <1>2, <1>8 DEF Mark
  <2>3. q.at = "loop" /\ q.home = p.home /\ q.index = p.index + 1 /\ q.runs = runs
    BY <1>1, <2>2 DEF Process
  <2>4. H \in Homes /\ batch[H].dir /\ p.index \in DOMAIN RunOrder /\ C \in Runs
          /\ C = RunOrder[p.index]
    BY <1>1, <2>1 DEF At, Busy, Current, RunSteps
  <2>5. /\ batch'[H].record = "whole" /\ batch'[H].status = "running"
        /\ batch'[H].runs = runs /\ batch'[H].dir
    BY <2>2, <2>4, RecordWritten
  <2>6. \A i \in DOMAIN RunOrder : i < p.index + 1 => runs[RunOrder[i]] = "completed"
    <3>1. SUFFICES ASSUME NEW i \in DOMAIN RunOrder, i < p.index + 1
                   PROVE  runs[RunOrder[i]] = "completed"
      OBVIOUS
    <3>2. RunOrder[i] \in Runs /\ (i = p.index \/ i < p.index)
      BY <1>1, <3>1, OrderIsInjective
    <3>3. i < p.index => p.runs[RunOrder[i]] = "completed"
      BY <1>1, <2>1, <3>1 DEF MemoryOK, RunSteps
    <3>4. QED  BY <1>1, <2>1, <2>4, <3>2, <3>3
  <2>7. \A run \in Runs : runs[run] # "failed"
    BY <1>1, <2>1 DEF MemoryOK, RunSteps
  <2>8. asked'[H] \subseteq {RunOrder[i] : i \in {j \in DOMAIN RunOrder : j < p.index + 1}}
    <3>1. asked[H] \subseteq Reached(l)
      BY <1>1, <2>1 DEF MemoryOK, RunSteps
    <3>2. \A j \in DOMAIN RunOrder : j < p.index \/ j = p.index => j < p.index + 1
      BY <1>1, OrderIsInjective
    <3>3. QED  BY <2>1, <3>1, <3>2 DEF Reached
  <2> HIDE DEF runs
  <2>9. QED  BY <2>3, <2>4, <2>5, <2>6, <2>7, <2>8, AtLoop
<1>9. CASE Close(l)
  BY <1>9, ClosedStep
<1>10. \/ (\E h \in Homes : Begin(l, h)) \/ (MakeBatchDirectory(l) /\ ~batch[H].dir)
       \/ WriteManifest(l) \/ WritePlan(l) \/ TakeUp(l)
       \/ (Mark(l) /\ RunOutcome(l) # "failed") \/ Close(l)
  BY DEF MakeBatchDirectory, Mark, FinishBatch, BatchWriteFails, Crash
<1>11. QED
  BY <1>3, <1>4, <1>5, <1>6, <1>7, <1>8, <1>9, <1>10

\* So every launch stays right about its batch and its run.
LEMMA LaunchesStep ==
  ASSUME Types, LaunchOK, Alone, Fresh, NEW l \in Launches, Step(l)
  PROVE  LaunchOK'
<1>1. LaunchFine(l)'
  BY RunStepOwn, BatchStepOwn DEF Step, Work
<1>2. \A m \in Launches : LaunchFine(m)'
  BY <1>1, OthersStep
<1>3. QED  BY <1>2 DEF LaunchOK, LaunchFine

\* A launch comes by a batch and by a run where there is no directory only.
LEMMA MoveStep ==
  ASSUME Types, LaunchOK, NEW l \in Launches, Step(l)
  PROVE  /\ Busy(l)' => /\ ~At(l, "closed") /\ Home(l)' = Home(l)
                        /\ Busy(l) \/ ~batch[Home(l)].dir
         /\ Holds(l)' => /\ proc[l].at \in RunSteps /\ Current(l)' = Current(l)
                         /\ Holds(l) \/ ~files[Current(l)].dir
<1> DEFINE p == proc[l]
           q == proc'[l]
           Moved == /\ Busy(l)' => /\ ~At(l, "closed") /\ Home(l)' = Home(l)
                                   /\ Busy(l) \/ ~batch[Home(l)].dir
                    /\ Holds(l)' => /\ p.at \in RunSteps /\ Current(l)' = Current(l)
                                    /\ Holds(l) \/ ~files[Current(l)].dir
<1>1. p \in Process /\ proc \in [Launches -> Process]
  BY AtHand DEF Types
<1>2. ASSUME Close(l)
      PROVE  Moved
  <2>1. q = NoProcess
    BY <1>1, <1>2 DEF Close
  <2>2. QED  BY <2>1 DEF NoProcess, Busy, Holds, At
<1>3. ASSUME NEW place, Go(l, place)
      PROVE  q.at = place /\ Home(l)' = Home(l) /\ Current(l)' = Current(l)
  <2>1. q = [p EXCEPT !.at = place]
    BY <1>1, <1>3 DEF Go
  <2>2. QED  BY <1>1, <2>1 DEF Process, Home, Current
<1>4. ASSUME NEW result, Leave(l, result)
      PROVE  q.at = "returned" /\ q.result = result
               /\ Home(l)' = Home(l) /\ Current(l)' = Current(l)
  <2>1. q = [p EXCEPT !.at = "returned", !.result = result]
    BY <1>1, <1>4 DEF Leave
  <2>2. QED  BY <1>1, <2>1 DEF Process, Home, Current
<1>5. CASE \E h \in Homes : Begin(l, h)
  <2>1. PICK h \in Homes : q = [p EXCEPT !.at = "mkdir", !.home = h]
    BY <1>1, <1>5 DEF Begin
  <2>2. q.at = "mkdir"
    BY <1>1, <2>1 DEF Process
  <2>3. QED  BY <2>2 DEF Busy, Holds, At
<1>6. CASE TakeUp(l)
  <2>1. PICK runs : q = [p EXCEPT !.at = "run", !.runs = runs]
    BY <1>1, <1>6 DEF TakeUp
  <2>2. q.at = "run" /\ q.home = p.home /\ Busy(l)
    BY <1>1, <1>6, <2>1 DEF Process, TakeUp, Busy, At
  <2>3. QED  BY <2>2 DEF Busy, Holds, At, Home
<1>7. CASE Mark(l) /\ ~Close(l)
  <2>1. PICK runs : q = [p EXCEPT !.at = "loop", !.index = p.index + 1, !.runs = runs]
    BY <1>1, <1>7 DEF Mark
  <2>2. q.at = "loop" /\ q.home = p.home /\ Busy(l)
    BY <1>1, <1>7, <2>1 DEF Process, Mark, Busy, At
  <2>3. QED  BY <2>2 DEF Busy, Holds, At, Home
<1>8. CASE (MakeBatchDirectory(l) /\ ~Close(l)) \/ WriteManifest(l) \/ WritePlan(l)
  <2>1. \/ Go(l, "manifest") /\ At(l, "mkdir") /\ ~batch[Home(l)].dir
        \/ (Go(l, "plan") \/ Go(l, "loop")) /\ Busy(l)
    BY <1>8 DEF MakeBatchDirectory, WriteManifest, WritePlan, Busy, At
  <2>2. q.at \in {"manifest", "plan", "loop"} /\ Home(l)' = Home(l)
          /\ ~At(l, "closed") /\ (Busy(l) \/ ~batch[Home(l)].dir)
    BY <1>3, <2>1 DEF Busy, At
  <2>3. QED  BY <2>2 DEF Holds, At
<1>9. CASE BeginRun(l) \/ AskBaseline(l) \/ RunWriteFails(l) \/ TrajectoryWriteFails(l)
  <2>1. Busy(l) /\ (\/ Go(l, "pre") \/ Go(l, "directory") \/ Go(l, "agent_failed")
                    \/ Leave(l, "raised") \/ Leave(l, "failed"))
    BY <1>9 DEF BeginRun, AskBaseline, RunWriteFails, TrajectoryWriteFails, Busy, At
  <2>2. Home(l)' = Home(l) /\ ~Holds(l)'
    BY <1>3, <1>4, <2>1 DEF Holds, At
  <2>3. QED  BY <2>1, <2>2 DEF Busy
<1>10. CASE MakeRunDirectory(l) \/ Speak(l) \/ AskFinal(l) \/ WriteProfiles(l) \/ Record(l)
  <2>1. Busy(l) /\ p.at \in RunSteps
    BY <1>10 DEF MakeRunDirectory, Speak, AskFinal, WriteProfiles, Record, Busy, At, RunSteps
  <2>2. \/ Go(l, "agent_failed") \/ Go(l, "post_failed")
        \/ Leave(l, "failed") \/ Leave(l, "raised")
        \/ /\ \E place : Go(l, place) \/ Leave(l, place)
           /\ Holds(l) \/ ~files[Current(l)].dir
    BY <1>10 DEF MakeRunDirectory, Speak, AskFinal, WriteProfiles, Record, Holds, At
  <2>3. Home(l)' = Home(l) /\ Current(l)' = Current(l)
          /\ (~Holds(l)' \/ Holds(l) \/ ~files[Current(l)].dir)
    BY <1>3, <1>4, <2>2 DEF Holds, At
  <2>4. QED  BY <2>1, <2>3 DEF Busy
<1>11. Moved
  BY <1>2, <1>5, <1>6, <1>7, <1>8, <1>9, <1>10
  DEF Step, Work, FinishBatch, BatchWriteFails, Crash
<1>12. QED  BY <1>11

LEMMA AloneStep ==
  ASSUME Types, LaunchOK, Alone, NEW l \in Launches, Step(l)
  PROVE  Alone'
<1>1. ASSUME NEW m \in Launches, m # l
      PROVE  /\ ~(Busy(l)' /\ Busy(m)' /\ Home(l)' = Home(m)')
             /\ ~(Holds(l)' /\ Holds(m)' /\ Current(l)' = Current(m)')
  <2>1. proc'[m] = proc[m]
    BY <1>1, OthersStep
  <2>2. /\ Busy(m)' <=> Busy(m)
        /\ Holds(m)' <=> Holds(m)
        /\ Home(m)' = Home(m) /\ Current(m)' = Current(m)
    BY <2>1 DEF At, Busy, Holds, Home, Current
  <2>3. (Busy(m) => batch[Home(m)].dir) /\ (Holds(m) => files[Current(m)].dir)
    BY DEF LaunchOK, HeldOK
  <2>4. /\ ~(Busy(l) /\ Busy(m) /\ Home(l) = Home(m))
        /\ ~(Holds(l) /\ Holds(m) /\ Current(l) = Current(m))
    BY <1>1 DEF Alone
  <2>5. /\ Busy(l)' => Home(l)' = Home(l) /\ (Busy(l) \/ ~batch[Home(l)].dir)
        /\ Holds(l)' => Current(l)' = Current(l) /\ (Holds(l) \/ ~files[Current(l)].dir)
    BY MoveStep
  <2>6. ~(Busy(l)' /\ Busy(m)' /\ Home(l)' = Home(m)')
    BY <2>2, <2>3, <2>4, <2>5
  <2>7. ~(Holds(l)' /\ Holds(m)' /\ Current(l)' = Current(m)')
    BY <2>2, <2>3, <2>4, <2>5
  <2>8. QED  BY <2>6, <2>7
<1>2. ASSUME NEW m \in Launches, NEW k \in Launches, m # l, k # l
      PROVE  /\ Busy(m)' /\ Busy(k)' /\ Home(m)' = Home(k)' => m = k
             /\ Holds(m)' /\ Holds(k)' /\ Current(m)' = Current(k)' => m = k
  <2>1. proc'[m] = proc[m] /\ proc'[k] = proc[k]
    BY <1>2, OthersStep
  <2>2. QED  BY <2>1 DEF Alone, At, Busy, Holds, Home, Current
<1>3. ASSUME NEW m \in Launches, NEW k \in Launches, m # k
      PROVE  /\ ~(Busy(m)' /\ Busy(k)' /\ Home(m)' = Home(k)')
             /\ ~(Holds(m)' /\ Holds(k)' /\ Current(m)' = Current(k)')
  <2>1. CASE m = l
    BY <1>1, <1>3, <2>1
  <2>2. CASE k = l
    <3>1. m # l
      BY <1>3, <2>2
    <3>2. QED  BY <1>1, <2>2, <3>1
  <2>3. CASE m # l /\ k # l
    BY <1>2, <1>3, <2>3
  <2>4. QED  BY <2>1, <2>2, <2>3
<1>4. QED  BY <1>3 DEF Alone

LEMMA TypesStep ==
  ASSUME Types, LaunchOK, NEW l \in Launches, Step(l)
  PROVE  Types'
<1>1. PICK q \in Process : proc' = [proc EXCEPT ![l] = q]
  BY ProcessStep
<1>2. proc' \in [Launches -> Process]
  BY <1>1 DEF Types
<1>3. BatchFrame(l) /\ FilesFrame(l)
  BY BatchStep, FilesStep
<1>4. QED  BY <1>2, <1>3 DEF Types, BatchFrame, FilesFrame

\* A run that is spoken of, or claimed, has its directory.
LEMMA FreshRunStep ==
  ASSUME Types, LaunchOK, Fresh, NEW l \in Launches, Step(l)
  PROVE  Fresh'
<1>1. BatchFrame(l) /\ FilesFrame(l)
  BY BatchStep, FilesStep
<1>2. ASSUME NEW h \in Homes, ~batch'[h].dir
      PROVE  batch'[h] = NoBatch /\ asked'[h] = {}
  BY <1>1, <1>2 DEF BatchFrame, Fresh
<1>3. ASSUME NEW run \in Runs, ~files'[run].dir
      PROVE  /\ spoken'[run] = 0 /\ files'[run].record = "none"
             /\ \A h \in Homes : batch'[h].runs[run] # "completed"
  <2>1. ~files[run].dir
    BY <1>1, <1>3 DEF FilesFrame, Kept
  <2>2. ~(Holds(l) /\ run = Current(l))
    BY <2>1 DEF LaunchOK, HeldOK
  <2>3. At(l, "turns") => Holds(l)
    BY DEF At, Holds
  <2>4. spoken'[run] = spoken[run] /\ files'[run].record = files[run].record
    BY <1>1, <2>2, <2>3 DEF FilesFrame, Kept
  <2>5. \A h \in Homes : batch'[h].runs[run] # "completed"
    BY <1>1, <2>1, <2>2 DEF BatchFrame, Fresh
  <2>6. QED  BY <2>1, <2>4, <2>5 DEF Fresh
<1>4. NoBatch' = NoBatch
  BY DEF NoBatch
<1>5. QED  BY <1>2, <1>3, <1>4 DEF Fresh

LEMMA SpokenStep ==
  ASSUME Types, LaunchOK, SpokenOnce, NEW l \in Launches, Step(l)
  PROVE  SpokenOnce'
<1>1. FilesFrame(l)
  BY FilesStep
<1>2. SUFFICES ASSUME NEW run \in Runs
               PROVE  spoken'[run] <= 1
  BY DEF SpokenOnce
<1>3. spoken[run] <= 1 /\ spoken[run] \in Nat
  BY DEF SpokenOnce, Types
<1>4. At(l, "turns") => spoken[Current(l)] = 0
  BY DEF LaunchOK, HeldOK, Holds, At
<1>5. \/ spoken'[run] = spoken[run]
      \/ spoken'[run] = spoken[run] + 1 /\ spoken[run] = 0
  BY <1>1, <1>4 DEF FilesFrame
<1>6. QED  BY <1>3, <1>5

-----------------------------------------------------------------------------
(* What a batch record says. *)

\* What is recorded as completed stays backed, and is recorded nowhere else.
LEMMA TruthfulStep ==
  ASSUME Types, LaunchOK, \A h \in Homes : Truthful(h), NEW l \in Launches, Step(l),
         NEW h \in Homes
  PROVE  Truthful(h)'
<1>1. BatchFrame(l) /\ FilesFrame(l)
  BY BatchStep, FilesStep
<1>2. SUFFICES ASSUME NEW run \in Runs, batch'[h].runs[run] = "completed"
               PROVE  /\ files'[run].record = "completed" /\ files'[run].profiles = "written"
                      /\ files'[run].measurement = "completed"
                      /\ \A g \in Homes \ {h} : batch'[g].runs[run] # "completed"
  BY DEF Truthful
<1>3. (Holds(l) /\ run = Current(l)) => \A g \in Homes : batch[g].runs[run] # "completed"
  BY DEF LaunchOK, HeldOK
<1>4. At(l, "turns") => Holds(l) /\ ~At(l, "returned")
  BY DEF At, Holds
<1>5. ~(At(l, "turns") /\ run = Current(l))
  <2>1. batch[h].runs[run] = "completed" => ~(Holds(l) /\ run = Current(l))
    BY <1>3
  <2>2. QED  BY <1>1, <1>2, <1>4, <2>1 DEF BatchFrame
<1>6. /\ files[run].record = "completed" /\ files[run].profiles = "written"
      /\ files[run].measurement = "completed"
  <2>1. CASE batch[h].runs[run] = "completed"
    BY <2>1 DEF Truthful
  <2>2. CASE batch[h].runs[run] # "completed"
    <3>1. At(l, "returned") /\ Holds(l) /\ run = Current(l)
      BY <1>1, <1>2, <2>2 DEF BatchFrame
    <3>2. QED  BY <3>1 DEF LaunchOK, HeldOK, At
  <2>3. QED  BY <2>1, <2>2
<1>7. /\ files'[run].record = "completed" /\ files'[run].profiles = "written"
      /\ files'[run].measurement = "completed"
  BY <1>1, <1>5, <1>6 DEF FilesFrame, Kept
<1>8. ASSUME NEW g \in Homes \ {h}
      PROVE  batch'[g].runs[run] # "completed"
  <2>1. CASE batch[h].runs[run] = "completed"
    <3>1. batch[g].runs[run] # "completed" /\ ~(Holds(l) /\ run = Current(l))
      BY <1>3, <1>8, <2>1 DEF Truthful
    <3>2. QED  BY <1>1, <3>1 DEF BatchFrame
  <2>2. CASE batch[h].runs[run] # "completed"
    <3>1. Holds(l) /\ run = Current(l) /\ h = Home(l)
      BY <1>1, <1>2, <2>2 DEF BatchFrame
    <3>2. batch[g].runs[run] # "completed"
      BY <1>3, <3>1
    <3>3. QED  BY <1>1, <1>8, <3>1, <3>2 DEF BatchFrame
  <2>3. QED  BY <2>1, <2>2
<1>9. QED  BY <1>7, <1>8

\* What a process in its loop or its run knows is that its record is in order.
LEMMA MemoryInOrder ==
  ASSUME Types, NEW l \in Launches, PlaceOK(l), MemoryOK(l),
         proc[l].at \in RunSteps \cup {"loop"}
  PROVE  /\ InOrder(Home(l))
         /\ \A i, j \in DOMAIN RunOrder : i < j /\ RunOrder[j] \in Reached(l) =>
              /\ proc[l].at \in RunSteps => RunOrder[i] # Current(l)
              /\ proc[l].runs[RunOrder[i]] = "completed"
<1>1. proc[l].index \in Nat
  BY OrderIsInjective DEF Types, Process
<1>2. ASSUME NEW i \in DOMAIN RunOrder, NEW j \in DOMAIN RunOrder,
             i < j, RunOrder[j] \in Reached(l)
      PROVE  /\ proc[l].at \in RunSteps => RunOrder[i] # Current(l)
             /\ proc[l].runs[RunOrder[i]] = "completed"
  <2>1. PICK k \in DOMAIN RunOrder : RunOrder[j] = RunOrder[k]
               /\ (k < proc[l].index \/ (k = proc[l].index /\ proc[l].at \in RunSteps))
    BY <1>2 DEF Reached
  <2>2. j = k
    BY <2>1, OrderIsInjective
  <2>3. i < proc[l].index /\ i \in Nat
    BY <1>1, <1>2, <2>1, <2>2, OrderIsInjective
  <2>4. proc[l].at \in RunSteps => RunOrder[i] # Current(l)
    BY <1>1, <2>3, OrderIsInjective DEF Current, PlaceOK
  <2>5. QED  BY <2>3, <2>4 DEF MemoryOK
<1>3. InOrder(Home(l))
  BY <1>2 DEF InOrder, MemoryOK
<1>4. QED  BY <1>2, <1>3

\* The same of the state after a step.
LEMMA MemoryInOrderNext ==
  (\A l \in Launches :
     Types /\ PlaceOK(l) /\ MemoryOK(l) /\ proc[l].at \in RunSteps \cup {"loop"}
       => InOrder(Home(l)))'
<1>1. \A l \in Launches :
        Types /\ PlaceOK(l) /\ MemoryOK(l) /\ proc[l].at \in RunSteps \cup {"loop"}
          => InOrder(Home(l))
  BY MemoryInOrder
<1>2. QED  BY <1>1, PTL

\* Whoever closes the record of a batch leaves it in order.
LEMMA InOrderStep ==
  ASSUME Types, LaunchOK, Alone, Fresh, \A h \in Homes : InOrder(h),
         NEW l \in Launches, Step(l), NEW h \in Homes
  PROVE  InOrder(h)'
<1> DEFINE p == proc[l]
           H == Home(l)
           C == Current(l)
<1>1. BatchFrame(l) /\ LaunchOK' /\ Types'
  BY BatchStep, LaunchesStep, TypesStep
<1>2. ASSUME batch'[h] = batch[h], asked'[h] = asked[h]
      PROVE  InOrder(h)'
  BY <1>2 DEF InOrder
<1>3. CASE ~(Busy(l) /\ h = H)
  <2>1. CASE batch'[h] = batch[h] /\ asked'[h] = asked[h]
    BY <1>2, <2>1
  <2>2. CASE h = H /\ ~Busy(l) /\ ~At(l, "closed")
    <3>1. At(l, "mkdir")
      BY <2>2 DEF Busy
    <3>2. MakeBatchDirectory(l) \/ UNCHANGED <<batch, asked>>
      BY <3>1
      DEF Step, Work, Begin, WriteManifest, WritePlan, TakeUp, BeginRun, AskBaseline,
          MakeRunDirectory, Speak, AskFinal, WriteProfiles, Record, Mark, FinishBatch,
          RunWriteFails, TrajectoryWriteFails, BatchWriteFails, Crash, At
    <3>3. CASE MakeBatchDirectory(l)
      <4>1. batch'[H] = [batch[H] EXCEPT !.dir = TRUE] /\ batch[H] \in Batch /\ asked' = asked
        BY <2>2, <3>3 DEF MakeBatchDirectory, Types
      <4>2. batch'[H].record = batch[H].record /\ batch'[H].status = batch[H].status
              /\ batch'[H].runs = batch[H].runs
        BY <4>1 DEF Batch
      <4>3. QED  BY <2>2, <4>1, <4>2 DEF InOrder
    <3>4. QED  BY <1>2, <3>2, <3>3
  <2>3. CASE At(l, "closed")
    <3>1. UNCHANGED <<batch, asked>>
      BY <2>3
      DEF Step, Work, Begin, MakeBatchDirectory, WriteManifest, WritePlan, TakeUp, BeginRun,
          AskBaseline, MakeRunDirectory, Speak, AskFinal, WriteProfiles, Record, Mark, FinishBatch,
          RunWriteFails, TrajectoryWriteFails, BatchWriteFails, Crash, At
    <3>2. QED  BY <1>2, <3>1
  <2>4. QED  BY <1>1, <1>3, <2>1, <2>2, <2>3 DEF BatchFrame
<1>4. CASE Busy(l) /\ h = H /\ proc'[l].at \in RunSteps \cup {"loop"}
  <2>1. PlaceOK(l)' /\ MemoryOK(l)'
    BY <1>1 DEF LaunchOK
  <2>2. InOrder(Home(l))'
    BY <1>1, <1>4, <2>1, MemoryInOrderNext
  <2>3. Home(l)' = H
    BY <1>4, MoveStep DEF Busy, At, RunSteps
  <2>4. QED  BY <1>4, <2>2, <2>3 DEF InOrder
<1>5. CASE Busy(l) /\ h = H /\ proc'[l].at \notin RunSteps \cup {"loop"}
  <2>1. H \in Homes /\ batch \in [Homes -> Batch] /\ batch[H] \in Batch
          /\ PlaceOK(l) /\ MemoryOK(l) /\ p \in Process
          /\ asked \in [Homes -> SUBSET Runs] /\ proc \in [Launches -> Process]
    BY <1>5, AtHand DEF Busy, Types
  <2>2. CASE UNCHANGED <<batch, asked>>
    BY <1>2, <2>2
  <2>3. CASE FinishBatch(l)
    <3>1. p.at = "loop" /\ WriteBatchRecord(l, "completed", p.runs) /\ asked' = asked
      BY <2>3 DEF FinishBatch, At
    <3>2. batch'[H].record = "whole" /\ batch'[H].status = "completed" /\ batch'[H].runs = p.runs
      BY <2>1, <3>1, RecordWritten
    <3>3. /\ batch[H].record = "whole" /\ batch[H].runs = p.runs
          /\ \A run \in Runs : p.runs[run] # "failed"
      BY <2>1, <3>1 DEF MemoryOK
    <3>4. InOrder(H)
      BY <2>1
    <3>5. QED  BY <1>5, <3>1, <3>2, <3>3, <3>4 DEF InOrder
  <2>4. CASE Mark(l) /\ RunOutcome(l) = "failed"
    <3> DEFINE runs == [p.runs EXCEPT ![C] = "failed"]
    <3>1. p.at = "returned" /\ WriteBatchRecord(l, "failed", runs) /\ asked' = asked
      BY <2>4 DEF Mark, At
    <3>2. C \in Runs /\ p.runs \in [Runs -> States]
      BY <2>1, <3>1, AtHand DEF RunSteps, Process
    <3>3. batch'[H].record = "whole" /\ batch'[H].status = "failed" /\ batch'[H].runs = runs
      BY <2>1, <3>1, RecordWritten
    <3>4. asked[H] \subseteq Reached(l)
      BY <2>1, <3>1 DEF MemoryOK, RunSteps
    <3>5. ASSUME NEW i \in DOMAIN RunOrder, NEW j \in DOMAIN RunOrder, i < j,
                 RunOrder[j] \in asked[H]
          PROVE  runs[RunOrder[i]] = "completed"
      <4>1. RunOrder[i] # C /\ p.runs[RunOrder[i]] = "completed" /\ RunOrder[i] \in Runs
        BY <2>1, <3>1, <3>4, <3>5, MemoryInOrder, OrderIsInjective DEF RunSteps
      <4>2. QED  BY <3>2, <4>1
    <3>6. runs[C] = "failed"
      BY <3>2
    <3> HIDE DEF runs
    <3>7. QED  BY <1>5, <3>1, <3>2, <3>3, <3>5, <3>6 DEF InOrder
  <2>5. CASE BatchWriteFails(l) /\ batch' # batch
    <3>1. batch'[H] = [batch[H] EXCEPT !.record = "partial"]
      BY <2>1, <2>5 DEF BatchWriteFails
    <3>2. batch'[H].record = "partial"
      BY <2>1, <3>1 DEF Batch
    <3>3. QED  BY <1>5, <3>2 DEF InOrder
  <2>6. CASE Crash(l) /\ asked' # asked
    <3>1. p.at = "pre" /\ batch' = batch /\ asked'[H] = asked[H] \cup {C}
      BY <2>1, <2>6 DEF Crash, At
    <3>2. asked[H] \subseteq Reached(l) /\ batch[H].runs = p.runs
            /\ p.index \in DOMAIN RunOrder
      BY <2>1, <3>1 DEF MemoryOK, PlaceOK, RunSteps
    <3>3. C \in Reached(l)
      BY <3>1, <3>2 DEF Reached, Current, RunSteps
    <3>4. ASSUME NEW i \in DOMAIN RunOrder, NEW j \in DOMAIN RunOrder, i < j,
                 RunOrder[j] \in asked'[H]
          PROVE  batch'[H].runs[RunOrder[i]] = "completed"
      BY <2>1, <3>1, <3>2, <3>3, <3>4, MemoryInOrder DEF RunSteps
    <3>5. InOrder(H)
      BY <2>1
    <3>6. QED  BY <1>5, <3>1, <3>4, <3>5 DEF InOrder
  <2>7. p.at \notin {"closed", "mkdir"}
    BY <1>5 DEF Busy, At
  <2>8. \A place : Go(l, place) => proc'[l].at = place
    BY <2>1 DEF Go, Process
  <2>9. \A result : Leave(l, result) => proc'[l].at = "returned"
    BY <2>1 DEF Leave, Process
  <2>10. ~TakeUp(l) /\ ~(Mark(l) /\ RunOutcome(l) # "failed") /\ ~WritePlan(l)
    BY <1>5, <2>1, <2>8 DEF TakeUp, Mark, WritePlan, Process, RunSteps
  <2>11. ~BeginRun(l) /\ ~AskBaseline(l) /\ ~MakeRunDirectory(l) /\ ~Speak(l) /\ ~AskFinal(l)
           /\ ~WriteProfiles(l) /\ ~Record(l) /\ ~RunWriteFails(l) /\ ~TrajectoryWriteFails(l)
    BY <1>5, <2>8, <2>9
    DEF BeginRun, AskBaseline, MakeRunDirectory, Speak, AskFinal, WriteProfiles, Record,
        RunWriteFails, TrajectoryWriteFails, RunSteps
  <2>12. \/ WriteManifest(l) \/ FinishBatch(l) \/ (Mark(l) /\ RunOutcome(l) = "failed")
         \/ BatchWriteFails(l) \/ Crash(l)
    BY <2>7, <2>10, <2>11 DEF Step, Work, Begin, MakeBatchDirectory, At
  <2>13. /\ WriteManifest(l) => UNCHANGED <<batch, asked>>
         /\ BatchWriteFails(l) => asked' = asked
         /\ Crash(l) => batch' = batch
    BY DEF WriteManifest, BatchWriteFails, Crash
  <2>14. QED  BY <2>2, <2>3, <2>4, <2>5, <2>6, <2>12, <2>13
<1>6. QED  BY <1>3, <1>4, <1>5

-----------------------------------------------------------------------------

LEMMA InvInit == BatchInit => BatchInv
<1>1. SUFFICES ASSUME BatchInit
               PROVE  BatchInv
  OBVIOUS
<1>2. Types
  BY <1>1, TypesInit
<1>3. \A l \in Launches : /\ proc[l].at = "closed" /\ proc[l].index = 1
                          /\ proc[l].runs = [run \in Runs |-> "planned"]
  BY <1>1 DEF BatchInit, NoProcess
<1>4. LaunchOK /\ Alone
  <2>1. \A l \in Launches : ~Busy(l) /\ ~Holds(l) /\ At(l, "closed")
    BY <1>3 DEF Busy, Holds, At
  <2>2. \A l \in Launches : PlaceOK(l) /\ PlannedOK(l) /\ MemoryOK(l) /\ HeldOK(l)
    BY <1>3, <2>1 DEF PlaceOK, PlannedOK, MemoryOK, HeldOK, RunSteps
  <2>3. QED  BY <2>1, <2>2 DEF LaunchOK, Alone
<1>5. Fresh
  BY <1>1 DEF BatchInit, NoBatch, NoFiles, Fresh
<1>6. Backed
  BY <1>1 DEF BatchInit, NoBatch, Backed, InOrder, Truthful
<1>7. SpokenOnce
  <2>1. \A run \in Runs : spoken[run] = 0
    BY <1>1 DEF BatchInit
  <2>2. 0 <= 1
    OBVIOUS
  <2>3. QED  BY <2>1, <2>2 DEF SpokenOnce
<1>8. QED  BY <1>2, <1>4, <1>5, <1>6, <1>7 DEF BatchInv

LEMMA InvStep == BatchInv /\ [BatchNext]_batchVars => BatchInv'
<1>1. SUFFICES ASSUME BatchInv, [BatchNext]_batchVars
               PROVE  BatchInv'
  OBVIOUS
<1>2. Types /\ LaunchOK /\ Alone /\ Fresh /\ Backed /\ SpokenOnce
  BY <1>1 DEF BatchInv
<1>3. ASSUME NEW l \in Launches, Step(l)
      PROVE  BatchInv'
  <2>1. Types' /\ LaunchOK' /\ Alone' /\ Fresh' /\ SpokenOnce'
    BY <1>2, <1>3, TypesStep, LaunchesStep, AloneStep, FreshRunStep, SpokenStep
  <2>2. \A h \in Homes : InOrder(h)' /\ Truthful(h)'
    BY <1>2, <1>3, InOrderStep, TruthfulStep DEF Backed
  <2>3. Backed'
    BY <2>2 DEF Backed
  <2>4. QED  BY <2>1, <2>3 DEF BatchInv
<1>4. CASE UNCHANGED batchVars
  <2>1. /\ batch' = batch /\ files' = files /\ asked' = asked
        /\ spoken' = spoken /\ proc' = proc
    BY <1>4 DEF batchVars
  <2>2. Types' /\ SpokenOnce' /\ Fresh'
    <3>1. Types'
      BY <1>2, <2>1 DEF Types
    <3>2. SpokenOnce' /\ Fresh'
      BY <1>2, <2>1 DEF SpokenOnce, Fresh, NoBatch
    <3>3. QED  BY <3>1, <3>2
  <2>3. \A l \in Launches : /\ Busy(l)' <=> Busy(l)
                            /\ Holds(l)' <=> Holds(l)
                            /\ Home(l)' = Home(l) /\ Current(l)' = Current(l)
                            /\ Reached(l)' = Reached(l)
                            /\ \A place : At(l, place)' <=> At(l, place)
    BY <2>1 DEF Busy, Holds, At, Home, Current, Reached
  <2>4. ASSUME NEW l \in Launches
        PROVE  /\ PlaceOK(l)' /\ PlannedOK(l)' /\ MemoryOK(l)' /\ HeldOK(l)'
               /\ (Busy(l) => batch[Home(l)].dir)'
    <3>1. /\ PlaceOK(l) /\ PlannedOK(l) /\ MemoryOK(l) /\ HeldOK(l)
          /\ Busy(l) => batch[Home(l)].dir
      BY <1>2, <2>4 DEF LaunchOK
    <3>2. PlaceOK(l)' /\ PlannedOK(l)'
      BY <2>1, <2>3, <3>1 DEF PlaceOK, PlannedOK, NoBatch
    <3>3. MemoryOK(l)'
      BY <2>1, <2>3, <3>1 DEF MemoryOK
    <3>4. HeldOK(l)' /\ (Busy(l) => batch[Home(l)].dir)'
      BY <2>1, <2>3, <3>1 DEF HeldOK
    <3>5. QED  BY <3>2, <3>3, <3>4
  <2>5. LaunchOK' /\ Alone'
    <3>1. LaunchOK'
      BY <2>4 DEF LaunchOK
    <3>2. Alone'
      BY <1>2, <2>3 DEF Alone
    <3>3. QED  BY <3>1, <3>2
  <2>6. Backed'
    BY <1>2, <2>1 DEF Backed, InOrder, Truthful
  <2>7. QED  BY <2>2, <2>5, <2>6 DEF BatchInv
<1>5. BatchNext => \E l \in Launches : Step(l)
  BY DEF BatchNext, Step
<1>6. QED  BY <1>1, <1>3, <1>4, <1>5

LEMMA InvAlways == BatchSpec => []BatchInv
BY InvInit, InvStep, PTL DEF BatchSpec

\* No trajectory of a run is begun twice, however many batches without resume
\* and without ledger run at once over the same run directories, and wherever
\* they fail or die.
THEOREM TrajectoriesSpokenOnce == BatchSpec => []SpokenOnce
<1>1. BatchInv => SpokenOnce
  BY DEF BatchInv
<1>2. QED  BY <1>1, InvAlways, PTL

\* A batch record that can be read is backed by the files of its runs, was
\* written in their order, and shares no completed run with another batch.
THEOREM RecordsAlwaysBacked == BatchSpec => []RecordBacked
<1>1. BatchInv => RecordBacked
  BY DEF BatchInv, Backed, InOrder, Truthful, RecordBacked
<1>2. QED  BY <1>1, InvAlways, PTL

-----------------------------------------------------------------------------
(* The adaptive run. *)

USE RoundAssumption, ControlAssumption

\* _sync_controller_state keeps a controller state one, and its history.
LEMMA SyncType ==
  ASSUME TypeOK, NEW b \in Ledger, NEW ids \in SUBSET Rounds,
         NEW last \in Rounds \cup {NoRound}
  PROVE  /\ Sync(b, ids, last) \in Controller
         /\ Sync(b, ids, last).history = controller.history
         /\ Sync(b, ids, last).last = IF last # NoRound THEN last ELSE controller.last
BY DEF TypeOK, Sync, Controller, Ledger

\* _append_history adds one outcome and nothing else.
LEMMA NoteType ==
  ASSUME NEW c \in Controller, NEW plan \in Rounds, NEW cost \in Costs,
         NEW status \in {"planned", "applied", "rejected", "cancelled"}
  PROVE  /\ Entry(plan, cost, status) \in Outcome
         /\ Note(c, plan, cost, status) \in Controller
         /\ Note(c, plan, cost, status).history = Append(c.history, Entry(plan, cost, status))
         /\ Note(c, plan, cost, status).last = c.last
<1>1. Entry(plan, cost, status) \in Outcome
  BY DEF Entry, Outcome
<1>2. c.history \in Seq(Outcome) /\ Append(c.history, Entry(plan, cost, status)) \in Seq(Outcome)
  BY <1>1, AppendProperties DEF Controller
<1>3. QED
  BY <1>1, <1>2 DEF Note, Controller

\* An event goes to the end of the log.
LEMMA WriteType ==
  ASSUME TypeOK, NEW type \in EventTypes, NEW who \in Nat, Write(type, who)
  PROVE  log' \in Seq(Event) /\ sequence' \in Nat
<1>1. [type |-> type, round |-> round, who |-> who, sequence |-> sequence + 1] \in Event
  BY DEF TypeOK, Event
<1>2. QED
  BY <1>1, AppendProperties DEF TypeOK, Write

\* Spending and releasing what is reserved keep the budget whole.
LEMMA SettleType ==
  ASSUME TypeOK, Conserved, NEW cost \in Costs, cost <= budget.reserved
  PROVE  /\ Spend(cost) \in Ledger /\ Release(cost) \in Ledger
         /\ Spend(cost).remaining = budget.remaining
         /\ Spend(cost).reserved = budget.reserved - cost
         /\ Spend(cost).spent = budget.spent + cost
         /\ Release(cost).remaining = budget.remaining + cost
         /\ Release(cost).reserved = budget.reserved - cost
         /\ Release(cost).spent = budget.spent
<1>1. /\ cost \in Nat /\ InitialBudget \in Nat
      /\ budget.remaining \in 0..InitialBudget /\ budget.reserved \in 0..InitialBudget
      /\ budget.spent \in 0..InitialBudget
  BY DEF TypeOK, Ledger
<1>2. /\ budget.remaining + cost \in 0..InitialBudget
      /\ budget.reserved - cost \in 0..InitialBudget
      /\ budget.spent + cost \in 0..InitialBudget
  BY <1>1 DEF Conserved
<1>3. QED
  BY <1>1, <1>2 DEF TypeOK, Ledger, Spend, Release

-----------------------------------------------------------------------------
(***************************************************************************)
(* Types, and the budget.                                                  *)
(***************************************************************************)

SafeInv == TypeOK /\ Conserved /\ PlaceInv

\* The pending plan is one plan, and its event is an event.
LEMMA PendingType ==
  ASSUME SafeInv, NEW p \in pending
  PROVE  /\ pending = {p} /\ p.id \in Rounds /\ p.id \in Nat /\ p.cost \in Costs /\ p.cost \in Nat
         /\ budget.reserved \in {0, p.cost}
<1>1. p \in Plan /\ pending = {p}
  BY DEF SafeInv, TypeOK
<1>2. p.id \in Rounds /\ p.cost \in Costs
  BY <1>1 DEF Plan
<1>3. p.id \in Nat /\ p.cost \in Nat
  <2>1. \A r \in Rounds : r \in Nat
    BY DEF Rounds
  <2>2. \A c \in Costs : c \in Nat
    OBVIOUS
  <2>3. QED
    BY <1>2, <2>1, <2>2
<1>4. budget.reserved \in {0, p.cost}
  BY DEF SafeInv, PlaceInv
<1>5. QED
  BY <1>1, <1>2, <1>3, <1>4

\* The steps that only write an event, or none, and go on.
LEMMA QuietSafe ==
  ASSUME SafeInv, log' \in Seq(Event), sequence' \in Nat, at' \in Steps,
         round' = round, turn' \in 0..Agents,
         UNCHANGED <<budget, pending, controller>>,
         record' \in {"none", "completed", "failed"}, faults' \in 0..MaxFaults,
         at' \in {"asked", "answering"} => turn' < Agents,
         at' \in {"control", "asking", "asked", "answering", "closing", "finish"} => pending = {},
         at' \in {"log_scheduled", "log_reserved"} => ~LastRound,
         at' \in {"log_applied", "log_spent", "log_cooldown", "log_rejected",
                 "log_released", "log_cancelled"} => budget.reserved = 0
  PROVE  SafeInv'
BY DEF SafeInv, TypeOK, Conserved, PlaceInv, LastRound

\* Settling the pending plan leaves nothing reserved.
LEMMA SettledSafe ==
  ASSUME SafeInv, pending # {}, budget' \in Ledger, budget'.reserved = 0,
         budget'.remaining + budget'.spent = InitialBudget,
         controller' \in Controller, at' \in {"log_applied", "log_rejected", "log_cancelled"},
         UNCHANGED <<round, turn, pending, log, sequence, record>>,
         faults' \in 0..MaxFaults
  PROVE  SafeInv'
<1>1. TypeOK'
  BY DEF SafeInv, TypeOK, Steps, Writing, Handling
<1>2. Conserved'
  BY DEF Conserved, Ledger
<1>3. PlaceInv'
  BY DEF PlaceInv
<1>4. QED
  BY <1>1, <1>2, <1>3 DEF SafeInv

\* An event about the pending plan goes to the end of the log.
LEMMA PlanEventType ==
  ASSUME SafeInv, NEW type \in EventTypes, \E p \in pending : Write(type, p.id)
  PROVE  log' \in Seq(Event) /\ sequence' \in Nat
BY PendingType, WriteType DEF SafeInv

\* The two events of a plan go to the end of the log.
LEMMA CreatedType ==
  ASSUME TypeOK, WriteCreated
  PROVE  log' \in Seq(Event) /\ sequence' \in Nat
<1>1. round \in Rounds /\ round \in Nat /\ sequence \in Nat /\ log \in Seq(Event)
  BY DEF TypeOK, Rounds
<1> DEFINE decided == [type |-> "policy_decided", round |-> round, who |-> 0,
                       sequence |-> sequence + 1]
           created == [type |-> "plan_created", round |-> round, who |-> round,
                       sequence |-> sequence + 2]
<1>2. decided \in Event /\ created \in Event
  BY <1>1 DEF Event, EventTypes
<1>3. <<decided, created>> \in Seq(Event)
  BY <1>2
<1>4. log \o <<decided, created>> \in Seq(Event)
  BY <1>1, <1>3, ConcatProperties
<1>5. QED
  BY <1>1, <1>4 DEF WriteCreated

\* Settling a plan is within what the budget may become.
LEMMA SettleStep ==
  ASSUME SafeInv, NEW p \in pending, p.cost <= budget.reserved,
         budget' \in {Spend(p.cost), Release(p.cost)}
  PROVE  /\ budget' \in Ledger /\ budget'.reserved = 0
         /\ budget'.remaining + budget'.spent = InitialBudget
<1>1. /\ p.cost \in Nat /\ p.cost \in Costs /\ budget.reserved \in {0, p.cost}
      /\ budget.reserved \in Nat /\ budget.remaining \in Nat /\ budget.spent \in Nat
      /\ TypeOK /\ Conserved
  BY PendingType DEF SafeInv, TypeOK, Ledger
<1>2. budget.reserved = p.cost
  BY <1>1
<1>3. budget' \in Ledger /\ budget'.reserved = 0
  BY <1>1, <1>2, SettleType
<1>4. budget'.remaining + budget'.spent = budget.remaining + budget.spent + p.cost
  BY <1>1, SettleType
<1>5. QED
  BY <1>1, <1>2, <1>3, <1>4 DEF Conserved

\* What follows the controller's decision, when it reserves nothing.
LEMMA RoundStep ==
  ASSUME SafeInv, NextRound, at \in {"control", "log_reserved"},
         UNCHANGED <<budget, pending, record, faults>>, controller' \in Controller,
         log' \in Seq(Event), sequence' \in Nat
  PROVE  SafeInv'
<1>1. round' \in Rounds /\ turn' \in 0..Agents /\ at' \in {"finish", "round"}
  BY DEF NextRound, LastRound, SafeInv, TypeOK, Rounds
<1>2. at' = "finish" => LastRound
  BY DEF NextRound
<1>3. at' = "finish" => pending = {}
  BY <1>2 DEF SafeInv, PlaceInv
<1>4. QED
  BY <1>1, <1>3 DEF SafeInv, TypeOK, Conserved, PlaceInv, Steps, Writing, Handling

\* Every step of a run keeps the types and the budget whole.
LEMMA SafeStep ==
  ASSUME SafeInv, [Next]_vars
  PROVE  SafeInv'
<1> USE DEF Steps, Writing, Handling, EventTypes
<1>1. CASE StartRound
  <2>1. {} \in SUBSET Rounds /\ NoRound \in Rounds \cup {NoRound} /\ budget \in Ledger
    BY DEF SafeInv, TypeOK
  <2>2. controller' \in Controller
    BY <1>1, <2>1, SyncType DEF StartRound, SafeInv, TypeOK
  <2>3. log' \in Seq(Event) /\ sequence' \in Nat
    BY <1>1, WriteType DEF StartRound, SafeInv
  <2>4. QED
    BY <1>1, <2>2, <2>3 DEF StartRound, SafeInv, TypeOK, Conserved, PlaceInv
<1>2. CASE ApplyPlan
  <2>1. PICK p \in pending : /\ p.cost <= budget.reserved /\ budget' = Spend(p.cost)
                             /\ controller' = Note(Sync(budget', {}, round), p.id, p.cost, "applied")
    BY <1>2 DEF ApplyPlan
  <2>2. /\ budget' \in Ledger /\ budget'.reserved = 0
        /\ budget'.remaining + budget'.spent = InitialBudget
    BY <2>1, SettleStep
  <2>3. Sync(budget', {}, round) \in Controller
    BY <2>2, SyncType DEF SafeInv, TypeOK
  <2>4. controller' \in Controller
    BY <2>1, <2>3, PendingType, NoteType
  <2>5. UNCHANGED <<round, turn, pending, log, sequence, record, faults>> /\ at' = "log_applied"
    BY <1>2 DEF ApplyPlan
  <2>6. QED
    BY <2>1, <2>2, <2>4, <2>5, SettledSafe DEF SafeInv, TypeOK
<1>3. CASE RejectPlan
  <2>1. PICK p \in pending : /\ p.cost <= budget.reserved /\ budget' = Release(p.cost)
                             /\ controller' = Sync(budget', {}, NoRound)
    BY <1>3 DEF RejectPlan
  <2>2. /\ budget' \in Ledger /\ budget'.reserved = 0
        /\ budget'.remaining + budget'.spent = InitialBudget
    BY <2>1, SettleStep
  <2>3. controller' \in Controller
    BY <2>1, <2>2, SyncType DEF SafeInv
  <2>4. UNCHANGED <<round, turn, pending, log, sequence, record>> /\ at' = "log_rejected"
    BY <1>3 DEF RejectPlan
  <2>5. faults' \in 0..MaxFaults
    BY <1>3 DEF RejectPlan, Fault, SafeInv, TypeOK
  <2>6. QED
    BY <2>1, <2>2, <2>3, <2>4, <2>5, SettledSafe
<1>4. CASE ReleasePending
  <2>1. PICK p \in pending : /\ p.cost <= budget.reserved /\ budget' = Release(p.cost)
                             /\ controller' = Sync(budget', {}, NoRound)
    BY <1>4 DEF ReleasePending
  <2>2. /\ budget' \in Ledger /\ budget'.reserved = 0
        /\ budget'.remaining + budget'.spent = InitialBudget
    BY <2>1, SettleStep
  <2>3. controller' \in Controller
    BY <2>1, <2>2, SyncType DEF SafeInv
  <2>4. UNCHANGED <<round, turn, pending, log, sequence, record, faults>> /\ at' = "log_cancelled"
    BY <1>4 DEF ReleasePending
  <2>5. QED
    BY <2>1, <2>2, <2>3, <2>4, SettledSafe DEF SafeInv, TypeOK
<1>5. CASE LogCooldown
  <2>1. log' \in Seq(Event) /\ sequence' \in Nat
    BY <1>5, PlanEventType DEF LogCooldown
  <2>2. controller' \in Controller
    BY <1>5 DEF LogCooldown, SafeInv, TypeOK, Controller
  <2>3. QED
    BY <1>5, <2>1, <2>2 DEF LogCooldown, SafeInv, TypeOK, Conserved, PlaceInv
<1>6. CASE LogReleased
  <2>1. log' \in Seq(Event) /\ sequence' \in Nat
    BY <1>6, PlanEventType DEF LogReleased
  <2>2. [controller EXCEPT !.scheduled = {}] \in Controller
    BY DEF SafeInv, TypeOK, Controller
  <2>3. controller' \in Controller
    BY <1>6, <2>2, PendingType, NoteType DEF LogReleased
  <2>4. QED
    BY <1>6, <2>1, <2>3 DEF LogReleased, SafeInv, TypeOK, Conserved, PlaceInv
<1>7. CASE LogCancelled
  <2>1. log' \in Seq(Event) /\ sequence' \in Nat
    BY <1>7, PlanEventType DEF LogCancelled
  <2>2. controller' \in Controller
    BY <1>7, PendingType, NoteType DEF LogCancelled, SafeInv, TypeOK
  <2>3. QED
    BY <1>7, <2>1, <2>2 DEF LogCancelled, SafeInv, TypeOK, Conserved, PlaceInv
<1>8. CASE DecideNothing
  <2>1. log' \in Seq(Event) /\ sequence' \in Nat
    BY <1>8, WriteType DEF DecideNothing, SafeInv
  <2>2. QED
    BY <1>8, <2>1, RoundStep DEF DecideNothing, SafeInv, TypeOK, PlaceInv
<1>9. CASE CancelAtEnd
  <2>1. log' \in Seq(Event) /\ sequence' \in Nat
    BY <1>9, WriteType DEF CancelAtEnd, SafeInv
  <2>2. controller' \in Controller
    BY <1>9, NoteType DEF CancelAtEnd, SafeInv, TypeOK
  <2>3. QED
    BY <1>9, <2>1, <2>2 DEF CancelAtEnd, SafeInv, TypeOK, Conserved, PlaceInv
<1>10. CASE DiscardPlan
  <2>1. log' \in Seq(Event) /\ sequence' \in Nat
    BY <1>10, CreatedType DEF DiscardPlan, SafeInv
  <2>2. controller' \in Controller
    BY <1>10, NoteType DEF DiscardPlan, SafeInv, TypeOK
  <2>3. QED
    BY <1>10, <2>1, <2>2, RoundStep DEF DiscardPlan, SafeInv, TypeOK, PlaceInv
<1>11. CASE SchedulePlan
  <2>1. log' \in Seq(Event) /\ sequence' \in Nat
    BY <1>11, CreatedType DEF SchedulePlan, SafeInv
  <2>2. PICK cost \in Costs :
          /\ cost <= budget.remaining
          /\ budget' = [budget EXCEPT !.reserved = @ + cost, !.remaining = @ - cost]
          /\ pending' = {[id |-> round, cost |-> cost]}
          /\ controller' = Note(Sync(budget', {round}, NoRound), round, cost, "planned")
    BY <1>11 DEF SchedulePlan, Affordable
  <2>3. /\ cost \in Nat /\ round \in Rounds /\ budget \in Ledger /\ Conserved
        /\ budget.remaining \in 0..InitialBudget /\ budget.spent \in 0..InitialBudget
    BY DEF SafeInv, TypeOK, Ledger
  <2>4. budget.reserved = 0 /\ budget.remaining + budget.spent = InitialBudget
    BY <1>11, <2>3 DEF SchedulePlan, SafeInv, PlaceInv, Conserved
  <2>5. /\ budget'.reserved = cost /\ budget'.remaining = budget.remaining - cost
        /\ budget'.spent = budget.spent
    BY <2>2, <2>3, <2>4 DEF Ledger
  <2>6. budget' \in Ledger
    <3>1. cost \in 0..InitialBudget /\ budget.remaining - cost \in 0..InitialBudget
      BY <2>2, <2>3
    <3>2. budget.reserved + cost = cost
      BY <2>3, <2>4
    <3>3. QED
      BY <2>2, <2>3, <3>1, <3>2 DEF Ledger
  <2>7. Conserved'
    BY <2>3, <2>4, <2>5 DEF Conserved
  <2>8. Sync(budget', {round}, NoRound) \in Controller
    BY <2>3, <2>6, SyncType DEF SafeInv
  <2>9. controller' \in Controller
    BY <2>2, <2>3, <2>8, NoteType
  <2>10. pending' \in SUBSET Plan /\ \A p, q \in pending' : p = q
    BY <2>2, <2>3 DEF Plan
  <2>11. PlaceInv'
    <3>1. at' = "log_scheduled" /\ ~LastRound' /\ pending' # {}
      BY <1>11, <2>2 DEF SchedulePlan, LastRound
    <3>2. \A p \in pending' : budget'.reserved = p.cost
      BY <2>2, <2>5
    <3>3. QED
      BY <3>1, <3>2 DEF PlaceInv
  <2>12. TypeOK'
    BY <1>11, <2>1, <2>6, <2>9, <2>10 DEF SchedulePlan, SafeInv, TypeOK
  <2>13. QED
    BY <2>7, <2>11, <2>12 DEF SafeInv
<1>12. CASE LogReserved
  <2>1. log' \in Seq(Event) /\ sequence' \in Nat
    BY <1>12, PlanEventType DEF LogReserved
  <2>2. QED
    BY <1>12, <2>1, RoundStep DEF LogReserved, SafeInv, TypeOK
<1>13. CASE LogApplied \/ LogSpent \/ LogRejected \/ LogScheduled
  <2>1. log' \in Seq(Event) /\ sequence' \in Nat
    BY <1>13, PlanEventType DEF LogApplied, LogSpent, LogRejected, LogScheduled
  <2>2. QED
    BY <1>13, <2>1, QuietSafe
    DEF LogApplied, LogSpent, LogRejected, LogScheduled, SafeInv, TypeOK, PlaceInv
<1>14. CASE Ask \/ LogAnswer
  <2>1. turn + 1 \in Nat
    BY DEF SafeInv, TypeOK
  <2>2. log' \in Seq(Event) /\ sequence' \in Nat
    BY <1>14, <2>1, WriteType DEF Ask, LogAnswer, SafeInv
  <2>3. CASE Ask
    BY <2>2, <2>3, QuietSafe DEF Ask, SafeInv, TypeOK, PlaceInv
  <2>4. CASE LogAnswer
    <3>1. turn' \in 0..Agents
      BY <2>4 DEF LogAnswer, SafeInv, TypeOK, PlaceInv
    <3>2. QED
      BY <2>2, <2>4, <3>1, QuietSafe DEF LogAnswer, SafeInv, TypeOK, PlaceInv
  <2>5. QED
    BY <1>14, <2>3, <2>4
<1>15. CASE CloseRound \/ RecordFailure \/ Finish
  <2>1. log' \in Seq(Event) /\ sequence' \in Nat
    BY <1>15, WriteType DEF CloseRound, RecordFailure, Finish, SafeInv
  <2>2. QED
    BY <1>15, <2>1, QuietSafe
    DEF CloseRound, RecordFailure, Finish, SafeInv, TypeOK, PlaceInv
<1>16. CASE Answer \/ NothingToRelease \/ ReleaseRaises
  BY <1>16, QuietSafe DEF Answer, NothingToRelease, ReleaseRaises, SafeInv, TypeOK, PlaceInv
<1>17. CASE ProviderFails \/ ControlFails \/ LogFails
  <2>1. faults' \in 0..MaxFaults
    BY <1>17 DEF ProviderFails, ControlFails, LogFails, Fault, SafeInv, TypeOK
  <2>2. QED
    BY <1>17, <2>1, QuietSafe DEF ProviderFails, ControlFails, LogFails, SafeInv, TypeOK
<1>18. CASE UNCHANGED vars
  BY <1>18 DEF vars, SafeInv, TypeOK, Conserved, PlaceInv, LastRound
<1>19. QED
  BY <1>1, <1>2, <1>3, <1>4, <1>5, <1>6, <1>7, <1>8, <1>9, <1>10, <1>11, <1>12, <1>13,
     <1>14, <1>15, <1>16, <1>17, <1>18 DEF Next
\* Every run, whatever its length, budget and costs, keeps its types.
LEMMA SafeAlways == Spec => []SafeInv
<1>1. Init => SafeInv
  <2>1. SUFFICES ASSUME Init PROVE SafeInv
    OBVIOUS
  <2>2. 0 \in Rounds /\ budget \in Ledger /\ NoRound \in Rounds \cup {NoRound}
    BY <2>1 DEF Init, Rounds, Ledger
  <2>3. log \in Seq(Event)
    BY <2>1, <2>2 DEF Init, Event, EventTypes
  <2>4. controller \in Controller
    BY <2>1, <2>2 DEF Init, Controller
  <2>5. TypeOK
    BY <2>1, <2>2, <2>3, <2>4 DEF Init, TypeOK, Steps, Writing, Handling
  <2>6. Conserved /\ PlaceInv
    BY <2>1 DEF Init, Conserved, PlaceInv
  <2>7. QED
    BY <2>5, <2>6 DEF SafeInv
<1>2. SafeInv /\ [Next]_vars => SafeInv'
  BY SafeStep
<1>3. QED
  BY <1>1, <1>2, PTL DEF Spec

\* Every run keeps to its types: no step of run(), of its handler or of the
\* policy leaves the budget out of its range or two plans pending.
THEOREM TypeCorrect == Spec => []TypeOK
<1>1. SafeInv => TypeOK
  BY DEF SafeInv
<1>2. QED
  BY <1>1, SafeAlways, PTL

\* What remains, what is reserved and what is spent always make up the
\* initial budget, whatever fails and whenever (BudgetLedger).
THEOREM BudgetConserved == Spec => []Conserved
<1>1. SafeInv => Conserved
  BY DEF SafeInv
<1>2. QED
  BY <1>1, SafeAlways, PTL

-----------------------------------------------------------------------------
(***************************************************************************)
(* The run keeps the contract of its budget.                               *)
(***************************************************************************)

\* A step of the run reserves, spends or gives back the whole of the one
\* reservation, or leaves the budget alone.
LEMMA ContractStep ==
  ASSUME SafeInv, [Next]_vars
  PROVE  [Contract!Next]_Contract!vars
<1>1. /\ budget.remaining \in Nat /\ budget.reserved \in Nat /\ budget.spent \in Nat
      /\ TypeOK
  BY DEF SafeInv, TypeOK, Ledger
<1>2. ASSUME NEW p \in pending, p.cost <= budget.reserved
      PROVE  budget.reserved = p.cost /\ p.cost \in Nat
  BY <1>1, <1>2, PendingType
<1>3. CASE ApplyPlan
  <2>1. PICK p \in pending : p.cost <= budget.reserved /\ budget' = Spend(p.cost)
    BY <1>3 DEF ApplyPlan
  <2>2. /\ budget'.reserved = 0 /\ budget'.remaining = budget.remaining
        /\ budget'.spent = budget.spent + budget.reserved
    BY <1>1, <1>2, <2>1 DEF Spend, TypeOK, Ledger
  <2>3. QED
    BY <2>2 DEF Contract!Next, Contract!Spend
<1>4. CASE RejectPlan \/ ReleasePending
  <2>1. PICK p \in pending : p.cost <= budget.reserved /\ budget' = Release(p.cost)
    BY <1>4 DEF RejectPlan, ReleasePending
  <2>2. /\ budget'.reserved = 0 /\ budget'.spent = budget.spent
        /\ budget'.remaining = budget.remaining + budget.reserved
    BY <1>1, <1>2, <2>1 DEF Release, TypeOK, Ledger
  <2>3. QED
    BY <2>2 DEF Contract!Next, Contract!Release
<1>5. CASE SchedulePlan
  <2>1. PICK cost \in Costs :
          /\ cost <= budget.remaining
          /\ budget' = [budget EXCEPT !.reserved = @ + cost, !.remaining = @ - cost]
    BY <1>5 DEF SchedulePlan, Affordable
  <2>2. budget.reserved = 0 /\ cost \in Nat
    BY <1>5 DEF SchedulePlan, SafeInv, PlaceInv
  <2>3. /\ budget'.reserved = cost /\ budget'.remaining = budget.remaining - cost
        /\ budget'.spent = budget.spent
    BY <1>1, <2>1, <2>2 DEF TypeOK, Ledger
  <2>4. QED
    BY <2>1, <2>2, <2>3 DEF Contract!Next, Contract!Reserve
<1>6. CASE /\ ~ApplyPlan /\ ~RejectPlan /\ ~ReleasePending /\ ~SchedulePlan
  <2>1. budget' = budget
    BY <1>6 DEF Next, vars, StartRound, LogApplied, LogSpent, LogCooldown, LogRejected,
       LogReleased, Ask, Answer, LogAnswer, ProviderFails, CloseRound, DecideNothing,
       CancelAtEnd, DiscardPlan, LogScheduled, LogReserved, ControlFails, LogFails,
       NothingToRelease, ReleaseRaises, LogCancelled, RecordFailure, Finish
  <2>2. QED
    BY <2>1 DEF Contract!vars
<1>7. QED
  BY <1>3, <1>4, <1>5, <1>6

\* The budget of an adaptive run does what BudgetContract promises: one
\* reservation at a time, spent or given back whole, over the two phases that
\* lie in different rounds and every failure between them.
THEOREM ContractKept == Spec => KeepsContract
<1>1. Init => Contract!Init
  BY DEF Init, Contract!Init
<1>2. SafeInv /\ [Next]_vars => [Contract!Next]_Contract!vars
  BY ContractStep
<1>3. QED
  BY <1>1, <1>2, SafeAlways, PTL DEF Spec, KeepsContract, Contract!Spec

-----------------------------------------------------------------------------
(***************************************************************************)
(* The cooldown.                                                           *)
(***************************************************************************)

Plans(h) == {h[i].plan : i \in DOMAIN h}
Applied(h) == {h[i].plan : i \in {k \in DOMAIN h : h[k].status = "applied"}}

\* Every plan after an applied one is Cooldown rounds after its application.
Spaced(h) == \A a \in Applied(h), b \in Plans(h) : b > a => b > a + 1 + Cooldown

\* HistoryInv and CooldownKept, said of the plans alone.
PlansInv ==
  /\ \A b \in Plans(controller.history) : b <= round
  /\ \A p \in pending :
       /\ p.id <= round /\ (at \in {"round", "boundary"} => p.id < round)
       /\ p.id \in Plans(controller.history)
       /\ \A b \in Plans(controller.history) : b <= p.id
  /\ \A a \in Applied(controller.history) : controller.last # NoRound /\ a < controller.last
  /\ Spaced(controller.history)

\* The two say the same: a history is its plans and the applied ones of them.
LEMMA PlansInvMeans == PlansInv <=> HistoryInv /\ CooldownKept
BY DEF PlansInv, HistoryInv, CooldownKept, Spaced, Plans, Applied, Ends

\* What an entry adds to the plans of a history, and to the applied ones.
LEMMA AppendPlans ==
  ASSUME NEW h \in Seq(Outcome), NEW e \in Outcome
  PROVE  /\ Plans(Append(h, e)) = Plans(h) \cup {e.plan}
         /\ Applied(Append(h, e)) = Applied(h) \cup IF e.status = "applied" THEN {e.plan} ELSE {}
         /\ Applied(h) \subseteq Plans(h)
<1>1. /\ DOMAIN Append(h, e) = 1..Len(h) + 1 /\ DOMAIN h = 1..Len(h) /\ Len(h) \in Nat
      /\ Append(h, e)[Len(h) + 1] = e
      /\ \A i \in 1..Len(h) : Append(h, e)[i] = h[i]
  BY AppendProperties, LenProperties
<1>2. DOMAIN Append(h, e) = DOMAIN h \cup {Len(h) + 1}
  BY <1>1
<1>3. Plans(Append(h, e)) = Plans(h) \cup {e.plan}
  BY <1>1, <1>2 DEF Plans
<1>4. Applied(Append(h, e)) = Applied(h) \cup IF e.status = "applied" THEN {e.plan} ELSE {}
  BY <1>1, <1>2 DEF Applied
<1>5. QED
  BY <1>3, <1>4 DEF Plans, Applied

\* The plans of a history are numbers of rounds.
LEMMA PlansAreRounds ==
  ASSUME SafeInv, NEW b \in Plans(controller.history)
  PROVE  b \in Int
<1>1. controller.history \in Seq(Outcome)
  BY DEF SafeInv, TypeOK, Controller
<1>2. PICK i \in DOMAIN controller.history : b = controller.history[i].plan
  BY DEF Plans
<1>3. controller.history[i] \in Outcome
  BY <1>1, <1>2, ElementOfSeq
<1>4. QED
  BY <1>2, <1>3 DEF Outcome, Rounds

\* The steps that leave the history and the last intervention as they are.
LEMMA SameHistory ==
  ASSUME SafeInv, PlansInv, controller'.history = controller.history,
         controller'.last = controller.last, pending' \subseteq pending,
         round' \in Rounds, round <= round',
         at' \in {"round", "boundary"} => at \in {"round", "boundary"} \/ round < round'
  PROVE  PlansInv'
<1>1. round \in Int /\ round' \in Int
  BY DEF SafeInv, TypeOK, Rounds
<1>2. \A b \in Plans(controller.history) : b \in Int
  BY PlansAreRounds
<1>3. \A p \in pending : p.id \in Int
  BY PendingType
<1>4. \A b \in Plans(controller.history) : b <= round'
  BY <1>1, <1>2 DEF PlansInv
<1>5. ASSUME NEW p \in pending'
      PROVE  p.id <= round' /\ (at' \in {"round", "boundary"} => p.id < round')
  BY <1>1, <1>3 DEF PlansInv
<1>6. QED
  BY <1>4, <1>5 DEF PlansInv

\* The end of the pending plan is noted: its number is one the history has.
LEMMA NotedEnd ==
  ASSUME SafeInv, PlansInv, NEW p \in pending,
         NEW status \in {"applied", "rejected", "cancelled"},
         controller'.history = Append(controller.history, Entry(p.id, p.cost, status)),
         IF status = "applied" THEN controller'.last = round /\ p.id < round
                               ELSE controller'.last = controller.last,
         pending' \subseteq pending, round' = round,
         at' \notin {"round", "boundary"}
  PROVE  PlansInv'
<1> DEFINE h == controller.history
<1>1. /\ h \in Seq(Outcome) /\ Entry(p.id, p.cost, status) \in Outcome
      /\ Entry(p.id, p.cost, status).plan = p.id
      /\ Entry(p.id, p.cost, status).status = status
      /\ round \in Int /\ p.id \in Int
  BY PendingType DEF SafeInv, TypeOK, Controller, Entry, Outcome, Rounds
<1>2. /\ Plans(controller'.history) = Plans(h) \cup {p.id}
      /\ Applied(controller'.history) = Applied(h) \cup IF status = "applied" THEN {p.id} ELSE {}
      /\ Applied(h) \subseteq Plans(h)
  BY <1>1, AppendPlans
<1>3. p.id \in Plans(h) /\ \A b \in Plans(h) : b <= p.id
  BY DEF PlansInv
<1>4. Plans(controller'.history) = Plans(h)
  BY <1>2, <1>3
<1>5. \A b \in Plans(h) : b \in Int
  BY PlansAreRounds
<1>6. Spaced(controller'.history)
  <2>1. ASSUME NEW a \in Applied(controller'.history), NEW b \in Plans(h), b > a
        PROVE  b > a + 1 + Cooldown
    <3>1. CASE a \in Applied(h)
      BY <2>1, <3>1 DEF PlansInv, Spaced
    <3>2. CASE a = p.id
      BY <1>1, <1>3, <1>5, <2>1, <3>2
    <3>3. QED
      BY <1>2, <3>1, <3>2
  <2>2. QED
    BY <1>4, <2>1 DEF Spaced
<1>7. \A a \in Applied(controller'.history) :
        controller'.last # NoRound /\ a < controller'.last
  <2>1. CASE status = "applied"
    <3>1. round # NoRound
      BY DEF SafeInv, TypeOK, Rounds, NoRound
    <3>2. ASSUME NEW a \in Applied(controller'.history) PROVE a < round
      BY <1>1, <1>2, <1>3, <1>5, <2>1
    <3>3. QED
      BY <2>1, <3>1, <3>2
  <2>2. CASE status # "applied"
    BY <1>2, <2>2 DEF PlansInv
  <2>3. QED
    BY <2>1, <2>2
<1>8. /\ \A b \in Plans(controller'.history) : b <= round'
      /\ \A q \in pending' : /\ q.id <= round' /\ q.id \in Plans(controller'.history)
                             /\ \A b \in Plans(controller'.history) : b <= q.id
  BY <1>4 DEF PlansInv
<1>9. QED
  BY <1>6, <1>7, <1>8 DEF PlansInv

\* A new plan is noted, after the cooldown.
LEMMA NotedPlan ==
  ASSUME SafeInv, PlansInv, ~CoolingDown, NEW cost \in Costs,
         NEW status \in {"planned", "rejected", "cancelled"},
         controller'.history = Append(controller.history, Entry(round, cost, status)),
         controller'.last = controller.last,
         \A p \in pending' : p.id = round /\ at' \notin {"round", "boundary"},
         round' \in {round, round + 1}
  PROVE  PlansInv'
<1> DEFINE h == controller.history
<1>1. /\ h \in Seq(Outcome) /\ Entry(round, cost, status) \in Outcome
      /\ Entry(round, cost, status).plan = round
      /\ Entry(round, cost, status).status # "applied"
      /\ round \in Int /\ Cooldown \in Int /\ controller.last \in Int
  BY DEF SafeInv, TypeOK, Controller, Entry, Outcome, Rounds, NoRound
<1>2. /\ Plans(controller'.history) = Plans(h) \cup {round}
      /\ Applied(controller'.history) = Applied(h)
  BY <1>1, AppendPlans
<1>3. \A b \in Plans(h) : b \in Int /\ b <= round
  BY PlansAreRounds DEF PlansInv
<1>4. ASSUME NEW a \in Applied(h)
      PROVE  round > a + 1 + Cooldown
  <2>1. a \in Int /\ a < controller.last /\ controller.last # NoRound
    BY <1>1, <1>3, AppendPlans DEF PlansInv
  <2>2. round > controller.last + Cooldown
    BY <1>1, <2>1 DEF CoolingDown
  <2>3. QED
    BY <1>1, <2>1, <2>2
<1>5. Spaced(controller'.history)
  BY <1>2, <1>4 DEF PlansInv, Spaced
<1>6. /\ \A b \in Plans(controller'.history) : b <= round /\ b <= round'
      /\ round <= round'
  BY <1>1, <1>2, <1>3
<1>7. \A p \in pending' :
        /\ p.id <= round' /\ (at' \in {"round", "boundary"} => p.id < round')
        /\ p.id \in Plans(controller'.history)
        /\ \A b \in Plans(controller'.history) : b <= p.id
  BY <1>2, <1>6
<1>8. QED
  BY <1>2, <1>5, <1>6, <1>7 DEF PlansInv

\* What the controller state is once an outcome is noted in a copy of it.
LEMMA NotedIn ==
  ASSUME NEW c \in Controller, c.history = controller.history, NEW plan \in Rounds,
         NEW cost \in Costs, NEW status \in {"planned", "applied", "rejected", "cancelled"},
         controller' = Note(c, plan, cost, status)
  PROVE  /\ controller'.history = Append(controller.history, Entry(plan, cost, status))
         /\ controller'.last = c.last
BY DEF Note, Controller

\* Every step of a run keeps the plans apart.
LEMMA PlansStep ==
  ASSUME SafeInv, PlansInv, [Next]_vars
  PROVE  PlansInv'
<1>1. TypeOK /\ round \in Rounds /\ round <= round /\ {} \in SUBSET Rounds
  BY DEF SafeInv, TypeOK, Rounds
<1>2. CASE UNCHANGED <<round, pending, controller>> /\ at' \notin {"round", "boundary"}
  BY <1>1, <1>2, SameHistory
<1>3. CASE StartRound
  <2>1. controller'.history = controller.history /\ controller'.last = controller.last
    BY <1>1, <1>3, SyncType DEF StartRound, TypeOK
  <2>2. UNCHANGED <<round, pending>> /\ at \in {"round", "boundary"}
    BY <1>3 DEF StartRound
  <2>3. QED
    BY <1>1, <2>1, <2>2, SameHistory
<1>4. CASE ApplyPlan
  <2>1. PICK p \in pending : /\ p.cost <= budget.reserved /\ budget' = Spend(p.cost)
                             /\ controller' = Note(Sync(budget', {}, round), p.id, p.cost, "applied")
    BY <1>4 DEF ApplyPlan
  <2>2. /\ Sync(budget', {}, round) \in Controller
        /\ Sync(budget', {}, round).history = controller.history
        /\ Sync(budget', {}, round).last = round
    BY <1>1, <2>1, SettleStep, SyncType DEF Rounds, NoRound
  <2>3. /\ controller'.history = Append(controller.history, Entry(p.id, p.cost, "applied"))
        /\ controller'.last = round
    <3>1. p.id \in Rounds /\ p.cost \in Costs
      BY PendingType
    <3>2. QED
      BY <2>1, <2>2, <3>1, NotedIn
  <2>4. p.id < round /\ UNCHANGED <<round, pending>> /\ at' = "log_applied"
    BY <1>4 DEF ApplyPlan, PlansInv
  <2>5. QED
    BY <2>3, <2>4, NotedEnd
<1>5. CASE RejectPlan \/ ReleasePending
  <2>1. controller'.history = controller.history /\ controller'.last = controller.last
    BY <1>1, <1>5, SettleStep, SyncType DEF RejectPlan, ReleasePending
  <2>2. UNCHANGED <<round, pending>> /\ at' \notin {"round", "boundary"}
    BY <1>5 DEF RejectPlan, ReleasePending
  <2>3. QED
    BY <1>1, <2>1, <2>2, SameHistory
<1>6. CASE LogCooldown
  <2>1. controller'.history = controller.history /\ controller'.last = controller.last
    BY <1>1, <1>6 DEF LogCooldown, TypeOK, Controller
  <2>2. QED
    BY <1>1, <1>6, <2>1, SameHistory DEF LogCooldown
<1>7. CASE LogReleased
  <2>1. PICK p \in pending :
          controller' = Note([controller EXCEPT !.scheduled = {}], p.id, p.cost, "rejected")
    BY <1>7 DEF LogReleased
  <2>2. /\ [controller EXCEPT !.scheduled = {}] \in Controller
        /\ [controller EXCEPT !.scheduled = {}].history = controller.history
        /\ [controller EXCEPT !.scheduled = {}].last = controller.last
    BY <1>1 DEF TypeOK, Controller
  <2>3. /\ controller'.history = Append(controller.history, Entry(p.id, p.cost, "rejected"))
        /\ controller'.last = controller.last
    <3>1. p.id \in Rounds /\ p.cost \in Costs
      BY PendingType
    <3>2. QED
      BY <2>1, <2>2, <3>1, NotedIn
  <2>4. round' = round /\ pending' \subseteq pending /\ at' = "asking"
    BY <1>7 DEF LogReleased
  <2>5. QED
    BY <2>3, <2>4, NotedEnd
<1>8. CASE LogCancelled
  <2>1. PICK p \in pending : controller' = Note(controller, p.id, p.cost, "cancelled")
    BY <1>8 DEF LogCancelled
  <2>2. /\ controller'.history = Append(controller.history, Entry(p.id, p.cost, "cancelled"))
        /\ controller'.last = controller.last
    <3>1. p.id \in Rounds /\ p.cost \in Costs
      BY PendingType
    <3>2. QED
      BY <1>1, <2>1, <3>1, NotedIn DEF TypeOK
  <2>3. round' = round /\ pending' \subseteq pending /\ at' = "log_failed"
    BY <1>8 DEF LogCancelled
  <2>4. QED
    BY <2>2, <2>3, NotedEnd
<1>9. CASE DecideNothing \/ LogReserved
  <2>1. UNCHANGED <<pending, controller>> /\ NextRound
    BY <1>9 DEF DecideNothing, LogReserved
  <2>2. /\ round' \in Rounds /\ round <= round'
        /\ at' \in {"round", "boundary"} => round < round'
    BY <1>1, <2>1 DEF NextRound, LastRound, Rounds
  <2>3. QED
    BY <2>1, <2>2, SameHistory
<1>10. CASE CancelAtEnd \/ DiscardPlan
  <2>1. PICK cost \in Costs, status \in {"rejected", "cancelled"} :
          ~CoolingDown /\ controller' = Note(controller, round, cost, status)
    BY <1>10 DEF CancelAtEnd, DiscardPlan, Affordable
  <2>2. /\ controller'.history = Append(controller.history, Entry(round, cost, status))
        /\ controller'.last = controller.last
    BY <1>1, <2>1, NoteType DEF TypeOK
  <2>3. pending' = {} /\ round' \in {round, round + 1}
    BY <1>10 DEF CancelAtEnd, DiscardPlan, NextRound, SafeInv, PlaceInv
  <2>4. QED
    BY <2>1, <2>2, <2>3, NotedPlan
<1>11. CASE SchedulePlan
  <2>1. PICK cost \in Costs :
          /\ ~CoolingDown
          /\ pending' = {[id |-> round, cost |-> cost]}
          /\ controller' = Note(Sync(budget', {round}, NoRound), round, cost, "planned")
    BY <1>11 DEF SchedulePlan, Affordable
  <2>2. budget' \in Ledger
    BY <1>11, SafeStep DEF SafeInv, TypeOK
  <2>3. /\ Sync(budget', {round}, NoRound) \in Controller
        /\ Sync(budget', {round}, NoRound).history = controller.history
        /\ Sync(budget', {round}, NoRound).last = controller.last
    BY <1>1, <2>2, SyncType
  <2>4. /\ controller'.history = Append(controller.history, Entry(round, cost, "planned"))
        /\ controller'.last = controller.last
    BY <1>1, <2>1, <2>3, NotedIn
  <2>5. /\ \A p \in pending' : p.id = round /\ at' \notin {"round", "boundary"}
        /\ round' \in {round, round + 1}
    BY <1>11, <2>1 DEF SchedulePlan
  <2>6. QED
    BY <2>1, <2>4, <2>5, NotedPlan
<1>12. CASE UNCHANGED vars
  BY <1>1, <1>12, SameHistory DEF vars
<1>13. QED
  BY <1>2, <1>3, <1>4, <1>5, <1>6, <1>7, <1>8, <1>9, <1>10, <1>11, <1>12
  DEF Next, LogApplied, LogSpent, LogRejected, Ask, Answer, LogAnswer, ProviderFails,
      CloseRound, LogScheduled, ControlFails, LogFails, NothingToRelease, ReleaseRaises,
      RecordFailure, Finish

\* The whole strengthening, which the model checker confirms on the small runs.
LEMMA ControlAlways == Spec => []ControlInv
<1>1. Init => PlansInv
  BY DEF Init, PlansInv, Plans, Applied, Spaced
<1>2. SafeInv /\ PlansInv /\ [Next]_vars => PlansInv'
  BY PlansStep
<1>3. SafeInv /\ PlansInv => ControlInv
  BY PlansInvMeans DEF SafeInv, ControlInv
<1>4. QED
  BY <1>1, <1>2, <1>3, SafeAlways, PTL DEF Spec

\* No plan is made in the round an intervention is applied in, nor in the
\* cooldown rounds after it, whatever fails in between: the last intervention
\* is kept by every copy of the controller state (_sync_controller_state).
THEOREM CooldownAlwaysKept == Spec => []CooldownKept
<1>1. ControlInv => CooldownKept
  BY DEF ControlInv
<1>2. QED
  BY <1>1, ControlAlways, PTL

-----------------------------------------------------------------------------
(***************************************************************************)
(* What is spent is what was applied.                                      *)
(***************************************************************************)

\* The outcomes of a history that are applied, their costs, and the sum.
AppliedIn(h) == {i \in DOMAIN h : h[i].status = "applied"}

CostsIn(h) == [i \in DOMAIN h |-> h[i].cost]

SpentIn(h) == SumFunctionOnSet(CostsIn(h), AppliedIn(h))

LEMMA CostsAreNumbers ==
  ASSUME NEW h \in Seq(Outcome)
  PROVE  Numbers(CostsIn(h), AppliedIn(h))
<1>1. DOMAIN h = 1..Len(h) /\ Len(h) \in Nat
  BY LenProperties
<1>2. IsFiniteSet(AppliedIn(h))
  <2>1. IsFiniteSet(1..Len(h)) /\ AppliedIn(h) \subseteq 1..Len(h)
    BY <1>1, FS_Interval DEF AppliedIn
  <2>2. QED
    BY <2>1, FS_Subset
<1>3. \A i \in AppliedIn(h) : CostsIn(h)[i] \in Nat
  <2> SUFFICES ASSUME NEW i \in AppliedIn(h) PROVE CostsIn(h)[i] \in Nat
    OBVIOUS
  <2>1. i \in DOMAIN h /\ h[i] \in Outcome
    BY <1>1, ElementOfSeq DEF AppliedIn
  <2>2. CostsIn(h)[i] = h[i].cost /\ h[i].cost \in Costs
    BY <2>1 DEF CostsIn, Outcome
  <2>3. QED
    BY <2>2
<1>4. QED
  BY <1>2, <1>3 DEF Numbers

\* Only an applied outcome adds its cost.
LEMMA SpentAppends ==
  ASSUME NEW h \in Seq(Outcome), NEW e \in Outcome
  PROVE  /\ SpentIn(Append(h, e)) = SpentIn(h) + (IF e.status = "applied" THEN e.cost ELSE 0)
         /\ SpentIn(h) \in Nat
<1> DEFINE n == Len(h)  new == Append(h, e)
<1>1. /\ DOMAIN h = 1..n /\ n \in Nat /\ new \in Seq(Outcome)
      /\ DOMAIN new = 1..(n + 1)
      /\ \A i \in 1..n : new[i] = h[i]
      /\ new[n + 1] = e
  BY AppendProperties
<1> HIDE DEF new
<1>2. Numbers(CostsIn(h), AppliedIn(h)) /\ Numbers(CostsIn(new), AppliedIn(new))
  BY <1>1, CostsAreNumbers
<1>3. AppliedIn(new) = AppliedIn(h) \cup (IF e.status = "applied" THEN {n + 1} ELSE {})
  BY <1>1 DEF AppliedIn
<1>4. \A i \in AppliedIn(h) : CostsIn(h)[i] = CostsIn(new)[i]
  BY <1>1 DEF AppliedIn, CostsIn
<1>5. SumFunctionOnSet(CostsIn(h), AppliedIn(h)) = SumFunctionOnSet(CostsIn(new), AppliedIn(h))
  BY <1>2, <1>4, SumAgrees
<1>6. SumFunctionOnSet(CostsIn(h), AppliedIn(h)) \in Nat
  BY <1>2, SumPicks
<1>7. CASE e.status = "applied"
  <2>1. n + 1 \notin AppliedIn(h)
    BY <1>1 DEF AppliedIn
  <2>2. AppliedIn(new) = AppliedIn(h) \cup {n + 1} /\ CostsIn(new)[n + 1] = e.cost
    BY <1>1, <1>3, <1>7 DEF CostsIn
  <2>3. SumFunctionOnSet(CostsIn(new), AppliedIn(h) \cup {n + 1})
          = SumFunctionOnSet(CostsIn(new), AppliedIn(h)) + CostsIn(new)[n + 1]
    <3> DEFINE k == n + 1  S == AppliedIn(h)  f == CostsIn(new)
    <3>1. Numbers(f, S \cup {k}) /\ k \notin S
      BY <1>2, <2>1, <2>2
    <3>2. SumFunctionOnSet(f, S \cup {k}) = SumFunctionOnSet(f, S) + f[k]
      <4> HIDE DEF k, S, f
      <4>1. QED
        BY <3>1, SumAdds
    <3>3. QED
      BY <3>2
  <2>4. QED
    BY <1>5, <1>6, <1>7, <2>2, <2>3 DEF SpentIn, new
<1>8. CASE e.status # "applied"
  <2>1. AppliedIn(new) = AppliedIn(h)
    BY <1>3, <1>8
  <2>2. SpentIn(new) = SpentIn(h)
    BY <1>5, <2>1 DEF SpentIn
  <2>3. QED
    BY <1>6, <1>8, <2>2 DEF SpentIn, new
<1>9. QED
  BY <1>7, <1>8

\* The strengthening: what is reserved before the plan is settled is its cost,
\* and the controller state says what the budget says.
BackedInv ==
  /\ budget.spent = SpentIn(controller.history)
  /\ \A p \in pending : at \in {"round", "boundary", "log_scheduled", "log_reserved"}
                         => budget.reserved = p.cost
  /\ controller.remaining = budget.remaining
  /\ controller.reserved = budget.reserved
  /\ controller.spent = budget.spent

\* So the budget is backed by the plans.
LEMMA BackedMeans == SafeInv /\ BackedInv => BudgetBacked
<1> SUFFICES ASSUME SafeInv, BackedInv PROVE BudgetBacked
  OBVIOUS
<1>1. controller.history \in Seq(Outcome)
  BY DEF SafeInv, TypeOK, Controller
<1> DEFINE h == controller.history  E == Ends("applied")  c == [i \in E |-> h[i].cost]
<1>2. E = AppliedIn(h)
  BY DEF Ends, AppliedIn
<1>3. Numbers(CostsIn(h), E) /\ \A i \in E : CostsIn(h)[i] = c[i]
  BY <1>1, <1>2, CostsAreNumbers DEF CostsIn, AppliedIn
<1>4. SumFunctionOnSet(CostsIn(h), E) = SumFunctionOnSet(c, E)
  <2> HIDE DEF c, E
  <2>1. QED
    BY <1>3, SumAgrees
<1>5. DOMAIN c = E
  OBVIOUS
<1>6. SumFunction(c) = SumFunctionOnSet(c, E)
  BY <1>5 DEF SumFunction
<1>7. budget.spent = SumFunction(c)
  BY <1>2, <1>4, <1>6 DEF BackedInv, SpentIn
<1>8. QED
  BY <1>7 DEF BudgetBacked, BackedInv, SafeInv, PlaceInv, Conserved

\* What the parts of a copy are.
CopyOf(c, b) ==
  c.remaining = b.remaining /\ c.reserved = b.reserved /\ c.spent = b.spent

\* A controller state synced to the budget and an outcome noted in it.
LEMMA SyncedAndNoted ==
  ASSUME SafeInv, NEW b \in Ledger, NEW ids \in SUBSET Rounds,
         NEW last \in Rounds \cup {NoRound}
  PROVE  /\ Sync(b, ids, last) \in Controller
         /\ CopyOf(Sync(b, ids, last), b)
         /\ Sync(b, ids, last).history = controller.history
<1>1. /\ Sync(b, ids, last).remaining = b.remaining
      /\ Sync(b, ids, last).reserved = b.reserved
      /\ Sync(b, ids, last).spent = b.spent
  BY DEF SafeInv, TypeOK, Sync, Controller
<1>2. QED
  BY <1>1, SyncType DEF SafeInv, CopyOf

LEMMA Noted ==
  ASSUME SafeInv, NEW c \in Controller, NEW b, CopyOf(c, b), c.history = controller.history,
         NEW plan \in Rounds, NEW cost \in Costs,
         NEW status \in {"planned", "applied", "rejected", "cancelled"}
  PROVE  /\ CopyOf(Note(c, plan, cost, status), b)
         /\ SpentIn(Note(c, plan, cost, status).history)
              = SpentIn(controller.history) + (IF status = "applied" THEN cost ELSE 0)
         /\ SpentIn(controller.history) \in Nat
<1>1. /\ Note(c, plan, cost, status).history = Append(c.history, Entry(plan, cost, status))
      /\ Entry(plan, cost, status) \in Outcome
  BY NoteType
<1>2. /\ Entry(plan, cost, status).status = status
      /\ Entry(plan, cost, status).cost = cost
  BY DEF Entry
<1>3. c.history \in Seq(Outcome)
  BY DEF Controller
<1>4. /\ SpentIn(Append(c.history, Entry(plan, cost, status)))
           = SpentIn(c.history) + (IF status = "applied" THEN cost ELSE 0)
      /\ SpentIn(c.history) \in Nat
  BY <1>1, <1>2, <1>3, SpentAppends
<1>5. CopyOf(Note(c, plan, cost, status), b)
  BY DEF CopyOf, Note, Controller
<1>6. QED
  BY <1>1, <1>4, <1>5

Reserving == {"round", "boundary", "log_scheduled", "log_reserved"}

\* The steps that leave the budget alone, and its copy in the controller.
LEMMA QuietBacked ==
  ASSUME BackedInv, budget' = budget, CopyOf(controller', budget),
         SpentIn(controller'.history) = SpentIn(controller.history),
         pending' \subseteq pending, at' \in Reserving => at \in Reserving \/ pending' = {}
  PROVE  BackedInv'
BY DEF BackedInv, CopyOf, Reserving

\* Every step keeps what is spent to what is applied.
LEMMA BackedStep ==
  ASSUME SafeInv, BackedInv, [Next]_vars
  PROVE  BackedInv'
<1>1. /\ TypeOK /\ budget \in Ledger /\ controller \in Controller /\ round \in Rounds
      /\ {} \in SUBSET Rounds /\ NoRound \in Rounds \cup {NoRound}
      /\ CopyOf(controller, budget)
      /\ budget.spent = SpentIn(controller.history)
  BY DEF SafeInv, TypeOK, BackedInv, CopyOf
<1>2. CASE UNCHANGED <<budget, controller, pending>> /\ at' \notin Reserving
  BY <1>1, <1>2, QuietBacked
<1>3. CASE StartRound
  <2>1. CopyOf(controller', budget) /\ controller'.history = controller.history
    <3>1. CASE pending = {}
      <4>1. controller' = Sync(budget, {}, NoRound)
        BY <1>3, <3>1 DEF StartRound
      <4>2. QED
        BY <1>1, <4>1, SyncedAndNoted
    <3>2. CASE pending # {}
      BY <1>1, <1>3, <3>2 DEF StartRound
    <3>3. QED
      BY <3>1, <3>2
  <2>2. at \in Reserving /\ UNCHANGED <<budget, pending>>
    BY <1>3 DEF StartRound, Reserving
  <2>3. QED
    BY <2>1, <2>2, QuietBacked
<1>4. CASE ApplyPlan
  <2>1. PICK p \in pending : /\ p.cost <= budget.reserved /\ budget' = Spend(p.cost)
                             /\ controller' = Note(Sync(budget', {}, round), p.id, p.cost, "applied")
    BY <1>4 DEF ApplyPlan
  <2>2. /\ budget' \in Ledger /\ p.id \in Rounds /\ p.cost \in Costs
        /\ budget'.spent = budget.spent + p.cost
    BY <1>1, <2>1, SettleStep, SettleType, PendingType DEF SafeInv
  <2>3. /\ CopyOf(controller', budget')
        /\ SpentIn(controller'.history) = SpentIn(controller.history) + p.cost
    <3> DEFINE c == Sync(budget', {}, round)
    <3>1. c \in Controller /\ CopyOf(c, budget') /\ c.history = controller.history
      BY <1>1, <2>2, SyncedAndNoted
    <3> HIDE DEF c
    <3>2. /\ CopyOf(Note(c, p.id, p.cost, "applied"), budget')
          /\ SpentIn(Note(c, p.id, p.cost, "applied").history)
               = SpentIn(controller.history) + p.cost
      BY <2>2, <3>1, Noted
    <3>3. QED
      BY <2>1, <3>2 DEF c
  <2>4. at' \notin Reserving
    BY <1>4 DEF ApplyPlan, Reserving
  <2>5. QED
    BY <1>1, <2>2, <2>3, <2>4 DEF BackedInv, CopyOf, Reserving
<1>5. CASE RejectPlan \/ ReleasePending
  <2>1. PICK p \in pending : /\ p.cost <= budget.reserved /\ budget' = Release(p.cost)
                             /\ controller' = Sync(budget', {}, NoRound)
    BY <1>5 DEF RejectPlan, ReleasePending
  <2>2. /\ budget' \in Ledger /\ p.cost \in Costs /\ budget'.spent = budget.spent
    BY <1>1, <2>1, SettleStep, SettleType, PendingType DEF SafeInv
  <2>3. CopyOf(controller', budget') /\ controller'.history = controller.history
    BY <1>1, <2>1, <2>2, SyncedAndNoted
  <2>4. at' \notin Reserving
    BY <1>5 DEF RejectPlan, ReleasePending, Reserving
  <2>5. QED
    BY <1>1, <2>2, <2>3, <2>4 DEF BackedInv, CopyOf, Reserving
<1>6. CASE LogCooldown
  <2>1. CopyOf(controller', budget) /\ controller'.history = controller.history
    BY <1>1, <1>6 DEF LogCooldown, CopyOf, Controller
  <2>2. QED
    BY <1>6, <2>1, QuietBacked DEF LogCooldown
<1>7. CASE LogReleased
  <2>1. PICK p \in pending :
          controller' = Note([controller EXCEPT !.scheduled = {}], p.id, p.cost, "rejected")
    BY <1>7 DEF LogReleased
  <2> DEFINE c == [controller EXCEPT !.scheduled = {}]
  <2>2. c \in Controller /\ CopyOf(c, budget) /\ c.history = controller.history
    BY <1>1 DEF Controller, CopyOf
  <2>3. p.id \in Rounds /\ p.cost \in Costs
    BY PendingType
  <2> HIDE DEF c
  <2>4. /\ CopyOf(Note(c, p.id, p.cost, "rejected"), budget)
        /\ SpentIn(Note(c, p.id, p.cost, "rejected").history) = SpentIn(controller.history)
    <3> DEFINE plan == p.id  cost == p.cost
    <3>1. plan \in Rounds /\ cost \in Costs
      BY <2>3
    <3> HIDE DEF plan, cost
    <3>2. /\ CopyOf(Note(c, plan, cost, "rejected"), budget)
          /\ SpentIn(Note(c, plan, cost, "rejected").history) = SpentIn(controller.history)
      BY <2>2, <3>1, Noted
    <3>3. QED
      BY <3>2 DEF plan, cost
  <2>5. QED
    BY <1>7, <2>1, <2>4, QuietBacked DEF LogReleased, c
<1>8. CASE LogCancelled
  <2>1. PICK p \in pending : controller' = Note(controller, p.id, p.cost, "cancelled")
    BY <1>8 DEF LogCancelled
  <2>2. p.id \in Rounds /\ p.cost \in Costs
    BY PendingType
  <2>3. /\ CopyOf(Note(controller, p.id, p.cost, "cancelled"), budget)
        /\ SpentIn(Note(controller, p.id, p.cost, "cancelled").history)
             = SpentIn(controller.history)
    <3> DEFINE plan == p.id  cost == p.cost
    <3>1. plan \in Rounds /\ cost \in Costs
      BY <2>2
    <3> HIDE DEF plan, cost
    <3>2. /\ CopyOf(Note(controller, plan, cost, "cancelled"), budget)
          /\ SpentIn(Note(controller, plan, cost, "cancelled").history)
               = SpentIn(controller.history)
      BY <1>1, <3>1, Noted
    <3>3. QED
      BY <3>2 DEF plan, cost
  <2>4. QED
    BY <1>8, <2>1, <2>3, QuietBacked DEF LogCancelled
<1>9. CASE CancelAtEnd \/ DiscardPlan
  <2>1. PICK cost \in Costs, status \in {"rejected", "cancelled"} :
          controller' = Note(controller, round, cost, status)
    BY <1>9 DEF CancelAtEnd, DiscardPlan
  <2>2. /\ CopyOf(Note(controller, round, cost, status), budget)
        /\ SpentIn(Note(controller, round, cost, status).history)
             = SpentIn(controller.history)
    BY <1>1, Noted
  <2>3. UNCHANGED <<budget, pending>> /\ pending = {}
    BY <1>9 DEF CancelAtEnd, DiscardPlan, SafeInv, PlaceInv
  <2>4. QED
    BY <2>1, <2>2, <2>3, QuietBacked
<1>10. CASE DecideNothing \/ LogReserved
  <2>1. /\ UNCHANGED <<budget, pending, controller>>
        /\ pending = {} \/ at \in Reserving
    BY <1>10 DEF DecideNothing, LogReserved, SafeInv, PlaceInv, Reserving
  <2>2. QED
    BY <1>1, <2>1, QuietBacked
<1>11. CASE SchedulePlan
  <2>1. PICK cost \in Costs :
          /\ budget' = [budget EXCEPT !.reserved = @ + cost, !.remaining = @ - cost]
          /\ pending' = {[id |-> round, cost |-> cost]}
          /\ controller' = Note(Sync(budget', {round}, NoRound), round, cost, "planned")
    BY <1>11 DEF SchedulePlan
  <2>2. budget' \in Ledger
    BY <1>11, SafeStep DEF SafeInv, TypeOK
  <2>3. budget.reserved = 0 /\ cost \in Nat
    BY <1>11 DEF SchedulePlan, SafeInv, PlaceInv
  <2>4. budget'.spent = budget.spent /\ budget'.reserved = cost
    BY <1>1, <2>1, <2>3 DEF Ledger
  <2>5. /\ CopyOf(controller', budget')
        /\ SpentIn(controller'.history) = SpentIn(controller.history)
    <3> DEFINE c == Sync(budget', {round}, NoRound)
    <3>1. c \in Controller /\ CopyOf(c, budget') /\ c.history = controller.history
      BY <1>1, <2>2, SyncedAndNoted
    <3> HIDE DEF c
    <3>2. /\ CopyOf(Note(c, round, cost, "planned"), budget')
          /\ SpentIn(Note(c, round, cost, "planned").history) = SpentIn(controller.history)
      BY <1>1, <3>1, Noted
    <3>3. QED
      BY <2>1, <3>2 DEF c
  <2>6. \A p \in pending' : budget'.reserved = p.cost
    BY <2>1, <2>4
  <2>7. QED
    BY <1>1, <2>4, <2>5, <2>6 DEF BackedInv, CopyOf
<1>12. CASE LogScheduled
  <2>1. at \in Reserving /\ UNCHANGED <<budget, controller, pending>>
    BY <1>12 DEF LogScheduled, Reserving
  <2>2. QED
    BY <1>1, <2>1, QuietBacked
<1>13. CASE UNCHANGED vars
  BY <1>13 DEF vars, BackedInv
<1>14. QED
  BY <1>2, <1>3, <1>4, <1>5, <1>6, <1>7, <1>8, <1>9, <1>10, <1>11, <1>12, <1>13
  DEF Next, LogApplied, LogSpent, LogRejected, Ask, Answer, LogAnswer, ProviderFails,
      CloseRound, ControlFails, LogFails, NothingToRelease, ReleaseRaises,
      RecordFailure, Finish, Reserving

\* The budget is backed in every state, whatever fails: what is spent is the
\* sum of the costs of the plans applied, what is reserved the cost of the one
\* plan pending until it is settled, and the controller state that is written
\* out says what the ledger says.
THEOREM BudgetAlwaysBacked == Spec => []BudgetBacked
<1>1. Init => BackedInv
  <2>1. SUFFICES ASSUME Init PROVE BackedInv
    OBVIOUS
  <2>2. AppliedIn(<<>>) = {}
    BY DEF AppliedIn
  <2>3. Numbers(CostsIn(<<>>), AppliedIn(<<>>))
    BY <2>2, FS_EmptySet DEF Numbers
  <2>4. SpentIn(<<>>) = 0
    BY <2>2, <2>3, SumPicks DEF SpentIn
  <2>5. QED
    BY <2>1, <2>4 DEF Init, BackedInv
<1>2. SafeInv /\ BackedInv /\ [Next]_vars => BackedInv'
  BY BackedStep
<1>3. SafeInv /\ BackedInv => BudgetBacked
  BY BackedMeans
<1>4. QED
  BY <1>1, <1>2, <1>3, SafeAlways, PTL DEF Spec

-----------------------------------------------------------------------------
(***************************************************************************)
(* Every plan comes to its end.                                            *)
(***************************************************************************)

\* The plans a history shows as planned, and what it shows of one after that.
PlannedIn(h) == {i \in DOMAIN h : h[i].status = "planned"}

EndsOf(h, i) == {j \in DOMAIN h : j > i /\ h[j].plan = h[i].plan}

Ended(h, i) == IF h[i].cost = 0 THEN EndsOf(h, i) # {} ELSE Cardinality(EndsOf(h, i)) = 1

\* Where the pending plan is noted as applied, or is about to be noted as
\* rejected or cancelled; where no plan of the current round is made yet.
AppliedSteps == {"log_applied", "log_spent", "log_cooldown"}
SettlingSteps == {"log_rejected", "log_released", "log_cancelled"}
BeforeDecision == {"round", "boundary", "asking", "asked", "answering", "closing", "control",
                   "log_rejected", "log_released"} \cup AppliedSteps

\* A plan that is pending costs what it was planned for; as long as its cost is
\* reserved, or is being given back, it has no end; once applied it has one.
OpenPlan(h, p, reserved, step) ==
  \A i \in PlannedIn(h) : h[i].plan = p.id =>
    /\ h[i].cost = p.cost
    /\ p.cost > 0 /\ (reserved = p.cost \/ step \in SettlingSteps) => EndsOf(h, i) = {}
    /\ step \in AppliedSteps => Ended(h, i)

\* A plan that is not pending any more has its end.
ClosedPlans(h, open) ==
  \A i \in PlannedIn(h) : (\A p \in open : h[i].plan # p.id) => Ended(h, i)

PlansEnd ==
  /\ ClosedPlans(controller.history, pending)
  /\ \A p \in pending : OpenPlan(controller.history, p, budget.reserved, at)

FreshInv ==
  at \in BeforeDecision =>
    \A j \in DOMAIN controller.history : controller.history[j].plan < round

SettledInv ==
  /\ at \in {"asking", "asked", "answering", "closing", "control", "finish", "done"}
       => controller.scheduled = {}
  /\ at \in {"log_failed", "done"} => pending = {}
  /\ record # "none" => pending = {} /\ at \in {"done", "raised"}
  /\ record = "completed" => at = "done"

EndInv == PlansEnd /\ FreshInv /\ SettledInv

\* A recorded run has ended all its plans.
LEMMA EndsMean == SafeInv /\ EndInv => EveryPlanEnds
<1> SUFFICES ASSUME SafeInv, EndInv, record # "none" PROVE EveryPlanEnds
  BY DEF EveryPlanEnds
<1>1. pending = {} /\ budget.reserved = 0
  BY DEF EndInv, SettledInv, SafeInv, PlaceInv
<1>2. record = "completed" => controller.scheduled = {}
  BY DEF EndInv, SettledInv
<1>3. ASSUME NEW i \in Ends("planned")
      PROVE  LET plan == controller.history[i]
                 ends == {j \in DOMAIN controller.history :
                            j > i /\ controller.history[j].plan = plan.plan}
             IN  IF plan.cost = 0 THEN ends # {} ELSE Cardinality(ends) = 1
  <2>1. i \in PlannedIn(controller.history)
    BY DEF Ends, PlannedIn
  <2>2. Ended(controller.history, i)
    BY <1>1, <2>1 DEF EndInv, PlansEnd, ClosedPlans
  <2>3. QED
    BY <2>2 DEF Ended, EndsOf
<1>4. QED
  BY <1>1, <1>2, <1>3 DEF EveryPlanEnds

\* What one more outcome does to the ends of the plans before it.
LEMMA AppendEnds ==
  ASSUME NEW h \in Seq(Outcome), NEW e \in Outcome
  PROVE  /\ PlannedIn(Append(h, e))
              = PlannedIn(h) \cup (IF e.status = "planned" THEN {Len(h) + 1} ELSE {})
         /\ Append(h, e)[Len(h) + 1] = e
         /\ EndsOf(Append(h, e), Len(h) + 1) = {}
         /\ DOMAIN Append(h, e) = DOMAIN h \cup {Len(h) + 1}
         /\ \A i \in DOMAIN h :
              /\ Append(h, e)[i] = h[i]
              /\ EndsOf(Append(h, e), i)
                   = EndsOf(h, i) \cup (IF e.plan = h[i].plan THEN {Len(h) + 1} ELSE {})
              /\ IsFiniteSet(EndsOf(h, i)) /\ Len(h) + 1 \notin EndsOf(h, i)
<1> DEFINE n == Len(h)  new == Append(h, e)
<1>1. /\ DOMAIN h = 1..n /\ n \in Nat
      /\ DOMAIN new = 1..(n + 1)
      /\ \A i \in 1..n : new[i] = h[i]
      /\ new[n + 1] = e
  BY AppendProperties
<1> HIDE DEF new
<1>2. PlannedIn(new) = PlannedIn(h) \cup (IF e.status = "planned" THEN {n + 1} ELSE {})
  BY <1>1 DEF PlannedIn
<1>3. EndsOf(new, n + 1) = {}
  BY <1>1 DEF EndsOf
<1>4. ASSUME NEW i \in DOMAIN h
      PROVE  EndsOf(new, i) = EndsOf(h, i) \cup (IF e.plan = h[i].plan THEN {n + 1} ELSE {})
  BY <1>1 DEF EndsOf
<1>5. ASSUME NEW i \in DOMAIN h
      PROVE  IsFiniteSet(EndsOf(h, i)) /\ n + 1 \notin EndsOf(h, i)
  <2>1. IsFiniteSet(1..n) /\ EndsOf(h, i) \subseteq 1..n
    BY <1>1, FS_Interval DEF EndsOf
  <2>2. QED
    BY <1>1, <2>1, FS_Subset
<1>6. DOMAIN new = DOMAIN h \cup {n + 1}
  BY <1>1
<1>7. QED
  BY <1>1, <1>2, <1>3, <1>4, <1>5, <1>6 DEF new

\* The end of a plan that had none, or that is free, is its end.
LEMMA FirstEnd ==
  ASSUME NEW h \in Seq(Outcome), NEW e \in Outcome, NEW i \in DOMAIN h, e.plan = h[i].plan,
         h[i].cost # 0 => EndsOf(h, i) = {}
  PROVE  Ended(Append(h, e), i)
<1>1. /\ Append(h, e)[i] = h[i]
      /\ EndsOf(Append(h, e), i) = EndsOf(h, i) \cup {Len(h) + 1}
  BY AppendEnds
<1>2. CASE h[i].cost = 0
  BY <1>1, <1>2 DEF Ended
<1>3. CASE h[i].cost # 0
  <2>1. EndsOf(Append(h, e), i) = {Len(h) + 1}
    BY <1>1, <1>3
  <2>2. Cardinality({Len(h) + 1}) = 1
    BY FS_Singleton
  <2>3. QED
    BY <1>1, <1>3, <2>1, <2>2 DEF Ended
<1>4. QED
  BY <1>2, <1>3

\* Another plan's outcome leaves the ends of a plan as they are.
LEMMA OtherEnd ==
  ASSUME NEW h \in Seq(Outcome), NEW e \in Outcome, NEW i \in DOMAIN h, e.plan # h[i].plan
  PROVE  /\ EndsOf(Append(h, e), i) = EndsOf(h, i)
         /\ Ended(Append(h, e), i) <=> Ended(h, i)
<1>1. /\ Append(h, e)[i] = h[i]
      /\ EndsOf(Append(h, e), i)
           = EndsOf(h, i) \cup (IF e.plan = h[i].plan THEN {Len(h) + 1} ELSE {})
  BY AppendEnds
<1>2. EndsOf(Append(h, e), i) = EndsOf(h, i)
  BY <1>1
<1>3. QED
  BY <1>1, <1>2 DEF Ended

\* The steps that note no outcome and keep the pending plan.
LEMMA QuietEnds ==
  ASSUME PlansEnd, controller'.history = controller.history, pending' = pending,
         \A p \in pending : p.cost > 0 /\ (budget'.reserved = p.cost \/ at' \in SettlingSteps)
           => budget.reserved = p.cost \/ at \in SettlingSteps,
         at' \in AppliedSteps => at \in AppliedSteps
  PROVE  PlansEnd'
BY DEF PlansEnd, ClosedPlans, OpenPlan

\* The pending plan is noted as rejected or cancelled, and no longer pending.
LEMMA SettledEnds ==
  ASSUME SafeInv, PlansEnd, at \in SettlingSteps, NEW p \in pending,
         NEW status \in {"rejected", "cancelled"}, pending' = {},
         controller'.history = Append(controller.history, Entry(p.id, p.cost, status))
  PROVE  PlansEnd'
<1> DEFINE h == controller.history  e == Entry(p.id, p.cost, status)
<1>1. /\ pending = {p} /\ p.id \in Rounds /\ p.cost \in Costs /\ p.cost \in Nat
      /\ h \in Seq(Outcome)
  BY PendingType DEF SafeInv, TypeOK, Controller
<1>2. e \in Outcome /\ e.plan = p.id /\ e.status # "planned"
  BY <1>1 DEF Entry, Outcome
<1>3. ASSUME NEW i \in PlannedIn(Append(h, e)) PROVE Ended(Append(h, e), i)
  <2>1. i \in PlannedIn(h) /\ i \in DOMAIN h
    <3>1. PlannedIn(Append(h, e))
            = PlannedIn(h) \cup (IF e.status = "planned" THEN {Len(h) + 1} ELSE {})
      BY <1>1, <1>2, AppendEnds
    <3>2. QED
      BY <1>2, <3>1 DEF PlannedIn
  <2>2. CASE h[i].plan = p.id
    <3>1. h[i].cost = p.cost /\ (p.cost > 0 => EndsOf(h, i) = {})
      BY <2>1, <2>2 DEF PlansEnd, OpenPlan
    <3>2. h[i].cost # 0 => EndsOf(h, i) = {}
      BY <1>1, <3>1
    <3> HIDE DEF e, h
    <3>3. QED
      BY <1>1, <1>2, <2>1, <2>2, <3>2, FirstEnd
  <2>3. CASE h[i].plan # p.id
    <3>1. Ended(h, i)
      BY <1>1, <2>1, <2>3 DEF PlansEnd, ClosedPlans
    <3> HIDE DEF e, h
    <3>2. QED
      BY <1>1, <1>2, <2>1, <2>3, <3>1, OtherEnd
  <2>4. QED
    BY <2>2, <2>3
<1>4. QED
  BY <1>3 DEF PlansEnd, ClosedPlans

\* The pending plan is noted as applied, and stays pending.
LEMMA AppliedEnds ==
  ASSUME SafeInv, PlansEnd, NEW p \in pending, p.cost <= budget.reserved,
         at' = "log_applied", pending' = pending, budget'.reserved = 0,
         controller'.history = Append(controller.history, Entry(p.id, p.cost, "applied"))
  PROVE  PlansEnd'
<1> DEFINE h == controller.history  e == Entry(p.id, p.cost, "applied")
<1>1. /\ pending = {p} /\ p.id \in Rounds /\ p.cost \in Costs /\ p.cost \in Nat
      /\ h \in Seq(Outcome) /\ budget.reserved \in {0, p.cost}
  BY PendingType DEF SafeInv, TypeOK, Controller
<1>2. e \in Outcome /\ e.plan = p.id /\ e.status # "planned"
  BY <1>1 DEF Entry, Outcome
<1>3. ASSUME NEW i \in PlannedIn(Append(h, e))
      PROVE  /\ Ended(Append(h, e), i)
             /\ Append(h, e)[i].plan = p.id => Append(h, e)[i].cost = p.cost
  <2>1. i \in PlannedIn(h) /\ i \in DOMAIN h /\ Append(h, e)[i] = h[i]
    <3>1. /\ PlannedIn(Append(h, e))
               = PlannedIn(h) \cup (IF e.status = "planned" THEN {Len(h) + 1} ELSE {})
          /\ \A k \in DOMAIN h : Append(h, e)[k] = h[k]
      BY <1>1, <1>2, AppendEnds
    <3>2. QED
      BY <1>2, <3>1 DEF PlannedIn
  <2>2. CASE h[i].plan = p.id
    <3>1. /\ h[i].cost = p.cost
          /\ p.cost > 0 /\ budget.reserved = p.cost => EndsOf(h, i) = {}
      BY <2>1, <2>2 DEF PlansEnd, OpenPlan
    <3>2. h[i].cost # 0 => EndsOf(h, i) = {}
      BY <1>1, <3>1
    <3> HIDE DEF e, h
    <3>3. Ended(Append(h, e), i)
      BY <1>1, <1>2, <2>1, <2>2, <3>2, FirstEnd
    <3>4. QED
      BY <2>1, <3>1, <3>3
  <2>3. CASE h[i].plan # p.id
    <3>1. Ended(h, i)
      BY <1>1, <2>1, <2>3 DEF PlansEnd, ClosedPlans
    <3> HIDE DEF e, h
    <3>2. QED
      BY <1>1, <1>2, <2>1, <2>3, <3>1, OtherEnd
  <2>4. QED
    BY <2>2, <2>3
<1>4. ClosedPlans(controller'.history, pending')
  BY <1>3 DEF ClosedPlans
<1>5. \A q \in pending' : OpenPlan(controller'.history, q, budget'.reserved, at')
  <2>1. \A q \in pending' : q = p
    BY <1>1
  <2>2. at' \notin SettlingSteps
    BY DEF SettlingSteps
  <2>3. OpenPlan(controller'.history, p, budget'.reserved, at')
    <3>1. p.cost > 0 => budget'.reserved # p.cost
      BY <1>1
    <3> HIDE DEF h, e
    <3>2. \A i \in PlannedIn(Append(h, e)) :
            /\ Append(h, e)[i].plan = p.id => Append(h, e)[i].cost = p.cost
            /\ Ended(Append(h, e), i)
      BY <1>3
    <3>3. OpenPlan(Append(h, e), p, budget'.reserved, at')
      BY <2>2, <3>1, <3>2 DEF OpenPlan
    <3>4. QED
      BY <3>3 DEF h, e
  <2>4. QED
    BY <2>1, <2>3
<1>6. QED
  BY <1>4, <1>5 DEF PlansEnd

\* An outcome of the current round, when none is pending: it says nothing of an
\* earlier plan, and a new plan has no end yet.
LEMMA NewPlanEnds ==
  ASSUME SafeInv, PlansEnd, FreshInv, at \in BeforeDecision, pending = {}, NEW cost \in Costs,
         NEW status \in {"planned", "rejected", "cancelled"},
         controller'.history = Append(controller.history, Entry(round, cost, status)),
         at' \notin AppliedSteps,
         pending' = IF status = "planned" THEN {[id |-> round, cost |-> cost]} ELSE {}
  PROVE  PlansEnd'
<1> DEFINE h == controller.history  e == Entry(round, cost, status)  n == Len(h) + 1
<1>1. h \in Seq(Outcome) /\ round \in Rounds /\ round \in Nat
  BY DEF SafeInv, TypeOK, Controller, Rounds
<1>2. e \in Outcome /\ e.plan = round /\ e.status = status /\ e.cost = cost
  BY <1>1 DEF Entry, Outcome
<1>3. ASSUME NEW i \in PlannedIn(h)
      PROVE  /\ i \in DOMAIN h /\ Append(h, e)[i] = h[i] /\ h[i].plan # round
             /\ Ended(Append(h, e), i)
  <2>1. i \in DOMAIN h /\ h[i].plan < round /\ h[i].plan \in Int
    <3>1. i \in DOMAIN h
      BY DEF PlannedIn
    <3>2. h[i] \in Outcome
      BY <1>1, <3>1, ElementOfSeq
    <3>3. QED
      BY <3>1, <3>2 DEF FreshInv, Outcome, Rounds
  <2>2. h[i].plan # round /\ Ended(h, i)
    BY <1>1, <2>1 DEF PlansEnd, ClosedPlans
  <2>3. Append(h, e)[i] = h[i]
    BY <1>1, <1>2, <2>1, AppendEnds
  <2> HIDE DEF h, e
  <2>4. Ended(Append(h, e), i)
    BY <1>1, <1>2, <2>1, <2>2, OtherEnd
  <2>5. QED
    BY <2>1, <2>2, <2>3, <2>4
<1>4. /\ PlannedIn(Append(h, e)) = PlannedIn(h) \cup (IF status = "planned" THEN {n} ELSE {})
      /\ Append(h, e)[n] = e /\ EndsOf(Append(h, e), n) = {}
  <2>1. /\ PlannedIn(Append(h, e))
             = PlannedIn(h) \cup (IF e.status = "planned" THEN {Len(h) + 1} ELSE {})
        /\ Append(h, e)[Len(h) + 1] = e /\ EndsOf(Append(h, e), Len(h) + 1) = {}
    BY <1>1, <1>2, AppendEnds
  <2>2. QED
    BY <1>2, <2>1
<1> HIDE DEF e, h, n
<1>5. CASE status # "planned"
  <2>1. PlannedIn(Append(h, e)) = PlannedIn(h)
    BY <1>4, <1>5
  <2>2. ClosedPlans(Append(h, e), pending')
    BY <1>3, <2>1 DEF ClosedPlans
  <2>3. QED
    BY <1>5, <2>2 DEF PlansEnd, h, e
<1>6. CASE status = "planned"
  <2> DEFINE p == [id |-> round, cost |-> cost]
  <2>1. PlannedIn(Append(h, e)) = PlannedIn(h) \cup {n} /\ pending' = {p}
    BY <1>4, <1>6
  <2>2. p.id = round /\ p.cost = cost
    OBVIOUS
  <2> HIDE DEF p
  <2>3. ClosedPlans(Append(h, e), pending')
    BY <1>2, <1>3, <1>4, <2>1, <2>2 DEF ClosedPlans
  <2>4. OpenPlan(Append(h, e), p, budget'.reserved, at')
    BY <1>2, <1>3, <1>4, <2>1, <2>2 DEF OpenPlan
  <2>5. QED
    BY <2>1, <2>3, <2>4 DEF PlansEnd, h, e
<1>7. QED
  BY <1>5, <1>6

\* The steps that note no outcome.
NotesNothing ==
  \/ StartRound \/ LogApplied \/ LogSpent \/ LogCooldown \/ RejectPlan \/ LogRejected
  \/ Ask \/ Answer \/ LogAnswer \/ ProviderFails \/ CloseRound \/ DecideNothing
  \/ LogScheduled \/ LogReserved \/ ControlFails \/ LogFails \/ NothingToRelease
  \/ ReleasePending \/ ReleaseRaises \/ RecordFailure \/ Finish \/ UNCHANGED vars

\* What each step does to the history.
LEMMA HistoryMoves ==
  ASSUME SafeInv, [Next]_vars
  PROVE  LET h == controller.history
             Adds(plan, cost, status) == controller'.history = Append(h, Entry(plan, cost, status))
         IN  \/ NotesNothing /\ controller'.history = h
             \/ ApplyPlan /\ \E p \in pending : p.cost <= budget.reserved /\ Adds(p.id, p.cost, "applied")
             \/ LogReleased /\ \E p \in pending : Adds(p.id, p.cost, "rejected")
             \/ LogCancelled /\ \E p \in pending : Adds(p.id, p.cost, "cancelled")
             \/ CancelAtEnd /\ \E cost \in Costs : Adds(round, cost, "cancelled")
             \/ DiscardPlan /\ \E cost \in Costs : Adds(round, cost, "rejected")
             \/ SchedulePlan /\ \E cost \in Costs :
                  /\ Adds(round, cost, "planned")
                  /\ pending' = {[id |-> round, cost |-> cost]}
<1>1. /\ TypeOK /\ round \in Rounds /\ {} \in SUBSET Rounds /\ controller \in Controller
      /\ NoRound \in Rounds \cup {NoRound}
  BY DEF SafeInv, TypeOK
<1>2. CASE StartRound
  <2>1. controller'.history = controller.history
    BY <1>1, <1>2, SyncType DEF StartRound, TypeOK
  <2>2. QED
    BY <1>2, <2>1 DEF NotesNothing
<1>3. CASE ApplyPlan
  <2>1. PICK p \in pending : /\ p.cost <= budget.reserved /\ budget' = Spend(p.cost)
                             /\ controller' = Note(Sync(budget', {}, round), p.id, p.cost, "applied")
    BY <1>3 DEF ApplyPlan
  <2>2. budget' \in Ledger /\ p.id \in Rounds /\ p.cost \in Costs
    BY <1>1, <2>1, SettleStep, PendingType
  <2> DEFINE c == Sync(budget', {}, round)
  <2>3. c \in Controller /\ c.history = controller.history
    BY <1>1, <2>2, SyncType
  <2> HIDE DEF c
  <2>4. Note(c, p.id, p.cost, "applied").history
          = Append(controller.history, Entry(p.id, p.cost, "applied"))
    BY <2>2, <2>3 DEF Note, Controller
  <2>5. controller'.history = Append(controller.history, Entry(p.id, p.cost, "applied"))
    BY <2>1, <2>4 DEF c
  <2>6. QED
    BY <1>3, <2>1, <2>5
<1>4. CASE RejectPlan \/ ReleasePending
  <2>1. controller'.history = controller.history
    BY <1>1, <1>4, SettleStep, SyncType DEF RejectPlan, ReleasePending
  <2>2. QED
    BY <1>4, <2>1 DEF NotesNothing
<1>5. CASE LogCooldown
  <2>1. controller'.history = controller.history
    BY <1>1, <1>5 DEF LogCooldown, Controller
  <2>2. QED
    BY <1>5, <2>1 DEF NotesNothing
<1>6. CASE LogReleased
  <2>1. PICK p \in pending :
          controller' = Note([controller EXCEPT !.scheduled = {}], p.id, p.cost, "rejected")
    BY <1>6 DEF LogReleased
  <2> DEFINE c == [controller EXCEPT !.scheduled = {}]
  <2>2. c \in Controller /\ c.history = controller.history
    BY <1>1 DEF Controller
  <2> HIDE DEF c
  <2>3. Note(c, p.id, p.cost, "rejected").history
          = Append(controller.history, Entry(p.id, p.cost, "rejected"))
    BY <2>2 DEF Note, Controller
  <2>4. QED
    BY <1>6, <2>1, <2>3 DEF c
<1>7. CASE LogCancelled
  <2>1. PICK p \in pending : controller' = Note(controller, p.id, p.cost, "cancelled")
    BY <1>7 DEF LogCancelled
  <2>2. controller'.history = Append(controller.history, Entry(p.id, p.cost, "cancelled"))
    BY <1>1, <2>1 DEF Note, Controller
  <2>3. QED
    BY <1>7, <2>2
<1>8. CASE CancelAtEnd
  <2>1. PICK cost \in Costs : controller' = Note(controller, round, cost, "cancelled")
    BY <1>8 DEF CancelAtEnd
  <2>2. controller'.history = Append(controller.history, Entry(round, cost, "cancelled"))
    BY <1>1, <2>1 DEF Note, Controller
  <2>3. QED
    BY <1>8, <2>2
<1>9. CASE DiscardPlan
  <2>1. PICK cost \in Costs : controller' = Note(controller, round, cost, "rejected")
    BY <1>9 DEF DiscardPlan
  <2>2. controller'.history = Append(controller.history, Entry(round, cost, "rejected"))
    BY <1>1, <2>1 DEF Note, Controller
  <2>3. QED
    BY <1>9, <2>2
<1>10. CASE SchedulePlan
  <2>1. PICK cost \in Costs :
          /\ pending' = {[id |-> round, cost |-> cost]}
          /\ controller' = Note(Sync(budget', {round}, NoRound), round, cost, "planned")
    BY <1>10 DEF SchedulePlan
  <2>2. budget' \in Ledger
    BY <1>10, SafeStep DEF SafeInv, TypeOK
  <2> DEFINE c == Sync(budget', {round}, NoRound)
  <2>3. c \in Controller /\ c.history = controller.history
    BY <1>1, <2>2, SyncType
  <2> HIDE DEF c
  <2>4. Note(c, round, cost, "planned").history
          = Append(controller.history, Entry(round, cost, "planned"))
    BY <2>3 DEF Note, Controller
  <2>5. QED
    BY <1>10, <2>1, <2>4 DEF c
<1>11. CASE LogApplied \/ LogSpent \/ LogRejected \/ Ask \/ Answer \/ LogAnswer \/ ProviderFails
            \/ CloseRound \/ ControlFails \/ DecideNothing \/ LogReserved \/ LogScheduled \/ LogFails
            \/ NothingToRelease \/ ReleaseRaises \/ RecordFailure \/ Finish \/ UNCHANGED vars
  <2>1. controller' = controller
    BY <1>11 DEF LogApplied, LogSpent, LogRejected, Ask, Answer, LogAnswer, ProviderFails,
       CloseRound, ControlFails, DecideNothing, LogReserved, LogScheduled, LogFails,
       NothingToRelease, ReleaseRaises, RecordFailure, Finish, vars
  <2>2. QED
    BY <1>11, <2>1 DEF NotesNothing
<1>12. QED
  BY <1>2, <1>3, <1>4, <1>5, <1>6, <1>7, <1>8, <1>9, <1>10, <1>11 DEF Next

\* The plans a step leaves with their ends, and the ends of those it settles.
LEMMA PlansEndStep ==
  ASSUME SafeInv, SafeInv', EndInv, [Next]_vars
  PROVE  PlansEnd'
<1>1. PlansEnd /\ FreshInv
  BY DEF EndInv
<1>2. CASE NotesNothing /\ controller'.history = controller.history /\ ~LogCooldown
  <2>1. pending' = pending /\ (at' \in AppliedSteps => at \in AppliedSteps)
    BY <1>2 DEF NotesNothing, StartRound, LogApplied, LogSpent, RejectPlan, LogRejected, Ask,
       Answer, LogAnswer, ProviderFails, CloseRound, DecideNothing, NextRound, LogScheduled,
       LogReserved, ControlFails, LogFails, NothingToRelease, ReleasePending, ReleaseRaises,
       RecordFailure, Finish, vars, AppliedSteps, Handling
  <2>2. ASSUME NEW p \in pending, p.cost > 0, budget'.reserved = p.cost \/ at' \in SettlingSteps
        PROVE  budget.reserved = p.cost \/ at \in SettlingSteps
    <3>1. p.cost \in Nat /\ pending = {p} /\ budget.reserved \in {0, p.cost}
      BY PendingType
    <3>2. CASE RejectPlan \/ ReleasePending
      <4>1. p.cost <= budget.reserved
        BY <3>1, <3>2 DEF RejectPlan, ReleasePending
      <4>2. QED
        BY <2>2, <3>1, <4>1
    <3>3. CASE ~RejectPlan /\ ~ReleasePending
      <4>1. /\ budget' = budget
            /\ at' \in SettlingSteps => at \in SettlingSteps
        BY <1>2, <3>3 DEF NotesNothing, StartRound, LogApplied, LogSpent, LogRejected, Ask,
           Answer, LogAnswer, ProviderFails, CloseRound, DecideNothing, NextRound, LogScheduled,
           LogReserved, ControlFails, LogFails, NothingToRelease, ReleaseRaises,
           RecordFailure, Finish, vars, SettlingSteps, Handling
      <4>2. QED
        BY <2>2, <4>1
    <3>4. QED
      BY <3>2, <3>3
  <2>3. QED
    BY <1>1, <1>2, <2>1, <2>2, QuietEnds
<1>3. CASE LogCooldown /\ controller'.history = controller.history
  <2>1. at \in AppliedSteps /\ pending' = {}
    BY <1>3 DEF LogCooldown, AppliedSteps
  <2>2. ASSUME NEW i \in PlannedIn(controller.history) PROVE Ended(controller.history, i)
    <3>1. CASE \E p \in pending : controller.history[i].plan = p.id
      BY <1>1, <2>1, <3>1 DEF PlansEnd, OpenPlan
    <3>2. CASE \A p \in pending : controller.history[i].plan # p.id
      BY <1>1, <3>2 DEF PlansEnd, ClosedPlans
    <3>3. QED
      BY <3>1, <3>2
  <2>3. QED
    BY <1>3, <2>1, <2>2 DEF PlansEnd, ClosedPlans
<1>4. ASSUME ApplyPlan, NEW p \in pending, p.cost <= budget.reserved,
             controller'.history = Append(controller.history, Entry(p.id, p.cost, "applied"))
      PROVE  PlansEnd'
  <2>1. at' = "log_applied" /\ pending' = pending
    BY <1>4 DEF ApplyPlan
  <2>2. budget'.reserved = 0
    BY <2>1 DEF SafeInv, PlaceInv
  <2>3. QED
    BY <1>1, <1>4, <2>1, <2>2, AppliedEnds
<1>5. ASSUME LogReleased \/ LogCancelled, NEW p \in pending,
             NEW status \in {"rejected", "cancelled"},
             controller'.history = Append(controller.history, Entry(p.id, p.cost, status))
      PROVE  PlansEnd'
  <2>1. at \in SettlingSteps /\ pending' = {}
    BY <1>5 DEF LogReleased, LogCancelled, SettlingSteps
  <2>2. QED
    BY <1>1, <1>5, <2>1, SettledEnds
<1>6. ASSUME CancelAtEnd \/ DiscardPlan, NEW cost \in Costs, NEW status \in {"rejected", "cancelled"},
             controller'.history = Append(controller.history, Entry(round, cost, status))
      PROVE  PlansEnd'
  <2>1. at = "control" /\ pending' = pending /\ at' \in {"finish", "round"}
    BY <1>6 DEF CancelAtEnd, DiscardPlan, NextRound
  <2>2. /\ at \in BeforeDecision /\ pending = {} /\ at' \notin AppliedSteps
        /\ status \in {"planned", "rejected", "cancelled"}
        /\ pending' = IF status = "planned" THEN {[id |-> round, cost |-> cost]} ELSE {}
    BY <2>1 DEF BeforeDecision, AppliedSteps, SafeInv, PlaceInv
  <2>3. QED
    BY <1>1, <1>6, <2>2, NewPlanEnds
<1>7. ASSUME SchedulePlan, NEW cost \in Costs, pending' = {[id |-> round, cost |-> cost]},
             controller'.history = Append(controller.history, Entry(round, cost, "planned"))
      PROVE  PlansEnd'
  <2>1. at = "control" /\ at' = "log_scheduled"
    BY <1>7 DEF SchedulePlan
  <2>2. /\ at \in BeforeDecision /\ pending = {} /\ at' \notin AppliedSteps
        /\ "planned" \in {"planned", "rejected", "cancelled"}
        /\ pending' = IF "planned" = "planned" THEN {[id |-> round, cost |-> cost]} ELSE {}
    BY <1>7, <2>1 DEF BeforeDecision, AppliedSteps, SafeInv, PlaceInv
  <2>3. QED
    BY <1>1, <1>7, <2>2, NewPlanEnds
<1>8. QED
  BY <1>2, <1>3, <1>4, <1>5, <1>6, <1>7, HistoryMoves

\* Until it decides, the controller has made no plan in the current round.
LEMMA FreshStep ==
  ASSUME SafeInv, HistoryInv, FreshInv, [Next]_vars
  PROVE  FreshInv'
<1> SUFFICES ASSUME at' \in BeforeDecision, NEW j \in DOMAIN controller'.history
             PROVE  controller'.history[j].plan < round'
  BY DEF FreshInv
<1> DEFINE h == controller.history
<1>1. h \in Seq(Outcome) /\ round \in Nat /\ MaxRounds \in Nat
  BY DEF SafeInv, TypeOK, Controller, Rounds
<1>2. CASE at \in BeforeDecision /\ round' = round /\ controller'.history = h
  BY <1>2 DEF FreshInv
<1>3. CASE at \in BeforeDecision /\ round' = round
           /\ \E p \in pending, status \in {"applied", "rejected"} :
                controller'.history = Append(h, Entry(p.id, p.cost, status))
  <2>1. PICK p \in pending, status \in {"applied", "rejected"} :
          controller'.history = Append(h, Entry(p.id, p.cost, status))
    BY <1>3
  <2>2. p.id < round
    <3>1. PICK k \in DOMAIN h : h[k].plan = p.id
      BY DEF HistoryInv
    <3>2. QED
      BY <1>3, <3>1 DEF FreshInv
  <2>3. /\ DOMAIN Append(h, Entry(p.id, p.cost, status)) = 1..Len(h) + 1
        /\ DOMAIN h = 1..Len(h)
        /\ \A k \in 1..Len(h) : Append(h, Entry(p.id, p.cost, status))[k] = h[k]
        /\ Append(h, Entry(p.id, p.cost, status))[Len(h) + 1] = Entry(p.id, p.cost, status)
    BY <1>1
  <2>4. CASE j = Len(h) + 1
    BY <1>3, <2>1, <2>2, <2>3, <2>4 DEF Entry
  <2>5. CASE j # Len(h) + 1
    <3>1. j \in DOMAIN h
      BY <1>1, <2>1, <2>3, <2>5
    <3>2. QED
      BY <1>3, <2>1, <2>3, <3>1 DEF FreshInv
  <2>6. QED
    BY <2>4, <2>5
<1>4. CASE round' = round + 1 /\ controller'.history = h
  <2>1. h[j] \in Outcome
    BY <1>1, <1>4, ElementOfSeq
  <2>2. h[j].plan <= round /\ h[j].plan \in Int
    BY <1>4, <2>1 DEF HistoryInv, Outcome, Rounds
  <2>3. QED
    BY <1>1, <1>4, <2>2
<1>5. CASE DiscardPlan
  <2>1. PICK cost \in Costs : controller' = Note(controller, round, cost, "rejected")
    BY <1>5 DEF DiscardPlan
  <2>2. controller'.history = Append(h, Entry(round, cost, "rejected"))
    BY <2>1 DEF SafeInv, TypeOK, Note, Controller
  <2>3. round' = round + 1
    BY <1>5 DEF DiscardPlan, NextRound
  <2>4. /\ DOMAIN Append(h, Entry(round, cost, "rejected")) = 1..Len(h) + 1
        /\ DOMAIN h = 1..Len(h)
        /\ \A k \in 1..Len(h) : Append(h, Entry(round, cost, "rejected"))[k] = h[k]
        /\ Append(h, Entry(round, cost, "rejected"))[Len(h) + 1] = Entry(round, cost, "rejected")
    BY <1>1
  <2>5. CASE j = Len(h) + 1
    BY <1>1, <2>2, <2>3, <2>4, <2>5 DEF Entry
  <2>6. CASE j # Len(h) + 1
    <3>1. j \in DOMAIN h
      BY <1>1, <2>2, <2>4, <2>6
    <3>2. h[j] \in Outcome
      BY <1>1, <3>1, ElementOfSeq
    <3>3. h[j].plan <= round /\ h[j].plan \in Int
      BY <3>1, <3>2 DEF HistoryInv, Outcome, Rounds
    <3>4. QED
      BY <1>1, <2>2, <2>3, <2>4, <3>1, <3>3
  <2>7. QED
    BY <2>5, <2>6
<1>6. ASSUME NotesNothing, controller'.history = h
      PROVE  \/ at \in BeforeDecision /\ round' = round
             \/ round' = round + 1
  BY <1>6 DEF NotesNothing, StartRound, LogApplied, LogSpent, LogCooldown, RejectPlan, LogRejected,
     Ask, Answer, LogAnswer, ProviderFails, CloseRound, DecideNothing, NextRound, LogScheduled,
     LogReserved, ControlFails, LogFails, NothingToRelease, ReleasePending, ReleaseRaises,
     RecordFailure, Finish, vars, BeforeDecision, AppliedSteps, Handling
<1>7. ApplyPlan \/ LogReleased => at \in BeforeDecision /\ round' = round
  BY DEF ApplyPlan, LogReleased, BeforeDecision
<1>8. ~LogCancelled /\ ~CancelAtEnd /\ ~SchedulePlan
  BY DEF LogCancelled, CancelAtEnd, SchedulePlan, BeforeDecision, AppliedSteps
<1>9. QED
  BY <1>2, <1>3, <1>4, <1>5, <1>6, <1>7, <1>8, HistoryMoves

\* What a step leaves scheduled and pending, and when it records the run.
LEMMA SettledStep ==
  ASSUME SafeInv, SettledInv, [Next]_vars
  PROVE  SettledInv'
<1>1. TypeOK /\ controller \in Controller /\ round \in Rounds
  BY DEF SafeInv, TypeOK
<1> DEFINE Clear == {"asking", "asked", "answering", "closing", "control", "finish", "done"}
<1>2. at' \in Clear => controller'.scheduled = {}
  <2>1. CASE StartRound
    BY <1>1, <2>1 DEF StartRound, Sync, Controller, TypeOK
  <2>2. CASE LogCooldown
    BY <1>1, <2>2 DEF LogCooldown, Controller
  <2>3. CASE LogReleased
    BY <1>1, <2>3 DEF LogReleased, Note, Controller
  <2>4. CASE CancelAtEnd
    BY <1>1, <2>4 DEF CancelAtEnd, Note, Controller, SettledInv
  <2>5. CASE DiscardPlan
    BY <1>1, <2>5 DEF DiscardPlan, NextRound
  <2>6. CASE ~StartRound /\ ~LogCooldown /\ ~LogReleased /\ ~CancelAtEnd /\ ~DiscardPlan
    BY <2>6 DEF Next, vars, ApplyPlan, LogApplied, LogSpent, RejectPlan, LogRejected, Ask, Answer,
       LogAnswer, ProviderFails, CloseRound, DecideNothing, NextRound, SchedulePlan, LogScheduled,
       LogReserved, ControlFails, LogFails, NothingToRelease, ReleasePending, ReleaseRaises,
       LogCancelled, RecordFailure, Finish, SettledInv, SafeInv, PlaceInv
  <2>7. QED
    BY <2>1, <2>2, <2>3, <2>4, <2>5, <2>6
<1>3. /\ at' \in {"log_failed", "done"} => pending' = {}
      /\ record' # "none" => pending' = {} /\ at' \in {"done", "raised"}
      /\ record' = "completed" => at' = "done"
  BY DEF Next, vars, StartRound, ApplyPlan, LogApplied, LogSpent, LogCooldown, RejectPlan,
     LogRejected, LogReleased, Ask, Answer, LogAnswer, ProviderFails, CloseRound, DecideNothing,
     NextRound, CancelAtEnd, DiscardPlan, SchedulePlan, LogScheduled, LogReserved, ControlFails,
     LogFails, NothingToRelease, ReleasePending, ReleaseRaises, LogCancelled, RecordFailure, Finish,
     SettledInv, SafeInv, PlaceInv, Writing, Handling
<1>4. QED
  BY <1>2, <1>3 DEF SettledInv

\* A run that is recorded, as completed or as failed, has brought every plan to
\* one end, with nothing pending or reserved; a plan that costs nothing has at
\* least one.
THEOREM EveryPlanAlwaysEnds == Spec => []EveryPlanEnds
<1>1. Init => EndInv
  <2>1. SUFFICES ASSUME Init PROVE EndInv
    OBVIOUS
  <2>2. DOMAIN controller.history = {}
    BY <2>1 DEF Init
  <2>3. PlansEnd /\ FreshInv
    BY <2>1, <2>2 DEF Init, PlansEnd, ClosedPlans, PlannedIn, FreshInv
  <2>4. SettledInv
    BY <2>1 DEF Init, SettledInv
  <2>5. QED
    BY <2>3, <2>4 DEF EndInv
<1>2. ControlInv /\ EndInv /\ [Next]_vars => EndInv'
  <2>1. SUFFICES ASSUME ControlInv, EndInv, [Next]_vars PROVE EndInv'
    OBVIOUS
  <2>2. SafeInv /\ HistoryInv
    BY <2>1 DEF ControlInv, SafeInv
  <2>3. SafeInv'
    BY <2>1, <2>2, SafeStep
  <2>4. QED
    BY <2>1, <2>2, <2>3, PlansEndStep, FreshStep, SettledStep DEF EndInv
<1>3. ControlInv /\ EndInv => EveryPlanEnds
  BY EndsMean DEF ControlInv, SafeInv
<1>4. QED
  BY <1>1, <1>2, <1>3, ControlAlways, PTL DEF Spec
-----------------------------------------------------------------------------
(***************************************************************************)
(* A log that grows by an event that fits stays in order.                  *)
(***************************************************************************)

\* The rounds and agents, and the plans, that the events of a type name.
PairsOf(events, type) == {<<events[i].round, events[i].who>> : i \in Of(events, {type})}

PlansOf(events, type) == {events[i].who : i \in Of(events, {type})}

\* The types that end a run, and those that come once for a round and an agent.
Terminal == {"run_completed", "run_failed"}
Single == {"round_started", "round_completed", "llm_request", "llm_response"}

Numbered(events) == \A i \in DOMAIN events : events[i].sequence = i

RulesKept(events) == \A i \in DOMAIN events : EventInOrder(events, i)

Begun(events) == events # <<>> /\ events[1].type = "run_started"

OrderedLog(events) ==
  /\ Begun(events) /\ Numbered(events) /\ Of(events, Terminal) = {}
  /\ NoDuplicates(events) /\ RulesKept(events)

\* What replay asks of an event as it is written.
FitsNext(events, e) ==
  LET after(type) == e.who \in PlansOf(events, type)
      settled == after("plan_applied") \/ after("plan_rejected")
      decided == e.round \in RoundsOf(events, "policy_decided")
  IN  /\ e.type = "plan_created" => decided /\ ~after("plan_created")
      /\ e.type = "plan_scheduled" =>
           decided /\ after("plan_created") /\ e.who + 1 > e.round
      /\ e.type = "budget_reserved" => after("plan_scheduled")
      /\ e.type = "plan_applied" =>
           after("plan_scheduled") /\ ~settled /\ e.round = e.who + 1
      /\ e.type = "plan_rejected" => after("plan_scheduled") /\ ~settled
      /\ e.type = "budget_spent" => after("plan_applied") /\ ~after("budget_spent")
      /\ e.type = "budget_released" => after("plan_scheduled") /\ ~after("budget_released")
      /\ e.type = "cooldown_updated" => after("plan_applied") /\ ~after("cooldown_updated")

\* Where an event is after another one was written.
LEMMA Appended ==
  ASSUME NEW S, NEW events \in Seq(S), NEW e \in S
  PROVE  /\ Append(events, e) \in Seq(S)
         /\ Len(Append(events, e)) = Len(events) + 1
         /\ DOMAIN Append(events, e) = DOMAIN events \cup {Len(events) + 1}
         /\ DOMAIN events = 1..Len(events) /\ Len(events) \in Nat
         /\ \A i \in DOMAIN events : Append(events, e)[i] = events[i]
         /\ Append(events, e)[Len(events) + 1] = e
BY AppendProperties

\* The events of some types, after another event was written.
LEMMA OfAppended ==
  ASSUME NEW S, NEW events \in Seq(S), NEW e \in S, NEW types
  PROVE  Of(Append(events, e), types) =
           Of(events, types) \cup (IF e.type \in types THEN {Len(events) + 1} ELSE {})
BY Appended DEF Of

\* What the events of a type name, after another event was written.
LEMMA NamesAppended ==
  ASSUME NEW S, NEW events \in Seq(S), NEW e \in S, NEW type
  PROVE  /\ PlansOf(Append(events, e), type) =
              PlansOf(events, type) \cup (IF e.type = type THEN {e.who} ELSE {})
         /\ PairsOf(Append(events, e), type) =
              PairsOf(events, type) \cup (IF e.type = type THEN {<<e.round, e.who>>} ELSE {})
         /\ RoundsOf(Append(events, e), type) =
              RoundsOf(events, type) \cup (IF e.type = type THEN {e.round} ELSE {})
<1> DEFINE longer == Append(events, e)
           last == Len(events) + 1
<1>1. /\ \A i \in Of(events, {type}) : longer[i] = events[i]
      /\ longer[last] = e
  BY Appended DEF Of
<1>2. Of(longer, {type}) = Of(events, {type}) \cup (IF e.type = type THEN {last} ELSE {})
  BY OfAppended
<1> HIDE DEF longer, last
<1>3. PlansOf(longer, type) = PlansOf(events, type) \cup (IF e.type = type THEN {e.who} ELSE {})
  BY <1>1, <1>2 DEF PlansOf
<1>4. PairsOf(longer, type) =
        PairsOf(events, type) \cup (IF e.type = type THEN {<<e.round, e.who>>} ELSE {})
  BY <1>1, <1>2 DEF PairsOf
<1>5. RoundsOf(longer, type) = RoundsOf(events, type) \cup (IF e.type = type THEN {e.round} ELSE {})
  BY <1>1, <1>2 DEF RoundsOf
<1>6. QED
  BY <1>3, <1>4, <1>5 DEF longer

\* Replay asks of each type of event what it says for that type.
RuleAt(events, i) ==
  LET e == events[i]
      after(types) == e.who \in PlansBefore(events, i, types)
      settled == after({"plan_applied", "plan_rejected"})
      decided == \E j \in Of(events, {"policy_decided"}) : j < i /\ events[j].round = e.round
  IN  /\ e.type = "plan_created" => decided /\ ~after({"plan_created"})
      /\ e.type = "plan_scheduled" =>
           decided /\ after({"plan_created"}) /\ e.who + 1 > e.round
      /\ e.type = "budget_reserved" => after({"plan_scheduled"})
      /\ e.type = "plan_applied" =>
           after({"plan_scheduled"}) /\ ~settled /\ e.round = e.who + 1
      /\ e.type = "plan_rejected" => after({"plan_scheduled"}) /\ ~settled
      /\ e.type = "budget_spent" => after({"plan_applied"}) /\ ~after({"budget_spent"})
      /\ e.type = "budget_released" => after({"plan_scheduled"}) /\ ~after({"budget_released"})
      /\ e.type = "cooldown_updated" => after({"plan_applied"}) /\ ~after({"cooldown_updated"})

\* It is what the validator says, by cases on the type.
LEMMA RuleByType ==
  ASSUME NEW events, NEW i
  PROVE  EventInOrder(events, i) <=> RuleAt(events, i)
<1>1. CASE events[i].type = "plan_created"
  BY <1>1 DEF EventInOrder, RuleAt
<1>2. CASE events[i].type = "plan_scheduled"
  BY <1>2 DEF EventInOrder, RuleAt
<1>3. CASE events[i].type = "budget_reserved"
  BY <1>3 DEF EventInOrder, RuleAt
<1>4. CASE events[i].type = "plan_applied"
  BY <1>4 DEF EventInOrder, RuleAt
<1>5. CASE events[i].type = "plan_rejected"
  BY <1>5 DEF EventInOrder, RuleAt
<1>6. CASE events[i].type = "budget_spent"
  BY <1>6 DEF EventInOrder, RuleAt
<1>7. CASE events[i].type = "budget_released"
  BY <1>7 DEF EventInOrder, RuleAt
<1>8. CASE events[i].type = "cooldown_updated"
  BY <1>8 DEF EventInOrder, RuleAt
<1>9. CASE events[i].type \notin {"plan_created", "plan_scheduled", "budget_reserved", "plan_applied",
             "plan_rejected", "budget_spent", "budget_released", "cooldown_updated"}
  BY <1>9 DEF EventInOrder, RuleAt
<1>10. QED
  BY <1>1, <1>2, <1>3, <1>4, <1>5, <1>6, <1>7, <1>8, <1>9

\* An event looks at the ones before it alone.
LEMMA EarlierStays ==
  ASSUME NEW S, NEW events \in Seq(S), NEW e \in S, NEW i \in DOMAIN events
  PROVE  EventInOrder(Append(events, e), i) <=> EventInOrder(events, i)
<1> DEFINE longer == Append(events, e)
<1>1. \A types : {k \in Of(longer, types) : k < i} = {k \in Of(events, types) : k < i}
  BY Appended DEF Of
<1>2. longer[i] = events[i] /\ \A k \in DOMAIN events : longer[k] = events[k]
  BY Appended
<1>3. \A types : \A k \in Of(events, types) : longer[k] = events[k]
  BY <1>2 DEF Of
<1> HIDE DEF longer
<1>4. \A types : PlansBefore(longer, i, types) = PlansBefore(events, i, types)
  BY <1>1, <1>3 DEF PlansBefore
<1>5. (\E j \in Of(longer, {"policy_decided"}) : j < i /\ longer[j].round = events[i].round)
        <=> (\E j \in Of(events, {"policy_decided"}) : j < i /\ events[j].round = events[i].round)
  BY <1>1, <1>3
<1>6. QED
  BY <1>2, <1>4, <1>5, RuleByType DEF RuleAt, longer

\* An event that fits is in order at the end of the log.
LEMMA LastInOrder ==
  ASSUME NEW S, NEW events \in Seq(S), NEW e \in S, FitsNext(events, e)
  PROVE  EventInOrder(Append(events, e), Len(events) + 1)
<1> DEFINE longer == Append(events, e)
           last == Len(events) + 1
<1>1. \A types : {k \in Of(longer, types) : k < last} = Of(events, types)
  BY Appended DEF Of
<1>2. longer[last] = e /\ \A types : \A k \in Of(events, types) : longer[k] = events[k]
  BY Appended DEF Of
<1> HIDE DEF longer, last
<1>3. \A type : PlansBefore(longer, last, {type}) = PlansOf(events, type)
  BY <1>1, <1>2 DEF PlansBefore, PlansOf
<1>4. PlansBefore(longer, last, {"plan_applied", "plan_rejected"})
        = PlansOf(events, "plan_applied") \cup PlansOf(events, "plan_rejected")
  <2>1. Of(events, {"plan_applied", "plan_rejected"})
          = Of(events, {"plan_applied"}) \cup Of(events, {"plan_rejected"})
    BY DEF Of
  <2>2. QED
    BY <1>1, <1>2, <2>1 DEF PlansBefore, PlansOf
<1>5. e.round \in RoundsOf(events, "policy_decided") =>
        \E j \in Of(longer, {"policy_decided"}) : j < last /\ longer[j].round = longer[last].round
  BY <1>1, <1>2 DEF RoundsOf
<1>6. RuleAt(longer, last)
  BY <1>2, <1>3, <1>4, <1>5 DEF RuleAt, FitsNext
<1>7. QED
  BY <1>6, RuleByType DEF longer, last

\* What is there once for a round and an agent is not written a second time.
LEMMA StaysSingle ==
  ASSUME NEW S, NEW events \in Seq(S), NEW e \in S, NoDuplicates(events),
         e.type \in Single => <<e.round, e.who>> \notin PairsOf(events, e.type)
  PROVE  NoDuplicates(Append(events, e))
<1> DEFINE longer == Append(events, e)
           last == Len(events) + 1
<1>1. Of(longer, Single) = Of(events, Single) \cup (IF e.type \in Single THEN {last} ELSE {})
  BY OfAppended
<1>2. longer[last] = e /\ \A k \in Of(events, Single) : longer[k] = events[k] /\ k # last
  BY Appended DEF Of
<1>3. \A k \in Of(events, Single) : k \in Of(events, {events[k].type})
  BY DEF Of
<1> HIDE DEF longer, last
<1>4. ASSUME NEW i \in Of(longer, Single), NEW j \in Of(longer, Single),
             longer[i].type = longer[j].type, longer[i].round = longer[j].round,
             longer[i].who = longer[j].who
      PROVE  i = j
  <2>1. CASE i # last /\ j # last
    <3>1. i \in Of(events, Single) /\ j \in Of(events, Single)
      BY <1>1, <2>1
    <3>2. QED
      BY <1>2, <1>4, <3>1 DEF NoDuplicates, Single
  <2>2. ASSUME NEW k \in Of(events, Single), e.type \in Single, events[k].type = e.type,
               events[k].round = e.round, events[k].who = e.who
        PROVE  FALSE
    BY <1>3, <2>2 DEF PairsOf
  <2>3. CASE i = last \/ j = last
    BY <1>1, <1>2, <1>4, <2>2, <2>3
  <2>4. QED
    BY <2>1, <2>3
<1>5. QED
  BY <1>4 DEF NoDuplicates, Single, longer

\* An ordered log that an event is written to, unless it ends the run.
LEMMA StaysOrdered ==
  ASSUME NEW S, NEW events \in Seq(S), OrderedLog(events), NEW e \in S,
         e.sequence = Len(events) + 1, FitsNext(events, e),
         e.type \in Single => <<e.round, e.who>> \notin PairsOf(events, e.type)
  PROVE  /\ Begun(Append(events, e)) /\ Numbered(Append(events, e))
         /\ NoDuplicates(Append(events, e)) /\ RulesKept(Append(events, e))
         /\ Of(Append(events, e), Terminal) =
              IF e.type \in Terminal THEN {Len(Append(events, e))} ELSE {}
<1>1. Begun(Append(events, e)) /\ Numbered(Append(events, e))
  <2>1. 1 \in DOMAIN events
    BY EmptySeq DEF OrderedLog, Begun
  <2>2. QED
    BY <2>1, Appended DEF OrderedLog, Begun, Numbered
<1>2. NoDuplicates(Append(events, e))
  BY StaysSingle DEF OrderedLog
<1>3. RulesKept(Append(events, e))
  BY EarlierStays, LastInOrder, Appended DEF OrderedLog, RulesKept
<1>4. QED
  BY <1>1, <1>2, <1>3, OfAppended, Appended DEF OrderedLog

\* What replay needs to know of a run that was not disturbed in writing: the
\* rounds that were started and completed,
RoundLog ==
  LET started == RoundsOf(log, "round_started")
      completed == RoundsOf(log, "round_completed")
  IN  /\ 0..round - 1 \subseteq completed /\ completed \subseteq started
      /\ started \subseteq 0..round
      /\ at = "round" => round \notin started
      /\ at \in {"control", "log_scheduled", "log_reserved", "finish"} => round \in completed
      /\ at \notin {"round", "control", "log_scheduled", "log_reserved", "finish"} \cup Handling
           => round \in started /\ round \notin completed
      /\ at = "finish" => LastRound

\* the agents that were asked and that answered,
TurnLog ==
  /\ \A pair \in PairsOf(log, "llm_request") :
       /\ pair[1] <= round
       /\ pair[1] = round /\ at \notin Handling
            => pair[2] <= IF at \in {"asked", "answering"} THEN turn + 1 ELSE turn
  /\ \A pair \in PairsOf(log, "llm_response") :
       /\ pair[1] <= round
       /\ pair[1] = round /\ at \notin Handling => pair[2] <= turn

\* and how far each plan has come: only the pending one may be unsettled.
PlanLog ==
  LET created == PlansOf(log, "plan_created")
      scheduled == PlansOf(log, "plan_scheduled")
      applied == PlansOf(log, "plan_applied")
      spent == PlansOf(log, "budget_spent")
      cooled == PlansOf(log, "cooldown_updated")
      rejected == PlansOf(log, "plan_rejected")
      released == PlansOf(log, "budget_released")
      open == {p.id : p \in pending}
  IN  /\ created \subseteq 0..round /\ scheduled \subseteq created
      /\ applied \subseteq scheduled /\ rejected \subseteq scheduled
      /\ spent \subseteq applied /\ cooled \subseteq applied /\ released \subseteq rejected
      /\ scheduled \ (applied \cup rejected) \subseteq open
      /\ applied \ spent \subseteq open /\ rejected \ released \subseteq open
      /\ at \notin {"log_scheduled", "log_reserved", "finish"} \cup Handling => round \notin created
      /\ at \in {"log_scheduled", "log_reserved"} =>
           /\ round \in created /\ open \subseteq {round}
           /\ round \in RoundsOf(log, "policy_decided")
      /\ at \notin {"log_scheduled", "log_reserved"} => \A x \in open : x + 1 = round
      /\ at = "log_scheduled" => round \notin scheduled
      /\ at \in {"log_reserved", "round", "boundary", "log_applied", "log_rejected"} =>
           open \subseteq scheduled \ (applied \cup rejected)
      /\ at = "log_spent" => open \subseteq applied \ (spent \cup cooled \cup rejected)
      /\ at = "log_cooldown" => open \subseteq spent \ (cooled \cup rejected)
      /\ at = "log_released" => open \subseteq rejected \ (released \cup applied)

\* Nothing of it fails with a plan pending.
NoneLost == at \in Handling => at # "log_cancelled" /\ pending = {}

TidyLog == OrderedLog(log) /\ RoundLog /\ TurnLog /\ PlanLog /\ NoneLost

Over == {"done", "raised"}

\* A number that was used up for an event that is not there shows in the last
\* event of the record.
LogInv ==
  /\ log # <<>> /\ sequence >= Len(log)
  /\ record # "none" => at \in Over
  /\ sequence > Len(log) =>
       /\ at \in Handling \cup {"raised"}
       /\ record # "none" => log[Len(log)].sequence > Len(log)
  /\ sequence = Len(log) /\ at \notin Over => TidyLog
  /\ FinishedRunReplays

-----------------------------------------------------------------------------
(* What the steps of a run write. *)

NextEvent(type, who) ==
  [type |-> type, round |-> round, who |-> who, sequence |-> sequence + 1]

\* The next event of a run is an event.
LEMMA NextIsEvent ==
  ASSUME TypeOK, NEW type \in EventTypes, NEW who \in Nat
  PROVE  /\ NextEvent(type, who) \in Event /\ log \in Seq(Event)
         /\ NextEvent(type, who).type = type /\ NextEvent(type, who).round = round
         /\ NextEvent(type, who).who = who /\ NextEvent(type, who).sequence = sequence + 1
BY DEF NextEvent, Event, TypeOK

\* An event adds what it names to what those of its type name.
LEMMA Names ==
  ASSUME TypeOK, NEW type \in EventTypes, NEW who \in Nat, Write(type, who), NEW other
  PROVE  /\ PlansOf(log', other) = PlansOf(log, other) \cup (IF other = type THEN {who} ELSE {})
         /\ PairsOf(log', other) =
              PairsOf(log, other) \cup (IF other = type THEN {<<round, who>>} ELSE {})
         /\ RoundsOf(log', other) = RoundsOf(log, other) \cup (IF other = type THEN {round} ELSE {})
<1>1. log' = Append(log, NextEvent(type, who))
  BY DEF Write, NextEvent
<1> DEFINE e == NextEvent(type, who)
<1>2. /\ e \in Event /\ log \in Seq(Event) /\ e.type = type /\ e.round = round /\ e.who = who
  BY NextIsEvent
<1> HIDE DEF e
<1>3. QED
  BY <1>1, <1>2, NamesAppended DEF e

\* It leaves what the other types name,
LEMMA NamesStay ==
  ASSUME TypeOK, NEW type \in EventTypes, NEW who \in Nat, Write(type, who), NEW other, other # type
  PROVE  /\ PlansOf(log', other) = PlansOf(log, other)
         /\ PairsOf(log', other) = PairsOf(log, other)
         /\ RoundsOf(log', other) = RoundsOf(log, other)
<1>1. /\ PlansOf(log', other) = PlansOf(log, other) \cup (IF other = type THEN {who} ELSE {})
      /\ PairsOf(log', other) =
           PairsOf(log, other) \cup (IF other = type THEN {<<round, who>>} ELSE {})
      /\ RoundsOf(log', other) = RoundsOf(log, other) \cup (IF other = type THEN {round} ELSE {})
  BY Names
<1>2. QED
  BY <1>1

\* and adds to its own.
LEMMA NamesAdd ==
  ASSUME TypeOK, NEW type \in EventTypes, NEW who \in Nat, Write(type, who)
  PROVE  /\ PlansOf(log', type) = PlansOf(log, type) \cup {who}
         /\ PairsOf(log', type) = PairsOf(log, type) \cup {<<round, who>>}
         /\ RoundsOf(log', type) = RoundsOf(log, type) \cup {round}
<1>1. /\ PlansOf(log', type) = PlansOf(log, type) \cup (IF type = type THEN {who} ELSE {})
      /\ PairsOf(log', type) =
           PairsOf(log, type) \cup (IF type = type THEN {<<round, who>>} ELSE {})
      /\ RoundsOf(log', type) = RoundsOf(log, type) \cup (IF type = type THEN {round} ELSE {})
  BY Names
<1>2. QED
  BY <1>1

\* The two events of a plan, as two that follow each other.
LEMMA CreatedNames ==
  ASSUME TypeOK, WriteCreated
  PROVE  /\ \E decided, created \in Event :
              /\ log' = Append(Append(log, decided), created)
              /\ decided = NextEvent("policy_decided", 0)
              /\ created = [type |-> "plan_created", round |-> round, who |-> round,
                           sequence |-> sequence + 2]
              /\ sequence' = sequence + 2
         /\ \A other :
              /\ PlansOf(log', other) = PlansOf(log, other)
                   \cup (IF other = "policy_decided" THEN {0} ELSE {})
                   \cup (IF other = "plan_created" THEN {round} ELSE {})
              /\ PairsOf(log', other) = PairsOf(log, other)
                   \cup (IF other = "policy_decided" THEN {<<round, 0>>} ELSE {})
                   \cup (IF other = "plan_created" THEN {<<round, round>>} ELSE {})
              /\ RoundsOf(log', other) = RoundsOf(log, other)
                   \cup (IF other \in {"policy_decided", "plan_created"} THEN {round} ELSE {})
<1>1. round \in Rounds /\ round \in Nat /\ sequence \in Nat /\ log \in Seq(Event)
  BY DEF TypeOK, Rounds
<1> DEFINE decided == NextEvent("policy_decided", 0)
           created == [type |-> "plan_created", round |-> round, who |-> round,
                           sequence |-> sequence + 2]
<1>2. decided \in Event /\ created \in Event
  <2>1. sequence + 1 \in Nat /\ sequence + 2 \in Nat /\ 0 \in Nat
    BY <1>1
  <2>2. QED
    BY <1>1, <2>1 DEF Event, EventTypes, NextEvent
<1>3. /\ decided.type = "policy_decided" /\ decided.round = round /\ decided.who = 0
      /\ created.type = "plan_created" /\ created.round = round /\ created.who = round
  BY DEF NextEvent
<1>4. log' = log \o <<decided, created>> /\ sequence' = sequence + 2
  BY DEF WriteCreated, NextEvent
<1> HIDE DEF decided, created
<1>5. log \o <<decided, created>> = Append(Append(log, decided), created)
  BY <1>1, <1>2
<1>6. Append(log, decided) \in Seq(Event)
  BY <1>1, <1>2, Appended
<1>7. ASSUME NEW other
      PROVE  /\ PlansOf(log', other) = PlansOf(log, other)
                  \cup (IF other = "policy_decided" THEN {0} ELSE {})
                  \cup (IF other = "plan_created" THEN {round} ELSE {})
             /\ PairsOf(log', other) = PairsOf(log, other)
                  \cup (IF other = "policy_decided" THEN {<<round, 0>>} ELSE {})
                  \cup (IF other = "plan_created" THEN {<<round, round>>} ELSE {})
             /\ RoundsOf(log', other) = RoundsOf(log, other)
                  \cup (IF other \in {"policy_decided", "plan_created"} THEN {round} ELSE {})
  <2>1. /\ PlansOf(Append(log, decided), other) =
             PlansOf(log, other) \cup (IF other = "policy_decided" THEN {0} ELSE {})
        /\ PairsOf(Append(log, decided), other) =
             PairsOf(log, other) \cup (IF other = "policy_decided" THEN {<<round, 0>>} ELSE {})
        /\ RoundsOf(Append(log, decided), other) =
             RoundsOf(log, other) \cup (IF other = "policy_decided" THEN {round} ELSE {})
    BY <1>1, <1>2, <1>3, NamesAppended
  <2>2. /\ PlansOf(log', other) = PlansOf(Append(log, decided), other)
             \cup (IF other = "plan_created" THEN {round} ELSE {})
        /\ PairsOf(log', other) = PairsOf(Append(log, decided), other)
             \cup (IF other = "plan_created" THEN {<<round, round>>} ELSE {})
        /\ RoundsOf(log', other) = RoundsOf(Append(log, decided), other)
             \cup (IF other = "plan_created" THEN {round} ELSE {})
    <3> DEFINE shorter == Append(log, decided)
    <3>1. log' = Append(shorter, created) /\ shorter \in Seq(Event)
      BY <1>4, <1>5, <1>6
    <3> HIDE DEF shorter
    <3>2. /\ PlansOf(log', other) = PlansOf(shorter, other)
               \cup (IF created.type = other THEN {created.who} ELSE {})
          /\ PairsOf(log', other) = PairsOf(shorter, other)
               \cup (IF created.type = other THEN {<<created.round, created.who>>} ELSE {})
          /\ RoundsOf(log', other) = RoundsOf(shorter, other)
               \cup (IF created.type = other THEN {created.round} ELSE {})
      BY <1>2, <3>1, NamesAppended
    <3>3. QED
      BY <1>3, <3>2 DEF shorter
  <2>3. CASE other = "policy_decided"
    BY <2>1, <2>2, <2>3
  <2>4. CASE other = "plan_created"
    BY <2>1, <2>2, <2>4
  <2>5. CASE other \notin {"policy_decided", "plan_created"}
    BY <2>1, <2>2, <2>5
  <2>6. QED
    BY <2>3, <2>4, <2>5
<1>8. QED
  BY <1>2, <1>4, <1>5, <1>7 DEF decided, created

\* Every other step writes one event, that may come more than once, or none.
LEMMA OtherWrites ==
  ASSUME SafeInv, [Next]_vars, ~StartRound, ~CloseRound, ~Ask, ~LogAnswer
  PROVE  \/ log' = log
         \/ WriteCreated
         \/ \E type \in EventTypes \ Single, who \in Nat : Write(type, who)
<1>1. \A type \in EventTypes : type \notin Single =>
        ((\E p \in pending : Write(type, p.id)) =>
            \E other \in EventTypes \ Single, who \in Nat : Write(other, who))
  BY PendingType
<1>2. CASE LogApplied
  BY <1>1, <1>2 DEF LogApplied, EventTypes, Single
<1>3. CASE LogSpent
  BY <1>1, <1>3 DEF LogSpent, EventTypes, Single
<1>4. CASE LogCooldown
  BY <1>1, <1>4 DEF LogCooldown, EventTypes, Single
<1>5. CASE LogRejected
  BY <1>1, <1>5 DEF LogRejected, EventTypes, Single
<1>6. CASE LogReleased
  <2>1. \E p \in pending : Write("budget_released", p.id)
    BY <1>6 DEF LogReleased
  <2>2. QED
    BY <1>1, <2>1 DEF EventTypes, Single
<1>7. CASE LogScheduled
  BY <1>1, <1>7 DEF LogScheduled, EventTypes, Single
<1>8. CASE LogReserved
  BY <1>1, <1>8 DEF LogReserved, EventTypes, Single
<1>9. CASE LogCancelled
  <2>1. \E p \in pending : Write("budget_released", p.id)
    BY <1>9 DEF LogCancelled
  <2>2. QED
    BY <1>1, <2>1 DEF EventTypes, Single
<1>10. CASE DecideNothing \/ CancelAtEnd
  <2>1. Write("policy_decided", 0)
    BY <1>10 DEF DecideNothing, CancelAtEnd
  <2>2. QED
    BY <2>1 DEF EventTypes, Single
<1>11. CASE DiscardPlan \/ SchedulePlan
  BY <1>11 DEF DiscardPlan, SchedulePlan
<1>12. CASE RecordFailure \/ Finish
  <2>1. \E type \in {"run_failed", "run_completed"} : Write(type, 0)
    BY <1>12 DEF RecordFailure, Finish
  <2>2. QED
    BY <2>1 DEF EventTypes, Single
<1>13. CASE \/ ApplyPlan \/ RejectPlan \/ Answer \/ ProviderFails \/ ControlFails \/ LogFails
            \/ NothingToRelease \/ ReleasePending \/ ReleaseRaises \/ UNCHANGED vars
  BY <1>13 DEF ApplyPlan, RejectPlan, Answer, ProviderFails, ControlFails, LogFails,
     NothingToRelease, ReleasePending, ReleaseRaises, vars
<1>14. QED
  BY <1>2, <1>3, <1>4, <1>5, <1>6, <1>7, <1>8, <1>9, <1>10, <1>11, <1>12, <1>13 DEF Next

\* Only four steps write what comes once.
LEMMA SingleStays ==
  ASSUME SafeInv, [Next]_vars, NEW type \in Single,
         type = "round_started" => ~StartRound, type = "round_completed" => ~CloseRound,
         type = "llm_request" => ~Ask, type = "llm_response" => ~LogAnswer
  PROVE  RoundsOf(log', type) = RoundsOf(log, type) /\ PairsOf(log', type) = PairsOf(log, type)
<1>1. TypeOK /\ type \notin {"policy_decided", "plan_created"} /\ turn + 1 \in Nat /\ 0 \in Nat
  BY DEF SafeInv, TypeOK, Single
<1>2. \A other \in EventTypes, who \in Nat : Write(other, who) /\ other # type =>
        RoundsOf(log', type) = RoundsOf(log, type) /\ PairsOf(log', type) = PairsOf(log, type)
  <2>1. SUFFICES ASSUME NEW other \in EventTypes, NEW who \in Nat, Write(other, who), other # type
                 PROVE  RoundsOf(log', type) = RoundsOf(log, type) /\ PairsOf(log', type) = PairsOf(log, type)
    OBVIOUS
  <2>2. /\ RoundsOf(log', type) = RoundsOf(log, type) \cup (IF type = other THEN {round} ELSE {})
        /\ PairsOf(log', type) =
             PairsOf(log, type) \cup (IF type = other THEN {<<round, who>>} ELSE {})
    BY <1>1, <2>1, Names
  <2>3. QED
    BY <2>1, <2>2
<1>3. CASE StartRound
  <2>1. Write("round_started", 0) /\ type # "round_started" /\ "round_started" \in EventTypes
    BY <1>3 DEF StartRound, EventTypes
  <2>2. QED
    BY <1>1, <1>2, <2>1
<1>4. CASE CloseRound
  <2>1. Write("round_completed", 0) /\ type # "round_completed" /\ "round_completed" \in EventTypes
    BY <1>4 DEF CloseRound, EventTypes
  <2>2. QED
    BY <1>1, <1>2, <2>1
<1>5. CASE Ask
  <2>1. Write("llm_request", turn + 1) /\ type # "llm_request" /\ "llm_request" \in EventTypes
    BY <1>5 DEF Ask, EventTypes
  <2>2. QED
    BY <1>1, <1>2, <2>1
<1>6. CASE LogAnswer
  <2>1. Write("llm_response", turn + 1) /\ type # "llm_response" /\ "llm_response" \in EventTypes
    BY <1>6 DEF LogAnswer, EventTypes
  <2>2. QED
    BY <1>1, <1>2, <2>1
<1>7. CASE ~StartRound /\ ~CloseRound /\ ~Ask /\ ~LogAnswer
  <2>1. CASE log' = log
    BY <2>1
  <2>2. CASE WriteCreated
    BY <1>1, <2>2, CreatedNames
  <2>3. CASE \E other \in EventTypes \ Single, who \in Nat : Write(other, who)
    BY <1>2, <2>3
  <2>4. QED
    BY <1>7, <2>1, <2>2, <2>3, OtherWrites
<1>8. QED
  BY <1>3, <1>4, <1>5, <1>6, <1>7

-----------------------------------------------------------------------------
(* The log stays in order. *)

PlanTypes == {"plan_created", "plan_scheduled", "budget_reserved", "plan_applied", "budget_spent",
              "cooldown_updated", "plan_rejected", "budget_released"}

\* An event that fits leaves the log in order, but for the end of the run.
LEMMA OrderedWrite ==
  ASSUME TypeOK, OrderedLog(log), sequence = Len(log),
         NEW type \in EventTypes, NEW who \in Nat, Write(type, who),
         FitsNext(log, NextEvent(type, who)),
         type \in Single => <<round, who>> \notin PairsOf(log, type)
  PROVE  /\ Begun(log') /\ Numbered(log') /\ NoDuplicates(log') /\ RulesKept(log')
         /\ Of(log', Terminal) = IF type \in Terminal THEN {Len(log')} ELSE {}
         /\ sequence' = Len(log') /\ log'[Len(log')].type = type
<1> DEFINE e == NextEvent(type, who)
<1>1. /\ e \in Event /\ log \in Seq(Event) /\ e.type = type /\ e.round = round /\ e.who = who
      /\ e.sequence = Len(log) + 1 /\ FitsNext(log, e)
  BY NextIsEvent
<1>2. log' = Append(log, e) /\ sequence' = Len(log) + 1
  BY DEF Write, NextEvent
<1> HIDE DEF e
<1>3. /\ Begun(log') /\ Numbered(log') /\ NoDuplicates(log') /\ RulesKept(log')
      /\ Of(log', Terminal) = IF e.type \in Terminal THEN {Len(log')} ELSE {}
  BY <1>1, <1>2, StaysOrdered
<1>4. Len(log') = Len(log) + 1 /\ log'[Len(log) + 1] = e
  BY <1>1, <1>2, Appended
<1>5. QED
  BY <1>1, <1>2, <1>3, <1>4

\* An event of no plan, that may come more than once, always fits.
LEMMA PlainWrite ==
  ASSUME TypeOK, OrderedLog(log), sequence = Len(log),
         NEW type \in EventTypes \ (PlanTypes \cup Single), NEW who \in Nat, Write(type, who)
  PROVE  /\ Begun(log') /\ Numbered(log') /\ NoDuplicates(log') /\ RulesKept(log')
         /\ Of(log', Terminal) = IF type \in Terminal THEN {Len(log')} ELSE {}
         /\ sequence' = Len(log') /\ log'[Len(log')].type = type
<1>1. FitsNext(log, NextEvent(type, who))
  BY DEF FitsNext, NextEvent, PlanTypes
<1>2. QED
  BY <1>1, OrderedWrite

\* The events of rounds and turns fit when they are new.
LEMMA SingleWrite ==
  ASSUME TypeOK, OrderedLog(log), sequence = Len(log),
         NEW type \in Single, NEW who \in Nat, Write(type, who),
         <<round, who>> \notin PairsOf(log, type)
  PROVE  OrderedLog(log') /\ sequence' = Len(log')
<1>1. FitsNext(log, NextEvent(type, who)) /\ type \in EventTypes /\ type \notin Terminal
  BY DEF FitsNext, NextEvent, Single, EventTypes, Terminal
<1>2. QED
  BY <1>1, OrderedWrite DEF OrderedLog

\* A round that a pair names is among the rounds.
LEMMA PairsAndRounds ==
  ASSUME NEW events, NEW type, NEW r, NEW who, <<r, who>> \in PairsOf(events, type)
  PROVE  r \in RoundsOf(events, type)
BY DEF PairsOf, RoundsOf

\* The events of the pending plan are neither last nor single.
LEMMA PlanWrite ==
  ASSUME SafeInv, OrderedLog(log), sequence = Len(log),
         NEW type \in PlanTypes, NEW p \in pending, Write(type, p.id),
         FitsNext(log, NextEvent(type, p.id))
  PROVE  OrderedLog(log') /\ sequence' = Len(log')
<1>1. type \in EventTypes /\ type \notin Terminal /\ type \notin Single
  BY DEF PlanTypes, EventTypes, Terminal, Single
<1>2. p.id \in Nat /\ TypeOK
  BY PendingType DEF SafeInv
<1>3. QED
  BY <1>1, <1>2, OrderedWrite DEF OrderedLog

\* An event that fits, comes more than once and ends nothing keeps the order.
LEMMA NextOrdered ==
  ASSUME NEW S, NEW events \in Seq(S), OrderedLog(events), NEW e \in S,
         e.sequence = Len(events) + 1, FitsNext(events, e), e.type \notin Single \cup Terminal
  PROVE  /\ OrderedLog(Append(events, e)) /\ Append(events, e) \in Seq(S)
         /\ Len(Append(events, e)) = Len(events) + 1
<1>1. e.type \notin Single /\ e.type \notin Terminal
  OBVIOUS
<1>2. /\ Begun(Append(events, e)) /\ Numbered(Append(events, e))
      /\ NoDuplicates(Append(events, e)) /\ RulesKept(Append(events, e))
      /\ Of(Append(events, e), Terminal) = IF e.type \in Terminal THEN {Len(Append(events, e))} ELSE {}
  BY <1>1, StaysOrdered
<1>3. QED
  BY <1>1, <1>2, Appended DEF OrderedLog

\* A decision and the plan it made are written together.
LEMMA CreatedOrdered ==
  ASSUME SafeInv, TidyLog, sequence = Len(log), at = "control", WriteCreated
  PROVE  OrderedLog(log') /\ sequence' = Len(log')
<1>1. TypeOK /\ OrderedLog(log) /\ log \in Seq(Event) /\ round \in Nat /\ Len(log) \in Nat
  BY DEF SafeInv, TypeOK, TidyLog, Rounds
<1>2. PICK decided, created \in Event :
         /\ log' = Append(Append(log, decided), created)
         /\ decided = NextEvent("policy_decided", 0)
         /\ created = [type |-> "plan_created", round |-> round, who |-> round,
                       sequence |-> sequence + 2]
         /\ sequence' = sequence + 2
  BY <1>1, CreatedNames
<1> DEFINE shorter == Append(log, decided)
<1>3. /\ decided.type = "policy_decided" /\ decided.round = round /\ decided.who = 0
      /\ decided.sequence = Len(log) + 1
  BY <1>2 DEF NextEvent
<1>4. FitsNext(log, decided)
  BY <1>3 DEF FitsNext
<1>5. decided.type \notin Single \cup Terminal
  BY <1>3 DEF Single, Terminal
<1>6. OrderedLog(shorter) /\ shorter \in Seq(Event) /\ Len(shorter) = Len(log) + 1
  BY <1>1, <1>3, <1>4, <1>5, NextOrdered
<1>7. /\ PlansOf(shorter, "plan_created") = PlansOf(log, "plan_created")
           \cup (IF decided.type = "plan_created" THEN {decided.who} ELSE {})
      /\ RoundsOf(shorter, "policy_decided") = RoundsOf(log, "policy_decided")
           \cup (IF decided.type = "policy_decided" THEN {decided.round} ELSE {})
  BY <1>1, NamesAppended
<1>8. round \notin PlansOf(log, "plan_created")
  BY DEF TidyLog, PlanLog, Handling
<1>9. log' = Append(shorter, created)
  BY <1>2
<1> HIDE DEF shorter
<1>10. /\ created.type = "plan_created" /\ created.round = round /\ created.who = round
       /\ created.sequence = Len(shorter) + 1
  BY <1>1, <1>2, <1>6
<1>11. FitsNext(shorter, created) /\ created.type \notin Single \cup Terminal
  BY <1>3, <1>7, <1>8, <1>10 DEF FitsNext, Single, Terminal
<1>12. OrderedLog(log') /\ Len(log') = Len(shorter) + 1
  BY <1>6, <1>9, <1>10, <1>11, NextOrdered
<1>13. QED
  BY <1>1, <1>2, <1>6, <1>12

\* Every event that is written fits, until the run ends.
LEMMA OrderStep ==
  ASSUME SafeInv, TidyLog, sequence = Len(log), [Next]_vars, ~LogFails, ~RecordFailure, ~Finish
  PROVE  OrderedLog(log') /\ sequence' = Len(log')
<1>1. /\ TypeOK /\ OrderedLog(log) /\ RoundLog /\ TurnLog /\ PlanLog /\ NoneLost
      /\ turn \in Nat /\ turn + 1 \in Nat /\ round \in Nat /\ 0 \in Nat
  BY DEF SafeInv, TypeOK, TidyLog, Rounds
<1>2. CASE log' = log /\ sequence' = sequence
  BY <1>1, <1>2
<1>3. CASE StartRound
  <2>1. Write("round_started", 0) /\ <<round, 0>> \notin PairsOf(log, "round_started")
    BY <1>1, <1>3, PairsAndRounds DEF StartRound, RoundLog
  <2>2. QED
    BY <1>1, <2>1, SingleWrite DEF Single
<1>4. CASE CloseRound
  <2>1. Write("round_completed", 0) /\ <<round, 0>> \notin PairsOf(log, "round_completed")
    BY <1>1, <1>4, PairsAndRounds DEF CloseRound, RoundLog, Handling
  <2>2. QED
    BY <1>1, <2>1, SingleWrite DEF Single
<1>5. CASE Ask
  <2>1. Write("llm_request", turn + 1) /\ at = "asking"
    BY <1>5 DEF Ask
  <2>2. \A pair \in PairsOf(log, "llm_request") : pair[1] = round => pair[2] <= turn
    BY <1>1, <2>1 DEF TurnLog, Handling
  <2>3. <<round, turn + 1>> \notin PairsOf(log, "llm_request")
    BY <1>1, <2>2
  <2>4. QED
    BY <1>1, <2>1, <2>3, SingleWrite DEF Single
<1>6. CASE LogAnswer
  <2>1. Write("llm_response", turn + 1) /\ at = "answering"
    BY <1>6 DEF LogAnswer
  <2>2. \A pair \in PairsOf(log, "llm_response") : pair[1] = round => pair[2] <= turn
    BY <1>1, <2>1 DEF TurnLog, Handling
  <2>3. <<round, turn + 1>> \notin PairsOf(log, "llm_response")
    BY <1>1, <2>2
  <2>4. QED
    BY <1>1, <2>1, <2>3, SingleWrite DEF Single
<1>7. CASE DecideNothing \/ CancelAtEnd
  <2>1. Write("policy_decided", 0)
    BY <1>7 DEF DecideNothing, CancelAtEnd
  <2>2. /\ "policy_decided" \in EventTypes \ (PlanTypes \cup Single)
        /\ "policy_decided" \notin Terminal
    BY DEF EventTypes, PlanTypes, Single, Terminal
  <2>3. QED
    BY <1>1, <2>1, <2>2, PlainWrite DEF OrderedLog
<1>8. CASE DiscardPlan \/ SchedulePlan
  BY <1>8, CreatedOrdered DEF DiscardPlan, SchedulePlan
<1> DEFINE EventOf(type, p) == NextEvent(type, p.id)
<1>9. ASSUME NEW type \in PlanTypes, \E p \in pending : Write(type, p.id) /\ FitsNext(log, EventOf(type, p))
      PROVE  OrderedLog(log') /\ sequence' = Len(log')
  BY <1>1, <1>9, PlanWrite
<1>10. \A p \in pending : p.id \in Nat /\ p.id \in {q.id : q \in pending}
  BY PendingType
<1>11. CASE LogScheduled
  <2>1. PICK p \in pending : Write("plan_scheduled", p.id)
    BY <1>11 DEF LogScheduled
  <2>2. /\ p.id = round /\ round \in PlansOf(log, "plan_created")
        /\ round \in RoundsOf(log, "policy_decided")
    BY <1>1, <1>10, <1>11 DEF LogScheduled, PlanLog
  <2>3. p.id + 1 > round
    BY <1>1, <2>2
  <2>4. FitsNext(log, EventOf("plan_scheduled", p))
    BY <2>2, <2>3 DEF FitsNext, NextEvent
  <2>5. QED
    BY <1>9, <2>1, <2>4 DEF PlanTypes
<1>12. CASE LogReserved
  <2>1. PICK p \in pending : Write("budget_reserved", p.id)
    BY <1>12 DEF LogReserved
  <2>2. FitsNext(log, EventOf("budget_reserved", p))
    BY <1>1, <1>10, <1>12 DEF LogReserved, PlanLog, FitsNext, NextEvent
  <2>3. QED
    BY <1>9, <2>1, <2>2 DEF PlanTypes
<1>13. CASE LogApplied
  <2>1. PICK p \in pending : Write("plan_applied", p.id)
    BY <1>13 DEF LogApplied
  <2>2. FitsNext(log, EventOf("plan_applied", p))
    BY <1>1, <1>10, <1>13 DEF LogApplied, PlanLog, FitsNext, NextEvent
  <2>3. QED
    BY <1>9, <2>1, <2>2 DEF PlanTypes
<1>14. CASE LogSpent
  <2>1. PICK p \in pending : Write("budget_spent", p.id)
    BY <1>14 DEF LogSpent
  <2>2. FitsNext(log, EventOf("budget_spent", p))
    BY <1>1, <1>10, <1>14 DEF LogSpent, PlanLog, FitsNext, NextEvent
  <2>3. QED
    BY <1>9, <2>1, <2>2 DEF PlanTypes
<1>15. CASE LogCooldown
  <2>1. PICK p \in pending : Write("cooldown_updated", p.id)
    BY <1>15 DEF LogCooldown
  <2>2. FitsNext(log, EventOf("cooldown_updated", p))
    BY <1>1, <1>10, <1>15 DEF LogCooldown, PlanLog, FitsNext, NextEvent
  <2>3. QED
    BY <1>9, <2>1, <2>2 DEF PlanTypes
<1>16. CASE LogRejected
  <2>1. PICK p \in pending : Write("plan_rejected", p.id)
    BY <1>16 DEF LogRejected
  <2>2. FitsNext(log, EventOf("plan_rejected", p))
    BY <1>1, <1>10, <1>16 DEF LogRejected, PlanLog, FitsNext, NextEvent
  <2>3. QED
    BY <1>9, <2>1, <2>2 DEF PlanTypes
<1>17. CASE LogReleased
  <2>1. PICK p \in pending : Write("budget_released", p.id)
    BY <1>17 DEF LogReleased
  <2>2. FitsNext(log, EventOf("budget_released", p))
    BY <1>1, <1>10, <1>17 DEF LogReleased, PlanLog, FitsNext, NextEvent
  <2>3. QED
    BY <1>9, <2>1, <2>2 DEF PlanTypes
<1>18. ~ReleasePending /\ ~ReleaseRaises /\ ~LogCancelled
  BY <1>1 DEF ReleasePending, ReleaseRaises, LogCancelled, NoneLost, Handling
<1>19. CASE \/ ApplyPlan \/ RejectPlan \/ Answer \/ ProviderFails \/ ControlFails
            \/ NothingToRelease \/ UNCHANGED vars
  BY <1>2, <1>19 DEF ApplyPlan, RejectPlan, Answer, ProviderFails, ControlFails,
     NothingToRelease, vars
<1>20. QED
  BY <1>3, <1>4, <1>5, <1>6, <1>7, <1>8, <1>11, <1>12, <1>13, <1>14, <1>15, <1>16, <1>17, <1>18, <1>19
     DEF Next

-----------------------------------------------------------------------------
(* Rounds, turns and plans move on as replay expects. *)

\* A step of a run whose log has no gap, before the event that ends it.
Undisturbed ==
  /\ SafeInv /\ TidyLog /\ sequence = Len(log) /\ at \notin Over
  /\ [Next]_vars /\ ~LogFails /\ ~RecordFailure /\ ~Finish

\* What such a step may use, and the steps it cannot be.
LEMMA AtHandNow ==
  ASSUME Undisturbed
  PROVE  /\ SafeInv /\ TypeOK /\ PlaceInv
         /\ OrderedLog(log) /\ RoundLog /\ TurnLog /\ PlanLog /\ NoneLost
         /\ round \in Nat /\ MaxRounds \in Nat /\ turn \in Nat /\ turn + 1 \in Nat /\ 0 \in Nat
         /\ [Next]_vars /\ ~LogFails /\ ~RecordFailure /\ ~Finish
         /\ ~ReleasePending /\ ~ReleaseRaises /\ ~LogCancelled
         /\ DecideNothing \/ DiscardPlan \/ LogReserved
              => NextRound /\ at \in {"control", "log_reserved"}
<1>1. /\ SafeInv /\ TypeOK /\ PlaceInv
      /\ OrderedLog(log) /\ RoundLog /\ TurnLog /\ PlanLog /\ NoneLost
      /\ [Next]_vars /\ ~LogFails /\ ~RecordFailure /\ ~Finish
  BY DEF Undisturbed, TidyLog, SafeInv
<1>2. round \in Nat /\ MaxRounds \in Nat /\ turn \in Nat
  <2>1. round \in Rounds /\ turn \in 0..Agents
    BY <1>1 DEF TypeOK
  <2>2. QED
    BY <2>1, RoundAssumption, ControlAssumption DEF Rounds
<1>3. ~ReleasePending /\ ~ReleaseRaises /\ ~LogCancelled
  BY <1>1 DEF ReleasePending, ReleaseRaises, LogCancelled, NoneLost, Handling
<1>4. DecideNothing \/ DiscardPlan \/ LogReserved => NextRound /\ at \in {"control", "log_reserved"}
  BY DEF DecideNothing, DiscardPlan, LogReserved
<1>5. QED
  BY <1>1, <1>2, <1>3, <1>4

\* Each round is started and completed once, in its turn.
LEMMA RoundLogStep == Undisturbed => RoundLog'
<1> SUFFICES ASSUME Undisturbed PROVE RoundLog'
  OBVIOUS
<1>1. /\ SafeInv /\ TypeOK /\ PlaceInv /\ RoundLog /\ NoneLost /\ round \in Nat /\ MaxRounds \in Nat
      /\ turn \in Nat /\ turn + 1 \in Nat /\ 0 \in Nat /\ [Next]_vars
      /\ ~LogFails /\ ~RecordFailure /\ ~Finish /\ ~ReleasePending /\ ~ReleaseRaises /\ ~LogCancelled
      /\ DecideNothing \/ DiscardPlan \/ LogReserved => NextRound /\ at \in {"control", "log_reserved"}
  BY AtHandNow
<1> DEFINE started == RoundsOf(log, "round_started")
           completed == RoundsOf(log, "round_completed")
<1>2. CASE StartRound
  <2>1. Write("round_started", 0) /\ round' = round /\ at' \in {"asking", "boundary"} /\ at = "round"
    BY <1>2 DEF StartRound
  <2>2. RoundsOf(log', "round_started") = started \cup {round}
    <3>1. "round_started" \in EventTypes
      BY DEF EventTypes
    <3>2. QED
      BY <1>1, <2>1, <3>1, NamesAdd
  <2>3. RoundsOf(log', "round_completed") = completed
    <3>1. "round_started" \in EventTypes /\ "round_started" # "round_completed"
      BY DEF EventTypes
    <3>2. QED
      BY <1>1, <2>1, <3>1, NamesStay
  <2>4. QED
    BY <1>1, <2>1, <2>2, <2>3 DEF RoundLog, Handling
<1>3. CASE CloseRound
  <2>1. Write("round_completed", 0) /\ round' = round /\ at' = "control" /\ at = "closing"
    BY <1>3 DEF CloseRound
  <2>2. RoundsOf(log', "round_completed") = completed \cup {round}
    <3>1. "round_completed" \in EventTypes
      BY DEF EventTypes
    <3>2. QED
      BY <1>1, <2>1, <3>1, NamesAdd
  <2>3. RoundsOf(log', "round_started") = started
    <3>1. "round_completed" \in EventTypes /\ "round_completed" # "round_started"
      BY DEF EventTypes
    <3>2. QED
      BY <1>1, <2>1, <3>1, NamesStay
  <2>4. QED
    BY <1>1, <2>1, <2>2, <2>3 DEF RoundLog, Handling
<1>4. CASE ~StartRound /\ ~CloseRound
  <2>1. RoundsOf(log', "round_started") = started /\ RoundsOf(log', "round_completed") = completed
    BY <1>1, <1>4, SingleStays DEF Single
  <2>2. CASE NextRound /\ at \in {"control", "log_reserved"}
    BY <1>1, <2>1, <2>2 DEF NextRound, LastRound, RoundLog, Handling
  <2>3. CASE CancelAtEnd
    BY <1>1, <2>1, <2>3 DEF CancelAtEnd, LastRound, RoundLog, Handling
  <2>4. CASE SchedulePlan \/ LogScheduled
    BY <1>1, <2>1, <2>4 DEF SchedulePlan, LogScheduled, LastRound, RoundLog, Handling
  <2>5. CASE \/ ApplyPlan \/ LogApplied \/ LogSpent \/ LogCooldown \/ RejectPlan \/ LogRejected
             \/ LogReleased \/ Ask \/ Answer \/ LogAnswer
    <3>1. /\ round' = round
          /\ at \in {"boundary", "log_applied", "log_spent", "log_cooldown", "log_rejected",
                     "log_released", "asking", "asked", "answering"}
          /\ at' \in {"boundary", "log_applied", "log_spent", "log_cooldown", "log_rejected",
                     "log_released", "asking", "asked", "answering", "closing"}
      BY <2>5 DEF ApplyPlan, LogApplied, LogSpent, LogCooldown, RejectPlan, LogRejected,
         LogReleased, Ask, Answer, LogAnswer
    <3>2. QED
      BY <1>1, <2>1, <3>1 DEF RoundLog, Handling
  <2>6. CASE ProviderFails \/ ControlFails \/ NothingToRelease
    <3>1. round' = round /\ at' \in {"failing", "log_failed"}
      BY <2>6 DEF ProviderFails, ControlFails, NothingToRelease
    <3>2. QED
      BY <1>1, <2>1, <3>1 DEF RoundLog, Handling
  <2>7. CASE UNCHANGED vars
    BY <1>1, <2>1, <2>7 DEF vars, RoundLog, LastRound
  <2>8. QED
    BY <1>1, <1>4, <2>2, <2>3, <2>4, <2>5, <2>6, <2>7 DEF Next
<1>5. QED
  BY <1>2, <1>3, <1>4

\* Rounds and agents are numbers.
LEMMA PairsTyped ==
  ASSUME TypeOK, NEW type, NEW pair \in PairsOf(log, type)
  PROVE  pair[1] \in Nat /\ pair[2] \in Nat
<1>1. PICK i \in Of(log, {type}) : pair = <<log[i].round, log[i].who>>
  BY DEF PairsOf
<1>2. log[i] \in Event
  <2>1. log \in Seq(Event) /\ i \in DOMAIN log
    BY DEF TypeOK, Of
  <2>2. QED
    BY <2>1, ElementOfSeq
<1>3. log[i].round \in Rounds /\ log[i].who \in Nat
  BY <1>2 DEF Event
<1>4. QED
  BY <1>1, <1>3, RoundAssumption DEF Rounds

\* Each agent is asked and answers once in a round.
LEMMA TurnLogStep == Undisturbed => TurnLog'
<1> SUFFICES ASSUME Undisturbed PROVE TurnLog'
  OBVIOUS
<1>1. /\ SafeInv /\ TypeOK /\ PlaceInv /\ TurnLog /\ NoneLost /\ round \in Nat /\ MaxRounds \in Nat
      /\ turn \in Nat /\ turn + 1 \in Nat /\ 0 \in Nat /\ [Next]_vars
      /\ ~LogFails /\ ~RecordFailure /\ ~Finish /\ ~ReleasePending /\ ~ReleaseRaises /\ ~LogCancelled
      /\ DecideNothing \/ DiscardPlan \/ LogReserved => NextRound /\ at \in {"control", "log_reserved"}
  BY AtHandNow
<1> DEFINE requests == PairsOf(log, "llm_request")
           responses == PairsOf(log, "llm_response")
<1>5. \A pair \in requests \cup responses : pair[1] \in Nat /\ pair[2] \in Nat
  BY <1>1, PairsTyped
<1>2. CASE Ask
  <2>1. /\ Write("llm_request", turn + 1) /\ round' = round /\ turn' = turn /\ at' = "asked"
        /\ at = "asking"
    BY <1>2 DEF Ask
  <2>2. PairsOf(log', "llm_request") = requests \cup {<<round, turn + 1>>}
    <3>1. "llm_request" \in EventTypes
      BY DEF EventTypes
    <3>2. QED
      BY <1>1, <2>1, <3>1, NamesAdd
  <2>3. PairsOf(log', "llm_response") = responses
    <3>1. "llm_request" \in EventTypes /\ "llm_request" # "llm_response"
      BY DEF EventTypes
    <3>2. QED
      BY <1>1, <2>1, <3>1, NamesStay
  <2>4. <<round, turn + 1>>[1] = round /\ <<round, turn + 1>>[2] = turn + 1
    OBVIOUS
  <2>5. ASSUME NEW pair \in requests \cup {<<round, turn + 1>>}
        PROVE  pair[1] <= round /\ (pair[1] = round => pair[2] <= turn + 1)
    BY <1>1, <1>5, <2>1, <2>4, <2>5 DEF TurnLog, Handling
  <2>6. QED
    BY <1>1, <1>5, <2>1, <2>2, <2>3, <2>5 DEF TurnLog, Handling
<1>3. CASE LogAnswer
  <2>1. /\ Write("llm_response", turn + 1) /\ round' = round /\ turn' = turn + 1
        /\ at' \in {"closing", "asking"} /\ at = "answering"
    BY <1>3 DEF LogAnswer
  <2>2. PairsOf(log', "llm_response") = responses \cup {<<round, turn + 1>>}
    <3>1. "llm_response" \in EventTypes
      BY DEF EventTypes
    <3>2. QED
      BY <1>1, <2>1, <3>1, NamesAdd
  <2>3. PairsOf(log', "llm_request") = requests
    <3>1. "llm_response" \in EventTypes /\ "llm_response" # "llm_request"
      BY DEF EventTypes
    <3>2. QED
      BY <1>1, <2>1, <3>1, NamesStay
  <2>4. <<round, turn + 1>>[1] = round /\ <<round, turn + 1>>[2] = turn + 1
    OBVIOUS
  <2>5. ASSUME NEW pair \in responses \cup {<<round, turn + 1>>}
        PROVE  pair[1] <= round /\ (pair[1] = round => pair[2] <= turn + 1)
    BY <1>1, <1>5, <2>1, <2>4, <2>5 DEF TurnLog, Handling
  <2>6. QED
    BY <1>1, <1>5, <2>1, <2>2, <2>3, <2>5 DEF TurnLog, Handling
<1>4. CASE ~Ask /\ ~LogAnswer
  <2>1. PairsOf(log', "llm_request") = requests /\ PairsOf(log', "llm_response") = responses
    BY <1>1, <1>4, SingleStays DEF Single
  <2>2. CASE NextRound /\ at \in {"control", "log_reserved"}
    BY <1>1, <1>5, <2>1, <2>2 DEF NextRound, LastRound, TurnLog, Handling
  <2>3. CASE Answer
    BY <1>1, <2>1, <2>3 DEF Answer, TurnLog, Handling
  <2>4. CASE ProviderFails \/ ControlFails \/ NothingToRelease
    BY <1>1, <2>1, <2>4 DEF ProviderFails, ControlFails, NothingToRelease, TurnLog, Handling
  <2>5. CASE UNCHANGED vars
    BY <1>1, <2>1, <2>5 DEF vars, TurnLog
  <2>6. CASE \/ StartRound \/ CloseRound \/ CancelAtEnd \/ SchedulePlan \/ LogScheduled
             \/ ApplyPlan \/ LogApplied \/ LogSpent \/ LogCooldown \/ RejectPlan \/ LogRejected
             \/ LogReleased
    <3>1. UNCHANGED <<round, turn>> /\ at \notin Handling \cup {"asked", "answering"}
      BY <2>6 DEF StartRound, CloseRound, CancelAtEnd, SchedulePlan, LogScheduled, ApplyPlan,
         LogApplied, LogSpent, LogCooldown, RejectPlan, LogRejected, LogReleased, Handling
    <3>2. QED
      BY <1>1, <2>1, <1>5, <3>1 DEF TurnLog
  <2>7. QED
    BY <1>1, <1>4, <2>2, <2>3, <2>4, <2>5, <2>6 DEF Next
<1>6. QED
  BY <1>2, <1>3, <1>4

\* A failure outside the log finds no plan pending.
LEMMA NoneLostStep == Undisturbed => NoneLost'
<1> SUFFICES ASSUME Undisturbed PROVE NoneLost'
  OBVIOUS
<1>1. SafeInv /\ PlaceInv /\ NoneLost /\ [Next]_vars /\ ~LogFails /\ ~RecordFailure /\ ~Finish
  BY DEF Undisturbed, TidyLog, SafeInv
<1>2. CASE ProviderFails \/ ControlFails \/ NothingToRelease \/ UNCHANGED vars
  BY <1>1, <1>2 DEF ProviderFails, ControlFails, NothingToRelease, vars, NoneLost, PlaceInv, Handling
<1>3. ~ReleasePending /\ ~ReleaseRaises /\ ~LogCancelled
  BY <1>1 DEF ReleasePending, ReleaseRaises, LogCancelled, NoneLost, Handling
<1>4. CASE ~(ProviderFails \/ ControlFails \/ NothingToRelease \/ UNCHANGED vars)
  <2>1. at' \notin Handling
    BY <1>1, <1>3, <1>4 DEF Next, StartRound, ApplyPlan, LogApplied, LogSpent, LogCooldown,
       RejectPlan, LogRejected, LogReleased, Ask, Answer, LogAnswer, CloseRound, DecideNothing,
       NextRound, CancelAtEnd, DiscardPlan, SchedulePlan, LogScheduled, LogReserved, Handling
  <2>2. QED
    BY <2>1 DEF NoneLost
<1>5. QED
  BY <1>2, <1>4

\* The types of events that say how far a plan has come.
Traced == {"plan_created", "plan_scheduled", "plan_applied", "budget_spent", "cooldown_updated",
           "plan_rejected", "budget_released"}

\* An event of another type leaves the plans where they are.
LEMMA PlansStay ==
  ASSUME SafeInv, NEW type \in EventTypes \ Traced, NEW who \in Nat, Write(type, who), NEW traced \in Traced
  PROVE  PlansOf(log', traced) = PlansOf(log, traced)
<1>1. traced # type /\ type \in EventTypes /\ TypeOK
  BY DEF SafeInv
<1>2. QED
  BY <1>1, NamesStay

\* An event about the pending plan adds it to those of the type, and to no others.
LEMMA PlanTraced ==
  ASSUME SafeInv, NEW type \in Traced, \E p \in pending : Write(type, p.id)
  PROVE  /\ PlansOf(log', type) = PlansOf(log, type) \cup {p.id : p \in pending}
         /\ \A other \in Traced \ {type} : PlansOf(log', other) = PlansOf(log, other)
         /\ \E x \in Nat : {p.id : p \in pending} = {x}
         /\ \A other : other # type => RoundsOf(log', other) = RoundsOf(log, other)
<1>1. PICK p \in pending : Write(type, p.id)
  OBVIOUS
<1>2. pending = {p} /\ p.id \in Nat /\ type \in EventTypes /\ TypeOK
  BY PendingType DEF SafeInv, Traced, EventTypes
<1>3. {q.id : q \in pending} = {p.id}
  BY <1>2
<1>4. PlansOf(log', type) = PlansOf(log, type) \cup {p.id}
  BY <1>1, <1>2, NamesAdd
<1>5. \A other : other # type =>
        PlansOf(log', other) = PlansOf(log, other) /\ RoundsOf(log', other) = RoundsOf(log, other)
  BY <1>1, <1>2, NamesStay
<1>6. QED
  BY <1>2, <1>3, <1>4, <1>5

\* The steps that write nothing of a plan.
LEMMA NothingTraced ==
  ASSUME Undisturbed, NEW traced \in Traced,
         \/ StartRound \/ ApplyPlan \/ RejectPlan \/ Ask \/ Answer \/ LogAnswer \/ ProviderFails
         \/ CloseRound \/ DecideNothing \/ CancelAtEnd \/ LogReserved \/ ControlFails
         \/ NothingToRelease \/ UNCHANGED vars
  PROVE  PlansOf(log', traced) = PlansOf(log, traced)
<1>1. SafeInv /\ turn + 1 \in Nat /\ 0 \in Nat
  BY AtHandNow
<1>2. CASE log' = log
  BY <1>2
<1>3. ASSUME NEW type \in {"round_started", "llm_request", "llm_response", "round_completed",
                           "policy_decided", "budget_reserved"}, NEW who \in Nat, Write(type, who)
      PROVE  PlansOf(log', traced) = PlansOf(log, traced)
  BY <1>1, <1>3, PlansStay DEF EventTypes, Traced
<1>4. CASE StartRound
  BY <1>1, <1>3, <1>4 DEF StartRound
<1>5. CASE Ask
  BY <1>1, <1>3, <1>5 DEF Ask
<1>6. CASE LogAnswer
  BY <1>1, <1>3, <1>6 DEF LogAnswer
<1>7. CASE CloseRound
  BY <1>1, <1>3, <1>7 DEF CloseRound
<1>8. CASE DecideNothing \/ CancelAtEnd
  <2>1. Write("policy_decided", 0)
    BY <1>8 DEF DecideNothing, CancelAtEnd
  <2>2. QED
    BY <1>1, <1>3, <2>1
<1>9. CASE LogReserved
  <2>1. PICK p \in pending : Write("budget_reserved", p.id)
    BY <1>9 DEF LogReserved
  <2>2. p.id \in Nat
    BY <1>1, PendingType
  <2>3. QED
    BY <1>3, <2>1, <2>2
<1>10. CASE \/ ApplyPlan \/ RejectPlan \/ Answer \/ ProviderFails \/ ControlFails
            \/ NothingToRelease \/ UNCHANGED vars
  BY <1>2, <1>10 DEF ApplyPlan, RejectPlan, Answer, ProviderFails, ControlFails,
     NothingToRelease, vars
<1>11. QED
  BY <1>4, <1>5, <1>6, <1>7, <1>8, <1>9, <1>10

\* Each plan goes from one type of event to the next, and none stays behind unless it is pending.
LEMMA PlanLogStep == Undisturbed => PlanLog'
<1> SUFFICES ASSUME Undisturbed PROVE PlanLog'
  OBVIOUS
<1>1. /\ SafeInv /\ TypeOK /\ PlaceInv /\ PlanLog /\ NoneLost /\ round \in Nat /\ MaxRounds \in Nat
      /\ 0 \in Nat /\ [Next]_vars /\ ~LogFails /\ ~RecordFailure /\ ~Finish
      /\ ~ReleasePending /\ ~ReleaseRaises /\ ~LogCancelled
  BY AtHandNow
<1> DEFINE created == PlansOf(log, "plan_created")
           scheduled == PlansOf(log, "plan_scheduled")
           applied == PlansOf(log, "plan_applied")
           spent == PlansOf(log, "budget_spent")
           cooled == PlansOf(log, "cooldown_updated")
           rejected == PlansOf(log, "plan_rejected")
           released == PlansOf(log, "budget_released")
           open == {p.id : p \in pending}
           Same(types) == \A type \in types : PlansOf(log', type) = PlansOf(log, type)
<1>2. CASE \/ StartRound \/ ApplyPlan \/ RejectPlan \/ Ask \/ Answer \/ LogAnswer \/ ProviderFails
           \/ CloseRound \/ DecideNothing \/ CancelAtEnd \/ LogReserved \/ ControlFails
           \/ NothingToRelease \/ UNCHANGED vars
  <2>1. Same(Traced) /\ pending' = pending
    BY <1>2, NothingTraced DEF StartRound, ApplyPlan, RejectPlan, Ask, Answer, LogAnswer,
       ProviderFails, CloseRound, DecideNothing, CancelAtEnd, LogReserved, ControlFails,
       NothingToRelease, vars
  <2>2. /\ PlansOf(log', "plan_created") = created /\ PlansOf(log', "plan_scheduled") = scheduled
        /\ PlansOf(log', "plan_applied") = applied /\ PlansOf(log', "budget_spent") = spent
        /\ PlansOf(log', "cooldown_updated") = cooled /\ PlansOf(log', "plan_rejected") = rejected
        /\ PlansOf(log', "budget_released") = released /\ {p.id : p \in pending'} = open
    BY <2>1 DEF Traced
  <2>3. CASE DecideNothing
    <3>1. pending = {} /\ NextRound /\ at = "control"
      BY <1>1, <2>3 DEF DecideNothing, PlaceInv
    <3>2. (at' = "finish" /\ round' = round) \/ (at' = "round" /\ round' = round + 1)
      <4>1. CASE LastRound
        BY <3>1, <4>1 DEF NextRound
      <4>2. CASE ~LastRound
        BY <3>1, <4>2 DEF NextRound
      <4>3. QED
        BY <4>1, <4>2
    <3>3. created \subseteq 0..round' /\ (at' = "round" => round' \notin created)
      BY <1>1, <3>2 DEF PlanLog
    <3>4. open = {}
      BY <3>1
    <3>5. QED
      BY <1>1, <2>2, <3>1, <3>2, <3>3, <3>4 DEF PlanLog, Handling
  <2>4. CASE LogReserved
    <3>1. at' = "round" /\ round' = round + 1 /\ at = "log_reserved"
      BY <1>1, <2>4 DEF LogReserved, PlaceInv, NextRound, LastRound
    <3>2. \A x \in open : x = round
      BY <1>1, <3>1 DEF PlanLog
    <3>3. /\ created \subseteq 0..round' /\ round' \notin created
          /\ \A x \in open : x + 1 = round'
      BY <1>1, <3>1, <3>2 DEF PlanLog
    <3>4. QED
      BY <1>1, <2>2, <3>1, <3>3 DEF PlanLog, Handling
  <2>5. CASE CancelAtEnd \/ ProviderFails \/ ControlFails \/ NothingToRelease
    <3>1. /\ pending = {} /\ round' = round /\ at' \in {"finish", "failing", "log_failed"}
      BY <1>1, <2>5 DEF CancelAtEnd, ProviderFails, ControlFails, NothingToRelease, PlaceInv
    <3>2. QED
      BY <1>1, <2>2, <3>1 DEF PlanLog, Handling
  <2>6. CASE StartRound \/ ApplyPlan \/ RejectPlan \/ Ask \/ Answer \/ LogAnswer \/ CloseRound
    <3>1. /\ round' = round
          /\ at \in {"round", "boundary", "asking", "asked", "answering", "closing"}
          /\ at' \in {"boundary", "log_applied", "log_rejected", "asking", "asked", "answering",
                      "closing", "control"}
          /\ at' \in {"boundary", "log_applied", "log_rejected"} => at \in {"round", "boundary"}
      BY <2>6 DEF StartRound, ApplyPlan, RejectPlan, Ask, Answer, LogAnswer, CloseRound
    <3>2. QED
      BY <1>1, <2>2, <3>1 DEF PlanLog, Handling
  <2>7. CASE UNCHANGED vars
    BY <1>1, <2>7 DEF PlanLog, vars
  <2>8. QED
    BY <1>2, <2>3, <2>4, <2>5, <2>6, <2>7
<1>3. CASE DiscardPlan \/ SchedulePlan
  <2>1. WriteCreated /\ at = "control" /\ pending = {} /\ ~LastRound
    BY <1>1, <1>3 DEF DiscardPlan, SchedulePlan, PlaceInv
  <2>2. \A other :
          /\ PlansOf(log', other) = PlansOf(log, other)
               \cup (IF other = "policy_decided" THEN {0} ELSE {})
               \cup (IF other = "plan_created" THEN {round} ELSE {})
          /\ RoundsOf(log', other) = RoundsOf(log, other)
               \cup (IF other \in {"policy_decided", "plan_created"} THEN {round} ELSE {})
    BY <1>1, <2>1, CreatedNames
  <2>3. PlansOf(log', "plan_created") = created \cup {round}
    BY <2>2
  <2>4. /\ PlansOf(log', "plan_scheduled") = scheduled
        /\ PlansOf(log', "plan_applied") = applied /\ PlansOf(log', "budget_spent") = spent
        /\ PlansOf(log', "cooldown_updated") = cooled /\ PlansOf(log', "plan_rejected") = rejected
        /\ PlansOf(log', "budget_released") = released
    BY <2>2
  <2>5. round \in RoundsOf(log', "policy_decided")
    BY <2>2
  <2>6. CASE DiscardPlan
    <3>1. pending' = {} /\ at' = "round" /\ round' = round + 1
      BY <2>1, <2>6 DEF DiscardPlan, NextRound
    <3>2. QED
      BY <1>1, <2>1, <2>3, <2>4, <3>1 DEF PlanLog, Handling
  <2>7. CASE SchedulePlan
    <3>1. {p.id : p \in pending'} = {round} /\ at' = "log_scheduled" /\ round' = round
      BY <2>7 DEF SchedulePlan
    <3>2. QED
      BY <1>1, <2>1, <2>3, <2>4, <2>5, <3>1 DEF PlanLog, Handling
  <2>8. QED
    BY <1>3, <2>6, <2>7
<1>4. CASE LogScheduled
  <2>1. /\ \E p \in pending : Write("plan_scheduled", p.id)
        /\ at = "log_scheduled" /\ at' = "log_reserved" /\ round' = round /\ pending' = pending
    BY <1>4 DEF LogScheduled
  <2>2. /\ PlansOf(log', "plan_scheduled") = scheduled \cup open
        /\ PlansOf(log', "plan_created") = created
        /\ PlansOf(log', "plan_applied") = applied /\ PlansOf(log', "budget_spent") = spent
        /\ PlansOf(log', "cooldown_updated") = cooled /\ PlansOf(log', "plan_rejected") = rejected
        /\ PlansOf(log', "budget_released") = released
        /\ RoundsOf(log', "policy_decided") = RoundsOf(log, "policy_decided")
        /\ {p.id : p \in pending'} = open
    BY <1>1, <2>1, PlanTraced DEF Traced
  <2>3. QED
    BY <1>1, <2>1, <2>2 DEF PlanLog, Handling
<1>5. CASE LogApplied
  <2>1. /\ \E p \in pending : Write("plan_applied", p.id)
        /\ at = "log_applied" /\ at' = "log_spent" /\ round' = round /\ pending' = pending
    BY <1>5 DEF LogApplied
  <2>2. /\ PlansOf(log', "plan_applied") = applied \cup open
        /\ PlansOf(log', "plan_created") = created
        /\ PlansOf(log', "plan_scheduled") = scheduled /\ PlansOf(log', "budget_spent") = spent
        /\ PlansOf(log', "cooldown_updated") = cooled /\ PlansOf(log', "plan_rejected") = rejected
        /\ PlansOf(log', "budget_released") = released /\ {p.id : p \in pending'} = open
    BY <1>1, <2>1, PlanTraced DEF Traced
  <2>3. QED
    BY <1>1, <2>1, <2>2 DEF PlanLog, Handling
<1>6. CASE LogSpent
  <2>1. /\ \E p \in pending : Write("budget_spent", p.id)
        /\ at = "log_spent" /\ at' = "log_cooldown" /\ round' = round /\ pending' = pending
    BY <1>6 DEF LogSpent
  <2>2. /\ PlansOf(log', "budget_spent") = spent \cup open
        /\ PlansOf(log', "plan_created") = created
        /\ PlansOf(log', "plan_scheduled") = scheduled /\ PlansOf(log', "plan_applied") = applied
        /\ PlansOf(log', "cooldown_updated") = cooled /\ PlansOf(log', "plan_rejected") = rejected
        /\ PlansOf(log', "budget_released") = released /\ {p.id : p \in pending'} = open
    BY <1>1, <2>1, PlanTraced DEF Traced
  <2>3. QED
    BY <1>1, <2>1, <2>2 DEF PlanLog, Handling
<1>7. CASE LogCooldown
  <2>1. /\ \E p \in pending : Write("cooldown_updated", p.id)
        /\ at = "log_cooldown" /\ at' = "asking" /\ round' = round /\ pending' = {}
    BY <1>7 DEF LogCooldown
  <2>2. /\ PlansOf(log', "cooldown_updated") = cooled \cup open
        /\ PlansOf(log', "plan_created") = created
        /\ PlansOf(log', "plan_scheduled") = scheduled /\ PlansOf(log', "plan_applied") = applied
        /\ PlansOf(log', "budget_spent") = spent /\ PlansOf(log', "plan_rejected") = rejected
        /\ PlansOf(log', "budget_released") = released
    BY <1>1, <2>1, PlanTraced DEF Traced
  <2>3. QED
    BY <1>1, <2>1, <2>2 DEF PlanLog, Handling
<1>8. CASE LogRejected
  <2>1. /\ \E p \in pending : Write("plan_rejected", p.id)
        /\ at = "log_rejected" /\ at' = "log_released" /\ round' = round /\ pending' = pending
    BY <1>8 DEF LogRejected
  <2>2. /\ PlansOf(log', "plan_rejected") = rejected \cup open
        /\ PlansOf(log', "plan_created") = created
        /\ PlansOf(log', "plan_scheduled") = scheduled /\ PlansOf(log', "plan_applied") = applied
        /\ PlansOf(log', "budget_spent") = spent /\ PlansOf(log', "cooldown_updated") = cooled
        /\ PlansOf(log', "budget_released") = released /\ {p.id : p \in pending'} = open
    BY <1>1, <2>1, PlanTraced DEF Traced
  <2>3. QED
    BY <1>1, <2>1, <2>2 DEF PlanLog, Handling
<1>9. CASE LogReleased
  <2>1. /\ \E p \in pending : Write("budget_released", p.id)
        /\ at = "log_released" /\ at' = "asking" /\ round' = round /\ pending' = {}
    BY <1>9 DEF LogReleased
  <2>2. /\ PlansOf(log', "budget_released") = released \cup open
        /\ PlansOf(log', "plan_created") = created
        /\ PlansOf(log', "plan_scheduled") = scheduled /\ PlansOf(log', "plan_applied") = applied
        /\ PlansOf(log', "budget_spent") = spent /\ PlansOf(log', "cooldown_updated") = cooled
        /\ PlansOf(log', "plan_rejected") = rejected
    BY <1>1, <2>1, PlanTraced DEF Traced
  <2>3. QED
    BY <1>1, <2>1, <2>2 DEF PlanLog, Handling
<1>10. QED
  BY <1>1, <1>2, <1>3, <1>4, <1>5, <1>6, <1>7, <1>8, <1>9 DEF Next

-----------------------------------------------------------------------------
(* The last event, and what replay makes of the whole log. *)

\* The last event leaves everything to rounds and plans as it was; if it is
\* the right one, the whole log is accepted but for unanswered requests.
LEMMA LastEvent ==
  ASSUME SafeInv, TidyLog, sequence = Len(log), NEW status \in {"completed", "failed"},
         Write(IF status = "completed" THEN "run_completed" ELSE "run_failed", 0),
         pending = {}, at \in {"finish", "log_failed"}, status = "completed" => at = "finish"
  PROVE  /\ ReplayAccepts(log', status) <=> Answered(log')
         /\ log' # <<>> /\ sequence' = Len(log')
<1> DEFINE type == IF status = "completed" THEN "run_completed" ELSE "run_failed"
<1>1. /\ type \in EventTypes \ (PlanTypes \cup Single) /\ type \in Terminal /\ type \in EventTypes
      /\ Write(type, 0) /\ 0 \in Nat
  BY DEF EventTypes, PlanTypes, Single, Terminal
<1>2. /\ TypeOK /\ OrderedLog(log) /\ RoundLog /\ PlanLog /\ round \in Nat /\ MaxRounds \in Nat
  BY RoundAssumption DEF SafeInv, TypeOK, TidyLog, Rounds
<1> HIDE DEF type
<1>3. /\ Begun(log') /\ Numbered(log') /\ NoDuplicates(log') /\ RulesKept(log')
      /\ Of(log', Terminal) = IF type \in Terminal THEN {Len(log')} ELSE {}
      /\ sequence' = Len(log') /\ log'[Len(log')].type = type
  BY <1>1, <1>2, PlainWrite
<1>4. EnvelopeValid(log')
  BY <1>1, <1>3 DEF EnvelopeValid, Begun, Numbered, Terminal
<1>5. \A other \in Single \cup PlanTypes :
        RoundsOf(log', other) = RoundsOf(log, other) /\ PlansOf(log', other) = PlansOf(log, other)
  <2>1. \A other \in Single \cup PlanTypes : other # type
    BY <1>1
  <2>2. QED
    BY <1>1, <1>2, <2>1, NamesStay
<1>6. RoundsValid(log', status)
  <2> DEFINE started == RoundsOf(log, "round_started")
             completed == RoundsOf(log, "round_completed")
  <2>1. RoundsOf(log', "round_started") = started /\ RoundsOf(log', "round_completed") = completed
    BY <1>5 DEF Single
  <2>2. completed \subseteq started /\ 0..round - 1 \subseteq completed /\ started \subseteq 0..round
    BY <1>2 DEF RoundLog
  <2>3. \A r \in started \ completed : r = round
    BY <1>2, <2>2
  <2>4. CASE status = "completed"
    <3>1. at = "finish"
      BY <2>4
    <3>2. round + 1 = MaxRounds /\ round \in completed
      BY <1>2, <3>1 DEF RoundLog, LastRound
    <3>3. completed = Rounds /\ started = Rounds
      <4> HIDE DEF started, completed
      <4>1. Rounds = 0..round
        BY <1>2, <3>2 DEF Rounds
      <4>2. \A r \in 0..round : r \in 0..round - 1 \/ r = round
        BY <1>2
      <4>3. 0..round \subseteq completed
        BY <2>2, <3>2, <4>2
      <4>4. QED
        BY <2>2, <4>1, <4>3
    <3>4. QED
      BY <2>1, <2>4, <3>3 DEF RoundsValid
  <2>5. CASE status = "failed"
    <3>1. \A r \in started \ completed : \A s \in started : s <= r
      BY <1>2, <2>2, <2>3
    <3>2. status # "completed"
      BY <2>5
    <3>3. QED
      BY <2>1, <2>2, <3>1, <3>2 DEF RoundsValid
  <2>6. QED
    BY <2>4, <2>5
<1>7. PlansSettled(log', status)
  <2>1. \A other \in PlanTypes :
          {log'[i].who : i \in Of(log', {other})} = PlansOf(log, other)
    BY <1>5 DEF PlansOf
  <2>2. {p.id : p \in pending} = {}
    OBVIOUS
  <2>3. /\ PlansOf(log, "budget_spent") = PlansOf(log, "plan_applied")
        /\ PlansOf(log, "plan_rejected") \subseteq PlansOf(log, "budget_released")
        /\ PlansOf(log, "plan_scheduled")
             \ (PlansOf(log, "plan_applied") \cup PlansOf(log, "plan_rejected")) = {}
    BY <1>2, <2>2 DEF PlanLog
  <2>4. QED
    BY <2>1, <2>3 DEF PlansSettled, PlanTypes
<1>8. log'[Len(log')].type = IF status = "completed" THEN "run_completed" ELSE "run_failed"
  BY <1>3 DEF type
<1>9. QED
  BY <1>3, <1>4, <1>6, <1>7, <1>8 DEF ReplayAccepts, LifecycleValid, RulesKept, Begun

\* Nothing of this is looked at before the run is recorded, nor after.
LEMMA LogStep ==
  ASSUME SafeInv, LogInv, [Next]_vars
  PROVE  LogInv'
<1>1. /\ TypeOK /\ PlaceInv /\ log \in Seq(Event) /\ sequence \in Nat /\ Len(log) \in Nat
      /\ log # <<>> /\ sequence >= Len(log)
  <2>1. TypeOK /\ PlaceInv
    BY DEF SafeInv
  <2>2. log \in Seq(Event) /\ sequence \in Nat
    BY <2>1 DEF TypeOK
  <2>3. Len(log) \in Nat
    BY <2>2, LenProperties
  <2>4. log # <<>> /\ sequence >= Len(log)
    BY DEF LogInv
  <2>5. QED
    BY <2>1, <2>2, <2>3, <2>4
<1>2. CASE UNCHANGED vars
  <2>1. UNCHANGED <<at, round, turn, pending, log, sequence, record>>
    BY <1>2 DEF vars
  <2>2. (RoundLog <=> RoundLog') /\ (TurnLog <=> TurnLog')
    BY <2>1 DEF RoundLog, TurnLog, LastRound
  <2>3. (PlanLog <=> PlanLog') /\ (NoneLost <=> NoneLost')
    BY <2>1 DEF PlanLog, NoneLost
  <2>4. (TidyLog <=> TidyLog') /\ (FinishedRunReplays <=> FinishedRunReplays')
    BY <2>1, <2>2, <2>3 DEF TidyLog, FinishedRunReplays
  <2>5. QED
    BY <2>1, <2>4 DEF LogInv
<1>3. CASE Next
  <2>1. at \notin Over
    BY <1>3 DEF Next, StartRound, ApplyPlan, LogApplied, LogSpent, LogCooldown, RejectPlan,
       LogRejected, LogReleased, Ask, Answer, LogAnswer, ProviderFails, CloseRound, DecideNothing,
       CancelAtEnd, DiscardPlan, SchedulePlan, LogScheduled, LogReserved, ControlFails, LogFails,
       NothingToRelease, ReleasePending, ReleaseRaises, LogCancelled, RecordFailure, Finish,
       Over, Writing, Handling
  <2>2. record = "none"
    BY <2>1 DEF LogInv
  <2>3. CASE LogFails
    BY <1>1, <2>1, <2>2, <2>3 DEF LogFails, LogInv, FinishedRunReplays, Over, Handling
  <2>4. CASE sequence > Len(log)
    <3>1. at \in Handling
      BY <2>1, <2>4 DEF LogInv, Over, Handling
    <3>2. NothingToRelease \/ ReleasePending \/ ReleaseRaises \/ LogCancelled \/ RecordFailure \/ LogFails
      BY <1>3, <3>1 DEF Next, StartRound, ApplyPlan, LogApplied, LogSpent, LogCooldown, RejectPlan,
         LogRejected, LogReleased, Ask, Answer, LogAnswer, ProviderFails, CloseRound, DecideNothing,
         CancelAtEnd, DiscardPlan, SchedulePlan, LogScheduled, LogReserved, ControlFails,
         Finish, Handling
    <3>3. CASE NothingToRelease \/ ReleasePending \/ ReleaseRaises
      <4>1. /\ UNCHANGED <<log, sequence, record>>
            /\ at' \in Handling \cup {"raised"}
        BY <3>3 DEF NothingToRelease, ReleasePending, ReleaseRaises, Handling
      <4>2. QED
        BY <1>1, <2>2, <2>4, <4>1 DEF LogInv, FinishedRunReplays
    <3>4. CASE LogCancelled
      <4>1. PICK p \in pending : Write("budget_released", p.id)
        BY <3>4 DEF LogCancelled
      <4>2. p.id \in Nat /\ "budget_released" \in EventTypes
        BY PendingType DEF EventTypes
      <4>3. log' = Append(log, NextEvent("budget_released", p.id)) /\ sequence' = sequence + 1
        BY <4>1 DEF Write, NextEvent
      <4>4. Len(log') = Len(log) + 1 /\ log' # <<>>
        BY <1>1, <4>2, <4>3, NextIsEvent, Appended
      <4>5. record' = "none" /\ at' = "log_failed"
        BY <2>2, <3>4 DEF LogCancelled
      <4>6. QED
        BY <1>1, <2>4, <4>3, <4>4, <4>5 DEF LogInv, FinishedRunReplays, Handling
    <3>5. CASE RecordFailure
      <4>1. Write("run_failed", 0) /\ record' = "failed" /\ at' = "raised"
        BY <3>5 DEF RecordFailure
      <4>2. log' = Append(log, NextEvent("run_failed", 0)) /\ sequence' = sequence + 1
        BY <4>1 DEF Write, NextEvent
      <4>3. NextEvent("run_failed", 0) \in Event /\ NextEvent("run_failed", 0).sequence = sequence + 1
        BY <1>1, NextIsEvent DEF EventTypes
      <4>4. /\ Len(log') = Len(log) + 1 /\ log' # <<>> /\ Len(log') \in DOMAIN log'
            /\ log'[Len(log')].sequence = sequence + 1
        BY <1>1, <4>2, <4>3, Appended
      <4>5. FinishedRunReplays'
        BY <1>1, <2>4, <4>4 DEF FinishedRunReplays
      <4>6. QED
        BY <1>1, <2>4, <4>1, <4>2, <4>4, <4>5 DEF LogInv, Over
    <3>6. QED
      BY <2>3, <3>2, <3>3, <3>4, <3>5
  <2>5. CASE sequence = Len(log) /\ ~LogFails
    <3>1. TidyLog
      BY <2>1, <2>5 DEF LogInv
    <3>2. CASE RecordFailure
      <4>1. Write("run_failed", 0) /\ record' = "failed" /\ at' = "raised" /\ at = "log_failed"
        BY <3>2 DEF RecordFailure
      <4>2. pending = {}
        BY <3>1, <4>1 DEF TidyLog, NoneLost, Handling
      <4>3. ReplayAccepts(log', "failed") <=> Answered(log')
        BY <2>5, <3>1, <4>1, <4>2, LastEvent
      <4>4. log' # <<>> /\ sequence' = Len(log')
        BY <2>5, <3>1, <4>1, <4>2, LastEvent
      <4>5. QED
        BY <1>1, <4>1, <4>3, <4>4 DEF LogInv, FinishedRunReplays, Over
    <3>3. CASE Finish
      <4>1. Write("run_completed", 0) /\ record' = "completed" /\ at' = "done" /\ at = "finish"
        BY <3>3 DEF Finish
      <4>2. pending = {}
        BY <1>1, <4>1 DEF PlaceInv
      <4>3. ReplayAccepts(log', "completed") <=> Answered(log')
        BY <2>5, <3>1, <4>1, <4>2, LastEvent
      <4>4. log' # <<>> /\ sequence' = Len(log')
        BY <2>5, <3>1, <4>1, <4>2, LastEvent
      <4>5. QED
        BY <1>1, <4>1, <4>3, <4>4 DEF LogInv, FinishedRunReplays, Over
    <3>4. CASE ~RecordFailure /\ ~Finish
      <4>1. Undisturbed
        BY <2>1, <2>5, <3>1, <3>4 DEF Undisturbed
      <4>2. OrderedLog(log') /\ sequence' = Len(log')
        BY <2>5, <3>1, <3>4, OrderStep
      <4>3. TidyLog'
        BY <4>1, <4>2, RoundLogStep, TurnLogStep, PlanLogStep, NoneLostStep DEF TidyLog
      <4>4. record' = "none"
        BY <1>3, <2>2, <3>4 DEF Next, StartRound, ApplyPlan, LogApplied, LogSpent, LogCooldown,
           RejectPlan, LogRejected, LogReleased, Ask, Answer, LogAnswer, ProviderFails, CloseRound,
           DecideNothing, CancelAtEnd, DiscardPlan, SchedulePlan, LogScheduled, LogReserved,
           ControlFails, LogFails, NothingToRelease, ReleasePending, ReleaseRaises, LogCancelled
      <4>5. log' # <<>> /\ Len(log') \in Nat
        <5>1. OrderedLog(log') => log' # <<>>
          BY DEF OrderedLog, Begun
        <5>2. sequence' \in Nat
          BY SafeStep DEF SafeInv, TypeOK
        <5>3. QED
          BY <4>2, <5>1, <5>2
      <4>6. QED
        BY <4>2, <4>3, <4>4, <4>5 DEF LogInv, FinishedRunReplays
    <3>5. QED
      BY <3>2, <3>3, <3>4
  <2>6. QED
    BY <1>1, <2>3, <2>4, <2>5
<1>4. QED
  BY <1>2, <1>3

\* The log of a recorded run, failed or completed, whose events could all be
\* written, passes replay validation just when every request has its response.
THEOREM FinishedRunsReplay == Spec => []FinishedRunReplays
<1>1. Init => LogInv
  <2>1. SUFFICES ASSUME Init PROVE LogInv
    OBVIOUS
  <2> DEFINE e == [type |-> "run_started", round |-> 0, who |-> 0, sequence |-> 1]
  <2>2. /\ log = <<e>> /\ sequence = 1 /\ at = "round" /\ round = 0 /\ record = "none" /\ pending = {}
    BY <2>1 DEF Init
  <2>3. e.type = "run_started" /\ e.sequence = 1
    OBVIOUS
  <2> HIDE DEF e
  <2>4. Len(log) = 1 /\ DOMAIN log = {1} /\ log[1] = e /\ log # <<>>
    BY <2>2
  <2>5. \A types : "run_started" \notin types => Of(log, types) = {}
    BY <2>3, <2>4 DEF Of
  <2>6. \A type : type # "run_started" =>
          PlansOf(log, type) = {} /\ PairsOf(log, type) = {} /\ RoundsOf(log, type) = {}
    BY <2>5 DEF PlansOf, PairsOf, RoundsOf
  <2>7. OrderedLog(log)
    <3>1. Begun(log) /\ Numbered(log)
      BY <2>3, <2>4 DEF Begun, Numbered
    <3>2. Of(log, Terminal) = {} /\ NoDuplicates(log)
      BY <2>5 DEF Terminal, NoDuplicates
    <3>3. RulesKept(log)
      BY <2>3, <2>4, RuleByType DEF RulesKept, RuleAt
    <3>4. QED
      BY <3>1, <3>2, <3>3 DEF OrderedLog
  <2>8. RoundLog /\ TurnLog /\ NoneLost
    BY <2>2, <2>6 DEF RoundLog, TurnLog, NoneLost, Handling
  <2>9. PlanLog
    BY <2>2, <2>6 DEF PlanLog, Handling
  <2>10. QED
    BY <2>2, <2>4, <2>7, <2>8, <2>9 DEF LogInv, TidyLog, FinishedRunReplays
<1>2. SafeInv /\ LogInv /\ [Next]_vars => LogInv'
  BY LogStep
<1>3. LogInv => FinishedRunReplays
  BY DEF LogInv
<1>4. QED
  BY <1>1, <1>2, <1>3, SafeAlways, PTL DEF Spec
=============================================================================
