----------------------------- MODULE OneShotGates -----------------------------
(***************************************************************************)
(* The one-shot gates of the source-relation studies: four compatibility   *)
(* gates (v1 .. v4) that send one request each, two structure              *)
(* qualifications (q1 after v1, q2 after v4) and the behaviour             *)
(* qualification b3 after q2, which send one request a case.  A gate that  *)
(* failed is consumed: the claim file of its attempt stays, and the next   *)
(* gate binds that claim as its parent.                                    *)
(*                                                                         *)
(* A gate is run by hand from a command line, so two launches may overlap. *)
(* What they share is the file system; each step below is the stretch of   *)
(* a launch between two of its accesses to a shared file.                  *)
(***************************************************************************)
EXTENDS Integers

CONSTANTS Launchers,    \* command lines in which gates are run
          Cases,        \* cases of a qualification: REQUEST_CAP
          MaxLaunches, MaxEdits, MaxFaults

ASSUME GateAssumption ==
  /\ Cases \in Nat \ {0}
  /\ MaxLaunches \in Nat /\ MaxEdits \in Nat /\ MaxFaults \in Nat

Compat == {"v1", "v2", "v3", "v4"}
Quals == {"q1", "q2", "b3"}
Gates == Compat \cup Quals

VARIABLES files,     \* configuration, approval and module of a gate
          claim,     \* the attempt claim is there
          receipt,   \* the attempt receipt
          output,    \* the output directory of a qualification
          proc,      \* where each launch is
          sent,      \* requests of a gate that reached the transport (history)
          hurt,      \* gates a launch of which died or failed to write (history)
          launches, edits, faults

gateVars == <<files, claim, receipt, output, proc, sent, hurt, launches, edits, faults>>

(* What the files that govern a gate are: awaiting review, accepted in the   *)
(* very bytes later gates bind, accepted in other bytes, or at variance with *)
(* the hashes they bind.                                                     *)
FileStates == {"pending", "accepted", "resigned", "edited"}

(* What a launch freezes: its own files, and the receipt it rests on, named  *)
(* by the launch that wrote it.                                              *)
Bindings == [own : FileStates, parent : Nat]
NoBinding == [own |-> "pending", parent |-> 0]

Receipts == [status : {"none", "passed", "failed"}, cases : Nat, bound : Bindings, by : Nat]
NoReceipt == [status |-> "none", cases |-> 0, bound |-> NoBinding, by |-> 0]

Outputs == [made : BOOLEAN, audits : Nat, by : Nat]
NoOutput == [made |-> FALSE, audits |-> 0, by |-> 0]

Steps == {"idle", "started", "looked", "frozen", "holding", "ready", "inflight", "answered",
          "directory", "audits", "rechecking", "linking", "releasing"}

Launch == [at : Steps, gate : Gates, id : Nat, bound : Bindings,
           calls : Nat,        \* requests of this launch
           done : 0..Cases,    \* cases with a safe audit
           ok : BOOLEAN,       \* no failure so far
           early : BOOLEAN]    \* no request of the gate had been sent when it began (history)

Nobody == [at |-> "idle", gate |-> "v1", id |-> 0, bound |-> NoBinding,
           calls |-> 0, done |-> 0, ok |-> TRUE, early |-> FALSE]

-----------------------------------------------------------------------------
(* Bindings.  "strict" is require_accepted. *)

Valid(g, strict) ==
  files[g] \in IF strict THEN {"accepted", "resigned"} ELSE FileStates \ {"edited"}

(* A parent as its children bind it: its files to the byte, its empty claim. *)
Consumed(g) == files[g] = "accepted" /\ claim[g]

V1Freezes(strict) == Valid("v1", strict)

V2Freezes(strict) == Valid("v2", strict) /\ Consumed("v1")

V3Freezes(strict) == Valid("v3", strict) /\ Consumed("v2") /\ receipt["v2"] = NoReceipt

V4Freezes(strict) ==
  /\ Valid("v4", strict)
  /\ \A g \in {"v1", "v2", "v3"} : Consumed(g) /\ receipt[g] = NoReceipt

(* The receipt a qualification rests on. *)
ParentOf(g) == [q1 |-> "v1", q2 |-> "v4", b3 |-> "q2"][g]

BindingOf(g) == [own |-> files[g],
                 parent |-> IF g \in Quals THEN receipt[ParentOf(g)].by ELSE 0]

(* A receipt loads while what it binds is what there is now. *)
Bound(g) == receipt[g] # NoReceipt /\ receipt[g].bound = BindingOf(g)

V1Loads == Bound("v1") /\ V1Freezes(FALSE)

V4Loads == Bound("v4") /\ V4Freezes(FALSE)

Q1Freezes(strict) == Valid("q1", strict) /\ Valid("v1", strict) /\ V1Loads

Q2Freezes(strict) == Valid("q2", strict) /\ files["v4"] = "accepted" /\ V4Loads

AuditsMatch(g) ==
  /\ output[g].audits = receipt[g].cases
  /\ output[g].by = receipt[g].by
  /\ receipt[g].status = "passed" => receipt[g].cases = Cases

Q2Loads == Bound("q2") /\ Q2Freezes(FALSE) /\ AuditsMatch("q2")

\* A slip: a failed qualification of structure is enough for b3.
B3FreezesOnAny(strict) == Valid("b3", strict) /\ files["q2"] = "accepted" /\ Q2Loads

B3Freezes(strict) ==
  /\ Valid("b3", strict)
  /\ files["q2"] = "accepted"
  /\ Q2Loads
  /\ receipt["q2"].status = "passed"

Freezes(g, strict) ==
  \/ g = "v1" /\ V1Freezes(strict)
  \/ g = "v2" /\ V2Freezes(strict)
  \/ g = "v3" /\ V3Freezes(strict)
  \/ g = "v4" /\ V4Freezes(strict)
  \/ g = "q1" /\ Q1Freezes(strict)
  \/ g = "q2" /\ Q2Freezes(strict)
  \/ g = "b3" /\ B3Freezes(strict)

(* _bindings_still_current *)
Current(p) == Freezes(proc[p].gate, TRUE) /\ proc[p].bound = BindingOf(proc[p].gate)

-----------------------------------------------------------------------------
(* Where a launch may begin: the first gates have failed before, in order;   *)
(* or v4 has passed after them and q2 was written to bind its receipt; or q2 *)
(* has passed too, and b3 was written to bind that.                          *)
Failed(n) == {<<"v1", "v2", "v3">>[i] : i \in 1..n}

Passed(cases) == [status |-> "passed", cases |-> cases, by |-> 0,
                  bound |-> [own |-> "accepted", parent |-> 0]]

InitWith(n, passed) ==
  /\ files = [g \in Gates |-> IF g \in {"q2", "b3"} /\ ParentOf(g) \notin passed
                               THEN "edited" ELSE "accepted"]
  /\ claim = [g \in Gates |-> g \in Failed(n)]
  /\ receipt = [g \in Gates |-> IF g \notin passed THEN NoReceipt
                                 ELSE Passed(IF g = "q2" THEN Cases ELSE 1)]
  /\ output = [g \in Quals |-> IF g \notin passed THEN NoOutput
                                ELSE [made |-> TRUE, audits |-> Cases, by |-> 0]]
  /\ proc = [p \in Launchers |-> Nobody]
  /\ sent = [g \in Gates |-> IF g \in Failed(n) THEN 1
                              ELSE IF g \in passed THEN receipt[g].cases ELSE 0]
  /\ hurt = {}
  /\ launches = 0 /\ edits = 0 /\ faults = 0

GatesInit ==
  \/ \E n \in 0..3 : InitWith(n, {})
  \/ \E passed \in {{"v4"}, {"v4", "q2"}} : InitWith(3, passed)

Go(p, step) == proc' = [proc EXCEPT ![p].at = step]
Leave(p) == proc' = [proc EXCEPT ![p] = Nobody]
DropClaim(g) == claim' = [claim EXCEPT ![g] = FALSE]
Counters == <<hurt, launches, edits, faults>>

-----------------------------------------------------------------------------
(* A launch up to its first request, the same text in every gate. *)

(* The first early return: the receipt or the output directory exists.       *)
LookForResult(p, g) ==
  /\ proc[p].at = "idle"
  /\ launches < MaxLaunches
  /\ IF g \in Compat THEN receipt[g] = NoReceipt ELSE output[g] = NoOutput
  /\ launches' = launches + 1
  /\ proc' = [proc EXCEPT ![p] = [Nobody EXCEPT !.at = "started", !.gate = g,
                                                !.id = launches + 1, !.early = (sent[g] = 0)]]
  /\ UNCHANGED <<files, claim, receipt, output, sent, hurt, edits, faults>>

(* The second: the claim exists.  By now another launch may have written the *)
(* result that was not there and released its claim.                         *)
LookForClaim(p) ==
  /\ proc[p].at = "started"
  /\ IF claim[proc[p].gate] THEN Leave(p) ELSE Go(p, "looked")
  /\ UNCHANGED <<files, claim, receipt, output, sent, Counters>>

Freeze(p) ==
  /\ proc[p].at = "looked"
  /\ \/ /\ Freezes(proc[p].gate, TRUE)
        /\ proc' = [proc EXCEPT ![p].at = "frozen", ![p].bound = BindingOf(proc[p].gate)]
     \/ /\ ~Freezes(proc[p].gate, TRUE)
        /\ Leave(p)
  /\ UNCHANGED <<files, claim, receipt, output, sent, Counters>>

\* A slip: the claim is opened without O_EXCL, for the look has found none.
AcquireUnchecked(p) ==
  /\ proc[p].at = "frozen"
  /\ claim' = [claim EXCEPT ![proc[p].gate] = TRUE]
  /\ Go(p, "holding")
  /\ UNCHANGED <<files, receipt, output, sent, Counters>>

(* O_CREAT | O_EXCL: the one test of a claim that is atomic with taking it. *)
Acquire(p) ==
  /\ proc[p].at = "frozen"
  /\ \/ /\ ~claim[proc[p].gate]
        /\ claim' = [claim EXCEPT ![proc[p].gate] = TRUE]
        /\ Go(p, "holding")
     \/ /\ claim[proc[p].gate]
        /\ Leave(p)
        /\ UNCHANGED claim
  /\ UNCHANGED <<files, receipt, output, sent, Counters>>

\* A slip: what is wrong before the request ends the launch with the claim kept.
PrepareAndKeep(p) ==
  /\ proc[p].at = "holding"
  /\ \/ Leave(p)
     \/ Current(p) /\ Go(p, "ready")
  /\ UNCHANGED <<files, claim, receipt, output, sent, Counters>>

(* Provider configuration, key and construction, then the bindings again:    *)
(* whatever is wrong gives the claim back, for nothing has been sent.        *)
Prepare(p) ==
  /\ proc[p].at = "holding"
  /\ \/ /\ DropClaim(proc[p].gate)
        /\ Leave(p)
     \/ /\ Current(p)
        /\ Go(p, "ready")
        /\ UNCHANGED claim
  /\ UNCHANGED <<files, receipt, output, sent, Counters>>

Release(p) ==
  /\ proc[p].at = "releasing"
  /\ DropClaim(proc[p].gate)
  /\ Leave(p)
  /\ UNCHANGED <<files, receipt, output, sent, Counters>>

Send(p) ==
  /\ sent' = [sent EXCEPT ![proc[p].gate] = @ + 1]
  /\ proc' = [proc EXCEPT ![p].at = "inflight", ![p].calls = @ + 1]

-----------------------------------------------------------------------------
(* A compatibility gate. *)

AskOnce(p) ==
  /\ proc[p].gate \in Compat /\ proc[p].at = "ready"
  /\ Send(p)
  /\ UNCHANGED <<files, claim, receipt, output, Counters>>

\* A slip: a failed answer gives the claim back like a failed preparation.
AnswerOnceOrRelease(p) ==
  /\ proc[p].gate \in Compat /\ proc[p].at = "inflight"
  /\ \/ Go(p, "releasing")
     \/ /\ Current(p)
        /\ proc' = [proc EXCEPT ![p].at = "answered", ![p].done = 1]
  /\ UNCHANGED <<files, claim, receipt, output, sent, Counters>>

(* An error, an answer that is no use, or bindings that changed meanwhile    *)
(* end the launch, with the claim kept.                                      *)
AnswerOnce(p) ==
  /\ proc[p].gate \in Compat /\ proc[p].at = "inflight"
  /\ \/ Leave(p)
     \/ /\ Current(p)
        /\ proc' = [proc EXCEPT ![p].at = "answered", ![p].done = 1]
  /\ UNCHANGED <<files, claim, receipt, output, sent, Counters>>

Register(p) ==
  /\ proc[p].at = "answered"
  /\ \/ Current(p) /\ Go(p, "linking")
     \/ ~Current(p) /\ Leave(p)
  /\ UNCHANGED <<files, claim, receipt, output, sent, Counters>>

ReceiptOf(p) == [status |-> IF proc[p].ok THEN "passed" ELSE "failed", cases |-> proc[p].done,
                 bound |-> proc[p].bound, by |-> proc[p].id]

(* os.link: never over a receipt that is there. *)
LinkReceipt(p) ==
  /\ proc[p].gate \in Compat /\ proc[p].at = "linking"
  /\ \/ /\ receipt[proc[p].gate] = NoReceipt
        /\ receipt' = [receipt EXCEPT ![proc[p].gate] = ReceiptOf(p)]
        /\ Go(p, "releasing")
     \/ /\ receipt[proc[p].gate] # NoReceipt
        /\ Leave(p)
        /\ UNCHANGED receipt
  /\ UNCHANGED <<files, claim, output, sent, Counters>>

CompatAttempt(p, g) ==
  \/ LookForResult(p, g)
  \/ /\ proc[p].gate = g
     /\ \/ LookForClaim(p) \/ Freeze(p) \/ Acquire(p) \/ Prepare(p)
        \/ AskOnce(p) \/ AnswerOnce(p) \/ Register(p) \/ LinkReceipt(p) \/ Release(p)

ExecuteV1(p) == CompatAttempt(p, "v1")

ExecuteV2(p) == CompatAttempt(p, "v2")

ExecuteV3(p) == CompatAttempt(p, "v3")

ExecuteV4(p) == CompatAttempt(p, "v4")

-----------------------------------------------------------------------------
(* A qualification. *)

\* A slip: the failure that breaks the loop is not noted.
FailUnnoted(p) == Go(p, "directory")

(* The case loop breaks at the first failure. *)
Fail(p) == proc' = [proc EXCEPT ![p].at = "directory", ![p].ok = FALSE]

(* build_cases fails: q1 and q2 go on to a failure receipt; b3 gives the     *)
(* claim back, which Prepare has already.                                    *)
BuildFails(p) ==
  /\ proc[p].gate \in {"q1", "q2"} /\ proc[p].at = "ready" /\ proc[p].done = 0
  /\ Fail(p)
  /\ UNCHANGED <<files, claim, receipt, output, sent, Counters>>

(* The bindings are read again before each case. *)
AskCase(p) ==
  /\ proc[p].gate \in Quals /\ proc[p].at = "ready" /\ proc[p].done < Cases
  /\ \/ ~Current(p) /\ Fail(p) /\ UNCHANGED sent
     \/ Current(p) /\ Send(p)
  /\ UNCHANGED <<files, claim, receipt, output, Counters>>

AnswerCase(p) ==
  /\ proc[p].gate \in Quals /\ proc[p].at = "inflight"
  /\ \/ Fail(p)
     \/ proc' = [proc EXCEPT ![p].at = "ready", ![p].done = @ + 1]
  /\ UNCHANGED <<files, claim, receipt, output, sent, Counters>>

Conclude(p) ==
  /\ proc[p].gate \in Quals /\ proc[p].at = "ready" /\ proc[p].done = Cases
  /\ proc' = [proc EXCEPT ![p].at = "directory", ![p].ok = Current(p)]
  /\ UNCHANGED <<files, claim, receipt, output, sent, Counters>>

(* Only b3 asks whether anything was sent before it writes a failure down.   *)
GiveBack(p) ==
  /\ proc[p].gate = "b3" /\ proc[p].at = "directory" /\ proc[p].calls = 0
  /\ DropClaim("b3")
  /\ Leave(p)
  /\ UNCHANGED <<files, receipt, output, sent, Counters>>

(* mkdir(exist_ok=False) *)
MakeDirectory(p) ==
  /\ proc[p].at = "directory"
  /\ proc[p].gate = "b3" => proc[p].calls > 0
  /\ \/ /\ output[proc[p].gate] = NoOutput
        /\ output' = [output EXCEPT ![proc[p].gate] = [NoOutput EXCEPT !.made = TRUE]]
        /\ Go(p, "audits")
     \/ /\ output[proc[p].gate] # NoOutput
        /\ Leave(p)
        /\ UNCHANGED output
  /\ UNCHANGED <<files, claim, receipt, sent, Counters>>

(* _atomic_create never replaces a file; no audit, no file. *)
WriteAudits(p) ==
  /\ proc[p].at = "audits"
  /\ output' = [output EXCEPT ![proc[p].gate] =
                  IF @.audits = 0 THEN [@ EXCEPT !.audits = proc[p].done, !.by = proc[p].id]
                                  ELSE @]
  /\ Go(p, IF proc[p].gate = "b3" THEN "linking" ELSE "rechecking")
  /\ UNCHANGED <<files, claim, receipt, sent, Counters>>

(* q1 and q2 read their bindings once more with the audits on disk. *)
Recheck(p) ==
  /\ proc[p].at = "rechecking"
  /\ proc' = [proc EXCEPT ![p].at = "linking", ![p].ok = @ /\ Current(p)]
  /\ UNCHANGED <<files, claim, receipt, output, sent, Counters>>

(* A failure is written down and keeps the claim; a pass releases it. *)
WriteAttemptReceipt(p) ==
  /\ proc[p].gate \in Quals /\ proc[p].at = "linking"
  /\ receipt' = [receipt EXCEPT ![proc[p].gate] = IF @ = NoReceipt THEN ReceiptOf(p) ELSE @]
  /\ IF proc[p].ok /\ receipt[proc[p].gate] = NoReceipt THEN Go(p, "releasing") ELSE Leave(p)
  /\ UNCHANGED <<files, claim, output, sent, Counters>>

QualAttempt(p, g) ==
  \/ LookForResult(p, g)
  \/ /\ proc[p].gate = g
     /\ \/ LookForClaim(p) \/ Freeze(p) \/ Acquire(p) \/ Prepare(p)
        \/ AskCase(p) \/ AnswerCase(p) \/ Conclude(p)
        \/ MakeDirectory(p) \/ WriteAudits(p) \/ WriteAttemptReceipt(p) \/ Release(p)

ExecuteQ1(p) ==
  QualAttempt(p, "q1") \/ (proc[p].gate = "q1" /\ (BuildFails(p) \/ Recheck(p)))

ExecuteQ2(p) ==
  QualAttempt(p, "q2") \/ (proc[p].gate = "q2" /\ (BuildFails(p) \/ Recheck(p)))

ExecuteB3(p) == QualAttempt(p, "b3") \/ GiveBack(p)

-----------------------------------------------------------------------------
(* The world around the launches. *)

(* The process is killed, or a write fails and ends the launch where it is:  *)
(* either way no later step of it is taken and the claim is as it was.       *)
Crash(p) ==
  /\ proc[p].at # "idle"
  /\ faults < MaxFaults
  /\ faults' = faults + 1
  /\ hurt' = hurt \cup {proc[p].gate}
  /\ Leave(p)
  /\ UNCHANGED <<files, claim, receipt, output, sent, launches, edits>>

(* A researcher edits the files of a gate.  Those of q2 and b3 name a parent *)
(* receipt by its hash, so they cannot be in order before it exists.         *)
Edit(g, to) ==
  /\ edits < MaxEdits
  /\ to # files[g]
  /\ g \in {"q2", "b3"} /\ to # "edited" => receipt[ParentOf(g)] # NoReceipt
  /\ files' = [files EXCEPT ![g] = to]
  /\ edits' = edits + 1
  /\ UNCHANGED <<claim, receipt, output, proc, sent, hurt, launches, faults>>

GatesNext ==
  \/ \E p \in Launchers :
       \/ ExecuteV1(p) \/ ExecuteV2(p) \/ ExecuteV3(p) \/ ExecuteV4(p)
       \/ ExecuteQ1(p) \/ ExecuteQ2(p) \/ ExecuteB3(p)
       \/ Crash(p)
  \/ \E g \in Gates, to \in FileStates : Edit(g, to)

GateSpec == GatesInit /\ [][GatesNext]_gateVars

-----------------------------------------------------------------------------
(* The state is well formed. *)
GateTypeOK ==
  /\ files \in [Gates -> FileStates]
  /\ claim \in [Gates -> BOOLEAN]
  /\ receipt \in [Gates -> Receipts]
  /\ output \in [Quals -> Outputs]
  /\ proc \in [Launchers -> Launch]
  /\ sent \in [Gates -> Nat]
  /\ hurt \subseteq Gates
  /\ launches \in 0..MaxLaunches /\ edits \in 0..MaxEdits /\ faults \in 0..MaxFaults

Holding == Steps \ {"idle", "started", "looked", "frozen"}

Holds(p, g) == proc[p].gate = g /\ proc[p].at \in Holding

(* However a launch ends, a gate whose request reached the transport still   *)
(* shows it: by its claim or by its receipt.                                 *)
EvidenceKept == \A g \in Gates : sent[g] > 0 => claim[g] \/ receipt[g] # NoReceipt

(* No silent rerun: a launch holds the claim of a gate for which another has *)
(* sent a request only once the gate has passed, so that what failed or died *)
(* is never sent again.  Where that request was sent before the launch       *)
(* itself began, the pass is that of a launch it overlapped: one that began  *)
(* earlier and wrote its receipt between the two looks.                      *)
NoSilentRerun ==
  \A p \in Launchers : proc[p].at \in Holding =>
    LET known == receipt[proc[p].gate]
    IN  /\ sent[proc[p].gate] > proc[p].calls => known.status = "passed"
        /\ ~proc[p].early => known.status = "passed" /\ known.by \in 1..proc[p].id - 1

(* A gate is not used up for nothing: a claim nobody holds is one whose      *)
(* request was sent, whose launch died or could not write, or whose failure  *)
(* is written down.                                                          *)
ClaimExplained ==
  \A g \in Gates : claim[g] =>
    \/ \E p \in Launchers : Holds(p, g)
    \/ sent[g] > 0
    \/ g \in hurt
    \/ receipt[g].status = "failed"

(* A passed qualification rests on an audit of every case, written by the    *)
(* launch that wrote the receipt, and on a request for each.                 *)
QualifiedIsWhole ==
  \A g \in Quals : receipt[g].status = "passed" =>
    /\ receipt[g].cases = Cases /\ sent[g] >= Cases
    /\ output[g].audits = Cases /\ output[g].by = receipt[g].by

(* No request of a qualification is sent before the receipt it rests on is   *)
(* there, and for b3 it must be that of a pass.                              *)
LadderClimbed ==
  /\ sent["q1"] > 0 => receipt["v1"] # NoReceipt
  /\ sent["q2"] > 0 => receipt["v4"] # NoReceipt
  /\ sent["b3"] > 0 => receipt["q2"].status = "passed"

=============================================================================
