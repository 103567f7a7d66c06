---------------------------- MODULE RequestLedger ----------------------------
(***************************************************************************)
(* LedgeredProvider (request_ledger.py) over its append-only receipt file, *)
(* across processes that stop anywhere.  A process opens the ledger with a *)
(* resume flag and, for the probe provider, an allow-list of fingerprints; *)
(* complete() decides from the receipts alone, appends a started receipt,  *)
(* calls the wrapped provider and appends a terminal receipt.              *)
(***************************************************************************)
EXTENDS LedgerReceipts

CONSTANTS Allowlists,      \* the recovery_fingerprints a process may be given
          MaxReceipts      \* bound on the file: no new call starts beyond it

ASSUME SessionAssumption ==
  /\ Allowlists \subseteq SUBSET Requests
  /\ MaxReceipts \in Nat

VARIABLES entries,     \* the readable receipt lines of the file
          torn,        \* the file ends in a line that does not parse
          provider,    \* the probe provider of the running process
          stage,       \* where the process is in complete()
          transports   \* calls the wrapped provider has received, per request

vars == <<entries, torn, provider, stage, transports>>

Stages == {"closed", "idle", "receipted", "sent"}

TypeOK ==
  /\ entries \in Seq(Receipt)
  /\ torn \in BOOLEAN
  /\ provider \in Provider
  /\ stage \in Stages
  /\ transports \in [Requests -> Nat]

\* What a provider's memory counts for once its process is gone: nothing.
NoProvider == [resume |-> FALSE, allowed |-> {}, consumed |-> FALSE]

Init ==
  /\ entries = <<>>
  /\ torn = FALSE
  /\ provider = NoProvider
  /\ stage = "closed"
  /\ transports = [r \in Requests |-> 0]

-----------------------------------------------------------------------------

\* Agent turns go through a provider of their own, with no allow-list.
ProviderFor(r) ==
  IF Phase[r] = "probe" THEN provider ELSE [provider EXCEPT !.allowed = {}]

\* A process starts and wraps its two providers around the ledger.
Open(resume, allowed) ==
  /\ stage = "closed"
  /\ stage' = "idle"
  /\ provider' = [resume |-> resume, allowed |-> allowed, consumed |-> FALSE]
  /\ UNCHANGED <<entries, torn, transports>>

\* A slip that charges the caps for what was completed, not for what was started.
AdmitsOnCompleted(r) ==
  /\ ~torn
  /\ Refusal(SelectSeq(entries, LAMBDA e : e.status = "completed"), ProviderFor(r), r)
       = "none"

\* complete() up to the call: every check passes.
Admits(r) == ~torn /\ Refusal(entries, ProviderFor(r), r) = "none"

\* A slip that writes the receipt of a retry under the attempt it retries.
ReusedAttempt(r) ==
  [StartReceipt(entries, r) EXCEPT !.attempt = IF @ > 1 THEN @ - 1 ELSE @]

\* A slip that leaves the recovery kind off the receipt.
UntaggedRecovery(r) == [StartReceipt(entries, r) EXCEPT !.recovery = FALSE]

NewReceipt(r) == StartReceipt(entries, r)

\* A slip that writes no new start receipt for a retry.
AdmitRetrySilently(r) ==
  /\ stage = "idle" /\ Len(entries) < MaxReceipts
  /\ Admits(r)
  /\ entries' = IF IsFresh(entries, r) THEN Append(entries, NewReceipt(r)) ELSE entries
  /\ provider' = Consume(entries, provider, r)
  /\ stage' = "receipted"
  /\ UNCHANGED <<torn, transports>>

Admit(r) ==
  /\ stage = "idle" /\ Len(entries) < MaxReceipts
  /\ Admits(r)
  /\ entries' = Append(entries, NewReceipt(r))
  /\ provider' = Consume(entries, provider, r)
  /\ stage' = "receipted"
  /\ UNCHANGED <<torn, transports>>

\* The call in flight is the one whose receipt was written last.
InFlight == entries[Len(entries)]

Transport ==
  /\ stage = "receipted"
  /\ stage' = "sent"
  /\ transports' = [transports EXCEPT ![InFlight.req] = @ + 1]
  /\ UNCHANGED <<entries, torn, provider>>

\* The wrapped provider answers or raises; either way a receipt says so.
Answer(outcome) ==
  /\ stage = "sent"
  /\ entries' = Append(entries, EndReceipt(InFlight, outcome))
  /\ stage' = "idle"
  /\ UNCHANGED <<torn, provider, transports>>

\* The terminal receipt cannot be written: the error leaves complete(), the
\* process lives on, and the attempt keeps no terminal receipt.
AnswerUnwritten ==
  /\ stage = "sent"
  /\ stage' = "idle"
  /\ UNCHANGED <<entries, torn, provider, transports>>

\* The process ends, by itself or by a crash, wherever it is.
Stop ==
  /\ stage # "closed"
  /\ stage' = "closed"
  /\ provider' = NoProvider
  /\ UNCHANGED <<entries, torn, transports>>

\* The process dies inside append() and leaves part of a line.
TearReceipt ==
  /\ ~torn
  /\ stage = "sent" \/ (stage = "idle" /\ \E r \in Requests : Admits(r))
  /\ torn' = TRUE
  /\ stage' = "closed"
  /\ provider' = NoProvider
  /\ UNCHANGED <<entries, transports>>

Next ==
  \/ \E resume \in BOOLEAN, allowed \in Allowlists : Open(resume, allowed)
  \/ \E r \in Requests : Admit(r)
  \/ Transport
  \/ \E outcome \in {"completed", "failed"} : Answer(outcome)
  \/ AnswerUnwritten
  \/ Stop
  \/ TearReceipt

Spec == Init /\ [][Next]_vars

-----------------------------------------------------------------------------

\* Neither cap is ever exceeded, whatever is retried, recovered or left
\* without a terminal receipt: the caps count started fingerprints over the
\* whole file, and complete() lets no retry or recovery add one.
RequestCapHolds == Cardinality(StartedRequests(entries)) <= RequestCap

ReservationCapHolds == ReservedTokens(entries) <= ReservationCap

CapsRespected == RequestCapHolds /\ ReservationCapHolds

\* The attempts of one request are numbered 1, 2, 3... in file order, and a
\* terminal receipt comes after the start receipt of its own attempt, at most
\* one per attempt: what _latest_terminal and _terminal_entries rely on when
\* they pick by attempt_count.
AttemptsLinear ==
  \A j \in DOMAIN entries :
    LET e == entries[j]
        earlier == {i \in StartsOf(entries, e.req) : i < j}
    IN  IF e.status = "started"
        THEN e.attempt = 1 + Cardinality(earlier)
        ELSE /\ \E i \in earlier : entries[i].attempt = e.attempt
             /\ \A i \in TerminalsOf(entries, e.req) :
                  entries[i].attempt = e.attempt => i = j

\* Nothing is sent that the file does not already show as started, and nothing
\* is shown as finished that was not sent: the receipts bound what the
\* provider has seen, through every crash between the three steps.
WriteAhead ==
  \A r \in Requests :
    /\ transports[r] <= Cardinality(StartsOf(entries, r))
    /\ Cardinality(TerminalsOf(entries, r)) <= transports[r]

\* A request is recovered at most MaxRecovery times over the life of the file,
\* however many processes are allowed to recover it, and only probes are.
RecoveryBounded ==
  \A r \in Requests :
    /\ Cardinality(RecoveriesOf(entries, r)) <= MaxRecovery
    /\ RecoveriesOf(entries, r) # {} => Phase[r] \in RecoveryPhases

\* A request that once completed is started again only from an authorised
\* recovery on: between a completed receipt and any later start of the same
\* request, that start included, there is a start tagged as a recovery.
ReplayBeginsWithRecovery ==
  \A r \in Requests : \A j \in StartsOf(entries, r), i \in TerminalsOf(entries, r) :
    i < j /\ entries[i].status = "completed"
      => \E k \in RecoveriesOf(entries, r) : i < k /\ k <= j

-----------------------------------------------------------------------------

\* The strengthening the proofs go by.  A call in flight has just written its
\* start receipt; a terminal receipt directly follows the start receipt of its
\* attempt; the step a call is at says which of its two counts is still behind.
CallInv == stage \in {"receipted", "sent"} => entries # <<>> /\ InFlight.status = "started"

EndFollowsStart ==
  \A j \in DOMAIN entries : entries[j].status # "started" =>
    /\ j > 1
    /\ entries[j - 1].status = "started"
    /\ entries[j] = EndReceipt(entries[j - 1], entries[j].status)

At(s, r) == IF stage = s /\ InFlight.req = r THEN 1 ELSE 0

CountsBehind ==
  \A r \in Requests :
    /\ transports[r] + At("receipted", r) <= Cardinality(StartsOf(entries, r))
    /\ Cardinality(TerminalsOf(entries, r)) + At("sent", r) <= transports[r]

StartsNumbered ==
  \A j \in DOMAIN entries : entries[j].status = "started" =>
    entries[j].attempt = 1 + Cardinality({i \in StartsOf(entries, entries[j].req) : i < j})

LedgerInv ==
  /\ TypeOK /\ CallInv /\ EndFollowsStart /\ CountsBehind /\ StartsNumbered
  /\ RequestCapHolds /\ RecoveryBounded /\ ReplayBeginsWithRecovery
=============================================================================
