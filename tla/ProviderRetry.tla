---------------------------- MODULE ProviderRetry -----------------------------
(***************************************************************************)
(* OpenAICompatibleProvider.complete (openai_provider.py) below the ledger:*)
(* between a started receipt and its terminal one, a request is posted up  *)
(* to MaxRetries + 1 times.  The ledger sees one call.  Each step that the *)
(* ledger does see is a step of RequestLedger.                             *)
(***************************************************************************)
EXTENDS RequestLedger

CONSTANT MaxRetries      \* ProviderConfig.max_retries

ASSUME RetryAssumption == MaxRetries \in Nat

VARIABLES wire,       \* what the call in flight is about to do, or came back with
          retries     \* the retries it has used

retryVars == <<vars, wire, retries>>

RetryInit == Init /\ wire = "none" /\ retries = 0

(* A call that is over leaves its receipt, or cannot write it. *)
Ends(outcome) ==
  /\ Answer(outcome) \/ AnswerUnwritten
  /\ wire' = "none" /\ retries' = 0

Call == Transport /\ wire' = "ready" /\ retries' = 0

(* No network allowed, no URL, no model, no key. *)
Unready == wire = "ready" /\ retries = 0 /\ Ends("failed")

(* A post comes back with an answer, with what ends the call, or with what   *)
(* may be retried: a timeout, which may race an answer that was produced, a  *)
(* connection or URL failure, a body that is no UTF-8, 429, 5xx.             *)
Post ==
  /\ wire = "ready"
  /\ wire' \in {"answered", "fatal", "retryable"}
  /\ UNCHANGED <<vars, retries>>

\* A slip: the retry is not counted.
TryAgainUncounted ==
  /\ wire = "retryable" /\ retries < MaxRetries
  /\ wire' = "ready"
  /\ UNCHANGED <<vars, retries>>

TryAgain ==
  /\ wire = "retryable" /\ retries < MaxRetries
  /\ wire' = "ready" /\ retries' = retries + 1
  /\ UNCHANGED vars

GiveUp ==
  /\ wire = "fatal" \/ (wire = "retryable" /\ ~(retries < MaxRetries))
  /\ Ends("failed")

(* A 2xx answer may still be malformed, and is then not retried. *)
Parse == wire = "answered" /\ \E outcome \in {"completed", "failed"} : Ends(outcome)

(* The process opens the ledger or admits a request: no call is in flight.   *)
Outside ==
  /\ \/ \E resume \in BOOLEAN, allowed \in Allowlists : Open(resume, allowed)
     \/ \E r \in Requests : Admit(r)
  /\ UNCHANGED <<wire, retries>>

Dies == (Stop \/ TearReceipt) /\ wire' = "none" /\ retries' = 0

CallStep == Call \/ Post \/ TryAgain \/ GiveUp \/ Parse

RetryNext == Outside \/ CallStep \/ Unready \/ Dies

RetrySpec == RetryInit /\ [][RetryNext]_retryVars

(* The call runs on: every post has a timeout. *)
FairRetrySpec == RetrySpec /\ WF_retryVars(CallStep)

-----------------------------------------------------------------------------

(* A request that was announced in the file is ended, by a receipt or the    *)
(* end of its process: no outcome of the wire is retried without end.        *)
CallEnds == stage = "receipted" ~> stage \in {"idle", "closed"}
=============================================================================
