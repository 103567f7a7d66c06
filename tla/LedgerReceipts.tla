--------------------------- MODULE LedgerReceipts ---------------------------
(***************************************************************************)
(* The receipts of request_ledger.py and what LedgeredProvider.complete    *)
(* decides from them.  A request stands for its fingerprint: the digest    *)
(* covers the content and the settings, so two requests are the same       *)
(* exactly when their fingerprints are.  Key[r] is the request_key, the    *)
(* digest of the coordinates alone (condition, phase, agent, round, probe).*)
(* A ledger is the sequence of its receipt lines.                          *)
(***************************************************************************)
EXTENDS Naturals, Sequences, FiniteSets, FiniteSetsExt

CONSTANTS Requests,        \* request fingerprints
          Key,             \* [Requests -> request keys]
          Phase,           \* [Requests -> {"agent_turn", "probe"}]
          MaxTokens,       \* [Requests -> Nat], LLMRequest.max_tokens
          RequestCap,
          ReservationCap,
          MaxRecovery      \* max_recovery_attempts

\* The constructor refuses caps that are not positive and a negative
\* recovery limit; the phase is one of the coordinates a key digests.
ASSUME LedgerAssumption ==
  /\ IsFiniteSet(Requests)
  /\ Phase \in [Requests -> {"agent_turn", "probe"}]
  /\ MaxTokens \in [Requests -> Nat]
  /\ RequestCap \in Nat \ {0}
  /\ ReservationCap \in Nat \ {0}
  /\ MaxRecovery \in Nat
  /\ \A r, s \in Requests : Key[r] = Key[s] => Phase[r] = Phase[s]

RecoveryPhases == {"probe"}

Receipt == [req : Requests,
            status : {"started", "completed", "failed"},
            attempt : Nat \ {0},
            recovery : BOOLEAN]        \* recovery_kind is set

\* What the constructor fixes for one LedgeredProvider, and its one field.
Provider == [resume : BOOLEAN, allowed : SUBSET Requests, consumed : BOOLEAN]

-----------------------------------------------------------------------------

StartsOf(log, r) ==
  {i \in DOMAIN log : log[i].req = r /\ log[i].status = "started"}

TerminalsOf(log, r) ==
  {i \in DOMAIN log : log[i].req = r /\ log[i].status \in {"completed", "failed"}}

RecoveriesOf(log, r) == {i \in StartsOf(log, r) : log[i].recovery}

StartedRequests(log) == {r \in Requests : StartsOf(log, r) # {}}

ReservedTokens(log) ==
  MapThenSumSet(LAMBDA r : MaxTokens[r], StartedRequests(log))

\* The status of the terminal receipt with the highest attempt_count.
LatestStatus(log, r) ==
  IF TerminalsOf(log, r) = {} THEN "none"
  ELSE log[CHOOSE i \in TerminalsOf(log, r) :
             \A j \in TerminalsOf(log, r) : log[j].attempt <= log[i].attempt].status

Conflicts(log, r) == \E i \in DOMAIN log : Key[log[i].req] = Key[r] /\ log[i].req # r

Allowed(p, r) == r \in p.allowed /\ Phase[r] \in RecoveryPhases

\* A provider opened to recover one answer refuses anything the ledger has
\* no terminal receipt of until that recovery has been made.
OutsideRecovery(log, p, r) ==
  /\ p.allowed # {} /\ ~p.consumed
  /\ LatestStatus(log, r) = "none"
  /\ ~Allowed(p, r)

IsRecovery(log, r) == LatestStatus(log, r) = "completed"

IsFresh(log, r) == StartsOf(log, r) = {}

NoReplay(log, p, r) == IsRecovery(log, r) => p.resume /\ Allowed(p, r)

\* A slip that tests the limit after the attempt it is about to make.
RecoveryLeftInclusive(log, r) ==
  IsRecovery(log, r) => Cardinality(RecoveriesOf(log, r)) <= MaxRecovery

RecoveryLeft(log, r) ==
  IsRecovery(log, r) => Cardinality(RecoveriesOf(log, r)) < MaxRecovery

ResumeGiven(log, p, r) ==
  ~IsRecovery(log, r) /\ ~IsFresh(log, r) => p.resume

UnderRequestCap(log, r) ==
  IsFresh(log, r) => Cardinality(StartedRequests(log)) < RequestCap

UnderReservationCap(log, r) ==
  IsFresh(log, r) => ReservedTokens(log) + MaxTokens[r] <= ReservationCap

\* The first refusal complete() raises, in the order it checks them; "none"
\* when the request is admitted.
Refusal(log, p, r) ==
  IF Conflicts(log, r) THEN "request_fingerprint_mismatch"
  ELSE IF OutsideRecovery(log, p, r) THEN "parser_recovery_fingerprint_changed"
  ELSE IF ~NoReplay(log, p, r) THEN "completed_request_fingerprint_exists"
  ELSE IF ~RecoveryLeft(log, r) THEN "parser_recovery_attempt_limit_reached"
  ELSE IF ~ResumeGiven(log, p, r) THEN "request_requires_resume"
  ELSE IF ~UnderRequestCap(log, r) THEN "request_cap_reached"
  ELSE IF ~UnderReservationCap(log, r) THEN "completion_reservation_cap_reached"
  ELSE "none"

-----------------------------------------------------------------------------

NextAttempt(log, r) == 1 + Cardinality(StartsOf(log, r))

StartReceipt(log, r) ==
  [req |-> r, status |-> "started", attempt |-> NextAttempt(log, r),
   recovery |-> IsRecovery(log, r)]

\* The terminal receipt repeats its start receipt with the outcome.
EndReceipt(start, outcome) == [start EXCEPT !.status = outcome]

\* A slip that never notes the recovery.
NeverConsumes(log, p, r) == p

\* _recovery_consumed is set once a recovery is let through.
Consume(log, p, r) == [p EXCEPT !.consumed = @ \/ IsRecovery(log, r)]
=============================================================================
