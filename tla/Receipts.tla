----------------------------- MODULE Receipts ------------------------------
(***************************************************************************)
(* The records of queueing/receipts.py and what the program reads out of   *)
(* receipts.jsonl (here a sequence, oldest first) and out of the latest    *)
(* receipt of a key.  Evidence is a Boolean: whether a record carries a    *)
(* platform id, a post URL, a positive flag or a positive id.              *)
(***************************************************************************)
EXTENDS Naturals, Sequences, FiniteSets

SuccessStatuses == {"published", "submitted", "scheduled"}

Attempt(key, account, dry, status, evidence, category, day) ==
  [event |-> "attempt", key |-> key, account |-> account, dry |-> dry,
   status |-> status, evidence |-> evidence, category |-> category, day |-> day]

\* resume() and clear_failures(): an event without key, status or evidence.
ResumeEvent(account, day) ==
  [event |-> "resume", account |-> account, day |-> day]

IsSuccess(r) == /\ r.event = "attempt"
                /\ ~r.dry
                /\ r.status \in SuccessStatuses
                /\ r.evidence

\* write_attempt's last step: a success stays the latest receipt of its key
\* until another success replaces it.  None is the missing file.
LatestAfter(previous, r, None) ==
  IF previous # None /\ IsSuccess(previous) /\ ~IsSuccess(r) THEN previous ELSE r

FailureStepCountingSkips(account, failures, r) ==                   \* mutant
  IF r.account # account THEN failures
  ELSE IF r.event = "resume" \/ IsSuccess(r) THEN 0 ELSE failures + 1

\* consecutive_failures: one pass over the log, oldest record first; failures[n] is the
\* count after n records.
FailureStep(account, failures, r) ==
  IF r.account # account THEN failures
  ELSE IF r.event = "resume" THEN 0
  ELSE IF r.dry THEN failures
  ELSE IF IsSuccess(r) THEN 0
  ELSE IF r.status # "skipped" THEN failures + 1 ELSE failures

ConsecutiveFailures(log, account) ==
  LET failures[n \in 0..Len(log)] ==
        IF n = 0 THEN 0 ELSE FailureStep(account, failures[n - 1], log[n])
  IN  failures[Len(log)]

\* _attempt_count: live records of a key, whatever their status.
AttemptCount(log, key) ==
  Cardinality({i \in DOMAIN log : /\ log[i].event = "attempt"
                                  /\ log[i].key = key /\ ~log[i].dry})

\* count_successes_on_date: over all platforms and accounts.
SuccessesOn(log, day) ==
  Cardinality({i \in DOMAIN log : IsSuccess(log[i]) /\ log[i].day = day})

\* retry_decision: a transient category, and an attempt within the budget, which
\* is one retry at most whatever the configuration says.
TransientCategories == {"network", "rate_limit", "platform_ui"}
RetryBudgetUnclamped(maxRetries) == maxRetries                       \* mutant
RetryBudget(maxRetries) == IF maxRetries > 1 THEN 1 ELSE maxRetries
RetryDecision(category, attempt, maxRetries) ==
  /\ category \in TransientCategories
  /\ attempt <= RetryBudget(maxRetries)
============================================================================
