----------------------------- MODULE Publishing ----------------------------
(***************************************************************************)
(* orchestrator.py over the queue and the receipts: CLI processes that     *)
(* share one state root and run queue add, publish (now), publish next and *)
(* campaign build side by side.                                            *)
(*                                                                         *)
(* Every block under .queue.lock or .receipts.lock is one step here (its   *)
(* inner file operations are QueueStore's subject); between two blocks     *)
(* another process may run, and a process may die.  The platform is the    *)
(* environment: it answers a submit with any result the adapters can       *)
(* return.                                                                 *)
(*                                                                         *)
(* A request is its key and its dry_run flag; accounts are configured once *)
(* (Configured); a lease that ends is a recovery that may come at any time *)
(* after the claim, since a publish may take any time.                     *)
(***************************************************************************)
EXTENDS Receipts

CONSTANTS Workers,       \* CLI processes
          Keys,          \* idempotency keys, in the order their files sort
          AccountOf,     \* [Keys -> account]: the platform/account pair of a key
          Configured,    \* keys whose account matches the configuration
          Leftover,      \* keys an earlier configuration left in pending/
          None,          \* no such file
          Kinds,         \* commands that are run: subset of AllKinds
          LiveFlags,     \* values of the commands' live flag
          Answers,       \* what adapters return for a submit, see Answer
          GateFaults,    \* error categories with which a gate can stop an item
          DailyCap, RetryLimit, Threshold,   \* configuration
          MaxRestarts,   \* process_next's loop bound, 16 in the code
          Recovers,      \* BOOLEAN: does anything call recover_expired?
          MaxCommands,   \* bound: commands started
          MaxCrashes,    \* bound: processes killed
          MaxResumes,    \* bound: explicit resumes and successful probes
          MaxDay         \* bound: last day

AllKinds == {"add", "publish", "next", "campaign"}
Statuses == SuccessStatuses \cup {"skipped", "failed", "blocked", "unknown"}

ErrorCategory ==
  {"configuration", "dependency", "authentication", "identity_mismatch", "validation",
   "rights", "render", "network", "platform_ui", "rate_limit", "ambiguous_submit",
   "internal"}
Categories == ErrorCategory \cup {""}

\* An adapter's result.
Answer == [status: Statuses, evidence: BOOLEAN, category: Categories]

ASSUME PublishingConstants ==
  /\ Keys # {} /\ Keys \subseteq Nat /\ DOMAIN AccountOf = Keys
  /\ Configured \subseteq Keys /\ Leftover \subseteq Keys
  /\ Kinds \subseteq AllKinds /\ LiveFlags \subseteq BOOLEAN
  /\ \A a \in Answers : a \in Answer
  /\ GateFaults \subseteq Categories /\ IsFiniteSet(Workers)
  /\ DailyCap \in Nat \ {0} /\ RetryLimit \in Nat /\ Threshold \in Nat \ {0}
  /\ MaxRestarts \in Nat \ {0} /\ Recovers \in BOOLEAN
  /\ MaxCommands \in Nat /\ MaxCrashes \in Nat /\ MaxResumes \in Nat
  /\ MaxDay \in Nat

\* Contents of the files.
Accounts    == {AccountOf[k] : k \in Keys}
PendingFile == [dry: BOOLEAN]
ClaimFile   == [dry: BOOLEAN, token: Nat]
AttemptLine == [event: {"attempt"}, key: Keys, account: Accounts, dry: BOOLEAN,
                status: Statuses, evidence: BOOLEAN, category: Categories, day: Nat]
ResumeLine  == [event: {"resume"}, account: Accounts, day: Nat]

ASSUME NoneIsNoFile == None \notin PendingFile \cup ClaimFile \cup AttemptLine

VARIABLES pending,    \* [Keys -> None or [dry]]: queue/pending
          claims,     \* [Keys -> None or [dry, token]]: queue/claims
          log,        \* receipts.jsonl
          latest,     \* [Keys -> None or record]: the latest receipt files
          job,        \* [Workers -> Job]: what each process is doing
          lastToken, today,
          started, crashes, resumes,   \* counters behind the bounds
          seen        \* history: [Keys -> what the platform saw]

queue    == <<pending, claims>>
receipts == <<log, latest>>
bounds   == <<today, started, crashes, resumes>>
vars     == <<queue, receipts, job, lastToken, bounds, seen>>

AnyKey   == CHOOSE k \in Keys : TRUE
NoAnswer == [status |-> "skipped", evidence |-> FALSE, category |-> ""]
IdleJob  == [pc |-> "idle", kind |-> "add", live |-> FALSE, loop |-> 1,
             todo |-> {}, batch |-> {}, restarts |-> 0, key |-> AnyKey,
             queued |-> FALSE, dry |-> FALSE, token |-> 0, answer |-> NoAnswer]

\* glob() is sorted, destinations are a list: items come in a fixed order.
First(k, S) == k \in S /\ \A j \in S : k <= j

Init == /\ pending = [k \in Keys |-> IF k \in Leftover THEN [dry |-> FALSE]
                                                       ELSE None]
        /\ claims  = [k \in Keys |-> None]
        /\ log = <<>> /\ latest = [k \in Keys |-> None]
        /\ job = [w \in Workers |-> IdleJob]
        /\ lastToken = 0 /\ today = 0
        /\ started = 0 /\ crashes = 0 /\ resumes = 0
        /\ seen = [k \in Keys |-> [submits |-> 0, verified |-> 0,
                                   ambiguous |-> FALSE]]

----------------------------------------------------------------------------
\* The job record of a process moves on.

At(w, label)      == job[w].pc = label
Become(w, j)      == job' = [job EXCEPT ![w] = j]
Goto(w, label)    == Become(w, [job[w] EXCEPT !.pc = label])
Finish(w)         == Become(w, IdleJob)

\* The item is over.  Only run_campaign has more items after a result or an
\* exception of one; the other commands return it.
ItemDone(w) == IF job[w].kind = "campaign"
                 THEN Become(w, [job[w] EXCEPT !.pc = "pick", !.token = 0,
                                               !.answer = NoAnswer])
                 ELSE Finish(w)

RefusedFromTheTop(w) == IF job[w].kind = "campaign" THEN Goto(w, "pick") \* mutant
                        ELSE IF job[w].kind = "next" THEN Goto(w, "scan")
                        ELSE Finish(w)

\* _preclaim_result refused: process_next defers the item and looks on.
Refused(w) == IF job[w].kind \in {"next", "campaign"}
                THEN Goto(w, "pick") ELSE Finish(w)

\* _preclaim_result passed.
Admitted(w) == IF \/ job[w].kind = "next"
                  \/ job[w].kind = "campaign" /\ job[w].loop = 2
                 THEN Goto(w, "claim") ELSE Goto(w, "enqueue")

----------------------------------------------------------------------------
\* Commands start.

StartItem(w, kind, k, live) ==   \* queue add and publish: one request
  /\ At(w, "idle") /\ started < MaxCommands
  /\ kind \in Kinds \cap {"add", "publish"} /\ k \in Configured
  /\ Become(w, [IdleJob EXCEPT !.pc = "check_success", !.kind = kind,
                  !.live = live, !.key = k, !.queued = ~live, !.dry = ~live])
  /\ started' = started + 1
  /\ UNCHANGED <<queue, receipts, lastToken, today, crashes, resumes, seen>>

StartNext(w, live) ==
  /\ At(w, "idle") /\ started < MaxCommands
  /\ "next" \in Kinds
  /\ Become(w, [IdleJob EXCEPT !.pc = "scan", !.kind = "next", !.live = live])
  /\ started' = started + 1
  /\ UNCHANGED <<queue, receipts, lastToken, today, crashes, resumes, seen>>

\* run_campaign after its build: first loop prepares and enqueues, over every
\* destination; an unconfigured one fails on its own.
StartCampaign(w, live) ==
  /\ At(w, "idle") /\ started < MaxCommands
  /\ "campaign" \in Kinds
  /\ Become(w, [IdleJob EXCEPT !.pc = "pick", !.kind = "campaign",
                  !.live = live, !.todo = Configured])
  /\ started' = started + 1
  /\ UNCHANGED <<queue, receipts, lastToken, today, crashes, resumes, seen>>

----------------------------------------------------------------------------
\* What enqueue asks under the lock.

LatestSuccess(k) == latest[k] # None /\ IsSuccess(latest[k])
MayEnqueueIgnoringClaims(k)  == ~LatestSuccess(k) /\ pending[k] = None \* mutant
MayEnqueueIgnoringSuccess(k) == claims[k] = None /\ pending[k] = None    \* mutant
MayEnqueue(k) == ~LatestSuccess(k) /\ claims[k] = None /\ pending[k] = None

----------------------------------------------------------------------------
\* process_next: list pending/, then look at one file after the other, both
\* outside the lock.

\* Another process is inside enqueue: it may have created the file of k by now
\* and not have written it.
HalfCreated(w, k) == \E v \in Workers \ {w} :
                       At(v, "enqueue") /\ job[v].key = k /\ MayEnqueue(k)

Scan(w) ==
  /\ At(w, "scan")
  /\ IF job[w].restarts = MaxRestarts
       THEN Finish(w)                                   \* queue_changed
       ELSE \E empty \in SUBSET {k \in Keys : HalfCreated(w, k)} :
              Become(w, [job[w] EXCEPT !.pc = "pick",
                !.todo = {k \in Keys : pending[k] # None} \cup empty])
  /\ UNCHANGED <<queue, receipts, lastToken, bounds, seen>>

Restart(w) == Become(w, [job[w] EXCEPT !.pc = "scan",
                                       !.restarts = @ + 1])

PickNext(w, k) ==
  /\ At(w, "pick") /\ job[w].kind = "next"
  /\ First(k, job[w].todo)
  /\ \/ /\ pending[k] = None                            \* FileNotFoundError
        /\ Restart(w)
     \/ /\ HalfCreated(w, k)                            \* JSONDecodeError
        /\ Finish(w)
     \/ /\ pending[k] # None
        /\ Become(w, [job[w] EXCEPT
             !.pc = IF k \in Configured THEN "check_success" ELSE "pick",
             !.todo = @ \ {k}, !.key = k,
             !.queued = pending[k].dry, !.dry = pending[k].dry \/ ~job[w].live])
  /\ UNCHANGED <<queue, receipts, lastToken, bounds, seen>>

PickCampaign(w, k) ==
  /\ At(w, "pick") /\ job[w].kind = "campaign"
  /\ First(k, job[w].todo)
  /\ Become(w, [job[w] EXCEPT !.pc = "check_success", !.todo = @ \ {k},
                  !.key = k, !.queued = ~job[w].live, !.dry = ~job[w].live])
  /\ UNCHANGED <<queue, receipts, lastToken, bounds, seen>>

\* A loop is over: the campaign's first loop hands its requests to the second.
PickDone(w) ==
  /\ At(w, "pick") /\ job[w].todo = {}
  /\ IF job[w].kind = "campaign" /\ job[w].loop = 1
       THEN Become(w, [job[w] EXCEPT !.loop = 2, !.todo = job[w].batch,
                                     !.batch = {}])
       ELSE Finish(w)
  /\ UNCHANGED <<queue, receipts, lastToken, bounds, seen>>

----------------------------------------------------------------------------
\* _preclaim_result: four reads, each with the locks it takes, in this order.

CapOverrun       == SuccessesOn(log, today) > DailyCap            \* mutant
CapReached       == SuccessesOn(log, today) >= DailyCap
FailurePaused(a) == ConsecutiveFailures(log, a) >= Threshold

RetriesSpentByCount(k) ==                                           \* mutant
  /\ latest[k] # None /\ latest[k].status \in {"failed", "blocked", "unknown"}
  /\ AttemptCount(log, k) > RetryBudget(RetryLimit)

\* The latest attempt of the key failed and no retry is left for it.
RetriesSpent(k) ==
  /\ latest[k] # None /\ latest[k].status \in {"failed", "blocked", "unknown"}
  /\ ~RetryDecision(latest[k].category, AttemptCount(log, k), RetryLimit)

CheckSuccess(w) ==
  /\ At(w, "check_success")
  /\ IF LatestSuccess(job[w].key) THEN Refused(w) ELSE Goto(w, "check_pause")
  /\ UNCHANGED <<queue, receipts, lastToken, bounds, seen>>

CheckPauseTooLate(w) ==                                             \* mutant
  /\ At(w, "check_pause")
  /\ IF ConsecutiveFailures(log, AccountOf[job[w].key]) > Threshold
       THEN Refused(w) ELSE Goto(w, "check_cap")
  /\ UNCHANGED <<queue, receipts, lastToken, bounds, seen>>

CheckPause(w) ==
  /\ At(w, "check_pause")
  /\ IF FailurePaused(AccountOf[job[w].key]) THEN Refused(w)
     ELSE Goto(w, "check_cap")
  /\ UNCHANGED <<queue, receipts, lastToken, bounds, seen>>

CheckCap(w) ==
  /\ At(w, "check_cap")
  /\ IF ~job[w].dry /\ CapReached THEN Refused(w) ELSE Goto(w, "check_latest")
  /\ UNCHANGED <<queue, receipts, lastToken, bounds, seen>>

CheckLatest(w) ==
  /\ At(w, "check_latest")
  /\ IF RetriesSpent(job[w].key) THEN Refused(w) ELSE Admitted(w)
  /\ UNCHANGED <<queue, receipts, lastToken, bounds, seen>>

----------------------------------------------------------------------------
\* enqueue, and what each command does with its answer.

Enqueue(w) ==
  /\ At(w, "enqueue")
  /\ LET k == job[w].key
     IN /\ pending' = IF MayEnqueue(k)
                        THEN [pending EXCEPT ![k] = [dry |-> job[w].dry]]
                        ELSE pending
        /\ CASE job[w].kind = "add" -> Finish(w)
             [] job[w].kind = "publish" ->
                  IF LatestSuccess(k) \/ claims[k] # None
                    THEN Finish(w) ELSE Goto(w, "claim")
             [] job[w].kind = "campaign" ->
                  Become(w, [job[w] EXCEPT !.pc = "pick",
                    !.batch = IF LatestSuccess(k) THEN @ ELSE @ \cup {k}])
  /\ UNCHANGED <<claims, receipts, lastToken, bounds, seen>>

\* _claim_for: the pending file must still be there, unclaimed, and hold the
\* same request.
Claimable(w) == LET k == job[w].key
                IN pending[k] = [dry |-> job[w].queued] /\ claims[k] = None

Claim(w) ==
  /\ At(w, "claim")
  /\ LET k == job[w].key
     IN IF Claimable(w)
          THEN /\ lastToken' = lastToken + 1
               /\ claims'  = [claims EXCEPT ![k] =
                                [dry |-> pending[k].dry, token |-> lastToken + 1]]
               /\ pending' = [pending EXCEPT ![k] = None]
               /\ Become(w, [job[w] EXCEPT !.pc = "set_request",
                                           !.token = lastToken + 1])
          ELSE /\ IF job[w].kind = "next" THEN Restart(w) ELSE ItemDone(w)
               /\ UNCHANGED <<queue, lastToken>>
  /\ UNCHANGED <<receipts, bounds, seen>>

----------------------------------------------------------------------------
\* _process_claim

Owns(w) == /\ claims[job[w].key] # None
           /\ claims[job[w].key].token = job[w].token

\* A lost claim raises; only run_campaign goes on with its next destination.
ClaimLost(w) ==
  /\ \/ job[w].pc \in {"settle", "requeue"}
     \/ At(w, "set_request") /\ job[w].queued # job[w].dry
  /\ ~Owns(w)
  /\ ItemDone(w)
  /\ UNCHANGED <<queue, receipts, lastToken, bounds, seen>>

\* _set_claim_request: the effective dry_run flag is stored in the claim file.
SetRequest(w) ==
  /\ At(w, "set_request")
  /\ IF job[w].queued = job[w].dry THEN UNCHANGED claims
     ELSE /\ Owns(w)
          /\ claims' = [claims EXCEPT ![job[w].key].dry = job[w].dry]
  /\ Goto(w, "gates")
  /\ UNCHANGED <<pending, receipts, lastToken, bounds, seen>>

Answered(w, label, status, evidence, category) ==
  Become(w, [job[w] EXCEPT !.pc = label,
    !.answer = [status |-> status, evidence |-> evidence, category |-> category]])

GateFailsUnsettled(w, c) ==                                         \* mutant
  /\ At(w, "gates")
  /\ ItemDone(w)
  /\ UNCHANGED <<queue, receipts, lastToken, bounds, seen>>

\* Route, authentication probe, identity, media, validation: the first gate
\* that fails ends the item as blocked; a dry run ends after the last one.
GateFails(w, c) ==
  /\ At(w, "gates")
  /\ Answered(w, "settle", "blocked", FALSE, c)
  /\ UNCHANGED <<queue, receipts, lastToken, bounds, seen>>

GatesPass(w) ==
  /\ At(w, "gates")
  /\ IF job[w].dry THEN Answered(w, "settle", "skipped", FALSE, "")
     ELSE Goto(w, "submit")
  /\ UNCHANGED <<queue, receipts, lastToken, bounds, seen>>

Verified(a) == a.status \in SuccessStatuses /\ a.evidence

\* An unknown outcome and a success without evidence are ambiguous submits.
Normalised(a) ==
  IF a.status = "unknown" \/ (a.status \in SuccessStatuses /\ ~a.evidence)
    THEN [status |-> "failed", evidence |-> FALSE,
          category |-> "ambiguous_submit"]
    ELSE [status |-> a.status, evidence |-> a.evidence, category |-> a.category]

\* adapter.publish: the one step that reaches the platform.
Submit(w, a) ==
  /\ At(w, "submit")
  /\ LET n == Normalised(a)
         k == job[w].key
     IN /\ Answered(w, "decide", n.status, n.evidence, n.category)
        /\ seen' = [seen EXCEPT ![k] =
             [submits   |-> @.submits + 1,
              verified  |-> IF Verified(a) THEN @.verified + 1 ELSE @.verified,
              ambiguous |-> @.ambiguous \/ n.category = "ambiguous_submit"]]
  /\ UNCHANGED <<queue, receipts, lastToken, bounds>>

DecideWithoutRecord(w) ==                                           \* mutant
  /\ At(w, "decide")
  /\ IF /\ job[w].answer.status = "failed"
        /\ RetryDecision(job[w].answer.category,
                         AttemptCount(log, job[w].key) + 1, RetryLimit)
       THEN Goto(w, "requeue") ELSE Goto(w, "settle")
  /\ UNCHANGED <<queue, receipts, lastToken, bounds, seen>>

\* A success is completed; a failure is retried if its category and the number
\* of attempts on record allow, and is terminal otherwise.
Decide(w) ==
  /\ At(w, "decide")
  /\ IF /\ ~Verified(job[w].answer)
        /\ job[w].answer.status = "failed"
        /\ RetryDecision(job[w].answer.category,
                         AttemptCount(log, job[w].key) + 1, RetryLimit)
       THEN Goto(w, "retry_write") ELSE Goto(w, "settle")
  /\ UNCHANGED <<queue, receipts, lastToken, bounds, seen>>

RecordOf(w) == Attempt(job[w].key, AccountOf[job[w].key], job[w].dry,
                       job[w].answer.status, job[w].answer.evidence,
                       job[w].answer.category, today)

WriteAttempt(w) ==
  /\ log' = Append(log, RecordOf(w))
  /\ latest' = [latest EXCEPT ![job[w].key] = LatestAfter(@, RecordOf(w), None)]

\* queue.complete and queue.fail.
Settle(w) ==
  /\ At(w, "settle")
  /\ Owns(w)
  /\ WriteAttempt(w)
  /\ claims' = [claims EXCEPT ![job[w].key] = None]
  /\ ItemDone(w)
  /\ UNCHANGED <<pending, lastToken, bounds, seen>>

\* The retry: the attempt is recorded, whoever owns the claim, and then the
\* claim goes back to pending/.
RetryWrite(w) ==
  /\ At(w, "retry_write")
  /\ WriteAttempt(w)
  /\ Goto(w, "requeue")
  /\ UNCHANGED <<queue, lastToken, bounds, seen>>

Requeue(w) ==
  /\ At(w, "requeue")
  /\ Owns(w)
  /\ LET k == job[w].key
     IN /\ pending' = [pending EXCEPT ![k] = [dry |-> claims[k].dry]]
        /\ claims'  = [claims EXCEPT ![k] = None]
  /\ ItemDone(w)
  /\ UNCHANGED <<receipts, lastToken, bounds, seen>>

----------------------------------------------------------------------------
\* Around the workers.

\* recover_expired for one key whose lease has ended.
Recover(k) ==
  /\ Recovers
  /\ claims[k] # None /\ ~LatestSuccess(k) /\ pending[k] = None
  /\ pending' = [pending EXCEPT ![k] = [dry |-> claims[k].dry]]
  /\ claims'  = [claims EXCEPT ![k] = None]
  /\ UNCHANGED <<receipts, job, lastToken, bounds, seen>>

\* platform resume, or a probe that finds the account signed in.
Resume(a) ==
  /\ resumes < MaxResumes
  /\ resumes' = resumes + 1
  /\ log' = Append(log, ResumeEvent(a, today))
  /\ UNCHANGED <<queue, latest, job, lastToken, today, started, crashes, seen>>

Crash(w) ==
  /\ ~At(w, "idle") /\ crashes < MaxCrashes
  /\ crashes' = crashes + 1
  /\ Finish(w)
  /\ UNCHANGED <<queue, receipts, lastToken, today, started, resumes, seen>>

Midnight == /\ today < MaxDay
            /\ today' = today + 1
            /\ UNCHANGED <<queue, receipts, job, lastToken, started, crashes,
                           resumes, seen>>

\* What a process does by itself once a command runs.
Run(w) == \/ Scan(w) \/ PickDone(w)
          \/ \E k \in Keys : PickNext(w, k) \/ PickCampaign(w, k)
          \/ CheckSuccess(w) \/ CheckPause(w) \/ CheckCap(w) \/ CheckLatest(w)
          \/ Enqueue(w) \/ Claim(w) \/ ClaimLost(w) \/ SetRequest(w)
          \/ GatesPass(w) \/ \E c \in GateFaults : GateFails(w, c)
          \/ \E a \in Answers : Submit(w, a)
          \/ Decide(w) \/ Settle(w) \/ RetryWrite(w) \/ Requeue(w)

Start(w) == \E live \in LiveFlags :
              \/ StartNext(w, live) \/ StartCampaign(w, live)
              \/ \E k \in Keys : \E kind \in Kinds : StartItem(w, kind, k, live)

Environment == \/ Midnight
               \/ \E k \in Keys : Recover(k)
               \/ \E a \in Accounts : Resume(a)

Next == Environment \/ \E w \in Workers : Start(w) \/ Run(w) \/ Crash(w)

Spec == Init /\ [][Next]_vars

\* A process that was started keeps running until it ends or is killed.
FairSpec == Spec /\ \A w \in Workers : WF_vars(Run(w))

----------------------------------------------------------------------------
\* An action property: duplicate suppression. Once the platform confirmed a key,
\* no process submits it again, whatever commands run side by side or die, as
\* long as nobody recovers claims (orchestrator.py:268-279, store.py:159-165).
SubmitOf(k) == seen'[k].submits > seen[k].submits
ConfirmedNotResubmitted ==
  [][\A k \in Keys : SubmitOf(k) => seen[k].verified = 0]_vars

\* An action property: a live submit of a key whose earlier submit ended
\* ambiguous (orchestrator.py:295-305, 563-577).
AmbiguousNotResubmitted ==
  [][\A k \in Keys : SubmitOf(k) => ~seen[k].ambiguous]_vars

\* One bounded retry: a key is submitted at most 1 + min(retry_limit, 1) times,
\* over all commands, resumes and requeues (store.py:33-44).
RetryBound == \A k \in Keys :
  seen[k].submits <= IF RetryLimit = 0 THEN 1 ELSE 2

\* The daily cap, by the day the receipt was written (orchestrator.py:232-242).
CapHolds == \A d \in 0..MaxDay : SuccessesOn(log, d) <= DailyCap

\* A process that found the cap not reached submits without another look, so commands
\* that overlap overrun the cap, by one success for each other process at most; one
\* process alone keeps it (orchestrator.py:232-242, 289-294).
OverrunBounded == \A d \in 0..MaxDay :
  SuccessesOn(log, d) < DailyCap + Cardinality(Workers)

\* The scan of receipts.jsonl counts the failures since the pair's last success
\* or resume, and neither dry runs nor skips (receipts.py:224-242).
Counts(r, a) == /\ r.event = "attempt" /\ r.account = a /\ ~r.dry
                /\ ~IsSuccess(r) /\ r.status # "skipped"
Resets(r, a) == r.account = a /\ (r.event = "resume" \/ IsSuccess(r))
FailuresAreTheTail == \A a \in Accounts :
  ConsecutiveFailures(log, a) =
    Cardinality({i \in DOMAIN log : /\ Counts(log[i], a)
                                    /\ \A j \in (i + 1)..Len(log) : ~Resets(log[j], a)})

\* No submit for a platform/account pair while its last failures reach the
\* threshold (orchestrator.py:281-288).
PausedNotSubmitted ==
  [][\A k \in Keys : SubmitOf(k) => ~FailurePaused(AccountOf[k])]_vars

\* "Every attempt appends to receipts.jsonl" (design.md:195): a submit has its
\* live record, or its process is about to write it, or its process was killed
\* (orchestrator.py:578-599).
InFlight(k) == {w \in Workers : /\ job[w].key = k
                                /\ job[w].pc \in {"decide", "settle", "retry_write"}
                                /\ ~job[w].dry}
EverySubmitRecorded == \A k \in Keys :
  seen[k].submits <= AttemptCount(log, k) + Cardinality(InFlight(k)) + crashes

\* Commands end: also process_next, whose restarts are bounded.
CommandsEnd == \A w \in Workers : job[w].pc # "idle" ~> job[w].pc = "idle"

\* No request stays claimed for ever.
ClaimsReleased == \A k \in Keys : claims[k] # None ~> claims[k] = None

\* The queue as the orchestrator drives it implements the claim ledger.
Place == [k \in Keys |-> IF claims[k] # None THEN "granted"
                         ELSE IF pending[k] # None THEN "queued" ELSE "free"]
Confirmed == [k \in Keys |-> LatestSuccess(k)]
Ledger == INSTANCE ClaimLedger WITH place <- Place, confirmed <- Confirmed
ImplementsLedger == Ledger!LedgerSpec

\* "use --dry-run for a non-mutating proof" (media-publishing/SKILL.md:20-21): a
\* dry run takes no live request out of the queue.
LiveWork(k) == \/ pending[k] # None /\ ~pending[k].dry
               \/ claims[k] # None /\ ~claims[k].dry
DryRunsKeepLiveWork ==
  [][\A k \in Keys : LiveWork(k) /\ ~LiveWork(k)' =>
       \E w \in Workers : job[w].key = k /\ ~job[w].dry]_vars
============================================================================
