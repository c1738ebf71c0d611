# Codex Media & Advertising: TLA+ specifications and proofs

The repository is a Python plugin that builds narrated video campaigns and
publishes them to six platforms from scheduled, receipt-backed commands. This
directory models what is hard to get right in it: the file-backed queue, the
receipts and the orchestrator that several processes run side by side; the API and
browser adapters that talk to a platform, and the Chrome run the latter share; the
pipeline that builds and caches the media; and the setup and automation commands
that decide what runs in the background.

`P` below is `src/plugins/codex-media-advertising/src/codex_media_ads/`, and
"design" is `src/docs/superpowers/specs/2026-07-14-codex-media-advertising-design.md`.

## 1. The system

| Component | State it keeps | Operations | Hard behaviour | What makes it correct |
|---|---|---|---|---|
| Queue store (`P/queueing/store.py`) | `pending/`, `claims/`, `completed/`, `failed/`, one JSON file per idempotency key; `.queue.lock` | enqueue, claim_next, complete, fail, requeue, recover_expired | processes die between two file operations; leases end under a running worker | one home and one owner per key; a success is never queued again; the result of a settled file is on record |
| Receipt store (`P/queueing/receipts.py`) | `receipts.jsonl`, one latest receipt per key; `.receipts.lock` | write_attempt, resume, latest_success, consecutive_failures, count_successes_on_date | two writes per attempt; every policy is a scan over the log | the latest success is kept; failures are counted since the last success or resume |
| Orchestrator (`P/orchestrator.py`) | manual pauses; everything else is in the two stores | queue add, publish, publish next, campaign build, probe, pause, resume | checks and claims are in different lock blocks; retries span commands | no key is confirmed twice; caps, pauses and retry budget hold; ambiguous submits are not repeated; commands end |
| API adapters (`P/publishing/api_adapters.py`) | none; the platform keeps containers, sessions, posts | publish for Instagram, Facebook, X, YouTube | lost, late and unreadable answers; resumable upload | a lost answer by itself never becomes a retryable failure; bytes are not skipped; every publish ends |
| Browser adapters (`P/publishing/browser_adapters.py`) | a page and a managed Chrome | probe, validate, publish | old evidence on the page; errors after the click | a click is never retried; only fresh evidence is success |
| Managed Chrome (`P/publishing/chrome.py`) | a process group, a cloned profile; leases, where adapters share a run | launch, attach, release, close | process ids are reused, helpers outlive the root | no foreign process is signalled; a clean close leaves nobody; the last adapter closes |
| Contract, registry, router (`P/publishing/base.py`, `router.py`, `P/models.py`) | registered adapters | probe_identity, select | a probe that fails while a route is chosen | only the account that was configured is used |
| Creative pipeline (`P/creative/`) | a campaign directory with the stages' files and one `build-manifest.json` | build | stale caches, half-written files, kills and failures between two stages | what is delivered is current; the manifest is truthful; what it records as finished is reused |
| Setup (`P/setup.py`) | `config/setup.json` | configure, import_secret | accounts and tools change between check and use | a channel is enabled only by gates that held |
| Launchd automation (`P/automation/launchd.py`) | plist files, loaded jobs | install, remove, uninstall, list | one of three steps fails, is killed or refuses its input | reports are true; the next command heals what was left |
| CLI and runtime (`P/cli.py`, `runtime.py`, `config.py`) | configuration | argument parsing, wiring | - | - |
| Optimization, manifests, scripts | none | pure functions, packaging | - | - |

**Interaction.** Every CLI command is a process of its own. The processes share
no memory, only the state root. A publishing command calls the orchestrator; it
reads receipts (`_preclaim_result`), enqueues and claims a file, checks its gates,
calls one adapter, and records the result through `complete`, `fail` or
`write_attempt` + `requeue`. launchd starts such commands on a schedule and does
not wait for a manual one. What couples two commands is therefore exactly: the
two file locks, the files, and the platform. The program
launches a Chrome of its own for each platform whose browser route is wired
(`runtime.py:283-348`); one run shared by several adapters, which the last of them
closes, is an API of the package that its tests use
(`register_managed_chrome_adapters`). Setup writes which channels may run in the background; `automation
install` reads that file and gives launchd the job `publish next`. The pipeline is
run by `campaign build` before anything is queued; it shares no state with the queue
but the media files.

**Which operations are in use.** The CLI reaches `add_to_queue`, `process_next`,
`run_campaign`, `probe`, `pause` and `resume`. `Orchestrator.publish` is an API of
the package; `QueueStore.claim_next` and `recover_expired` are called by tests
only. The models contain all of them, and `Recovers` says whether claims are
recovered at all.

## 2. The modules

| Module | Models | Granularity |
|---|---|---|
| `ClaimLedger` | what the queue promises: a key is free, queued or granted; a confirmed key is never queued again | abstract specification |
| `QueueStore` | `store.py` and the two writes of `write_attempt` | one file operation per step, locks as program counters, crash between any two |
| `Receipts` | the records and the policies read out of them, as pure operators | operators |
| `Publishing` | `orchestrator.py` over queue and receipts | one lock block (or one call of an adapter) per step |
| `ResumableUpload` | `YouTubePublisher.publish` | one request with its answer per step |
| `ApiPublish` | `MetaPublisher`, `XPublisher`, and the retry rule around them | one request with its answer per step |
| `BrowserPublish` | `BrowserPublisher.publish` behind `AdapterRegistry.publish` (`base.py`) | one phase of the page, look or sleep per step |
| `ManagedChrome` | `chrome.py` and the sharing of a run in `browser_adapters.py` | one look at the processes, or one signal, per step |
| `CreativePipeline` | `pipeline.py`, with what it needs of providers and renderers | one file opened, finished or replaced per step |
| `Automation` | `setup.py` (configure), `launchd.py`, and their commands in `cli.py` | one probe, dry run, launchctl call or file per step |
| `<module>_proofs` (eight) | theorems about `QueueStore`, `Publishing`, `ResumableUpload`, `ApiPublish`, `BrowserPublish`, `ManagedChrome`, `CreativePipeline`, `Automation` | |
| `MCQueueStore`, `MCPublishing`, `MCBrowserPublish`, `MCCreativePipeline` | constants for TLC | |

They fit together by granularity. `QueueStore` justifies treating each lock block
as one step in `Publishing`: both implement `ClaimLedger` by the same refinement
mapping (`Place`, `Confirmed`). `Publishing` treats the platform as a choice of
`Answers`; `ApiPublish` and `ResumableUpload` show which answers the adapters
give and what the platform may have done by then. `BrowserPublish` does the same for
the browser route: it shows that the categories `Publishing` retries never come from
a page that posted. `ManagedChrome` composes the run with the adapters that share it (with one adapter: the run as the program wires it).
`Receipts` is used by both
`Publishing` and `ApiPublish`, so both speak of the same retry rule.

### State and actions against the code

*QueueStore.* `pending`, `claims`, `completed`, `failed` are functions from keys
to a file (`Entry`), `NoFile`, or `Torn`, the file that `O_EXCL` created and
nobody wrote yet. `pc[w]` is the point between two file operations at which a
process stands; the steps in `UnderQueueLock` and `UnderReceiptsLock` hold the
flock, so `QueueFree` and `ReceiptsFree` are the guards of whatever takes it.
`enqueue` = EnqueueCreate, EnqueueWrite; `claim_next` = ClaimStamp, ClaimRename;
`complete`/`fail` = SettleAppend, SettleLatest, SettleResult, SettleMove (to either
directory with either result: `complete` takes any, and a dry run is completed as
skipped) or SettleRefused; a retry = RetryAppend, RetryLatest, Requeue or SettleRefused;
`recover_expired` = RecoverNow (the clock is read before the lock), RecoverLock,
RecoverVisit per file, RecoverDone. `Crash` drops the process and its locks and
leaves its files. `expires` is set against `clock`, which `Tick` moves.

*Publishing.* `job[w]` is the running command: its kind, its live flag, the items
left to look at, the key in hand, whether the queued request and the effective
one are dry, its claim token and the adapter's answer. The four steps of
`_preclaim_result` are four actions since each takes the receipts lock by itself
and others run in between. `process_next` lists and reads `pending/` outside the lock: a
file that another process has created and not yet written (`HalfCreated`) may be listed,
and reading it ends the command with a JSON error. `seen` is a history variable: what the platform saw.
`Recover(k)` is one file of `recover_expired` with a lease that has ended, which
may happen at any time after the claim because a publish may take any time.

*ResumableUpload.* `high`, `stalled`, `tries` are the client's counters. `stored`
is what the platform has. A chunk whose answer was lost stays `inflight` and may
arrive at any later time or never; a 308 may report less than is stored; the
platform may forget bytes. The video exists when all bytes are stored. `overlooked`
is a history variable: the last chunk may have arrived, and the upload ended without regard
to that, by an answer without an id, by a 4xx to a chunk when the last one had been sent
before, by another exception or a 5xx while the last chunk was in hand, or by a status query
that was refused or raised.

*ApiPublish.* `Stages` lists the requests of each adapter in order. `media` is the
platform's media object, worked on in the background; `inflight` is a final
request that may be applied late. `odd` is a history variable like `overlooked`:
a final request, or the lookup after it, ended without an id, with a 5xx or by another exception.

*BrowserPublish.* `Plan` is the order of controls that the phases of
`_BrowserFlowPlan` give a platform, `at` the next one. `clicked` is
`submit_clicked`; `page` and `previous` are what `_raw_evidence` would read now and
read before the click: for each of the four sources (url, status text, post link, platform id) the
text it shows, and whether it shows it for this post. Texts are compared and nothing else, as in
the code: a confirmation of this post in the words of an earlier one is not `Fresh`. `PageRaises` is an exception of any call to the page;
`Click` raises or not and posts or not independently. A look, the clock and a
sleep are three steps, since evidence may come up between any two. `LateEvidence`
says whether a site may *first* show an earlier post after the snapshot.

*ManagedChrome.* `root` is "zombie" from its exit until `poll()` reaps it: only then may
its id be given to `foreign`. Every look at the process table and every signal
is a step, and `Environment` runs between any two. `leases` is the count of
`_SharedManagedRuntime`. `outcome` tells how `close` ended: signalled and waited
("clean"), nothing to signal ("exited"), an identity check refused or `ps` failed
("refused", `TableFails`), or the probe of the debugging port raised in the launch loop, which
leaves Chrome to nobody ("lost", `ProbeRaises`).

*CreativePipeline.* `file[s]` is the content of the stage's output, a record of what it was
made from (half written or whole), or `Missing`; `manifest` is the sequence of records in
`build-manifest.json`, `records` the one of the running build. Stages are ordered: images,
narration, master, then one variant per destination.
`Content` of an output contains the contents of its sources, which is what their hashes
stand for. `StartWrite`/`FinishWrite` and `StartSave`/`FinishSave` are
the two writes a kill can separate. `Takes` are the outcomes of a provider that is
not deterministic. `SilentTools` says whether a tool, a provider or a renderer, may report success without writing
(`Leftover`); a custom renderer of variants may then leave no file at all and the stage is recorded as built.

*Automation.* `run_checks` is CheckTools, CheckChannel for one channel after the other, and Render: several
calls, between which accounts and tools may change. An install is Install, BootoutOld, then `build()`, which
validates the schedule only here (`BuildRefuses`), WritePlist and Bootstrap. `Invalid` stands for every schedule it
refuses. `account[c]` is how a probe and a dry run of the channel would turn out at this
moment. `setup.json` is a function from the channels it names to `background_enabled`.
`plist` and `job` are the file and what launchd has loaded; either may be
`Foreign`. `report` and `trouble` say how the last command ended and whether launchctl failed
in it. `seen` is a history variable: which gates of a channel have held at some
moment of the running configure.

### Left out of these modules

Payloads, captions and evidence texts (a result carries only whether it has
verifiable evidence); file permissions and path checks; OAuth signing and secrets;
refused enqueues, which change nothing; a second configuration change while
processes run; a media file that shrinks during an upload; requests whose key is
equal but whose content differs other than in `dry_run`. `worker_id` is the same
for every process (`orchestrator.py:152`), so only the claim id decides ownership.
The retry delay is advice in the evidence, nothing waits for it.
A process killed inside `enqueue` leaves nothing in `Publishing`; the torn file it may leave in the program is the
subject of `QueueStore` and finding 5. File-system errors (a directory that cannot be made, a full disk) of
the queue, the automation commands and the setup are left out.

## 3. The runs

| Run | Question | Bounds |
|---|---|---|
| `queue` | do the file-level operations keep homes, owners, leases, and the results of settled files on record, and implement the ledger? | 2 processes, 2 keys, 3 claims, 1 crash, clock 0..2, lease 1 |
| `publishing_one` | are cap, pause, retry budget and the ban on repeating an ambiguous submit right when commands run one after the other? | 1 process, 2 keys of one account, 3 commands, 2 days, 1 resume, every kind of answer |
| `publishing_two` | is a confirmed key left alone, and every submit recorded, when commands overlap and die? | 2 processes, 1 key, 3 commands of all four kinds, 1 crash |
| `publishing_ends` | do commands end and claims get released, and is the ledger kept? | 2 processes, 1 configured key and 1 left by an older configuration, recovery at any time, fairness |
| `youtube_upload` | does a resumable upload end, skip nothing, and never call a possible video a failure because an answer was lost? | 5 blocks, chunks of 2, 3 resume attempts, 1 loss of stored bytes, fairness |
| `api_publish` | one post at most after losses; the final request waits for the media; every request is settled? | 3 adapters, 2 polls, retry limit 2 (clamped to 1 by the code), fairness |
| `browser` | can anything raise or come late so that a post is reported as safe to retry, or an old post as this one? | 5 requests (the longest plan with a schedule, a wait for the upload, with and without a schedule, one the platform cannot schedule, a dry run), deadline 5, poll 2, a look of 0..1 ticks, fairness of the adapter |
| `chrome` | whom do the signals reach, who is left, and do launch and close end? | 2 adapters, 2 helpers that start and exit at any time, 2 sleeps of startup and of grace |
| `creative` | is what a build delivers made from this campaign, and is the manifest true, after changes, failures and kills? | 3 builds, 2 destinations, changed prompts, changed and unidentified renderers, forced stages, a failure at any stage, 1 kill at any step |
| `automation` | is a channel enabled only by gates that held; are reports true; do commands heal? | 2 channels (one browser only), 2 valid schedules and an invalid one, every initial state of accounts and tools, 1 change of them at any step, any number of commands, kills, launchctl failures and logins |
| `queue_torn`, `api_duplicate` | findings 5 and 6 of section 5 | see the cfg |

Further configurations reproduce observations of section 5 and can be run by hand
with `tlc -config <cfg> <module>`; each ends in a counterexample:
`Publishing_stuck.cfg`, `Publishing_cap.cfg`, `Publishing_ambiguous.cfg`,
`Publishing_dry.cfg` (module `MCPublishing`), `BrowserPublish_late.cfg` (`MCBrowserPublish`),
`CreativePipeline_silent.cfg`, `CreativePipeline_discard.cfg` (`MCCreativePipeline`), `ResumableUpload_failed.cfg`
(`ResumableUpload`).
`Publishing_overlap.cfg` (`MCPublishing`) ends without one: two processes, three keys, a cap of
1, midnight and a kill, where `OverrunBounded` allows two successes a day and a third is possible by the keys.
In run `publishing_one`, with one process, the same invariant is the cap itself, for commands one after the other and
over midnight; the overlap of check and use is covered by the theorem `OverrunIsBounded` and by
`Publishing_overlap.cfg` only.

**Why these bounds.** Two processes are what every mutual-exclusion hazard of the
queue needs; 3 claims let a key be claimed, recovered, claimed by another process
and given back while the first still holds its handle; the clock has one value
before, at and after the end of a lease. In `publishing_one` the cap is 1, the
threshold 2 and the retry budget 1, each reached with 3 commands; the second day
lets the cap refill. `Publishing_ambiguous.cfg` needs three overlapping commands, so
`publishing_two` with two processes does not cover it. 5 blocks in chunks of 2 give
a first, a middle and a shorter last chunk; 3 resume attempts allow a stall, a
stall and a refilled budget. The daily-cap count is taken over all platforms, as
in the code. In `browser` the deadline is no multiple of the poll interval, so the
last sleep is cut short. In `chrome` the sleeps are bounded by the two timeouts and
nothing else counts. In `creative` three builds allow: make, change and fail or be
killed, build again; two destinations have a stage after the failing one. In
`automation` commands are unbounded; one change of the world, after any initial
state, separates a gate's check from its use (two changes pass too, with five times
the states).

**Fairness.** `Publishing` assumes weak fairness of each process's own steps: once
started, a process keeps running, as the operating system schedules it, until it
ends; a `flock` holder always releases, so waiting is never permanent. It is not
assumed that a process is started, that claims are recovered, or that
a crash does not happen: `publishing_ends` sets MaxCrashes = 0 because with a crash
`ClaimsReleased` is false (`Publishing_stuck.cfg`). `ApiPublish` and
`ResumableUpload` assume weak fairness of the client only: each request has a
30-second timeout, so each step returns. Nothing is assumed of the platform; the
properties hold if it never finishes its work. `ApiPublish` does assume that a
requeued request is taken up again, which the schedule does. `BrowserPublish` assumes
weak fairness of the adapter: a call to the page has a timeout and then raises.
`ManagedChrome` assumes it of the program's own loops; nothing is assumed of
Chrome, whose processes may outlive signals and start helpers for ever. `CreativePipeline` and `Automation`
state safety only and assume nothing.

CHECK_DEADLOCK is off where a model stops when its commands or builds have been used up,
or its request is settled. `browser`, `chrome` and `automation` check it: the first two
stutter only in their final state.

## 4. What is proved

`QueueStore_proofs` proves for every set of workers and keys, every lease, clock
and number of crashes and claims:

- `TypeCorrect`, `OneHomeAlways`, `OneOwnerAlways`, `SuccessNeverQueuedAlways`,
  `SettledHasReceiptAlways`: the five invariants of run `queue`;
- `ActiveClaimsKeptAlways`: the action property;
- `QueueImplementsLedger`: the refinement.

`ResumableUpload_proofs` proves for every media size, chunk size, retry limit and
number of losses the four invariants of run `youtube_upload`: `TypeCorrect` (with
the bounds of the counters), `BytesConfirmedAlways`, `AmbiguousAfterFinalAlways`
and `LossIsNoFailureAlways`.

`Publishing_proofs`, for every set of processes, keys, accounts and answers and every bound:

- `TypeCorrect`; `CommandsImplementLedger` (`ImplementsLedger`), with claims recovered at any time;
- `FailuresAreCounted` (`FailuresAreTheTail`): what the scan of any log returns;
- `OverrunIsBounded` (`OverrunBounded`): overlapping commands and the daily cap;
- for any number of overlapping commands, if nobody recovers claims:
  `ConfirmedStaysUnsubmitted` (`ConfirmedNotResubmitted`), `SubmitsAreRecorded` (`EverySubmitRecorded`);
- for commands that do not overlap: `OneProcessKeepsCap` (`CapHolds`), `OneProcessHeedsPause`
  (`PausedNotSubmitted`), `OneProcessRetriesOnce` (`RetryBound`), `OneProcessLeavesAmbiguous`
  (`AmbiguousNotResubmitted`).

`ApiPublish_proofs`, for every number of polls and every retry limit: `NoFinalBeforeReady`
(`FinalOnlyWhenReady`), `PostsAreNotRepeated` (`PostedOnce`), `PublishedMeansPosted`
(`PublishedIsPosted`).

`BrowserPublish_proofs`, for every set of requests and every timing: `TypeCorrect`;
`RetryIsSafe` (`NoPostReportedAsSafe`); `EvidenceInTimeIsSeen` (`EvidenceInTimeCounts`);
`SuccessIsProved` (`SuccessIsOurs`), for a site that does not first show an earlier post after
the click.

`ManagedChrome_proofs`, for every set of adapters and helpers and every timeout:
`TypeCorrect`, `NobodyElseIsSignalled` (`ForeignUnharmed`), `CleanIsClean` (`CleanCloseLeavesNone`),
`RunOutlivesItsAdapters` (`ClosedWithTheLast`).

`CreativePipeline_proofs`, for every campaign, number of destinations, builds
and kills: `RecordedIsNotMadeAgain` (`RecordedStagesReused`), and, if tools that report success have
written, `BuildsAreCurrent` (`DeliveredIsCurrent`) and `ManifestIsTruthful` (`ManifestTruthful`).

`Automation_proofs`, for every set of channels and schedules and any number of
changes: `EnabledChannelsAreProven`, `ReportsAreTrue`, `CommandsDoHeal`, the three
properties of run `automation`.

**Argument for the queue.** None of the invariants is inductive by itself, since a worker acts
on what it saw steps ago. `IInv` adds what justifies it. *FilesInv*: `.queue.lock`
has one holder; a worker inside `enqueue` or `claim_next` still has its pending
file; a pending file that is being stamped carries a token nobody holds.
*SettleInv*: a worker inside `_transition` still owns the claim and has written its
receipt, and, past the second write, the latest receipt of a success. *OwnerInv*:
a token is held by at most one worker and is never in a file it was not stamped
on. `IInvInit` and `IInvStep` show that `IInv` is inductive, one step per action;
`TypeStep` takes the type part. `ActiveClaimsKept` also needs `ClockReadAlways`:
what recovery read before it waited for the lock is not ahead of the clock.
`LedgerStep` maps every action to a ledger step or to no change.

**Argument for the orchestrator.** `Publishing_proofs` first says, for every action, where it
takes its process and which files it leaves alone (`CheckStep` to `EnvironmentStep`); the invariants
rest on those facts only. The base `IInv` is the types, *QueueInv* (a key is not queued and granted at
once, and neither with a success in its latest receipt) and *Locals* (a claim has a token that was handed out, an
answer about to be requeued is a failure that may be retried).

*Who owns what.* `OwnInv`: without recovery, a process between its claim and its last write owns the
claim file by its token, and no two such processes have one key. `ConfirmInv`: a confirmed key has a
success in its latest receipt, or is still granted and every process on it carries the
confirming answer to its receipt. A process that submits owns a granted key, which has no success and is
not being delivered, so it is not confirmed. `EverySubmitRecorded` is inductive on top of `OwnInv`: each step
of one process keeps the balance of submits, records, submits in flight and crashes (`RecordedBalance`).

*What a check is worth.* Between its checks and its receipt a process writes no receipt
(`PastStep`, `CheckingStep`). For the cap this bounds any number of processes: `CapInv` says that
the successes of today and the processes past the cap check are together fewer than cap plus
processes; who joins found fewer successes than the cap, and the others are fewer than all. If
commands do not overlap, the finding itself stays true: `FreshInv` (no success, and no failure that is
final, is in the latest receipt), `OpenInv` (the pair is not paused; a resume only opens it,
`ResumeKeepsOpen`), `RetryInv` and `AmbiguousInv` (what the receipts of a key say of its submits, however
they were retried or requeued).

*The scan of the log.* `consecutive_failures` is a recursive function here. `ScanIsTail` finds its value
without induction over an operator: the size of the set of failures since the last reset solves the recursion
(`TailStep`), and a least number at which the scan differed would refute it (`LeastNumber`, from the
well-foundedness of the numbers).

**Argument for the API requests.** *ReadyBeforeFinal*: media is ready from the request before the final
one on, and stays so. *OnePost* and *PostBehind*: the request that posts, or whose answer was lost, leaves the
attempt in a place from which every further result is "unknown" or "published", which the retry
rule of the orchestrator does not repeat; the link request after it turns no result into a failure.

**Argument for the upload.** `LossIsNoFailure` speaks of what may still arrive,
the client only of the chunk in hand. `IInv` connects them. *FinalStays*: since
`high` never falls, once the last chunk was sent the chunk in hand is the last one
again, so the flag handed to `_advance_confirmed_high_water` and to the end of a
status query tells whether the last chunk was *ever* sent. *EndWasSent*: nobody,
neither the platform nor a chunk under way, has the end of the media before that.
*FailedWithoutEnd* then says that after a failure that overlooked nothing
nobody has the end of the media: with the last chunk never sent, nobody can (`NotSentNoEnd`). `Advances` states once what the high-water rule may do,
`StoresBounds` what the platform may make of a chunk; `IInvStep` has one case per
action.

**Argument for the browser.** *ClickBoundary*: nothing is posted while `submit_clicked`
is false, and once it is true no exit but "unknown" or a success is left; the mark comes before
the click, which is why a raise is safe at any step. For `SuccessIsOurs`,
`PlanIsComplete` shows that the plan of every platform contains upload, details and, when asked
for, the schedule; *Composed* says that the composer holds the controls driven so far; *PageTruthful*
says that what a source shows of an earlier post after the snapshot it showed, in the same words, before it
(`EvidenceProves`: so a source whose text differs and matches shows this post). *WaitInv*: fresh evidence that a look did
not find has come up since that look, and the wait ends at the deadline only.

**Argument for Chrome.** *RootHeld*: from the first look of `close` to the last signal the root
is not reaped, so its id is not free, and a foreign process with that id needs an empty group
whose root was reaped. *Cleaned*: "clean" is set only where no member of the group was
alive, or by SIGKILL to the group; it stays so since only a live root starts helpers. For the shared
run, `leases` is the number of the adapters that are open, so it reaches zero with the last.

**Argument for the pipeline.** `Truthful` says of a sequence of records that each output was made whole from
the recorded inputs by the recorded command. The invariant has it for the manifest on disk and for the records
in memory (*Run*), and says that every stage done so far is current (*Progress*). A kill leaves a
file that differs from what the manifest recorded, so `CanReuse` rejects it; what `CanReuse` accepts is
truthful and has the inputs of now, so it is current. `SourcesComeFirst`: the sources of a stage are
earlier stages, so writing a later file leaves it current. *ReuseInv* follows what
the last manifest written records as finished (`kept`, replaced with every manifest): the manifest on disk keeps that record with the inputs it had (*Kept*), unless a kill met the writing of the
manifest itself, and the records of the running build extend it without losing it (*Entry*).

**Argument for automation.** *Gating*: `sound`, `probed` and `passed` each imply that the gates
they stand for are in `seen`. *NoOrphan*: where there is no file there is no loaded job, at every step of
every command, so the next command finds by the file whatever a killed one left; *Launchd* says
what the steps done so far have established (after a bootout that did not fail, no job; a bootstrap follows
a valid schedule only). A command that fails without a failure of launchctl therefore was given an
invalid schedule, whatever the commands before it left.

**Assumptions.** `PublishingConstants` and `NoneIsNoFile` of `Publishing`: finitely many processes, keys that are numbers,
a positive cap and threshold, answers and categories of the kinds the code has, and a marker for a missing file that
is no file; TLC evaluates them in every run of `MCPublishing`. Three further assumptions are hypotheses of single
theorems. *Recovers = FALSE*: nothing calls `recover_expired` outside the tests (finding 1), so this is the
program as it is; with recovery the two theorems are false, since a worker that outlived its lease still submits.
*OneProcess*: at most one process in the set, that is, commands that do not overlap, as when one schedule
runs one `publish next` at a time; any number of commands may follow each other and each may be killed. `Publishing_cap.cfg` and
`Publishing_ambiguous.cfg` show that it cannot be dropped. *LiveAnswers* (retry and ambiguity only): no answer to a live submit is
"skipped"; the adapters return that status in the branch of a dry run only. `KnownApis` of
`ApiPublish`: the adapters are those of the code. For the queue, `QueueConstants` only: keys are a non-empty set of numbers (file
names sort), the lease is positive, the two file markers are no entries. TLC
evaluates it in run `queue`. Mutual exclusion of `flock` and the atomicity of
`os.replace` are built into the steps. For the upload, `UploadConstants`: sizes and limit are
positive (`__init__` and the empty-file check refuse others). TLC evaluates it in
run `youtube_upload`. `BrowserConstants`, `ChromeConstants`, `CreativeConstants` and
`AutomationConstants` say that sets are finite, timeouts are positive and markers are no
values, and that no tool is named like the unknown renderer; TLC evaluates each in the run of its module. `SuccessIsProved` assumes
LateEvidence = FALSE and the two theorems of the pipeline SilentTools = FALSE; the
configurations `BrowserPublish_late` and `CreativePipeline_silent` show that neither can be
dropped.

**Model-checked only.** All liveness (`CommandsEnd`, `ClaimsReleased`, `UploadEnds`, `Settles`, `PublishEnds`,
`RunSettles`): no prover here handles fairness. Every safety property that a passing run checks is
stated by a theorem. The theorems that assume OneProcess leave open what overlapping commands do to the retry
budget, the failure pause and ambiguous submits: there the properties fail (finding 3).

## 5. Findings

Where the models contradict what the repository says of itself (5 and 6 are runs
that are expected to fail, 1 to 4 and 7 are reproduced by the named configurations):

1. **Claims of killed processes are never released** (`Publishing_stuck.cfg`): nothing
   calls `recover_expired` outside the tests; design:187 says expired claims can be
   recovered.
2. **The daily cap is not safe for two schedulers** (`Publishing_cap.cfg`): it is read
   before the claim and not again. It is overrun by one success for each other process at
   most (`OverrunBounded`, proved).
3. **An ambiguous submit can be repeated** (`Publishing_ambiguous.cfg`): a command that
   passed its checks claims a key that another command enqueued again in between;
   the claim does not look at the latest attempt. It takes three overlapping
   commands. In the same way two overlapping commands submit beyond the retry budget and past a pause that began
   after the check (`RetryBound`, and `PausedNotSubmitted` with a threshold of 1, under the constants of
   `publishing_two`). Confirmed successes are safe (`ConfirmedNotResubmitted`, proved): `enqueue` checks them
   under the lock.
4. **`publish next --dry-run` consumes live work** (`Publishing_dry.cfg`): the live request is completed with the
   result skipped, so its file is in `completed/` although nothing was published (`orchestrator.py:543-550`; `SettleMove`
   of `QueueStore` has the same case).
5. **A torn pending file blocks the queue** (`queue_torn`).
6. **API failures of the final request are retried** (`api_duplicate`): `_failed` marks
   them `retry_safe: False`, no code reads that flag.
7. **A blocked or failed stage discards later records** (`CreativePipeline_discard.cfg`): the
   manifest it writes has no record of the stages after it, so the next build makes an
   unchanged narration again; design:145 says that `--force-stage` "can rebuild one named
   stage without discarding unrelated work".

Observed and not run: with recovery in use, a success logged before its process
was killed, and not yet in the latest receipt, does not suppress the key
(`LoggedSuccessNeverQueued` in `QueueStore` states it); with recovery in use, a
worker that outlived its lease submits and then cannot record it
(`EverySubmitRecorded` with Recovers = TRUE); design:193 speaks of per-platform
caps, the code has the global one only; `publish next` uses the cap of the runtime
configuration (`runtime.py:98`), not the campaign's; a key whose latest attempt is
blocked by a permanent category stays refused after a probe or a resume, because
only the pause is cleared.

Upload: once the last chunk may have arrived, some endings are plain failures, and with a transient category the
orchestrator tries again although the video may exist (`ResumableUpload_failed.cfg`): a status query that is
refused or raises (`api_adapters.py:895-898`, `924`), a resent chunk that is refused (`1040`), an exception that is no connection loss
or a 5xx (`970-972`), an answer without an id (`807-808`). `LossIsNoFailure` excepts exactly these.

Browser: a site that first shows an earlier post after the click makes the adapter report a
success that is not its own (`BrowserPublish_late.cfg`); a confirmation in the words of one that was already on
display is no evidence, and such a post ends as unknown (`browser_adapters.py:904`; `test_browser_adapters.py:862-870` asserts it); text that says a video is being processed counts
as evidence. Chrome: a root that exited before `close` leaves its helpers unsignalled; a close
that was refused is never tried again, since `_closed` is set first; a KeyboardInterrupt, or an exception of the port probe, in the launch loop
leaves Chrome running. Pipeline: a tool, provider or renderer, that exits 0 without writing makes it accept the file of an
earlier run (`CreativePipeline_silent.cfg`, `providers.py:120-126`); a custom renderer of variants that writes nothing is recorded
as built without an output (`pipeline.py:562-571`); the identity of a command is its
argument list, not the version of the tool; a rebuild overwrites media that may already be queued.
Automation: an install with an hour, minute or interval out of range over an installed job unloads that job and only then
refuses the schedule (`launchd.py:213-222`, `43-70`); the plist stays, so the next login or a valid install loads it again. The job `publish next` (`launchd.py:85-93`) does not read `setup.json`, so the gates
hold at the time of `install` only, while design:217 says "Setup never enables a live publishing job for a
channel that has not passed its authentication probe and dry run."; a channel in mode `auto` is not asked for browser
controls although it may be routed to the browser; `setup` without `--enable` can report
"ready" where a narration provider is wired (the default service has none and reports "blocked"), and
`automation install` then answers "blocked"; the check of the old plist and its replacement
(`launchd.py:204`, `219`) are not one step for another program.

## 6. Not modelled, and why

- **PauseStore** (`orchestrator.py:62-122`): manual pauses; a lost update needs two operator
  commands at the same moment.
- **Router `auto` mode, identity comparison on strings, media validation, redaction,
  selector files**: pure functions over data. What they answer is a choice in the models.
- **`import_secret` and the profile clone of Chrome**: file copies and permission checks without another actor.
- **Two builders of one campaign at once, two `automation` commands at once**: no lock orders
  them; the models run one at a time, so nothing here speaks of such runs.
- **ffmpeg, TTS and image providers, launchctl, the sites**: external; each model says
  what it assumes of them. In particular launchctl's return codes 3, 5 and 113 of bootout are taken to mean that the job is not loaded, as
  `launchd.py:265` does, and another program takes our label only where there is no file.
- **Request bodies, signing, argument parsing and wiring**: no state. **Optimization and
  manifests**: pure data. **Packaging scripts**: outside the running program.

Next steps worth taking: what overlapping commands do to the retry budget and to the failure
pause, stated as bounds like `OverrunBounded`; `Publishing` over the answers of
`BrowserPublish`.
