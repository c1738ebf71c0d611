---------------------------- MODULE QueueStore -----------------------------
(***************************************************************************)
(* queueing/store.py: the file-backed queue, one file operation per step.  *)
(* Every operation runs inside flock(.queue.lock); a worker's program      *)
(* counter says between which two file operations it stands, so a crash    *)
(* there leaves exactly the files written so far, and the kernel drops     *)
(* the lock with the process.                                              *)
(*                                                                         *)
(* The record of an attempt (ReceiptStore.write_attempt) is two writes:    *)
(* the append to receipts.jsonl and the replacement of the key's latest    *)
(* receipt, which is the file that duplicate suppression reads.            *)
(*                                                                         *)
(* Left out: refused enqueues (they change nothing), the request inside    *)
(* an entry (Publishing has it), worker_id (every process uses the same    *)
(* one, orchestrator.py:152; the claim_id token decides ownership).        *)
(***************************************************************************)
EXTENDS Naturals, FiniteSets

CONSTANTS Workers,      \* processes or threads that use one state root
          Keys,         \* idempotency keys, in the order their files sort
          NoFile, Torn, \* no such file; a file opened but not yet written
          Lease,        \* lease_seconds
          MaxClock,     \* bound: the clock stops here
          MaxTokens,    \* bound: claim tokens handed out
          MaxCrashes    \* bound: worker crashes

Entry == [token: Nat, expires: Nat, result: {"none", "success", "failure"}]

ASSUME QueueConstants ==
  /\ Keys # {} /\ Keys \subseteq Nat
  /\ Lease \in Nat \ {0} /\ MaxClock \in Nat /\ MaxTokens \in Nat
  /\ MaxCrashes \in Nat
  /\ NoFile \notin Entry /\ Torn \notin Entry /\ NoFile # Torn

VARIABLES pending, claims, completed, failed,   \* the four directories
          receipts,   \* receipts.jsonl: a set of attempt records
          latest,     \* the key's latest receipt file
          clock, lastToken, crashes,
          pc,         \* where a worker stands
          at,         \* the key it works on
          token,      \* the claim_id of the QueueClaim it holds, 0 for none
          outcome,    \* the result it is recording
          now,        \* recover_expired: the clock value it read
          todo        \* recover_expired: claim files it has still to visit

files == <<pending, claims, completed, failed>>
local == <<at, token, outcome, now, todo>>
vars  == <<files, receipts, latest, clock, lastToken, crashes, pc, local>>

\* A result is a success or not: failed, blocked, or skipped by a dry run.
Outcomes == {"success", "failure"}
Receipt  == [key: Keys, token: Nat, outcome: Outcomes]

\* Steps at which a worker holds .queue.lock, and those at which it also or
\* only holds .receipts.lock.
UnderQueueLock    == {"enqueue_write", "claim_rename", "settle_latest",
                      "settle_result", "settle_move", "recover_scan"}
UnderReceiptsLock == {"settle_latest", "retry_latest"}
Steps == UnderQueueLock \cup UnderReceiptsLock
           \cup {"idle", "holding", "requeue", "recover_lock"}

QueueFree    == \A w \in Workers : pc[w] \notin UnderQueueLock
ReceiptsFree == \A w \in Workers : pc[w] \notin UnderReceiptsLock

\* glob() is sorted: the queue looks at files in key order.
First(k, S) == k \in S /\ \A j \in S : k <= j

AnyKey == CHOOSE k \in Keys : TRUE

\* latest_success(key): the latest receipt file holds a success.
LatestSuccess(k) == latest[k] = "success"

Goto(w, label) == pc' = [pc EXCEPT ![w] = label]

\* The worker drops its local variables and can start another operation.
Release(w) == /\ pc'      = [pc EXCEPT ![w] = "idle"]
              /\ at'      = [at EXCEPT ![w] = AnyKey]
              /\ token'   = [token EXCEPT ![w] = 0]
              /\ outcome' = [outcome EXCEPT ![w] = "failure"]
              /\ now'     = [now EXCEPT ![w] = 0]
              /\ todo'    = [todo EXCEPT ![w] = {}]

Init == /\ pending   = [k \in Keys |-> NoFile]
        /\ claims    = [k \in Keys |-> NoFile]
        /\ completed = [k \in Keys |-> NoFile]
        /\ failed    = [k \in Keys |-> NoFile]
        /\ receipts = {} /\ latest = [k \in Keys |-> "none"]
        /\ clock = 0 /\ lastToken = 0 /\ crashes = 0
        /\ pc      = [w \in Workers |-> "idle"]
        /\ at      = [w \in Workers |-> AnyKey]
        /\ token   = [w \in Workers |-> 0]
        /\ outcome = [w \in Workers |-> "failure"]
        /\ now     = [w \in Workers |-> 0]
        /\ todo    = [w \in Workers |-> {}]

----------------------------------------------------------------------------
\* enqueue

MayEnqueueIgnoringClaims(k) == ~LatestSuccess(k) /\ pending[k] = NoFile \* mutant
MayEnqueue(k) == ~LatestSuccess(k) /\ claims[k] = NoFile /\ pending[k] = NoFile

\* The key is checked and its file created, empty, with O_EXCL.
EnqueueCreate(w, k) ==
  /\ pc[w] = "idle" /\ QueueFree /\ ReceiptsFree
  /\ MayEnqueue(k)
  /\ pending' = [pending EXCEPT ![k] = Torn]
  /\ Goto(w, "enqueue_write")
  /\ at' = [at EXCEPT ![w] = k]
  /\ UNCHANGED <<claims, completed, failed, receipts, latest, clock, lastToken,
                 crashes, token, outcome, now, todo>>

FreshEntryWithoutResult == [token |-> 0, expires |-> 0]         \* mutant
FreshEntry == [token |-> 0, expires |-> 0, result |-> "none"]

EnqueueWrite(w) ==
  /\ pc[w] = "enqueue_write"
  /\ pending' = [pending EXCEPT ![at[w]] = FreshEntry]
  /\ Release(w)
  /\ UNCHANGED <<claims, completed, failed, receipts, latest, clock, lastToken,
                 crashes>>

----------------------------------------------------------------------------
\* claim_next: the first pending file without a claim is stamped with the
\* worker's lease and moved to claims/.  A torn file raises there and the call
\* changes nothing.

Claimable == {k \in Keys : pending[k] # NoFile /\ claims[k] = NoFile}

ClaimStamp(w, k) ==
  /\ pc[w] = "idle" /\ QueueFree
  /\ First(k, Claimable)
  /\ pending[k] # Torn
  /\ lastToken < MaxTokens
  /\ lastToken' = lastToken + 1
  /\ pending' = [pending EXCEPT ![k] =
                   [token |-> lastToken + 1, expires |-> clock + Lease,
                    result |-> @.result]]
  /\ Goto(w, "claim_rename")
  /\ at' = [at EXCEPT ![w] = k]
  /\ UNCHANGED <<claims, completed, failed, receipts, latest, clock, crashes,
                 token, outcome, now, todo>>

ClaimRename(w) ==
  /\ pc[w] = "claim_rename"
  /\ claims'  = [claims EXCEPT ![at[w]] = pending[at[w]]]
  /\ pending' = [pending EXCEPT ![at[w]] = NoFile]
  /\ token'   = [token EXCEPT ![w] = pending[at[w]].token]
  /\ Goto(w, "holding")
  /\ UNCHANGED <<completed, failed, receipts, latest, clock, lastToken,
                 crashes, at, outcome, now, todo>>

----------------------------------------------------------------------------
\* complete and fail (_transition): the claim file is read and its owner
\* checked, the attempt is recorded, the result written into the claim file,
\* and the file moved to completed/ or failed/.  Both take any result: a dry run
\* is completed, and which of the two was called matters to the move only.

OwnsByWorkerId(w) == claims[at[w]] # NoFile                       \* mutant
Owns(w) == /\ claims[at[w]] # NoFile
           /\ claims[at[w]].token = token[w]

Record(w, o) == receipts' = receipts \cup {[key |-> at[w], token |-> token[w],
                                            outcome |-> o]}

SettleAppend(w, o) ==
  /\ pc[w] = "holding" /\ QueueFree /\ ReceiptsFree
  /\ Owns(w)
  /\ Record(w, o)
  /\ outcome' = [outcome EXCEPT ![w] = o]
  /\ Goto(w, "settle_latest")
  /\ UNCHANGED <<files, latest, clock, lastToken, crashes, at, token, now, todo>>

ReplaceLatestAlways(k, o) == latest' = [latest EXCEPT ![k] = o]   \* mutant

\* A success in the latest receipt is never replaced by anything else.
ReplaceLatest(k, o) ==
  latest' = [latest EXCEPT ![k] = IF @ = "success" THEN @ ELSE o]

SettleLatest(w) ==
  /\ pc[w] = "settle_latest"
  /\ ReplaceLatest(at[w], outcome[w])
  /\ Goto(w, "settle_result")
  /\ UNCHANGED <<files, receipts, clock, lastToken, crashes, local>>

WithResult(entry, o) == [token |-> entry.token, expires |-> entry.expires,
                         result |-> o]

SettleResult(w) ==
  /\ pc[w] = "settle_result"
  /\ claims' = [claims EXCEPT ![at[w]] = WithResult(@, outcome[w])]
  /\ Goto(w, "settle_move")
  /\ UNCHANGED <<pending, completed, failed, receipts, latest, clock, lastToken,
                 crashes, local>>

SettleMove(w) ==
  /\ pc[w] = "settle_move"
  /\ \/ completed' = [completed EXCEPT ![at[w]] = claims[at[w]]] /\ UNCHANGED failed
     \/ failed' = [failed EXCEPT ![at[w]] = claims[at[w]]] /\ UNCHANGED completed
  /\ claims' = [claims EXCEPT ![at[w]] = NoFile]
  /\ Release(w)
  /\ UNCHANGED <<pending, receipts, latest, clock, lastToken, crashes>>

\* The claim file is gone or belongs to another lease: the call raises.
SettleRefused(w) ==
  /\ pc[w] \in {"holding", "requeue"} /\ QueueFree
  /\ ~Owns(w)
  /\ Release(w)
  /\ UNCHANGED <<files, receipts, latest, clock, lastToken, crashes>>

----------------------------------------------------------------------------
\* A bounded retry (orchestrator.py:596-597): the failed attempt is recorded
\* without the queue lock, then requeue moves the claim back to pending/.

RetryAppend(w) ==
  /\ pc[w] = "holding" /\ ReceiptsFree
  /\ Record(w, "failure")
  /\ Goto(w, "retry_latest")
  /\ UNCHANGED <<files, latest, clock, lastToken, crashes, local>>

RetryLatest(w) ==
  /\ pc[w] = "retry_latest"
  /\ ReplaceLatest(at[w], "failure")
  /\ Goto(w, "requeue")
  /\ UNCHANGED <<files, receipts, clock, lastToken, crashes, local>>

Requeue(w) ==
  /\ pc[w] = "requeue" /\ QueueFree
  /\ Owns(w)
  /\ pending' = [pending EXCEPT ![at[w]] = claims[at[w]]]
  /\ claims'  = [claims EXCEPT ![at[w]] = NoFile]
  /\ Release(w)
  /\ UNCHANGED <<completed, failed, receipts, latest, clock, lastToken, crashes>>

----------------------------------------------------------------------------
\* recover_expired: the clock is read before the lock is taken.

RecoverNow(w) ==
  /\ pc[w] = "idle"
  /\ now' = [now EXCEPT ![w] = clock]
  /\ Goto(w, "recover_lock")
  /\ UNCHANGED <<files, receipts, latest, clock, lastToken, crashes,
                 at, token, outcome, todo>>

RecoverLock(w) ==
  /\ pc[w] = "recover_lock" /\ QueueFree
  /\ todo' = [todo EXCEPT ![w] = {k \in Keys : claims[k] # NoFile}]
  /\ Goto(w, "recover_scan")
  /\ UNCHANGED <<files, receipts, latest, clock, lastToken, crashes,
                 at, token, outcome, now>>

RecoverableAtAnyTime(w, k) == ~LatestSuccess(k) /\ pending[k] = NoFile \* mutant
RecoverableUnchecked(w, k) == /\ claims[k].expires <= now[w]       \* mutant
                              /\ pending[k] = NoFile
Recoverable(w, k) == /\ claims[k].expires <= now[w]
                     /\ ~LatestSuccess(k)
                     /\ pending[k] = NoFile

RecoverVisit(w, k) ==
  /\ pc[w] = "recover_scan" /\ ReceiptsFree
  /\ First(k, todo[w])
  /\ todo' = [todo EXCEPT ![w] = @ \ {k}]
  /\ IF Recoverable(w, k)
       THEN /\ pending' = [pending EXCEPT ![k] = claims[k]]
            /\ claims'  = [claims EXCEPT ![k] = NoFile]
       ELSE UNCHANGED <<pending, claims>>
  /\ UNCHANGED <<completed, failed, receipts, latest, clock, lastToken, crashes,
                 pc, at, token, outcome, now>>

RecoverDone(w) ==
  /\ pc[w] = "recover_scan" /\ todo[w] = {}
  /\ Release(w)
  /\ UNCHANGED <<files, receipts, latest, clock, lastToken, crashes>>

----------------------------------------------------------------------------
\* The worker dies: its locks are free again, its files stay as they are.
Crash(w) ==
  /\ pc[w] # "idle" /\ crashes < MaxCrashes
  /\ crashes' = crashes + 1
  /\ Release(w)
  /\ UNCHANGED <<files, receipts, latest, clock, lastToken>>

Tick == /\ clock < MaxClock
        /\ clock' = clock + 1
        /\ UNCHANGED <<files, receipts, latest, lastToken, crashes, pc, local>>

Step(w) == \/ \E k \in Keys : \/ EnqueueCreate(w, k)
                             \/ ClaimStamp(w, k)
                             \/ RecoverVisit(w, k)
           \/ \E o \in Outcomes : SettleAppend(w, o)
           \/ EnqueueWrite(w) \/ ClaimRename(w)
           \/ SettleLatest(w) \/ SettleResult(w) \/ SettleMove(w)
           \/ SettleRefused(w)
           \/ RetryAppend(w)  \/ RetryLatest(w)  \/ Requeue(w)
           \/ RecoverNow(w)   \/ RecoverLock(w)  \/ RecoverDone(w)

Next == Tick \/ \E w \in Workers : Step(w) \/ Crash(w)

Spec == Init /\ [][Next]_vars

----------------------------------------------------------------------------
\* Types of all variables; a token in a file was handed out, a claim file is
\* always a stamped entry and never torn.
TypeOK ==
  /\ pending \in [Keys -> Entry \cup {NoFile, Torn}]
  /\ claims \in [Keys -> Entry \cup {NoFile}]
  /\ completed \in [Keys -> Entry \cup {NoFile}]
  /\ failed \in [Keys -> Entry \cup {NoFile}]
  /\ receipts \subseteq Receipt
  /\ latest \in [Keys -> Outcomes \cup {"none"}]
  /\ clock \in Nat /\ lastToken \in Nat /\ crashes \in Nat
  /\ pc \in [Workers -> Steps]
  /\ at \in [Workers -> Keys]
  /\ token \in [Workers -> Nat]
  /\ outcome \in [Workers -> Outcomes]
  /\ now \in [Workers -> Nat]
  /\ todo \in [Workers -> SUBSET Keys]
  /\ \A k \in Keys : claims[k] # NoFile => claims[k].token \in 1..lastToken

\* A key has one file in pending/ and claims/ together, whatever crashes and
\* recoveries happened: otherwise it could be claimed twice (store.py:162,
\* 211, 294).
OneHome == \A k \in Keys : pending[k] = NoFile \/ claims[k] = NoFile

\* At most one worker's handle matches the claim file of a key, also after its
\* lease expired and the key was recovered and claimed again (store.py:236-243).
OneOwner == \A v, w \in Workers :
  /\ pc[v] \notin {"idle", "enqueue_write", "claim_rename"}
  /\ pc[w] \notin {"idle", "enqueue_write", "claim_rename"}
  /\ at[v] = at[w] /\ Owns(v) /\ Owns(w)
  => v = w

\* Once the latest receipt of a key is a success, the key is not in pending/,
\* by no enqueue, requeue or recovery (store.py:160, 291).
SuccessNeverQueued == \A k \in Keys : LatestSuccess(k) => pending[k] = NoFile

\* A file in completed/ or failed/ holds the result that the log has for the same
\* lease, whichever of the two was called; if that result is a success, the key
\* is suppressed from then on, also by what older leases record later
\* (store.py:251-260).  A dry run that was completed suppresses nothing.
SettledHasReceipt == \A k \in Keys : \A file \in {completed[k], failed[k]} \ {NoFile} :
  /\ [key |-> k, token |-> file.token, outcome |-> file.result] \in receipts
  /\ file.result = "success" => LatestSuccess(k)

\* A claim leaves claims/ by its owner's hand, or after its lease ended:
\* recovery never takes an active claim, although it reads the clock before it
\* holds the lock (store.py:283-289).
ClaimTaken(k) == claims[k] # NoFile /\ claims'[k] = NoFile
ByOwner(k) == \E w \in Workers : /\ pc[w] \in {"settle_move", "requeue"}
                                 /\ pc'[w] = "idle"
                                 /\ at[w] = k /\ token[w] = claims[k].token
ActiveClaimsKept ==
  [][\A k \in Keys : ClaimTaken(k) => ByOwner(k) \/ claims[k].expires <= clock]_vars

\* The queue implements the claim ledger: a key is free, queued or granted, and
\* never queued again once its success is confirmed.
Place == [k \in Keys |-> IF claims[k] # NoFile THEN "granted"
                         ELSE IF pending[k] # NoFile THEN "queued" ELSE "free"]
Confirmed == [k \in Keys |-> LatestSuccess(k)]
Ledger == INSTANCE ClaimLedger WITH place <- Place, confirmed <- Confirmed
ImplementsLedger == Ledger!LedgerSpec

\* "The queue is file-backed and safe for one or more scheduler invocations"
\* (design.md:182): a file in pending/ can be read whenever nobody is writing it.
PendingReadable == \A k \in Keys :
  pending[k] = Torn => \E w \in Workers : pc[w] = "enqueue_write" /\ at[w] = k

\* "Existing success receipts suppress duplicate live publication"
\* (design.md:186), for every success in receipts.jsonl.
LoggedSuccessNeverQueued == \A k \in Keys :
  (\E r \in receipts : r.key = k /\ r.outcome = "success") => pending[k] = NoFile
============================================================================
