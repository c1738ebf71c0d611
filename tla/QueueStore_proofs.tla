-------------------------- MODULE QueueStore_proofs -------------------------
(***************************************************************************)
(* QueueStore for every number of workers, keys, crashes and recoveries.   *)
(* Every change of pending/ and claims/ is made by a worker that holds     *)
(* .queue.lock, so what a worker found there stays true while it is inside *)
(* a lock block; what it relies on after it left the block is the token of *)
(* its claim, which no other worker ever holds.                            *)
(***************************************************************************)
EXTENDS QueueStore, TLAPS

Holding == {"holding", "settle_latest", "settle_result", "settle_move",
            "retry_latest", "requeue"}
Settling == {"settle_latest", "settle_result", "settle_move"}

\* flock: one holder at a time.
LockExclusive == \A v, w \in Workers :
  pc[v] \in UnderQueueLock /\ pc[w] \in UnderQueueLock => v = w

\* Inside enqueue and inside claim_next, the worker's pending file is there.
Writing == \A w \in Workers : pc[w] = "enqueue_write" => pending[at[w]] # NoFile

Stamping == \A w \in Workers : pc[w] = "claim_rename" =>
  /\ pending[at[w]] \in Entry
  /\ pending[at[w]].token \in 1..lastToken
  /\ \A v \in Workers : token[v] # pending[at[w]].token

\* Inside _transition the worker still owns its claim, and its receipt, its latest
\* receipt and its result are written one after the other.
SettlingOwns == \A w \in Workers : pc[w] \in Settling =>
  /\ Owns(w)
  /\ [key |-> at[w], token |-> token[w], outcome |-> outcome[w]] \in receipts
  /\ pc[w] = "settle_move" => claims[at[w]].result = outcome[w]

SettlingLatest == \A w \in Workers :
  pc[w] \in {"settle_result", "settle_move"} /\ outcome[w] = "success"
    => LatestSuccess(at[w])

\* A token is held by one worker, from the end of claim_next to the end of the
\* operation that gives the claim up.
Tokens ==
  /\ \A w \in Workers : token[w] <= lastToken
  /\ \A w \in Workers : pc[w] \in Holding <=> token[w] # 0
  /\ \A v, w \in Workers : token[v] = token[w] /\ token[v] # 0 => v = w

\* While an owner can still requeue its claim, its key has no success.
Unspent == \A w \in Workers :
  pc[w] \in {"holding", "settle_latest", "retry_latest", "requeue"} /\ Owns(w)
    => ~LatestSuccess(at[w])

\* The inductive invariant, by what its parts are about.
FilesInv  == LockExclusive /\ OneHome /\ SuccessNeverQueued /\ Writing /\ Stamping
SettleInv == SettlingOwns /\ SettlingLatest /\ SettledHasReceipt
OwnerInv  == Tokens /\ Unspent
IInv      == TypeOK /\ FilesInv /\ SettleInv /\ OwnerInv

----------------------------------------------------------------------------
\* Some key exists, so an idle worker stands at a key.
LEMMA AnyKeyIsKey == AnyKey \in Keys
BY QueueConstants DEF AnyKey

\* Releasing a worker keeps the types of its local variables.
LEMMA ReleaseTypes ==
  ASSUME TypeOK, NEW w \in Workers, Release(w)
  PROVE  /\ pc' \in [Workers -> Steps] /\ at' \in [Workers -> Keys]
         /\ token' \in [Workers -> Nat] /\ outcome' \in [Workers -> Outcomes]
         /\ now' \in [Workers -> Nat] /\ todo' \in [Workers -> SUBSET Keys]
BY AnyKeyIsKey DEF TypeOK, Release, Steps, Outcomes

\* The initial state has the types of TypeOK.
LEMMA InitTypes == Init => TypeOK
BY AnyKeyIsKey, QueueConstants
   DEF Init, TypeOK, Steps, Outcomes, Entry

\* TypeOK is preserved, given that the pending file a worker is stamping or
\* moving is a stamped entry and that an owner's claim file exists.
LEMMA TypeStep ==
  ASSUME TypeOK, Stamping, SettlingOwns, [Next]_vars PROVE TypeOK'
<1>1. CASE Tick BY <1>1 DEF Tick, TypeOK, files, local
<1>2. ASSUME NEW w \in Workers, Crash(w) PROVE TypeOK'
  BY <1>2, ReleaseTypes DEF Crash, TypeOK, files
<1>3. ASSUME NEW w \in Workers, NEW k \in Keys, EnqueueCreate(w, k) PROVE TypeOK'
  BY <1>3 DEF EnqueueCreate, TypeOK, Goto, Steps, UnderQueueLock
<1>4. ASSUME NEW w \in Workers, EnqueueWrite(w) PROVE TypeOK'
  BY <1>4, ReleaseTypes DEF EnqueueWrite, TypeOK, Entry, FreshEntry
<1>5. ASSUME NEW w \in Workers, NEW k \in Keys, ClaimStamp(w, k) PROVE TypeOK'
  <2>1. pending[k] \in Entry
    BY <1>5 DEF ClaimStamp, TypeOK, First, Claimable
  <2>2. pending' \in [Keys -> Entry \cup {NoFile, Torn}]
    BY <1>5, <2>1, QueueConstants DEF ClaimStamp, TypeOK, Entry
  <2>3. \A j \in Keys : claims[j] # NoFile => claims[j].token \in 1..(lastToken + 1)
    BY DEF TypeOK, Entry
  <2> QED BY <1>5, <2>2, <2>3 DEF ClaimStamp, TypeOK, Goto, Steps, UnderQueueLock
<1>6. ASSUME NEW w \in Workers, ClaimRename(w) PROVE TypeOK'
  <2>1. pending[at[w]] \in Entry /\ pending[at[w]].token \in 1..lastToken
    BY <1>6 DEF ClaimRename, Stamping
  <2>2. claims' \in [Keys -> Entry \cup {NoFile}]
    BY <1>6, <2>1 DEF ClaimRename, TypeOK
  <2>3. token' \in [Workers -> Nat]
    BY <1>6, <2>1 DEF ClaimRename, TypeOK, Entry
  <2> QED BY <1>6, <2>1, <2>2, <2>3 DEF ClaimRename, TypeOK, Goto, Steps
<1>7. ASSUME NEW w \in Workers, NEW o \in Outcomes, SettleAppend(w, o) PROVE TypeOK'
  BY <1>7 DEF SettleAppend, Record, Receipt, TypeOK, Goto, Steps, UnderQueueLock, files
<1>8. ASSUME NEW w \in Workers, SettleLatest(w) PROVE TypeOK'
  BY <1>8 DEF SettleLatest, ReplaceLatest, TypeOK, Goto, Steps, UnderQueueLock,
              files, local, Outcomes
<1>9. ASSUME NEW w \in Workers, SettleResult(w) PROVE TypeOK'
  <2>1. claims[at[w]] \in Entry
    BY <1>9 DEF SettleResult, SettlingOwns, Settling, Owns, TypeOK
  <2>2. /\ WithResult(claims[at[w]], outcome[w]) \in Entry
        /\ WithResult(claims[at[w]], outcome[w]).token = claims[at[w]].token
    BY <2>1 DEF TypeOK, Entry, Outcomes, WithResult
  <2> DEFINE new == WithResult(claims[at[w]], outcome[w])
  <2>3. claims' = [claims EXCEPT ![at[w]] = new]
    BY <1>9 DEF SettleResult
  <2> HIDE DEF new
  <2>4. /\ claims' \in [Keys -> Entry \cup {NoFile}]
        /\ \A k \in Keys : claims'[k] # NoFile => claims'[k].token \in 1..lastToken
    BY <2>1, <2>2, <2>3, QueueConstants DEF TypeOK, new
  <2> QED BY <1>9, <2>4 DEF SettleResult, TypeOK, Goto, Steps, UnderQueueLock, local
<1>10. ASSUME NEW w \in Workers, SettleMove(w) PROVE TypeOK'
  BY <1>10, ReleaseTypes DEF SettleMove, TypeOK
<1>11. ASSUME NEW w \in Workers, SettleRefused(w) PROVE TypeOK'
  BY <1>11, ReleaseTypes DEF SettleRefused, TypeOK, files
<1>12. ASSUME NEW w \in Workers, RetryAppend(w) PROVE TypeOK'
  BY <1>12 DEF RetryAppend, Record, Receipt, Outcomes, TypeOK, Goto, Steps,
               UnderReceiptsLock, files, local
<1>13. ASSUME NEW w \in Workers, RetryLatest(w) PROVE TypeOK'
  BY <1>13 DEF RetryLatest, ReplaceLatest, TypeOK, Goto, Steps, files, local, Outcomes
<1>14. ASSUME NEW w \in Workers, Requeue(w) PROVE TypeOK'
  BY <1>14, ReleaseTypes DEF Requeue, TypeOK
<1>15. ASSUME NEW w \in Workers, RecoverNow(w) PROVE TypeOK'
  BY <1>15 DEF RecoverNow, TypeOK, Goto, Steps, files
<1>16. ASSUME NEW w \in Workers, RecoverLock(w) PROVE TypeOK'
  BY <1>16 DEF RecoverLock, TypeOK, Goto, Steps, UnderQueueLock, files
<1>17. ASSUME NEW w \in Workers, NEW k \in Keys, RecoverVisit(w, k) PROVE TypeOK'
  BY <1>17 DEF RecoverVisit, Recoverable, TypeOK
<1>18. ASSUME NEW w \in Workers, RecoverDone(w) PROVE TypeOK'
  BY <1>18, ReleaseTypes DEF RecoverDone, TypeOK, files
<1>19. CASE UNCHANGED vars BY <1>19 DEF vars, files, local, TypeOK
<1> QED
  BY <1>1, <1>2, <1>3, <1>4, <1>5, <1>6, <1>7, <1>8, <1>9, <1>10, <1>11, <1>12,
     <1>13, <1>14, <1>15, <1>16, <1>17, <1>18, <1>19 DEF Next, Step

\* Every step preserves the three parts of the inductive invariant.
LEMMA IInvStep ==
  ASSUME IInv, [Next]_vars PROVE IInv'
<1> USE DEF IInv
<1>0. TypeOK'
  BY TypeStep DEF FilesInv, SettleInv
<1>1. CASE Tick
  <2>1. FilesInv'
    BY <1>1, AnyKeyIsKey, QueueConstants
    DEF Tick, files, local, FilesInv, LockExclusive, OneHome,
        SuccessNeverQueued, Writing, Stamping, QueueFree, OwnerInv, Tokens,
        Unspent, TypeOK, LatestSuccess, UnderQueueLock
  <2>2. SettleInv'
    BY <1>1, AnyKeyIsKey, QueueConstants
    DEF Tick, files, local, SettleInv, SettlingOwns, SettlingLatest,
        SettledHasReceipt, Settling, Owns, FilesInv, LockExclusive,
        OwnerInv, Tokens, TypeOK, LatestSuccess, UnderQueueLock
  <2>3. OwnerInv'
    BY <1>1, AnyKeyIsKey, QueueConstants
    DEF Tick, files, local, OwnerInv, Tokens, Unspent, Holding, Owns,
        FilesInv, Stamping, SuccessNeverQueued, TypeOK, LatestSuccess,
        UnderQueueLock
  <2> QED BY <1>0, <2>1, <2>2, <2>3
<1>2. ASSUME NEW w \in Workers, Crash(w) PROVE IInv'
  <2>1. FilesInv'
    BY <1>2, AnyKeyIsKey, QueueConstants
    DEF Crash, Release, files, local, FilesInv, LockExclusive, OneHome,
        SuccessNeverQueued, Writing, Stamping, QueueFree, OwnerInv, Tokens,
        Unspent, TypeOK, LatestSuccess, UnderQueueLock
  <2>2. SettleInv'
    BY <1>2, AnyKeyIsKey, QueueConstants
    DEF Crash, Release, files, local, SettleInv, SettlingOwns,
        SettlingLatest, SettledHasReceipt, Settling, Owns, FilesInv,
        LockExclusive, OwnerInv, Tokens, TypeOK, LatestSuccess,
        UnderQueueLock
  <2>3. OwnerInv'
    BY <1>2, AnyKeyIsKey, QueueConstants
    DEF Crash, Release, files, local, OwnerInv, Tokens, Unspent, Holding,
        Owns, FilesInv, Stamping, SuccessNeverQueued, TypeOK, LatestSuccess,
        UnderQueueLock
  <2> QED BY <1>0, <2>1, <2>2, <2>3
<1>3. ASSUME NEW w \in Workers, NEW k \in Keys, EnqueueCreate(w, k) PROVE IInv'
  <2>1. FilesInv'
    BY <1>3, AnyKeyIsKey, QueueConstants
    DEF EnqueueCreate, MayEnqueue, Goto, QueueFree, ReceiptsFree,
        LatestSuccess, files, local, FilesInv, LockExclusive, OneHome,
        SuccessNeverQueued, Writing, Stamping, OwnerInv, Tokens, Unspent,
        TypeOK, UnderQueueLock
  <2>2. SettleInv'
    BY <1>3, AnyKeyIsKey, QueueConstants
    DEF EnqueueCreate, MayEnqueue, Goto, QueueFree, ReceiptsFree,
        LatestSuccess, files, local, SettleInv, SettlingOwns,
        SettlingLatest, SettledHasReceipt, Settling, Owns, FilesInv,
        LockExclusive, OwnerInv, Tokens, TypeOK, UnderQueueLock
  <2>3. OwnerInv'
    BY <1>3, AnyKeyIsKey, QueueConstants
    DEF EnqueueCreate, MayEnqueue, Goto, QueueFree, ReceiptsFree,
        LatestSuccess, files, local, OwnerInv, Tokens, Unspent, Holding,
        Owns, FilesInv, Stamping, SuccessNeverQueued, TypeOK, UnderQueueLock
  <2> QED BY <1>0, <2>1, <2>2, <2>3
<1>4. ASSUME NEW w \in Workers, EnqueueWrite(w) PROVE IInv'
  <2>1. FilesInv'
    <3>1. FreshEntry # NoFile
      BY QueueConstants DEF FreshEntry, Entry
    <3>2. OneHome' /\ SuccessNeverQueued'
      BY <1>4 DEF EnqueueWrite, FilesInv, OneHome, SuccessNeverQueued, Writing,
                  LatestSuccess, TypeOK
    <3> QED
      BY <1>4, <3>1, <3>2, AnyKeyIsKey
      DEF EnqueueWrite, Release, FilesInv, LockExclusive, Writing, Stamping,
          TypeOK, UnderQueueLock
  <2>2. SettleInv'
    BY <1>4, AnyKeyIsKey, QueueConstants
    DEF EnqueueWrite, Release, FreshEntry, files, local, SettleInv,
        SettlingOwns, SettlingLatest, SettledHasReceipt, Settling, Owns,
        FilesInv, LockExclusive, OwnerInv, Tokens, TypeOK, LatestSuccess,
        UnderQueueLock
  <2>3. OwnerInv'
    BY <1>4, AnyKeyIsKey, QueueConstants
    DEF EnqueueWrite, Release, FreshEntry, files, local, OwnerInv, Tokens,
        Unspent, Holding, Owns, FilesInv, Stamping, SuccessNeverQueued,
        TypeOK, LatestSuccess, UnderQueueLock
  <2> QED BY <1>0, <2>1, <2>2, <2>3
<1>5. ASSUME NEW w \in Workers, NEW k \in Keys, ClaimStamp(w, k) PROVE IInv'
  <2>1. FilesInv'
    <3>1. pending[k] \in Entry
      BY <1>5 DEF ClaimStamp, TypeOK, First, Claimable
    <3>2. Stamping'
      BY <1>5, <3>1, QueueConstants
      DEF ClaimStamp, FilesInv, OwnerInv, Stamping, Tokens, TypeOK, Goto, Entry,
          QueueFree, UnderQueueLock
    <3>3. OneHome' /\ SuccessNeverQueued'
      BY <1>5, <3>1, QueueConstants
      DEF ClaimStamp, FilesInv, OneHome, SuccessNeverQueued, LatestSuccess,
          First, Claimable, TypeOK
    <3>4. Writing'
      BY <1>5 DEF ClaimStamp, FilesInv, Writing, Goto, QueueFree, UnderQueueLock, TypeOK
    <3> QED
      BY <1>5, <3>2, <3>3, <3>4
      DEF ClaimStamp, FilesInv, LockExclusive, Goto, QueueFree, UnderQueueLock, TypeOK
  <2>2. SettleInv'
    BY <1>5, AnyKeyIsKey, QueueConstants
    DEF ClaimStamp, Goto, QueueFree, First, Claimable, files, local,
        SettleInv, SettlingOwns, SettlingLatest, SettledHasReceipt,
        Settling, Owns, FilesInv, LockExclusive, OwnerInv, Tokens, TypeOK,
        LatestSuccess, UnderQueueLock
  <2>3. OwnerInv'
    BY <1>5, AnyKeyIsKey, QueueConstants
    DEF ClaimStamp, Goto, QueueFree, First, Claimable, files, local,
        OwnerInv, Tokens, Unspent, Holding, Owns, FilesInv, Stamping,
        SuccessNeverQueued, TypeOK, LatestSuccess, UnderQueueLock
  <2> QED BY <1>0, <2>1, <2>2, <2>3
<1>6. ASSUME NEW w \in Workers, ClaimRename(w) PROVE IInv'
  <2>1. FilesInv'
    BY <1>6, AnyKeyIsKey, QueueConstants
    DEF ClaimRename, Goto, files, local, FilesInv, LockExclusive, OneHome,
        SuccessNeverQueued, Writing, Stamping, QueueFree, OwnerInv, Tokens,
        Unspent, TypeOK, LatestSuccess, UnderQueueLock
  <2>2. SettleInv'
    BY <1>6, AnyKeyIsKey, QueueConstants
    DEF ClaimRename, Goto, files, local, SettleInv, SettlingOwns,
        SettlingLatest, SettledHasReceipt, Settling, Owns, FilesInv,
        LockExclusive, OwnerInv, Tokens, TypeOK, LatestSuccess,
        UnderQueueLock
  <2>3. OwnerInv'
    <3>1. Tokens'
      BY <1>6 DEF ClaimRename, FilesInv, OwnerInv, Tokens, Stamping, Holding, Goto, TypeOK
    <3>2. Unspent'
      BY <1>6, <3>1, QueueConstants
      DEF ClaimRename, FilesInv, OwnerInv, Tokens, Stamping, SuccessNeverQueued,
          Unspent, Owns, Goto, LatestSuccess, TypeOK
    <3> QED BY <3>1, <3>2 DEF OwnerInv
  <2> QED BY <1>0, <2>1, <2>2, <2>3
<1>7. ASSUME NEW w \in Workers, NEW o \in Outcomes, SettleAppend(w, o) PROVE IInv'
  <2>1. FilesInv'
    BY <1>7, AnyKeyIsKey, QueueConstants
    DEF SettleAppend, Record, Goto, QueueFree, ReceiptsFree, Owns, files,
        local, FilesInv, LockExclusive, OneHome, SuccessNeverQueued,
        Writing, Stamping, OwnerInv, Tokens, Unspent, TypeOK, LatestSuccess,
        UnderQueueLock
  <2>2. SettleInv'
    BY <1>7, AnyKeyIsKey, QueueConstants
    DEF SettleAppend, Record, Goto, QueueFree, ReceiptsFree, Owns, files,
        local, SettleInv, SettlingOwns, SettlingLatest, SettledHasReceipt,
        Settling, FilesInv, LockExclusive, OwnerInv, Tokens, TypeOK,
        LatestSuccess, UnderQueueLock
  <2>3. OwnerInv'
    BY <1>7, AnyKeyIsKey, QueueConstants
    DEF SettleAppend, Record, Goto, QueueFree, ReceiptsFree, Owns, files,
        local, OwnerInv, Tokens, Unspent, Holding, FilesInv, Stamping,
        SuccessNeverQueued, TypeOK, LatestSuccess, UnderQueueLock
  <2> QED BY <1>0, <2>1, <2>2, <2>3
<1>8. ASSUME NEW w \in Workers, SettleLatest(w) PROVE IInv'
  <2>1. FilesInv'
    <3>1. SuccessNeverQueued'
      BY <1>8 DEF SettleLatest, ReplaceLatest, FilesInv, SettleInv, OneHome,
                  SuccessNeverQueued, SettlingOwns, Settling, Owns, LatestSuccess,
                  files, TypeOK
    <3> QED
      BY <1>8, <3>1 DEF SettleLatest, FilesInv, LockExclusive, OneHome, Writing,
                        Stamping, Goto, files, local, TypeOK, UnderQueueLock
  <2>2. SettleInv'
    BY <1>8, AnyKeyIsKey, QueueConstants
    DEF SettleLatest, ReplaceLatest, Goto, files, local, SettleInv,
        SettlingOwns, SettlingLatest, SettledHasReceipt, Settling, Owns,
        FilesInv, LockExclusive, OwnerInv, Tokens, TypeOK, LatestSuccess,
        UnderQueueLock
  <2>3. OwnerInv'
    <3>1. Tokens'
      BY <1>8 DEF SettleLatest, OwnerInv, Tokens, Holding, Goto, local, TypeOK
    <3>2. ASSUME NEW v \in Workers, Owns(v), v # w, token[v] # 0
          PROVE  at[v] # at[w]
      <4>1. Owns(w)
        BY <1>8 DEF SettleLatest, SettleInv, SettlingOwns, Settling
      <4>2. at[v] = at[w] => token[v] = token[w]
        BY <3>2, <4>1 DEF Owns
      <4> QED BY <3>2, <4>2 DEF OwnerInv, Tokens
    <3>3. Unspent'
      BY <1>8, <3>2 DEF SettleLatest, ReplaceLatest, OwnerInv, Unspent, Tokens, Holding, Owns,
                        Goto, LatestSuccess, files, local, TypeOK
    <3> QED BY <3>1, <3>3 DEF OwnerInv
  <2> QED BY <1>0, <2>1, <2>2, <2>3
<1>9. ASSUME NEW w \in Workers, SettleResult(w) PROVE IInv'
  <2>1. FilesInv'
    <3>1. /\ claims[at[w]] \in Entry /\ claims'[at[w]] \in Entry
          /\ claims'[at[w]].token = claims[at[w]].token
          /\ \A k \in Keys : k # at[w] => claims'[k] = claims[k]
      BY <1>9 DEF SettleResult, SettleInv, SettlingOwns, Settling, Owns, TypeOK,
                  WithResult, Entry, Outcomes
    <3> QED
      BY <1>9, <3>1, QueueConstants
      DEF SettleResult, FilesInv, LockExclusive, OneHome, SuccessNeverQueued,
          Writing, Stamping, Goto, local, TypeOK, UnderQueueLock, LatestSuccess
  <2>2. SettleInv'
    <3>1. /\ claims[at[w]] \in Entry /\ claims'[at[w]] \in Entry
          /\ claims'[at[w]].token = claims[at[w]].token
          /\ claims'[at[w]].result = outcome[w]
          /\ \A k \in Keys : k # at[w] => claims'[k] = claims[k]
      BY <1>9 DEF SettleResult, SettleInv, SettlingOwns, Settling, Owns, TypeOK,
                  WithResult, Entry, Outcomes
    <3>2. \A v \in Workers : pc[v] \in Settling => v = w \/ at[v] # at[w]
      <4>1. Owns(w) /\ token[w] # 0
        BY <1>9 DEF SettleResult, SettleInv, SettlingOwns, Settling, OwnerInv, Tokens,
                    Holding
      <4>2. \A v \in Workers : pc[v] \in Settling => Owns(v)
        BY DEF SettleInv, SettlingOwns
      <4> QED BY <4>1, <4>2 DEF Owns, OwnerInv, Tokens
    <3>3. SettlingOwns'
      <4> SUFFICES ASSUME NEW v \in Workers, pc'[v] \in Settling
                   PROVE  /\ Owns(v)'
                          /\ [key |-> at[v], token |-> token[v],
                              outcome |-> outcome[v]] \in receipts
                          /\ pc'[v] = "settle_move" => claims'[at[v]].result = outcome[v]
        BY <1>9 DEF SettleResult, SettlingOwns, local
      <4>1. CASE v = w
        BY <1>9, <4>1, <3>1, QueueConstants
        DEF SettleResult, SettleInv, SettlingOwns, Settling, Owns, local
      <4>2. CASE v # w
        <5>1. pc'[v] = pc[v] /\ at[v] # at[w]
          BY <1>9, <4>2, <3>2 DEF SettleResult, Goto, TypeOK
        <5>2. claims'[at[v]] = claims[at[v]]
          BY <5>1, <3>1 DEF TypeOK
        <5> QED BY <1>9, <5>1, <5>2
                DEF SettleResult, SettleInv, SettlingOwns, Owns, local
      <4> QED BY <4>1, <4>2
    <3>4. SettlingLatest'
      BY <1>9 DEF SettleResult, SettleInv, SettlingLatest, Goto, local, LatestSuccess, TypeOK
    <3>5. SettledHasReceipt'
      BY <1>9 DEF SettleResult, SettleInv, SettledHasReceipt, local, LatestSuccess
    <3> QED BY <3>3, <3>4, <3>5 DEF SettleInv
  <2>3. OwnerInv'
    <3>1. /\ claims[at[w]] \in Entry /\ claims'[at[w]] \in Entry
          /\ claims'[at[w]].token = claims[at[w]].token
          /\ \A k \in Keys : k # at[w] => claims'[k] = claims[k]
      BY <1>9 DEF SettleResult, SettleInv, SettlingOwns, Settling, Owns, TypeOK,
                  WithResult, Entry, Outcomes
    <3>2. Tokens'
      BY <1>9 DEF SettleResult, OwnerInv, Tokens, Holding, Goto, local, TypeOK
    <3>3. Unspent'
      BY <1>9, <3>1, QueueConstants
      DEF SettleResult, OwnerInv, Unspent, Owns, Goto, LatestSuccess, local, TypeOK
    <3> QED BY <3>2, <3>3 DEF OwnerInv
  <2> QED BY <1>0, <2>1, <2>2, <2>3
<1>10. ASSUME NEW w \in Workers, SettleMove(w) PROVE IInv'
  <2>1. FilesInv'
    BY <1>10, AnyKeyIsKey, QueueConstants
    DEF SettleMove, Release, files, local, FilesInv, LockExclusive, OneHome,
        SuccessNeverQueued, Writing, Stamping, QueueFree, OwnerInv, Tokens,
        Unspent, TypeOK, LatestSuccess, UnderQueueLock
  <2>2. SettleInv'
    <3>1. /\ Owns(w) /\ outcome[w] \in {"success", "failure"}
          /\ [key |-> at[w], token |-> token[w], outcome |-> outcome[w]] \in receipts
          /\ outcome[w] = "success" => LatestSuccess(at[w])
          /\ claims[at[w]].result = outcome[w] /\ claims[at[w]].token = token[w]
      BY <1>10 DEF SettleMove, SettleInv, SettlingOwns, SettlingLatest, Settling,
                   Owns, TypeOK, Outcomes
    <3>2. SettledHasReceipt'
      <4> SUFFICES ASSUME NEW k \in Keys, NEW file \in {completed'[k], failed'[k]},
                          file # NoFile
                   PROVE  /\ [key |-> k, token |-> file.token,
                              outcome |-> file.result] \in receipts
                          /\ file.result = "success" => LatestSuccess(k)
        BY <1>10 DEF SettleMove, SettledHasReceipt, LatestSuccess
      <4>1. file \in {completed[k], failed[k]} \/ (k = at[w] /\ file = claims[k])
        BY <1>10 DEF SettleMove, TypeOK
      <4>2. CASE file \in {completed[k], failed[k]}
        BY <4>2 DEF SettleInv, SettledHasReceipt
      <4>3. CASE k = at[w] /\ file = claims[k]
        BY <3>1, <4>3
      <4> QED BY <4>1, <4>2, <4>3
    <3>3. SettlingOwns' /\ SettlingLatest'
      BY <1>10 DEF SettleMove, Release, SettleInv, SettlingOwns, SettlingLatest,
                   FilesInv, LockExclusive, Settling, UnderQueueLock, Owns,
                   LatestSuccess, TypeOK
    <3> QED BY <3>2, <3>3 DEF SettleInv
  <2>3. OwnerInv'
    BY <1>10, AnyKeyIsKey, QueueConstants
    DEF SettleMove, Release, files, local, OwnerInv, Tokens, Unspent,
        Holding, Owns, FilesInv, Stamping, SuccessNeverQueued, TypeOK,
        LatestSuccess, UnderQueueLock
  <2> QED BY <1>0, <2>1, <2>2, <2>3
<1>11. ASSUME NEW w \in Workers, SettleRefused(w) PROVE IInv'
  <2>1. FilesInv'
    BY <1>11, AnyKeyIsKey, QueueConstants
    DEF SettleRefused, Release, Owns, QueueFree, files, local, FilesInv,
        LockExclusive, OneHome, SuccessNeverQueued, Writing, Stamping,
        OwnerInv, Tokens, Unspent, TypeOK, LatestSuccess, UnderQueueLock
  <2>2. SettleInv'
    BY <1>11, AnyKeyIsKey, QueueConstants
    DEF SettleRefused, Release, Owns, QueueFree, files, local, SettleInv,
        SettlingOwns, SettlingLatest, SettledHasReceipt, Settling, FilesInv,
        LockExclusive, OwnerInv, Tokens, TypeOK, LatestSuccess,
        UnderQueueLock
  <2>3. OwnerInv'
    BY <1>11, AnyKeyIsKey, QueueConstants
    DEF SettleRefused, Release, Owns, QueueFree, files, local, OwnerInv,
        Tokens, Unspent, Holding, FilesInv, Stamping, SuccessNeverQueued,
        TypeOK, LatestSuccess, UnderQueueLock
  <2> QED BY <1>0, <2>1, <2>2, <2>3
<1>12. ASSUME NEW w \in Workers, RetryAppend(w) PROVE IInv'
  <2>1. FilesInv'
    BY <1>12, AnyKeyIsKey, QueueConstants
    DEF RetryAppend, Record, Goto, ReceiptsFree, files, local, FilesInv,
        LockExclusive, OneHome, SuccessNeverQueued, Writing, Stamping,
        QueueFree, OwnerInv, Tokens, Unspent, TypeOK, LatestSuccess,
        UnderQueueLock
  <2>2. SettleInv'
    BY <1>12, AnyKeyIsKey, QueueConstants
    DEF RetryAppend, Record, Goto, ReceiptsFree, files, local, SettleInv,
        SettlingOwns, SettlingLatest, SettledHasReceipt, Settling, Owns,
        FilesInv, LockExclusive, OwnerInv, Tokens, TypeOK, LatestSuccess,
        UnderQueueLock
  <2>3. OwnerInv'
    BY <1>12, AnyKeyIsKey, QueueConstants
    DEF RetryAppend, Record, Goto, ReceiptsFree, files, local, OwnerInv,
        Tokens, Unspent, Holding, Owns, FilesInv, Stamping,
        SuccessNeverQueued, TypeOK, LatestSuccess, UnderQueueLock
  <2> QED BY <1>0, <2>1, <2>2, <2>3
<1>13. ASSUME NEW w \in Workers, RetryLatest(w) PROVE IInv'
  <2>1. FilesInv'
    BY <1>13, AnyKeyIsKey, QueueConstants
    DEF RetryLatest, ReplaceLatest, Goto, files, local, FilesInv,
        LockExclusive, OneHome, SuccessNeverQueued, Writing, Stamping,
        QueueFree, OwnerInv, Tokens, Unspent, TypeOK, LatestSuccess,
        UnderQueueLock
  <2>2. SettleInv'
    BY <1>13, AnyKeyIsKey, QueueConstants
    DEF RetryLatest, ReplaceLatest, Goto, files, local, SettleInv,
        SettlingOwns, SettlingLatest, SettledHasReceipt, Settling, Owns,
        FilesInv, LockExclusive, OwnerInv, Tokens, TypeOK, LatestSuccess,
        UnderQueueLock
  <2>3. OwnerInv'
    BY <1>13, AnyKeyIsKey, QueueConstants
    DEF RetryLatest, ReplaceLatest, Goto, files, local, OwnerInv, Tokens,
        Unspent, Holding, Owns, FilesInv, Stamping, SuccessNeverQueued,
        TypeOK, LatestSuccess, UnderQueueLock
  <2> QED BY <1>0, <2>1, <2>2, <2>3
<1>14. ASSUME NEW w \in Workers, Requeue(w) PROVE IInv'
  <2>1. FilesInv'
    <3>1. SuccessNeverQueued'
      BY <1>14 DEF Requeue, FilesInv, OwnerInv, Unspent, SuccessNeverQueued,
                   LatestSuccess, TypeOK
    <3>2. OneHome' /\ Writing' /\ Stamping'
      BY <1>14, AnyKeyIsKey DEF Requeue, Release, Owns, QueueFree, UnderQueueLock,
                   FilesInv, OneHome, Writing, Stamping, TypeOK
    <3> QED
      BY <1>14, <3>1, <3>2 DEF Requeue, Release, FilesInv, LockExclusive,
                               UnderQueueLock, TypeOK
  <2>2. SettleInv'
    BY <1>14, AnyKeyIsKey, QueueConstants
    DEF Requeue, Release, QueueFree, Owns, files, local, SettleInv,
        SettlingOwns, SettlingLatest, SettledHasReceipt, Settling, FilesInv,
        LockExclusive, OwnerInv, Tokens, TypeOK, LatestSuccess,
        UnderQueueLock
  <2>3. OwnerInv'
    BY <1>14, AnyKeyIsKey, QueueConstants
    DEF Requeue, Release, QueueFree, Owns, files, local, OwnerInv, Tokens,
        Unspent, Holding, FilesInv, Stamping, SuccessNeverQueued, TypeOK,
        LatestSuccess, UnderQueueLock
  <2> QED BY <1>0, <2>1, <2>2, <2>3
<1>15. ASSUME NEW w \in Workers, RecoverNow(w) PROVE IInv'
  <2>1. FilesInv'
    BY <1>15, AnyKeyIsKey, QueueConstants
    DEF RecoverNow, Goto, files, local, FilesInv, LockExclusive, OneHome,
        SuccessNeverQueued, Writing, Stamping, QueueFree, OwnerInv, Tokens,
        Unspent, TypeOK, LatestSuccess, UnderQueueLock
  <2>2. SettleInv'
    BY <1>15, AnyKeyIsKey, QueueConstants
    DEF RecoverNow, Goto, files, local, SettleInv, SettlingOwns,
        SettlingLatest, SettledHasReceipt, Settling, Owns, FilesInv,
        LockExclusive, OwnerInv, Tokens, TypeOK, LatestSuccess,
        UnderQueueLock
  <2>3. OwnerInv'
    BY <1>15, AnyKeyIsKey, QueueConstants
    DEF RecoverNow, Goto, files, local, OwnerInv, Tokens, Unspent, Holding,
        Owns, FilesInv, Stamping, SuccessNeverQueued, TypeOK, LatestSuccess,
        UnderQueueLock
  <2> QED BY <1>0, <2>1, <2>2, <2>3
<1>16. ASSUME NEW w \in Workers, RecoverLock(w) PROVE IInv'
  <2>1. FilesInv'
    BY <1>16, AnyKeyIsKey, QueueConstants
    DEF RecoverLock, Goto, QueueFree, files, local, FilesInv, LockExclusive,
        OneHome, SuccessNeverQueued, Writing, Stamping, OwnerInv, Tokens,
        Unspent, TypeOK, LatestSuccess, UnderQueueLock
  <2>2. SettleInv'
    BY <1>16, AnyKeyIsKey, QueueConstants
    DEF RecoverLock, Goto, QueueFree, files, local, SettleInv, SettlingOwns,
        SettlingLatest, SettledHasReceipt, Settling, Owns, FilesInv,
        LockExclusive, OwnerInv, Tokens, TypeOK, LatestSuccess,
        UnderQueueLock
  <2>3. OwnerInv'
    BY <1>16, AnyKeyIsKey, QueueConstants
    DEF RecoverLock, Goto, QueueFree, files, local, OwnerInv, Tokens,
        Unspent, Holding, Owns, FilesInv, Stamping, SuccessNeverQueued,
        TypeOK, LatestSuccess, UnderQueueLock
  <2> QED BY <1>0, <2>1, <2>2, <2>3
<1>17. ASSUME NEW w \in Workers, NEW k \in Keys, RecoverVisit(w, k) PROVE IInv'
  <2>1. FilesInv'
    BY <1>17, AnyKeyIsKey, QueueConstants
    DEF RecoverVisit, Recoverable, First, LatestSuccess, files, local,
        FilesInv, LockExclusive, OneHome, SuccessNeverQueued, Writing,
        Stamping, QueueFree, OwnerInv, Tokens, Unspent, TypeOK,
        UnderQueueLock
  <2>2. SettleInv'
    BY <1>17, AnyKeyIsKey, QueueConstants
    DEF RecoverVisit, Recoverable, First, LatestSuccess, files, local,
        SettleInv, SettlingOwns, SettlingLatest, SettledHasReceipt,
        Settling, Owns, FilesInv, LockExclusive, OwnerInv, Tokens, TypeOK,
        UnderQueueLock
  <2>3. OwnerInv'
    <3>1. \A v \in Workers : Owns(v)' => Owns(v)
      BY <1>17 DEF RecoverVisit, Owns, TypeOK
    <3>2. Unspent'
      BY <1>17, <3>1 DEF RecoverVisit, OwnerInv, Unspent, LatestSuccess
    <3> QED BY <1>17, <3>2 DEF RecoverVisit, OwnerInv, Tokens
  <2> QED BY <1>0, <2>1, <2>2, <2>3
<1>18. ASSUME NEW w \in Workers, RecoverDone(w) PROVE IInv'
  <2>1. FilesInv'
    BY <1>18, AnyKeyIsKey, QueueConstants
    DEF RecoverDone, Release, files, local, FilesInv, LockExclusive,
        OneHome, SuccessNeverQueued, Writing, Stamping, QueueFree, OwnerInv,
        Tokens, Unspent, TypeOK, LatestSuccess, UnderQueueLock
  <2>2. SettleInv'
    BY <1>18, AnyKeyIsKey, QueueConstants
    DEF RecoverDone, Release, files, local, SettleInv, SettlingOwns,
        SettlingLatest, SettledHasReceipt, Settling, Owns, FilesInv,
        LockExclusive, OwnerInv, Tokens, TypeOK, LatestSuccess,
        UnderQueueLock
  <2>3. OwnerInv'
    BY <1>18, AnyKeyIsKey, QueueConstants
    DEF RecoverDone, Release, files, local, OwnerInv, Tokens, Unspent,
        Holding, Owns, FilesInv, Stamping, SuccessNeverQueued, TypeOK,
        LatestSuccess, UnderQueueLock
  <2> QED BY <1>0, <2>1, <2>2, <2>3
<1>19. CASE UNCHANGED vars
  BY <1>19 DEF vars, files, local, IInv, FilesInv, SettleInv, OwnerInv, TypeOK,
      LockExclusive, OneHome, SuccessNeverQueued, Writing, Stamping, SettlingOwns,
      SettlingLatest, SettledHasReceipt, Tokens, Unspent, Owns, LatestSuccess
<1> QED
  BY <1>1, <1>2, <1>3, <1>4, <1>5, <1>6, <1>7, <1>8, <1>9, <1>10, <1>11, <1>12,
     <1>13, <1>14, <1>15, <1>16, <1>17, <1>18, <1>19 DEF Next, Step

----------------------------------------------------------------------------
\* The initial state satisfies the inductive invariant: no worker is inside an
\* operation and no file exists.
LEMMA IInvInit == Init => IInv
<1> SUFFICES ASSUME Init PROVE IInv
  OBVIOUS
<1> USE DEF Init
<1>1. TypeOK
  BY InitTypes
<1>2. FilesInv
  BY DEF FilesInv, LockExclusive, OneHome, SuccessNeverQueued, Writing, Stamping,
         UnderQueueLock, LatestSuccess
<1>3. SettleInv
  BY DEF SettleInv, SettlingOwns, SettlingLatest, SettledHasReceipt, Settling
<1>4. OwnerInv
  BY DEF OwnerInv, Tokens, Unspent, Holding
<1> QED
  BY <1>1, <1>2, <1>3, <1>4 DEF IInv

\* The inductive invariant holds in every reachable state.
THEOREM Invariance == Spec => []IInv
<1>1. Init => IInv
  BY IInvInit
<1>2. IInv /\ [Next]_vars => IInv'
  BY IInvStep
<1> QED
  BY <1>1, <1>2, PTL DEF Spec

\* Type correctness of the queue's files, receipts and workers.
THEOREM TypeCorrect == Spec => []TypeOK
<1>1. IInv => TypeOK
  BY DEF IInv
<1> QED
  BY <1>1, Invariance, PTL

\* A key never has a pending file and a claim file at once, whatever workers
\* crash and whatever claims are recovered.
THEOREM OneHomeAlways == Spec => []OneHome
<1>1. IInv => OneHome
  BY DEF IInv, FilesInv
<1> QED
  BY <1>1, Invariance, PTL

\* At most one worker owns the claim file of a key (store.py:236-243).
THEOREM OneOwnerAlways == Spec => []OneOwner
<1>1. IInv => OneOwner
  BY DEF IInv, OwnerInv, Tokens, OneOwner, Owns, TypeOK
<1> QED
  BY <1>1, Invariance, PTL

\* A key whose latest receipt is a success is not in pending/.
THEOREM SuccessNeverQueuedAlways == Spec => []SuccessNeverQueued
<1>1. IInv => SuccessNeverQueued
  BY DEF IInv, FilesInv
<1> QED
  BY <1>1, Invariance, PTL

\* A settled file holds the result that the log has for its lease, and a success in
\* it suppresses its key.
THEOREM SettledHasReceiptAlways == Spec => []SettledHasReceipt
<1>1. IInv => SettledHasReceipt
  BY DEF IInv, SettleInv
<1> QED
  BY <1>1, Invariance, PTL

----------------------------------------------------------------------------
\* recover_expired's clock value is from the past, whenever it is used.
ClockRead == \A w \in Workers : now[w] <= clock

\* The clock only runs forward, so what recover_expired read before it waited
\* for the lock is never ahead of it (store.py:283-289).
LEMMA ClockReadAlways == Spec => []ClockRead
<1>1. Init => ClockRead
  BY DEF Init, ClockRead
<1>2. TypeOK /\ ClockRead /\ [Next]_vars => ClockRead'
  BY DEF TypeOK, ClockRead, Next, Step, vars, files, local, Tick, Crash, Release,
     EnqueueCreate, EnqueueWrite, ClaimStamp, ClaimRename, SettleAppend,
     SettleLatest, SettleResult, SettleMove, SettleRefused, RetryAppend,
     RetryLatest, Requeue, RecoverNow, RecoverLock, RecoverVisit, RecoverDone
<1> QED
  BY <1>1, <1>2, TypeCorrect, PTL DEF Spec

\* Only its owner, or a recovery after its lease ended, takes a claim file away
\* (store.py:263-297).
THEOREM ActiveClaimsKeptAlways == Spec => ActiveClaimsKept
<1>1. ASSUME IInv, ClockRead, Next, NEW k \in Keys, ClaimTaken(k)
      PROVE  ByOwner(k) \/ claims[k].expires <= clock
  <2> USE DEF IInv
  <2>1. ASSUME NEW w \in Workers, SettleMove(w) PROVE ByOwner(k)
    BY <1>1, <2>1 DEF SettleMove, Release, SettleInv, SettlingOwns, Settling,
                      Owns, ClaimTaken, ByOwner, TypeOK
  <2>2. ASSUME NEW w \in Workers, Requeue(w) PROVE ByOwner(k)
    BY <1>1, <2>2 DEF Requeue, Release, Owns, ClaimTaken, ByOwner, TypeOK
  <2>3. ASSUME NEW w \in Workers, NEW j \in Keys, RecoverVisit(w, j)
        PROVE  claims[k].expires <= clock
    <3>1. claims[k] \in Entry /\ claims[k].expires <= now[w]
      BY <1>1, <2>3 DEF RecoverVisit, Recoverable, ClaimTaken, TypeOK
    <3> QED BY <1>1, <3>1 DEF ClockRead, TypeOK, Entry
  <2>4. ASSUME NEW w \in Workers, ClaimRename(w) PROVE FALSE
    BY <1>1, <2>4, QueueConstants DEF ClaimRename, ClaimTaken, FilesInv, Stamping, TypeOK
  <2>5. ASSUME NEW w \in Workers, SettleResult(w) PROVE FALSE
    <3>1. claims[at[w]] \in Entry
      BY <1>1, <2>5 DEF SettleResult, SettleInv, SettlingOwns, Settling, Owns, TypeOK
    <3>2. WithResult(claims[at[w]], outcome[w]) \in Entry
      BY <1>1, <2>5, <3>1 DEF TypeOK, Entry, Outcomes, WithResult
    <3> QED
      BY <1>1, <2>5, <3>2, QueueConstants DEF SettleResult, ClaimTaken, TypeOK
  <2> QED
    BY <1>1, <2>1, <2>2, <2>3, <2>4, <2>5
    DEF Next, Step, files, Tick, Crash, EnqueueCreate, EnqueueWrite, ClaimStamp,
        SettleAppend, SettleLatest, SettleRefused, RetryAppend, RetryLatest,
        RecoverNow, RecoverLock, RecoverDone, ClaimTaken
<1>2. IInv /\ ClockRead /\ [Next]_vars
        => [\A k \in Keys : ClaimTaken(k) => ByOwner(k) \/ claims[k].expires <= clock]_vars
  BY <1>1
<1> QED
  BY <1>2, Invariance, ClockReadAlways, PTL DEF Spec, ActiveClaimsKept

----------------------------------------------------------------------------
\* The queue implements the claim ledger: every file operation is a step of the
\* ledger or changes nothing it shows.
LEMMA LedgerStep ==
  ASSUME IInv, Next PROVE [Ledger!LedgerNext]_<<Place, Confirmed>>
<1> USE DEF IInv
<1>1. ASSUME UNCHANGED <<pending, claims, latest>>
      PROVE  UNCHANGED <<Place, Confirmed>>
  BY <1>1 DEF Place, Confirmed, LatestSuccess
<1>2. ASSUME NEW w \in Workers, NEW k \in Keys, EnqueueCreate(w, k)
      PROVE  Ledger!Offer(k)
  BY <1>2, QueueConstants DEF EnqueueCreate, MayEnqueue, Ledger!Offer, Place, Confirmed,
                LatestSuccess, TypeOK
<1>3. ASSUME NEW w \in Workers, EnqueueWrite(w) PROVE UNCHANGED <<Place, Confirmed>>
  <2>1. FreshEntry # NoFile
    BY QueueConstants DEF FreshEntry, Entry
  <2> QED BY <1>3, <2>1 DEF EnqueueWrite, FilesInv, Writing, Place, Confirmed,
                            LatestSuccess, TypeOK
<1>4. ASSUME NEW w \in Workers, NEW k \in Keys, ClaimStamp(w, k)
      PROVE  UNCHANGED <<Place, Confirmed>>
  <2>1. pending[k] \in Entry
    BY <1>4 DEF ClaimStamp, TypeOK, First, Claimable
  <2>2. pending'[k] # NoFile /\ pending[k] # NoFile
    BY <1>4, <2>1, QueueConstants DEF ClaimStamp, TypeOK, Entry
  <2> QED BY <1>4, <2>2 DEF ClaimStamp, Place, Confirmed, LatestSuccess, TypeOK
<1>5. ASSUME NEW w \in Workers, ClaimRename(w) PROVE Ledger!Grant(at[w])
  <2>1. pending[at[w]] # NoFile /\ claims[at[w]] = NoFile /\ ~LatestSuccess(at[w])
    BY <1>5, QueueConstants DEF ClaimRename, FilesInv, Stamping, OneHome,
                                SuccessNeverQueued, TypeOK
  <2> QED BY <1>5, <2>1 DEF ClaimRename, Ledger!Grant, Place, Confirmed,
                            LatestSuccess, TypeOK
<1>6. ASSUME NEW w \in Workers, SettleLatest(w)
      PROVE  Ledger!Confirm(at[w]) \/ UNCHANGED <<Place, Confirmed>>
  <2>1. claims[at[w]] # NoFile /\ at[w] \in Keys
    BY <1>6 DEF SettleLatest, SettleInv, SettlingOwns, Settling, Owns, TypeOK
  <2>2. Place' = Place
    BY <1>6 DEF SettleLatest, files, Place
  <2>3. CASE outcome[w] = "success"
    <3>1. Confirmed' = [Confirmed EXCEPT ![at[w]] = TRUE]
      BY <1>6, <2>3 DEF SettleLatest, ReplaceLatest, Confirmed, LatestSuccess, TypeOK
    <3> QED BY <2>1, <2>2, <3>1 DEF Ledger!Confirm, Place
  <2>4. CASE outcome[w] # "success"
    BY <1>6, <2>2, <2>4 DEF SettleLatest, ReplaceLatest, Confirmed, LatestSuccess, TypeOK
  <2> QED BY <2>3, <2>4
<1>7. ASSUME NEW w \in Workers, SettleResult(w) PROVE UNCHANGED <<Place, Confirmed>>
  <2>1. claims[at[w]] \in Entry
    BY <1>7 DEF SettleResult, SettleInv, SettlingOwns, Settling, Owns, TypeOK
  <2>2. WithResult(claims[at[w]], outcome[w]) \in Entry
    BY <1>7, <2>1 DEF TypeOK, Entry, Outcomes, WithResult
  <2> QED BY <1>7, <2>1, <2>2, QueueConstants
          DEF SettleResult, Place, Confirmed, LatestSuccess, TypeOK, local
<1>8. ASSUME NEW w \in Workers, SettleMove(w) PROVE Ledger!Retire(at[w])
  <2>1. claims[at[w]] # NoFile /\ pending[at[w]] = NoFile
    BY <1>8 DEF SettleMove, SettleInv, SettlingOwns, Settling, Owns, FilesInv,
                OneHome, TypeOK
  <2> QED BY <1>8, <2>1 DEF SettleMove, Ledger!Retire, Place, Confirmed,
                            LatestSuccess, TypeOK
<1>9. ASSUME NEW w \in Workers, RetryLatest(w) PROVE UNCHANGED <<Place, Confirmed>>
  BY <1>9 DEF RetryLatest, ReplaceLatest, Place, Confirmed, LatestSuccess, TypeOK, files
<1>10. ASSUME NEW w \in Workers, Requeue(w) PROVE Ledger!Return(at[w])
  <2>1. claims[at[w]] # NoFile /\ ~LatestSuccess(at[w])
    BY <1>10 DEF Requeue, Owns, OwnerInv, Unspent
  <2> QED BY <1>10, <2>1 DEF Requeue, Ledger!Return, Place, Confirmed,
                             LatestSuccess, TypeOK
<1>11. ASSUME NEW w \in Workers, NEW k \in Keys, RecoverVisit(w, k)
       PROVE  Ledger!Return(k) \/ UNCHANGED <<Place, Confirmed>>
  <2>1. CASE claims[k] # NoFile /\ Recoverable(w, k)
    BY <1>11, <2>1 DEF RecoverVisit, Recoverable, Ledger!Return, Place, Confirmed,
                       LatestSuccess, TypeOK
  <2>2. CASE ~Recoverable(w, k)
    BY <1>1, <1>11, <2>2 DEF RecoverVisit
  <2>3. CASE claims[k] = NoFile /\ Recoverable(w, k)
    BY <1>1, <1>11, <2>3 DEF RecoverVisit, Recoverable, TypeOK
  <2> QED BY <2>1, <2>2, <2>3
<1> QED
  BY <1>1, <1>2, <1>3, <1>4, <1>5, <1>6, <1>7, <1>8, <1>9, <1>10, <1>11
  DEF Next, Step, files, Ledger!LedgerNext, Tick, Crash, SettleAppend, SettleRefused,
      RetryAppend, RecoverNow, RecoverLock, RecoverDone, TypeOK

\* The file-level queue, with its crashes, torn files and recoveries, implements
\* the claim ledger (store.py:155-298).
THEOREM QueueImplementsLedger == Spec => ImplementsLedger
<1>1. Init => Ledger!LedgerInit
  <2> SUFFICES ASSUME Init PROVE Ledger!LedgerInit
    OBVIOUS
  <2>1. \A k \in Keys : /\ pending[k] = NoFile /\ claims[k] = NoFile
                        /\ LatestSuccess(k) = FALSE
    BY DEF Init, LatestSuccess
  <2> QED BY <2>1 DEF Ledger!LedgerInit, Place, Confirmed
<1>2. IInv /\ [Next]_vars => [Ledger!LedgerNext]_<<Place, Confirmed>>
  <2>1. ASSUME IInv, UNCHANGED vars PROVE UNCHANGED <<Place, Confirmed>>
    BY <2>1 DEF vars, files, Place, Confirmed, LatestSuccess
  <2> QED BY <2>1, LedgerStep
<1> QED
  BY <1>1, <1>2, Invariance, PTL
  DEF Spec, ImplementsLedger, Ledger!LedgerSpec, Ledger!ledgerVars
============================================================================
