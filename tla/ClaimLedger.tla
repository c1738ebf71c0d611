---------------------------- MODULE ClaimLedger ----------------------------
(***************************************************************************)
(* What the file-backed queue promises, without files, locks or crashes:   *)
(* one place per idempotency key.  A key is free, queued, or granted to    *)
(* one worker; once a success is confirmed for it, it is never queued      *)
(* again ("Existing success receipts suppress duplicate live               *)
(* publication").  QueueStore is shown to implement this module.           *)
(***************************************************************************)
CONSTANT Keys

VARIABLES place,      \* [Keys -> {"free", "queued", "granted"}]
          confirmed   \* [Keys -> BOOLEAN]: a success receipt exists

ledgerVars == <<place, confirmed>>

LedgerTypeOK == /\ place \in [Keys -> {"free", "queued", "granted"}]
                /\ confirmed \in [Keys -> BOOLEAN]

\* Files of an earlier run may wait in the queue.
LedgerInit == /\ place \in [Keys -> {"free", "queued"}]
              /\ confirmed = [k \in Keys |-> FALSE]

\* A destination request enters the queue.
Offer(k) == /\ place[k] = "free" /\ ~confirmed[k]
            /\ place' = [place EXCEPT ![k] = "queued"]
            /\ UNCHANGED confirmed

\* A worker takes it.
Grant(k) == /\ place[k] = "queued" /\ ~confirmed[k]
            /\ place' = [place EXCEPT ![k] = "granted"]
            /\ UNCHANGED confirmed

\* The worker's success is on record.
Confirm(k) == /\ place[k] = "granted"
              /\ confirmed' = [confirmed EXCEPT ![k] = TRUE]
              /\ UNCHANGED place

\* The granted request is finished, as a failure or as a success that is on
\* record by then.
Retire(k) == /\ place[k] = "granted"
             /\ place' = [place EXCEPT ![k] = "free"]
             /\ confirmed' \in {confirmed, [confirmed EXCEPT ![k] = TRUE]}

\* The granted request goes back to the queue, for a retry or a recovery.
Return(k) == /\ place[k] = "granted" /\ ~confirmed[k]
             /\ place' = [place EXCEPT ![k] = "queued"]
             /\ UNCHANGED confirmed

LedgerNext == \E k \in Keys : \/ Offer(k) \/ Grant(k) \/ Confirm(k)
                              \/ Retire(k) \/ Return(k)

LedgerSpec == LedgerInit /\ [][LedgerNext]_ledgerVars
============================================================================
