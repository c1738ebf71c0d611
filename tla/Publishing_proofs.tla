-------------------------- MODULE Publishing_proofs -------------------------
(***************************************************************************)
(* Publishing for every set of processes, keys, accounts and answers and   *)
(* every bound.  First what each action does to the process that takes it  *)
(* and to the files; the invariants are then proved from those facts, one  *)
(* action at a time.                                                       *)
(***************************************************************************)
EXTENDS Publishing, FiniteSetTheorems, WellFoundedInduction, TLAPS

Resting  == {"idle", "scan", "pick", "check_success"}
Checking == {"check_pause", "check_cap", "check_latest"}
Admitted1 == {"enqueue", "claim"}
Working  == {"set_request", "gates", "submit", "decide", "settle", "retry_write", "requeue"}
Labels   == Resting \cup Checking \cup Admitted1 \cup Working

Job == [pc: Labels, kind: AllKinds, live: BOOLEAN, loop: {1, 2}, todo: SUBSET Keys,
        batch: SUBSET Keys, restarts: Nat, key: Keys, queued: BOOLEAN, dry: BOOLEAN,
        token: Nat, answer: Answer]

TypeOK ==
  /\ pending \in [Keys -> PendingFile \cup {None}]
  /\ claims \in [Keys -> ClaimFile \cup {None}]
  /\ log \in Seq(AttemptLine \cup ResumeLine)
  /\ latest \in [Keys -> AttemptLine \cup {None}]
  /\ job \in [Workers -> Job]
  /\ \A w \in Workers : job[w].pc = "enqueue" => job[w].kind # "next"
  /\ lastToken \in Nat /\ today \in Nat
  /\ started \in Nat /\ crashes \in Nat /\ resumes \in Nat
  /\ seen \in [Keys -> [submits: Nat, verified: Nat, ambiguous: BOOLEAN]]

-----------------------------------------------------------------------------
\* The job record.

LEMMA IdleIsJob == IdleJob \in Job /\ NoAnswer \in Answer
<1>1. AnyKey \in Keys
  BY PublishingConstants DEF AnyKey
<1>2. NoAnswer \in Answer
  BY DEF NoAnswer, Answer, Statuses, SuccessStatuses, Categories
<1>3. "idle" \in Labels /\ "add" \in AllKinds /\ {} \in SUBSET Keys
  BY DEF Labels, Resting, AllKinds
<1> QED
  BY <1>1, <1>2, <1>3 DEF IdleJob, Job

\* One process moves on, the others stand.
Moves(w) == /\ job' \in [Workers -> Job]
            /\ \A v \in Workers : v # w => job'[v] = job[v]

\* The item stays the same.
Keeps(w) == /\ job'[w].key = job[w].key /\ job'[w].dry = job[w].dry
            /\ job'[w].queued = job[w].queued /\ job'[w].token = job[w].token
            /\ job'[w].kind = job[w].kind

Rests(w) == Moves(w) /\ job'[w].pc \in Resting

LEMMA BecomeMoves ==
  ASSUME TypeOK, NEW w \in Workers, NEW j \in Job, Become(w, j)
  PROVE  Moves(w) /\ job'[w] = j
BY DEF TypeOK, Become, Moves

LEMMA GotoMoves ==
  ASSUME TypeOK, NEW w \in Workers, NEW l \in Labels, Goto(w, l)
  PROVE  /\ Moves(w) /\ Keeps(w)
         /\ job'[w].pc = l /\ job'[w].answer = job[w].answer
<1> DEFINE j == [job[w] EXCEPT !.pc = l]
<1>1. j \in Job /\ j.pc = l
  BY DEF TypeOK, Job
<1>2. /\ j.key = job[w].key /\ j.dry = job[w].dry /\ j.queued = job[w].queued
      /\ j.token = job[w].token /\ j.kind = job[w].kind /\ j.answer = job[w].answer
  BY DEF TypeOK, Job
<1>3. Become(w, j)
  BY DEF Goto
<1> HIDE DEF j
<1> QED
  BY <1>1, <1>2, <1>3, BecomeMoves DEF Keeps

LEMMA FinishRests ==
  ASSUME TypeOK, NEW w \in Workers, Finish(w)
  PROVE  Rests(w)
BY IdleIsJob, BecomeMoves DEF Finish, Rests, IdleJob, Resting

LEMMA ItemDoneRests ==
  ASSUME TypeOK, NEW w \in Workers, ItemDone(w)
  PROVE  Rests(w)
<1> DEFINE j == [job[w] EXCEPT !.pc = "pick", !.token = 0, !.answer = NoAnswer]
<1>1. j \in Job /\ j.pc \in Resting
  BY IdleIsJob DEF TypeOK, Job, Labels, Resting
<1> HIDE DEF j
<1>2. CASE job[w].kind = "campaign"
  <2>1. Become(w, j)
    BY <1>2 DEF ItemDone, j
  <2> QED
    BY <1>1, <2>1, BecomeMoves DEF Rests
<1> QED
  BY <1>2, FinishRests DEF ItemDone

LEMMA RefusedRests ==
  ASSUME TypeOK, NEW w \in Workers, Refused(w)
  PROVE  Rests(w)
BY FinishRests, GotoMoves DEF Refused, Rests, Labels, Resting

LEMMA AnsweredMoves ==
  ASSUME TypeOK, NEW w \in Workers, NEW l \in Labels, NEW a \in Answer,
         Answered(w, l, a.status, a.evidence, a.category)
  PROVE  /\ Moves(w) /\ Keeps(w)
         /\ job'[w].pc = l /\ job'[w].answer = a
<1> DEFINE j == [job[w] EXCEPT !.pc = l, !.answer = a]
<1>1. j \in Job /\ j.pc = l /\ j.answer = a
  BY DEF TypeOK, Job
<1>2. /\ j.key = job[w].key /\ j.dry = job[w].dry /\ j.queued = job[w].queued
      /\ j.token = job[w].token /\ j.kind = job[w].kind
  BY DEF TypeOK, Job
<1>3. a = [status |-> a.status, evidence |-> a.evidence, category |-> a.category]
  BY DEF Answer
<1>4. Become(w, j)
  BY <1>3 DEF Answered
<1> HIDE DEF j
<1> QED
  BY <1>1, <1>2, <1>4, BecomeMoves DEF Keeps

-----------------------------------------------------------------------------
\* The actions by what they do.

Files == <<pending, claims, log, latest, lastToken, seen>>

\* process_next looks at the directory again.
LEMMA RestartIsJob ==
  ASSUME NEW j \in Job
  PROVE  LET i == [j EXCEPT !.pc = "scan", !.restarts = @ + 1]
         IN  i \in Job /\ i.pc = "scan"
<1>1. j.restarts + 1 \in Nat /\ "scan" \in Labels
  BY DEF Job, Labels, Resting
<1> QED
  BY <1>1 DEF Job

\* Commands that start, lists and items that are picked, refusals, losses, crashes.
LEMMA StartStep ==
  ASSUME TypeOK, NEW w \in Workers, Start(w)
  PROVE  Rests(w) /\ UNCHANGED <<Files, today, crashes, resumes>> /\ started' \in Nat
<1> USE DEF Rests, Files, queue, receipts
<1>0. started + 1 \in Nat
  BY DEF TypeOK
<1>1. PICK live \in BOOLEAN :
        \/ StartNext(w, live) \/ StartCampaign(w, live)
        \/ \E k \in Keys : \E kind \in Kinds : StartItem(w, kind, k, live)
  BY PublishingConstants DEF Start
<1>2. CASE StartNext(w, live)
  <2>1. [IdleJob EXCEPT !.pc = "scan", !.kind = "next", !.live = live] \in Job
    BY IdleIsJob DEF Job, Labels, Resting, AllKinds
  <2>2. [IdleJob EXCEPT !.pc = "scan", !.kind = "next", !.live = live].pc = "scan"
    BY IdleIsJob DEF Job
  <2> QED
    BY <1>0, <1>2, <2>1, <2>2, BecomeMoves DEF StartNext, Resting
<1>3. CASE StartCampaign(w, live)
  <2> DEFINE j == [IdleJob EXCEPT !.pc = "pick", !.kind = "campaign", !.live = live,
                                  !.todo = Configured]
  <2>1. j \in Job /\ j.pc = "pick"
    BY IdleIsJob, PublishingConstants DEF Job, Labels, Resting, AllKinds
  <2>2. Become(w, j)
    BY <1>3 DEF StartCampaign
  <2> HIDE DEF j
  <2> QED
    BY <1>0, <1>3, <2>1, <2>2, BecomeMoves DEF StartCampaign, Resting
<1>4. ASSUME NEW k \in Keys, NEW kind \in Kinds, StartItem(w, kind, k, live)
      PROVE  Rests(w) /\ UNCHANGED <<Files, today, crashes, resumes>> /\ started' \in Nat
  <2> DEFINE j == [IdleJob EXCEPT !.pc = "check_success", !.kind = kind, !.live = live,
                                  !.key = k, !.queued = ~live, !.dry = ~live]
  <2>1. kind \in AllKinds
    BY PublishingConstants
  <2>2. j \in Job /\ j.pc = "check_success"
    BY <2>1, IdleIsJob DEF Job, Labels, Resting
  <2>3. Become(w, j)
    BY <1>4 DEF StartItem
  <2> HIDE DEF j
  <2> QED
    BY <1>0, <1>4, <2>2, <2>3, BecomeMoves DEF StartItem, Resting
<1> QED
  BY <1>1, <1>2, <1>3, <1>4

LEMMA PickStep ==
  ASSUME TypeOK, NEW w \in Workers,
         Scan(w) \/ PickDone(w) \/ \E k \in Keys : PickNext(w, k) \/ PickCampaign(w, k)
  PROVE  Rests(w) /\ UNCHANGED <<Files, bounds>>
<1> USE DEF Rests, Files, queue, receipts
<1>0. job[w] \in Job
  BY DEF TypeOK
<1>1. CASE Scan(w)
  <2>1. CASE Finish(w)
    BY <1>1, <2>1, FinishRests DEF Scan
  <2>2. CASE ~Finish(w)
    <3>1. PICK empty \in SUBSET {k \in Keys : HalfCreated(w, k)} :
            Become(w, [job[w] EXCEPT !.pc = "pick",
              !.todo = {k \in Keys : pending[k] # None} \cup empty])
      BY <1>1, <2>2 DEF Scan
    <3> DEFINE j == [job[w] EXCEPT !.pc = "pick",
                       !.todo = {k \in Keys : pending[k] # None} \cup empty]
    <3>2. j \in Job /\ j.pc = "pick"
      BY <1>0 DEF Job, Labels, Resting
    <3>3. Become(w, j)
      BY <3>1
    <3> HIDE DEF j
    <3> QED
      BY <1>1, <3>2, <3>3, BecomeMoves DEF Scan, Resting
  <2> QED
    BY <2>1, <2>2
<1>2. CASE PickDone(w)
  <2> DEFINE j == [job[w] EXCEPT !.loop = 2, !.todo = job[w].batch, !.batch = {}]
  <2>1. job[w].pc = "pick"
    BY <1>2 DEF PickDone, At
  <2>2. j \in Job /\ j.pc = "pick"
    BY <1>0, <2>1 DEF Job
  <2>3. Finish(w) \/ Become(w, j)
    BY <1>2 DEF PickDone
  <2> HIDE DEF j
  <2> QED
    BY <1>2, <2>2, <2>3, BecomeMoves, FinishRests DEF PickDone, Resting
<1>3. ASSUME NEW k \in Keys, PickNext(w, k)
      PROVE  Rests(w) /\ UNCHANGED <<Files, bounds>>
  <2>1. CASE pending[k] = None /\ Restart(w)
    <3> DEFINE j == [job[w] EXCEPT !.pc = "scan", !.restarts = @ + 1]
    <3>1. j \in Job /\ j.pc = "scan"
      BY <1>0, RestartIsJob
    <3>2. Become(w, j)
      BY <2>1 DEF Restart
    <3> HIDE DEF j
    <3> QED
      BY <1>3, <3>1, <3>2, BecomeMoves DEF PickNext, Resting
  <2>2. CASE pending[k] # None /\ ~Finish(w)
    <3> DEFINE l == IF k \in Configured THEN "check_success" ELSE "pick"
               d == pending[k].dry
               e == pending[k].dry \/ ~job[w].live
               j == [job[w] EXCEPT !.pc = l, !.todo = @ \ {k}, !.key = k,
                                   !.queued = d, !.dry = e]
    <3>1. d \in BOOLEAN /\ e \in BOOLEAN
      <4>1. d \in BOOLEAN
        BY <2>2 DEF TypeOK, PendingFile
      <4> QED
        BY <4>1
    <3>2. l \in Resting /\ l \in Labels
      BY DEF Labels, Resting
    <3>3. pending[k] # None /\ Become(w, j)
      BY <1>3, <2>2 DEF PickNext
    <3> HIDE DEF l, d, e
    <3>4. j \in Job /\ j.pc \in Resting
      BY <1>0, <3>1, <3>2 DEF Job
    <3> HIDE DEF j
    <3> QED
      BY <1>3, <3>3, <3>4, BecomeMoves DEF PickNext
  <2>3. CASE Finish(w)
    BY <1>3, <2>3, FinishRests DEF PickNext
  <2> QED
    BY <1>3, <2>1, <2>2, <2>3 DEF PickNext
<1>4. ASSUME NEW k \in Keys, PickCampaign(w, k)
      PROVE  Rests(w) /\ UNCHANGED <<Files, bounds>>
  <2> DEFINE j == [job[w] EXCEPT !.pc = "check_success", !.todo = @ \ {k}, !.key = k,
                                 !.queued = ~job[w].live, !.dry = ~job[w].live]
  <2>1. j \in Job /\ j.pc = "check_success"
    BY <1>0 DEF Job, Labels, Resting
  <2>2. Become(w, j)
    BY <1>4 DEF PickCampaign
  <2> HIDE DEF j
  <2> QED
    BY <1>4, <2>1, <2>2, BecomeMoves DEF PickCampaign, Resting
<1> QED
  BY <1>1, <1>2, <1>3, <1>4

LEMMA CrashStep ==
  ASSUME TypeOK, NEW w \in Workers, Crash(w)
  PROVE  /\ Rests(w) /\ UNCHANGED <<Files, today, started, resumes>>
         /\ crashes' = crashes + 1
BY FinishRests DEF Crash, Files, queue, receipts

LEMMA ClaimLostStep ==
  ASSUME TypeOK, NEW w \in Workers, ClaimLost(w)
  PROVE  /\ Rests(w) /\ UNCHANGED <<Files, bounds>>
         /\ job[w].pc \in {"settle", "requeue", "set_request"} /\ ~Owns(w)
BY ItemDoneRests DEF ClaimLost, At, Files, queue, receipts

\* A check refuses or leads to the next one.
LEMMA CheckStep ==
  ASSUME TypeOK, NEW w \in Workers,
         CheckSuccess(w) \/ CheckPause(w) \/ CheckCap(w) \/ CheckLatest(w)
  PROVE  /\ UNCHANGED <<Files, bounds>>
         /\ \/ Rests(w)
            \/ /\ Moves(w) /\ Keeps(w)
               /\ \/ /\ job[w].pc = "check_success" /\ job'[w].pc = "check_pause"
                     /\ ~LatestSuccess(job[w].key)
                  \/ /\ job[w].pc = "check_pause" /\ job'[w].pc = "check_cap"
                     /\ ~FailurePaused(AccountOf[job[w].key])
                  \/ /\ job[w].pc = "check_cap" /\ job'[w].pc = "check_latest"
                     /\ job[w].dry \/ ~CapReached
                  \/ /\ job[w].pc = "check_latest" /\ job'[w].pc \in {"enqueue", "claim"}
                     /\ job'[w].pc = "enqueue" => job[w].kind # "next"
                     /\ ~RetriesSpent(job[w].key)
<1> USE DEF Files, queue, receipts, At
<1>0. {"check_pause", "check_cap", "check_latest", "enqueue", "claim"} \subseteq Labels
  BY DEF Labels, Checking, Admitted1
<1>1. CASE CheckSuccess(w)
  BY <1>0, <1>1, RefusedRests, GotoMoves DEF CheckSuccess
<1>2. CASE CheckPause(w)
  BY <1>0, <1>2, RefusedRests, GotoMoves DEF CheckPause
<1>3. CASE CheckCap(w)
  BY <1>0, <1>3, RefusedRests, GotoMoves DEF CheckCap
<1>4. CASE CheckLatest(w)
  BY <1>0, <1>4, RefusedRests, GotoMoves DEF CheckLatest, Admitted
<1> QED
  BY <1>1, <1>2, <1>3, <1>4

LEMMA EnqueueStep ==
  ASSUME TypeOK, NEW w \in Workers, Enqueue(w)
  PROVE  LET k == job[w].key
         IN  /\ job[w].pc = "enqueue"
             /\ Rests(w) \/ (Moves(w) /\ Keeps(w) /\ job'[w].pc = "claim")
             /\ \/ ~MayEnqueue(k) /\ UNCHANGED pending
                \/ /\ MayEnqueue(k)
                   /\ pending' = [pending EXCEPT ![k] = [dry |-> job[w].dry]]
             /\ UNCHANGED <<claims, log, latest, lastToken, seen, bounds>>
<1> DEFINE k == job[w].key
<1>0. job[w] \in Job /\ "claim" \in Labels /\ "pick" \in Labels
  BY DEF TypeOK, Labels, Admitted1, Resting
<1>1. Rests(w) \/ (Moves(w) /\ Keeps(w) /\ job'[w].pc = "claim")
  <2>1. CASE job[w].kind = "add"
    BY <2>1, FinishRests DEF Enqueue
  <2>2. CASE job[w].kind = "publish"
    BY <1>0, <2>2, FinishRests, GotoMoves DEF Enqueue
  <2>3. CASE job[w].kind = "campaign"
    <3> DEFINE b == IF LatestSuccess(k) THEN job[w].batch ELSE job[w].batch \cup {k}
               j == [job[w] EXCEPT !.pc = "pick", !.batch = b]
    <3>1. b \in SUBSET Keys
      BY <1>0 DEF Job
    <3>2. Become(w, j)
      BY <1>0, <2>3 DEF Enqueue, Job
    <3> HIDE DEF b
    <3>3. j \in Job /\ j.pc = "pick"
      BY <1>0, <3>1 DEF Job
    <3> HIDE DEF j
    <3> QED
      BY <3>2, <3>3, BecomeMoves DEF Rests, Resting
  <2>4. CASE job[w].kind \notin {"add", "publish", "campaign"}
    BY <1>0, <2>4 DEF Enqueue, At, TypeOK, Job, AllKinds
  <2> QED
    BY <2>1, <2>2, <2>3, <2>4
<1> QED
  BY <1>1 DEF Enqueue, At, receipts

\* The claim: the pending file of the same request moves over under a new token.
LEMMA ClaimStep ==
  ASSUME TypeOK, NEW w \in Workers, Claim(w)
  PROVE  LET k == job[w].key
         IN  /\ job[w].pc = "claim" /\ UNCHANGED <<log, latest, seen, bounds>>
             /\ \/ Rests(w) /\ UNCHANGED <<pending, claims, lastToken>>
                \/ /\ Moves(w) /\ job'[w].pc = "set_request"
                   /\ job'[w].key = k /\ job'[w].dry = job[w].dry
                   /\ job'[w].token = lastToken + 1 /\ lastToken' = lastToken + 1
                   /\ pending[k] \in PendingFile /\ claims[k] = None
                   /\ claims' = [claims EXCEPT ![k] = [dry |-> pending[k].dry,
                                                       token |-> lastToken + 1]]
                   /\ pending' = [pending EXCEPT ![k] = None]
<1> DEFINE k == job[w].key
<1>0. job[w] \in Job /\ "set_request" \in Labels /\ lastToken + 1 \in Nat
  BY DEF TypeOK, Labels, Working
<1>1. CASE Claimable(w)
  <2> DEFINE j == [job[w] EXCEPT !.pc = "set_request", !.token = lastToken + 1]
  <2>1. /\ j \in Job /\ j.pc = "set_request" /\ j.token = lastToken + 1
        /\ j.key = k /\ j.dry = job[w].dry
    BY <1>0 DEF Job
  <2>2. Become(w, j)
    BY <1>1 DEF Claim
  <2>3. pending[k] \in PendingFile /\ claims[k] = None
    BY <1>0, <1>1 DEF Claimable, PendingFile, Job
  <2> HIDE DEF j
  <2> QED
    BY <1>1, <2>1, <2>2, <2>3, BecomeMoves DEF Claim, At, receipts
<1>2. CASE ~Claimable(w)
  <2>1. Rests(w)
    <3>1. CASE Restart(w)
      BY <1>0, <3>1, RestartIsJob, BecomeMoves DEF Restart, Rests, Resting
    <3> QED
      BY <1>2, <3>1, ItemDoneRests DEF Claim
  <2> QED
    BY <1>2, <2>1 DEF Claim, At, queue, receipts
<1> QED
  BY <1>1, <1>2

LEMMA SetRequestStep ==
  ASSUME TypeOK, NEW w \in Workers, SetRequest(w)
  PROVE  LET k == job[w].key
         IN  /\ job[w].pc = "set_request"
             /\ Moves(w) /\ Keeps(w) /\ job'[w].pc = "gates"
             /\ \/ UNCHANGED claims
                \/ /\ claims[k] \in ClaimFile
                   /\ claims' = [claims EXCEPT ![k].dry = job[w].dry]
             /\ UNCHANGED <<pending, log, latest, lastToken, seen, bounds>>
<1>1. "gates" \in Labels /\ job[w].key \in Keys
  BY DEF Labels, Working, TypeOK, Job
<1>2. UNCHANGED claims \/ Owns(w)
  BY DEF SetRequest
<1>3. Owns(w) => claims[job[w].key] \in ClaimFile
  BY <1>1 DEF TypeOK, Owns
<1> QED
  BY <1>1, <1>2, <1>3, GotoMoves DEF SetRequest, At, receipts

LEMMA GatesStep ==
  ASSUME TypeOK, NEW w \in Workers, GatesPass(w) \/ \E c \in GateFaults : GateFails(w, c)
  PROVE  /\ UNCHANGED <<Files, bounds>> /\ job[w].pc = "gates"
         /\ Moves(w) /\ Keeps(w)
         /\ \/ job'[w].pc = "submit" /\ ~job[w].dry
            \/ job'[w].pc = "settle" /\ job'[w].answer.status = "skipped" /\ job[w].dry
            \/ job'[w].pc = "settle" /\ job'[w].answer.status = "blocked"
<1> USE DEF Files, queue, receipts, At
<1>0. {"settle", "submit"} \subseteq Labels
  BY DEF Labels, Working
<1>1. CASE GatesPass(w)
  <2>1. NoAnswer \in Answer
    BY IdleIsJob
  <2>2. job[w].dry => Answered(w, "settle", NoAnswer.status, NoAnswer.evidence,
                               NoAnswer.category)
    BY <1>1 DEF GatesPass, NoAnswer
  <2>3. NoAnswer.status = "skipped"
    BY DEF NoAnswer
  <2> QED
    BY <1>0, <1>1, <2>1, <2>2, <2>3, AnsweredMoves, GotoMoves DEF GatesPass
<1>2. ASSUME NEW c \in GateFaults, GateFails(w, c)
      PROVE  /\ UNCHANGED <<Files, bounds>> /\ job[w].pc = "gates"
             /\ Moves(w) /\ Keeps(w)
             /\ job'[w].pc = "settle" /\ job'[w].answer.status = "blocked"
  <2> DEFINE a == [status |-> "blocked", evidence |-> FALSE, category |-> c]
  <2>1. c \in Categories /\ "blocked" \in Statuses
    BY PublishingConstants DEF Statuses
  <2>2. a \in Answer
    BY <2>1 DEF Answer
  <2>3. Answered(w, "settle", a.status, a.evidence, a.category)
    BY <1>2 DEF GateFails
  <2>4. a.status = "blocked"
    OBVIOUS
  <2> HIDE DEF a
  <2> QED
    BY <1>0, <1>2, <2>2, <2>3, <2>4, AnsweredMoves DEF GateFails
<1> QED
  BY <1>1, <1>2

LEMMA NormalisedAnswer ==
  ASSUME NEW a \in Answer
  PROVE  /\ Normalised(a) \in Answer
         /\ Verified(Normalised(a)) <=> Verified(a)
         /\ Normalised(a).status # "unknown"
         /\ Normalised(a).status \in SuccessStatuses => Verified(a)
<1> DEFINE n == Normalised(a)
<1>0. {"failed", "blocked", "unknown"} \subseteq Statuses /\ "ambiguous_submit" \in Categories
  BY DEF Statuses, Categories, ErrorCategory
<1>1. a.status \in Statuses /\ a.evidence \in BOOLEAN /\ a.category \in Categories
  BY DEF Answer
<1>2. CASE a.status = "unknown" \/ (a.status \in SuccessStatuses /\ ~a.evidence)
  <2>1. n = [status |-> "failed", evidence |-> FALSE, category |-> "ambiguous_submit"]
    BY <1>2 DEF Normalised
  <2>2. "failed" \notin SuccessStatuses /\ "unknown" \notin SuccessStatuses
    BY DEF SuccessStatuses
  <2> QED
    BY <1>0, <1>2, <2>1, <2>2 DEF Answer, Verified
<1>3. CASE ~(a.status = "unknown" \/ (a.status \in SuccessStatuses /\ ~a.evidence))
  <2>1. n = [status |-> a.status, evidence |-> a.evidence, category |-> a.category]
    BY <1>3 DEF Normalised
  <2> QED
    BY <1>1, <1>3, <2>1 DEF Answer, Verified
<1> QED
  BY <1>2, <1>3

LEMMA SubmitStep ==
  ASSUME TypeOK, NEW w \in Workers, NEW a \in Answers, Submit(w, a)
  PROVE  LET k == job[w].key
             n == Normalised(a)
         IN  /\ job[w].pc = "submit" /\ Moves(w) /\ Keeps(w)
             /\ job'[w].pc = "decide" /\ job'[w].answer = n
             /\ seen' = [seen EXCEPT
                  ![k] = [submits   |-> seen[k].submits + 1,
                          verified  |-> IF Verified(a) THEN seen[k].verified + 1
                                                       ELSE seen[k].verified,
                          ambiguous |-> seen[k].ambiguous \/ n.category = "ambiguous_submit"]]
             /\ UNCHANGED <<pending, claims, log, latest, lastToken, bounds>>
<1> DEFINE k == job[w].key
           n == Normalised(a)
<1>1. n \in Answer
  BY NormalisedAnswer, PublishingConstants
<1>2. "decide" \in Labels /\ k \in Keys
  BY DEF Labels, Working, TypeOK, Job
<1>3. Answered(w, "decide", n.status, n.evidence, n.category)
  BY DEF Submit
<1>4. Moves(w) /\ Keeps(w) /\ job'[w].pc = "decide" /\ job'[w].answer = n
  <2> HIDE DEF n
  <2> QED
    BY <1>1, <1>2, <1>3, AnsweredMoves
<1> QED
  BY <1>4 DEF Submit, At, queue, receipts

LEMMA DecideStep ==
  ASSUME TypeOK, NEW w \in Workers, Decide(w)
  PROVE  /\ UNCHANGED <<Files, bounds>> /\ job[w].pc = "decide"
         /\ Moves(w) /\ Keeps(w) /\ job'[w].answer = job[w].answer
         /\ \/ job'[w].pc = "settle"
            \/ /\ job'[w].pc = "retry_write" /\ ~Verified(job[w].answer)
               /\ job[w].answer.status = "failed"
               /\ job[w].answer.category \in TransientCategories
<1>1. {"settle", "retry_write"} \subseteq Labels
  BY DEF Labels, Working
<1> QED
  BY <1>1, GotoMoves DEF Decide, At, RetryDecision, Files, queue, receipts

\* The record of an attempt, and what it does to the latest receipt.
LEMMA RecordIsLine ==
  ASSUME TypeOK, NEW w \in Workers
  PROVE  /\ RecordOf(w) \in AttemptLine /\ RecordOf(w).event = "attempt"
         /\ RecordOf(w).key = job[w].key /\ RecordOf(w).dry = job[w].dry
         /\ RecordOf(w).status = job[w].answer.status
         /\ RecordOf(w).category = job[w].answer.category /\ RecordOf(w).day = today
         /\ IsSuccess(RecordOf(w)) <=> ~job[w].dry /\ Verified(job[w].answer)
<1>1. job[w].key \in Keys /\ job[w].dry \in BOOLEAN /\ job[w].answer \in Answer
  BY DEF TypeOK, Job
<1>2. AccountOf[job[w].key] \in Accounts
  BY <1>1 DEF Accounts
<1> QED
  BY <1>1, <1>2 DEF TypeOK, RecordOf, Attempt, AttemptLine, Answer, IsSuccess, Verified

Writes(w) ==
  /\ log' = Append(log, RecordOf(w))
  /\ \/ latest' = [latest EXCEPT ![job[w].key] = RecordOf(w)]
     \/ LatestSuccess(job[w].key) /\ ~IsSuccess(RecordOf(w)) /\ UNCHANGED latest
  /\ LatestSuccess(job[w].key) /\ ~IsSuccess(RecordOf(w)) => UNCHANGED latest

LEMMA WriteAttemptWrites ==
  ASSUME TypeOK, NEW w \in Workers, WriteAttempt(w)
  PROVE  /\ Writes(w)
         /\ log' \in Seq(AttemptLine \cup ResumeLine)
         /\ latest' \in [Keys -> AttemptLine \cup {None}]
<1> DEFINE k == job[w].key
<1>1. k \in Keys /\ RecordOf(w) \in AttemptLine
  BY RecordIsLine DEF TypeOK, Job
<1>2. latest' = [latest EXCEPT ![k] = IF LatestSuccess(k) /\ ~IsSuccess(RecordOf(w))
                                        THEN latest[k] ELSE RecordOf(w)]
  BY DEF WriteAttempt, LatestAfter, LatestSuccess
<1>3. LatestSuccess(k) /\ ~IsSuccess(RecordOf(w)) => latest' = latest
  BY <1>1, <1>2 DEF TypeOK
<1>4. ~(LatestSuccess(k) /\ ~IsSuccess(RecordOf(w)))
        => latest' = [latest EXCEPT ![k] = RecordOf(w)]
  BY <1>2
<1>5. log' = Append(log, RecordOf(w))
  BY DEF WriteAttempt
<1>6. log' \in Seq(AttemptLine \cup ResumeLine)
  BY <1>1, <1>5 DEF TypeOK
<1>7. latest' \in [Keys -> AttemptLine \cup {None}]
  BY <1>1, <1>2 DEF TypeOK
<1> QED
  BY <1>3, <1>4, <1>5, <1>6, <1>7 DEF Writes

\* The success of a key, before and after a record.
LEMMA SuccessAfter ==
  ASSUME TypeOK, NEW w \in Workers, Writes(w), NEW k \in Keys
  PROVE  LatestSuccess(k)' <=> \/ LatestSuccess(k)
                               \/ k = job[w].key /\ IsSuccess(RecordOf(w))
<1>1. RecordOf(w) \in AttemptLine /\ None \notin AttemptLine
  BY RecordIsLine, NoneIsNoFile
<1>2. LatestSuccess(k)' <=> latest'[k] # None /\ IsSuccess(latest'[k])
  BY DEF LatestSuccess, IsSuccess
<1>3. CASE k # job[w].key
  <2>1. latest'[k] = latest[k]
    BY <1>3 DEF Writes, TypeOK
  <2> QED
    BY <1>2, <1>3, <2>1 DEF LatestSuccess
<1>4. CASE k = job[w].key /\ UNCHANGED latest
  <2>1. LatestSuccess(k) <=> LatestSuccess(k)'
    BY <1>2, <1>4 DEF LatestSuccess
  <2>2. (LatestSuccess(k) /\ ~IsSuccess(RecordOf(w))) \/ latest[k] = RecordOf(w)
    BY <1>4 DEF Writes, TypeOK
  <2> QED
    BY <1>1, <1>4, <2>1, <2>2 DEF LatestSuccess
<1>5. CASE /\ k = job[w].key /\ latest' = [latest EXCEPT ![k] = RecordOf(w)]
           /\ ~UNCHANGED latest
  <2>1. latest'[k] = RecordOf(w)
    BY <1>5 DEF TypeOK
  <2>2. LatestSuccess(k)' <=> IsSuccess(RecordOf(w))
    BY <1>1, <1>2, <2>1
  <2>3. LatestSuccess(k) => IsSuccess(RecordOf(w))
    BY <1>5 DEF Writes
  <2> QED
    BY <1>5, <2>2, <2>3
<1> QED
  BY <1>3, <1>4, <1>5 DEF Writes

LEMMA SettleStep ==
  ASSUME TypeOK, NEW w \in Workers, Settle(w)
  PROVE  LET k == job[w].key
         IN  /\ job[w].pc = "settle" /\ Owns(w) /\ Rests(w) /\ Writes(w)
             /\ log' \in Seq(AttemptLine \cup ResumeLine)
             /\ latest' \in [Keys -> AttemptLine \cup {None}]
             /\ claims' = [claims EXCEPT ![k] = None]
             /\ UNCHANGED <<pending, lastToken, bounds, seen>>
BY WriteAttemptWrites, ItemDoneRests DEF Settle, At

LEMMA RetryWriteStep ==
  ASSUME TypeOK, NEW w \in Workers, RetryWrite(w)
  PROVE  /\ job[w].pc = "retry_write" /\ Moves(w) /\ Keeps(w) /\ job'[w].pc = "requeue"
         /\ Writes(w)
         /\ log' \in Seq(AttemptLine \cup ResumeLine)
         /\ latest' \in [Keys -> AttemptLine \cup {None}]
         /\ UNCHANGED <<pending, claims, lastToken, bounds, seen>>
<1>1. "requeue" \in Labels
  BY DEF Labels, Working
<1> QED
  BY <1>1, WriteAttemptWrites, GotoMoves DEF RetryWrite, At, queue

\* A claim goes back to pending/, by its owner or by a recovery.
Returns(k) ==
  /\ claims[k] \in ClaimFile
  /\ pending' = [pending EXCEPT ![k] = [dry |-> claims[k].dry]]
  /\ claims' = [claims EXCEPT ![k] = None]

LEMMA RequeueStep ==
  ASSUME TypeOK, NEW w \in Workers, Requeue(w)
  PROVE  /\ job[w].pc = "requeue" /\ Owns(w) /\ Rests(w) /\ Returns(job[w].key)
         /\ UNCHANGED <<log, latest, lastToken, bounds, seen>>
<1>1. job[w].key \in Keys
  BY DEF TypeOK, Job
<1> QED
  BY <1>1, ItemDoneRests DEF Requeue, At, Owns, Returns, TypeOK, receipts

LEMMA EnvironmentStep ==
  ASSUME TypeOK, Environment
  PROVE  /\ UNCHANGED <<job, latest, lastToken, seen, started, crashes>>
         /\ \/ UNCHANGED <<pending, claims, log>> /\ today' = today + 1 /\ UNCHANGED resumes
            \/ /\ \E a \in Accounts : log' = Append(log, ResumeEvent(a, today))
               /\ UNCHANGED <<pending, claims, today>> /\ resumes' = resumes + 1
            \/ /\ Recovers
               /\ \E k \in Keys : Returns(k) /\ ~LatestSuccess(k)
               /\ UNCHANGED <<log, today, resumes>>
BY DEF Environment, Midnight, Resume, Recover, Returns, queue, receipts, bounds, TypeOK

-----------------------------------------------------------------------------
\* Types.

LEMMA InitTypes == Init => TypeOK
<1> SUFFICES ASSUME Init PROVE TypeOK
  OBVIOUS
<1>1. pending \in [Keys -> PendingFile \cup {None}]
  BY DEF Init, PendingFile
<1>2. seen \in [Keys -> [submits: Nat, verified: Nat, ambiguous: BOOLEAN]]
  <2>1. [submits |-> 0, verified |-> 0, ambiguous |-> FALSE]
          \in [submits: Nat, verified: Nat, ambiguous: BOOLEAN]
    OBVIOUS
  <2> QED
    BY <2>1 DEF Init
<1>3. job \in [Workers -> Job] /\ \A w \in Workers : job[w].pc = "idle"
  BY IdleIsJob DEF Init, IdleJob
<1> QED
  BY <1>1, <1>2, <1>3 DEF Init, TypeOK

\* Who is where: a step by one process leaves the others where they are.
LEMMA KindsKept ==
  ASSUME TypeOK, NEW w \in Workers, Moves(w),
         job'[w].pc = "enqueue" => job'[w].kind # "next"
  PROVE  \A v \in Workers : job'[v].pc = "enqueue" => job'[v].kind # "next"
BY DEF TypeOK, Moves

\* A step that writes no file keeps the types if the job records keep theirs.
LEMMA TypeIdle ==
  ASSUME TypeOK, NEW w \in Workers, Moves(w), UNCHANGED Files,
         job'[w].pc = "enqueue" => job'[w].kind # "next",
         today' \in Nat /\ started' \in Nat /\ crashes' \in Nat /\ resumes' \in Nat
  PROVE  TypeOK'
BY KindsKept DEF TypeOK, Moves, Files

\* Files that are written have the type of their directory.
LEMMA FileTypes ==
  ASSUME TypeOK, NEW k \in Keys
  PROVE  /\ \A d \in BOOLEAN : [pending EXCEPT ![k] = [dry |-> d]]
                               \in [Keys -> PendingFile \cup {None}]
         /\ [pending EXCEPT ![k] = None] \in [Keys -> PendingFile \cup {None}]
         /\ \A d \in BOOLEAN, t \in Nat : [claims EXCEPT ![k] = [dry |-> d, token |-> t]]
                               \in [Keys -> ClaimFile \cup {None}]
         /\ [claims EXCEPT ![k] = None] \in [Keys -> ClaimFile \cup {None}]
         /\ claims[k] \in ClaimFile => \A d \in BOOLEAN :
              [claims EXCEPT ![k].dry = d] \in [Keys -> ClaimFile \cup {None}]
         /\ claims[k] \in ClaimFile => claims[k].dry \in BOOLEAN
         /\ pending[k] \in PendingFile => pending[k].dry \in BOOLEAN
<1>1. \A d \in BOOLEAN : [dry |-> d] \in PendingFile
  BY DEF PendingFile
<1>2. \A d \in BOOLEAN, t \in Nat : [dry |-> d, token |-> t] \in ClaimFile
  BY DEF ClaimFile
<1>3. claims[k] \in ClaimFile => \A d \in BOOLEAN : [claims[k] EXCEPT !.dry = d] \in ClaimFile
  BY DEF ClaimFile
<1>4. /\ claims[k] \in ClaimFile => claims[k].dry \in BOOLEAN
      /\ pending[k] \in PendingFile => pending[k].dry \in BOOLEAN
  BY DEF ClaimFile, PendingFile
<1> QED
  BY <1>1, <1>2, <1>3, <1>4 DEF TypeOK

LEMMA TypeStep == TypeOK /\ [Next]_vars => TypeOK'
<1> SUFFICES ASSUME TypeOK, [Next]_vars PROVE TypeOK'
  OBVIOUS
<1> USE DEF bounds
<1>0. /\ lastToken + 1 \in Nat /\ today + 1 \in Nat /\ started \in Nat
      /\ crashes + 1 \in Nat /\ resumes + 1 \in Nat
  BY DEF TypeOK
<1>1. CASE Environment
  <2>1. CASE UNCHANGED <<pending, claims, log>> /\ today' = today + 1 /\ UNCHANGED resumes
    BY <1>0, <1>1, <2>1, EnvironmentStep DEF TypeOK
  <2>2. CASE /\ \E a \in Accounts : log' = Append(log, ResumeEvent(a, today))
             /\ UNCHANGED <<pending, claims, today>> /\ resumes' = resumes + 1
    <3>1. PICK a \in Accounts : log' = Append(log, ResumeEvent(a, today))
      BY <2>2
    <3>2. ResumeEvent(a, today) \in ResumeLine
      BY DEF ResumeEvent, ResumeLine, TypeOK
    <3>3. log' \in Seq(AttemptLine \cup ResumeLine)
      BY <3>1, <3>2 DEF TypeOK
    <3> QED
      BY <1>0, <1>1, <2>2, <3>3, EnvironmentStep DEF TypeOK
  <2>3. CASE /\ \E k \in Keys : Returns(k)
             /\ UNCHANGED <<log, today, resumes>>
    BY <1>1, <2>3, EnvironmentStep, FileTypes DEF TypeOK, Returns
  <2> QED
    BY <1>1, <2>1, <2>2, <2>3, EnvironmentStep
<1>2. ASSUME NEW w \in Workers, Start(w) \/ Run(w) \/ Crash(w) PROVE TypeOK'
  <2>0. job[w] \in Job /\ job[w].key \in Keys /\ job[w].dry \in BOOLEAN
    BY DEF TypeOK, Job
  <2>a. Rests(w) => Moves(w) /\ job'[w].pc # "enqueue"
    BY DEF Rests, Resting
  <2>1. CASE Start(w)
    BY <1>0, <2>1, <2>a, StartStep, TypeIdle DEF TypeOK
  <2>2. CASE Crash(w)
    BY <1>0, <2>2, <2>a, CrashStep, TypeIdle DEF TypeOK
  <2>3. CASE Scan(w) \/ PickDone(w) \/ \E k \in Keys : PickNext(w, k) \/ PickCampaign(w, k)
    BY <2>3, <2>a, PickStep, TypeIdle DEF TypeOK
  <2>4. CASE ClaimLost(w)
    BY <2>4, <2>a, ClaimLostStep, TypeIdle DEF TypeOK
  <2>5. CASE CheckSuccess(w) \/ CheckPause(w) \/ CheckCap(w) \/ CheckLatest(w)
    BY <2>5, <2>a, CheckStep, TypeIdle DEF TypeOK, Keeps
  <2>6. CASE Enqueue(w)
    <3>1. Moves(w) /\ job'[w].pc # "enqueue"
      BY <2>6, <2>a, EnqueueStep
    <3>2. pending' \in [Keys -> PendingFile \cup {None}]
      <4>1. \/ pending' = pending
            \/ pending' = [pending EXCEPT ![job[w].key] = [dry |-> job[w].dry]]
        BY <2>6, EnqueueStep
      <4>2. pending \in [Keys -> PendingFile \cup {None}]
        BY DEF TypeOK
      <4> QED
        BY <2>0, <4>1, <4>2, FileTypes
    <3> QED
      BY <2>6, <3>1, <3>2, EnqueueStep, KindsKept DEF TypeOK, Moves
  <2>7. CASE Claim(w)
    <3>1. Moves(w) /\ job'[w].pc # "enqueue"
      BY <2>7, <2>a, ClaimStep
    <3>2. lastToken' \in Nat
      BY <1>0, <2>7, ClaimStep DEF TypeOK
    <3>3. /\ pending' \in [Keys -> PendingFile \cup {None}]
          /\ claims' \in [Keys -> ClaimFile \cup {None}]
      <4> DEFINE k == job[w].key
      <4>1. \/ UNCHANGED <<pending, claims>>
            \/ /\ pending[k] \in PendingFile
               /\ claims' = [claims EXCEPT ![k] = [dry |-> pending[k].dry,
                                                   token |-> lastToken + 1]]
               /\ pending' = [pending EXCEPT ![k] = None]
        BY <2>7, ClaimStep
      <4>2. /\ pending \in [Keys -> PendingFile \cup {None}]
            /\ claims \in [Keys -> ClaimFile \cup {None}]
        BY DEF TypeOK
      <4> QED
        BY <1>0, <2>0, <4>1, <4>2, FileTypes
    <3> QED
      BY <2>7, <3>1, <3>2, <3>3, ClaimStep, KindsKept DEF TypeOK, Moves
  <2>8. CASE SetRequest(w)
    <3>1. Moves(w) /\ job'[w].pc # "enqueue"
      BY <2>8, SetRequestStep
    <3>2. claims' \in [Keys -> ClaimFile \cup {None}]
      <4>1. \/ UNCHANGED claims
            \/ /\ claims[job[w].key] \in ClaimFile
               /\ claims' = [claims EXCEPT ![job[w].key].dry = job[w].dry]
        BY <2>8, SetRequestStep
      <4>2. claims \in [Keys -> ClaimFile \cup {None}]
        BY DEF TypeOK
      <4> QED
        BY <2>0, <4>1, <4>2, FileTypes
    <3> QED
      BY <2>8, <3>1, <3>2, SetRequestStep, KindsKept DEF TypeOK, Moves
  <2>9. CASE GatesPass(w) \/ \E c \in GateFaults : GateFails(w, c)
    BY <2>9, GatesStep, TypeIdle DEF TypeOK
  <2>10. ASSUME NEW a \in Answers, Submit(w, a) PROVE TypeOK'
    <3>1. Moves(w) /\ job'[w].pc # "enqueue"
      BY <2>10, SubmitStep
    <3>2. seen' \in [Keys -> [submits: Nat, verified: Nat, ambiguous: BOOLEAN]]
      <4> DEFINE k == job[w].key
                 u == seen[k].submits + 1
                 v == IF Verified(a) THEN seen[k].verified + 1 ELSE seen[k].verified
                 b == seen[k].ambiguous \/ Normalised(a).category = "ambiguous_submit"
      <4>1. u \in Nat /\ v \in Nat
        BY <2>0 DEF TypeOK
      <4>2. b \in BOOLEAN
        OBVIOUS
      <4>3. seen' = [seen EXCEPT ![k] = [submits |-> u, verified |-> v, ambiguous |-> b]]
        BY <2>10, SubmitStep
      <4> HIDE DEF u, v, b
      <4> QED
        BY <2>0, <4>1, <4>2, <4>3 DEF TypeOK
    <3> QED
      BY <2>10, <3>1, <3>2, SubmitStep, KindsKept DEF TypeOK, Moves
  <2>11. CASE Decide(w)
    BY <2>11, DecideStep, TypeIdle DEF TypeOK
  <2>12. CASE Settle(w)
    <3>1. Moves(w) /\ job'[w].pc # "enqueue"
      BY <2>12, <2>a, SettleStep
    <3>2. claims' \in [Keys -> ClaimFile \cup {None}]
      BY <2>12, SettleStep DEF TypeOK
    <3> QED
      BY <2>12, <3>1, <3>2, SettleStep, KindsKept DEF TypeOK, Moves
  <2>13. CASE RetryWrite(w)
    <3>1. Moves(w) /\ job'[w].pc # "enqueue"
      BY <2>13, RetryWriteStep
    <3> QED
      BY <2>13, <3>1, RetryWriteStep, KindsKept DEF TypeOK, Moves
  <2>14. CASE Requeue(w)
    <3>1. Moves(w) /\ job'[w].pc # "enqueue"
      BY <2>14, <2>a, RequeueStep
    <3>2. /\ pending' \in [Keys -> PendingFile \cup {None}]
          /\ claims' \in [Keys -> ClaimFile \cup {None}]
      <4>1. Returns(job[w].key)
        BY <2>14, RequeueStep
      <4> QED
        BY <2>0, <4>1, FileTypes DEF Returns
    <3> QED
      BY <2>14, <3>1, <3>2, RequeueStep, KindsKept DEF TypeOK, Moves
  <2> QED
    BY <1>2, <2>1, <2>2, <2>3, <2>4, <2>5, <2>6, <2>7, <2>8, <2>9, <2>10, <2>11, <2>12,
       <2>13, <2>14 DEF Run
<1>3. CASE UNCHANGED vars
  BY <1>3 DEF vars, queue, receipts, TypeOK
<1> QED
  BY <1>1, <1>2, <1>3 DEF Next

\* Files, job records and the history keep their types.
THEOREM TypeCorrect == Spec => []TypeOK
BY InitTypes, TypeStep, PTL DEF Spec

-----------------------------------------------------------------------------
\* The queue.  By what it does to the place of a key, a step is one of these.

Queued(k)  == pending[k] # None
Granted(k) == claims[k] # None

Same(k) == /\ Queued(k)' <=> Queued(k)
           /\ Granted(k)' <=> Granted(k)
           /\ LatestSuccess(k)' <=> LatestSuccess(k)

Offers(k)   == MayEnqueue(k) /\ Queued(k)' /\ ~Granted(k)' /\ ~LatestSuccess(k)'
Grants(k)   == /\ Queued(k) /\ ~Granted(k) /\ ~Queued(k)' /\ Granted(k)'
               /\ LatestSuccess(k)' <=> LatestSuccess(k)
Retires(k)  == /\ Granted(k) /\ ~Granted(k)' /\ (Queued(k)' <=> Queued(k))
               /\ LatestSuccess(k) => LatestSuccess(k)'
GoesBack(k) == /\ Granted(k) /\ ~Granted(k)' /\ Queued(k)'
               /\ LatestSuccess(k)' <=> LatestSuccess(k)

Calm == \A k \in Keys : Same(k)
Acts(k) == /\ Offers(k) \/ Grants(k) \/ Retires(k) \/ GoesBack(k)
           /\ \A j \in Keys : j # k => Same(j)

\* An attempt that goes to the retry was no success.
RetryFails == \A w \in Workers : job[w].pc = "retry_write" => ~Verified(job[w].answer)

LEMMA UnchangedSame ==
  ASSUME UNCHANGED <<pending, claims, latest>> PROVE Calm
BY DEF Calm, Same, Queued, Granted, LatestSuccess, IsSuccess

LEMMA LatestSame ==
  ASSUME UNCHANGED latest, NEW k \in Keys PROVE LatestSuccess(k)' <=> LatestSuccess(k)
BY DEF LatestSuccess, IsSuccess

LEMMA ReturnsGoesBack ==
  ASSUME TypeOK, NEW k \in Keys, Returns(k), UNCHANGED latest
  PROVE  Acts(k)
<1>1. [dry |-> claims[k].dry] # None
  BY FileTypes, NoneIsNoFile DEF Returns, PendingFile
<1>2. claims[k] # None
  BY NoneIsNoFile DEF Returns
<1>3. \A j \in Keys : /\ pending'[j] = IF j = k THEN [dry |-> claims[k].dry] ELSE pending[j]
                      /\ claims'[j] = IF j = k THEN None ELSE claims[j]
  BY DEF Returns, TypeOK
<1> QED
  BY <1>1, <1>2, <1>3, LatestSame DEF Acts, GoesBack, Same, Queued, Granted

LEMMA QueueStep ==
  ASSUME TypeOK, RetryFails, [Next]_vars
  PROVE  Calm \/ \E k \in Keys : Acts(k)
<1>1. CASE Environment
  <2>1. CASE \E k \in Keys : Returns(k)
    BY <1>1, <2>1, EnvironmentStep, ReturnsGoesBack
  <2> QED
    BY <1>1, <2>1, EnvironmentStep, UnchangedSame
<1>2. ASSUME NEW w \in Workers, Start(w) \/ Run(w) \/ Crash(w)
      PROVE  Calm \/ \E k \in Keys : Acts(k)
  <2>9. PICK k \in Keys : k = job[w].key
    BY DEF TypeOK, Job
  <2>0. job[w] \in Job /\ job[w].dry \in BOOLEAN
    BY DEF TypeOK, Job
  <2>1. CASE \/ Start(w) \/ Crash(w) \/ Scan(w) \/ PickDone(w)
             \/ \E j \in Keys : PickNext(w, j) \/ PickCampaign(w, j)
             \/ ClaimLost(w)
             \/ CheckSuccess(w) \/ CheckPause(w) \/ CheckCap(w) \/ CheckLatest(w)
             \/ GatesPass(w) \/ (\E c \in GateFaults : GateFails(w, c)) \/ Decide(w)
    <3>1. UNCHANGED Files
      BY <2>1, StartStep, CrashStep, PickStep, ClaimLostStep, CheckStep, GatesStep, DecideStep
    <3> QED
      BY <3>1, UnchangedSame DEF Files
  <2>2. CASE Enqueue(w)
    <3>1. CASE UNCHANGED pending
      BY <2>9, <2>2, <3>1, EnqueueStep, UnchangedSame
    <3>2. CASE /\ MayEnqueue(k)
               /\ pending' = [pending EXCEPT ![k] = [dry |-> job[w].dry]]
      <4>1. [dry |-> job[w].dry] # None
        BY <2>9, <2>0, NoneIsNoFile DEF PendingFile
      <4>2. \A j \in Keys : pending'[j] = IF j = k THEN [dry |-> job[w].dry] ELSE pending[j]
        BY <2>9, <3>2 DEF TypeOK
      <4>3. UNCHANGED <<claims, latest>>
        BY <2>9, <2>2, EnqueueStep
      <4> QED
        BY <2>9, <2>0, <3>2, <4>1, <4>2, <4>3, LatestSame
           DEF Acts, Offers, MayEnqueue, Same, Queued, Granted
    <3> QED
      BY <2>9, <2>2, <3>1, <3>2, EnqueueStep
  <2>3. CASE Claim(w)
    <3> DEFINE c == [dry |-> pending[k].dry, token |-> lastToken + 1]
    <3>1. CASE UNCHANGED <<pending, claims>>
      BY <2>9, <2>3, <3>1, ClaimStep, UnchangedSame
    <3>2. CASE /\ pending[k] \in PendingFile /\ claims[k] = None
               /\ claims' = [claims EXCEPT ![k] = c] /\ pending' = [pending EXCEPT ![k] = None]
      <4>1. c \in ClaimFile /\ c # None /\ pending[k] # None
        <5>1. lastToken + 1 \in Nat
          BY DEF TypeOK
        <5> QED
          BY <2>9, <2>0, <3>2, <5>1, FileTypes, NoneIsNoFile DEF ClaimFile
      <4>2. \A j \in Keys : /\ pending'[j] = IF j = k THEN None ELSE pending[j]
                            /\ claims'[j] = IF j = k THEN c ELSE claims[j]
        BY <2>9, <3>2 DEF TypeOK
      <4>3. UNCHANGED latest
        BY <2>9, <2>3, ClaimStep
      <4> HIDE DEF c
      <4> QED
        BY <2>9, <2>0, <3>2, <4>1, <4>2, <4>3, LatestSame DEF Acts, Grants, Same, Queued, Granted
    <3> QED
      BY <2>9, <2>3, <3>1, <3>2, ClaimStep
  <2>4. CASE SetRequest(w)
    <3>1. \A j \in Keys : claims'[j] = None <=> claims[j] = None
      <4>1. CASE UNCHANGED claims
        BY <2>9, <4>1
      <4>2. CASE /\ claims[k] \in ClaimFile
                 /\ claims' = [claims EXCEPT ![k].dry = job[w].dry]
        <5>1. [claims[k] EXCEPT !.dry = job[w].dry] # None
          BY <2>9, <2>0, <4>2, NoneIsNoFile DEF ClaimFile
        <5>2. claims[k] # None
          BY <2>9, <4>2, NoneIsNoFile
        <5> QED
          BY <2>9, <2>0, <4>2, <5>1, <5>2 DEF TypeOK
      <4> QED
        BY <2>9, <2>4, <4>1, <4>2, SetRequestStep
    <3> QED
      BY <2>9, <2>4, <3>1, SetRequestStep, LatestSame DEF Calm, Same, Queued, Granted
  <2>5. ASSUME NEW a \in Answers, Submit(w, a) PROVE Calm
    BY <2>9, <2>5, SubmitStep, UnchangedSame
  <2>6. CASE Settle(w)
    <3>1. Writes(w) /\ Owns(w) /\ claims' = [claims EXCEPT ![k] = None] /\ UNCHANGED pending
      BY <2>9, <2>6, SettleStep
    <3>2. \A j \in Keys : claims'[j] = IF j = k THEN None ELSE claims[j]
      BY <2>9, <3>1 DEF TypeOK
    <3>3. \A j \in Keys : j # k => (LatestSuccess(j)' <=> LatestSuccess(j))
      BY <2>9, <3>1, SuccessAfter
    <3>4. LatestSuccess(k) => LatestSuccess(k)'
      BY <2>9, <2>0, <3>1, SuccessAfter
    <3> QED
      BY <2>9, <2>0, <3>1, <3>2, <3>3, <3>4 DEF Acts, Retires, Same, Queued, Granted, Owns
  <2>7. CASE RetryWrite(w)
    <3>1. Writes(w) /\ UNCHANGED <<pending, claims>> /\ ~IsSuccess(RecordOf(w))
      BY <2>9, <2>7, RetryWriteStep, RecordIsLine DEF RetryFails
    <3>2. \A j \in Keys : LatestSuccess(j)' <=> LatestSuccess(j)
      BY <2>9, <3>1, SuccessAfter
    <3> QED
      BY <2>9, <3>1, <3>2 DEF Calm, Same, Queued, Granted
  <2>8. CASE Requeue(w)
    BY <2>9, <2>0, <2>8, RequeueStep, ReturnsGoesBack
  <2> QED
    BY <1>2, <2>1, <2>2, <2>3, <2>4, <2>5, <2>6, <2>7, <2>8 DEF Run
<1>3. CASE UNCHANGED vars
  BY <1>3, UnchangedSame DEF vars, queue, receipts
<1> QED
  BY <1>1, <1>2, <1>3 DEF Next

-----------------------------------------------------------------------------
\* What a process knows of its item by where it is.

Local(w) ==
  /\ job[w].pc \in Working => job[w].token \in 1..lastToken
  /\ job[w].pc \in {"submit", "decide", "retry_write"} => ~job[w].dry
  /\ job[w].pc = "settle" /\ job[w].dry => ~Verified(job[w].answer)
  /\ job[w].pc = "retry_write" =>
       /\ ~Verified(job[w].answer) /\ job[w].answer.status = "failed"
       /\ job[w].answer.category \in TransientCategories
  /\ job[w].pc \in {"decide", "settle"} =>
       /\ job[w].answer.status # "unknown"
       /\ job[w].answer.status \in SuccessStatuses => Verified(job[w].answer)

Locals == \A w \in Workers : Local(w)

LEMMA VerifiedStatus ==
  ASSUME NEW a, Verified(a)
  PROVE  a.status \in SuccessStatuses /\ a.status \notin {"failed", "blocked", "skipped", "unknown"}
BY DEF Verified, SuccessStatuses

LEMMA TokensGrow ==
  ASSUME TypeOK, [Next]_vars
  PROVE  lastToken' \in Nat /\ lastToken' >= lastToken
<1>1. CASE Environment
  BY <1>1, EnvironmentStep DEF TypeOK
<1>2. ASSUME NEW w \in Workers, Start(w) \/ Run(w) \/ Crash(w)
      PROVE  lastToken' \in Nat /\ lastToken' >= lastToken
  <2>0. lastToken \in Nat
    BY DEF TypeOK
  <2>1. CASE Claim(w)
    <3>1. lastToken' = lastToken \/ lastToken' = lastToken + 1
      BY <2>1, ClaimStep
    <3> QED
      BY <2>0, <3>1
  <2>2. CASE ~Claim(w)
    <3>1. UNCHANGED lastToken
      BY <1>2, <2>2, StartStep, CrashStep, PickStep, ClaimLostStep, CheckStep, EnqueueStep,
         SetRequestStep, GatesStep, SubmitStep, DecideStep, SettleStep, RetryWriteStep,
         RequeueStep DEF Run, Files
    <3> QED
      BY <2>0, <3>1
  <2> QED
    BY <2>1, <2>2
<1>3. CASE UNCHANGED vars
  BY <1>3 DEF vars, TypeOK
<1> QED
  BY <1>1, <1>2, <1>3 DEF Next

LEMMA LocalStays ==
  ASSUME TypeOK, [Next]_vars, NEW w \in Workers, Local(w), job'[w] = job[w]
  PROVE  Local(w)'
BY TokensGrow DEF Local, TypeOK, Verified

LEMMA RestsLocal ==
  ASSUME NEW w \in Workers, job'[w].pc \notin Working
  PROVE  Local(w)'
BY DEF Local, Working

LEMMA LocalStep ==
  ASSUME TypeOK, Locals, [Next]_vars
  PROVE  Locals'
<1>1. CASE Environment
  BY <1>1, EnvironmentStep, LocalStays DEF Locals
<1>2. ASSUME NEW w \in Workers, Start(w) \/ Run(w) \/ Crash(w) PROVE Locals'
  <2> SUFFICES Moves(w) /\ Local(w)'
    BY LocalStays DEF Moves, Locals
  <2>0. Local(w) /\ job[w] \in Job /\ lastToken \in Nat
    BY DEF Locals, TypeOK
  <2>r. Rests(w) => Moves(w) /\ Local(w)'
    BY RestsLocal DEF Rests, Resting, Working
  <2>1. CASE \/ Start(w) \/ Crash(w) \/ Scan(w) \/ PickDone(w)
             \/ (\E k \in Keys : PickNext(w, k) \/ PickCampaign(w, k))
             \/ ClaimLost(w) \/ Settle(w) \/ Requeue(w)
    BY <2>1, <2>r, StartStep, CrashStep, PickStep, ClaimLostStep, SettleStep, RequeueStep
  <2>2. CASE \/ CheckSuccess(w) \/ CheckPause(w) \/ CheckCap(w) \/ CheckLatest(w)
             \/ Enqueue(w)
    <3>1. Moves(w) /\ job'[w].pc \notin Working
      BY <2>2, CheckStep, EnqueueStep DEF Rests, Resting, Working
    <3> QED
      BY <3>1, RestsLocal
  <2>3. CASE Claim(w)
    <3>1. \/ Rests(w)
          \/ /\ Moves(w) /\ job'[w].pc = "set_request"
             /\ job'[w].token = lastToken + 1 /\ lastToken' = lastToken + 1
      BY <2>3, ClaimStep
    <3> QED
      BY <2>r, <2>0, <3>1 DEF Local
  <2>4. CASE SetRequest(w)
    BY <2>0, <2>4, SetRequestStep DEF Local, Keeps, Working
  <2>5. CASE GatesPass(w) \/ \E c \in GateFaults : GateFails(w, c)
    <3>1. /\ Moves(w) /\ Keeps(w) /\ job[w].pc = "gates" /\ lastToken' = lastToken
          /\ \/ job'[w].pc = "submit" /\ ~job[w].dry
             \/ job'[w].pc = "settle" /\ job'[w].answer.status \in {"skipped", "blocked"}
      BY <2>5, GatesStep DEF Files
    <3>2. job'[w].pc = "settle" => /\ ~Verified(job'[w].answer)
                                   /\ job'[w].answer.status \notin SuccessStatuses
      BY <3>1, VerifiedStatus DEF SuccessStatuses
    <3> QED
      BY <2>0, <3>1, <3>2 DEF Local, Keeps, Working
  <2>6. ASSUME NEW a \in Answers, Submit(w, a) PROVE Moves(w) /\ Local(w)'
    <3>1. /\ Moves(w) /\ Keeps(w) /\ job[w].pc = "submit" /\ lastToken' = lastToken
          /\ job'[w].pc = "decide" /\ job'[w].answer = Normalised(a)
      BY <2>6, SubmitStep
    <3>2. /\ Normalised(a).status # "unknown"
          /\ Normalised(a).status \in SuccessStatuses => Verified(Normalised(a))
      BY NormalisedAnswer, PublishingConstants
    <3> QED
      BY <2>0, <3>1, <3>2 DEF Local, Keeps, Working
  <2>7. CASE Decide(w)
    <3>1. /\ Moves(w) /\ Keeps(w) /\ job[w].pc = "decide" /\ lastToken' = lastToken
          /\ job'[w].answer = job[w].answer
          /\ \/ job'[w].pc = "settle"
             \/ /\ job'[w].pc = "retry_write" /\ ~Verified(job[w].answer)
                /\ job[w].answer.status = "failed"
                /\ job[w].answer.category \in TransientCategories
      BY <2>7, DecideStep DEF Files
    <3> QED
      BY <2>0, <3>1 DEF Local, Keeps, Working
  <2>8. CASE RetryWrite(w)
    <3>1. /\ Moves(w) /\ Keeps(w) /\ job[w].pc = "retry_write" /\ lastToken' = lastToken
          /\ job'[w].pc = "requeue"
      BY <2>8, RetryWriteStep
    <3> QED
      BY <2>0, <3>1 DEF Local, Keeps, Working
  <2> QED
    BY <1>2, <2>1, <2>2, <2>3, <2>4, <2>5, <2>6, <2>7, <2>8 DEF Run
<1>3. CASE UNCHANGED vars
  BY <1>3, LocalStays DEF vars, Locals
<1> QED
  BY <1>1, <1>2, <1>3 DEF Next

-----------------------------------------------------------------------------
\* The refinement.

\* A key waits or is claimed, not both, and neither once its success is on record.
QueueInv == \A k \in Keys : /\ ~(Queued(k) /\ Granted(k))
                            /\ Queued(k) \/ Granted(k) => ~LatestSuccess(k)

IInv == TypeOK /\ Locals /\ QueueInv

LEMMA LocalsRetryFail == Locals => RetryFails
BY DEF Locals, Local, RetryFails

LEMMA QueueInvKept ==
  ASSUME TypeOK, Locals, QueueInv, [Next]_vars
  PROVE  QueueInv'
<1>1. CASE Calm
  BY <1>1 DEF Calm, Same, QueueInv
<1>2. ASSUME NEW k \in Keys, Acts(k) PROVE QueueInv'
  <2>1. \A j \in Keys : j # k => Same(j)
    BY <1>2 DEF Acts
  <2>2. /\ ~(Queued(k)' /\ Granted(k)')
        /\ Queued(k)' \/ Granted(k)' => ~LatestSuccess(k)'
    BY <1>2 DEF Acts, Offers, Grants, Retires, GoesBack, QueueInv
  <2> QED
    BY <2>1, <2>2 DEF Same, QueueInv
<1> QED
  BY <1>1, <1>2, QueueStep, LocalsRetryFail

LEMMA IInvInit == Init => IInv
<1> SUFFICES ASSUME Init PROVE IInv
  OBVIOUS
<1>1. TypeOK
  BY InitTypes
<1>2. Locals
  BY DEF Init, IdleJob, Locals, Local, Working
<1>3. QueueInv
  BY DEF Init, QueueInv, Queued, Granted, LatestSuccess
<1> QED
  BY <1>1, <1>2, <1>3 DEF IInv

LEMMA Invariance == Spec => []IInv
<1>1. IInv /\ [Next]_vars => IInv'
  BY TypeStep, LocalStep, QueueInvKept DEF IInv
<1> QED
  BY <1>1, IInvInit, PTL DEF Spec

LEMMA SuccessIsBoolean ==
  ASSUME NEW k
  PROVE  LatestSuccess(k) \in BOOLEAN /\ LatestSuccess(k)' \in BOOLEAN
BY DEF LatestSuccess

\* The initial queue is one of the ledger's.
LEMMA LedgerInits == Init => Ledger!LedgerInit
<1> SUFFICES ASSUME Init PROVE Ledger!LedgerInit
  OBVIOUS
<1>1. \A k \in Keys : ~Granted(k) /\ ~LatestSuccess(k)
  BY DEF Init, Granted, LatestSuccess
<1>2. Place \in [Keys -> {"free", "queued"}]
  BY <1>1 DEF Place, Granted
<1>3. Confirmed = [k \in Keys |-> FALSE]
  BY <1>1, SuccessIsBoolean DEF Confirmed
<1> QED
  BY <1>2, <1>3 DEF Ledger!LedgerInit

\* A step that acts on a key is the ledger's step of the same name.
LEMMA LedgerStep ==
  ASSUME IInv, [Next]_vars
  PROVE  [Ledger!LedgerNext]_(Ledger!ledgerVars)
<1>0. \A j \in Keys : /\ Place[j] = IF Granted(j) THEN "granted"
                                    ELSE IF Queued(j) THEN "queued" ELSE "free"
                      /\ Place'[j] = IF Granted(j)' THEN "granted"
                                     ELSE IF Queued(j)' THEN "queued" ELSE "free"
                      /\ Confirmed[j] = LatestSuccess(j) /\ Confirmed'[j] = LatestSuccess(j)'
  BY DEF Place, Confirmed, Granted, Queued
<1>f. /\ Place = [j \in Keys |-> Place[j]] /\ Place' = [j \in Keys |-> Place'[j]]
      /\ Confirmed = [j \in Keys |-> Confirmed[j]]
      /\ Confirmed' = [j \in Keys |-> Confirmed'[j]]
  BY DEF Place, Confirmed
<1>1. CASE Calm
  <2>1. \A j \in Keys : Place'[j] = Place[j] /\ Confirmed'[j] = Confirmed[j]
    BY <1>0, <1>1, SuccessIsBoolean DEF Calm, Same
  <2> QED
    BY <1>f, <2>1 DEF Ledger!ledgerVars
<1>2. ASSUME NEW k \in Keys, Acts(k) PROVE Ledger!LedgerNext
  <2>1. \A j \in Keys \ {k} : Place'[j] = Place[j] /\ Confirmed'[j] = Confirmed[j]
    BY <1>0, <1>2, SuccessIsBoolean DEF Acts, Same
  <2>2. ASSUME NEW v, Place'[k] = v PROVE Place' = [Place EXCEPT ![k] = v]
    BY <1>f, <2>1, <2>2
  <2>3. Confirmed'[k] = Confirmed[k] => Confirmed' = Confirmed
    BY <1>f, <2>1
  <2>4. Confirmed'[k] = TRUE => Confirmed' = [Confirmed EXCEPT ![k] = TRUE]
    BY <1>f, <2>1
  <2>5. /\ ~(Queued(k) /\ Granted(k))
        /\ Queued(k) \/ Granted(k) => ~LatestSuccess(k)
    BY DEF IInv, QueueInv
  <2>6. CASE Offers(k)
    <3>1. Ledger!Offer(k)
      BY <1>0, <2>2, <2>3, SuccessIsBoolean, <2>6 DEF Offers, MayEnqueue, Queued, Granted, Ledger!Offer
    <3> QED
      BY <3>1 DEF Ledger!LedgerNext
  <2>7. CASE Grants(k)
    <3>1. Ledger!Grant(k)
      BY <1>0, <2>2, <2>3, SuccessIsBoolean, <2>5, <2>7 DEF Grants, Ledger!Grant
    <3> QED
      BY <3>1 DEF Ledger!LedgerNext
  <2>8. CASE Retires(k)
    <3>1. Place[k] = "granted" /\ Place'[k] = "free"
      BY <1>0, <2>5, <2>8 DEF Retires
    <3>2. Confirmed'[k] = Confirmed[k] \/ Confirmed'[k] = TRUE
      BY <1>0, <2>5, <2>8, SuccessIsBoolean DEF Retires
    <3>3. Ledger!Retire(k)
      BY <2>2, <2>3, <2>4, <3>1, <3>2 DEF Ledger!Retire
    <3> QED
      BY <3>3 DEF Ledger!LedgerNext
  <2>9. CASE GoesBack(k)
    <3>1. Ledger!Return(k)
      BY <1>0, <2>2, <2>3, SuccessIsBoolean, <2>5, <2>9 DEF GoesBack, Ledger!Return
    <3> QED
      BY <3>1 DEF Ledger!LedgerNext
  <2> QED
    BY <1>2, <2>6, <2>7, <2>8, <2>9 DEF Acts
<1> QED
  BY <1>1, <1>2, QueueStep, LocalsRetryFail DEF IInv

\* However the commands of many processes interleave, die and have their claims
\* recovered, they drive the queue as the claim ledger allows (orchestrator.py over
\* store.py and receipts.py).
THEOREM CommandsImplementLedger == Spec => ImplementsLedger
<1>1. IInv /\ [Next]_vars => [Ledger!LedgerNext]_(Ledger!ledgerVars)
  BY LedgerStep
<1> QED
  BY <1>1, LedgerInits, Invariance, PTL DEF Spec, ImplementsLedger, Ledger!LedgerSpec

-----------------------------------------------------------------------------
\* Claims that nobody recovers stay with the process that works on them.

Busy(w) == job[w].pc \in Working

OwnInv == /\ \A w \in Workers : Busy(w) => Owns(w)
          /\ \A v, w \in Workers : Busy(v) /\ Busy(w) /\ job[v].key = job[w].key => v = w

\* A process that goes on with its item, or leaves it.
GoesOn(w) == Moves(w) /\ (job'[w].pc \notin Working \/ (Keeps(w) /\ Busy(w)))

LEMMA OwnGoesOn ==
  ASSUME OwnInv, NEW w \in Workers, GoesOn(w), UNCHANGED claims
  PROVE  OwnInv'
<1>1. \A v \in Workers : Busy(v)' => Busy(v) /\ job'[v].key = job[v].key
                                     /\ job'[v].token = job[v].token
  BY DEF GoesOn, Moves, Keeps, Busy
<1> QED
  BY <1>1 DEF OwnInv, Owns

\* The claim of an item is given up by the process that leaves it.
LEMMA OwnGivesUp ==
  ASSUME TypeOK, OwnInv, NEW w \in Workers, Busy(w), Rests(w),
         claims' = [claims EXCEPT ![job[w].key] = None]
  PROVE  OwnInv'
<1>1. \A v \in Workers : Busy(v)' => v # w /\ Busy(v) /\ job'[v] = job[v]
  BY DEF Rests, Moves, Busy, Resting, Working
<1>2. \A v \in Workers : Busy(v)' => job[v].key # job[w].key
  BY <1>1 DEF OwnInv
<1>3. \A v \in Workers : Busy(v)' => claims'[job[v].key] = claims[job[v].key]
  <2>1. \A v \in Workers : job[v].key \in Keys
    BY DEF TypeOK, Job
  <2> QED
    BY <1>2, <2>1 DEF TypeOK
<1> QED
  BY <1>1, <1>3 DEF OwnInv, Owns

\* What the actions are to the claims, but for Claim, SetRequest, Settle and Requeue.
LEMMA GoesOnStep ==
  ASSUME TypeOK, NEW w \in Workers, Start(w) \/ Run(w) \/ Crash(w),
         ~Claim(w), ~SetRequest(w), ~Settle(w), ~Requeue(w)
  PROVE  GoesOn(w) /\ UNCHANGED claims
<1> USE DEF GoesOn, Busy, Working
<1>r. Rests(w) => GoesOn(w)
  BY DEF Rests, Resting
<1>1. CASE \/ Start(w) \/ Crash(w) \/ Scan(w) \/ PickDone(w) \/ ClaimLost(w)
           \/ \E k \in Keys : PickNext(w, k) \/ PickCampaign(w, k)
  BY <1>1, <1>r, StartStep, CrashStep, PickStep, ClaimLostStep DEF Files
<1>2. CASE \/ CheckSuccess(w) \/ CheckPause(w) \/ CheckCap(w) \/ CheckLatest(w)
  BY <1>2, <1>r, CheckStep DEF Files
<1>3. CASE Enqueue(w)
  BY <1>3, <1>r, EnqueueStep
<1>4. CASE GatesPass(w) \/ \E c \in GateFaults : GateFails(w, c)
  BY <1>4, GatesStep DEF Files
<1>5. CASE \E a \in Answers : Submit(w, a)
  <2>1. Moves(w) /\ Keeps(w) /\ job[w].pc = "submit" /\ UNCHANGED claims
    BY <1>5, SubmitStep
  <2> QED
    BY <2>1
<1>6. CASE Decide(w) \/ RetryWrite(w)
  BY <1>6, DecideStep, RetryWriteStep DEF Files
<1> QED
  BY <1>1, <1>2, <1>3, <1>4, <1>5, <1>6 DEF Run

LEMMA OwnStep ==
  ASSUME Recovers = FALSE, TypeOK, OwnInv, [Next]_vars
  PROVE  OwnInv'
<1>1. CASE Environment
  <2>1. UNCHANGED <<job, claims>>
    BY <1>1, EnvironmentStep
  <2> QED
    BY <2>1 DEF OwnInv, Busy, Owns
<1>2. ASSUME NEW w \in Workers, Start(w) \/ Run(w) \/ Crash(w) PROVE OwnInv'
  <2>0. \A v \in Workers : job[v].key \in Keys
    BY DEF TypeOK, Job
  \* A free claim: nobody works on the key.
  <2>1. CASE Claim(w)
    <3>1. CASE Rests(w) /\ UNCHANGED claims
      BY <3>1, OwnGoesOn DEF Rests, GoesOn, Resting, Working
    <3>2. CASE ~(Rests(w) /\ UNCHANGED claims)
      <4> DEFINE k == job[w].key
                 c == [dry |-> pending[k].dry, token |-> lastToken + 1]
      <4>1. /\ Moves(w) /\ job'[w].key = k /\ job'[w].token = lastToken + 1
            /\ claims[k] = None /\ claims' = [claims EXCEPT ![k] = c]
            /\ pending[k] \in PendingFile
        BY <2>1, <3>2, ClaimStep
      <4>2. c.token = lastToken + 1 /\ c # None
        <5>1. c \in ClaimFile
          BY <2>0, <4>1, FileTypes DEF ClaimFile, TypeOK
        <5> QED
          BY <5>1, NoneIsNoFile
      <4> HIDE DEF c
      <4>3. \A v \in Workers : v # w /\ Busy(v)' => Busy(v) /\ job'[v] = job[v]
        BY <4>1 DEF Moves, Busy
      <4>4. \A v \in Workers : Busy(v) => job[v].key # k
        BY <4>1 DEF OwnInv, Owns
      <4>5. \A j \in Keys : claims'[j] = IF j = k THEN c ELSE claims[j]
        BY <4>1 DEF TypeOK
      <4>6. \A v \in Workers : v # w /\ Busy(v)' => Owns(v)' /\ job'[v].key # k
        BY <2>0, <4>3, <4>4, <4>5 DEF OwnInv, Owns
      <4>7. Owns(w)' /\ job'[w].key = k
        BY <2>0, <4>1, <4>2, <4>5 DEF Owns
      <4>8. \A v \in Workers : Busy(v)' => Owns(v)'
        BY <4>6, <4>7
      <4>9. \A v \in Workers : v # w /\ Busy(v)' => job'[v].key # job'[w].key
        BY <4>6, <4>7
      <4>10. ASSUME NEW u \in Workers, NEW v \in Workers, Busy(u)', Busy(v)',
                    job'[u].key = job'[v].key
             PROVE  u = v
        <5>1. CASE u # w /\ v # w
          BY <4>3, <4>10, <5>1 DEF OwnInv
        <5> QED
          BY <4>9, <4>10, <5>1
      <4> QED
        BY <4>8, <4>10 DEF OwnInv
    <3> QED
      BY <3>1, <3>2
  <2>2. CASE SetRequest(w)
    <3>1. /\ Moves(w) /\ Keeps(w) /\ Busy(w)
          /\ \/ UNCHANGED claims
             \/ /\ claims[job[w].key] \in ClaimFile
                /\ claims' = [claims EXCEPT ![job[w].key].dry = job[w].dry]
      BY <2>2, SetRequestStep DEF Busy, Working
    <3>2. \A k \in Keys : /\ claims'[k] = None <=> claims[k] = None
                          /\ claims[k] # None => claims'[k].token = claims[k].token
      <4>1. CASE UNCHANGED claims
        BY <4>1
      <4>2. CASE /\ claims[job[w].key] \in ClaimFile
                 /\ claims' = [claims EXCEPT ![job[w].key].dry = job[w].dry]
        <5> DEFINE c == [claims[job[w].key] EXCEPT !.dry = job[w].dry]
        <5>1. c \in ClaimFile /\ c.token = claims[job[w].key].token
          <6>1. job[w].dry \in BOOLEAN
            BY DEF TypeOK, Job
          <6> QED
            BY <4>2, <6>1 DEF ClaimFile
        <5>2. \A k \in Keys : claims'[k] = IF k = job[w].key THEN c ELSE claims[k]
          BY <4>2 DEF TypeOK
        <5> HIDE DEF c
        <5> QED
          BY <4>2, <5>1, <5>2, NoneIsNoFile
      <4> QED
        BY <3>1, <4>1, <4>2
    <3>3. \A v \in Workers : Busy(v)' => Busy(v) /\ job'[v].key = job[v].key
                                         /\ job'[v].token = job[v].token
      BY <3>1 DEF Moves, Keeps, Busy
    <3> QED
      BY <2>0, <3>2, <3>3 DEF OwnInv, Owns
  <2>3. CASE Settle(w)
    BY <2>3, SettleStep, OwnGivesUp DEF Busy, Working
  <2>4. CASE Requeue(w)
    BY <2>4, RequeueStep, OwnGivesUp DEF Busy, Working, Returns
  <2>5. CASE ~Claim(w) /\ ~SetRequest(w) /\ ~Settle(w) /\ ~Requeue(w)
    BY <1>2, <2>5, GoesOnStep, OwnGoesOn
  <2> QED
    BY <2>1, <2>2, <2>3, <2>4, <2>5
<1>3. CASE UNCHANGED vars
  BY <1>3 DEF vars, queue, OwnInv, Busy, Owns
<1> QED
  BY <1>1, <1>2, <1>3 DEF Next

-----------------------------------------------------------------------------
\* One confirmation per key.

\* The confirmed request is about to be recorded, or its process died before.
Delivering(k) == \A w \in Workers : Busy(w) /\ job[w].key = k =>
                   job[w].pc \in {"decide", "settle"} /\ Verified(job[w].answer)

ConfirmInv == \A k \in Keys :
  /\ seen[k].verified \in {0, 1}
  /\ seen[k].verified = 1 => LatestSuccess(k) \/ (Granted(k) /\ Delivering(k))

LEMMA SuccessStays ==
  ASSUME TypeOK, Locals, [Next]_vars, NEW k \in Keys, LatestSuccess(k)
  PROVE  LatestSuccess(k)'
BY QueueStep, LocalsRetryFail
   DEF Calm, Acts, Same, Offers, MayEnqueue, Grants, Retires, GoesBack

\* The platform is reached by a submit only.
LEMMA SeenStep ==
  ASSUME TypeOK, [Next]_vars
  PROVE  UNCHANGED seen \/ \E w \in Workers, a \in Answers : Submit(w, a)
<1>1. CASE Environment
  BY <1>1, EnvironmentStep
<1>2. ASSUME NEW w \in Workers, Start(w) \/ Run(w) \/ Crash(w),
             \A a \in Answers : ~Submit(w, a)
      PROVE  UNCHANGED seen
  BY <1>2, StartStep, CrashStep, PickStep, ClaimLostStep, CheckStep, EnqueueStep, ClaimStep,
     SetRequestStep, GatesStep, DecideStep, SettleStep, RetryWriteStep, RequeueStep
     DEF Run, Files
<1>3. CASE UNCHANGED vars
  BY <1>3 DEF vars
<1> QED
  BY <1>1, <1>2, <1>3 DEF Next

\* What a submit adds, by key.
LEMMA SubmitSeen ==
  ASSUME TypeOK, NEW w \in Workers, NEW a \in Answers, Submit(w, a), NEW k \in Keys
  PROVE  /\ k # job[w].key => seen'[k] = seen[k]
         /\ k = job[w].key =>
              /\ seen'[k].submits = seen[k].submits + 1
              /\ seen'[k].verified = IF Verified(a) THEN seen[k].verified + 1
                                                    ELSE seen[k].verified
              /\ seen'[k].ambiguous <=> \/ seen[k].ambiguous
                                        \/ Normalised(a).category = "ambiguous_submit"
<1> DEFINE r == [submits   |-> seen[k].submits + 1,
                 verified  |-> IF Verified(a) THEN seen[k].verified + 1
                                              ELSE seen[k].verified,
                 ambiguous |-> \/ seen[k].ambiguous
                               \/ Normalised(a).category = "ambiguous_submit"]
<1>1. ASSUME k = job[w].key PROVE seen' = [seen EXCEPT ![k] = r]
  <2>1. seen' = [seen EXCEPT ![job[w].key] =
           [submits   |-> seen[job[w].key].submits + 1,
            verified  |-> IF Verified(a) THEN seen[job[w].key].verified + 1
                                         ELSE seen[job[w].key].verified,
            ambiguous |-> \/ seen[job[w].key].ambiguous
                          \/ Normalised(a).category = "ambiguous_submit"]]
    BY SubmitStep, Zenon
  <2> QED
    BY <1>1, <2>1, Zenon
<1>2. /\ r.submits = seen[k].submits + 1
      /\ r.verified = IF Verified(a) THEN seen[k].verified + 1 ELSE seen[k].verified
      /\ r.ambiguous <=> \/ seen[k].ambiguous
                         \/ Normalised(a).category = "ambiguous_submit"
  OBVIOUS
<1> HIDE DEF r
<1>3. k = job[w].key => seen'[k] = r
  BY <1>1 DEF TypeOK
<1>4. k # job[w].key => seen'[k] = seen[k]
  BY SubmitStep DEF TypeOK
<1> QED
  BY <1>2, <1>3, <1>4

\* A key that is being delivered stays claimed until its success is on record.
LEMMA DeliveringStays ==
  ASSUME Recovers = FALSE, TypeOK, Locals, OwnInv, [Next]_vars, NEW k \in Keys,
         Granted(k), Delivering(k), ~LatestSuccess(k)'
  PROVE  Granted(k)' /\ Delivering(k)'
<1> USE DEF Busy, Working
<1>1. CASE Environment
  <2>1. UNCHANGED <<job, claims>>
    BY <1>1, EnvironmentStep
  <2> QED
    BY <2>1 DEF Granted, Delivering, Verified
<1>2. ASSUME NEW w \in Workers, Start(w) \/ Run(w) \/ Crash(w)
      PROVE  Granted(k)' /\ Delivering(k)'
  <2>0. job[w].key \in Keys
    BY DEF TypeOK, Job
  <2>1. ASSUME Moves(w), Busy(w)' /\ job'[w].key = k =>
                  job'[w].pc \in {"decide", "settle"} /\ Verified(job'[w].answer)
        PROVE  Delivering(k)'
    BY <2>1 DEF Delivering, Moves, Verified
  <2>2. CASE Claim(w)
    <3>1. \/ Rests(w) /\ UNCHANGED claims
          \/ /\ Moves(w) /\ job'[w].key = job[w].key /\ claims[job[w].key] = None
             /\ \E c : claims' = [claims EXCEPT ![job[w].key] = c]
      BY <2>2, ClaimStep
    <3> QED
      BY <2>0, <2>1, <3>1 DEF Granted, Rests, Resting, TypeOK
  <2>3. CASE SetRequest(w)
    <3>1. /\ job[w].pc = "set_request" /\ Moves(w) /\ Keeps(w)
          /\ \/ UNCHANGED claims
             \/ \E c : claims' = [claims EXCEPT ![job[w].key] = c]
      BY <2>3, SetRequestStep
    <3>2. job[w].key # k
      BY <3>1 DEF Delivering
    <3> QED
      BY <2>0, <2>1, <3>1, <3>2 DEF Granted, Keeps, TypeOK
  <2>4. CASE Settle(w)
    <3>1. /\ job[w].pc = "settle" /\ Rests(w) /\ Writes(w)
          /\ claims' = [claims EXCEPT ![job[w].key] = None]
      BY <2>4, SettleStep
    <3>2. job[w].key # k
      <4>1. CASE job[w].key = k
        <5>1. Verified(job[w].answer)
          BY <3>1, <4>1 DEF Delivering
        <5>2. IsSuccess(RecordOf(w))
          BY <3>1, <5>1, RecordIsLine DEF Locals, Local
        <5> QED
          BY <3>1, <4>1, <5>2, SuccessAfter
      <4> QED
        BY <4>1
    <3> QED
      BY <2>0, <2>1, <3>1, <3>2 DEF Granted, Rests, Resting, TypeOK
  <2>5. CASE Requeue(w)
    <3>1. /\ job[w].pc = "requeue" /\ Rests(w)
          /\ claims' = [claims EXCEPT ![job[w].key] = None]
      BY <2>5, RequeueStep DEF Returns
    <3>2. job[w].key # k
      BY <3>1 DEF Delivering
    <3> QED
      BY <2>0, <2>1, <3>1, <3>2 DEF Granted, Rests, Resting, TypeOK
  <2>6. CASE Decide(w)
    BY <2>1, <2>6, DecideStep DEF Granted, Keeps, Files, Delivering
  <2>7. CASE ~Claim(w) /\ ~SetRequest(w) /\ ~Settle(w) /\ ~Requeue(w) /\ ~Decide(w)
    <3>1. GoesOn(w) /\ UNCHANGED claims
      BY <1>2, <2>7, GoesOnStep
    <3>2. job'[w].pc \notin Working \/ job[w].pc \notin {"decide", "settle"}
      <4>1. CASE \/ Start(w) \/ Crash(w) \/ Scan(w) \/ PickDone(w) \/ ClaimLost(w)
                 \/ \E j \in Keys : PickNext(w, j) \/ PickCampaign(w, j)
        BY <4>1, StartStep, CrashStep, PickStep, ClaimLostStep DEF Rests, Resting
      <4>2. CASE \/ Enqueue(w) \/ RetryWrite(w) \/ (\E a \in Answers : Submit(w, a))
                 \/ GatesPass(w) \/ \E c \in GateFaults : GateFails(w, c)
        BY <4>2, EnqueueStep, RetryWriteStep, SubmitStep, GatesStep
      <4>3. CASE \/ CheckSuccess(w) \/ CheckPause(w) \/ CheckCap(w) \/ CheckLatest(w)
        BY <4>3, CheckStep DEF Rests, Resting
      <4> QED
        BY <1>2, <2>7, <4>1, <4>2, <4>3 DEF Run
    <3> QED
      BY <2>1, <3>1, <3>2 DEF GoesOn, Keeps, Delivering, Granted
  <2> QED
    BY <2>2, <2>3, <2>4, <2>5, <2>6, <2>7
<1>3. CASE UNCHANGED vars
  BY <1>3 DEF vars, queue, Granted, Delivering, Verified
<1> QED
  BY <1>1, <1>2, <1>3 DEF Next

\* A process that submits owns a claim on a key nobody has a confirmation of.
LEMMA SubmitUnconfirmed ==
  ASSUME IInv, OwnInv, ConfirmInv, NEW w \in Workers, job[w].pc = "submit"
  PROVE  seen[job[w].key].verified = 0
<1> USE DEF IInv
<1>1. Busy(w) /\ Owns(w) /\ job[w].key \in Keys
  BY DEF OwnInv, Busy, Working, TypeOK, Job
<1>2. Granted(job[w].key) /\ ~LatestSuccess(job[w].key)
  BY <1>1 DEF QueueInv, Granted, Owns
<1>3. ~Delivering(job[w].key)
  BY <1>1 DEF Delivering
<1> QED
  BY <1>1, <1>2, <1>3 DEF ConfirmInv

LEMMA ConfirmStep ==
  ASSUME Recovers = FALSE, IInv, OwnInv, ConfirmInv, [Next]_vars
  PROVE  ConfirmInv'
<1> SUFFICES ASSUME NEW k \in Keys
             PROVE  /\ seen'[k].verified \in {0, 1}
                    /\ seen'[k].verified = 1 =>
                         LatestSuccess(k)' \/ (Granted(k)' /\ Delivering(k)')
  BY DEF ConfirmInv
<1> USE DEF IInv
<1>1. CASE seen'[k] = seen[k]
  <2>1. CASE seen[k].verified = 1
    BY <1>1, <2>1, SuccessStays, DeliveringStays DEF ConfirmInv
  <2> QED
    BY <1>1, <2>1 DEF ConfirmInv
<1>2. ASSUME NEW w \in Workers, NEW a \in Answers, Submit(w, a), job[w].key = k
      PROVE  /\ seen'[k].verified \in {0, 1}
             /\ seen'[k].verified = 1 => Granted(k)' /\ Delivering(k)'
  <2>1. /\ job[w].pc = "submit" /\ Moves(w) /\ Keeps(w) /\ UNCHANGED claims
        /\ job'[w].pc = "decide" /\ job'[w].answer = Normalised(a)
    BY <1>2, SubmitStep
  <2>2. Busy(w) /\ Owns(w)
    BY <2>1 DEF OwnInv, Busy, Working
  <2>3. Granted(k)
    BY <1>2, <2>2 DEF Granted, Owns
  <2>5. seen[k].verified = 0
    BY <1>2, <2>1, SubmitUnconfirmed
  <2>6. seen'[k].verified = IF Verified(a) THEN 1 ELSE 0
    BY <1>2, <2>5, SubmitSeen
  <2>7. Verified(a) => Verified(job'[w].answer)
    BY <2>1, NormalisedAnswer, PublishingConstants
  <2>8. \A v \in Workers : v # w /\ Busy(v)' => job'[v].key # k
    BY <1>2, <2>1, <2>2 DEF OwnInv, Moves, Busy
  <2>9. Verified(a) => Delivering(k)'
    BY <2>1, <2>7, <2>8 DEF Delivering, Verified
  <2> QED
    BY <2>1, <2>3, <2>6, <2>9 DEF Granted
<1> QED
  BY <1>1, <1>2, SeenStep, SubmitSeen

LEMMA OwnInit == Init => OwnInv
BY DEF Init, IdleJob, OwnInv, Busy, Working

\* As nobody recovers claims, a key that was confirmed is not submitted again, however
\* the commands of many processes interleave and die (_claim_for, _terminal, enqueue).
THEOREM ConfirmedStaysUnsubmitted ==
  ASSUME Recovers = FALSE PROVE Spec => ConfirmedNotResubmitted
<1>1. Init => ConfirmInv
  <2>1. ASSUME Init PROVE \A k \in Keys : seen[k].verified = 0
    BY <2>1 DEF Init
  <2> QED
    BY <2>1 DEF ConfirmInv
<1>2. IInv /\ OwnInv /\ [Next]_vars => OwnInv'
  BY OwnStep DEF IInv
<1>3. IInv /\ OwnInv /\ ConfirmInv /\ [Next]_vars => ConfirmInv'
  BY ConfirmStep
<1>4. IInv /\ OwnInv /\ ConfirmInv /\ [Next]_vars =>
        [\A k \in Keys : SubmitOf(k) => seen[k].verified = 0]_vars
  <2> SUFFICES ASSUME IInv, OwnInv, ConfirmInv, [Next]_vars, NEW k \in Keys, SubmitOf(k)
               PROVE  seen[k].verified = 0
    OBVIOUS
  <2>1. seen[k].submits \in Nat
    BY DEF IInv, TypeOK
  <2>2. PICK w \in Workers, a \in Answers : Submit(w, a)
    BY <2>1, SeenStep DEF SubmitOf, IInv
  <2>3. job[w].pc = "submit"
    BY <2>2, SubmitStep DEF IInv
  <2>4. job[w].key = k
    BY <2>1, <2>2, SubmitSeen DEF SubmitOf, IInv
  <2> QED
    BY <2>3, <2>4, SubmitUnconfirmed
<1> QED
  BY <1>1, <1>2, <1>3, <1>4, OwnInit, Invariance, PTL DEF Spec, ConfirmedNotResubmitted

-----------------------------------------------------------------------------
\* Counting records of the log.

LineType == AttemptLine \cup ResumeLine

Hits(q, T) == {i \in DOMAIN q : q[i] \in T}

LEMMA CountedAppend ==
  ASSUME NEW S, NEW T, NEW s \in Seq(S), NEW e \in S
  PROVE  /\ Cardinality(Hits(s, T)) \in Nat
         /\ Cardinality(Hits(Append(s, e), T)) =
              IF e \in T THEN Cardinality(Hits(s, T)) + 1 ELSE Cardinality(Hits(s, T))
<1> DEFINE t == Append(s, e)
           I == {i \in DOMAIN s : s[i] \in T}
           J == {i \in DOMAIN t : t[i] \in T}
<1>1. DOMAIN s = 1..Len(s) /\ Len(s) \in Nat
  OBVIOUS
<1>2. IsFiniteSet(1..Len(s)) /\ Cardinality(1..Len(s)) = Len(s)
  BY <1>1, FS_Interval
<1>3. I \in SUBSET (1..Len(s))
  BY <1>1
<1>4. IsFiniteSet(I) /\ Cardinality(I) \in Nat
  <2> HIDE DEF I
  <2> QED
    BY <1>2, <1>3, FS_Subset, FS_CardinalityType
<1>5. /\ DOMAIN t = 1..(Len(s) + 1) /\ t[Len(s) + 1] = e
      /\ \A i \in 1..Len(s) : t[i] = s[i]
  BY <1>1
<1>6. J = IF e \in T THEN I \cup {Len(s) + 1} ELSE I
  <2> HIDE DEF t
  <2> QED
    BY <1>1, <1>5
<1>7. Len(s) + 1 \notin I
  BY <1>1
<1> HIDE DEF I, J
<1>8. Cardinality(J) = IF e \in T THEN Cardinality(I) + 1 ELSE Cardinality(I)
  BY <1>4, <1>6, <1>7, FS_AddElement
<1> QED
  BY <1>4, <1>8 DEF I, J, Hits

\* The live records of a key, and the successes of a day.
Live(k)        == {r \in LineType : r.event = "attempt" /\ r.key = k /\ ~r.dry}
SuccessLines(d) == {r \in LineType : IsSuccess(r) /\ r.day = d}

LEMMA AttemptsAppend ==
  ASSUME NEW s \in Seq(LineType), NEW e \in LineType, NEW k
  PROVE  /\ AttemptCount(s, k) \in Nat
         /\ AttemptCount(Append(s, e), k) =
              IF e \in Live(k) THEN AttemptCount(s, k) + 1 ELSE AttemptCount(s, k)
<1> DEFINE t == Append(s, e)
<1>0. t \in Seq(LineType)
  OBVIOUS
<1>1. ASSUME NEW q \in Seq(LineType)
      PROVE  AttemptCount(q, k) = Cardinality(Hits(q, Live(k)))
  <2>1. \A i \in DOMAIN q : q[i] \in LineType
    OBVIOUS
  <2>2. Hits(q, Live(k)) =
          {i \in DOMAIN q : /\ q[i].event = "attempt" /\ q[i].key = k /\ ~q[i].dry}
    BY <2>1 DEF Live, Hits
  <2> QED
    BY <2>2 DEF AttemptCount
<1> HIDE DEF t
<1>2. /\ AttemptCount(s, k) = Cardinality(Hits(s, Live(k)))
      /\ AttemptCount(t, k) = Cardinality(Hits(t, Live(k)))
  BY <1>0, <1>1
<1>3. /\ Cardinality(Hits(s, Live(k))) \in Nat
      /\ Cardinality(Hits(t, Live(k))) =
           IF e \in Live(k) THEN Cardinality(Hits(s, Live(k))) + 1
                            ELSE Cardinality(Hits(s, Live(k)))
  BY CountedAppend DEF t
<1> QED
  BY <1>2, <1>3 DEF t

LEMMA SuccessesAppend ==
  ASSUME NEW s \in Seq(LineType), NEW e \in LineType, NEW d
  PROVE  /\ SuccessesOn(s, d) \in Nat
         /\ SuccessesOn(Append(s, e), d) =
              IF e \in SuccessLines(d) THEN SuccessesOn(s, d) + 1 ELSE SuccessesOn(s, d)
<1> DEFINE t == Append(s, e)
<1>0. t \in Seq(LineType)
  OBVIOUS
<1>1. ASSUME NEW q \in Seq(LineType)
      PROVE  SuccessesOn(q, d) = Cardinality(Hits(q, SuccessLines(d)))
  <2>1. \A i \in DOMAIN q : q[i] \in LineType
    OBVIOUS
  <2>2. Hits(q, SuccessLines(d)) =
          {i \in DOMAIN q : IsSuccess(q[i]) /\ q[i].day = d}
    BY <2>1 DEF SuccessLines, Hits
  <2> QED
    BY <2>2 DEF SuccessesOn
<1> HIDE DEF t
<1>2. /\ SuccessesOn(s, d) = Cardinality(Hits(s, SuccessLines(d)))
      /\ SuccessesOn(t, d) = Cardinality(Hits(t, SuccessLines(d)))
  BY <1>0, <1>1
<1>3. /\ Cardinality(Hits(s, SuccessLines(d))) \in Nat
      /\ Cardinality(Hits(t, SuccessLines(d))) =
           IF e \in SuccessLines(d)
             THEN Cardinality(Hits(s, SuccessLines(d))) + 1
             ELSE Cardinality(Hits(s, SuccessLines(d)))
  BY CountedAppend DEF t
<1> QED
  BY <1>2, <1>3 DEF t

\* How the log grows: a resume event, or the record of one attempt.
LEMMA LogStep ==
  ASSUME TypeOK, [Next]_vars
  PROVE  \/ UNCHANGED <<log, latest>>
         \/ /\ \E a \in Accounts : log' = Append(log, ResumeEvent(a, today))
            /\ UNCHANGED <<latest, pending, claims, job, seen, crashes, today>>
         \/ \E w \in Workers : (Settle(w) \/ RetryWrite(w)) /\ Writes(w)
<1>1. CASE Environment
  BY <1>1, EnvironmentStep
<1>2. ASSUME NEW w \in Workers, Start(w) \/ Run(w) \/ Crash(w),
             ~Settle(w), ~RetryWrite(w)
      PROVE  UNCHANGED <<log, latest>>
  BY <1>2, StartStep, CrashStep, PickStep, ClaimLostStep, CheckStep, EnqueueStep, ClaimStep,
     SetRequestStep, GatesStep, SubmitStep, DecideStep, RequeueStep
     DEF Run, Files
<1>3. CASE UNCHANGED vars
  BY <1>3 DEF vars, receipts
<1> QED
  BY <1>1, <1>2, <1>3, SettleStep, RetryWriteStep DEF Next

\* A record counts for its key when it is live; a resume event never does.
LEMMA AttemptsWritten ==
  ASSUME TypeOK, NEW w \in Workers, Writes(w), NEW k \in Keys
  PROVE  AttemptCount(log, k)' = IF k = job[w].key /\ ~job[w].dry
                                   THEN AttemptCount(log, k) + 1 ELSE AttemptCount(log, k)
<1> DEFINE r == RecordOf(w)
<1>1. /\ r \in AttemptLine /\ r.event = "attempt"
      /\ r.key = job[w].key /\ r.dry = job[w].dry
  BY RecordIsLine
<1> HIDE DEF r
<1>2. r \in Live(k) <=> k = job[w].key /\ ~job[w].dry
  BY <1>1 DEF Live, LineType
<1>3. log \in Seq(LineType) /\ r \in LineType /\ log' = Append(log, r)
  BY <1>1 DEF TypeOK, LineType, Writes, r
<1>4. AttemptCount(log, k)' = AttemptCount(Append(log, r), k)
  BY <1>3 DEF AttemptCount
<1> QED
  BY <1>2, <1>3, <1>4, AttemptsAppend

LEMMA AttemptsResumed ==
  ASSUME TypeOK, NEW a \in Accounts, log' = Append(log, ResumeEvent(a, today)), NEW k \in Keys
  PROVE  AttemptCount(log, k)' = AttemptCount(log, k)
<1> DEFINE r == ResumeEvent(a, today)
<1>1. r \in ResumeLine /\ r.event = "resume"
  BY DEF ResumeEvent, ResumeLine, TypeOK
<1> HIDE DEF r
<1>2. r \notin Live(k)
  BY <1>1 DEF Live
<1>3. log \in Seq(LineType) /\ r \in LineType /\ log' = Append(log, r)
  BY <1>1 DEF TypeOK, LineType, r
<1>4. AttemptCount(log, k)' = AttemptCount(Append(log, r), k)
  BY <1>3 DEF AttemptCount
<1> QED
  BY <1>2, <1>3, <1>4, AttemptsAppend

-----------------------------------------------------------------------------
\* Every live submit has its record, or one on its way, or a crash to blame.

Flying(w, k) == /\ job[w].key = k /\ ~job[w].dry
                /\ job[w].pc \in {"decide", "settle", "retry_write"}

\* One process more or less in flight: R is how many there are without it.
LEMMA FlightStep ==
  ASSUME TypeOK, NEW w \in Workers, Moves(w), NEW k \in Keys
  PROVE  \E R \in Nat :
           /\ Cardinality(InFlight(k)) = IF Flying(w, k) THEN R + 1 ELSE R
           /\ Cardinality(InFlight(k)') = IF Flying(w, k)' THEN R + 1 ELSE R
<1> DEFINE S == InFlight(k)
           T == InFlight(k)'
           B == S \ {w}
<1>1. S = {v \in Workers : Flying(v, k)} /\ T = {v \in Workers : Flying(v, k)'}
  BY DEF InFlight, Flying
<1>2. \A v \in Workers : v # w => (Flying(v, k)' <=> Flying(v, k))
  BY DEF Moves, Flying
<1>3. S = IF Flying(w, k) THEN B \cup {w} ELSE B
  BY <1>1
<1>4. T = IF Flying(w, k)' THEN B \cup {w} ELSE B
  <2> HIDE DEF S, T
  <2> QED
    BY <1>1, <1>2
<1>5. B \in SUBSET Workers /\ w \notin B
  BY <1>1
<1> HIDE DEF S, T, B
<1>6. IsFiniteSet(B) /\ Cardinality(B) \in Nat
  BY <1>5, PublishingConstants, FS_Subset, FS_CardinalityType
<1>7. Cardinality(B \cup {w}) = Cardinality(B) + 1
  BY <1>5, <1>6, FS_AddElement
<1>8. /\ Cardinality(S) = IF Flying(w, k) THEN Cardinality(B) + 1 ELSE Cardinality(B)
      /\ Cardinality(T) = IF Flying(w, k)' THEN Cardinality(B) + 1 ELSE Cardinality(B)
  BY <1>3, <1>4, <1>7
<1> QED
  BY <1>6, <1>8 DEF S, T

\* What a step of one process does to the three counts of a key.
LEMMA RecordedBalance ==
  ASSUME Recovers = FALSE, IInv, OwnInv, NEW w \in Workers, Start(w) \/ Run(w) \/ Crash(w),
         NEW k \in Keys
  PROVE  /\ Moves(w)
         /\ crashes' = crashes \/ (crashes' = crashes + 1 /\ Crash(w))
         /\ \/ /\ seen'[k].submits = seen[k].submits + 1
               /\ AttemptCount(log, k)' = AttemptCount(log, k)
               /\ ~Flying(w, k) /\ Flying(w, k)'
            \/ /\ seen'[k].submits = seen[k].submits
               /\ AttemptCount(log, k)' = AttemptCount(log, k) + 1
            \/ /\ seen'[k].submits = seen[k].submits
               /\ AttemptCount(log, k)' = AttemptCount(log, k)
               /\ Flying(w, k) => Flying(w, k)' \/ crashes' = crashes + 1
<1> USE DEF IInv, Files, bounds
<1>q. UNCHANGED log => AttemptCount(log, k)' = AttemptCount(log, k)
  BY DEF AttemptCount
<1>f. /\ Flying(w, k) => /\ job[w].key = k /\ ~job[w].dry
                         /\ job[w].pc \in {"decide", "settle", "retry_write"}
      /\ job'[w].key = k /\ ~job'[w].dry /\ job'[w].pc \in {"decide", "settle", "retry_write"}
           => Flying(w, k)'
      /\ Flying(w, k) => Owns(w)
  BY DEF Flying, OwnInv, Busy, Working
<1>1. CASE Crash(w)
  BY <1>1, <1>q, CrashStep DEF Rests
<1>2. CASE \/ Start(w) \/ Scan(w) \/ PickDone(w) \/ ClaimLost(w)
           \/ \E j \in Keys : PickNext(w, j) \/ PickCampaign(w, j)
  <2>1. Moves(w) /\ UNCHANGED <<log, seen, crashes>>
    BY <1>2, StartStep, PickStep, ClaimLostStep DEF Rests
  <2>2. ~Flying(w, k)
    <3>1. CASE ClaimLost(w)
      BY <1>f, <3>1, ClaimLostStep
    <3>2. CASE ~ClaimLost(w)
      <4>1. job[w].pc \in {"idle", "scan", "pick"}
        BY <1>2, <3>2
           DEF Start, StartNext, StartCampaign, StartItem, Scan, PickDone, PickNext,
               PickCampaign, At
      <4> QED
        BY <1>f, <4>1
    <3> QED
      BY <3>1, <3>2
  <2> QED
    BY <1>q, <2>1, <2>2
<1>3. CASE \/ CheckSuccess(w) \/ CheckPause(w) \/ CheckCap(w) \/ CheckLatest(w)
           \/ Enqueue(w) \/ Claim(w) \/ SetRequest(w) \/ Requeue(w)
           \/ GatesPass(w) \/ \E c \in GateFaults : GateFails(w, c)
  <2>1. Moves(w) /\ UNCHANGED <<log, seen, crashes>>
    BY <1>3, CheckStep, EnqueueStep, ClaimStep, SetRequestStep, RequeueStep, GatesStep
       DEF Rests
  <2>2. job[w].pc \notin {"decide", "settle", "retry_write"}
    BY <1>3 DEF CheckSuccess, CheckPause, CheckCap, CheckLatest, Enqueue, Claim, SetRequest,
                Requeue, GatesPass, GateFails, At
  <2> QED
    BY <1>q, <1>f, <2>1, <2>2
<1>4. ASSUME NEW a \in Answers, Submit(w, a)
      PROVE  /\ Moves(w) /\ crashes' = crashes
             /\ AttemptCount(log, k)' = AttemptCount(log, k)
             /\ ~Flying(w, k)
             /\ \/ seen'[k].submits = seen[k].submits + 1 /\ Flying(w, k)'
                \/ seen'[k].submits = seen[k].submits
  <2>1. /\ job[w].pc = "submit" /\ Moves(w) /\ Keeps(w)
        /\ job'[w].pc = "decide" /\ UNCHANGED <<log, crashes>>
    BY <1>4, SubmitStep
  <2>2. ~job[w].dry
    BY <2>1 DEF Locals, Local
  <2>3. k = job[w].key => Flying(w, k)'
    BY <1>f, <2>1, <2>2 DEF Keeps
  <2> QED
    BY <1>4, <1>q, <1>f, <2>1, <2>3, SubmitSeen
<1>5. CASE Decide(w)
  <2>1. /\ Moves(w) /\ Keeps(w) /\ UNCHANGED <<log, seen, crashes>>
        /\ job'[w].pc \in {"settle", "retry_write"}
    BY <1>5, DecideStep
  <2>2. Flying(w, k) => Flying(w, k)'
    BY <1>f, <2>1 DEF Keeps
  <2> QED
    BY <1>q, <2>1, <2>2
<1>6. CASE Settle(w) \/ RetryWrite(w)
  <2>1. /\ Moves(w) /\ Writes(w) /\ UNCHANGED <<seen, crashes>>
    BY <1>6, SettleStep, RetryWriteStep DEF Rests
  <2>2. AttemptCount(log, k)' = IF k = job[w].key /\ ~job[w].dry
                                  THEN AttemptCount(log, k) + 1 ELSE AttemptCount(log, k)
    BY <2>1, AttemptsWritten
  <2> QED
    BY <1>f, <2>1, <2>2
<1> QED
  BY <1>1, <1>2, <1>3, <1>4, <1>5, <1>6 DEF Run

LEMMA CountsTypes ==
  ASSUME TypeOK, NEW k \in Keys
  PROVE  /\ AttemptCount(log, k) \in Nat /\ seen[k].submits \in Nat /\ crashes \in Nat
         /\ IsFiniteSet(InFlight(k)) /\ Cardinality(InFlight(k)) \in Nat
<1>1. InFlight(k) \in SUBSET Workers
  BY DEF InFlight
<1>2. IsFiniteSet(InFlight(k)) /\ Cardinality(InFlight(k)) \in Nat
  BY <1>1, PublishingConstants, FS_Subset, FS_CardinalityType
<1>3. log \in Seq(LineType)
  BY DEF TypeOK, LineType
<1>4. AttemptCount(log, k) \in Nat
  <2>1. AttemptCount(log, k) = Cardinality(Hits(log, Live(k)))
    <3>1. \A i \in DOMAIN log : log[i] \in LineType
      BY <1>3
    <3>2. Hits(log, Live(k)) =
            {i \in DOMAIN log : /\ log[i].event = "attempt" /\ log[i].key = k /\ ~log[i].dry}
      BY <3>1 DEF Live, Hits
    <3> QED
      BY <3>2 DEF AttemptCount
  <2>2. Hits(log, Live(k)) \in SUBSET (1..Len(log)) /\ Len(log) \in Nat
    BY <1>3 DEF Hits
  <2>3. IsFiniteSet(1..Len(log))
    BY <2>2, FS_Interval
  <2>4. IsFiniteSet(Hits(log, Live(k)))
    BY <2>2, <2>3, FS_Subset
  <2> QED
    BY <2>1, <2>4, FS_CardinalityType
<1> QED
  BY <1>2, <1>4 DEF TypeOK

LEMMA RecordedStep ==
  ASSUME Recovers = FALSE, IInv, OwnInv, EverySubmitRecorded, [Next]_vars
  PROVE  EverySubmitRecorded'
<1> SUFFICES ASSUME NEW k \in Keys
             PROVE  seen'[k].submits
                      <= AttemptCount(log, k)' + Cardinality(InFlight(k)') + crashes'
  BY DEF EverySubmitRecorded
<1> DEFINE c == Cardinality(InFlight(k))
           d == Cardinality(InFlight(k)')
           n == AttemptCount(log, k)
           m == AttemptCount(log, k)'
<1>0. /\ n \in Nat /\ c \in Nat /\ crashes \in Nat /\ seen[k].submits \in Nat
      /\ seen[k].submits <= n + c + crashes
  BY CountsTypes DEF IInv, EverySubmitRecorded
<1>1. CASE Environment
  <2>1. UNCHANGED <<job, seen, crashes>>
    BY <1>1, EnvironmentStep DEF IInv
  <2>2. d = c
    BY <2>1 DEF InFlight
  <2>3. m = n
    BY <1>1, EnvironmentStep, AttemptsResumed DEF IInv, AttemptCount
  <2> QED
    BY <1>0, <2>1, <2>2, <2>3
<1>2. ASSUME NEW w \in Workers, Start(w) \/ Run(w) \/ Crash(w)
      PROVE  seen'[k].submits <= m + d + crashes'
  <2>1. /\ Moves(w)
        /\ crashes' = crashes \/ (crashes' = crashes + 1 /\ Crash(w))
        /\ \/ /\ seen'[k].submits = seen[k].submits + 1
              /\ m = n
              /\ ~Flying(w, k) /\ Flying(w, k)'
           \/ /\ seen'[k].submits = seen[k].submits
              /\ m = n + 1
           \/ /\ seen'[k].submits = seen[k].submits
              /\ m = n
              /\ Flying(w, k) => Flying(w, k)' \/ crashes' = crashes + 1
    BY <1>2, RecordedBalance
  <2>2. PICK R \in Nat : /\ c = IF Flying(w, k) THEN R + 1 ELSE R
                         /\ d = IF Flying(w, k)' THEN R + 1 ELSE R
    BY <2>1, FlightStep DEF IInv
  <2> HIDE DEF c, d, n, m
  <2> QED
    BY <1>0, <2>1, <2>2
<1>3. CASE UNCHANGED vars
  <2>1. UNCHANGED <<log, job, seen, crashes>>
    BY <1>3 DEF vars, receipts, bounds
  <2>2. d = c /\ m = n
    BY <2>1 DEF InFlight, AttemptCount
  <2> QED
    BY <1>0, <2>1, <2>2
<1> QED
  BY <1>1, <1>2, <1>3 DEF Next

\* As nobody recovers claims, no submit is lost from the receipts but by a crash: its
\* live record is written, or its process is about to write it (orchestrator.py:578-599).
THEOREM SubmitsAreRecorded == ASSUME Recovers = FALSE PROVE Spec => []EverySubmitRecorded
<1>1. Init => EverySubmitRecorded
  <2> SUFFICES ASSUME Init, NEW k \in Keys
               PROVE  seen[k].submits <= AttemptCount(log, k) + Cardinality(InFlight(k)) + crashes
    BY DEF EverySubmitRecorded
  <2>1. seen[k].submits = 0
    BY DEF Init
  <2>2. /\ AttemptCount(log, k) \in Nat /\ Cardinality(InFlight(k)) \in Nat /\ crashes \in Nat
    BY InitTypes, CountsTypes
  <2> QED
    BY <2>1, <2>2
<1>2. IInv /\ OwnInv /\ [Next]_vars => OwnInv'
  BY OwnStep DEF IInv
<1>3. IInv /\ OwnInv /\ EverySubmitRecorded /\ [Next]_vars => EverySubmitRecorded'
  BY RecordedStep
<1> QED
  BY <1>1, <1>2, <1>3, OwnInit, Invariance, PTL DEF Spec

-----------------------------------------------------------------------------
\* One process at a time.  What a check has found then holds until the item is over.

OneProcess == \A v, w \in Workers : v = w

Past == {"enqueue", "claim", "set_request", "gates", "submit", "decide", "settle",
         "retry_write"}

\* An item that is past the checks came through them, and nothing is written on the way.
LEMMA PastStep ==
  ASSUME TypeOK, NEW w \in Workers, Start(w) \/ Run(w) \/ Crash(w), job'[w].pc \in Past
  PROVE  /\ job'[w].key = job[w].key /\ job'[w].dry = job[w].dry
         /\ UNCHANGED <<log, latest, today>>
         /\ \/ job[w].pc \in Past
            \/ job[w].pc = "check_latest" /\ ~RetriesSpent(job[w].key)
<1> USE DEF Files, bounds, Keeps
<1>r. ~Rests(w)
  BY DEF Rests, Resting, Past
<1>1. CASE \/ Start(w) \/ Crash(w) \/ Scan(w) \/ PickDone(w) \/ ClaimLost(w)
           \/ (\E k \in Keys : PickNext(w, k) \/ PickCampaign(w, k))
           \/ Settle(w) \/ Requeue(w)
  BY <1>1, <1>r, StartStep, CrashStep, PickStep, ClaimLostStep, SettleStep, RequeueStep
<1>2. CASE CheckSuccess(w) \/ CheckPause(w) \/ CheckCap(w) \/ CheckLatest(w)
  BY <1>2, <1>r, CheckStep DEF Past
<1>3. CASE Enqueue(w)
  BY <1>3, <1>r, EnqueueStep DEF Past
<1>4. CASE Claim(w)
  <2>1. /\ job[w].pc = "claim" /\ job'[w].key = job[w].key /\ job'[w].dry = job[w].dry
        /\ UNCHANGED <<log, latest, today>>
    BY <1>4, <1>r, ClaimStep
  <2> QED
    BY <2>1 DEF Past
<1>5. CASE SetRequest(w)
  BY <1>5, SetRequestStep DEF Past
<1>6. CASE GatesPass(w) \/ \E c \in GateFaults : GateFails(w, c)
  BY <1>6, GatesStep DEF Past
<1>7. CASE \E a \in Answers : Submit(w, a)
  <2>1. Moves(w) /\ Keeps(w) /\ job[w].pc = "submit" /\ UNCHANGED <<log, latest, today>>
    BY <1>7, SubmitStep
  <2> QED
    BY <2>1 DEF Past
<1>8. CASE Decide(w)
  BY <1>8, DecideStep DEF Past
<1>9. CASE RetryWrite(w)
  BY <1>9, RetryWriteStep DEF Past
<1> QED
  BY <1>1, <1>2, <1>3, <1>4, <1>5, <1>6, <1>7, <1>8, <1>9 DEF Run

LEMMA CheckingStep ==
  ASSUME TypeOK, NEW w \in Workers, Start(w) \/ Run(w) \/ Crash(w), job'[w].pc \in Checking
  PROVE  /\ job'[w].key = job[w].key /\ job'[w].dry = job[w].dry
         /\ UNCHANGED <<log, latest, today>>
         /\ \/ job[w].pc = "check_success" /\ ~LatestSuccess(job[w].key)
            \/ job[w].pc \in Checking
         /\ job'[w].pc = "check_latest" => job[w].dry \/ ~CapReached
<1> USE DEF Files, bounds, Keeps
<1>r. ~Rests(w)
  BY DEF Rests, Resting, Checking
<1>1. CASE \/ Start(w) \/ Crash(w) \/ Scan(w) \/ PickDone(w) \/ ClaimLost(w)
           \/ (\E k \in Keys : PickNext(w, k) \/ PickCampaign(w, k))
           \/ Settle(w) \/ Requeue(w)
  BY <1>1, <1>r, StartStep, CrashStep, PickStep, ClaimLostStep, SettleStep, RequeueStep
<1>2. CASE CheckSuccess(w) \/ CheckPause(w) \/ CheckCap(w) \/ CheckLatest(w)
  BY <1>2, <1>r, CheckStep DEF Checking
<1>3. CASE \/ Enqueue(w) \/ Claim(w) \/ SetRequest(w) \/ Decide(w) \/ RetryWrite(w)
           \/ GatesPass(w) \/ (\E c \in GateFaults : GateFails(w, c))
  BY <1>3, <1>r, EnqueueStep, ClaimStep, SetRequestStep, DecideStep, RetryWriteStep, GatesStep
     DEF Checking
<1>4. CASE \E a \in Answers : Submit(w, a)
  <2>1. job'[w].pc = "decide"
    BY <1>4, SubmitStep
  <2> QED
    BY <2>1 DEF Checking
<1> QED
  BY <1>1, <1>2, <1>3, <1>4 DEF Run

\* The latest receipt of the key ends it for good: a success, or a failure that is not
\* transient.
Failing == {"failed", "blocked", "unknown"}
Shut(k) == /\ latest[k] # None
           /\ \/ IsSuccess(latest[k])
              \/ /\ latest[k].status \in Failing
                 /\ latest[k].category \notin TransientCategories

FreshInv == \A w \in Workers : /\ job[w].pc \in Checking => ~LatestSuccess(job[w].key)
                               /\ job[w].pc \in Past => ~Shut(job[w].key)

LEMMA CheckedIsOpen ==
  ASSUME NEW k, ~LatestSuccess(k), ~RetriesSpent(k)
  PROVE  ~Shut(k)
BY DEF Shut, LatestSuccess, RetriesSpent, RetryDecision, Failing

LEMMA FreshStep ==
  ASSUME OneProcess, TypeOK, FreshInv, [Next]_vars
  PROVE  FreshInv'
<1> SUFFICES ASSUME NEW w \in Workers
             PROVE  /\ job'[w].pc \in Checking => ~LatestSuccess(job[w].key)'
                    /\ job'[w].pc \in Past => ~Shut(job[w].key)'
  BY DEF FreshInv
<1>s. ASSUME NEW k, NEW j, j = k, UNCHANGED latest
      PROVE  (LatestSuccess(k)' <=> LatestSuccess(j)) /\ (Shut(k)' <=> Shut(j))
  BY <1>s DEF LatestSuccess, Shut, IsSuccess
<1>1. CASE Environment \/ UNCHANGED vars
  <2>1. UNCHANGED <<job, latest>>
    BY <1>1, EnvironmentStep DEF vars, receipts
  <2> QED
    BY <2>1 DEF FreshInv, LatestSuccess, Shut, IsSuccess
<1>2. CASE Start(w) \/ Run(w) \/ Crash(w)
  <2>1. ASSUME job'[w].pc \in Checking PROVE ~LatestSuccess(job[w].key)'
    <3>1. /\ job'[w].key = job[w].key /\ UNCHANGED latest
          /\ ~LatestSuccess(job[w].key)
      BY <1>2, <2>1, CheckingStep DEF FreshInv
    <3> QED
      BY <3>1 DEF LatestSuccess, IsSuccess
  <2>2. ASSUME job'[w].pc \in Past PROVE ~Shut(job[w].key)'
    <3>1. /\ job'[w].key = job[w].key /\ UNCHANGED latest
          /\ \/ job[w].pc \in Past
             \/ job[w].pc = "check_latest" /\ ~RetriesSpent(job[w].key)
      BY <1>2, <2>2, PastStep
    <3>2. ~Shut(job[w].key)
      BY <3>1, CheckedIsOpen DEF FreshInv, Checking
    <3> QED
      BY <3>1, <3>2 DEF Shut, IsSuccess
  <2> QED
    BY <2>1, <2>2
<1> QED
  BY <1>1, <1>2 DEF Next, OneProcess

LEMMA FreshInit == Init => FreshInv
BY DEF Init, IdleJob, FreshInv, Checking, Past

-----------------------------------------------------------------------------
\* The daily cap.

Due == Past \cup {"check_latest"}

\* A process under the cap: it found the cap not reached, and may yet write a success.
UnderCap(w) == job[w].pc \in Due /\ ~job[w].dry
Under       == {w \in Workers : UnderCap(w)}
Limit       == DailyCap + Cardinality(Workers)

\* The successes of today and those that may still come stay below the limit.  A process
\* that joins found the successes below the cap, and the others are fewer than all.
CapInv == /\ \A i \in DOMAIN log : log[i].day <= today
          /\ \A d \in Nat : SuccessesOn(log, d) < Limit
          /\ SuccessesOn(log, today) + Cardinality(Under) < Limit

\* One process more or less under the cap: R is how many there are without it.
LEMMA UnderStep ==
  ASSUME TypeOK, NEW w \in Workers, Moves(w)
  PROVE  \E R \in Nat :
           /\ R < Cardinality(Workers) /\ Cardinality(Workers) \in Nat
           /\ Cardinality(Under) = IF UnderCap(w) THEN R + 1 ELSE R
           /\ Cardinality(Under') = IF UnderCap(w)' THEN R + 1 ELSE R
<1> DEFINE S == Under
           T == Under'
           B == S \ {w}
<1>1. S = {v \in Workers : UnderCap(v)} /\ T = {v \in Workers : UnderCap(v)'}
  BY DEF Under, UnderCap
<1>2. \A v \in Workers : v # w => (UnderCap(v)' <=> UnderCap(v))
  BY DEF Moves, UnderCap
<1>3. S = IF UnderCap(w) THEN B \cup {w} ELSE B
  BY <1>1
<1>4. T = IF UnderCap(w)' THEN B \cup {w} ELSE B
  <2> HIDE DEF S, T
  <2> QED
    BY <1>1, <1>2
<1>5. B \in SUBSET Workers /\ B \cup {w} \in SUBSET Workers /\ w \notin B
  BY <1>1
<1> HIDE DEF S, T, B
<1>6. IsFiniteSet(B) /\ Cardinality(B) \in Nat /\ Cardinality(Workers) \in Nat
  BY <1>5, PublishingConstants, FS_Subset, FS_CardinalityType
<1>7. Cardinality(B \cup {w}) = Cardinality(B) + 1
  BY <1>5, <1>6, FS_AddElement
<1>8. Cardinality(B \cup {w}) <= Cardinality(Workers)
  BY <1>5, PublishingConstants, FS_Subset
<1>9. /\ Cardinality(S) = IF UnderCap(w) THEN Cardinality(B) + 1 ELSE Cardinality(B)
      /\ Cardinality(T) = IF UnderCap(w)' THEN Cardinality(B) + 1 ELSE Cardinality(B)
  BY <1>3, <1>4, <1>7
<1>10. Cardinality(B) < Cardinality(Workers)
  BY <1>6, <1>7, <1>8
<1> QED
  BY <1>6, <1>9, <1>10 DEF S, T

LEMMA WorkerMoves ==
  ASSUME TypeOK, NEW w \in Workers, Start(w) \/ Run(w) \/ Crash(w)
  PROVE  Moves(w)
<1>1. CASE Claim(w) \/ SetRequest(w) \/ Settle(w) \/ Requeue(w)
  BY <1>1, ClaimStep, SetRequestStep, SettleStep, RequeueStep DEF Rests
<1>2. CASE ~Claim(w) /\ ~SetRequest(w) /\ ~Settle(w) /\ ~Requeue(w)
  BY <1>2, GoesOnStep DEF GoesOn
<1> QED
  BY <1>1, <1>2

LEMMA CapTypes ==
  ASSUME TypeOK
  PROVE  /\ today \in Nat /\ DailyCap \in Nat \ {0} /\ Limit \in Nat /\ DailyCap <= Limit
         /\ Cardinality(Under) \in Nat /\ DailyCap + Cardinality(Under) <= Limit
         /\ log \in Seq(LineType)
         /\ \A d \in Nat : SuccessesOn(log, d) \in Nat
<1>1. log \in Seq(LineType) /\ today \in Nat
  BY DEF TypeOK, LineType
<1>2. Under \in SUBSET Workers
  BY DEF Under
<1>3. /\ Cardinality(Under) \in Nat /\ Cardinality(Workers) \in Nat
      /\ Cardinality(Under) <= Cardinality(Workers)
  BY <1>2, PublishingConstants, FS_Subset, FS_CardinalityType
<1>4. ResumeEvent(AccountOf[AnyKey], today) \in LineType
  BY <1>1, PublishingConstants DEF ResumeEvent, ResumeLine, LineType, Accounts, AnyKey
<1>5. \A d \in Nat : SuccessesOn(log, d) \in Nat
  BY <1>1, <1>4, SuccessesAppend
<1>6. DailyCap \in Nat \ {0}
  BY PublishingConstants
<1>7. /\ Limit \in Nat /\ DailyCap <= Limit
      /\ DailyCap + Cardinality(Under) <= Limit
  BY <1>3, <1>6 DEF Limit
<1> QED
  BY <1>1, <1>3, <1>5, <1>6, <1>7

\* The days of a log, and what one more line does to them.
LEMMA DayAppend ==
  ASSUME TypeOK, NEW e \in LineType, log' = Append(log, e), e.day = today,
         \A i \in DOMAIN log : log[i].day <= today
  PROVE  \A i \in DOMAIN log' : log'[i].day <= today
<1>1. /\ log \in Seq(LineType) /\ DOMAIN log = 1..Len(log) /\ Len(log) \in Nat
      /\ DOMAIN log' = 1..(Len(log) + 1) /\ today \in Nat
  BY DEF TypeOK, LineType
<1>2. log'[Len(log) + 1] = e /\ \A i \in 1..Len(log) : log'[i] = log[i]
  BY <1>1
<1> QED
  BY <1>1, <1>2

LEMMA SuccessesWritten ==
  ASSUME TypeOK, NEW w \in Workers, Writes(w), NEW d \in Nat
  PROVE  /\ SuccessesOn(log, d) \in Nat
         /\ SuccessesOn(log, d)' = IF IsSuccess(RecordOf(w)) /\ d = today
                                     THEN SuccessesOn(log, d) + 1 ELSE SuccessesOn(log, d)
<1> DEFINE r == RecordOf(w)
<1>1. r \in AttemptLine /\ r.day = today
  BY RecordIsLine
<1>2. log \in Seq(LineType) /\ r \in LineType /\ log' = Append(log, r)
  BY <1>1 DEF TypeOK, LineType, Writes, r
<1>3. r \in SuccessLines(d) <=> IsSuccess(r) /\ d = today
  BY <1>1, <1>2 DEF SuccessLines
<1> HIDE DEF r
<1>4. SuccessesOn(log, d)' = SuccessesOn(Append(log, r), d)
  BY <1>2 DEF SuccessesOn, IsSuccess
<1> QED
  BY <1>2, <1>3, <1>4, SuccessesAppend DEF r

LEMMA SuccessesResumed ==
  ASSUME TypeOK, NEW a \in Accounts, log' = Append(log, ResumeEvent(a, today)), NEW d \in Nat
  PROVE  SuccessesOn(log, d)' = SuccessesOn(log, d)
<1> DEFINE r == ResumeEvent(a, today)
<1>1. r \in ResumeLine /\ r.event = "resume"
  BY DEF ResumeEvent, ResumeLine, TypeOK
<1> HIDE DEF r
<1>2. r \notin SuccessLines(d)
  BY <1>1 DEF SuccessLines, IsSuccess
<1>3. log \in Seq(LineType) /\ r \in LineType /\ log' = Append(log, r)
  BY <1>1 DEF TypeOK, LineType, r
<1>4. SuccessesOn(log, d)' = SuccessesOn(Append(log, r), d)
  BY <1>3 DEF SuccessesOn, IsSuccess
<1> QED
  BY <1>2, <1>3, <1>4, SuccessesAppend

LEMMA NoneTomorrow ==
  ASSUME TypeOK, \A i \in DOMAIN log : log[i].day <= today
  PROVE  SuccessesOn(log, today + 1) = 0
<1>1. today \in Nat
  BY DEF TypeOK
<1>2. \A i \in DOMAIN log : log[i].day # today + 1
  <2>1. \A i \in DOMAIN log : log[i] \in AttemptLine \cup ResumeLine
    BY DEF TypeOK
  <2>2. \A i \in DOMAIN log : log[i].day \in Nat
    BY <2>1 DEF AttemptLine, ResumeLine
  <2> QED
    BY <1>1, <2>2
<1>3. {i \in DOMAIN log : IsSuccess(log[i]) /\ log[i].day = today + 1} = {}
  BY <1>2
<1> QED
  BY <1>3, FS_EmptySet DEF SuccessesOn

\* A process that comes under the cap has found it not reached, and stays under it.
LEMMA DueStep ==
  ASSUME TypeOK, NEW w \in Workers, Start(w) \/ Run(w) \/ Crash(w),
         job'[w].pc \in Due, ~job'[w].dry
  PROVE  /\ UNCHANGED <<log, today>> /\ ~job[w].dry
         /\ job[w].pc \in Due \/ ~CapReached
<1>1. CASE job'[w].pc = "check_latest"
  BY <1>1, CheckingStep DEF Checking
<1>2. CASE job'[w].pc \in Past
  BY <1>2, PastStep DEF Due
<1> QED
  BY <1>1, <1>2 DEF Due

LEMMA CapStep ==
  ASSUME IInv, CapInv, [Next]_vars
  PROVE  CapInv'
<1> USE DEF IInv
<1>0. /\ \A i \in DOMAIN log : log[i].day <= today
      /\ \A d \in Nat : SuccessesOn(log, d) < Limit
      /\ SuccessesOn(log, today) + Cardinality(Under) < Limit
      /\ Limit' = Limit
  BY DEF CapInv, Limit
<1>t. /\ today \in Nat /\ DailyCap \in Nat \ {0} /\ Limit \in Nat /\ DailyCap <= Limit
      /\ Cardinality(Under) \in Nat /\ DailyCap + Cardinality(Under) <= Limit
      /\ log \in Seq(LineType) /\ \A d \in Nat : SuccessesOn(log, d) \in Nat
  BY CapTypes
<1>n. today \in Nat /\ log \in Seq(LineType)
  BY <1>t
<1>q. UNCHANGED log => \A d \in Nat : SuccessesOn(log, d)' = SuccessesOn(log, d)
  BY DEF SuccessesOn, IsSuccess
<1>e. PICK n \in Nat : n = today
  BY <1>t
<1>f. UNCHANGED today => SuccessesOn(log, today)' = SuccessesOn(log, n)'
  BY <1>e DEF SuccessesOn, IsSuccess
<1> HIDE DEF Limit
<1>1. CASE Environment \/ UNCHANGED vars
  <2>0. UNCHANGED job
    BY <1>1, EnvironmentStep DEF vars
  <2>u. Cardinality(Under)' = Cardinality(Under)
    BY <2>0 DEF Under, UnderCap
  <2>1. CASE UNCHANGED <<log, today>>
    BY <1>0, <1>q, <1>e, <1>f, <2>1, <2>u DEF CapInv
  <2>2. CASE UNCHANGED log /\ today' = today + 1
    <3>1. SuccessesOn(log, today)' = 0
      <4>1. SuccessesOn(log, today)' = SuccessesOn(log, today + 1)
        BY <2>2 DEF SuccessesOn, IsSuccess
      <4> QED
        BY <1>0, <4>1, NoneTomorrow
    <3>2. \A i \in DOMAIN log' : log'[i].day <= today'
      <4>1. \A i \in DOMAIN log : log[i] \in AttemptLine \cup ResumeLine
        BY DEF TypeOK
      <4>2. \A i \in DOMAIN log : log[i].day \in Nat
        BY <4>1 DEF AttemptLine, ResumeLine
      <4> QED
        BY <1>0, <1>n, <2>2, <4>2
    <3>3. 0 + Cardinality(Under) < Limit
      BY <1>t
    <3> QED
      BY <1>0, <1>q, <2>2, <2>u, <3>1, <3>2, <3>3 DEF CapInv
  <2>3. ASSUME NEW a \in Accounts, log' = Append(log, ResumeEvent(a, today)), UNCHANGED today
        PROVE  CapInv'
    <3>1. ResumeEvent(a, today) \in LineType /\ ResumeEvent(a, today).day = today
      BY <1>t DEF ResumeEvent, ResumeLine, LineType
    <3>2. \A i \in DOMAIN log' : log'[i].day <= today
      BY <1>0, <2>3, <3>1, DayAppend
    <3>3. \A d \in Nat : SuccessesOn(log, d)' = SuccessesOn(log, d)
      BY <2>3, SuccessesResumed
    <3> QED
      BY <1>0, <1>e, <1>f, <2>3, <2>u, <3>2, <3>3 DEF CapInv
  <2>4. \/ UNCHANGED <<log, today>>
        \/ UNCHANGED log /\ today' = today + 1
        \/ UNCHANGED today /\ \E a \in Accounts : log' = Append(log, ResumeEvent(a, today))
    BY <1>1, EnvironmentStep DEF vars, receipts, bounds
  <2> QED
    BY <2>1, <2>2, <2>3, <2>4
<1>2. ASSUME NEW w \in Workers, Start(w) \/ Run(w) \/ Crash(w)
      PROVE  CapInv'
  <2>t. UNCHANGED today
    BY <1>2, StartStep, CrashStep, PickStep, ClaimLostStep, CheckStep, EnqueueStep, ClaimStep,
       SetRequestStep, GatesStep, SubmitStep, DecideStep, SettleStep, RetryWriteStep, RequeueStep
       DEF Run, Files, bounds
  <2>r. PICK R \in Nat :
          /\ R < Cardinality(Workers) /\ Cardinality(Workers) \in Nat
          /\ Cardinality(Under) = IF UnderCap(w) THEN R + 1 ELSE R
          /\ Cardinality(Under') = IF UnderCap(w)' THEN R + 1 ELSE R
    BY <1>2, WorkerMoves, UnderStep
  <2>n. /\ SuccessesOn(log, n) \in Nat /\ SuccessesOn(log, n) + R < Limit
        /\ UnderCap(w) => (SuccessesOn(log, n) + R) + 1 < Limit
        /\ DailyCap + R < Limit
    <3>1. SuccessesOn(log, n) \in Nat /\ SuccessesOn(log, n) + Cardinality(Under) < Limit
      BY <1>0, <1>t, <1>e
    <3>2. DailyCap + R < Limit
      BY <1>t, <2>r DEF Limit
    <3>3. CASE UnderCap(w)
      <4>1. Cardinality(Under) = R + 1
        BY <2>r, <3>3
      <4>2. SuccessesOn(log, n) + (R + 1) < Limit
        BY <3>1, <4>1
      <4>3. /\ (SuccessesOn(log, n) + R) + 1 < Limit
            /\ SuccessesOn(log, n) + R < Limit
        <5>1. Limit \in Nat
          BY <1>t
        <5> QED
          BY <3>1, <4>2, <5>1
      <4> QED
        BY <3>1, <3>2, <4>3
    <3>4. CASE ~UnderCap(w)
      <4>1. Cardinality(Under) = R
        BY <2>r, <3>4
      <4> QED
        BY <1>t, <3>1, <3>2, <3>4, <4>1
    <3> QED
      BY <3>3, <3>4
  <2>1. CASE UNCHANGED log
    <3>1. UnderCap(w)' => UnderCap(w) \/ SuccessesOn(log, n) < DailyCap
      BY <1>2, <1>e, <1>t, DueStep DEF UnderCap, CapReached
    <3>2. SuccessesOn(log, n) + Cardinality(Under') < Limit
      <4>1. CASE UnderCap(w)'
        <5>1. Cardinality(Under') = R + 1
          BY <2>r, <4>1
        <5>2. (SuccessesOn(log, n) + R) + 1 < Limit
          BY <1>t, <2>n, <3>1, <4>1
        <5> QED
          BY <2>n, <5>1, <5>2
      <4>2. CASE ~UnderCap(w)'
        BY <2>r, <2>n, <4>2
      <4> QED
        BY <4>1, <4>2
    <3> QED
      BY <1>0, <1>q, <1>e, <1>f, <2>t, <2>r, <2>1, <3>2 DEF CapInv
  <2>2. CASE Settle(w) \/ RetryWrite(w)
    <3>1. Writes(w) /\ job[w].pc \in Due /\ job'[w].pc \notin Due
      BY <2>2, SettleStep, RetryWriteStep DEF Due, Past, Rests, Resting
    <3>2. RecordOf(w) \in LineType /\ RecordOf(w).day = today
      BY RecordIsLine DEF LineType
    <3>3. \A i \in DOMAIN log' : log'[i].day <= today
      BY <1>0, <3>1, <3>2, DayAppend DEF Writes
    <3>4. ~UnderCap(w)' /\ (IsSuccess(RecordOf(w)) => UnderCap(w))
      BY <3>1, RecordIsLine DEF UnderCap
    <3>5. \A j \in Nat :
            SuccessesOn(log, j)' = IF IsSuccess(RecordOf(w)) /\ j = today
                                     THEN SuccessesOn(log, j) + 1 ELSE SuccessesOn(log, j)
      BY <3>1, SuccessesWritten
    <3>6. /\ SuccessesOn(log, n)' + R < Limit
          /\ SuccessesOn(log, n)' < Limit
      <4>1. CASE IsSuccess(RecordOf(w))
        <5>1. SuccessesOn(log, n)' = SuccessesOn(log, n) + 1
          BY <1>e, <3>5, <4>1
        <5>2. /\ SuccessesOn(log, n) \in Nat /\ (SuccessesOn(log, n) + R) + 1 < Limit
              /\ Limit \in Nat
          BY <1>t, <2>n, <3>4, <4>1
        <5> QED
          BY <5>1, <5>2
      <4>2. CASE ~IsSuccess(RecordOf(w))
        <5>1. SuccessesOn(log, n)' = SuccessesOn(log, n)
          BY <1>e, <3>5, <4>2
        <5> QED
          BY <1>t, <2>n, <5>1
      <4> QED
        BY <4>1, <4>2
    <3>7. \A j \in Nat : SuccessesOn(log, j)' < Limit
      <4>1. \A j \in Nat : j # n => SuccessesOn(log, j)' = SuccessesOn(log, j)
        BY <1>e, <3>5
      <4> QED
        BY <1>0, <3>6, <4>1
    <3>8. Cardinality(Under') = R
      BY <2>r, <3>4
    <3> QED
      BY <1>0, <1>e, <1>f, <2>t, <3>3, <3>6, <3>7, <3>8 DEF CapInv
  <2> QED
    <3>1. UNCHANGED log \/ Settle(w) \/ RetryWrite(w)
      BY <1>2, StartStep, CrashStep, PickStep, ClaimLostStep, CheckStep, EnqueueStep, ClaimStep,
         SetRequestStep, GatesStep, SubmitStep, DecideStep, RequeueStep
         DEF Run, Files
    <3> QED
      BY <2>1, <2>2, <3>1
<1> QED
  BY <1>1, <1>2 DEF Next

LEMMA CapInit == Init => CapInv
<1> SUFFICES ASSUME Init PROVE CapInv
  OBVIOUS
<1>1. \A d \in Nat : SuccessesOn(log, d) = 0
  BY FS_EmptySet DEF Init, SuccessesOn
<1>2. Under = {}
  BY DEF Init, IdleJob, Under, UnderCap, Due, Past
<1>3. Limit \in Nat \ {0} /\ Cardinality(Under) = 0
  BY <1>2, FS_EmptySet, FS_CardinalityType, PublishingConstants DEF Limit
<1> QED
  BY <1>1, <1>3 DEF Init, CapInv

LEMMA CapAlways == Spec => []CapInv
<1>1. IInv /\ CapInv /\ [Next]_vars => CapInv'
  BY CapStep
<1> QED
  BY <1>1, CapInit, Invariance, PTL DEF Spec

\* However commands overlap and die, each of them but one adds at most one success to a
\* day that has reached the cap (orchestrator.py:232-242).
THEOREM OverrunIsBounded == Spec => []OverrunBounded
<1>1. CapInv => OverrunBounded
  BY PublishingConstants DEF CapInv, OverrunBounded, Limit
<1> QED
  BY <1>1, CapAlways, PTL

\* When commands do not overlap, no day gets more successes on record than the cap.
THEOREM OneProcessKeepsCap == ASSUME OneProcess PROVE Spec => []CapHolds
<1>1. Cardinality(Workers) \in {0, 1}
  <2>1. CASE Workers = {}
    BY <2>1, FS_EmptySet
  <2>2. ASSUME NEW w \in Workers PROVE Cardinality(Workers) = 1
    <3>1. Workers = {w}
      BY DEF OneProcess
    <3> QED
      BY <3>1, FS_Singleton
  <2> QED
    BY <2>1, <2>2
<1>2. TypeOK /\ CapInv => CapHolds
  <2> SUFFICES ASSUME TypeOK, CapInv, NEW d \in 0..MaxDay
               PROVE  SuccessesOn(log, d) <= DailyCap
    BY DEF CapHolds
  <2>1. d \in Nat
    BY PublishingConstants
  <2>2. SuccessesOn(log, d) \in Nat /\ SuccessesOn(log, d) < Limit
    BY <2>1, CapTypes DEF CapInv
  <2> QED
    BY <1>1, <2>2, PublishingConstants DEF Limit
<1> QED
  BY <1>2, CapAlways, TypeCorrect, PTL

-----------------------------------------------------------------------------
\* The retry budget.

\* A live submit is not skipped: the adapters return that for a dry run only
\* (api_adapters.py:470-476, 739-745, 1172-1178; browser_adapters.py:686-740).
LiveAnswers == \A a \in Answers : a.status # "skipped"

\* What an attempt that is to be recorded has as its outcome.
AnswerInv == \A w \in Workers :
  job[w].pc \in {"decide", "settle"} /\ ~job[w].dry => job[w].answer.status # "skipped"

LEMMA NormalisedStatus ==
  ASSUME NEW a, a.status # "skipped" PROVE Normalised(a).status # "skipped"
BY DEF Normalised

\* The answer a process has, and where from.
LEMMA AnswerStep ==
  ASSUME TypeOK, NEW w \in Workers, Start(w) \/ Run(w) \/ Crash(w),
         job'[w].pc \in {"decide", "settle"}
  PROVE  /\ job'[w].key = job[w].key /\ job'[w].dry = job[w].dry
         /\ \/ /\ job[w].pc = "submit" /\ job'[w].pc = "decide"
               /\ \E a \in Answers : Submit(w, a) /\ job'[w].answer = Normalised(a)
            \/ /\ job[w].pc = "decide" /\ job'[w].pc = "settle"
               /\ job'[w].answer = job[w].answer
            \/ /\ job[w].pc = "gates" /\ job'[w].pc = "settle"
               /\ job[w].dry \/ job'[w].answer.status = "blocked"
<1> USE DEF Keeps
<1>r. ~Rests(w)
  BY DEF Rests, Resting
<1>1. CASE \/ Start(w) \/ Crash(w) \/ Scan(w) \/ PickDone(w) \/ ClaimLost(w)
           \/ (\E k \in Keys : PickNext(w, k) \/ PickCampaign(w, k))
           \/ Settle(w) \/ Requeue(w)
  BY <1>1, <1>r, StartStep, CrashStep, PickStep, ClaimLostStep, SettleStep, RequeueStep
<1>2. CASE \/ CheckSuccess(w) \/ CheckPause(w) \/ CheckCap(w) \/ CheckLatest(w)
           \/ Enqueue(w) \/ Claim(w) \/ SetRequest(w) \/ RetryWrite(w)
  BY <1>2, <1>r, CheckStep, EnqueueStep, ClaimStep, SetRequestStep, RetryWriteStep
<1>3. CASE GatesPass(w) \/ \E c \in GateFaults : GateFails(w, c)
  BY <1>3, GatesStep
<1>4. ASSUME NEW a \in Answers, Submit(w, a)
      PROVE  /\ Keeps(w) /\ job[w].pc = "submit" /\ job'[w].pc = "decide"
             /\ job'[w].answer = Normalised(a)
  BY <1>4, SubmitStep
<1>5. CASE Decide(w)
  BY <1>5, DecideStep
<1> QED
  BY <1>1, <1>2, <1>3, <1>4, <1>5 DEF Run

LEMMA AnswerInvStep ==
  ASSUME LiveAnswers, TypeOK, AnswerInv, [Next]_vars
  PROVE  AnswerInv'
<1> SUFFICES ASSUME NEW w \in Workers, job'[w].pc \in {"decide", "settle"}, ~job'[w].dry
             PROVE  job'[w].answer.status # "skipped"
  BY DEF AnswerInv
<1>1. CASE job'[w] = job[w]
  BY <1>1 DEF AnswerInv
<1>2. CASE Start(w) \/ Run(w) \/ Crash(w)
  <2>1. \A a \in Answers : Normalised(a).status # "skipped"
    BY NormalisedStatus DEF LiveAnswers
  <2> QED
    BY <1>2, <2>1, AnswerStep DEF AnswerInv
<1>3. ASSUME NEW v \in Workers, v # w, Start(v) \/ Run(v) \/ Crash(v)
      PROVE  job'[w] = job[w]
  <2>1. Moves(v)
    BY <1>3, StartStep, CrashStep, PickStep, ClaimLostStep, CheckStep, EnqueueStep, ClaimStep,
       SetRequestStep, GatesStep, SubmitStep, DecideStep, SettleStep, RetryWriteStep, RequeueStep
       DEF Run, Rests
  <2> QED
    BY <1>3, <2>1 DEF Moves
<1> QED
  BY <1>1, <1>2, <1>3, EnvironmentStep DEF Next, vars

Budget  == RetryBudget(RetryLimit)
Made(k) == AttemptCount(log, k)

LEMMA BudgetType == Budget \in {0, 1} /\ (RetryLimit = 0 <=> Budget = 0)
BY PublishingConstants DEF Budget, RetryBudget

Outcome(k) == latest[k] # None /\ (latest[k].status \in Failing \/ IsSuccess(latest[k]))

\* Submits of a key against its records, in the files and where its process stands.
OnRecord(k) == /\ seen[k].submits <= Budget + 1
               /\ claims[k] = None => seen[k].submits <= Made(k)
               /\ Made(k) > Budget => Outcome(k)
OnTheWay(w) ==
  LET k == job[w].key
  IN /\ job[w].pc \in Past => Made(k) <= Budget
     /\ job[w].pc \in {"set_request", "gates", "submit", "requeue"}
          => seen[k].submits <= Made(k)
     /\ job[w].pc \in {"decide", "settle", "retry_write"}
          => seen[k].submits <= Made(k) + (IF job[w].dry THEN 0 ELSE 1)

RetryInv == (\A k \in Keys : OnRecord(k)) /\ (\A w \in Workers : OnTheWay(w))

\* An item is let through only while its records are within the budget.
LEMMA AdmittedWithinBudget ==
  ASSUME TypeOK, NEW k \in Keys, OnRecord(k), ~LatestSuccess(k), ~RetriesSpent(k)
  PROVE  Made(k) <= Budget
<1>1. Made(k) \in Nat /\ Budget \in Nat
  BY CountsTypes, BudgetType DEF Made
<1>2. CASE Made(k) > Budget
  <2>1. latest[k] # None /\ latest[k].status \in Failing
    BY <1>2 DEF OnRecord, Outcome, LatestSuccess
  <2>2. RetryDecision(latest[k].category, Made(k), RetryLimit)
    BY <2>1 DEF RetriesSpent, Failing, Made
  <2>3. Made(k) <= Budget
    BY <2>2 DEF RetryDecision, Budget
  <2> QED
    BY <2>3
<1> QED
  BY <1>1, <1>2

LEMMA BudgetPast ==
  ASSUME IInv, FreshInv, RetryInv, NEW w \in Workers, Start(w) \/ Run(w) \/ Crash(w),
         job'[w].pc \in Past
  PROVE  Made(job[w].key) <= Budget /\ Made(job[w].key)' = Made(job[w].key)
<1>1. job[w].key \in Keys
  BY DEF IInv, TypeOK, Job
<1>2. /\ job'[w].key = job[w].key /\ UNCHANGED log
      /\ \/ job[w].pc \in Past
         \/ job[w].pc = "check_latest" /\ ~RetriesSpent(job[w].key)
  BY PastStep DEF IInv
<1>3. Made(job[w].key)' = Made(job[w].key)
  BY <1>2 DEF Made, AttemptCount
<1>4. job[w].pc = "check_latest" => ~LatestSuccess(job[w].key)
  BY DEF FreshInv, Checking
<1> QED
  BY <1>1, <1>2, <1>3, <1>4, AdmittedWithinBudget DEF IInv, RetryInv, OnTheWay

\* The record of an attempt is an outcome of its key when it is live.
LEMMA OutcomeWritten ==
  ASSUME IInv, AnswerInv, NEW w \in Workers, Writes(w), ~job[w].dry,
         job[w].pc \in {"settle", "retry_write"}, NEW k \in Keys, k = job[w].key
  PROVE  Outcome(k)'
<1> DEFINE r == RecordOf(w)
<1>1. /\ r \in AttemptLine /\ r.status = job[w].answer.status
      /\ IsSuccess(r) <=> Verified(job[w].answer)
  BY RecordIsLine DEF IInv
<1>2. job[w].answer.status \in Statuses
  BY DEF IInv, TypeOK, Job, Answer
<1>3. r.status \in Failing \/ IsSuccess(r)
  <2>1. CASE job[w].pc = "retry_write"
    BY <1>1, <2>1 DEF IInv, Locals, Local, Failing
  <2>2. CASE job[w].pc = "settle"
    BY <1>1, <1>2, <2>2 DEF IInv, Locals, Local, Failing, AnswerInv, Statuses
  <2> QED
    BY <2>1, <2>2
<1>4. r # None
  BY <1>1, NoneIsNoFile
<1> HIDE DEF r
<1>5. latest' = [latest EXCEPT ![k] = r] \/ (LatestSuccess(k) /\ UNCHANGED latest)
  BY DEF Writes, r
<1>6. CASE latest' = [latest EXCEPT ![k] = r]
  <2>1. latest'[k] = r
    BY <1>6 DEF IInv, TypeOK
  <2> QED
    BY <1>3, <1>4, <2>1 DEF Outcome, IsSuccess
<1>7. CASE LatestSuccess(k) /\ UNCHANGED latest
  BY <1>7 DEF Outcome, LatestSuccess, IsSuccess
<1> QED
  BY <1>5, <1>6, <1>7

\* A key nothing is submitted or recorded for, and whose claim is not given up.
Still(j) == /\ seen'[j].submits = seen[j].submits /\ Made(j)' = Made(j)
            /\ claims'[j] = None => claims[j] = None
            /\ Outcome(j) => Outcome(j)'

LEMMA StillOnRecord ==
  ASSUME NEW j \in Keys, OnRecord(j), Still(j) PROVE OnRecord(j)'
BY BudgetType DEF OnRecord, Still

LEMMA UnchangedStill ==
  ASSUME UNCHANGED <<log, latest, seen>>, NEW j \in Keys, claims'[j] = None => claims[j] = None
  PROVE  Still(j)
BY DEF Still, Made, AttemptCount, Outcome, IsSuccess

\* The other keys are still while one item is recorded.
LEMMA WrittenStill ==
  ASSUME TypeOK, NEW w \in Workers, Writes(w), UNCHANGED seen, NEW j \in Keys,
         j # job[w].key, claims'[j] = claims[j]
  PROVE  Still(j)
<1>1. Made(j)' = Made(j)
  BY AttemptsWritten DEF Made
<1>2. latest'[j] = latest[j]
  BY DEF Writes, TypeOK
<1> QED
  BY <1>1, <1>2 DEF Still, Outcome, IsSuccess

LEMMA RetryStep ==
  ASSUME OneProcess, Recovers = FALSE, IInv, OwnInv, FreshInv, AnswerInv, RetryInv,
         NEW w \in Workers, Start(w) \/ Run(w) \/ Crash(w)
  PROVE  RetryInv'
<1> USE DEF IInv
<1>k. PICK k \in Keys : k = job[w].key
  BY DEF TypeOK, Job
<1>0. /\ Made(k) \in Nat /\ seen[k].submits \in Nat /\ Budget \in Nat /\ OnRecord(k)
      /\ OnTheWay(w)
  BY CountsTypes, BudgetType DEF Made, RetryInv
<1>b. job'[w].pc \in Past => Made(k) <= Budget /\ Made(k)' = Made(k)
  <2>1. job'[w].pc \in Past => Made(job[w].key) <= Budget /\ UNCHANGED log
    BY BudgetPast, PastStep
  <2> QED
    BY <1>k, <2>1 DEF Made, AttemptCount
<1>t. ASSUME \A j \in Keys : OnRecord(j)', OnTheWay(w)' PROVE RetryInv'
  BY <1>t DEF RetryInv, OneProcess
\* Where the process is after the step, when it stays with its item.
<1>w. ASSUME job'[w].key = k,
             job'[w].pc \in Past => Made(k)' <= Budget,
             job'[w].pc \in {"set_request", "gates", "submit", "requeue"}
               => seen'[k].submits <= Made(k)',
             job'[w].pc \in {"decide", "settle", "retry_write"}
               => seen'[k].submits <= Made(k)' + (IF job'[w].dry THEN 0 ELSE 1)
      PROVE  OnTheWay(w)'
  <2>1. PICK j \in Keys : j = job'[w].key /\ j = k
    BY <1>w
  <2>2. Made(job[w].key)' = Made(k)'
    BY <1>w DEF Made, AttemptCount
  <2> QED
    BY <1>w, <2>1, <2>2 DEF OnTheWay
<1>1. CASE Rests(w) /\ UNCHANGED <<log, latest, seen, claims>>
  BY <1>1, <1>t, StillOnRecord, UnchangedStill
     DEF RetryInv, OnTheWay, Rests, Resting, Past
<1>2. CASE /\ Moves(w) /\ Keeps(w) /\ UNCHANGED <<log, latest, seen, claims>>
           /\ \/ job'[w].pc \in Checking \cup {"enqueue", "claim"}
              \/ job[w].pc = "gates" /\ job'[w].pc \in {"submit", "settle"}
              \/ job[w].pc = "decide" /\ job'[w].pc \in {"settle", "retry_write"}
  <2>1. Made(k)' = Made(k) /\ job'[w].key = k /\ job'[w].dry = job[w].dry
    BY <1>k, <1>2 DEF Keeps, Made, AttemptCount
  <2>2. job[w].pc = "gates" => seen[k].submits <= Made(k)
    BY <1>k, <1>0 DEF OnTheWay
  <2>3. job[w].pc = "decide" => seen[k].submits <= Made(k) + (IF job[w].dry THEN 0 ELSE 1)
    BY <1>k, <1>0 DEF OnTheWay
  <2>4. job'[w].pc \in Checking \cup {"enqueue", "claim"} =>
          job'[w].pc \notin {"set_request", "gates", "submit", "requeue", "decide", "settle",
                             "retry_write"}
    BY DEF Checking
  <2>5. OnTheWay(w)'
    BY <1>0, <1>2, <1>b, <1>w, <2>1, <2>2, <2>3, <2>4
  <2> QED
    BY <1>2, <1>t, <2>5, StillOnRecord, UnchangedStill DEF RetryInv
<1>3. CASE Claim(w) /\ ~Rests(w)
  <2>1. /\ Moves(w) /\ job'[w].key = k /\ job'[w].pc = "set_request"
        /\ claims[k] = None /\ UNCHANGED <<log, latest, seen>>
        /\ \E c : claims' = [claims EXCEPT ![k] = c]
    BY <1>k, <1>3, ClaimStep
  <2>2. \A j \in Keys : claims'[j] = None => claims[j] = None
    BY <2>1 DEF TypeOK
  <2>3. seen'[k].submits <= Made(k)'
    BY <1>0, <2>1 DEF OnRecord, Made, AttemptCount
  <2>4. OnTheWay(w)'
    BY <1>b, <1>w, <2>1, <2>3
  <2> QED
    BY <1>t, <2>1, <2>2, <2>4, StillOnRecord, UnchangedStill DEF RetryInv
<1>4. CASE SetRequest(w)
  <2>1. /\ job[w].pc = "set_request" /\ Keeps(w) /\ job'[w].pc = "gates"
        /\ UNCHANGED <<log, latest, seen>>
        /\ UNCHANGED claims \/ claims[k] # None
        /\ \E c : claims' = [claims EXCEPT ![k] = c] \/ UNCHANGED claims
    BY <1>k, <1>4, SetRequestStep, NoneIsNoFile
  <2>2. \A j \in Keys : claims'[j] = None => claims[j] = None
    <3>1. claims'[k] = None => claims[k] = None
      <4>1. Owns(w)
        BY <2>1 DEF OwnInv, Busy, Working
      <4>2. Owns(w)'
        <5>1. OwnInv'
          BY OwnStep DEF Next
        <5> QED
          BY <2>1, <5>1 DEF OwnInv, Busy, Working
      <4>3. claims'[job'[w].key] # None
        BY <4>2 DEF Owns
      <4> QED
        BY <1>k, <2>1, <4>3 DEF Keeps
    <3> QED
      BY <2>1, <3>1 DEF TypeOK
  <2>3. seen'[k].submits <= Made(k)' /\ job'[w].key = k
    BY <1>k, <1>0, <2>1 DEF OnTheWay, Made, AttemptCount, Keeps
  <2>4. OnTheWay(w)'
    BY <1>b, <1>w, <2>1, <2>3
  <2> QED
    BY <1>t, <2>1, <2>2, <2>4, StillOnRecord, UnchangedStill DEF RetryInv
<1>5. ASSUME NEW a \in Answers, Submit(w, a) PROVE RetryInv'
  <2>1. /\ job[w].pc = "submit" /\ Keeps(w) /\ job'[w].pc = "decide"
        /\ UNCHANGED <<log, latest, claims>>
    BY <1>5, SubmitStep
  <2>2. /\ job'[w].key = k /\ ~job'[w].dry /\ Made(k)' = Made(k)
        /\ seen'[k].submits = seen[k].submits + 1
        /\ \A j \in Keys : j # k => seen'[j] = seen[j]
    <3>1. ~job[w].dry
      BY <2>1 DEF Locals, Local
    <3>2. seen'[k].submits = seen[k].submits + 1
      BY <1>k, <1>5, SubmitSeen
    <3>3. \A j \in Keys : j # k => seen'[j] = seen[j]
      BY <1>k, <1>5, SubmitSeen
    <3> QED
      BY <1>k, <2>1, <3>1, <3>2, <3>3 DEF Keeps, Made, AttemptCount
  <2>3. seen[k].submits <= Made(k) /\ Made(k) <= Budget
    BY <1>k, <1>0, <2>1 DEF OnTheWay, Past
  <2>4. claims[k] # None
    BY <1>k, <2>1 DEF OwnInv, Busy, Working, Owns
  <2>5. Outcome(k) => Outcome(k)'
    BY <2>1 DEF Outcome, IsSuccess
  <2>6. OnRecord(k)'
    BY <1>0, <2>1, <2>2, <2>3, <2>4, <2>5 DEF OnRecord
  <2>7. \A j \in Keys : j # k => Still(j)
    BY <2>1, <2>2 DEF Still, Made, AttemptCount, Outcome, IsSuccess
  <2>8. OnTheWay(w)'
    BY <1>0, <1>b, <1>w, <2>1, <2>2, <2>3
  <2> QED
    BY <1>t, <2>6, <2>7, <2>8, StillOnRecord DEF RetryInv
<1>6. CASE Settle(w) \/ RetryWrite(w)
  <2>1. /\ Writes(w) /\ UNCHANGED seen /\ job[w].pc \in {"settle", "retry_write"}
        /\ \A j \in Keys : j # k => claims'[j] = claims[j]
    <3>1. CASE Settle(w)
      <4>1. /\ Writes(w) /\ UNCHANGED seen /\ job[w].pc = "settle"
            /\ claims' = [claims EXCEPT ![k] = None]
        BY <1>k, <3>1, SettleStep
      <4> QED
        BY <4>1 DEF TypeOK
    <3>2. CASE RetryWrite(w)
      BY <3>2, RetryWriteStep
    <3> QED
      BY <1>6, <3>1, <3>2
  <2>2. /\ Made(k) <= Budget
        /\ seen[k].submits <= Made(k) + (IF job[w].dry THEN 0 ELSE 1)
    BY <1>k, <1>0, <2>1 DEF OnTheWay, Past
  <2>3. Made(k)' = IF job[w].dry THEN Made(k) ELSE Made(k) + 1
    BY <1>k, <2>1, AttemptsWritten DEF Made
  <2>4. seen'[k].submits <= Made(k)'
    BY <1>0, <2>1, <2>2, <2>3
  <2>5. ~job[w].dry => Outcome(k)'
    BY <1>k, <2>1, OutcomeWritten
  <2>6. OnRecord(k)'
    BY <1>0, <2>1, <2>2, <2>3, <2>4, <2>5 DEF OnRecord
  <2>7. \A j \in Keys : j # k => Still(j)
    BY <1>k, <2>1, WrittenStill
  <2>8. OnTheWay(w)'
    <3>1. CASE RetryWrite(w)
      <4>1. job'[w].key = k /\ job'[w].pc = "requeue"
        BY <1>k, <3>1, RetryWriteStep DEF Keeps
      <4> QED
        BY <1>b, <1>w, <2>4, <4>1 DEF Past
    <3>2. CASE Settle(w)
      BY <3>2, SettleStep DEF Rests, Resting, OnTheWay, Past
    <3> QED
      BY <1>6, <3>1, <3>2
  <2> QED
    BY <1>t, <2>6, <2>7, <2>8, StillOnRecord DEF RetryInv
<1>7. CASE Requeue(w)
  <2>1. /\ job[w].pc = "requeue" /\ Rests(w) /\ UNCHANGED <<log, latest, seen>>
        /\ claims' = [claims EXCEPT ![k] = None]
    BY <1>k, <1>7, RequeueStep DEF Returns
  <2>2. \A j \in Keys : j # k => claims'[j] = claims[j]
    BY <2>1 DEF TypeOK
  <2>3. seen[k].submits <= Made(k)
    BY <1>k, <1>0, <2>1 DEF OnTheWay
  <2>4. Made(k)' = Made(k) /\ (Outcome(k) => Outcome(k)')
    BY <2>1 DEF Made, AttemptCount, Outcome, IsSuccess
  <2>5. OnRecord(k)'
    BY <1>0, <2>1, <2>3, <2>4 DEF OnRecord
  <2>6. OnTheWay(w)'
    BY <2>1 DEF Rests, Resting, OnTheWay, Past
  <2> QED
    BY <1>t, <2>1, <2>2, <2>5, <2>6, StillOnRecord, UnchangedStill DEF RetryInv
<1> QED
  <2>1. CASE \/ Start(w) \/ Crash(w) \/ Scan(w) \/ PickDone(w) \/ ClaimLost(w)
             \/ (\E j \in Keys : PickNext(w, j) \/ PickCampaign(w, j))
    BY <1>1, <2>1, StartStep, CrashStep, PickStep, ClaimLostStep DEF Files
  <2>2. CASE CheckSuccess(w) \/ CheckPause(w) \/ CheckCap(w) \/ CheckLatest(w)
    <3>1. /\ UNCHANGED <<log, latest, seen, claims>>
          /\ \/ Rests(w)
             \/ Moves(w) /\ Keeps(w) /\ job'[w].pc \in Checking \cup {"enqueue", "claim"}
      BY <2>2, CheckStep DEF Files, Checking
    <3> QED
      BY <1>1, <1>2, <3>1
  <2>3. CASE Enqueue(w)
    BY <1>1, <1>2, <2>3, EnqueueStep
  <2>4. CASE GatesPass(w) \/ \E c \in GateFaults : GateFails(w, c)
    BY <1>2, <2>4, GatesStep DEF Files
  <2>5. CASE Decide(w)
    BY <1>2, <2>5, DecideStep DEF Files
  <2>6. CASE Claim(w) /\ Rests(w)
    BY <1>1, <2>6, ClaimStep DEF Rests, Resting
  <2> QED
    BY <1>3, <1>4, <1>5, <1>6, <1>7, <2>1, <2>2, <2>3, <2>4, <2>5, <2>6 DEF Run

LEMMA RetryCalm ==
  ASSUME IInv, Recovers = FALSE, RetryInv, Environment \/ UNCHANGED vars
  PROVE  RetryInv'
<1> USE DEF IInv
<1>1. /\ UNCHANGED <<job, latest, seen, claims>>
      /\ UNCHANGED log \/ \E a \in Accounts : log' = Append(log, ResumeEvent(a, today))
  BY EnvironmentStep DEF vars, queue, receipts
<1>2. \A k \in Keys : Made(k)' = Made(k)
  BY <1>1, AttemptsResumed DEF Made, AttemptCount
<1>3. \A k \in Keys : OnRecord(k)'
  BY <1>1, <1>2, StillOnRecord DEF Still, Outcome, IsSuccess, RetryInv
<1>4. ASSUME NEW w \in Workers PROVE OnTheWay(w)'
  <2>1. PICK k \in Keys : k = job[w].key
    BY DEF TypeOK, Job
  <2>2. Made(job[w].key)' = Made(k)
    <3>1. Made(job[w].key)' = Made(k)'
      BY <1>1, <2>1 DEF Made, AttemptCount
    <3> QED
      BY <1>2, <3>1
  <2>3. OnTheWay(w)
    BY DEF RetryInv
  <2> QED
    BY <1>1, <2>1, <2>2, <2>3 DEF OnTheWay
<1> QED
  BY <1>3, <1>4 DEF RetryInv

LEMMA RetryInit == Init => RetryInv /\ AnswerInv
<1> SUFFICES ASSUME Init PROVE RetryInv /\ AnswerInv
  OBVIOUS
<1>1. \A k \in Keys : Made(k) = 0 /\ seen[k].submits = 0
  BY FS_EmptySet DEF Init, Made, AttemptCount
<1>2. \A w \in Workers : job[w].pc = "idle"
  BY DEF Init, IdleJob
<1>3. \A k \in Keys : OnRecord(k)
  BY <1>1, BudgetType DEF OnRecord
<1> QED
  BY <1>2, <1>3 DEF RetryInv, OnTheWay, AnswerInv, Past

\* When commands do not overlap and nobody recovers claims, a key is submitted at most
\* once and then retried at most once, over all commands, crashes, resumes and requeues
\* (store.py:33-44, orchestrator.py:295-305, 583-585).
THEOREM OneProcessRetriesOnce ==
  ASSUME OneProcess, Recovers = FALSE, LiveAnswers PROVE Spec => []RetryBound
<1>1. RetryInv => RetryBound
  <2> SUFFICES ASSUME RetryInv, NEW k \in Keys
               PROVE  seen[k].submits <= IF RetryLimit = 0 THEN 1 ELSE 2
    BY DEF RetryBound
  <2> QED
    BY BudgetType DEF RetryInv, OnRecord
<1>2. IInv /\ OwnInv /\ [Next]_vars => OwnInv'
  BY OwnStep DEF IInv
<1>3. IInv /\ FreshInv /\ [Next]_vars => FreshInv'
  BY FreshStep DEF IInv
<1>4. IInv /\ AnswerInv /\ [Next]_vars => AnswerInv'
  BY AnswerInvStep DEF IInv
<1>5. IInv /\ OwnInv /\ FreshInv /\ AnswerInv /\ RetryInv /\ [Next]_vars => RetryInv'
  BY RetryStep, RetryCalm DEF Next
<1> QED
  BY <1>1, <1>2, <1>3, <1>4, <1>5, OwnInit, FreshInit, RetryInit, Invariance, PTL DEF Spec

-----------------------------------------------------------------------------
\* Ambiguous submits.

\* The ambiguous answer is on its way to the receipts, or its process died with the claim.
Stuck(k) ==
  /\ Granted(k)
  /\ \A w \in Workers : Busy(w) /\ job[w].key = k =>
       /\ job[w].pc \in {"decide", "settle"} /\ ~job[w].dry
       /\ job[w].answer.category = "ambiguous_submit"

AmbiguousInv == \A k \in Keys : seen[k].ambiguous => Shut(k) \/ Stuck(k)

\* Nothing is recorded for a key that is shut.
LEMMA ShutStays ==
  ASSUME IInv, FreshInv, [Next]_vars, NEW k \in Keys, Shut(k)
  PROVE  Shut(k)'
<1>1. CASE latest'[k] = latest[k]
  BY <1>1 DEF Shut, IsSuccess
<1>2. ASSUME NEW w \in Workers, Settle(w) \/ RetryWrite(w), Writes(w)
      PROVE  latest'[k] = latest[k]
  <2>1. job[w].pc \in Past
    BY <1>2, SettleStep, RetryWriteStep DEF IInv, Past
  <2>2. job[w].key # k
    BY <2>1 DEF FreshInv
  <2> QED
    BY <1>2, <2>2 DEF Writes, IInv, TypeOK
<1> QED
  BY <1>1, <1>2, LogStep DEF IInv

\* The record of an ambiguous answer shuts its key.
LEMMA AmbiguousWritten ==
  ASSUME IInv, AnswerInv, NEW w \in Workers, Writes(w), job[w].pc = "settle",
         ~job[w].dry, job[w].answer.category = "ambiguous_submit",
         NEW k \in Keys, k = job[w].key
  PROVE  Shut(k)'
<1> DEFINE r == RecordOf(w)
<1>1. /\ r \in AttemptLine /\ r.status = job[w].answer.status
      /\ r.category = "ambiguous_submit"
      /\ IsSuccess(r) <=> Verified(job[w].answer)
  BY RecordIsLine DEF IInv
<1>2. job[w].answer.status \in Statuses
  BY DEF IInv, TypeOK, Job, Answer
<1>3. r.status \in Failing \/ IsSuccess(r)
  BY <1>1, <1>2 DEF IInv, Locals, Local, Failing, AnswerInv, Statuses
<1>4. r # None /\ r.category \notin TransientCategories
  BY <1>1, NoneIsNoFile DEF TransientCategories
<1> HIDE DEF r
<1>5. latest' = [latest EXCEPT ![k] = r] \/ (LatestSuccess(k) /\ UNCHANGED latest)
  BY DEF Writes, r
<1>6. CASE latest' = [latest EXCEPT ![k] = r]
  <2>1. latest'[k] = r
    BY <1>6 DEF IInv, TypeOK
  <2> QED
    BY <1>3, <1>4, <2>1 DEF Shut, IsSuccess
<1>7. CASE LatestSuccess(k) /\ UNCHANGED latest
  BY <1>7 DEF Shut, LatestSuccess, IsSuccess
<1> QED
  BY <1>5, <1>6, <1>7

LEMMA StuckStep ==
  ASSUME Recovers = FALSE, IInv, OwnInv, AnswerInv, [Next]_vars, NEW k \in Keys, Stuck(k)
  PROVE  Shut(k)' \/ Stuck(k)'
<1> USE DEF Busy, Working, IInv
<1>1. CASE Environment \/ UNCHANGED vars
  <2>1. UNCHANGED <<job, claims>>
    BY <1>1, EnvironmentStep DEF vars, queue
  <2> QED
    BY <2>1 DEF Stuck, Granted
<1>2. ASSUME NEW w \in Workers, Start(w) \/ Run(w) \/ Crash(w)
      PROVE  Shut(k)' \/ Stuck(k)'
  <2>0. job[w].key \in Keys
    BY DEF TypeOK, Job
  <2>1. ASSUME Moves(w), Granted(k)',
               Busy(w)' /\ job'[w].key = k =>
                 /\ job'[w].pc \in {"decide", "settle"} /\ ~job'[w].dry
                 /\ job'[w].answer.category = "ambiguous_submit"
        PROVE  Stuck(k)'
    BY <2>1 DEF Stuck, Moves
  <2>r. Rests(w) /\ Granted(k)' => Stuck(k)'
    BY <2>1 DEF Rests, Resting
  <2>2. CASE Claim(w)
    <3>1. \/ Rests(w) /\ UNCHANGED claims
          \/ /\ Moves(w) /\ job'[w].key = job[w].key /\ claims[job[w].key] = None
             /\ \E c : claims' = [claims EXCEPT ![job[w].key] = c]
      BY <2>2, ClaimStep
    <3>2. CASE Rests(w) /\ UNCHANGED claims
      BY <2>r, <3>2 DEF Stuck, Granted
    <3>3. CASE /\ Moves(w) /\ job'[w].key = job[w].key /\ claims[job[w].key] = None
               /\ \E c : claims' = [claims EXCEPT ![job[w].key] = c]
      <4>1. job[w].key # k
        BY <3>3 DEF Stuck, Granted
      <4>2. Granted(k)'
        BY <2>0, <3>3, <4>1 DEF Stuck, Granted, TypeOK
      <4> QED
        BY <2>1, <3>3, <4>1, <4>2
    <3> QED
      BY <3>1, <3>2, <3>3
  <2>3. CASE SetRequest(w)
    <3>1. /\ job[w].pc = "set_request" /\ Moves(w) /\ Keeps(w)
          /\ \/ UNCHANGED claims
             \/ \E c : claims' = [claims EXCEPT ![job[w].key] = c]
      BY <2>3, SetRequestStep
    <3>2. job[w].key # k
      BY <3>1 DEF Stuck
    <3>3. Granted(k)'
      BY <2>0, <3>1, <3>2 DEF Stuck, Granted, TypeOK
    <3> QED
      BY <2>1, <3>1, <3>2, <3>3 DEF Keeps
  <2>4. CASE Settle(w)
    <3>1. /\ job[w].pc = "settle" /\ Rests(w) /\ Writes(w)
          /\ claims' = [claims EXCEPT ![job[w].key] = None]
      BY <2>4, SettleStep
    <3>2. CASE job[w].key = k
      <4>1. ~job[w].dry /\ job[w].answer.category = "ambiguous_submit"
        BY <3>1, <3>2 DEF Stuck
      <4> QED
        BY <3>1, <3>2, <4>1, AmbiguousWritten
    <3>3. CASE job[w].key # k
      BY <2>0, <2>r, <3>1, <3>3 DEF Stuck, Granted, TypeOK
    <3> QED
      BY <3>2, <3>3
  <2>5. CASE Requeue(w)
    <3>1. /\ job[w].pc = "requeue" /\ Rests(w)
          /\ claims' = [claims EXCEPT ![job[w].key] = None]
      BY <2>5, RequeueStep DEF Returns
    <3>2. job[w].key # k
      BY <3>1 DEF Stuck
    <3> QED
      BY <2>0, <2>r, <3>1, <3>2 DEF Stuck, Granted, TypeOK
  <2>6. CASE Decide(w)
    <3>1. /\ job[w].pc = "decide" /\ Moves(w) /\ Keeps(w) /\ UNCHANGED claims
          /\ job'[w].answer = job[w].answer
          /\ \/ job'[w].pc = "settle"
             \/ job[w].answer.category \in TransientCategories
      BY <2>6, DecideStep DEF Files
    <3>2. job[w].key = k => /\ ~job[w].dry /\ job[w].answer.category = "ambiguous_submit"
      BY <3>1 DEF Stuck
    <3>3. "ambiguous_submit" \notin TransientCategories
      BY DEF TransientCategories
    <3>4. Granted(k)'
      BY <3>1 DEF Stuck, Granted
    <3> QED
      BY <2>1, <3>1, <3>2, <3>3, <3>4 DEF Keeps
  <2>7. CASE ~Claim(w) /\ ~SetRequest(w) /\ ~Settle(w) /\ ~Requeue(w) /\ ~Decide(w)
    <3>1. GoesOn(w) /\ UNCHANGED claims
      BY <1>2, <2>7, GoesOnStep
    <3>2. job'[w].pc \notin Working \/ job[w].pc \notin {"decide", "settle"}
      <4>1. CASE \/ Start(w) \/ Crash(w) \/ Scan(w) \/ PickDone(w) \/ ClaimLost(w)
                 \/ \E j \in Keys : PickNext(w, j) \/ PickCampaign(w, j)
        BY <4>1, StartStep, CrashStep, PickStep, ClaimLostStep DEF Rests, Resting
      <4>2. CASE \/ Enqueue(w) \/ RetryWrite(w) \/ (\E a \in Answers : Submit(w, a))
                 \/ GatesPass(w) \/ \E c \in GateFaults : GateFails(w, c)
        BY <4>2, EnqueueStep, RetryWriteStep, SubmitStep, GatesStep
      <4>3. CASE \/ CheckSuccess(w) \/ CheckPause(w) \/ CheckCap(w) \/ CheckLatest(w)
        BY <4>3, CheckStep DEF Rests, Resting
      <4> QED
        BY <1>2, <2>7, <4>1, <4>2, <4>3 DEF Run
    <3>3. Granted(k)'
      BY <3>1 DEF Stuck, Granted
    <3> QED
      BY <2>1, <3>1, <3>2, <3>3 DEF GoesOn, Keeps, Stuck
  <2> QED
    BY <2>2, <2>3, <2>4, <2>5, <2>6, <2>7
<1> QED
  BY <1>1, <1>2 DEF Next

LEMMA AmbiguousStep ==
  ASSUME Recovers = FALSE, IInv, OwnInv, FreshInv, AnswerInv, AmbiguousInv, [Next]_vars
  PROVE  AmbiguousInv'
<1> SUFFICES ASSUME NEW k \in Keys, seen'[k].ambiguous
             PROVE  Shut(k)' \/ Stuck(k)'
  BY DEF AmbiguousInv
<1> USE DEF IInv
<1>1. CASE seen[k].ambiguous
  BY <1>1, ShutStays, StuckStep DEF AmbiguousInv
<1>2. CASE ~seen[k].ambiguous
  <2>1. PICK w \in Workers, a \in Answers : Submit(w, a)
    BY <1>2, SeenStep
  <2>2. k = job[w].key /\ Normalised(a).category = "ambiguous_submit"
    BY <1>2, <2>1, SubmitSeen
  <2>3. /\ job[w].pc = "submit" /\ Moves(w) /\ Keeps(w) /\ UNCHANGED claims
        /\ job'[w].pc = "decide" /\ job'[w].answer = Normalised(a)
    BY <2>1, SubmitStep
  <2>4. Busy(w) /\ Owns(w) /\ ~job[w].dry
    BY <2>3 DEF OwnInv, Busy, Working, Locals, Local
  <2>5. \A v \in Workers : v # w /\ Busy(v)' => job'[v].key # k
    BY <2>2, <2>3, <2>4 DEF OwnInv, Moves, Busy
  <2>6. Granted(k)'
    BY <2>2, <2>3, <2>4 DEF Owns, Granted
  <2>7. ~job'[w].dry /\ job'[w].answer.category = "ambiguous_submit"
    BY <2>2, <2>3, <2>4 DEF Keeps
  <2> QED
    BY <2>3, <2>5, <2>6, <2>7 DEF Stuck
<1> QED
  BY <1>1, <1>2

\* When commands do not overlap and nobody recovers claims, a key whose submit ended
\* ambiguous is never submitted again (orchestrator.py:295-305, 563-577).
THEOREM OneProcessLeavesAmbiguous ==
  ASSUME OneProcess, Recovers = FALSE, LiveAnswers PROVE Spec => AmbiguousNotResubmitted
<1>1. Init => AmbiguousInv
  <2>1. ASSUME Init PROVE \A k \in Keys : ~seen[k].ambiguous
    BY <2>1 DEF Init
  <2> QED
    BY <2>1 DEF AmbiguousInv
<1>2. IInv /\ OwnInv /\ [Next]_vars => OwnInv'
  BY OwnStep DEF IInv
<1>3. IInv /\ FreshInv /\ [Next]_vars => FreshInv'
  BY FreshStep DEF IInv
<1>4. IInv /\ AnswerInv /\ [Next]_vars => AnswerInv'
  BY AnswerInvStep DEF IInv
<1>5. IInv /\ OwnInv /\ FreshInv /\ AnswerInv /\ AmbiguousInv /\ [Next]_vars => AmbiguousInv'
  BY AmbiguousStep
<1>6. ASSUME IInv, OwnInv, FreshInv, AmbiguousInv, [Next]_vars, NEW k \in Keys, SubmitOf(k)
      PROVE  ~seen[k].ambiguous
  <2>1. PICK w \in Workers, a \in Answers : Submit(w, a)
    <3>1. seen'[k] # seen[k]
      BY <1>6 DEF SubmitOf, IInv, TypeOK
    <3> QED
      BY <1>6, <3>1, SeenStep DEF IInv
  <2>2. k = job[w].key /\ job[w].pc = "submit"
    <3>1. k = job[w].key
      BY <1>6, <2>1, SubmitSeen DEF SubmitOf, IInv, TypeOK
    <3>2. job[w].pc = "submit"
      BY <1>6, <2>1, SubmitStep DEF IInv
    <3> QED
      BY <3>1, <3>2
  <2>3. ~Shut(k) /\ ~Stuck(k)
    BY <1>6, <2>2 DEF FreshInv, Past, Stuck, Busy, Working
  <2> QED
    BY <1>6, <2>3 DEF AmbiguousInv
<1>7. IInv /\ OwnInv /\ FreshInv /\ AmbiguousInv /\ [Next]_vars
        => [\A k \in Keys : SubmitOf(k) => ~seen[k].ambiguous]_vars
  BY <1>6
<1> QED
  BY <1>1, <1>2, <1>3, <1>4, <1>5, <1>7, OwnInit, FreshInit, RetryInit, Invariance, PTL
     DEF Spec, AmbiguousNotResubmitted

-----------------------------------------------------------------------------
\* The scan of the log.  The function that consecutive_failures computes is recursive; its
\* value is known to be the size of a set, so one function solves the recursion, and the
\* least number at which another differed would refute it.

LEMMA LeastNumber ==
  ASSUME NEW T \in SUBSET Nat, T # {}
  PROVE  \E m \in T : \A n \in T : ~(n < m)
<1>1. PICK m \in T : \A n \in T : ~(<<n, m>> \in OpToRel(<, Nat))
  BY NatLessThanWellFounded, WFMin
<1>2. \A n \in T : n < m => <<n, m>> \in OpToRel(<, Nat)
  BY DEF OpToRel
<1> QED
  BY <1>1, <1>2

\* The failures since the last reset among the first n records.
FailureTail(s, a, n) == {i \in 1..n : /\ Counts(s[i], a)
                               /\ \A j \in (i + 1)..n : ~Resets(s[j], a)}

LEMMA TailIsFinite ==
  ASSUME NEW s, NEW a, NEW n \in Nat
  PROVE  IsFiniteSet(FailureTail(s, a, n)) /\ Cardinality(FailureTail(s, a, n)) \in Nat
<1>1. FailureTail(s, a, n) \in SUBSET (1..n)
  BY DEF FailureTail
<1>2. IsFiniteSet(1..n)
  BY FS_Interval
<1> QED
  BY <1>1, <1>2, FS_Subset, FS_CardinalityType

\* One more record: _consecutive_failures_unlocked, one turn of its loop.
LEMMA TailStep ==
  ASSUME NEW s \in Seq(LineType), NEW a, NEW n \in 1..Len(s)
  PROVE  Cardinality(FailureTail(s, a, n)) = FailureStep(a, Cardinality(FailureTail(s, a, n - 1)), s[n])
<1> DEFINE P == FailureTail(s, a, n - 1)
           r == s[n]
<1>0. n \in Nat /\ n - 1 \in Nat /\ n \in 1..n /\ n \notin 1..(n - 1)
  OBVIOUS
<1>1. r \in AttemptLine \cup ResumeLine
  BY DEF LineType
<1>2. \A i \in 1..n : i = n \/ i \in 1..(n - 1)
  BY <1>0
<1>3. \A i \in 1..(n - 1) : (i + 1)..n = ((i + 1)..(n - 1)) \cup {n}
  BY <1>0
<1>4. (n + 1)..n = {} /\ 1..n = (1..(n - 1)) \cup {n}
  BY <1>0
<1>5. ASSUME Resets(r, a) PROVE FailureTail(s, a, n) = {}
  <2>1. ~Counts(r, a)
    BY <1>5 DEF Resets, Counts
  <2> QED
    BY <1>2, <1>3, <1>5, <2>1 DEF FailureTail
<1>6. ASSUME ~Resets(r, a), ~Counts(r, a) PROVE FailureTail(s, a, n) = P
  BY <1>2, <1>3, <1>4, <1>6 DEF FailureTail
<1>7. ASSUME Counts(r, a) PROVE FailureTail(s, a, n) = P \cup {n}
  <2>1. ~Resets(r, a)
    BY <1>7 DEF Resets, Counts
  <2> QED
    BY <1>2, <1>3, <1>4, <1>7, <2>1 DEF FailureTail
<1>8. IsFiniteSet(P) /\ Cardinality(P) \in Nat /\ n \notin P
  BY <1>0, TailIsFinite DEF FailureTail
<1> HIDE DEF P
<1>9. Counts(r, a) => Cardinality(FailureTail(s, a, n)) = Cardinality(P) + 1
  BY <1>7, <1>8, FS_AddElement
<1>10. Resets(r, a) => Cardinality(FailureTail(s, a, n)) = 0
  BY <1>5, FS_EmptySet
<1>11. ~Resets(r, a) /\ ~Counts(r, a) => Cardinality(FailureTail(s, a, n)) = Cardinality(P)
  BY <1>6
<1>12. FailureStep(a, Cardinality(P), r) = IF Resets(r, a) THEN 0
                                          ELSE IF Counts(r, a) THEN Cardinality(P) + 1
                                          ELSE Cardinality(P)
  BY <1>1 DEF FailureStep, Resets, Counts, IsSuccess, AttemptLine, ResumeLine
<1>13. Cardinality(FailureTail(s, a, n)) = FailureStep(a, Cardinality(P), r)
  <2>1. ~(Resets(r, a) /\ Counts(r, a))
    BY DEF Resets, Counts
  <2> QED
    BY <1>9, <1>10, <1>11, <1>12, <2>1
<1> QED
  BY <1>13 DEF P

LEMMA ScanIsTail ==
  ASSUME NEW s \in Seq(LineType), NEW a
  PROVE  ConsecutiveFailures(s, a) = Cardinality(FailureTail(s, a, Len(s)))
<1> DEFINE D == 0..Len(s)
           g == [n \in D |-> Cardinality(FailureTail(s, a, n))]
           f == CHOOSE h : h = [n \in D |-> IF n = 0 THEN 0
                                            ELSE FailureStep(a, h[n - 1], s[n])]
<1>0. Len(s) \in Nat /\ Len(s) \in D /\ 0 \in D
  OBVIOUS
<1>1. g[0] = 0
  <2>1. FailureTail(s, a, 0) = {}
    BY DEF FailureTail
  <2> QED
    BY <1>0, <2>1, FS_EmptySet
<1>2. \A n \in D : n # 0 => n - 1 \in D /\ g[n] = FailureStep(a, g[n - 1], s[n])
  <2> SUFFICES ASSUME NEW n \in D, n # 0
               PROVE  n - 1 \in D /\ g[n] = FailureStep(a, g[n - 1], s[n])
    OBVIOUS
  <2>1. n - 1 \in D /\ n \in 1..Len(s)
    BY <1>0
  <2> QED
    BY <2>1, TailStep
<1>3. g = [n \in D |-> IF n = 0 THEN 0 ELSE FailureStep(a, g[n - 1], s[n])]
  <2>1. g = [n \in D |-> g[n]]
    OBVIOUS
  <2> HIDE DEF g
  <2>2. \A n \in D : g[n] = IF n = 0 THEN 0 ELSE FailureStep(a, g[n - 1], s[n])
    BY <1>1, <1>2
  <2> QED
    BY <2>1, <2>2
<1>4. f = [n \in D |-> IF n = 0 THEN 0 ELSE FailureStep(a, f[n - 1], s[n])]
  <2> HIDE DEF g, D
  <2> QED
    BY <1>3
<1>5. ConsecutiveFailures(s, a) = f[Len(s)]
  BY DEF ConsecutiveFailures
<1>6. g[Len(s)] = Cardinality(FailureTail(s, a, Len(s)))
  BY <1>0
<1> HIDE DEF f, g
<1>7. ASSUME NEW n \in D, f[n] # g[n] PROVE FALSE
  <2> DEFINE T == {i \in D : f[i] # g[i]}
  <2>1. PICK m \in T : \A i \in T : ~(i < m)
    <3>1. T \subseteq D /\ D \subseteq Nat /\ n \in T
      BY <1>0, <1>7
    <3>2. T \in SUBSET Nat /\ T # {}
      BY <3>1
    <3> HIDE DEF T
    <3> QED
      BY <3>2, LeastNumber
  <2>2. m \in D /\ f[m] # g[m]
    BY <2>1
  <2>3. CASE m = 0
    BY <1>0, <1>1, <1>4, <2>2, <2>3
  <2>4. CASE m # 0
    <3>1. m - 1 \in D /\ m - 1 < m
      BY <1>0, <2>2, <2>4
    <3>2. f[m - 1] = g[m - 1]
      BY <2>1, <3>1
    <3>3. f[m] = FailureStep(a, f[m - 1], s[m])
      BY <1>4, <2>2, <2>4
    <3> QED
      BY <1>2, <2>2, <2>4, <3>2, <3>3
  <2> QED
    BY <2>3, <2>4
<1> QED
  BY <1>0, <1>5, <1>6, <1>7

\* consecutive_failures counts the failures since the pair's last success or resume, for
\* every log there can be (receipts.py:224-242).
THEOREM FailuresAreCounted == Spec => []FailuresAreTheTail
<1>1. TypeOK => FailuresAreTheTail
  <2> SUFFICES ASSUME TypeOK, NEW a \in Accounts
               PROVE  ConsecutiveFailures(log, a) =
                        Cardinality({i \in DOMAIN log :
                          /\ Counts(log[i], a)
                          /\ \A j \in (i + 1)..Len(log) : ~Resets(log[j], a)})
    BY DEF FailuresAreTheTail
  <2>1. log \in Seq(LineType) /\ DOMAIN log = 1..Len(log)
    BY DEF TypeOK, LineType
  <2> QED
    BY <2>1, ScanIsTail DEF FailureTail
<1> QED
  BY <1>1, TypeCorrect, PTL

\* A resume opens the account it names and leaves the others alone.
LEMMA ResumeKeepsOpen ==
  ASSUME TypeOK, NEW a, NEW b \in Accounts, ~FailurePaused(a),
         log' = Append(log, ResumeEvent(b, today))
  PROVE  ~FailurePaused(a)'
<1> DEFINE e == ResumeEvent(b, today)
           n == Len(log) + 1
<1>1. /\ log \in Seq(LineType) /\ e \in LineType /\ e.event = "resume"
      /\ Len(log) \in Nat /\ n \in 1..n /\ n - 1 = Len(log)
  BY DEF TypeOK, LineType, ResumeEvent, ResumeLine
<1> HIDE DEF e
<1>2. log' = Append(log, e)
  BY DEF e
<1>3. /\ log' \in Seq(LineType) /\ Len(log') = n /\ log'[n] = e
      /\ \A i \in 1..(n - 1) : log'[i] = log[i]
  BY <1>1, <1>2
<1> HIDE DEF n
<1>4. FailureTail(log', a, n - 1) = FailureTail(log, a, n - 1)
  <2>1. n \in Nat
    BY <1>1 DEF n
  <2>2. \A i \in 1..(n - 1) : (i + 1)..(n - 1) \subseteq 1..(n - 1)
    BY <2>1
  <2> QED
    BY <1>3, <2>1, <2>2 DEF FailureTail
<1>5. ConsecutiveFailures(log', a)
        = FailureStep(a, Cardinality(FailureTail(log, a, n - 1)), e)
  <2>1. ConsecutiveFailures(log', a) = Cardinality(FailureTail(log', a, Len(log')))
    BY <1>3, ScanIsTail
  <2>2. n \in 1..Len(log')
    BY <1>1, <1>3
  <2>3. Cardinality(FailureTail(log', a, n))
          = FailureStep(a, Cardinality(FailureTail(log', a, n - 1)), log'[n])
    BY <1>3, <2>2, TailStep
  <2> QED
    BY <1>3, <1>4, <2>1, <2>3
<1>6. ConsecutiveFailures(log, a) = Cardinality(FailureTail(log, a, n - 1))
  BY <1>1, ScanIsTail
<1>7. ConsecutiveFailures(log', a) = 0 \/ ConsecutiveFailures(log', a) = ConsecutiveFailures(log, a)
  BY <1>1, <1>5, <1>6 DEF FailureStep
<1>8. Threshold \in Nat \ {0}
  BY PublishingConstants
<1>9. FailurePaused(a)' <=> ConsecutiveFailures(log', a) >= Threshold
  BY DEF FailurePaused, ConsecutiveFailures
<1> QED
  BY <1>7, <1>8, <1>9 DEF FailurePaused

\* From the pause check to the submit.
Opened == {"check_cap", "check_latest", "enqueue", "claim", "set_request", "gates", "submit"}

OpenInv == \A w \in Workers :
  job[w].pc \in Opened => ~FailurePaused(AccountOf[job[w].key])

LEMMA OpenedStep ==
  ASSUME TypeOK, NEW w \in Workers, Start(w) \/ Run(w) \/ Crash(w), job'[w].pc \in Opened
  PROVE  /\ job'[w].key = job[w].key /\ UNCHANGED log
         /\ job[w].pc \in Opened \/ ~FailurePaused(AccountOf[job[w].key])
<1> USE DEF Files, bounds, Keeps
<1>r. ~Rests(w)
  BY DEF Rests, Resting, Opened
<1>1. CASE \/ Start(w) \/ Crash(w) \/ Scan(w) \/ PickDone(w) \/ ClaimLost(w)
           \/ (\E k \in Keys : PickNext(w, k) \/ PickCampaign(w, k))
           \/ Settle(w) \/ Requeue(w)
  BY <1>1, <1>r, StartStep, CrashStep, PickStep, ClaimLostStep, SettleStep, RequeueStep
<1>2. CASE CheckSuccess(w) \/ CheckPause(w) \/ CheckCap(w) \/ CheckLatest(w)
  BY <1>2, <1>r, CheckStep DEF Opened
<1>3. CASE Enqueue(w)
  BY <1>3, <1>r, EnqueueStep DEF Opened
<1>4. CASE Claim(w)
  <2>1. job[w].pc = "claim" /\ job'[w].key = job[w].key /\ UNCHANGED log
    BY <1>4, <1>r, ClaimStep
  <2> QED
    BY <2>1 DEF Opened
<1>5. CASE SetRequest(w)
  BY <1>5, SetRequestStep DEF Opened
<1>6. CASE GatesPass(w) \/ \E c \in GateFaults : GateFails(w, c)
  BY <1>6, GatesStep DEF Opened
<1>7. CASE \E a \in Answers : Submit(w, a)
  <2>1. job'[w].pc = "decide"
    BY <1>7, SubmitStep
  <2> QED
    BY <2>1 DEF Opened
<1>8. CASE Decide(w) \/ RetryWrite(w)
  BY <1>8, DecideStep, RetryWriteStep DEF Opened
<1> QED
  BY <1>1, <1>2, <1>3, <1>4, <1>5, <1>6, <1>7, <1>8 DEF Run

LEMMA OpenStep ==
  ASSUME OneProcess, TypeOK, OpenInv, [Next]_vars
  PROVE  OpenInv'
<1> SUFFICES ASSUME NEW w \in Workers, job'[w].pc \in Opened
             PROVE  ~FailurePaused(AccountOf[job[w].key])'
  BY DEF OpenInv
<1>q. ASSUME UNCHANGED log, job'[w].key = job[w].key, ~FailurePaused(AccountOf[job[w].key])
      PROVE  ~FailurePaused(AccountOf[job[w].key])'
  BY <1>q DEF FailurePaused, ConsecutiveFailures
<1>1. CASE Start(w) \/ Run(w) \/ Crash(w)
  BY <1>1, <1>q, OpenedStep DEF OpenInv
<1>2. CASE Environment \/ UNCHANGED vars
  <2>1. UNCHANGED job /\ job[w].pc \in Opened
    BY <1>2, EnvironmentStep DEF vars
  <2>2. ~FailurePaused(AccountOf[job[w].key]) /\ job'[w].key = job[w].key
    BY <2>1 DEF OpenInv
  <2>3. UNCHANGED log \/ \E b \in Accounts : log' = Append(log, ResumeEvent(b, today))
    BY <1>2, EnvironmentStep DEF vars, receipts
  <2>4. ASSUME NEW b \in Accounts, log' = Append(log, ResumeEvent(b, today))
        PROVE  ~FailurePaused(AccountOf[job[w].key])'
    <3> DEFINE a == AccountOf[job[w].key]
    <3>1. ~FailurePaused(a)'
      <4>1. a' = a
        BY <2>1
      <4>2. ~FailurePaused(a)
        BY <2>2
      <4> HIDE DEF a
      <4>3. PICK c : c = a
        OBVIOUS
      <4>4. ~FailurePaused(c)'
        BY <2>4, <4>2, <4>3, ResumeKeepsOpen
      <4> QED
        BY <4>1, <4>3, <4>4
    <3> QED
      BY <3>1
  <2> QED
    BY <1>q, <2>2, <2>3, <2>4
<1> QED
  BY <1>1, <1>2 DEF Next, OneProcess

\* When commands do not overlap, nothing is submitted for a pair whose last failures have
\* reached the threshold (orchestrator.py:281-288).
THEOREM OneProcessHeedsPause == ASSUME OneProcess PROVE Spec => PausedNotSubmitted
<1>1. Init => OpenInv
  BY DEF Init, IdleJob, OpenInv, Opened
<1>2. IInv /\ OpenInv /\ [Next]_vars => OpenInv'
  BY OpenStep DEF IInv
<1>3. IInv /\ OpenInv /\ [Next]_vars =>
        [\A k \in Keys : SubmitOf(k) => ~FailurePaused(AccountOf[k])]_vars
  <2> SUFFICES ASSUME IInv, OpenInv, [Next]_vars, NEW k \in Keys, SubmitOf(k)
               PROVE  ~FailurePaused(AccountOf[k])
    OBVIOUS
  <2>1. PICK w \in Workers, a \in Answers : Submit(w, a)
    <3>1. seen'[k] # seen[k]
      BY DEF SubmitOf, IInv, TypeOK
    <3> QED
      BY <3>1, SeenStep DEF IInv
  <2>2. job[w].pc = "submit"
    BY <2>1, SubmitStep DEF IInv
  <2>3. job[w].key = k
    BY <2>1, SubmitSeen DEF SubmitOf, IInv, TypeOK
  <2> QED
    BY <2>2, <2>3 DEF OpenInv, Opened
<1> QED
  BY <1>1, <1>2, <1>3, Invariance, PTL DEF Spec, PausedNotSubmitted
=============================================================================
