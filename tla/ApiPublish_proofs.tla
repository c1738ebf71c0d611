------------------------- MODULE ApiPublish_proofs -------------------------
(***************************************************************************)
(* ApiPublish for every number of polls and every retry limit.  The        *)
(* argument: the final request is reached over media that is ready only;   *)
(* once it may have posted, the attempt is on its way to a result that is  *)
(* no failure, which the orchestrator does not retry, unless the request   *)
(* ended oddly.                                                            *)
(***************************************************************************)
EXTENDS ApiPublish, TLAPS

FinalAt == IF api = "x" THEN 6 ELSE 4
LinkAt  == 5

TypeOK ==
  /\ api \in DOMAIN Stages /\ at \in 0..6 /\ posts \in Nat
  /\ item \in {"queued", "running", "settled"}
  /\ result.status \in {"none", "blocked", "failed", "unknown", "published"}
  /\ inflight \in BOOLEAN

\* A request is under way.
Going == item = "running" /\ result.status = "none"

\* Media is ready from the request before the final one on.
ReadyBeforeFinal == Going /\ at = FinalAt => media = "ready"

Linking == Going /\ api # "x" /\ at = LinkAt

\* The attempt that posted, or may still, fails no more.
Beyond == \/ Linking
          \/ item # "queued" /\ result.status \in {"unknown", "published"}

OnePost == ~odd => /\ posts <= 1 /\ (inflight => posts = 0)
                   /\ inflight \/ posts = 1 => Beyond

PostBehind == Linking \/ result.status = "published" => posts >= 1

-----------------------------------------------------------------------------

\* Where each request stands in the sequence of its adapter.
LEMMA StageAt ==
  ASSUME TypeOK
  PROVE  /\ Stage = "create"   <=> at = 1
         /\ Stage = "upload"   <=> at = 2 \/ (api = "x" /\ at = 3)
         /\ Stage = "finalize" <=> api = "x" /\ at = 4
         /\ Stage = "poll"     <=> at = FinalAt - 1
         /\ Stage = "final"    <=> at = FinalAt
         /\ Stage = "link"     <=> api # "x" /\ at = LinkAt
         /\ HasLink <=> api # "x"
<1>1. DOMAIN Stages = {"instagram", "facebook", "x"}
  BY DEF Stages
<1>2. at \in {0, 1, 2, 3, 4, 5, 6}
  BY DEF TypeOK
<1>3. CASE api \in {"instagram", "facebook"}
  <2>1. Stages[api] = <<"create", "upload", "poll", "final", "link">>
    BY <1>3 DEF Stages
  <2>2. Len(Stages[api]) = 5 /\ DOMAIN Stages[api] = 1..5
    BY <2>1
  <2>3. api # "x" /\ FinalAt = 4
    BY <1>3 DEF FinalAt
  <2>4. HasLink
    BY <2>1, <2>2 DEF HasLink
  <2>5. Stage = IF at = 1 THEN "create" ELSE IF at = 2 THEN "upload"
                ELSE IF at = 3 THEN "poll" ELSE IF at = 4 THEN "final"
                ELSE IF at = 5 THEN "link" ELSE "none"
    BY <1>2, <2>1, <2>2 DEF Stage
  <2> QED
    BY <1>2, <2>3, <2>4, <2>5 DEF LinkAt
<1>4. CASE api = "x"
  <2>1. Stages[api] = <<"create", "upload", "upload", "finalize", "poll", "final">>
    BY <1>4 DEF Stages
  <2>2. Len(Stages[api]) = 6 /\ DOMAIN Stages[api] = 1..6
    BY <2>1
  <2>3. FinalAt = 6
    BY <1>4 DEF FinalAt
  <2>4. ~HasLink
    BY <2>1, <2>2 DEF HasLink
  <2>5. Stage = IF at = 1 THEN "create" ELSE IF at \in {2, 3} THEN "upload"
                ELSE IF at = 4 THEN "finalize" ELSE IF at = 5 THEN "poll"
                ELSE IF at = 6 THEN "final" ELSE "none"
    BY <1>2, <2>1, <2>2 DEF Stage
  <2> QED
    BY <1>2, <1>4, <2>3, <2>4, <2>5
<1> QED
  BY <1>1, <1>3, <1>4 DEF TypeOK

LEMMA Statuses ==
  /\ NoResult.status = "none" /\ Unknown.status = "unknown"
  /\ Published.status = "published"
  /\ \A c : Failed(c).status = "failed" /\ Result("blocked", c).status = "blocked"
BY DEF NoResult, Unknown, Published, Failed, Result

\* The steps by what they do to the request: how far it gets and how it ends.
LEMMA PrepareStep ==
  ASSUME TypeOK, Prepare
  PROVE  /\ Going /\ at = 0 /\ UNCHANGED <<api, item, media, posts, inflight, odd>>
         /\ \/ at' = 1 /\ UNCHANGED result
            \/ at' = at /\ result'.status = "blocked"
BY Statuses DEF Prepare, Going, Advance, Answer

LEMMA RequestFailsStep ==
  ASSUME TypeOK, NEW e \in Errors, RequestFails(e)
  PROVE  /\ Going /\ at # FinalAt /\ ~Linking
         /\ UNCHANGED <<api, item, at, media, posts, inflight, odd>>
         /\ result'.status = "failed"
BY Statuses, StageAt DEF RequestFails, At, Answer, Going, Linking

LEMMA BeforeFinalStep ==
  ASSUME TypeOK, Create \/ Upload \/ Finalize
  PROVE  /\ Going /\ at < FinalAt /\ UNCHANGED <<api, item, posts, inflight, odd>>
         /\ \/ at' \in 0..(FinalAt - 1) /\ UNCHANGED result
            \/ at' = FinalAt /\ UNCHANGED result /\ media' = "ready"
            \/ at' = at /\ result'.status = "failed"
BY Statuses, StageAt DEF Create, Upload, Finalize, At, Advance, Answer, Going, FinalAt, TypeOK

LEMMA PollStep ==
  ASSUME TypeOK, Poll
  PROVE  /\ Going /\ at = FinalAt - 1
         /\ UNCHANGED <<api, item, media, posts, inflight, odd>>
         /\ \/ at' = at /\ UNCHANGED result
            \/ at' = FinalAt /\ UNCHANGED result /\ media = "ready"
            \/ at' = at /\ result'.status = "failed"
<1>1. at = FinalAt - 1 /\ FinalAt \in {4, 6}
  BY StageAt DEF Poll, Polled, At, FinalAt
<1>2. Going /\ UNCHANGED <<api, item, media, posts, inflight, odd>>
  BY DEF Poll, Polled, At, Going
<1>3. \/ at' = at /\ UNCHANGED result
      \/ at' = at + 1 /\ UNCHANGED result /\ media = "ready"
      \/ at' = at /\ result'.status = "failed"
  BY Statuses DEF Poll, PollDone, PollBroken, PollAgain, Advance, Answer
<1> QED
  BY <1>1, <1>2, <1>3

LEMMA FinalStep ==
  ASSUME TypeOK,
         \/ FinalPosted \/ FinalUnreadable \/ FinalLost \/ FinalOdd
         \/ \E e \in Errors : FinalRefused(e)
  PROVE  /\ Going /\ at = FinalAt /\ UNCHANGED <<api, item, media>>
         /\ \/ posts' = posts + 1 /\ UNCHANGED <<inflight, odd>>
               /\ \/ api # "x" /\ at' = LinkAt /\ UNCHANGED result
                  \/ at' = at /\ result'.status \in {"unknown", "published"}
            \/ inflight' = TRUE /\ UNCHANGED <<posts, odd, at>>
               /\ result'.status = "unknown"
            \/ UNCHANGED <<posts, inflight, odd, at>> /\ result'.status = "failed"
            \/ odd' = TRUE /\ posts' \in {posts, posts + 1} /\ UNCHANGED <<inflight, at>>
               /\ result'.status = "failed"
<1> USE Statuses, StageAt DEF At, Answer, Advance, Going, FinalAt, LinkAt
<1>1. CASE FinalPosted
  BY <1>1 DEF FinalPosted, Posted
<1>2. CASE FinalUnreadable
  BY <1>2 DEF FinalUnreadable, Posted
<1>3. CASE FinalLost
  BY <1>3 DEF FinalLost, LossIsAmbiguous
<1>4. CASE FinalOdd
  BY <1>4 DEF FinalOdd, MayPost, NoIdIsFailure
<1>5. CASE \E e \in Errors : FinalRefused(e)
  BY <1>5 DEF FinalRefused
<1> QED
  BY <1>1, <1>2, <1>3, <1>4, <1>5

LEMMA LinkStep ==
  ASSUME TypeOK, Link
  PROVE  /\ Linking /\ UNCHANGED <<api, item, at, media, posts, inflight>>
         /\ \/ result'.status = "published" /\ UNCHANGED odd
            \/ result'.status = "failed" /\ odd' = TRUE
BY Statuses, StageAt DEF Link, At, Answer, Going, Linking

LEMMA BeginStep ==
  ASSUME Begin
  PROVE  /\ item = "queued" /\ item' = "running" /\ at' = 0 /\ result'.status = "none"
         /\ UNCHANGED <<api, posts, inflight, odd>>
BY Statuses DEF Begin

\* Only a failure goes back to the queue.
LEMMA DecideStep ==
  ASSUME Decide
  PROVE  /\ item = "running" /\ result.status # "none"
         /\ item' \in {"queued", "settled"}
         /\ item' = "queued" => result.status = "failed"
         /\ UNCHANGED <<api, at, result, media, posts, inflight, odd>>
BY DEF Decide, MayRetry

-----------------------------------------------------------------------------

IInv == TypeOK /\ ReadyBeforeFinal /\ OnePost /\ PostBehind

LEMMA InitHolds == Init => IInv
<1> SUFFICES ASSUME Init PROVE IInv
  OBVIOUS
<1>1. TypeOK
  <2>1. inflight \in BOOLEAN
    BY DEF Init
  <2>2. /\ api \in DOMAIN Stages /\ at = 0 /\ posts = 0 /\ item = "queued"
        /\ result.status = "none"
    BY KnownApis, Statuses DEF Init
  <2> QED
    BY <2>1, <2>2 DEF TypeOK
<1>2. item = "queued" /\ result.status = "none" /\ posts = 0 /\ inflight = FALSE
  BY Statuses DEF Init
<1> QED
  BY <1>1, <1>2 DEF IInv, ReadyBeforeFinal, OnePost, PostBehind, Going, Linking, Beyond

LEMMA StepHolds == IInv /\ [Next]_vars => IInv'
<1> SUFFICES ASSUME IInv, [Next]_vars PROVE IInv'
  OBVIOUS
<1> USE DEF IInv, TypeOK, ReadyBeforeFinal, OnePost, PostBehind, Going, Linking, Beyond,
            FinalAt, LinkAt
<1>1. CASE Prepare
  BY <1>1, PrepareStep
<1>2. ASSUME NEW e \in Errors, RequestFails(e) PROVE IInv'
  BY <1>2, RequestFailsStep
<1>3. CASE Create \/ Upload \/ Finalize
  BY <1>3, BeforeFinalStep
<1>4. CASE Poll
  BY <1>4, PollStep
\* Nothing was posted yet: what a post leads to is beyond failing.
<1>5. CASE \/ FinalPosted \/ FinalUnreadable \/ FinalLost \/ FinalOdd
           \/ \E e \in Errors : FinalRefused(e)
  <2>1. Going /\ at = FinalAt /\ UNCHANGED <<api, item, media>>
    BY <1>5, FinalStep
  <2>2. ~Beyond
    BY <2>1
  <2>3. CASE /\ posts' = posts + 1 /\ UNCHANGED <<inflight, odd>>
             /\ \/ api # "x" /\ at' = LinkAt /\ UNCHANGED result
                \/ at' = at /\ result'.status \in {"unknown", "published"}
    BY <2>1, <2>2, <2>3
  <2>4. CASE inflight' = TRUE /\ UNCHANGED <<posts, odd, at>> /\ result'.status = "unknown"
    <3>1. inflight' \in BOOLEAN
      BY <2>4
    <3> QED
      BY <2>1, <2>2, <2>4, <3>1
  <2>5. CASE UNCHANGED <<posts, inflight, odd, at>> /\ result'.status = "failed"
    BY <2>1, <2>2, <2>5
  <2>6. CASE /\ odd' = TRUE /\ posts' \in {posts, posts + 1} /\ UNCHANGED <<inflight, at>>
             /\ result'.status = "failed"
    BY <2>1, <2>2, <2>6
  <2> QED
    BY <1>5, <2>3, <2>4, <2>5, <2>6, FinalStep
<1>6. CASE Link
  <2>1. Linking /\ UNCHANGED <<api, item, at, media, posts, inflight>>
    BY <1>6, LinkStep
  <2>2. CASE result'.status = "published" /\ UNCHANGED odd
    BY <2>1, <2>2
  <2>3. CASE result'.status = "failed" /\ odd' = TRUE
    BY <2>1, <2>3
  <2> QED
    BY <1>6, <2>2, <2>3, LinkStep
<1>7. CASE Begin
  BY <1>7, BeginStep
<1>8. CASE Decide
  BY <1>8, DecideStep
<1>9. CASE Process
  BY <1>9 DEF Process
\* The post of a final request that was in flight takes its place.
<1>10. CASE Arrive
  <2>1. /\ inflight /\ inflight' = FALSE /\ posts' = posts + 1
        /\ UNCHANGED <<api, item, at, result, media, odd>>
    BY <1>10 DEF Arrive, Posted
  <2>2. inflight' \in BOOLEAN /\ ~inflight'
    BY <2>1
  <2> QED
    BY <2>1, <2>2
<1>11. CASE UNCHANGED vars
  BY <1>11 DEF vars
<1> QED
  BY <1>1, <1>2, <1>3, <1>4, <1>5, <1>6, <1>7, <1>8, <1>9, <1>10, <1>11
     DEF Next, Client

LEMMA Invariance == Spec => []IInv
BY InitHolds, StepHolds, PTL DEF Spec

\* The final request is sent for finished media only, however often the state was
\* polled and whatever it was (_wait_for_meta_container, _upload_media of X).
THEOREM NoFinalBeforeReady == Spec => []FinalOnlyWhenReady
<1>1. IInv => FinalOnlyWhenReady
  BY StageAt DEF IInv, ReadyBeforeFinal, Going, FinalOnlyWhenReady, At
<1> QED
  BY <1>1, Invariance, PTL

\* Over all attempts, and whatever is lost, refused or late, one post at most is
\* made unless a final request or the lookup after it ended oddly (_final_request_json,
\* retry_decision).
THEOREM PostsAreNotRepeated == Spec => []PostedOnce
<1>1. IInv => PostedOnce
  BY DEF IInv, OnePost, TypeOK, PostedOnce
<1> QED
  BY <1>1, Invariance, PTL

\* A result published has a post behind it.
THEOREM PublishedMeansPosted == Spec => []PublishedIsPosted
<1>1. IInv => PublishedIsPosted
  BY DEF IInv, PostBehind, PublishedIsPosted
<1> QED
  BY <1>1, Invariance, PTL
=============================================================================
