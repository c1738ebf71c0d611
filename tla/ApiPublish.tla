----------------------------- MODULE ApiPublish -----------------------------
(***************************************************************************)
(* MetaPublisher and XPublisher of publishing/api_adapters.py under the    *)
(* orchestrator's retry rule: one destination request, published by one    *)
(* worker in as many attempts as the rule allows.                          *)
(*                                                                         *)
(* An attempt is a fixed sequence of HTTP requests (Stages) of which the   *)
(* one named "final" makes the post.  A request and its answer are one     *)
(* step; the answer is chosen by the platform, which works on the media    *)
(* in the background and may apply a request whose answer was lost later.  *)
(***************************************************************************)
EXTENDS Receipts

CONSTANTS Apis,        \* subset of DOMAIN Stages
          MaxPolls,    \* max_poll_attempts
          RetryLimit

ASSUME ApiConstants == MaxPolls \in Nat \ {0} /\ RetryLimit \in Nat

\* The requests after the identity probe.  The segments of X are two here.
Stages ==
  [instagram |-> <<"create", "upload", "poll", "final", "link">>,
   facebook  |-> <<"create", "upload", "poll", "final", "link">>,
   x         |-> <<"create", "upload", "upload", "finalize", "poll", "final">>]

ASSUME KnownApis == Apis \subseteq DOMAIN Stages

\* Answers without usable content, with the category the client gives them:
\* HTTP statuses, a lost connection, any other exception of the transport.
CategoryOf == [auth |-> "authentication", limited |-> "rate_limit",
               rejected |-> "validation", server |-> "network",
               lost |-> "network", raised |-> "network"]
Errors == DOMAIN CategoryOf

VARIABLES api,       \* which adapter
          item,      \* the request: "queued", "running", or "settled"
          attempts,  \* live records of the key
          at,        \* index of the next request in Stages[api]
          polls,     \* status polls done
          result,    \* the adapter's last result
          media,     \* the platform's media object of this attempt
          posts,     \* posts the platform made for this request
          inflight,  \* a final request that may still be applied
          odd        \* history: a final request ended without id, with a 5xx
                     \* or with an exception that is no connection loss, or
                     \* the answer of a permalink lookup could not be read

vars == <<api, item, attempts, at, polls, result, media, posts, inflight, odd>>

Result(status, category) == [status |-> status, category |-> category]
NoResult         == Result("none", "")
Failed(category) == Result("failed", category)
Unknown          == Result("unknown", "ambiguous_submit")
Published        == Result("published", "")

Init == /\ api \in Apis /\ item = "queued" /\ attempts = 0
        /\ at = 0 /\ polls = 0 /\ result = NoResult
        /\ media = "none" /\ posts = 0 /\ inflight = FALSE /\ odd = FALSE

Stage == IF at \in DOMAIN Stages[api] THEN Stages[api][at] ELSE "none"
At(stage) == item = "running" /\ Stage = stage /\ result.status = "none"

Advance   == at' = at + 1 /\ UNCHANGED result
Answer(r) == result' = r /\ UNCHANGED at

----------------------------------------------------------------------------
\* The adapter.  publish probes the identity again before the first request.

Prepare ==
  /\ item = "running" /\ at = 0 /\ result.status = "none"
  /\ \/ Advance
     \/ \E c \in {"configuration", "validation", "authentication",
                  "identity_mismatch", "network", "rate_limit"} :
          Answer(Result("blocked", c))
  /\ UNCHANGED <<api, item, attempts, polls, media, posts, inflight, odd>>

\* A request before the final one fails with whatever the platform answered, or
\* for the lack of an id.
RequestFails(e) ==
  /\ Stage \notin {"final", "link"} /\ At(Stage) /\ at > 0
  /\ Answer(Failed(CategoryOf[e]))
  /\ UNCHANGED <<api, item, attempts, polls, media, posts, inflight, odd>>

Create == /\ At("create")
          /\ Advance
          /\ media' = "empty"
          /\ UNCHANGED <<api, item, attempts, polls, posts, inflight, odd>>

\* The bytes of Meta, a segment of X.  Meta starts to work on a whole upload.
Upload == /\ At("upload")
          /\ Advance
          /\ media' = IF api = "x" THEN media ELSE "processing"
          /\ UNCHANGED <<api, item, attempts, polls, posts, inflight, odd>>

\* X answers with the state of the media, or without one: then nothing is
\* polled.
Finalize ==
  /\ At("finalize")
  /\ \/ media' \in {"processing", "ready"} /\ at' = at + 1 /\ UNCHANGED result
     \/ media' = "ready" /\ at' = at + 2 /\ UNCHANGED result
     \/ media' = "broken" /\ Answer(Failed("network"))
  /\ UNCHANGED <<api, item, attempts, polls, posts, inflight, odd>>

Polled     == At("poll") /\ UNCHANGED <<api, item, attempts, media, posts,
                                        inflight, odd>>
PollDone   == media = "ready" /\ Advance /\ UNCHANGED polls
PollBroken == media = "broken" /\ Answer(Failed("network")) /\ UNCHANGED polls
PollAgain  == polls' = polls + 1 /\ UNCHANGED <<at, result>>

PollFallsThrough ==                                                 \* mutant
  Polled /\ \/ PollDone \/ PollBroken
            \/ polls + 1 < MaxPolls /\ PollAgain
            \/ polls + 1 = MaxPolls /\ Advance /\ UNCHANGED polls

PollForEver ==                                                      \* mutant
  Polled /\ \/ PollDone \/ PollBroken
            \/ polls' = (polls + 1) % MaxPolls /\ UNCHANGED <<at, result>>

\* The state is read up to MaxPolls times; any other state than a final one
\* means to wait.
Poll ==
  Polled /\ \/ PollDone \/ PollBroken
            \/ polls + 1 < MaxPolls /\ PollAgain
            \/ polls + 1 = MaxPolls /\ Answer(Failed("network")) /\ UNCHANGED polls

----------------------------------------------------------------------------
\* The final request (_final_request_json and what publish reads out of its
\* answer).

HasLink == "link" = Stages[api][Len(Stages[api])]

Posted    == posts' = posts + 1
MayPost   == posts' \in {posts, posts + 1}

FinalPosted ==                                     \* 2xx with the post's id
  /\ At("final")
  /\ Posted /\ UNCHANGED <<inflight, odd>>
  /\ IF HasLink THEN Advance ELSE Answer(Published)
  /\ UNCHANGED <<api, item, attempts, polls, media>>

FinalUnreadable ==                                 \* 2xx, 204 or broken body
  /\ At("final")
  /\ Posted /\ UNCHANGED <<inflight, odd>>
  /\ Answer(Unknown)
  /\ UNCHANGED <<api, item, attempts, polls, media>>

LossIsFailure   == Failed("network")                                \* mutant
LossIsAmbiguous == Unknown

FinalLost ==                                       \* timeout, connection lost
  /\ At("final")
  /\ inflight' = TRUE /\ UNCHANGED <<posts, odd>>
  /\ Answer(LossIsAmbiguous)
  /\ UNCHANGED <<api, item, attempts, polls, media>>

FinalRefused(e) ==                                 \* 401, 403, 429, other 4xx
  /\ At("final") /\ e \in {"auth", "limited", "rejected"}
  /\ Answer(Failed(CategoryOf[e]))
  /\ UNCHANGED <<api, item, attempts, polls, media, posts, inflight, odd>>

NoIdIsPublished == Published                                        \* mutant
NoIdIsFailure == Failed("network")

FinalOdd ==                      \* 2xx without an id, 5xx, another exception
  /\ At("final")
  /\ MayPost /\ odd' = TRUE
  /\ Answer(NoIdIsFailure)
  /\ UNCHANGED <<api, item, attempts, polls, media, inflight>>

\* The permalink lookup cannot undo a publication, unless its answer raises
\* something else than an _ApiFailure when it is read.
Link == /\ At("link")
        /\ \/ Answer(Published) /\ UNCHANGED odd
           \/ Answer(Failed("network")) /\ odd' = TRUE
        /\ UNCHANGED <<api, item, attempts, polls, media, posts, inflight>>

----------------------------------------------------------------------------
\* The orchestrator.  A claimed request goes through the adapter; a failure of a
\* transient category goes back to the queue if the attempts allow.

\* The checks on the way to adapter.publish are Publishing's.
Begin == /\ item = "queued"
         /\ item' = "running"
         /\ at' = 0 /\ polls' = 0 /\ result' = NoResult /\ media' = "none"
         /\ UNCHANGED <<api, attempts, posts, inflight, odd>>

MayRetry == /\ result.status = "failed"
            /\ RetryDecision(result.category, attempts + 1, RetryLimit)

Decide == /\ item = "running" /\ result.status # "none"
          /\ attempts' = attempts + 1
          /\ item' = IF MayRetry THEN "queued" ELSE "settled"
          /\ UNCHANGED <<api, at, polls, result, media, posts, inflight, odd>>

----------------------------------------------------------------------------
\* The platform works on the media and applies requests that arrive late.

Process == /\ media = "processing"
           /\ media' \in {"ready", "broken"}
           /\ UNCHANGED <<api, item, attempts, at, polls, result, posts,
                          inflight, odd>>

Arrive == /\ inflight
          /\ inflight' = FALSE /\ Posted
          /\ UNCHANGED <<api, item, attempts, at, polls, result, media, odd>>

Client == \/ Prepare \/ Create \/ Upload \/ Finalize \/ Poll
          \/ \E e \in Errors : RequestFails(e) \/ FinalRefused(e)
          \/ FinalPosted \/ FinalUnreadable \/ FinalLost \/ FinalOdd \/ Link
          \/ Begin \/ Decide

Next == Client \/ Process \/ Arrive

Spec == Init /\ [][Next]_vars

\* Requests time out and the scheduler runs publish next again; the platform
\* need not ever finish its work.
FairSpec == Spec /\ WF_vars(Client)

----------------------------------------------------------------------------
\* The final request is sent only for media that the platform has finished,
\* whatever a poll saw and however often (api_adapters.py:580-595, 1272-1297).
FinalOnlyWhenReady == At("final") => media = "ready"

\* Over all attempts the platform gets at most one post, unless a final request
\* or the lookup after it ended oddly: timeouts, lost connections, unreadable answers and refusals lead
\* to no second post (api_adapters.py:261-283, store.py:33-44).
PostedOnce == ~odd => posts + (IF inflight THEN 1 ELSE 0) <= 1

\* A published result has a post behind it, whatever the answers before and after
\* the final one said (api_adapters.py:547-577, 625-656).
PublishedIsPosted == result.status = "published" => posts >= 1

\* A request is settled in the end, with media that never becomes ready too
\* (api_adapters.py:580-595, store.py:33-44).
Settles == <>(item = "settled")

\* "an automatic browser retry could duplicate publication. The orchestrator must
\* reconcile first" (api_adapters.py:245-246): no request is posted twice.
NeverDuplicated == posts <= 1
============================================================================
