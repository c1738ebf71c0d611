--------------------------- MODULE ResumableUpload --------------------------
(***************************************************************************)
(* YouTubePublisher.publish of publishing/api_adapters.py: one resumable   *)
(* upload.  The client sends chunk after chunk, asks for the upload status *)
(* when an answer is lost, and must tell a failed upload (which the        *)
(* orchestrator may retry) from one that may have become a video.          *)
(*                                                                         *)
(* A request and its answer are one step.  The platform keeps a prefix of  *)
(* the media, may keep less than it was sent, may report less than it      *)
(* keeps, and may forget; a chunk whose answer was lost may still arrive   *)
(* later.  The video exists once every byte is stored.                     *)
(***************************************************************************)
EXTENDS Integers, FiniteSets

CONSTANTS MediaSize, ChunkSize,  \* in blocks of 256 KiB
          MaxResume,             \* max_resume_attempts
          MaxForgets             \* bound: times the platform forgets bytes

ASSUME UploadConstants ==
  /\ MediaSize \in Nat \ {0} /\ ChunkSize \in Nat \ {0}
  /\ MaxResume \in Nat \ {0} /\ MaxForgets \in Nat

VARIABLES pc,        \* "initiate", "send", "query" or "done"
          high,      \* confirmed_high_water
          stalled,   \* stalled_responses
          tries,     \* attempts of the running status query
          result,    \* the adapter's status and error category
          stored,    \* bytes the platform has
          inflight,  \* chunks that may still arrive: <<first, end>>
          forgets,
          everStored,  \* history: the most it ever had
          finalSent,   \* history: the last chunk was sent
          overlooked   \* history: the last chunk may have arrived, and the
                       \* upload ended without regard to that

client   == <<pc, high, stalled, tries, result>>
platform == <<stored, inflight, forgets, everStored>>
vars     == <<client, platform, finalSent, overlooked>>

\* HTTP answers that end the upload, with their error categories.
CategoryOf == [auth |-> "authentication", limited |-> "rate_limit",
               rejected |-> "validation", server |-> "network"]
Refusals   == DOMAIN CategoryOf

Pending   == [status |-> "none", category |-> ""]
Submitted == [status |-> "submitted", category |-> ""]
Ambiguous == [status |-> "unknown", category |-> "ambiguous_submit"]
Failed(c) == [status |-> "failed", category |-> c]
Results   == {Pending, Submitted, Ambiguous} \cup {Failed(CategoryOf[r]) : r \in Refusals}

Init == /\ pc = "initiate" /\ high = 0 /\ stalled = 0 /\ tries = 0
        /\ result = Pending
        /\ stored = 0 /\ inflight = {} /\ forgets = 0
        /\ everStored = 0 /\ finalSent = FALSE /\ overlooked = FALSE

Lesser(i, j) == IF i < j THEN i ELSE j

\* The chunk in hand ends at End; it is the last one if nothing follows it.
End        == high + Lesser(ChunkSize, MediaSize - high)
FinalChunk == End = MediaSize
Complete   == stored = MediaSize

----------------------------------------------------------------------------
\* What the platform makes of a chunk: it stores some of it, if it joins on.
Received(first, end) ==
  IF first <= stored /\ stored < end THEN stored..end ELSE {stored}

Stores(n) == /\ stored' = n
             /\ everStored' = IF n > everStored THEN n ELSE everStored

Arrive == \E c \in inflight :
  /\ \E n \in Received(c[1], c[2]) : Stores(n)
  /\ inflight' = inflight \ {c}
  /\ UNCHANGED <<client, forgets, finalSent, overlooked>>

Forget == /\ forgets < MaxForgets /\ ~Complete
          /\ forgets' = forgets + 1
          /\ stored' \in 0..(stored - 1)
          /\ UNCHANGED <<client, inflight, everStored, finalSent, overlooked>>

\* The Range header of a 308 names the last byte kept, or is missing (-1); it
\* may lag behind.
Ranges == -1..(stored - 1)

ResumeOffsetPlusOne(range) == Lesser(range + 2, MediaSize)          \* mutant
ResumeOffset(range) == Lesser(range + 1, MediaSize)

----------------------------------------------------------------------------
\* The client.

Finish(r) == /\ pc' = "done" /\ result' = r
             /\ UNCHANGED <<high, stalled, tries>>

RegressingHighWater(offset, finalWasSent) ==                        \* mutant
  CASE offset = MediaSize -> Finish(Ambiguous)
    [] offset < MediaSize /\ (offset > high \/ stalled + 1 < MaxResume) ->
         /\ pc' = "send" /\ high' = offset /\ tries' = 0
         /\ stalled' = IF offset > high THEN 0 ELSE stalled + 1
         /\ UNCHANGED result
    [] OTHER -> Finish(IF finalWasSent THEN Ambiguous ELSE Failed("network"))

ForgivingHighWater(offset, finalWasSent) ==                         \* mutant
  IF offset = MediaSize THEN Finish(Ambiguous)
  ELSE /\ pc' = "send" /\ tries' = 0 /\ UNCHANGED <<stalled, result>>
       /\ high' = IF offset > high THEN offset ELSE high

\* Progress moves the high water on, or ends the loop when every byte is
\* confirmed and no answer said that the video exists; anything else only uses
\* up the budget, which progress alone refills.
AdvanceConfirmedHighWater(offset, finalWasSent) ==
  \/ /\ offset > high /\ offset < MediaSize
     /\ pc' = "send" /\ high' = offset /\ stalled' = 0 /\ tries' = 0
     /\ UNCHANGED result
  \/ /\ offset > high /\ offset = MediaSize
     /\ Finish(Ambiguous)
  \/ /\ offset <= high /\ stalled + 1 < MaxResume
     /\ pc' = "send" /\ stalled' = stalled + 1 /\ tries' = 0
     /\ UNCHANGED <<high, result>>
  \/ /\ offset <= high /\ stalled + 1 >= MaxResume
     /\ Finish(IF finalWasSent THEN Ambiguous ELSE Failed("network"))

StartQuery == /\ pc' = "query" /\ tries' = 0
              /\ UNCHANGED <<high, stalled, result>>

\* The session is opened: a location, or the upload has failed.
Initiate ==
  /\ pc = "initiate"
  /\ \/ /\ pc' = "send" /\ UNCHANGED <<high, stalled, tries, result>>
     \/ \E c \in {"network", "authentication", "rate_limit", "validation"} :
          Finish(Failed(c))
  /\ UNCHANGED <<platform, finalSent, overlooked>>

Sending == /\ pc = "send"
           /\ finalSent' = (finalSent \/ FinalChunk)

\* The chunk reached the platform and was answered.
Delivered == /\ \E n \in Received(high, End) : Stores(n)
             /\ UNCHANGED <<inflight, forgets>>

\* The chunk may arrive now, later or never.
Underway == /\ inflight' = inflight \cup {<<high, End>>}
            /\ UNCHANGED <<stored, everStored, forgets>>

SendIncomplete ==                                       \* 308
  /\ Sending /\ Delivered
  /\ \E range \in -1..(stored' - 1) :
       AdvanceConfirmedHighWater(ResumeOffset(range), FinalChunk)
  /\ UNCHANGED overlooked

SendComplete ==                                         \* 2xx
  /\ Sending /\ Delivered /\ stored' = MediaSize
  /\ \/ Finish(Submitted) /\ UNCHANGED overlooked
     \/ Finish(Ambiguous) /\ UNCHANGED overlooked          \* body unreadable
     \/ Finish(Failed("network")) /\ overlooked' = TRUE    \* no video id

\* Timeout or 5xx: ask what the platform has.
SendLost == /\ Sending /\ Underway
            /\ StartQuery
            /\ UNCHANGED overlooked

\* The response stream broke, or the response cannot be read.
SendTorn == /\ Sending /\ Underway
            /\ \/ FinalChunk /\ Finish(Ambiguous)
               \/ ~FinalChunk /\ (StartQuery \/ Finish(Failed("network")))
            /\ UNCHANGED overlooked

\* A 4xx: this chunk is not stored, but an earlier copy of it may arrive.
SendRefused(c) == /\ Sending /\ c # "server"
                  /\ Finish(Failed(CategoryOf[c])) /\ overlooked' = finalSent
                  /\ UNCHANGED platform

\* The transport raised something that is no connection loss, or another 5xx.
SendRaised == /\ Sending /\ Underway
              /\ Finish(Failed("network")) /\ overlooked' = FinalChunk

Asking == pc = "query" /\ UNCHANGED <<platform, finalSent>>

QueryIncomplete ==                                      \* 308
  /\ Asking
  /\ \E range \in Ranges :
       AdvanceConfirmedHighWater(ResumeOffset(range), FinalChunk)
  /\ UNCHANGED overlooked

QueryComplete ==                                        \* 2xx
  /\ Asking /\ Complete
  /\ \/ Finish(Submitted) /\ UNCHANGED overlooked
     \/ Finish(Ambiguous) /\ UNCHANGED overlooked
     \/ Finish(Failed("network")) /\ overlooked' = TRUE

QueryGivesUpAsAmbiguous == Finish(Ambiguous)                        \* mutant
QueryGivesUp == Finish(IF FinalChunk THEN Ambiguous ELSE Failed("network"))

QueryLostOnceMore ==                                                \* mutant
  /\ Asking
  /\ IF tries + 1 <= MaxResume
       THEN tries' = tries + 1 /\ UNCHANGED <<pc, high, stalled, result>>
       ELSE QueryGivesUp
  /\ UNCHANGED overlooked

QueryLost ==
  /\ Asking
  /\ IF tries + 1 < MaxResume
       THEN tries' = tries + 1 /\ UNCHANGED <<pc, high, stalled, result>>
       ELSE QueryGivesUp
  /\ UNCHANGED overlooked

QueryUnreadable == /\ Asking
                   /\ QueryGivesUp
                   /\ UNCHANGED overlooked

\* A 4xx, another 5xx, or a transport that raised something that is no
\* connection loss: final_chunk_was_sent is not looked at here.
QueryRefused(c) == /\ Asking
                   /\ Finish(Failed(CategoryOf[c])) /\ overlooked' = FinalChunk

Client == \/ Initiate
          \/ SendIncomplete \/ SendComplete \/ SendLost \/ SendTorn \/ SendRaised
          \/ QueryIncomplete \/ QueryComplete \/ QueryLost \/ QueryUnreadable
          \/ \E c \in Refusals : SendRefused(c) \/ QueryRefused(c)

Next == Client \/ Arrive \/ Forget

Spec == Init /\ [][Next]_vars

\* Every request has a timeout, so the client always gets on.
FairSpec == Spec /\ WF_vars(Client)
----------------------------------------------------------------------------
\* Types of all variables.
TypeOK ==
  /\ pc \in {"initiate", "send", "query", "done"}
  /\ high \in 0..(MediaSize - 1) /\ stalled \in 0..(MaxResume - 1)
  /\ tries \in 0..(MaxResume - 1)
  /\ result \in Results
  /\ stored \in 0..MediaSize /\ everStored \in stored..MediaSize
  /\ inflight \subseteq (0..MediaSize) \X (0..MediaSize)
  /\ forgets \in 0..MaxForgets /\ finalSent \in BOOLEAN /\ overlooked \in BOOLEAN

\* The client never skips bytes: what it takes as confirmed was stored once,
\* whatever Range headers lag, regress or are missing (api_adapters.py:840-868).
BytesConfirmed == high <= everStored

\* Lost answers, status queries that go unanswered, Range headers that make no
\* progress, and refusals before the last chunk was sent never turn an upload
\* that became a video, or still can, into a failure, which the orchestrator may
\* retry (api_adapters.py:858-862, 924-931, 982-999).  The exceptions are the
\* endings that the code does not distinguish, once the last chunk may have
\* arrived: a status query refused or raising (895-898, 924), a resent chunk
\* refused (1040), another exception or 5xx (970-972), an answer without an id
\* (807-808).
MayBeComplete == Complete \/ \E c \in inflight : c[2] = MediaSize
LossIsNoFailure == result.status = "failed" /\ ~overlooked => ~MayBeComplete

\* Without the exceptions: a failed upload is no video and does not become one.
\* The program does not keep to this (ResumableUpload_failed.cfg).
FailureIsNoVideo == result.status = "failed" => ~MayBeComplete

\* An upload is ambiguous only after its last chunk was sent: before that it
\* cannot be a video, and may be retried (api_adapters.py:858-865, 924-931).
AmbiguousAfterFinal == result.status = "unknown" => finalSent

\* The upload ends: each answer makes progress or uses up a budget
\* (api_adapters.py:847-868, 880-931).
UploadEnds == <>(pc = "done")
============================================================================
