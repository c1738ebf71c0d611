----------------------- MODULE ResumableUpload_proofs -----------------------
(***************************************************************************)
(* ResumableUpload for every media size, chunk size and retry limit.  The  *)
(* argument: confirmed_high_water never falls, so once the last chunk was  *)
(* sent, every later chunk is the last one too, and the flag that          *)
(* _upload_resumable hands down, "the final chunk was sent", is right      *)
(* whenever it is used.                                                    *)
(***************************************************************************)
EXTENDS ResumableUpload, TLAPS

\* Until the upload ends there is no result, and at first nothing was sent.
NoResultYet == /\ pc # "done" => result = Pending
               /\ pc = "initiate" => ~finalSent

\* While the upload runs, "the last chunk was sent" is what the chunk in hand
\* says; during a status query it has been sent.
FinalStays == /\ finalSent /\ pc # "done" => FinalChunk
              /\ pc = "query" /\ FinalChunk => finalSent

\* Nobody has the end of the media before the last chunk was sent.
EndWasSent == /\ everStored = MediaSize => finalSent
              /\ \A c \in inflight : c[2] = MediaSize => finalSent

\* After a failure that overlooked nothing, nobody has the end of the media: the
\* last chunk was never sent, or once, and refused.
NoEnd == everStored # MediaSize /\ \A c \in inflight : c[2] # MediaSize
FailedWithoutEnd == result.status = "failed" /\ ~overlooked => NoEnd

IInv == /\ TypeOK /\ BytesConfirmed /\ AmbiguousAfterFinal
        /\ NoResultYet /\ FinalStays /\ EndWasSent /\ FailedWithoutEnd

-----------------------------------------------------------------------------
\* The chunk in hand is not empty and ends within the media.
LEMMA EndBounds ==
  ASSUME TypeOK
  PROVE  /\ End \in 1..MediaSize /\ high < End
         /\ FinalChunk <=> high + ChunkSize >= MediaSize
BY UploadConstants DEF TypeOK, End, FinalChunk, Lesser

\* The platform's share of a chunk: it never has more than the media, and it has
\* the end of the media only if the chunk or what it had before holds it.
LEMMA StoresBounds ==
  ASSUME TypeOK, NEW first \in 0..MediaSize, NEW end \in 0..MediaSize,
         \E n \in Received(first, end) : Stores(n)
  PROVE  /\ stored' \in 0..MediaSize /\ everStored' \in stored'..MediaSize
         /\ everStored' >= everStored
         /\ everStored' = MediaSize => everStored = MediaSize \/ end = MediaSize
<1>1. PICK n \in Received(first, end) : Stores(n)
  OBVIOUS
<1>2. n \in 0..MediaSize /\ (n > stored => n <= end)
  BY UploadConstants DEF TypeOK, Received
<1> QED
  BY <1>1, <1>2, UploadConstants DEF TypeOK, Stores

\* A Range header within what is stored gives an offset within it
\* (_resume_offset).
LEMMA OffsetBounds ==
  ASSUME NEW n \in 0..MediaSize, NEW range \in -1..(n - 1)
  PROVE  ResumeOffset(range) \in 0..n
BY UploadConstants DEF ResumeOffset, Lesser

\* _advance_confirmed_high_water goes on, without giving bytes up, or ends the
\* upload: as ambiguous only if the last chunk was sent or all is confirmed, and
\* as failed only if it was not.
GoesOn(offset) == /\ pc' = "send" /\ result' = result
                  /\ high' \in {high, offset} /\ high' >= high
                  /\ high' \in 0..(MediaSize - 1)
EndsAmbiguous(offset) == /\ pc' = "done" /\ result' = Ambiguous /\ high' = high
                         /\ FinalChunk \/ offset = MediaSize
EndsFailed == /\ pc' = "done" /\ result' = Failed("network") /\ high' = high
              /\ ~FinalChunk
LEMMA Advances ==
  ASSUME TypeOK, NEW offset \in 0..MediaSize,
         AdvanceConfirmedHighWater(offset, FinalChunk)
  PROVE  /\ GoesOn(offset) \/ EndsAmbiguous(offset) \/ EndsFailed
         /\ stalled' \in 0..(MaxResume - 1) /\ tries' \in 0..(MaxResume - 1)
<1>1. CASE offset > high /\ offset < MediaSize
  BY <1>1, UploadConstants DEF TypeOK, AdvanceConfirmedHighWater, GoesOn
<1>2. CASE offset > high /\ offset = MediaSize
  BY <1>2, UploadConstants DEF TypeOK, AdvanceConfirmedHighWater, Finish, EndsAmbiguous
<1>3. CASE offset <= high /\ stalled + 1 < MaxResume
  BY <1>3, UploadConstants DEF TypeOK, AdvanceConfirmedHighWater, GoesOn
<1>4. CASE offset <= high /\ stalled + 1 >= MaxResume
  BY <1>4, UploadConstants
  DEF TypeOK, AdvanceConfirmedHighWater, Finish, EndsAmbiguous, EndsFailed
<1> QED
  BY <1>1, <1>2, <1>3, <1>4, UploadConstants DEF TypeOK

\* The results an upload can end with, and their statuses.
LEMMA ResultsOf ==
  /\ {Pending, Submitted, Ambiguous} \subseteq Results
  /\ \A c \in {"authentication", "rate_limit", "validation", "network"} :
       Failed(c) \in Results
  /\ \A c \in Refusals : Failed(CategoryOf[c]) \in Results
<1>1. /\ "auth" \in Refusals /\ CategoryOf["auth"] = "authentication"
      /\ "limited" \in Refusals /\ CategoryOf["limited"] = "rate_limit"
      /\ "rejected" \in Refusals /\ CategoryOf["rejected"] = "validation"
      /\ "server" \in Refusals /\ CategoryOf["server"] = "network"
  BY DEF CategoryOf, Refusals
<1> QED
  BY <1>1 DEF Results

LEMMA Statuses ==
  /\ Pending.status = "none" /\ Submitted.status = "submitted"
  /\ Ambiguous.status = "unknown" /\ \A c : Failed(c).status = "failed"
BY DEF Pending, Submitted, Ambiguous, Failed

\* Sending a chunk records the last one, and forgets nothing.
LEMMA Recorded ==
  ASSUME TypeOK, finalSent' = (finalSent \/ FinalChunk)
  PROVE  /\ finalSent' \in BOOLEAN /\ (finalSent => finalSent')
         /\ (FinalChunk => finalSent') /\ (finalSent' => finalSent \/ FinalChunk)
BY Zenon

\* Before the last chunk was sent, nobody has the end of the media.
LEMMA NotSentNoEnd ==
  /\ EndWasSent /\ ~finalSent => NoEnd
  /\ EndWasSent' /\ ~finalSent' => NoEnd'
BY DEF EndWasSent, NoEnd

\* The initial state satisfies the inductive invariant.
LEMMA InitInv == Init => IInv
<1> SUFFICES ASSUME Init PROVE IInv
  OBVIOUS
<1>1. TypeOK
  <2>1. result \in Results
    BY ResultsOf DEF Init
  <2>2. /\ pc \in {"initiate", "send", "query", "done"}
        /\ inflight \subseteq (0..MediaSize) \X (0..MediaSize)
        /\ finalSent \in BOOLEAN /\ overlooked \in BOOLEAN
    BY DEF Init
  <2>3. /\ high \in 0..(MediaSize - 1) /\ stalled \in 0..(MaxResume - 1)
        /\ tries \in 0..(MaxResume - 1) /\ forgets \in 0..MaxForgets
        /\ stored \in 0..MediaSize /\ everStored \in stored..MediaSize
    BY UploadConstants DEF Init
  <2> QED
    BY <2>1, <2>2, <2>3 DEF TypeOK
<1>2. BytesConfirmed /\ AmbiguousAfterFinal /\ FailedWithoutEnd
  BY Statuses DEF Init, BytesConfirmed, AmbiguousAfterFinal, FailedWithoutEnd
<1>3. NoResultYet /\ FinalStays /\ EndWasSent
  BY UploadConstants DEF Init, NoResultYet, FinalStays, EndWasSent
<1> QED
  BY <1>1, <1>2, <1>3 DEF IInv

\* Every step preserves the inductive invariant.
LEMMA IInvStep == IInv /\ [Next]_vars => IInv'
<1> SUFFICES ASSUME IInv, [Next]_vars PROVE IInv'
  OBVIOUS
<1> USE Statuses, NotSentNoEnd
<1>0. TypeOK /\ BytesConfirmed /\ NoResultYet /\ FinalStays /\ EndWasSent
  BY DEF IInv
<1>e. End \in 1..MediaSize /\ high < End /\ (FinalChunk <=> high + ChunkSize >= MediaSize)
  BY <1>0, EndBounds
<1>1. CASE Initiate
  <2>1. TypeOK'
    BY <1>0, <1>1, UploadConstants, ResultsOf
    DEF TypeOK, Initiate, Finish, platform
  <2> QED
    BY <1>0, <1>1, <2>1, UploadConstants
    DEF IInv, TypeOK, Initiate, Finish, platform, BytesConfirmed, AmbiguousAfterFinal,
        NoResultYet, FinalStays, EndWasSent, FailedWithoutEnd, NoEnd, FinalChunk, End, Lesser
<1>2. CASE SendIncomplete
  <2>1. \E n \in Received(high, End) : Stores(n)
    BY <1>2 DEF SendIncomplete, Delivered
  <2>2. high \in 0..MediaSize /\ End \in 0..MediaSize
    BY <1>0, <1>e, UploadConstants DEF TypeOK
  <2>3. /\ stored' \in 0..MediaSize /\ everStored' \in stored'..MediaSize
        /\ everStored' >= everStored
        /\ everStored' = MediaSize => everStored = MediaSize \/ End = MediaSize
    BY <1>0, <2>1, <2>2, StoresBounds
  <2>4. PICK range \in -1..(stored' - 1) :
               AdvanceConfirmedHighWater(ResumeOffset(range), FinalChunk)
    BY <1>2 DEF SendIncomplete
  <2>5. ResumeOffset(range) \in 0..stored' /\ ResumeOffset(range) \in 0..MediaSize
    <3>1. ResumeOffset(range) \in 0..stored'
      BY <2>3, OffsetBounds
    <3> QED
      BY <2>3, <3>1, UploadConstants
  <2>6. /\ GoesOn(ResumeOffset(range)) \/ EndsAmbiguous(ResumeOffset(range)) \/ EndsFailed
        /\ stalled' \in 0..(MaxResume - 1) /\ tries' \in 0..(MaxResume - 1)
    BY <1>0, <2>4, <2>5, Advances
  <2>7. /\ pc = "send" /\ finalSent' = (finalSent \/ FinalChunk)
        /\ UNCHANGED <<inflight, forgets, overlooked>>
    BY <1>2 DEF SendIncomplete, Sending, Delivered
  <2>8. TypeOK'
    BY <1>0, <2>3, <2>5, <2>6, <2>7, ResultsOf DEF TypeOK, GoesOn, EndsAmbiguous, EndsFailed, FinalChunk
  <2>9. EndWasSent' /\ (End = MediaSize => finalSent')
    BY <1>0, <2>3, <2>7 DEF EndWasSent, FinalChunk
  <2>10. FinalStays'
    BY <1>0, <1>e, <2>6, <2>7, UploadConstants
    DEF FinalStays, GoesOn, EndsAmbiguous, EndsFailed, TypeOK, FinalChunk, End, Lesser
  <2>11. BytesConfirmed' /\ NoResultYet'
    BY <1>0, <2>3, <2>5, <2>6, <2>7 DEF BytesConfirmed, NoResultYet, GoesOn, EndsAmbiguous, EndsFailed, TypeOK
  <2>12. ResumeOffset(range) = MediaSize => finalSent'
    BY <2>3, <2>5, <2>9, UploadConstants DEF EndWasSent
  <2>13. AmbiguousAfterFinal' /\ FailedWithoutEnd'
    BY <1>0, <2>6, <2>7, <2>9, <2>12
    DEF AmbiguousAfterFinal, FailedWithoutEnd, NoResultYet, FinalStays, FinalChunk,
        GoesOn, EndsAmbiguous, EndsFailed
  <2> QED
    BY <2>8, <2>9, <2>10, <2>11, <2>13 DEF IInv
<1>3. CASE SendComplete
  <2>1. \E n \in Received(high, End) : Stores(n)
    BY <1>3 DEF SendComplete, Delivered
  <2>2. high \in 0..MediaSize /\ End \in 0..MediaSize
    BY <1>0, <1>e, UploadConstants DEF TypeOK
  <2>3. /\ stored' \in 0..MediaSize /\ everStored' \in stored'..MediaSize
        /\ everStored' >= everStored
        /\ everStored' = MediaSize => everStored = MediaSize \/ End = MediaSize
    BY <1>0, <2>1, <2>2, StoresBounds
  <2>4. /\ pc = "send" /\ finalSent' = (finalSent \/ FinalChunk) /\ pc' = "done"
        /\ UNCHANGED <<inflight, forgets, high, stalled, tries>>
        /\ stored' = MediaSize /\ overlooked' \in BOOLEAN
        /\ result' \in {Submitted, Ambiguous, Failed("network")}
        /\ result' = Failed("network") => overlooked' = TRUE
    BY <1>0, <1>3 DEF SendComplete, Sending, Delivered, Finish, TypeOK
  <2>5. TypeOK'
    BY <1>0, <2>3, <2>4, ResultsOf DEF TypeOK, FinalChunk
  <2>6. EndWasSent' /\ finalSent'
    BY <1>0, <2>3, <2>4, Recorded DEF EndWasSent, FinalChunk
  <2>7. BytesConfirmed'
    BY <1>0, <2>3, <2>4 DEF BytesConfirmed, TypeOK
  <2>8. AmbiguousAfterFinal' /\ NoResultYet' /\ FinalStays' /\ FailedWithoutEnd'
    BY <2>4, <2>6 DEF AmbiguousAfterFinal, NoResultYet, FinalStays, FailedWithoutEnd
  <2> QED
    BY <2>5, <2>6, <2>7, <2>8 DEF IInv
<1>4. CASE SendLost
  <2>1. /\ pc = "send" /\ finalSent' = (finalSent \/ FinalChunk) /\ pc' = "query"
        /\ inflight' = inflight \cup {<<high, End>>} /\ tries' = 0
        /\ UNCHANGED <<stored, everStored, forgets, high, stalled, result, overlooked>>
    BY <1>4 DEF SendLost, Sending, Underway, StartQuery
  <2>2. TypeOK'
    BY <1>0, <1>e, <2>1, UploadConstants DEF TypeOK, FinalChunk
  <2>3. EndWasSent'
    BY <1>0, <2>1, Recorded DEF EndWasSent, FinalChunk
  <2>4. BytesConfirmed' /\ (FinalChunk' <=> FinalChunk)
    BY <1>0, <2>1 DEF BytesConfirmed, FinalChunk, End
  <2>5. AmbiguousAfterFinal' /\ FailedWithoutEnd'
    BY <1>0, <2>1, <2>3 DEF AmbiguousAfterFinal, FailedWithoutEnd, NoResultYet, FinalStays
  <2>6. NoResultYet' /\ FinalStays'
    BY <1>0, <2>1, <2>4 DEF NoResultYet, FinalStays
  <2> QED
    BY <2>2, <2>3, <2>4, <2>5, <2>6 DEF IInv
<1>5. CASE SendTorn
  <2>1. /\ pc = "send" /\ finalSent' = (finalSent \/ FinalChunk)
        /\ inflight' = inflight \cup {<<high, End>>}
        /\ UNCHANGED <<stored, everStored, forgets, high, stalled, overlooked>>
        /\ \/ FinalChunk /\ pc' = "done" /\ result' = Ambiguous /\ tries' = tries
           \/ ~FinalChunk /\ pc' = "query" /\ result' = result /\ tries' = 0
           \/ ~FinalChunk /\ pc' = "done" /\ result' = Failed("network") /\ tries' = tries
    BY <1>5 DEF SendTorn, Sending, Underway, StartQuery, Finish
  <2>2. TypeOK'
    BY <1>0, <1>e, <2>1, UploadConstants, ResultsOf DEF TypeOK, FinalChunk
  <2>3. EndWasSent'
    BY <1>0, <2>1, Recorded DEF EndWasSent, FinalChunk
  <2>4. BytesConfirmed' /\ (FinalChunk' <=> FinalChunk)
    BY <1>0, <2>1 DEF BytesConfirmed, FinalChunk, End
  <2>5. AmbiguousAfterFinal' /\ FailedWithoutEnd'
    BY <1>0, <2>1, <2>3 DEF AmbiguousAfterFinal, FailedWithoutEnd, NoResultYet, FinalStays
  <2>6. NoResultYet' /\ FinalStays'
    BY <1>0, <2>1, <2>4 DEF NoResultYet, FinalStays
  <2> QED
    BY <2>2, <2>3, <2>4, <2>5, <2>6 DEF IInv
<1>6. CASE SendRaised
  <2>1. /\ pc = "send" /\ finalSent' = (finalSent \/ FinalChunk) /\ pc' = "done"
        /\ inflight' = inflight \cup {<<high, End>>}
        /\ UNCHANGED <<stored, everStored, forgets, high, stalled, tries>>
        /\ result' = Failed("network") /\ overlooked' = FinalChunk
    BY <1>6 DEF SendRaised, Sending, Underway, Finish
  <2>2. TypeOK'
    BY <1>0, <1>e, <1>6, <2>1, UploadConstants, ResultsOf
    DEF TypeOK, FinalChunk, SendRaised
  <2>3. EndWasSent'
    BY <1>0, <2>1, Recorded DEF EndWasSent, FinalChunk
  <2>4. FailedWithoutEnd'
    BY <1>0, <2>1, <2>3 DEF FailedWithoutEnd, FinalStays, FinalChunk
  <2> QED
    BY <1>0, <2>1, <2>2, <2>3, <2>4
    DEF IInv, BytesConfirmed, AmbiguousAfterFinal, NoResultYet, FinalStays
<1>7. CASE QueryIncomplete
  <2>1. PICK range \in -1..(stored - 1) :
               AdvanceConfirmedHighWater(ResumeOffset(range), FinalChunk)
    BY <1>7 DEF QueryIncomplete, Ranges
  <2>2. ResumeOffset(range) \in 0..stored /\ ResumeOffset(range) \in 0..MediaSize
    BY <1>0, OffsetBounds, UploadConstants DEF TypeOK
  <2>3. /\ GoesOn(ResumeOffset(range)) \/ EndsAmbiguous(ResumeOffset(range)) \/ EndsFailed
        /\ stalled' \in 0..(MaxResume - 1) /\ tries' \in 0..(MaxResume - 1)
    BY <1>0, <2>1, <2>2, Advances
  <2>4. /\ pc = "query"
        /\ UNCHANGED <<stored, inflight, forgets, everStored, finalSent, overlooked>>
    BY <1>7 DEF QueryIncomplete, Asking, platform
  <2>5. TypeOK'
    BY <1>0, <2>3, <2>4, ResultsOf DEF TypeOK, GoesOn, EndsAmbiguous, EndsFailed
  <2>6. FinalStays'
    BY <1>0, <1>e, <2>3, <2>4, UploadConstants
    DEF FinalStays, GoesOn, EndsAmbiguous, EndsFailed, TypeOK, FinalChunk, End, Lesser
  <2>7. BytesConfirmed' /\ NoResultYet' /\ EndWasSent'
    BY <1>0, <2>2, <2>3, <2>4
    DEF BytesConfirmed, NoResultYet, EndWasSent, GoesOn, EndsAmbiguous, EndsFailed, TypeOK
  <2>8. ResumeOffset(range) = MediaSize => finalSent
    BY <1>0, <2>2, UploadConstants DEF EndWasSent, TypeOK
  <2>9. AmbiguousAfterFinal' /\ FailedWithoutEnd'
    BY <1>0, <2>3, <2>4, <2>7, <2>8
    DEF AmbiguousAfterFinal, FailedWithoutEnd, NoResultYet, FinalStays,
        GoesOn, EndsAmbiguous, EndsFailed
  <2> QED
    BY <2>5, <2>6, <2>7, <2>9 DEF IInv
<1>8. CASE QueryComplete
  <2>1. /\ pc = "query" /\ pc' = "done" /\ stored = MediaSize
        /\ UNCHANGED <<stored, inflight, forgets, everStored, finalSent,
                       high, stalled, tries>>
        /\ result' \in {Submitted, Ambiguous, Failed("network")}
        /\ result' = Failed("network") => overlooked'
        /\ overlooked' \in BOOLEAN
    BY <1>0, <1>8 DEF QueryComplete, Asking, platform, Finish, Complete, TypeOK
  <2>2. finalSent
    BY <1>0, <2>1, UploadConstants DEF EndWasSent, TypeOK
  <2>3. TypeOK'
    BY <1>0, <2>1, ResultsOf DEF TypeOK
  <2> QED
    BY <1>0, <2>1, <2>2, <2>3
    DEF IInv, BytesConfirmed, AmbiguousAfterFinal, NoResultYet, FinalStays,
        EndWasSent, FailedWithoutEnd, NoEnd
<1>9. CASE QueryLost
  <2>1. /\ pc = "query"
        /\ UNCHANGED <<stored, inflight, forgets, everStored, finalSent, overlooked,
                       high, stalled>>
        /\ tries' \in 0..(MaxResume - 1)
        /\ \/ pc' = "query" /\ result' = result
           \/ pc' = "done" /\ FinalChunk /\ result' = Ambiguous
           \/ pc' = "done" /\ ~FinalChunk /\ result' = Failed("network")
    BY <1>0, <1>9, UploadConstants
    DEF QueryLost, Asking, platform, QueryGivesUp, Finish, TypeOK
  <2>2. TypeOK'
    BY <1>0, <2>1, ResultsOf DEF TypeOK
  <2> QED
    BY <1>0, <2>1, <2>2
    DEF IInv, BytesConfirmed, AmbiguousAfterFinal, NoResultYet, FinalStays,
        EndWasSent, FailedWithoutEnd, NoEnd, FinalChunk, End
<1>10. CASE QueryUnreadable
  <2>1. /\ pc = "query" /\ pc' = "done"
        /\ UNCHANGED <<stored, inflight, forgets, everStored, finalSent, overlooked,
                       high, stalled, tries>>
        /\ \/ FinalChunk /\ result' = Ambiguous
           \/ ~FinalChunk /\ result' = Failed("network")
    BY <1>10 DEF QueryUnreadable, Asking, platform, QueryGivesUp, Finish
  <2>2. TypeOK'
    BY <1>0, <2>1, ResultsOf DEF TypeOK
  <2> QED
    BY <1>0, <2>1, <2>2
    DEF IInv, BytesConfirmed, AmbiguousAfterFinal, NoResultYet, FinalStays,
        EndWasSent, FailedWithoutEnd, NoEnd
<1>11. ASSUME NEW c \in Refusals, SendRefused(c) PROVE IInv'
  <2>1. /\ pc = "send" /\ finalSent' = (finalSent \/ FinalChunk) /\ pc' = "done"
        /\ UNCHANGED <<stored, inflight, forgets, everStored, high, stalled, tries>>
        /\ result' = Failed(CategoryOf[c]) /\ overlooked' = finalSent
    BY <1>11 DEF SendRefused, Sending, Finish, platform
  <2>2. TypeOK'
    BY <1>0, <1>11, <2>1, ResultsOf DEF TypeOK, FinalChunk
  <2>3. EndWasSent'
    BY <1>0, <2>1, Recorded DEF EndWasSent, FinalChunk
  <2>4. FailedWithoutEnd'
    BY <1>0, <2>1 DEF FailedWithoutEnd, NoEnd
  <2> QED
    BY <1>0, <2>1, <2>2, <2>3, <2>4
    DEF IInv, BytesConfirmed, AmbiguousAfterFinal, NoResultYet, FinalStays
<1>12. ASSUME NEW c \in Refusals, QueryRefused(c) PROVE IInv'
  <2>1. /\ pc = "query" /\ pc' = "done"
        /\ UNCHANGED <<stored, inflight, forgets, everStored, finalSent, high,
                       stalled, tries>>
        /\ result' = Failed(CategoryOf[c]) /\ overlooked' = FinalChunk
    BY <1>12 DEF QueryRefused, Asking, Finish, platform
  <2>2. TypeOK'
    BY <1>0, <1>12, <2>1, ResultsOf DEF TypeOK, FinalChunk
  <2>3. EndWasSent' /\ FailedWithoutEnd'
    BY <1>0, <2>1 DEF EndWasSent, FailedWithoutEnd, FinalStays, FinalChunk
  <2> QED
    BY <1>0, <2>1, <2>2, <2>3
    DEF IInv, BytesConfirmed, AmbiguousAfterFinal, NoResultYet, FinalStays
<1>13. CASE Arrive
  <2>1. PICK c \in inflight : /\ \E n \in Received(c[1], c[2]) : Stores(n)
                            /\ inflight' = inflight \ {c}
    BY <1>13 DEF Arrive
  <2>2. UNCHANGED <<pc, high, stalled, tries, result, forgets, finalSent, overlooked>>
    BY <1>13 DEF Arrive, client
  <2>3. c[1] \in 0..MediaSize /\ c[2] \in 0..MediaSize /\ (c[2] = MediaSize => finalSent)
    BY <1>0, <2>1 DEF TypeOK, EndWasSent
  <2>4. /\ stored' \in 0..MediaSize /\ everStored' \in stored'..MediaSize
        /\ everStored' >= everStored
        /\ everStored' = MediaSize => everStored = MediaSize \/ c[2] = MediaSize
    BY <1>0, <2>1, <2>3, StoresBounds
  <2>5. TypeOK'
    BY <1>0, <2>1, <2>2, <2>4 DEF TypeOK
  <2>6. EndWasSent'
    BY <1>0, <2>1, <2>2, <2>3, <2>4 DEF EndWasSent
  <2>7. BytesConfirmed'
    BY <1>0, <2>2, <2>4 DEF BytesConfirmed, TypeOK
  <2>8. FailedWithoutEnd'
    BY <1>0, <2>1, <2>2, <2>4 DEF IInv, FailedWithoutEnd, NoEnd
  <2> QED
    BY <2>2, <2>5, <2>6, <2>7, <2>8
    DEF IInv, AmbiguousAfterFinal, NoResultYet, FinalStays, FinalChunk, End
<1>14. CASE Forget
  <2>1. /\ stored' \in 0..(stored - 1) /\ forgets' = forgets + 1 /\ forgets < MaxForgets
        /\ UNCHANGED <<pc, high, stalled, tries, result, inflight, everStored,
                       finalSent, overlooked>>
    BY <1>14 DEF Forget, client
  <2>2. TypeOK'
    BY <1>0, <2>1, UploadConstants DEF TypeOK
  <2> QED
    BY <2>1, <2>2
    DEF IInv, BytesConfirmed, AmbiguousAfterFinal, NoResultYet, FinalStays,
        EndWasSent, FailedWithoutEnd, NoEnd, FinalChunk, End
<1>15. CASE UNCHANGED vars
  BY <1>15 DEF IInv, vars, client, platform, TypeOK, BytesConfirmed,
     AmbiguousAfterFinal, NoResultYet, FinalStays, EndWasSent, FailedWithoutEnd, NoEnd,
     FinalChunk, End
<1> QED
  BY <1>1, <1>2, <1>3, <1>4, <1>5, <1>6, <1>7, <1>8, <1>9, <1>10, <1>11, <1>12,
     <1>13, <1>14, <1>15 DEF Next, Client

-----------------------------------------------------------------------------
\* The inductive invariant holds in every state of an upload.
THEOREM Invariance == Spec => []IInv
BY InitInv, IInvStep, PTL DEF Spec

\* Whatever the sizes and the retry limit: the variables have their types, so
\* the high water stays below the media size while there is something to send,
\* and neither the stalled answers nor the attempts of a query exceed the limit.
THEOREM TypeCorrect == Spec => []TypeOK
<1>1. IInv => TypeOK
  BY DEF IInv
<1> QED
  BY <1>1, Invariance, PTL

\* The client never skips bytes: what it takes as confirmed was once stored,
\* whatever Range headers lag, regress or are missing.
THEOREM BytesConfirmedAlways == Spec => []BytesConfirmed
<1>1. IInv => BytesConfirmed
  BY DEF IInv
<1> QED
  BY <1>1, Invariance, PTL

\* An upload is ambiguous only after its last chunk was sent.
THEOREM AmbiguousAfterFinalAlways == Spec => []AmbiguousAfterFinal
<1>1. IInv => AmbiguousAfterFinal
  BY DEF IInv
<1> QED
  BY <1>1, Invariance, PTL

\* Neither losses nor an earlier refusal turn an upload that became a video, or
\* still can, into a failure, except where the code overlooks that the last chunk
\* may have arrived: after other failures nobody has the end of the media.
THEOREM LossIsNoFailureAlways == Spec => []LossIsNoFailure
<1>1. IInv => LossIsNoFailure
  <2>1. ASSUME IInv, NoEnd PROVE ~MayBeComplete
    BY <2>1, UploadConstants DEF IInv, TypeOK, NoEnd, MayBeComplete, Complete
  <2> QED
    BY <2>1 DEF IInv, FailedWithoutEnd, LossIsNoFailure
<1> QED
  BY <1>1, Invariance, PTL
=============================================================================
