--------------------------- MODULE BrowserPublish ---------------------------
(***************************************************************************)
(* BrowserPublisher.publish of publishing/browser_adapters.py behind       *)
(* AdapterRegistry.publish: one request, published through the pages of a  *)
(* site that may raise on every call, never answer in time, keep evidence  *)
(* of an earlier post on display, or show evidence of this one at any      *)
(* time, or never.                                                         *)
(*                                                                         *)
(* The controls are driven in the order of Plan.  The click on the last    *)
(* one makes the post or not, whatever the click seems to do.  Time is     *)
(* counted from that click.                                                *)
(***************************************************************************)
EXTENDS Integers, Sequences

CONSTANTS Requests,         \* subset of RequestSpace
          EvidenceTimeout,  \* evidence_timeout, in ticks
          PollInterval,     \* evidence_poll_interval
          LookTime,         \* a look at the page, or waking up, takes at most this
          LateEvidence      \* the site may first show an earlier post after the click

Platforms         == {"instagram", "tiktok", "youtube", "x", "facebook", "threads"}
SchedulePlatforms == {"tiktok", "youtube", "facebook"}

RequestSpace == [platform : Platforms, scheduled : BOOLEAN, dry_run : BOOLEAN]

ASSUME BrowserConstants ==
  /\ Requests \subseteq RequestSpace
  /\ EvidenceTimeout \in Nat \ {0} /\ PollInterval \in Nat \ {0} /\ LookTime \in Nat
  /\ LateEvidence \in BOOLEAN

\* The controls between the identity check and the final click, in order: the
\* phases of _BrowserFlowPlan around upload, details, visibility and schedule.
OpenUpload(p)  == CASE p \in {"instagram", "threads"} -> <<"create">>
                    [] p = "youtube" -> <<"create", "upload_videos">>
                    [] OTHER -> <<>>
AfterUpload(p) == CASE p = "instagram" -> <<"advance", "advance">>
                    [] p = "x" -> <<"processing">>
                    [] OTHER -> <<>>
Wizard(p)      == IF p = "youtube"
                  THEN <<"wizard_next", "wizard_next", "wizard_next", "visibility">>
                  ELSE <<>>
Timing(r)      == IF r.scheduled THEN <<"schedule">> ELSE <<>>

Plan(r) == OpenUpload(r.platform) \o <<"upload">> \o AfterUpload(r.platform)
             \o <<"details">> \o Wizard(r.platform) \o Timing(r)

\* What a call can raise, and the category the contract gives it.
Raised == {"network", "permission", "value", "ui", "dependency", "other"}

NormalizedCategory(e) == CASE e = "network"    -> "network"
                           [] e = "permission" -> "authentication"
                           [] e = "value"      -> "validation"
                           [] OTHER            -> "internal"

FailureCategory(e) == CASE e = "dependency" -> "dependency"
                        [] e = "ui"         -> "platform_ui"
                        [] OTHER            -> NormalizedCategory(e)

VARIABLES request, pc,
          at,        \* index in Plan(request) of the next control
          composer,  \* what the site's composer holds of the request
          clicked,   \* submit_clicked
          posted,    \* the site made a post of the composer
          page,      \* evidence on display, by source
          previous,  \* evidence in the snapshot before the click
          now, since, \* the clock, and since when telling evidence of the post is shown
          result

vars == <<request, pc, at, composer, clicked, posted, page, previous, now, since, result>>

Result(status, category) == [status |-> status, category |-> category]
NoResult == Result("none", "")

\* A text that matches the site's pattern, or none.  The wording of a confirmation
\* is the site's and fits every post; a link or an id names its post.
Sources == {"confirmation", "permalink", "platform_id", "current_url"}
Blank   == [text |-> "", mine |-> FALSE]

Evidence(s) == {Blank} \cup
  IF s = "confirmation" THEN [text : {"done", "pending"}, mine : BOOLEAN]
  ELSE {[text |-> "earlier", mine |-> FALSE], [text |-> "own", mine |-> TRUE]}

Displays == {p \in [Sources -> UNION {Evidence(s) : s \in Sources}] :
               \A s \in Sources : p[s] \in Evidence(s)}

Never    == -1

\* At the start the page shows nothing or an earlier post.
Init == /\ request \in Requests /\ pc = "route"
        /\ at = 1 /\ composer = {} /\ clicked = FALSE /\ posted = FALSE
        /\ page \in {p \in Displays : \A s \in Sources : ~p[s].mine}
        /\ request.scheduled => page["current_url"] = Blank
        /\ previous = [s \in Sources |-> Blank]
        /\ now = 0 /\ since = Never /\ result = NoResult

End(r) == pc' = "done" /\ result' = r

\* Beside the control flow an action changes what it names itself.
Idle == UNCHANGED <<request, composer, clicked, posted, previous, since>>

----------------------------------------------------------------------------
\* Before the composer is touched.  The registry validates, and the adapter
\* validates again: what changed in between blocks, what raises then fails.

Acceptable == request.scheduled => request.platform \in SchedulePlatforms

Route ==
  /\ pc = "route"
  /\ \/ Acceptable /\ pc' = "validate" /\ UNCHANGED result
     \/ \E c \in {"configuration", "validation"} : End(Result("blocked", c))
     \/ \E e \in Raised : End(Result("blocked", NormalizedCategory(e)))
  /\ Idle /\ UNCHANGED <<at, page, now>>

Validate ==
  /\ pc = "validate"
  /\ \/ Acceptable /\ pc' = "probe" /\ UNCHANGED result
     \/ \E c \in {"configuration", "validation"} : End(Result("blocked", c))
     \/ \E e \in Raised : End(Result("failed", NormalizedCategory(e)))
  /\ Idle /\ UNCHANGED <<at, page, now>>

\* probe_identity: none configured, none shown, or another one.
IdentityCategories == {"configuration", "authentication", "identity_mismatch"}

\* probe_auth, which may find the session logged out, and the comparison with the
\* configured identity.
Probe ==
  /\ pc = "probe"
  /\ \/ /\ pc' = (IF request.dry_run THEN "controls" ELSE "compose")
        /\ UNCHANGED result
     \/ \E c \in {"authentication"} \cup IdentityCategories : End(Result("blocked", c))
     \/ \E e \in Raised : End(Result("blocked", NormalizedCategory(e)))
  /\ Idle /\ UNCHANGED <<at, page, now>>

DryRunControls ==
  /\ pc = "controls"
  /\ \E r \in {Result("skipped", ""), Result("blocked", "platform_ui"),
               Result("failed", "platform_ui")} : End(r)
  /\ Idle /\ UNCHANGED <<at, page, now>>

----------------------------------------------------------------------------
\* The composer, the snapshot and the click.

Raise(e) == End(IF clicked THEN Result("unknown", "ambiguous_submit")
                           ELSE Result("failed", FailureCategory(e)))

Apply ==
  /\ pc = "compose" /\ at <= Len(Plan(request))
  /\ composer' = composer \cup {Plan(request)[at]} /\ at' = at + 1
  /\ UNCHANGED <<request, pc, clicked, posted, page, previous, now, since, result>>

Snapshot ==
  /\ pc = "compose" /\ at > Len(Plan(request))
  /\ previous' = page /\ pc' = "submit"
  /\ UNCHANGED <<request, at, composer, clicked, posted, page, now, since, result>>

ClickThenMark ==
  /\ pc = "submit" /\ posted' \in BOOLEAN
  /\ \/ clicked' = TRUE /\ pc' = "look" /\ UNCHANGED result
     \/ clicked' = FALSE /\ \E e \in Raised : Raise(e)
  /\ UNCHANGED <<request, at, composer, page, previous, now, since>>

\* The mark is set before the click, which may raise and have worked.
Click ==
  /\ pc = "submit"
  /\ clicked' = TRUE /\ posted' \in BOOLEAN
  /\ \/ pc' = "look" /\ UNCHANGED result
     \/ End(Result("unknown", "ambiguous_submit"))
  /\ UNCHANGED <<request, at, composer, page, previous, now, since>>

\* Any call to the page but the click.
PageRaises ==
  /\ pc \in {"compose", "look"}
  /\ \E e \in Raised : Raise(e)
  /\ Idle /\ UNCHANGED <<at, page, now>>

----------------------------------------------------------------------------
\* Waiting for evidence.

FreshWithoutSnapshot(s) == page[s].text # ""

\* What counts: it matches the site's pattern and is not the text of the snapshot.
Fresh(s) == page[s].text \notin {"", previous[s].text}
Found == \E s \in Sources : Fresh(s)

Outcome ==
  IF request.scheduled THEN "scheduled"
  ELSE IF \/ Fresh("confirmation") /\ page["confirmation"].text = "pending"
          \/ ~Fresh("confirmation") /\ request.platform \in {"tiktok", "youtube", "facebook"}
       THEN "submitted" ELSE "published"

Look ==
  /\ pc = "look"
  /\ IF Found THEN End(Result(Outcome, "")) ELSE pc' = "check" /\ UNCHANGED result
  /\ Idle /\ UNCHANGED <<at, page, now>>

TimeUpForAnotherLook == now' + PollInterval >= EvidenceTimeout
TimeUpOnlyAfter == now' > EvidenceTimeout

\* The clock is read after the look, and the last sleep ends at the deadline.
TimeUp == now' >= EvidenceTimeout
SleepFor == LET left == EvidenceTimeout - now IN
            IF PollInterval < left THEN PollInterval ELSE left

CheckDeadline ==
  /\ pc = "check"
  /\ \E late \in 0..LookTime : now' = now + late
  /\ IF TimeUp THEN End(Result("unknown", "ambiguous_submit"))
               ELSE pc' = "sleep" /\ UNCHANGED result
  /\ Idle /\ UNCHANGED <<at, page>>

Sleep ==
  /\ pc = "sleep"
  /\ \E late \in 0..LookTime : now' = now + SleepFor + late
  /\ pc' = "look"
  /\ Idle /\ UNCHANGED <<at, page, result>>

----------------------------------------------------------------------------
\* The site.  A source changes at any time; evidence of the post needs the post, a
\* scheduled one has no current link, and evidence of an earlier post that was not
\* on display at the snapshot comes up afterwards only where LateEvidence says so.

Snapped == pc \in {"submit", "look", "check", "sleep"}

\* The source shows this post, in another text than was there before.
Telling(s) == page[s].mine /\ page[s].text # previous[s].text

PageChanges ==
  /\ pc # "done"
  /\ \E s \in Sources : \E v \in Evidence(s) \ {page[s]} :
       /\ v.mine => posted
       /\ v # Blank /\ ~v.mine => LateEvidence \/ previous[s] = v \/ ~Snapped
       /\ s = "current_url" /\ request.scheduled => v = Blank
       /\ page' = [page EXCEPT ![s] = v]
  /\ UNCHANGED <<request, pc, at, composer, clicked, posted, previous, now, result>>
  /\ since' = IF ~\E s \in Sources : Telling(s)' THEN Never
              ELSE IF since = Never THEN now ELSE since

Adapter == \/ Route \/ Validate \/ Probe \/ DryRunControls
           \/ Apply \/ Snapshot \/ Click \/ PageRaises
           \/ Look \/ CheckDeadline \/ Sleep

Next == Adapter \/ PageChanges \/ (pc = "done" /\ UNCHANGED vars)

Spec == Init /\ [][Next]_vars /\ WF_vars(Adapter)

----------------------------------------------------------------------------

TypeOK ==
  /\ request \in Requests /\ at \in Nat \ {0}
  /\ pc \in {"route", "validate", "probe", "controls", "compose", "submit",
             "look", "check", "sleep", "done"}
  /\ composer \subseteq {"create", "upload_videos", "advance", "processing", "upload",
                         "details", "wizard_next", "visibility", "schedule"}
  /\ clicked \in BOOLEAN /\ posted \in BOOLEAN
  /\ page \in Displays /\ previous \in Displays
  /\ now \in Nat /\ since \in Nat \cup {Never}
  /\ result.status \in {"none", "blocked", "failed", "skipped", "unknown",
                       "published", "submitted", "scheduled"}
  /\ (pc = "done") <=> (result.status # "none")

\* A result that permits another attempt (failed, blocked, skipped) is never given
\* for a request the site has posted, whatever raised where.
NoPostReportedAsSafe == result.status \in {"failed", "blocked", "skipped"} => ~posted

\* Success is reported only of a post the site made of this request: with its
\* media, its text and, when a time was asked for, with it; a schedule is reported
\* as such.  Evidence of an earlier post that was on display proves nothing.
SuccessIsOurs ==
  result.status \in {"published", "submitted", "scheduled"} =>
    /\ posted /\ ~request.dry_run /\ {"upload", "details"} \subseteq composer
    /\ request.scheduled <=> "schedule" \in composer
    /\ request.scheduled <=> result.status = "scheduled"

\* The wait does not give up on evidence of the post that differs in its text from
\* what the source showed before the click and has been on display since before
\* the last look: that look is at the deadline.  A confirmation in the words
\* of an earlier one is no such evidence: the wait ends in "unknown" although it
\* is there.
EvidenceInTimeCounts ==
  [][pc = "check" /\ pc' = "done" => since = Never \/ since >= EvidenceTimeout - LookTime]_vars

\* Every call of publish ends with a result.
PublishEnds == <>(pc = "done")
=============================================================================
