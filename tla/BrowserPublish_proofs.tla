----------------------- MODULE BrowserPublish_proofs -----------------------
(***************************************************************************)
(* BrowserPublish for every set of requests and every timing.  The         *)
(* argument: before the click nothing can have been posted and after it    *)
(* every way out is "unknown" or rests on evidence; evidence of this post  *)
(* needs the post, and an earlier post on display is in the snapshot.      *)
(* The wait misses nothing that was on display before its last look.       *)
(***************************************************************************)
EXTENDS BrowserPublish, TLAPS

BeforeClick == {"route", "validate", "probe", "controls", "compose", "submit"}
Waiting     == {"look", "check", "sleep"}
Successes   == {"published", "submitted", "scheduled"}
SafeToRetry == {"failed", "blocked", "skipped"}

\* The click is behind the adapter exactly while it waits; only a click posts, and
\* no result that permits another attempt comes after it.
ClickBoundary == /\ pc \in BeforeClick => ~clicked
                 /\ pc \in Waiting => clicked
                 /\ posted => clicked
                 /\ result.status \in SafeToRetry => ~clicked

\* The composer holds the controls driven so far, from the snapshot on all of them;
\* a dry run never gets there.
Composed == /\ at \in 1..(Len(Plan(request)) + 1)
            /\ composer = {Plan(request)[k] : k \in 1..(at - 1)}
            /\ pc \in Waiting \cup {"submit"} \/ result.status \in Successes
                 => at = Len(Plan(request)) + 1
            /\ pc \in Waiting \cup {"compose", "submit"} \/ result.status \in Successes
                 => ~request.dry_run

\* What is on display tells this post from an earlier one.
PageTruthful == /\ \A s \in Sources : page[s].mine => posted
                /\ Snapped => \A s \in Sources :
                     page[s] # Blank /\ ~page[s].mine => previous[s] = page[s]

SuccessPosted == result.status \in Successes =>
                   posted /\ (request.scheduled <=> result.status = "scheduled")

SuccessInv == TypeOK /\ Composed /\ PageTruthful /\ SuccessPosted

-----------------------------------------------------------------------------

Controls == {"create", "upload_videos", "advance", "processing", "upload",
             "details", "wizard_next", "visibility", "schedule"}

Has(s, x) == \E k \in 1..Len(s) : s[k] = x

LEMMA HasConcat ==
  ASSUME NEW s \in Seq(Controls), NEW t \in Seq(Controls), NEW x
  PROVE  /\ s \o t \in Seq(Controls)
         /\ Has(s \o t, x) <=> Has(s, x) \/ Has(t, x)
<1>1. /\ s \o t \in Seq(Controls) /\ Len(s \o t) = Len(s) + Len(t)
      /\ \A k \in 1..Len(s) : (s \o t)[k] = s[k]
      /\ \A k \in 1..Len(t) : (s \o t)[k + Len(s)] = t[k]
  OBVIOUS
<1>2. Has(s, x) \/ Has(t, x) => Has(s \o t, x)
  <2>1. Len(s) \in Nat /\ Len(t) \in Nat
    OBVIOUS
  <2>2. CASE Has(s, x)
    BY <1>1, <2>1, <2>2 DEF Has
  <2>3. CASE Has(t, x)
    <3>1. PICK k \in 1..Len(t) : t[k] = x
      BY <2>3 DEF Has
    <3>2. k + Len(s) \in 1..Len(s \o t) /\ (s \o t)[k + Len(s)] = x
      BY <1>1, <2>1, <3>1
    <3> QED
      BY <3>2 DEF Has
  <2> QED
    BY <2>2, <2>3
<1>3. ASSUME Has(s \o t, x), ~Has(s, x) PROVE Has(t, x)
  <2>1. PICK k \in 1..Len(s \o t) : (s \o t)[k] = x
    BY <1>3 DEF Has
  <2>2. k \notin 1..Len(s)
    BY <1>1, <1>3, <2>1 DEF Has
  <2>3. k - Len(s) \in 1..Len(t) /\ t[k - Len(s)] = x
    <3>1. k - Len(s) \in 1..Len(t)
      BY <1>1, <2>1, <2>2
    <3>2. (s \o t)[(k - Len(s)) + Len(s)] = t[k - Len(s)]
      BY <1>1, <3>1
    <3> QED
      BY <2>1, <3>1, <3>2
  <2> QED
    BY <2>3 DEF Has
<1> QED
  BY <1>1, <1>2, <1>3

LEMMA HasShort ==
  ASSUME NEW a \in Controls, NEW x
  PROVE  /\ <<a>> \in Seq(Controls) /\ <<>> \in Seq(Controls)
         /\ Has(<<a>>, x) <=> x = a
         /\ ~Has(<<>>, x)
BY DEF Has

\* A plan uploads, fills in the details, and sets a time exactly when one is asked.
LEMMA PlanIsComplete ==
  ASSUME NEW r \in RequestSpace
  PROVE  /\ Plan(r) \in Seq(Controls)
         /\ Has(Plan(r), "upload") /\ Has(Plan(r), "details")
         /\ r.scheduled <=> Has(Plan(r), "schedule")
<1> DEFINE p == r.platform
           pre  == OpenUpload(p) \o <<"upload">>
           pre2 == pre \o AfterUpload(p)
           pre3 == pre2 \o <<"details">>
           pre4 == pre3 \o Wizard(p)
<1>1. /\ OpenUpload(p) \in Seq(Controls) /\ AfterUpload(p) \in Seq(Controls)
      /\ Wizard(p) \in Seq(Controls) /\ Timing(r) \in Seq(Controls)
  <2>1. \A a, b, c, d \in Controls :
          {<<>>, <<a>>, <<a, b>>, <<a, b, c, d>>} \subseteq Seq(Controls)
    OBVIOUS
  <2>2. OpenUpload(p) \in {<<>>, <<"create">>, <<"create", "upload_videos">>}
    BY DEF OpenUpload
  <2>3. AfterUpload(p) \in {<<>>, <<"advance", "advance">>, <<"processing">>}
    BY DEF AfterUpload
  <2>4. Wizard(p) \in {<<>>, <<"wizard_next", "wizard_next", "wizard_next", "visibility">>}
    BY DEF Wizard
  <2>5. Timing(r) \in {<<>>, <<"schedule">>}
    BY DEF Timing
  <2>6. {"create", "upload_videos", "advance", "processing", "wizard_next",
         "visibility", "schedule"} \subseteq Controls
    BY DEF Controls
  <2> HIDE DEF p
  <2>7. /\ <<>> \in Seq(Controls) /\ <<"create">> \in Seq(Controls)
        /\ <<"create", "upload_videos">> \in Seq(Controls)
        /\ <<"advance", "advance">> \in Seq(Controls)
        /\ <<"processing">> \in Seq(Controls) /\ <<"schedule">> \in Seq(Controls)
        /\ <<"wizard_next", "wizard_next", "wizard_next", "visibility">> \in Seq(Controls)
    BY <2>1, <2>6
  <2> QED
    BY <2>2, <2>3, <2>4, <2>5, <2>7
<1>2. /\ ~Has(OpenUpload(p), "schedule") /\ ~Has(AfterUpload(p), "schedule")
      /\ ~Has(Wizard(p), "schedule")
  BY DEF OpenUpload, AfterUpload, Wizard, Has
<1>3. Has(Timing(r), "schedule") <=> r.scheduled
  BY DEF Timing, Has, RequestSpace
<1>4. \A a \in {"upload", "details"}, x \in {"upload", "details", "schedule"} :
        <<a>> \in Seq(Controls) /\ (Has(<<a>>, x) <=> x = a)
  BY HasShort DEF Controls
<1>5. pre \in Seq(Controls) /\ Has(pre, "upload") /\ ~Has(pre, "schedule")
  BY <1>1, <1>2, <1>4, HasConcat
<1>6. pre2 \in Seq(Controls) /\ Has(pre2, "upload") /\ ~Has(pre2, "schedule")
  BY <1>1, <1>2, <1>5, HasConcat
<1>7. /\ pre3 \in Seq(Controls) /\ Has(pre3, "upload") /\ Has(pre3, "details")
      /\ ~Has(pre3, "schedule")
  BY <1>4, <1>6, HasConcat
<1>8. /\ pre4 \in Seq(Controls) /\ Has(pre4, "upload") /\ Has(pre4, "details")
      /\ ~Has(pre4, "schedule")
  BY <1>1, <1>2, <1>7, HasConcat
<1>9. Plan(r) = pre4 \o Timing(r)
  BY DEF Plan
<1> HIDE DEF pre4
<1> QED
  BY <1>1, <1>3, <1>8, <1>9, HasConcat

-----------------------------------------------------------------------------

\* A result is told by its status.
LEMMA Statuses ==
  NoResult.status = "none" /\ \A s, c : Result(s, c).status = s
BY DEF Result, NoResult

\* What a source can show: nothing, or a text, of this post or not.
LEMMA EvidenceTypes ==
  ASSUME NEW s \in Sources, NEW v \in Evidence(s)
  PROVE  v.mine \in BOOLEAN /\ (v.text = "" => v = Blank) /\ (v = Blank => ~v.mine)
<1>1. Blank.text = "" /\ Blank.mine = FALSE
  BY DEF Blank
<1>2. CASE v = Blank
  BY <1>1, <1>2
<1>3. CASE v \in [text : {"done", "pending"}, mine : BOOLEAN]
  <2>1. v.text \in {"done", "pending"} /\ v.mine \in BOOLEAN
    BY <1>3
  <2>2. v.text # ""
    BY <2>1
  <2> QED
    BY <1>1, <2>1, <2>2
<1>4. CASE v \in {[text |-> "earlier", mine |-> FALSE], [text |-> "own", mine |-> TRUE]}
  <2>1. \/ v.text = "earlier" /\ v.mine = FALSE
        \/ v.text = "own" /\ v.mine = TRUE
    BY <1>4
  <2>2. v.text # "" /\ v.mine \in BOOLEAN
    BY <2>1
  <2> QED
    BY <1>1, <2>2
<1> QED
  BY <1>2, <1>3, <1>4 DEF Evidence

\* Changing one source leads from a display to a display.
LEMMA DisplayChange ==
  ASSUME NEW p \in Displays, NEW s \in Sources, NEW v \in Evidence(s)
  PROVE  /\ [p EXCEPT ![s] = v] \in Displays
         /\ \A t \in Sources : [p EXCEPT ![s] = v][t] = IF t = s THEN v ELSE p[t]
<1>1. v \in UNION {Evidence(t) : t \in Sources}
  OBVIOUS
<1>2. p \in [Sources -> UNION {Evidence(t) : t \in Sources}]
  BY DEF Displays
<1>3. [p EXCEPT ![s] = v] \in [Sources -> UNION {Evidence(t) : t \in Sources}]
  BY <1>1, <1>2
<1>4. \A t \in Sources : [p EXCEPT ![s] = v][t] = IF t = s THEN v ELSE p[t]
  BY <1>2
<1> QED
  BY <1>3, <1>4 DEF Displays

LEMMA BlankDisplay == [s \in Sources |-> Blank] \in Displays
<1>1. \A s \in Sources : Blank \in Evidence(s)
  BY DEF Evidence
<1> QED
  BY <1>1 DEF Displays

LEMMA TypeInit == Init => TypeOK
<1> SUFFICES ASSUME Init PROVE TypeOK
  OBVIOUS
<1>1. page \in Displays /\ previous \in Displays
  BY BlankDisplay DEF Init
<1>2. clicked \in BOOLEAN /\ posted \in BOOLEAN
  BY DEF Init
<1>3. pc # "done" /\ result.status = "none"
  BY Statuses DEF Init
<1>4. /\ request \in Requests /\ pc = "route" /\ at = 1 /\ composer = {}
      /\ now = 0 /\ since = Never
  BY DEF Init
<1> QED
  BY <1>1, <1>2, <1>3, <1>4 DEF TypeOK

\* Every state has its type: the clock, the page and the result in particular.
THEOREM TypeCorrect == Spec => []TypeOK
<1>1. Init => TypeOK
  BY TypeInit
<1>2. ASSUME TypeOK, [Next]_vars PROVE TypeOK'
  <2> USE <1>2 DEF TypeOK
  <2>1. CASE Route
    BY <2>1, Statuses DEF Route, End, Idle
  <2>2. CASE Validate
    BY <2>2, Statuses DEF Validate, End, Idle
  <2>3. CASE Probe
    BY <2>3, Statuses DEF Probe, End, Idle
  <2>4. CASE DryRunControls
    <3>1. pc' = "done" /\ result'.status \in {"skipped", "blocked", "failed"}
      <4>1. PICK r \in {Result("skipped", ""), Result("blocked", "platform_ui"),
                        Result("failed", "platform_ui")} : pc' = "done" /\ result' = r
        BY <2>4 DEF DryRunControls, End
      <4>2. r.status \in {"skipped", "blocked", "failed"}
        BY Statuses
      <4> QED
        BY <4>1, <4>2
    <3>2. UNCHANGED <<request, at, composer, clicked, posted, page, previous, now, since>>
      BY <2>4 DEF DryRunControls, Idle
    <3> QED
      BY <3>1, <3>2
  <2>5. CASE Apply
    <3>0. request \in RequestSpace
      BY BrowserConstants
    <3>1. Plan(request) \in Seq(Controls)
      BY <3>0, PlanIsComplete
    <3>2. Plan(request)[at] \in Controls
      BY <2>5, <3>1 DEF Apply
    <3>3. composer' \subseteq Controls
      BY <2>5, <3>2 DEF Apply, Controls
    <3> QED
      BY <2>5, <3>3 DEF Apply, Controls
  <2>6. CASE Snapshot
    BY <2>6 DEF Snapshot
  <2>7. CASE Click
    <3>1. clicked' \in BOOLEAN /\ posted' \in BOOLEAN
      BY <2>7 DEF Click
    <3>2. /\ pc' \in {"look", "done"} /\ (pc' = "done" <=> result'.status # "none")
          /\ result'.status \in {"none", "unknown"}
      BY <2>7, Statuses DEF Click, End
    <3>3. UNCHANGED <<request, at, composer, page, previous, now, since>>
      BY <2>7 DEF Click
    <3> QED
      BY <3>1, <3>2, <3>3
  <2>8. CASE PageRaises
    BY <2>8, Statuses DEF PageRaises, Raise, End, Idle
  <2>9. CASE Look
    <3>1. \/ pc' = "check" /\ result' = result
          \/ pc' = "done" /\ result'.status \in {"published", "submitted", "scheduled"}
      <4>1. Outcome \in {"published", "submitted", "scheduled"}
        BY DEF Outcome
      <4>2. Result(Outcome, "").status = Outcome
        BY Statuses
      <4> QED
        BY <2>9, <4>1, <4>2 DEF Look, End
    <3>2. UNCHANGED <<request, at, composer, clicked, posted, page, previous, now, since>>
      BY <2>9 DEF Look, Idle
    <3> QED
      BY <2>9, <3>1, <3>2 DEF Look
  <2>10. CASE CheckDeadline
    BY <2>10, Statuses DEF CheckDeadline, End, Idle
  <2>11. CASE Sleep
    <3>1. PICK late \in 0..LookTime : now' = now + SleepFor + late
      BY <2>11 DEF Sleep
    <3>2. now' \in Nat
      BY <3>1, BrowserConstants DEF SleepFor
    <3> QED
      BY <2>11, <3>2 DEF Sleep, Idle
  <2>12. CASE PageChanges
    <3>1. page' \in Displays
      <4>1. PICK s \in Sources : \E v \in Evidence(s) : page' = [page EXCEPT ![s] = v]
        BY <2>12 DEF PageChanges
      <4>2. PICK v \in Evidence(s) : page' = [page EXCEPT ![s] = v]
        BY <4>1
      <4> QED
        BY <4>2, DisplayChange
    <3>2. since' \in Nat \cup {Never}
      BY <2>12 DEF PageChanges
    <3> QED
      BY <2>12, <3>1, <3>2 DEF PageChanges
  <2>13. CASE UNCHANGED vars
    BY <2>13 DEF vars
  <2> QED
    BY <1>2, <2>1, <2>2, <2>3, <2>4, <2>5, <2>6, <2>7, <2>8, <2>9, <2>10, <2>11,
       <2>12, <2>13 DEF Next, Adapter
<1> QED
  BY <1>1, <1>2, PTL DEF Spec

-----------------------------------------------------------------------------

LEMMA ClickBoundaryKept ==
  ASSUME TypeOK, ClickBoundary, [Next]_vars
  PROVE  ClickBoundary'
<1> USE DEF TypeOK, ClickBoundary, BeforeClick, Waiting, SafeToRetry
<1>0. pc # "done" => result.status = "none"
  OBVIOUS
<1>1. CASE Route
  <2>1. UNCHANGED <<clicked, posted>> /\ pc = "route"
    BY <1>1 DEF Route, Idle
  <2>2. pc' \in {"validate", "done"}
    BY <1>1 DEF Route, End
  <2> QED
    BY <2>1, <2>2
<1>2. CASE Validate
  <2>1. UNCHANGED <<clicked, posted>> /\ pc = "validate"
    BY <1>2 DEF Validate, Idle
  <2>2. pc' \in {"probe", "done"}
    BY <1>2 DEF Validate, End
  <2> QED
    BY <2>1, <2>2
<1>3. CASE Probe
  <2>1. UNCHANGED <<clicked, posted>> /\ pc = "probe"
    BY <1>3 DEF Probe, Idle
  <2>2. pc' \in {"controls", "compose", "done"}
    BY <1>3 DEF Probe, End
  <2> QED
    BY <2>1, <2>2
<1>4. CASE DryRunControls
  <2>1. UNCHANGED <<clicked, posted>> /\ pc = "controls"
    BY <1>4 DEF DryRunControls, Idle
  <2>2. pc' = "done"
    BY <1>4 DEF DryRunControls, End
  <2> QED
    BY <2>1, <2>2
<1>5. CASE Apply
  BY <1>5 DEF Apply
<1>6. CASE Snapshot
  BY <1>6 DEF Snapshot
\* The mark comes first: whether or not the click raises, what follows is unknown.
<1>7. CASE Click
  <2>1. clicked' = TRUE /\ pc' \in {"look", "done"} /\ pc = "submit"
    BY <1>7 DEF Click, End
  <2>2. result'.status \in {"none", "unknown"}
    BY <1>0, <1>7, Statuses DEF Click, End
  <2> QED
    BY <2>1, <2>2
<1>8. CASE PageRaises
  <2>1. UNCHANGED <<clicked, posted>> /\ pc' = "done"
    BY <1>8 DEF PageRaises, Raise, End, Idle
  <2>2. clicked => result'.status = "unknown"
    BY <1>8, Statuses DEF PageRaises, Raise, End
  <2> QED
    BY <2>1, <2>2
<1>9. CASE Look
  <2>1. UNCHANGED <<clicked, posted>> /\ pc' \in {"check", "done"} /\ pc = "look"
    BY <1>9 DEF Look, End, Idle
  <2>2. Outcome \in {"published", "submitted", "scheduled"}
    BY DEF Outcome
  <2>3. Result(Outcome, "").status = Outcome
    BY Statuses
  <2>4. result' = result \/ result' = Result(Outcome, "")
    BY <1>9 DEF Look, End
  <2>5. result'.status \in {"none", "published", "submitted", "scheduled"}
    BY <1>0, <2>1, <2>2, <2>3, <2>4
  <2> QED
    BY <2>1, <2>5
<1>10. CASE CheckDeadline
  <2>1. UNCHANGED <<clicked, posted>> /\ pc' \in {"sleep", "done"} /\ pc = "check"
    BY <1>10 DEF CheckDeadline, End, Idle
  <2>2. result'.status \in {"none", "unknown"}
    BY <1>0, <1>10, Statuses DEF CheckDeadline, End
  <2> QED
    BY <2>1, <2>2
<1>11. CASE Sleep
  BY <1>11 DEF Sleep, Idle
<1>12. CASE PageChanges
  BY <1>12 DEF PageChanges
<1>13. CASE UNCHANGED vars
  BY <1>13 DEF vars
<1> QED
  BY <1>1, <1>2, <1>3, <1>4, <1>5, <1>6, <1>7, <1>8, <1>9, <1>10, <1>11, <1>12,
     <1>13 DEF Next, Adapter

\* However calls to the page raise, a result that lets the request be tried again
\* means that the site has posted nothing (publish, 745-773).
THEOREM RetryIsSafe == Spec => []NoPostReportedAsSafe
<1>1. Init => ClickBoundary
  BY Statuses DEF Init, ClickBoundary, BeforeClick, Waiting, SafeToRetry
<1>2. TypeOK /\ ClickBoundary => NoPostReportedAsSafe
  BY DEF ClickBoundary, NoPostReportedAsSafe, SafeToRetry
<1> QED
  BY <1>1, <1>2, TypeCorrect, ClickBoundaryKept, PTL DEF Spec

-----------------------------------------------------------------------------

\* The evidence found is of this post: an earlier one was in the snapshot.
LEMMA EvidenceProves ==
  ASSUME TypeOK, PageTruthful, pc = "look", Found
  PROVE  posted
<1>1. PICK s \in Sources : Fresh(s)
  BY DEF Found
<1>2. page[s] # Blank /\ previous[s] # page[s]
  <2>1. Blank.text = ""
    BY DEF Blank
  <2>2. page[s].text # "" /\ page[s].text # previous[s].text
    BY <1>1 DEF Fresh
  <2> QED
    BY <2>1, <2>2
<1>3. page[s].mine
  BY <1>2 DEF PageTruthful, Snapped
<1> QED
  BY <1>3 DEF PageTruthful

LEMMA PageTruthfulKept ==
  ASSUME LateEvidence = FALSE, TypeOK, PageTruthful, [Next]_vars,
         posted => posted' = TRUE
  PROVE  PageTruthful'
<1>1. CASE Snapshot
  BY <1>1 DEF Snapshot, PageTruthful, Snapped
<1>2. CASE PageChanges
  <2>0. PICK s \in Sources : \E v \in Evidence(s) :
          /\ v.mine => posted
          /\ v # Blank /\ ~v.mine => LateEvidence \/ previous[s] = v \/ ~Snapped
          /\ page' = [page EXCEPT ![s] = v]
    BY <1>2 DEF PageChanges
  <2>1. PICK v \in Evidence(s) :
          /\ v.mine => posted
          /\ v # Blank /\ ~v.mine => LateEvidence \/ previous[s] = v \/ ~Snapped
          /\ page' = [page EXCEPT ![s] = v]
    BY <2>0
  <2>2. UNCHANGED <<pc, posted, previous>> /\ Snapped' = Snapped
    BY <1>2 DEF PageChanges, Snapped
  <2>3. \A t \in Sources : page'[t] = IF t = s THEN v ELSE page[t]
    BY <2>1, DisplayChange DEF TypeOK
  <2>4. \A t \in Sources : page'[t].mine => posted'
    BY <2>1, <2>2, <2>3 DEF PageTruthful
  <2>5. Snapped' => \A t \in Sources :
          page'[t] # Blank /\ ~page'[t].mine => previous'[t] = page'[t]
    BY <2>1, <2>2, <2>3 DEF PageTruthful
  <2> QED
    BY <2>4, <2>5 DEF PageTruthful
<1>3. CASE (Adapter /\ ~Snapshot) \/ UNCHANGED vars
  <2>1. UNCHANGED <<page, previous>>
    BY <1>3 DEF Adapter, Route, Validate, Probe, DryRunControls, Apply, Click,
                PageRaises, Look, CheckDeadline, Sleep, Idle, vars
  <2>2. Snapped' => Snapped
    BY <1>3 DEF Adapter, Route, Validate, Probe, DryRunControls, Apply, Click,
                PageRaises, Raise, Look, CheckDeadline, Sleep, End, Snapped, vars
  <2> QED
    BY <2>1, <2>2 DEF PageTruthful
<1> QED
  BY <1>1, <1>2, <1>3 DEF Next

-----------------------------------------------------------------------------

LEMMA PostedStays ==
  ASSUME TypeOK, ClickBoundary, [Next]_vars, posted
  PROVE  posted' = TRUE
<1>1. CASE Click
  BY <1>1 DEF Click, ClickBoundary, BeforeClick
<1>2. CASE ~Click
  <2>1. UNCHANGED posted
    BY <1>2 DEF Next, Adapter, Route, Validate, Probe, DryRunControls, Apply, Snapshot,
                PageRaises, Look, CheckDeadline, Sleep, PageChanges, Idle, vars
  <2> QED
    BY <2>1 DEF TypeOK
<1> QED
  BY <1>1, <1>2

\* A step either drives the next control or leaves the composer alone; only the
\* last control leads to the snapshot, and only a dry run checks its controls.
LEMMA ComposedKept ==
  ASSUME TypeOK, Composed, [Next]_vars
  PROVE  Composed'
<1> DEFINE Ready == pc \in Waiting \cup {"submit"} \/ result.status \in Successes
           Live  == pc \in Waiting \cup {"compose", "submit"} \/ result.status \in Successes
<1>0. pc # "done" => result.status = "none"
  BY DEF TypeOK
<1>1. CASE Apply
  <2>1. /\ at \in 1..Len(Plan(request)) /\ at' = at + 1 /\ pc = "compose"
        /\ composer' = composer \cup {Plan(request)[at]}
        /\ UNCHANGED <<request, pc, result>>
    BY <1>1 DEF Apply, TypeOK
  <2>2. request \in RequestSpace
    BY BrowserConstants DEF TypeOK
  <2>3. Len(Plan(request)) \in Nat
    BY <2>2, PlanIsComplete
  <2>4. {Plan(request)[k] : k \in 1..(at' - 1)} =
          {Plan(request)[k] : k \in 1..(at - 1)} \cup {Plan(request)[at]}
    BY <2>1, <2>3
  <2> QED
    BY <1>0, <2>1, <2>3, <2>4 DEF Composed, Waiting, Successes
<1>2. CASE ~Apply
  <2>1. UNCHANGED <<request, at, composer>>
    BY <1>2 DEF Next, Adapter, Route, Validate, Probe, DryRunControls, Snapshot, Click,
                PageRaises, Look, CheckDeadline, Sleep, PageChanges, Idle, vars
  <2>2. Ready' => Ready \/ Snapshot
    <3>1. CASE Look
      BY <3>1 DEF Look, Waiting
    <3>2. CASE Route \/ Validate \/ Probe \/ DryRunControls \/ PageRaises
      <4>1. pc' \in {"validate", "probe", "controls", "compose", "done"}
        BY <3>2 DEF Route, Validate, Probe, DryRunControls, PageRaises, Raise, End
      <4>2. result'.status \in {"none", "blocked", "failed", "skipped", "unknown"}
        <5>1. CASE Route
          BY <1>0, <5>1, Statuses DEF Route, End
        <5>2. CASE Validate
          BY <1>0, <5>2, Statuses DEF Validate, End
        <5>3. CASE Probe
          BY <1>0, <5>3, Statuses DEF Probe, End
        <5>4. CASE DryRunControls
          <6>1. PICK r \in {Result("skipped", ""), Result("blocked", "platform_ui"),
                            Result("failed", "platform_ui")} : result' = r
            BY <5>4 DEF DryRunControls, End
          <6> QED
            BY <6>1, Statuses
        <5>5. CASE PageRaises
          BY <1>0, <5>5, Statuses DEF PageRaises, Raise, End
        <5> QED
          BY <3>2, <5>1, <5>2, <5>3, <5>4, <5>5
      <4> QED
        BY <4>1, <4>2 DEF Waiting, Successes
    <3>3. CASE Click \/ CheckDeadline \/ Sleep
      BY <3>3 DEF Click, CheckDeadline, Sleep, Waiting
    <3>4. CASE PageChanges \/ UNCHANGED vars
      BY <3>4 DEF PageChanges, vars
    <3> QED
      BY <1>2, <3>1, <3>2, <3>3, <3>4 DEF Next, Adapter
  <2>3. Snapshot => at = Len(Plan(request)) + 1
    <3>1. request \in RequestSpace
      BY BrowserConstants DEF TypeOK
    <3> QED
      BY <3>1, PlanIsComplete DEF Composed, Snapshot
  <2>4. Live' => Live \/ (Probe /\ ~request.dry_run)
    <3>1. CASE Probe /\ pc' # "done"
      BY <3>1, <1>0 DEF Probe, End, Waiting, Successes
    <3>2. CASE Snapshot
      BY <3>2 DEF Snapshot
    <3>3. CASE ~Snapshot /\ ~(Probe /\ pc' # "done")
      <4>1. Live' => Ready' \/ pc' = "compose"
        OBVIOUS
      <4>2. pc' = "compose" => pc = "compose"
        BY <1>2, <3>3 DEF Next, Adapter, Route, Validate, Probe, DryRunControls, Click,
             PageRaises, Raise, Look, CheckDeadline, Sleep, PageChanges, End, vars
      <4> QED
        BY <2>2, <3>3, <4>1, <4>2
    <3> QED
      BY <3>1, <3>2, <3>3
  <2> QED
    BY <2>1, <2>2, <2>3, <2>4 DEF Composed
<1> QED
  BY <1>1, <1>2

LEMMA SuccessPostedKept ==
  ASSUME LateEvidence = FALSE, SuccessInv, ClickBoundary, [Next]_vars
  PROVE  SuccessPosted'
<1> USE DEF SuccessInv
<1>0. pc # "done" => result.status = "none"
  BY DEF TypeOK
<1>1. CASE Look
  <2>1. CASE Found
    <3>1. posted' = TRUE
      BY <1>1, <2>1, EvidenceProves, PostedStays DEF Look
    <3>2. request.scheduled <=> Outcome = "scheduled"
      BY DEF Outcome
    <3>3. result'.status = Outcome /\ UNCHANGED request
      BY <1>1, <2>1, Statuses DEF Look, End, Idle
    <3> QED
      BY <3>1, <3>2, <3>3 DEF SuccessPosted
  <2>2. CASE ~Found
    BY <1>0, <1>1, <2>2 DEF Look, SuccessPosted, Successes
  <2> QED
    BY <2>1, <2>2
<1>2. CASE result' = result
  <2>1. UNCHANGED request
    BY DEF Next, Adapter, Route, Validate, Probe, DryRunControls, Apply, Snapshot, Click,
           PageRaises, Look, CheckDeadline, Sleep, PageChanges, Idle, vars
  <2> QED
    BY <1>2, <2>1, PostedStays DEF SuccessPosted
<1>3. CASE result' # result /\ ~Look
  <2>1. result'.status \in {"blocked", "failed", "skipped", "unknown"}
    <3>1. CASE Route
      BY <1>3, <3>1, Statuses DEF Route, End
    <3>2. CASE Validate
      BY <1>3, <3>2, Statuses DEF Validate, End
    <3>3. CASE Probe
      BY <1>3, <3>3, Statuses DEF Probe, End
    <3>4. CASE DryRunControls
      <4>1. PICK r \in {Result("skipped", ""), Result("blocked", "platform_ui"),
                        Result("failed", "platform_ui")} : result' = r
        BY <3>4 DEF DryRunControls, End
      <4> QED
        BY <4>1, Statuses
    <3>5. CASE PageRaises
      BY <3>5, Statuses DEF PageRaises, Raise, End
    <3>6. CASE Click
      BY <1>3, <3>6, Statuses DEF Click, End
    <3>7. CASE CheckDeadline
      BY <1>3, <3>7, Statuses DEF CheckDeadline, End
    <3> QED
      BY <1>3, <3>1, <3>2, <3>3, <3>4, <3>5, <3>6, <3>7
         DEF Next, Adapter, Apply, Snapshot, Sleep, PageChanges, vars
  <2> QED
    BY <2>1 DEF SuccessPosted, Successes
<1> QED
  BY <1>1, <1>2, <1>3

\* On a site that does not first show an earlier post after the click, a reported
\* success is a post of this request, whole and at the time asked for.
THEOREM SuccessIsProved == ASSUME LateEvidence = FALSE PROVE Spec => []SuccessIsOurs
<1>1. Init => ClickBoundary /\ SuccessInv
  <2>1. ASSUME Init PROVE Composed
    <3>1. request \in RequestSpace
      BY <2>1, BrowserConstants DEF Init
    <3>2. Len(Plan(request)) \in Nat
      BY <3>1, PlanIsComplete
    <3>3. at = 1 /\ composer = {} /\ pc = "route" /\ result.status = "none"
      BY <2>1, Statuses DEF Init
    <3>4. {Plan(request)[k] : k \in 1..(at - 1)} = {}
      BY <3>3
    <3> QED
      BY <3>2, <3>3, <3>4 DEF Composed, Waiting, Successes
  <2>2. ASSUME Init PROVE PageTruthful /\ SuccessPosted /\ ClickBoundary
    <3>1. \A s \in Sources : ~page[s].mine
      BY <2>2 DEF Init
    <3> QED
      BY <2>2, <3>1, Statuses DEF Init, PageTruthful, Snapped, SuccessPosted, Successes,
         ClickBoundary, BeforeClick, Waiting, SafeToRetry
  <2>3. Init => TypeOK
    BY TypeInit
  <2> QED
    BY <2>1, <2>2, <2>3 DEF SuccessInv
<1>2. ASSUME ClickBoundary /\ SuccessInv, TypeOK', [Next]_vars
      PROVE  (ClickBoundary /\ SuccessInv)'
  BY <1>2, ClickBoundaryKept, ComposedKept, PageTruthfulKept, PostedStays,
     SuccessPostedKept DEF SuccessInv
<1>3. ASSUME ClickBoundary /\ SuccessInv PROVE SuccessIsOurs
  <2>1. request \in RequestSpace
    BY <1>3, BrowserConstants DEF SuccessInv, TypeOK
  <2>2. CASE result.status \in Successes
    <3>1. \A x : x \in composer <=> Has(Plan(request), x)
      <4>1. at - 1 = Len(Plan(request))
        BY <1>3, <2>1, <2>2, PlanIsComplete DEF SuccessInv, Composed
      <4> QED
        BY <1>3, <4>1 DEF SuccessInv, Composed, Has
    <3> QED
      BY <1>3, <2>1, <2>2, <3>1, PlanIsComplete
         DEF SuccessInv, Composed, SuccessPosted, SuccessIsOurs, Successes
  <2>3. CASE result.status \notin Successes
    BY <2>3 DEF SuccessIsOurs, Successes
  <2> QED
    BY <2>2, <2>3
<1> QED
  BY <1>1, <1>2, <1>3, TypeCorrect, PTL DEF Spec

-----------------------------------------------------------------------------
\* The wait for evidence.

\* Evidence of this post needs the post; what a look did not find, and would have
\* told from the snapshot, has come on display since that look.
WaitInv == /\ \A s \in Sources : page[s].mine => posted
           /\ since # Never => \E s \in Sources : Telling(s)
           /\ pc = "check" => since = Never \/ since >= now

LEMMA WaitInvKept ==
  ASSUME TypeOK, ClickBoundary, WaitInv, [Next]_vars
  PROVE  WaitInv'
<1> USE DEF WaitInv
<1>0. posted => posted' = TRUE
  BY PostedStays
<1>1. CASE Snapshot
  <2>1. ~posted
    BY <1>1 DEF Snapshot, ClickBoundary, BeforeClick
  <2>2. since = Never
    BY <2>1 DEF Telling
  <2> QED
    BY <1>0, <1>1, <2>1, <2>2 DEF Snapshot
\* A look that finds nothing: none of the sources shows this post.
<1>2. CASE Look
  <2>1. UNCHANGED <<page, previous, since, posted, now>>
    BY <1>2 DEF Look, Idle
  <2>2. \A s \in Sources : Telling(s) => Fresh(s)
    <3> SUFFICES ASSUME NEW s \in Sources, Telling(s) PROVE page[s].text # ""
      BY DEF Telling, Fresh
    <3>1. page[s] \in Evidence(s)
      BY DEF TypeOK, Displays
    <3> QED
      BY <3>1, EvidenceTypes DEF Telling
  <2>3. pc' = "check" => since = Never
    BY <1>2, <2>2 DEF Look, Found, End
  <2>4. \A s \in Sources : Telling(s)' <=> Telling(s)
    BY <2>1 DEF Telling
  <2> QED
    BY <2>1, <2>3, <2>4
<1>3. CASE PageChanges
  <2>1. UNCHANGED <<pc, posted, previous, now>>
    BY <1>3 DEF PageChanges
  <2>2. \A s \in Sources : page'[s].mine => posted'
    <3>0. PICK s \in Sources : \E v \in Evidence(s) :
            (v.mine => posted) /\ page' = [page EXCEPT ![s] = v]
      BY <1>3 DEF PageChanges
    <3>1. PICK v \in Evidence(s) :
            (v.mine => posted) /\ page' = [page EXCEPT ![s] = v]
      BY <3>0
    <3>2. \A t \in Sources : page'[t] = IF t = s THEN v ELSE page[t]
      BY <3>1, DisplayChange DEF TypeOK
    <3> QED
      BY <2>1, <3>1, <3>2
  <2>3. since' = IF ~\E s \in Sources : Telling(s)' THEN Never
                 ELSE IF since = Never THEN now ELSE since
    BY <1>3 DEF PageChanges
  <2>4. now \in Nat
    BY DEF TypeOK
  <2> QED
    BY <2>1, <2>2, <2>3, <2>4 DEF Never
<1>4. CASE ~Snapshot /\ ~Look /\ ~PageChanges
  <2>1. UNCHANGED <<page, previous, since>>
    BY <1>4 DEF Next, Adapter, Route, Validate, Probe, DryRunControls, Apply, Click,
                PageRaises, CheckDeadline, Sleep, Idle, vars
  <2>2. \A s \in Sources : Telling(s)' <=> Telling(s)
    BY <2>1 DEF Telling
  <2>3. pc' = "check" => pc = "check" /\ UNCHANGED now
    BY <1>4 DEF Next, Adapter, Route, Validate, Probe, DryRunControls, Apply, Click,
                PageRaises, Raise, CheckDeadline, Sleep, End, vars
  <2> QED
    BY <1>0, <2>1, <2>2, <2>3
<1> QED
  BY <1>1, <1>2, <1>3, <1>4

\* The wait ends at or after the deadline, and evidence a look did not find is no older
\* than that look, from which to the reading of the clock LookTime may pass.
LEMMA DeadlineStep ==
  ASSUME TypeOK, WaitInv, [Next]_vars, pc = "check", pc' = "done"
  PROVE  since = Never \/ since >= EvidenceTimeout - LookTime
<1>1. CheckDeadline
  BY DEF Next, Adapter, Route, Validate, Probe, DryRunControls, Apply, Snapshot, Click,
         PageRaises, Look, Sleep, PageChanges, vars
<1>2. PICK late \in 0..LookTime : now' = now + late
  BY <1>1 DEF CheckDeadline
<1>3. now' >= EvidenceTimeout
  BY <1>1 DEF CheckDeadline, TimeUp
<1>4. since = Never \/ since >= now
  BY DEF WaitInv
<1> QED
  BY <1>2, <1>3, <1>4, BrowserConstants DEF TypeOK, Never

\* However the page changes and however slow the looks are, evidence that differs from
\* the snapshot and is on display in time is seen (_wait_for_confirmed_result).
THEOREM EvidenceInTimeIsSeen == Spec => EvidenceInTimeCounts
<1>1. Init => WaitInv /\ ClickBoundary
  <2>1. ASSUME Init PROVE WaitInv
    <3>1. \A s \in Sources : ~page[s].mine
      BY <2>1 DEF Init
    <3> QED
      BY <2>1, <3>1 DEF Init, WaitInv
  <2>2. Init => ClickBoundary
    BY Statuses DEF Init, ClickBoundary, BeforeClick, Waiting, SafeToRetry
  <2> QED
    BY <2>1, <2>2
<1>2. Spec => [](TypeOK /\ ClickBoundary /\ WaitInv)
  BY <1>1, TypeCorrect, ClickBoundaryKept, WaitInvKept, PTL DEF Spec
<1>3. TypeOK /\ WaitInv /\ [Next]_vars
        => [pc = "check" /\ pc' = "done"
              => since = Never \/ since >= EvidenceTimeout - LookTime]_vars
  BY DeadlineStep
<1> QED
  BY <1>2, <1>3, PTL DEF Spec, EvidenceInTimeCounts
=============================================================================
