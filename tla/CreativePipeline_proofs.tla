----------------------- MODULE CreativePipeline_proofs -----------------------
(***************************************************************************)
(* What a build delivers is current, and what the manifest records is      *)
(* true, for every number of destinations, every set of campaigns and      *)
(* tools, and every way in which the builds are forced, fail or are        *)
(* killed, provided that a command that reports success wrote its output.  *)
(* That a stage which the last manifest records as finished is not made    *)
(* again needs no such proviso.                                            *)
(***************************************************************************)
EXTENDS CreativePipeline, TLAPS

\* The stages that are done have current files.
Progress == \A s \in DOMAIN records : Current(s)

Shape == /\ file = [s \in Stages |-> file[s]]
         /\ config \in Configs
         /\ \E S : records \in Seq(S)
         /\ pc \in {"idle", "stage", "writing", "save", "saving"}

\* A build that is under way, or has delivered, has told the truth so far.
Run == /\ pc \in {"stage", "writing"} =>
            outcome = "none" /\ Len(records) < NStages /\ Progress
       /\ pc # "idle" => Truthful(records)
       /\ outcome = "delivered" => Len(records) = NStages /\ Progress

IInv == Shape /\ Truthful(manifest) /\ Run

\* Appending to a sequence.
LEMMA Appending ==
  ASSUME NEW S, NEW rs \in Seq(S), NEW r
  PROVE  /\ \E T : Append(rs, r) \in Seq(T)
         /\ Len(rs) \in Nat /\ DOMAIN rs = 1..Len(rs)
         /\ Len(Append(rs, r)) = Len(rs) + 1
         /\ DOMAIN Append(rs, r) = 1..(Len(rs) + 1)
         /\ \A i \in 1..Len(rs) : Append(rs, r)[i] = rs[i]
         /\ Append(rs, r)[Len(rs) + 1] = r
<1>1. rs \in Seq(S \cup {r}) /\ r \in S \cup {r}
  OBVIOUS
<1> QED
  BY <1>1

\* What a stage is made from comes before it: writing a later file leaves it current.
LEMMA SourcesComeFirst ==
  ASSUME NEW e \in Stages, NEW t \in Stages, e < t, NEW out,
         file = [u \in Stages |-> file[u]],
         file' = [file EXCEPT ![t] = out], config' = config, Current(e)
  PROVE  Current(e)'
<1>1. file'[e] = file[e]
  BY CreativeConstants DEF NStages, Stages
<1>2. ASSUME e < Master PROVE Input(e)' = Input(e)
  BY <1>2, CreativeConstants DEF Images, Input, Master, NStages, Narration, Stages
<1>3. ASSUME e = Master PROVE Input(e)' = Input(e)
  <2>1. t > 3
    BY <1>3, CreativeConstants DEF Master, NStages, Stages
  <2>2. file'[Images] = file[Images] /\ file'[Narration] = file[Narration]
    BY <2>1, CreativeConstants DEF Images, NStages, Narration, Stages
  <2> QED
    BY <1>3, <2>2 DEF Input, Images, Narration, Master
<1>4. ASSUME e > Master PROVE Input(e)' = Input(e)
  <2>1. t > 3
    BY <1>4, CreativeConstants DEF Master, NStages, Stages
  <2>2. file'[Master] = file[Master]
    BY <2>1, CreativeConstants DEF Master, NStages, Stages
  <2> QED
    BY <1>4, <2>2, CreativeConstants DEF Images, Input, Master, NStages, Narration, Stages
<1>5. Input(e)' = Input(e)
  BY <1>2, <1>3, <1>4, CreativeConstants DEF Master, NStages, Stages
<1> QED
  BY <1>1, <1>5 DEF Current

\* The file of a stage itself, when it is written or kept.
LEMMA OwnSources ==
  ASSUME NEW t \in Stages, NEW out, file = [u \in Stages |-> file[u]],
         file' = [file EXCEPT ![t] = out], config' = config
  PROVE  file'[t] = out /\ Input(t)' = Input(t)
<1>1. file'[t] = out
  OBVIOUS
<1>2. t >= Master => file'[Images] = file[Images] /\ file'[Narration] = file[Narration]
  BY CreativeConstants DEF Images, Master, NStages, Narration, Stages
<1>3. t > Master => file'[Master] = file[Master]
  BY CreativeConstants DEF Master, NStages, Stages
<1>4. CASE t < Master
  BY <1>4, CreativeConstants DEF Images, Input, Master, NStages, Narration, Stages
<1>5. CASE t = Master
  BY <1>2, <1>5 DEF Input, Images, Narration, Master
<1>6. CASE t > Master
  BY <1>3, <1>6, CreativeConstants DEF Images, Input, Master, NStages, Narration, Stages
<1> QED
  BY <1>1, <1>4, <1>5, <1>6, CreativeConstants DEF Master, NStages, Stages

\* Ending a stage with an output that is current and truly recorded keeps IInv.
LEMMA StageDoneKeeps ==
  ASSUME IInv, pc \in {"stage", "writing"}, NEW out, NEW status,
         file' = [file EXCEPT ![At] = out], StageDone(status, out),
         out # Missing => /\ out.whole /\ out.in = Input(At)
                          /\ Command(At) # Unknown => out.tool = Command(At),
         out.whole /\ out.in = Input(At) /\ out.tool = config.tool[At]
  PROVE  IInv'
<1>1. PICK S : records \in Seq(S)
  BY DEF IInv, Shape
<1> DEFINE r == Record(status, out)
<1>2. /\ \E T : records' \in Seq(T)
      /\ Len(records) \in Nat /\ DOMAIN records = 1..Len(records)
      /\ Len(records') = Len(records) + 1
      /\ DOMAIN records' = 1..(Len(records) + 1)
      /\ \A i \in 1..Len(records) : records'[i] = records[i]
      /\ records'[Len(records) + 1] = r
  <2>1. records' = Append(records, r)
    BY DEF StageDone
  <2> HIDE DEF r
  <2>2. /\ \E T : Append(records, r) \in Seq(T)
        /\ Len(records) \in Nat /\ DOMAIN records = 1..Len(records)
        /\ Len(Append(records, r)) = Len(records) + 1
        /\ DOMAIN Append(records, r) = 1..(Len(records) + 1)
        /\ \A i \in 1..Len(records) : Append(records, r)[i] = records[i]
        /\ Append(records, r)[Len(records) + 1] = r
    BY <1>1, Appending
  <2> QED
    BY <2>1, <2>2, Zenon
<1>3. At \in Stages /\ config' = config /\ manifest' = manifest /\ At = Len(records) + 1
  <2>1. Len(records) < NStages /\ NStages \in Nat
    BY CreativeConstants DEF IInv, Run, NStages
  <2>2. config' = config /\ manifest' = manifest /\ At = Len(records) + 1
    BY DEF StageDone, At
  <2>3. Len(records) + 1 \in Stages
    BY <1>2, <2>1 DEF Stages
  <2> QED
    BY <2>2, <2>3
<1>4. file = [u \in Stages |-> file[u]] /\ config \in Configs
  BY DEF IInv, Shape
<1>5. Progress'
  <2> SUFFICES ASSUME NEW s \in DOMAIN records' PROVE Current(s)'
    BY DEF Progress
  <2>1. CASE s \in DOMAIN records
    <3>1. Current(s)
      BY <2>1 DEF IInv, Run, Progress
    <3>2. s \in Stages /\ s < At
      BY <1>2, <1>3, <2>1, CreativeConstants DEF Stages, NStages
    <3> QED
      BY <1>3, <1>4, <3>1, <3>2, SourcesComeFirst
  <2>2. CASE s = At
    <3>1. file'[At] = out /\ Input(s)' = Input(At) /\ file'[s] = out
      BY <1>3, <1>4, <2>2, OwnSources DEF At
    <3> QED
      BY <1>3, <2>2, <3>1 DEF Current
  <2> QED
    BY <1>2, <1>3, <2>1, <2>2
<1>6. Truthful(records)'
  <2> SUFFICES ASSUME NEW s \in DOMAIN records', records'[s].out # Missing
               PROVE  /\ records'[s].out.whole /\ records'[s].out.in = records'[s].in
                      /\ records'[s].command # Unknown => records'[s].out.tool = records'[s].command
    BY DEF Truthful
  <2>1. CASE s \in DOMAIN records
    <3>1. records'[s] = records[s]
      BY <1>2, <2>1
    <3> QED
      BY <2>1, <3>1 DEF IInv, Run, Truthful
  <2>2. CASE s = At
    <3>1. records'[s] = r
      BY <1>2, <1>3, <2>2
    <3>2. r.out = out /\ r.in = Input(At) /\ r.command = Command(At)
      BY DEF Record
    <3> QED
      BY <3>1, <3>2
  <2> QED
    BY <1>2, <1>3, <2>1, <2>2
<1>7. Truthful(manifest)'
  BY <1>3 DEF IInv, Truthful
<1>8. Shape'
  BY <1>2, <1>3, <1>4 DEF Shape, StageDone, IInv
<1>9. Run'
  <2>1. CASE At = NStages
    BY <1>2, <1>3, <1>5, <1>6, <2>1, CreativeConstants DEF Run, StageDone, NStages
  <2>2. CASE At # NStages
    <3>1. outcome = "none" /\ Len(records) < NStages
      BY DEF IInv, Run
    <3>2. pc' = "stage" /\ outcome' = "none"
      BY <2>2, <3>1 DEF StageDone, IInv, Run
    <3> QED
      BY <1>2, <1>3, <1>5, <1>6, <2>2, <3>1, <3>2, CreativeConstants DEF Run, NStages
  <2> QED
    BY <2>1, <2>2
<1> QED
  BY <1>7, <1>8, <1>9 DEF IInv

LEMMA InitIInv == Init => IInv
<1> SUFFICES ASSUME Init PROVE IInv
  OBVIOUS
<1>1. <<>> \in Seq({})
  OBVIOUS
<1> QED
  BY <1>1 DEF Init, IInv, Shape, Run, Truthful

LEMMA StepIInv == ASSUME SilentTools = FALSE, IInv, [Next]_vars PROVE IInv'
<1>1. CASE UNCHANGED vars
  BY <1>1 DEF vars, bound, IInv, Shape, Run, Truthful, Progress, Current, Input
<1>2. ASSUME NEW c \in Configs, NEW f \in Forces, Begin(c, f) PROVE IInv'
  <2>1. <<>> \in Seq({}) /\ NStages \in Nat /\ NStages > 0
    BY CreativeConstants DEF NStages
  <2> QED
    BY <1>2, <2>1 DEF Begin, IInv, Shape, Run, Truthful, Progress
<1>3. CASE Reuse
  <2>1. CanReuse(At) /\ Identified(At) /\ StageDone("reused", file[At])
    BY <1>3 DEF Reuse, Reusable
  <2>2. config \in Configs /\ file = [u \in Stages |-> file[u]]
    BY DEF IInv, Shape
  <2>3. At \in Stages /\ config.tool[At] # Unknown
    <3>1. Len(records) \in Nat /\ Len(records) < NStages
      BY <1>3 DEF IInv, Shape, Run, Reuse
    <3> QED
      BY <2>2, <3>1, CreativeConstants DEF At, Stages, NStages
  <2>4. file' = [file EXCEPT ![At] = file[At]]
    BY <1>3, <2>2, <2>3 DEF Reuse
  <2>5. /\ file[At].whole /\ file[At].in = Input(At)
        /\ file[At].tool = config.tool[At] /\ Command(At) = config.tool[At]
    BY <2>1, <2>3 DEF CanReuse, Command, IInv, Truthful
  <2> QED
    BY <1>3, <2>1, <2>4, <2>5, StageDoneKeeps DEF Reuse
<1>4. CASE StartWrite
  <2>1. /\ file = [u \in Stages |-> file[u]] /\ config' = config
        /\ records' = records /\ pc = "stage"
    BY <1>4 DEF StartWrite, IInv, Shape
  <2>2. /\ At \in Stages /\ Len(records) \in Nat
        /\ DOMAIN records = 1..Len(records) /\ At = Len(records) + 1
    BY <2>1, CreativeConstants DEF IInv, Shape, Run, At, Stages, NStages
  <2>3. Progress'
    <3> SUFFICES ASSUME NEW s \in DOMAIN records PROVE Current(s)'
      BY <2>1 DEF Progress
    <3>1. Current(s) /\ s \in Stages /\ s < At
      <4>1. Current(s)
        BY <2>1 DEF IInv, Run, Progress
      <4> QED
        BY <2>2, <4>1, CreativeConstants DEF Stages, NStages
    <3>2. CASE file' = file
      BY <2>1, <3>1, <3>2 DEF Current, Input
    <3> QED
      BY <1>4, <2>1, <2>2, <3>1, <3>2, SourcesComeFirst DEF StartWrite
  <2>4. Shape'
    BY <1>4, <2>1 DEF StartWrite, IInv, Shape
  <2>5. Truthful(manifest)' /\ Truthful(records)'
    BY <1>4, <2>1 DEF StartWrite, IInv, Run, Truthful
  <2>6. Run'
    BY <1>4, <2>1, <2>3, <2>5 DEF StartWrite, IInv, Run, NStages
  <2> QED
    BY <2>4, <2>5, <2>6 DEF IInv
<1>5. CASE FinishWrite
  <2>1. PICK out \in Outputs :
          file' = [file EXCEPT ![At] = out] /\ StageDone("built", out)
    BY <1>5 DEF FinishWrite
  <2>2. PICK t \in Takes[At] : out = Content(Input(At), config.tool[At], TRUE, t)
    BY <2>1, SilentTools = FALSE DEF Outputs
  <2>3. out.whole /\ out.in = Input(At) /\ out.tool = config.tool[At]
    BY <2>2 DEF Content
  <2>4. Command(At) # Unknown => out.tool = Command(At)
    BY <2>3 DEF Command
  <2> QED
    BY <1>5, <2>1, <2>3, <2>4, StageDoneKeeps DEF FinishWrite
<1>6. CASE StageFails
  <2>1. PICK S : records \in Seq(S)
    BY DEF IInv, Shape
  <2> DEFINE r == Record(IF At = Images THEN "blocked" ELSE "failed", Missing)
  <2>2. r.out = Missing /\ records' = Append(records, r)
    BY <1>6 DEF StageFails, Record
  <2>3. /\ \E T : records' \in Seq(T)
        /\ Len(records) \in Nat /\ DOMAIN records = 1..Len(records)
        /\ DOMAIN records' = 1..(Len(records) + 1)
        /\ \A i \in 1..Len(records) : records'[i] = records[i]
        /\ records'[Len(records) + 1] = r
    <3> HIDE DEF r
    <3>1. /\ \E T : Append(records, r) \in Seq(T)
          /\ Len(records) \in Nat /\ DOMAIN records = 1..Len(records)
          /\ Len(Append(records, r)) = Len(records) + 1
          /\ DOMAIN Append(records, r) = 1..(Len(records) + 1)
          /\ \A i \in 1..Len(records) : Append(records, r)[i] = records[i]
          /\ Append(records, r)[Len(records) + 1] = r
      BY <2>1, Appending
    <3> QED
      BY <2>2, <3>1, Zenon
  <2>4. Truthful(records)'
    <3>1. Truthful(records)
      BY <1>6 DEF IInv, Run, StageFails
    <3> HIDE DEF r
    <3> SUFFICES ASSUME NEW s \in DOMAIN records', records'[s].out # Missing
                 PROVE  s \in DOMAIN records /\ records'[s] = records[s]
      BY <3>1 DEF Truthful
    <3> QED
      BY <2>2, <2>3
  <2>5. Truthful(manifest)' /\ Shape'
    BY <1>6, <2>3 DEF StageFails, IInv, Shape, Truthful
  <2>6. Run'
    BY <1>6, <2>4 DEF StageFails, Run
  <2> QED
    BY <2>5, <2>6 DEF IInv
<1>7. CASE StartSave
  <2>1. Progress => Progress'
    BY <1>7 DEF StartSave, Progress, Current, Input
  <2>2. Truthful(<<>>)
    BY DEF Truthful
  <2> QED
    BY <1>7, <2>1, <2>2 DEF StartSave, IInv, Shape, Run, Truthful
<1>8. CASE FinishSave
  <2>1. Progress => Progress'
    BY <1>8 DEF FinishSave, Progress, Current, Input
  <2> QED
    BY <1>8, <2>1 DEF FinishSave, IInv, Shape, Run, Truthful
<1>9. CASE Killed
  BY <1>9 DEF Killed, IInv, Shape, Run, Truthful
<1> QED
  BY <1>1, <1>2, <1>3, <1>4, <1>5, <1>6, <1>7, <1>8, <1>9 DEF Next

LEMMA Inductive == ASSUME SilentTools = FALSE PROVE Spec => []IInv
BY InitIInv, StepIInv, PTL DEF Spec

\* A build that reports no failure delivers whole files, made by its tools from its
\* campaign and from each other, whatever the builds before it did.
THEOREM BuildsAreCurrent ==
  ASSUME SilentTools = FALSE PROVE Spec => []DeliveredIsCurrent
<1>1. IInv => DeliveredIsCurrent
  <2> SUFFICES ASSUME IInv, outcome = "delivered", NEW s \in Stages PROVE Current(s)
    BY DEF DeliveredIsCurrent
  <2>1. DOMAIN records = Stages
    BY DEF IInv, Shape, Run, Stages
  <2> QED
    BY <2>1 DEF IInv, Run, Progress
<1> QED
  BY <1>1, Inductive, PTL

\* The manifest never records an output that was not made, whole, from the
\* recorded inputs by the recorded command.
THEOREM ManifestIsTruthful ==
  ASSUME SilentTools = FALSE PROVE Spec => []ManifestTruthful
<1>1. IInv => ManifestTruthful
  BY DEF IInv, ManifestTruthful
<1> QED
  BY <1>1, Inductive, PTL

-----------------------------------------------------------------------------
\* What the last manifest records as finished is not made again.

\* The records of a build say what each stage was made from: the campaign, or the
\* outputs that the same records name.
InputOf(s, c, rs) == CASE s = Images    -> c.prompts
                       [] s = Narration -> c.text
                       [] s = Master    -> <<rs[Images].out, rs[Narration].out>>
                       [] OTHER         -> rs[Master].out
CommandOf(s, c)   == IF s < Master \/ c.identified THEN c.tool[s] ELSE Unknown
Noted(s, c, rs)   == rs[s].in = InputOf(s, c, rs) /\ rs[s].command = CommandOf(s, c)

\* Stages whose file the current build may have changed since the manifest was written.
Dirty == IF pc \in {"stage", "writing", "save"} THEN Touched ELSE {}

Extent == /\ file = [s \in Stages |-> file[s]]
          /\ \E S : records \in Seq(S)
          /\ pc \in {"idle", "stage", "writing", "save", "saving"}
          /\ Len(records) <= NStages
          /\ pc \in {"stage", "writing"} => Len(records) < NStages
          /\ kept = [config |-> kept.config, done |-> kept.done]
          /\ kept.done \subseteq Stages

Entry(s) ==
  /\ Noted(s, config, records)
  /\ \/ records[s].status \in {"built", "reused"} /\ records[s].out = file[s]
     \/ /\ records[s].status \in {"failed", "blocked"} /\ records[s].out = Missing
        /\ pc \in {"save", "saving"}
  /\ records[s].status = "reused" /\ pc # "saving"
       => s \in DOMAIN manifest /\ file[s] = manifest[s].out

Kept(s) == /\ s \in DOMAIN manifest /\ Noted(s, kept.config, manifest)
           /\ s \notin Dirty => file[s] = manifest[s].out /\ file[s] # Missing

ReuseInv == /\ Extent
            /\ pc # "idle" => \A s \in DOMAIN records : Entry(s)
            /\ pc # "saving" => \A s \in kept.done : Kept(s)

\* A stage is made from earlier ones: a further record changes none of their inputs.
LEMMA InputStays ==
  ASSUME NEW S, NEW rs \in Seq(S), NEW r, NEW c, NEW s \in 1..(Len(rs) + 1)
  PROVE  InputOf(s, c, Append(rs, r)) = InputOf(s, c, rs)
<1>1. /\ Len(rs) \in Nat
      /\ \A i \in 1..Len(rs) : Append(rs, r)[i] = rs[i]
  BY Appending
<1>2. CASE s <= Master
  <2>1. s = Master => Images \in 1..Len(rs) /\ Narration \in 1..Len(rs)
    BY <1>1 DEF Master, Images, Narration
  <2>2. s \in {Images, Narration, Master}
    BY <1>1, <1>2 DEF Master, Images, Narration
  <2>3. CASE s = Master
    <3>1. /\ InputOf(s, c, rs) = <<rs[Images].out, rs[Narration].out>>
          /\ InputOf(s, c, Append(rs, r)) =
               <<Append(rs, r)[Images].out, Append(rs, r)[Narration].out>>
      BY <2>3 DEF InputOf, Master, Images, Narration
    <3> QED
      BY <1>1, <2>1, <2>3, <3>1
  <2>4. CASE s \in {Images, Narration}
    BY <2>4 DEF InputOf, Master, Images, Narration
  <2> QED
    BY <2>2, <2>3, <2>4
<1>3. CASE s > Master
  <2>1. Master \in 1..Len(rs)
    BY <1>1, <1>3 DEF Master
  <2>2. /\ InputOf(s, c, rs) = rs[Master].out
        /\ InputOf(s, c, Append(rs, r)) = Append(rs, r)[Master].out
    BY <1>1, <1>3 DEF InputOf, Master, Images, Narration
  <2> QED
    BY <1>1, <2>1, <2>2
<1> QED
  BY <1>1, <1>2, <1>3 DEF Master

\* The place of the stage a build is at, and what it is made from.
LEMMA StageAt ==
  ASSUME ReuseInv, pc \in {"stage", "writing"}
  PROVE  /\ At \in Stages /\ At = Len(records) + 1 /\ Len(records) \in Nat
         /\ DOMAIN records = 1..Len(records)
         /\ \A s \in 1..Len(records) : s \in Stages /\ s # At
         /\ \A s \in 1..Len(records) : records[s].out = file[s]
         /\ Input(At) = InputOf(At, config, records)
         /\ Command(At) = CommandOf(At, config)
<1>1. /\ Len(records) \in Nat /\ DOMAIN records = 1..Len(records) /\ Len(records) < NStages
      /\ NStages \in Nat
  BY CreativeConstants DEF ReuseInv, Extent, NStages
<1>2. At = Len(records) + 1 /\ At \in Stages /\ \A s \in 1..Len(records) : s \in Stages /\ s # At
  BY <1>1 DEF At, Stages
<1>3. \A s \in 1..Len(records) : records[s].out = file[s]
  BY <1>1 DEF ReuseInv, Entry
<1>4. Command(At) = CommandOf(At, config)
  BY DEF Command, CommandOf, Identified
<1>5. Input(At) = InputOf(At, config, records)
  <2>1. CASE At < Master
    <3>1. At = Images \/ At = Narration
      BY <1>1, <1>2, <2>1 DEF Images, Narration, Master
    <3> QED
      BY <3>1 DEF Input, InputOf, Images, Narration, Master
  <2>2. CASE At = Master
    <3>1. Images \in 1..Len(records) /\ Narration \in 1..Len(records)
      BY <1>1, <1>2, <2>2 DEF Images, Narration, Master
    <3>2. records[Images].out = file[Images] /\ records[Narration].out = file[Narration]
      BY <1>3, <3>1
    <3>3. /\ Input(At) = <<file[Images], file[Narration]>>
          /\ InputOf(At, config, records) = <<records[Images].out, records[Narration].out>>
      BY <2>2 DEF Input, InputOf, Images, Narration, Master
    <3> QED
      BY <3>2, <3>3
  <2>3. CASE At > Master
    <3>1. Master \in 1..Len(records)
      BY <1>1, <1>2, <2>3 DEF Master
    <3>2. Input(At) = file[Master] /\ InputOf(At, config, records) = records[Master].out
      BY <1>1, <1>2, <2>3 DEF Input, InputOf, Images, Narration, Master
    <3> QED
      BY <1>3, <3>1, <3>2
  <2> QED
    BY <1>1, <1>2, <2>1, <2>2, <2>3 DEF Master
<1> QED
  BY <1>1, <1>2, <1>3, <1>4, <1>5

\* A stage ends: it is reused, built or fails.
LEMMA StageEnds ==
  ASSUME ReuseInv, pc \in {"stage", "writing"}, NEW status, NEW out, NEW content,
         file' = [file EXCEPT ![At] = content],
         records' = Append(records, Record(status, out)),
         UNCHANGED <<config, manifest, kept>>,
         pc' \in {"stage", "save"}, pc' = "stage" => At # NStages,
         \/ status \in {"built", "reused"} /\ out = content
         \/ status \in {"failed", "blocked"} /\ out = Missing /\ pc' = "save",
         status = "reused" => CanReuse(At) /\ content = file[At]
  PROVE  ReuseInv'
<1> DEFINE r == Record(status, out)
<1>0. PICK S : records \in Seq(S)
  BY DEF ReuseInv, Extent
<1>1. /\ At \in Stages /\ At = Len(records) + 1 /\ Len(records) \in Nat
      /\ DOMAIN records = 1..Len(records)
      /\ \A s \in 1..Len(records) : s \in Stages /\ s # At
      /\ Input(At) = InputOf(At, config, records)
      /\ Command(At) = CommandOf(At, config)
  BY StageAt
<1>2. /\ r.status = status /\ r.out = out
      /\ r.in = InputOf(At, config, records) /\ r.command = CommandOf(At, config)
  BY <1>1 DEF Record
<1> HIDE DEF r
<1>3. /\ \E T : records' \in Seq(T)
      /\ Len(records') = Len(records) + 1
      /\ DOMAIN records' = 1..(Len(records) + 1)
      /\ \A i \in 1..Len(records) : records'[i] = records[i]
      /\ records'[At] = r
  <2>1. records' = Append(records, r)
    BY DEF r
  <2>2. /\ \E T : Append(records, r) \in Seq(T)
        /\ Len(Append(records, r)) = Len(records) + 1
        /\ DOMAIN Append(records, r) = 1..(Len(records) + 1)
        /\ \A i \in 1..Len(records) : Append(records, r)[i] = records[i]
        /\ Append(records, r)[Len(records) + 1] = r
    BY <1>0, Appending
  <2> QED
    BY <1>1, <2>1, <2>2, Zenon
<1>4. \A s \in 1..(Len(records) + 1) : InputOf(s, config, records')
                                         = InputOf(s, config, records)
  <2>1. records' = Append(records, r)
    BY DEF r
  <2> QED
    BY <1>0, <2>1, InputStays
<1>5. /\ file' = [s \in Stages |-> file'[s]]
      /\ file'[At] = content
      /\ \A s \in Stages : s # At => file'[s] = file[s]
  <2>1. file = [s \in Stages |-> file[s]]
    BY DEF ReuseInv, Extent
  <2> QED
    BY <1>1, <2>1
<1>6. Extent'
  <2>1. Len(records') <= NStages /\ (pc' = "stage" => Len(records') < NStages)
    BY <1>1, <1>3, CreativeConstants DEF Stages, NStages
  <2> QED
    BY <1>3, <1>5, <2>1 DEF ReuseInv, Extent
<1>7. ASSUME NEW s \in DOMAIN records' PROVE Entry(s)'
  <2>1. CASE s = At
    <3>1. Noted(s, config, records)'
      BY <1>1, <1>2, <1>3, <1>4, <2>1 DEF Noted
    <3>2. status = "reused" => At \in DOMAIN manifest /\ file'[At] = manifest[At].out
      BY <1>5 DEF CanReuse
    <3> QED
      BY <1>2, <1>3, <1>5, <2>1, <3>1, <3>2 DEF Entry
  <2>2. CASE s \in 1..Len(records)
    <3>1. Entry(s)
      BY <1>1, <2>2 DEF ReuseInv
    <3>2. records'[s] = records[s] /\ file'[s] = file[s]
      BY <1>1, <1>3, <1>5, <2>2
    <3>3. Noted(s, config, records)'
      BY <1>1, <1>4, <2>2, <3>1, <3>2 DEF Noted, Entry
    <3> QED
      BY <3>1, <3>2, <3>3 DEF Entry
  <2> QED
    BY <1>1, <1>3, <2>1, <2>2
<1>8. ASSUME NEW s \in kept.done PROVE Kept(s)'
  <2>1. Kept(s) /\ s \in Stages
    BY <1>8 DEF ReuseInv, Extent
  <2>2. Noted(s, kept.config, manifest)'
    BY <2>1 DEF Kept, Noted
  <2>3. ASSUME s \notin Dirty' PROVE file'[s] = manifest[s].out /\ file'[s] # Missing
    <3>1. \A i \in DOMAIN records' : records'[i].status # "reused" => i # s
      BY <2>3 DEF Dirty, Touched
    <3>2. CASE s = At
      <4>1. status = "reused"
        BY <1>1, <1>2, <1>3, <3>1, <3>2
      <4> QED
        BY <1>5, <3>2, <4>1 DEF CanReuse
    <3>3. CASE s # At
      <4>1. s \notin Dirty
        BY <1>1, <1>3, <3>1, <3>3 DEF Dirty, Touched
      <4> QED
        BY <1>5, <2>1, <3>3, <4>1 DEF Kept
    <3> QED
      BY <3>2, <3>3
  <2> QED
    BY <2>1, <2>2, <2>3 DEF Kept
<1> QED
  BY <1>6, <1>7, <1>8 DEF ReuseInv

LEMMA ReuseInit == Init => ReuseInv
<1> SUFFICES ASSUME Init PROVE ReuseInv
  OBVIOUS
<1>1. <<>> \in Seq({}) /\ Len(<<>>) = 0 /\ NStages \in Nat
  BY CreativeConstants DEF NStages
<1> QED
  BY <1>1 DEF Init, ReuseInv, Extent

LEMMA ReuseStep == ReuseInv /\ [Next]_vars => ReuseInv'
<1> SUFFICES ASSUME ReuseInv, [Next]_vars PROVE ReuseInv'
  OBVIOUS
<1>1. CASE UNCHANGED vars
  BY <1>1 DEF vars, bound, ReuseInv, Extent, Entry, Kept, Noted, Dirty, Touched, At
<1>2. ASSUME NEW c \in Configs, NEW f \in Forces, Begin(c, f) PROVE ReuseInv'
  <2>1. <<>> \in Seq({}) /\ Len(<<>>) = 0 /\ DOMAIN <<>> = {} /\ NStages \in Nat /\ NStages > 0
    BY CreativeConstants DEF NStages
  <2>2. Extent'
    BY <1>2, <2>1 DEF Begin, ReuseInv, Extent
  <2>3. Dirty = {} /\ Dirty' = {}
    BY <1>2, <2>1 DEF Begin, Dirty, Touched
  <2>4. \A s \in kept.done : Kept(s)'
    BY <1>2, <2>3 DEF Begin, ReuseInv, Kept, Noted
  <2> QED
    BY <1>2, <2>1, <2>2, <2>4 DEF Begin, ReuseInv
<1>3. CASE Reuse
  <2>1. At \in Stages /\ file = [s \in Stages |-> file[s]]
    BY <1>3, StageAt DEF Reuse, ReuseInv, Extent
  <2>2. file' = [file EXCEPT ![At] = file[At]]
    BY <1>3, <2>1 DEF Reuse
  <2>3. StageDone("reused", file[At]) /\ CanReuse(At) /\ pc = "stage"
    BY <1>3 DEF Reuse, Reusable
  <2> QED
    BY <2>2, <2>3, StageEnds DEF StageDone
<1>4. CASE StartWrite
  <2>1. /\ At \in Stages /\ DOMAIN records = 1..Len(records)
        /\ \A s \in 1..Len(records) : s \in Stages /\ s # At
    BY <1>4, StageAt DEF StartWrite
  <2>2. /\ pc = "stage" /\ pc' = "writing"
        /\ UNCHANGED <<manifest, config, records, kept>>
        /\ file = [s \in Stages |-> file[s]]
    BY <1>4 DEF StartWrite, ReuseInv, Extent
  <2>3. /\ file' = [s \in Stages |-> file'[s]]
        /\ \A s \in Stages : s # At => file'[s] = file[s]
    <3>1. CASE file' = file
      BY <2>2, <3>1
    <3>2. CASE file' = [file EXCEPT ![At] = Content(Input(At), config.tool[At], FALSE, 0)]
      BY <2>1, <2>2, <3>2
    <3> QED
      BY <1>4, <3>1, <3>2 DEF StartWrite
  <2>4. Extent'
    BY <2>2, <2>3 DEF ReuseInv, Extent
  <2>5. ASSUME NEW s \in DOMAIN records PROVE Entry(s)'
    <3>1. Entry(s) /\ file'[s] = file[s]
      BY <2>1, <2>2, <2>3 DEF ReuseInv
    <3> QED
      BY <2>2, <3>1 DEF Entry, Noted
  <2>6. ASSUME NEW s \in kept.done PROVE Kept(s)'
    <3>1. Kept(s) /\ s \in Stages
      BY <2>2 DEF ReuseInv, Extent
    <3>2. At' = At /\ At \in Dirty'
      BY <2>2 DEF At, Dirty, Touched
    <3>3. s \notin Dirty' => s \notin Dirty /\ s # At
      BY <2>2, <3>2 DEF Dirty, Touched
    <3> QED
      BY <2>2, <2>3, <3>1, <3>3 DEF Kept, Noted
  <2> QED
    BY <2>2, <2>4, <2>5, <2>6 DEF ReuseInv
<1>5. CASE FinishWrite
  <2>1. PICK out \in Outputs :
          file' = [file EXCEPT ![At] = out] /\ StageDone("built", out)
    BY <1>5 DEF FinishWrite
  <2> QED
    BY <1>5, <2>1, StageEnds DEF StageDone, FinishWrite
<1>6. CASE StageFails
  <2>1. At \in Stages /\ file = [s \in Stages |-> file[s]]
    BY <1>6, StageAt DEF StageFails, ReuseInv, Extent
  <2>2. file' = [file EXCEPT ![At] = file[At]]
    BY <1>6, <2>1 DEF StageFails
  <2>3. PICK status \in {"failed", "blocked"} : records' = Append(records, Record(status, Missing))
    BY <1>6 DEF StageFails
  <2> QED
    BY <1>6, <2>2, <2>3, StageEnds DEF StageFails
<1>7. CASE StartSave
  BY <1>7 DEF StartSave, ReuseInv, Extent, Entry, Noted
\* The records become the manifest.
<1>8. CASE FinishSave
  <2>1. /\ pc = "saving" /\ pc' = "idle" /\ manifest' = records
        /\ kept' = [config |-> config, done |-> Finished] /\ UNCHANGED <<file, records>>
    BY <1>8 DEF FinishSave
  <2>2. kept'.config = config /\ kept'.done = Finished
    BY <2>1
  <2>3. Finished \subseteq Stages
    BY CreativeConstants DEF Finished, ReuseInv, Extent, Stages, NStages
  <2>4. Extent'
    BY <2>1, <2>2, <2>3 DEF ReuseInv, Extent
  <2>5. ASSUME NEW s \in Finished PROVE Kept(s)'
    <3>1. s \in DOMAIN records /\ records[s].out # Missing /\ Entry(s)
      BY <2>1 DEF Finished, ReuseInv
    <3>2. records[s].out = file[s]
      BY <3>1 DEF Entry
    <3>3. Noted(s, kept.config, manifest)'
      BY <2>1, <2>2, <3>1 DEF Entry, Noted
    <3> QED
      BY <2>1, <3>1, <3>2, <3>3 DEF Kept
  <2> QED
    BY <2>1, <2>2, <2>4, <2>5 DEF ReuseInv
<1>9. CASE Killed
  <2>1. /\ pc # "idle" /\ pc' = "idle" /\ UNCHANGED <<file, manifest, config, records>>
        /\ kept' = [kept EXCEPT !.done = IF pc = "saving" THEN {} ELSE @ \ Touched]
        /\ kept = [config |-> kept.config, done |-> kept.done]
    BY <1>9 DEF Killed, ReuseInv, Extent
  <2>2. /\ kept'.config = kept.config
        /\ kept'.done = IF pc = "saving" THEN {} ELSE kept.done \ Touched
        /\ kept' = [config |-> kept'.config, done |-> kept'.done]
    <3> DEFINE d == IF pc = "saving" THEN {} ELSE kept.done \ Touched
    <3>1. kept' = [kept EXCEPT !.done = d]
      BY <2>1
    <3> HIDE DEF d
    <3>2. kept'.config = kept.config /\ kept'.done = d
      BY <2>1, <3>1
    <3>3. kept' = [config |-> kept'.config, done |-> kept'.done]
      BY <2>1, <3>1
    <3> QED
      BY <3>2, <3>3 DEF d
  <2>3. Extent'
    BY <2>1, <2>2 DEF ReuseInv, Extent
  <2>4. ASSUME NEW s \in kept'.done PROVE Kept(s)'
    <3>1. pc # "saving" /\ s \in kept.done /\ s \notin Touched
      BY <2>2
    <3>2. Kept(s) /\ s \notin Dirty
      BY <3>1 DEF ReuseInv, Dirty
    <3> QED
      BY <2>1, <2>2, <3>2 DEF Kept, Noted
  <2> QED
    BY <2>1, <2>3, <2>4 DEF ReuseInv
<1> QED
  BY <1>1, <1>2, <1>3, <1>4, <1>5, <1>6, <1>7, <1>8, <1>9 DEF Next

\* What is recorded as finished can be reused, as long as its sources are as they were.
LEMMA FinishedIsReusable ==
  ASSUME ReuseInv, pc = "stage", NEW s \in kept.done, s = At, kept.config = config,
         Sources(s) \cap Built = {}
  PROVE  CanReuse(s)
<1>1. /\ At \in Stages /\ At = Len(records) + 1 /\ Len(records) \in Nat
      /\ DOMAIN records = 1..Len(records)
      /\ Input(At) = InputOf(At, config, records)
      /\ Command(At) = CommandOf(At, config)
  BY StageAt
<1>2. Kept(s)
  BY DEF ReuseInv
<1>3. s \notin Dirty
  BY <1>1 DEF Dirty, Touched
<1>4. \A i \in Sources(s) : i \in DOMAIN records => records[i].out = manifest[i].out
  <2> SUFFICES ASSUME NEW i \in Sources(s), i \in DOMAIN records
               PROVE  records[i].out = manifest[i].out
    OBVIOUS
  <2>1. Entry(i) /\ i \notin Built
    BY DEF ReuseInv
  <2> QED
    BY <2>1 DEF Entry, Built
<1>5. InputOf(s, config, records) = InputOf(s, config, manifest)
  <2>1. CASE s < Master
    <3>1. s = Images \/ s = Narration
      BY <1>1, <2>1 DEF Images, Narration, Master
    <3> QED
      BY <3>1 DEF InputOf, Images, Narration, Master
  <2>2. CASE s = Master
    <3>1. /\ Images \in DOMAIN records /\ Narration \in DOMAIN records
          /\ Sources(s) = {Images, Narration}
      BY <1>1, <2>2 DEF Images, Narration, Master, Sources
    <3>2. /\ records[Images].out = manifest[Images].out
          /\ records[Narration].out = manifest[Narration].out
      BY <1>4, <3>1
    <3>3. \A rs : InputOf(s, config, rs) = <<rs[Images].out, rs[Narration].out>>
      BY <2>2 DEF InputOf, Images, Narration, Master
    <3> QED
      BY <3>2, <3>3
  <2>3. CASE s > Master
    <3>1. Master \in DOMAIN records /\ Sources(s) = {Master}
      BY <1>1, <2>3 DEF Master, Sources
    <3>2. records[Master].out = manifest[Master].out
      BY <1>4, <3>1
    <3>3. \A rs : InputOf(s, config, rs) = rs[Master].out
      BY <1>1, <2>3 DEF InputOf, Images, Narration, Master
    <3> QED
      BY <3>2, <3>3
  <2> QED
    BY <1>1, <2>1, <2>2, <2>3 DEF Master
<1> QED
  BY <1>1, <1>2, <1>3, <1>5 DEF Kept, Noted, CanReuse

\* What the last manifest written records as finished is not made again by a build
\* with the same campaign and tools, whatever was killed since and whatever the tools
\* wrote.  What an earlier manifest recorded and a blocked or failed build dropped is
\* no part of it (UnrelatedWorkKept, which does not hold).
THEOREM RecordedIsNotMadeAgain == Spec => RecordedStagesReused
<1>1. ASSUME ReuseInv, NEW s \in kept.done, kept.config = config, Identified(s),
             s \notin force, Sources(s) \cap Built = {}, [Next]_vars
      PROVE  ~Makes(s)
  <2> SUFFICES ASSUME Makes(s) PROVE FALSE
    OBVIOUS
  <2>1. pc = "stage" /\ s = At /\ pc' = "writing"
    BY DEF Makes
  <2>2. CanReuse(s)
    BY <1>1, <2>1, FinishedIsReusable
  <2>3. Reusable(At)
    BY <1>1, <2>1, <2>2 DEF Reusable
  <2> QED
    BY <1>1, <2>1, <2>3
       DEF Next, vars, Begin, Reuse, StageDone, StartWrite, FinishWrite, StageFails,
           StartSave, FinishSave, Killed
<1>2. ReuseInv /\ [Next]_vars
        => [\A s \in kept.done :
              (kept.config = config /\ Identified(s) /\ s \notin force
                 /\ Sources(s) \cap Built = {}) => ~Makes(s)]_vars
  BY <1>1
<1> QED
  BY <1>2, ReuseInit, ReuseStep, PTL DEF Spec, RecordedStagesReused
=============================================================================
