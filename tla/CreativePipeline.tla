--------------------------- MODULE CreativePipeline ---------------------------
(***************************************************************************)
(* CreativePipeline.build (creative/pipeline.py) with the providers        *)
(* (creative/providers.py) and renderers (creative/render.py) it calls: a  *)
(* sequence of builds of one campaign in one build directory.              *)
(*                                                                         *)
(* A build goes through its stages in a fixed order, 1 to NStages: images, *)
(* narration, master, then one variant per destination.  build-manifest    *)
(* keeps one record per stage reached, so it is a sequence.  A hash is     *)
(* modelled by what was hashed: the content of a file is what it was made  *)
(* from, by which tool, in which take, and whether it is whole.            *)
(***************************************************************************)
EXTENDS Integers, Sequences

CONSTANTS Destinations, \* how many destinations the campaign has
          Configs,      \* what a build may be called with: campaign, tools, which renderers
          Forces,       \* the sets of stages --force-stage may name
          Takes,        \* for each stage, what tells its outputs of equal inputs apart
          SilentTools,  \* a command may exit with 0 having written nothing
          Missing,      \* no file, or a record without output
          MaxBuilds,    \* bound on builds
          MaxKills      \* bound on builds that do not end in order

Images == 1  Narration == 2  Master == 3
NStages == 3 + Destinations
Stages  == 1..NStages

\* The command hash of every custom renderer that does not say what it is.
Unknown == "custom-renderer-without-cache-identity"

ASSUME CreativeConstants ==
  /\ Destinations \in Nat /\ SilentTools \in BOOLEAN
  /\ \A c \in Configs : \A s \in Stages : c.tool[s] # Unknown

VARIABLES file,     \* the output file of each stage
          manifest, \* build-manifest.json, <<>> when absent or unreadable
          pc,       \* "idle", "stage", "writing", "save" or "saving"
          config,   \* campaign and tools of the current or last build
          force,    \* its forced stages
          records,  \* stage_records of that build
          outcome,  \* "none", "delivered" or "failed"
          kept,     \* history: config and finished stages of the last manifest written
          builds, kills

vars  == <<file, manifest, pc, config, force, records, outcome, kept, builds, kills>>
bound == <<builds, kills>>

Content(in, tool, whole, take) == [in |-> in, tool |-> tool, whole |-> whole, take |-> take]

\* The stage the build is at.
At == Len(records) + 1

\* What the input hash of a stage is computed from.
Input(s) == CASE s = Images    -> config.prompts
              [] s = Narration -> config.text
              [] s = Master    -> <<file[Images], file[Narration]>>
              [] OTHER         -> file[Master]

\* _renderer_identity applies to the renderers only.
Identified(s) == s < Master \/ config.identified
Command(s)    == IF Identified(s) THEN config.tool[s] ELSE Unknown

Record(status, out) ==
  [status |-> status, in |-> Input(At), command |-> Command(At), out |-> out]

CanReuse(s) ==
  /\ s \in DOMAIN manifest
  /\ manifest[s].in = Input(s) /\ manifest[s].command = Command(s)
  /\ file[s] # Missing /\ manifest[s].out = file[s]

\* Mutant: a custom renderer is always taken to be the one it was.
ReusableUnknown(s) == s \notin force /\ CanReuse(s)

Reusable(s) == Identified(s) /\ s \notin force /\ CanReuse(s)

Init == /\ file = [s \in Stages |-> Missing] /\ manifest = <<>>
        /\ pc = "idle" /\ config \in Configs /\ force = {} /\ records = <<>>
        /\ outcome = "none" /\ kept = [config |-> config, done |-> {}]
        /\ builds = 0 /\ kills = 0

----------------------------------------------------------------------------
Begin(c, f) == /\ pc = "idle" /\ builds < MaxBuilds /\ builds' = builds + 1
               /\ pc' = "stage" /\ config' = c /\ force' = f
               /\ records' = <<>> /\ outcome' = "none"
               /\ UNCHANGED <<file, manifest, kept, kills>>

\* The stage is done: on to the next, or to the manifest after the last one.
StageDone(status, out) ==
  /\ records' = Append(records, Record(status, out))
  /\ IF At = NStages THEN pc' = "save" /\ outcome' = "delivered"
                     ELSE pc' = "stage" /\ UNCHANGED outcome
  /\ UNCHANGED <<manifest, config, force, kept, bound>>

Reuse == /\ pc = "stage" /\ Reusable(At)
         /\ StageDone("reused", file[At]) /\ UNCHANGED file

\* A tool runs.  It overwrites its output in place, sooner or later.
StartWrite ==
  /\ pc = "stage" /\ ~Reusable(At) /\ pc' = "writing"
  /\ file' \in {file, [file EXCEPT ![At] = Content(Input(At), config.tool[At], FALSE, 0)]}
  /\ UNCHANGED <<manifest, config, force, records, outcome, kept, bound>>

\* A tool that wrote nothing and reports success leaves the file that was there:
\* the providers look only for a file at its place, the probe of the default
\* renderers accepts old media, and what a custom renderer made is not looked at.
\* Without a file the provider, the probe or the hash of the master fails; a
\* custom renderer of variants passes.
Leftover == IF At > Master /\ config.custom THEN {file[At]} ELSE {file[At]} \ {Missing}

Outputs == {Content(Input(At), config.tool[At], TRUE, t) : t \in Takes[At]}
             \cup IF SilentTools THEN Leftover ELSE {}

FinishWrite == /\ pc = "writing"
               /\ \E out \in Outputs :
                    file' = [file EXCEPT ![At] = out] /\ StageDone("built", out)

\* Mutant: the file of a failed stage is hashed like any other.
StageFailsHashed ==
  /\ pc = "writing" /\ pc' = "save" /\ outcome' = "failed"
  /\ records' = Append(records, Record("failed", file[At]))
  /\ UNCHANGED <<file, manifest, config, force, kept, bound>>

\* Codimage unavailable, a provider or a renderer raising: no later stage runs.
StageFails ==
  /\ pc = "writing" /\ pc' = "save" /\ outcome' = "failed"
  /\ records' = Append(records, Record(IF At = Images THEN "blocked" ELSE "failed", Missing))
  /\ UNCHANGED <<file, manifest, config, force, kept, bound>>

Finished == {s \in DOMAIN records : records[s].out # Missing}
Built    == {s \in DOMAIN records : records[s].status = "built"}
Touched  == {s \in DOMAIN records : records[s].status # "reused"}
              \cup IF pc = "writing" THEN {At} ELSE {}

\* write_text truncates the manifest before it writes it.
StartSave == /\ pc = "save" /\ pc' = "saving" /\ manifest' = <<>>
             /\ UNCHANGED <<file, config, force, records, outcome, kept, bound>>

\* Mutant: only a build that delivered keeps its records.
FinishSaveDelivered ==
  /\ pc = "saving" /\ pc' = "idle"
  /\ manifest' = IF outcome = "delivered" THEN records ELSE <<>>
  /\ kept' = [config |-> config, done |-> Finished]
  /\ UNCHANGED <<file, config, force, records, outcome, bound>>

FinishSave == /\ pc = "saving" /\ pc' = "idle" /\ manifest' = records
              /\ kept' = [config |-> config, done |-> Finished]
              /\ UNCHANGED <<file, config, force, records, outcome, bound>>

\* The process is killed, or raises outside the stages' handlers.
Killed ==
  /\ pc # "idle" /\ kills < MaxKills /\ kills' = kills + 1
  /\ pc' = "idle" /\ outcome' = "none"
  /\ kept' = [kept EXCEPT !.done = IF pc = "saving" THEN {} ELSE @ \ Touched]
  /\ UNCHANGED <<file, manifest, config, force, records, builds>>

Next == \/ \E c \in Configs, f \in Forces : Begin(c, f)
        \/ Reuse \/ StartWrite \/ FinishWrite \/ StageFails
        \/ StartSave \/ FinishSave \/ Killed

Spec == Init /\ [][Next]_vars

----------------------------------------------------------------------------
\* The file of a stage is whole and made from the inputs there are now.
Current(s) == file[s].whole /\ file[s].in = Input(s) /\ file[s].tool = config.tool[s]

\* A build that reports no failure delivers, for every stage, a whole file
\* made by the tools it was called with from its own campaign, the master from
\* exactly the images and the narration beside it and every variant from that
\* master: whatever the builds before it reused, forced, failed at or were
\* killed at (build, _can_reuse).
DeliveredIsCurrent ==
  (pc = "idle" /\ outcome = "delivered") => \A s \in Stages : Current(s)

\* What the manifest records of an output is how it was made: whole, from the
\* recorded inputs, by the recorded command unless the renderer is unknown.
\* The next build rests on it (_stage, _write_manifest, _can_reuse).
Truthful(rs) ==
  \A s \in DOMAIN rs : rs[s].out # Missing =>
    /\ rs[s].out.whole /\ rs[s].out.in = rs[s].in
    /\ rs[s].command # Unknown => rs[s].out.tool = rs[s].command
ManifestTruthful == Truthful(manifest)

\* The stages whose output a stage is made from.
Sources(s) == CASE s < Master -> {} [] s = Master -> {Images, Narration} [] OTHER -> {Master}

\* A tool runs for the stage.
Makes(s) == pc = "stage" /\ pc' = "writing" /\ s = At

\* What the last manifest written records as finished, by a build that delivered
\* or by one that failed later on, is not made again by a build with the same
\* campaign and tools, unless it is forced or one of its sources was made anew; a
\* killed build in between loses only what it was itself making, or everything if
\* it was killed while the manifest was written (build, _can_reuse,
\* _write_manifest).  Nothing is said of what an earlier manifest recorded: a
\* build that is blocked or fails writes no record of the stages it did not reach,
\* which UnrelatedWorkKept is about.
RecordedStagesReused ==
  [][\A s \in kept.done :
       (kept.config = config /\ Identified(s) /\ s \notin force /\ Sources(s) \cap Built = {})
         => ~Makes(s)]_vars

\* Rebuilding one stage discards no unrelated work (design, "Creative
\* Pipeline"): no tool runs for a stage whose file is current, unless it is forced or
\* is itself the stage that failed in the build before.
UnrelatedWorkKept ==
  [][\A s \in Stages :
       (file[s] # Missing /\ Current(s) /\ Identified(s) /\ s \notin force
          /\ ~(s \in DOMAIN manifest /\ manifest[s].out = Missing))
         => ~Makes(s)]_vars
=============================================================================
