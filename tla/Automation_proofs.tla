-------------------------- MODULE Automation_proofs --------------------------
(***************************************************************************)
(* What setup enables is proven, what the automation commands report is    *)
(* true, and they heal what killed ones left, for every set of channels    *)
(* and schedules, however often accounts, tools and launchctl change.      *)
(***************************************************************************)
EXTENDS Automation, TLAPS

\* No job is loaded without the file that the next command would find it by.
NoOrphan == plist = None => job = None

\* What a running command has established of the file and the job.
Launchd ==
  /\ pc \in {"tools", "probes", "gates"} => asked = None
  /\ pc \in {"bootout", "write"} => asked \in Schedules \cup {Invalid}
  /\ pc = "bootstrap" => asked \in Schedules
  /\ pc \in {"bootout", "unload"} => plist \in Schedules
  /\ pc = "write" => plist # Foreign /\ (~trouble => job = None)
  /\ pc = "bootstrap" => plist = asked /\ (~trouble => job = None)
  /\ pc = "unlink" => job = None
  /\ pc # "idle" => report = "none"
  /\ report = "installed" => asked \in Schedules

\* What configure has seen of the channels.
Gating ==
  /\ seen = [c \in Channels |-> seen[c]]
  /\ \A c \in Channels : seen[c] \subseteq Gates
  /\ pc \in {"tools", "probes", "gates"} =>
       enabled \subseteq Channels /\ \A c \in Channels : Holding(c) \subseteq seen[c]
  /\ pc = "probes" =>
       /\ todo \subseteq enabled
       /\ sound => /\ \A c \in enabled : "tools" \in seen[c]
                   /\ \A c \in enabled \ todo : "authenticated" \in seen[c]
  /\ pc = "gates" =>
       /\ todo \subseteq enabled
       /\ sound => \A c \in enabled : "tools" \in seen[c] /\ "authenticated" \in seen[c]
       /\ probed # None => /\ probed.channel \in enabled
                           /\ probed.ok => "identity" \in seen[probed.channel]
       /\ \A c \in passed : c \in Channels /\ seen[c] = Gates

IInv == NoOrphan /\ Launchd /\ Gating /\ ReportsTrue /\ CommandsHeal

\* The gates that hold are gates.
LEMMA HoldingGates == \A c : Holding(c) \subseteq Gates
BY DEF Holding

\* The steps of setup leave launchd alone, and those of launchd leave setup alone.
LEMMA SetupSteps ==
  ASSUME NoOrphan, Launchd, ReportsTrue, CommandsHeal, UNCHANGED launchd, trouble' = trouble,
         pc' \in {"idle", "tools", "probes", "gates"},
         report' \notin {"installed", "removed", "failed"},
         pc' # "idle" => report' = "none" /\ asked' = None
  PROVE  NoOrphan' /\ Launchd' /\ ReportsTrue' /\ CommandsHeal'
BY AutomationConstants DEF NoOrphan, Launchd, ReportsTrue, CommandsHeal, launchd

LEMMA LaunchdSteps ==
  ASSUME Gating, UNCHANGED <<world, configure>>, pc' \notin {"tools", "probes", "gates"}
  PROVE  Gating'
BY DEF Gating, world, configure

LEMMA InitIInv == Init => IInv
BY AutomationConstants DEF Init, IInv, NoOrphan, Launchd, Gating, ReportsTrue, CommandsHeal

LEMMA GatingSteps ==
  ASSUME IInv, \/ \E es \in SUBSET Channels : Setup(es)
               \/ CheckTools \/ CheckChannel \/ Render \/ ProbeChannel \/ DryRun \/ WriteSetup
  PROVE  IInv'
<1>1. ASSUME NEW es \in SUBSET Channels, Setup(es) PROVE IInv'
  <2>1. Gating'
    <3>1. \A c \in Channels : Holding(c)' = Holding(c)
      BY <1>1 DEF Setup, world, Holding, DryRunSafe
    <3>2. pc' = "tools" /\ enabled' \subseteq Channels
      BY <1>1 DEF Setup
    <3>3. seen' = [c \in Channels |-> Holding(c)]
      BY <1>1 DEF Setup
    <3> QED
      BY <3>1, <3>2, <3>3, HoldingGates DEF Gating
  <2>2. NoOrphan' /\ Launchd' /\ ReportsTrue' /\ CommandsHeal'
    BY <1>1 DEF Setup, IInv, launchd, NoOrphan, Launchd, ReportsTrue, CommandsHeal
  <2> QED
    BY <2>1, <2>2 DEF IInv
<1>2. CASE CheckTools
  <2>1. Gating'
    <3>1. \A c \in Channels : Holding(c)' = Holding(c)
      BY <1>2 DEF CheckTools, world, Holding, DryRunSafe
    <3>2. sound' => \A c \in enabled : "tools" \in seen[c]
      BY <1>2 DEF CheckTools, IInv, Gating, Holding, Gates
    <3> QED
      BY <1>2, <3>1, <3>2 DEF CheckTools, IInv, Gating
  <2> QED
    BY <1>2, <2>1, SetupSteps DEF CheckTools, IInv, Launchd
<1>6. CASE CheckChannel
  <2>1. Gating'
    <3>1. \A c \in Channels : Holding(c)' = Holding(c)
      BY <1>6 DEF CheckChannel, world, Holding, DryRunSafe
    <3>2. sound' => \A c \in enabled \ todo' : "authenticated" \in seen[c]
      BY <1>6 DEF CheckChannel, IInv, Gating, Holding, Gates
    <3> QED
      BY <1>6, <3>1, <3>2 DEF CheckChannel, IInv, Gating
  <2> QED
    BY <1>6, <2>1, SetupSteps DEF CheckChannel, IInv, Launchd
<1>7. CASE Render
  <2>1. Gating'
    <3>1. \A c \in Channels : Holding(c)' = Holding(c)
      BY <1>7 DEF Render, world, Holding, DryRunSafe
    <3>2. sound' => \A c \in enabled : "tools" \in seen[c] /\ "authenticated" \in seen[c]
      BY <1>7 DEF Render, IInv, Gating, Holding, Gates
    <3> QED
      BY <1>7, <3>1, <3>2 DEF Render, IInv, Gating
  <2> QED
    BY <1>7, <2>1, SetupSteps DEF Render, IInv, Launchd
<1>3. CASE ProbeChannel
  <2>1. PICK c \in todo : probed' = [channel |-> c, ok |-> account[c].authenticated /\ account[c].identity]
    BY <1>3 DEF ProbeChannel
  <2>2. c \in enabled /\ c \in Channels
    BY <1>3, <2>1 DEF ProbeChannel, IInv, Gating
  <2>3. account[c].identity => "identity" \in seen[c]
    BY <1>3, <2>2 DEF ProbeChannel, IInv, Gating, Holding, Gates
  <2>4. \A d \in Channels : Holding(d)' = Holding(d)
    BY <1>3 DEF ProbeChannel, world, Holding, DryRunSafe
  <2>5. Gating'
    BY <1>3, <2>1, <2>2, <2>3, <2>4 DEF ProbeChannel, IInv, Gating
  <2> QED
    BY <1>3, <2>5, SetupSteps DEF ProbeChannel, IInv, Launchd
<1>4. CASE DryRun
  <2> DEFINE c == probed.channel
  <2>1. c \in enabled /\ c \in Channels
    BY <1>4 DEF DryRun, IInv, Gating
  <2>2. sound /\ probed.ok /\ DryRunSafe(c) => seen[c] = Gates
    <3>1. DryRunSafe(c) => "dry run" \in seen[c]
      BY <1>4, <2>1 DEF DryRun, IInv, Gating, Holding, Gates
    <3>2. sound => "tools" \in seen[c] /\ "authenticated" \in seen[c]
      BY <1>4, <2>1 DEF DryRun, IInv, Gating
    <3>3. probed.ok => "identity" \in seen[c]
      BY <1>4 DEF DryRun, IInv, Gating
    <3>4. seen[c] \subseteq Gates
      BY <2>1 DEF IInv, Gating
    <3> QED
      BY <3>1, <3>2, <3>3, <3>4 DEF Gates
  <2>3. \A d \in Channels : Holding(d)' = Holding(d)
    BY <1>4 DEF DryRun, world, Holding, DryRunSafe
  <2>4. \A d \in passed' : d \in Channels /\ seen[d] = Gates
    BY <1>4, <2>1, <2>2 DEF DryRun, IInv, Gating
  <2>5. Gating'
    BY <1>4, <2>3, <2>4 DEF DryRun, IInv, Gating
  <2> QED
    BY <1>4, <2>5, SetupSteps DEF DryRun, IInv, Launchd
<1>5. CASE WriteSetup
  <2>1. Gating'
    BY <1>5 DEF WriteSetup, ConfigureOver, Gating
  <2> QED
    BY <1>5, <2>1, SetupSteps DEF WriteSetup, IInv
<1> QED
  BY <1>1, <1>2, <1>3, <1>4, <1>5, <1>6, <1>7

LEMMA CommandSteps ==
  ASSUME IInv, \/ \E schedule \in Schedules \cup {Invalid} : Install(schedule)
               \/ BootoutOld \/ BuildRefuses \/ WritePlist \/ Bootstrap \/ Remove \/ Unload \/ Unlink
  PROVE  IInv'
<1> USE AutomationConstants
<1>1. ASSUME NEW schedule \in Schedules \cup {Invalid}, Install(schedule) PROVE IInv'
  BY <1>1, LaunchdSteps DEF Install, Owned, Begin, launchd, IInv, NoOrphan, Launchd, ReportsTrue, CommandsHeal
<1>2. CASE BootoutOld
  BY <1>2, LaunchdSteps DEF BootoutOld, Bootout, IInv, NoOrphan, Launchd, ReportsTrue, CommandsHeal
<1>3. CASE WritePlist
  BY <1>3, LaunchdSteps DEF WritePlist, IInv, NoOrphan, Launchd, ReportsTrue, CommandsHeal
<1>4. CASE Bootstrap
  BY <1>4, LaunchdSteps DEF Bootstrap, IInv, NoOrphan, Launchd, ReportsTrue, CommandsHeal
<1>5. CASE Remove
  BY <1>5, LaunchdSteps DEF Remove, Owned, Begin, launchd, IInv, NoOrphan, Launchd, ReportsTrue, CommandsHeal
<1>6. CASE Unload
  BY <1>6, LaunchdSteps DEF Unload, Bootout, IInv, NoOrphan, Launchd, ReportsTrue, CommandsHeal
<1>7. CASE Unlink
  BY <1>7, LaunchdSteps DEF Unlink, IInv, NoOrphan, Launchd, ReportsTrue, CommandsHeal
<1>8. CASE BuildRefuses
  BY <1>8, LaunchdSteps DEF BuildRefuses, launchd, IInv, NoOrphan, Launchd, ReportsTrue, CommandsHeal
<1> QED
  BY <1>1, <1>2, <1>3, <1>4, <1>5, <1>6, <1>7, <1>8

LEMMA OtherSteps ==
  ASSUME IInv, Killed \/ WorldChanges \/ Login \/ ForeignInstalls \/ ForeignRemoves
  PROVE  IInv'
<1> USE AutomationConstants
<1>1. CASE Killed
  <2>1. Gating'
    BY <1>1 DEF Killed, ConfigureOver, Gating
  <2> QED
    BY <1>1, <2>1 DEF Killed, launchd, IInv, NoOrphan, Launchd, ReportsTrue, CommandsHeal
<1>2. CASE WorldChanges
  <2>1. \A c \in Channels : Holding(c)' \subseteq Gates
    BY DEF Holding
  <2>2. \A c \in Channels :
          seen'[c] = IF pc \in {"tools", "probes", "gates"} THEN seen[c] \cup Holding(c)' ELSE {}
    BY <1>2 DEF WorldChanges
  <2>3. Gating'
    BY <1>2, <2>1, <2>2 DEF WorldChanges, IInv, Gating
  <2> QED
    BY <1>2, <2>3 DEF WorldChanges, launchd, IInv, NoOrphan, Launchd, ReportsTrue, CommandsHeal
<1>3. CASE Login
  BY <1>3, LaunchdSteps DEF Login, IInv, NoOrphan, Launchd, ReportsTrue, CommandsHeal
<1>4. CASE ForeignInstalls
  BY <1>4, LaunchdSteps DEF ForeignInstalls, IInv, NoOrphan, Launchd, ReportsTrue, CommandsHeal
<1>5. CASE ForeignRemoves
  BY <1>5, LaunchdSteps DEF ForeignRemoves, IInv, NoOrphan, Launchd, ReportsTrue, CommandsHeal
<1> QED
  BY <1>1, <1>2, <1>3, <1>4, <1>5

LEMMA StepIInv == IInv /\ [Next]_vars => IInv'
<1>1. ASSUME IInv, UNCHANGED vars PROVE IInv'
  BY <1>1 DEF vars, world, launchd, configure, IInv, NoOrphan, Launchd, Gating,
     ReportsTrue, CommandsHeal, Holding, DryRunSafe
<1> QED
  BY <1>1, GatingSteps, CommandSteps, OtherSteps DEF Next

LEMMA Inductive == Spec => []IInv
BY InitIInv, StepIInv, PTL DEF Spec

\* A reported install or removal is what the file and launchd show.
THEOREM ReportsAreTrue == Spec => []ReportsTrue
BY Inductive, PTL DEF IInv

\* A command fails only if launchctl failed during that very command or the schedule
\* it was given is invalid.
THEOREM CommandsDoHeal == Spec => []CommandsHeal
BY Inductive, PTL DEF IInv

\* setup.json enables a channel only on gates that held while it was made.
THEOREM EnabledChannelsAreProven == Spec => EnabledIsProven
<1>1. IInv /\ [Next]_vars =>
        [setup' # setup => \A c \in DOMAIN setup' : setup'[c] => seen[c] = Gates]_vars
  <2> SUFFICES ASSUME IInv, [Next]_vars, setup' # setup, NEW c \in DOMAIN setup', setup'[c]
               PROVE  seen[c] = Gates
    OBVIOUS
  <2>1. WriteSetup
    BY DEF Next, vars, Setup, CheckTools, CheckChannel, Render, ProbeChannel, DryRun, Install, Begin, BootoutOld,
       BuildRefuses, WritePlist, Bootstrap, Remove, Unload, Unlink, Killed, WorldChanges, Login,
       ForeignInstalls, ForeignRemoves
  <2>2. c \in passed /\ pc = "gates"
    BY <2>1 DEF WriteSetup
  <2> QED
    BY <2>2 DEF IInv, Gating
<1> QED
  BY <1>1, Inductive, PTL DEF Spec, EnabledIsProven
=============================================================================
