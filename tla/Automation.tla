------------------------------ MODULE Automation ------------------------------
(***************************************************************************)
(* Onboarding and background automation: the setup command (cli.py,        *)
(* SetupService.configure in setup.py), which writes the channels that     *)
(* passed its gates to setup.json, and automation install and remove       *)
(* (cli.py, LaunchdManager in automation/launchd.py), which keep one       *)
(* LaunchAgent as a plist file and as a job that launchd has loaded.       *)
(*                                                                         *)
(* One command runs at a time and may be killed between any two steps.     *)
(* Accounts and tools change under it; launchctl may fail; at a login      *)
(* launchd loads what it finds; other programs may use our label.          *)
(***************************************************************************)
EXTENDS Integers, FiniteSets

CONSTANTS Channels,   \* channels that setup may enable
          InBrowser,  \* those whose configured mode is "browser"
          Schedules,  \* schedules to install
          Invalid,    \* a schedule on the command line that no launchd job can have
          None,       \* no file, no job
          Foreign,    \* a plist, or a job, of somebody else under our label
          MaxChanges  \* bound on changes of accounts and tools

ASSUME AutomationConstants ==
  /\ InBrowser \subseteq Channels /\ IsFiniteSet(Channels)
  /\ {Invalid, None, Foreign} \cap Schedules = {}
  /\ None # Foreign /\ None # Invalid /\ Foreign # Invalid

VARIABLES tools,   \* every required tool works and renders
          account, \* of each channel, as its probe and dry run would find it
          changes, \* changes of accounts and tools so far
          setup,   \* setup.json: the background_enabled of its channels
          plist,   \* the LaunchAgent file
          job,     \* the job launchd has loaded under our label
          pc,      \* the next step of the running command
          asked,   \* the schedule to install, None for a removal
          sound,   \* dependencies_ok and rendered
          todo,    \* channels configure has still to gate
          probed,  \* the probe of the channel at hand: done, and its outcome
          passed,  \* the channels that passed their gates
          enabled, \* the channels this configure is to enable
          report,  \* how the last command ended
          trouble, \* launchctl failed during it
          seen     \* history: what has held of each channel in this configure

world     == <<tools, account, changes>>
launchd   == <<plist, job>>
configure == <<sound, todo, probed, passed, enabled, seen>>
vars      == <<world, setup, launchd, pc, asked, configure, report, trouble>>

Gates    == {"tools", "authenticated", "identity", "dry run"}
Accounts == [authenticated : BOOLEAN, identity : BOOLEAN,
             dry : {"unsafe", "safe", "controls"}]

\* _dry_run_safe: a browser must also show its upload and submit controls.
DryRunSafe(c) == account[c].dry \in {"controls"} \cup (IF c \in InBrowser THEN {} ELSE {"safe"})

\* The gates of a channel that hold now.
Holding(c) == {g \in Gates : \/ g = "tools" /\ tools
                             \/ g = "authenticated" /\ account[c].authenticated
                             \/ g = "identity" /\ account[c].identity
                             \/ g = "dry run" /\ DryRunSafe(c)}

Init == /\ tools \in BOOLEAN /\ account \in [Channels -> Accounts] /\ changes = 0
        /\ setup = [c \in {} |-> FALSE] /\ plist = None /\ job = None
        /\ pc = "idle" /\ asked = None /\ sound = FALSE /\ todo = {}
        /\ probed = None /\ passed = {} /\ enabled = {}
        /\ report = "none" /\ trouble = FALSE /\ seen = [c \in Channels |-> {}]

----------------------------------------------------------------------------
\* setup --enable ...: the checks, the gates of one channel after the other, the file.

Setup(es) == /\ pc = "idle" /\ pc' = "tools" /\ enabled' = es
             /\ report' = "none" /\ trouble' = FALSE /\ asked' = None
             /\ seen' = [c \in Channels |-> Holding(c)]
             /\ UNCHANGED <<world, setup, launchd, sound, todo, probed, passed>>

\* dependencies_ok and rendered: one unauthenticated channel blocks every channel.
CheckTools ==
  /\ pc = "tools" /\ pc' = "probes" /\ sound' = tools /\ todo' = enabled
  /\ UNCHANGED <<world, setup, launchd, asked, probed, passed, enabled, report, trouble, seen>>

CheckChannel ==
  /\ pc = "probes"
  /\ \E c \in todo : todo' = todo \ {c} /\ sound' = (sound /\ account[c].authenticated)
  /\ UNCHANGED <<world, setup, launchd, pc, asked, probed, passed, enabled, report, trouble, seen>>

Render ==
  /\ pc = "probes" /\ todo = {} /\ pc' = "gates" /\ sound' = (sound /\ tools)
  /\ todo' = enabled /\ probed' = None /\ passed' = {}
  /\ UNCHANGED <<world, setup, launchd, asked, enabled, report, trouble, seen>>

ProbeChannel ==
  /\ pc = "gates" /\ todo # {} /\ probed = None
  /\ \E c \in todo :
       probed' = [channel |-> c, ok |-> account[c].authenticated /\ account[c].identity]
  /\ UNCHANGED <<world, setup, launchd, pc, asked, sound, todo, passed, enabled, report, trouble, seen>>

\* Mutant: no channel is asked for its controls.
DryRunAnySafe ==
  /\ pc = "gates" /\ probed # None /\ probed' = None
  /\ todo' = todo \ {probed.channel}
  /\ passed' = IF sound /\ probed.ok /\ account[probed.channel].dry # "unsafe"
               THEN passed \cup {probed.channel} ELSE passed
  /\ UNCHANGED <<world, setup, launchd, pc, asked, sound, enabled, report, trouble, seen>>

DryRun ==
  /\ pc = "gates" /\ probed # None /\ probed' = None
  /\ todo' = todo \ {probed.channel}
  /\ passed' = IF sound /\ probed.ok /\ DryRunSafe(probed.channel)
               THEN passed \cup {probed.channel} ELSE passed
  /\ UNCHANGED <<world, setup, launchd, pc, asked, sound, enabled, report, trouble, seen>>

\* The locals of configure are gone.
ConfigureOver == /\ sound' = FALSE /\ todo' = {} /\ probed' = None
                 /\ passed' = {} /\ enabled' = {} /\ seen' = [c \in Channels |-> {}]

\* setup.json is replaced as a whole: channels set up before and not now are gone.
WriteSetup ==
  /\ pc = "gates" /\ todo = {} /\ probed = None /\ pc' = "idle"
  /\ setup' = [c \in enabled |-> c \in passed]
  /\ report' = IF sound /\ passed = enabled THEN "ready" ELSE "blocked"
  /\ ConfigureOver /\ UNCHANGED <<world, launchd, asked, trouble>>

----------------------------------------------------------------------------
\* automation install.

\* The file is one that build makes of a schedule; a link or another file is Foreign.
Owned == plist \in Schedules

BackgroundReady == DOMAIN setup # {} /\ \A c \in DOMAIN setup : setup[c]

Begin(schedule) == /\ pc = "idle" /\ asked' = schedule /\ trouble' = FALSE
                   /\ UNCHANGED <<world, setup, launchd, configure>>

\* Mutant: bootstrap is relied on to replace the loaded job.
InstallOver(schedule) ==
  /\ Begin(schedule)
  /\ \/ ~BackgroundReady /\ report' = "blocked" /\ pc' = "idle"
     \/ BackgroundReady /\ plist = Foreign /\ report' = "refused" /\ pc' = "idle"
     \/ BackgroundReady /\ plist # Foreign /\ report' = "none" /\ pc' = "write"

Install(schedule) ==
  /\ Begin(schedule)
  /\ \/ ~BackgroundReady /\ report' = "blocked" /\ pc' = "idle"
     \/ BackgroundReady /\ plist = Foreign /\ report' = "refused" /\ pc' = "idle"
     \/ BackgroundReady /\ plist = None /\ report' = "none" /\ pc' = "write"
     \/ BackgroundReady /\ Owned /\ report' = "none" /\ pc' = "bootout"

\* launchctl bootout: the job is not there, or it goes, or launchctl fails.
Bootout(gone, failed) ==
  \/ job' = None /\ gone /\ UNCHANGED trouble
  \/ job # None /\ UNCHANGED job /\ trouble' = TRUE /\ failed

\* install looks at no result of it.
BootoutOld == /\ pc = "bootout" /\ Bootout(pc' = "write", pc' = "write")
              /\ UNCHANGED <<world, setup, plist, asked, configure, report>>

\* The schedule is looked at only when the new file is built, after the bootout.
BuildRefuses == /\ pc = "write" /\ asked = Invalid /\ pc' = "idle" /\ report' = "failed"
                /\ UNCHANGED <<world, setup, launchd, asked, configure, trouble>>

WritePlist == /\ pc = "write" /\ asked # Invalid /\ plist' = asked
              /\ pc' = "bootstrap"
              /\ UNCHANGED <<world, setup, job, asked, configure, report, trouble>>

\* Mutant: the result of bootstrap is not looked at either.
BootstrapUnchecked ==
  /\ pc = "bootstrap" /\ pc' = "idle" /\ report' = "installed"
  /\ \/ job = None /\ job' = plist /\ UNCHANGED trouble
     \/ job # None /\ UNCHANGED <<job, trouble>>
     \/ UNCHANGED job /\ trouble' = TRUE
  /\ UNCHANGED <<world, setup, plist, asked, configure>>

\* bootstrap refuses a label that is loaded.
Bootstrap ==
  /\ pc = "bootstrap" /\ pc' = "idle"
  /\ \/ job = None /\ job' = plist /\ report' = "installed" /\ UNCHANGED trouble
     \/ job # None /\ report' = "failed" /\ UNCHANGED <<job, trouble>>
     \/ UNCHANGED job /\ trouble' = TRUE /\ report' = "failed"
  /\ UNCHANGED <<world, setup, plist, asked, configure>>

\* automation remove, and each removal of uninstall.

Remove == /\ Begin(None)
          /\ \/ ~Owned /\ report' = "not-installed" /\ pc' = "idle"
             \/ Owned /\ report' = "none" /\ pc' = "unload"

\* Return codes 0, 3, 5 and 113 say that the job is gone.
Unload ==
  /\ pc = "unload"
  /\ Bootout(pc' = "unlink" /\ UNCHANGED report, pc' = "idle" /\ report' = "failed")
  /\ UNCHANGED <<world, setup, plist, asked, configure>>

Unlink == /\ pc = "unlink" /\ plist' = None /\ pc' = "idle" /\ report' = "removed"
          /\ UNCHANGED <<world, setup, job, asked, configure, trouble>>

----------------------------------------------------------------------------
Killed == /\ pc # "idle" /\ pc' = "idle" /\ report' = "none"
          /\ ConfigureOver /\ UNCHANGED <<world, setup, launchd, asked, trouble>>

\* Logins, expired tokens, changed pages, tools that come and go.
WorldChanges ==
  /\ changes < MaxChanges /\ changes' = changes + 1
  /\ \/ tools' = ~tools /\ UNCHANGED account
     \/ /\ \E c \in Channels, a \in Accounts : account' = [account EXCEPT ![c] = a]
        /\ UNCHANGED tools
  /\ seen' = [c \in Channels |->
                IF pc \in {"tools", "probes", "gates"} THEN seen[c] \cup Holding(c)' ELSE {}]
  /\ UNCHANGED <<setup, launchd, pc, asked, sound, todo, probed, passed, enabled, report, trouble>>

\* launchd loads every LaunchAgent when the user logs in.
Login == /\ pc = "idle" /\ job' = plist
         /\ UNCHANGED <<world, setup, plist, pc, asked, configure, report, trouble>>

\* Another program installs under our label where there is no file, and removes that.
ForeignInstalls == /\ pc = "idle" /\ plist = None /\ job = None
                   /\ plist' = Foreign /\ job' \in {None, Foreign}
                   /\ UNCHANGED <<world, setup, pc, asked, configure, report, trouble>>
ForeignRemoves  == /\ pc = "idle" /\ plist = Foreign /\ plist' = None /\ job' = None
                   /\ UNCHANGED <<world, setup, pc, asked, configure, report, trouble>>

Next == \/ \E es \in SUBSET Channels : Setup(es)
        \/ CheckTools \/ CheckChannel \/ Render \/ ProbeChannel \/ DryRun \/ WriteSetup
        \/ \E schedule \in Schedules \cup {Invalid} : Install(schedule)
        \/ BootoutOld \/ BuildRefuses \/ WritePlist \/ Bootstrap \/ Remove \/ Unload \/ Unlink
        \/ Killed \/ WorldChanges \/ Login \/ ForeignInstalls \/ ForeignRemoves

Spec == Init /\ [][Next]_vars

----------------------------------------------------------------------------
\* setup.json enables a channel only if every gate of it held at some moment of
\* the very configure that wrote the file, however accounts and tools change
\* while its checks, probes and dry runs are made (configure).
EnabledIsProven ==
  [][setup' # setup => \A c \in DOMAIN setup' : setup'[c] => seen[c] = Gates]_vars

\* What a command reports is so, and stays so over logins: after an install the
\* file and the loaded job are the schedule asked for, after a removal there is
\* neither a file nor a job of ours (install, remove).
ReportsTrue ==
  /\ report = "installed" => plist = asked /\ job = asked
  /\ report = "removed" => plist \notin Schedules /\ job \notin Schedules

\* An install or a removal fails only if launchctl failed during it or the schedule
\* it was given is invalid, whatever the commands before it did: killed at any
\* step, failed, or unloaded a job for a schedule that was then refused, they
\* leave no loaded job without the file that the next command finds it by.
CommandsHeal == report = "failed" => trouble \/ asked = Invalid
=============================================================================
