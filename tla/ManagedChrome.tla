---------------------------- MODULE ManagedChrome ----------------------------
(***************************************************************************)
(* The Chrome run that browser adapters share: launch_chrome and           *)
(* ManagedChrome of publishing/chrome.py, and the attachment of adapters   *)
(* to it and their closing (browser_adapters.py).                          *)
(*                                                                         *)
(* Chrome's root process leads a process group of helpers.  Processes come *)
(* and go between any two steps of the program.  A root that exited stays  *)
(* a zombie, and its id taken, until poll() reaps it; once the group is    *)
(* empty the operating system may give the id to a foreign process.        *)
(***************************************************************************)
EXTENDS Integers, FiniteSets

CONSTANTS Adapters,       \* the adapters that share the run
          Helpers,        \* helper processes Chrome may start
          StartupTimeout, \* startup_timeout, in sleeps of 0.1 s
          Grace           \* the 5 s after SIGTERM, in the same unit

ASSUME ChromeConstants ==
  /\ IsFiniteSet(Adapters) /\ Adapters # {}
  /\ StartupTimeout \in Nat \ {0} /\ Grace \in Nat \ {0}

VARIABLES root,     \* the root process: "none", "live", "zombie" or "gone"
          helpers,  \* live helpers in its group
          foreign,  \* a process that is not ours has the root's id and group
          pc,       \* what the program does with the run
          now,      \* sleeps since the launch or since SIGTERM
          pages,    \* adapters with a page
          open,     \* adapters not closed
          leases,   \* _SharedManagedRuntime._leases
          outcome,  \* how the run ended: "open", "clean", "exited",
                    \* "refused" (close raised) or "lost" (never closed)
          harmed    \* history: a signal went to the foreign process

vars == <<root, helpers, foreign, pc, now, pages, open, leases, outcome, harmed>>

os       == <<root, helpers, foreign>>
adapters == <<pages, open, leases>>

Init == /\ root = "none" /\ helpers = {} /\ foreign = FALSE
        /\ pc = "absent" /\ now = 0 /\ pages = {} /\ open = {} /\ leases = 0
        /\ outcome = "open" /\ harmed = FALSE

----------------------------------------------------------------------------
\* The operating system.

RootExits    == root = "live" /\ root' = "zombie" /\ UNCHANGED <<helpers, foreign>>
HelperStarts == /\ root = "live"
                /\ \E h \in Helpers \ helpers : helpers' = helpers \cup {h}
                /\ UNCHANGED <<root, foreign>>
HelperExits  == /\ \E h \in helpers : helpers' = helpers \ {h}
                /\ UNCHANGED <<root, foreign>>
IdReused     == /\ root = "gone" /\ helpers = {} /\ foreign' = TRUE
                /\ UNCHANGED <<root, helpers>>

Environment == /\ RootExits \/ HelperStarts \/ HelperExits \/ IdReused
               /\ UNCHANGED <<pc, now, adapters, outcome, harmed>>

\* Popen.poll: what it finds dead it reaps.
Poll(alive, dead) == \/ root = "live" /\ alive /\ UNCHANGED root
                     \/ root # "live" /\ dead /\ root' = "gone"

\* A signal reaches whoever has the group.
Signal == harmed' = (harmed \/ foreign)

----------------------------------------------------------------------------
\* launch_chrome.

Launch == /\ pc = "absent" /\ root' = "live" /\ pc' = "starting" /\ now' = 0
          /\ UNCHANGED <<helpers, foreign, adapters, outcome, harmed>>

\* Poll, probe the debugging port, look at the clock, sleep.
StartupTurn ==
  /\ pc = "starting" /\ UNCHANGED <<helpers, foreign, adapters, outcome, harmed>>
  /\ Poll(\/ pc' = "connecting" /\ UNCHANGED now
          \/ now >= StartupTimeout /\ pc' = "closing" /\ UNCHANGED now
          \/ now < StartupTimeout /\ now' = now + 1 /\ UNCHANGED pc,
          pc' = "closing" /\ UNCHANGED now)

\* The adapters get their pages one by one; a failure closes the run at once.
Connect(a) ==
  /\ pc = "connecting" /\ a \in Adapters \ pages
  /\ pages' = pages \cup {a}
  /\ UNCHANGED <<os, pc, now, open, leases, outcome, harmed>>

ConnectFails ==
  /\ pc = "connecting" /\ pages # Adapters
  /\ pages' = {} /\ pc' = "closing"
  /\ UNCHANGED <<os, now, open, leases, outcome, harmed>>

Attach ==
  /\ pc = "connecting" /\ pages = Adapters
  /\ open' = Adapters /\ leases' = Cardinality(Adapters) /\ pc' = "up"
  /\ UNCHANGED <<os, now, pages, outcome, harmed>>

----------------------------------------------------------------------------
\* An adapter is closed once: its page, then its lease, also when the page raises.
\* The last lease closes the run.

Release == leases' = leases - 1 /\ pc' = IF leases' = 0 THEN "closing" ELSE "up"

CloseAdapterEveryTime(a) ==
  /\ pc = "up" /\ a \in Adapters
  /\ open' = open \ {a} /\ pages' = pages \ {a} /\ Release
  /\ UNCHANGED <<os, now, outcome, harmed>>

CloseAdapter(a) ==
  /\ pc = "up" /\ a \in open
  /\ open' = open \ {a} /\ pages' = pages \ {a} /\ Release
  /\ UNCHANGED <<os, now, outcome, harmed>>

----------------------------------------------------------------------------
\* ManagedChrome.close, which marks itself closed first and is never repeated.

End(how) == pc' = "closed" /\ outcome' = how

\* A root that has exited is reaped and nothing is signalled.
BeginClose ==
  /\ pc = "closing"
  /\ Poll(pc' = "identify" /\ UNCHANGED outcome, End("exited"))
  /\ UNCHANGED <<helpers, foreign, now, adapters, harmed>>

\* The process table must show the root by its command line, which a zombie has
\* lost; os.getpgid and os.getsid of a zombie answer or raise.
Identify ==
  /\ pc = "identify"
  /\ IF root = "live" THEN pc' = "group" /\ UNCHANGED outcome ELSE End("refused")
  /\ UNCHANGED <<os, now, adapters, harmed>>

CheckGroup ==
  /\ pc = "group"
  /\ \/ pc' = "terminate" /\ UNCHANGED outcome
     \/ root # "live" /\ End("refused")
  /\ UNCHANGED <<os, now, adapters, harmed>>

\* A group of zombies takes the signal or raises ProcessLookupError.
Terminate ==
  /\ pc = "terminate" /\ Signal /\ now' = 0
  /\ \/ pc' = "wait" /\ UNCHANGED outcome
     \/ root # "live" /\ helpers = {} /\ ~foreign /\ End("clean")
  /\ UNCHANGED <<os, adapters>>

\* _verify_owned_anchor: the root is in the table under its id, group, session and
\* start time, alive or as a zombie.
Anchored == root \in {"live", "zombie"}

RemainingRoot == root = "live"

\* _remaining_owned_members.
Remaining == root = "live" \/ helpers # {}

TickOfThisTurn(t) == t
Tick(t) == t + 1
GraceOver == now >= Grace

WaitTurn ==
  /\ pc = "wait"
  /\ \/ ~Anchored /\ End("refused") /\ UNCHANGED <<root, now>>
     \/ Anchored /\ ~Remaining /\ Poll(FALSE, End("clean")) /\ UNCHANGED now
     \/ /\ Anchored /\ Remaining /\ GraceOver
        /\ pc' = "verify" /\ UNCHANGED <<root, now, outcome>>
     \/ /\ Anchored /\ Remaining /\ ~GraceOver 
        /\ now' = Tick(now) /\ UNCHANGED <<root, pc, outcome>>
  /\ UNCHANGED <<helpers, foreign, adapters, harmed>>

VerifyByPoll ==
  /\ pc = "verify"
  /\ Poll(pc' = "kill", pc' = "kill")
  /\ UNCHANGED <<helpers, foreign, now, adapters, outcome, harmed>>

\* Another look at the anchor before the second signal; the zombie is not reaped.
Verify ==
  /\ pc = "verify"
  /\ IF Anchored THEN pc' = "kill" /\ UNCHANGED outcome ELSE End("refused")
  /\ UNCHANGED <<os, now, adapters, harmed>>

Kill ==
  /\ pc = "kill" /\ Signal /\ End("clean")
  /\ helpers' = {} /\ root' = IF root = "live" THEN "zombie" ELSE root
  /\ UNCHANGED <<foreign, now, adapters>>

----------------------------------------------------------------------------
\* ps fails: close raises where it needs the process table.
TableFails == /\ pc \in {"identify", "wait", "verify"} /\ End("refused")
              /\ UNCHANGED <<os, now, adapters, harmed>>

\* The probe of the debugging port raises something it does not catch:
\* launch_chrome raises too, and nobody is left to close the run.
ProbeRaises == /\ pc = "starting" /\ root = "live" /\ End("lost")
               /\ UNCHANGED <<os, now, adapters, harmed>>

Program == \/ StartupTurn \/ (\E a \in Adapters : Connect(a)) \/ ConnectFails \/ Attach
           \/ BeginClose \/ Identify \/ CheckGroup \/ Terminate \/ WaitTurn \/ Verify \/ Kill

Next == \/ Launch \/ Program \/ (\E a \in Adapters : CloseAdapter(a)) \/ Environment
        \/ TableFails \/ ProbeRaises
        \/ (pc = "closed" /\ UNCHANGED vars)

Spec == Init /\ [][Next]_vars /\ WF_vars(Program)

----------------------------------------------------------------------------

TypeOK ==
  /\ root \in {"none", "live", "zombie", "gone"} /\ helpers \subseteq Helpers
  /\ foreign \in BOOLEAN /\ harmed \in BOOLEAN
  /\ pc \in {"absent", "starting", "connecting", "up", "closing", "identify", "group",
             "terminate", "wait", "verify", "kill", "closed"}
  /\ now \in Nat /\ leases \in Int
  /\ pages \subseteq Adapters /\ open \subseteq Adapters
  /\ outcome \in {"open", "clean", "exited", "refused", "lost"}

\* No signal goes to a process that is not of this run, even when Chrome dies and
\* its process id is taken between a check and the signal (chrome.py:190-195).
ForeignUnharmed == ~harmed

\* A close that ends without an error, and found the root not reaped, leaves no
\* process of the run alive: neither the root nor a helper that outlives it.
CleanCloseLeavesNone == outcome = "clean" => root # "live" /\ helpers = {}

\* Adapters share the run: it is closed with the last one, not before and not later.
ClosedWithTheLast == pc = "up" <=> open # {}

\* A launch or a close ends, however the processes behave.
RunSettles == pc \notin {"absent", "up", "closed"} ~> pc \in {"up", "closed"}
=============================================================================
