------------------------ MODULE ManagedChrome_proofs ------------------------
(***************************************************************************)
(* ManagedChrome for every set of adapters and helpers and every timeout.  *)
(* The argument: from the poll that finds the root alive to the last       *)
(* signal nothing reaps it, so its id stays taken; and a close ends clean  *)
(* only after the group was seen empty of live processes, or killed.       *)
(* The leases of the run are as many as the adapters that hold it.         *)
(***************************************************************************)
EXTENDS ManagedChrome, FiniteSetTheorems, TLAPS

Signalling == {"identify", "group", "terminate", "wait", "verify", "kill"}

\* While the run may be signalled its root is not reaped, and a foreign process
\* needs an empty group whose root was.
RootHeld == /\ pc \in Signalling => root \in {"live", "zombie"}
            /\ foreign => root = "gone" /\ helpers = {}
            /\ harmed = FALSE

\* A run that has ended clean stays so: only a live root starts helpers.
Cleaned == /\ outcome = "clean" => root # "live" /\ helpers = {}
           /\ outcome = "clean" => pc = "closed"
           /\ pc = "absent" => root = "none"

\* Every state has its type.
THEOREM TypeCorrect == Spec => []TypeOK
<1>1. ASSUME Init PROVE TypeOK
  <2>1. foreign \in BOOLEAN /\ harmed \in BOOLEAN
    BY <1>1 DEF Init
  <2> QED
    BY <1>1, <2>1 DEF Init, TypeOK
<1>2. ASSUME TypeOK, [Next]_vars PROVE TypeOK'
  <2> USE <1>2 DEF TypeOK, os, adapters
  <2>1. CASE Launch
    BY <2>1 DEF Launch
  <2>2. CASE StartupTurn
    BY <2>2 DEF StartupTurn, Poll
  <2>3. ASSUME NEW a \in Adapters, Connect(a) PROVE TypeOK'
    BY <2>3 DEF Connect
  <2>4. CASE ConnectFails
    BY <2>4 DEF ConnectFails
  <2>5. CASE Attach
    <3>1. Cardinality(Adapters) \in Int
      BY FS_CardinalityType, ChromeConstants
    <3> QED
      BY <2>5, <3>1 DEF Attach
  <2>6. ASSUME NEW a \in Adapters, CloseAdapter(a) PROVE TypeOK'
    BY <2>6 DEF CloseAdapter, Release
  <2>7. CASE BeginClose
    BY <2>7 DEF BeginClose, Poll, End
  <2>8. CASE Identify \/ CheckGroup \/ TableFails \/ ProbeRaises
    BY <2>8 DEF Identify, CheckGroup, TableFails, ProbeRaises, End
  <2>9. CASE Terminate
    <3>1. harmed' \in BOOLEAN
      BY <2>9 DEF Terminate, Signal
    <3> QED
      BY <2>9, <3>1 DEF Terminate, End
  <2>10. CASE WaitTurn
    BY <2>10 DEF WaitTurn, Poll, End, Tick
  <2>11. CASE Verify
    BY <2>11 DEF Verify, End
  <2>12. CASE Kill
    <3>1. harmed' \in BOOLEAN
      BY <2>12 DEF Kill, Signal
    <3> QED
      BY <2>12, <3>1 DEF Kill, End
  <2>13. CASE Environment
    BY <2>13 DEF Environment, RootExits, HelperStarts, HelperExits, IdReused
  <2>14. CASE UNCHANGED vars
    BY <2>14 DEF vars
  <2> QED
    BY <1>2, <2>1, <2>2, <2>3, <2>4, <2>5, <2>6, <2>7, <2>8, <2>9, <2>10, <2>11, <2>12,
       <2>13, <2>14 DEF Next, Program
<1> QED
  BY <1>1, <1>2, PTL DEF Spec

-----------------------------------------------------------------------------

LEMMA RootHeldKept ==
  ASSUME TypeOK, RootHeld, Cleaned, [Next]_vars
  PROVE  RootHeld'
<1> USE DEF TypeOK, RootHeld, Signalling, os, adapters
<1>1. CASE Launch
  BY <1>1 DEF Launch, Cleaned
<1>2. CASE StartupTurn
  BY <1>2 DEF StartupTurn, Poll
<1>3. ASSUME NEW a \in Adapters, Connect(a) PROVE RootHeld'
  BY <1>3 DEF Connect
<1>4. CASE ConnectFails \/ Attach
  BY <1>4 DEF ConnectFails, Attach
<1>5. ASSUME NEW a \in Adapters, CloseAdapter(a) PROVE RootHeld'
  BY <1>5 DEF CloseAdapter, Release
\* The poll that finds the root alive, or reaps it and ends.
<1>6. CASE BeginClose
  BY <1>6 DEF BeginClose, Poll, End
<1>7. CASE Identify \/ CheckGroup \/ TableFails \/ ProbeRaises
  BY <1>7 DEF Identify, CheckGroup, TableFails, ProbeRaises, End
\* The first signal: the root is not reaped, so no foreign process has its id.
<1>8. CASE Terminate
  <2>1. foreign = FALSE
    BY <1>8 DEF Terminate
  <2>2. harmed' = FALSE
    BY <1>8, <2>1 DEF Terminate, Signal
  <2> QED
    BY <1>8, <2>1, <2>2 DEF Terminate, End
<1>9. CASE WaitTurn
  BY <1>9 DEF WaitTurn, Poll, End, Tick
<1>10. CASE Verify
  BY <1>10 DEF Verify, End
\* The second signal, for the same reason.
<1>11. CASE Kill
  <2>1. foreign = FALSE
    BY <1>11 DEF Kill
  <2>2. harmed' = FALSE
    BY <1>11, <2>1 DEF Kill, Signal
  <2> QED
    BY <1>11, <2>1, <2>2 DEF Kill, End
<1>12. CASE Environment
  BY <1>12 DEF Environment, RootExits, HelperStarts, HelperExits, IdReused
<1>13. CASE UNCHANGED vars
  BY <1>13 DEF vars
<1> QED
  BY <1>1, <1>2, <1>3, <1>4, <1>5, <1>6, <1>7, <1>8, <1>9, <1>10, <1>11, <1>12, <1>13
     DEF Next, Program

LEMMA CleanedKept ==
  ASSUME TypeOK, RootHeld, Cleaned, [Next]_vars
  PROVE  Cleaned'
<1> USE DEF TypeOK, RootHeld, Cleaned, Signalling, os, adapters
<1>1. CASE Launch
  BY <1>1 DEF Launch
<1>2. CASE StartupTurn
  BY <1>2 DEF StartupTurn, Poll
<1>3. ASSUME NEW a \in Adapters, Connect(a) PROVE Cleaned'
  BY <1>3 DEF Connect
<1>4. CASE ConnectFails \/ Attach
  BY <1>4 DEF ConnectFails, Attach
<1>5. ASSUME NEW a \in Adapters, CloseAdapter(a) PROVE Cleaned'
  BY <1>5 DEF CloseAdapter, Release
<1>6. CASE BeginClose
  BY <1>6 DEF BeginClose, Poll, End
<1>7. CASE Identify \/ CheckGroup \/ TableFails \/ ProbeRaises
  BY <1>7 DEF Identify, CheckGroup, TableFails, ProbeRaises, End
<1>8. CASE Terminate
  BY <1>8 DEF Terminate, End
\* The group was seen without a live member; only a live root starts one.
<1>9. CASE WaitTurn
  BY <1>9 DEF WaitTurn, Poll, Remaining, End, Tick
<1>10. CASE Verify
  BY <1>10 DEF Verify, End
<1>11. CASE Kill
  BY <1>11 DEF Kill, End
<1>12. CASE Environment
  BY <1>12 DEF Environment, RootExits, HelperStarts, HelperExits, IdReused
<1>13. CASE UNCHANGED vars
  BY <1>13 DEF vars
<1> QED
  BY <1>1, <1>2, <1>3, <1>4, <1>5, <1>6, <1>7, <1>8, <1>9, <1>10, <1>11, <1>12, <1>13
     DEF Next, Program

LEMMA Invariance == Spec => [](RootHeld /\ Cleaned)
<1>1. Init => RootHeld /\ Cleaned
  BY DEF Init, RootHeld, Cleaned, Signalling
<1> QED
  BY <1>1, TypeCorrect, RootHeldKept, CleanedKept, PTL DEF Spec

\* However processes exit and process ids are reused, no signal goes to a process
\* of somebody else (ManagedChrome.close).
THEOREM NobodyElseIsSignalled == Spec => []ForeignUnharmed
<1>1. RootHeld => ForeignUnharmed
  BY DEF RootHeld, ForeignUnharmed
<1> QED
  BY <1>1, Invariance, PTL

\* A close that ends without an error leaves no process of the run alive.
THEOREM CleanIsClean == Spec => []CleanCloseLeavesNone
<1>1. Cleaned => CleanCloseLeavesNone
  BY DEF Cleaned, CleanCloseLeavesNone
<1> QED
  BY <1>1, Invariance, PTL

-----------------------------------------------------------------------------
\* The leases count the adapters not closed.

LeaseCount == /\ pc = "up" => open # {} /\ leases = Cardinality(open)
              /\ pc # "up" => open = {}

\* Every action but Attach and CloseAdapter leaves the leases and the adapters alone,
\* and moves neither to nor from "up".
LEMMA LeasesMoveWithAdapters ==
  ASSUME TypeOK, [Next]_vars, ~Attach, \A a \in Adapters : ~CloseAdapter(a)
  PROVE  (pc' = "up" <=> pc = "up") /\ open' = open /\ leases' = leases
<1> USE DEF adapters, os
<1>1. CASE Launch
  BY <1>1 DEF Launch
<1>2. CASE StartupTurn
  BY <1>2 DEF StartupTurn, Poll
<1>3. CASE (\E a \in Adapters : Connect(a)) \/ ConnectFails
  BY <1>3 DEF Connect, ConnectFails
<1>4. CASE BeginClose
  BY <1>4 DEF BeginClose, Poll, End
<1>5. CASE Identify \/ CheckGroup \/ TableFails \/ ProbeRaises
  BY <1>5 DEF Identify, CheckGroup, TableFails, ProbeRaises, End
<1>6. CASE Terminate
  BY <1>6 DEF Terminate, End
<1>7. CASE WaitTurn
  BY <1>7 DEF WaitTurn, Poll, End
<1>8. CASE Verify \/ Kill
  BY <1>8 DEF Verify, Kill, End
<1>9. CASE Environment
  BY <1>9 DEF Environment
<1>10. CASE UNCHANGED vars
  BY <1>10 DEF vars
<1> QED
  BY <1>1, <1>2, <1>3, <1>4, <1>5, <1>6, <1>7, <1>8, <1>9, <1>10 DEF Next, Program

LEMMA LeaseCountKept ==
  ASSUME TypeOK, LeaseCount, [Next]_vars
  PROVE  LeaseCount'
<1> USE DEF LeaseCount
<1>1. CASE Attach
  BY <1>1, ChromeConstants DEF Attach
\* One adapter and one lease less; the last of both ends "up".
<1>2. ASSUME NEW a \in Adapters, CloseAdapter(a) PROVE LeaseCount'
  <2>1. IsFiniteSet(open) /\ IsFiniteSet(open \ {a})
    BY ChromeConstants, FS_Subset DEF TypeOK
  <2>2. Cardinality(open \ {a}) = Cardinality(open) - 1
    BY <1>2, <2>1, FS_RemoveElement DEF CloseAdapter
  <2>3. leases' = Cardinality(open') /\ (leases' = 0 <=> open' = {})
    BY <1>2, <2>1, <2>2, FS_EmptySet DEF CloseAdapter, Release
  <2> QED
    BY <1>2, <2>3 DEF CloseAdapter, Release
<1>3. CASE ~Attach /\ \A a \in Adapters : ~CloseAdapter(a)
  BY <1>3, LeasesMoveWithAdapters
<1> QED
  BY <1>1, <1>2, <1>3

\* The shared run is up while an adapter is not closed, and closing it begins with
\* the last one (_SharedManagedRuntime).
THEOREM RunOutlivesItsAdapters == Spec => []ClosedWithTheLast
<1>1. Init => LeaseCount
  BY DEF Init, LeaseCount
<1>2. LeaseCount => ClosedWithTheLast
  BY DEF LeaseCount, ClosedWithTheLast
<1> QED
  BY <1>1, <1>2, TypeCorrect, LeaseCountKept, PTL DEF Spec
=============================================================================
