--------------------------- MODULE UninstallProofs --------------------------
(***************************************************************************)
(* Theorems about `kubelift uninstall`, for every set of machines and      *)
(* masters and every number of failures.                                   *)
(***************************************************************************)
EXTENDS UninstallProperties, TLAPS

(* What a script has behind it is gone, whichever attempt it belongs to: no  *)
(* step puts anything back.                                                  *)
ScriptTrue ==
    \A m \in Machines, a \in Attempts :
        /\ script[m][a] = "binaries" => left[m] \subseteq {"binaries"}
        /\ script[m][a] = "done" => Clean(m)

(* A discovered node is still to be removed, or it is Master0, or it is      *)
(* clean and gone for good.                                                  *)
FoundTrue ==
    /\ \A m \in found : m \in todo \/ m = Local \/ (Clean(m) /\ m \notin nodes)
    /\ pc # "idle" => Local \in found
    /\ pc \in {"remote", "delete"} => at \in todo
    /\ pc = "delete" => Clean(at)
    /\ pc = "local" => todo = {}

(* A machine that was discovered, or that a script was sent to, or that lost *)
(* anything, is a node of the API until it is clean.                         *)
NodesKept ==
    \A m \in Machines :
        \/ m \in found \/ left[m] # Everything \/ (\E a \in Attempts : script[m][a] # "off")
        => m \in nodes \/ Clean(m)

IInv == TypeOK /\ ScriptTrue /\ FoundTrue /\ NodesKept /\ SuccessMeansClean

LEMMA TypeInductive == TypeOK /\ [Next]_vars => TypeOK'
<1> SUFFICES ASSUME TypeOK, [Next]_vars PROVE TypeOK'
  OBVIOUS
<1> USE MachinesAssumption, BoundsAssumption DEF TypeOK, Steps, Attempts, Places
<1>1. CASE Discover
  BY <1>1 DEF Discover
<1>2. ASSUME NEW m \in Machines, CleanRemote(m) PROVE TypeOK'
  BY <1>2 DEF CleanRemote, StartScript, AfterConnect
<1>3. CASE RemoteCleaned \/ DeleteNode \/ DeleteFails \/ LocalCleaned
  BY <1>3 DEF RemoteCleaned, DeleteNode, DeleteFails, LocalCleaned, Quit
<1>4. CASE CleanLocal
  BY <1>4 DEF CleanLocal, StartScript
<1>5. CASE Stop
  <2>1. script' \in [Machines -> [Attempts -> Places]]
    <3>1. \/ UNCHANGED script
          \/ script' = [script EXCEPT ![at] = [script[at] EXCEPT ![faults] = "off"]]
      BY <1>5 DEF Stop
    <3>2. [script[at] EXCEPT ![faults] = "off"] \in [Attempts -> Places]
      <4>1. script[at] \in [Attempts -> Places] /\ "off" \in Places
        OBVIOUS
      <4> HIDE DEF Attempts, Places
      <4> QED
        BY <4>1
    <3> QED
      BY <3>1, <3>2
  <2>2. faults' \in 0..MaxFaults /\ UNCHANGED <<nodes, left, at, reported>>
    BY <1>5 DEF Stop
  <2>3. pc' = "idle" /\ found' = {} /\ todo' = {}
    BY <1>5 DEF Stop, Quit
  <2> QED
    BY <2>1, <2>2, <2>3
<1>6. ASSUME NEW m \in Machines, KubeletRegisters(m) PROVE TypeOK'
  BY <1>6 DEF KubeletRegisters
<1>7. ASSUME NEW m \in Machines, NEW a \in Attempts, Cleanup(m, a) PROVE TypeOK'
  <2>1. UNCHANGED <<nodes, pc, found, todo, at, reported, faults>>
    BY <1>7 DEF Cleanup, ResetNode, RemoveCredentials, RemoveDirectories, RemoveBinaries, Move
  <2>3. script' \in [Machines -> [Attempts -> Places]]
    <3>1. PICK place \in Places : script' = [script EXCEPT ![m][a] = place]
      BY <1>7 DEF Cleanup, ResetNode, RemoveCredentials, RemoveDirectories, RemoveBinaries, Move
    <3> QED
      BY <3>1
  <2>2. left' \in [Machines -> SUBSET Everything]
    BY <1>7 DEF Cleanup, ResetNode, RemoveCredentials, RemoveDirectories, RemoveBinaries
  <2> QED
    BY <2>1, <2>2, <2>3
<1>8. CASE UNCHANGED vars
  BY <1>8 DEF vars
<1> QED
  BY <1>1, <1>2, <1>3, <1>4, <1>5, <1>6, <1>7, <1>8 DEF Next, Advance

LEMMA TypeInitially == Init => TypeOK
BY MachinesAssumption, BoundsAssumption DEF Init, TypeOK, Steps, Attempts, Places

(* The variables of `kubelift uninstall` keep their types, whatever the      *)
(* constants are.                                                            *)
THEOREM TypeCorrect == Spec => []TypeOK
<1> QED
  BY TypeInitially, TypeInductive, PTL DEF Spec

(* Nothing is put back on a machine, and what changes is that of one script. *)
LEMMA LeftShrinks ==
    ASSUME TypeOK, [Next]_vars, NEW m \in Machines
    PROVE  left'[m] \subseteq left[m]
<1>1. ASSUME NEW k \in Machines, NEW a \in Attempts, Cleanup(k, a) PROVE left'[m] \subseteq left[m]
  BY <1>1 DEF Cleanup, ResetNode, RemoveCredentials, RemoveDirectories, RemoveBinaries, TypeOK
<1>2. CASE UNCHANGED left
  BY <1>2
<1> QED
  BY <1>1, <1>2 DEF Next, Advance, Discover, CleanRemote, RemoteCleaned, DeleteNode, DeleteFails,
     CleanLocal, LocalCleaned, Stop, KubeletRegisters, vars

LEMMA ScriptsInductive == TypeOK /\ ScriptTrue /\ [Next]_vars => ScriptTrue'
<1> SUFFICES ASSUME TypeOK, ScriptTrue, [Next]_vars, NEW m \in Machines, NEW a \in Attempts
             PROVE  /\ script'[m][a] = "binaries" => left'[m] \subseteq {"binaries"}
                    /\ script'[m][a] = "done" => left'[m] = {}
  BY DEF ScriptTrue, Clean
<1>l. left'[m] \subseteq left[m] /\ left[m] \subseteq Everything
  BY LeftShrinks DEF TypeOK
<1>k. ASSUME script'[m][a] = script[m][a] \/ script'[m][a] \in {"off", "reset", "credentials", "directories"}
      PROVE  /\ script'[m][a] = "binaries" => left'[m] \subseteq {"binaries"}
             /\ script'[m][a] = "done" => left'[m] = {}
  BY <1>k, <1>l DEF ScriptTrue, Clean
<1>1. ASSUME NEW k \in Machines, NEW b \in Attempts, Cleanup(k, b)
      PROVE  /\ script'[m][a] = "binaries" => left'[m] \subseteq {"binaries"}
             /\ script'[m][a] = "done" => left'[m] = {}
  <2>1. CASE k = m /\ b = a
    <3>1. CASE ResetNode(m, a) \/ RemoveCredentials(m, a)
      BY <3>1, <1>k DEF ResetNode, RemoveCredentials, Move, TypeOK
    <3>2. CASE RemoveDirectories(m, a)
      BY <3>2, <1>l DEF RemoveDirectories, Move, TypeOK, Everything
    <3>3. CASE RemoveBinaries(m, a)
      BY <3>3, <1>l DEF RemoveBinaries, Move, TypeOK, ScriptTrue
    <3> QED
      BY <1>1, <2>1, <3>1, <3>2, <3>3 DEF Cleanup
  <2>2. CASE ~(k = m /\ b = a)
    BY <1>1, <1>k, <2>2 DEF Cleanup, ResetNode, RemoveCredentials, RemoveDirectories, RemoveBinaries, Move, TypeOK
  <2> QED
    BY <2>1, <2>2
<1>2. ASSUME NEW k \in Machines, CleanRemote(k) \/ CleanLocal
      PROVE  script'[m][a] = script[m][a] \/ script'[m][a] = "reset"
  <2>1. PICK n \in Machines : script' = [script EXCEPT ![n] = [script[n] EXCEPT ![faults] = "reset"]]
    BY <1>2, MachinesAssumption DEF CleanRemote, CleanLocal, StartScript
  <2> QED
    BY <2>1 DEF TypeOK
<1>3. CASE Stop
  <2>1. \/ UNCHANGED script
        \/ script' = [script EXCEPT ![at] = [script[at] EXCEPT ![faults] = "off"]]
    BY <1>3 DEF Stop
  <2>2. script'[m][a] = script[m][a] \/ script'[m][a] = "off"
    BY <2>1 DEF TypeOK
  <2> QED
    BY <2>2, <1>k
<1>4. CASE UNCHANGED script
  BY <1>4, <1>k
<1> QED
  BY <1>1, <1>2, <1>3, <1>4, <1>k DEF Next, Advance, Discover, RemoteCleaned, DeleteNode,
     DeleteFails, LocalCleaned, KubeletRegisters, vars

LEMMA FoundInductive == TypeOK /\ ScriptTrue /\ FoundTrue /\ [Next]_vars => FoundTrue'
<1> SUFFICES ASSUME TypeOK, ScriptTrue, FoundTrue, [Next]_vars PROVE FoundTrue'
  OBVIOUS
<1>l. \A m \in Machines : Clean(m) => Clean(m)'
  BY LeftShrinks DEF Clean
<1> USE MachinesAssumption DEF TypeOK, FoundTrue
<1>q. ASSUME Quit PROVE FoundTrue'
  BY <1>q DEF Quit
<1>1. CASE Discover
  BY <1>1 DEF Discover
<1>2. ASSUME NEW m \in Machines, CleanRemote(m) PROVE FoundTrue'
  BY <1>2, <1>l DEF CleanRemote, AfterConnect
<1>3. CASE RemoteCleaned
  <2>1. Clean(at)
    BY <1>3 DEF RemoteCleaned, own, ScriptTrue, Attempts
  <2> QED
    BY <1>3, <1>l, <2>1 DEF RemoteCleaned
<1>4. CASE DeleteNode
  BY <1>4, <1>l DEF DeleteNode
<1>5. CASE CleanLocal
  BY <1>5, <1>l DEF CleanLocal, RemotesDone
<1>6. CASE DeleteFails \/ LocalCleaned \/ Stop
  BY <1>6, <1>q DEF DeleteFails, LocalCleaned, Stop
<1>7. ASSUME NEW m \in Machines, KubeletRegisters(m) PROVE FoundTrue'
  BY <1>7, <1>l DEF KubeletRegisters, Clean
<1>8. ASSUME NEW m \in Machines, NEW a \in Attempts, Cleanup(m, a) PROVE FoundTrue'
  <2>1. UNCHANGED <<nodes, pc, found, todo, at>>
    BY <1>8 DEF Cleanup, ResetNode, RemoveCredentials, RemoveDirectories, RemoveBinaries, Move
  <2> QED
    BY <2>1, <1>l
<1>9. CASE UNCHANGED vars
  BY <1>9, <1>l DEF vars
<1> QED
  BY <1>1, <1>2, <1>3, <1>4, <1>5, <1>6, <1>7, <1>8, <1>9 DEF Next, Advance

LEMMA NodesInductive == TypeOK /\ FoundTrue /\ NodesKept /\ [Next]_vars => NodesKept'
<1> SUFFICES ASSUME TypeOK, FoundTrue, NodesKept, [Next]_vars, NEW m \in Machines,
                    \/ m \in found' \/ left'[m] # Everything
                    \/ \E a \in Attempts : script'[m][a] # "off"
             PROVE  m \in nodes' \/ Clean(m)'
  BY DEF NodesKept
<1>l. Clean(m) => Clean(m)'
  BY LeftShrinks DEF Clean
<1> DEFINE Touched == \/ m \in found \/ left[m] # Everything
                      \/ \E a \in Attempts : script[m][a] # "off"
<1>n. ASSUME Touched, nodes \subseteq nodes' \/ DeleteNode PROVE m \in nodes' \/ Clean(m)'
  BY <1>n, <1>l DEF NodesKept, DeleteNode, FoundTrue
<1>1. CASE Discover
  BY <1>1, <1>n DEF Discover
<1>2. ASSUME NEW k \in Machines, CleanRemote(k) PROVE m \in nodes' \/ Clean(m)'
  BY <1>2, <1>n DEF CleanRemote, StartScript, TypeOK
<1>3. CASE CleanLocal
  BY <1>3, <1>n, MachinesAssumption DEF CleanLocal, StartScript, TypeOK, FoundTrue
<1>4. CASE RemoteCleaned \/ DeleteNode \/ DeleteFails \/ LocalCleaned
  BY <1>4, <1>n DEF RemoteCleaned, DeleteNode, DeleteFails, LocalCleaned, Quit
<1>5. CASE Stop
  BY <1>5, <1>n DEF Stop, Quit, TypeOK
<1>6. ASSUME NEW k \in Machines, KubeletRegisters(k) PROVE m \in nodes' \/ Clean(m)'
  BY <1>6, <1>n DEF KubeletRegisters
<1>7. ASSUME NEW k \in Machines, NEW b \in Attempts, Cleanup(k, b)
      PROVE  m \in nodes' \/ Clean(m)'
  <2>1. script[k][b] # "off" /\ UNCHANGED <<nodes, found>>
    BY <1>7 DEF Cleanup, ResetNode, RemoveCredentials, RemoveDirectories, RemoveBinaries, Move
  <2>2. CASE k = m
    BY <1>n, <2>1, <2>2
  <2>3. CASE k # m
    BY <1>7, <1>n, <2>1, <2>3 DEF Cleanup, ResetNode, RemoveCredentials, RemoveDirectories, RemoveBinaries, Move, TypeOK
  <2> QED
    BY <2>2, <2>3
<1>8. CASE UNCHANGED vars
  BY <1>8, <1>n DEF vars
<1> QED
  BY <1>1, <1>2, <1>3, <1>4, <1>5, <1>6, <1>7, <1>8 DEF Next, Advance

LEMMA SuccessInductive == IInv /\ [Next]_vars => SuccessMeansClean'
<1> SUFFICES ASSUME IInv, [Next]_vars, NEW m \in reported' PROVE Clean(m)'
  BY DEF SuccessMeansClean
<1>t. TypeOK /\ TypeOK' /\ m \in Machines
  BY TypeInductive DEF IInv, TypeOK
<1>1. Clean(m) => Clean(m)'
  BY <1>t, LeftShrinks DEF Clean
<1>2. CASE LocalCleaned
  <2>1. Clean(Local)
    BY <1>2, <1>t, MachinesAssumption DEF LocalCleaned, own, IInv, ScriptTrue, TypeOK, Attempts
  <2>2. todo = {} /\ m \in found
    BY <1>2 DEF LocalCleaned, IInv, FoundTrue
  <2> QED
    BY <1>1, <2>1, <2>2 DEF IInv, FoundTrue
<1>3. CASE UNCHANGED reported
  BY <1>1, <1>3 DEF IInv, SuccessMeansClean
<1> QED
  BY <1>2, <1>3 DEF Next, Advance, Discover, CleanRemote, RemoteCleaned, DeleteNode, DeleteFails,
     CleanLocal, Stop, KubeletRegisters, Cleanup, ResetNode, RemoveCredentials, RemoveDirectories, RemoveBinaries,
     Move, vars

LEMMA Invariance == Spec => []IInv
<1>1. ASSUME Init PROVE IInv
  BY <1>1, TypeInitially DEF Init, IInv, ScriptTrue, FoundTrue, NodesKept, SuccessMeansClean
<1>2. IInv /\ [Next]_vars => IInv'
  BY TypeInductive, ScriptsInductive, FoundInductive, NodesInductive, SuccessInductive DEF IInv
<1> QED
  BY <1>1, <1>2, PTL DEF Spec

(* A machine that is half cleaned is still a node of the API: a repeated     *)
(* uninstall comes back to it.                                               *)
THEOREM Remembered == Spec => []NeverForgotten
<1>1. IInv => NeverForgotten
  BY DEF IInv, NodesKept, NeverForgotten, Clean
<1> QED
  BY <1>1, Invariance, PTL

(* Nothing of the cluster is left on the nodes an uninstall reports.         *)
THEOREM ReportTrue == Spec => []SuccessMeansClean
<1>1. IInv => SuccessMeansClean
  BY DEF IInv
<1> QED
  BY <1>1, Invariance, PTL

(* Workers go first, the other masters next and Master0 last, each only when *)
(* those before it are clean and gone from the API.                          *)
THEOREM Ordered == Spec => OrderKept
<1> DEFINE Ok == \A m \in Machines :
          (\E a \in Attempts : script'[m][a] = "reset" /\ script[m][a] = "off") =>
              \A n \in found : Before(n, m) => Clean(n) /\ n \notin nodes
<1>1. ASSUME IInv, [Next]_vars PROVE [Ok]_vars
  <2> SUFFICES ASSUME NEW m \in Machines, NEW a \in Attempts, script'[m][a] = "reset",
                      script[m][a] = "off", NEW n \in found, Before(n, m)
               PROVE  Clean(n) /\ n \notin nodes
    OBVIOUS
  <2> USE <1>1, MachinesAssumption DEF IInv, TypeOK
  <2>1. n \in Machines /\ n # Local
    BY DEF Before, Workers
  <2>2. (m \in todo /\ \A k \in todo : Rank(m) <= Rank(k)) \/ (m = Local /\ todo = {})
    <3>1. ASSUME NEW k \in Machines, CleanRemote(k) PROVE k = m
      BY <3>1 DEF CleanRemote, StartScript, Attempts
    <3>2. CASE CleanLocal
      BY <3>2 DEF CleanLocal, StartScript, RemotesDone, Attempts
    <3>3. CASE Stop
      BY <3>3 DEF Stop
    <3>4. ASSUME NEW k \in Machines, NEW b \in Attempts, Cleanup(k, b) PROVE FALSE
      <4>1. PICK place \in {"credentials", "directories", "binaries", "done"} :
               script' = [script EXCEPT ![k][b] = place]
        BY <3>4 DEF Cleanup, ResetNode, RemoveCredentials, RemoveDirectories, RemoveBinaries, Move
      <4> QED
        BY <4>1
    <3>5. CASE UNCHANGED script
      BY <3>5
    <3> QED
      BY <3>1, <3>2, <3>3, <3>4, <3>5 DEF Next, Advance, Discover, CleanRemote, RemoteCleaned,
         DeleteNode, DeleteFails, LocalCleaned, KubeletRegisters, vars
  <2>3. n \notin todo
    BY <2>1, <2>2 DEF Before, Workers, Rank
  <2> QED
    BY <2>1, <2>3 DEF FoundTrue
<1> QED
  BY <1>1, Invariance, PTL DEF Spec, OrderKept

-----------------------------------------------------------------------------
(* What Finishes is about, step by step.                                     *)

(* Master0 is touched last: once a script was started on it, every machine   *)
(* that was a node from the start is clean and gone from the API.            *)
Old == Machines \ (Late \cup {Local})

LocalTouched == left[Local] # Everything \/ \E a \in Attempts : script[Local][a] # "off"

MasterZeroLast == LocalTouched => \A m \in Old : Clean(m) /\ m \notin nodes

(* A node is in the API, or it is clean; a run has discovered those that are *)
(* not yet clean and gone; and what it waits for is at work.                 *)
Known ==
    /\ Local \in nodes
    /\ \A m \in Old : m \in nodes \/ Clean(m)
    /\ pc # "idle" => \A m \in Old : m \in found \/ (Clean(m) /\ m \notin nodes)
    /\ todo \subseteq nodes
    /\ pc = "local" => at = Local
    /\ pc \in {"remote", "local"} => own(at) # "off"

(* The stages of a run in their order. *)
Place == [next |-> 0, remote |-> 1, delete |-> 2, local |-> 3, idle |-> 4]

(* Why a run that nothing stops may fail: a machine whose kubelet registered *)
(* after an earlier attempt had looked, while that attempt's script goes on. *)
Excused == at \in Late /\ LocalTouched

(* Every step brings the run on, and it ends in success or with an excuse.   *)
LeadsOn ==
    /\ todo' \subseteq todo
    /\ todo' # todo \/ Place[pc'] > Place[pc]
    /\ pc' = "idle" => reported' = found \/ Excused

(* As long as nothing stops it, an attempt only ever goes on. *)
RunsGoOn == [][Advance => LeadsOn]_vars

(* A run is at a step it can take, or waits for a script that is at work.    *)
NeverStuck ==
    \/ pc = "idle" /\ (ApiUp => Local \in nodes)
    \/ pc = "next" /\ (RemotesDone \/ \E m \in todo : \A n \in todo : Rank(m) <= Rank(n))
    \/ pc = "delete"
    \/ pc \in {"remote", "local"} /\ own(at) # "off"

LEMMA CleanStays ==
    ASSUME IInv, [Next]_vars, NEW m \in Machines, Clean(m)
    PROVE  Clean(m)' /\ (m \notin nodes => m \notin nodes')
<1>1. Clean(m)'
  BY LeftShrinks DEF IInv, Clean
<1>2. m \notin nodes => m \notin nodes'
  BY DEF Next, Advance, Discover, CleanRemote, RemoteCleaned, DeleteNode, DeleteFails, CleanLocal,
     LocalCleaned, Stop, KubeletRegisters, Clean, Cleanup, ResetNode, RemoveCredentials, RemoveDirectories,
     RemoveBinaries, Move, vars
<1> QED
  BY <1>1, <1>2

LEMMA KnownStep == IInv /\ Known /\ [Next]_vars => Known'
<1> SUFFICES ASSUME IInv, Known, [Next]_vars PROVE Known'
  OBVIOUS
<1>t. TypeOK /\ TypeOK' /\ FoundTrue
  BY TypeInductive DEF IInv
<1>c. \A m \in Machines : Clean(m) => Clean(m)' /\ (m \notin nodes => m \notin nodes')
  BY CleanStays
<1> USE MachinesAssumption DEF Known, Old
<1>1. CASE Discover
  BY <1>1, <1>c DEF Discover, Clean
<1>2. ASSUME NEW m \in Machines, CleanRemote(m) PROVE Known'
  <2>1. script'[m][faults] = "reset"
    BY <1>2, <1>t DEF CleanRemote, StartScript, TypeOK, Attempts
  <2> QED
    BY <1>2, <2>1, <1>t, <1>c DEF CleanRemote, AfterConnect, own
<1>3. CASE RemoteCleaned
  BY <1>3, <1>c DEF RemoteCleaned
<1>4. CASE DeleteNode
  <2>1. at \in todo /\ Clean(at) /\ at # Local
    BY <1>4, <1>t DEF DeleteNode, FoundTrue, TypeOK
  <2> QED
    BY <1>4, <2>1, <1>c, <1>t DEF DeleteNode, TypeOK
<1>5. CASE CleanLocal
  <2>1. script'[Local][faults] = "reset"
    BY <1>5, <1>t DEF CleanLocal, StartScript, TypeOK, Attempts
  <2> QED
    BY <1>5, <2>1, <1>c DEF CleanLocal, own
<1>6. CASE DeleteFails \/ LocalCleaned \/ Stop
  BY <1>6, <1>c, <1>t DEF DeleteFails, LocalCleaned, Stop, Quit
<1>7. ASSUME NEW m \in Machines, KubeletRegisters(m) PROVE Known'
  BY <1>7, <1>c, <1>t DEF KubeletRegisters, own
<1>8. ASSUME NEW m \in Machines, NEW a \in Attempts, Cleanup(m, a) PROVE Known'
  <2>1. UNCHANGED <<nodes, pc, found, todo, at, faults>>
    BY <1>8 DEF Cleanup, ResetNode, RemoveCredentials, RemoveDirectories, RemoveBinaries, Move
  <2>2. own(at) # "off" => own(at)' # "off"
    <3>1. PICK place \in Places \ {"off"} : script' = [script EXCEPT ![m][a] = place]
      BY <1>8 DEF Cleanup, ResetNode, RemoveCredentials, RemoveDirectories, RemoveBinaries, Move, Places
    <3>2. at \in Machines /\ faults \in Attempts /\ script \in [Machines -> [Attempts -> Places]]
      BY <1>t DEF TypeOK, Attempts
    <3> QED
      BY <2>1, <3>1, <3>2 DEF own
  <2> QED
    BY <2>1, <2>2, <1>c
<1>9. CASE UNCHANGED vars
  BY <1>9, <1>c DEF vars, own
<1> QED
  BY <1>1, <1>2, <1>3, <1>4, <1>5, <1>6, <1>7, <1>8, <1>9 DEF Next, Advance

LEMMA LastStep == IInv /\ Known /\ MasterZeroLast /\ [Next]_vars => MasterZeroLast'
<1> SUFFICES ASSUME IInv, Known, MasterZeroLast, [Next]_vars, LocalTouched', NEW m \in Old
             PROVE  Clean(m)' /\ m \notin nodes'
  BY DEF MasterZeroLast, Old
<1>t. TypeOK /\ FoundTrue /\ m \in Machines /\ m # Local
  BY DEF IInv, Old
<1>c. Clean(m) /\ m \notin nodes => Clean(m)' /\ m \notin nodes'
  BY <1>t, CleanStays
<1>1. CASE LocalTouched
  BY <1>1, <1>c DEF MasterZeroLast
<1>2. CASE CleanLocal
  <2>1. Clean(m) /\ m \notin nodes
    BY <1>2, <1>t DEF CleanLocal, RemotesDone, Known, FoundTrue
  <2> QED
    BY <2>1, <1>c
<1>3. LocalTouched \/ CleanLocal
  <2> SUFFICES ASSUME ~LocalTouched, ~CleanLocal PROVE ~LocalTouched'
    OBVIOUS
  <2> USE MachinesAssumption DEF LocalTouched
  <2>1. ASSUME NEW k \in Machines, CleanRemote(k) PROVE ~LocalTouched'
    BY <2>1, <1>t DEF CleanRemote, StartScript, TypeOK
  <2>2. CASE Stop
    BY <2>2, <1>t DEF Stop, TypeOK
  <2>3. ASSUME NEW k \in Machines, NEW a \in Attempts, Cleanup(k, a) PROVE ~LocalTouched'
    <3>1. k # Local
      BY <2>3 DEF Cleanup, ResetNode, RemoveCredentials, RemoveDirectories, RemoveBinaries, Move
    <3> QED
      BY <2>3, <3>1, <1>t DEF Cleanup, ResetNode, RemoveCredentials, RemoveDirectories, RemoveBinaries, Move, TypeOK
  <2>4. CASE UNCHANGED <<left, script>>
    BY <2>4
  <2> QED
    BY <2>1, <2>2, <2>3, <2>4 DEF Next, Advance, Discover, RemoteCleaned, DeleteNode, DeleteFails,
       LocalCleaned, KubeletRegisters, vars
<1> QED
  BY <1>1, <1>2, <1>3

LEMMA KnownInvariance == Spec => [](IInv /\ Known /\ MasterZeroLast)
<1>1. ASSUME Init PROVE Known /\ MasterZeroLast
  BY <1>1, MachinesAssumption DEF Init, Known, MasterZeroLast, LocalTouched, Old
<1> QED
  BY <1>1, KnownStep, LastStep, Invariance, PTL DEF Spec

(* Master0 is the last machine an uninstall touches, over all its attempts.  *)
THEOREM MasterLast == Spec => []MasterZeroLast
<1> QED
  BY KnownInvariance, PTL

(* A Master0 with nothing left, which is all a refused repetition leaves to  *)
(* look at, means that nothing is left on the machines that were nodes from  *)
(* the start; it says nothing of a worker that registered late.              *)
THEOREM NothingElsewhere == Spec => [](Clean(Local) => AllClean)
<1>1. MasterZeroLast /\ Clean(Local) => AllClean
  BY DEF MasterZeroLast, LocalTouched, AllClean, Clean, Everything, Old
<1> QED
  BY <1>1, KnownInvariance, PTL

(* No attempt stops short of its end without being stopped: there is always  *)
(* a next node in the order, and a script that is waited for is at work.  The*)
(* command is not refused as long as the API answers.                        *)
THEOREM NoAttemptStuck == Spec => []NeverStuck
<1>1. ASSUME IInv, Known PROVE NeverStuck
  <2>1. CASE pc = "next" /\ todo # {}
    <3>1. todo \subseteq Machines \ {Local}
      BY <1>1 DEF IInv, TypeOK
    <3>2. \A m \in todo : Rank(m) = (IF m \in Masters THEN 1 ELSE 0)
      BY <3>1 DEF Rank
    <3>3. CASE \E m \in todo : m \notin Masters
      BY <2>1, <3>2, <3>3 DEF NeverStuck
    <3>4. CASE \A m \in todo : m \in Masters
      BY <2>1, <3>2, <3>4 DEF NeverStuck
    <3> QED
      BY <3>3, <3>4
  <2> QED
    BY <1>1, <2>1 DEF NeverStuck, Known, IInv, TypeOK, Steps, RemotesDone
<1> QED
  BY <1>1, KnownInvariance, PTL

(* An uninstall that is repeated gets through: every step has a machine or a *)
(* stage of it behind it, and a run ends in success, unless a node that had  *)
(* registered late was to be deleted while the script of an earlier attempt  *)
(* was taking Master0 and its API away.                                      *)
THEOREM AttemptsGoOn == Spec => RunsGoOn
<1>1. ASSUME IInv, Known, MasterZeroLast, Advance PROVE LeadsOn
  <2>t. TypeOK /\ FoundTrue
    BY <1>1 DEF IInv
  <2>1. ASSUME NEW m \in Machines, CleanRemote(m) PROVE LeadsOn
    BY <2>1 DEF CleanRemote, AfterConnect, LeadsOn, Place
  <2>2. CASE RemoteCleaned \/ CleanLocal
    BY <2>2 DEF RemoteCleaned, CleanLocal, LeadsOn, Place
  <2>3. CASE DeleteNode
    BY <2>3, <2>t DEF DeleteNode, FoundTrue, LeadsOn
  <2>4. CASE LocalCleaned
    BY <2>4, <2>t DEF LocalCleaned, Quit, FoundTrue, LeadsOn, Place
  <2>5. CASE DeleteFails
    <3>1. at \in todo /\ at \in nodes /\ at \in Machines \ {Local}
      BY <1>1, <2>5, <2>t DEF DeleteFails, FoundTrue, Known, TypeOK
    <3>2. LocalTouched
      BY <2>5, <2>t, MachinesAssumption DEF DeleteFails, LocalTouched, ApiUp, Everything
    <3>3. at \in Late
      BY <1>1, <3>1, <3>2 DEF MasterZeroLast, Old
    <3> QED
      BY <2>5, <3>1, <3>2, <3>3 DEF DeleteFails, Quit, LeadsOn, Excused, Place
  <2> QED
    BY <1>1, <2>1, <2>2, <2>3, <2>4, <2>5 DEF Advance
<1> QED
  BY <1>1, KnownInvariance, PTL DEF Spec, RunsGoOn
=============================================================================
