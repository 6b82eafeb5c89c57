--------------------------- MODULE LifecycleProofs --------------------------
(***************************************************************************)
(* Theorems about `kubelift create` and `kubelift uninstall` one after the *)
(* other on Master0, with any number of interruptions of either.           *)
(***************************************************************************)
EXTENDS Lifecycle, CreateHostProofs, FiniteSetTheorems

(* The script runs alone, and what it has behind it is gone. *)
CleanedSoFar ==
    /\ cleanup # "off" => pc = "idle" /\ ~removed
    /\ cleanup = "reset" => kubeadm \in {"done", "failed"}
    /\ cleanup \in {"etc", "kubelift", "node"} =>
          /\ kubeadm = "none" /\ ~admin
          /\ host.cluster = None /\ host.cni = None /\ host.registry = None
    /\ cleanup \in {"kubelift", "node"} =>
          host.initFile = None /\ host.cniFile = None /\ host.images = {}
    /\ cleanup = "node" => KubeliftRemoved
    /\ UninstalledIsNew

(* A cluster that can be uninstalled was either not started by kubelift, or  *)
(* its state file is at kubeadm-starting or beyond.                          *)
NoneBetween ==
    cleanup # "off" => \A n \in Names : states[n].phase = New \/ states[n].phase >= Starting

(* A state file describes the host unless it is one that an interrupted      *)
(* uninstall has left behind: of a cluster that has no control plane left,   *)
(* so that the gate lets no resumed run pass.                                *)
Describes(n) ==
    LET st == states[n] IN
    /\ Saved(n, Staged) => host.staging[n] = st.inputs.bundle
    /\ Saved(n, Prepared) => host.node = st.inputs
    /\ Saved(n, Images) => st.inputs \in host.images

Usable(n) ==
    \/ states[n].phase < Starting
    \/ admin \/ kubeadm # "none"
    \/ pc \notin {"idle", "local", "gate"}

UsableDescribes ==
    /\ \A n \in Names : Usable(n) => Describes(n)
    /\ pc = "saveStaged" => host.staging[name] = run.inputs.bundle
    /\ pc = "savePrepared" => host.node = run.inputs
    /\ pc = "saveImages" => run.inputs \in host.images

AdminSeen == pc # "idle" /\ run.adminSeen => admin

NobodyElse == foreign # "coming"

LInv ==
    /\ NobodyElse /\ LifecycleTypeOK /\ IInv /\ Foreign
    /\ CleanedSoFar /\ NoneBetween /\ UsableDescribes /\ FilesWritten /\ AdminSeen

(* The cleanup script and its beginning leave the types alone, and the       *)
(* process that is not there.                                                *)
LEMMA CleanupKeepsInvariant ==
    ASSUME LInv, Uninstall \/ Clean \/ Interrupt
    PROVE  /\ LifecycleTypeOK' /\ IInv' /\ pc = "idle" /\ pc' = "idle"
<1> USE DEF OperatorFiles, History, world
<1>t. TypeOK /\ LifecycleTypeOK /\ IInv /\ CleanedSoFar /\ host \in Hosts
      /\ states \in [Names -> [inputs : Inputs \cup {None}, phase : Phases]]
  BY DEF LInv, IInv, TypeOK
<1>1. pc = "idle" /\ pc' = "idle"
  BY <1>t DEF CleanedSoFar, Uninstall, Clean, Interrupt, Script, ResetControlPlane,
     RemoveEtcAndImages, RemoveStaging, RemoveStates, EndOfDirectories, RemoveNode, vars
<1>2. host' \in Hosts
  <2>1. CASE Uninstall \/ RemoveStates \/ EndOfDirectories
    BY <1>t, <2>1 DEF Uninstall, RemoveStates, EndOfDirectories, vars
  <2>2. CASE ResetControlPlane \/ RemoveEtcAndImages
    BY <1>t, <2>2 DEF ResetControlPlane, RemoveEtcAndImages, Hosts
  <2>4. CASE RemoveNode \/ Interrupt
    <3>1. Remains \in {None, Torn}
      BY DEF Remains
    <3>2. host' = host \/ host' = [host EXCEPT !.node = Remains]
      BY <2>4 DEF RemoveNode, Interrupt
    <3> QED
      BY <1>t, <3>1, <3>2 DEF Hosts
  <2>3. CASE RemoveStaging
    BY <1>t, <2>3 DEF RemoveStaging, Hosts, CleanHost
  <2> QED
    BY <2>1, <2>2, <2>3, <2>4 DEF Clean
<1>3. \/ UNCHANGED <<states, inits>>
      \/ states' = [n \in Names |-> NoFile] /\ inits' = [n \in Names |-> 0]
  BY DEF Uninstall, Clean, Interrupt, ResetControlPlane, RemoveEtcAndImages, RemoveStaging,
     RemoveStates, EndOfDirectories, RemoveNode, vars
<1>4. /\ states' \in [Names -> [inputs : Inputs \cup {None}, phase : Phases]]
      /\ inits' \in [Names -> Nat]
  BY <1>t, <1>3 DEF TypeOK, NoFile, New, Phases
<1>5. /\ UNCHANGED <<config, bundle, run, edits>>
      /\ space' = space /\ foreign' = foreign
      /\ admin' \in {admin, FALSE} /\ kubeadm' \in {kubeadm, "none", "failed"}
      /\ answer' \in {answer, NoAnswer} /\ removed' \in BOOLEAN
      /\ faults' = faults \/ (faults' = faults + 1 /\ faults < MaxFaults)
  <2>1. removed' \in {TRUE, FALSE, removed}
    BY DEF Uninstall, Clean, Interrupt, ResetControlPlane, RemoveEtcAndImages, RemoveStaging,
       RemoveStates, EndOfDirectories, RemoveNode
  <2> QED
    BY <1>t, <2>1 DEF LifecycleTypeOK, Uninstall, Clean, Interrupt, ResetControlPlane,
       RemoveEtcAndImages, RemoveStaging, RemoveStates, EndOfDirectories, RemoveNode, vars
<1>c. cleanup' \in {"off", "reset", "etc", "kubelift", "node"}
  BY <1>t DEF LifecycleTypeOK, Uninstall, Clean, Interrupt, Script, ResetControlPlane,
     RemoveEtcAndImages, RemoveStaging, RemoveStates, EndOfDirectories, RemoveNode
<1>a. NoAnswer \in Answers
  BY DEF NoAnswer, Answers
<1>6. TypeOK' /\ LifecycleTypeOK'
  <2>1. faults' \in 0..MaxFaults
    BY <1>t, <1>5, BoundsAssumption DEF TypeOK
  <2>2. /\ config' \in Configs /\ bundle' \in Bundles /\ run' \in Runs /\ edits' \in 0..MaxEdits
        /\ answer' \in Answers /\ admin' \in BOOLEAN
        /\ kubeadm' \in {"none", "running", "failed", "done"} /\ pc' \in Steps
    BY <1>t, <1>1, <1>5, <1>a DEF TypeOK, Steps
  <2>3. TypeOK'
    BY <1>t, <1>1, <1>2, <1>4, <1>5, <2>1, <2>2 DEF TypeOK
  <2> QED
    BY <1>5, <1>c, <2>3 DEF LifecycleTypeOK
<1>7. StartsOnRecord'
  BY <1>t, <1>3 DEF IInv, StartsOnRecord, NoFile, New
<1> QED
  BY <1>1, <1>6, <1>7 DEF IInv, StepPhases, RunAgrees

LEMMA CleanedInductive ==
    ASSUME OneCluster, LInv, LifecycleTypeOK', [LNext]_lvars
    PROVE  CleanedSoFar' /\ NoneBetween'
<1>t. /\ NobodyElse /\ TypeOK /\ IInv /\ Foreign /\ CleanedSoFar /\ NoneBetween /\ host \in Hosts
      /\ cleanup \in {"off", "reset", "etc", "kubelift", "node"}
      /\ states \in [Names -> [inputs : Inputs \cup {None}, phase : Phases]]
  BY DEF LInv, LifecycleTypeOK, IInv, TypeOK
<1> USE DEF OperatorFiles, History, world
<1>1. CASE Create
  BY <1>1 DEF Create, CleanedSoFar, NoneBetween, UninstalledIsNew
<1>2. CASE Uninstall
  <2>1. /\ admin /\ cleanup = "off" /\ cleanup' = "reset" /\ pc = "idle" /\ pc' = "idle" /\ ~removed'
        /\ UNCHANGED <<states, inits>> /\ kubeadm' \in {"done", "failed"}
    BY <1>2 DEF Uninstall, Script
  <2>2. \A n \in Names : states[n].phase = New \/ states[n].phase >= Starting
    <3>1. CASE \A n \in Names : inits[n] = 0
      <4>1. foreign = "there"
        BY <1>t, <2>1, <3>1 DEF Foreign, NobodyElse, TypeOK
      <4> QED
        BY <1>t, <2>1, <3>1, <4>1 DEF Foreign
    <3>2. CASE \E n \in Names : inits[n] # 0
      BY <1>t, <3>2 DEF IInv, StartsOnRecord, OneCluster
    <3> QED
      BY <3>1, <3>2
  <2> QED
    BY <2>1, <2>2 DEF CleanedSoFar, NoneBetween, UninstalledIsNew
<1>3. CASE ResetControlPlane
  BY <1>3, <1>t DEF ResetControlPlane, Script, CleanedSoFar, NoneBetween, UninstalledIsNew, Hosts
<1>4. CASE RemoveEtcAndImages
  BY <1>4, <1>t DEF RemoveEtcAndImages, Script, CleanedSoFar, NoneBetween, UninstalledIsNew, Hosts
<1>5. CASE RemoveStaging
  BY <1>5, <1>t DEF RemoveStaging, Script, CleanedSoFar, NoneBetween, UninstalledIsNew, Hosts
<1>6. CASE RemoveStates
  BY <1>6, <1>t DEF RemoveStates, Script, CleanedSoFar, NoneBetween, UninstalledIsNew, NoFile, New
<1>7. CASE EndOfDirectories
  BY <1>7, <1>t DEF EndOfDirectories, Script, CleanedSoFar, NoneBetween, UninstalledIsNew, vars,
     KubeliftRemoved
<1>8. CASE RemoveNode
  <2>1. /\ cleanup = "node" /\ cleanup' = "off" /\ host' = [host EXCEPT !.node = Remains]
        /\ UNCHANGED <<states, admin, kubeadm, space>>
    BY <1>8 DEF RemoveNode, Script
  <2>2. /\ kubeadm = "none" /\ ~admin /\ host.staging = CleanHost.staging
        /\ host.cluster = None /\ host.cni = None /\ host.registry = None
        /\ host.initFile = None /\ host.cniFile = None /\ host.images = {}
        /\ \A n \in Names : states[n] = NoFile
    BY <1>t, <2>1 DEF CleanedSoFar, KubeliftRemoved
  <2>3. /\ host'.node \in {None, Torn}
        /\ host' = [CleanHost EXCEPT !.node = host'.node]
    <3>1. Remains \in {None, Torn}
      BY DEF Remains
    <3> QED
      BY <1>t, <2>1, <2>2, <3>1 DEF Hosts, CleanHost
  <2>4. states' = [n \in Names |-> NoFile]
    BY <1>t, <2>1, <2>2
  <2>5. DiskSuffices'
    <3>1. /\ {n \in Names : host'.staging[n] # None} = {}
          /\ host'.images = {} /\ {host'.cluster} \ {None} = {}
      BY <2>3 DEF CleanHost
    <3>2. Used' = 0
      BY <3>1, FS_EmptySet DEF Used
    <3>3. space' \in Nat
      BY <1>t, <2>1, SpacesAssumption DEF TypeOK
    <3> QED
      BY <3>2, <3>3 DEF DiskSuffices
  <2> QED
    BY <2>1, <2>2, <2>3, <2>4, <2>5 DEF CleanedSoFar, NoneBetween, UninstalledIsNew
<1>9. CASE Interrupt
  BY <1>9, <1>t DEF Interrupt, CleanedSoFar, NoneBetween, UninstalledIsNew
<1>10. CASE UNCHANGED lvars
  BY <1>10, <1>t DEF lvars, vars, world, CleanedSoFar, NoneBetween, UninstalledIsNew,
     KubeliftRemoved, DiskSuffices, Used
<1> QED
  BY <1>1, <1>2, <1>3, <1>4, <1>5, <1>6, <1>7, <1>8, <1>9, <1>10 DEF LNext, Clean

(* A step of create, taken with whatever an uninstall has left behind. *)
LEMMA CreateDescribes ==
    ASSUME OneCluster, IInv, UsableDescribes, AdminSeen, TypeOK', [Next]_vars
    PROVE  UsableDescribes' /\ AdminSeen'
<1>t. /\ TypeOK /\ StepPhases /\ host \in Hosts /\ run \in Runs /\ admin \in BOOLEAN
      /\ states \in [Names -> [inputs : Inputs \cup {None}, phase : Phases]]
  BY DEF IInv, TypeOK
<1>1. AdminSeen'
  <2>1. CASE StartFresh \/ StartResume
    BY <2>1 DEF StartFresh, StartResume, Start, NoRun, AdminSeen
  <2>7. CASE LocalPreflight
    BY <1>t, <2>7 DEF LocalPreflight, End, Runs, AdminSeen
  <2>2. CASE pc # "idle" /\ (admin => admin') /\ run'.adminSeen = run.adminSeen
    BY <2>2 DEF AdminSeen
  <2>3. CASE pc' = "idle"
    BY <2>3 DEF AdminSeen
  <2>4. StartFresh \/ StartResume \/ pc' = "idle" \/ pc # "idle"
    BY DEF Next, Advance, Edit, Kubeadm, KubeadmWritesAdmin, KubeadmEnds, KubeadmFails, vars,
       LocalPreflight, Gate, Push, SaveStaged, PrepareNode, SavePrepared, ImportImages, SaveImages, WriteFiles,
       Preflight, SaveStarting, RunInit, InitReturns, SaveInitialized, InstallCilium, CiliumFails,
       SaveCilium, StartRegistry, SaveRegistry, SaveComplete, Save, Fail, Crash
  <2>5. StartFresh \/ StartResume \/ (admin => admin')
    BY DEF Next, Advance, Edit, Kubeadm, KubeadmWritesAdmin, KubeadmEnds, KubeadmFails, vars,
       LocalPreflight, Gate, Push, SaveStaged, PrepareNode, SavePrepared, ImportImages, SaveImages, WriteFiles,
       Preflight, SaveStarting, RunInit, InitReturns, SaveInitialized, InstallCilium, CiliumFails,
       SaveCilium, StartRegistry, SaveRegistry, SaveComplete, Save, Fail, Crash
  <2>6. \/ StartFresh \/ StartResume \/ LocalPreflight \/ pc' = "idle"
        \/ run'.adminSeen = run.adminSeen
    <3>1. CASE Gate
      BY <1>t, <3>1 DEF Gate, End, Runs
    <3>2. CASE \/ SaveStaged \/ SavePrepared \/ SaveImages \/ SaveStarting \/ SaveInitialized
               \/ SaveCilium \/ SaveRegistry
      BY <1>t, <3>2 DEF SaveStaged, SavePrepared, SaveImages, SaveStarting, SaveInitialized,
         SaveCilium, SaveRegistry, Save, Runs
    <3>3. CASE ~Gate /\ ~(\/ SaveStaged \/ SavePrepared \/ SaveImages \/ SaveStarting
                          \/ SaveInitialized \/ SaveCilium \/ SaveRegistry)
      BY <3>3 DEF Next, Advance, Edit, Kubeadm, KubeadmWritesAdmin, KubeadmEnds, KubeadmFails, vars,
         Push, PrepareNode, ImportImages, WriteFiles, Preflight, RunInit, InitReturns,
         InstallCilium, CiliumFails, StartRegistry, SaveComplete, Fail, Crash, Goto, End
    <3> QED
      BY <3>1, <3>2, <3>3
  <2> QED
    BY <2>1, <2>2, <2>3, <2>4, <2>5, <2>6, <2>7
<1>2. UsableDescribes'
  <2>1. CASE pc \notin {"idle", "local", "gate"}
    <3>1. Provisioned
      BY <2>1 DEF UsableDescribes, Usable, Describes, Provisioned, PhaseDescribesHost
    <3>2. Provisioned'
      BY <3>1, ProvisionedInductive
    <3> QED
      BY <3>2 DEF UsableDescribes, Describes, Provisioned, PhaseDescribesHost
  <2>2. CASE pc \in {"idle", "local", "gate"}
    <3>1. /\ UNCHANGED <<states, host.staging, host.node, host.images>>
          /\ pc' \notin {"saveStaged", "savePrepared", "saveImages"}
      <4>1. StartFresh \/ StartResume \/ LocalPreflight \/ Gate \/ Fail \/ Crash \/ Kubeadm \/ Edit \/ UNCHANGED vars
        BY <2>2 DEF Next, Advance, Push, SaveStaged, PrepareNode, SavePrepared, ImportImages,
           SaveImages, WriteFiles, Preflight, SaveStarting, RunInit, InitReturns, SaveInitialized,
           InstallCilium, CiliumFails, SaveCilium, StartRegistry, SaveRegistry, SaveComplete, Save
      <4>2. CASE Fail \/ Crash
        BY <2>2, <4>2 DEF Fail, Crash, End, CutShort
      <4>3. CASE Kubeadm
        BY <1>t, <2>2, <4>3 DEF Kubeadm, KubeadmWritesAdmin, KubeadmEnds, KubeadmFails, Hosts
      <4> QED
        BY <2>2, <4>1, <4>2, <4>3 DEF StartFresh, StartResume, Start, LocalPreflight, Gate, End, Edit, vars
    <3>2. \A n \in Names : Usable(n)' => Usable(n)
      <4> TAKE n \in Names
      <4>1. CASE pc' \in {"idle", "local", "gate"}
        <5>1. (admin' \/ kubeadm' # "none") => (admin \/ kubeadm # "none")
          BY <2>2, <4>1 DEF Next, Advance, StartFresh, StartResume, Start, Edit, Kubeadm,
             KubeadmWritesAdmin, KubeadmEnds, KubeadmFails, vars, LocalPreflight, Gate, Push, SaveStaged,
             PrepareNode, SavePrepared, ImportImages, SaveImages, WriteFiles, Preflight,
             SaveStarting, RunInit, InitReturns, SaveInitialized, InstallCilium, CiliumFails,
             SaveCilium, StartRegistry, SaveRegistry, SaveComplete, Save, Fail, Crash
        <5> QED
          BY <3>1, <4>1, <5>1 DEF Usable
      <4>2. CASE pc' \notin {"idle", "local", "gate"}
        <5>1. Gate /\ (FreshAllowed \/ ResumeAllowed) /\ pc = "gate"
          BY <2>2, <4>2 DEF Next, Advance, StartFresh, StartResume, Start, Edit, Kubeadm,
             KubeadmWritesAdmin, KubeadmEnds, KubeadmFails, vars, LocalPreflight, Gate, Push, SaveStaged,
             PrepareNode, SavePrepared, ImportImages, SaveImages, WriteFiles, Preflight,
             SaveStarting, RunInit, InitReturns, SaveInitialized, InstallCilium, CiliumFails,
             SaveCilium, StartRegistry, SaveRegistry, SaveComplete, Save, Fail, Crash, End
        <5>2. n = name /\ states[n].phase \in 0..8
          BY <1>t, <5>1, NameType DEF OneCluster, Phases
        <5>3. states[n].phase < Starting \/ run.adminSeen
          BY <5>1, <5>2 DEF FreshAllowed, ResumeAllowed, New, Starting, Initialized
        <5> QED
          BY <5>1, <5>3 DEF AdminSeen, Usable
      <4> QED
        BY <4>1, <4>2
    <3>3. \A n \in Names : Describes(n) => Describes(n)'
      BY <3>1 DEF Describes, Saved
    <3> QED
      BY <3>1, <3>2, <3>3 DEF UsableDescribes
  <2> QED
    BY <2>1, <2>2
<1> QED
  BY <1>1, <1>2

(* A step of an uninstall: with the control plane gone, no state file of it  *)
(* is usable any more.                                                       *)
LEMMA CleanupDescribes ==
    ASSUME LInv, Uninstall \/ Clean \/ Interrupt
    PROVE  /\ Foreign' /\ UsableDescribes' /\ FilesWritten' /\ AdminSeen'
<1> USE DEF OperatorFiles, History, world
<1>t. /\ TypeOK /\ CleanedSoFar /\ NoneBetween /\ Foreign /\ UsableDescribes
      /\ cleanup \in {"off", "reset", "etc", "kubelift", "node"}
      /\ pc = "idle" /\ pc' = "idle"
      /\ states \in [Names -> [inputs : Inputs \cup {None}, phase : Phases]]
  BY CleanupKeepsInvariant DEF LInv, LifecycleTypeOK, IInv, TypeOK
<1>1. FilesWritten' /\ AdminSeen'
  BY <1>t DEF FilesWritten, AdminSeen
<1>2. CASE Uninstall \/ (Interrupt /\ cleanup = "reset")
  <2>1. /\ UNCHANGED <<foreign, states, inits, host, pc, run>> /\ (admin' => admin)
        /\ kubeadm \in {"done", "failed"} /\ kubeadm' \in {"done", "failed"}
    <3>1. CASE Uninstall
      BY <3>1 DEF Uninstall
    <3>2. CASE Interrupt /\ cleanup = "reset"
      <4>1. UNCHANGED <<foreign, states, inits, host, pc, run>>
        BY <3>2 DEF Interrupt
      <4>2. kubeadm \in {"done", "failed"} /\ kubeadm' \in {"done", "failed"}
        BY <3>2, <1>t DEF Interrupt, CleanedSoFar
      <4>3. admin' => admin
        BY <3>2, <1>t DEF Interrupt, TypeOK
      <4> QED
        BY <4>1, <4>2, <4>3
    <3> QED
      BY <1>2, <3>1, <3>2
  <2>2. Foreign'
    BY <1>t, <2>1 DEF Foreign
  <2>3. UsableDescribes'
    BY <1>t, <2>1 DEF UsableDescribes, Usable, Describes, Saved
  <2> QED
    BY <1>1, <2>2, <2>3
<1>3. CASE Clean \/ (Interrupt /\ cleanup # "reset")
  <2>1. cleanup # "off"
    BY <1>3 DEF Clean, Interrupt, Script, ResetControlPlane, RemoveEtcAndImages, RemoveStaging,
       RemoveStates, EndOfDirectories, RemoveNode
  <2>2. ~admin' /\ kubeadm' = "none"
    <3>1. CASE ResetControlPlane
      BY <3>1 DEF ResetControlPlane
    <3>2. CASE ~ResetControlPlane
      <4>1. cleanup \in {"etc", "kubelift", "node"} /\ UNCHANGED <<admin, kubeadm>>
        BY <1>3, <1>t, <2>1, <3>2 DEF Clean, Interrupt, Script, RemoveEtcAndImages, RemoveStaging,
           RemoveStates, EndOfDirectories, RemoveNode, vars
      <4> QED
        BY <1>t, <4>1 DEF CleanedSoFar
    <3> QED
      BY <3>1, <3>2
  <2>3. \A n \in Names : /\ states'[n].phase = New \/ states'[n].phase >= Starting
                         /\ states'[n].phase \in 0..8
    <3>1. UNCHANGED states \/ states' = [n \in Names |-> NoFile]
      BY <1>3 DEF Clean, Interrupt, ResetControlPlane, RemoveEtcAndImages, RemoveStaging,
         RemoveStates, EndOfDirectories, RemoveNode, vars
    <3> QED
      BY <1>t, <2>1, <3>1 DEF NoneBetween, NoFile, New, Phases
  <2>4. \A n \in Names : Usable(n)' => Describes(n)'
    BY <1>t, <2>2, <2>3 DEF Usable, Describes, Saved, New, Staged, Prepared, Images, Starting
  <2> QED
    BY <1>1, <1>t, <2>2, <2>4 DEF Foreign, UsableDescribes
<1> QED
  BY <1>2, <1>3

LEMMA LifecycleInvariance == ASSUME OneCluster PROVE LSpec => []LInv
<1>1. ASSUME LInit PROVE LInv
  <2>1. TypeOK /\ IInv
    BY <1>1, TypeInitially
       DEF LInit, Init, IInv, StepPhases, RunAgrees, StartsOnRecord, NoFile, New
  <2>2. \A n \in Names : states[n].phase = 0
    BY <1>1 DEF LInit, Init, NoFile, New
  <2>3. Foreign /\ FilesWritten /\ AdminSeen
    <3>1. /\ \/ foreign = "there" /\ admin /\ kubeadm = "done"
             \/ foreign = "none" /\ ~admin /\ kubeadm = "none"
          /\ pc = "idle" /\ host = CleanHost
      BY <1>1 DEF LInit, Init
    <3> QED
      BY <2>2, <3>1 DEF Foreign, FilesWritten, AdminSeen, New, Starting, CleanHost
  <2>4. UsableDescribes
    BY <1>1, <2>2 DEF LInit, Init, UsableDescribes, Describes, Saved, Staged, Prepared, Images
  <2> QED
    BY <1>1, <2>1, <2>3, <2>4
       DEF LInit, LInv, NobodyElse, LifecycleTypeOK, CleanedSoFar, NoneBetween, UninstalledIsNew
<1>2. ASSUME LInv, [LNext]_lvars PROVE LInv'
  <2>3. NobodyElse'
    BY <1>2 DEF LInv, NobodyElse, LNext, Create, Uninstall, Clean, Interrupt, ResetControlPlane,
       RemoveEtcAndImages, RemoveStaging, RemoveStates, EndOfDirectories, RemoveNode, OperatorFiles,
       lvars, Next, Advance, StartFresh, StartResume, Start, LocalPreflight, Gate, Push, SaveStaged,
       PrepareNode, SavePrepared, ImportImages, SaveImages, WriteFiles, Preflight, SaveStarting,
       RunInit, InitReturns, SaveInitialized, InstallCilium, CiliumFails, SaveCilium, StartRegistry,
       SaveRegistry, SaveComplete, Save, Fail, Crash, Kubeadm, KubeadmWritesAdmin, KubeadmEnds,
       KubeadmFails, Edit, vars, world
  <2>1. LifecycleTypeOK' /\ IInv' /\ Foreign' /\ UsableDescribes' /\ FilesWritten' /\ AdminSeen'
    <3>1. CASE Uninstall \/ Clean \/ Interrupt
      BY <1>2, <3>1, CleanupKeepsInvariant, CleanupDescribes
    <3>2. CASE Create \/ UNCHANGED lvars
      <4>1. [Next]_vars
        BY <3>2 DEF Create, lvars
      <4>2. IInv /\ TypeOK /\ Foreign /\ UsableDescribes /\ FilesWritten /\ AdminSeen
        BY <1>2 DEF LInv, IInv
      <4>3. IInv' /\ TypeOK'
        BY <4>1, <4>2, Inductive DEF IInv
      <4>4. LifecycleTypeOK'
        BY <1>2, <3>2, <4>3 DEF LInv, LifecycleTypeOK, Create, lvars
      <4>5. Foreign' /\ FilesWritten'
        BY <4>1, <4>2, <4>3, ForeignInductive, FilesInductive
      <4>6. UsableDescribes' /\ AdminSeen'
        BY <4>1, <4>2, <4>3, CreateDescribes
      <4> QED
        BY <4>3, <4>4, <4>5, <4>6
    <3> QED
      BY <1>2, <3>1, <3>2 DEF LNext
  <2>2. CleanedSoFar' /\ NoneBetween'
    BY <1>2, <2>1, CleanedInductive
  <2> QED
    BY <2>1, <2>2, <2>3 DEF LInv
<1> QED
  BY <1>1, <1>2, PTL DEF LSpec

(* Create and uninstall together keep their types. *)
THEOREM LifecycleTypeCorrect == ASSUME OneCluster PROVE LSpec => []LifecycleTypeOK
<1>1. LInv => LifecycleTypeOK
  BY DEF LInv
<1> QED
  BY <1>1, LifecycleInvariance, PTL

(* A successful uninstall leaves nothing that a create looks at or relies on, *)
(* however many earlier creates and uninstalls were interrupted; parts of the *)
(* installation may stay behind, but no state file vouches for them.          *)
THEOREM UninstalledNew == ASSUME OneCluster PROVE LSpec => []UninstalledIsNew
<1>1. LInv => UninstalledIsNew
  BY DEF LInv, CleanedSoFar
<1> QED
  BY <1>1, LifecycleInvariance, PTL

(* No create after a complete or an interrupted uninstall starts kubeadm     *)
(* init on a host it has not prepared since.                                 *)
THEOREM InitPreparedAgain == ASSUME OneCluster PROVE LSpec => InitOnPreparedHostAgain
<1> DEFINE Prepares == \A n \in Names : inits'[n] > inits[n] =>
          /\ states[n].phase = Starting
          /\ host.staging[n] = states[n].inputs.bundle
          /\ host.node = states[n].inputs
          /\ states[n].inputs \in host.images
          /\ host.initFile = states[n].inputs.config
<1>1. ASSUME LInv, [LNext]_lvars PROVE [Prepares]_lvars
  <2>t. IInv /\ UsableDescribes /\ FilesWritten /\ inits \in [Names -> Nat]
    BY <1>1 DEF LInv, IInv, TypeOK
  <2>1. CASE RunInit
    <3>1. pc = "init"
      BY <2>1 DEF RunInit
    <3>2. \A n \in Names : n = name /\ states[n].phase = run.phase
      BY <2>t, <3>1, OnlyName
    <3>3. run.phase = Starting
      BY <2>t, <3>1 DEF IInv, StepPhases
    <3>4. \A n \in Names : states[n].inputs = run.inputs
      BY <2>t, <3>1, <3>3, OnlyName DEF Starting, New
    <3>5. host.initFile = run.inputs.config
      BY <2>t, <3>1 DEF FilesWritten
    <3>6. \A n \in Names : Describes(n)
      BY <2>t, <3>1 DEF UsableDescribes, Usable
    <3> QED
      BY <3>2, <3>3, <3>4, <3>5, <3>6 DEF Describes, Saved, Starting, Staged, Prepared, Images
  <2>2. CASE \A n \in Names : ~(inits'[n] > inits[n])
    BY <2>2
  <2>3. RunInit \/ UNCHANGED inits \/ inits' = [n \in Names |-> 0]
    BY <1>1 DEF LNext, Create, Uninstall, Clean, Interrupt, ResetControlPlane, RemoveEtcAndImages,
       RemoveStaging, RemoveStates, EndOfDirectories, RemoveNode, lvars, Next, Advance, StartFresh,
       StartResume, Start, LocalPreflight, Gate, Push, SaveStaged, PrepareNode, SavePrepared, ImportImages,
       SaveImages, WriteFiles, Preflight, SaveStarting, InitReturns, SaveInitialized,
       InstallCilium, CiliumFails, SaveCilium, StartRegistry, SaveRegistry, SaveComplete, Save,
       Fail, Crash, Kubeadm, KubeadmWritesAdmin, KubeadmEnds, KubeadmFails, Edit, vars
  <2> QED
    BY <2>t, <2>1, <2>2, <2>3
<1> QED
  BY <1>1, LifecycleInvariance, PTL DEF LSpec, InitOnPreparedHostAgain
=============================================================================
