--------------------------- MODULE CreateHostProofs --------------------------
(***************************************************************************)
(* What `kubelift create` leaves on Master0: theorems for one cluster name *)
(* and every set of configurations and bundles, and every number of        *)
(* failures and edits.  They rest on the inductive invariant of            *)
(* CreateProofs, which says where a process may be.                        *)
(***************************************************************************)
EXTENDS CreateProofs

OneCluster == \A n, m \in Names : n = m

(* What a state file says was staged, installed and imported is on the host, *)
(* and so is what the process is about to put on record.                     *)
Provisioned ==
    /\ PhaseDescribesHost
    /\ pc = "saveStaged" => host.staging[name] = run.inputs.bundle
    /\ pc = "savePrepared" => host.node = run.inputs
    /\ pc = "saveImages" => run.inputs \in host.images

(* Every run writes both managed files before it gets to kubeadm or Cilium. *)
FilesWritten ==
    pc \in {"preflight", "saveStarting", "init", "wait", "saveInitialized", "cilium"} =>
        host.initFile = run.inputs.config /\ host.cniFile = run.inputs.config

(* A control plane kubelift did not start keeps every process before the     *)
(* record of kubeadm-starting, and one that is there from the beginning      *)
(* before the first step.                                                    *)
Foreign ==
    /\ admin => kubeadm # "none"
    /\ kubeadm # "none" /\ (\A n \in Names : inits[n] = 0) =>
          /\ foreign # "none"
          /\ host.cluster = None /\ host.cni = None /\ host.registry = None
          /\ \A n \in Names : states[n].phase < Starting
          /\ pc \in {"idle", "local", "gate", "push", "saveStaged", "prepare", "savePrepared",
                    "images", "saveImages", "files", "preflight"}
          /\ foreign = "there" => kubeadm # "running"
          /\ foreign = "there" /\ admin =>
                /\ host = CleanHost
                /\ \A n \in Names : states[n].phase = New
                /\ pc \in {"idle", "local", "gate"}
                /\ pc = "gate" => run.adminSeen

(* What is known of the control plane kubelift started. *)
Started ==
    /\ pc # "idle" /\ run.adminSeen => admin
    /\ kubeadm = "none" => host.cluster = None
    /\ \A n \in Names : inits[n] = 1 /\ kubeadm # "none" => host.cluster = states[n].inputs.config
    /\ \A n \in Names : Saved(n, Initialized) => admin /\ inits[n] = 1
    /\ pc = "saveInitialized" => admin /\ inits[name] = 1
    /\ pc = "wait" => inits[name] = 1

(* What is known of the network and the Registry. *)
Running ==
    /\ CompleteMeansRunning
    /\ pc = "saveCilium" => kubeadm = "done" /\ host.cni = run.inputs.config
    /\ pc = "saveRegistry" => host.registry = run.inputs.config
    /\ pc = "saveComplete" /\ withRegistry => host.registry = run.inputs.config

(* A running process has answered nothing; a success is reported for inputs  *)
(* that are on record as complete.                                           *)
Answered ==
    /\ pc # "idle" => answer.result = "none"
    /\ answer.result \in {"complete", "already"} =>
          /\ answer.inputs \in Inputs
          /\ states[NameOf[answer.inputs.config]] = [inputs |-> answer.inputs, phase |-> Complete]

HInv == IInv /\ Provisioned /\ FilesWritten /\ Foreign /\ Started /\ Running /\ Answered

(* A step that only redoes what is on record cannot tear it. *)
LEMMA CutShortKinds ==
    ASSUME NEW h \in CutShort
    PROVE  \/ h = host
           \/ pc = "push" /\ host.staging[name] # run.inputs.bundle
              /\ h = [host EXCEPT !.staging[name] = Torn]
           \/ pc = "prepare" /\ \E left \in {Torn, run.inputs} : h = [host EXCEPT !.node = left]
           \/ pc = "images" /\ h = [host EXCEPT !.images = host.images \cup {run.inputs}]
           \/ pc = "files" /\ h = [host EXCEPT !.initFile = run.inputs.config]
           \/ pc = "cilium" /\ h = [host EXCEPT !.cni = host.cniFile]
           \/ pc = "registry" /\ h = [host EXCEPT !.registry = run.inputs.config]
BY DEF CutShort

(* With one cluster, what a process holds is on record for every name. *)
LEMMA OnlyName ==
    ASSUME OneCluster, IInv, pc \notin {"idle", "local", "gate"}, NEW n \in Names
    PROVE  /\ n = name /\ states[n].phase = run.phase
           /\ states[n].phase # New => states[n].inputs = run.inputs
           /\ states[n].phase \in 0..8 /\ run.inputs \in Inputs
BY NameType DEF OneCluster, IInv, TypeOK, RunAgrees, Phases

LEMMA ProvisionedInductive ==
    ASSUME OneCluster, IInv, Provisioned, TypeOK', [Next]_vars
    PROVE  Provisioned'
<1>t. TypeOK /\ IInv /\ Provisioned /\ StepPhases
  BY DEF IInv
<1>h. host \in Hosts
  BY <1>t DEF TypeOK
<1> USE DEF New, Staged, Prepared, Images, Starting, Initialized, CiliumReady, RegReady, Complete
<1>o. pc \notin {"idle", "local", "gate"} =>
        \A n \in Names : /\ n = name /\ states[n].phase = run.phase
                         /\ states[n].phase # New => states[n].inputs = run.inputs
                         /\ states[n].phase \in 0..8 /\ run.inputs \in Inputs
  BY <1>t, OnlyName
<1>k. ASSUME UNCHANGED <<states, host.staging, host.node, host.images>>,
             pc' \notin {"saveStaged", "savePrepared", "saveImages"}
      PROVE  Provisioned'
  BY <1>k, <1>t DEF Provisioned, PhaseDescribesHost, Saved
<1>1. CASE StartFresh \/ StartResume
  BY <1>1, <1>k DEF StartFresh, StartResume, Start
<1>2. CASE LocalPreflight \/ Gate
  BY <1>2, <1>k DEF LocalPreflight, Gate, End
<1>3. CASE Push
  <2>1. /\ host'.staging = [host.staging EXCEPT ![name] = run.inputs.bundle]
        /\ UNCHANGED <<host.node, host.images, states, run>>
    BY <1>3, <1>h DEF Push, Goto, Hosts
  <2>2. pc' \notin {"savePrepared", "saveImages"} /\ pc = "push"
    BY <1>3 DEF Push, Goto, AfterPush
  <2>3. \A n \in Names : host'.staging[n] = run.inputs.bundle
    BY <1>h, <1>o, <2>1, <2>2 DEF Hosts
  <2>4. name' = name /\ name \in Names
    BY <1>t, <2>1, <2>2, NameType DEF name
  <2> QED
    BY <1>o, <1>t, <2>1, <2>2, <2>3, <2>4 DEF Provisioned, PhaseDescribesHost, Saved
<1>4. CASE PrepareNode
  <2>1. /\ host'.node = run.inputs /\ UNCHANGED <<host.staging, host.images, states, run>>
        /\ pc = "prepare" /\ pc' = "savePrepared"
    BY <1>4, <1>h DEF PrepareNode, Goto, Hosts
  <2>2. run.phase = Staged
    BY <1>t, <2>1 DEF StepPhases
  <2> QED
    BY <1>o, <1>t, <2>1, <2>2 DEF Provisioned, PhaseDescribesHost, Saved
<1>5. CASE ImportImages
  <2>1. /\ host'.images = host.images \cup {run.inputs}
        /\ UNCHANGED <<host.staging, host.node, states, run>>
        /\ pc = "images" /\ pc' = "saveImages"
    BY <1>5, <1>h DEF ImportImages, Goto, Hosts
  <2>2. run.phase = Prepared
    BY <1>t, <2>1 DEF StepPhases
  <2> QED
    BY <1>o, <1>t, <2>1, <2>2 DEF Provisioned, PhaseDescribesHost, Saved
<1>s. ASSUME NEW from, NEW phase \in 1..8, NEW next,
             \/ Save(from, phase, next)
             \/ /\ pc = from /\ UNCHANGED host /\ pc' = next
                /\ states' = [states EXCEPT ![name] = [inputs |-> run.inputs, phase |-> phase]],
             from \notin {"idle", "local", "gate"},
             next \notin {"saveStaged", "savePrepared", "saveImages"},
             run.phase < phase,
             run.phase = New => phase = Staged /\ from = "saveStaged",
             run.phase = Staged => phase = Prepared /\ from = "savePrepared",
             run.phase = Prepared => phase = Images /\ from = "saveImages"
      PROVE  Provisioned'
  <2>1. /\ pc = from /\ pc' = next /\ UNCHANGED host
        /\ states' = [states EXCEPT ![name] = [inputs |-> run.inputs, phase |-> phase]]
    BY <1>s DEF Save
  <2>2. \A n \in Names : states'[n] = [inputs |-> run.inputs, phase |-> phase]
    BY <1>s, <1>o, <1>t, <2>1 DEF TypeOK
  <2>3. \A n \in Names :
           /\ run.phase >= Staged => host.staging[n] = run.inputs.bundle
           /\ run.phase >= Prepared => host.node = run.inputs
           /\ run.phase >= Images => run.inputs \in host.images
    BY <1>s, <1>o, <1>t, <2>1 DEF Provisioned, PhaseDescribesHost, Saved
  <2>4. run.phase \in 0..8
    BY <1>t DEF TypeOK, Runs, Phases
  <2>5. \A n \in Names : host.staging[n] = run.inputs.bundle
    BY <1>s, <1>o, <1>t, <2>1, <2>3, <2>4 DEF Provisioned
  <2>6. phase >= Prepared => host.node = run.inputs
    BY <1>s, <1>t, <2>1, <2>3, <2>4, NameType DEF Provisioned
  <2>7. phase >= Images => run.inputs \in host.images
    BY <1>s, <1>t, <2>1, <2>3, <2>4, NameType DEF Provisioned
  <2> QED
    BY <1>s, <2>1, <2>2, <2>5, <2>6, <2>7 DEF Provisioned, PhaseDescribesHost, Saved
<1>6. CASE SaveStaged \/ SavePrepared \/ SaveImages
  <2>1. CASE SaveStaged
    BY <2>1, <1>s, <1>t DEF SaveStaged, Save, StepPhases
  <2>2. CASE SavePrepared
    BY <2>2, <1>s, <1>t DEF SavePrepared, Save, StepPhases
  <2>3. CASE SaveImages
    BY <2>3, <1>s, <1>t DEF SaveImages, Save, StepPhases
  <2> QED
    BY <1>6, <2>1, <2>2, <2>3
<1>7. CASE SaveStarting \/ SaveInitialized
  BY <1>7, <1>s, <1>t DEF SaveStarting, SaveInitialized, Save, StepPhases
<1>8. CASE SaveCilium \/ SaveRegistry
  BY <1>8, <1>s, <1>t DEF SaveCilium, AfterCilium, SaveRegistry, Save, StepPhases
<1>9. CASE SaveComplete
  <2>1. /\ pc = "saveComplete" /\ UNCHANGED host /\ pc' = "idle"
        /\ states' = [states EXCEPT ![name] = [inputs |-> run.inputs, phase |-> 8]]
    BY <1>9 DEF SaveComplete, End
  <2>2. run.phase \in {CiliumReady, RegReady}
    BY <1>t, <2>1 DEF StepPhases
  <2>3. 8 \in 1..8 /\ run.phase < 8 /\ run.phase # New /\ run.phase # Staged /\ run.phase # Prepared
    BY <2>2
  <2>4. "saveComplete" \notin {"idle", "local", "gate"}
        /\ "idle" \notin {"saveStaged", "savePrepared", "saveImages"}
    OBVIOUS
  <2> QED
    BY <1>s, <2>1, <2>3, <2>4, Zenon
<1>10. CASE WriteFiles \/ RunInit \/ InstallCilium \/ StartRegistry
  <2>1. UNCHANGED <<host.staging, host.node, host.images, states>>
    BY <1>10, <1>h DEF WriteFiles, RunInit, InstallCilium, StartRegistry, Goto, Hosts
  <2>2. pc' \notin {"saveStaged", "savePrepared", "saveImages"}
    BY <1>10 DEF WriteFiles, AfterFiles, RunInit, InstallCilium, StartRegistry, Goto
  <2> QED
    BY <2>1, <2>2, <1>k
<1>11. CASE Preflight \/ InitReturns
  BY <1>11, <1>k DEF Preflight, InitReturns, Goto, End
<1>12. CASE CiliumFails
  BY <1>12, <1>h, <1>k DEF CiliumFails, End, Hosts
<1>13. CASE Fail \/ Crash
  <2>1. PICK h \in CutShort : host' = h
    BY <1>13 DEF Fail, Crash
  <2>2. pc' = "idle" /\ UNCHANGED states /\ pc # "idle"
    BY <1>13 DEF Fail, Crash, End
  <2>3. CASE pc = "push" /\ host.staging[name] # run.inputs.bundle
             /\ host' = [host EXCEPT !.staging[name] = Torn]
    <3>1. run.phase = New
      BY <1>o, <1>t, <2>3, NameType DEF Provisioned, PhaseDescribesHost, Saved
    <3> QED
      BY <1>o, <2>2, <2>3, <3>1 DEF Provisioned, PhaseDescribesHost, Saved
  <2>4. CASE pc = "prepare" /\ \E left \in {Torn, run.inputs} : host' = [host EXCEPT !.node = left]
    <3>1. run.phase = Staged /\ UNCHANGED <<host.staging, host.images>>
      BY <1>h, <1>t, <2>4 DEF StepPhases, Hosts
    <3> QED
      BY <1>o, <1>t, <2>2, <2>4, <3>1 DEF Provisioned, PhaseDescribesHost, Saved
  <2>5. CASE UNCHANGED <<host.staging, host.node, host.images>>
    BY <1>k, <2>2, <2>5
  <2>6. \/ pc = "push" /\ host.staging[name] # run.inputs.bundle
           /\ host' = [host EXCEPT !.staging[name] = Torn]
        \/ pc = "prepare" /\ \E left \in {Torn, run.inputs} : host' = [host EXCEPT !.node = left]
        \/ pc = "images" /\ host' = [host EXCEPT !.images = host.images \cup {run.inputs}]
        \/ UNCHANGED <<host.staging, host.node, host.images>>
    BY <1>h, <2>1, CutShortKinds DEF Hosts
  <2>7. CASE pc = "images" /\ host' = [host EXCEPT !.images = host.images \cup {run.inputs}]
    <3>1. host'.images = host.images \cup {run.inputs} /\ UNCHANGED <<host.staging, host.node>>
      BY <1>h, <2>7 DEF Hosts
    <3> QED
      BY <1>o, <1>t, <2>2, <2>7, <3>1 DEF Provisioned, PhaseDescribesHost, Saved
  <2> QED
    BY <2>3, <2>4, <2>5, <2>6, <2>7
<1>14. CASE Kubeadm \/ Edit \/ UNCHANGED vars
  <2>1. UNCHANGED <<host.staging, host.node, host.images, states, pc, run>>
    BY <1>14, <1>h DEF Kubeadm, KubeadmWritesAdmin, KubeadmEnds, KubeadmFails, Edit, vars, Hosts
  <2> QED
    BY <1>t, <2>1 DEF Provisioned, PhaseDescribesHost, Saved, name
<1> QED
  BY <1>1, <1>2, <1>3, <1>4, <1>5, <1>6, <1>7, <1>8, <1>9, <1>10, <1>11, <1>12, <1>13, <1>14
     DEF Next, Advance

LEMMA FilesInductive ==
    ASSUME TypeOK, FilesWritten, TypeOK', [Next]_vars
    PROVE  FilesWritten'
<1>t. TypeOK /\ FilesWritten /\ host \in Hosts
  BY DEF TypeOK
<1>k. ASSUME pc' \notin {"preflight", "saveStarting", "init", "wait", "saveInitialized", "cilium"}
      PROVE  FilesWritten'
  BY <1>k DEF FilesWritten
<1>m. ASSUME UNCHANGED <<host.initFile, host.cniFile, run.inputs>>,
             pc \in {"preflight", "saveStarting", "init", "wait", "saveInitialized", "cilium"}
             \/ pc' = pc
      PROVE  FilesWritten'
  BY <1>m, <1>t DEF FilesWritten
<1>1. CASE WriteFiles
  BY <1>1, <1>t DEF WriteFiles, Goto, FilesWritten, Hosts
<1>2. CASE Preflight \/ InitReturns
  BY <1>2, <1>k, <1>m DEF Preflight, InitReturns, Goto, End
<1>3. CASE RunInit
  BY <1>3, <1>m, <1>t DEF RunInit, Goto, Hosts
<1>4. CASE SaveStarting \/ SaveInitialized
  BY <1>4, <1>m, <1>t DEF SaveStarting, SaveInitialized, Save, TypeOK, Runs
<1>5. CASE Kubeadm \/ Edit \/ UNCHANGED vars
  <2>1. UNCHANGED <<pc, run, host.initFile, host.cniFile>>
    BY <1>5, <1>t DEF Kubeadm, KubeadmWritesAdmin, KubeadmEnds, KubeadmFails, Edit, vars, Hosts
  <2> QED
    BY <2>1, <1>m
<1>6. CASE StartFresh \/ StartResume \/ LocalPreflight \/ Gate \/ Fail \/ Crash \/ CiliumFails \/ SaveComplete
  BY <1>6, <1>k DEF StartFresh, StartResume, Start, LocalPreflight, Gate, Fail, Crash, CiliumFails, SaveComplete, End
<1>7. CASE \/ Push \/ SaveStaged \/ PrepareNode \/ SavePrepared \/ ImportImages \/ SaveImages
           \/ InstallCilium \/ SaveCilium \/ StartRegistry \/ SaveRegistry
  BY <1>7, <1>k DEF Push, AfterPush, SaveStaged, PrepareNode, SavePrepared, ImportImages, SaveImages,
     InstallCilium, SaveCilium, AfterCilium, StartRegistry, SaveRegistry, Save, Goto
<1> QED
  BY <1>1, <1>2, <1>3, <1>4, <1>5, <1>6, <1>7 DEF Next, Advance

LEMMA ForeignInductive ==
    ASSUME IInv, Foreign, TypeOK', [Next]_vars
    PROVE  Foreign'
<1>t. /\ TypeOK /\ IInv /\ Foreign /\ StepPhases /\ inits \in [Names -> Nat] /\ host \in Hosts
      /\ states \in [Names -> [inputs : Inputs \cup {None}, phase : Phases]]
      /\ pc # "idle" => name \in Names
  BY NameType DEF IInv, TypeOK
<1> USE DEF New, Staged, Prepared, Images, Starting, Initialized, CiliumReady, RegReady, Complete
<1>a. admin' => kubeadm' # "none"
  <2>1. CASE RunInit \/ Kubeadm
    BY <1>t, <2>1 DEF Foreign, RunInit, Kubeadm, KubeadmWritesAdmin, KubeadmEnds, KubeadmFails
  <2>2. CASE UNCHANGED <<admin, kubeadm>>
    BY <1>t, <2>2 DEF Foreign
  <2>3. RunInit \/ Kubeadm \/ UNCHANGED <<admin, kubeadm>>
    BY DEF Next, Advance, StartFresh, StartResume, Start, LocalPreflight, Gate, Push, SaveStaged,
       PrepareNode, SavePrepared, ImportImages, SaveImages, WriteFiles, Preflight, SaveStarting,
       InitReturns, SaveInitialized, InstallCilium, CiliumFails, SaveCilium, StartRegistry,
       SaveRegistry, SaveComplete, Save, Fail, Crash, Edit, vars
  <2> QED
    BY <2>1, <2>2, <2>3
<1> SUFFICES ASSUME kubeadm' # "none", \A n \in Names : inits'[n] = 0
             PROVE  /\ foreign' # "none"
                    /\ host'.cluster = None /\ host'.cni = None /\ host'.registry = None
                    /\ \A n \in Names : states'[n].phase < Starting
                    /\ pc' \in {"idle", "local", "gate", "push", "saveStaged", "prepare",
                               "savePrepared", "images", "saveImages", "files", "preflight"}
                    /\ foreign' = "there" => kubeadm' # "running"
                    /\ foreign' = "there" /\ admin' =>
                          /\ host' = CleanHost
                          /\ \A n \in Names : states'[n].phase = New
                          /\ pc' \in {"idle", "local", "gate"}
                          /\ pc' = "gate" => run'.adminSeen
  BY <1>a DEF Foreign
<1>1. CASE RunInit
  <2>1. name \in Names /\ inits'[name] = inits[name] + 1
    BY <1>1, <1>t DEF RunInit
  <2> QED
    BY <2>1, <1>t
<1>2. CASE ~RunInit
  <2>1. /\ UNCHANGED <<inits, foreign>> /\ kubeadm # "none"
        /\ kubeadm' = "running" => kubeadm = "running"
        /\ kubeadm # "running" => admin' = admin
    BY <1>2 DEF Next, Advance, StartFresh, StartResume, Start, LocalPreflight, Gate, Push,
       SaveStaged, PrepareNode, SavePrepared, ImportImages, SaveImages, WriteFiles, Preflight,
       SaveStarting, InitReturns, SaveInitialized, InstallCilium, CiliumFails, SaveCilium,
       StartRegistry, SaveRegistry, SaveComplete, Save, Fail, Crash, Kubeadm, KubeadmWritesAdmin,
       KubeadmEnds, KubeadmFails, Edit, vars, world
  <2>2. /\ foreign # "none" /\ host.cluster = None /\ host.cni = None /\ host.registry = None
        /\ \A n \in Names : states[n].phase < Starting
        /\ pc \in {"idle", "local", "gate", "push", "saveStaged", "prepare", "savePrepared",
                  "images", "saveImages", "files", "preflight"}
        /\ foreign = "there" => kubeadm # "running"
        /\ foreign = "there" /\ admin =>
              /\ host = CleanHost /\ \A n \in Names : states[n].phase = New
              /\ pc \in {"idle", "local", "gate"} /\ (pc = "gate" => run.adminSeen)
    BY <2>1, <1>t DEF Foreign
  <2>3. \/ StartFresh \/ StartResume \/ LocalPreflight \/ Gate \/ Fail \/ Crash \/ Kubeadm
        \/ Edit \/ UNCHANGED vars
        \/ Push \/ SaveStaged \/ PrepareNode \/ SavePrepared \/ ImportImages \/ SaveImages
        \/ WriteFiles \/ Preflight
    BY <1>2, <2>2 DEF Next, Advance, SaveStarting, InitReturns, SaveInitialized, InstallCilium,
       CiliumFails, SaveCilium, StartRegistry, SaveRegistry, SaveComplete, Save
  <2>4. pc \notin {"idle", "local", "gate"} => ~(foreign = "there" /\ admin) /\ ~(foreign' = "there" /\ admin')
    BY <2>1, <2>2
  <2>5. CASE StartFresh \/ StartResume \/ LocalPreflight
    <3>1. /\ UNCHANGED <<admin, host, states>> /\ pc' \in {"idle", "local", "gate"}
          /\ pc' = "gate" => run'.adminSeen = admin
      <4>1. CASE StartFresh \/ StartResume
        BY <4>1 DEF StartFresh, StartResume, Start
      <4>2. CASE LocalPreflight
        <5>1. run \in Runs
          BY <1>t DEF TypeOK
        <5> QED
          BY <4>2, <5>1 DEF LocalPreflight, End, Runs
      <4> QED
        BY <2>5, <4>1, <4>2
    <3> QED
      BY <2>1, <2>2, <3>1
  <2>6. CASE Gate
    <3>1. /\ UNCHANGED <<admin, host, states>> /\ pc' \in {"idle", "push"} /\ pc = "gate"
          /\ pc' = "push" => FreshAllowed \/ ResumeAllowed
      BY <2>6 DEF Gate, End
    <3>2. foreign = "there" /\ admin => ~FreshAllowed /\ ~ResumeAllowed
      BY <1>t, <2>2, <3>1 DEF FreshAllowed, ResumeAllowed
    <3> QED
      BY <2>1, <2>2, <3>1, <3>2
  <2>7. CASE Fail \/ Crash
    <3>1. PICK h \in CutShort : host' = h
      BY <2>7 DEF Fail, Crash
    <3>2. UNCHANGED <<host.cluster, host.cni, host.registry>>
      BY <1>t, <2>2, <3>1, CutShortKinds DEF Hosts
    <3>3. pc \in {"idle", "local", "gate"} => host' = host
      BY <3>1, CutShortKinds
    <3>4. pc' = "idle" /\ UNCHANGED <<admin, states>>
      BY <2>7 DEF Fail, Crash, End
    <3> QED
      BY <2>1, <2>2, <2>4, <3>2, <3>3, <3>4
  <2>8. CASE Kubeadm \/ Edit \/ UNCHANGED vars
    <3>1. UNCHANGED <<states, pc, run, host.cni, host.registry>> /\ host'.cluster \in {host.cluster, None}
      BY <1>t, <2>8 DEF Kubeadm, KubeadmWritesAdmin, KubeadmEnds, KubeadmFails, Edit, vars, Hosts
    <3>2. kubeadm # "running" => UNCHANGED host
      BY <2>8 DEF Kubeadm, KubeadmWritesAdmin, KubeadmEnds, KubeadmFails, Edit, vars
    <3> QED
      BY <2>1, <2>2, <3>1, <3>2
  <2>9. CASE Push \/ PrepareNode \/ ImportImages
    <3>1. UNCHANGED <<host.cluster, host.cni, host.registry, states>>
      BY <1>t, <2>9 DEF Push, PrepareNode, ImportImages, Hosts
    <3>2. pc' \in {"saveStaged", "prepare", "images", "files", "savePrepared", "saveImages"}
          /\ pc \notin {"idle", "local", "gate"}
      BY <2>9 DEF Push, AfterPush, PrepareNode, ImportImages, Goto
    <3> QED
      BY <2>1, <2>2, <2>4, <3>1, <3>2
  <2>10. CASE WriteFiles \/ Preflight
    <3>1. UNCHANGED <<host.cluster, host.cni, host.registry, states>>
          /\ pc \in {"files", "preflight"}
      BY <1>t, <2>10 DEF WriteFiles, Preflight, Hosts
    <3>2. run.phase = Images
      BY <1>t, <2>2, <3>1 DEF IInv, RunAgrees, StepPhases
    <3>3. pc' \in {"preflight", "idle"}
      BY <2>1, <2>10, <3>2 DEF WriteFiles, AfterFiles, Preflight, PreflightPasses, Goto, End
    <3> QED
      BY <2>1, <2>2, <2>4, <3>1, <3>3
  <2>11. CASE SaveStaged \/ SavePrepared \/ SaveImages
    <3>1. PICK phase \in 1..3 :
             states' = [states EXCEPT ![name] = [inputs |-> run.inputs, phase |-> phase]]
      BY <2>11 DEF SaveStaged, SavePrepared, SaveImages, Save
    <3>2. \A n \in Names : states'[n].phase < Starting
      BY <1>t, <2>2, <3>1
    <3>3. UNCHANGED host /\ pc' \in {"prepare", "images", "files"} /\ pc \notin {"idle", "local", "gate"}
      BY <2>11 DEF SaveStaged, SavePrepared, SaveImages, Save
    <3> QED
      BY <2>1, <2>2, <2>4, <3>2, <3>3
  <2> QED
    BY <2>3, <2>5, <2>6, <2>7, <2>8, <2>9, <2>10, <2>11
<1> QED
  BY <1>1, <1>2

LEMMA StartedInductive ==
    ASSUME OneCluster, HInv, TypeOK', [Next]_vars
    PROVE  Started'
<1>t. /\ TypeOK /\ IInv /\ StepPhases /\ Foreign /\ Started /\ FilesWritten
      /\ host \in Hosts /\ inits \in [Names -> Nat] /\ admin \in BOOLEAN /\ admin' \in BOOLEAN
      /\ run \in Runs /\ states \in [Names -> [inputs : Inputs \cup {None}, phase : Phases]]
      /\ \A n \in Names : inits[n] \in {0, 1}
  BY DEF HInv, IInv, TypeOK, StartsOnRecord
<1> USE DEF New, Staged, Prepared, Images, Starting, Initialized, CiliumReady, RegReady, Complete
<1>o. pc \notin {"idle", "local", "gate"} =>
        /\ name \in Names
        /\ \A n \in Names : /\ n = name /\ states[n].phase = run.phase
                            /\ states[n].phase # New => states[n].inputs = run.inputs
                            /\ states[n].phase \in 0..8 /\ run.inputs \in Inputs
  BY <1>t, OnlyName, NameType
<1>k. ASSUME UNCHANGED <<admin, kubeadm, host.cluster, states, inits>>,
             pc' # "idle" => \/ run'.adminSeen = run.adminSeen /\ pc # "idle"
                             \/ run'.adminSeen \in {admin, FALSE},
             pc' \notin {"saveInitialized", "wait"}
      PROVE  Started'
  BY <1>k, <1>t DEF Started, Saved
<1>1. CASE StartFresh \/ StartResume
  BY <1>1, <1>k DEF StartFresh, StartResume, Start, NoRun
<1>2. CASE LocalPreflight \/ Gate
  BY <1>2, <1>k, <1>t DEF LocalPreflight, Gate, End, Runs
<1>3. CASE Push \/ PrepareNode \/ ImportImages \/ InstallCilium \/ StartRegistry
  <2>1. UNCHANGED host.cluster
    BY <1>3, <1>t DEF Push, PrepareNode, ImportImages, InstallCilium, StartRegistry, Hosts
  <2>2. pc' \notin {"saveInitialized", "wait"} /\ pc # "idle"
        /\ UNCHANGED <<admin, kubeadm, states, inits, run>>
    BY <1>3 DEF Push, AfterPush, PrepareNode, ImportImages, InstallCilium, StartRegistry, Goto
  <2> QED
    BY <1>k, <2>1, <2>2
<1>4. CASE WriteFiles
  <2>1. UNCHANGED <<host.cluster, admin, kubeadm, states, inits, run>> /\ pc = "files"
    BY <1>4, <1>t DEF WriteFiles, Goto, Hosts
  <2>2. pc' # "wait"
    BY <1>4 DEF WriteFiles, AfterFiles, Goto
  <2>3. CASE run.phase = Starting /\ run.adminSeen
    <3>1. admin
      BY <1>t, <2>1, <2>3 DEF Started
    <3>2. inits[name] = 1
      BY <1>o, <1>t, <2>1, <2>3, <3>1 DEF Foreign
    <3>3. name' = name
      BY <2>1 DEF name
    <3> QED
      BY <1>t, <2>1, <2>2, <3>1, <3>2, <3>3 DEF Started, Saved
  <2>4. CASE ~(run.phase = Starting /\ run.adminSeen)
    <3>1. pc' # "saveInitialized"
      BY <1>4, <2>4 DEF WriteFiles, AfterFiles, Goto
    <3> QED
      BY <1>k, <2>1, <2>2, <3>1
  <2> QED
    BY <2>3, <2>4
<1>5. CASE RunInit
  <2>1. pc = "init" /\ pc' = "wait" /\ UNCHANGED <<admin, states, run>>
    BY <1>5 DEF RunInit, Goto
  <2>2. /\ name' = name /\ name \in Names /\ inits'[name] = 1
        /\ kubeadm' = "running" /\ host'.cluster = host.initFile
    BY <1>5, <1>t, <2>1, NameType DEF RunInit, Hosts, name, IInv, RunAgrees
  <2>3. states[name].phase = Starting /\ states[name].inputs = run.inputs
    BY <1>o, <1>t, <2>1 DEF StepPhases
  <2>4. host.initFile = run.inputs.config
    BY <1>t, <2>1 DEF FilesWritten
  <2>5. \A n \in Names : n = name
    BY <1>o, <2>1
  <2> QED
    BY <1>t, <2>1, <2>2, <2>3, <2>4, <2>5 DEF Started, Saved
<1>6. CASE InitReturns
  <2>1. /\ pc = "wait" /\ UNCHANGED <<admin, kubeadm, host, states, inits>>
        /\ \/ pc' = "idle"
           \/ pc' = "saveInitialized" /\ UNCHANGED run /\ admin
    BY <1>6 DEF InitReturns, Goto, End
  <2>2. UNCHANGED run => name' = name
    BY DEF name
  <2> QED
    BY <1>t, <2>1, <2>2 DEF Started, Saved
<1>s. ASSUME NEW phase \in 1..8,
             pc \notin {"idle", "local", "gate"}, UNCHANGED <<admin, kubeadm, host, inits>>,
             states' = [states EXCEPT ![name] = [inputs |-> run.inputs, phase |-> phase]],
             pc' = "idle" \/ run'.adminSeen = run.adminSeen,
             pc' \notin {"saveInitialized", "wait"},
             phase < Initialized \/ run.phase >= Initialized \/ pc = "saveInitialized",
             run.phase >= Starting \/ phase <= Starting
      PROVE  Started'
  <2>1. \A n \in Names : states'[n] = [inputs |-> run.inputs, phase |-> phase]
    BY <1>s, <1>o, <1>t
  <2>2. \A n \in Names : inits[n] = 1 => states[n].inputs = run.inputs
    BY <1>s, <1>o, <1>t DEF IInv, StartsOnRecord
  <2>3. phase >= Initialized => \A n \in Names : admin /\ inits[n] = 1
    BY <1>s, <1>o, <1>t DEF Started, Saved
  <2> QED
    BY <1>s, <1>t, <2>1, <2>2, <2>3 DEF Started, Saved
<1>7. CASE SaveStaged
  BY <1>7, <1>s, <1>t DEF SaveStaged, Save, Runs
<1>8. CASE SavePrepared
  BY <1>8, <1>s, <1>t DEF SavePrepared, Save, Runs
<1>9. CASE SaveImages
  BY <1>9, <1>s, <1>t DEF SaveImages, Save, Runs
<1>10. CASE SaveStarting
  BY <1>10, <1>s, <1>t DEF SaveStarting, Save, Runs
<1>11. CASE SaveInitialized
  BY <1>11, <1>s, <1>t DEF SaveInitialized, Save, Runs, StepPhases
<1>12. CASE SaveCilium \/ SaveRegistry
  BY <1>12, <1>s, <1>t DEF SaveCilium, AfterCilium, SaveRegistry, Save, Runs, StepPhases
<1>13. CASE SaveComplete
  BY <1>13, <1>s, <1>t DEF SaveComplete, End, StepPhases
<1>14. CASE Preflight
  BY <1>14, <1>k DEF Preflight, Goto, End
<1>15. CASE CiliumFails
  BY <1>15, <1>k, <1>t DEF CiliumFails, End, Hosts
<1>16. CASE Fail \/ Crash
  <2>1. UNCHANGED host.cluster
    <3>1. PICK h \in CutShort : host' = h
      BY <1>16 DEF Fail, Crash
    <3> QED
      BY <1>t, <3>1, CutShortKinds DEF Hosts
  <2> QED
    BY <1>16, <1>k, <2>1 DEF Fail, Crash, End
<1>17. CASE Kubeadm
  <2>1. UNCHANGED <<states, pc, run, inits>> /\ name' = name
    BY <1>17 DEF Kubeadm, KubeadmWritesAdmin, KubeadmEnds, KubeadmFails, name
  <2>2. CASE KubeadmWritesAdmin \/ KubeadmEnds
    BY <1>t, <2>1, <2>2 DEF KubeadmWritesAdmin, KubeadmEnds, Started, Saved
  <2>3. CASE KubeadmFails
    <3>1. /\ admin' = admin /\ kubeadm' \in {"failed", "none"}
          /\ kubeadm' = "none" => host'.cluster = None
          /\ kubeadm' = "failed" => host'.cluster = host.cluster
      BY <1>t, <2>3 DEF KubeadmFails, Hosts
    <3> QED
      BY <1>t, <2>1, <2>3, <3>1 DEF KubeadmFails, Started, Saved
  <2> QED
    BY <1>17, <2>2, <2>3 DEF Kubeadm
<1>18. CASE Edit \/ UNCHANGED vars
  <2>1. UNCHANGED <<states, pc, run, inits, admin, kubeadm, host>> /\ name' = name
    BY <1>18 DEF Edit, vars, name
  <2> QED
    BY <1>t, <2>1 DEF Started, Saved
<1> QED
  BY <1>1, <1>2, <1>3, <1>4, <1>5, <1>6, <1>7, <1>8, <1>9, <1>10, <1>11, <1>12, <1>13, <1>14,
     <1>15, <1>16, <1>17, <1>18 DEF Next, Advance

LEMMA RunningInductive ==
    ASSUME OneCluster, HInv, TypeOK', [Next]_vars
    PROVE  Running'
<1>t. /\ TypeOK /\ IInv /\ StepPhases /\ Started /\ Running /\ FilesWritten
      /\ host \in Hosts /\ admin \in BOOLEAN /\ inits \in [Names -> Nat]
      /\ run \in Runs /\ states \in [Names -> [inputs : Inputs \cup {None}, phase : Phases]]
  BY DEF HInv, IInv, TypeOK
<1> USE DEF New, Staged, Prepared, Images, Starting, Initialized, CiliumReady, RegReady, Complete
<1>o. pc \notin {"idle", "local", "gate"} =>
        /\ name \in Names
        /\ \A n \in Names : /\ n = name /\ states[n].phase = run.phase
                            /\ states[n].phase # New => states[n].inputs = run.inputs
                            /\ states[n].phase \in 0..8 /\ run.inputs \in Inputs
  BY <1>t, OnlyName, NameType
(* Nothing these properties speak of is touched. *)
<1>k. ASSUME UNCHANGED <<states, kubeadm, admin, host.cluster, host.cni, host.registry>>,
             pc' \notin {"saveCilium", "saveRegistry", "saveComplete"}
      PROVE  Running'
  BY <1>k, <1>t DEF Running, CompleteMeansRunning, Saved
(* Nothing is on record yet that these properties speak of. *)
<1>z. ASSUME \A n \in Names : states'[n].phase < CiliumReady,
             pc' \notin {"saveCilium", "saveRegistry", "saveComplete"}
      PROVE  Running'
  <2>1. \A n \in Names : ~Saved(n, CiliumReady)' /\ ~Saved(n, RegReady)'
    <3>1. states' \in [Names -> [inputs : Inputs \cup {None}, phase : Phases]]
      BY DEF TypeOK
    <3> QED
      BY <1>z, <3>1 DEF Saved, Phases
  <2> QED
    BY <1>z, <2>1 DEF Running, CompleteMeansRunning
<1>1. CASE StartFresh \/ StartResume
  BY <1>1, <1>k DEF StartFresh, StartResume, Start
<1>2. CASE LocalPreflight \/ Gate
  BY <1>2, <1>k DEF LocalPreflight, Gate, End
<1>3. CASE Push \/ PrepareNode \/ ImportImages
  <2>1. UNCHANGED <<host.cluster, host.cni, host.registry>>
    BY <1>3, <1>t DEF Push, PrepareNode, ImportImages, Hosts
  <2> QED
    BY <1>3, <1>k, <2>1 DEF Push, AfterPush, PrepareNode, ImportImages, Goto
<1>4. CASE WriteFiles
  <2>1. /\ UNCHANGED <<host.cluster, host.cni, host.registry, admin, kubeadm, states, run>>
        /\ pc = "files" /\ pc' \notin {"saveCilium", "saveRegistry"}
    BY <1>4, <1>t DEF WriteFiles, AfterFiles, Goto, Hosts
  <2>2. CASE pc' # "saveComplete"
    BY <1>k, <2>1, <2>2
  <2>3. CASE pc' = "saveComplete"
    <3>1. run.phase = RegReady \/ ~withRegistry
      BY <1>4, <1>t, <2>1, <2>3 DEF WriteFiles, AfterFiles, Goto, StepPhases
    <3>2. withRegistry => host.registry = run.inputs.config
      BY <1>o, <1>t, <2>1, <3>1 DEF Running, CompleteMeansRunning, Saved, withRegistry
    <3> QED
      BY <1>t, <2>1, <2>3, <3>2 DEF Running, CompleteMeansRunning, Saved, withRegistry
  <2> QED
    BY <2>2, <2>3
<1>5. CASE RunInit
  <2>1. \A n \in Names : states'[n].phase < CiliumReady
    BY <1>5, <1>o, <1>t DEF RunInit, StepPhases
  <2> QED
    BY <1>5, <1>z, <2>1 DEF RunInit, Goto
<1>6. CASE InitReturns \/ Preflight
  BY <1>6, <1>k DEF InitReturns, Preflight, Goto, End
<1>7. CASE InstallCilium
  <2>1. /\ pc = "cilium" /\ pc' = "saveCilium" /\ kubeadm = "done"
        /\ host'.cni = host.cniFile /\ UNCHANGED <<host.registry, run, kubeadm, states>>
    BY <1>7, <1>t DEF InstallCilium, CiliumCanSucceed, Goto, Hosts
  <2>2. \A n \in Names : ~Saved(n, CiliumReady)' /\ ~Saved(n, RegReady)'
    BY <1>o, <1>t, <2>1 DEF StepPhases, Saved
  <2> QED
    BY <1>t, <2>1, <2>2 DEF Running, CompleteMeansRunning, FilesWritten
<1>8. CASE StartRegistry
  <2>1. /\ pc = "registry" /\ pc' = "saveRegistry" /\ host'.registry = run.inputs.config
        /\ UNCHANGED <<host.cluster, host.cni, kubeadm, admin, run, states>>
    BY <1>8, <1>t DEF StartRegistry, Goto, Hosts
  <2>2. \A n \in Names : ~Saved(n, RegReady)'
    BY <1>o, <1>t, <2>1 DEF StepPhases, Saved
  <2>3. \A n \in Names : Saved(n, CiliumReady)' = Saved(n, CiliumReady)
    BY <2>1 DEF Saved
  <2> QED
    BY <1>t, <2>1, <2>2, <2>3 DEF Running, CompleteMeansRunning
<1>9. CASE \/ CiliumFails
           \/ (Fail \/ Crash) /\ pc \in {"cilium", "registry"}
  <2>1. pc \in {"cilium", "registry"} /\ pc' = "idle" /\ UNCHANGED <<states, kubeadm, admin>>
    BY <1>9 DEF CiliumFails, Fail, Crash, End
  <2>2. CASE pc = "cilium"
    BY <1>o, <1>t, <1>z, <2>1, <2>2 DEF StepPhases
  <2>3. CASE pc = "registry"
    <3>1. UNCHANGED <<host.cluster, host.cni>>
      <4>1. PICK h \in CutShort : host' = h
        BY <1>9, <2>3 DEF CiliumFails, Fail, Crash
      <4> QED
        BY <1>t, <2>3, <4>1, CutShortKinds DEF Hosts
    <3>2. \A n \in Names : ~Saved(n, RegReady)'
      BY <1>o, <1>t, <2>1, <2>3 DEF StepPhases, Saved
    <3>3. \A n \in Names : Saved(n, CiliumReady)' = Saved(n, CiliumReady)
      BY <2>1 DEF Saved
    <3> QED
      BY <1>t, <2>1, <3>1, <3>2, <3>3 DEF Running, CompleteMeansRunning
  <2> QED
    BY <2>1, <2>2, <2>3
<1>10. CASE (Fail \/ Crash) /\ pc \notin {"cilium", "registry"}
  <2>1. UNCHANGED <<host.cluster, host.cni, host.registry>>
    <3>1. PICK h \in CutShort : host' = h
      BY <1>10 DEF Fail, Crash
    <3> QED
      BY <1>t, <1>10, <3>1, CutShortKinds DEF Hosts
  <2> QED
    BY <1>10, <1>k, <2>1 DEF Fail, Crash, End
<1>11. CASE SaveStaged \/ SavePrepared \/ SaveImages \/ SaveStarting \/ SaveInitialized
  <2>1. \A n \in Names : states'[n].phase < CiliumReady
    BY <1>11, <1>o, <1>t DEF SaveStaged, SavePrepared, SaveImages, SaveStarting, SaveInitialized, Save
  <2> QED
    BY <1>11, <1>z, <2>1
       DEF SaveStaged, SavePrepared, SaveImages, SaveStarting, SaveInitialized, Save
<1>12. CASE SaveCilium
  <2>1. /\ pc = "saveCilium" /\ pc' = AfterCilium /\ UNCHANGED <<kubeadm, admin, host>>
        /\ \A n \in Names : states'[n] = [inputs |-> run.inputs, phase |-> CiliumReady]
    BY <1>12, <1>o, <1>t DEF SaveCilium, Save
  <2>2. run'.inputs = run.inputs
    BY <1>12, <1>t DEF SaveCilium, Save, Runs
  <2>3. kubeadm = "done" /\ host.cni = run.inputs.config
    BY <1>t, <2>1 DEF Running
  <2>4. \A n \in Names : admin /\ inits[n] = 1 /\ states[n].inputs = run.inputs
    BY <1>o, <1>t, <2>1 DEF StepPhases, Started, Saved
  <2>5. \A n \in Names : host.cluster = run.inputs.config
    BY <1>t, <2>3, <2>4 DEF Started
  <2>6. CompleteMeansRunning'
    BY <2>1, <2>3, <2>4, <2>5 DEF CompleteMeansRunning, Saved
  <2> QED
    BY <2>1, <2>2, <2>6 DEF Running, AfterCilium, withRegistry
<1>13. CASE SaveRegistry \/ SaveComplete
  <2>1. /\ pc \in {"saveRegistry", "saveComplete"} /\ UNCHANGED <<kubeadm, admin, host>>
        /\ pc' \in {"idle", "saveComplete"}
        /\ pc' = "saveComplete" => pc = "saveRegistry"
        /\ pc' = "saveComplete" => run'.inputs = run.inputs
    BY <1>13, <1>t DEF SaveRegistry, SaveComplete, Save, End, Runs
  <2>2. PICK phase \in {RegReady, Complete} :
             \A n \in Names : states'[n] = [inputs |-> run.inputs, phase |-> phase]
    BY <1>13, <1>o, <1>t, <2>1 DEF SaveRegistry, SaveComplete, Save
  <2>3. \A n \in Names : Saved(n, CiliumReady) /\ states[n].inputs = run.inputs
    BY <1>o, <1>t, <2>1 DEF StepPhases, Saved
  <2>4. withRegistry => host.registry = run.inputs.config
    BY <1>t, <2>1 DEF Running
  <2>5. CompleteMeansRunning'
    BY <1>t, <2>1, <2>2, <2>3, <2>4 DEF Running, CompleteMeansRunning, withRegistry
  <2> QED
    BY <1>t, <2>1, <2>4, <2>5 DEF Running, withRegistry
<1>14. CASE Kubeadm
  <2>1. /\ kubeadm = "running" /\ UNCHANGED <<states, pc, run>>
        /\ UNCHANGED <<host.cni, host.registry>>
    BY <1>14, <1>t DEF Kubeadm, KubeadmWritesAdmin, KubeadmEnds, KubeadmFails, Hosts
  <2>2. pc # "saveCilium" /\ \A n \in Names : ~Saved(n, CiliumReady)
    BY <1>t, <2>1 DEF Running, CompleteMeansRunning
  <2>3. \A n \in Names : ~Saved(n, CiliumReady)' /\ Saved(n, RegReady)' = Saved(n, RegReady)
    BY <2>1, <2>2 DEF Saved
  <2> QED
    BY <1>t, <2>1, <2>2, <2>3 DEF Running, CompleteMeansRunning, withRegistry
<1>15. CASE Edit \/ UNCHANGED vars
  <2>1. UNCHANGED <<states, pc, run, admin, kubeadm, host>>
    BY <1>15 DEF Edit, vars
  <2> QED
    BY <1>t, <2>1 DEF Running, CompleteMeansRunning, Saved, withRegistry
<1> QED
  BY <1>1, <1>2, <1>3, <1>4, <1>5, <1>6, <1>7, <1>8, <1>9, <1>10, <1>11, <1>12, <1>13, <1>14,
     <1>15 DEF Next, Advance


LEMMA AnsweredInductive ==
    ASSUME HInv, TypeOK', [Next]_vars
    PROVE  Answered'
<1>t. /\ TypeOK /\ IInv /\ StepPhases /\ Answered /\ run \in Runs
      /\ states \in [Names -> [inputs : Inputs \cup {None}, phase : Phases]]
      /\ pc # "idle" => name \in Names /\ run.inputs \in Inputs
  BY NameType DEF HInv, IInv, TypeOK
<1>k. ASSUME UNCHANGED <<states, answer>>, pc # "idle" \/ pc' = "idle"
      PROVE  Answered'
  BY <1>k, <1>t DEF Answered
<1>e. ASSUME End("error")
      PROVE  Answered'
  BY <1>e DEF Answered, End
<1>s. ASSUME pc # "idle", UNCHANGED answer
      PROVE  Answered'
  BY <1>s, <1>t DEF Answered
<1>1. CASE StartFresh \/ StartResume
  BY <1>1 DEF StartFresh, StartResume, Start, NoAnswer, Answered
<1>2. CASE Gate
  <2>1. pc = "gate" /\ UNCHANGED states
    BY <1>2 DEF Gate
  <2>2. CASE UNCHANGED answer
    BY <1>s, <2>1, <2>2
  <2>3. CASE AlreadyComplete /\ End("already")
    <3>1. states[name].phase = Complete /\ states[name].inputs = run.inputs
      <4>1. states[name].phase # New /\ states[name].phase = Complete
        BY <2>3 DEF AlreadyComplete, Complete, New
      <4>2. states[name].inputs \in Inputs /\ run.inputs \in Inputs
        BY <1>t, <2>1, <4>1 DEF IInv, StartsOnRecord
      <4>3. /\ states[name].inputs.config = run.inputs.config
            /\ states[name].inputs.bundle = run.inputs.bundle
        BY <2>3 DEF AlreadyComplete, Matches
      <4> QED
        BY <4>1, <4>2, <4>3 DEF Inputs
    <3>2. states[name] = [inputs |-> run.inputs, phase |-> Complete]
      BY <1>t, <2>1, <3>1
    <3> QED
      BY <1>t, <2>1, <2>3, <3>2 DEF Answered, End, name
  <2> QED
    BY <1>2, <1>e, <2>2, <2>3 DEF Gate
<1>3. CASE SaveComplete
  <2>1. /\ pc = "saveComplete" /\ pc' = "idle"
        /\ states' = [states EXCEPT ![name] = [inputs |-> run.inputs, phase |-> Complete]]
        /\ answer' = [result |-> "complete", inputs |-> run.inputs]
    BY <1>3 DEF SaveComplete, End
  <2>2. states'[name] = [inputs |-> run.inputs, phase |-> Complete]
    BY <1>t, <2>1
  <2> QED
    BY <1>t, <2>1, <2>2 DEF Answered, name
<1>4. CASE LocalPreflight \/ Preflight \/ InitReturns \/ CiliumFails \/ Fail
  <2>1. pc # "idle" /\ (End("error") \/ UNCHANGED answer)
    BY <1>4 DEF LocalPreflight, Preflight, InitReturns, CiliumFails, Fail, Goto
  <2> QED
    BY <1>e, <1>s, <2>1
<1>5. CASE Crash
  BY <1>5, <1>k DEF Crash
<1>6. CASE \/ Push \/ SaveStaged \/ PrepareNode \/ SavePrepared \/ ImportImages \/ SaveImages
           \/ WriteFiles \/ SaveStarting \/ RunInit \/ SaveInitialized \/ InstallCilium
           \/ SaveCilium \/ StartRegistry \/ SaveRegistry
  <2>1. pc # "idle" /\ UNCHANGED answer
    BY <1>6 DEF Push, SaveStaged, PrepareNode, SavePrepared, ImportImages, SaveImages, WriteFiles,
       SaveStarting, RunInit, SaveInitialized, InstallCilium, SaveCilium, StartRegistry,
       SaveRegistry, Save, Goto
  <2> QED
    BY <1>s, <2>1
<1>7. CASE Kubeadm \/ Edit \/ UNCHANGED vars
  BY <1>7, <1>k DEF Kubeadm, KubeadmWritesAdmin, KubeadmEnds, KubeadmFails, Edit, vars
<1> QED
  BY <1>1, <1>2, <1>3, <1>4, <1>5, <1>6, <1>7 DEF Next, Advance

LEMMA HostInvariance == ASSUME OneCluster PROVE Spec => []HInv
<1>1. ASSUME Init PROVE HInv
  <2>1. TypeOK /\ IInv
    BY <1>1, TypeInitially DEF Init, IInv, StepPhases, RunAgrees, StartsOnRecord, NoFile, New
  <2>2. \A n \in Names : states[n].phase = 0
    BY <1>1 DEF Init, NoFile, New
  <2>3. \A n \in Names, phase \in 1..8 : ~Saved(n, phase)
    BY <2>2 DEF Saved
  <2>4. Provisioned /\ FilesWritten
    BY <1>1, <2>3 DEF Init, Provisioned, PhaseDescribesHost, FilesWritten, Staged, Prepared, Images
  <2>5. Foreign /\ Started
    <3>1. /\ foreign = "coming" => ~admin /\ kubeadm = "running"
          /\ foreign = "there" => admin /\ kubeadm = "done"
          /\ foreign = "none" => ~admin /\ kubeadm = "none"
          /\ foreign \in {"none", "there", "coming"}
          /\ pc = "idle" /\ host = CleanHost /\ inits = [n \in Names |-> 0]
      BY <1>1 DEF Init
    <3>2. Foreign
      BY <2>2, <3>1 DEF Foreign, New, Starting, CleanHost
    <3> QED
      BY <2>3, <3>1, <3>2 DEF Started, Initialized, CleanHost
  <2>6. Running /\ Answered
    BY <1>1, <2>3 DEF Init, Running, CompleteMeansRunning, Answered, NoAnswer, CiliumReady, RegReady
  <2> QED
    BY <2>1, <2>4, <2>5, <2>6 DEF HInv
<1>2. ASSUME HInv, [Next]_vars PROVE HInv'
  <2>1. IInv' /\ TypeOK'
    BY <1>2, Inductive DEF HInv, IInv
  <2>2. TypeOK /\ IInv /\ Provisioned /\ FilesWritten /\ Foreign
    BY <1>2 DEF HInv, IInv
  <2>3. Provisioned' /\ FilesWritten' /\ Foreign'
    BY <1>2, <2>1, <2>2, ProvisionedInductive, FilesInductive, ForeignInductive
  <2> QED
    BY <1>2, <2>1, <2>3, StartedInductive, RunningInductive, AnsweredInductive DEF HInv
<1> QED
  BY <1>1, <1>2, PTL DEF Spec

(* What a state file says was done is on the host, done from the inputs the  *)
(* file names; so what a resumed run skips needs no redoing.                 *)
THEOREM PhasesTrue == ASSUME OneCluster PROVE Spec => []PhaseDescribesHost
<1>1. HInv => PhaseDescribesHost
  BY DEF HInv, Provisioned
<1> QED
  BY <1>1, HostInvariance, PTL

(* kubeadm init only starts on a host that is wholly prepared and has no      *)
(* trace of another control plane, with its start on record.                 *)
THEOREM InitPrepared == ASSUME OneCluster PROVE Spec => InitOnPreparedHost
<1> DEFINE Prepares == \A n \in Names : inits'[n] # inits[n] =>
          /\ states[n].phase = Starting
          /\ host.staging[n] = states[n].inputs.bundle
          /\ host.node = states[n].inputs
          /\ states[n].inputs \in host.images
          /\ host.initFile = states[n].inputs.config
          /\ kubeadm = "none" /\ ~admin /\ host.cluster = None
<1>1. ASSUME HInv, [Next]_vars PROVE [Prepares]_vars
  <2>1. CASE RunInit
    <3>1. pc = "init"
      BY <2>1 DEF RunInit
    <3>2. \A n \in Names : n = name /\ states[n].phase = run.phase
      BY <1>1, <3>1, OnlyName DEF HInv
    <3>3. run.phase = Starting
      BY <1>1, <3>1 DEF HInv, IInv, StepPhases
    <3>4. \A n \in Names : states[n].inputs = run.inputs
      BY <1>1, <3>1, <3>3, OnlyName DEF HInv, Starting, New
    <3>5. host.initFile = run.inputs.config
      BY <1>1, <3>1 DEF HInv, FilesWritten
    <3>6. \A n \in Names : inits[n] = 0
      BY <1>1, <3>1, <3>2 DEF HInv, IInv, RunAgrees
    <3>7. kubeadm = "none" /\ ~admin /\ host.cluster = None
      BY <1>1, <3>1, <3>6 DEF HInv, Foreign, Started
    <3> QED
      BY <1>1, <3>2, <3>3, <3>4, <3>5, <3>7 DEF HInv, Provisioned, PhaseDescribesHost, Saved,
         Starting, Staged, Prepared, Images
  <2>2. CASE UNCHANGED inits
    BY <2>2
  <2>3. RunInit \/ UNCHANGED inits
    BY <1>1 DEF Next, Advance, StartFresh, StartResume, Start, LocalPreflight, Gate, Push, SaveStaged, PrepareNode,
       SavePrepared, ImportImages, SaveImages, WriteFiles, Preflight, SaveStarting, InitReturns,
       SaveInitialized, InstallCilium, CiliumFails, SaveCilium, StartRegistry, SaveRegistry,
       SaveComplete, Save, Fail, Crash, Kubeadm, KubeadmWritesAdmin, KubeadmEnds, KubeadmFails,
       Edit, vars
  <2> QED
    BY <2>1, <2>2, <2>3
<1> QED
  BY <1>1, HostInvariance, PTL DEF Spec, InitOnPreparedHost

(* From cilium-ready on the control plane runs with the network, and at the  *)
(* end with the Registry, that its configuration asks for.                   *)
THEOREM CompleteRuns == ASSUME OneCluster PROVE Spec => []CompleteMeansRunning
<1>1. HInv => CompleteMeansRunning
  BY DEF HInv, Running
<1> QED
  BY <1>1, HostInvariance, PTL

(* A reported success is one: the cluster runs with the reported inputs.     *)
THEOREM ReportTrue == ASSUME OneCluster PROVE Spec => []ReportIsTrue
<1>1. ASSUME HInv PROVE ReportIsTrue
  <2> SUFFICES ASSUME answer.result \in {"complete", "already"}
               PROVE  /\ states[NameOf[answer.inputs.config]] =
                            [inputs |-> answer.inputs, phase |-> Complete]
                      /\ kubeadm = "done" /\ host.cluster = answer.inputs.config
                      /\ host.node = answer.inputs
    BY DEF ReportIsTrue
  <2>1. PICK n \in Names : n = NameOf[answer.inputs.config]
    BY <1>1, NamesAssumption DEF HInv, Answered, Inputs
  <2>2. states[n] = [inputs |-> answer.inputs, phase |-> Complete]
    BY <1>1, <2>1 DEF HInv, Answered
  <2>3. Saved(n, CiliumReady) /\ Saved(n, Prepared) /\ states[n].inputs = answer.inputs
    BY <2>2 DEF Saved, CiliumReady, Prepared, Complete
  <2> QED
    BY <1>1, <2>1, <2>2, <2>3
       DEF HInv, Running, CompleteMeansRunning, Provisioned, PhaseDescribesHost
<1> QED
  BY <1>1, HostInvariance, PTL

(* A control plane kubelift did not start is left alone: the host of one that *)
(* was there is as it was found, and one that came up meanwhile gets neither  *)
(* network nor Registry.                                                      *)
THEOREM ExistingUntouched == ASSUME OneCluster PROVE Spec => []ExistingClusterUntouched
<1>1. HInv => ExistingClusterUntouched
  BY DEF HInv, Foreign, ExistingClusterUntouched
<1> QED
  BY <1>1, HostInvariance, PTL

(* `create`, with its crashes and resumed runs, implements the once-only     *)
(* task: kubeadm init runs at its level, once, and no level beyond it is     *)
(* recorded without it.                                                      *)
THEOREM CreatesOnce == ASSUME OneCluster PROVE Spec => ImplementsOnceOnly
<1> DEFINE level == [n \in Names |-> states[n].phase]
<1> USE DEF New, Staged, Prepared, Images, Starting, Initialized, CiliumReady, RegReady, Complete
<1>1. ASSUME Init PROVE Once!Init
  BY <1>1 DEF Init, Once!Init, NoFile
<1>2. ASSUME HInv, [Next]_vars PROVE [Once!Next]_<<level, inits>>
  <2>t. /\ TypeOK /\ IInv /\ StepPhases /\ Foreign /\ Started /\ inits \in [Names -> Nat]
        /\ states \in [Names -> [inputs : Inputs \cup {None}, phase : Phases]]
    BY <1>2 DEF HInv, IInv, TypeOK
  <2>o. pc \notin {"idle", "local", "gate"} =>
          /\ name \in Names
          /\ \A n \in Names : n = name /\ states[n].phase = run.phase /\ states[n].phase \in 0..8
    BY <2>t, OnlyName, NameType
  <2>k. ASSUME UNCHANGED <<states, inits>> PROVE UNCHANGED <<level, inits>>
    BY <2>k
  <2>s. ASSUME NEW phase \in 1..8, pc \notin {"idle", "local", "gate"}, phase > run.phase,
               states' = [states EXCEPT ![name] = [inputs |-> run.inputs, phase |-> phase]],
               inits' = inits,
               run.phase < Starting => phase <= Starting,
               run.phase >= Starting => inits[name] = 1
        PROVE  Once!Next
    <3>n. PICK n \in Names : n = name
      BY <2>s, <2>o
    <3>1. level' = [level EXCEPT ![n] = phase]
      BY <2>s, <2>t, <3>n
    <3>2. level[n] = run.phase /\ run.phase \in 0..8
      BY <2>s, <2>o, <3>n
    <3>3. level[n] >= Starting => inits[n] = 1
      BY <2>s, <3>2, <3>n
    <3> HIDE DEF level
    <3>4. Once!Record(n)
      <4>1. phase \in (level[n] + 1)..8 /\ (level[n] < 4 => phase <= 4)
        BY <2>s, <3>2
      <4> QED
        BY <2>s, <3>1, <3>3, <4>1 DEF Once!Record, level
    <3> QED
      BY <3>4 DEF Once!Next
  <2>1. CASE SaveStaged \/ SavePrepared \/ SaveImages \/ SaveStarting
    BY <2>1, <2>s, <2>t DEF SaveStaged, SavePrepared, SaveImages, SaveStarting, Save, StepPhases
  <2>2. CASE SaveInitialized
    <3>1. inits[name] = 1 /\ pc = "saveInitialized" /\ run.phase = Starting
      BY <2>2, <2>t DEF SaveInitialized, Save, Started, StepPhases
    <3> QED
      BY <2>2, <2>s, <3>1 DEF SaveInitialized, Save
  <2>3. CASE SaveCilium \/ SaveRegistry \/ SaveComplete
    <3>1. \/ pc = "saveCilium" /\ run.phase = Initialized
          \/ pc = "saveRegistry" /\ run.phase = CiliumReady
          \/ pc = "saveComplete" /\ run.phase \in {CiliumReady, RegReady}
      BY <2>3, <2>t DEF SaveCilium, SaveRegistry, SaveComplete, Save, StepPhases
    <3>2. inits[name] = 1
      BY <2>t, <2>o, <3>1 DEF Started, Saved
    <3>3. PICK phase \in 6..8 :
            /\ phase > run.phase /\ inits' = inits
            /\ states' = [states EXCEPT ![name] = [inputs |-> run.inputs, phase |-> phase]]
      BY <2>3, <3>1 DEF SaveCilium, SaveRegistry, SaveComplete, Save
    <3>4. /\ phase \in 1..8 /\ pc \notin {"idle", "local", "gate"}
          /\ (run.phase < Starting => phase <= Starting)
      BY <3>1
    <3> QED
      BY <2>s, <3>2, <3>3, <3>4, Zenon
  <2>4. CASE RunInit
    <3>1. /\ pc = "init" /\ inits' = [inits EXCEPT ![name] = 1] /\ inits[name] = 0
          /\ states' = states /\ run.phase = Starting
      BY <2>4, <2>t, <2>o DEF RunInit, IInv, RunAgrees, StepPhases
    <3>n. PICK n \in Names : n = name
      BY <2>o, <3>1
    <3>2. level[n] = Starting /\ level' = level
      BY <2>o, <3>1, <3>n
    <3> HIDE DEF level
    <3>3. Once!Fire(n)
      BY <3>1, <3>2, <3>n DEF Once!Fire, level
    <3> QED
      BY <3>3 DEF Once!Next
  <2>5. CASE UNCHANGED <<states, inits>>
    BY <2>5, <2>k
  <2>6. \/ SaveStaged \/ SavePrepared \/ SaveImages \/ SaveStarting \/ SaveInitialized
        \/ SaveCilium \/ SaveRegistry \/ SaveComplete \/ RunInit
        \/ UNCHANGED <<states, inits>>
    BY <1>2 DEF Next, Advance, StartFresh, StartResume, Start, LocalPreflight, Gate, Push, PrepareNode,
       ImportImages, WriteFiles, Preflight, InitReturns, InstallCilium, CiliumFails,
       StartRegistry, Fail, Crash, Kubeadm, KubeadmWritesAdmin, KubeadmEnds, KubeadmFails,
       Edit, vars
  <2> QED
    BY <2>1, <2>2, <2>3, <2>4, <2>5, <2>6
<1> QED
  BY <1>1, <1>2, HostInvariance, PTL DEF Spec, ImplementsOnceOnly, Once!Spec

-----------------------------------------------------------------------------
(* The steps of a run in their order, with its end. *)
Place == [local |-> 0, gate |-> 1, push |-> 2, saveStaged |-> 3, prepare |-> 4,
          savePrepared |-> 5, images |-> 6, saveImages |-> 7, files |-> 8, preflight |-> 9,
          saveStarting |-> 10, init |-> 11, wait |-> 12, saveInitialized |-> 13, cilium |-> 14,
          saveCilium |-> 15, registry |-> 16, saveRegistry |-> 17, saveComplete |-> 18,
          idle |-> 19]

(* Why a run that nothing disturbs may be refused: an operator has to look, a *)
(* kubeadm init of an earlier run is still at work, or it wrote admin.conf   *)
(* after this run had looked for it, or the command came in the other form.  *)
Excused ==
    \/ LeftToOperator
    \/ kubeadm = "running"
    \/ pc = "local" /\ ~DiskSuffices
    \/ pc = "gate" /\ run.adminSeen # admin
    \/ pc = "gate" /\ run.resume # Saved(name, Staged)

(* Every step of a run leads on, and a run ends in success or with an excuse. *)
LeadsOn ==
    /\ Place[pc'] > Place[pc]
    /\ pc' = "idle" => answer'.result # "error" \/ Excused

(* As long as nothing disturbs it, a run only ever goes on. *)
RunsGoOn == [][Advance => LeadsOn]_vars

(* A run is about the files as they are, as they are not edited under it.    *)
Tended ==
    /\ pc # "idle" => run.inputs = [config |-> config, bundle |-> bundle]
    /\ kubeadm = "done" => admin

LEMMA TendedStep == TypeOK /\ Tended /\ [Next]_vars => Tended'
<1> SUFFICES ASSUME TypeOK, Tended, [Next]_vars PROVE Tended'
  OBVIOUS
<1>1. CASE StartFresh \/ StartResume
  BY <1>1 DEF StartFresh, StartResume, Start, NoRun, Tended
<1>2. CASE Advance
  <2>1. pc # "idle" /\ UNCHANGED <<config, bundle, admin>> /\ (kubeadm' = "done" => kubeadm = "done")
    BY <1>2 DEF Advance, LocalPreflight, Gate, Push, SaveStaged, PrepareNode, SavePrepared, ImportImages,
       SaveImages, WriteFiles, Preflight, SaveStarting, RunInit, InitReturns, SaveInitialized,
       InstallCilium, CiliumFails, SaveCilium, StartRegistry, SaveRegistry, SaveComplete, Save
  <2>2. pc' = "idle" \/ run'.inputs = run.inputs
    BY <1>2 DEF TypeOK, Runs, Advance, LocalPreflight, Gate, Push, SaveStaged, PrepareNode, SavePrepared,
       ImportImages, SaveImages, WriteFiles, Preflight, SaveStarting, RunInit, InitReturns,
       SaveInitialized, InstallCilium, CiliumFails, SaveCilium, StartRegistry, SaveRegistry,
       SaveComplete, Save, Goto, End
  <2> QED
    BY <2>1, <2>2 DEF Tended
<1>3. CASE Fail \/ Crash
  BY <1>3 DEF Fail, Crash, End, Tended
<1>4. CASE Kubeadm
  BY <1>4 DEF Kubeadm, KubeadmWritesAdmin, KubeadmEnds, KubeadmFails, Tended
<1>5. CASE Edit \/ UNCHANGED vars
  BY <1>5 DEF Edit, vars, Tended
<1> QED
  BY <1>1, <1>2, <1>3, <1>4, <1>5 DEF Next

(* The gate lets every run pass that has no excuse. *)
LEMMA GateOpens ==
    ASSUME OneCluster, HInv, Tended, pc = "gate", ~Excused
    PROVE  FreshAllowed \/ ResumeAllowed \/ AlreadyComplete
<1> USE DEF New, Staged, Prepared, Images, Starting, Initialized, CiliumReady, RegReady, Complete
<1> DEFINE st == states[name]
<1>1. /\ TypeOK /\ IInv /\ Foreign /\ Started /\ name \in Names
      /\ run.inputs = [config |-> config, bundle |-> bundle] /\ name = NameOf[config]
      /\ st.phase \in 0..8 /\ kubeadm \in {"none", "failed", "done"}
      /\ run.resume \in BOOLEAN /\ run.adminSeen = admin /\ admin \in BOOLEAN
      /\ run.resume <=> st.phase >= Staged
  <2>1. TypeOK /\ IInv /\ Foreign /\ Started /\ name \in Names
    BY NameType DEF HInv, IInv
  <2>2. run.inputs = [config |-> config, bundle |-> bundle] /\ name = NameOf[config]
    BY DEF Tended, name
  <2>3. st.phase \in 0..8 /\ run.resume \in BOOLEAN /\ admin \in BOOLEAN
    BY <2>1 DEF TypeOK, Runs, Phases
  <2> QED
    BY <2>1, <2>2, <2>3 DEF Excused, Saved, TypeOK
<1>2. /\ st.phase # New => st.inputs = run.inputs
      /\ st.phase >= Starting => kubeadm = "done"
      /\ st.phase < Starting => ~admin
  BY <1>1 DEF Excused, LeftToOperator
<1>3. st.phase \in 1..3 => ~admin
  BY <1>2
<1>4. CASE st.phase = New
  BY <1>1, <1>2, <1>4 DEF FreshAllowed
<1>5. CASE st.phase = Complete
  BY <1>1, <1>2, <1>5 DEF AlreadyComplete, Matches
<1>6. CASE st.phase \in 1..7
  <2>1. st.phase >= Starting => admin
    BY <1>2 DEF Tended
  <2> QED
    BY <1>1, <1>2, <1>3, <1>6, <2>1 DEF ResumeAllowed, Matches
<1> QED
  BY <1>1, <1>4, <1>5, <1>6

(* A create that was interrupted can be resumed, and a run that is left alone *)
(* gets, in a bounded number of steps, to a complete cluster, unless an       *)
(* operator has to look (NeedsOperator: a disk filled by what earlier runs    *)
(* left there is one of the reasons) or an earlier kubeadm init is still at   *)
(* work: neither the gate, nor the preflight of kubeadm, nor the look at      *)
(* admin.conf after it stands in the way of a run for any other reason.       *)
THEOREM RunsGetThrough == ASSUME OneCluster PROVE Spec => RunsGoOn
<1>1. ASSUME HInv, Tended, Advance
      PROVE  LeadsOn
  <2> SUFFICES /\ Place[pc'] > Place[pc]
               /\ pc' = "idle" => answer'.result # "error" \/ Excused
    BY DEF LeadsOn
  <2>t. /\ TypeOK /\ IInv /\ StepPhases /\ Foreign /\ Started
        /\ pc # "idle" => name \in Names /\ name = NameOf[config]
    BY <1>1, NameType DEF HInv, IInv, Tended, name
  <2>o. pc \notin {"idle", "local", "gate"} =>
          /\ states[name].phase = run.phase
          /\ \A n \in Names : n = name /\ states[n].phase = run.phase
    BY <1>1, <2>t, OnlyName
  <2> USE DEF New, Staged, Prepared, Images, Starting, Initialized, CiliumReady, RegReady, Complete
  <2>7. CASE LocalPreflight
    <3>1. pc = "local" /\ pc' \in {"gate", "idle"} /\ (pc' = "idle" => ~DiskSuffices)
      BY <2>7 DEF LocalPreflight, End
    <3>2. Place[pc'] > Place[pc]
      BY <3>1 DEF Place
    <3> QED
      BY <3>1, <3>2 DEF Excused, LeftToOperator
  <2>1. CASE Gate
    <3>1. pc = "gate" /\ pc' \in {"push", "idle"}
      BY <2>1 DEF Gate, End
    <3>2. answer'.result = "error" /\ pc' = "idle" =>
             ~(FreshAllowed \/ ResumeAllowed \/ AlreadyComplete)
      BY <2>1 DEF Gate, End
    <3> QED
      BY <1>1, <3>1, <3>2, GateOpens DEF Place
  <2>2. CASE Push \/ WriteFiles
    BY <2>2 DEF Push, WriteFiles, AfterPush, AfterFiles, Goto, Place
  <2>3. CASE \/ SaveStaged \/ PrepareNode \/ SavePrepared \/ ImportImages \/ SaveImages
             \/ SaveStarting \/ RunInit \/ SaveInitialized \/ InstallCilium \/ SaveCilium
             \/ StartRegistry \/ SaveRegistry
    BY <2>3 DEF SaveStaged, PrepareNode, SavePrepared, ImportImages, SaveImages, SaveStarting,
       RunInit, SaveInitialized, InstallCilium, SaveCilium, AfterCilium, StartRegistry,
       SaveRegistry, Save, Goto, Place
  <2>4. CASE SaveComplete
    BY <2>4 DEF SaveComplete, End, Place
  <2>5. CASE Preflight
    <3>1. pc = "preflight" /\ run.phase = Images
      BY <2>5, <2>t DEF Preflight, StepPhases
    <3>2. kubeadm = "none" \/ Excused
      BY <2>t, <2>o, <3>1 DEF Excused, LeftToOperator, TypeOK
    <3>3. pc' \in {"saveStarting", "idle"} /\ (pc' = "idle" => kubeadm # "none")
      BY <2>5 DEF Preflight, PreflightPasses, Goto, End
    <3>4. Place[pc'] > Place[pc]
      BY <3>1, <3>3 DEF Place
    <3> QED
      BY <3>2, <3>3, <3>4
  <2>6. CASE InitReturns \/ CiliumFails
    <3>1. /\ pc \in {"wait", "cilium"} /\ pc' \in {"saveInitialized", "idle"}
          /\ pc = "cilium" => pc' = "idle"
      BY <2>6 DEF InitReturns, CiliumFails, Goto, End
    <3>2. states[name].phase >= Starting
      BY <2>t, <2>o, <3>1 DEF StepPhases
    <3>3. pc' = "idle" => kubeadm # "done"
      BY <1>1, <2>6 DEF InitReturns, CiliumFails, CiliumCanSucceed, Goto, Tended
    <3>4. kubeadm \in {"none", "running", "failed", "done"}
      BY <2>t DEF TypeOK
    <3>5. pc' = "idle" => Excused
      BY <2>t, <3>1, <3>2, <3>3, <3>4 DEF Excused, LeftToOperator
    <3>6. Place[pc'] > Place[pc]
      BY <3>1 DEF Place
    <3> QED
      BY <3>5, <3>6
  <2> QED
    BY <1>1, <2>1, <2>2, <2>3, <2>4, <2>5, <2>6, <2>7 DEF Advance
<1>2. ASSUME HInv, Tended, [Next]_vars PROVE [Advance => LeadsOn]_vars
  BY <1>1, <1>2
<1>3. Init => Tended
  BY DEF Init, Tended
<1>4. HInv /\ Tended /\ [Next]_vars => Tended'
  BY TendedStep DEF HInv, IInv
<1> QED
  BY <1>2, <1>3, <1>4, HostInvariance, PTL DEF Spec, RunsGoOn
=============================================================================
