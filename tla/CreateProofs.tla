---------------------------- MODULE CreateProofs ----------------------------
(***************************************************************************)
(* Theorems about `kubelift create`, for every set of configurations,      *)
(* bundles and cluster names and every number of failures and edits.       *)
(***************************************************************************)
EXTENDS CreateProperties, TLAPS

(* The steps that belong to each recorded phase: at a step between two saves *)
(* the process holds the phase its state file holds, and it reaches kubeadm  *)
(* init only from images-imported.                                           *)
StepPhases ==
    /\ pc = "saveStaged" => run.phase = New
    /\ pc \in {"prepare", "savePrepared"} => run.phase = Staged
    /\ pc \in {"images", "saveImages"} => run.phase = Prepared
    /\ pc \in {"preflight", "saveStarting"} => run.phase = Images
    /\ pc \in {"init", "wait", "saveInitialized"} => run.phase = Starting
    /\ pc \in {"cilium", "saveCilium"} => run.phase = Initialized
    /\ pc \in {"registry", "saveRegistry"} => run.phase = CiliumReady
    /\ pc = "saveComplete" => run.phase \in {CiliumReady, RegReady}
    /\ pc = "files" => run.phase \in {Images, Starting, Initialized, CiliumReady, RegReady}
    /\ pc = "push" => run.phase # Complete
    /\ pc \in {"push", "files"} /\ run.phase = Starting => run.adminSeen

(* Past the gate, memory and disk agree, and a process about to run kubeadm  *)
(* init is the first to do so for its state file.                            *)
RunAgrees ==
    pc \notin {"idle", "local", "gate"} =>
        /\ run.phase = states[name].phase
        /\ run.phase # New => states[name].inputs = run.inputs
        /\ pc = "init" => inits[name] = 0

(* A state file names its inputs, and an init on record in the history is on  *)
(* record in the state file.                                                 *)
StartsOnRecord ==
    \A n \in Names :
        /\ states[n].phase # New => states[n].inputs \in Inputs
        /\ inits[n] \in {0, 1}
        /\ inits[n] = 1 => states[n].phase >= Starting

IInv == TypeOK /\ StepPhases /\ RunAgrees /\ StartsOnRecord

(* The name of a run's cluster is a cluster name. *)
LEMMA NameType == TypeOK /\ pc # "idle" => name \in Names
BY NamesAssumption DEF TypeOK, name, Inputs

(* Every action keeps the variables in their types. *)
LEMMA TypeInductive == TypeOK /\ [Next]_vars => TypeOK'
<1> SUFFICES ASSUME TypeOK, [Next]_vars PROVE TypeOK'
  OBVIOUS
<1> USE DEF TypeOK, New, Staged, Prepared, Images, Starting, Initialized,
            CiliumReady, RegReady, Complete, Phases, Steps, Runs, Answers, world
<1>n. pc # "idle" => name \in Names
  BY NameType
<1>e. ASSUME NEW result \in {"error", "complete", "already"}, pc # "idle", End(result)
      PROVE pc' \in Steps /\ run' \in Runs /\ answer' \in Answers /\ pc' = "idle"
  BY <1>e DEF End, NoRun
<1>c. ASSUME pc # "idle", NEW h \in CutShort PROVE h \in Hosts
  <2>1. h = host \/ h = [host EXCEPT !.staging[name] = Torn]
        \/ h = [host EXCEPT !.node = Torn] \/ h = [host EXCEPT !.node = run.inputs]
        \/ h = [host EXCEPT !.images = host.images \cup {run.inputs}]
        \/ h = [host EXCEPT !.initFile = run.inputs.config]
        \/ h = [host EXCEPT !.cni = host.cniFile]
        \/ h = [host EXCEPT !.registry = run.inputs.config]
    BY <1>c DEF CutShort
  <2>2. name \in Names /\ run.inputs.config \in Configs /\ run.inputs \in Inputs
    BY <1>c, <1>n DEF Inputs
  <2>3. host \in Hosts /\ host.images \cup {run.inputs} \in SUBSET Inputs
    BY <2>2 DEF Hosts
  <2>4. CASE h = [host EXCEPT !.images = host.images \cup {run.inputs}]
    BY <2>3, <2>4 DEF Hosts
  <2>5. CASE h = [host EXCEPT !.node = Torn] \/ h = [host EXCEPT !.node = run.inputs]
    <3>1. Torn \in Inputs \cup {None, Torn} /\ run.inputs \in Inputs \cup {None, Torn}
      BY <2>2
    <3>2. PICK left \in Inputs \cup {None, Torn} : h = [host EXCEPT !.node = left]
      BY <3>1, <2>5
    <3> QED
      BY <2>3, <3>2 DEF Hosts
  <2>6. CASE h = host \/ h = [host EXCEPT !.staging[name] = Torn]
    <3>1. [host EXCEPT !.staging[name] = Torn] \in Hosts
      BY <2>2, <2>3 DEF Hosts
    <3> QED
      BY <2>3, <2>6, <3>1
  <2>7. CASE \/ h = [host EXCEPT !.initFile = run.inputs.config]
             \/ h = [host EXCEPT !.cni = host.cniFile]
             \/ h = [host EXCEPT !.registry = run.inputs.config]
    BY <2>2, <2>3, <2>7 DEF Hosts
  <2> QED
    BY <2>1, <2>4, <2>5, <2>6, <2>7
<1>1. CASE StartFresh \/ StartResume
  <2>1. PICK resume \in BOOLEAN : Start(resume)
    BY <1>1 DEF StartFresh, StartResume
  <2>2. /\ run' = [inputs |-> [config |-> config, bundle |-> bundle], phase |-> New,
                   adminSeen |-> FALSE, resume |-> resume]
        /\ [config |-> config, bundle |-> bundle] \in Inputs
    BY <2>1 DEF Start, NoRun, Inputs
  <2>3. run' \in Runs /\ run'.inputs \in Inputs /\ answer' \in Answers /\ pc' \in Steps
    <3>1. run' \in Runs /\ run'.inputs \in Inputs
      BY <2>2
    <3>2. answer' \in Answers /\ pc' \in Steps
      BY <2>1 DEF Start, NoAnswer
    <3> QED
      BY <3>1, <3>2
  <2> QED
    BY <2>1, <2>3 DEF Start
<1>27. CASE LocalPreflight
  BY <1>27, <1>e DEF LocalPreflight
<1>3. CASE Gate
  BY <1>3, <1>n, <1>e DEF Gate
<1>4. CASE Push
  <2>1. run.inputs.bundle \in Bundles /\ name \in Names /\ host \in Hosts
    BY <1>4, <1>n DEF Push, Inputs
  <2>2. host' \in Hosts
    BY <1>4, <2>1 DEF Push, Hosts
  <2>3. pc' \in Steps
    BY <1>4 DEF Push, Goto, AfterPush
  <2> QED
    BY <1>4, <2>2, <2>3 DEF Push, Goto
<1>5. CASE SaveStaged
  BY <1>5, <1>n DEF SaveStaged, Save
<1>6. CASE PrepareNode
  BY <1>6, <1>n DEF PrepareNode, Goto, Hosts
<1>7. CASE SavePrepared
  BY <1>7, <1>n DEF SavePrepared, Save
<1>8. CASE ImportImages
  <2>1. run.inputs \in Inputs /\ host \in Hosts
    BY <1>8 DEF ImportImages
  <2>2. host.images \cup {run.inputs} \in SUBSET Inputs
    BY <2>1 DEF Hosts
  <2>3. host' = [host EXCEPT !.images = host.images \cup {run.inputs}]
    BY <1>8 DEF ImportImages
  <2>4. host' \in Hosts
    BY <2>1, <2>2, <2>3 DEF Hosts
  <2> QED
    BY <1>8, <2>4 DEF ImportImages, Goto
<1>9. CASE SaveImages
  BY <1>9, <1>n DEF SaveImages, Save
<1>10. CASE WriteFiles
  <2>1. run.inputs.config \in Configs /\ host \in Hosts
    BY <1>10 DEF WriteFiles, Inputs
  <2>2. host' \in Hosts
    BY <1>10, <2>1 DEF WriteFiles, Hosts
  <2>3. pc' \in Steps
    BY <1>10 DEF WriteFiles, Goto, AfterFiles
  <2> QED
    BY <1>10, <2>2, <2>3 DEF WriteFiles, Goto
<1>11. CASE Preflight
  BY <1>11, <1>e DEF Preflight, Goto
<1>12. CASE SaveStarting
  BY <1>12, <1>n DEF SaveStarting, Save
<1>13. CASE RunInit
  <2>1. inits' \in [Names -> Nat]
    BY <1>13, <1>n DEF RunInit
  <2>2. host' \in Hosts
    BY <1>13 DEF RunInit, Hosts
  <2> QED
    BY <1>13, <2>1, <2>2 DEF RunInit, Goto
<1>14. CASE InitReturns
  BY <1>14, <1>e DEF InitReturns, Goto
<1>15. CASE SaveInitialized
  BY <1>15, <1>n DEF SaveInitialized, Save
<1>16. CASE InstallCilium
  BY <1>16 DEF InstallCilium, Goto, Hosts
<1>17. CASE CiliumFails
  BY <1>17, <1>e DEF CiliumFails, Hosts
<1>18. CASE SaveCilium
  BY <1>18, <1>n DEF SaveCilium, Save, AfterCilium
<1>19. CASE StartRegistry
  BY <1>19 DEF StartRegistry, Goto, Inputs, Hosts
<1>20. CASE SaveRegistry
  BY <1>20, <1>n DEF SaveRegistry, Save
<1>21. CASE SaveComplete
  BY <1>21, <1>n, <1>e DEF SaveComplete
<1>22. CASE Fail
  <2>1. host' \in Hosts
    BY <1>22, <1>c DEF Fail
  <2> QED
    BY <1>22, <2>1, <1>e, BoundsAssumption DEF Fail
<1>23. CASE Crash
  <2>1. host' \in Hosts
    BY <1>23, <1>c DEF Crash
  <2> QED
    BY <1>23, <2>1, BoundsAssumption DEF Crash, NoRun
<1>24. CASE Kubeadm
  <2>1. CASE KubeadmWritesAdmin \/ KubeadmEnds
    BY <1>24, <2>1 DEF KubeadmWritesAdmin, KubeadmEnds
  <2>2. CASE KubeadmFails
    <3>1. host' \in Hosts /\ kubeadm' \in {"none", "failed"}
      BY <2>2 DEF KubeadmFails, Hosts
    <3> QED
      BY <2>2, <3>1 DEF KubeadmFails
  <2> QED
    BY <1>24, <2>1, <2>2 DEF Kubeadm
<1>25. CASE Edit
  BY <1>25, BoundsAssumption DEF Edit
<1>26. CASE UNCHANGED vars
  BY <1>26 DEF vars
<1> QED
  BY <1>1, <1>3, <1>4, <1>5, <1>6, <1>7, <1>8, <1>9, <1>10, <1>11, <1>12,
     <1>13, <1>14, <1>15, <1>16, <1>17, <1>18, <1>19, <1>20, <1>21, <1>22, <1>23,
     <1>24, <1>25, <1>26, <1>27 DEF Next, Advance

(* The first state has its types. *)
LEMMA TypeInitially == Init => TypeOK
<1> SUFFICES ASSUME Init PROVE TypeOK
  OBVIOUS
<1>1. host \in Hosts
  BY DEF Init, CleanHost, Hosts
<1>2. states \in [Names -> [inputs : Inputs \cup {None}, phase : Phases]]
  BY DEF Init, NoFile, New, Phases
<1>3. run \in Runs /\ answer \in Answers
  BY DEF Init, NoRun, NoAnswer, Runs, Answers, New, Phases
<1>4. inits \in [Names -> Nat] /\ faults \in 0..MaxFaults /\ edits \in 0..MaxEdits
  BY BoundsAssumption DEF Init
<1>5. space \in Spaces /\ foreign \in {"none", "there", "coming"}
      /\ admin \in BOOLEAN /\ kubeadm \in {"none", "running", "failed", "done"}
  BY DEF Init
<1> QED
  BY <1>1, <1>2, <1>3, <1>4, <1>5 DEF Init, TypeOK, Steps

(* The variables of `kubelift create` keep their types, whatever the         *)
(* constants are.                                                            *)
THEOREM TypeCorrect == Spec => []TypeOK
<1> QED
  BY TypeInitially, TypeInductive, PTL DEF Spec

(* Past the gate the process holds the phase of its state file, at the step  *)
(* that belongs to it, and kubeadm init is reached once.                     *)
LEMMA Inductive == IInv /\ [Next]_vars => IInv'
<1> SUFFICES ASSUME IInv, [Next]_vars PROVE IInv'
  OBVIOUS
<1>t. TypeOK /\ TypeOK'
  BY TypeInductive DEF IInv
<1>n. pc # "idle" => name \in Names
  BY <1>t, NameType
<1> USE <1>t DEF TypeOK, IInv, New, Staged, Prepared, Images, Starting, Initialized,
            CiliumReady, RegReady, Complete, Phases, Runs
<1>e. ASSUME pc' = "idle", UNCHANGED <<states, inits>>
      PROVE IInv'
  BY <1>e DEF StepPhases, RunAgrees, StartsOnRecord
<1>k. ASSUME UNCHANGED <<states, inits, pc, run>>
      PROVE IInv'
  BY <1>k DEF StepPhases, RunAgrees, StartsOnRecord, name
<1>1. CASE StartFresh \/ StartResume
  BY <1>1 DEF StartFresh, StartResume, Start, StepPhases, RunAgrees, StartsOnRecord
<1>2. CASE LocalPreflight
  <2>1. CASE DiskSuffices
    BY <1>2, <2>1 DEF LocalPreflight, StepPhases, RunAgrees, StartsOnRecord
  <2>2. CASE ~DiskSuffices
    BY <1>2, <1>e, <2>2 DEF LocalPreflight, End
  <2> QED
    BY <2>1, <2>2
<1>3. CASE Gate
  <2>1. CASE FreshAllowed \/ ResumeAllowed
    <3>1. pc' = "push" /\ name \in Names /\ name' = name
      BY <1>3, <1>n, <2>1 DEF Gate, End, name, FreshAllowed, ResumeAllowed, AlreadyComplete
    <3>2. run' = [run EXCEPT !.phase = states[name].phase]
      BY <1>3, <3>1 DEF Gate, End
    <3>3. run'.phase # Complete /\ (run'.phase = Starting => run'.adminSeen)
      BY <2>1, <3>1, <3>2 DEF FreshAllowed, ResumeAllowed
    <3>4. run'.phase # New => states[name].inputs = run'.inputs
      BY <2>1, <3>1, <3>2, <1>3 DEF Gate, FreshAllowed, ResumeAllowed, Matches, Inputs,
         StartsOnRecord
    <3>5. run'.phase = states'[name].phase /\ UNCHANGED <<states, inits>>
      BY <1>3, <3>1, <3>2 DEF Gate
    <3>6. StepPhases'
      BY <3>1, <3>3 DEF StepPhases
    <3>7. RunAgrees'
      BY <3>1, <3>4, <3>5 DEF RunAgrees
    <3> QED
      BY <3>5, <3>6, <3>7 DEF StartsOnRecord
  <2>2. CASE ~(FreshAllowed \/ ResumeAllowed)
    BY <1>3, <1>e, <2>2 DEF Gate, End
  <2> QED
    BY <2>1, <2>2
<1>4. CASE Push
  BY <1>4, <1>n DEF Push, Goto, AfterPush, StepPhases, RunAgrees, StartsOnRecord, name
<1>5. CASE SaveStaged
  BY <1>5, <1>n DEF SaveStaged, Save, StepPhases, RunAgrees, StartsOnRecord, name
<1>6. CASE PrepareNode
  BY <1>6 DEF PrepareNode, Goto, StepPhases, RunAgrees, StartsOnRecord, name
<1>7. CASE SavePrepared
  BY <1>7, <1>n DEF SavePrepared, Save, StepPhases, RunAgrees, StartsOnRecord, name
<1>8. CASE ImportImages
  BY <1>8 DEF ImportImages, Goto, StepPhases, RunAgrees, StartsOnRecord, name
<1>9. CASE SaveImages
  BY <1>9, <1>n DEF SaveImages, Save, StepPhases, RunAgrees, StartsOnRecord, name
<1>10. CASE WriteFiles
  BY <1>10, <1>n DEF WriteFiles, Goto, AfterFiles, StepPhases, RunAgrees, StartsOnRecord, name
<1>11. CASE Preflight
  BY <1>11, <1>e DEF Preflight, Goto, End, StepPhases, RunAgrees, StartsOnRecord, name
<1>12. CASE SaveStarting
  BY <1>12, <1>n DEF SaveStarting, Save, StepPhases, RunAgrees, StartsOnRecord, name
<1>13. CASE RunInit
  BY <1>13, <1>n DEF RunInit, Goto, StepPhases, RunAgrees, StartsOnRecord, name
<1>14. CASE InitReturns
  BY <1>14, <1>e DEF InitReturns, Goto, End, StepPhases, RunAgrees, StartsOnRecord, name
<1>15. CASE SaveInitialized
  BY <1>15, <1>n DEF SaveInitialized, Save, StepPhases, RunAgrees, StartsOnRecord, name
<1>16. CASE InstallCilium
  BY <1>16 DEF InstallCilium, Goto, StepPhases, RunAgrees, StartsOnRecord, name
<1>17. CASE CiliumFails \/ Fail \/ Crash
  BY <1>17, <1>e DEF CiliumFails, Fail, Crash, End
<1>18. CASE SaveCilium
  BY <1>18, <1>n DEF SaveCilium, AfterCilium, Save, StepPhases, RunAgrees, StartsOnRecord, name
<1>19. CASE StartRegistry
  BY <1>19 DEF StartRegistry, Goto, StepPhases, RunAgrees, StartsOnRecord, name
<1>20. CASE SaveRegistry
  BY <1>20, <1>n DEF SaveRegistry, Save, StepPhases, RunAgrees, StartsOnRecord, name
<1>21. CASE SaveComplete
  BY <1>21, <1>n DEF SaveComplete, End, StepPhases, RunAgrees, StartsOnRecord, name
<1>24. CASE Kubeadm \/ Edit \/ UNCHANGED vars
  BY <1>24, <1>k DEF Kubeadm, KubeadmWritesAdmin, KubeadmEnds, KubeadmFails, Edit, vars
<1> QED
  BY <1>1, <1>2, <1>3, <1>4, <1>5, <1>6, <1>7, <1>8, <1>9, <1>10, <1>11, <1>12, <1>13,
     <1>14, <1>15, <1>16, <1>17, <1>18, <1>19, <1>20, <1>21, <1>24 DEF Next, Advance

LEMMA Invariance == Spec => []IInv
<1>1. ASSUME Init PROVE IInv
  BY <1>1, TypeInitially DEF Init, IInv, StepPhases, RunAgrees, StartsOnRecord, NoFile, New
<1> QED
  BY <1>1, Inductive, PTL DEF Spec

(* kubeadm init is started at most once for a state file, however many times *)
(* the run fails, is killed, or is resumed.                                  *)
THEOREM InitOnce == Spec => []InitAtMostOnce
<1>1. IInv => InitAtMostOnce
  BY DEF IInv, StartsOnRecord, InitAtMostOnce
<1> QED
  BY <1>1, Invariance, PTL

(* No step takes back a recorded phase or re-labels a state file with other  *)
(* inputs.                                                                   *)
THEOREM PhasesGrow == Spec => PhasesOnlyGrow
<1> DEFINE Grow == \A n \in Names :
          /\ states'[n].phase >= states[n].phase
          /\ states[n].phase # New => states'[n].inputs = states[n].inputs
<1>1. ASSUME IInv, [Next]_vars PROVE [Grow]_vars
  <2> USE <1>1 DEF IInv, TypeOK, Phases
  <2>n. pc # "idle" => name \in Names
    BY NameType
  <2>k. ASSUME UNCHANGED states PROVE Grow
    BY <2>k
  <2>s. ASSUME NEW phase \in Phases, pc \notin {"idle", "local", "gate"}, phase > run.phase,
               states' = [states EXCEPT ![name] = [inputs |-> run.inputs, phase |-> phase]]
        PROVE Grow
    BY <2>s, <2>n DEF RunAgrees, New
  <2>1. CASE SaveStaged \/ SavePrepared \/ SaveImages \/ SaveStarting \/ SaveInitialized
             \/ SaveCilium \/ SaveRegistry \/ SaveComplete
    BY <2>1, <2>s DEF SaveStaged, SavePrepared, SaveImages, SaveStarting, SaveInitialized,
       SaveCilium, SaveRegistry, SaveComplete, Save, StepPhases, New, Staged, Prepared,
       Images, Starting, Initialized, CiliumReady, RegReady, Complete
  <2>2. CASE UNCHANGED states
    BY <2>2, <2>k
  <2> QED
    BY <2>1, <2>2 DEF Next, Advance, vars, StartFresh, StartResume, Start, LocalPreflight, Gate, Push,
       PrepareNode, ImportImages, WriteFiles, Preflight, RunInit, InitReturns,
       InstallCilium, CiliumFails, StartRegistry, Fail, Crash, Kubeadm,
       KubeadmWritesAdmin, KubeadmEnds, KubeadmFails, Edit
<1> QED
  BY <1>1, Invariance, PTL DEF Spec, PhasesOnlyGrow
=============================================================================
