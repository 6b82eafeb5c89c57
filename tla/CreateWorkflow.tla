--------------------------- MODULE CreateWorkflow ---------------------------
(***************************************************************************)
(* `kubelift create` and `kubelift create --resume` on Master0             *)
(* (internal/workflow/create_executor.go, create_state.go).                *)
(*                                                                         *)
(* One kubelift process at a time walks through the phases staged,         *)
(* prepared, images-imported, kubeadm-starting, kubeadm-initialized,       *)
(* cilium-ready, registry-ready and complete, and records each one in a    *)
(* state file named after the cluster.  The process may fail at any step   *)
(* or be killed between any two; `kubeadm init` is a program of its own,   *)
(* which survives the process that started it and writes admin.conf long   *)
(* before it ends.  The operator starts runs, with or without --resume,    *)
(* and may edit the configuration or replace the bundle between two runs.  *)
(***************************************************************************)
EXTENDS Naturals, FiniteSets

CONSTANTS
    Configs,       \* cluster configurations the operator may write
    Bundles,       \* offline bundles that may lie at spec.offline.bundle
    Names,         \* cluster names (metadata.name)
    NameOf,        \* NameOf[c]: the name configuration c gives its cluster
    WithRegistry,  \* configurations with spec.registry.enabled
    None,          \* nothing there (a missing file, an untouched host)
    Torn,          \* a part: what an interrupted or failed step leaves behind
    Spaces,        \* room Master0 may have under /var/lib beyond the required 10 GiB
    MaxFaults,     \* bound: failing steps and kills of kubelift
    MaxEdits       \* bound: edits of the configuration or the bundle

Inputs == [config : Configs, bundle : Bundles]

ASSUME NamesAssumption == NameOf \in [Configs -> Names] /\ WithRegistry \subseteq Configs
ASSUME MarksAssumption ==
    /\ None \notin Inputs \cup Configs \cup Bundles
    /\ Torn \notin Inputs \cup Configs \cup Bundles \cup {None}
ASSUME SpacesAssumption == Spaces \subseteq Nat
ASSUME BoundsAssumption == MaxFaults \in Nat /\ MaxEdits \in Nat

(* createPhaseOrder: a phase is its rank; 0 is a state that was never saved. *)
New         == 0
Staged      == 1
Prepared    == 2
Images      == 3
Starting    == 4
Initialized == 5
CiliumReady == 6
RegReady    == 7
Complete    == 8
Phases      == 0..8

VARIABLES
    space,    \* room under /var/lib for what a run leaves there
    foreign,  \* a control plane of somebody else: none, there, or coming
    config,   \* the configuration file
    bundle,   \* the offline bundle
    states,   \* state file of each cluster name: [inputs, phase], phase 0: no file
    admin,    \* /etc/kubernetes/admin.conf exists
    kubeadm,  \* what kubeadm init did to the host: none, running, failed, done
    host,     \* what the steps have left on the host
    pc,       \* where the kubelift process is; idle: there is none
    run,      \* its local variables
    answer,   \* what the last process that ended reported
    inits,    \* history: kubeadm init commands started for each cluster name
    faults,   \* history: failures so far
    edits     \* history: edits so far

world == <<space, foreign>>

vars == <<world, config, bundle, states, admin, kubeadm, host, pc, run, answer, inits,
          faults, edits>>

NoFile == [inputs |-> None, phase |-> New]

CleanHost ==
    [staging   |-> [n \in Names |-> None],  \* bundle under the staging root
     node      |-> None,                    \* binaries, units and mirrors installed
     images    |-> {},                      \* imports into containerd
     initFile  |-> None,                    \* kubeadm configuration file
     cniFile   |-> None,                    \* rendered Cilium manifest
     cluster   |-> None,                    \* configuration kubeadm init ran with
     cni       |-> None,                    \* Cilium applied to the cluster
     registry  |-> None]                    \* Registry static Pod manifest

Hosts ==
    [staging : [Names -> Bundles \cup {None, Torn}],
     node : Inputs \cup {None, Torn}, images : SUBSET Inputs,
     initFile : Configs \cup {None}, cniFile : Configs \cup {None},
     cluster : Configs \cup {None}, cni : Configs \cup {None},
     registry : Configs \cup {None}]

Steps == {"idle", "local", "gate", "push", "saveStaged", "prepare", "savePrepared",
          "images", "saveImages", "files", "preflight", "saveStarting", "init",
          "wait", "saveInitialized", "cilium", "saveCilium", "registry",
          "saveRegistry", "saveComplete"}

Runs == [inputs : Inputs \cup {None}, phase : Phases, adminSeen : BOOLEAN,
         resume : BOOLEAN]

NoRun == [inputs |-> None, phase |-> New, adminSeen |-> FALSE, resume |-> FALSE]

Answers == [result : {"none", "error", "complete", "already"},
            inputs : Inputs \cup {None}]

NoAnswer == [result |-> "none", inputs |-> None]

TypeOK ==
    /\ space \in Spaces /\ foreign \in {"none", "there", "coming"}
    /\ config \in Configs /\ bundle \in Bundles
    /\ states \in [Names -> [inputs : Inputs \cup {None}, phase : Phases]]
    /\ admin \in BOOLEAN
    /\ kubeadm \in {"none", "running", "failed", "done"}
    /\ host \in Hosts
    /\ pc \in Steps /\ run \in Runs /\ answer \in Answers
    /\ pc # "idle" => run.inputs \in Inputs
    /\ inits \in [Names -> Nat]
    /\ faults \in 0..MaxFaults /\ edits \in 0..MaxEdits

(* The host is clean, or it has a control plane that kubelift knows nothing  *)
(* of, or a kubeadm init of somebody else is at work on one.                 *)
Init ==
    /\ space \in Spaces
    /\ config \in Configs /\ bundle \in Bundles
    /\ states = [n \in Names |-> NoFile]
    /\ \/ foreign = "none" /\ admin = FALSE /\ kubeadm = "none"
       \/ foreign = "there" /\ admin = TRUE /\ kubeadm = "done"
       \/ foreign = "coming" /\ admin = FALSE /\ kubeadm = "running"
    /\ host = CleanHost
    /\ pc = "idle" /\ run = NoRun /\ answer = NoAnswer
    /\ inits = [n \in Names |-> 0]
    /\ faults = 0 /\ edits = 0

-----------------------------------------------------------------------------
(* The process: name of its cluster, its way out, and saving a phase.        *)

name == NameOf[run.inputs.config]
withRegistry == run.inputs.config \in WithRegistry

Goto(step) == pc' = step /\ UNCHANGED <<run, answer>>

End(result) ==
    /\ pc' = "idle" /\ run' = NoRun
    /\ answer' = [result |-> result, inputs |-> run.inputs]

(* saveCreateState: writePrivateFile renames a complete temporary file over  *)
(* the state file, so a reader sees the old phase or the new one.            *)
Save(from, phase, next) ==
    /\ pc = from
    /\ states' = [states EXCEPT ![name] = [inputs |-> run.inputs, phase |-> phase]]
    /\ run' = [run EXCEPT !.phase = phase]
    /\ pc' = next
    /\ UNCHANGED <<world, config, bundle, admin, kubeadm, host, answer, inits, faults, edits>>

-----------------------------------------------------------------------------
(* The beginning of a run.                                                   *)

Start_Mut(resume) ==
    /\ pc = "idle"
    /\ pc' = "local"
    /\ run' = [NoRun EXCEPT !.resume = resume]
    /\ answer' = NoAnswer
    /\ UNCHANGED <<world, config, bundle, states, admin, kubeadm, host, inits, faults, edits>>

(* The command loads the configuration, with or without --resume. *)
Start(resume) ==
    /\ pc = "idle"
    /\ pc' = "local"
    /\ run' = [NoRun EXCEPT !.inputs = [config |-> config, bundle |-> bundle],
                            !.resume = resume]
    /\ answer' = NoAnswer
    /\ UNCHANGED <<world, config, bundle, states, admin, kubeadm, host, inits, faults, edits>>

StartFresh  == Start(FALSE)
StartResume == Start(TRUE)

(* What earlier runs have left under /var/lib: bundles in the staging root,  *)
(* images in containerd's store and the data of a control plane.             *)
Used ==
    Cardinality({n \in Names : host.staging[n] # None}) + Cardinality(host.images)
        + Cardinality({host.cluster} \ {None})

DiskSuffices == Used <= space

(* requireLocalPreflight, with --resume as well.  Of its checks only the one *)
(* of the disk depends on what kubelift does.  Then ExecuteCreate looks for  *)
(* admin.conf, before it loads its state.                                    *)
LocalPreflight ==
    /\ pc = "local"
    /\ \/ /\ DiskSuffices
          /\ pc' = "gate"
          /\ run' = [run EXCEPT !.adminSeen = admin]
          /\ UNCHANGED answer
       \/ ~DiskSuffices /\ End("error")
    /\ UNCHANGED <<world, config, bundle, states, admin, kubeadm, host, inits, faults, edits>>

(* The definitions named ..._Mut are deliberate mistakes, never used by Next: *)
(* each shows that a property of CreateProperties can fail.                   *)
Matches_Mut(saved, inputs) == saved.config = inputs.config

(* The state file is for these inputs: same configuration and bundle hashes. *)
Matches(saved, inputs) ==
    /\ saved.config = inputs.config
    /\ saved.bundle = inputs.bundle

FreshAllowed_Mut == ~run.resume /\ states[name].phase = New

(* A fresh run is refused when a state file or a cluster is there. *)
FreshAllowed ==
    /\ ~run.resume
    /\ states[name].phase = New
    /\ ~run.adminSeen

ResumeAllowed_Mut ==
    /\ run.resume
    /\ states[name].phase \notin {New, Complete}
    /\ Matches(states[name].inputs, run.inputs)
    /\ states[name].phase >= Initialized => run.adminSeen
    /\ states[name].phase < Starting => ~run.adminSeen

(* A resumed run needs a state file for the same inputs, and its phase and    *)
(* admin.conf must agree; kubeadm-starting without admin.conf is ambiguous.   *)
ResumeAllowed ==
    /\ run.resume
    /\ states[name].phase \notin {New, Complete}
    /\ Matches(states[name].inputs, run.inputs)
    /\ states[name].phase >= Initialized => run.adminSeen
    /\ states[name].phase < Starting => ~run.adminSeen
    /\ states[name].phase = Starting => run.adminSeen

AlreadyComplete_Mut == run.resume /\ states[name].phase = Complete

AlreadyComplete ==
    /\ run.resume
    /\ states[name].phase = Complete
    /\ Matches(states[name].inputs, run.inputs)

(* loadCreateState and the checks before the first step. *)
Gate ==
    /\ pc = "gate"
    /\ \/ /\ FreshAllowed \/ ResumeAllowed
          /\ pc' = "push"
          /\ run' = [run EXCEPT !.phase = states[name].phase]
          /\ UNCHANGED answer
       \/ /\ AlreadyComplete
          /\ End("already")
       \/ /\ ~(FreshAllowed \/ ResumeAllowed \/ AlreadyComplete)
          /\ End("error")
    /\ UNCHANGED <<world, config, bundle, states, admin, kubeadm, host, inits, faults, edits>>

-----------------------------------------------------------------------------
(* The steps.                                                                *)

AfterPush_Mut == "saveStaged"

(* Which step follows the push, according to the phase already reached. *)
AfterPush ==
    CASE run.phase < Staged   -> "saveStaged"
      [] run.phase = Staged   -> "prepare"
      [] run.phase = Prepared -> "images"
      [] OTHER                -> "files"

(* distribute.Push, on every run, resumed or not: every payload is uploaded  *)
(* under the cluster's staging directory and verified.                       *)
Push ==
    /\ pc = "push"
    /\ host' = [host EXCEPT !.staging[name] = run.inputs.bundle]
    /\ Goto(AfterPush)
    /\ UNCHANGED <<world, config, bundle, states, admin, kubeadm, inits, faults, edits>>

SaveStaged == Save("saveStaged", Staged, "prepare")

(* install.PrepareNode: one shell script that installs what was staged. *)
PrepareNode ==
    /\ pc = "prepare"
    /\ host' = [host EXCEPT !.node = run.inputs]
    /\ Goto("savePrepared")
    /\ UNCHANGED <<world, config, bundle, states, admin, kubeadm, inits, faults, edits>>

SavePrepared == Save("savePrepared", Prepared, "images")

(* install.ImportImages adds to containerd's store and removes nothing. *)
ImportImages ==
    /\ pc = "images"
    /\ host' = [host EXCEPT !.images = @ \cup {run.inputs}]
    /\ Goto("saveImages")
    /\ UNCHANGED <<world, config, bundle, states, admin, kubeadm, inits, faults, edits>>

SaveImages == Save("saveImages", Images, "files")

AfterFiles_Mut ==
    CASE run.phase < Initialized -> "preflight"
      [] run.phase = Initialized -> "cilium"
      [] run.phase = CiliumReady /\ withRegistry -> "registry"
      [] OTHER -> "saveComplete"

(* Where a run goes once the files are written: kubeadm, or what follows it. *)
(* An admin.conf seen by a resumed run at kubeadm-starting counts as a       *)
(* successful kubeadm init.                                                  *)
AfterFiles ==
    CASE run.phase = Starting /\ run.adminSeen -> "saveInitialized"
      [] run.phase < Initialized /\ ~(run.phase = Starting /\ run.adminSeen) -> "preflight"
      [] run.phase = Initialized -> "cilium"
      [] run.phase = CiliumReady /\ withRegistry -> "registry"
      [] OTHER -> "saveComplete"

(* Both managed files are rewritten on every run. *)
WriteFiles ==
    /\ pc = "files"
    /\ host' = [host EXCEPT !.initFile = run.inputs.config, !.cniFile = run.inputs.config]
    /\ Goto(AfterFiles)
    /\ UNCHANGED <<world, config, bundle, states, admin, kubeadm, inits, faults, edits>>

PreflightPasses_Mut == ~run.adminSeen

(* What `kubeadm init phase preflight` requires: free ports, no manifests. *)
PreflightPasses == kubeadm = "none"

Preflight ==
    /\ pc = "preflight"
    /\ IF PreflightPasses THEN Goto("saveStarting") ELSE End("error")
    /\ UNCHANGED <<world, config, bundle, states, admin, kubeadm, host, inits, faults, edits>>

SaveStarting == Save("saveStarting", Starting, "init")

RunInit ==
    /\ pc = "init"
    /\ kubeadm' = "running"
    /\ inits' = [inits EXCEPT ![name] = @ + 1]
    /\ host' = [host EXCEPT !.cluster = host.initFile]
    /\ Goto("wait")
    /\ UNCHANGED <<world, config, bundle, states, admin, faults, edits>>

(* kubeadm has ended; after success admin.conf is looked for once more. *)
InitReturns ==
    /\ pc = "wait" /\ kubeadm # "running"
    /\ IF kubeadm = "done" /\ admin THEN Goto("saveInitialized") ELSE End("error")
    /\ UNCHANGED <<world, config, bundle, states, admin, kubeadm, host, inits, faults, edits>>

SaveInitialized == Save("saveInitialized", Initialized, "cilium")

(* cilium.InstallAndWait ends with the roll-out of CoreDNS, which kubeadm     *)
(* init deploys last: it can succeed only on a control plane that is done.   *)
CiliumCanSucceed == kubeadm = "done"

InstallCilium ==
    /\ pc = "cilium"
    /\ CiliumCanSucceed
    /\ host' = [host EXCEPT !.cni = host.cniFile]
    /\ Goto("saveCilium")
    /\ UNCHANGED <<world, config, bundle, states, admin, kubeadm, inits, faults, edits>>

(* The API server does not answer, or a roll-out times out. *)
CiliumFails ==
    /\ pc = "cilium"
    /\ ~CiliumCanSucceed
    /\ host' \in {host, [host EXCEPT !.cni = host.cniFile]}
    /\ End("error")
    /\ UNCHANGED <<world, config, bundle, states, admin, kubeadm, inits, faults, edits>>

AfterCilium_Mut == "saveComplete"

AfterCilium == IF withRegistry THEN "registry" ELSE "saveComplete"

SaveCilium == Save("saveCilium", CiliumReady, AfterCilium)

(* The Registry manifest is written and its Pod waited for. *)
StartRegistry ==
    /\ pc = "registry"
    /\ host' = [host EXCEPT !.registry = run.inputs.config]
    /\ Goto("saveRegistry")
    /\ UNCHANGED <<world, config, bundle, states, admin, kubeadm, inits, faults, edits>>

SaveRegistry == Save("saveRegistry", RegReady, "saveComplete")

SaveComplete ==
    /\ pc = "saveComplete"
    /\ states' = [states EXCEPT ![name] = [inputs |-> run.inputs, phase |-> Complete]]
    /\ End("complete")
    /\ UNCHANGED <<world, config, bundle, admin, kubeadm, host, inits, faults, edits>>

-----------------------------------------------------------------------------
(* Failures.                                                                 *)

(* What the host may look like when the present step is cut short.  Pushing  *)
(* a bundle that is there already changes nothing, and the shell of a step   *)
(* may go on to its end when kubelift is no longer there.                    *)
CutShort ==
    {host} \cup
    CASE pc = "push" /\ host.staging[name] # run.inputs.bundle ->
            {[host EXCEPT !.staging[name] = Torn]}
      [] pc = "prepare" ->
            {[host EXCEPT !.node = left] : left \in {Torn, run.inputs}}
      [] pc = "images" -> {[host EXCEPT !.images = @ \cup {run.inputs}]}
      [] pc = "files" -> {[host EXCEPT !.initFile = run.inputs.config]}
      [] pc = "cilium" -> {[host EXCEPT !.cni = host.cniFile]}
      [] pc = "registry" -> {[host EXCEPT !.registry = run.inputs.config]}
      [] OTHER -> {}

(* A step returns an error (a full disk, a failed command, the command's     *)
(* timeout) and ExecuteCreate returns it.                                    *)
Fail ==
    /\ pc # "idle" /\ faults < MaxFaults
    /\ host' \in CutShort
    /\ End("error")
    /\ faults' = faults + 1
    /\ UNCHANGED <<world, config, bundle, states, admin, kubeadm, inits, edits>>

(* kubelift is killed, or Master0 loses power: nothing is reported. *)
Crash ==
    /\ pc # "idle" /\ faults < MaxFaults
    /\ host' \in CutShort
    /\ pc' = "idle" /\ run' = NoRun
    /\ faults' = faults + 1
    /\ UNCHANGED <<world, config, bundle, states, admin, kubeadm, answer, inits, edits>>

-----------------------------------------------------------------------------
(* kubeadm init, which runs on even when kubelift does not, and the operator. *)

KubeadmWritesAdmin ==
    /\ kubeadm = "running" /\ ~admin
    /\ admin' = TRUE
    /\ UNCHANGED <<world, config, bundle, states, kubeadm, host, pc, run, answer, inits,
                   faults, edits>>

KubeadmEnds ==
    /\ kubeadm = "running" /\ admin
    /\ kubeadm' = "done"
    /\ UNCHANGED <<world, config, bundle, states, admin, host, pc, run, answer, inits,
                   faults, edits>>

(* kubeadm fails or is killed; before its first write it leaves no trace. *)
KubeadmFails ==
    /\ kubeadm = "running"
    /\ \/ kubeadm' = "failed" /\ UNCHANGED host
       \/ ~admin /\ kubeadm' = "none" /\ host' = [host EXCEPT !.cluster = None]
    /\ UNCHANGED <<world, config, bundle, states, admin, pc, run, answer, inits, faults, edits>>

(* The operator edits files between two runs, never under one. *)
Edit ==
    /\ pc = "idle" /\ edits < MaxEdits
    /\ \/ config' \in Configs \ {config} /\ UNCHANGED bundle
       \/ bundle' \in Bundles \ {bundle} /\ UNCHANGED config
    /\ edits' = edits + 1
    /\ UNCHANGED <<world, states, admin, kubeadm, host, pc, run, answer, inits, faults>>

Advance ==
    \/ LocalPreflight \/ Gate \/ Push \/ SaveStaged \/ PrepareNode \/ SavePrepared
    \/ ImportImages \/ SaveImages \/ WriteFiles \/ Preflight \/ SaveStarting
    \/ RunInit \/ InitReturns \/ SaveInitialized \/ InstallCilium \/ CiliumFails
    \/ SaveCilium \/ StartRegistry \/ SaveRegistry \/ SaveComplete

Kubeadm == KubeadmWritesAdmin \/ KubeadmEnds \/ KubeadmFails

Next == StartFresh \/ StartResume \/ Advance \/ Fail \/ Crash \/ Kubeadm \/ Edit

Spec == Init /\ [][Next]_vars

(* A started process runs on, kubeadm ends, and the operator keeps trying    *)
(* both forms of the command; neither failures nor edits are forced.         *)
FairSpec ==
    /\ Spec
    /\ WF_vars(Advance)
    /\ WF_vars(Kubeadm)
    /\ SF_vars(StartFresh) /\ SF_vars(StartResume)
=============================================================================
