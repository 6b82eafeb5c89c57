------------------------------ MODULE Lifecycle -----------------------------
(***************************************************************************)
(* `kubelift create` and `kubelift uninstall` one after the other on       *)
(* Master0: CreateWorkflow together with what the cleanup script of        *)
(* uninstall_executor.go removes of the host, the state files and the      *)
(* staged bundles that create works with.  UninstallWorkflow has the rest  *)
(* of uninstall, the other nodes.  The operator runs one command at a time *)
(* and waits for a script that outlives its kubelift, and nobody else is at *)
(* work on a control plane of Master0.                                     *)
(***************************************************************************)
EXTENDS CreateProperties

VARIABLES
    cleanup,  \* where the cleanup script on Master0 is
    removed   \* the last command was an uninstall that reported success

lvars == <<vars, cleanup, removed>>

OperatorFiles == <<world, config, bundle>>
History       == <<faults, edits>>

LifecycleTypeOK ==
    /\ TypeOK
    /\ cleanup \in {"off", "reset", "etc", "kubelift", "node"}
    /\ removed \in BOOLEAN

LInit == Init /\ foreign # "coming" /\ cleanup = "off" /\ removed = FALSE

Script(from, to) == cleanup = from /\ cleanup' = to

-----------------------------------------------------------------------------
(* ExecuteUninstall gets to the local script once DiscoverUninstallNodes has *)
(* found Master0 in an API that answers: kubeadm init came that far.         *)
Uninstall ==
    /\ pc = "idle" /\ Script("off", "reset")
    /\ admin /\ kubeadm \in {"done", "failed"}
    /\ removed' = FALSE /\ answer' = NoAnswer
    /\ UNCHANGED <<OperatorFiles, states, admin, kubeadm, host, pc, run, inits, History>>

(* kubeadm reset -f: the control plane, its static Pods and admin.conf go.   *)
(* A reset that is cut short (Interrupt) may leave a broken control plane.   *)
ResetControlPlane ==
    /\ Script("reset", "etc")
    /\ admin' = FALSE /\ kubeadm' = "none"
    /\ host' = [host EXCEPT !.cluster = None, !.cni = None, !.registry = None]
    /\ UNCHANGED <<OperatorFiles, states, pc, run, answer, inits, History, removed>>

(* rm -rf of /etc/kubernetes ... /var/lib/containerd, in this order, *)
RemoveEtcAndImages ==
    /\ Script("etc", "kubelift")
    /\ host' = [host EXCEPT !.initFile = None, !.cniFile = None, !.images = {}]
    /\ UNCHANGED <<OperatorFiles, states, admin, kubeadm, pc, run, answer, inits,
                   History, removed>>

(* and last of /var/lib/kubelift, whose entries go in any order.  With the   *)
(* state file, the count of the inits started on its behalf starts anew.     *)
RemoveStaging ==
    /\ cleanup = "kubelift"
    /\ host.staging # CleanHost.staging
    /\ host' = [host EXCEPT !.staging = CleanHost.staging]
    /\ UNCHANGED <<OperatorFiles, states, admin, kubeadm, pc, run, answer, inits,
                   History, cleanup, removed>>

RemoveStates ==
    /\ cleanup = "kubelift"
    /\ \E n \in Names : states[n] # NoFile
    /\ states' = [n \in Names |-> NoFile]
    /\ inits' = [n \in Names |-> 0]
    /\ UNCHANGED <<OperatorFiles, admin, kubeadm, host, pc, run, answer, History,
                   cleanup, removed>>

(* The definitions named ..._Mut are deliberate mistakes, never used by LNext. *)
KubeliftRemoved_Mut == host.staging = CleanHost.staging

KubeliftRemoved ==
    host.staging = CleanHost.staging /\ \A n \in Names : states[n] = NoFile

EndOfDirectories ==
    /\ Script("kubelift", "node")
    /\ KubeliftRemoved
    /\ UNCHANGED <<vars, removed>>

Remains == IF host.node = None THEN None ELSE Torn

(* Units, mirrors and the binaries on the script's list; then kubelift       *)
(* reports success.  What else PrepareNode put there stays: libraries, host  *)
(* tools, other CNI plugins, and the swap that was turned off.               *)
RemoveNode ==
    /\ Script("node", "off")
    /\ host' = [host EXCEPT !.node = Remains]
    /\ removed' = TRUE
    /\ UNCHANGED <<OperatorFiles, states, admin, kubeadm, pc, run, answer, inits, History>>

(* What the script was about to remove may be gone in part. *)
Interrupt ==
    /\ cleanup # "off" /\ cleanup' = "off" /\ faults < MaxFaults
    /\ \/ UNCHANGED <<admin, kubeadm, host>>
       \/ /\ cleanup = "reset" /\ kubeadm' = "failed" /\ admin' \in {admin, FALSE}
          /\ UNCHANGED host
       \/ /\ cleanup = "node" /\ host' = [host EXCEPT !.node = Remains]
          /\ UNCHANGED <<admin, kubeadm>>
    /\ faults' = faults + 1
    /\ UNCHANGED <<OperatorFiles, states, pc, run, answer, inits, edits, removed>>

Clean ==
    \/ ResetControlPlane \/ RemoveEtcAndImages \/ RemoveStaging \/ RemoveStates
    \/ EndOfDirectories \/ RemoveNode

Create == cleanup = "off" /\ Next /\ removed' = FALSE /\ UNCHANGED cleanup

LNext == Create \/ Uninstall \/ Clean \/ Interrupt

LSpec == LInit /\ [][LNext]_lvars

-----------------------------------------------------------------------------
(* Properties.                                                               *)

(* README.md:322-325: after a successful uninstall, whatever earlier creates  *)
(* and uninstalls had left half done, nothing is left that a create looks at *)
(* or relies on: no state file, no control plane, no staged bundle and no    *)
(* image, and no installation that a state file could still vouch for; a     *)
(* fresh create of any configuration passes its checks.  Parts of what       *)
(* PrepareNode installed do stay on the host, README.md:334-335.             *)
UninstalledIsNew ==
    removed =>
        /\ states = [n \in Names |-> NoFile] /\ kubeadm = "none" /\ ~admin
        /\ host.node \in {None, Torn}
        /\ host = [CleanHost EXCEPT !.node = host.node]
        /\ DiskSuffices

(* A create after a complete or an interrupted uninstall starts kubeadm init *)
(* only on a host it has prepared since then: what is left of the old        *)
(* cluster's state files never makes it skip what the script removed.        *)
InitOnPreparedHostAgain ==
    [][\A n \in Names : inits'[n] > inits[n] =>
          /\ states[n].phase = Starting
          /\ host.staging[n] = states[n].inputs.bundle
          /\ host.node = states[n].inputs
          /\ states[n].inputs \in host.images
          /\ host.initFile = states[n].inputs.config]_lvars

(* create_executor.go:159-160: 'create state is %q but admin kubeconfig is   *)
(* missing' is an error from kubeadm-initialized on; a cluster reported as   *)
(* already complete then has its admin.conf.                                 *)
AlreadyMeansAdmin == answer.result = "already" => admin
=============================================================================
