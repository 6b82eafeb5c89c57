-------------------------- MODULE CreateProperties --------------------------
(***************************************************************************)
(* What `kubelift create` promises: properties of CreateWorkflow.          *)
(***************************************************************************)
EXTENDS CreateWorkflow

Saved(n, phase) == states[n].phase >= phase

(* However often a create is resumed, and whatever failed before, kubeadm    *)
(* init is started at most once on behalf of a state file: once              *)
(* kubeadm-starting is recorded, no path of ExecuteCreate leads back to the  *)
(* command.                                                                  *)
InitAtMostOnce == \A n \in Names : inits[n] <= 1

(* A recorded phase never goes back, and a state file never changes the      *)
(* configuration and bundle it was created for, although every resumed run   *)
(* repeats the push that leads to the phase `staged`.                        *)
PhasesOnlyGrow ==
    [][\A n \in Names :
          /\ states'[n].phase >= states[n].phase
          /\ states[n].phase # New => states'[n].inputs = states[n].inputs]_vars

(* A recorded phase is true of the host: what a resumed run skips was done,  *)
(* completely, from the very configuration and bundle the state file names.  *)
(* With one cluster name only: see README on several names.                  *)
PhaseDescribesHost ==
    \A n \in Names : LET st == states[n] IN
        /\ Saved(n, Staged) => host.staging[n] = st.inputs.bundle
        /\ Saved(n, Prepared) => host.node = st.inputs
        /\ Saved(n, Images) => st.inputs \in host.images

(* kubeadm init is only ever started on a host that was prepared, completely *)
(* and from the inputs the state file records, that carries no trace of      *)
(* another control plane, and with its start on record: a kubeadm init of    *)
(* somebody else that writes its admin.conf only after the run has looked    *)
(* for one (create_executor.go:121) does not get a second one beside it.     *)
InitOnPreparedHost ==
    [][\A n \in Names : inits'[n] # inits[n] =>
          /\ states[n].phase = Starting
          /\ host.staging[n] = states[n].inputs.bundle
          /\ host.node = states[n].inputs
          /\ states[n].inputs \in host.images
          /\ host.initFile = states[n].inputs.config
          /\ kubeadm = "none" /\ ~admin /\ host.cluster = None]_vars

(* From cilium-ready on the control plane is really up, with the network and *)
(* the Registry its configuration asks for; `complete` is never recorded on  *)
(* less.                                                                     *)
CompleteMeansRunning ==
    \A n \in Names : LET c == states[n].inputs.config IN
        /\ Saved(n, CiliumReady) =>
              kubeadm = "done" /\ admin /\ host.cluster = c /\ host.cni = c
        /\ Saved(n, RegReady) /\ c \in WithRegistry => host.registry = c

Once == INSTANCE OnceOnly WITH
    Tasks <- Names, Risky <- Starting, Last <- Complete,
    level <- [n \in Names |-> states[n].phase], fired <- inits

(* `create` implements the once-only task: a crash between any two saves and *)
(* any number of resumed runs neither repeat kubeadm init nor get past       *)
(* kubeadm-starting without it.  With one cluster name.                      *)
ImplementsOnceOnly == Once!Spec

(* What a command reports is so: after "complete" or "already complete" for  *)
(* some inputs, the cluster runs with exactly these inputs.                  *)
ReportIsTrue ==
    answer.result \in {"complete", "already"} =>
        /\ states[NameOf[answer.inputs.config]] =
              [inputs |-> answer.inputs, phase |-> Complete]
        /\ kubeadm = "done" /\ host.cluster = answer.inputs.config
        /\ host.node = answer.inputs

(* A control plane kubelift did not create is left alone: one that was there *)
(* from the beginning finds its host as it was, and one that comes up while  *)
(* kubelift stages and installs gets neither network nor Registry from it.   *)
ExistingClusterUntouched ==
    admin /\ (\A n \in Names : inits[n] = 0) =>
        /\ foreign = "there" => host = CleanHost
        /\ host.cluster = None /\ host.cni = None /\ host.registry = None
        /\ \A n \in Names : states[n].phase < Starting

(* The operator can get through: if kubelift keeps being run, either create  *)
(* completes for the configuration at hand, or it is one of the situations   *)
(* in which the code says an operator has to look: a state file of other     *)
(* inputs, a kubeadm init that ended without success, a cluster of somebody  *)
(* else, or less than 10 GiB free under /var/lib: what earlier runs have     *)
(* staged and imported there counts too, so it may refuse a resumed run.     *)
LeftToOperator ==
    LET st == states[NameOf[config]] IN
        \/ st.phase # New /\ st.inputs # [config |-> config, bundle |-> bundle]
        \/ st.phase >= Starting /\ kubeadm \in {"none", "failed"}
        \/ st.phase < Starting /\ (admin \/ kubeadm \in {"failed", "done"})

NeedsOperator == LeftToOperator \/ ~DiskSuffices

Converges == <>[](states[NameOf[config]].phase = Complete \/ NeedsOperator)

(* create_executor.go:94: "恢复时只跳过已明确完成的阶段" (a resumed run skips  *)
(* only phases explicitly known to be complete), README.md:304-306: "If the  *)
(* result of `kubeadm init` [...] cannot be determined, KubeLift stops".     *)
(* kubeadm-initialized is then only recorded for an init that ended well.    *)
InitializedMeansInitEnded ==
    \A n \in Names : Saved(n, Initialized) => kubeadm = "done"
=============================================================================
