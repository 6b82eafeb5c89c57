---------------------------- MODULE AddWorkflow -----------------------------
(***************************************************************************)
(* `kubelift add node` and `kubelift add master`, with and without         *)
(* --resume (internal/workflow/add_node_executor.go,                       *)
(* add_master_executor.go, add_state.go; cmd/add.go).                      *)
(*                                                                         *)
(* A job is a role and a target; it has a state file on Master0 and, while *)
(* a command runs for it, a process.  Several operators may run commands   *)
(* for different jobs at the same time: there is no lock.  All work on the *)
(* target goes over SSH, so a process that ends, for whatever reason, does *)
(* not stop the `kubeadm join` it has started there.  Nodes and their      *)
(* readiness are in the Kubernetes API, which never answers here with      *)
(* anything older than the last change.                                    *)
(***************************************************************************)
EXTENDS Naturals, FiniteSets

CONSTANTS
    Targets,        \* machines, by address
    Jobs,           \* what the operators add: [role, target]
    Nodes,          \* Kubernetes node names
    HostNames,      \* host names the targets may have at first: functions to Nodes
    Spaces,         \* room they may have under /var/lib beyond the required 10 GiB
    Inputs,         \* configuration and bundle together, as their two hashes tell them apart
    None, Torn,     \* nothing there; left half done
    MaxConcurrent,  \* bound: processes at a time
    MaxFaults,      \* bound: failing steps, kills, nodes that stop being ready
    MaxEdits        \* bound: edited inputs and renamed hosts

ASSUME JobsAssumption == Jobs \subseteq [role : {"worker", "master"}, target : Targets]
ASSUME HostNamesAssumption == HostNames \subseteq [Targets -> Nodes]
ASSUME SpacesAssumption == Spaces \subseteq [Targets -> Nat]
ASSUME MarksAssumption ==
    /\ None \notin Inputs \cup Targets \cup Nodes /\ Torn \notin Inputs \cup {None}
    /\ None \notin [job : Jobs, node : Nodes]
ASSUME BoundsAssumption ==
    MaxConcurrent \in Nat /\ MaxFaults \in Nat /\ MaxEdits \in Nat

(* addPhaseOrder; 0 is a state that was never saved. *)
New      == 0
Staged   == 1
Prepared == 2
Images   == 3
Starting == 4
Joined   == 5
Ready    == 6
Complete == 7
Phases   == 0..7

(* What a kubeadm join configuration file says: whose credentials, which name. *)
Tickets == [job : Jobs, node : Nodes]

VARIABLES
    space,     \* of each target: room under /var/lib for what an addition leaves there
    master0,   \* Master0 passes requireLocalPreflight: an addition uses none of its disk
    inputs,    \* the configuration and bundle on Master0
    hostname,  \* of each target
    states,    \* the state file of each job: [inputs, node, phase]
    machines,  \* the targets
    owner,     \* API: the machine behind each node name, or None
    health,    \* API: how ready a node is: no, node (Ready), agent (Cilium too)
    certs,     \* API: the job whose certificate key decrypts the uploaded certificates
    pc, run,   \* the process of each job, and its local variables
    joins,     \* history: kubeadm join commands started by each job
    faults, edits

world == <<space, master0>>

vars == <<world, inputs, hostname, states, machines, owner, health, certs, pc, run, joins,
          faults, edits>>

NoFile == [inputs |-> None, node |-> None, phase |-> New]
NoRun  == [inputs |-> None, node |-> None, phase |-> New]

Untouched ==
    [staging |-> None, node |-> None, images |-> {},
     joinFile |-> None,    \* /etc/kubernetes/kubelift-join.yaml
     join |-> "none",      \* kubeadm join: none, running, failed, done
     ticket |-> None,      \* the file it was started with
     kubelet |-> FALSE,    \* /etc/kubernetes/kubelet.conf is there
     role |-> None,        \* the role it joined in
     member |-> FALSE,     \* its kubelet has registered the node
     control |-> FALSE]    \* its API server and etcd member are up

Steps == {"idle", "probe", "ensure", "push", "saveStaged", "prepare", "savePrepared",
          "images", "saveImages", "certs", "token", "saveStarting", "join", "wait",
          "saveJoined", "ready", "saveReady", "saveComplete"}

Locals == [inputs : Inputs \cup {None}, node : Nodes \cup {None}, phase : Phases]

Machines ==
    [staging : Inputs \cup {None, Torn}, node : Inputs \cup {None, Torn},
     images : SUBSET Inputs, joinFile : Tickets \cup {None},
     join : {"none", "running", "failed", "done"}, ticket : Tickets \cup {None},
     kubelet : BOOLEAN, role : {"worker", "master", None}, member : BOOLEAN,
     control : BOOLEAN]

TypeOK ==
    /\ space \in Spaces /\ master0 \in BOOLEAN
    /\ inputs \in Inputs
    /\ hostname \in [Targets -> Nodes]
    /\ states \in [Jobs -> Locals]
    /\ machines \in [Targets -> Machines]
    /\ owner \in [Nodes -> Targets \cup {None}]
    /\ health \in [Nodes -> {"no", "node", "agent"}]
    /\ certs \in Jobs \cup {None}
    /\ pc \in [Jobs -> Steps] /\ run \in [Jobs -> Locals]
    /\ \A j \in Jobs : pc[j] # "idle" => run[j].inputs \in Inputs /\ run[j].node \in Nodes
    /\ joins \in [Jobs -> Nat]
    /\ faults \in 0..MaxFaults /\ edits \in 0..MaxEdits

Init ==
    /\ space \in Spaces /\ master0 \in BOOLEAN
    /\ inputs \in Inputs
    /\ hostname \in HostNames
    /\ states = [j \in Jobs |-> NoFile]
    /\ machines = [t \in Targets |-> Untouched]
    /\ owner = [n \in Nodes |-> None] /\ health = [n \in Nodes |-> "no"]
    /\ certs = None
    /\ pc = [j \in Jobs |-> "idle"] /\ run = [j \in Jobs |-> NoRun]
    /\ joins = [j \in Jobs |-> 0]
    /\ faults = 0 /\ edits = 0

-----------------------------------------------------------------------------
machine(j) == machines[j.target]
Active == {j \in Jobs : pc[j] # "idle"}

Goto(j, step) == pc' = [pc EXCEPT ![j] = step] /\ UNCHANGED run
End(j) == pc' = [pc EXCEPT ![j] = "idle"] /\ run' = [run EXCEPT ![j] = NoRun]

OnMaster0 == <<world, inputs, hostname, states>>
InApi     == <<owner, health, certs>>
Counters  == <<faults, edits>>

(* saveAddState replaces the state file as a whole. *)
Save(j, from, phase, next) ==
    /\ pc[j] = from
    /\ states' = [states EXCEPT ![j] = [run[j] EXCEPT !.phase = phase]]
    /\ run' = [run EXCEPT ![j].phase = phase]
    /\ pc' = [pc EXCEPT ![j] = next]
    /\ UNCHANGED <<world, inputs, hostname, machines, InApi, joins, Counters>>

-----------------------------------------------------------------------------
(* The beginning of a run.                                                   *)

(* The definitions named ..._Mut are deliberate mistakes, never used by Next: *)
(* each shows that a property of AddProperties can fail.                      *)
Matches_Mut(j) == states[j].node = hostname[j.target]

Matches(j) == states[j].inputs = inputs /\ states[j].node = hostname[j.target]

StartFresh_Mut(j) ==
    /\ pc[j] = "idle" /\ states[j].phase = New
    /\ pc' = [pc EXCEPT ![j] = "probe"]
    /\ run' = [run EXCEPT ![j].inputs = inputs]
    /\ UNCHANGED <<OnMaster0, machines, InApi, joins, Counters>>

(* What earlier runs have left under /var/lib of the target: the bundle in   *)
(* the staging root, images in containerd's store and the data of a kubelet. *)
Used(m) ==
    Cardinality({m.staging} \ {None}) + Cardinality(m.images) + Cardinality({m.ticket} \ {None})

DiskSuffices(j) == Used(machine(j)) <= space[j.target]

(* requireLocalPreflight on Master0 and requireRemoteInstallPreflight on the *)
(* target, with --resume as well.  Of their checks only the one of the       *)
(* target's disk depends on what kubelift does.                              *)
Preflight(j) == master0 /\ DiskSuffices(j)

(* runAdd and prepareAddState.  A fresh run finds the target's ports free    *)
(* and no state file; a resumed one finds a state file for the same          *)
(* configuration, bundle and node name.  A refused command changes nothing.  *)
StartFresh(j) ==
    /\ pc[j] = "idle" /\ Cardinality(Active) < MaxConcurrent
    /\ Preflight(j)
    /\ states[j].phase = New
    /\ ~machine(j).kubelet
    /\ pc' = [pc EXCEPT ![j] = "probe"]
    /\ run' = [run EXCEPT ![j] =
                 [inputs |-> inputs, node |-> hostname[j.target], phase |-> New]]
    /\ UNCHANGED <<OnMaster0, machines, InApi, joins, Counters>>

StartResume(j) ==
    /\ pc[j] = "idle" /\ Cardinality(Active) < MaxConcurrent
    /\ Preflight(j)
    /\ states[j].phase # New
    /\ Matches(j)
    /\ pc' = [pc EXCEPT ![j] = "probe"]
    /\ run' = [run EXCEPT ![j] = [inputs |-> inputs, node |-> hostname[j.target],
                                  phase |-> states[j].phase]]
    /\ UNCHANGED <<OnMaster0, machines, InApi, joins, Counters>>

MayGoOn_Mut(j) ==
    /\ run[j].phase \notin {Starting, Complete}
    /\ run[j].phase >= Joined => machine(j).kubelet
    /\ run[j].phase < Starting => ~machine(j).kubelet

(* remoteNodeJoined against the recorded phase: kubelet.conf must be there    *)
(* from `joined` on and must not be before `join-starting`; at join-starting  *)
(* without it the join is ambiguous.  At `complete` there is nothing to do.   *)
MayGoOn(j) ==
    /\ run[j].phase # Complete
    /\ run[j].phase >= Joined => machine(j).kubelet
    /\ run[j].phase < Starting => ~machine(j).kubelet
    /\ run[j].phase = Starting => machine(j).kubelet

JoinSteps(j) == IF j.role = "master" THEN "certs" ELSE "token"

AfterProbe_Mut(j) ==
    CASE run[j].phase < Starting -> "ensure"
      [] run[j].phase = Starting -> JoinSteps(j)
      [] run[j].phase = Joined   -> "ready"
      [] OTHER                   -> "saveComplete"

AfterProbe(j) ==
    CASE run[j].phase < Starting -> "ensure"
      [] run[j].phase = Starting -> "saveJoined"
      [] run[j].phase = Joined   -> "ready"
      [] OTHER                   -> "saveComplete"

Probe(j) ==
    /\ pc[j] = "probe"
    /\ IF MayGoOn(j) THEN Goto(j, AfterProbe(j)) ELSE End(j)
    /\ UNCHANGED <<OnMaster0, machines, InApi, joins, Counters>>

(* ensureTargetNotInCluster: no node has the name, and none the address. *)
NotInCluster(j) ==
    /\ owner[run[j].node] = None
    /\ \A n \in Nodes : owner[n] # j.target

AfterEnsure(j) == IF run[j].phase < Images THEN "push" ELSE JoinSteps(j)

Ensure(j) ==
    /\ pc[j] = "ensure"
    /\ IF NotInCluster(j) THEN Goto(j, AfterEnsure(j)) ELSE End(j)
    /\ UNCHANGED <<OnMaster0, machines, InApi, joins, Counters>>

-----------------------------------------------------------------------------
(* Staging, preparing, importing.                                            *)

AfterPushSkips_Mut(j) == IF run[j].phase = New THEN "saveStaged" ELSE "images"

AfterPush(j) ==
    CASE run[j].phase = New    -> "saveStaged"
      [] run[j].phase = Staged -> "prepare"
      [] OTHER                 -> "images"

Push(j) ==
    /\ pc[j] = "push"
    /\ machines' = [machines EXCEPT ![j.target].staging = run[j].inputs]
    /\ Goto(j, AfterPush(j))
    /\ UNCHANGED <<OnMaster0, InApi, joins, Counters>>

SaveStaged(j) == Save(j, "saveStaged", Staged, "prepare")

PrepareNode(j) ==
    /\ pc[j] = "prepare"
    /\ machines' = [machines EXCEPT ![j.target].node = run[j].inputs]
    /\ Goto(j, "savePrepared")
    /\ UNCHANGED <<OnMaster0, InApi, joins, Counters>>

SavePrepared(j) == Save(j, "savePrepared", Prepared, "images")

ImportImages(j) ==
    /\ pc[j] = "images"
    /\ machines' = [machines EXCEPT ![j.target].images = @ \cup {run[j].inputs}]
    /\ Goto(j, "saveImages")
    /\ UNCHANGED <<OnMaster0, InApi, joins, Counters>>

SaveImages(j) == Save(j, "saveImages", Images, JoinSteps(j))

-----------------------------------------------------------------------------
(* Joining.                                                                  *)

(* kubeadm init phase upload-certs makes a new key each time it runs: a key  *)
(* made earlier opens nothing from now on.                                   *)
UploadCerts(j) ==
    /\ pc[j] = "certs"
    /\ certs' = j
    /\ Goto(j, "token")
    /\ UNCHANGED <<OnMaster0, machines, owner, health, joins, Counters>>

(* A bootstrap token, and the join configuration uploaded to the target. *)
UploadTicket(j) ==
    /\ pc[j] = "token"
    /\ machines' = [machines EXCEPT ![j.target].joinFile = [job |-> j, node |-> run[j].node]]
    /\ Goto(j, "saveStarting")
    /\ UNCHANGED <<OnMaster0, InApi, joins, Counters>>

SaveStarting(j) == Save(j, "saveStarting", Starting, "join")

(* The remote shell runs kubeadm join on the file that lies there now.       *)
(* kubeadm refuses a machine with a kubelet.conf; the shell's exit trap      *)
(* removes the file.                                                         *)
RunJoin(j) ==
    /\ pc[j] = "join"
    /\ joins' = [joins EXCEPT ![j] = @ + 1]
    /\ IF machine(j).joinFile # None /\ machine(j).join # "running" /\ ~machine(j).kubelet
       THEN /\ machines' = [machines EXCEPT ![j.target].join = "running",
                                            ![j.target].ticket = machine(j).joinFile]
            /\ Goto(j, "wait")
       ELSE /\ machines' = [machines EXCEPT ![j.target].joinFile = None]
            /\ End(j)
    /\ UNCHANGED <<OnMaster0, InApi, Counters>>

(* kubeadm join has returned; kubelet.conf is looked for once more. *)
JoinReturns(j) ==
    /\ pc[j] = "wait" /\ machine(j).join # "running"
    /\ IF machine(j).join = "done" /\ machine(j).kubelet
       THEN Goto(j, "saveJoined") ELSE End(j)
    /\ UNCHANGED <<OnMaster0, machines, InApi, joins, Counters>>

SaveJoined(j) == Save(j, "saveJoined", Joined, "ready")

IsReady_Mut(j) == health[run[j].node] # "no"

(* kubectl wait for the node and, for a master, for the Pods of its API       *)
(* server and etcd member; all three are looked up by node name.             *)
IsReady(j) ==
    /\ health[run[j].node] # "no"
    /\ j.role = "master" => machines[owner[run[j].node]].control

WaitReady(j) ==
    /\ pc[j] = "ready"
    /\ IsReady(j)
    /\ Goto(j, "saveReady")
    /\ UNCHANGED <<OnMaster0, machines, InApi, joins, Counters>>

(* The ten minutes of kubectl wait are over. *)
WaitTimesOut(j) ==
    /\ pc[j] = "ready"
    /\ ~IsReady(j)
    /\ End(j)
    /\ UNCHANGED <<OnMaster0, machines, InApi, joins, Counters>>

SaveReady(j) == Save(j, "saveReady", Ready, "saveComplete")

SaveComplete(j) ==
    /\ pc[j] = "saveComplete"
    /\ states' = [states EXCEPT ![j] = [run[j] EXCEPT !.phase = Complete]]
    /\ End(j)
    /\ UNCHANGED <<world, inputs, hostname, machines, InApi, joins, Counters>>

-----------------------------------------------------------------------------
(* Failures.                                                                 *)

(* What the target may look like when the present step is cut short.  A      *)
(* shell on it may go on to its end when its connection is gone.             *)
CutShort(j) ==
    {machine(j)} \cup
    CASE pc[j] = "push" /\ machine(j).staging # run[j].inputs ->
            {[machine(j) EXCEPT !.staging = Torn]}
      [] pc[j] = "prepare" ->
            {[machine(j) EXCEPT !.node = left] : left \in {Torn, run[j].inputs}}
      [] pc[j] = "images" -> {[machine(j) EXCEPT !.images = @ \cup {run[j].inputs}]}
      [] pc[j] = "token" ->
            {[machine(j) EXCEPT !.joinFile = [job |-> j, node |-> run[j].node]]}
      [] OTHER -> {}

(* A step fails, SSH breaks, the time is over, or kubelift is killed: the    *)
(* process ends between two saves, and what runs on the target runs on.      *)
Stop(j) ==
    /\ pc[j] # "idle" /\ faults < MaxFaults
    /\ \E m \in CutShort(j) : machines' = [machines EXCEPT ![j.target] = m]
    /\ End(j)
    /\ faults' = faults + 1
    /\ UNCHANGED <<OnMaster0, InApi, joins, edits>>

-----------------------------------------------------------------------------
(* kubeadm join and the kubelet on a target, and the nodes in the API.       *)

(* What kubeadm join checks before it lets the kubelet in: no Ready node of  *)
(* this name, and for a master, certificates it can decrypt.                 *)
Admitted(ticket) ==
    /\ owner[ticket.node] # None => health[ticket.node] = "no"
    /\ ticket.job.role = "master" => certs = ticket.job

JoinWritesKubelet(t) ==
    /\ machines[t].join = "running" /\ ~machines[t].kubelet
    /\ Admitted(machines[t].ticket)
    /\ machines' = [machines EXCEPT ![t].kubelet = TRUE,
                                    ![t].role = machines[t].ticket.job.role]
    /\ UNCHANGED <<OnMaster0, InApi, pc, run, joins, Counters>>

(* The kubelet registers its node, or takes over one of the same name. *)
KubeletRegisters(t) ==
    /\ machines[t].kubelet /\ ~machines[t].member
    /\ machines' = [machines EXCEPT ![t].member = TRUE]
    /\ owner' = [owner EXCEPT ![machines[t].ticket.node] = t]
    /\ health' = [health EXCEPT ![machines[t].ticket.node] = "no"]
    /\ UNCHANGED <<OnMaster0, certs, pc, run, joins, Counters>>

(* The static Pods of a master come up before kubeadm join ends, or even     *)
(* though it has failed.                                                     *)
ControlPlaneUp(t) ==
    /\ machines[t].join \in {"running", "failed"} /\ machines[t].member
    /\ machines[t].role = "master" /\ ~machines[t].control
    /\ machines' = [machines EXCEPT ![t].control = TRUE]
    /\ UNCHANGED <<OnMaster0, InApi, pc, run, joins, Counters>>

JoinSucceeds(t) ==
    /\ machines[t].join = "running" /\ machines[t].member
    /\ machines[t].role = "master" => machines[t].control
    /\ machines' = [machines EXCEPT ![t].join = "done", ![t].joinFile = None]
    /\ UNCHANGED <<OnMaster0, InApi, pc, run, joins, Counters>>

JoinFails(t) ==
    /\ machines[t].join = "running"
    /\ machines' = [machines EXCEPT ![t].join = "failed", ![t].joinFile = None]
    /\ UNCHANGED <<OnMaster0, InApi, pc, run, joins, Counters>>

(* A node is Ready once its network is configured; the Cilium agent that has *)
(* configured it becomes ready later.                                        *)
NodeGetsReady(n) ==
    /\ owner[n] # None /\ health[n] # "agent"
    /\ health' = [health EXCEPT ![n] = IF @ = "no" THEN "node" ELSE "agent"]
    /\ UNCHANGED <<OnMaster0, machines, owner, certs, pc, run, joins, Counters>>

NodeGetsUnready(n) ==
    /\ health[n] # "no" /\ faults < MaxFaults
    /\ health' = [health EXCEPT ![n] = "no"]
    /\ faults' = faults + 1
    /\ UNCHANGED <<OnMaster0, machines, owner, certs, pc, run, joins, edits>>

(* Between two commands an operator edits the inputs or renames a host that  *)
(* has not joined.                                                           *)
Edit ==
    /\ Active = {} /\ edits < MaxEdits
    /\ \/ inputs' \in Inputs \ {inputs} /\ UNCHANGED hostname
       \/ /\ \E t \in Targets, n \in Nodes :
                /\ n # hostname[t] /\ machines[t].join = "none"
                /\ hostname' = [hostname EXCEPT ![t] = n]
          /\ UNCHANGED inputs
    /\ edits' = edits + 1
    /\ UNCHANGED <<world, states, machines, InApi, pc, run, joins, faults>>

Advance(j) ==
    \/ Probe(j) \/ Ensure(j) \/ Push(j) \/ SaveStaged(j) \/ PrepareNode(j)
    \/ SavePrepared(j) \/ ImportImages(j) \/ SaveImages(j) \/ UploadCerts(j)
    \/ UploadTicket(j) \/ SaveStarting(j) \/ RunJoin(j) \/ JoinReturns(j)
    \/ SaveJoined(j) \/ WaitReady(j) \/ WaitTimesOut(j) \/ SaveReady(j) \/ SaveComplete(j)

Kubeadm(t) ==
    \/ JoinWritesKubelet(t) \/ KubeletRegisters(t) \/ ControlPlaneUp(t)
    \/ JoinSucceeds(t) \/ JoinFails(t)

Next ==
    \/ \E j \in Jobs : StartFresh(j) \/ StartResume(j) \/ Advance(j) \/ Stop(j)
    \/ \E t \in Targets : Kubeadm(t)
    \/ \E n \in Nodes : NodeGetsReady(n) \/ NodeGetsUnready(n)
    \/ Edit

Spec == Init /\ [][Next]_vars

(* Started processes run on, kubeadm join ends, nodes get ready, and the      *)
(* operators keep trying; no failure and no edit is forced.                  *)
FairSpec ==
    /\ Spec
    /\ \A j \in Jobs : WF_vars(Advance(j)) /\ SF_vars(StartFresh(j)) /\ SF_vars(StartResume(j))
    /\ \A t \in Targets : /\ WF_vars(machines[t].join = "running" /\ Kubeadm(t))
                          /\ WF_vars(KubeletRegisters(t))
    /\ \A n \in Nodes : WF_vars(NodeGetsReady(n))
=============================================================================
