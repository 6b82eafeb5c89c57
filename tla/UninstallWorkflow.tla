------------------------- MODULE UninstallWorkflow --------------------------
(***************************************************************************)
(* `kubelift uninstall --force` (internal/workflow/uninstall_executor.go). *)
(*                                                                         *)
(* Run on Master0, it discovers the nodes in the Kubernetes API, then      *)
(* sends a cleanup script to every other node and deletes the node from    *)
(* the API, workers first, and at last runs the script on Master0 itself,  *)
(* which ends the API.  A script whose kubelift has gone (an SSH timeout,  *)
(* a kill) may run on; the operator repeats the command after a failure.   *)
(***************************************************************************)
EXTENDS Naturals

CONSTANTS
    Machines,   \* the machines of the cluster
    Local,      \* Master0
    Masters,    \* control-plane machines, Master0 among them
    Late,       \* workers that joined, but whose kubelet has not registered yet
    MaxFaults   \* bound: steps that fail, and kills of kubelift

ASSUME MachinesAssumption ==
    /\ Local \in Masters /\ Masters \subseteq Machines
    /\ Late \subseteq Machines \ Masters
ASSUME BoundsAssumption == MaxFaults \in Nat

(* What the script removes from a machine: the kubelet and what it runs;      *)
(* kubelet.conf, admin.conf and pki; the managed directories; units and      *)
(* binaries.                                                                 *)
Everything == {"running", "kubernetes", "directories", "binaries"}

(* A kubelift process is told from earlier ones by the faults before it. *)
Attempts == 0..MaxFaults

Places == {"off", "reset", "credentials", "directories", "binaries", "done"}

VARIABLES
    nodes,     \* API: machines with a Node
    left,      \* what is left of the cluster on each machine
    script,    \* where the script of each attempt is on each machine
    pc,        \* the kubelift process
    found,     \* the nodes it discovered
    todo,      \* those still to be removed, Master0 apart
    at,        \* the one being removed
    reported,  \* the nodes the last successful run said it cleaned
    faults

vars == <<nodes, left, script, pc, found, todo, at, reported, faults>>

Steps == {"idle", "next", "remote", "delete", "local"}

TypeOK ==
    /\ nodes \subseteq Machines
    /\ left \in [Machines -> SUBSET Everything]
    /\ script \in [Machines -> [Attempts -> Places]]
    /\ pc \in Steps /\ at \in Machines
    /\ found \subseteq Machines /\ todo \subseteq found \ {Local}
    /\ reported \subseteq Machines
    /\ faults \in 0..MaxFaults

Init ==
    /\ nodes = Machines \ Late
    /\ left = [m \in Machines |-> Everything]
    /\ script = [m \in Machines |-> [a \in Attempts |-> "off"]]
    /\ pc = "idle" /\ found = {} /\ todo = {} /\ at = Local /\ reported = {}
    /\ faults = 0

-----------------------------------------------------------------------------
(* kubectl on Master0 asks the API server of Master0. *)
ApiUp == "running" \in left[Local]

(* The process starts its script on a machine; the script it waits for. *)
StartScript(m) == script' = [script EXCEPT ![m][faults] = "reset"]
own(m) == script[m][faults]

Quit == pc' = "idle" /\ found' = {} /\ todo' = {}

(* The definitions named ..._Mut are deliberate mistakes, never used by Next: *)
(* each shows that a property of UninstallProperties can fail.                *)
Discover_Mut ==
    /\ pc = "idle" /\ ApiUp
    /\ Local \in nodes
    /\ found' = nodes /\ todo' = nodes
    /\ pc' = "next"
    /\ UNCHANGED <<nodes, left, script, at, reported, faults>>

(* DiscoverUninstallNodes: without the API, or with Master0 not among its    *)
(* control-plane nodes, the command is refused, which changes nothing.       *)
Discover ==
    /\ pc = "idle" /\ ApiUp
    /\ Local \in nodes
    /\ found' = nodes /\ todo' = nodes \ {Local}
    /\ pc' = "next"
    /\ UNCHANGED <<nodes, left, script, at, reported, faults>>

Rank_Mut(m) == IF m \in Masters THEN 0 ELSE 1

(* uninstallNodeRank: workers, then the other masters, then Master0. *)
Rank(m) ==
    CASE m = Local    -> 2
      [] m \in Masters -> 1
      [] OTHER        -> 0

AfterConnect_Mut == "delete"

AfterConnect == "remote"

(* The next node in order: Connect, and Run starts the cleanup script. *)
CleanRemote(m) ==
    /\ pc = "next" /\ m \in todo
    /\ \A n \in todo : Rank(m) <= Rank(n)
    /\ StartScript(m)
    /\ at' = m /\ pc' = AfterConnect
    /\ UNCHANGED <<nodes, left, found, todo, reported, faults>>

RemoteCleaned ==
    /\ pc = "remote" /\ own(at) = "done"
    /\ pc' = "delete"
    /\ UNCHANGED <<nodes, left, script, found, todo, at, reported, faults>>

(* deleteUninstallNode, with --ignore-not-found; it needs the API. *)
DeleteNode ==
    /\ pc = "delete" /\ ApiUp
    /\ nodes' = nodes \ {at}
    /\ todo' = todo \ {at} /\ pc' = "next"
    /\ UNCHANGED <<left, script, found, at, reported, faults>>

DeleteFails ==
    /\ pc = "delete" /\ ~ApiUp
    /\ Quit
    /\ UNCHANGED <<nodes, left, script, at, reported, faults>>

RemotesDone_Mut == \A m \in todo : m \in Masters

RemotesDone == todo = {}

CleanLocal ==
    /\ pc = "next" /\ RemotesDone
    /\ StartScript(Local)
    /\ at' = Local /\ pc' = "local"
    /\ UNCHANGED <<nodes, left, found, todo, reported, faults>>

LocalCleaned ==
    /\ pc = "local" /\ own(Local) = "done"
    /\ reported' = found
    /\ Quit
    /\ UNCHANGED <<nodes, left, script, at, faults>>

(* A step fails, the time is over, or kubelift is killed.  A script it has    *)
(* started, here or over SSH, may end with it or run on.                     *)
Stop ==
    /\ pc # "idle" /\ faults < MaxFaults
    /\ \/ UNCHANGED script
       \/ /\ pc \in {"remote", "local"}
          /\ script' = [script EXCEPT ![at][faults] = "off"]
    /\ Quit
    /\ faults' = faults + 1
    /\ UNCHANGED <<nodes, left, at, reported>>

-----------------------------------------------------------------------------
(* CleanupCommand, one after the other on the machine it was started on.     *)

Move(m, a, from, to) ==
    /\ script[m][a] = from
    /\ script' = [script EXCEPT ![m][a] = to]
    /\ UNCHANGED <<nodes, pc, found, todo, at, reported, faults>>

(* kubeadm is there and has something to reset. *)
ResetApplies(m) == {"kubernetes", "binaries"} \subseteq left[m]

ResetNode_Mut(m, a) ==
    /\ ResetApplies(m)
    /\ left' = [left EXCEPT ![m] = @ \ {"running"}]
    /\ Move(m, a, "reset", "credentials")

(* `if ...; then kubeadm reset -f`, which stops the kubelet and its Pods; it  *)
(* is left out where a script was before and got past it.                    *)
ResetNode(m, a) ==
    \/ /\ ResetApplies(m)
       /\ left' = [left EXCEPT ![m] = @ \ {"running"}]
       /\ Move(m, a, "reset", "credentials")
    \/ /\ ~ResetApplies(m)
       /\ UNCHANGED left
       /\ Move(m, a, "reset", "directories")

(* kubeadm reset goes on to the files. *)
RemoveCredentials(m, a) ==
    /\ left' = [left EXCEPT ![m] = @ \ {"kubernetes"}]
    /\ Move(m, a, "credentials", "directories")

(* kubelet and containerd are stopped and the managed directories removed. *)
RemoveDirectories(m, a) ==
    /\ left' = [left EXCEPT ![m] = @ \ {"running", "kubernetes", "directories"}]
    /\ Move(m, a, "directories", "binaries")

RemoveBinaries(m, a) ==
    /\ left' = [left EXCEPT ![m] = @ \ {"binaries"}]
    /\ Move(m, a, "binaries", "done")

Cleanup(m, a) ==
    \/ ResetNode(m, a) \/ RemoveCredentials(m, a) \/ RemoveDirectories(m, a)
    \/ RemoveBinaries(m, a)

(* A kubelet that runs registers its node when there is none. *)
KubeletRegisters(m) ==
    /\ ApiUp /\ "running" \in left[m] /\ m \notin nodes
    /\ nodes' = nodes \cup {m}
    /\ UNCHANGED <<left, script, pc, found, todo, at, reported, faults>>

Advance ==
    \/ \E m \in Machines : CleanRemote(m)
    \/ RemoteCleaned \/ DeleteNode \/ DeleteFails \/ CleanLocal \/ LocalCleaned

Next ==
    \/ Discover \/ Advance \/ Stop
    \/ \E m \in Machines : KubeletRegisters(m) \/ \E a \in Attempts : Cleanup(m, a)

Spec == Init /\ [][Next]_vars

(* Processes and scripts run on, and the operator repeats the command as long *)
(* as it is not refused; no fault is forced, no late kubelet has to register. *)
FairSpec ==
    /\ Spec
    /\ WF_vars(Discover) /\ WF_vars(Advance)
    /\ \A m \in Machines, a \in Attempts : WF_vars(Cleanup(m, a))
=============================================================================
