--------------------------- MODULE AddProperties ----------------------------
(***************************************************************************)
(* What `kubelift add` promises: properties of AddWorkflow.                *)
(***************************************************************************)
EXTENDS AddWorkflow

Saved(j, phase) == states[j].phase >= phase

(* However often an addition is resumed, kubeadm join is started at most     *)
(* once for its state file: from join-starting on no path of Execute leads   *)
(* back to the command.                                                      *)
JoinAtMostOnce == \A j \in Jobs : joins[j] <= 1

(* kubeadm join is only ever started on a machine that holds, completely,    *)
(* the binaries and images of the inputs its state file records, with the    *)
(* start on record, and with a join file of this very job, although several  *)
(* commands for other machines run at the same time.                         *)
JoinOnPreparedMachine ==
    [][\A j \in Jobs : joins'[j] # joins[j] =>
          /\ states[j].phase = Starting
          /\ machine(j).staging = states[j].inputs
          /\ machine(j).node = states[j].inputs
          /\ states[j].inputs \in machine(j).images
          /\ machine(j).joinFile = [job |-> j, node |-> states[j].node]]_vars

(* `ready` and `complete` are recorded only for a machine that is in the     *)
(* cluster in the role and under the name on record, with its control plane  *)
(* up if it has one, even when the join was adopted from an interrupted run; *)
(* unless another job is on record with the same node name.  With one job    *)
(* per machine.                                                              *)
OwnNode(j) == \A k \in Jobs \ {j} : states[k].node # states[j].node

ReadyMeansMember ==
    \A j \in Jobs : Saved(j, Ready) /\ OwnNode(j) =>
        /\ machine(j).kubelet /\ machine(j).role = j.role
        /\ owner[states[j].node] = j.target
        /\ j.role = "master" => machine(j).control

Once == INSTANCE OnceOnly WITH
    Tasks <- Jobs, Risky <- Starting, Last <- Complete,
    level <- [j \in Jobs |-> states[j].phase], fired <- joins

(* Each addition implements the once-only task.  With one job per machine.   *)
ImplementsOnceOnly == Once!Spec

(* The operators can get through: each addition completes, or it is one of   *)
(* the situations the code leaves to an operator: other inputs or another    *)
(* host name than on record, a join that failed, a name that is taken, or a  *)
(* preflight that is not passed.  The last may be the work of interrupted    *)
(* runs: what they have staged and imported counts against the 10 GiB that   *)
(* have to be free under /var/lib, for a resumed run too.                    *)
LeftToOperator(j) ==
    \/ Saved(j, Staged) /\ ~Matches(j)
    \/ Saved(j, Starting) /\ ~machine(j).kubelet /\ machine(j).join # "running"
    \/ machine(j).join = "failed"
    \/ \E t \in Targets \ {j.target} : owner[hostname[j.target]] = t

NeedsOperator(j) == LeftToOperator(j) \/ ~Preflight(j)

Converges == \A j \in Jobs : <>[](states[j].phase = Complete \/ NeedsOperator(j))

(* README.md:261-263: "`add node` [...] runs `kubeadm join`, and waits for   *)
(* the node and Cilium agent to become ready."  A worker is then never       *)
(* recorded as ready before its Cilium agent has been.                       *)
ReadyMeansAgentReady ==
    [][\A j \in Jobs : j.role = "worker" /\ ~Saved(j, Ready) /\ states'[j].phase >= Ready =>
          health[states[j].node] = "agent"]_vars
=============================================================================
