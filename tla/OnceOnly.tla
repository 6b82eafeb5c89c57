------------------------------ MODULE OnceOnly ------------------------------
(***************************************************************************)
(* What the recovery of kubelift promises, for `create` and for `add`      *)
(* alike (README.md, "Recovery and State"): a task goes through numbered   *)
(* levels, recorded one after the other; the step after level Risky is a   *)
(* command nobody may run twice (kubeadm init, kubeadm join), and no level *)
(* beyond Risky is recorded for a task whose command was never started.    *)
(***************************************************************************)
EXTENDS Naturals

CONSTANTS
    Tasks,
    Risky,  \* the level at which the command may be started
    Last    \* the highest level

VARIABLES level, fired

Init == level = [t \in Tasks |-> 0] /\ fired = [t \in Tasks |-> 0]

(* Another level is recorded: Risky is not jumped over. *)
Record(t) ==
    \E l \in (level[t] + 1)..Last :
        /\ level[t] < Risky => l <= Risky
        /\ level[t] >= Risky => fired[t] = 1
        /\ level' = [level EXCEPT ![t] = l]
        /\ UNCHANGED fired

(* The command is started, with its start on record, for the first time. *)
Fire(t) ==
    /\ level[t] = Risky /\ fired[t] = 0
    /\ fired' = [fired EXCEPT ![t] = 1]
    /\ UNCHANGED level

Next == \E t \in Tasks : Record(t) \/ Fire(t)

Spec == Init /\ [][Next]_<<level, fired>>
=============================================================================
