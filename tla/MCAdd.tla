------------------------------- MODULE MCAdd --------------------------------
(* Instances of AddWorkflow for TLC. *)
EXTENDS AddProperties

CONSTANTS t1, t2, i1, i2, n1, n2

Worker(t) == [role |-> "worker", target |-> t]
Master(t) == [role |-> "master", target |-> t]

OneWorker        == {Worker(t1)}
WorkerAndMaster  == {Worker(t1), Master(t2)}
TwoMasters       == {Master(t1), Master(t2)}

(* The first machine has room for everything, or for little more than its    *)
(* staged bundle.                                                            *)
Rooms == {[t \in Targets |-> IF t = t1 THEN room ELSE 9] : room \in {1, 9}}

OwnNames == {[t \in Targets |-> IF t = t1 THEN n1 ELSE n2]}
=============================================================================
