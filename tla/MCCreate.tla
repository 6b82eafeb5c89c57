------------------------------ MODULE MCCreate ------------------------------
(* Instances of CreateWorkflow for TLC. *)
EXTENDS CreateProperties

CONSTANTS c1, c2, b1, b2, alpha, beta

OneName == [c \in Configs |-> alpha]
=============================================================================
