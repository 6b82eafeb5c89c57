---------------------------- MODULE MCLifecycle -----------------------------
(* One cluster name, created and uninstalled. *)
EXTENDS Lifecycle

CONSTANTS c1, c2, b1, b2, alpha, beta

OneName == [c \in Configs |-> alpha]
=============================================================================
