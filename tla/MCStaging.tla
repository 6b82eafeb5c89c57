------------------------------ MODULE MCStaging -----------------------------
(* Two payloads of two chunks. *)
EXTENDS Staging

CONSTANTS f1, f2
=============================================================================
