------------------------ MODULE UninstallProperties -------------------------
(***************************************************************************)
(* What `kubelift uninstall` promises: properties of UninstallWorkflow.    *)
(***************************************************************************)
EXTENDS UninstallWorkflow

Clean(m) == left[m] = {}

(* No machine is forgotten: as long as discovery works, a machine that a     *)
(* script has begun to clean and not finished is still among the nodes of    *)
(* the API, so that a repeated uninstall comes back to it; ExecuteUninstall  *)
(* deletes a node only after Run returned success.                           *)
NeverForgotten ==
    ApiUp => \A m \in Machines : left[m] \notin {Everything, {}} => m \in nodes

Workers == Machines \ Masters

Before(n, m) ==
    \/ n \in Workers /\ m \in Masters
    \/ n # Local /\ m = Local

(* README.md:322-324: workers are reset first, other control-plane nodes     *)
(* next and Master0 last; whenever a script is started on a machine, every   *)
(* discovered node that comes before it is clean and gone from the API.      *)
OrderKept ==
    [][\A m \in Machines :
          (\E a \in Attempts : script'[m][a] = "reset" /\ script[m][a] = "off") =>
              \A n \in found :
                  Before(n, m) => Clean(n) /\ n \notin nodes]_vars

(* "uninstalled successfully; cleaned n nodes": nothing of the cluster is    *)
(* left on any of them, whatever earlier attempts had begun.                 *)
SuccessMeansClean == \A m \in reported : Clean(m)

(* A repeated uninstall gets through whatever the earlier ones left half     *)
(* done on the other machines.  Only Master0 half cleaned can stop it: with  *)
(* the API of Master0 gone, DiscoverUninstallNodes refuses every repetition, *)
(* although the script itself could be repeated (uninstall_executor.go:      *)
(* 90-91).                                                                   *)
AllClean == \A m \in Machines \ Late : Clean(m)

Finishes == <>[]AllClean \/ <>[](~ApiUp /\ ~Clean(Local))
=============================================================================
