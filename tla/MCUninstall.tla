---------------------------- MODULE MCUninstall -----------------------------
(* Master0, a second master, a worker, and a worker that is still joining.   *)
EXTENDS UninstallProperties
=============================================================================
