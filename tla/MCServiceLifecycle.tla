-------------------------- MODULE MCServiceLifecycle ---------------------------
(* ServiceLifecycle with constants for TLC.  The manifests in deploy/k8s say *)
(* 5, 15 and 30 seconds; the ticks of the cfg keep their order, with two     *)
(* ticks of draining for the endpoint to be removed in.                      *)
EXTENDS ServiceLifecycle

CONSTANTS r1, r2, r3
================================================================================
