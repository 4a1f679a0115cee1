---------------------------- MODULE MCReconciler ----------------------------
(***************************************************************************)
(* A small instance of Reconciler: a deployment d and a service s; the     *)
(* second manifest drops the service, the third needs a newer operator.    *)
(***************************************************************************)
EXTENDS Reconciler

CONSTANTS d, s

MCManifestOf == [g \in Gen |-> IF g = 2 THEN {d} ELSE {d, s}]
MCTypeOf     == [o \in Object |-> IF o = d THEN "deployment" ELSE "service"]
=============================================================================
