--------------------------- MODULE MCObjectTracker ---------------------------
(***************************************************************************)
(* A small instance of ObjectTracker: two objects of one kind and name, in *)
(* two namespaces of which either or none is the default, and two          *)
(* reconciles that share the tracker; either two are alike.                *)
(***************************************************************************)
EXTENDS ObjectTracker, TLC

CONSTANTS a, b, k1, w1, w2

MCKindOf == [o \in Object |-> k1]
MCListings == {[o \in Object |-> o]} \cup {[o \in Object |-> d] : d \in Object}
MCSymmetry == Permutations(Worker) \cup Permutations(Object)
=============================================================================
