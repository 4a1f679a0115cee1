----------------------------- MODULE MCApplySet -----------------------------
(***************************************************************************)
(* Small instances of ApplySet: objects a1 and a2 of one namespaced         *)
(* group-kind, a1 in the parent's namespace and a2 in another, b of a       *)
(* cluster-scoped one, and x, whose manifest lacks the namespace its        *)
(* group-kind calls for.                                                    *)
(***************************************************************************)
EXTENDS ApplySet

CONSTANTS a1, a2, b, x, ns1, ns2, A, B

MCKindOf == [o \in Object |-> IF o = b THEN B ELSE A]
MCNsOf   == [o \in Object |-> CASE o = a1 -> ns1 [] o = a2 -> ns2 [] OTHER -> NoNs]
=============================================================================
