---------------------------- MODULE MCChildWatch ----------------------------
(***************************************************************************)
(* Small instances of ChildWatch: subject s1 with children c1 and c2 in two *)
(* namespaces, s2 with child d, all of one kind.  With SameName the         *)
(* subjects have the same name, and so the same selector.                   *)
(***************************************************************************)
EXTENDS ChildWatch

CONSTANTS s1, s2, c1, c2, d, ns1, ns2, SameName

MCOwnerOf    == [c \in Child |-> IF c = d THEN s2 ELSE s1]
MCKindOf     == [c \in Child |-> "K"]
MCNsOf       == [c \in Child |-> IF c = c1 THEN ns1 ELSE ns2]
MCSelectorOf == [s \in Subject |-> IF SameName THEN s1 ELSE s]
=============================================================================
