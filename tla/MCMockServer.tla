---------------------------- MODULE MCMockServer ----------------------------
(***************************************************************************)
(* Two objects in two namespaces, two clients that write, two watches.     *)
(***************************************************************************)
EXTENDS MockServer, TLC

CONSTANTS i1, i2, n1, n2, c1, c2, w1, w2

MCNsOf == [id \in Id |-> IF id = i1 THEN n1 ELSE n2]
MCOpt  == [w \in Watcher |-> IF w = w1 THEN AllNs ELSE n1]
MCOptAll == [w \in Watcher |-> AllNs]

Symmetry == Permutations(Client)
=============================================================================
