----------------------------- MODULE ManagedSet -----------------------------
(***************************************************************************)
(* What an ApplySet promises: between runs it knows where all its members  *)
(* are; a run takes in wanted objects, gives up the others only when it    *)
(* has taken in all wanted ones, and succeeds only then, when no other     *)
(* members are left.  Nothing is said of parents, annotations, requests    *)
(* or lists.                                                               *)
(***************************************************************************)
CONSTANT Object

VARIABLES
  member,  \* the objects of the set
  named,   \* the objects that would be found if they were members
  want,    \* what the current or last run was asked for
  prune,   \* whether runs give up what is no longer wanted
  busy,    \* a run is going on
  taken,   \* what it knows it has taken in
  result   \* of the last run

vars == <<member, named, want, prune, busy, taken, result>>

Init ==
  /\ member = {} /\ named = {} /\ want = {}
  /\ prune \in BOOLEAN /\ busy = FALSE /\ taken = {} /\ result = "none"

Begin ==
  /\ ~busy /\ busy'
  /\ want' \subseteq Object
  /\ UNCHANGED <<member, named, prune, taken, result>>

Widen ==
  /\ busy
  /\ named \subseteq named' /\ named' \subseteq Object
  /\ UNCHANGED <<member, want, prune, busy, taken, result>>

\* The run may not learn that it took the object in.
Adopt(o) ==
  /\ busy /\ o \in want \cap named
  /\ member' = member \cup {o}
  /\ taken' \in {taken, taken \cup {o}}
  /\ UNCHANGED <<named, want, prune, busy, result>>

Release(o) ==
  /\ busy /\ prune
  /\ want \subseteq taken /\ o \in member \ want
  /\ member' = member \ {o}
  /\ UNCHANGED <<named, want, prune, busy, taken, result>>

\* The end of a run may also forget places where no member is.
End(outcome) ==
  /\ busy /\ ~busy'
  /\ member \subseteq named' /\ named' \subseteq Object
  /\ result' = outcome /\ taken' = {}
  /\ UNCHANGED <<member, want, prune>>

Succeed ==
  /\ want \subseteq taken
  /\ prune => member \subseteq want
  /\ End("ok")

Fail == End("failed") \/ End("crashed")

Next ==
  \/ Begin \/ Widen \/ Succeed \/ Fail
  \/ \E o \in Object : Adopt(o) \/ Release(o)

Spec == Init /\ [][Next]_vars
=============================================================================
