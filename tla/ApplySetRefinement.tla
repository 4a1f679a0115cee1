------------------------- MODULE ApplySetRefinement -------------------------
(***************************************************************************)
(* ApplySet implements ManagedSet, for any objects, group-kinds and        *)
(* namespaces: alone in its cluster in every step, and among other clients *)
(* in every step of its own, as long as they do not replace members.       *)
(***************************************************************************)
EXTENDS ApplySetProofs

\* Nobody but the controller removes or replaces the objects of the set.
Alone == Faults \cap {"foreign", "recreate", "crd"} = {}

\* What this run applied is in the set.
AppliedIsMember == applied \subseteq member

SetInv == AppliedIsMember /\ SuccessIsApplied

LEMMA AloneIsNotReplaced ==
  ASSUME Alone
  PROVE  NotReplaced
BY DEF Alone, NotReplaced

LEMMA InitSet == Init => SetInv
BY DEF Init, SetInv, AppliedIsMember, SuccessIsApplied

\* A run may end with success when all that is desired is in the set.
LEMMA ReturnSet ==
  ASSUME NEW result, Return(result), member' = member,
         result = "ok" => desired \subseteq member
  PROVE  SetInv'
BY DEF Return, SetInv, AppliedIsMember, SuccessIsApplied

LEMMA NextSet == Alone /\ TypeInv /\ KeepInv /\ SetInv /\ [Next]_vars => SetInv'
<1> SUFFICES ASSUME Alone, TypeInv, KeepInv, SetInv, [Next]_vars PROVE SetInv'
  OBVIOUS
<1> USE DEF SetInv, AppliedIsMember
<1>1. CASE StartRun
  BY <1>1 DEF StartRun, SuccessIsApplied, clusterVars
<1>2. CASE WithParent
  <2>1. CASE Return("failed")
    BY <1>2, <2>1, ReturnSet DEF WithParent, FetchParent, clusterVars
  <2>2. CASE pc' = "apply" /\ UNCHANGED <<applied>>
    BY <1>2, <2>2 DEF WithParent, FetchParent, SuccessIsApplied, clusterVars
  <2> QED
    BY <1>2, <2>1, <2>2, Zenon DEF WithParent, FetchParent
<1>3. ASSUME NEW o \in Object, Apply(o) PROVE SetInv'
  BY <1>3 DEF Apply, SuccessIsApplied
<1>4. CASE EndApply
  <2>1. CASE prune /\ failed = {}
    BY <1>4, <2>1 DEF EndApply, SuccessIsApplied, clusterVars, runVars
  <2>2. CASE ~(prune /\ failed = {})
    <3>1. Verdict(failed) = "ok" => desired \subseteq applied
      BY <1>4 DEF Verdict, EndApply, Pending
    <3> QED
      BY <1>4, <2>2, <3>1, ReturnSet DEF EndApply, clusterVars
  <2> QED
    BY <2>1, <2>2
<1>5. ASSUME NEW t, FindObjectsToPrune(t) PROVE SetInv'
  BY <1>5 DEF FindObjectsToPrune, SuccessIsApplied, clusterVars
<1>6. CASE EndList
  BY <1>6, ReturnSet DEF EndList, SuccessIsApplied, clusterVars, runVars
<1>7. ASSUME NEW o, Delete(o) PROVE SetInv'
  BY <1>7 DEF Delete, SuccessIsApplied, KeepInv, FoundIsStale
<1>8. CASE FinishPrune
  <2>1. desired \subseteq member
    BY <1>8 DEF FinishPrune, KeepInv, FoundIsStale
  <2> QED
    BY <1>8, <2>1, ReturnSet DEF FinishPrune, clusterVars
<1>9. CASE Crash
  BY <1>9, ReturnSet DEF Crash, clusterVars
<1>10. CASE TouchParent \/ StripLabel
  BY <1>10 DEF TouchParent, StripLabel, SuccessIsApplied, clusterVars, runVars
<1>11. ASSUME NEW o \in Object, ForeignCreate(o) \/ ForeignDelete(o) \/ Recreate(o)
       PROVE  SetInv'
  BY <1>11 DEF ForeignCreate, ForeignDelete, Recreate, Alone, MayFail
<1>12. ASSUME NEW k \in GroupKind, RemoveKind(k) \/ InstallKind(k)
       PROVE  SetInv'
  BY <1>12 DEF RemoveKind, InstallKind, Alone, MayFail
<1>13. CASE UNCHANGED vars
  BY <1>13 DEF vars, clusterVars, runVars, SuccessIsApplied
<1> QED
  BY <1>1, <1>2, <1>3, <1>4, <1>5, <1>6, <1>7, <1>8, <1>9, <1>10, <1>11, <1>12, <1>13
     DEF Next, RunStep, Environment

\* When ApplyOnce reports success every object of the manifest is a member,
\* whatever requests failed and wherever earlier runs stopped.
THEOREM SuccessMeansApplied ==
  ASSUME Alone
  PROVE  Spec => []SuccessIsApplied
<1>1. SetInv => SuccessIsApplied
  BY DEF SetInv
<1>2. TypeInv /\ KeepInv /\ [Next]_vars => KeepInv'
  BY NextKeep, AloneIsNotReplaced
<1>3. TypeInv /\ KeepInv /\ SetInv /\ [Next]_vars => SetInv'
  BY NextSet
<1> QED
  BY <1>1, <1>2, <1>3, InitType, NextType, InitKeep, InitSet, PTL DEF Spec

-----------------------------------------------------------------------------
(***************************************************************************)
(* The refinement: each step of ApplySet that is not another client's is a *)
(* step of ManagedSet under the mapping, or leaves all of its variables as *)
(* they are.                                                               *)
(***************************************************************************)
Named == {o \in Object : Covers(parent, o)}

StepInv == TypeInv /\ LeakInv /\ KeepInv

LEMMA NamedSame ==
  ASSUME parent'.gks = parent.gks, parent'.nss = parent.nss
  PROVE  Named' = Named
BY DEF Named, Covers

\* A run that ends leaves no member outside what the stored parent names.
LEMMA EndIsFail ==
  ASSUME StepInv, LeakInv', pc # "idle", NEW result \in {"failed", "crashed"}, Return(result),
         member' = member, prune' = prune
  PROVE  Promise!Fail
<1>1. member \subseteq Named' /\ Named' \subseteq Object
  BY DEF StepInv, TypeInv, TypeOK, LeakInv, NoLeak, Named
<1> QED
  BY <1>1 DEF Return, Promise!Fail, Promise!End, Named

LEMMA EndIsSucceed ==
  ASSUME StepInv, LeakInv', pc # "idle", Return("ok"), member' = member, prune' = prune,
         desired \subseteq applied, prune => member \subseteq desired
  PROVE  Promise!Succeed
<1>1. member \subseteq Named' /\ Named' \subseteq Object
  BY DEF StepInv, TypeInv, TypeOK, LeakInv, NoLeak, Named
<1> QED
  BY <1>1 DEF Return, Promise!Succeed, Promise!End, Named

LEMMA StepRefines ==
  StepInv /\ LeakInv' /\ [Next]_vars => OthersStep \/ [Promise!Next]_(Promise!vars)
<1> SUFFICES ASSUME StepInv, LeakInv', [Next]_vars
             PROVE  OthersStep \/ [Promise!Next]_(Promise!vars)
  OBVIOUS
<1>a. (parent' = parent) => Named' = Named
  BY NamedSame
<1>1. CASE StartRun
  <2>1. Promise!Begin
    BY <1>1, <1>a DEF StartRun, clusterVars, Promise!Begin, Named, StepInv, TypeInv, TypeOK
  <2> QED
    BY <2>1 DEF Promise!Next
<1>2. CASE WithParent
  <2>1. UNCHANGED <<member, prune>> /\ pc = "parent"
    BY <1>2 DEF WithParent, FetchParent, clusterVars
  <2>2. CASE Return("failed")
    BY <2>1, <2>2, EndIsFail DEF Promise!Next
  <2>3. CASE pc' = "apply" /\ UNCHANGED <<outcome, desired, applied>> /\ ~Return("failed")
    <3>1. PICK held, cur :
            /\ held = [mem EXCEPT !.id = TRUE]
            /\ cur = [gks |-> mem.gks, nss |-> mem.nss \cup HomeNs]
      BY Zenon
    <3>2. UpdateParent(held, BuildParentPatch("superset", cur), TRUE)
      BY <1>2, <2>3, <3>1, Zenon DEF WithParent, FetchParent
    <3>3. /\ mem.gks \subseteq BuildParentPatch("superset", cur).gks
          /\ mem.nss \subseteq BuildParentPatch("superset", cur).nss \cup HomeNs
      BY <3>1 DEF BuildParentPatch
    <3>4. mem.gks = parent.gks /\ mem.nss = parent.nss
      BY <2>1 DEF StepInv, LeakInv, HeldIsStored
    <3>5. parent.gks \subseteq parent'.gks /\ parent.nss \subseteq parent'.nss \cup HomeNs
      BY <3>2, <3>3, <3>4 DEF UpdateParent
    <3>6. Named \subseteq Named' /\ Named' \subseteq Object
      BY <3>5 DEF Named, Covers
    <3> QED
      BY <2>1, <2>3, <3>6 DEF Promise!Next, Promise!Widen, Named
  <2> QED
    BY <1>2, <2>2, <2>3, Zenon DEF WithParent, FetchParent
<1>3. ASSUME NEW o \in Object, Apply(o) PROVE OthersStep \/ [Promise!Next]_(Promise!vars)
  <2>1. /\ o \in desired /\ pc = "apply"
        /\ UNCHANGED <<parent, pc, desired, outcome, prune>>
    BY <1>3 DEF Apply, Pending, parentVars
  <2>2. CASE UNCHANGED <<member, applied>>
    BY <1>a, <2>1, <2>2 DEF Promise!vars, Named
  <2>3. CASE member' = member \cup {o} /\ applied' \in {applied, applied \cup {o}}
    <3>1. o \in Named
      BY <2>1, <2>3 DEF LeakInv, NoLeak, Named, Covers
    <3>2. Promise!Adopt(o)
      BY <1>a, <2>1, <2>3, <3>1 DEF Promise!Adopt, Named
    <3> QED
      BY <3>2 DEF Promise!Next
  <2> QED
    BY <1>3, <2>2, <2>3 DEF Apply
<1>4. CASE EndApply
  <2>1. UNCHANGED <<member, prune, parent>> /\ pc = "apply"
    BY <1>4 DEF EndApply, clusterVars, parentVars
  <2>2. CASE prune /\ failed = {}
    BY <1>4, <1>a, <2>1, <2>2 DEF EndApply, runVars, Promise!vars, Named
  <2>3. CASE ~prune /\ failed = {}
    <3>1. Return("ok") /\ desired \subseteq applied
      BY <1>4, <2>3 DEF EndApply, Verdict, Pending
    <3> QED
      BY <2>1, <2>3, <3>1, EndIsSucceed DEF Promise!Next
  <2>4. CASE failed # {}
    BY <1>4, <2>1, <2>4, EndIsFail DEF EndApply, Verdict, Promise!Next
  <2> QED
    BY <2>2, <2>3, <2>4
<1>5. ASSUME NEW t, FindObjectsToPrune(t) PROVE OthersStep \/ [Promise!Next]_(Promise!vars)
  BY <1>5, <1>a DEF FindObjectsToPrune, clusterVars, parentVars, Promise!vars, Named
<1>6. CASE EndList
  <2>1. UNCHANGED <<member, prune, parent>> /\ pc = "list"
    BY <1>6 DEF EndList, clusterVars, parentVars
  <2>2. CASE Return("failed")
    BY <2>1, <2>2, EndIsFail DEF Promise!Next
  <2>3. CASE pc' = "delete" /\ UNCHANGED <<runVars, outcome>>
    BY <1>a, <2>1, <2>3 DEF runVars, Promise!vars, Named
  <2> QED
    BY <1>6, <2>2, <2>3 DEF EndList
<1>7. ASSUME NEW o \in Object, Delete(o) PROVE OthersStep \/ [Promise!Next]_(Promise!vars)
  <2>1. /\ pc = "delete" /\ o \in found
        /\ UNCHANGED <<parent, pc, desired, applied, outcome, prune>>
    BY <1>7 DEF Delete, parentVars
  <2>2. CASE member' = member
    BY <1>a, <2>1, <2>2 DEF Promise!vars, Named
  <2>3. CASE member' = member \ {o} /\ o \in member
    <3>1. o \in member \ desired /\ desired \subseteq applied /\ prune
      BY <2>1, <2>3 DEF StepInv, KeepInv, FoundIsStale, LeakInv, AppliedIsValid
    <3>2. Promise!Release(o)
      BY <1>a, <2>1, <2>3, <3>1 DEF Promise!Release, Named
    <3> QED
      BY <3>2 DEF Promise!Next
  <2> QED
    BY <1>7, <2>2, <2>3 DEF Delete
<1>8. CASE FinishPrune
  <2>1. UNCHANGED <<member, prune>> /\ pc = "delete" /\ Return(Verdict(unpruned))
    BY <1>8 DEF FinishPrune, clusterVars
  <2>2. member \subseteq desired /\ desired \subseteq applied
    BY <1>8, <2>1 DEF FinishPrune, StepInv, LeakInv, UndesiredIsLeft, AppliedIsValid
  <2>3. CASE unpruned = {}
    BY <2>1, <2>2, <2>3, EndIsSucceed DEF Verdict, Promise!Next
  <2>4. CASE unpruned # {}
    BY <2>1, <2>4, EndIsFail DEF Verdict, Promise!Next
  <2> QED
    BY <2>3, <2>4
<1>9. CASE Crash
  BY <1>9, EndIsFail DEF Crash, clusterVars, Promise!Next
<1>10. CASE TouchParent \/ StripLabel
  <2>1. parent'.gks = parent.gks /\ parent'.nss = parent.nss
    BY <1>10 DEF TouchParent, StripLabel, StepInv, TypeInv, TypeOK, Metadata
  <2> QED
    BY <1>10, <2>1, NamedSame DEF TouchParent, StripLabel, clusterVars, runVars, Promise!vars, Named
<1>11. CASE OthersStep
  BY <1>11
<1>13. CASE UNCHANGED vars
  BY <1>13, <1>a DEF vars, clusterVars, parentVars, runVars, Promise!vars, Named
<1> QED
  BY <1>1, <1>2, <1>3, <1>4, <1>5, <1>6, <1>7, <1>8, <1>9, <1>10, <1>11, <1>13
     DEF Next, RunStep, Environment, OthersStep

LEMMA InitRefines == Init => Promise!Init
BY DEF Init, Promise!Init, Covers, Bare

\* Among other clients that create and delete objects and install and remove kinds
\* between any two of its requests, ApplyOnce takes in, gives up and reports only as
\* the managed set allows: it gives up nothing that is desired, and nothing at all
\* before it has applied everything; it reports success only when it has, and when
\* no other member is left.
THEOREM ApplySetKeepsItsPart ==
  ASSUME Benign, NotReplaced
  PROVE  Spec => KeepsItsPart
<1>1. TypeInv /\ LeakInv /\ [Next]_vars => LeakInv'
  BY NextLeak
<1>2. TypeInv /\ KeepInv /\ [Next]_vars => KeepInv'
  BY NextKeep
<1>3. StepInv /\ LeakInv' /\ [Next]_vars => [OthersStep \/ [Promise!Next]_(Promise!vars)]_vars
  BY StepRefines
<1>4. Init => StepInv /\ Promise!Init
  BY InitType, InitLeak, InitKeep, InitRefines DEF StepInv
<1>5. StepInv /\ [Next]_vars => StepInv' /\ LeakInv'
  BY <1>1, <1>2, NextType DEF StepInv
<1> QED
  BY <1>3, <1>4, <1>5, PTL DEF Spec, KeepsItsPart

\* ApplyOnce implements the managed set: with requests refused or their answers
\* lost, the controller stopping anywhere and other clients writing the parent,
\* every run takes in, gives up and reports only as ManagedSet allows.
THEOREM ApplySetIsManaged ==
  ASSUME Benign, Alone
  PROVE  Spec => KeepsPromise
<1>1. TypeInv /\ LeakInv /\ [Next]_vars => LeakInv'
  BY NextLeak
<1>2. TypeInv /\ KeepInv /\ [Next]_vars => KeepInv'
  BY NextKeep, AloneIsNotReplaced
<1>3. ~OthersStep
  BY DEF Alone, OthersStep, ForeignCreate, ForeignDelete, Recreate, RemoveKind, InstallKind, MayFail
<1>4. StepInv /\ LeakInv' /\ [Next]_vars => [Promise!Next]_(Promise!vars)
  BY <1>3, StepRefines
<1>5. Init => StepInv /\ Promise!Init
  BY InitType, InitLeak, InitKeep, InitRefines DEF StepInv
<1>6. StepInv /\ [Next]_vars => StepInv' /\ LeakInv'
  BY <1>1, <1>2, NextType DEF StepInv
<1> QED
  BY <1>4, <1>5, <1>6, PTL DEF Spec, KeepsPromise, Promise!Spec
=============================================================================
