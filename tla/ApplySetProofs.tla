--------------------------- MODULE ApplySetProofs ---------------------------
(***************************************************************************)
(* Proofs about ApplySet, for any objects, group-kinds and namespaces.     *)
(***************************************************************************)
EXTENDS ApplySet, TLAPS

InRun == pc \in {"apply", "list", "delete"}

\* The variables of a run are empty until the run reaches the phase that
\* fills them.
Unused ==
  /\ ~InRun => applied = {} /\ failed = {} /\ visited = {}
  /\ pc \notin {"list", "delete"} => listed = {} /\ listErr = FALSE /\ found = {}
  /\ pc # "delete" => pruned = {} /\ unpruned = {}

TypeInv == TypeOK /\ Unused

LEMMA UpdatedType ==
  ASSUME TypeOK
  PROVE  Updated \in Scope
<1>1. Updated.gks \subseteq GroupKind
  BY ConstantsOK DEF TypeOK, Updated
<1>2. Updated.nss \subseteq Namespace
  BY ConstantsOK DEF TypeOK, Updated
<1> QED
  BY <1>1, <1>2 DEF Updated, Scope

LEMMA PatchType ==
  ASSUME TypeOK, NEW mode, NEW cur \in Scope
  PROVE  BuildParentPatch(mode, cur) \in Metadata
BY UpdatedType DEF BuildParentPatch, Metadata, Scope, EmptyScope

\* A parent update keeps the types of the parent's three copies.
LEMMA UpdateParentType ==
  ASSUME TypeOK, NEW seen, NEW target \in Metadata, NEW ok \in BOOLEAN,
         UpdateParent(seen, target, ok)
  PROVE  /\ parent' \in Metadata /\ prior' \in Metadata /\ mem' \in Metadata
         /\ fresh' \in BOOLEAN
BY Zenon DEF TypeOK, UpdateParent

LEMMA ReturnType ==
  ASSUME TypeInv, NEW result \in Outcome, Return(result)
  PROVE  /\ pc' = "idle" /\ outcome' \in Outcome
         /\ desired' \subseteq Object /\ mapped' \subseteq GroupKind /\ current' \in Scope
         /\ visited' = {} /\ applied' = {} /\ failed' = {}
         /\ listed' = {} /\ listErr' = FALSE /\ found' = {} /\ pruned' = {} /\ unpruned' = {}
BY DEF TypeInv, TypeOK, Return, Scope, EmptyScope

LEMMA InitType == Init => TypeInv
<1>1. Bare \in Metadata /\ EmptyScope \in Scope
  BY DEF Bare, Metadata, EmptyScope, Scope
<1> QED
  BY <1>1, Zenon DEF Init, TypeInv, TypeOK, Unused, InRun, Outcome

LEMMA NextType == TypeInv /\ [Next]_vars => TypeInv'
<1> SUFFICES ASSUME TypeInv, [Next]_vars PROVE TypeInv'
  OBVIOUS
<1> USE DEF TypeInv
<1>1. CASE StartRun
  BY <1>1, Zenon DEF StartRun, ReadParent, TypeOK, Unused, InRun, clusterVars
<1>2. CASE WithParent
  <2>1. PICK held, cur :
          /\ held = [mem EXCEPT !.id = TRUE]
          /\ cur = [gks |-> mem.gks, nss |-> mem.nss \cup HomeNs]
    BY Zenon
  <2>2. held \in Metadata /\ cur \in Scope
    BY <2>1, Zenon DEF TypeOK, Metadata, Scope, HomeNs
  <2>3. BuildParentPatch("superset", cur) \in Metadata
    BY <2>2, PatchType
  <2>4. "failed" \in Outcome
    BY DEF Outcome
  <2>5. CASE mem' = held /\ Return("failed") /\ UNCHANGED <<parent, prior, fresh>>
    BY <1>2, <2>2, <2>4, <2>5, ReturnType, Zenon DEF WithParent, FetchParent, clusterVars, TypeOK, Unused, InRun
  <2>6. CASE UpdateParent(held, BuildParentPatch("superset", cur), FALSE) /\ Return("failed")
    BY <1>2, <2>2, <2>3, <2>4, <2>6, ReturnType, UpdateParentType, Zenon
       DEF WithParent, FetchParent, clusterVars, TypeOK, Unused, InRun
  <2>7. CASE /\ UpdateParent(held, BuildParentPatch("superset", cur), TRUE)
             /\ current' = cur
             /\ pc' = "apply"
             /\ UNCHANGED <<outcome, desired, mapped, visited, applied, failed,
                            listed, listErr, found, pruned, unpruned>>
    BY <1>2, <2>2, <2>3, <2>7, UpdateParentType, Zenon
       DEF WithParent, FetchParent, clusterVars, TypeOK, Unused, InRun
  <2> QED
    BY <1>2, <2>1, <2>5, <2>6, <2>7, Zenon DEF WithParent, FetchParent
<1>3. ASSUME NEW o \in Object, Apply(o) PROVE TypeInv'
  BY <1>3 DEF Apply, Pending, TypeOK, Unused, InRun, parentVars
<1>4. CASE EndApply
  <2>1. Verdict(failed) \in Outcome
    BY DEF Verdict, Outcome
  <2> QED
    BY <1>4, <2>1, ReturnType, Zenon
       DEF EndApply, TypeOK, Unused, InRun, clusterVars, parentVars, runVars
<1>5. ASSUME NEW t \in GroupKind \X (Namespace \cup {NoNs}), FindObjectsToPrune(t)
      PROVE  TypeInv'
  <2>1. Listing(t) \subseteq Object
    BY DEF Listing, TypeOK
  <2> QED
    BY <1>5, <2>1, Zenon DEF FindObjectsToPrune, TypeOK, Unused, InRun, clusterVars, parentVars
<1>6. CASE EndList
  <2>1. "failed" \in Outcome
    BY DEF Outcome
  <2> QED
    BY <1>6, <2>1, ReturnType, Zenon
       DEF EndList, TypeOK, Unused, InRun, clusterVars, parentVars, runVars
<1>7. ASSUME NEW o \in Object, Delete(o) PROVE TypeInv'
  BY <1>7 DEF Delete, TypeOK, Unused, InRun, parentVars
<1>8. CASE FinishPrune
  <2>1. BuildParentPatch("latest", current) \in Metadata
    BY PatchType DEF TypeOK
  <2>2. Verdict(unpruned) \in Outcome
    BY DEF Verdict, Outcome
  <2> QED
    BY <1>8, <2>1, <2>2, ReturnType, UpdateParentType, Zenon
       DEF FinishPrune, TypeOK, Unused, InRun, clusterVars
<1>9. CASE Crash
  <2>1. "crashed" \in Outcome
    BY DEF Outcome
  <2> QED
    BY <1>9, <2>1, ReturnType, Zenon DEF Crash, TypeOK, Unused, InRun, clusterVars, parentVars
<1>10. CASE TouchParent \/ StripLabel
  BY <1>10, ZenonT(60) DEF TouchParent, StripLabel, TypeOK, Unused, InRun, Metadata, clusterVars, runVars
<1>11. ASSUME NEW o \in Object, ForeignCreate(o) \/ ForeignDelete(o) \/ Recreate(o)
       PROVE  TypeInv'
  BY <1>11 DEF ForeignCreate, ForeignDelete, Recreate, TypeOK, Unused, InRun,
               clusterVars, parentVars, runVars
<1>12. ASSUME NEW k \in GroupKind, RemoveKind(k) \/ InstallKind(k)
       PROVE  TypeInv'
  BY <1>12 DEF RemoveKind, InstallKind, TypeOK, Unused, InRun, parentVars, runVars
<1>13. CASE UNCHANGED vars
  BY <1>13 DEF vars, clusterVars, parentVars, runVars, TypeOK, Unused, InRun
<1> QED
  BY <1>1, <1>2, <1>3, <1>4, <1>5, <1>6, <1>7, <1>8, <1>9, <1>10, <1>11, <1>12, <1>13
     DEF Next, RunStep, Environment

\* Every variable keeps its type in every run, with every fault allowed.
THEOREM TypeCorrect == Spec => []TypeOK
<1>1. Spec => []TypeInv
  BY InitType, NextType, PTL DEF Spec
<1> QED
  BY <1>1, PTL DEF TypeInv

\* The parent object a run works with names what the API server's names.
HeldIsStored ==
  pc = "parent" => mem.gks = parent.gks /\ mem.nss = parent.nss

\* While a run applies and prunes, the stored parent names everything the run
\* started from and everything it applies.
StoredIsSuperset ==
  InRun => /\ current.gks \cup Updated.gks \subseteq parent.gks
           /\ current.nss \cup Updated.nss \subseteq parent.nss \cup HomeNs
           /\ HomeNs \subseteq current.nss

\* Members are where the run looks for them, or are about to be kept.
MembersAccounted ==
  InRun => \A o \in member : Covers(current, o) \/ o \in desired

\* What was applied could be applied; nothing is pruned unless all of it was.
AppliedIsValid ==
  /\ \A o \in applied : KindOf[o] \in mapped /\ WellScoped(o)
  /\ visited \subseteq applied
  /\ pc \in {"list", "delete"} => applied = desired /\ prune

\* What the list tasks have looked at is found or desired.
ListedIsFound ==
  pc = "list" /\ ~listErr =>
    \A t \in listed : \A o \in Listing(t) : o \in found \cup desired

\* What is left to delete includes every member that is not desired.
UndesiredIsLeft ==
  pc = "delete" => \A o \in member : o \in desired \/ o \in found \ (pruned \cup unpruned)

LeakInv ==
  /\ NoLeak /\ SuccessIsPruned
  /\ HeldIsStored /\ StoredIsSuperset /\ MembersAccounted
  /\ AppliedIsValid /\ ListedIsFound /\ UndesiredIsLeft

\* No delete is refused, and the parent object a run starts from is the one
\* stored in the API server.
Benign == Faults \cap {"delete", "stale", "reuse"} = {}

\* What a run applies is named by the annotations it writes.
LEMMA UpdatedCovers ==
  ASSUME TypeOK, NEW o \in desired, KindOf[o] \in mapped, WellScoped(o)
  PROVE  Covers(Updated, o)
<1>1. o \in Object /\ KindOf[o] \in GroupKind /\ NsOf[o] \in Namespace \cup {NoNs}
  BY ConstantsOK DEF TypeOK
<1>2. KindOf[o] \in Updated.gks
  BY <1>1 DEF Updated
<1>3. KindOf[o] \in NamespacedKind => NsOf[o] \in Updated.nss
  BY <1>1 DEF Updated, WellScoped
<1> QED
  BY <1>2, <1>3 DEF Covers

\* Ending a run without touching the parent or adding a member is safe, and
\* success may only be reported when the members are desired.
LEMMA ReturnLeak ==
  ASSUME TypeInv, LeakInv, NEW result, Return(result),
         member' = member, prune' = prune, parent' = parent,
         result = "ok" /\ prune => member \subseteq desired
  PROVE  LeakInv'
BY DEF LeakInv, Return, NoLeak, SuccessIsPruned, HeldIsStored, StoredIsSuperset,
       MembersAccounted, AppliedIsValid, ListedIsFound, UndesiredIsLeft, InRun, Covers

LEMMA InitLeak == Init => LeakInv
BY DEF Init, LeakInv, NoLeak, SuccessIsPruned, HeldIsStored, StoredIsSuperset,
       MembersAccounted, AppliedIsValid, ListedIsFound, UndesiredIsLeft, InRun

LEMMA StartRunLeak ==
  ASSUME TypeInv, LeakInv, Benign, StartRun
  PROVE  LeakInv'
BY ZenonT(60) DEF StartRun, ReadParent, MayFail, Benign, clusterVars, LeakInv, NoLeak,
       SuccessIsPruned, HeldIsStored, StoredIsSuperset, MembersAccounted, AppliedIsValid,
       ListedIsFound, UndesiredIsLeft, InRun, Covers, TypeInv, Unused

\* WithParent only ever widens what the stored parent names.
LEMMA WithParentLeak ==
  ASSUME TypeInv, LeakInv, Benign, WithParent
  PROVE  LeakInv'
<1> DEFINE held == [mem EXCEPT !.id = TRUE]
           cur  == [gks |-> mem.gks, nss |-> mem.nss \cup HomeNs]
           patch == BuildParentPatch("superset", cur)
<1>1. /\ held.gks = mem.gks /\ held.nss = mem.nss
      /\ mem.gks = parent.gks /\ mem.nss = parent.nss
  BY DEF LeakInv, HeldIsStored, WithParent, TypeInv, TypeOK, Metadata
<1>2. /\ patch.gks = mem.gks \cup Updated.gks
      /\ patch.nss = (mem.nss \cup HomeNs \cup Updated.nss) \ HomeNs
  BY DEF BuildParentPatch
<1>3. /\ parent.gks \subseteq parent'.gks /\ parent.nss \subseteq parent'.nss \cup HomeNs
      /\ parent' = parent \/ parent' = patch
  BY <1>1, <1>2, SMTT(60) DEF WithParent, FetchParent, UpdateParent
<1>4. member' = member /\ live' = live /\ prune' = prune
  BY DEF WithParent, FetchParent, clusterVars
<1>5. NoLeak'
  BY <1>3, <1>4 DEF LeakInv, NoLeak, Covers
<1>6. CASE Return("failed")
  BY <1>4, <1>5, <1>6 DEF Return, LeakInv, SuccessIsPruned, HeldIsStored, StoredIsSuperset,
       MembersAccounted, AppliedIsValid, ListedIsFound, UndesiredIsLeft, InRun
<1>7. CASE /\ UpdateParent(held, patch, TRUE)
           /\ current' = cur
           /\ pc' = "apply"
           /\ UNCHANGED <<outcome, desired, mapped, visited, applied, failed,
                          listed, listErr, found, pruned, unpruned>>
  <2>1. Updated' = Updated
    BY <1>7 DEF Updated
  <2>2. patch.gks \subseteq parent'.gks /\ patch.nss \subseteq parent'.nss
    BY <1>1, <1>7, Zenon DEF UpdateParent
  <2>3. StoredIsSuperset'
    BY <1>1, <1>2, <1>7, <2>1, <2>2, SMTT(60) DEF StoredIsSuperset
  <2>4. MembersAccounted'
    BY <1>1, <1>4, <1>7 DEF MembersAccounted, LeakInv, NoLeak, Covers
  <2>5. AppliedIsValid'
    BY <1>7 DEF AppliedIsValid, LeakInv, WellScoped
  <2> QED
    BY <1>5, <1>7, <2>3, <2>4, <2>5
       DEF LeakInv, SuccessIsPruned, HeldIsStored, ListedIsFound, UndesiredIsLeft
<1> QED
  BY <1>6, <1>7, Zenon DEF WithParent, FetchParent

\* A member that is added is one of the objects the annotations were written for.
LEMMA ApplyLeak ==
  ASSUME TypeInv, LeakInv, NEW o \in Object, Apply(o)
  PROVE  LeakInv'
<1>1. /\ o \in desired /\ pc = "apply" /\ InRun
      /\ UNCHANGED <<parent, mem, pc, desired, mapped, current, outcome, prune>>
  BY DEF Apply, Pending, InRun, parentVars
<1>2. Updated' = Updated
  BY <1>1 DEF Updated
<1>3. \/ member' = member
      \/ member' = member \cup {o} /\ Covers(Updated, o)
  BY <1>1, UpdatedCovers DEF Apply, TypeInv
<1>4. NoLeak'
  BY <1>1, <1>3 DEF LeakInv, NoLeak, StoredIsSuperset, Covers
<1>5. MembersAccounted'
  BY <1>1, <1>3 DEF LeakInv, MembersAccounted, InRun, Covers
<1>6. StoredIsSuperset'
  BY <1>1, <1>2 DEF LeakInv, StoredIsSuperset, InRun
<1>7. AppliedIsValid'
  BY <1>1 DEF Apply, LeakInv, AppliedIsValid, WellScoped
<1> QED
  BY <1>1, <1>4, <1>5, <1>6, <1>7, ZenonT(60)
     DEF LeakInv, SuccessIsPruned, HeldIsStored, ListedIsFound, UndesiredIsLeft

LEMMA EndApplyLeak ==
  ASSUME TypeInv, LeakInv, EndApply
  PROVE  LeakInv'
<1>1. UNCHANGED <<member, prune, parent>> /\ pc = "apply"
  BY SMTT(60) DEF EndApply, clusterVars, parentVars
<1>2. CASE prune /\ failed = {}
  <2>1. /\ pc' = "list" /\ UNCHANGED runVars /\ outcome' = outcome
    BY <1>2 DEF EndApply
  <2>2. applied = desired
    BY <1>2 DEF EndApply, Pending, TypeInv, TypeOK
  <2>3. listed = {}
    BY <1>1 DEF TypeInv, Unused
  <2>4. StoredIsSuperset'
    BY <1>1, <2>1, ZenonT(60) DEF LeakInv, StoredIsSuperset, InRun, Updated, runVars
  <2>5. MembersAccounted'
    BY <1>1, <2>1 DEF LeakInv, MembersAccounted, InRun, Covers, runVars
  <2>6. AppliedIsValid'
    BY <1>1, <1>2, <2>1, <2>2 DEF LeakInv, AppliedIsValid, WellScoped, runVars
  <2> QED
    BY <1>1, <2>1, <2>3, <2>4, <2>5, <2>6, Zenon
       DEF LeakInv, NoLeak, Covers, SuccessIsPruned, HeldIsStored, ListedIsFound,
           UndesiredIsLeft, runVars
<1>3. CASE ~(prune /\ failed = {})
  <2>1. Return(Verdict(failed))
    BY <1>3 DEF EndApply
  <2>2. ~(Verdict(failed) = "ok" /\ prune)
    BY <1>3 DEF Verdict
  <2> QED
    BY <1>1, <2>1, <2>2, ReturnLeak
<1> QED
  BY <1>2, <1>3

LEMMA FindLeak ==
  ASSUME TypeInv, LeakInv, NEW t, FindObjectsToPrune(t)
  PROVE  LeakInv'
<1>1. /\ pc = "list" /\ t \in Tasks
      /\ UNCHANGED <<member, parent, mem, prune, pc, outcome, desired, mapped, current,
                     visited, applied>>
  BY DEF FindObjectsToPrune, clusterVars, parentVars
<1>2. ListedIsFound'
  <2> SUFFICES ASSUME ~listErr', NEW s \in listed', NEW o \in Listing(s)'
               PROVE  o \in found' \cup desired'
    BY DEF ListedIsFound
  <2>1. /\ o \in Listing(s) /\ listed' = listed \cup {t}
        /\ found' = found \cup (Listing(t) \ visited) /\ listErr' = listErr
    BY <1>1 DEF Listing, FindObjectsToPrune
  <2>2. visited \subseteq desired
    BY SMTT(60) DEF TypeInv, TypeOK, LeakInv, AppliedIsValid
  <2> QED
    BY <1>1, <2>1, <2>2 DEF LeakInv, ListedIsFound
<1>3. StoredIsSuperset'
  BY <1>1, Zenon DEF LeakInv, StoredIsSuperset, InRun, Updated
<1> QED
  BY <1>1, <1>2, <1>3
     DEF LeakInv, NoLeak, Covers, SuccessIsPruned, HeldIsStored, MembersAccounted, InRun,
         AppliedIsValid, WellScoped, UndesiredIsLeft

\* When every task has returned a list, all undesired members are found.
LEMMA EndListLeak ==
  ASSUME TypeInv, LeakInv, EndList
  PROVE  LeakInv'
<1>1. UNCHANGED <<member, prune, parent>> /\ pc = "list"
  BY DEF EndList, clusterVars, parentVars
<1>2. CASE listErr
  <2>1. Return("failed")
    BY <1>2 DEF EndList
  <2> QED
    BY <1>1, <2>1, ReturnLeak
<1>3. CASE ~listErr
  <2>1. pc' = "delete" /\ UNCHANGED runVars /\ outcome' = outcome
    BY <1>3 DEF EndList
  <2>2. ASSUME NEW o \in member, o \notin desired PROVE o \in found
    <3>1. Covers(current, o) /\ HomeNs \subseteq current.nss
      BY <1>1, <2>2, Zenon DEF LeakInv, MembersAccounted, StoredIsSuperset, InRun
    <3>2. PICK t \in Tasks : o \in Listing(t)
      <4>1. CASE KindOf[o] \in NamespacedKind
        <5>1. <<KindOf[o], NsOf[o]>> \in Tasks
          BY <3>1, <4>1 DEF Tasks, Covers
        <5>2. o \in Listing(<<KindOf[o], NsOf[o]>>)
          BY DEF Listing
        <5> QED
          BY <5>1, <5>2
      <4>2. CASE KindOf[o] \notin NamespacedKind
        <5>1. <<KindOf[o], NoNs>> \in Tasks
          BY <3>1, <4>2 DEF Tasks, Covers
        <5>2. o \in Listing(<<KindOf[o], NoNs>>)
          BY <4>2 DEF Listing
        <5> QED
          BY <5>1, <5>2
      <4> QED
        BY <4>1, <4>2
    <3>3. t \in listed
      BY <3>2 DEF EndList
    <3> QED
      BY <1>1, <1>3, <2>2, <3>2, <3>3 DEF LeakInv, ListedIsFound
  <2>3. pruned = {} /\ unpruned = {}
    BY <1>1, SMTT(60) DEF TypeInv, Unused
  <2>4. StoredIsSuperset'
    BY <1>1, <2>1, ZenonT(60) DEF LeakInv, StoredIsSuperset, InRun, Updated, runVars
  <2> QED
    BY <1>1, <2>1, <2>2, <2>3, <2>4, Zenon
       DEF LeakInv, NoLeak, Covers, SuccessIsPruned, HeldIsStored, MembersAccounted, InRun,
           AppliedIsValid, WellScoped, ListedIsFound, UndesiredIsLeft, runVars
<1> QED
  BY <1>2, <1>3

\* Without refused deletes, what was tried is no longer a member.
LEMMA DeleteLeak ==
  ASSUME TypeInv, LeakInv, Benign, NEW o, Delete(o)
  PROVE  LeakInv'
<1>1. /\ pc = "delete" /\ o \in found
      /\ UNCHANGED <<parent, mem, prune, pc, outcome, desired, mapped, current, applied, found>>
  BY DEF Delete, parentVars
<1>2. /\ member' \subseteq member \ {o} /\ visited' \subseteq visited
      /\ pruned' \cup unpruned' = pruned \cup unpruned \cup {o}
  BY SMTT(60) DEF Delete, Benign, MayFail, TypeInv, TypeOK
<1>3. StoredIsSuperset'
  BY <1>1, ZenonT(60) DEF LeakInv, StoredIsSuperset, InRun, Updated
<1>4. UndesiredIsLeft'
  BY <1>1, <1>2 DEF LeakInv, UndesiredIsLeft
<1> QED
  BY <1>1, <1>2, <1>3, <1>4, Zenon
     DEF LeakInv, NoLeak, Covers, SuccessIsPruned, HeldIsStored, MembersAccounted, InRun,
         AppliedIsValid, WellScoped, ListedIsFound

\* The parent shrinks to what the run applied, and by then that is all there is.
LEMMA FinishPruneLeak ==
  ASSUME TypeInv, LeakInv, FinishPrune
  PROVE  LeakInv'
<1>1. pc = "delete" /\ member' = member /\ prune' = prune /\ Return(Verdict(unpruned))
  BY DEF FinishPrune, clusterVars
<1>2. member \subseteq desired
  BY <1>1 DEF FinishPrune, LeakInv, UndesiredIsLeft
<1>3. \A o \in member : Covers(Updated, o)
  BY <1>1, <1>2, UpdatedCovers DEF LeakInv, AppliedIsValid, TypeInv
<1>4. parent' = parent \/ parent' = BuildParentPatch("latest", current)
  BY DEF FinishPrune, UpdateParent
<1>5. /\ Updated.gks \subseteq BuildParentPatch("latest", current).gks
      /\ Updated.nss \subseteq BuildParentPatch("latest", current).nss \cup HomeNs
  BY DEF BuildParentPatch
<1>6. NoLeak'
  BY <1>1, <1>3, <1>4, <1>5, ZenonT(60) DEF LeakInv, NoLeak, Covers
<1> QED
  BY <1>1, <1>2, <1>6, Zenon
     DEF Return, LeakInv, SuccessIsPruned, HeldIsStored, StoredIsSuperset, MembersAccounted,
         AppliedIsValid, ListedIsFound, UndesiredIsLeft, InRun

\* Other clients never add a member and never change what the parent names.
LEMMA OthersLeak ==
  ASSUME TypeInv, LeakInv,
         member' \subseteq member, visited' \subseteq visited,
         parent'.gks = parent.gks, parent'.nss = parent.nss,
         UNCHANGED <<mem, prune, pc, outcome, desired, mapped, current, applied,
                     listed, listErr, found, pruned, unpruned>>
  PROVE  LeakInv'
<1>1. StoredIsSuperset'
  BY ZenonT(60) DEF LeakInv, StoredIsSuperset, InRun, Updated
<1>2. ListedIsFound'
  BY Zenon DEF LeakInv, ListedIsFound, Listing
<1> QED
  BY <1>1, <1>2, Zenon
     DEF LeakInv, NoLeak, Covers, SuccessIsPruned, HeldIsStored, MembersAccounted, InRun,
         AppliedIsValid, WellScoped, UndesiredIsLeft

LEMMA NextLeak == Benign /\ TypeInv /\ LeakInv /\ [Next]_vars => LeakInv'
<1> SUFFICES ASSUME Benign, TypeInv, LeakInv, [Next]_vars PROVE LeakInv'
  OBVIOUS
<1>1. CASE StartRun
  BY <1>1, StartRunLeak
<1>2. CASE RunStep
  BY <1>2, WithParentLeak, ApplyLeak, EndApplyLeak, FindLeak, EndListLeak, DeleteLeak,
     FinishPruneLeak DEF RunStep
<1>3. CASE Crash
  BY <1>3, ReturnLeak DEF Crash, clusterVars, parentVars
<1>4. CASE TouchParent \/ StripLabel
  <2>1. parent'.gks = parent.gks /\ parent'.nss = parent.nss
    BY <1>4, SMTT(60) DEF TouchParent, StripLabel, TypeInv, TypeOK, Metadata
  <2> QED
    BY <1>4, <2>1, OthersLeak DEF TouchParent, StripLabel, clusterVars, runVars
<1>5. ASSUME NEW o \in Object, ForeignCreate(o) \/ ForeignDelete(o) \/ Recreate(o)
      PROVE  LeakInv'
  BY <1>5, OthersLeak, Zenon
     DEF ForeignCreate, ForeignDelete, Recreate, clusterVars, parentVars, runVars
<1>6. ASSUME NEW k \in GroupKind, RemoveKind(k) \/ InstallKind(k)
      PROVE  LeakInv'
  BY <1>6, OthersLeak, Zenon DEF RemoveKind, InstallKind, parentVars, runVars
<1>7. CASE UNCHANGED vars
  BY <1>7, OthersLeak DEF vars, clusterVars, parentVars, runVars
<1> QED
  BY <1>1, <1>2, <1>3, <1>4, <1>5, <1>6, <1>7 DEF Next, Environment

\* Whatever else fails, and wherever the controller stops, a member is never
\* out of reach of the parent's annotations: the superset is written before the
\* first object is applied and reduced after the last one is pruned.
THEOREM MembersAreReachable ==
  ASSUME Benign
  PROVE  Spec => []NoLeak
<1>1. LeakInv => NoLeak
  BY DEF LeakInv
<1>2. TypeInv /\ LeakInv /\ [Next]_vars => LeakInv'
  BY NextLeak
<1> QED
  BY <1>1, <1>2, InitType, NextType, InitLeak, PTL DEF Spec

\* A run of ApplyOnce that prunes and reports success has pruned everything
\* that earlier runs, interrupted or not, left behind.
THEOREM SuccessMeansPruned ==
  ASSUME Benign
  PROVE  Spec => []SuccessIsPruned
<1>1. LeakInv => SuccessIsPruned
  BY DEF LeakInv
<1>2. TypeInv /\ LeakInv /\ [Next]_vars => LeakInv'
  BY NextLeak
<1> QED
  BY <1>1, <1>2, InitType, NextType, InitLeak, PTL DEF Spec

-----------------------------------------------------------------------------
(***************************************************************************)
(* Pruning deletes only members that left the manifest.  Every desired     *)
(* object was applied before the lists are made, so its UID is visited as  *)
(* long as nobody else replaces it, and the lists leave it out.            *)
(***************************************************************************)
NotReplaced == "recreate" \notin Faults

AppliedIsVisited == applied \cap member \subseteq visited

FoundIsStale ==
  /\ pc \in {"list", "delete"} => applied = desired
  /\ found \cap desired = {}

KeepInv == AppliedIsVisited /\ FoundIsStale

LEMMA InitKeep == Init => KeepInv
BY DEF Init, KeepInv, AppliedIsVisited, FoundIsStale

LEMMA ReturnKeep ==
  ASSUME NEW result, Return(result)
  PROVE  KeepInv'
BY SMTT(60) DEF Return, KeepInv, AppliedIsVisited, FoundIsStale

LEMMA NextKeep == NotReplaced /\ TypeInv /\ KeepInv /\ [Next]_vars => KeepInv'
<1> SUFFICES ASSUME NotReplaced, TypeInv, KeepInv, [Next]_vars PROVE KeepInv'
  OBVIOUS
<1> USE DEF KeepInv, AppliedIsVisited, FoundIsStale
<1>1. CASE StartRun
  BY <1>1 DEF StartRun, TypeInv, Unused, InRun, clusterVars
<1>2. CASE WithParent
  <2>1. CASE Return("failed")
    BY <2>1, ReturnKeep
  <2>2. CASE pc' = "apply" /\ UNCHANGED <<desired, visited, applied, found>>
    BY <1>2, <2>2 DEF WithParent, FetchParent, clusterVars
  <2> QED
    BY <1>2, <2>1, <2>2, Zenon DEF WithParent, FetchParent
<1>3. ASSUME NEW o \in Object, Apply(o) PROVE KeepInv'
  <2>1. pc = "apply" /\ found = {}
    BY <1>3 DEF Apply, TypeInv, Unused
  <2> QED
    BY <1>3, <2>1, ZenonT(60) DEF Apply, Pending
<1>4. CASE EndApply
  <2>1. CASE prune /\ failed = {}
    BY <1>4, <2>1 DEF EndApply, Pending, TypeInv, TypeOK, runVars, clusterVars
  <2> QED
    BY <1>4, <2>1, ReturnKeep DEF EndApply
<1>5. ASSUME NEW t, FindObjectsToPrune(t) PROVE KeepInv'
  <2>1. Listing(t) \subseteq member
    BY DEF Listing
  <2> QED
    BY <1>5, <2>1 DEF FindObjectsToPrune, clusterVars
<1>6. CASE EndList
  BY <1>6, ReturnKeep DEF EndList, clusterVars, runVars
<1>7. ASSUME NEW o, Delete(o) PROVE KeepInv'
  BY <1>7 DEF Delete
<1>8. CASE FinishPrune
  BY <1>8, ReturnKeep DEF FinishPrune
<1>9. CASE Crash
  BY <1>9, ReturnKeep DEF Crash
<1>10. CASE TouchParent \/ StripLabel
  BY <1>10 DEF TouchParent, StripLabel, clusterVars, runVars
<1>11. ASSUME NEW o \in Object, ForeignCreate(o) \/ ForeignDelete(o) \/ Recreate(o)
       PROVE  KeepInv'
  BY <1>11, Zenon DEF ForeignCreate, ForeignDelete, Recreate, NotReplaced, MayFail, runVars
<1>12. ASSUME NEW k \in GroupKind, RemoveKind(k) \/ InstallKind(k)
       PROVE  KeepInv'
  BY <1>12, Zenon DEF RemoveKind, InstallKind, runVars
<1>13. CASE UNCHANGED vars
  BY <1>13 DEF vars, clusterVars, runVars
<1> QED
  BY <1>1, <1>2, <1>3, <1>4, <1>5, <1>6, <1>7, <1>8, <1>9, <1>10, <1>11, <1>12, <1>13, ZenonT(60)
     DEF Next, RunStep, Environment

\* What was found is still what was found, as long as nobody else deletes a member
\* and creates an object of the same name.
Undisturbed == Faults \cap {"foreign", "recreate"} = {}

FoundIsMember == found \cap live \subseteq member

PruneInv == KeepInv /\ FoundIsMember

LEMMA InitPrune == Init => PruneInv
BY InitKeep DEF PruneInv, Init, FoundIsMember

LEMMA NextPrune == Undisturbed /\ TypeInv /\ PruneInv /\ [Next]_vars => PruneInv'
<1> SUFFICES ASSUME Undisturbed, TypeInv, PruneInv, [Next]_vars PROVE FoundIsMember'
  BY NextKeep DEF Undisturbed, NotReplaced, PruneInv
<1> USE DEF PruneInv, FoundIsMember
<1>1. CASE found' = {}
  BY <1>1
<1>2. CASE found' = found /\ live' = live /\ member' = member
  BY <1>2
<1>3. CASE StartRun \/ WithParent \/ EndApply \/ EndList \/ FinishPrune \/ Crash
  BY <1>1, <1>2, <1>3, Zenon
     DEF StartRun, WithParent, EndApply, EndList, FinishPrune, Crash, Return, clusterVars, runVars
<1>4. ASSUME NEW o \in Object, Apply(o) PROVE FoundIsMember'
  BY <1>4 DEF Apply
<1>5. ASSUME NEW t, FindObjectsToPrune(t) PROVE FoundIsMember'
  <2>1. Listing(t) \subseteq member
    BY Zenon DEF Listing
  <2> QED
    BY <1>5, <2>1 DEF FindObjectsToPrune, clusterVars
<1>6. ASSUME NEW o, Delete(o) PROVE FoundIsMember'
  BY <1>6 DEF Delete
<1>7. CASE TouchParent \/ StripLabel \/ UNCHANGED vars
  BY <1>7 DEF TouchParent, StripLabel, vars, clusterVars, runVars
<1>8. ASSUME NEW o \in Object, ForeignCreate(o) \/ ForeignDelete(o) \/ Recreate(o)
      PROVE  FoundIsMember'
  BY <1>8, Zenon DEF ForeignCreate, ForeignDelete, Recreate, Undisturbed, MayFail
<1>9. ASSUME NEW k \in GroupKind, RemoveKind(k) \/ InstallKind(k)
      PROVE  FoundIsMember'
  BY <1>9, Zenon DEF RemoveKind, InstallKind, runVars
<1> QED
  BY <1>3, <1>4, <1>5, <1>6, <1>7, <1>8, <1>9 DEF Next, RunStep, Environment

\* deleteObjects removes nothing but labelled objects that are not desired, and
\* only in a run that applied everything: with any request failing and the
\* controller stopping anywhere, as long as no other client replaces members.
THEOREM PruningIsSafe ==
  ASSUME Undisturbed
  PROVE  Spec => PruneSafe
<1>1. TypeInv /\ PruneInv /\ [Next]_vars =>
        [\A o \in Object : Delete(o) /\ o \in live /\ o \notin live' =>
           applied = desired /\ o \in member /\ o \notin desired]_vars
  <2> SUFFICES ASSUME PruneInv, NEW o \in Object, Delete(o), o \in live
               PROVE  applied = desired /\ o \in member /\ o \notin desired
    OBVIOUS
  <2> QED
    BY DEF PruneInv, KeepInv, FoundIsStale, FoundIsMember, Delete
<1>2. TypeInv /\ PruneInv /\ [Next]_vars => PruneInv'
  BY NextPrune
<1> QED
  BY <1>1, <1>2, InitType, NextType, InitPrune, PTL DEF Spec, PruneSafe

-----------------------------------------------------------------------------
(***************************************************************************)
(* The parent is labelled while there are members.  It is bare until the   *)
(* first write of a run, every write labels it, and a run goes on without  *)
(* a write only when the parent it read had all the metadata already.      *)
(***************************************************************************)
Kept == Faults \cap {"strip", "stale", "reuse"} = {}

LabelInv ==
  /\ parent = Bare \/ parent.id
  /\ pc = "parent" => mem = parent
  /\ InRun \/ member # {} => parent.id

LEMMA InitLabel == Init => LabelInv
BY SMTT(60) DEF Init, LabelInv, InRun

LEMMA NextLabel == Kept /\ TypeInv /\ LabelInv /\ [Next]_vars => LabelInv'
<1> SUFFICES ASSUME Kept, TypeInv, LabelInv, [Next]_vars PROVE LabelInv'
  OBVIOUS
<1> USE DEF LabelInv, InRun
<1>1. CASE StartRun
  BY <1>1 DEF StartRun, ReadParent, Kept, MayFail, clusterVars
<1>2. CASE WithParent
  <2>1. PICK held, cur :
          /\ held = [mem EXCEPT !.id = TRUE]
          /\ cur = [gks |-> mem.gks, nss |-> mem.nss \cup HomeNs]
    BY ZenonT(60)
  <2>2. BuildParentPatch("superset", cur).id /\ BuildParentPatch("superset", cur).hints
    BY Zenon DEF BuildParentPatch
  <2>3. mem = parent /\ held.hints = parent.hints
    BY <1>2, <2>1 DEF WithParent, FetchParent, TypeInv, TypeOK, Metadata
  <2>4. pc' \in {"idle", "apply"} /\ member' = member
    BY <1>2, Zenon DEF WithParent, FetchParent, Return, clusterVars
  <2>5. CASE Return("failed")
    BY <1>2, <2>1, <2>2, <2>4, <2>5 DEF WithParent, FetchParent, UpdateParent, Return
  <2>6. CASE UpdateParent(held, BuildParentPatch("superset", cur), TRUE)
    <3>1. parent.hints => parent.id
      BY DEF Bare
    <3> QED
      BY <2>2, <2>3, <2>4, <2>6, <3>1, ZenonT(60) DEF UpdateParent
  <2> QED
    BY <1>2, <2>1, <2>5, <2>6, Zenon DEF WithParent, FetchParent
<1>3. ASSUME NEW o \in Object, Apply(o) PROVE LabelInv'
  BY <1>3, Zenon DEF Apply, parentVars
<1>4. CASE EndApply
  BY <1>4 DEF EndApply, Return, clusterVars, parentVars
<1>5. ASSUME NEW t, FindObjectsToPrune(t) PROVE LabelInv'
  BY <1>5 DEF FindObjectsToPrune, clusterVars, parentVars
<1>6. CASE EndList
  BY <1>6 DEF EndList, Return, clusterVars, parentVars
<1>7. ASSUME NEW o, Delete(o) PROVE LabelInv'
  BY <1>7, Zenon DEF Delete, parentVars
<1>8. CASE FinishPrune
  <2>1. BuildParentPatch("latest", current).id
    BY Zenon DEF BuildParentPatch
  <2> QED
    BY <1>8, <2>1, ZenonT(60) DEF FinishPrune, UpdateParent, Return, clusterVars
<1>9. CASE Crash
  BY <1>9 DEF Crash, Return, clusterVars, parentVars
<1>10. CASE TouchParent \/ StripLabel
  BY <1>10, SMTT(60) DEF TouchParent, StripLabel, Kept, MayFail, clusterVars
<1>11. ASSUME NEW o \in Object, ForeignCreate(o) \/ ForeignDelete(o) \/ Recreate(o)
       PROVE  LabelInv'
  BY <1>11, Zenon DEF ForeignCreate, ForeignDelete, Recreate, clusterVars, parentVars
<1>12. ASSUME NEW k \in GroupKind, RemoveKind(k) \/ InstallKind(k)
       PROVE  LabelInv'
  BY <1>12, Zenon DEF RemoveKind, InstallKind, parentVars
<1>13. CASE UNCHANGED vars
  BY <1>13 DEF vars, clusterVars, parentVars
<1> QED
  BY <1>1, <1>2, <1>3, <1>4, <1>5, <1>6, <1>7, <1>8, <1>9, <1>10, <1>11, <1>12, <1>13, ZenonT(60)
     DEF Next, RunStep, Environment

\* updateParentLabelsAndAnnotations puts the id label on the parent before the
\* first object is applied: while nobody strips it and runs start from the
\* stored parent, the parent of a set with members is always labelled.
THEOREM ParentOfMembersIsLabelled ==
  ASSUME Kept
  PROVE  Spec => []ParentIsLabelled
<1>1. LabelInv => ParentIsLabelled
  BY DEF LabelInv, ParentIsLabelled
<1>2. TypeInv /\ LabelInv /\ [Next]_vars => LabelInv'
  BY NextLabel
<1> QED
  BY <1>1, <1>2, InitType, NextType, InitLabel, PTL DEF Spec

-----------------------------------------------------------------------------
(***************************************************************************)
(* A run comes to an end.                                                  *)
(***************************************************************************)
\* The loops of ApplyOnce are over the desired objects, the lists of the kinds and
\* namespaces the parent named, and what the lists found.  No step of a run, with
\* whatever faults, and no step of anybody else adds to them: with finitely many
\* objects, kinds and namespaces a run has finitely many steps.
THEOREM RunsAdvance == Spec => RunAdvances
<1>1. ASSUME TypeInv, RunStep PROVE Advances
  <2>1. CASE WithParent
    BY <2>1, Zenon DEF WithParent, Return, Advances
  <2>2. ASSUME NEW o \in Object, Apply(o) PROVE Advances
    <3>1. pc = "apply" /\ pc' = "apply" /\ o \in Pending
      BY <2>2, SMTT(60) DEF Apply
    <3>2. Pending' = Pending \ {o}
      BY <2>2, Zenon DEF Apply, Pending
    <3> QED
      BY <3>1, <3>2 DEF Advances, Left
  <2>3. CASE EndApply
    BY <2>3, Zenon DEF EndApply, Return, Advances
  <2>4. ASSUME NEW t \in GroupKind \X (Namespace \cup {NoNs}), FindObjectsToPrune(t) PROVE Advances
    <3>1. pc = "list" /\ pc' = "list" /\ t \in Tasks \ listed /\ listed' = listed \cup {t} /\ Tasks' = Tasks
      BY <2>4, Zenon DEF FindObjectsToPrune, Tasks
    <3> HIDE DEF Tasks
    <3>2. Left = Tasks \ listed /\ Left' = (Tasks \ listed) \ {t}
      BY <3>1 DEF Left
    <3> QED
      BY <3>1, <3>2 DEF Advances
  <2>5. CASE EndList
    BY <2>5, Zenon DEF EndList, Return, Advances
  <2>6. ASSUME NEW o \in Object, Delete(o) PROVE Advances
    <3>1. /\ pc = "delete" /\ pc' = "delete" /\ o \in found \ (pruned \cup unpruned) /\ found' = found
          /\ pruned' \cup unpruned' = pruned \cup unpruned \cup {o}
      BY <2>6 DEF Delete
    <3>2. Left = found \ (pruned \cup unpruned) /\ Left' = (found \ (pruned \cup unpruned)) \ {o}
      BY <3>1 DEF Left
    <3> QED
      BY <3>1, <3>2 DEF Advances
  <2>7. CASE FinishPrune
    BY <2>7, Zenon DEF FinishPrune, Return, Advances
  <2> QED
    BY <1>1, <2>1, <2>2, <2>3, <2>4, <2>5, <2>6, <2>7 DEF RunStep
<1>2. ASSUME Next, ~RunStep, pc # "idle" PROVE pc' = "idle" \/ (pc' = pc /\ Left' = Left)
  <2>1. CASE Crash
    BY <2>1, Zenon DEF Crash, Return
  <2>2. CASE UNCHANGED <<pc, desired, current, applied, failed, listed, found, pruned, unpruned>>
    BY <2>2 DEF Left, Pending, Tasks
  <2>3. CASE TouchParent \/ StripLabel
    BY <2>2, <2>3 DEF TouchParent, StripLabel, runVars
  <2>4. CASE OthersStep
    BY <2>2, <2>4, Zenon
       DEF OthersStep, ForeignCreate, ForeignDelete, Recreate, RemoveKind, InstallKind, runVars
  <2> QED
    BY <1>2, <2>1, <2>3, <2>4, Zenon DEF Next, StartRun, Environment, OthersStep
<1>3. TypeInv /\ [Next]_vars =>
        [/\ RunStep => Advances
         /\ ~RunStep /\ pc # "idle" => pc' = "idle" \/ (pc' = pc /\ Left' = Left)]_vars
  BY <1>1, <1>2
<1> QED
  BY <1>3, InitType, NextType, PTL DEF Spec, RunAdvances
=============================================================================
