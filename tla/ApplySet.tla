------------------------------ MODULE ApplySet ------------------------------
(***************************************************************************)
(* One ApplySet: the objects a controller applies on behalf of a parent    *)
(* object, the parent annotations that record where the members live, and  *)
(* the pruning of members that left the manifest.                          *)
(*                                                                         *)
(* Models applylib/applyset (ApplyOnce and what it calls) together with    *)
(* the forked kubectl ApplySet it drives (FetchParent, AddResource,        *)
(* BuildParentPatch, FindAllObjectsToPrune).  Every request to the API     *)
(* server is a step of its own, so the server, other clients and a crash   *)
(* can come between any two of them.                                       *)
(***************************************************************************)
EXTENDS FiniteSets, Naturals

CONSTANTS
  Object,          \* objects by identity (group-kind, namespace, name)
  GroupKind,       \* group-kinds
  Namespace,       \* namespaces
  NoNs,            \* the empty namespace
  KindOf,          \* [Object -> GroupKind]
  NsOf,            \* [Object -> Namespace \cup {NoNs}], as in the manifest
  NamespacedKind,  \* the group-kinds whose scope is "namespace"
  ParentNs,        \* the parent's namespace; NoNs for a cluster-scoped parent
  Faults           \* what may go wrong in this instance

(* "update", "patch", "delete", "list", "mapping": that request is refused. *)
(* "lost": a write takes effect but its caller sees an error.               *)
(* "crash": the controller stops between two steps.                         *)
(* "touch": another client writes the parent, its annotations unchanged.    *)
(* "strip": another client removes the ApplySet id label from the parent.   *)
(* "foreign": other clients create unlabelled objects and delete objects.   *)
(* "recreate": another client replaces a member, keeping its labels.        *)
(* "crd": group-kinds disappear (with their objects) and come back.         *)
(* "stale": the parent is read from a cache that lags one version behind.   *)
(* "reuse": ApplyOnce is called again on an ApplySet that already ran.      *)
FaultKind == {"update", "patch", "delete", "list", "mapping", "lost", "crash",
              "touch", "strip", "foreign", "recreate", "crd", "stale", "reuse"}

ASSUME ConstantsOK ==
  /\ NoNs \notin Namespace
  /\ KindOf \in [Object -> GroupKind]
  /\ NsOf \in [Object -> Namespace \cup {NoNs}]
  /\ NamespacedKind \subseteq GroupKind
  /\ ParentNs \in Namespace \cup {NoNs}
  /\ Faults \subseteq FaultKind

VARIABLES
  live,      \* the objects that exist in the cluster
  member,    \* those carrying this ApplySet's part-of label
  served,    \* the group-kinds the API server serves
  parent,    \* the parent's ApplySet metadata in the API server
  prior,     \* the version of parent before its last write (the lagging cache)
  mem,       \* the parent object the controller holds, a.parent.GetSubject()
  fresh,     \* mem has the resourceVersion of the parent in the API server
  prune,     \* the Prune option
  pc,        \* where ApplyOnce is
  desired,   \* the desired objects, trackers.items
  mapped,    \* the group-kinds whose RESTMapping succeeded in this run
  current,   \* currentResources and currentNamespaces, from FetchParent
  visited,   \* the objects whose present UID is in visitedUids
  applied, failed,    \* results: applySuccess, applyError
  listed,    \* the prune list tasks that have returned
  listErr,   \* one of them returned an error
  found,     \* the objects the list tasks returned for pruning
  pruned, unpruned,   \* results: pruneSuccess, pruneError
  outcome,   \* what the last ApplyOnce reported: nil error and AllApplied, or not
  calm       \* nothing goes wrong, and the manifest does not change, any more

clusterVars == <<live, member, served>>
parentVars  == <<parent, prior, mem, fresh>>
runVars     == <<desired, mapped, current, visited, applied, failed,
                 listed, listErr, found, pruned, unpruned>>
vars == <<clusterVars, parentVars, runVars, prune, pc, outcome, calm>>

MayFail(f) == f \in Faults /\ ~calm

(***************************************************************************)
(* What the parent's metadata says, and what it covers.                    *)
(***************************************************************************)
\* id: the applyset id label and the tooling annotation; hints: the
\* additional-namespaces annotation is present; gks, nss: the two annotations.
Metadata == [id: BOOLEAN, hints: BOOLEAN, gks: SUBSET GroupKind, nss: SUBSET Namespace]
Scope    == [gks: SUBSET GroupKind, nss: SUBSET Namespace]

Bare      == [id |-> FALSE, hints |-> FALSE, gks |-> {}, nss |-> {}]
HomeNs    == {ParentNs} \cap Namespace
EmptyScope == [gks |-> {}, nss |-> {}]

\* s: the group-kinds and namespaces in which members are looked for
Covers(s, o) ==
  /\ KindOf[o] \in s.gks
  /\ KindOf[o] \in NamespacedKind => NsOf[o] \in s.nss \cup HomeNs

WellScoped(o) == KindOf[o] \in NamespacedKind <=> NsOf[o] # NoNs

\* AddResource over every object whose group-kind could be mapped
Updated ==
  LET objs == {o \in desired : KindOf[o] \in mapped}
  IN  [gks |-> {KindOf[o] : o \in objs},
       nss |-> {NsOf[o] : o \in {p \in objs : KindOf[p] \in NamespacedKind}} \ {NoNs}]

\* a mutated form of BuildParentPatch: what the set tracked so far is forgotten
BuildParentPatch_DropsCurrent(mode, cur) ==
  [id |-> TRUE, hints |-> TRUE, gks |-> Updated.gks, nss |-> Updated.nss \ HomeNs]

BuildParentPatch(mode, cur) ==
  LET old == IF mode = "superset" THEN cur ELSE EmptyScope
  IN  [id |-> TRUE, hints |-> TRUE,
       gks |-> old.gks \cup Updated.gks,
       nss |-> (old.nss \cup Updated.nss) \ HomeNs]

\* a mutated form of UpdateParent: the error of the Update is dropped
UpdateParent_IgnoresError(seen, target, ok) ==
  /\ ok
  /\ mem' = target
  /\ \/ parent' = target /\ prior' = parent /\ fresh /\ UNCHANGED fresh
     \/ UNCHANGED <<parent, prior, fresh>>

(***************************************************************************)
(* updateParentLabelsAndAnnotations: the metadata is changed on the held   *)
(* object first; the API server is only asked to Update it when the held   *)
(* object really changed.  seen is the held object just before.            *)
(***************************************************************************)
UpdateParent(seen, target, ok) ==
  /\ mem' = target
  /\ \/ /\ target = seen
        /\ ok
        /\ UNCHANGED <<parent, prior, fresh>>
     \/ /\ target # seen
        /\ fresh
        /\ ok
        /\ parent' = target /\ prior' = parent
        /\ UNCHANGED fresh
     \/ /\ target # seen
        /\ ~fresh \/ MayFail("update")
        /\ ~ok
        /\ UNCHANGED <<parent, prior, fresh>>
     \/ /\ target # seen
        /\ fresh /\ MayFail("lost")
        /\ ~ok
        /\ parent' = target /\ prior' = parent
        /\ fresh' = FALSE

\* a mutated form of Return: the results of the run are not dropped
Return_KeepsResults(result) ==
  /\ pc' = "idle"
  /\ outcome' = result
  /\ mapped' = {} /\ current' = EmptyScope
  /\ UNCHANGED <<desired, visited, applied, failed, listed, listErr, found, pruned, unpruned>>

\* The run ends and what it held in memory, except the parent, is gone.
Return(result) ==
  /\ pc' = "idle"
  /\ outcome' = result
  /\ mapped' = {} /\ current' = EmptyScope
  /\ visited' = {} /\ applied' = {} /\ failed' = {}
  /\ listed' = {} /\ listErr' = FALSE /\ found' = {}
  /\ pruned' = {} /\ unpruned' = {}
  /\ UNCHANGED desired

\* a mutated form of Verdict: errors are recorded and never reported
Verdict_IgnoresErrors(errors) == "ok"

\* ApplyOnce returned a nil error: AllApplied is that nothing was recorded as
\* an error.
Verdict(errors) == IF errors = {} THEN "ok" ELSE "failed"

(***************************************************************************)
(* ApplyOnce, one step per request to the API server.                      *)
(***************************************************************************)
\* How the caller came by the parent object it hands to the ApplySet.
ReadParent ==
  \/ /\ mem' = parent /\ fresh' = TRUE
  \/ /\ MayFail("stale")
     /\ mem' = prior /\ fresh' = FALSE
  \/ /\ MayFail("reuse") /\ outcome \in {"ok", "failed"}
     /\ UNCHANGED <<mem, fresh>>

\* Set the desired objects, snapshot them and look up their RESTMappings.
StartRun ==
  /\ pc = "idle"
  /\ ReadParent
  /\ \E D \in (IF calm THEN {desired} ELSE SUBSET Object) : desired' = D
  /\ \E M \in (IF MayFail("mapping") THEN SUBSET served ELSE {served}) : mapped' = M
  /\ pc' = "parent"
  /\ UNCHANGED <<clusterVars, parent, prior, prune, outcome, calm, current, visited,
                 applied, failed, listed, listErr, found, pruned, unpruned>>

\* FetchParent fails when an annotated group-kind has no RESTMapping.
CanFetchParent == mem.gks \subseteq served

\* What the set tracks so far: the annotations, and the parent's own namespace.
\* Its checks of the tooling and the ID pass: WithParent has just set both.
FetchParent == [gks |-> mem.gks, nss |-> mem.nss \cup HomeNs]

WithParent ==
  /\ pc = "parent"
  /\ LET held == [mem EXCEPT !.id = TRUE]
         cur  == FetchParent
     IN  \/ /\ ~CanFetchParent \/ MayFail("mapping")
            /\ mem' = held
            /\ Return("failed")
            /\ UNCHANGED <<parent, prior, fresh>>
         \/ /\ CanFetchParent
            /\ UpdateParent(held, BuildParentPatch("superset", cur), FALSE)
            /\ Return("failed")
         \/ /\ CanFetchParent
            /\ UpdateParent(held, BuildParentPatch("superset", cur), TRUE)
            /\ current' = cur
            /\ pc' = "apply"
            /\ UNCHANGED <<outcome, desired, mapped, visited, applied, failed,
                           listed, listErr, found, pruned, unpruned>>
  /\ UNCHANGED <<clusterVars, prune, calm>>

\* The desired objects this run has not reached yet.
Pending == desired \ (applied \cup failed)

\* One object: refused before any request, or sent to the API server.
Apply(o) ==
  /\ pc = "apply"
  /\ o \in Pending
  /\ \/ /\ KindOf[o] \in mapped /\ WellScoped(o) /\ KindOf[o] \in served
        /\ live' = live \cup {o} /\ member' = member \cup {o}
        /\ \/ /\ applied' = applied \cup {o} /\ visited' = visited \cup {o}
              /\ UNCHANGED failed
           \/ /\ MayFail("lost")
              /\ failed' = failed \cup {o}
              /\ UNCHANGED <<applied, visited>>
     \/ /\ \/ KindOf[o] \notin mapped
           \/ ~WellScoped(o)
           \/ KindOf[o] \notin served
           \/ MayFail("patch")
        /\ failed' = failed \cup {o}
        /\ UNCHANGED <<live, member, applied, visited>>
  /\ UNCHANGED <<served, parentVars, prune, pc, outcome, calm, desired, mapped, current,
                 listed, listErr, found, pruned, unpruned>>

\* a mutated form of EndApply: prunes although an object could not be applied
EndApply_PrunesAfterFailure ==
  /\ pc = "apply"
  /\ Pending = {}
  /\ IF prune
     THEN /\ pc' = "list"
          /\ UNCHANGED <<runVars, outcome>>
     ELSE Return(Verdict(failed))
  /\ UNCHANGED <<clusterVars, parentVars, prune, calm>>

\* We only prune when every object was applied.
EndApply ==
  /\ pc = "apply"
  /\ Pending = {}
  /\ IF prune /\ failed = {}
     THEN /\ pc' = "list"
          /\ UNCHANGED <<runVars, outcome>>
     ELSE Return(Verdict(failed))
  /\ UNCHANGED <<clusterVars, parentVars, prune, calm>>

(***************************************************************************)
(* FindAllObjectsToPrune: one list request per group-kind and namespace    *)
(* (one per cluster-scoped group-kind), in goroutines of their own.        *)
(***************************************************************************)

\* a mutated form of Tasks: only the parent's own namespace is visited
Tasks_OnlyParentNs ==
  (current.gks \cap NamespacedKind) \X HomeNs
    \cup (current.gks \ NamespacedKind) \X {NoNs}

Tasks ==
  (current.gks \cap NamespacedKind) \X current.nss
    \cup (current.gks \ NamespacedKind) \X {NoNs}

\* The list is selected by label; findObjectsToPrune drops the visited UIDs.
Listing(t) ==
  {o \in member : KindOf[o] = t[1] /\ (t[1] \in NamespacedKind => NsOf[o] = t[2])}

FindObjectsToPrune(t) ==
  /\ pc = "list"
  /\ t \in Tasks \ listed
  /\ listed' = listed \cup {t}
  /\ \/ /\ t[1] \in served
        /\ found' = found \cup (Listing(t) \ visited)
        /\ UNCHANGED listErr
     \/ /\ t[1] \notin served \/ MayFail("list")
        /\ listErr' = TRUE
        /\ UNCHANGED found
  /\ UNCHANGED <<clusterVars, parentVars, prune, pc, outcome, calm, desired, mapped,
                 current, visited, applied, failed, pruned, unpruned>>

\* a mutated form of EndList: prunes with the lists that could be had
EndList_IgnoresErrors ==
  /\ pc = "list"
  /\ Tasks \subseteq listed
  /\ pc' = "delete"
  /\ UNCHANGED <<clusterVars, parentVars, runVars, outcome, prune, calm>>

\* All tasks have returned: an error of any of them ends the run.
EndList ==
  /\ pc = "list"
  /\ Tasks \subseteq listed
  /\ IF listErr
     THEN Return("failed")
     ELSE pc' = "delete" /\ UNCHANGED <<runVars, outcome>>
  /\ UNCHANGED <<clusterVars, parentVars, prune, calm>>

\* deleteObjects: by name, one after the other; an error is only recorded.
Delete(o) ==
  /\ pc = "delete"
  /\ o \in found \ (pruned \cup unpruned)
  /\ \/ /\ o \in live
        /\ live' = live \ {o} /\ member' = member \ {o} /\ visited' = visited \ {o}
        /\ \/ /\ pruned' = pruned \cup {o}
              /\ UNCHANGED unpruned
           \/ /\ MayFail("lost")
              /\ unpruned' = unpruned \cup {o}
              /\ UNCHANGED pruned
     \/ /\ o \notin live \/ MayFail("delete")
        /\ unpruned' = unpruned \cup {o}
        /\ UNCHANGED <<live, member, visited, pruned>>
  /\ UNCHANGED <<served, parentVars, prune, pc, outcome, calm, desired, mapped, current,
                 applied, failed, listed, listErr, found>>

\* After the deletes the parent shrinks to "latest"; an error is only logged.
FinishPrune ==
  /\ pc = "delete"
  /\ found \subseteq pruned \cup unpruned
  /\ \E ok \in BOOLEAN : UpdateParent(mem, BuildParentPatch("latest", current), ok)
  /\ Return(Verdict(unpruned))
  /\ UNCHANGED <<clusterVars, prune, calm>>

Crash ==
  /\ MayFail("crash")
  /\ pc # "idle"
  /\ Return("crashed")
  /\ UNCHANGED <<clusterVars, parentVars, prune, calm>>

(***************************************************************************)
(* The API server's other clients.                                         *)
(***************************************************************************)
TouchParent ==
  /\ MayFail("touch")
  /\ fresh
  /\ fresh' = FALSE
  /\ UNCHANGED <<clusterVars, runVars, parent, prior, mem, prune, pc, outcome, calm>>

StripLabel ==
  /\ MayFail("strip")
  /\ parent.id
  /\ parent' = [parent EXCEPT !.id = FALSE] /\ prior' = parent
  /\ fresh' = FALSE
  /\ UNCHANGED <<clusterVars, runVars, mem, prune, pc, outcome, calm>>

ForeignCreate(o) ==
  /\ MayFail("foreign")
  /\ o \notin live /\ KindOf[o] \in served /\ WellScoped(o)
  /\ live' = live \cup {o}
  /\ UNCHANGED <<member, served, parentVars, runVars, prune, pc, outcome, calm>>

ForeignDelete(o) ==
  /\ MayFail("foreign")
  /\ o \in live
  /\ live' = live \ {o} /\ member' = member \ {o} /\ visited' = visited \ {o}
  /\ UNCHANGED <<served, parentVars, prune, pc, outcome, calm, desired, mapped, current,
                 applied, failed, listed, listErr, found, pruned, unpruned>>

\* The new object has a UID no Patch of this run returned.
Recreate(o) ==
  /\ MayFail("recreate")
  /\ o \in member \cap visited
  /\ visited' = visited \ {o}
  /\ UNCHANGED <<clusterVars, parentVars, prune, pc, outcome, calm, desired, mapped,
                 current, applied, failed, listed, listErr, found, pruned, unpruned>>

RemoveKind(k) ==
  /\ MayFail("crd")
  /\ k \in served
  /\ served' = served \ {k}
  /\ LET gone == {o \in Object : KindOf[o] = k}
     IN  live' = live \ gone /\ member' = member \ gone /\ visited' = visited \ gone
  /\ UNCHANGED <<parentVars, prune, pc, outcome, calm, desired, mapped, current,
                 applied, failed, listed, listErr, found, pruned, unpruned>>

InstallKind(k) ==
  /\ "crd" \in Faults
  /\ k \notin served
  /\ served' = served \cup {k}
  /\ UNCHANGED <<live, member, parentVars, runVars, prune, pc, outcome, calm>>

\* From now on nothing goes wrong.  Between runs is enough: a run in which nothing goes
\* wrong any more comes to its end.
CalmDown ==
  /\ pc = "idle" /\ ~calm
  /\ calm' = TRUE
  /\ UNCHANGED <<clusterVars, parentVars, runVars, prune, pc, outcome>>

(***************************************************************************)
(* The specification.                                                      *)
(***************************************************************************)
Init ==
  /\ live \in SUBSET {o \in Object : WellScoped(o)} /\ member = {}
  /\ served = GroupKind
  /\ parent = Bare /\ prior = Bare /\ mem = Bare /\ fresh = FALSE
  /\ prune \in BOOLEAN
  /\ pc = "idle" /\ outcome = "none" /\ calm = FALSE
  /\ desired = {} /\ mapped = {} /\ current = EmptyScope
  /\ visited = {} /\ applied = {} /\ failed = {}
  /\ listed = {} /\ listErr = FALSE /\ found = {}
  /\ pruned = {} /\ unpruned = {}

RunStep ==
  \/ WithParent
  \/ \E o \in Object : Apply(o)
  \/ EndApply
  \/ \E t \in GroupKind \X (Namespace \cup {NoNs}) : FindObjectsToPrune(t)
  \/ EndList
  \/ \E o \in Object : Delete(o)
  \/ FinishPrune

Environment ==
  \/ Crash
  \/ TouchParent
  \/ StripLabel
  \/ \E o \in Object : ForeignCreate(o) \/ ForeignDelete(o) \/ Recreate(o)
  \/ \E k \in GroupKind : RemoveKind(k) \/ InstallKind(k)

Next == StartRun \/ RunStep \/ Environment

Spec == Init /\ [][Next]_vars

\* A reconcile that failed, or was cut short, is queued again; one that
\* succeeded is not.  A run that has begun goes on.
Fairness ==
  /\ WF_vars(RunStep)
  /\ WF_vars(StartRun /\ outcome # "ok")

CalmSpec == Init /\ [][Next \/ CalmDown]_vars /\ Fairness

(***************************************************************************)
(* Properties.                                                             *)
(***************************************************************************)
Outcome == {"none", "ok", "failed", "crashed"}

\* Every variable has its type, and a run only reports on its own objects.
TypeOK ==
  /\ live \subseteq Object /\ member \subseteq live /\ served \subseteq GroupKind
  /\ parent \in Metadata /\ prior \in Metadata /\ mem \in Metadata
  /\ fresh \in BOOLEAN /\ prune \in BOOLEAN /\ calm \in BOOLEAN
  /\ pc \in {"idle", "parent", "apply", "list", "delete"} /\ outcome \in Outcome
  /\ desired \subseteq Object /\ mapped \subseteq GroupKind /\ current \in Scope
  /\ visited \subseteq member
  /\ applied \subseteq desired /\ failed \subseteq desired
  /\ listed \subseteq GroupKind \X (Namespace \cup {NoNs}) /\ listErr \in BOOLEAN
  /\ found \subseteq Object /\ pruned \subseteq found /\ unpruned \subseteq found

\* No member is leaked: wherever the controller is interrupted, every object
\* carrying the part-of label is of a group-kind and in a namespace that the
\* parent's annotations in the API server name, so a later run can find it.
NoLeak == \A o \in member : Covers(parent, o)

\* A prune delete removes a live object only when every desired object was
\* applied in this run, and only an object that carries the label and is not
\* desired.
PruneSafe ==
  [][\A o \in Object : Delete(o) /\ o \in live /\ o \notin live' =>
        applied = desired /\ o \in member /\ o \notin desired]_vars

\* When ApplyOnce with pruning reports success, no object carries the part-of
\* label that is not in the manifest, whatever earlier runs left behind.
SuccessIsPruned == pc = "idle" /\ outcome = "ok" /\ prune => member \subseteq desired

\* When ApplyOnce reports success, every object of the manifest is a member.
SuccessIsApplied == pc = "idle" /\ outcome = "ok" => desired \subseteq member

\* As long as there are members, the parent carries the ApplySet id label:
\* WithParent puts it there before the first object is applied.
ParentIsLabelled == member # {} => parent.id

\* What the comment on WithParent says: it guarantees that the parent has the
\* right applyset labels when it succeeds.
ParentGetsLabel == [][WithParent /\ pc' = "apply" => parent'.id]_vars

\* Once nothing goes wrong any more, the reconciles bring the members to the
\* desired objects, and there they stay.  The parent may name more than they need: that
\* FinishPrune could not write it is only logged, and no other run follows.
Converges == calm ~> [](prune => member = desired)

\* What the loop a run is in has yet to go over.
Left ==
  CASE pc = "apply"  -> Pending
    [] pc = "list"   -> Tasks \ listed
    [] pc = "delete" -> found \ (pruned \cup unpruned)
    [] OTHER         -> {}

Advances ==
  \/ pc' = "idle"
  \/ <<pc, pc'>> \in {<<"parent", "apply">>, <<"apply", "list">>, <<"list", "delete">>}
  \/ pc' = pc /\ Left' \subseteq Left /\ Left' # Left

\* ApplyOnce comes to an end: each of its steps ends it, goes on to the next loop, or
\* is done with one more object or list of the loop it is in, whatever fails; and
\* whatever other clients do meanwhile, no loop gets longer.
RunAdvances ==
  [][/\ RunStep => Advances
     /\ ~RunStep /\ pc # "idle" => pc' = "idle" \/ (pc' = pc /\ Left' = Left)]_vars

\* The refinement mapping: an object would be found where the parent's
\* annotations in the API server cover it.
Promise == INSTANCE ManagedSet WITH
  named  <- {o \in Object : Covers(parent, o)},
  want   <- desired,
  busy   <- pc # "idle",
  taken  <- applied,
  result <- outcome

\* ApplyOnce and what it calls implement the managed set: every step, with
\* whatever request fails or crash comes, is a step the abstract set may take,
\* or none.
KeepsPromise == Promise!Spec

\* Other clients take members away, or put other objects in their place.
OthersStep ==
  \/ \E o \in Object : ForeignCreate(o) \/ ForeignDelete(o) \/ Recreate(o)
  \/ \E k \in GroupKind : RemoveKind(k) \/ InstallKind(k)

\* ApplyOnce in a cluster it does not have to itself: members come and go by other
\* hands between any two of its requests, and what it does is still only what the
\* managed set may do.
KeepsItsPart == Promise!Init /\ [][OthersStep \/ [Promise!Next]_(Promise!vars)]_vars
=============================================================================
