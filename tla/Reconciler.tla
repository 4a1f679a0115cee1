----------------------------- MODULE Reconciler -----------------------------
(***************************************************************************)
(* One subject and the reconciles that turn it into objects and report on  *)
(* them in its status.                                                     *)
(*                                                                         *)
(* Models Reconcile, reconcileExists and updateStatus of reconciler.go     *)
(* with the version check and both status aggregators of addon/pkg/status. *)
(* The subject is read from a cache that lags; every request to the API    *)
(* server is a step of its own.  There are two appliers: kubectl's, which  *)
(* is the default, and applyset's, of which the module ApplySet has the    *)
(* detail: here it is its writes to the subject and to the objects.        *)
(***************************************************************************)
EXTENDS Naturals, FiniteSets

CONSTANTS
  Object,       \* the objects a manifest may hold
  MaxGen,       \* the generations of the subject
  ManifestOf,   \* [1..MaxGen -> SUBSET Object]: what the loader resolves them to
  TooNew,       \* the generations whose manifest needs a newer operator
  TypeOf,       \* [Object -> {"deployment", "service", "other"}]
  Faults,       \* what may go wrong in this instance
  MaxMishaps    \* how often something goes wrong

(* "get": the subject cannot be read.  "preflight": the preflight check      *)
(* refuses, or asks to come back later.  "build": the objects cannot be      *)
(* built.  "retry": the owner function asks to come back later.  "hook": a   *)
(* hook or the sink fails.  "map": the REST mapping of an object cannot be   *)
(* had.  "apply": an object cannot be applied or pruned.                     *)
(* "read": a live object cannot be read.  "write": the status cannot be      *)
(* written.  "annotate": the ignore annotation is put on, or taken off.      *)
(* "drift": another client changes or deletes an object.  "restart": the     *)
(* controller stops; the next one fills its cache from a list that may lag.  *)
FaultKind == {"get", "preflight", "build", "retry", "hook", "map", "apply", "read", "write",
              "annotate", "drift", "restart"}

Gen == 1..MaxGen

ASSUME ReconcilerConstants ==
  /\ MaxGen \in Nat \ {0} /\ MaxMishaps \in Nat
  /\ ManifestOf \in [Gen -> SUBSET Object] /\ TooNew \subseteq Gen
  /\ TypeOf \in [Object -> {"deployment", "service", "other"}]
  /\ Faults \subseteq FaultKind

VARIABLES
  agg,      \* BuildStatusImpl: "aggregate" or "kstatus"
  prune,    \* WithApplyPrune
  applier,  \* WithApplyKubectl's DirectApplier, "kubectl", or "applyset"
  gen,      \* the subject's generation in the API server
  stored,   \* its status
  named,    \* the objects its applyset annotations name
  cache,    \* the subject in the informer's cache
  lag,      \* what the cache held before
  synced,   \* the cache has the subject's latest resourceVersion
  objs,     \* the objects in the API server
  queue,    \* the subject is in the work queue
  pc,       \* where the reconcile is
  inst,     \* instance: the subject as the reconcile holds it
  orig,     \* the status it was read with
  fresh,    \* instance has the subject's latest resourceVersion
  items,    \* objects.Items
  todo,     \* those the current loop has not reached
  info,     \* statusInfo, with the requeue of the result
  seen,     \* what BuildStatus has read
  unread,   \* a read of a live object failed in this reconcile
  mishaps

subjVars == <<gen, stored, named, cache, lag, synced>>
runVars  == <<pc, inst, orig, fresh, items, todo, info, seen, unread>>
vars == <<agg, prune, applier, subjVars, objs, queue, runVars, mishaps>>

\* the Ready condition among the Conditions of the subject
Condition == [status: {"", "True", "False"}, reason: {"", "Normal", "ManifestsNotReady"}]

\* CommonStatus and the condition; errs: Errors is nil, an empty list, or has elements
Status == [healthy: BOOLEAN, errs: {"nil", "empty", "some"},
           phase: {"", "Current", "InProgress", "Failed", "Applying", "InternalError"},
           obs: 0..MaxGen, ready: Condition]
NewStatus == [healthy |-> FALSE, errs |-> "nil", phase |-> "", obs |-> 0,
              ready |-> [status |-> "", reason |-> ""]]

\* two statuses with the same CommonStatus, which has no conditions; for DeepEqual an
\* empty list is not nil
SameCommon(s, t) == [s EXCEPT !.ready = t.ready] = t

\* the status as it is sent, stored and read back: empty Errors are omitted
Marshal(s) == [s EXCEPT !.errs = IF @ = "empty" THEN "nil" ELSE @]

Health == {"ready", "progressing", "failed"}
Absent == [gen |-> 0, health |-> "progressing", ignored |-> FALSE]

NoInfo == [err |-> FALSE, known |-> "", requeue |-> FALSE, live |-> FALSE]

Mishap(f) ==
  /\ f \in Faults
  /\ mishaps < MaxMishaps
  /\ mishaps' = mishaps + 1

Exists(o) == objs[o].gen # 0

\* The reconcile returns; with an error, or a result that says so, it is queued.
Return(again) ==
  /\ pc' = "idle"
  /\ queue' = (queue \/ again)
  /\ items' = {} /\ todo' = {} /\ info' = NoInfo /\ seen' = {}
  /\ UNCHANGED <<inst, orig, fresh, unread>>

\* reconcileExists returns: ErrorResult is unpacked into error and result.
Report(e, known, again) ==
  /\ pc' = "build"
  /\ info' = [info EXCEPT !.err = e, !.known = known, !.requeue = again]
  /\ todo' = {}

(***************************************************************************)
(* Reconcile, up to the first write.                                       *)
(***************************************************************************)
Reconcile ==
  /\ pc = "idle"
  /\ queue
  /\ \/ /\ queue' = FALSE
        /\ pc' = "prepare"
        /\ inst' = cache /\ orig' = cache.status /\ fresh' = synced
        /\ unread' = FALSE
        /\ UNCHANGED <<items, todo, info, seen, mishaps>>
     \/ /\ Mishap("get")
        /\ Return(TRUE)
  /\ UNCHANGED <<agg, prune, applier, subjVars, objs>>

\* a mutated form of VersionCheck: every manifest is let through
VersionCheck_Absent == TRUE

\* the operator's version is at least the one the manifest's annotations name
VersionCheck == inst.gen \notin TooNew

\* Preflight, BuildDeploymentObjects, VersionCheck, setNamespaces, injectOwnerRef
Prepare ==
  /\ pc = "prepare"
  /\ \/ /\ Mishap("preflight")
        /\ Return(TRUE)
     \/ /\ Mishap("build")
        /\ Report(TRUE, "", FALSE)
        /\ UNCHANGED <<inst, orig, fresh, items, seen, unread, queue>>
     \/ /\ ~VersionCheck
        /\ inst' = [inst EXCEPT !.status.healthy = FALSE, !.status.errs = "some"]
        /\ items' = ManifestOf[inst.gen]
        /\ Report(FALSE, "VersionCheckFailed", FALSE)
        /\ UNCHANGED <<orig, fresh, seen, unread, queue, mishaps>>
     \/ /\ VersionCheck
        /\ Mishap("retry")
        /\ items' = ManifestOf[inst.gen]
        /\ Report(FALSE, "", TRUE)
        /\ UNCHANGED <<inst, orig, fresh, seen, unread, queue>>
     \/ /\ VersionCheck
        /\ pc' = "filter"
        /\ items' = ManifestOf[inst.gen] /\ todo' = ManifestOf[inst.gen]
        /\ UNCHANGED <<inst, orig, fresh, info, seen, unread, queue, mishaps>>
  /\ UNCHANGED <<agg, prune, applier, subjVars, objs>>

\* One object: it is left out when the live object has the ignore annotation; an
\* error is only logged.
Filter(o) ==
  /\ pc = "filter"
  /\ o \in todo
  /\ todo' = todo \ {o}
  /\ \/ /\ items' = IF Exists(o) /\ objs[o].ignored THEN items \ {o} ELSE items
        /\ UNCHANGED <<unread, mishaps>>
     \/ /\ Mishap("read")
        /\ unread' = TRUE
        /\ UNCHANGED items
  /\ UNCHANGED <<agg, prune, applier, subjVars, objs, queue, pc, inst, orig, fresh, info, seen>>

(***************************************************************************)
(* The applier.                                                            *)
(***************************************************************************)
\* The annotations of the held subject are changed; a change is written, and the
\* answer replaces what is held.  ok: the write was not refused.
UpdateParent(target, ok) ==
  \/ /\ target = inst.named
     /\ ok
     /\ UNCHANGED <<inst, named, synced>>
  \/ /\ target # inst.named /\ fresh
     /\ ok
     /\ named' = target /\ synced' = FALSE
     /\ inst' = [gen |-> gen, status |-> stored, named |-> target]
  \/ /\ target # inst.named /\ ~fresh
     /\ ~ok
     /\ inst' = [inst EXCEPT !.named = target]
     /\ UNCHANGED <<named, synced>>

\* The BeforeApply hooks, then either applier.  ApplySetApplier: the REST mappings,
\* then WithParent with the superset.
BeforeApply ==
  /\ pc = "filter"
  /\ todo = {}
  /\ \/ /\ Mishap("hook")
        /\ Report(TRUE, "", FALSE)
        /\ UNCHANGED <<inst, named, synced>>
     \/ /\ applier = "applyset"
        /\ items # {} /\ Mishap("map")
        /\ Report(TRUE, "FailedToApply", FALSE)
        /\ UNCHANGED <<inst, named, synced>>
     \/ /\ applier = "applyset"
        /\ UpdateParent(inst.named \cup items, FALSE)
        /\ Report(TRUE, "FailedToApply", FALSE)
        /\ UNCHANGED mishaps
     \/ /\ applier = "applyset"
        /\ UpdateParent(inst.named \cup items, TRUE)
        /\ pc' = "apply" /\ todo' = items
        /\ UNCHANGED <<info, mishaps>>
  /\ UNCHANGED <<agg, prune, applier, gen, stored, cache, lag, objs, queue, orig, fresh, items, seen, unread>>

\* kubectl refuses to apply nothing
NothingToApply == items = {}

\* DirectApplier: an object without a REST mapping is left out and its error is kept
\* for later, unless nothing else is left.
DirectApply ==
  /\ pc = "filter"
  /\ todo = {}
  /\ applier = "kubectl"
  /\ \/ /\ NothingToApply
        /\ Report(TRUE, "FailedToApply", FALSE)
        /\ UNCHANGED <<items, mishaps>>
     \/ /\ ~NothingToApply
        /\ pc' = "apply" /\ todo' = items
        /\ UNCHANGED <<items, info, mishaps>>
     \/ \E o \in items :
          /\ Mishap("map")
          /\ \/ /\ items = {o}
                /\ Report(TRUE, "FailedToApply", FALSE)
                /\ UNCHANGED items
             \/ /\ items # {o}
                /\ pc' = "apply" /\ items' = items \ {o} /\ todo' = items \ {o}
                /\ info' = [info EXCEPT !.known = "FailedToApply"]
  /\ UNCHANGED <<agg, prune, applier, subjVars, objs, queue, inst, orig, fresh, seen, unread>>

\* One object.  A change of its specification makes it progress anew.
Apply(o) ==
  /\ pc = "apply"
  /\ o \in todo
  /\ todo' = todo \ {o}
  /\ \/ /\ IF objs[o].gen = inst.gen
           THEN UNCHANGED <<objs, queue>>
           ELSE /\ objs' = [objs EXCEPT ![o].gen = inst.gen, ![o].health = "progressing"]
                /\ queue' = TRUE
        /\ UNCHANGED <<info, mishaps>>
     \/ /\ Mishap("apply")
        /\ info' = [info EXCEPT !.err = TRUE]
        /\ UNCHANGED <<objs, queue>>
  /\ UNCHANGED <<agg, prune, applier, subjVars, pc, inst, orig, fresh, items, seen, unread>>

\* what may be pruned: with applyset what the annotations name, with kubectl what has
\* the labels and is of a kind on its list
Prunable == IF applier = "applyset" THEN inst.named ELSE {o \in Object : TypeOf[o] # "other"}

\* Everything was sent.  With an error the apply has failed, else what was not sent
\* is pruned.
Applied ==
  /\ pc = "apply"
  /\ todo = {}
  /\ IF info.err
     THEN Report(TRUE, "FailedToApply", FALSE)
     ELSE /\ pc' = "prune"
          /\ todo' = IF prune THEN {o \in Prunable \ items : Exists(o)} ELSE {}
          /\ UNCHANGED info
  /\ UNCHANGED <<agg, prune, applier, subjVars, objs, queue, inst, orig, fresh, items, seen, unread, mishaps>>

\* kubectl stops at the first error, applyset goes on
Prune(o) ==
  /\ pc = "prune"
  /\ o \in todo
  /\ \/ /\ Exists(o)
        /\ objs' = [objs EXCEPT ![o] = Absent]
        /\ queue' = TRUE
        /\ todo' = todo \ {o}
        /\ UNCHANGED <<info, mishaps>>
     \/ /\ \/ ~Exists(o) /\ UNCHANGED mishaps
           \/ Exists(o) /\ Mishap("apply")
        /\ info' = [info EXCEPT !.err = TRUE]
        /\ todo' = IF applier = "kubectl" THEN {} ELSE todo \ {o}
        /\ UNCHANGED <<objs, queue>>
  /\ UNCHANGED <<agg, prune, applier, subjVars, pc, inst, orig, fresh, items, seen, unread>>

\* applyset's last update of the parent; an error is only logged
ShrinkParent ==
  IF applier = "applyset"
  THEN \E ok \in BOOLEAN : UpdateParent(IF prune THEN items ELSE inst.named, ok)
  ELSE UNCHANGED <<inst, named, synced>>

\* the applier returns an error: of this loop, or one that was kept
ApplyFailed == info.err \/ info.known = "FailedToApply"

\* a mutated form of AfterApply: the ignored objects are still in the manifest
AfterApply_KeepsIgnored ==
  /\ pc = "prune"
  /\ todo = {}
  /\ ShrinkParent
  /\ \/ /\ ApplyFailed
        /\ Report(TRUE, "FailedToApply", FALSE)
        /\ UNCHANGED mishaps
     \/ /\ ~ApplyFailed
        /\ Mishap("hook")
        /\ Report(TRUE, "", FALSE)
     \/ /\ ~ApplyFailed
        /\ pc' = "build" /\ todo' = ManifestOf[inst.gen]
        /\ info' = [info EXCEPT !.live = TRUE]
        /\ UNCHANGED mishaps
  /\ UNCHANGED <<agg, prune, applier, gen, stored, cache, lag, objs, queue, orig, fresh, items, seen, unread>>

\* The applier returns; then the sink and the AfterApply hooks.
AfterApply ==
  /\ pc = "prune"
  /\ todo = {}
  /\ ShrinkParent
  /\ \/ /\ ApplyFailed
        /\ Report(TRUE, "FailedToApply", FALSE)
        /\ UNCHANGED mishaps
     \/ /\ ~ApplyFailed
        /\ Mishap("hook")
        /\ Report(TRUE, "", FALSE)
     \/ /\ ~ApplyFailed
        /\ pc' = "build" /\ todo' = items
        /\ info' = [info EXCEPT !.live = TRUE]
        /\ UNCHANGED mishaps
  /\ UNCHANGED <<agg, prune, applier, gen, stored, cache, lag, objs, queue, orig, fresh, items, seen, unread>>

(***************************************************************************)
(* The status.                                                             *)
(***************************************************************************)
\* what an aggregator makes of an object it could read
HealthOf(o) ==
  CASE agg = "aggregate" /\ TypeOf[o] = "other"   -> "ready"
    [] ~Exists(o)                                  -> "unknown"
    [] agg = "aggregate" /\ TypeOf[o] = "service" -> "ready"
    [] OTHER                                       -> objs[o].health

\* BuildStatus reads one of the objects
Observe(o) ==
  /\ pc = "build"
  /\ o \in todo
  /\ todo' = todo \ {o}
  /\ \/ /\ seen' = seen \cup {HealthOf(o)}
        /\ UNCHANGED <<unread, mishaps>>
     \/ /\ agg = "aggregate" => TypeOf[o] # "other"
        /\ Mishap("read")
        /\ seen' = seen \cup {"unknown"}
        /\ unread' = TRUE
  /\ UNCHANGED <<agg, prune, applier, subjVars, objs, queue, pc, inst, orig, fresh, items, info>>

\* aggregator.BuildStatus: with an error, or without live objects, nothing was read
Aggregate(s) ==
  [s EXCEPT !.healthy = ~info.err /\ seen \subseteq {"ready"},
            !.errs    = IF seen \subseteq {"ready"} THEN "empty" ELSE "some",
            !.obs     = inst.gen]

\* unreadable objects count neither way
AggregateStatus ==
  CASE "progressing" \in seen -> "InProgress"
    [] "failed" \in seen      -> "Failed"
    [] OTHER                  -> "Current"

\* what Augment adds a Stalled or a Reconciling condition for
AbnormalConditions == seen \cap {"progressing", "failed"}

BuildReadyCondition(isReady) ==
  [status |-> IF isReady THEN "True" ELSE "False",
   reason |-> IF AbnormalConditions = {} THEN "Normal" ELSE "ManifestsNotReady"]

\* kstatusAggregator.BuildStatus: the phase is kept when there is neither an error
\* nor anything to read, the condition also when there is an error
Kstatus(s) ==
  LET phase == CASE info.err /\ info.known = "FailedToApply" -> "Applying"
                 [] info.err /\ info.known # "FailedToApply" -> "InternalError"
                 [] ~info.err /\ info.live                   -> AggregateStatus
                 [] OTHER                                    -> s.phase
      ready == IF ~info.err /\ info.live THEN BuildReadyCondition(phase = "Current") ELSE s.ready
  IN  [s EXCEPT !.phase = phase, !.healthy = phase = "Current", !.obs = inst.gen, !.ready = ready]

BuildStatus(s) == IF agg = "aggregate" THEN Aggregate(s) ELSE Kstatus(s)

\* Status().Update: the API server stores nothing, and nothing is queued, when what it
\* is sent is what it has
StatusUpdate(new) ==
  \/ /\ Marshal(new) = stored
     /\ UNCHANGED <<stored, synced>>
  \/ /\ Marshal(new) # stored
     /\ stored' = Marshal(new) /\ synced' = FALSE

\* a mutated form of UpdateStatus: the write is not conditional on the version
UpdateStatus_Unconditional ==
  /\ pc = "build"
  /\ todo = {}
  /\ LET new == BuildStatus(inst.status)
     IN  IF ~SameCommon(new, orig)
         THEN StatusUpdate(new)
         ELSE UNCHANGED <<stored, synced>>
  /\ Return(info.err \/ info.requeue)
  /\ UNCHANGED <<agg, prune, applier, gen, named, cache, lag, objs, mishaps>>

\* a mutated form of UpdateStatus: an update that fails is not retried
UpdateStatus_DropsError ==
  /\ pc = "build"
  /\ todo = {}
  /\ LET new == BuildStatus(inst.status)
     IN  \/ /\ IF ~SameCommon(new, orig) /\ fresh
               THEN StatusUpdate(new)
               ELSE UNCHANGED <<stored, synced>>
            /\ UNCHANGED mishaps
         \/ /\ ~SameCommon(new, orig)
            /\ Mishap("write")
            /\ UNCHANGED <<stored, synced>>
  /\ Return(info.err \/ info.requeue)
  /\ UNCHANGED <<agg, prune, applier, gen, named, cache, lag, objs>>

\* a mutated form of UpdateStatus: a reconcile that wrote the status asks for another
UpdateStatus_Requeues ==
  /\ pc = "build"
  /\ todo = {}
  /\ LET new == BuildStatus(inst.status)
     IN  \/ /\ SameCommon(new, orig)
            /\ UNCHANGED <<stored, synced>>
            /\ Return(info.err \/ info.requeue)
         \/ /\ ~SameCommon(new, orig)
            /\ IF fresh THEN StatusUpdate(new) ELSE UNCHANGED <<stored, synced>>
            /\ Return(TRUE)
  /\ UNCHANGED <<agg, prune, applier, gen, named, cache, lag, objs, mishaps>>

\* The status is computed on the instance and, if its CommonStatus differs from the one
\* read, sent, which the aggregator's is whenever there are no errors; it is refused when
\* the subject has changed since.  The hooks around it may fail, also after the write.
UpdateStatus ==
  /\ pc = "build"
  /\ todo = {}
  /\ LET new == BuildStatus(inst.status)
     IN  \/ /\ SameCommon(new, orig)
            /\ UNCHANGED <<stored, synced>>
            /\ \/ Return(info.err \/ info.requeue) /\ UNCHANGED mishaps
               \/ Return(TRUE) /\ Mishap("hook")
         \/ /\ ~SameCommon(new, orig) /\ fresh
            /\ StatusUpdate(new)
            /\ \/ Return(info.err \/ info.requeue) /\ UNCHANGED mishaps
               \/ Return(TRUE) /\ Mishap("hook")
         \/ /\ ~SameCommon(new, orig)
            /\ \/ ~fresh /\ UNCHANGED mishaps
               \/ Mishap("write")
               \/ Mishap("hook")
            /\ Return(TRUE)
            /\ UNCHANGED <<stored, synced>>
  /\ UNCHANGED <<agg, prune, applier, gen, named, cache, lag, objs>>

(***************************************************************************)
(* The rest of the cluster.                                                *)
(***************************************************************************)
\* the informer catches up with the subject, and the subject is queued
Sync ==
  /\ ~synced
  /\ synced' = TRUE
  /\ cache' = [gen |-> gen, status |-> stored, named |-> named] /\ lag' = cache
  /\ queue' = TRUE
  /\ UNCHANGED <<agg, prune, applier, gen, stored, named, objs, runVars, mishaps>>

Restart ==
  /\ Mishap("restart")
  /\ Return(TRUE)
  /\ \/ UNCHANGED <<cache, lag, synced>>
     \/ cache' = lag /\ synced' = FALSE /\ UNCHANGED lag
  /\ UNCHANGED <<agg, prune, applier, gen, stored, named, objs>>

\* the user edits the subject
Edit ==
  /\ gen < MaxGen
  /\ gen' = gen + 1
  /\ synced' = FALSE /\ fresh' = FALSE
  /\ UNCHANGED <<agg, prune, applier, stored, named, cache, lag, objs, queue, mishaps,
                 pc, inst, orig, items, todo, info, seen, unread>>

\* what happens to an object comes back as an event of a watch
Changed(o, new) ==
  /\ objs' = [objs EXCEPT ![o] = new]
  /\ queue' = TRUE
  /\ UNCHANGED <<agg, prune, applier, subjVars, runVars>>

\* the object's own controller works on it
Progress(o) ==
  /\ Exists(o) /\ objs[o].health # "ready"
  /\ Changed(o, [objs[o] EXCEPT !.health = "ready"])
  /\ UNCHANGED mishaps

Disturb(o) ==
  /\ Exists(o)
  /\ \/ /\ Mishap("drift")
        /\ \E h \in {"progressing", "failed"} : Changed(o, [objs[o] EXCEPT !.health = h])
     \/ /\ Mishap("drift")
        /\ Changed(o, Absent)
     \/ /\ Mishap("annotate")
        /\ Changed(o, [objs[o] EXCEPT !.ignored = ~@])

(***************************************************************************)
(* The specification.                                                      *)
(***************************************************************************)
Init ==
  /\ agg \in {"aggregate", "kstatus"} /\ prune \in BOOLEAN /\ applier \in {"kubectl", "applyset"}
  /\ gen = 1 /\ stored = NewStatus /\ named = {}
  /\ cache = [gen |-> 1, status |-> NewStatus, named |-> {}] /\ lag = cache /\ synced = TRUE
  /\ objs = [o \in Object |-> Absent]
  /\ queue = TRUE
  /\ pc = "idle" /\ inst = cache /\ orig = NewStatus /\ fresh = FALSE
  /\ items = {} /\ todo = {} /\ info = NoInfo /\ seen = {} /\ unread = FALSE
  /\ mishaps = 0

RunStep ==
  \/ Reconcile \/ Prepare \/ BeforeApply \/ DirectApply \/ Applied \/ AfterApply \/ UpdateStatus
  \/ \E o \in Object : Filter(o) \/ Apply(o) \/ Prune(o) \/ Observe(o)

Next ==
  \/ RunStep
  \/ Sync
  \/ Restart
  \/ Edit
  \/ \E o \in Object : Progress(o) \/ Disturb(o)

Spec == Init /\ [][Next]_vars

\* A queued subject is reconciled, a reconcile goes on, the informer catches up.
\* Nothing is assumed of the objects' controllers.
FairSpec == Spec /\ WF_vars(RunStep) /\ WF_vars(Sync)

(***************************************************************************)
(* Properties.                                                             *)
(***************************************************************************)
Subj == [gen: Gen, status: Status, named: SUBSET Object]

\* Every variable has its type, and the loops run over the items.
TypeOK ==
  /\ agg \in {"aggregate", "kstatus"} /\ prune \in BOOLEAN /\ applier \in {"kubectl", "applyset"}
  /\ gen \in Gen /\ stored \in Status /\ named \subseteq Object
  /\ cache \in Subj /\ lag \in Subj /\ inst \in Subj /\ orig \in Status
  /\ synced \in BOOLEAN /\ fresh \in BOOLEAN /\ queue \in BOOLEAN /\ unread \in BOOLEAN
  /\ objs \in [Object -> [gen: 0..MaxGen, health: Health, ignored: BOOLEAN]]
  /\ pc \in {"idle", "prepare", "filter", "apply", "prune", "build"}
  /\ items \subseteq Object /\ todo \subseteq Object
  /\ pc # "prune" => todo \subseteq items
  /\ info \in [err: BOOLEAN, known: {"", "FailedToApply", "VersionCheckFailed"},
               requeue: BOOLEAN, live: BOOLEAN]
  /\ seen \subseteq Health \cup {"unknown"}
  /\ mishaps \in 0..MaxMishaps

\* nothing is queued, on its way to the queue, or being reconciled
AtRest == pc = "idle" /\ ~queue /\ synced

\* kubectl is the applier and the ignore annotation leaves it nothing to apply
AllIgnored == applier = "kubectl" /\ \A o \in ManifestOf[gen] : objs[o].ignored

\* the objects of the subject's manifest are there, and healthy as far as the
\* aggregator looks; those with the ignore annotation do not count
AllHealthy ==
  \A o \in ManifestOf[gen] :
    objs[o].ignored \/ (objs[o].gen = gen /\ HealthOf(o) = "ready")

\* When the controller is at rest, the status it left in the API server is about
\* the present generation and says healthy exactly when the objects of its
\* manifest are applied and healthy now, however stale the reads and however
\* unlucky the order of edits, events, conflicts and failures before.  With kstatus
\* the Ready condition says the same as healthy, although updateStatus does not look
\* at the conditions when it decides whether to write.
RestingStatusIsTrue ==
  AtRest /\ gen \notin TooNew =>
    /\ stored.obs = gen
    /\ ~unread => (stored.healthy <=> AllHealthy)
    /\ agg = "aggregate" => (stored.healthy => AllHealthy)
    /\ agg = "kstatus" => stored.ready = IF stored.healthy THEN [status |-> "True", reason |-> "Normal"]
                                         ELSE [status |-> "False", reason |-> "ManifestsNotReady"]

\* What VersionCheck's documentation says: an operator that is too old updates
\* the status and stops reconciling; the status does not say healthy.
VersionCheckReported == AtRest /\ gen \in TooNew => ~stored.healthy

\* The status never goes back to an earlier generation: updateStatus writes with
\* the resourceVersion it read, so a restarted controller whose cache lags cannot
\* overwrite what its predecessor reported.
ObservedIsMonotone == [][stored'.obs >= stored.obs]_vars

\* A manifest the operator is too old for is never applied.
NeverTooNew == [][\A o \in Object : objs'[o].gen # objs[o].gen => objs'[o].gen \notin TooNew]_vars

\* The controller comes to rest although each of its own writes, to the status,
\* to the annotations and to the objects, queues the subject again, and although with
\* the aggregator every reconcile without errors sends its status; unless all that is left
\* for kubectl to apply is nothing, which fails for ever.
Settles == <>[]AtRest \/ <>[]AllIgnored

Advances ==
  \/ pc' = "idle"
  \/ <<pc, pc'>> \in {<<"prepare", "filter">>, <<"filter", "apply">>, <<"apply", "prune">>, <<"prune", "build">>,
                     <<"prepare", "build">>, <<"filter", "build">>, <<"apply", "build">>}
  \/ pc' = pc /\ todo' \subseteq todo /\ todo' # todo

\* A reconcile comes to an end: each of its steps ends it, goes on to a later phase, or
\* is done with an object of the loop it is in, whatever fails; and whatever the user,
\* the informer and the objects' controllers do meanwhile, no loop gets longer.
ReconcileAdvances ==
  [][pc # "idle" => /\ RunStep => Advances
                    /\ ~RunStep => pc' = "idle" \/ (pc' = pc /\ todo' = todo)]_vars
=============================================================================
