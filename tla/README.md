# A TLA+ model of kubebuilder-declarative-pattern

The repository is a toolkit for operators ("addons") that turn a custom
resource, the *subject*, into a set of Kubernetes objects. This directory holds
TLA+ modules that model it, configurations with which TLC checks them on small
instances, and proofs that TLAPS checks for every value of the constants.
`PROJECT.json` lists, for every definition, the source lines it stands for, and
the hazards of the code with the properties that would catch them.

## The system and its parts

A reconcile goes through these parts, in this order.

| part | source (under `src/`) | what it does | module |
| --- | --- | --- | --- |
| declarative reconciler | `pkg/patterns/declarative/reconciler.go`, `options.go` | reads the subject, builds and filters the objects, calls hooks and applier, writes the status | `Reconciler` |
| loaders | `pkg/patterns/addon/pkg/loaders` | find the manifest of a channel or version | `Pipeline` |
| manifest and transforms | `pkg/manifest`, `sort.go`, `image.go`, `labels.go`, `application.go`, `pkg/patterns/addon` | parse, transform, order and finish the objects | `Pipeline` |
| object metrics | `metrics.go` | before an apply, track its objects; gauges say which exist | `ObjectTracker` |
| child watches | `watch.go`, `pkg/watch/dynamic.go` | before an apply, watch the kinds of its objects; events become reconciles | `ChildWatch` |
| ApplySet and its applier | `applylib`, `pkg/applier/applylib.go` | apply, remember where the members are, prune | `ApplySet` |
| applier of kubectl's library | `pkg/applier/direct.go` | the default applier: apply and prune without a parent | `Reconciler` |
| status | `status.go`, `pkg/patterns/addon/pkg/status` | version check, health aggregation, the Ready condition | `Reconciler` |
| RESTMapper cache | `pkg/restmapper` | maps kinds to resources, from cached discovery | `RESTMapper` |
| mock API server | `mockkubeapiserver` | an API server in memory, with storage, hooks, watches and discovery | `MockServer`, `RESTMapper` |

Further modules: `ManagedSet`, what an ApplySet promises; `ApplySetProofs`,
`ApplySetRefinement`, `ChildWatchProofs`, `ReconcilerProofs`, `PipelineProofs`,
`ObjectTrackerProofs`, `RESTMapperProofs` and `MockServerProofs`, the theorems; and an
`MC` module per component with the values of the constants for TLC.

The modules overlap where the parts meet. `Reconciler` has the applier as its
writes to the subject and to the objects, with the annotations, the prune and the
errors that `ApplySet` has in detail. What a kind's RESTMapping is, `ApplySet` and
`ChildWatch` leave to a choice; `RESTMapper` says where it comes from. What the
API server does with an event `ChildWatch` assumes of a real server; `MockServer`
shows which of it the mock provides.

## Runs

| run | result | checks |
| --- | --- | --- |
| `MCApplySet` | holds | `NoLeak`, `SuccessIsPruned`, `SuccessIsApplied`, `ParentIsLabelled`, `PruneSafe`, `KeepsPromise`, `Converges` |
| `MCApplySetForeign` | holds | `NoLeak`, `SuccessIsPruned`, with other clients |
| `MCApplySetDeleteFails` | violated | `NoLeak`, when a delete is refused |
| `MCChildWatch` | holds | `NoLostWakeup` |
| `MCChildWatchLive` | holds | `Repairs`, `Quiesces` |
| `MCReconciler` | holds | `RestingStatusIsTrue`, `ObservedIsMonotone`, `NeverTooNew`, `Settles` |
| `MCReconcilerVersion` | violated | `VersionCheckReported` |
| `MCPipeline` | holds | `BuiltOnce`, `SameOrder`, `SafeOrder`, `OwnedWhereAllowed`, `ResolvedIsLatest`, `ApplicationMatches` |
| `MCPipelineLabels` | violated | `OwnLabels`, when the slice of transformations has capacity left |
| `MCObjectTracker` | holds | `GaugeIsTrue`, `RemovedLate` |
| `MCRESTMapper` | holds | `AnswerIsCached`, `AbsentIsNotCached`, `PreferredFirst`, `CacheIsForever` |
| `MCMockServer` | holds | `WatchIsComplete`, `SeenIsReady`, `NeverBack` |

Each module also has a `TypeOK`, which includes its mutual exclusion. The three
violations are what the code does, not defects of the model; `PROJECT.json`
quotes the line of the repository that each one contradicts.

Nine more configurations are kept as scenarios that a reader can run; each differs
from a run above in its faults, its subjects or its property.

| configuration | result | scenario |
| --- | --- | --- |
| `MCApplySetReuse` | `NoLeak` is violated | after a failed update ApplyOnce is called again on the same ApplySet: the parent it holds in memory has annotations that were never stored, so the superset is not written (`applylib/applyset/applyset.go:338`) |
| `MCApplySetStale` | `NoLeak` is violated | the parent comes from a lagging cache and the write is not conditional on its version (`applyset.go:351`) |
| `MCApplySetStrip` | `ParentGetsLabel` is violated | the parent's label is removed after it was read (`applyset.go:404`) |
| `MCApplySetShared` | `KeepsItsPart` holds | `MCApplySetForeign` without replaced objects: other clients create and delete objects and kinds |
| `MCChildWatchDelete` | `NoLostDeletion`, `RestIsRight` and `Repairs` hold | objects are deleted while watches stay open |
| `MCChildWatchGap` | `Repairs` is violated | an object is deleted while its watch is closed: the next watch has no event for it (`pkg/watch/dynamic.go:129`) |
| `MCChildWatchSameName` | `Repairs` is violated | subjects of one name in two namespaces share a watch, which notifies the first only (`watch.go:188`) |
| `MCObjectTrackerDocumented` | `RemovedAsDocumented` is violated | the reconcile that handles an object is counted when the object is deleted before it ends (`metrics.go:211`) |
| `MCMockServerKinds` | `WatchIsComplete`, `SeenIsReady` and `NeverBack` hold | the mock server serves a cluster's kind, a Secret or a custom kind |

The first two contradict "It pre-updates the parent object so that it covers the
resources that will be applied. In this way, even if we are interrupted, we will
not leak objects." (the fork's `applyset.go:588`); the third "WithParent guarantees
the parent has the right applyset labels." (`applyset.go:378`);
`MCChildWatchGap` "This will result in 'overnotification' from this Watch but it will
ensure we always Reconcile when needed" (`dynamic.go:148`); `MCChildWatchSameName`
"WatchAll creates a Watch on ctrl for all objects reconciled by recnl." (`watch.go:76`);
and `MCObjectTrackerDocumented` "metrics will be removed from Prometheus registry when
metricsDuration times reconciliation has happened since k8s object related to that
metrics is deleted and that k8s object hasn't been handled in those reconciliations"
(`options.go:205`).

## ApplySet

`ApplySet.tla` models one ApplySet and the API server it works against.

| state | code |
| --- | --- |
| `live`, `member`, `served` | the objects in the cluster, those carrying the part-of label, the group-kinds served |
| `parent`, `prior` | the parent's labels and annotations as stored, and one version earlier (a lagging cache) |
| `mem`, `fresh` | the parent object the controller holds, and whether its resourceVersion is current |
| `desired` | `trackers.items`, the snapshot ApplyOnce takes |
| `mapped`, `current`, `visited` | the RESTMappings found, what FetchParent read, `visitedUids` |
| `applied`, `failed`, `pruned`, `unpruned` | `ApplyResults` |
| `listed`, `listErr`, `found` | the parallel list tasks of FindAllObjectsToPrune |
| `pc`, `outcome`, `prune`, `calm` | where ApplyOnce is, what it last reported, the Prune option, and that no more goes wrong |

Every request to the API server is an action of its own, so the server, other
clients and a crash can come between any two of them: `StartRun` (snapshot and
mappings), `WithParent` (fetch the parent, write the superset), `Apply` (one
object), `EndApply` (whether to prune), `FindObjectsToPrune` (one list task),
`EndList`, `Delete` (one object), `FinishPrune` (write the latest set). The list
tasks run in any order, as the goroutines do. `Crash`, `TouchParent`,
`StripLabel`, `ForeignCreate`, `ForeignDelete`, `Recreate`, `RemoveKind` and
`InstallKind` are the environment. The constant `Faults` says which of these,
and which failures of requests, an instance allows.

What is checked:

- `NoLeak`: every object carrying the part-of label is named by the parent's
  annotations as stored, wherever the controller stops;
- `PruneSafe`: a prune deletes only labelled, undesired objects, after all
  desired ones were applied;
- `SuccessIsPruned`, `SuccessIsApplied`: what a reported success means;
- `ParentIsLabelled`: while there are members the parent has the id label;
- `KeepsPromise`: every behaviour is one of `ManagedSet`;
- `KeepsItsPart` (in `MCApplySetShared`): where other clients write objects too, every
  step is theirs or one of `ManagedSet`;
- `RunAdvances`: each step of a run ends it, goes on to the next loop, or is done with
  an object or list of the loop it is in, and no step of anybody else makes a loop
  longer. It is proved, and is the part of `Converges` that needs no fairness;
- `Converges`: once nothing goes wrong any more, the members become the desired
  objects and stay so. Nothing is said of the parent: `FinishPrune` that cannot write
  it only logs the error, the run is a success and is not repeated, so the parent may
  name more than the members need until there is another run. `CalmDown` says from when on, and comes between two runs: a run
  in which nothing goes wrong any more ends by itself, so no case is lost.

`ManagedSet` is the abstract specification: a set that between runs knows where
all its members are, that takes in wanted objects where it would find them again,
gives others up only when it has taken in all wanted ones, and reports success only
then, when no other members are left. `taken` is what a run knows it has taken in: when
the answer to an apply is lost the object is a member and not taken. Nothing is said of
members that others take away meanwhile, so the same specification serves a cluster
that is shared. The refinement mapping says that an object would be
found where the stored annotations cover it.

`PruneSafe` is not checked in `MCApplySetForeign` because the code does not keep it
there. With `Faults = {"recreate"}` TLC finds a desired object that is pruned: only
the UIDs this run's patches returned are exempt, and the object was replaced between
its apply and the list. With `Faults = {"foreign"}` it finds an unlabelled object that
is pruned: the delete is by name, and the object took the name after the list.

Bounds: three objects in two group-kinds, one namespaced with objects in the
parent's namespace and in another (or without the namespace it needs), one
cluster-scoped. That is the least in which a set can shrink by a kind, by a
namespace and by an object of a kind that stays. The desired set changes freely
between runs, and nothing bounds the number of runs, faults or crashes.

Fairness: a run that has begun goes on, and a run that did not succeed is
started again, as controller-runtime requeues a reconcile that returned an
error. A successful run need not be repeated.

## ChildWatch

`ChildWatch.tla` models `clusterWatch.BeforeApply`, `dynamicWatch` and as much of
the reconcile loop as calls them.

| state | code |
| --- | --- |
| `state`, `rv` | the children in the API server: absent, as applied, or drifted; their resourceVersion |
| `queue`, `wk` | the controller's work queue and its workers |
| `lock`, `registered` | `clusterWatch.mutex`, `clusterWatch.registered` |
| `st`, `started`, `target` | a watch's goroutine, `watchStarted`, the subject it notifies |
| `buf`, `active`, `lastRV` | the ResultChan, `sawActivity`, `lastRV` |
| `mishaps` | how often something went wrong, at most `MaxMishaps` |

`Lock`, `Register`, `Registered`, `Unlock` are the steps of BeforeApply: it holds
the mutex while Add waits for the first Watch call. `Open`, `Refuse`, `Hang`,
`Receive`, `Bookmark`, `Close`, `Tick` and `Wake` are those of a watch's
goroutine and its ticker. `Begin`, `ApplyChild` and `Finish` stand for
controller-runtime and the applier, `Disturb` for other clients. A watch is
identified by the key under which it is registered: kind, selector and, with
`ScopeWatchesToNamespace`, namespace.

What is checked:

- `NoLostWakeup`: a drifted object is about to be applied, or each open watch
  that selects it still has the event, although `lastRV` suppresses events and
  outlives the watch;
- `NoLostDeletion` (in `MCChildWatchDelete`): while watches stay open, the same for
  an object that was deleted;
- `RestIsRight` (in `MCChildWatchDelete`): when queue and watches are empty and the
  workers idle (`AtRest`), every object is as it was applied. This is what `Repairs`
  says without fairness;
- `Repairs`: every object that is missing or has drifted is put right again;
- `Quiesces`: the controller comes to rest, although its own writes and all
  objects at every rewatch come back as events.

A kind without a RESTMapping (`"mapping"`) is only logged: the apply goes ahead and
its objects are not watched. That is why `"mapping"` is not among the faults of the
liveness run.

Bounds: two children, of one subject (so that one subject has two watches) or of
two (so that watches of different subjects are registered concurrently), and two
mishaps, enough for an object to drift and its watch to fail around it. Every
mishap and every change by another client counts, so the liveness properties are
about what happens after the last of them. `MCChildWatch` does not check for
deadlock: when no mapping is found there is no watch, and a controller that has
applied everything rests for good.

The ticker cancels an open watch only when its channel is empty: a period is 300
seconds by default, long enough to handle what has arrived. A watch cut off with
events on their way is `Close`.

Fairness: weak for the goroutines, for Watch calls that do not hang and for the
ticker; strong for taking a given subject from the work queue, which is first in,
first out, and for the mutex, which Go hands to a waiter that has starved. No
fairness is assumed of the server's bookmarks or of any fault.

## Reconciler

`Reconciler.tla` models one subject and the reconciles that turn it into objects and
report on them in its status.

| state | code |
| --- | --- |
| `agg`, `applier`, `prune` | which `BuildStatusImpl` and which applier is in use; `WithApplyPrune` |
| `gen`, `stored`, `named` | the subject in the API server: generation, common status with the Ready condition, and the objects its ApplySet annotations name |
| `cache`, `lag`, `synced` | the informer's copy of it, the copy before, and whether it is up to date |
| `objs`, `queue` | the objects in the API server; whether the subject is in the work queue |
| `inst`, `orig`, `fresh` | `instance`, the status it was read with, whether its resourceVersion is current |
| `items`, `todo`, `info` | `objects.Items`, what the current loop has left, `statusInfo` with the result |
| `seen`, `unread` | what the aggregator has read; that a read failed |

`Reconcile`, `Prepare` (preflight, build, version check, owner references), `Filter`
(the ignore annotation), `BeforeApply` (hooks, the ApplySet's superset), `Apply`,
`Applied`, `Prune`, `AfterApply` (the ApplySet's latest set, sink, hooks), `Observe`
(the aggregator reads an object) and `UpdateStatus` are the steps of one reconcile;
each request to the server is one. With the ApplySet applier, `BeforeApply` and
`AfterApply` write the parent. With the default one, `DirectApply` takes their place
before the apply: it leaves out the objects whose REST mapping it cannot get (the
fault `map`), applies and prunes with the others, and reports the error at the end;
a prune of kubectl's stops at its first error. `NothingToApply` is kubectl's refusal
of an empty list, and external. `Sync`, `Restart`, `Edit`, `Progress` and
`Disturb` are the informer, a new process, the user, the objects' controllers and
other clients. Each failure the code handles is a branch of its action.

What is checked:

- `RestingStatusIsTrue`: when nothing is queued or under way, the stored status is
  about the present generation, and says healthy exactly when the objects of its
  manifest are applied and healthy now. What kstatus says in the Ready condition
  agrees with it, although `updateStatus` compares the common status only. After
  a read that failed only one direction is claimed, and only of the aggregator:
  `aggregateStatus` of kstatus does not look at objects it could not read;
- `ObservedIsMonotone`: the status never goes back to an earlier generation;
- `NeverTooNew`: a manifest that needs a newer operator is never applied;
- `ReconcileAdvances`: each step of a reconcile ends it, goes on to a later phase, or is
  done with an object of its loop, and nothing else makes a loop longer. It is proved,
  and is the part of `Settles` that is about a single reconcile;
- `Settles`: the controller comes to rest although each of its own writes queues
  the subject again. With the aggregator it relies on the API server: the aggregator's
  Errors are an empty list, which JSON omits and which is read back as nil, so for
  `DeepEqual` the status has changed, and every reconcile without errors sends it
  again (`aggregate.go:55`, `reconciler.go:271`). The server makes nothing of an update
  that changes nothing (`StatusUpdate`, external), so no event follows. The exception is a subject all of whose objects are ignored,
  with the default applier: kubectl refuses an empty list, and each reconcile fails;
- `VersionCheckReported`, which is violated: an operator that is too old says
  healthy. The version check fails without an error, so the aggregator sees neither
  an error nor live objects, and overwrites what the check has set.

Bounds: a deployment and a service, three generations (the second drops an object,
the third needs a newer operator), and one mishap, which may be any of the failures,
a drift, a change of the ignore annotation or a restart. `MCReconciler` also passes
with two mishaps (9.2 million states). The run does not check for deadlock: a
controller at rest rests.

Fairness: weak for the steps of a reconcile and for the informer. Nothing is assumed
of the objects' controllers, of users or of faults.

## Pipeline

`Pipeline.tla` models how a subject becomes the objects that are applied for it:
the loaders, `BuildDeploymentObjectsWithFs`, and the steps of `reconcileExists` that
finish its objects. Several workers run it, each for its own subject.

| state | code |
| --- | --- |
| `repo`, `kustomize`, `managed`, `preserve` | the kind of repository; the options |
| `want`, `channel`, `clone` | `spec.version`, the channel file, the checkout of a git repository |
| `slot` | the array element behind `options.objectTransformations`, which the workers share |
| `run[w]` | a build: the version, the channel it was resolved from, the files left, the objects being transformed, `manifestObjects.Items` |

`LoadChannel` and `LoadManifest` are `ResolveManifest`; `ParseFile` takes the files in
any order, as a Go map gives them; `EndFiles` is the kustomize build; `AppendLabels`
and `Transform` are the two halves of `transformManifest`; `Finish` sorts, flattens
and sets namespaces and owner references. The transforms are operators on an object:
`ApplyImageRegistry`, `ApplyPatches`, `TransformApplication`,
`TransformApplicationFromStatus` and `AddLabels`. Each kind of repository has its own
`LoadChannel` and `LoadManifest` (`FSChannel`, `FSManifest`, and so on): files are read
one by one, an HTTP repository has one file per version, and a git repository
answers from its clone. `sort.Slice` is not stable,
so `Sorted` is the set of all orders that agree with the key.

What is checked:

- `BuiltOnce`: a finished build has each document of its version once, transformed
  once, in whatever order the files came and with kustomize as without;
- `OwnLabels` (in `MCPipelineLabels`): it carries its own subject's labels. Violated when
  the slice of transformations has capacity left (`Spare`): `append` then writes to an
  array that all workers share. Without capacity nothing is shared;
- `SameOrder`, `SafeOrder`: two builds of a version order its objects alike, with
  definitions and namespaces first and services last;
- `OwnedWhereAllowed`: owner references are on exactly the objects a subject may own;
- `ResolvedIsLatest`: a version that is not pinned is the greatest of the channel
  that was read;
- `ApplicationMatches`: a build's only Application lists the kinds of all its objects,
  and the version in a descriptor, where there is one, is the version that was built.
  Without kustomize each file is transformed by itself, so of several Applications each
  lists the kinds of its own file.

Bounds: two workers, one with a namespaced subject; three versions, of one file, of
two, and one that is no semantic version and has no package; five documents, a
channel of two entries (none is published when every subject names its version, as
no step then reads the channel's content); one subject is healthy (`Healthy`). Every
combination of the options is an initial state.

## ObjectTracker

`ObjectTracker.tla` models the gauges of `metrics.go` that say which objects exist.

| state | code |
| --- | --- |
| `duration` | `metricsDuration` |
| `listed` | under which namespace and name an object is listed: its own, or the default namespace's |
| `trackers`, `started`, `ids` | `trackedGVK`, the kinds whose watch runs, the counters of the items |
| `gauge` | the series of the gauge vector |
| `mu`, `run` | the tracker's mutex, the reconciles inside `addIfNotPresent` |
| `events`, `hand` | the events of a kind that its handler has not seen; the value it is about to set |
| `rest`, `expired` | history: reconciles after the one that last handled the object; objects whose series was removed |

`Lock`, `AddIfNotPresent`, `IncAll`, `Expire`, `Unset` and `Unlock` are one call of
`addIfNotPresent` with its deferred calls; `Handle` and `Set` are the two halves of an
event handler, which looks into the list under its mutex and sets the gauge after.
Where a reconcile has a default namespace, `addIfNotPresent` lists all namespaced objects under
it, while the events carry the object's own namespace (`metrics.go:221`): an object of
another namespace has no series, unless one of its name is listed there, and objects of
one name share an entry.

What is checked:

- `GaugeIsTrue`: once its handler has caught up, a gauge is 1 exactly while the
  object exists, unless its series was removed once: a handler that had looked before
  the removal brings the series back, and nothing removes it again;
- `RemovedLate`: a series is removed only when `metricsDuration` - 1 reconciles have ended
  after the one that last handled the object. What was counted before that is
  forgotten; the handling reconcile itself counts if the object is deleted before it
  ends. The documented number is one more (`MCObjectTrackerDocumented`).

Bounds: two objects of one kind and name in two namespaces, of which either or none is
the default; two reconciles; a duration of two, or none; two changes by others and at
most two events waiting per kind. Reconciles are alike and so are the objects, which is
the symmetry used.

## RESTMapper

`RESTMapper.tla` models `ControllerRESTMapper` and its cache, shared by the callers of
a process, against a server that is the mock (which has empty lists for what it does
not know) or a real one (which says NotFound).

| state | code |
| --- | --- |
| `served`, `real` | the types of the server, and which kind of server it is |
| `allGroups`, `resources` | `cachedAllGroups`, `cachedServerResources` of each group-version |
| `gmu`, `rmu` | the mutex of the cache, and of each group-version |
| `call[w]` | a call: versions left, versions found, the answer under way |

`FetchAllGroups`/`ServerGroups` and `FetchServerResources`/`ServerResources` are the
lookups before and after a request, which is made with the mutex held. A call names
one version or none, as all callers in the repository do.

What is checked:

- `AnswerIsCached`: what a call found is in the cache, and a type that was served all
  through the call and is not in its answer is missed only for an answer that was
  cached before;
- `WaitsForARequest`: a caller that waits for a mutex waits for one that is asking the
  server and waits for no mutex. It is proved;
- `AbsentIsNotCached`: the NotFound of a real server is not remembered;
- `PreferredFirst`: `RESTMapping` gets the preferred version where it has the kind;
- `CacheIsForever`: what the cache knows it keeps, also when several callers found
  it empty.

Bounds: one group with two versions and two kinds, two callers, two changes of the
server's types.

## MockServer

`MockServer.tla` models the mock API server for one resource.

| state | code |
| --- | --- |
| `kind` | what is served: it decides routes, scope, generations, hooks and typed apply |
| `objects`, `clock`, `mu` | the memory storage, its resource version clock, its mutex between two steps |
| `watches`, `wpc` | the slots of `resourceStorage.watches`, and where each watch's goroutine is |
| `req` | a PUT or PATCH between its read and its write |
| `body`, `mirror`, `hung` | the response body of a watch, what its client made of it, the broken connections |

A storage operation broadcasts before it unlocks and is one step. `Get` is the read of
`Put`, `PutStatus` and `Patch`; `Register` and `Backfill` are the two halves of a watch.
`Route` is `ServeHTTP`'s choice of a handler by the number of path elements.

What is checked:

- `WatchIsComplete`: once a watch has backfilled, the events on their way lead from
  what the client knows to what is stored;
- `NeverBack`: the events on their way to a client have the versions of an object in
  their order, what was deleted comes back only as a newer version
  (`EventsInOrder`), and what the client knows never goes back to an older version;
- `SeenIsReady`: nobody sees a Deployment before its hook has finished it.

A broken connection can leave the mutex locked for good, and the model has these states:
a backfill that fails returns without unlocking, and a broadcast to a watch whose
callback failed and that has not begun its backfill blocks with the mutex held. Nothing
promises that a test double does not do so, and no property is stated.

Bounds: two objects in two namespaces, two clients, one watch of everything and one of
a namespace, a clock of two, a Deployment (generations, a hook, typed apply) or a
ConfigMap; `MCMockServerKinds` has the other kinds. The run does not check for deadlock, as the clock stops. Lost updates
between the read and the write of a PATCH are behaviours of the model; the handler's
own comments say it is not done properly, and no property is stated against it.

## What is proved

Every safety property that a passing run checks has a theorem, and so have six more.
For any objects, kinds,
namespaces, workers and any number of steps:

| theorem | assumes | states |
| --- | --- | --- |
| `ApplySetProofs!TypeCorrect` | | `TypeOK` always |
| `MembersAreReachable` | `Benign`: no delete fails, runs start from the stored parent on a new ApplySet | `NoLeak` always |
| `SuccessMeansPruned` | `Benign` | `SuccessIsPruned` always |
| `PruningIsSafe` | `Undisturbed`: other clients do not create, delete or replace objects | `PruneSafe` |
| `RunsAdvance` | | `RunAdvances` |
| `ParentOfMembersIsLabelled` | `Kept`: nobody takes the label off; runs start from the stored parent on a new ApplySet | `ParentIsLabelled` always |
| `ApplySetRefinement!SuccessMeansApplied` | `Alone`: other clients leave objects and kinds alone | `SuccessIsApplied` always |
| `ApplySetIsManaged` | `Benign`, `Alone` | `KeepsPromise`: every behaviour of `ApplySet` is one of `ManagedSet` |
| `ApplySetKeepsItsPart` | `Benign`, `NotReplaced`: nobody replaces a member by a new object that carries the label | `KeepsItsPart`: beside the steps of others, `ApplySet` takes only those of `ManagedSet` |
| `ChildWatchProofs!TypeCorrect` | | `TypeOK` always, mutual exclusion included |
| `NoChangeIsOverlooked` | `Distinct`: a watch selects the objects of one subject only | `NoLostWakeup` always |
| `NoDeletionIsOverlooked` | `Distinct`, `Uninterrupted`: no watch is refused, hangs, is cancelled or ends | `NoLostDeletion` always |
| `RestIsAlwaysRight` | `Distinct`, `Uninterrupted` | `RestIsRight` always |
| `ReconcilerProofs!TypeCorrect` | | `TypeOK` always |
| `ReportsGoForward` | | `ObservedIsMonotone` |
| `TooNewIsNotApplied` | | `NeverTooNew` |
| `StatusLeftIsTrue` | | `RestingStatusIsTrue` always |
| `ReconcilesAdvance` | | `ReconcileAdvances` |
| `PipelineProofs!PipelineTypeCorrect` | | `TypeOK` always |
| `EachBuiltOnce` | | `BuiltOnce` always |
| `OrderIsSame`, `OrderIsSafe` | | `SameOrder` and `SafeOrder` always |
| `OwnedExactly` | | `OwnedWhereAllowed` always |
| `LatestResolved` | | `ResolvedIsLatest` always |
| `ApplicationIsRight` | | `ApplicationMatches` always |
| `ObjectTrackerProofs!TrackerTypeCorrect` | | `TypeOK` always, the use of the mutex included |
| `GaugeAgrees` | | `GaugeIsTrue` always |
| `MetricsRemovedLate` | | `RemovedLate` |
| `RESTMapperProofs!TypeCorrect` | | `TypeOK` always |
| `NotFoundIsNotCached` | | `AbsentIsNotCached` always |
| `CacheKeeps` | | `CacheIsForever` |
| `AnswerIsAlwaysCached` | | `AnswerIsCached` always |
| `NoRingOfCallers` | | `WaitsForARequest` always |
| `PreferredComesFirst` | | `PreferredFirst` always |
| `MockServerProofs!SeenGoesForward` | | `NeverBack` |
| `SeenIsAlwaysReady` | | `SeenIsReady` always |
| `StorageTypeCorrect` | | `TypeOK` always: versions and slots are given once |
| `WatchAlwaysComplete` | | `WatchIsComplete` always |

The hypotheses are needed: `MCApplySetDeleteFails`, `MCApplySetReuse` and
`MCApplySetStale` violate `NoLeak` with one conjunct of `Benign` dropped each, the
variations named under ApplySet show what happens to `PruneSafe` without
`Undisturbed`, `MCChildWatchSameName` is an instance without `Distinct`,
`MCChildWatchGap` one without `Uninterrupted`, and `KeepsItsPart` is violated with all
the faults of `MCApplySetForeign`, `"recreate"` among them. Beyond them the theorems rest on
the named assumptions `ConstantsOK`, `ChildWatchConstants`, `ReconcilerConstants`,
`PipelineConstants`, `PipelineDocs`, `PipelineNone`, `TrackerConstants`, `TrackerListings`,
`TrackerSets`, `MapperConstants` and `MockConstants`, which say what type the constants have; TLC
evaluates them on every run. Those that say more than a type:

- the objects of the tracker and of the mock server, and the versions of the RESTMapper,
  are finitely many, as what a server lists is; there is at least one id, group and kind;
- a document is in one place of one file of a package (`PipelineDocs`). It names the
  place, so two documents with the same text are two;
- no document has the group "v1" (`PipelineDocs`): `flattenListObjects` would drop its
  list for the list's items. The group of a core List is "", so the code does not do it;
- versions of the RESTMapper are numbers from 1: the order of the version strings is all
  that matters of them, and 0 stands for a call without one.

The arguments:

- *Members are reachable.* `NoLeak` alone is not inductive: after the superset is
  written, members come into being one request at a time. `LeakInv` adds that a
  run starts from a held parent that names what the stored one names
  (`HeldIsStored`); that from the first apply on the stored parent names both
  what FetchParent read and what this run may apply (`StoredIsSuperset`); that
  every member is where the lists will look, or desired (`MembersAccounted`); that
  what the lists have looked at is found or desired (`ListedIsFound`); and that
  every undesired member is still to be deleted (`UndesiredIsLeft`). So when the
  parent is reduced at the end, nothing is left that only the superset named.
- *Pruning is safe.* Every desired object was applied before the lists are made,
  so its UID is visited as long as nobody replaces it (`AppliedIsVisited`), and
  what the lists found is not desired (`FoundIsStale`); together they are `KeepInv`.
  What was found is still a member when it is deleted (`FoundIsMember`), as long as
  nobody takes it away and creates an object of the same name.
- *Runs and reconciles advance.* Where the pc stays, what is left of the loop gets
  smaller; where it moves, it moves to a later loop or ends the run. With finitely many
  objects a run has finitely many steps. No invariant but the types is needed.
- *The parent of members is labelled.* `LabelInv` adds that a run starts from the
  stored parent, that a stored parent without the label has no annotations either, and
  that from the first apply on it has the label: label and superset are written
  together, so only a parent that has both is not written.
- *A success means applied.* What was applied stays a member while nobody else
  touches it, and a prune takes only what is not desired (`AppliedIsMember`,
  `SetInv`).
- *Refinement.* Initial states map to initial states, and each action, under the
  invariants above, to the step of `ManagedSet` it is for or to a stutter: a
  successful `Apply` takes an object in, `Delete` gives one up, the writes of the
  parent change what would be found, the ends of a run report. That no other member is
  left at a success follows from `LeakInv`, that nothing desired is given up from
  `KeepInv`; neither needs other clients to leave the objects alone, so the same
  lemma shows `KeepsItsPart`, where their steps are allowed besides (`OthersStep`). With
  `Alone` there are no such steps, and `KeepsPromise` is what is left.
- *No change is overlooked.* `Receive` drops an event whose resourceVersion
  `lastRV` has. `WakeInv` adds that what `lastRV` has of a drifted object was acted
  upon (`SeenIsAwaited`) and that no resourceVersion is known before it is given
  out (`VersionsOK`), so that a write is never taken for something seen.
- *No deletion is overlooked.* What a watch begins with has no event for an object that
  is gone. `OpenInv` says that an uninterrupted watch is opened once, and that
  while it is not registered the worker that registers it waits for it (`OpensOnce`) on
  behalf of the subject that owns what the watch selects (`KeyIsOwn`). So whatever
  was deleted before is applied by that worker, and whatever is deleted after has an
  event. `Receive` never drops a deletion: `lastRV` is compared for other events only.
- *Rest is right.* At rest no object is awaited and no event is left, so by
  `NoLostWakeup` none has drifted and by `NoLostDeletion` none is absent.

- *Reports go forward; what is too new is not applied.* `RunInv` adds that a subject
  held with the latest resourceVersion is of the present generation
  (`HeldIsCurrent`), that no report is ahead of the present generation
  (`ReportedIsReached`), and that behind the version check the generation held has
  passed it (`CheckedIsOld`), although the writes of the parent replace the subject
  that is held. A status write succeeds only with the latest resourceVersion, so it
  reports the present generation, and an older one cannot overwrite it.
- *A status that is left alone is true.* `RestingStatusIsTrue` is about the end of a
  reconcile, and what makes it true happens all through it. `RestInv` adds, for a
  reconcile since whose beginning nothing has queued or changed the subject (`Calm`):
  the subject held is the one stored (`HeldIsStored`); the objects chosen are those of
  the manifest that are not ignored (`ItemsAreKept`); those the loop is done with are of
  the present generation (`ItemsAreApplied`); what the aggregator has read is the health
  they have now (`SeenIsHealth`); and a reconcile without live objects to report on
  failed or asks to be repeated (`ErrorIsReported`). Any write, drift or edit that would
  break one of these queues the subject, so it ends the calm. `ReadyAgrees` says for
  every copy of the status that the Ready condition goes with the phase: that is why
  comparing the common status only does no harm at rest.
- *What a build holds.* `PipelineInv` says of each build that there is a set of files,
  `B`, such that the batch holds the documents of `B`, each once and untransformed, and
  the items those of the other files that were reached, each once and, except before
  a kustomize build, transformed once (`Holds`). Parsing a file adds to `B`, and a
  transform empties it. Sorting rearranges the items (`Rearranged`), flattening keeps
  them, and the owner is decided from the namespace that was just set (`OwnerSet`).
  `AppsMatch` says that every transformed batch has an Application, since without one
  `transformApplication` fails: a build with a single Application is one batch.
- *The latest version.* The loop of `Latest` is a recursive function; by induction over
  the entries it holds the best of those it has passed (`Found`), where an entry of the
  package itself beats one that names none.
- *A gauge agrees.* `LastWord` says of each object that what was said of it last is so:
  by the last event that waits, if there is one, else by the value in the handler's
  hand, else by the gauge. So a value that is set late never overwrites a newer one:
  one handler takes the events of a kind in order. `Silent` says that an object that
  never was in a list has no gauge, so an event that is dropped for it does not matter.
- *Metrics are removed late.* A counter is never more than one ahead of the reconciles
  after the one that last handled its object, and is zero while the object exists
  (`CounterIsOld`).
- *The cache keeps what it has.* Several callers may find it empty, but whoever asks
  the server holds the mutex since they last looked (`AskedIsUnknown`), so an answer
  is stored only over nothing; and an answer of a real server that was found has
  kinds (`FoundIsServed`).
- *An answer is what is cached.* `CallsInv` says that every version that was served all
  through a call is still to be looked at, found, or missing from the cache
  (`Accounted`), and that an answer under way has the kind of a version that was served
  since the call began (`Looking`): it was fixed in the step that took the mutex. The
  cache only grows, so other callers do not disturb this (`GoodGrows`), and a deletion
  only takes versions out of what was served all through (`GoodDrops`).
- *Callers do not wait in a ring.* A mutex that is held is held by a caller (`CallsInv`,
  `HeldByACaller`) that is asking the server. None is locked while another is held.
- *The preferred version is first.* A plan lists each cached version once, the
  preferred one in front (`PlanLists`, which rests on `AscendingExists`: the place of
  a version in the list is the number of versions up to it). `InTurn` says that what
  is found and what is left to look at stay such a list, cut in two. The groups of the
  cache do not change after the plan was made.
- *A client sees no object go back.* `OrderInv` adds that the events on the way to a
  client have, for each object, versions in their order, that none is older than what
  the client knows and none newer than the stored object, or than the clock where
  there is none (`InOrder`). A write gives the newest version and a deletion the one
  that was stored. The stored version may reach a client twice, by a broadcast
  between the registration and the backfill and by the backfill, but never after a
  newer one: both take the mutex. `DeadInv` adds that after a DELETED on its way to
  a client there is only something newer of the object, in the body and in the storage:
  the version of what was deleted is never given again.

- *What is seen is ready.* `FinishedInv` is the property for the storage and for every
  event on its way; the hook runs in the step that stores and broadcasts.
- *Versions and slots.* `StorageInv` adds to the order that the version of a stored
  object is its own: a write takes the next value of the clock. `SlotInv` says that a
  watch has a slot exactly while it runs, and one only, also when a slot is used again.
- *A watch misses nothing.* What a client will know of an object is what the last event
  about it says, or what it knows already (`Learns`). `CompleteInv` says that for a
  watch that has backfilled this is what is stored, and for one that is registered only,
  that or nothing (`Due`): a write in between is broadcast to it before the backfill.
  It is claimed while the mutex is free and of connections that are whole.

Induction over data (the loops of `Pipeline`, the events of a watch) is done from the
least counterexample: a set of natural numbers that is not empty has a least element
(`LeastNat`, from the library's well-founded induction), so a loop that is right at
the start and stays right never is wrong. The library's own induction theorems take an
operator as a parameter, which the provers cannot instantiate.

Only model-checked: `Converges`, `Repairs`, `Quiesces` and `Settles`, since liveness
under fairness is out of the prover's reach. `RestIsAlwaysRight`, `StatusLeftIsTrue`,
`RunsAdvance` and `ReconcilesAdvance` are what of them can be said without it. The six
properties without a run of their own were checked by TLC before they were proved: those
of `ChildWatch` and `KeepsItsPart` with the configurations named above, `RunAdvances`,
`ReconcileAdvances` and `WaitsForARequest` by adding them to `MCApplySet`, `MCReconciler`
and `MCRESTMapper`.

## What the code does that no property is about

Met while modelling, and left as it is in the models:

- FetchParent fails while a group-kind the annotations name is not installed, so the
  set cannot be applied until it is back (the fork's `applyset.go:294`).
- `SetDesiredObjects` keeps pointers to objects the caller may go on changing
  (`applyset.go:138`).
- `Add` waits for the first Watch call without a timeout, with the mutex of all
  watches held (`dynamic.go:133`); an error it returns is only logged (`watch.go:202`).
- An object that cannot be read is applied whatever its ignore annotation says
  (`reconciler.go:346`).
- kstatus' aggregate ignores objects it could not read (`kstatus.go:210`).
- updateStatus compares the common status only (`reconciler.go:271`), so a change of
  the Ready condition alone is not written; and kstatus leaves the condition as it was
  when the apply failed (`kstatus.go:89`).
- kubectl refuses to apply nothing, so a subject all of whose objects are ignored
  fails for ever with the default applier (`direct.go:194`). An object it has no
  mapping for is left out and, with pruning, deleted (`direct.go:113`).
- `TransformApplicationFromStatus` writes `spec.version`, which is empty for a subject
  that follows a channel (`addon/application.go:54`).
- The applier sets namespaces after the owner references were decided
  (`applylib.go:99`).
- A core List is never flattened: its group is "", not "v1" (`reconciler.go:798`);
  sorting does not look at the namespace (`objects.go:372`).
- The tracker given to `WithReconcileMetrics` is not the one in use
  (`reconciler.go:385`).
- The mock server does not compare resourceVersions on PUT (`putresource.go:105`),
  says AlreadyExists for an update of a deleted object (`memorystorage.go:205`), hands
  out the stored object itself (`memorystorage.go:151`), and registers the types of a
  CRD without the schema's mutex (`crd.go:64`). Its empty list for an unknown
  group-version is one the RESTMapper remembers (`apiresourcelist.go:45`).

## Not modelled

- ApplySet: health results; several desired objects with one key; Validate,
  pruneAll and the fork's deleteObjects, which nothing calls; the deprecated
  group-resource annotation. Parent objects are their labels and annotations.
- ChildWatch: an error from the label selector, which ends the reconcile before
  the mutex is taken; that the event channel is unbuffered (controller-runtime
  always receives from it); periodic resynchronisation of the subjects, which the
  code does not ask for.
- Reconciler: two subjects at once (`Pipeline` and `ChildWatch` have them); the
  deletion of the subject; unstructured subjects, for which `helpers.go:20` converts the
  status to a map and back; events recorded for users.
- RESTMapper: a call that names several versions, which nobody makes
  (`controllerrestmapper.go:111`).
- MockServer: a PUT or PATCH whose body names another namespace than its path, by which
  `watchevent.go:36` would then select the watches; a reader over TCP so slow that a
  broadcast waits for it (`Write` is `direct_http.go:149`, a buffer without a limit).
- The applier that runs a kubectl process, and what kubectl's library does inside
  `DirectApplier` beyond its requests: its `Validate` option only returns an error, and
  server-side apply and the prune whitelist are options of the requests.
- Parsing and formatting of YAML and JSON, kustomize, the merge of structured
  patches, network and file access of the loaders: formats and libraries, which the
  models have as their outcome.
- The set-up of clients and commands, test support, the smoke test, the examples and
  generated code: they change no state the models have.

## Running

    tlc -workers 2 -config MCApplySet.cfg MCApplySet
    tlapm ApplySetProofs.tla

The other runs are started the same way, with the module and the configuration that
`PROJECT.json` names. The modules with proofs are `ApplySetProofs`,
`ApplySetRefinement`, `ChildWatchProofs`, `ReconcilerProofs`, `PipelineProofs`,
`ObjectTrackerProofs`, `RESTMapperProofs` and `MockServerProofs`; `PipelineProofs` and
`MockServerProofs` take six to eight minutes, the others less.
