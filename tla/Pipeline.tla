------------------------------ MODULE Pipeline ------------------------------
(***************************************************************************)
(* From a subject to the objects that are applied for it: the manifest     *)
(* loaders of addon/pkg/loaders, then BuildDeploymentObjectsWithFs and the *)
(* steps of reconcileExists that finish its objects.                       *)
(*                                                                         *)
(* Several workers run the same Reconciler, each for a subject of its own. *)
(* They share the options, the repository and its clone on disk.           *)
(***************************************************************************)
EXTENDS Integers, Sequences, FiniteSets, Functions

CONSTANTS
  None,          \* no value
  Worker,        \* the workers; the value also stands for the subject it reconciles
  Object, File, Version,
  ManifestYaml,  \* the one file of a package that http and git repositories read
  Doc,           \* [Object -> [group, kind, name, ns, image]], as written in the manifest
  Package,       \* [SUBSET Version -> [SUBSET File -> Seq(Object)]]: the packages
  Semver,        \* [Version -> Nat]: its order among versions; 0 when it does not parse
  KindRank,      \* [kind -> Nat]: the order of group and kind as strings
  Scoped,        \* the namespaced kinds
  Registry,      \* the private registry images are moved to
  Patched,       \* the objects the subject's patches name
  Healthy,       \* the workers whose subject's status says healthy
  SubjectNs,     \* [Worker -> namespace]; "" for a cluster-scoped subject
  Spare,         \* objectTransformations has capacity left behind its last element
  MaxEntries,    \* how long the channel may grow
  Faults         \* "channel", "manifest", "parse", "patch", "mapping": that step fails

ASSUME PipelineConstants ==
  /\ ManifestYaml \in File /\ Registry \in STRING /\ Spare \in BOOLEAN /\ MaxEntries \in Nat
  /\ Semver \in [Version -> Nat] /\ DOMAIN Package \subseteq Version
  /\ Patched \subseteq Object /\ Healthy \subseteq Worker /\ SubjectNs \in [Worker -> STRING]
  /\ Faults \subseteq {"channel", "manifest", "parse", "patch", "mapping"}

\* The documents of the packages: each is in one place of one file of a package.  The
\* group of a list in a manifest, which is of version v1, is "".
ASSUME PipelineDocs ==
  /\ Doc \in [Object -> [group: STRING, kind: STRING, name: Nat, ns: STRING, image: Seq(STRING)]]
  /\ \A o \in Object : KindRank[Doc[o].kind] \in Nat /\ Doc[o].group # "v1"
  /\ \A v \in DOMAIN Package : \A f \in DOMAIN Package[v] : f \in File /\ Package[v][f] \in Seq(Object)
  /\ \A v \in DOMAIN Package : \A f, g \in DOMAIN Package[v] :
       \A i \in DOMAIN Package[v][f], j \in DOMAIN Package[v][g] :
         Package[v][f][i] = Package[v][g][j] => f = g /\ i = j

VARIABLES
  repo,       \* the kind of repository: "fs", "http" or "git"
  kustomize,  \* WithApplyKustomize
  managed,    \* WithManagedApplication
  preserve,   \* WithPreserveNamespace
  want,       \* [Worker -> Version or None]: spec.version
  channel,    \* the channel file: a sequence of [pkg, ver]
  clone,      \* the channel in the clone under /tmp/repo, or None
  slot,       \* the array element behind objectTransformations
  run         \* [Worker -> the state of its build]

vars == <<repo, kustomize, managed, preserve, want, channel, clone, slot, run>>
options == <<repo, kustomize, managed, preserve, want>>

(***************************************************************************)
(* Channels and versions.                                                  *)
(***************************************************************************)
\* an entry may name the package it is for; "other" is another package's
Entry == [pkg: {"", "mine", "other"}, ver: Version]

ASSUME PipelineNone == None \notin Worker \cup Entry

\* versions compare as semantic versions, those that do not parse come first
Compare(l, r) ==
  CASE l.pkg # r.pkg /\ l.pkg = "" -> -1
    [] l.pkg # r.pkg /\ r.pkg = "" -> 1
    [] OTHER                       -> Semver[l.ver] - Semver[r.ver]

\* a mutated form of Latest: the entry that is newest in the file
Latest_LastEntry(c) ==
  LET mine == {i \in DOMAIN c : c[i].pkg \in {"", "mine"}}
  IN  IF mine = {} THEN None ELSE c[CHOOSE i \in mine : \A j \in mine : j <= i]

\* latest after each turn of the loop over the entries
Latest(c) ==
  LET latest[i \in 0..Len(c)] ==
        IF i = 0 THEN None
        ELSE IF /\ c[i].pkg \in {"", "mine"}
                /\ latest[i - 1] = None \/ Compare(latest[i - 1], c[i]) < 0
             THEN c[i]
             ELSE latest[i - 1]
  IN  latest[Len(c)]

(***************************************************************************)
(* One build.                                                              *)
(***************************************************************************)
\* read: the channel it resolved from; todo: the files it has not reached;
\* batch: the objects being transformed; items: manifestObjects.Items
Idle == [pc |-> "idle", id |-> None, read |-> <<>>, todo |-> {},
         batch |-> <<>>, items |-> <<>>]

Step(w, r) == run' = [run EXCEPT ![w] = r]

\* An error of any step is the error of the build.
Fail(w) == Step(w, Idle)

\* What a read of the repository sees: a directory and a web server, as they are now.
ReadFile(seen) == seen = channel /\ UNCHANGED clone
FetchURL(seen) == seen = channel /\ UNCHANGED clone

\* A git repository is cloned when it is not there; an existing clone is fetched,
\* checked out and reset, which moves it or not.
CloneURL(seen) ==
  /\ seen \in IF clone = None THEN {channel} ELSE {clone, channel}
  /\ clone' = seen

\* LoadChannel of the three repositories
FSChannel(seen)   == repo = "fs" /\ ReadFile(seen)
HTTPChannel(seen) == repo = "http" /\ FetchURL(seen)
GitChannel(seen)  == repo = "git" /\ CloneURL(seen)

\* spec.version of the subject; None when it follows the channel
CommonSpec(w) == want[w]

\* ResolveManifest, up to the id
LoadChannel(w) ==
  /\ run[w].pc = "idle"
  /\ \/ /\ CommonSpec(w) # None
        /\ Step(w, [Idle EXCEPT !.pc = "load", !.id = CommonSpec(w)])
        /\ UNCHANGED clone
     \/ /\ CommonSpec(w) = None
        /\ \E seen \in {channel, clone} :
             /\ FSChannel(seen) \/ HTTPChannel(seen) \/ GitChannel(seen)
             /\ IF Latest(seen) = None
                THEN Fail(w)
                ELSE Step(w, [Idle EXCEPT !.pc = "load", !.id = Latest(seen).ver, !.read = seen])
     \/ /\ CommonSpec(w) = None /\ "channel" \in Faults
        /\ Fail(w)
        /\ UNCHANGED clone
  /\ UNCHANGED <<options, channel, slot>>

\* LoadManifest of the three repositories: a directory has any number of files, http
\* and git read manifest.yaml, and git brings the clone up to date once more
FSFiles(v) == DOMAIN Package[v]
Files(v)   == IF repo = "fs" THEN FSFiles(v) ELSE {ManifestYaml}

FSManifest   == repo = "fs" /\ ReadFile(channel)
HTTPManifest == repo = "http" /\ FetchURL(channel)
GitManifest  == repo = "git" /\ \E seen \in {channel, clone} : CloneURL(seen)

\* ResolveManifest, the rest
LoadManifest(w) ==
  /\ run[w].pc = "load"
  /\ LET v == run[w].id
         found == v \in DOMAIN Package /\ Files(v) \subseteq FSFiles(v)
     IN  \/ /\ FSManifest \/ HTTPManifest \/ GitManifest
            /\ Step(w, IF found THEN [run[w] EXCEPT !.pc = "files", !.todo = Files(v)] ELSE Idle)
         \/ /\ "manifest" \in Faults
            /\ Fail(w)
            /\ UNCHANGED clone
  /\ UNCHANGED <<options, channel, slot>>

\* what newObject takes from a document; the rest of its content is what the
\* transforms change
Parsed(o) == [obj |-> o, ns |-> Doc[o].ns, image |-> Doc[o].image, label |-> None,
              patched |-> FALSE, gks |-> {}, version |-> None, phase |-> "", owner |-> None]

ParseObjects(docs) == [i \in DOMAIN docs |-> Parsed(docs[i])]

\* a mutated form of ParseFile: the objects are transformed before kustomize too
ParseFile_TransformsTwice(w, f) ==
  /\ run[w].pc = "files"
  /\ f \in run[w].todo
  /\ LET objs == ParseObjects(Package[run[w].id][f])
     IN  Step(w, [run[w] EXCEPT !.todo = @ \ {f}, !.pc = "append", !.batch = objs])
  /\ UNCHANGED <<options, channel, clone, slot>>

\* One file, in the order of a Go map.  Unless kustomize is in use its objects are
\* transformed right away.
ParseFile(w, f) ==
  /\ run[w].pc = "files"
  /\ f \in run[w].todo
  /\ LET objs == ParseObjects(Package[run[w].id][f])
         rest == [run[w] EXCEPT !.todo = @ \ {f}]
     IN  \/ /\ kustomize
            /\ Step(w, [rest EXCEPT !.items = @ \o objs])
         \/ /\ ~kustomize
            /\ Step(w, [rest EXCEPT !.pc = "append", !.batch = objs])
         \/ /\ "parse" \in Faults
            /\ Fail(w)
  /\ UNCHANGED <<options, channel, clone, slot>>

\* a mutated form of EndFiles: the files that could be read so far are enough
EndFiles_Early(w) ==
  /\ run[w].pc = "files"
  /\ Step(w, IF kustomize
             THEN [run[w] EXCEPT !.pc = "append", !.items = <<>>, !.batch = run[w].items]
             ELSE [run[w] EXCEPT !.pc = "sort"])
  /\ UNCHANGED <<options, channel, clone, slot>>

\* All files are done.  With kustomize, its output is parsed again and transformed.
EndFiles(w) ==
  /\ run[w].pc = "files"
  /\ run[w].todo = {}
  /\ \/ /\ kustomize
        /\ Step(w, [run[w] EXCEPT !.pc = "append", !.items = <<>>, !.batch = run[w].items])
     \/ /\ ~kustomize
        /\ Step(w, [run[w] EXCEPT !.pc = "sort"])
     \/ /\ kustomize /\ "parse" \in Faults
        /\ Fail(w)
  /\ UNCHANGED <<options, channel, clone, slot>>

(***************************************************************************)
(* Transforms.                                                             *)
(***************************************************************************)
PodKinds == {"Deployment", "DaemonSet", "StatefulSet", "Job", "CronJob"}

\* the last of at most three parts, behind the registry
PrivateImage(image) ==
  <<Registry>> \o SubSeq(image, IF Len(image) < 3 THEN Len(image) ELSE 3, Len(image))

\* the image of its containers; it is an error when there are none
MutateContainers(x) == [x EXCEPT !.image = PrivateImage(@)]

HasContainers(x) == Doc[x.obj].kind \in PodKinds => x.image # <<>>

ApplyImageRegistry(x) == IF Doc[x.obj].kind \in PodKinds THEN MutateContainers(x) ELSE x

\* a patch names an object by kind, name and the namespace it has in the manifest
Patch(x, patches) == [x EXCEPT !.patched = x.obj \in patches]

\* the patches of the subject; one that cannot be decoded fails the build
ApplyPatches(x) == Patch(x, Patched)

AddLabels(x, labels) == [x EXCEPT !.label = labels]

IsApplication(x) == Doc[x.obj].group = "app.k8s.io" /\ Doc[x.obj].kind = "Application"

\* the Application of the batch is told the kinds of the batch
TransformApplication(x, batch) ==
  IF managed /\ IsApplication(x)
  THEN [x EXCEPT !.gks = {Doc[batch[i].obj].kind : i \in DOMAIN batch}]
  ELSE x

\* and the version and the health of the subject: the addon's own transform, taken to be
\* configured along with WithManagedApplication
TransformApplicationFromStatus(w, x) ==
  IF managed /\ IsApplication(x)
  THEN [x EXCEPT !.version = CommonSpec(w), !.phase = IF w \in Healthy THEN "Succeeded" ELSE "Pending"]
  ELSE x

\* a mutated form of CanTransformApplication: files without an Application are let be
CanTransformApplication_OrNone(batch) ==
  managed => Cardinality({i \in DOMAIN batch : IsApplication(batch[i])}) <= 1

\* exactly one, in every batch
CanTransformApplication(batch) ==
  managed => Cardinality({i \in DOMAIN batch : IsApplication(batch[i])}) = 1

\* append(objectTransformations, AddLabels(...)): with capacity left it writes into
\* the array all workers share.
AppendLabels(w) ==
  /\ run[w].pc = "append"
  /\ slot' = IF Spare THEN w ELSE slot
  /\ Step(w, [run[w] EXCEPT !.pc = "transform"])
  /\ UNCHANGED <<options, channel, clone>>

\* transformManifest: the transforms one after the other, the last adds the labels in
\* the array's slot
Transform(w) ==
  /\ run[w].pc = "transform"
  /\ LET label == IF slot = None THEN w ELSE slot
         b     == run[w].batch
         new   == [i \in DOMAIN b |->
                     LET x == TransformApplication(ApplyPatches(ApplyImageRegistry(b[i])), b)
                     IN  AddLabels(TransformApplicationFromStatus(w, x), label)]
         can   == CanTransformApplication(b) /\ \A i \in DOMAIN b : HasContainers(b[i])
     IN  \/ /\ can
            /\ Step(w, [run[w] EXCEPT !.batch = <<>>, !.items = @ \o new,
                                      !.pc = IF kustomize THEN "sort" ELSE "files"])
         \/ /\ can => "patch" \in Faults
            /\ Fail(w)
  /\ UNCHANGED <<options, channel, clone, slot>>

(***************************************************************************)
(* Sort, and the rest of what reconcileExists does to the objects.         *)
(***************************************************************************)
\* a mutated form of DefaultObjectOrder: custom resource definitions are like others
DefaultObjectOrder_NoCRD(kind) ==
  IF kind = "Namespace" THEN 0 ELSE IF kind = "Service" THEN 10000 ELSE 1000

DefaultObjectOrder(kind) ==
  CASE kind = "CustomResourceDefinition"        -> -1000
    [] kind = "Namespace"                       -> 0
    [] kind \in {"ServiceAccount", "ClusterRole"} -> 1
    [] kind = "ClusterRoleBinding"              -> 2
    [] kind \in {"ConfigMap", "Secret"}         -> 100
    [] kind = "HorizontalPodAutoscaler"         -> 1001
    [] kind = "Service"                         -> 10000
    [] OTHER                                    -> 1000

\* score, then group and kind, then name; the namespace is not looked at
Key(x) == <<DefaultObjectOrder(Doc[x.obj].kind), KindRank[Doc[x.obj].kind], Doc[x.obj].name>>

NotAfter(x, y) ==
  LET k == Key(x)
      l == Key(y)
  IN  \/ k = l
      \/ k[1] < l[1]
      \/ k[1] = l[1] /\ k[2] < l[2]
      \/ k[1] = l[1] /\ k[2] = l[2] /\ k[3] < l[3]

\* a mutated form of Sorted: as they were read
Sorted_NotAtAll(s) == {s}

\* sort.Slice is not stable: any order that agrees with the keys
Sorted(s) ==
  {p \in {[i \in DOMAIN s |-> s[perm[i]]] : perm \in Bijection(DOMAIN s, DOMAIN s)} :
     \A i, j \in DOMAIN p : i < j => NotAfter(p[i], p[j])}

\* the objects with group "v1" and kind List are replaced by their items, of which
\* there are none here: the group of a v1 List is ""
FlattenListObjects(s) ==
  LET flat[i \in 0..Len(s)] ==
        IF i = 0 THEN <<>>
        ELSE IF Doc[s[i].obj].group = "v1" /\ Doc[s[i].obj].kind = "List"
             THEN flat[i - 1]
             ELSE Append(flat[i - 1], s[i])
  IN  flat[Len(s)]

\* mapped: the RESTMapping of its kind was found; otherwise it is skipped
SetNamespaces(w, x, mapped) ==
  IF ~preserve /\ x.ns = "" /\ mapped /\ Doc[x.obj].kind \in Scoped
  THEN [x EXCEPT !.ns = SubjectNs[w]]
  ELSE x

\* SourceAsOwner, unless a namespaced subject would own across namespaces
InjectOwnerRef(w, x) == IF SubjectNs[w] \in {"", x.ns} THEN [x EXCEPT !.owner = w] ELSE x

\* a mutated form of Finished: owner references first
Finished_OwnerFirst(w, x, mapped) == SetNamespaces(w, InjectOwnerRef(w, x), mapped)

Finished(w, x, mapped) == InjectOwnerRef(w, SetNamespaces(w, x, mapped))

Finish(w) ==
  /\ run[w].pc = "sort"
  /\ \E p \in Sorted(run[w].items),
        unmapped \in (IF "mapping" \in Faults THEN {{}, Object} ELSE {{}}) :
       LET s == FlattenListObjects(p)
       IN  Step(w, [run[w] EXCEPT !.pc = "done",
              !.items = [i \in DOMAIN s |-> Finished(w, s[i], s[i].obj \notin unmapped)]])
  /\ UNCHANGED <<options, channel, clone, slot>>

\* the objects are applied, and the subject is reconciled again
Again(w) ==
  /\ run[w].pc = "done"
  /\ Step(w, Idle)
  /\ UNCHANGED <<options, channel, clone, slot>>

\* The publisher adds an entry to the channel. When every subject names its version no
\* step reads what the channel holds, and it is left as it was.
Publish(e) ==
  /\ Len(channel) < MaxEntries
  /\ \E w \in Worker : CommonSpec(w) = None
  /\ channel' = Append(channel, e)
  /\ UNCHANGED <<options, clone, slot, run>>

(***************************************************************************)
(* The specification.                                                      *)
(***************************************************************************)
Init ==
  /\ repo \in {"fs", "http", "git"} /\ kustomize \in BOOLEAN /\ managed \in BOOLEAN /\ preserve \in BOOLEAN
  /\ want \in [Worker -> Version \cup {None}]
  /\ channel = <<>> /\ clone = None /\ slot = None
  /\ run = [w \in Worker |-> Idle]

Next ==
  \/ \E w \in Worker :
       \/ LoadChannel(w) \/ LoadManifest(w) \/ EndFiles(w)
       \/ AppendLabels(w) \/ Transform(w) \/ Finish(w) \/ Again(w)
       \/ \E f \in File : ParseFile(w, f)
  \/ \E e \in Entry : Publish(e)

Spec == Init /\ [][Next]_vars

(***************************************************************************)
(* Properties.                                                             *)
(***************************************************************************)
Item == [obj: Object, ns: STRING, image: Seq(STRING), label: Worker \cup {None},
         patched: BOOLEAN, gks: SUBSET STRING, version: Version \cup {None},
         phase: {"", "Pending", "Succeeded"}, owner: Worker \cup {None}]

\* Every variable has its type, the clone is a past state of the repository, and no
\* file is left out.
TypeOK ==
  /\ repo \in {"fs", "http", "git"} /\ kustomize \in BOOLEAN /\ managed \in BOOLEAN /\ preserve \in BOOLEAN
  /\ want \in [Worker -> Version \cup {None}]
  /\ channel \in Seq(Entry) /\ slot \in Worker \cup {None}
  /\ clone # None => \E n \in 0..Len(channel) : clone = SubSeq(channel, 1, n)
  /\ \A w \in Worker :
       /\ run[w].pc \in {"idle", "load", "files", "append", "transform", "sort", "done"}
       /\ run[w].id \in Version \cup {None} /\ run[w].todo \subseteq File
       /\ run[w].pc \in {"sort", "done"} => run[w].todo = {}
       /\ run[w].items \in Seq(Item) /\ run[w].batch \in Seq(Item)

Done(w) == run[w].pc = "done"
Items(w) == Range(run[w].items)

\* A finished build holds each document of the version it resolved once, patched and
\* with its image moved to the registry once: whatever order the files came in,
\* with kustomize as without, although moving an image twice is not moving it once.
BuiltOnce ==
  \A w \in Worker : Done(w) =>
    /\ Len(run[w].items) = Cardinality(Items(w))
    /\ {x.obj : x \in Items(w)} = UNION {Range(Package[run[w].id][f]) : f \in Files(run[w].id)}
    /\ \A x \in Items(w) :
         /\ x.image = IF Doc[x.obj].kind \in PodKinds THEN PrivateImage(Doc[x.obj].image)
                                                      ELSE Doc[x.obj].image
         /\ x.patched <=> x.obj \in Patched

\* WithLabels: the objects built for a subject carry that subject's labels, not those
\* of the subject another worker reconciles at the same time.
OwnLabels == \A w \in Worker : Done(w) => \A x \in Items(w) : x.label = w

\* Two builds of the same version apply its objects in the same order, as far as
\* kind and name tell them apart.
SameOrder ==
  \A w, v \in Worker : Done(w) /\ Done(v) /\ run[w].id = run[v].id =>
    \A i \in DOMAIN run[w].items : Key(run[w].items[i]) = Key(run[v].items[i])

\* What the order is for: definitions come before everything else, namespaces before
\* what may live in them, and services last.
SafeOrder ==
  \A w \in Worker : Done(w) =>
    \A i, j \in DOMAIN run[w].items :
      LET k == Doc[run[w].items[i].obj].kind
          l == Doc[run[w].items[j].obj].kind
      IN  i < j => /\ l = "CustomResourceDefinition" => k = l
                   /\ l = "Namespace" => k \in {l, "CustomResourceDefinition"}
                   /\ k = "Service" => k = l

\* Every object handed to the applier in the subject's namespace, and every object of
\* a cluster-scoped subject, is owned by the subject, so it is garbage collected; no
\* object in another namespace, or in none, is owned by a namespaced subject.
OwnedWhereAllowed ==
  \A w \in Worker : Done(w) =>
    \A x \in Items(w) : x.owner = w <=> SubjectNs[w] \in {"", x.ns}

\* A version that is not pinned is the greatest that the channel the build read
\* lists for the package, an entry that names the package before any that does not.
ResolvedIsLatest ==
  \A w \in Worker : want[w] = None /\ run[w].id # None =>
    LET cand == {e \in Range(run[w].read) : e.pkg \in {"", "mine"}}
        own  == {e \in cand : e.pkg = "mine"}
    IN  \E e \in IF own = {} THEN cand ELSE own :
          /\ e.ver = run[w].id
          /\ \A f \in IF own = {} THEN cand ELSE own : Semver[f.ver] <= Semver[e.ver]

\* WithManagedApplication: if a finished build has one Application, it names the kinds of
\* all the objects of the build; an Application names no version but the one the objects
\* were built from.  (Of several, without kustomize, each names the kinds of its file.)
ApplicationMatches ==
  \A w \in Worker : Done(w) /\ managed =>
    LET apps == {x \in Items(w) : IsApplication(x)}
    IN  \A x \in apps : /\ apps = {x} => x.gks = {Doc[y.obj].kind : y \in Items(w)}
                        /\ x.version \in {None, run[w].id}
=============================================================================
