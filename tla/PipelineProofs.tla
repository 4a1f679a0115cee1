--------------------------- MODULE PipelineProofs ---------------------------
(***************************************************************************)
(* Proofs about Pipeline: what a finished build holds, for every number of *)
(* workers, versions, files and documents.                                 *)
(***************************************************************************)
EXTENDS Pipeline, FiniteSetTheorems, TLAPS

(***************************************************************************)
(* Loops: the two recursive functions of the model, by induction.          *)
(***************************************************************************)
LEMMA LeastNat ==
  ASSUME NEW T, T \subseteq Nat, T # {}
  PROVE  \E n \in T : \A m \in T : n <= m
<1> DEFINE R == {ss \in Nat \X Nat : ss[1] < ss[2]}
<1>1. IsWellFoundedOn(R, Nat)
  BY NatLessThanWellFounded DEF OpToRel
<1> HIDE DEF R
<1>2. PICK n \in T : \A m \in T : ~(<<m, n>> \in R)
  BY <1>1, WFMin, Zenon
<1>3. ASSUME NEW m \in T PROVE n <= m
  <2>1. <<m, n>> \notin R
    BY <1>2
  <2> QED
    BY <2>1 DEF R
<1> QED
  BY <1>3

\* the body of the loop of Latest
LatestStep(c, best, i) ==
  IF c[i].pkg \in {"", "mine"} /\ (best = None \/ Compare(best, c[i]) < 0) THEN c[i] ELSE best

\* what the loop has found after n entries
LatestUpTo(c, n, f) ==
  /\ f \in [0..n -> Entry \cup {None}]
  /\ f[0] = None
  /\ \A i \in 1..n : f[i] = LatestStep(c, f[i - 1], i)

LEMMA LatestStepType ==
  ASSUME NEW c \in Seq(Entry), NEW best \in Entry \cup {None}, NEW i \in 1..Len(c)
  PROVE  LatestStep(c, best, i) \in Entry \cup {None}
<1>1. c[i] \in Entry
  OBVIOUS
<1> QED
  BY <1>1, Zenon DEF LatestStep

LEMMA LatestExists ==
  ASSUME NEW c \in Seq(Entry)
  PROVE  \E f : LatestUpTo(c, Len(c), f)
<1> DEFINE T == {n \in 0..Len(c) : ~\E f : LatestUpTo(c, n, f)}
<1>1. SUFFICES T = {}
  <2>1. Len(c) \in 0..Len(c)
    OBVIOUS
  <2> QED
    BY <1>1, <2>1
<1>2. SUFFICES ASSUME T # {} PROVE FALSE
  OBVIOUS
<1>3. PICK n \in T : \A m \in T : n <= m
  <2>1. T \subseteq Nat
    OBVIOUS
  <2> HIDE DEF T
  <2> QED
    BY <1>2, <2>1, LeastNat, Zenon
<1>4. n # 0
  <2>1. LatestUpTo(c, 0, [i \in 0..0 |-> None])
    BY DEF LatestUpTo
  <2> QED
    BY <2>1
<1>5. n - 1 \in 0..Len(c) /\ n - 1 \notin T
  BY <1>3, <1>4
<1>6. PICK f : LatestUpTo(c, n - 1, f)
  BY <1>5
<1> DEFINE g == [i \in 0..n |-> IF i = n THEN LatestStep(c, f[n - 1], n) ELSE f[i]]
<1>7. f \in [0..(n - 1) -> Entry \cup {None}] /\ f[0] = None /\ \A i \in 1..(n - 1) : f[i] = LatestStep(c, f[i - 1], i)
  BY <1>6 DEF LatestUpTo
<1>8. g \in [0..n -> Entry \cup {None}]
  <2>1. LatestStep(c, f[n - 1], n) \in Entry \cup {None}
    BY <1>4, <1>7, LatestStepType
  <2> QED
    BY <1>4, <1>7, <2>1
<1>9. \A i \in 0..(n - 1) : g[i] = f[i]
  BY <1>4
<1>10. g[n] = LatestStep(c, f[n - 1], n)
  OBVIOUS
<1> HIDE DEF g
<1>11. \A i \in 1..n : g[i] = LatestStep(c, g[i - 1], i)
  <2> SUFFICES ASSUME NEW i \in 1..n PROVE g[i] = LatestStep(c, g[i - 1], i)
    OBVIOUS
  <2>1. i - 1 \in 0..(n - 1) /\ g[i - 1] = f[i - 1]
    BY <1>9
  <2>2. CASE i = n
    BY <1>10, <2>1, <2>2
  <2>3. CASE i # n
    BY <1>7, <1>9, <2>1, <2>3
  <2> QED
    BY <2>2, <2>3
<1>12. LatestUpTo(c, n, g)
  BY <1>4, <1>7, <1>8, <1>9, <1>11 DEF LatestUpTo
<1> QED
  BY <1>12

\* Latest is what the loop has found in the end.
LEMMA LatestIsLoop ==
  ASSUME NEW c \in Seq(Entry)
  PROVE  \E f : LatestUpTo(c, Len(c), f) /\ Latest(c) = f[Len(c)]
<1> DEFINE Body(g) == [i \in 0..Len(c) |->
                         IF i = 0 THEN None
                         ELSE IF /\ c[i].pkg \in {"", "mine"}
                                 /\ g[i - 1] = None \/ Compare(g[i - 1], c[i]) < 0
                              THEN c[i]
                              ELSE g[i - 1]]
           latest == CHOOSE g : g = Body(g)
<1>1. PICK f : LatestUpTo(c, Len(c), f)
  BY LatestExists
<1>2. f = Body(f)
  <2>1. ASSUME NEW i \in 0..Len(c) PROVE f[i] = Body(f)[i]
    <3>1. CASE i = 0
      BY <1>1, <3>1 DEF LatestUpTo
    <3>2. CASE i # 0
      <4>1. i \in 1..Len(c)
        BY <3>2
      <4>2. f[i] = LatestStep(c, f[i - 1], i)
        BY <1>1, <4>1 DEF LatestUpTo
      <4> QED
        BY <3>2, <4>2, Zenon DEF LatestStep
    <3> QED
      BY <3>1, <3>2, Zenon
  <2>2. f = [i \in 0..Len(c) |-> f[i]]
    BY <1>1 DEF LatestUpTo
  <2> QED
    BY <2>1, <2>2, Zenon
<1>3. Latest(c) = latest[Len(c)]
  BY DEF Latest
<1>4. latest = Body(latest)
  BY <1>2, Zenon
<1> HIDE DEF latest
<1>5. latest[0] = None /\ \A i \in 1..Len(c) : latest[i] = LatestStep(c, latest[i - 1], i)
  <2>1. ASSUME NEW i \in 0..Len(c) PROVE latest[i] = Body(latest)[i]
    BY <1>4, Zenon
  <2>2. latest[0] = None
    <3>1. 0 \in 0..Len(c)
      OBVIOUS
    <3> QED
      BY <2>1, <3>1, Zenon
  <2>3. ASSUME NEW i \in 1..Len(c) PROVE latest[i] = LatestStep(c, latest[i - 1], i)
    <3>1. i \in 0..Len(c) /\ i # 0
      OBVIOUS
    <3> QED
      BY <2>1, <3>1, Zenon DEF LatestStep
  <2> QED
    BY <2>2, <2>3
<1>6. latest \in [0..Len(c) -> Entry \cup {None}]
  <2> DEFINE T == {n \in 0..Len(c) : latest[n] \notin Entry \cup {None}}
  <2>1. ASSUME T # {} PROVE FALSE
    <3>1. PICK n \in T : \A m \in T : n <= m
      <4>1. T \subseteq Nat
        OBVIOUS
      <4> HIDE DEF T
      <4> QED
        BY <2>1, <4>1, LeastNat, Zenon
    <3>2. n # 0
      BY <1>5
    <3>3. n - 1 \in 0..Len(c) /\ n - 1 \notin T
      BY <3>1, <3>2
    <3>4. latest[n] = LatestStep(c, latest[n - 1], n) /\ latest[n - 1] \in Entry \cup {None} /\ n \in 1..Len(c)
      BY <1>5, <3>2, <3>3
    <3> QED
      BY <3>4, LatestStepType
  <2>2. latest = [i \in 0..Len(c) |-> latest[i]]
    BY <1>4, Zenon
  <2> QED
    BY <2>1, <2>2
<1> QED
  BY <1>3, <1>5, <1>6 DEF LatestUpTo

\* e is not behind d in the order of Compare
Beats(e, d) == (d.pkg = "mine" => e.pkg = "mine") /\ (d.pkg = e.pkg => Semver[d.ver] <= Semver[e.ver])

Mine(e) == e.pkg \in {"", "mine"}

\* e is the best of the first n entries
Found(c, n, e) ==
  /\ e = None => \A i \in 1..n : ~Mine(c[i])
  /\ e # None => /\ Mine(e) /\ \E k \in 1..n : c[k] = e
                 /\ \A i \in 1..n : Mine(c[i]) => Beats(e, c[i])

LEMMA SemverNat ==
  ASSUME NEW e \in Entry
  PROVE  Semver[e.ver] \in Nat
<1>1. e.ver \in Version
  BY Zenon DEF Entry
<1>2. Semver \in [Version -> Nat]
  BY PipelineConstants, Zenon
<1> QED
  BY <1>1, <1>2

LEMMA CompareIsOrder ==
  ASSUME NEW d \in Entry, NEW e \in Entry, Mine(d), Mine(e)
  PROVE  /\ Compare(d, e) < 0 => Beats(e, d)
         /\ ~(Compare(d, e) < 0) => Beats(d, e)
<1> DEFINE p == Semver[d.ver]
           q == Semver[e.ver]
<1>0. d.pkg \in {"", "mine"} /\ e.pkg \in {"", "mine"}
  BY Zenon DEF Mine
<1>1. p \in Nat /\ q \in Nat
  BY SemverNat, Zenon
<1> HIDE DEF p, q
<1>2. CASE d.pkg = e.pkg
  <2>1. Compare(d, e) = p - q
    BY <1>2, Zenon DEF Compare, p, q
  <2>2. (Compare(d, e) < 0 => p <= q) /\ (~(Compare(d, e) < 0) => q <= p)
    <3>1. (p - q < 0 => p <= q) /\ (~(p - q < 0) => q <= p)
      BY <1>1
    <3> QED
      BY <2>1, <3>1, Zenon
  <2> QED
    BY <1>2, <2>2, Zenon DEF Beats, p, q
<1>3. CASE d.pkg # e.pkg /\ d.pkg = ""
  <2>1. Compare(d, e) = -1
    BY <1>3, Zenon DEF Compare
  <2>2. Compare(d, e) < 0
    BY <2>1
  <2>3. Beats(e, d)
    BY <1>3, Zenon DEF Beats
  <2> QED
    BY <2>2, <2>3
<1>4. CASE d.pkg # e.pkg /\ e.pkg = ""
  <2>1. Compare(d, e) = 1
    BY <1>4, Zenon DEF Compare
  <2>2. ~(Compare(d, e) < 0)
    BY <2>1
  <2>3. Beats(d, e)
    BY <1>4, Zenon DEF Beats
  <2> QED
    BY <2>2, <2>3
<1> QED
  BY <1>0, <1>2, <1>3, <1>4, Zenon

LEMMA BeatsTransitive ==
  ASSUME NEW a \in Entry, NEW b \in Entry, NEW d \in Entry, Mine(a), Mine(b), Mine(d), Beats(a, b), Beats(b, d)
  PROVE  Beats(a, d)
<1>1. Semver[a.ver] \in Nat /\ Semver[b.ver] \in Nat /\ Semver[d.ver] \in Nat
  BY SemverNat
<1>2. d.pkg = "mine" => a.pkg = "mine"
  BY Zenon DEF Beats
<1>3. d.pkg = a.pkg => d.pkg = b.pkg /\ b.pkg = a.pkg
  BY Zenon DEF Beats, Mine
<1>4. d.pkg = a.pkg => Semver[d.ver] <= Semver[b.ver] /\ Semver[b.ver] <= Semver[a.ver]
  BY <1>3, Zenon DEF Beats
<1>5. d.pkg = a.pkg => Semver[d.ver] <= Semver[a.ver]
  BY <1>1, <1>4
<1> QED
  BY <1>2, <1>5, Zenon DEF Beats

LEMMA FoundStep ==
  ASSUME NEW c \in Seq(Entry), NEW n \in 1..Len(c), NEW b \in Entry \cup {None}, Found(c, n - 1, b)
  PROVE  Found(c, n, LatestStep(c, b, n))
<1> DEFINE e == LatestStep(c, b, n)
<1>1. c[n] \in Entry /\ \A i \in 1..n : c[i] \in Entry
  OBVIOUS
<1>2. \A i \in 1..n : i = n \/ i \in 1..(n - 1)
  OBVIOUS
<1>3. c[n] # None
  BY <1>1, PipelineNone
<1>4. CASE ~Mine(c[n])
  <2>1. e = b
    BY <1>4, Zenon DEF LatestStep, Mine
  <2> QED
    BY <1>2, <1>4, <2>1 DEF Found
<1>5. CASE Mine(c[n]) /\ b = None
  <2>1. e = c[n]
    BY <1>5, Zenon DEF LatestStep, Mine
  <2>2. Beats(c[n], c[n])
    <3>1. Semver[c[n].ver] \in Nat
      BY <1>1, SemverNat
    <3> QED
      BY <3>1 DEF Beats
  <2>3. \A i \in 1..n : Mine(c[i]) => Beats(c[n], c[i])
    BY <1>2, <1>5, <2>2 DEF Found
  <2> QED
    BY <1>3, <1>5, <2>1, <2>3 DEF Found
<1>6. CASE Mine(c[n]) /\ b # None
  <2>1. b \in Entry /\ Mine(b) /\ (\E k \in 1..(n - 1) : c[k] = b) /\ \A i \in 1..(n - 1) : Mine(c[i]) => Beats(b, c[i])
    BY <1>6 DEF Found
  <2>2. CASE Compare(b, c[n]) < 0
    <3>1. e = c[n]
      BY <1>6, <2>2, Zenon DEF LatestStep, Mine
    <3>2. Beats(c[n], b)
      BY <1>1, <1>6, <2>1, <2>2, CompareIsOrder
    <3>3. Beats(c[n], c[n])
      <4>1. Semver[c[n].ver] \in Nat
        BY <1>1, SemverNat
      <4> QED
        BY <4>1 DEF Beats
    <3>4. ASSUME NEW i \in 1..n, Mine(c[i]) PROVE Beats(c[n], c[i])
      BY <1>1, <1>2, <1>6, <2>1, <3>2, <3>3, <3>4, BeatsTransitive
    <3> QED
      BY <1>3, <1>6, <3>1, <3>4 DEF Found
  <2>3. CASE ~(Compare(b, c[n]) < 0)
    <3>1. e = b
      BY <1>6, <2>3, Zenon DEF LatestStep
    <3>2. Beats(b, c[n])
      BY <1>1, <1>6, <2>1, <2>3, CompareIsOrder
    <3>3. \A i \in 1..n : Mine(c[i]) => Beats(b, c[i])
      BY <1>2, <2>1, <3>2
    <3>4. \E k \in 1..n : c[k] = b
      BY <2>1
    <3> QED
      BY <1>6, <2>1, <3>1, <3>3, <3>4 DEF Found
  <2> QED
    BY <2>2, <2>3
<1> QED
  BY <1>4, <1>5, <1>6

\* Channel.Latest returns the best entry for the package, or none if there is none.
LEMMA LatestIsFound ==
  ASSUME NEW c \in Seq(Entry)
  PROVE  Latest(c) \in Entry \cup {None} /\ Found(c, Len(c), Latest(c))
<1>1. PICK f : LatestUpTo(c, Len(c), f) /\ Latest(c) = f[Len(c)]
  BY LatestIsLoop
<1>2. f \in [0..Len(c) -> Entry \cup {None}] /\ f[0] = None /\ \A i \in 1..Len(c) : f[i] = LatestStep(c, f[i - 1], i)
  BY <1>1 DEF LatestUpTo
<1> DEFINE T == {n \in 0..Len(c) : ~Found(c, n, f[n])}
<1>3. ASSUME T # {} PROVE FALSE
  <2>1. PICK n \in T : \A m \in T : n <= m
    <3>1. T \subseteq Nat
      OBVIOUS
    <3> HIDE DEF T
    <3> QED
      BY <1>3, <3>1, LeastNat, Zenon
  <2>2. n # 0
    BY <1>2 DEF Found
  <2>3. n - 1 \in 0..Len(c) /\ n - 1 \notin T /\ n \in 1..Len(c)
    BY <2>1, <2>2
  <2>4. Found(c, n - 1, f[n - 1]) /\ f[n - 1] \in Entry \cup {None} /\ f[n] = LatestStep(c, f[n - 1], n)
    BY <1>2, <2>3
  <2> QED
    BY <2>3, <2>4, FoundStep
<1>4. Len(c) \in 0..Len(c)
  OBVIOUS
<1> QED
  BY <1>1, <1>2, <1>3, <1>4

(***************************************************************************)
(* The invariant: what a build holds at each of its steps.                 *)
(***************************************************************************)
Options == [repo |-> repo, kustomize |-> kustomize, managed |-> managed, want |-> want]

FilesIn(o, v) == IF o.repo = "fs" THEN DOMAIN Package[v] ELSE {ManifestYaml}

DocsOf(v, S) == UNION {Range(Package[v][f]) : f \in S}

\* s holds the documents docs, each once
Enum(s, docs) ==
  /\ {s[i].obj : i \in DOMAIN s} = docs
  /\ \A i, j \in DOMAIN s : s[i].obj = s[j].obj => i = j

AllRaw(s) == \A i \in DOMAIN s : s[i] = Parsed(s[i].obj)

\* transformed once, for w
Made(w, o, x) ==
  /\ x.image = IF Doc[x.obj].kind \in PodKinds THEN PrivateImage(Doc[x.obj].image) ELSE Doc[x.obj].image
  /\ x.patched <=> x.obj \in Patched
  /\ x.version \in {None, o.want[w]}

AllMade(w, o, s) == \A i \in DOMAIN s : Made(w, o, s[i])

\* every batch had its Application, so an only one is of the only batch
AppsMatch(s) ==
  /\ DOMAIN s # {} => \E i \in DOMAIN s : IsApplication(s[i])
  /\ \A i \in DOMAIN s :
       IsApplication(s[i]) /\ (\A j \in DOMAIN s : IsApplication(s[j]) => j = i)
         => s[i].gks = {Doc[s[j].obj].kind : j \in DOMAIN s}

NoOwner(s) == \A i \in DOMAIN s : s[i].owner = None

OwnerSet(w, s) == \A i \in DOMAIN s : s[i].owner = w <=> SubjectNs[w] \in {"", s[i].ns}

InOrder(s) == \A i, j \in DOMAIN s : i < j => NotAfter(s[i], s[j])

\* v is the version of the best entry of c
Newest(v, c) ==
  LET cand == {e \in Range(c) : e.pkg \in {"", "mine"}}
      own  == {e \in cand : e.pkg = "mine"}
  IN  \E e \in IF own = {} THEN cand ELSE own :
        /\ e.ver = v
        /\ \A f \in IF own = {} THEN cand ELSE own : Semver[f.ver] <= Semver[e.ver]

Resolved(w, o, r) == IF o.want[w] = None THEN Newest(r.id, r.read) ELSE r.id = o.want[w]

\* B: the files whose documents are in the batch; the others that were reached are in items
Holds(w, o, r, B) ==
  LET reached == FilesIn(o, r.id) \ r.todo
  IN  /\ B \subseteq reached
      /\ Enum(r.batch, DocsOf(r.id, B)) /\ AllRaw(r.batch)
      /\ Enum(r.items, DocsOf(r.id, reached \ B))
      /\ r.pc = "files" /\ o.kustomize => AllRaw(r.items)
      /\ ~(r.pc = "files" /\ o.kustomize) => AllMade(w, o, r.items) /\ (o.managed => AppsMatch(r.items))
      /\ r.pc \notin {"append", "transform"} => B = {}
      /\ r.pc \in {"sort", "done"} \/ (r.pc # "files" /\ o.kustomize) => r.todo = {}
      /\ r.pc # "done" => NoOwner(r.items)
      /\ r.pc = "done" => OwnerSet(w, r.items) /\ InOrder(r.items)

Good(w, o, r) ==
  /\ r.pc = "idle" => r = Idle
  /\ r.pc # "idle" => Resolved(w, o, r)
  /\ r.pc = "load" => r.batch = <<>> /\ r.items = <<>> /\ r.todo = {}
  /\ r.pc \notin {"idle", "load"} =>
       /\ r.id \in DOMAIN Package /\ FilesIn(o, r.id) \subseteq DOMAIN Package[r.id]
       /\ r.todo \subseteq FilesIn(o, r.id)
       /\ \E B \in SUBSET FilesIn(o, r.id) : Holds(w, o, r, B)

RunType == [pc: {"idle", "load", "files", "append", "transform", "sort", "done"},
            id: Version \cup {None}, read: Seq(Entry), todo: SUBSET File,
            batch: Seq(Item), items: Seq(Item)]

PipelineTypes ==
  /\ repo \in {"fs", "http", "git"} /\ kustomize \in BOOLEAN /\ managed \in BOOLEAN /\ preserve \in BOOLEAN
  /\ want \in [Worker -> Version \cup {None}]
  /\ channel \in Seq(Entry) /\ slot \in Worker \cup {None}
  /\ clone # None => \E n \in 0..Len(channel) : clone = SubSeq(channel, 1, n)
  /\ run \in [Worker -> RunType]

PipelineInv == PipelineTypes /\ \A w \in Worker : Good(w, Options, run[w])

(***************************************************************************)
(* What the operators return.                                              *)
(***************************************************************************)
\* No object of a package is a list that flattening would replace.
LEMMA FlattenIsIdentity ==
  ASSUME NEW s \in Seq(Item)
  PROVE  FlattenListObjects(s) = s
<1> DEFINE Body(g) == [i \in 0..Len(s) |->
                         IF i = 0 THEN <<>>
                         ELSE IF Doc[s[i].obj].group = "v1" /\ Doc[s[i].obj].kind = "List"
                              THEN g[i - 1]
                              ELSE Append(g[i - 1], s[i])]
           flat  == CHOOSE g : g = Body(g)
           Up(i) == [j \in 1..i |-> s[j]]
           up    == [i \in 0..Len(s) |-> Up(i)]
<1>1. ASSUME NEW i \in 1..Len(s) PROVE ~(Doc[s[i].obj].group = "v1")
  <2>1. s[i].obj \in Object
    <3>1. s[i] \in Item
      OBVIOUS
    <3> QED
      BY <3>1, Zenon DEF Item
  <2> QED
    BY <2>1, PipelineDocs, Zenon
<1>2. ASSUME NEW i \in 1..Len(s) PROVE Up(i) = Append(Up(i - 1), s[i])
  OBVIOUS
<1>3. Up(0) = <<>>
  OBVIOUS
<1>4. up = Body(up)
  <2>1. ASSUME NEW i \in 0..Len(s) PROVE up[i] = Body(up)[i]
    <3>1. CASE i = 0
      BY <1>3, <3>1
    <3>2. CASE i # 0
      <4>1. i \in 1..Len(s) /\ i - 1 \in 0..Len(s)
        BY <3>2
      <4>2. Body(up)[i] = Append(up[i - 1], s[i])
        BY <1>1, <3>2, <4>1, Zenon
      <4> QED
        BY <1>2, <4>1, <4>2, Zenon
    <3> QED
      BY <3>1, <3>2
  <2> QED
    BY <2>1, Zenon
<1>5. flat = Body(flat)
  BY <1>4, Zenon
<1>6. FlattenListObjects(s) = flat[Len(s)]
  BY DEF FlattenListObjects
<1> HIDE DEF flat
<1>7. ASSUME NEW i \in 0..Len(s) PROVE flat[i] = Body(flat)[i]
  BY <1>5, Zenon
<1>8. flat[0] = <<>>
  <2>1. 0 \in 0..Len(s)
    OBVIOUS
  <2> QED
    BY <1>7, <2>1, Zenon
<1>9. ASSUME NEW i \in 1..Len(s) PROVE flat[i] = Append(flat[i - 1], s[i])
  <2>1. i \in 0..Len(s) /\ i # 0
    OBVIOUS
  <2> QED
    BY <1>1, <1>7, <2>1, Zenon
<1> DEFINE T == {n \in 0..Len(s) : flat[n] # Up(n)}
<1>10. ASSUME T # {} PROVE FALSE
  <2>1. PICK n \in T : \A m \in T : n <= m
    <3>1. T \subseteq Nat
      OBVIOUS
    <3> HIDE DEF T
    <3> QED
      BY <1>10, <3>1, LeastNat, Zenon
  <2>2. n # 0
    BY <1>3, <1>8
  <2>3. n - 1 \in 0..Len(s) /\ n - 1 \notin T /\ n \in 1..Len(s)
    BY <2>1, <2>2
  <2>4. flat[n - 1] = Up(n - 1) /\ flat[n] = Append(flat[n - 1], s[n])
    BY <1>9, <2>3, Zenon
  <2> QED
    BY <1>2, <2>1, <2>3, <2>4, Zenon
<1>11. flat[Len(s)] = Up(Len(s))
  <2>1. Len(s) \in 0..Len(s)
    OBVIOUS
  <2> QED
    BY <1>10, <2>1, Zenon
<1>12. Up(Len(s)) = s
  OBVIOUS
<1> QED
  BY <1>6, <1>11, <1>12, Zenon

\* The entry Latest returns is what ResolvedIsLatest asks for.
LEMMA LatestIsNewest ==
  ASSUME NEW c \in Seq(Entry), Latest(c) # None
  PROVE  Latest(c).ver \in Version /\ Newest(Latest(c).ver, c)
<1> DEFINE e == Latest(c)
           cand == {d \in Range(c) : d.pkg \in {"", "mine"}}
           own  == {d \in cand : d.pkg = "mine"}
<1>1. e \in Entry /\ Mine(e) /\ (\E k \in 1..Len(c) : c[k] = e) /\ \A i \in 1..Len(c) : Mine(c[i]) => Beats(e, c[i])
  BY LatestIsFound, Zenon DEF Found
<1>2. Range(c) = {c[i] : i \in 1..Len(c)}
  BY DEF Range
<1>3. e \in cand /\ \A d \in cand : Beats(e, d)
  BY <1>1, <1>2, Zenon DEF Mine
<1>4. CASE own = {}
  <2>1. \A d \in cand : d.pkg = e.pkg
    BY <1>3, <1>4, Zenon
  <2>2. \A d \in cand : Semver[d.ver] <= Semver[e.ver]
    BY <1>3, <2>1, Zenon DEF Beats
  <2> QED
    BY <1>1, <1>3, <1>4, <2>2, Zenon DEF Newest, Entry
<1>5. CASE own # {}
  <2>1. e \in own
    BY <1>3, <1>5, Zenon DEF Beats
  <2>2. \A d \in own : Semver[d.ver] <= Semver[e.ver]
    BY <1>3, <2>1, Zenon DEF Beats
  <2> QED
    BY <1>1, <1>5, <2>1, <2>2, Zenon DEF Newest, Entry
<1> QED
  BY <1>4, <1>5, Zenon

LEMMA SeqOfFunction ==
  ASSUME NEW S, NEW n \in Nat, NEW f \in [1..n -> S]
  PROVE  f \in Seq(S)
  OBVIOUS

LEMMA SeqOfOne ==
  ASSUME NEW S, NEW x \in S
  PROVE  <<x>> \in Seq(S)
  OBVIOUS

LEMMA DocTypes ==
  ASSUME NEW d \in Object
  PROVE  /\ Doc[d].group \in STRING /\ Doc[d].kind \in STRING /\ Doc[d].ns \in STRING
         /\ Doc[d].name \in Nat /\ Doc[d].image \in Seq(STRING)
<1>1. Doc[d] \in [group: STRING, kind: STRING, name: Nat, ns: STRING, image: Seq(STRING)]
  BY PipelineDocs, Zenon
<1> QED
  BY <1>1, Zenon

LEMMA ItemTypes ==
  ASSUME NEW x \in Item
  PROVE  /\ x.obj \in Object /\ x.ns \in STRING /\ x.image \in Seq(STRING) /\ x.label \in Worker \cup {None}
         /\ x.patched \in BOOLEAN /\ x.gks \in SUBSET STRING /\ x.version \in Version \cup {None}
         /\ x.phase \in {"", "Pending", "Succeeded"} /\ x.owner \in Worker \cup {None}
  BY Zenon DEF Item

LEMMA ParsedFields ==
  ASSUME NEW d \in Object
  PROVE  /\ Parsed(d) \in Item /\ Parsed(d).obj = d /\ Parsed(d).image = Doc[d].image /\ Parsed(d).version = None
         /\ Parsed(d).owner = None
<1>1. Parsed(d) \in Item
  BY DocTypes, Zenon DEF Parsed, Item
<1> QED
  BY <1>1, Zenon DEF Parsed

LEMMA PrivateImageType ==
  ASSUME NEW image \in Seq(STRING), image # <<>>
  PROVE  PrivateImage(image) \in Seq(STRING)
<1> DEFINE m == IF Len(image) < 3 THEN Len(image) ELSE 3
<1>1. m \in 1..Len(image)
  OBVIOUS
<1> HIDE DEF m
<1>2. SubSeq(image, m, Len(image)) \in Seq(STRING)
  BY <1>1
<1> DEFINE a == <<Registry>>
           b == SubSeq(image, m, Len(image))
<1>3. a \in Seq(STRING) /\ b \in Seq(STRING)
  <2>1. Registry \in STRING
    BY PipelineConstants, Zenon
  <2>2. a \in Seq(STRING)
    BY <2>1, SeqOfOne, Zenon
  <2> QED
    BY <1>2, <2>2, Zenon
<1> HIDE DEF a, b
<1>4. a \o b \in Seq(STRING)
  BY <1>3
<1> QED
  BY <1>4, Zenon DEF PrivateImage, m, a, b

\* the transforms of one object of the batch b, with label
Transformed(w, x, b, label) ==
  AddLabels(TransformApplicationFromStatus(w, TransformApplication(ApplyPatches(ApplyImageRegistry(x)), b)), label)

LEMMA TransformedFields ==
  ASSUME NEW w \in Worker, NEW x \in Item, NEW b \in Seq(Item), NEW label \in Worker, HasContainers(x),
         want \in [Worker -> Version \cup {None}], managed \in BOOLEAN,
         NEW y, y = Transformed(w, x, b, label)
  PROVE  /\ y \in Item /\ y.obj = x.obj /\ y.owner = x.owner /\ y.label = label
         /\ y.image = IF Doc[x.obj].kind \in PodKinds THEN PrivateImage(x.image) ELSE x.image
         /\ y.patched = (x.obj \in Patched)
         /\ y.version \in {x.version, want[w]}
         /\ managed /\ IsApplication(x) => y.gks = {Doc[b[i].obj].kind : i \in DOMAIN b}
<1> DEFINE x1 == ApplyImageRegistry(x)
           x2 == ApplyPatches(x1)
           x3 == TransformApplication(x2, b)
           x4 == TransformApplicationFromStatus(w, x3)
           x5 == AddLabels(x4, label)
           im == IF Doc[x.obj].kind \in PodKinds THEN PrivateImage(x.image) ELSE x.image
           ks == {Doc[b[i].obj].kind : i \in DOMAIN b}
<1>1. x1 \in Item /\ x1.obj = x.obj /\ x1.owner = x.owner /\ x1.version = x.version /\ x1.image = im
  <2>1. CASE Doc[x.obj].kind \in PodKinds
    <3>1. x1 = [x EXCEPT !.image = PrivateImage(x.image)] /\ im = PrivateImage(x.image)
      BY <2>1, Zenon DEF ApplyImageRegistry, MutateContainers
    <3>2. x.image \in Seq(STRING) /\ x.image # <<>>
      BY <2>1, ItemTypes, Zenon DEF HasContainers
    <3>3. PrivateImage(x.image) \in Seq(STRING)
      BY <3>2, PrivateImageType, Zenon
    <3> QED
      BY <3>1, <3>3, Zenon DEF Item
  <2>2. CASE Doc[x.obj].kind \notin PodKinds
    BY <2>2, Zenon DEF ApplyImageRegistry
  <2> QED
    BY <2>1, <2>2
<1> HIDE DEF x1, im
<1>2. x2 \in Item /\ x2.obj = x.obj /\ x2.owner = x.owner /\ x2.version = x.version /\ x2.image = im
      /\ x2.patched = (x.obj \in Patched)
  <2>1. x2 = [x1 EXCEPT !.patched = x1.obj \in Patched]
    BY Zenon DEF ApplyPatches, Patch
  <2>2. (x1.obj \in Patched) \in BOOLEAN
    OBVIOUS
  <2> QED
    BY <1>1, <2>1, <2>2, Zenon DEF Item
<1> HIDE DEF x2
<1>3. IsApplication(x2) <=> IsApplication(x)
  BY <1>2, Zenon DEF IsApplication
<1>4. ks \in SUBSET STRING
  <2>1. ASSUME NEW i \in DOMAIN b PROVE Doc[b[i].obj].kind \in STRING
    <3>1. b[i] \in Item
      OBVIOUS
    <3> QED
      BY <3>1, ItemTypes, DocTypes, Zenon
  <2> QED
    BY <2>1, Zenon
<1>5. x3 \in Item /\ x3.obj = x.obj /\ x3.owner = x.owner /\ x3.version = x.version /\ x3.image = im
      /\ x3.patched = (x.obj \in Patched) /\ (managed /\ IsApplication(x) => x3.gks = ks)
  <2>1. CASE managed /\ IsApplication(x)
    <3>1. x3 = [x2 EXCEPT !.gks = ks]
      BY <1>3, <2>1, Zenon DEF TransformApplication
    <3> HIDE DEF ks
    <3> QED
      BY <1>2, <1>4, <3>1, Zenon DEF Item
  <2>2. CASE ~(managed /\ IsApplication(x))
    <3>1. x3 = x2
      BY <1>3, <2>2, Zenon DEF TransformApplication
    <3> QED
      BY <1>2, <2>2, <3>1, Zenon
  <2> QED
    BY <2>1, <2>2, Zenon
<1> HIDE DEF x3, ks
<1>6. x4 \in Item /\ x4.obj = x.obj /\ x4.owner = x.owner /\ x4.version \in {x.version, want[w]} /\ x4.image = im
      /\ x4.patched = (x.obj \in Patched) /\ (managed /\ IsApplication(x) => x4.gks = ks)
  <2> DEFINE ph == IF w \in Healthy THEN "Succeeded" ELSE "Pending"
  <2>1. CASE managed /\ IsApplication(x3)
    <3>1. x4 = [x3 EXCEPT !.version = want[w], !.phase = ph]
      BY <2>1, Zenon DEF TransformApplicationFromStatus, CommonSpec
    <3>2. ph \in {"", "Pending", "Succeeded"} /\ want[w] \in Version \cup {None}
      BY Zenon
    <3> HIDE DEF ph
    <3> QED
      BY <1>5, <3>1, <3>2, Zenon DEF Item
  <2>2. CASE ~(managed /\ IsApplication(x3))
    <3>1. x4 = x3
      BY <2>2, Zenon DEF TransformApplicationFromStatus
    <3> QED
      BY <1>5, <3>1, Zenon
  <2> QED
    BY <2>1, <2>2
<1> HIDE DEF x4
<1>7. x5 \in Item /\ x5.obj = x.obj /\ x5.owner = x.owner /\ x5.version \in {x.version, want[w]} /\ x5.image = im
      /\ x5.patched = (x.obj \in Patched) /\ (managed /\ IsApplication(x) => x5.gks = ks) /\ x5.label = label
  <2>1. x5 = [x4 EXCEPT !.label = label]
    BY Zenon DEF AddLabels
  <2> QED
    BY <1>6, <2>1, Zenon DEF Item
<1>8. y = x5
  BY Zenon DEF Transformed, x1, x2, x3, x4
<1> QED
  BY <1>7, <1>8, Zenon DEF im, ks

\* y is x with its namespace and its owner set
FinishedFrom(w, x, y) ==
  /\ y \in Item /\ y.obj = x.obj /\ y.image = x.image /\ y.label = x.label /\ y.patched = x.patched
  /\ y.gks = x.gks /\ y.version = x.version
  /\ y.owner = w <=> SubjectNs[w] \in {"", y.ns}

LEMMA FinishedFields ==
  ASSUME NEW w \in Worker, NEW x \in Item, x.owner = None, NEW mapped, NEW y, y = Finished(w, x, mapped)
  PROVE  FinishedFrom(w, x, y)
<1> DEFINE x1 == SetNamespaces(w, x, mapped)
           x2 == InjectOwnerRef(w, x1)
<1>1. SubjectNs[w] \in STRING /\ w # None
  <2>1. SubjectNs \in [Worker -> STRING]
    BY PipelineConstants, Zenon
  <2>2. w # None
    BY PipelineNone, Zenon
  <2> QED
    BY <2>1, <2>2, Zenon
<1>2. x1 \in Item /\ x1.obj = x.obj /\ x1.image = x.image /\ x1.label = x.label /\ x1.patched = x.patched
      /\ x1.gks = x.gks /\ x1.version = x.version /\ x1.owner = None
  <2>1. x1 = x \/ x1 = [x EXCEPT !.ns = SubjectNs[w]]
    BY Zenon DEF SetNamespaces
  <2>2. CASE x1 = x
    BY <2>2, Zenon
  <2>3. CASE x1 = [x EXCEPT !.ns = SubjectNs[w]]
    BY <1>1, <2>3, Zenon DEF Item
  <2> QED
    BY <2>1, <2>2, <2>3
<1> HIDE DEF x1
<1>3. x2 \in Item /\ x2.obj = x.obj /\ x2.image = x.image /\ x2.label = x.label /\ x2.patched = x.patched
      /\ x2.gks = x.gks /\ x2.version = x.version /\ (x2.owner = w <=> SubjectNs[w] \in {"", x2.ns})
  <2>1. CASE SubjectNs[w] \in {"", x1.ns}
    <3>1. x2 = [x1 EXCEPT !.owner = w]
      BY <2>1, Zenon DEF InjectOwnerRef
    <3> QED
      BY <1>2, <2>1, <3>1, Zenon DEF Item
  <2>2. CASE SubjectNs[w] \notin {"", x1.ns}
    <3>1. x2 = x1
      BY <2>2, Zenon DEF InjectOwnerRef
    <3> QED
      BY <1>1, <1>2, <2>2, <3>1, Zenon
  <2> QED
    BY <2>1, <2>2, Zenon
<1>4. y = x2
  BY Zenon DEF Finished, x1
<1> QED
  BY <1>3, <1>4, Zenon DEF FinishedFrom

(***************************************************************************)
(* The documents of files.                                                 *)
(***************************************************************************)
LEMMA DocsTogether ==
  ASSUME NEW v, NEW S, NEW T
  PROVE  DocsOf(v, S) \cup DocsOf(v, T) = DocsOf(v, S \cup T)
  BY Zenon DEF DocsOf

\* Files share no document.
LEMMA DocsApart ==
  ASSUME NEW v \in DOMAIN Package, NEW S \in SUBSET DOMAIN Package[v], NEW T \in SUBSET DOMAIN Package[v], S \cap T = {}
  PROVE  DocsOf(v, S) \cap DocsOf(v, T) = {}
<1> SUFFICES ASSUME NEW d, d \in DocsOf(v, S), d \in DocsOf(v, T) PROVE FALSE
  BY Zenon
<1>1. PICK f \in S : d \in Range(Package[v][f])
  BY Zenon DEF DocsOf
<1>2. PICK g \in T : d \in Range(Package[v][g])
  BY Zenon DEF DocsOf
<1>3. PICK i \in DOMAIN Package[v][f] : d = Package[v][f][i]
  BY <1>1, Zenon DEF Range
<1>4. PICK j \in DOMAIN Package[v][g] : d = Package[v][g][j]
  BY <1>2, Zenon DEF Range
<1>5. f = g
  BY <1>3, <1>4, PipelineDocs, Zenon
<1> QED
  BY <1>1, <1>2, <1>5, Zenon

LEMMA EnumNone == Enum(<<>>, {})
  BY DEF Enum

LEMMA EnumMapped ==
  ASSUME NEW s, NEW t, NEW docs, Enum(s, docs), DOMAIN t = DOMAIN s, \A i \in DOMAIN s : t[i].obj = s[i].obj
  PROVE  Enum(t, docs)
<1>1. {t[i].obj : i \in DOMAIN t} = {s[i].obj : i \in DOMAIN s}
  BY Zenon
<1> QED
  BY <1>1, Zenon DEF Enum

LEMMA EnumPermuted ==
  ASSUME NEW s, NEW docs, Enum(s, docs), NEW perm \in Bijection(DOMAIN s, DOMAIN s)
  PROVE  Enum([i \in DOMAIN s |-> s[perm[i]]], docs)
<1> DEFINE p == [i \in DOMAIN s |-> s[perm[i]]]
<1>1. perm \in [DOMAIN s -> DOMAIN s] /\ (\A a, b \in DOMAIN s : perm[a] = perm[b] => a = b)
      /\ \A j \in DOMAIN s : \E i \in DOMAIN s : perm[i] = j
  BY Zenon DEF Bijection, Injection, Surjection, IsInjective
<1>a. DOMAIN p = DOMAIN s /\ \A i \in DOMAIN s : p[i] = s[perm[i]]
  OBVIOUS
<1> HIDE DEF p
<1>2. {p[i].obj : i \in DOMAIN p} = {s[i].obj : i \in DOMAIN s}
  <2>1. \A i \in DOMAIN p : \E j \in DOMAIN s : p[i].obj = s[j].obj
    BY <1>1, <1>a, Zenon
  <2>2. ASSUME NEW j \in DOMAIN s PROVE \E i \in DOMAIN p : s[j].obj = p[i].obj
    <3>1. PICK i \in DOMAIN s : perm[i] = j
      BY <1>1, Zenon
    <3> QED
      BY <1>a, <3>1, Zenon
  <2>3. {p[i].obj : i \in DOMAIN p} \subseteq {s[i].obj : i \in DOMAIN s}
    BY <2>1, ZenonT(60)
  <2>4. {s[i].obj : i \in DOMAIN s} \subseteq {p[i].obj : i \in DOMAIN p}
    BY <2>2, ZenonT(60)
  <2> QED
    BY <2>3, <2>4, Zenon
<1>3. \A i, j \in DOMAIN p : p[i].obj = p[j].obj => i = j
  <2> SUFFICES ASSUME NEW i \in DOMAIN p, NEW j \in DOMAIN p, p[i].obj = p[j].obj PROVE i = j
    OBVIOUS
  <2>1. i \in DOMAIN s /\ j \in DOMAIN s /\ perm[i] \in DOMAIN s /\ perm[j] \in DOMAIN s
        /\ s[perm[i]].obj = s[perm[j]].obj
    BY <1>1, <1>a, Zenon
  <2>2. perm[i] = perm[j]
    BY <2>1, Zenon DEF Enum
  <2> QED
    BY <1>1, <2>1, <2>2, Zenon
<1> QED
  BY <1>2, <1>3, Zenon DEF Enum, p

LEMMA EnumJoined ==
  ASSUME NEW s \in Seq(Item), NEW t \in Seq(Item), NEW A, NEW B, Enum(s, A), Enum(t, B), A \cap B = {}
  PROVE  Enum(s \o t, A \cup B)
<1> DEFINE u == s \o t
<1>1. Len(s) \in Nat /\ Len(t) \in Nat /\ DOMAIN s = 1..Len(s) /\ DOMAIN t = 1..Len(t) /\ DOMAIN u = 1..(Len(s) + Len(t))
  OBVIOUS
<1>2. \A i \in 1..Len(s) : u[i] = s[i] /\ i \in DOMAIN u
  OBVIOUS
<1>3. \A j \in 1..Len(t) : u[Len(s) + j] = t[j] /\ Len(s) + j \in DOMAIN u
  OBVIOUS
<1>4. \A i \in DOMAIN u : i \in 1..Len(s) \/ \E j \in 1..Len(t) : i = Len(s) + j
  <2> SUFFICES ASSUME NEW i \in DOMAIN u, i \notin 1..Len(s) PROVE \E j \in 1..Len(t) : i = Len(s) + j
    OBVIOUS
  <2>1. i - Len(s) \in 1..Len(t) /\ i = Len(s) + (i - Len(s))
    BY <1>1
  <2> QED
    BY <2>1
<1> HIDE DEF u
<1>5. {u[i].obj : i \in DOMAIN u} = A \cup B
  <2>1. {s[i].obj : i \in 1..Len(s)} = A /\ {t[i].obj : i \in 1..Len(t)} = B
    BY <1>1, Zenon DEF Enum
  <2>2. ASSUME NEW i \in DOMAIN u PROVE u[i].obj \in A \cup B
    <3>1. CASE i \in 1..Len(s)
      BY <1>2, <2>1, <3>1, Zenon
    <3>2. CASE \E j \in 1..Len(t) : i = Len(s) + j
      BY <1>3, <2>1, <3>2, Zenon
    <3> QED
      BY <1>4, <3>1, <3>2, Zenon
  <2>3. ASSUME NEW d \in A PROVE \E i \in DOMAIN u : u[i].obj = d
    BY <1>2, <2>1, Zenon
  <2>4. ASSUME NEW d \in B PROVE \E i \in DOMAIN u : u[i].obj = d
    BY <1>3, <2>1, Zenon
  <2>5. {u[i].obj : i \in DOMAIN u} \subseteq A \cup B
    BY <2>2, Zenon
  <2>6. A \subseteq {u[i].obj : i \in DOMAIN u}
    BY <2>3, Zenon
  <2>7. B \subseteq {u[i].obj : i \in DOMAIN u}
    BY <2>4, Zenon
  <2> QED
    BY <2>5, <2>6, <2>7, Zenon
<1>6. ASSUME NEW i \in DOMAIN u, NEW j \in DOMAIN u, u[i].obj = u[j].obj PROVE i = j
  <2>1. \A a \in 1..Len(s) : s[a].obj \in A
    BY <1>1, Zenon DEF Enum
  <2>2. \A a \in 1..Len(t) : t[a].obj \in B
    BY <1>1, Zenon DEF Enum
  <2>3. CASE i \in 1..Len(s) /\ j \in 1..Len(s)
    BY <1>1, <1>2, <1>6, <2>3, Zenon DEF Enum
  <2>4. CASE i \in 1..Len(s) /\ \E b \in 1..Len(t) : j = Len(s) + b
    BY <1>2, <1>3, <1>6, <2>1, <2>2, <2>4, Zenon
  <2>5. CASE j \in 1..Len(s) /\ \E b \in 1..Len(t) : i = Len(s) + b
    BY <1>2, <1>3, <1>6, <2>1, <2>2, <2>5, Zenon
  <2>6. CASE (\E b \in 1..Len(t) : i = Len(s) + b) /\ \E b \in 1..Len(t) : j = Len(s) + b
    <3>1. PICK a \in 1..Len(t), b \in 1..Len(t) : i = Len(s) + a /\ j = Len(s) + b
      BY <2>6, Zenon
    <3>2. t[a].obj = t[b].obj
      BY <1>3, <1>6, <3>1, Zenon
    <3>3. a = b
      BY <1>1, <3>2, Zenon DEF Enum
    <3> QED
      BY <3>1, <3>3
  <2> QED
    BY <1>4, <2>3, <2>4, <2>5, <2>6, Zenon
<1> QED
  BY <1>5, <1>6, Zenon DEF Enum, u

LEMMA ParsedFile ==
  ASSUME NEW v \in DOMAIN Package, NEW f \in DOMAIN Package[v]
  PROVE  LET s == ParseObjects(Package[v][f])
         IN  s \in Seq(Item) /\ Enum(s, DocsOf(v, {f})) /\ AllRaw(s)
<1> DEFINE d == Package[v][f]
           s == ParseObjects(d)
<1>1. d \in Seq(Object) /\ \A i, j \in DOMAIN d : d[i] = d[j] => i = j
  BY PipelineDocs, Zenon
<1>2. DocsOf(v, {f}) = Range(d)
  BY Zenon DEF DocsOf
<1> HIDE DEF d
<1>3. DOMAIN s = DOMAIN d /\ \A i \in DOMAIN d : s[i] = Parsed(d[i])
  BY Zenon DEF ParseObjects
<1>4. \A i \in DOMAIN d : d[i] \in Object
  BY <1>1
<1>5. \A i \in DOMAIN d : s[i] \in Item /\ s[i].obj = d[i]
  BY <1>3, <1>4, ParsedFields, Zenon
<1>6. s \in Seq(Item)
  <2>1. s = [i \in 1..Len(d) |-> s[i]] /\ \A i \in 1..Len(d) : s[i] \in Item
    BY <1>1, <1>3, <1>5 DEF ParseObjects
  <2> HIDE DEF s
  <2> QED
    BY <1>1, <2>1
<1> HIDE DEF s
<1>7. {s[i].obj : i \in DOMAIN s} = Range(d)
  <2>1. {s[i].obj : i \in DOMAIN s} \subseteq Range(d)
    BY <1>3, <1>5, Zenon DEF Range
  <2>2. Range(d) \subseteq {s[i].obj : i \in DOMAIN s}
    BY <1>3, <1>5, Zenon DEF Range
  <2> QED
    BY <2>1, <2>2, Zenon
<1>8. Enum(s, DocsOf(v, {f}))
  BY <1>1, <1>2, <1>3, <1>5, <1>7, Zenon DEF Enum
<1>9. AllRaw(s)
  BY <1>3, <1>5, Zenon DEF AllRaw
<1> QED
  BY <1>6, <1>8, <1>9, Zenon DEF s, d

LEMMA JoinedIsEither ==
  ASSUME NEW s \in Seq(Item), NEW t \in Seq(Item), NEW i \in DOMAIN (s \o t)
  PROVE  (\E j \in DOMAIN s : (s \o t)[i] = s[j]) \/ (\E j \in DOMAIN t : (s \o t)[i] = t[j])
<1>1. CASE i \in 1..Len(s)
  BY <1>1
<1>2. CASE i \notin 1..Len(s)
  <2>1. i - Len(s) \in 1..Len(t) /\ (s \o t)[i] = t[i - Len(s)]
    BY <1>2
  <2> QED
    BY <2>1
<1> QED
  BY <1>1, <1>2

LEMMA AllJoined ==
  ASSUME NEW w, NEW o, NEW s \in Seq(Item), NEW t \in Seq(Item)
  PROVE  /\ AllRaw(s) /\ AllRaw(t) => AllRaw(s \o t)
         /\ NoOwner(s) /\ NoOwner(t) => NoOwner(s \o t)
         /\ AllMade(w, o, s) /\ AllMade(w, o, t) => AllMade(w, o, s \o t)
<1> DEFINE u == s \o t
<1>1. \A i \in DOMAIN u : (\E j \in DOMAIN s : u[i] = s[j]) \/ (\E j \in DOMAIN t : u[i] = t[j])
  BY JoinedIsEither
<1> HIDE DEF u
<1>2. AllRaw(s) /\ AllRaw(t) => AllRaw(u)
  BY <1>1, Zenon DEF AllRaw
<1>3. NoOwner(s) /\ NoOwner(t) => NoOwner(u)
  BY <1>1, Zenon DEF NoOwner
<1>4. AllMade(w, o, s) /\ AllMade(w, o, t) => AllMade(w, o, u)
  BY <1>1, Zenon DEF AllMade
<1> QED
  BY <1>2, <1>3, <1>4, Zenon DEF u

LEMMA RawIsUnowned ==
  ASSUME NEW s \in Seq(Item), AllRaw(s)
  PROVE  NoOwner(s)
<1> SUFFICES ASSUME NEW i \in DOMAIN s PROVE s[i].owner = None
  BY DEF NoOwner
<1>1. s[i] \in Item
  OBVIOUS
<1>2. s[i].obj \in Object /\ s[i] = Parsed(s[i].obj)
  BY <1>1, ItemTypes, Zenon DEF AllRaw
<1>3. Parsed(s[i].obj).owner = None
  BY <1>2, ParsedFields, Zenon
<1> QED
  BY <1>2, <1>3, Zenon

\* Of two batches that each have an Application, none is the only one.
LEMMA AppsJoined ==
  ASSUME NEW s \in Seq(Item), NEW t \in Seq(Item), AppsMatch(s), AppsMatch(t)
  PROVE  AppsMatch(s \o t)
<1>1. CASE s = <<>>
  <2>1. s \o t = t
    BY <1>1
  <2> QED
    BY <2>1, Zenon
<1>2. CASE t = <<>>
  <2>1. s \o t = s
    BY <1>2
  <2> QED
    BY <2>1, Zenon
<1>3. CASE s # <<>> /\ t # <<>>
  <2>0. DOMAIN s # {} /\ DOMAIN t # {}
    <3>1. Len(s) \in Nat \ {0} /\ Len(t) \in Nat \ {0}
      BY <1>3
    <3>2. 1 \in DOMAIN s /\ 1 \in DOMAIN t
      BY <3>1
    <3> QED
      BY <3>2, Zenon
  <2>1. PICK a \in DOMAIN s : IsApplication(s[a])
    BY <2>0, Zenon DEF AppsMatch
  <2>2. PICK b \in DOMAIN t : IsApplication(t[b])
    BY <2>0, Zenon DEF AppsMatch
  <2> DEFINE u == s \o t
  <2>3. a \in DOMAIN u /\ u[a] = s[a] /\ Len(s) + b \in DOMAIN u /\ u[Len(s) + b] = t[b] /\ a # Len(s) + b
    OBVIOUS
  <2> HIDE DEF u
  <2>4. IsApplication(u[a]) /\ IsApplication(u[Len(s) + b])
    BY <2>1, <2>2, <2>3, Zenon
  <2>5. AppsMatch(u)
    BY <2>3, <2>4, Zenon DEF AppsMatch
  <2> QED
    BY <2>5 DEF u
<1> QED
  BY <1>1, <1>2, <1>3

\* The one Application of a batch that could be transformed names the kinds of the batch.
LEMMA AppsTransformed ==
  ASSUME NEW b \in Seq(Item), NEW t, DOMAIN t = DOMAIN b, managed, CanTransformApplication(b),
         \A i \in DOMAIN b : t[i].obj = b[i].obj,
         \A i \in DOMAIN b : IsApplication(b[i]) => t[i].gks = {Doc[b[j].obj].kind : j \in DOMAIN b}
  PROVE  AppsMatch(t)
<1> DEFINE apps == {i \in DOMAIN b : IsApplication(b[i])}
<1>1. Cardinality(apps) = 1
  BY Zenon DEF CanTransformApplication
<1>2. apps # {}
  BY <1>1, FS_EmptySet
<1>3. PICK a \in DOMAIN b : IsApplication(b[a])
  BY <1>2
<1>4. IsApplication(t[a])
  BY <1>3, Zenon DEF IsApplication
<1>5. {Doc[t[j].obj].kind : j \in DOMAIN t} = {Doc[b[j].obj].kind : j \in DOMAIN b}
  BY Zenon
<1>6. ASSUME NEW i \in DOMAIN t, IsApplication(t[i]) PROVE t[i].gks = {Doc[t[j].obj].kind : j \in DOMAIN t}
  <2>1. IsApplication(b[i])
    BY <1>6, Zenon DEF IsApplication
  <2> QED
    BY <1>5, <2>1, Zenon
<1> QED
  BY <1>3, <1>4, <1>6, Zenon DEF AppsMatch

\* t holds what s holds in the order of perm, as far as documents and kinds go
Rearranged(s, t, perm) ==
  /\ perm \in Bijection(DOMAIN s, DOMAIN s) /\ DOMAIN t = DOMAIN s
  /\ \A i \in DOMAIN s : t[i].obj = s[perm[i]].obj /\ t[i].gks = s[perm[i]].gks

\* Sorting and finishing the objects keeps what their Application says.
LEMMA AppsPermuted ==
  ASSUME NEW s, NEW t, NEW perm, Rearranged(s, t, perm), AppsMatch(s)
  PROVE  AppsMatch(t)
<1>0. DOMAIN t = DOMAIN s /\ \A i \in DOMAIN s : t[i].obj = s[perm[i]].obj /\ t[i].gks = s[perm[i]].gks
  BY Zenon DEF Rearranged
<1>1. perm \in [DOMAIN s -> DOMAIN s] /\ (\A a, b \in DOMAIN s : perm[a] = perm[b] => a = b)
      /\ \A j \in DOMAIN s : \E i \in DOMAIN s : perm[i] = j
  BY Zenon DEF Rearranged, Bijection, Injection, Surjection, IsInjective
<1>2. \A i \in DOMAIN s : IsApplication(t[i]) <=> IsApplication(s[perm[i]])
  BY <1>0, Zenon DEF IsApplication
<1>3. ASSUME DOMAIN t # {} PROVE \E i \in DOMAIN t : IsApplication(t[i])
  <2>1. PICK j \in DOMAIN s : IsApplication(s[j])
    BY <1>0, <1>3, Zenon DEF AppsMatch
  <2>2. PICK i \in DOMAIN s : perm[i] = j
    BY <1>0, <1>1, Zenon
  <2> QED
    BY <1>0, <1>2, <2>1, <2>2, Zenon
<1>4. {Doc[t[j].obj].kind : j \in DOMAIN t} = {Doc[s[j].obj].kind : j \in DOMAIN s}
  <2>1. ASSUME NEW i \in DOMAIN t PROVE Doc[t[i].obj].kind \in {Doc[s[j].obj].kind : j \in DOMAIN s}
    <3>1. perm[i] \in DOMAIN s /\ Doc[t[i].obj].kind = Doc[s[perm[i]].obj].kind
      BY <1>0, <1>1, Zenon
    <3> QED
      BY <1>0, <3>1, Zenon
  <2>2. ASSUME NEW j \in DOMAIN s PROVE Doc[s[j].obj].kind \in {Doc[t[i].obj].kind : i \in DOMAIN t}
    <3>1. PICK i \in DOMAIN s : perm[i] = j
      BY <1>0, <1>1, Zenon
    <3>2. Doc[t[i].obj].kind = Doc[s[j].obj].kind
      BY <1>0, <3>1, Zenon
    <3> QED
      BY <1>0, <3>2, Zenon
  <2> QED
    BY <2>1, <2>2, Zenon
<1>5. ASSUME NEW i \in DOMAIN t, IsApplication(t[i]), \A j \in DOMAIN t : IsApplication(t[j]) => j = i
      PROVE  t[i].gks = {Doc[t[j].obj].kind : j \in DOMAIN t}
  <2>1. perm[i] \in DOMAIN s /\ IsApplication(s[perm[i]])
    BY <1>0, <1>1, <1>2, <1>5, Zenon
  <2>2. ASSUME NEW j \in DOMAIN s, IsApplication(s[j]) PROVE j = perm[i]
    <3>1. PICK k \in DOMAIN s : perm[k] = j
      BY <1>0, <1>1, Zenon
    <3>2. IsApplication(t[k])
      BY <1>2, <2>2, <3>1, Zenon
    <3> QED
      BY <1>0, <1>5, <3>1, <3>2, Zenon
  <2>3. s[perm[i]].gks = {Doc[s[j].obj].kind : j \in DOMAIN s}
    BY <2>1, <2>2, Zenon DEF AppsMatch
  <2> QED
    BY <1>0, <1>4, <2>3, Zenon
<1> QED
  BY <1>3, <1>5, Zenon DEF AppsMatch

(***************************************************************************)
(* The steps of one build.                                                 *)
(***************************************************************************)
LEMMA OptionsFields ==
  /\ Options.repo = repo /\ Options.kustomize = kustomize /\ Options.managed = managed /\ Options.want = want
  /\ \A v : FilesIn(Options, v) = Files(v)
<1>1. Options.repo = repo /\ Options.kustomize = kustomize /\ Options.managed = managed /\ Options.want = want
  BY Zenon DEF Options
<1> QED
  BY <1>1, Zenon DEF FilesIn, Files, FSFiles

LEMMA IdleIsGood ==
  ASSUME NEW w \in Worker, NEW o
  PROVE  Idle \in RunType /\ Good(w, o, Idle)
<1>1. <<>> \in Seq(Entry) /\ <<>> \in Seq(Item)
  OBVIOUS
<1>2. Idle \in RunType
  BY <1>1, Zenon DEF Idle, RunType
<1>3. Idle.pc = "idle"
  BY DEF Idle
<1> QED
  BY <1>2, <1>3, Zenon DEF Good

LEMMA LoadIsGood ==
  ASSUME NEW w \in Worker, NEW o, NEW r, NEW v \in Version, NEW c \in Seq(Entry),
         r = [Idle EXCEPT !.pc = "load", !.id = v, !.read = c] \/ (c = <<>> /\ r = [Idle EXCEPT !.pc = "load", !.id = v]),
         IF o.want[w] = None THEN Newest(v, c) ELSE v = o.want[w]
  PROVE  r \in RunType /\ Good(w, o, r)
<1>1. Idle \in RunType
  BY IdleIsGood
<1>2. Idle.read = <<>> /\ Idle.batch = <<>> /\ Idle.items = <<>> /\ Idle.todo = {}
  BY DEF Idle
<1>3. r \in RunType /\ r.pc = "load" /\ r.id = v /\ r.read = c /\ r.batch = <<>> /\ r.items = <<>> /\ r.todo = {}
  <2>1. CASE r = [Idle EXCEPT !.pc = "load", !.id = v, !.read = c]
    BY <1>1, <1>2, <2>1, Zenon DEF RunType
  <2>2. CASE c = <<>> /\ r = [Idle EXCEPT !.pc = "load", !.id = v]
    BY <1>1, <1>2, <2>2, Zenon DEF RunType
  <2> QED
    BY <2>1, <2>2
<1>4. Resolved(w, o, r)
  BY <1>3, Zenon DEF Resolved
<1> QED
  BY <1>3, <1>4, Zenon DEF Good

\* the runs that have a package
Late == {"files", "append", "transform", "sort", "done"}

HasPackage(o, r) ==
  /\ r.id \in DOMAIN Package /\ FilesIn(o, r.id) \subseteq DOMAIN Package[r.id]
  /\ r.todo \subseteq FilesIn(o, r.id)

LEMMA GoodIsHeld ==
  ASSUME NEW w \in Worker, NEW o, NEW r, Good(w, o, r), r.pc \in Late
  PROVE  Resolved(w, o, r) /\ HasPackage(o, r) /\ \E B \in SUBSET FilesIn(o, r.id) : Holds(w, o, r, B)
<1>1. r.pc # "idle" /\ r.pc \notin {"idle", "load"}
  BY Zenon DEF Late
<1> QED
  BY <1>1, Zenon DEF Good, HasPackage

LEMMA HeldIsGood ==
  ASSUME NEW w \in Worker, NEW o, NEW r, r.pc \in Late, Resolved(w, o, r), HasPackage(o, r),
         NEW B \in SUBSET FilesIn(o, r.id), Holds(w, o, r, B)
  PROVE  Good(w, o, r)
<1>1. r.pc # "idle" /\ r.pc # "load"
  BY Zenon DEF Late
<1> QED
  BY <1>1, Zenon DEF Good, HasPackage

LEMMA AllOfNone ==
  ASSUME NEW w, NEW o
  PROVE  AllRaw(<<>>) /\ AllMade(w, o, <<>>) /\ AppsMatch(<<>>) /\ NoOwner(<<>>)
<1>1. DOMAIN <<>> = {}
  OBVIOUS
<1> QED
  BY <1>1, Zenon DEF AllRaw, AllMade, AppsMatch, NoOwner

\* LoadManifest: no file is reached yet.
LEMMA FilesIsGood ==
  ASSUME NEW w \in Worker, NEW o, NEW r \in RunType, Good(w, o, r), r.pc = "load", r.id \in DOMAIN Package,
         FilesIn(o, r.id) \subseteq DOMAIN Package[r.id],
         NEW r2, r2 = [r EXCEPT !.pc = "files", !.todo = FilesIn(o, r.id)]
  PROVE  r2 \in RunType /\ Good(w, o, r2)
<1>1. r.batch = <<>> /\ r.items = <<>> /\ Resolved(w, o, r)
  <2>1. r.pc # "idle"
    BY Zenon
  <2> QED
    BY <2>1, Zenon DEF Good
<1>2. FilesIn(o, r.id) \in SUBSET File
  BY PipelineDocs, Zenon
<1>3. r2 \in RunType /\ r2.pc = "files" /\ r2.todo = FilesIn(o, r.id) /\ r2.id = r.id /\ r2.read = r.read
      /\ r2.batch = r.batch /\ r2.items = r.items
  BY <1>2, Zenon DEF RunType
<1>4. r2.pc \in Late /\ Resolved(w, o, r2) /\ HasPackage(o, r2)
  BY <1>1, <1>3, Zenon DEF Late, Resolved, HasPackage
<1>5. FilesIn(o, r2.id) \ r2.todo = {} /\ DocsOf(r2.id, {}) = {} /\ DocsOf(r2.id, {} \ {}) = {}
  BY <1>3, Zenon DEF DocsOf
<1>6. Holds(w, o, r2, {})
  BY <1>1, <1>3, <1>5, EnumNone, AllOfNone, ZenonT(60) DEF Holds
<1> QED
  BY <1>3, <1>4, <1>6, HeldIsGood, Zenon

\* ParseFile with kustomize: the file's documents follow the others, as they are.
LEMMA ParsedIsGood ==
  ASSUME NEW w \in Worker, NEW o, NEW r \in RunType, Good(w, o, r), r.pc = "files", o.kustomize, NEW f \in r.todo,
         NEW r2, r2 = [r EXCEPT !.todo = r.todo \ {f}, !.items = r.items \o ParseObjects(Package[r.id][f])]
  PROVE  r2 \in RunType /\ Good(w, o, r2)
<1> DEFINE t == ParseObjects(Package[r.id][f])
           S == FilesIn(o, r.id) \ r.todo
<1>1. r.pc \in Late
  BY Zenon DEF Late
<1>2. Resolved(w, o, r) /\ HasPackage(o, r) /\ \E B \in SUBSET FilesIn(o, r.id) : Holds(w, o, r, B)
  BY <1>1, GoodIsHeld
<1>3. Holds(w, o, r, {})
  BY <1>2, Zenon DEF Holds
<1>4. r.id \in DOMAIN Package /\ f \in DOMAIN Package[r.id] /\ f \in FilesIn(o, r.id) /\ S \in SUBSET DOMAIN Package[r.id]
  BY <1>2, Zenon DEF HasPackage
<1>5. t \in Seq(Item) /\ Enum(t, DocsOf(r.id, {f})) /\ AllRaw(t)
  BY <1>4, ParsedFile, Zenon
<1> HIDE DEF t
<1>6. r.items \in Seq(Item) /\ r.items \o t \in Seq(Item)
  <2>1. r.items \in Seq(Item)
    BY Zenon DEF RunType
  <2> QED
    BY <1>5, <2>1
<1>7. r2 \in RunType /\ r2.pc = "files" /\ r2.todo = r.todo \ {f} /\ r2.id = r.id /\ r2.read = r.read
      /\ r2.batch = r.batch /\ r2.items = r.items \o t
  <2>1. r2 = [r EXCEPT !.todo = r.todo \ {f}, !.items = r.items \o t]
    BY DEF t
  <2>2. r.todo \ {f} \in SUBSET File
    BY Zenon DEF RunType
  <2> QED
    BY <1>6, <2>1, <2>2, Zenon DEF RunType
<1>8. r2.pc \in Late /\ Resolved(w, o, r2) /\ HasPackage(o, r2)
  BY <1>1, <1>2, <1>7, Zenon DEF Resolved, HasPackage
<1>9. Enum(r.items, DocsOf(r.id, S)) /\ AllRaw(r.items) /\ NoOwner(r.items) /\ Enum(r.batch, DocsOf(r.id, {}))
      /\ AllRaw(r.batch)
  <2>1. S \ {} = S /\ r.pc # "done"
    BY Zenon
  <2> QED
    BY <1>3, <2>1, Zenon DEF Holds
<1>10. Enum(r2.items, DocsOf(r.id, S) \cup DocsOf(r.id, {f}))
  <2>1. S \cap {f} = {} /\ {f} \in SUBSET DOMAIN Package[r.id]
    BY <1>4, Zenon
  <2>2. DocsOf(r.id, S) \cap DocsOf(r.id, {f}) = {}
    BY <1>4, <2>1, DocsApart, Zenon
  <2>3. Enum(r.items \o t, DocsOf(r.id, S) \cup DocsOf(r.id, {f}))
    BY <1>5, <1>6, <1>9, <2>2, EnumJoined, Zenon
  <2> QED
    BY <1>7, <2>3, Zenon
<1>11. DocsOf(r.id, S) \cup DocsOf(r.id, {f}) = DocsOf(r2.id, (FilesIn(o, r2.id) \ r2.todo) \ {})
  <2>1. (FilesIn(o, r2.id) \ r2.todo) \ {} = S \cup {f}
    BY <1>4, <1>7, Zenon
  <2>2. DocsOf(r.id, S) \cup DocsOf(r.id, {f}) = DocsOf(r.id, S \cup {f})
    BY DocsTogether
  <2> QED
    BY <1>7, <2>1, <2>2, Zenon
<1>12. AllRaw(r2.items) /\ NoOwner(r2.items)
  <2>1. AllRaw(r.items \o t)
    BY <1>5, <1>6, <1>9, AllJoined, Zenon
  <2> QED
    BY <1>6, <1>7, <2>1, RawIsUnowned, Zenon
<1>13. Holds(w, o, r2, {})
  BY <1>7, <1>9, <1>10, <1>11, <1>12, Zenon DEF Holds
<1> QED
  BY <1>7, <1>8, <1>13, HeldIsGood, Zenon

\* ParseFile without: the file's documents are the batch.
LEMMA BatchIsGood ==
  ASSUME NEW w \in Worker, NEW o, NEW r \in RunType, Good(w, o, r), r.pc = "files", ~o.kustomize, NEW f \in r.todo,
         NEW r2, r2 = [r EXCEPT !.todo = r.todo \ {f}, !.pc = "append", !.batch = ParseObjects(Package[r.id][f])]
  PROVE  r2 \in RunType /\ Good(w, o, r2)
<1> DEFINE t == ParseObjects(Package[r.id][f])
           S == FilesIn(o, r.id) \ r.todo
<1>1. r.pc \in Late
  BY Zenon DEF Late
<1>2. Resolved(w, o, r) /\ HasPackage(o, r) /\ \E B \in SUBSET FilesIn(o, r.id) : Holds(w, o, r, B)
  BY <1>1, GoodIsHeld
<1>3. Holds(w, o, r, {})
  BY <1>2, Zenon DEF Holds
<1>4. r.id \in DOMAIN Package /\ f \in DOMAIN Package[r.id] /\ f \in FilesIn(o, r.id)
  BY <1>2, Zenon DEF HasPackage
<1>5. t \in Seq(Item) /\ Enum(t, DocsOf(r.id, {f})) /\ AllRaw(t)
  BY <1>4, ParsedFile, Zenon
<1> HIDE DEF t
<1>6. r2 \in RunType /\ r2.pc = "append" /\ r2.todo = r.todo \ {f} /\ r2.id = r.id /\ r2.read = r.read
      /\ r2.batch = t /\ r2.items = r.items
  <2>1. r2 = [r EXCEPT !.todo = r.todo \ {f}, !.pc = "append", !.batch = t]
    BY DEF t
  <2>2. r.todo \ {f} \in SUBSET File
    BY Zenon DEF RunType
  <2> QED
    BY <1>5, <2>1, <2>2, Zenon DEF RunType
<1>7. r2.pc \in Late /\ Resolved(w, o, r2) /\ HasPackage(o, r2)
  BY <1>2, <1>6, Zenon DEF Late, Resolved, HasPackage
<1>8. Enum(r.items, DocsOf(r.id, S)) /\ AllMade(w, o, r.items) /\ (o.managed => AppsMatch(r.items)) /\ NoOwner(r.items)
  <2>1. S \ {} = S /\ r.pc # "done"
    BY Zenon
  <2> QED
    BY <1>3, <2>1, Zenon DEF Holds
<1>9. (FilesIn(o, r2.id) \ r2.todo) \ {f} = S /\ {f} \in SUBSET FilesIn(o, r2.id) /\ {f} \subseteq FilesIn(o, r2.id) \ r2.todo
  BY <1>4, <1>6, Zenon
<1>10. Holds(w, o, r2, {f})
  BY <1>5, <1>6, <1>8, <1>9, Zenon DEF Holds
<1> QED
  BY <1>6, <1>7, <1>9, <1>10, HeldIsGood, Zenon

\* EndFiles: with kustomize all documents are the batch.
LEMMA EndIsGood ==
  ASSUME NEW w \in Worker, NEW o, NEW r \in RunType, Good(w, o, r), r.pc = "files", r.todo = {}, NEW r2,
         \/ o.kustomize /\ r2 = [r EXCEPT !.pc = "append", !.items = <<>>, !.batch = r.items]
         \/ ~o.kustomize /\ r2 = [r EXCEPT !.pc = "sort"]
  PROVE  r2 \in RunType /\ Good(w, o, r2)
<1> DEFINE S == FilesIn(o, r.id)
<1>1. r.pc \in Late
  BY Zenon DEF Late
<1>2. Resolved(w, o, r) /\ HasPackage(o, r) /\ \E B \in SUBSET FilesIn(o, r.id) : Holds(w, o, r, B)
  BY <1>1, GoodIsHeld
<1>3. Holds(w, o, r, {})
  BY <1>2, Zenon DEF Holds
<1>4. S \ {} = S /\ S \ S = {} /\ DocsOf(r.id, {}) = {} /\ r.pc # "done"
  BY Zenon DEF DocsOf
<1>5. Enum(r.items, DocsOf(r.id, S)) /\ NoOwner(r.items) /\ Enum(r.batch, {}) /\ AllRaw(r.batch)
  BY <1>3, <1>4, Zenon DEF Holds
<1>6. CASE o.kustomize /\ r2 = [r EXCEPT !.pc = "append", !.items = <<>>, !.batch = r.items]
  <2>1. <<>> \in Seq(Item)
    OBVIOUS
  <2>2. r2 \in RunType /\ r2.pc = "append" /\ r2.todo = {} /\ r2.id = r.id /\ r2.read = r.read
        /\ r2.batch = r.items /\ r2.items = <<>>
    BY <1>6, <2>1, Zenon DEF RunType
  <2>3. r2.pc \in Late /\ Resolved(w, o, r2) /\ HasPackage(o, r2)
    BY <1>2, <2>2, Zenon DEF Late, Resolved, HasPackage
  <2>4. AllRaw(r.items)
    BY <1>3, <1>6, Zenon DEF Holds
  <2>5. Holds(w, o, r2, S)
    BY <1>4, <1>5, <2>2, <2>4, EnumNone, AllOfNone, ZenonT(60) DEF Holds
  <2> QED
    BY <2>2, <2>3, <2>5, HeldIsGood, Zenon
<1>7. CASE ~o.kustomize /\ r2 = [r EXCEPT !.pc = "sort"]
  <2>1. r2 \in RunType /\ r2.pc = "sort" /\ r2.todo = {} /\ r2.id = r.id /\ r2.read = r.read
        /\ r2.batch = r.batch /\ r2.items = r.items
    BY <1>7, Zenon DEF RunType
  <2>2. r2.pc \in Late /\ Resolved(w, o, r2) /\ HasPackage(o, r2)
    BY <1>2, <2>1, Zenon DEF Late, Resolved, HasPackage
  <2>3. AllMade(w, o, r.items) /\ (o.managed => AppsMatch(r.items))
    BY <1>3, <1>7, Zenon DEF Holds
  <2>4. Holds(w, o, r2, {})
    BY <1>4, <1>5, <2>1, <2>3, Zenon DEF Holds
  <2> QED
    BY <2>1, <2>2, <2>4, HeldIsGood, Zenon
<1> QED
  BY <1>6, <1>7

LEMMA AppendIsGood ==
  ASSUME NEW w \in Worker, NEW o, NEW r \in RunType, Good(w, o, r), r.pc = "append",
         NEW r2, r2 = [r EXCEPT !.pc = "transform"]
  PROVE  r2 \in RunType /\ Good(w, o, r2)
<1>1. r.pc \in Late
  BY Zenon DEF Late
<1>2. Resolved(w, o, r) /\ HasPackage(o, r) /\ \E B \in SUBSET FilesIn(o, r.id) : Holds(w, o, r, B)
  BY <1>1, GoodIsHeld
<1>3. r2 \in RunType /\ r2.pc = "transform" /\ r2.todo = r.todo /\ r2.id = r.id /\ r2.read = r.read
      /\ r2.batch = r.batch /\ r2.items = r.items
  BY Zenon DEF RunType
<1>4. r2.pc \in Late /\ Resolved(w, o, r2) /\ HasPackage(o, r2)
  BY <1>2, <1>3, Zenon DEF Late, Resolved, HasPackage
<1>5. PICK B \in SUBSET FilesIn(o, r.id) : Holds(w, o, r, B)
  BY <1>2
<1>6. Holds(w, o, r2, B)
  BY <1>3, <1>5, Zenon DEF Holds
<1> QED
  BY <1>3, <1>4, <1>5, <1>6, HeldIsGood, Zenon

\* Transform: the documents of the batch join the others, each transformed once.
LEMMA TransformIsGood ==
  ASSUME NEW w \in Worker, PipelineTypes, Good(w, Options, run[w]), run[w].pc = "transform",
         NEW label \in Worker,
         CanTransformApplication(run[w].batch), \A i \in DOMAIN run[w].batch : HasContainers(run[w].batch[i]),
         NEW new, new = [i \in DOMAIN run[w].batch |-> Transformed(w, run[w].batch[i], run[w].batch, label)],
         NEW r2, r2 = [run[w] EXCEPT !.batch = <<>>, !.items = run[w].items \o new,
                                     !.pc = IF kustomize THEN "sort" ELSE "files"]
  PROVE  r2 \in RunType /\ Good(w, Options, r2)
<1> DEFINE r == run[w]
           b == r.batch
           o == Options
           pc2 == IF kustomize THEN "sort" ELSE "files"
           S == FilesIn(o, r.id) \ r.todo
<1>1. r \in RunType /\ want \in [Worker -> Version \cup {None}] /\ managed \in BOOLEAN /\ kustomize \in BOOLEAN
  BY Zenon DEF PipelineTypes
<1>2. o.kustomize = kustomize /\ o.managed = managed /\ o.want = want
  BY OptionsFields, Zenon
<1> HIDE DEF r, o
<1>3. Good(w, o, r) /\ r.pc = "transform" /\ r.pc \in Late
  BY Zenon DEF r, o, Late
<1>4. Resolved(w, o, r) /\ HasPackage(o, r) /\ \E B \in SUBSET FilesIn(o, r.id) : Holds(w, o, r, B)
  BY <1>3, GoodIsHeld
<1>5. PICK B \in SUBSET FilesIn(o, r.id) : Holds(w, o, r, B)
  BY <1>4
<1>6. B \subseteq S /\ Enum(b, DocsOf(r.id, B)) /\ AllRaw(b) /\ Enum(r.items, DocsOf(r.id, S \ B))
      /\ AllMade(w, o, r.items) /\ (managed => AppsMatch(r.items)) /\ NoOwner(r.items) /\ (kustomize => r.todo = {})
  BY <1>2, <1>3, <1>5, Zenon DEF Holds
<1>7. b \in Seq(Item) /\ r.items \in Seq(Item) /\ r.todo \in SUBSET File
  BY <1>1, Zenon DEF RunType
<1>8. DOMAIN new = DOMAIN b /\ \A i \in DOMAIN b : new[i] = Transformed(w, b[i], b, label)
  BY Zenon DEF r
<1>9. ASSUME NEW i \in DOMAIN b
      PROVE  /\ new[i] \in Item /\ new[i].obj = b[i].obj /\ new[i].owner = None /\ Made(w, o, new[i])
             /\ managed /\ IsApplication(b[i]) => new[i].gks = {Doc[b[j].obj].kind : j \in DOMAIN b}
  <2> DEFINE x == b[i]
             y == new[i]
  <2>1. x \in Item /\ HasContainers(x)
    BY <1>7 DEF r
  <2>2. x = Parsed(x.obj) /\ x.obj \in Object
    BY <1>6, <2>1, ItemTypes, Zenon DEF AllRaw
  <2>3. x.image = Doc[x.obj].image /\ x.version = None /\ x.owner = None
    BY <2>2, ParsedFields, ZenonT(60)
  <2>4. y = Transformed(w, x, b, label)
    BY <1>8, Zenon
  <2> HIDE DEF x, y, b
  <2>5. /\ y \in Item /\ y.obj = x.obj /\ y.owner = x.owner /\ y.label = label
        /\ y.image = IF Doc[x.obj].kind \in PodKinds THEN PrivateImage(x.image) ELSE x.image
        /\ y.patched = (x.obj \in Patched)
        /\ y.version \in {x.version, want[w]}
        /\ managed /\ IsApplication(x) => y.gks = {Doc[b[j].obj].kind : j \in DOMAIN b}
    BY <1>1, <1>7, <2>1, <2>4, TransformedFields, SMTT(60)
  <2>6. Made(w, o, y)
    BY <1>2, <2>3, <2>5, Zenon DEF Made
  <2> QED
    BY <2>3, <2>5, <2>6, Zenon DEF x, y, b
<1>10. new \in Seq(Item)
  <2>1. new = [i \in 1..Len(b) |-> new[i]]
    BY <1>7, <1>8 DEF r
  <2>2. DOMAIN b = 1..Len(b) /\ Len(b) \in Nat
    BY <1>7
  <2>3. \A i \in 1..Len(b) : new[i] \in Item
    BY <1>9, <2>2, Zenon
  <2>4. new \in [1..Len(b) -> Item]
    BY <2>1, <2>3, Zenon
  <2> QED
    BY <2>2, <2>4, SeqOfFunction
<1>11. Enum(new, DocsOf(r.id, B))
  <2>1. \A i \in DOMAIN b : new[i].obj = b[i].obj
    BY <1>9, ZenonT(60)
  <2> HIDE DEF b
  <2> QED
    BY <1>6, <1>8, <2>1, EnumMapped, SMTT(60)
<1>12. AllMade(w, o, new) /\ NoOwner(new)
  BY <1>8, <1>9, Zenon DEF AllMade, NoOwner
<1>13. ASSUME managed PROVE AppsMatch(new)
  <2>1. CanTransformApplication(b)
    BY DEF r
  <2> QED
    BY <1>7, <1>8, <1>9, <1>13, <2>1, AppsTransformed, ZenonT(60)
<1>14. r.items \o new \in Seq(Item)
  BY <1>7, <1>10
<1>15. r2 \in RunType /\ r2.pc = pc2 /\ r2.todo = r.todo /\ r2.id = r.id /\ r2.read = r.read
      /\ r2.batch = <<>> /\ r2.items = r.items \o new
  <2>1. r2 = [r EXCEPT !.batch = <<>>, !.items = r.items \o new, !.pc = pc2]
    BY DEF r
  <2>2. <<>> \in Seq(Item) /\ pc2 \in {"sort", "files"}
    OBVIOUS
  <2> HIDE DEF pc2
  <2> QED
    BY <1>1, <1>14, <2>1, <2>2, ZenonT(60) DEF RunType
<1>16. Enum(r2.items, DocsOf(r.id, S))
  <2>1. (S \ B) \cap B = {} /\ (S \ B) \cup B = S
    BY <1>6, Zenon
  <2>2. S \ B \in SUBSET DOMAIN Package[r.id] /\ B \in SUBSET DOMAIN Package[r.id] /\ r.id \in DOMAIN Package
    BY <1>4, Zenon DEF HasPackage
  <2>3. DocsOf(r.id, S \ B) \cap DocsOf(r.id, B) = {}
    BY <2>1, <2>2, DocsApart, Zenon
  <2>4. DocsOf(r.id, S \ B) \cup DocsOf(r.id, B) = DocsOf(r.id, S)
    <3>1. DocsOf(r.id, S \ B) \cup DocsOf(r.id, B) = DocsOf(r.id, (S \ B) \cup B)
      BY DocsTogether
    <3> QED
      BY <2>1, <3>1, Zenon
  <2>5. Enum(r.items \o new, DocsOf(r.id, S \ B) \cup DocsOf(r.id, B))
    BY <1>6, <1>7, <1>10, <1>11, <2>3, EnumJoined, ZenonT(60)
  <2> QED
    BY <1>15, <2>4, <2>5, Zenon
<1>17. AllMade(w, o, r2.items) /\ NoOwner(r2.items) /\ (managed => AppsMatch(r2.items))
  <2>1. AllMade(w, o, r.items \o new) /\ NoOwner(r.items \o new)
    BY <1>6, <1>7, <1>10, <1>12, AllJoined, SMTT(60)
  <2>2. managed => AppsMatch(r.items \o new)
    BY <1>6, <1>7, <1>10, <1>13, AppsJoined
  <2> QED
    BY <1>15, <2>1, <2>2, Zenon
<1>18. r2.pc \in Late /\ Resolved(w, o, r2) /\ HasPackage(o, r2)
  BY <1>4, <1>15, Zenon DEF Late, Resolved, HasPackage
<1>19. (FilesIn(o, r2.id) \ r2.todo) \ {} = S /\ DocsOf(r2.id, {}) = {}
  BY <1>15, Zenon DEF DocsOf
<1>20. (r2.pc = "sort" => r2.todo = {}) /\ (r2.pc = "sort" <=> kustomize) /\ (r2.pc = "files" <=> ~kustomize)
  <2>1. CASE kustomize
    <3>1. r2.pc = "sort"
      BY <1>15, <2>1, Zenon
    <3> QED
      BY <1>6, <1>15, <2>1, <3>1, Zenon
  <2>2. CASE ~kustomize
    <3>1. r2.pc = "files"
      BY <1>15, <2>2, Zenon
    <3> QED
      BY <2>2, <3>1, Zenon
  <2> QED
    BY <2>1, <2>2
<1>21. r2.pc \in {"sort", "files"}
  BY <1>15, Zenon
<1>22. Holds(w, o, r2, {})
  BY <1>2, <1>15, <1>16, <1>17, <1>19, <1>20, <1>21, EnumNone, AllOfNone, ZenonT(60) DEF Holds
<1>23. Good(w, o, r2)
  BY <1>18, <1>22, HeldIsGood, Zenon
<1> QED
  BY <1>15, <1>23, Zenon DEF o

\* what Finish makes of r, for the order p
FinishedRun(w, r, p, unmapped) ==
  LET s == FlattenListObjects(p)
  IN  [r EXCEPT !.pc = "done", !.items = [i \in DOMAIN s |-> Finished(w, s[i], s[i].obj \notin unmapped)]]

\* Finish: the objects are put in order, get their namespaces and their owner.
LEMMA FinishIsGood ==
  ASSUME NEW w \in Worker, NEW o, NEW r \in RunType, Good(w, o, r), r.pc = "sort",
         NEW p \in Sorted(r.items), NEW unmapped
  PROVE  FinishedRun(w, r, p, unmapped) \in RunType /\ Good(w, o, FinishedRun(w, r, p, unmapped))
<1> DEFINE it == r.items
           S  == FilesIn(o, r.id)
           s  == FlattenListObjects(p)
           t  == [i \in DOMAIN s |-> Finished(w, s[i], s[i].obj \notin unmapped)]
           r2 == [r EXCEPT !.pc = "done", !.items = t]
<1>a. FinishedRun(w, r, p, unmapped) = r2
  BY Zenon DEF FinishedRun
<1>b. r2 = [r EXCEPT !.pc = "done", !.items = t]
  OBVIOUS
<1>c. t = [i \in DOMAIN s |-> Finished(w, s[i], s[i].obj \notin unmapped)]
  OBVIOUS
<1> HIDE DEF r2, t
<1>1. r.pc \in Late
  BY Zenon DEF Late
<1>2. Resolved(w, o, r) /\ HasPackage(o, r) /\ \E B \in SUBSET FilesIn(o, r.id) : Holds(w, o, r, B)
  BY <1>1, GoodIsHeld
<1>3. Holds(w, o, r, {}) /\ r.todo = {}
  BY <1>2, Zenon DEF Holds
<1>4. (S \ {}) \ {} = S /\ r.pc # "done" /\ r.pc # "files"
  BY Zenon
<1>5. Enum(it, DocsOf(r.id, S)) /\ NoOwner(it) /\ Enum(r.batch, DocsOf(r.id, {})) /\ AllRaw(r.batch)
      /\ AllMade(w, o, it) /\ (o.managed => AppsMatch(it))
  BY <1>3, <1>4, Zenon DEF Holds
<1>6. it \in Seq(Item) /\ DOMAIN it = 1..Len(it) /\ Len(it) \in Nat
  <2>1. it \in Seq(Item)
    BY Zenon DEF RunType
  <2> QED
    BY <2>1
<1> HIDE DEF it
<1>7. PICK perm \in Bijection(DOMAIN it, DOMAIN it) : p = [i \in DOMAIN it |-> it[perm[i]]]
  BY Zenon DEF Sorted, it
<1>8. DOMAIN p = DOMAIN it /\ (\A i \in DOMAIN it : p[i] = it[perm[i]] /\ perm[i] \in DOMAIN it) /\ InOrder(p)
  <2>1. perm \in [DOMAIN it -> DOMAIN it]
    BY Zenon DEF Bijection, Injection
  <2>2. InOrder(p)
    BY Zenon DEF Sorted, InOrder
  <2> QED
    BY <1>7, <2>1, <2>2, Zenon
<1>9. \A i \in DOMAIN it : it[i] \in Item
  BY <1>6
<1>10. s = p
  <2>1. \A i \in 1..Len(it) : it[perm[i]] \in Item
    BY <1>6, <1>8, <1>9, Zenon
  <2>2. p \in [1..Len(it) -> Item]
    BY <1>6, <1>7, <2>1, Zenon
  <2>3. p \in Seq(Item)
    BY <1>6, <2>2, SeqOfFunction
  <2> QED
    BY <2>3, FlattenIsIdentity, Zenon
<1> HIDE DEF s
<1>11. DOMAIN t = DOMAIN it /\ \A i \in DOMAIN it : t[i] = Finished(w, p[i], p[i].obj \notin unmapped)
  BY <1>8, <1>10, <1>c, Zenon
<1>12. ASSUME NEW i \in DOMAIN it
       PROVE  /\ t[i] \in Item /\ t[i].obj = p[i].obj /\ t[i].image = p[i].image /\ t[i].label = p[i].label
              /\ t[i].patched = p[i].patched /\ t[i].gks = p[i].gks /\ t[i].version = p[i].version
              /\ t[i].owner = w <=> SubjectNs[w] \in {"", t[i].ns}
  <2>1. p[i] \in Item /\ p[i].owner = None
    BY <1>5, <1>8, <1>9, ZenonT(60) DEF NoOwner
  <2>2. t[i] = Finished(w, p[i], p[i].obj \notin unmapped)
    BY <1>11, Zenon
  <2> DEFINE x == p[i]
             y == t[i]
             m == x.obj \notin unmapped
  <2>3. x \in Item /\ x.owner = None /\ y = Finished(w, x, m)
    BY <2>1, <2>2, Zenon
  <2> HIDE DEF x, y, m
  <2>4. FinishedFrom(w, x, y)
    BY <2>3, FinishedFields
  <2> QED
    BY <2>4, Zenon DEF x, y, FinishedFrom
<1>13. t \in Seq(Item)
  <2>1. t \in [1..Len(it) -> Item]
    <3>1. \A i \in 1..Len(it) : t[i] \in Item
      BY <1>6, <1>12, Zenon
    <3>2. t = [i \in 1..Len(it) |-> t[i]]
      BY <1>6, <1>8, <1>10, <1>11, <1>c, ZenonT(60)
    <3> QED
      BY <3>1, <3>2, Zenon
  <2> QED
    BY <1>6, <2>1, SeqOfFunction
<1>14. r2 \in RunType /\ r2.pc = "done" /\ r2.todo = r.todo /\ r2.id = r.id /\ r2.read = r.read
       /\ r2.batch = r.batch /\ r2.items = t
  BY <1>13, <1>b, Zenon DEF RunType
<1>15. Enum(t, DocsOf(r.id, S))
  <2>1. Enum(p, DocsOf(r.id, S))
    BY <1>5, <1>7, EnumPermuted, Zenon
  <2>2. DOMAIN t = DOMAIN p /\ \A i \in DOMAIN p : t[i].obj = p[i].obj
    BY <1>8, <1>11, <1>12, Zenon
  <2> QED
    BY <2>1, <2>2, EnumMapped
<1>16. AllMade(w, o, t)
  <2> SUFFICES ASSUME NEW i \in DOMAIN it PROVE Made(w, o, t[i])
    BY <1>11, Zenon DEF AllMade
  <2>1. Made(w, o, p[i])
    BY <1>5, <1>8, Zenon DEF AllMade
  <2>2. t[i].obj = p[i].obj /\ t[i].image = p[i].image /\ t[i].label = p[i].label
        /\ t[i].patched = p[i].patched /\ t[i].version = p[i].version
    BY <1>12, Zenon
  <2> QED
    BY <2>1, <2>2, Zenon DEF Made
<1>17. ASSUME o.managed PROVE AppsMatch(t)
  <2>1. \A i \in DOMAIN it : t[i].obj = it[perm[i]].obj /\ t[i].gks = it[perm[i]].gks
    <3> SUFFICES ASSUME NEW i \in DOMAIN it PROVE t[i].obj = it[perm[i]].obj /\ t[i].gks = it[perm[i]].gks
      OBVIOUS
    <3>1. t[i].obj = p[i].obj /\ t[i].gks = p[i].gks /\ p[i] = it[perm[i]]
      BY <1>8, <1>12, Zenon
    <3> QED
      BY <3>1, Zenon
  <2>2. Rearranged(it, t, perm)
    BY <1>7, <1>11, <2>1, Zenon DEF Rearranged
  <2> QED
    BY <1>5, <1>17, <2>2, AppsPermuted, Zenon
<1>18. OwnerSet(w, t)
  BY <1>11, <1>12, Zenon DEF OwnerSet
<1>19. InOrder(t)
  <2> SUFFICES ASSUME NEW i \in DOMAIN it, NEW j \in DOMAIN it, i < j PROVE NotAfter(t[i], t[j])
    BY <1>11, Zenon DEF InOrder
  <2>1. NotAfter(p[i], p[j])
    BY <1>8, Zenon DEF InOrder
  <2>2. Key(t[i]) = Key(p[i]) /\ Key(t[j]) = Key(p[j])
    BY <1>12, Zenon DEF Key
  <2> QED
    BY <2>1, <2>2, Zenon DEF NotAfter
<1>20. r2.pc \in Late /\ Resolved(w, o, r2) /\ HasPackage(o, r2)
  BY <1>2, <1>14, Zenon DEF Late, Resolved, HasPackage
<1>21. Holds(w, o, r2, {})
  BY <1>3, <1>4, <1>5, <1>14, <1>15, <1>16, <1>17, <1>18, <1>19, ZenonT(60) DEF Holds
<1> QED
  BY <1>14, <1>20, <1>21, <1>a, HeldIsGood, Zenon

(***************************************************************************)
(* The invariant holds.                                                    *)
(***************************************************************************)
\* w's build goes on to a good state
GoodStep(w) == \E r \in RunType : Good(w, Options, r) /\ run' = [run EXCEPT ![w] = r]

LEMMA InitPipeline == Init => PipelineInv
<1> SUFFICES ASSUME Init PROVE PipelineInv
  OBVIOUS
<1>1. \A w \in Worker : run[w] = Idle
  BY Zenon DEF Init
<1>2. \A w \in Worker : Idle \in RunType /\ Good(w, Options, Idle)
  BY IdleIsGood
<1>3. run \in [Worker -> RunType]
  BY <1>2, Zenon DEF Init
<1>4. channel \in Seq(Entry)
  BY DEF Init
<1> QED
  BY <1>1, <1>2, <1>3, <1>4, Zenon DEF Init, PipelineInv, PipelineTypes

\* What a read of the repository sees is a past state of the channel.
LEMMA SeenIsPast ==
  ASSUME PipelineTypes, NEW seen,
         (seen = channel /\ UNCHANGED clone) \/ CloneURL(seen)
  PROVE  /\ seen \in Seq(Entry)
         /\ clone' # None => \E n \in 0..Len(channel) : clone' = SubSeq(channel, 1, n)
<1>1. channel \in Seq(Entry) /\ (clone # None => \E n \in 0..Len(channel) : clone = SubSeq(channel, 1, n))
  BY Zenon DEF PipelineTypes
<1>2. Len(channel) \in 0..Len(channel) /\ channel = SubSeq(channel, 1, Len(channel))
  BY <1>1
<1>3. \A n \in 0..Len(channel) : SubSeq(channel, 1, n) \in Seq(Entry)
  BY <1>1
<1>4. CASE seen = channel /\ UNCHANGED clone
  BY <1>1, <1>4, Zenon
<1>5. CASE CloneURL(seen)
  <2>1. clone' = seen /\ (seen = channel \/ (clone # None /\ seen = clone))
    BY <1>5, Zenon DEF CloneURL
  <2> QED
    BY <1>1, <1>2, <1>3, <2>1, Zenon
<1> QED
  BY <1>4, <1>5

LEMMA LoadChannelStep ==
  ASSUME PipelineInv, NEW w \in Worker, LoadChannel(w)
  PROVE  GoodStep(w) /\ (clone' # None => \E n \in 0..Len(channel) : clone' = SubSeq(channel, 1, n))
<1>1. PipelineTypes /\ Options.want = want
  BY OptionsFields, Zenon DEF PipelineInv
<1>2. (clone # None => \E n \in 0..Len(channel) : clone = SubSeq(channel, 1, n)) /\ want[w] \in Version \cup {None}
  BY <1>1, Zenon DEF PipelineTypes
<1>3. ASSUME Fail(w) PROVE GoodStep(w)
  BY <1>3, IdleIsGood, Zenon DEF Fail, Step, GoodStep
<1>4. CASE /\ CommonSpec(w) # None
           /\ Step(w, [Idle EXCEPT !.pc = "load", !.id = CommonSpec(w)])
           /\ UNCHANGED clone
  <2> DEFINE r == [Idle EXCEPT !.pc = "load", !.id = want[w]]
  <2>1. run' = [run EXCEPT ![w] = r]
    BY <1>4, Zenon DEF Step, CommonSpec
  <2>2. want[w] # None /\ want[w] \in Version /\ <<>> \in Seq(Entry)
    BY <1>2, <1>4 DEF CommonSpec
  <2>3. r \in RunType /\ Good(w, Options, r)
    BY <1>1, <2>2, LoadIsGood, Zenon
  <2> HIDE DEF r
  <2>4. GoodStep(w)
    BY <2>1, <2>3, Zenon DEF GoodStep
  <2> QED
    BY <1>2, <1>4, <2>4, Zenon
<1>5. ASSUME CommonSpec(w) = None, NEW seen \in {channel, clone},
             FSChannel(seen) \/ HTTPChannel(seen) \/ GitChannel(seen),
             IF Latest(seen) = None
             THEN Fail(w)
             ELSE Step(w, [Idle EXCEPT !.pc = "load", !.id = Latest(seen).ver, !.read = seen])
      PROVE  GoodStep(w) /\ (clone' # None => \E n \in 0..Len(channel) : clone' = SubSeq(channel, 1, n))
  <2>1. (seen = channel /\ UNCHANGED clone) \/ CloneURL(seen)
    BY <1>5, Zenon DEF FSChannel, HTTPChannel, GitChannel, ReadFile, FetchURL
  <2>2. /\ seen \in Seq(Entry)
        /\ clone' # None => \E n \in 0..Len(channel) : clone' = SubSeq(channel, 1, n)
    BY <1>1, <2>1, SeenIsPast
  <2>3. CASE Latest(seen) = None
    BY <1>3, <1>5, <2>2, <2>3, Zenon
  <2>4. CASE Latest(seen) # None
    <3> DEFINE v == Latest(seen).ver
               r == [Idle EXCEPT !.pc = "load", !.id = v, !.read = seen]
    <3>1. v \in Version /\ Newest(v, seen)
      BY <2>2, <2>4, LatestIsNewest, Zenon
    <3>2. run' = [run EXCEPT ![w] = r]
      BY <1>5, <2>4, Zenon DEF Step
    <3>3. Options.want[w] = None
      BY <1>1, <1>5, Zenon DEF CommonSpec
    <3> HIDE DEF v
    <3>4. r \in RunType /\ Good(w, Options, r)
      BY <2>2, <3>1, <3>3, LoadIsGood, Zenon
    <3> HIDE DEF r
    <3>5. GoodStep(w)
      BY <3>2, <3>4, Zenon DEF GoodStep
    <3> QED
      BY <2>2, <3>5, Zenon
  <2> QED
    BY <2>3, <2>4
<1>6. CASE CommonSpec(w) = None /\ "channel" \in Faults /\ Fail(w) /\ UNCHANGED clone
  BY <1>2, <1>3, <1>6, Zenon
<1> QED
  BY <1>4, <1>5, <1>6, Zenon DEF LoadChannel

LEMMA LoadManifestStep ==
  ASSUME PipelineInv, NEW w \in Worker, LoadManifest(w)
  PROVE  GoodStep(w) /\ (clone' # None => \E n \in 0..Len(channel) : clone' = SubSeq(channel, 1, n))
<1>1. PipelineTypes /\ (\A v : FilesIn(Options, v) = Files(v)) /\ Good(w, Options, run[w])
  BY OptionsFields, Zenon DEF PipelineInv
<1>2. (clone # None => \E n \in 0..Len(channel) : clone = SubSeq(channel, 1, n)) /\ run[w] \in RunType /\ run[w].pc = "load"
  BY <1>1, ZenonT(60) DEF PipelineTypes, LoadManifest
<1>3. ASSUME Fail(w) PROVE GoodStep(w)
  BY <1>3, IdleIsGood, Zenon DEF Fail, Step, GoodStep
<1> DEFINE v == run[w].id
           found == v \in DOMAIN Package /\ Files(v) \subseteq FSFiles(v)
           r == [run[w] EXCEPT !.pc = "files", !.todo = Files(v)]
<1>4. CASE /\ FSManifest \/ HTTPManifest \/ GitManifest
           /\ Step(w, IF found THEN r ELSE Idle)
  <2>1. PICK seen : (seen = channel /\ UNCHANGED clone) \/ CloneURL(seen)
    BY <1>4, Zenon DEF FSManifest, HTTPManifest, GitManifest, ReadFile, FetchURL
  <2>2. clone' # None => \E n \in 0..Len(channel) : clone' = SubSeq(channel, 1, n)
    BY <1>1, <2>1, SeenIsPast
  <2>3. CASE ~found
    BY <1>3, <1>4, <2>2, <2>3, Zenon DEF Fail
  <2>4. CASE found
    <3>1. r \in RunType /\ Good(w, Options, r)
      <4>1. r = [run[w] EXCEPT !.pc = "files", !.todo = FilesIn(Options, run[w].id)]
        BY <1>1, Zenon
      <4>2. run[w].id \in DOMAIN Package /\ FilesIn(Options, run[w].id) \subseteq DOMAIN Package[run[w].id]
        BY <1>1, <2>4, Zenon DEF FSFiles
      <4> HIDE DEF r
      <4> QED
        BY <1>1, <1>2, <4>1, <4>2, FilesIsGood, Zenon
    <3>2. run' = [run EXCEPT ![w] = r]
      BY <1>4, <2>4, Zenon DEF Step
    <3> HIDE DEF r
    <3> QED
      BY <2>2, <3>1, <3>2, Zenon DEF GoodStep
  <2> QED
    BY <2>3, <2>4
<1>5. CASE "manifest" \in Faults /\ Fail(w) /\ UNCHANGED clone
  BY <1>2, <1>3, <1>5, Zenon
<1> QED
  BY <1>4, <1>5, Zenon DEF LoadManifest

LEMMA ParseFileStep ==
  ASSUME PipelineInv, NEW w \in Worker, NEW f \in File, ParseFile(w, f)
  PROVE  GoodStep(w)
<1> DEFINE objs == ParseObjects(Package[run[w].id][f])
           rest == [run[w] EXCEPT !.todo = run[w].todo \ {f}]
<1>1. Options.kustomize = kustomize /\ Good(w, Options, run[w]) /\ run[w] \in RunType
  BY OptionsFields, Zenon DEF PipelineInv, PipelineTypes
<1>2. run[w].pc = "files" /\ f \in run[w].todo
  BY Zenon DEF ParseFile
<1>3. rest.items = run[w].items
  BY <1>1, Zenon DEF RunType
<1>4. CASE kustomize /\ Step(w, [rest EXCEPT !.items = rest.items \o objs])
  <2> DEFINE r == [run[w] EXCEPT !.todo = run[w].todo \ {f}, !.items = run[w].items \o objs]
  <2>1. [rest EXCEPT !.items = rest.items \o objs] = r
    BY <1>3
  <2>2. r \in RunType /\ Good(w, Options, r)
    BY <1>1, <1>2, <1>4, ParsedIsGood, Zenon
  <2> HIDE DEF r
  <2> QED
    BY <1>4, <2>1, <2>2, Zenon DEF Step, GoodStep
<1>5. CASE ~kustomize /\ Step(w, [rest EXCEPT !.pc = "append", !.batch = objs])
  <2> DEFINE r == [run[w] EXCEPT !.todo = run[w].todo \ {f}, !.pc = "append", !.batch = objs]
  <2>1. [rest EXCEPT !.pc = "append", !.batch = objs] = r
    OBVIOUS
  <2>2. r \in RunType /\ Good(w, Options, r)
    BY <1>1, <1>2, <1>5, BatchIsGood, Zenon
  <2> HIDE DEF r
  <2> QED
    BY <1>5, <2>1, <2>2, Zenon DEF Step, GoodStep
<1>6. CASE "parse" \in Faults /\ Fail(w)
  BY <1>6, IdleIsGood, Zenon DEF Fail, Step, GoodStep
<1> QED
  BY <1>4, <1>5, <1>6, Zenon DEF ParseFile

LEMMA EndFilesStep ==
  ASSUME PipelineInv, NEW w \in Worker, EndFiles(w)
  PROVE  GoodStep(w)
<1>1. Options.kustomize = kustomize /\ Good(w, Options, run[w]) /\ run[w] \in RunType
  BY OptionsFields, Zenon DEF PipelineInv, PipelineTypes
<1>2. run[w].pc = "files" /\ run[w].todo = {}
  BY Zenon DEF EndFiles
<1>3. CASE kustomize /\ Step(w, [run[w] EXCEPT !.pc = "append", !.items = <<>>, !.batch = run[w].items])
  <2> DEFINE r == [run[w] EXCEPT !.pc = "append", !.items = <<>>, !.batch = run[w].items]
  <2>1. r \in RunType /\ Good(w, Options, r)
    BY <1>1, <1>2, <1>3, EndIsGood, Zenon
  <2> HIDE DEF r
  <2>2. run' = [run EXCEPT ![w] = r]
    BY <1>3 DEF r, Step
  <2> QED
    BY <2>1, <2>2, Zenon DEF GoodStep
<1>4. CASE ~kustomize /\ Step(w, [run[w] EXCEPT !.pc = "sort"])
  <2> DEFINE r == [run[w] EXCEPT !.pc = "sort"]
  <2>1. r \in RunType /\ Good(w, Options, r)
    BY <1>1, <1>2, <1>4, EndIsGood, Zenon
  <2> HIDE DEF r
  <2>2. run' = [run EXCEPT ![w] = r]
    BY <1>4 DEF r, Step
  <2> QED
    BY <2>1, <2>2, Zenon DEF GoodStep
<1>5. CASE Fail(w)
  BY <1>5, IdleIsGood, Zenon DEF Fail, Step, GoodStep
<1> QED
  BY <1>3, <1>4, <1>5, Zenon DEF EndFiles

LEMMA AppendLabelsStep ==
  ASSUME PipelineInv, NEW w \in Worker, AppendLabels(w)
  PROVE  GoodStep(w) /\ slot' \in Worker \cup {None}
<1>1. Good(w, Options, run[w]) /\ run[w] \in RunType /\ slot \in Worker \cup {None}
  BY Zenon DEF PipelineInv, PipelineTypes
<1> DEFINE r == [run[w] EXCEPT !.pc = "transform"]
<1>2. r \in RunType /\ Good(w, Options, r)
  BY <1>1, AppendIsGood DEF AppendLabels
<1>3. run' = [run EXCEPT ![w] = r]
  BY Zenon DEF AppendLabels, Step
<1> HIDE DEF r
<1>4. GoodStep(w)
  BY <1>2, <1>3, Zenon DEF GoodStep
<1>5. slot' \in Worker \cup {None}
  BY <1>1, Zenon DEF AppendLabels
<1> QED
  BY <1>4, <1>5

LEMMA TransformStep ==
  ASSUME PipelineInv, NEW w \in Worker, Transform(w)
  PROVE  GoodStep(w)
<1> DEFINE label == IF slot = None THEN w ELSE slot
           b     == run[w].batch
           old   == [i \in DOMAIN b |->
                       LET x == TransformApplication(ApplyPatches(ApplyImageRegistry(b[i])), b)
                       IN  AddLabels(TransformApplicationFromStatus(w, x), label)]
           new   == [i \in DOMAIN b |-> Transformed(w, b[i], b, label)]
           can   == CanTransformApplication(b) /\ \A i \in DOMAIN b : HasContainers(b[i])
           r     == [run[w] EXCEPT !.batch = <<>>, !.items = run[w].items \o new,
                                   !.pc = IF kustomize THEN "sort" ELSE "files"]
<1>1. PipelineTypes /\ Good(w, Options, run[w]) /\ run[w].pc = "transform" /\ slot \in Worker \cup {None}
  BY Zenon DEF PipelineInv, PipelineTypes, Transform
<1>2. old = new
  BY Zenon DEF Transformed
<1>3. label \in Worker
  BY <1>1, Zenon
<1>4. CASE can /\ Step(w, [run[w] EXCEPT !.batch = <<>>, !.items = run[w].items \o old,
                                         !.pc = IF kustomize THEN "sort" ELSE "files"])
  <2>1. r \in RunType /\ Good(w, Options, r)
    <3> HIDE DEF label
    <3> QED
      BY <1>1, <1>3, <1>4, TransformIsGood, Zenon
  <2>2. run' = [run EXCEPT ![w] = r]
    <3> HIDE DEF old, new
    <3> QED
      BY <1>2, <1>4, ZenonT(60) DEF Step
  <2> HIDE DEF r
  <2> QED
    BY <2>1, <2>2, Zenon DEF GoodStep
<1>5. CASE Fail(w)
  BY <1>5, IdleIsGood, Zenon DEF Fail, Step, GoodStep
<1> QED
  BY <1>4, <1>5, Zenon DEF Transform

LEMMA FinishStep ==
  ASSUME PipelineInv, NEW w \in Worker, Finish(w)
  PROVE  GoodStep(w)
<1>1. Good(w, Options, run[w]) /\ run[w] \in RunType /\ run[w].pc = "sort"
  BY Zenon DEF PipelineInv, PipelineTypes, Finish
<1>2. PICK p \in Sorted(run[w].items), unmapped \in (IF "mapping" \in Faults THEN {{}, Object} ELSE {{}}) :
        LET s == FlattenListObjects(p)
        IN  Step(w, [run[w] EXCEPT !.pc = "done",
               !.items = [i \in DOMAIN s |-> Finished(w, s[i], s[i].obj \notin unmapped)]])
  BY Zenon DEF Finish
<1>3. run' = [run EXCEPT ![w] = FinishedRun(w, run[w], p, unmapped)]
  BY <1>2, Zenon DEF Step, FinishedRun
<1>4. FinishedRun(w, run[w], p, unmapped) \in RunType /\ Good(w, Options, FinishedRun(w, run[w], p, unmapped))
  BY <1>1, FinishIsGood
<1> QED
  BY <1>3, <1>4, Zenon DEF GoodStep

\* The other workers' builds are as they were.
LEMMA GoodStepKeepsAll ==
  ASSUME PipelineInv, NEW w \in Worker, GoodStep(w), UNCHANGED options
  PROVE  run' \in [Worker -> RunType] /\ \A v \in Worker : Good(v, Options, run[v])'
<1>1. PICK r \in RunType : Good(w, Options, r) /\ run' = [run EXCEPT ![w] = r]
  BY Zenon DEF GoodStep
<1>2. Options' = Options
  BY Zenon DEF Options, options
<1>3. run \in [Worker -> RunType] /\ \A v \in Worker : Good(v, Options, run[v])
  BY Zenon DEF PipelineInv, PipelineTypes
<1>4. run' \in [Worker -> RunType]
  BY <1>1, <1>3, Zenon
<1>5. ASSUME NEW v \in Worker PROVE Good(v, Options', run'[v])
  <2>1. run'[v] = IF v = w THEN r ELSE run[v]
    BY <1>1, <1>3, Zenon
  <2> QED
    BY <1>1, <1>2, <1>3, <2>1, Zenon
<1> QED
  BY <1>4, <1>5, Zenon

LEMMA NextPipeline == PipelineInv /\ [Next]_vars => PipelineInv'
<1> SUFFICES ASSUME PipelineInv, [Next]_vars PROVE PipelineInv'
  OBVIOUS
<1> DEFINE CloneOK == clone # None => \E n \in 0..Len(channel) : clone = SubSeq(channel, 1, n)
           SlotOK  == slot \in Worker \cup {None}
<1>1. CloneOK /\ SlotOK /\ channel \in Seq(Entry) /\ PipelineTypes
  BY Zenon DEF PipelineInv, PipelineTypes
<1>2. ASSUME NEW w \in Worker, GoodStep(w), UNCHANGED <<options, channel>>, CloneOK', SlotOK' PROVE PipelineInv'
  <2>1. run' \in [Worker -> RunType] /\ \A v \in Worker : Good(v, Options, run[v])'
    BY <1>2, GoodStepKeepsAll
  <2>2. PipelineTypes'
    BY <1>1, <1>2, <2>1, Zenon DEF PipelineTypes, options
  <2> QED
    BY <2>1, <2>2, Zenon DEF PipelineInv
<1>3. ASSUME NEW w \in Worker, GoodStep(w), UNCHANGED <<options, channel, clone, slot>> PROVE PipelineInv'
  <2>1. CloneOK' /\ SlotOK'
    BY <1>1, <1>3, Zenon
  <2> QED
    BY <1>2, <1>3, <2>1, Zenon
<1>4. ASSUME NEW w \in Worker, LoadChannel(w) PROVE PipelineInv'
  <2>1. GoodStep(w) /\ CloneOK'
    <3>1. GoodStep(w) /\ (clone' # None => \E n \in 0..Len(channel) : clone' = SubSeq(channel, 1, n))
      BY <1>4, LoadChannelStep
    <3> QED
      BY <1>4, <3>1, Zenon DEF LoadChannel
  <2> QED
    BY <1>1, <1>2, <1>4, <2>1, Zenon DEF LoadChannel
<1>5. ASSUME NEW w \in Worker, LoadManifest(w) PROVE PipelineInv'
  <2>1. GoodStep(w) /\ CloneOK'
    <3>1. GoodStep(w) /\ (clone' # None => \E n \in 0..Len(channel) : clone' = SubSeq(channel, 1, n))
      BY <1>5, LoadManifestStep
    <3> QED
      BY <1>5, <3>1, Zenon DEF LoadManifest
  <2> QED
    BY <1>1, <1>2, <1>5, <2>1, Zenon DEF LoadManifest
<1>6. ASSUME NEW w \in Worker, NEW f \in File, ParseFile(w, f) PROVE PipelineInv'
  BY <1>3, <1>6, ParseFileStep, Zenon DEF ParseFile
<1>7. ASSUME NEW w \in Worker, EndFiles(w) PROVE PipelineInv'
  BY <1>3, <1>7, EndFilesStep, Zenon DEF EndFiles
<1>8. ASSUME NEW w \in Worker, AppendLabels(w) PROVE PipelineInv'
  <2>1. GoodStep(w) /\ slot' \in Worker \cup {None}
    BY <1>8, AppendLabelsStep
  <2>2. UNCHANGED <<options, channel, clone>>
    BY <1>8, Zenon DEF AppendLabels
  <2>3. CloneOK' /\ SlotOK'
    BY <1>1, <2>1, <2>2, Zenon
  <2> QED
    BY <1>2, <2>1, <2>2, <2>3, Zenon
<1>9. ASSUME NEW w \in Worker, Transform(w) PROVE PipelineInv'
  BY <1>3, <1>9, TransformStep, Zenon DEF Transform
<1>10. ASSUME NEW w \in Worker, Finish(w) PROVE PipelineInv'
  BY <1>3, <1>10, FinishStep, Zenon DEF Finish
<1>11. ASSUME NEW w \in Worker, Again(w) PROVE PipelineInv'
  <2>1. GoodStep(w)
    BY <1>11, IdleIsGood, Zenon DEF Again, Step, GoodStep
  <2> QED
    BY <1>3, <1>11, <2>1, Zenon DEF Again
<1>12. ASSUME NEW e \in Entry, Publish(e) PROVE PipelineInv'
  <2>1. channel' = Append(channel, e) /\ UNCHANGED <<options, clone, slot, run>>
    BY <1>12, Zenon DEF Publish
  <2>2. channel' \in Seq(Entry) /\ Len(channel') = Len(channel) + 1
    BY <1>1, <2>1
  <2>3. \A n \in 0..Len(channel) : n \in 0..Len(channel') /\ SubSeq(channel, 1, n) = SubSeq(channel', 1, n)
    BY <1>1, <2>1, <2>2
  <2>4. CloneOK'
    BY <1>1, <2>1, <2>3, Zenon
  <2>5. PipelineTypes'
    BY <1>1, <2>1, <2>2, <2>4, Zenon DEF PipelineTypes, options
  <2>6. Options' = Options
    BY <2>1, Zenon DEF Options, options
  <2> QED
    BY <2>1, <2>5, <2>6, Zenon DEF PipelineInv
<1>13. CASE UNCHANGED vars
  <2>1. UNCHANGED <<repo, kustomize, managed, preserve, want, channel, clone, slot, run>>
    BY <1>13, Zenon DEF vars
  <2>2. PipelineTypes'
    BY <1>1, <2>1, Zenon DEF PipelineTypes
  <2>3. Options' = Options
    BY <2>1, Zenon DEF Options
  <2> QED
    BY <2>1, <2>2, <2>3, Zenon DEF PipelineInv
<1> QED
  BY <1>4, <1>5, <1>6, <1>7, <1>8, <1>9, <1>10, <1>11, <1>12, <1>13, ZenonT(60) DEF Next

LEMMA PipelineInvariant == Spec => []PipelineInv
  BY InitPipeline, NextPipeline, PTL DEF Spec

LEMMA DoneIsHeld ==
  ASSUME PipelineInv, NEW w \in Worker, Done(w)
  PROVE  /\ run[w].items \in Seq(Item) /\ Resolved(w, Options, run[w])
         /\ run[w].id \in DOMAIN Package /\ Files(run[w].id) \subseteq DOMAIN Package[run[w].id]
         /\ Enum(run[w].items, DocsOf(run[w].id, Files(run[w].id)))
         /\ AllMade(w, Options, run[w].items) /\ (managed => AppsMatch(run[w].items))
         /\ OwnerSet(w, run[w].items) /\ InOrder(run[w].items)
<1> DEFINE r == run[w]
           o == Options
<1>1. r \in RunType /\ Good(w, o, r)
  BY Zenon DEF PipelineInv, PipelineTypes
<1>2. r.items \in Seq(Item)
  BY <1>1, Zenon DEF RunType
<1>3. FilesIn(o, r.id) = Files(r.id) /\ o.managed = managed
  BY OptionsFields, Zenon
<1>4. r.pc = "done" /\ r.pc \in Late
  BY Zenon DEF Done, Late
<1> HIDE DEF r, o
<1>5. Resolved(w, o, r) /\ HasPackage(o, r) /\ \E B \in SUBSET FilesIn(o, r.id) : Holds(w, o, r, B)
  BY <1>1, <1>4, GoodIsHeld
<1>6. Holds(w, o, r, {}) /\ r.todo = {}
  BY <1>4, <1>5, Zenon DEF Holds
<1>7. (FilesIn(o, r.id) \ {}) \ {} = Files(r.id)
  BY <1>3, Zenon
<1>8. Enum(r.items, DocsOf(r.id, Files(r.id))) /\ OwnerSet(w, r.items) /\ InOrder(r.items)
      /\ AllMade(w, o, r.items) /\ (managed => AppsMatch(r.items))
  BY <1>3, <1>4, <1>6, <1>7, Zenon DEF Holds
<1> QED
  BY <1>2, <1>3, <1>5, <1>8, Zenon DEF r, o, HasPackage

(***************************************************************************)
(* The order of the objects.                                               *)
(***************************************************************************)
LEMMA ScoreValues ==
  ASSUME NEW kind
  PROVE  \/ kind = "CustomResourceDefinition" /\ DefaultObjectOrder(kind) = -1000
         \/ kind = "Namespace" /\ DefaultObjectOrder(kind) = 0
         \/ kind = "Service" /\ DefaultObjectOrder(kind) = 10000
         \/ /\ kind # "CustomResourceDefinition" /\ kind # "Namespace" /\ kind # "Service"
            /\ DefaultObjectOrder(kind) \in {1, 2, 100, 1001, 1000}
<1>1. kind = "CustomResourceDefinition" => DefaultObjectOrder(kind) = -1000
  BY DEF DefaultObjectOrder
<1>2. kind = "Namespace" => DefaultObjectOrder(kind) = 0
  BY DEF DefaultObjectOrder
<1>3. kind = "Service" => DefaultObjectOrder(kind) = 10000
  BY DEF DefaultObjectOrder
<1>4. kind # "CustomResourceDefinition" /\ kind # "Namespace" /\ kind # "Service"
        => DefaultObjectOrder(kind) \in {1, 2, 100, 1001, 1000}
  BY DEF DefaultObjectOrder
<1> QED
  BY <1>1, <1>2, <1>3, <1>4

\* the three parts of a key
LEMMA KeyTypes ==
  ASSUME NEW x \in Item
  PROVE  \E a \in Int, b \in Nat, c \in Nat : a = DefaultObjectOrder(Doc[x.obj].kind) /\ Key(x) = <<a, b, c>>
<1>1. x.obj \in Object
  BY ItemTypes, Zenon
<1>2. KindRank[Doc[x.obj].kind] \in Nat /\ Doc[x.obj].name \in Nat
  BY <1>1, PipelineDocs, DocTypes, Zenon
<1>3. DefaultObjectOrder(Doc[x.obj].kind) \in Int
  <2>1. DefaultObjectOrder(Doc[x.obj].kind) \in {-1000, 0, 10000, 1, 2, 100, 1001, 1000}
    BY ScoreValues
  <2> QED
    BY <2>1
<1> QED
  BY <1>2, <1>3, Zenon DEF Key

\* NotAfter orders the keys.
LEMMA NotAfterIsOrder ==
  ASSUME NEW x \in Item, NEW y \in Item, NEW z \in Item
  PROVE  /\ NotAfter(x, y) => DefaultObjectOrder(Doc[x.obj].kind) <= DefaultObjectOrder(Doc[y.obj].kind)
         /\ NotAfter(x, y) /\ NotAfter(y, x) => Key(x) = Key(y)
         /\ NotAfter(x, y) /\ NotAfter(y, z) => NotAfter(x, z)
<1>1. PICK a \in Int, b \in Nat, c \in Nat : a = DefaultObjectOrder(Doc[x.obj].kind) /\ Key(x) = <<a, b, c>>
  BY KeyTypes
<1>2. PICK d \in Int, e \in Nat, f \in Nat : d = DefaultObjectOrder(Doc[y.obj].kind) /\ Key(y) = <<d, e, f>>
  BY KeyTypes
<1>3. PICK g \in Int, h \in Nat, k \in Nat : g = DefaultObjectOrder(Doc[z.obj].kind) /\ Key(z) = <<g, h, k>>
  BY KeyTypes
<1> DEFINE Lex(p, q, r, s, t, u) == (p = s /\ q = t /\ r = u) \/ p < s \/ (p = s /\ q < t) \/ (p = s /\ q = t /\ r < u)
<1>4. NotAfter(x, y) <=> Lex(a, b, c, d, e, f)
  BY <1>1, <1>2 DEF NotAfter
<1>5. NotAfter(y, x) <=> Lex(d, e, f, a, b, c)
  BY <1>1, <1>2 DEF NotAfter
<1>6. NotAfter(y, z) <=> Lex(d, e, f, g, h, k)
  BY <1>2, <1>3 DEF NotAfter
<1>7. NotAfter(x, z) <=> Lex(a, b, c, g, h, k)
  BY <1>1, <1>3 DEF NotAfter
<1>8. Lex(a, b, c, d, e, f) => a <= d
  OBVIOUS
<1>9. Lex(a, b, c, d, e, f) /\ Lex(d, e, f, a, b, c) => a = d /\ b = e /\ c = f
  OBVIOUS
<1>10. Lex(a, b, c, d, e, f) /\ Lex(d, e, f, g, h, k) => Lex(a, b, c, g, h, k)
  OBVIOUS
<1> HIDE DEF Lex
<1> QED
  BY <1>1, <1>2, <1>4, <1>5, <1>6, <1>7, <1>8, <1>9, <1>10, ZenonT(60)

\* i places do not fit in fewer
LEMMA NoSqueeze ==
  ASSUME NEW i \in Nat \ {0}, NEW g \in [1..i -> 1..(i - 1)], \A a, b \in 1..i : g[a] = g[b] => a = b
  PROVE  FALSE
<1>1. IsFiniteSet(1..i) /\ Cardinality(1..i) = i
  BY FS_Interval
<1>2. IsFiniteSet(1..(i - 1)) /\ Cardinality(1..(i - 1)) < i
  BY FS_Interval, SMTT(60)
<1> DEFINE S == 1..i
           T == 1..(i - 1)
<1>3. IsFiniteSet(S) /\ IsFiniteSet(T) /\ Cardinality(T) < Cardinality(S) /\ g \in [S -> T]
  BY <1>1, <1>2
<1> HIDE DEF S, T
<1>4. \E x, y \in S : x # y /\ g[x] = g[y]
  BY <1>3, FS_PigeonHole, SMTT(60)
<1> QED
  BY <1>4, Zenon DEF S

\* q holds the document of each place of s
LEMMA SamePlaces ==
  ASSUME NEW s, NEW q, NEW docs, Enum(s, docs), Enum(q, docs), NEW k \in DOMAIN s
  PROVE  \E j \in DOMAIN q : q[j].obj = s[k].obj
<1>1. s[k].obj \in {q[j].obj : j \in DOMAIN q}
  BY Zenon DEF Enum
<1> QED
  BY <1>1, Zenon

LEMMA SameLength ==
  ASSUME NEW s \in Seq(Item), NEW q \in Seq(Item), NEW docs, Enum(s, docs), Enum(q, docs), NEW i \in DOMAIN s
  PROVE  i \in DOMAIN q
<1> SUFFICES ASSUME i \notin DOMAIN q PROVE FALSE
  OBVIOUS
<1>1. i \in Nat \ {0} /\ DOMAIN q \subseteq 1..(i - 1) /\ 1..i \subseteq DOMAIN s
  OBVIOUS
<1> DEFINE g == [k \in 1..i |-> CHOOSE j \in DOMAIN q : q[j].obj = s[k].obj]
<1>2. ASSUME NEW k \in 1..i PROVE g[k] \in DOMAIN q /\ q[g[k]].obj = s[k].obj
  <2>1. \E j \in DOMAIN q : q[j].obj = s[k].obj
    BY <1>1, SamePlaces, Zenon
  <2> QED
    BY <2>1, Zenon
<1>3. g \in [1..i -> 1..(i - 1)]
  <2>1. \A k \in 1..i : g[k] \in 1..(i - 1)
    BY <1>1, <1>2, Zenon
  <2>2. g = [k \in 1..i |-> g[k]]
    OBVIOUS
  <2> HIDE DEF g
  <2> QED
    BY <2>1, <2>2, Zenon
<1> HIDE DEF g
<1>4. ASSUME NEW a \in 1..i, NEW b \in 1..i, g[a] = g[b] PROVE a = b
  <2>1. a \in DOMAIN s /\ b \in DOMAIN s /\ s[a].obj = s[b].obj
    BY <1>1, <1>2, <1>4, Zenon
  <2> QED
    BY <2>1, Zenon DEF Enum
<1> QED
  BY <1>1, <1>3, <1>4, NoSqueeze, Zenon

\* Of two sequences of the same documents in order, neither is ahead of the other anywhere:
\* i documents of the one would have to fit in the i - 1 first places of the other.
LEMMA NoneAhead ==
  ASSUME NEW s \in Seq(Item), NEW q \in Seq(Item), NEW docs, Enum(s, docs), Enum(q, docs), InOrder(s), InOrder(q),
         NEW i \in DOMAIN s, i \in DOMAIN q
  PROVE  NotAfter(s[i], q[i])
<1> SUFFICES ASSUME ~NotAfter(s[i], q[i]) PROVE FALSE
  OBVIOUS
<1>1. i \in Nat \ {0} /\ 1..i \subseteq DOMAIN q /\ DOMAIN s \subseteq Nat \ {0}
  OBVIOUS
<1>2. (\A k \in DOMAIN s : s[k] \in Item) /\ (\A k \in DOMAIN q : q[k] \in Item)
  OBVIOUS
<1> DEFINE g == [k \in 1..i |-> CHOOSE j \in DOMAIN s : s[j].obj = q[k].obj]
<1>3. ASSUME NEW k \in 1..i PROVE g[k] \in DOMAIN s /\ s[g[k]].obj = q[k].obj
  <2>1. \E j \in DOMAIN s : s[j].obj = q[k].obj
    BY <1>1, SamePlaces, Zenon
  <2> QED
    BY <2>1, Zenon
<1>4. g = [k \in 1..i |-> g[k]]
  OBVIOUS
<1> HIDE DEF g
<1>5. ASSUME NEW k \in 1..i PROVE g[k] \in 1..(i - 1)
  <2>1. g[k] \in DOMAIN s /\ s[g[k]].obj = q[k].obj /\ k \in DOMAIN q
    BY <1>1, <1>3, Zenon
  <2>2. Key(s[g[k]]) = Key(q[k])
    BY <2>1, Zenon DEF Key
  <2>3. SUFFICES ASSUME i <= g[k] PROVE FALSE
    BY <1>1, <2>1
  <2>4. NotAfter(s[i], s[g[k]])
    <3>1. CASE i = g[k]
      BY <3>1, Zenon DEF NotAfter
    <3>2. CASE i < g[k]
      BY <2>1, <3>2, Zenon DEF InOrder
    <3> QED
      BY <1>1, <2>1, <2>3, <3>1, <3>2, SMTT(60)
  <2>5. NotAfter(q[k], q[i])
    <3>1. CASE k = i
      BY <3>1, Zenon DEF NotAfter
    <3>2. CASE k < i
      BY <2>1, <3>2, Zenon DEF InOrder
    <3> QED
      BY <1>1, <3>1, <3>2
  <2>6. NotAfter(s[g[k]], q[i])
    BY <2>2, <2>5, Zenon DEF NotAfter
  <2>7. NotAfter(s[i], q[i])
    BY <1>2, <2>1, <2>4, <2>6, NotAfterIsOrder, ZenonT(60)
  <2> QED
    BY <2>7
<1>6. g \in [1..i -> 1..(i - 1)]
  BY <1>4, <1>5, Zenon
<1>7. ASSUME NEW a \in 1..i, NEW b \in 1..i, g[a] = g[b] PROVE a = b
  <2>1. a \in DOMAIN q /\ b \in DOMAIN q /\ q[a].obj = q[b].obj
    BY <1>1, <1>3, <1>7, Zenon
  <2> QED
    BY <2>1, Zenon DEF Enum
<1> QED
  BY <1>1, <1>6, <1>7, NoSqueeze, ZenonT(60)

(***************************************************************************)
(* The theorems.                                                           *)
(***************************************************************************)
\* Every variable has its type, a clone is a past state of the repository, and no file is
\* left out when the objects are sorted.
THEOREM PipelineTypeCorrect == Spec => []TypeOK
<1>1. PipelineInv => TypeOK
  <2> SUFFICES ASSUME PipelineInv PROVE TypeOK
    OBVIOUS
  <2>1. PipelineTypes
    BY DEF PipelineInv
  <2>2. ASSUME NEW w \in Worker
        PROVE  /\ run[w].pc \in {"idle", "load", "files", "append", "transform", "sort", "done"}
               /\ run[w].id \in Version \cup {None} /\ run[w].todo \subseteq File
               /\ run[w].items \in Seq(Item) /\ run[w].batch \in Seq(Item)
    BY <2>1, Zenon DEF PipelineTypes, RunType
  <2>3. ASSUME NEW w \in Worker, run[w].pc \in {"sort", "done"} PROVE run[w].todo = {}
    <3>1. Good(w, Options, run[w]) /\ run[w].pc \in Late
      BY <2>3, Zenon DEF PipelineInv, Late
    <3>2. \E B \in SUBSET FilesIn(Options, run[w].id) : Holds(w, Options, run[w], B)
      BY <3>1, GoodIsHeld
    <3> QED
      BY <2>3, <3>2, Zenon DEF Holds
  <2> QED
    BY <2>1, <2>2, <2>3, Zenon DEF PipelineTypes, TypeOK
<1> QED
  BY <1>1, PipelineInvariant, PTL

\* BuildDeploymentObjectsWithFs gives each document of the resolved version once, transformed
\* once, for every package, repository and set of options.
THEOREM EachBuiltOnce == Spec => []BuiltOnce
<1>1. PipelineInv => BuiltOnce
  <2> SUFFICES ASSUME PipelineInv, NEW w \in Worker, Done(w)
               PROVE  /\ Len(run[w].items) = Cardinality(Items(w))
                      /\ {x.obj : x \in Items(w)} = UNION {Range(Package[run[w].id][f]) : f \in Files(run[w].id)}
                      /\ \A x \in Items(w) :
                           /\ x.image = IF Doc[x.obj].kind \in PodKinds THEN PrivateImage(Doc[x.obj].image)
                                                                        ELSE Doc[x.obj].image
                           /\ x.patched <=> x.obj \in Patched
    BY Zenon DEF BuiltOnce
  <2> DEFINE s == run[w].items
             docs == DocsOf(run[w].id, Files(run[w].id))
  <2>1. s \in Seq(Item) /\ Enum(s, docs) /\ AllMade(w, Options, s)
    BY DoneIsHeld, Zenon
  <2>2. Items(w) = Range(s)
    BY Zenon DEF Items
  <2> HIDE DEF s
  <2>3. Len(s) = Cardinality(Range(s))
    <3>1. DOMAIN s = 1..Len(s) /\ Len(s) \in Nat /\ s \in [1..Len(s) -> Item]
      BY <2>1
    <3>2. \A a, b \in 1..Len(s) : s[a] = s[b] => a = b
      BY <2>1, <3>1, Zenon DEF Enum
    <3>3. Range(s) = {s[a] : a \in 1..Len(s)}
      BY <3>1, Zenon DEF Range
    <3>4. s \in [1..Len(s) -> Range(s)]
      BY <3>1, <3>3
    <3>5. s \in Surjection(1..Len(s), Range(s))
      BY <3>3, <3>4, Zenon DEF Surjection
    <3>6. s \in Injection(1..Len(s), Range(s))
      BY <3>2, <3>4, Zenon DEF Injection, IsInjective
    <3>7. IsFiniteSet(1..Len(s)) /\ Cardinality(1..Len(s)) = Len(s)
      BY <3>1, FS_Interval, SMTT(60)
    <3> QED
      BY <3>5, <3>6, <3>7, FS_Surjection
  <2>4. {x.obj : x \in Range(s)} = docs
    <3>1. {x.obj : x \in Range(s)} = {s[i].obj : i \in DOMAIN s}
      BY Zenon DEF Range
    <3> QED
      BY <2>1, <3>1, Zenon DEF Enum
  <2>5. ASSUME NEW x \in Range(s) PROVE Made(w, Options, x)
    BY <2>1, Zenon DEF Range, AllMade
  <2> QED
    BY <2>2, <2>3, <2>4, <2>5, Zenon DEF s, DocsOf, Made
<1> QED
  BY <1>1, PipelineInvariant, PTL

\* ObjectOrder: two builds of a version apply its objects in the same order, as far as the
\* comparator tells them apart, although the files come in any order and the sort is not stable.
THEOREM OrderIsSame == Spec => []SameOrder
<1>1. PipelineInv => SameOrder
  <2> SUFFICES ASSUME PipelineInv, NEW w \in Worker, NEW v \in Worker, Done(w), Done(v), run[w].id = run[v].id,
                      NEW i \in DOMAIN run[w].items
               PROVE  Key(run[w].items[i]) = Key(run[v].items[i])
    BY Zenon DEF SameOrder
  <2> DEFINE s == run[w].items
             q == run[v].items
             docs == DocsOf(run[w].id, Files(run[w].id))
  <2>1. s \in Seq(Item) /\ Enum(s, docs) /\ InOrder(s)
    BY DoneIsHeld, Zenon
  <2>2. q \in Seq(Item) /\ Enum(q, docs) /\ InOrder(q)
    BY DoneIsHeld, Zenon
  <2> HIDE DEF s, q, docs
  <2>3. i \in DOMAIN s
    BY DEF s
  <2>4. i \in DOMAIN q
    BY <2>1, <2>2, <2>3, SameLength, SMTT(60)
  <2>5. NotAfter(s[i], q[i]) /\ NotAfter(q[i], s[i])
    BY <2>1, <2>2, <2>3, <2>4, NoneAhead, SMTT(60)
  <2>6. s[i] \in Item /\ q[i] \in Item
    BY <2>1, <2>2, <2>3, <2>4
  <2>7. Key(s[i]) = Key(q[i])
    BY <2>5, <2>6, NotAfterIsOrder, ZenonT(60)
  <2> QED
    BY <2>7, Zenon DEF s, q
<1> QED
  BY <1>1, PipelineInvariant, PTL

\* DefaultObjectOrder: definitions first, namespaces before what lives in them, services last.
THEOREM OrderIsSafe == Spec => []SafeOrder
<1>1. PipelineInv => SafeOrder
  <2> SUFFICES ASSUME PipelineInv, NEW w \in Worker, Done(w),
                      NEW i \in DOMAIN run[w].items, NEW j \in DOMAIN run[w].items, i < j
               PROVE  LET k == Doc[run[w].items[i].obj].kind
                          l == Doc[run[w].items[j].obj].kind
                      IN  /\ l = "CustomResourceDefinition" => k = l
                          /\ l = "Namespace" => k \in {l, "CustomResourceDefinition"}
                          /\ k = "Service" => k = l
    BY Zenon DEF SafeOrder
  <2> DEFINE s == run[w].items
             k == Doc[s[i].obj].kind
             l == Doc[s[j].obj].kind
  <2>1. s \in Seq(Item) /\ InOrder(s)
    BY DoneIsHeld, Zenon
  <2>2. s[i] \in Item /\ s[j] \in Item
    BY <2>1
  <2>3. NotAfter(s[i], s[j])
    BY <2>1, Zenon DEF InOrder
  <2>4. DefaultObjectOrder(k) <= DefaultObjectOrder(l)
    BY <2>2, <2>3, NotAfterIsOrder, Zenon
  <2> HIDE DEF k, l
  <2>5. /\ l = "CustomResourceDefinition" => k = "CustomResourceDefinition"
        /\ l = "Namespace" => k = "Namespace" \/ k = "CustomResourceDefinition"
        /\ k = "Service" => l = "Service"
    BY <2>4, ScoreValues
  <2> QED
    BY <2>5, Zenon DEF k, l
<1> QED
  BY <1>1, PipelineInvariant, PTL

\* injectOwnerRef: the subject owns exactly the objects in its namespace, or all if it is
\* cluster-scoped, after the namespaces were set and whatever could not be mapped.
THEOREM OwnedExactly == Spec => []OwnedWhereAllowed
<1>1. PipelineInv => OwnedWhereAllowed
  <2> SUFFICES ASSUME PipelineInv, NEW w \in Worker, Done(w), NEW x \in Items(w)
               PROVE  x.owner = w <=> SubjectNs[w] \in {"", x.ns}
    BY Zenon DEF OwnedWhereAllowed
  <2>1. OwnerSet(w, run[w].items)
    BY DoneIsHeld, Zenon
  <2> QED
    BY <2>1, Zenon DEF Items, Range, OwnerSet
<1> QED
  BY <1>1, PipelineInvariant, PTL

\* Channel.Latest: a version that is not pinned is the greatest the channel that was read
\* lists for the package, own entries before those that name none.
THEOREM LatestResolved == Spec => []ResolvedIsLatest
<1>1. PipelineInv => ResolvedIsLatest
  <2> SUFFICES ASSUME PipelineInv, NEW w \in Worker, want[w] = None, run[w].id # None
               PROVE  Newest(run[w].id, run[w].read)
    BY Zenon DEF ResolvedIsLatest, Newest
  <2>1. Good(w, Options, run[w]) /\ Options.want = want
    BY OptionsFields, Zenon DEF PipelineInv
  <2>2. run[w].pc # "idle"
    <3>1. Idle.id = None
      BY DEF Idle
    <3> QED
      BY <2>1, <3>1, Zenon DEF Good
  <2>3. Resolved(w, Options, run[w])
    BY <2>1, <2>2, ZenonT(60) DEF Good
  <2> QED
    BY <2>1, <2>3, Zenon DEF Resolved
<1> QED
  BY <1>1, PipelineInvariant, PTL

\* transformApplication: the only Application of a build names the kinds of all its objects, and
\* no Application names a version the objects were not built from.
THEOREM ApplicationIsRight == Spec => []ApplicationMatches
<1>1. PipelineInv => ApplicationMatches
  <2> SUFFICES ASSUME PipelineInv, NEW w \in Worker, Done(w), managed, NEW x \in Items(w), IsApplication(x)
               PROVE  /\ {y \in Items(w) : IsApplication(y)} = {x} => x.gks = {Doc[y.obj].kind : y \in Items(w)}
                      /\ x.version \in {None, run[w].id}
    BY Zenon DEF ApplicationMatches
  <2> DEFINE s == run[w].items
  <2>1. s \in Seq(Item) /\ AppsMatch(s) /\ AllMade(w, Options, s) /\ Resolved(w, Options, run[w])
        /\ Enum(s, DocsOf(run[w].id, Files(run[w].id)))
    BY DoneIsHeld, Zenon
  <2>2. PICK i \in DOMAIN s : x = s[i]
    BY Zenon DEF Items, Range
  <2>3. x.version \in {None, run[w].id}
    <3>1. x.version \in {None, Options.want[w]}
      BY <2>1, <2>2, Zenon DEF AllMade, Made
    <3> QED
      BY <2>1, <3>1, Zenon DEF Resolved
  <2>4. ASSUME {y \in Items(w) : IsApplication(y)} = {x} PROVE x.gks = {Doc[y.obj].kind : y \in Items(w)}
    <3>1. ASSUME NEW j \in DOMAIN s, IsApplication(s[j]) PROVE j = i
      <4>1. s[j] \in Items(w)
        BY Zenon DEF Items, Range
      <4>2. s[j] = s[i]
        BY <2>2, <2>4, <3>1, <4>1, Zenon
      <4> QED
        BY <2>1, <4>2, Zenon DEF Enum
    <3>2. s[i].gks = {Doc[s[j].obj].kind : j \in DOMAIN s}
      BY <2>1, <2>2, <3>1, Zenon DEF AppsMatch
    <3>3. {Doc[y.obj].kind : y \in Items(w)} = {Doc[s[j].obj].kind : j \in DOMAIN s}
      BY Zenon DEF Items, Range
    <3> QED
      BY <2>2, <3>2, <3>3, Zenon
  <2> QED
    BY <2>3, <2>4
<1> QED
  BY <1>1, PipelineInvariant, PTL
=============================================================================
