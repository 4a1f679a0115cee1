-------------------------- MODULE ReconcilerProofs --------------------------
(***************************************************************************)
(* For any objects, manifests, generations and faults: the reported        *)
(* generation never goes back, a manifest the operator is too old for is   *)
(* never applied, and a status that is left alone is true.                 *)
(***************************************************************************)
EXTENDS Reconciler, TLAPS

\* What is held with the latest resourceVersion is of the present generation.
HeldIsCurrent ==
  /\ synced => cache.gen = gen
  /\ fresh => inst.gen = gen

\* A generation that is reported has been reached.
ReportedIsReached == stored.obs <= gen

\* Behind the version check, the generation held has passed it.  The writes of the
\* parent replace what is held, but only by what has the same generation.
CheckedIsOld == pc \in {"filter", "apply"} => inst.gen \notin TooNew

RunInv == TypeOK /\ HeldIsCurrent /\ ReportedIsReached /\ CheckedIsOld

LEMMA NewStatusType == NewStatus \in Status /\ NewStatus.obs = 0
BY ReconcilerConstants DEF NewStatus, Status, Condition

Info == [err: BOOLEAN, known: {"", "FailedToApply", "VersionCheckFailed"}, requeue: BOOLEAN, live: BOOLEAN]

LEMMA NoInfoType == NoInfo \in Info
BY DEF NoInfo, Info

LEMMA AbsentType == Absent \in [gen: 0..MaxGen, health: Health, ignored: BOOLEAN] /\ Absent.gen = 0
BY ReconcilerConstants DEF Absent, Health

LEMMA InitRun == Init => RunInv
<1> SUFFICES ASSUME Init PROVE RunInv
  OBVIOUS
<1>1. cache \in Subj /\ lag \in Subj /\ inst \in Subj /\ gen \in Gen
  BY NewStatusType, ReconcilerConstants DEF Init, Subj, Gen
<1>2. objs \in [Object -> [gen: 0..MaxGen, health: Health, ignored: BOOLEAN]]
  BY ReconcilerConstants DEF Init, Absent, Health
<1>3. TypeOK
  <2>1. NoInfo \in Info
    BY NoInfoType
  <2>2. mishaps \in 0..MaxMishaps
    BY ReconcilerConstants DEF Init
  <2> QED
    BY <1>1, <1>2, <2>1, <2>2, NewStatusType, Zenon DEF Init, TypeOK, Info
<1>4. HeldIsCurrent /\ ReportedIsReached /\ CheckedIsOld
  BY NewStatusType DEF Init, HeldIsCurrent, ReportedIsReached, CheckedIsOld
<1> QED
  BY <1>3, <1>4 DEF RunInv

LEMMA HeldGen ==
  ASSUME TypeOK
  PROVE  inst.gen \in 0..MaxGen
<1>1. inst.gen \in Gen
  BY Zenon DEF TypeOK, Subj
<1> QED
  BY <1>1, ReconcilerConstants DEF Gen

\* What both aggregators make of a status is one, of the generation held.
LEMMA BuildStatusType ==
  ASSUME TypeOK, NEW s \in Status
  PROVE  BuildStatus(s) \in Status /\ BuildStatus(s).obs = inst.gen
<1>1. inst.gen \in 0..MaxGen
  BY HeldGen
<1>2. Aggregate(s) \in Status /\ Aggregate(s).obs = inst.gen
  BY <1>1, Zenon DEF Aggregate, Status
<1>3. Kstatus(s) \in Status /\ Kstatus(s).obs = inst.gen
  <2>1. s.ready \in Condition /\ \A b \in BOOLEAN : BuildReadyCondition(b) \in Condition
    BY Zenon DEF Status, Condition, BuildReadyCondition
  <2>2. AggregateStatus \in {"Current", "InProgress", "Failed"}
    BY Zenon DEF AggregateStatus
  <2> QED
    BY <1>1, <2>1, <2>2, Zenon DEF Kstatus, Status
<1> QED
  BY <1>2, <1>3 DEF BuildStatus

\* What is stored of a status differs from it in the list of errors only.
LEMMA MarshalKeeps ==
  ASSUME NEW s \in Status
  PROVE  /\ Marshal(s) \in Status
         /\ Marshal(s).healthy = s.healthy /\ Marshal(s).obs = s.obs
         /\ Marshal(s).phase = s.phase /\ Marshal(s).ready = s.ready
BY Zenon DEF Marshal, Status

\* The types of what belongs together; a step leaves most of the groups alone.
ModesOK == agg \in {"aggregate", "kstatus"} /\ prune \in BOOLEAN /\ applier \in {"kubectl", "applyset"}
SubjOK == /\ gen \in Gen /\ stored \in Status /\ named \subseteq Object
          /\ cache \in Subj /\ lag \in Subj /\ synced \in BOOLEAN
WorldOK == /\ objs \in [Object -> [gen: 0..MaxGen, health: Health, ignored: BOOLEAN]]
           /\ queue \in BOOLEAN /\ mishaps \in 0..MaxMishaps
HeldOK == inst \in Subj /\ orig \in Status /\ fresh \in BOOLEAN /\ info \in Info
LoopOK == /\ pc \in {"idle", "prepare", "filter", "apply", "prune", "build"}
          /\ items \subseteq Object /\ todo \subseteq Object /\ (pc # "prune" => todo \subseteq items)
          /\ seen \subseteq Health \cup {"unknown"} /\ unread \in BOOLEAN

LEMMA TypeParts ==
  /\ TypeOK <=> ModesOK /\ SubjOK /\ WorldOK /\ HeldOK /\ LoopOK
  /\ TypeOK' <=> ModesOK' /\ SubjOK' /\ WorldOK' /\ HeldOK' /\ LoopOK'
BY Zenon DEF TypeOK, ModesOK, SubjOK, WorldOK, HeldOK, LoopOK, Info

LEMMA PartsKept ==
  /\ UNCHANGED <<agg, prune, applier>> => (ModesOK' <=> ModesOK)
  /\ UNCHANGED subjVars => (SubjOK' <=> SubjOK)
  /\ UNCHANGED <<objs, queue, mishaps>> => (WorldOK' <=> WorldOK)
  /\ UNCHANGED <<inst, orig, fresh, info>> => (HeldOK' <=> HeldOK)
  /\ UNCHANGED <<pc, items, todo, seen, unread>> => (LoopOK' <=> LoopOK)
BY Zenon DEF ModesOK, SubjOK, WorldOK, HeldOK, LoopOK, subjVars

LEMMA MishapCounts ==
  ASSUME TypeOK, NEW f, Mishap(f)
  PROVE  mishaps' \in 0..MaxMishaps
<1>1. mishaps \in 0..MaxMishaps
  BY Zenon DEF TypeOK
<1> QED
  BY <1>1, ReconcilerConstants DEF Mishap

\* The reconcile returns, and leaves the subject as the invariant wants it.
LEMMA ReturnRun ==
  ASSUME RunInv, NEW again \in BOOLEAN, Return(again), mishaps' \in 0..MaxMishaps,
         UNCHANGED <<agg, prune, applier, gen, named, cache, lag, objs>>,
         stored' \in Status, stored'.obs <= gen, synced' \in BOOLEAN, synced' => synced
  PROVE  RunInv'
<1>1. /\ pc' = "idle" /\ items' = {} /\ todo' = {} /\ info' = NoInfo /\ seen' = {}
      /\ UNCHANGED <<inst, orig, fresh, unread>>
  BY DEF Return
<1>2. queue' \in BOOLEAN
  BY Zenon DEF Return, RunInv, TypeOK
<1>3. info' \in Info
  BY <1>1, NoInfoType
<1>4. TypeOK'
  BY <1>1, <1>2, <1>3, TypeParts, PartsKept, Zenon DEF RunInv, SubjOK, WorldOK, HeldOK, LoopOK
<1>5. HeldIsCurrent' /\ ReportedIsReached' /\ CheckedIsOld'
  BY <1>1 DEF RunInv, HeldIsCurrent, ReportedIsReached, CheckedIsOld
<1> QED
  BY <1>4, <1>5 DEF RunInv

\* reconcileExists returns.
LEMMA ReportType ==
  ASSUME TypeOK, NEW e \in BOOLEAN, NEW k \in {"", "FailedToApply", "VersionCheckFailed"}, NEW again \in BOOLEAN,
         Report(e, k, again)
  PROVE  pc' = "build" /\ todo' = {} /\ info' \in Info
<1>1. info \in Info
  BY Zenon DEF TypeOK, Info
<1> QED
  BY <1>1, Zenon DEF Report, Info

\* A write of the parent keeps types, and the generation that is held.
LEMMA UpdateParentKeeps ==
  ASSUME TypeOK, HeldIsCurrent, NEW t \in SUBSET Object, NEW ok \in BOOLEAN, UpdateParent(t, ok)
  PROVE  /\ inst' \in Subj /\ inst'.gen = inst.gen
         /\ named' \subseteq Object /\ synced' \in BOOLEAN /\ (synced' => synced)
<1>1. CASE UNCHANGED <<inst, named, synced>>
  BY <1>1, Zenon DEF TypeOK
<1>2. CASE fresh /\ named' = t /\ synced' = FALSE /\ inst' = [gen |-> gen, status |-> stored, named |-> t]
  BY <1>2, Zenon DEF TypeOK, Subj, HeldIsCurrent
<1>3. CASE inst' = [inst EXCEPT !.named = t] /\ UNCHANGED <<named, synced>>
  BY <1>3, Zenon DEF TypeOK, Subj
<1> QED
  BY <1>1, <1>2, <1>3, Zenon DEF UpdateParent

LEMMA NextRun == RunInv /\ [Next]_vars => RunInv'
<1> SUFFICES ASSUME RunInv, [Next]_vars PROVE RunInv'
  OBVIOUS
<1> USE DEF RunInv
<1>0. /\ TypeOK /\ info \in Info /\ mishaps \in 0..MaxMishaps
      /\ stored \in Status /\ synced \in BOOLEAN /\ stored.obs <= gen
  BY Zenon DEF TypeOK, Info, ReportedIsReached
<1>G. gen \in 1..MaxGen /\ stored.obs \in 0..MaxGen /\ MaxGen \in Nat
  <2>1. gen \in Gen /\ stored \in Status
    BY Zenon DEF TypeOK
  <2> QED
    BY <2>1, ReconcilerConstants, Zenon DEF Gen, Status
<1>1. CASE Reconcile
  <2>1. CASE Return(TRUE) /\ Mishap("get")
    <3>1. mishaps' \in 0..MaxMishaps
      BY <2>1, MishapCounts
    <3> QED
      BY <1>0, <1>1, <2>1, <3>1, ReturnRun, Zenon DEF Reconcile, subjVars
  <2>2. CASE queue' = FALSE /\ pc' = "prepare" /\ inst' = cache /\ orig' = cache.status /\ fresh' = synced
             /\ unread' = FALSE /\ UNCHANGED <<items, todo, info, seen, mishaps>>
    <3>1. cache.status \in Status
      BY Zenon DEF TypeOK, Subj
    <3>2. pc # "prune"
      BY <1>1 DEF Reconcile
    <3>3. TypeOK'
      BY <1>1, <2>2, <3>1, <3>2, Zenon DEF Reconcile, TypeOK, subjVars
    <3> QED
      BY <1>1, <2>2, <3>3 DEF Reconcile, HeldIsCurrent, ReportedIsReached, CheckedIsOld, subjVars
  <2> QED
    BY <1>1, <2>1, <2>2, Zenon DEF Reconcile
<1>2. CASE Prepare
  <2> DEFINE m == ManifestOf[inst.gen]
  <2>1. m \subseteq Object
    BY ReconcilerConstants, Zenon DEF TypeOK, Subj
  <2>2. /\ UNCHANGED <<agg, prune, applier, objs>> /\ UNCHANGED subjVars
        /\ pc = "prepare" /\ todo \subseteq items
    BY <1>2, Zenon DEF Prepare, TypeOK
  <2>3. CASE Mishap("preflight") /\ Return(TRUE)
    BY <1>0, <2>2, <2>3, MishapCounts, ReturnRun, Zenon DEF subjVars
  <2>4. CASE /\ pc' = "build" /\ todo' = {} /\ info' \in Info /\ mishaps' \in 0..MaxMishaps
             /\ inst' \in Subj /\ inst'.gen = inst.gen /\ items' \subseteq Object
             /\ UNCHANGED <<orig, fresh, seen, unread, queue>>
    <3>1. TypeOK'
      BY <2>2, <2>4, Zenon DEF TypeOK, subjVars, Info
    <3> QED
      BY <2>2, <2>4, <3>1 DEF HeldIsCurrent, ReportedIsReached, CheckedIsOld, subjVars
  <2>5. CASE Mishap("build") /\ Report(TRUE, "", FALSE) /\ UNCHANGED <<inst, orig, fresh, items, seen, unread, queue>>
    <3>1. pc' = "build" /\ todo' = {} /\ info' \in Info /\ mishaps' \in 0..MaxMishaps
      BY <1>0, <2>5, ReportType, MishapCounts, Zenon
    <3>2. inst' \in Subj /\ inst'.gen = inst.gen /\ items' \subseteq Object
      BY <2>5, Zenon DEF TypeOK
    <3> QED
      BY <2>4, <2>5, <3>1, <3>2, Zenon
  <2>6. CASE /\ inst' = [inst EXCEPT !.status.healthy = FALSE, !.status.errs = "some"] /\ items' = m
             /\ Report(FALSE, "VersionCheckFailed", FALSE) /\ UNCHANGED <<orig, fresh, seen, unread, queue, mishaps>>
    <3>1. pc' = "build" /\ todo' = {} /\ info' \in Info
      BY <1>0, <2>6, ReportType, Zenon
    <3>2. inst' \in Subj /\ inst'.gen = inst.gen
      BY <2>6, Zenon DEF TypeOK, Subj, Status
    <3> QED
      BY <1>0, <2>1, <2>4, <2>6, <3>1, <3>2
  <2>7. CASE /\ Mishap("retry") /\ items' = m
             /\ Report(FALSE, "", TRUE) /\ UNCHANGED <<inst, orig, fresh, seen, unread, queue>>
    <3>1. pc' = "build" /\ todo' = {} /\ info' \in Info /\ mishaps' \in 0..MaxMishaps
      BY <1>0, <2>7, ReportType, MishapCounts, Zenon
    <3>2. inst' \in Subj /\ inst'.gen = inst.gen
      BY <2>7, Zenon DEF TypeOK
    <3> QED
      BY <2>1, <2>4, <2>7, <3>1, <3>2, Zenon
  <2>8. CASE /\ VersionCheck /\ pc' = "filter" /\ items' = m /\ todo' = m
             /\ UNCHANGED <<inst, orig, fresh, info, seen, unread, queue, mishaps>>
    <3>1. TypeOK'
      BY <2>1, <2>2, <2>8, TypeParts, PartsKept, Zenon DEF LoopOK
    <3> QED
      BY <2>2, <2>8, <3>1 DEF HeldIsCurrent, ReportedIsReached, CheckedIsOld, subjVars, VersionCheck
  <2> QED
    BY <1>2, <2>3, <2>5, <2>6, <2>7, <2>8, Zenon DEF Prepare
<1>3. ASSUME NEW o \in Object, Filter(o) PROVE RunInv'
  <2>1. /\ items' \subseteq items /\ todo' = todo \ {o} /\ unread' \in BOOLEAN /\ mishaps' \in 0..MaxMishaps
        /\ o \in todo /\ todo \subseteq items /\ (items \ {o}) \subseteq items' /\ pc = "filter"
    BY <1>0, <1>3, MishapCounts, Zenon DEF Filter, TypeOK
  <2>2. TypeOK'
    <3>1. UNCHANGED <<agg, prune, applier, objs, queue, pc, inst, orig, fresh, info, seen>> /\ UNCHANGED subjVars
      BY <1>3 DEF Filter
    <3>2. LoopOK'
      BY <2>1, <3>1, TypeParts, Zenon DEF LoopOK
    <3>3. WorldOK'
      BY <2>1, <3>1, TypeParts, Zenon DEF WorldOK
    <3> QED
      BY <3>1, <3>2, <3>3, TypeParts, PartsKept, Zenon
  <2> QED
    BY <1>3, <2>2 DEF Filter, HeldIsCurrent, ReportedIsReached, CheckedIsOld, subjVars
<1>4. CASE BeforeApply
  <2>1. /\ UNCHANGED <<agg, prune, applier, gen, stored, cache, lag, objs, queue, orig, fresh, items, seen, unread>>
        /\ inst.named \cup items \in SUBSET Object /\ pc = "filter" /\ items \subseteq Object
    BY <1>4, Zenon DEF BeforeApply, TypeOK, Subj
  <2>2. /\ inst' \in Subj /\ inst'.gen = inst.gen
        /\ named' \subseteq Object /\ synced' \in BOOLEAN /\ (synced' => synced)
    <3>1. CASE UNCHANGED <<inst, named, synced>>
      BY <3>1, Zenon DEF TypeOK
    <3>2. CASE \E ok \in BOOLEAN : UpdateParent(inst.named \cup items, ok)
      BY <1>0, <2>1, <3>2, UpdateParentKeeps
    <3> QED
      BY <1>4, <3>1, <3>2, Zenon DEF BeforeApply
  <2>3. /\ mishaps' \in 0..MaxMishaps /\ info' \in Info /\ todo' \subseteq items
        /\ pc' \in {"build", "apply"}
    <3>1. CASE Mishap("hook") /\ Report(TRUE, "", FALSE)
      BY <1>0, <3>1, MishapCounts, ReportType, Zenon
    <3>2. CASE Report(TRUE, "FailedToApply", FALSE) /\ (UNCHANGED mishaps \/ Mishap("map"))
      BY <1>0, <3>2, MishapCounts, ReportType, Zenon
    <3>3. CASE pc' = "apply" /\ todo' = items /\ UNCHANGED <<info, mishaps>>
      BY <1>0, <3>3
    <3> QED
      BY <1>4, <3>1, <3>2, <3>3, Zenon DEF BeforeApply
  <2>4. TypeOK'
    BY <2>1, <2>2, <2>3, Zenon DEF TypeOK, Info
  <2> QED
    BY <2>1, <2>2, <2>3, <2>4 DEF HeldIsCurrent, ReportedIsReached, CheckedIsOld
<1>4d. CASE DirectApply
  <2>1. /\ UNCHANGED <<agg, prune, applier, objs, queue, inst, orig, fresh, seen, unread>> /\ UNCHANGED subjVars
        /\ pc = "filter" /\ items \subseteq Object
    BY <1>4d, Zenon DEF DirectApply, TypeOK
  <2>2. /\ mishaps' \in 0..MaxMishaps /\ info' \in Info /\ items' \subseteq items /\ todo' \subseteq items'
        /\ pc' \in {"build", "apply"}
    <3>1. CASE Report(TRUE, "FailedToApply", FALSE) /\ (UNCHANGED mishaps \/ Mishap("map")) /\ UNCHANGED items
      BY <1>0, <3>1, MishapCounts, ReportType, Zenon
    <3>2. CASE pc' = "apply" /\ todo' = items /\ UNCHANGED <<items, info, mishaps>>
      BY <1>0, <3>2
    <3>3. ASSUME NEW o \in items, Mishap("map"), pc' = "apply", items' = items \ {o}, todo' = items \ {o},
                 info' = [info EXCEPT !.known = "FailedToApply"]
          PROVE  /\ mishaps' \in 0..MaxMishaps /\ info' \in Info /\ items' \subseteq items /\ todo' \subseteq items'
                 /\ pc' \in {"build", "apply"}
      BY <1>0, <3>3, MishapCounts, Zenon DEF Info
    <3> QED
      BY <1>4d, <3>1, <3>2, <3>3, Zenon DEF DirectApply
  <2>3. TypeOK'
    BY <2>1, <2>2, Zenon DEF TypeOK, Info, subjVars
  <2> QED
    BY <2>1, <2>2, <2>3 DEF HeldIsCurrent, ReportedIsReached, CheckedIsOld, subjVars
<1>5. ASSUME NEW o \in Object, Apply(o) PROVE RunInv'
  <2>1. /\ todo' \subseteq todo /\ pc = "apply"
        /\ UNCHANGED <<agg, prune, applier, pc, inst, orig, fresh, items, seen, unread>> /\ UNCHANGED subjVars
    BY <1>5 DEF Apply
  <2>2. mishaps' \in 0..MaxMishaps /\ info' \in Info
    BY <1>0, <1>5, MishapCounts, Zenon DEF Apply, Info
  <2>3. objs' \in [Object -> [gen: 0..MaxGen, health: Health, ignored: BOOLEAN]] /\ queue' \in BOOLEAN
    <3>1. inst.gen \in 0..MaxGen
      BY HeldGen
    <3>2. objs \in [Object -> [gen: 0..MaxGen, health: Health, ignored: BOOLEAN]]
      BY Zenon DEF TypeOK
    <3>3. [objs EXCEPT ![o].gen = inst.gen, ![o].health = "progressing"]
            \in [Object -> [gen: 0..MaxGen, health: Health, ignored: BOOLEAN]]
      BY <3>1, <3>2, Zenon DEF Health
    <3>4. \/ UNCHANGED <<objs, queue>>
          \/ queue' = TRUE /\ objs' = [objs EXCEPT ![o].gen = inst.gen, ![o].health = "progressing"]
      BY <1>5 DEF Apply
    <3>5. queue \in BOOLEAN
      BY Zenon DEF TypeOK
    <3> QED
      BY <3>2, <3>3, <3>4, <3>5, Zenon
  <2>4. TypeOK'
    BY <2>1, <2>2, <2>3, Zenon DEF TypeOK, Info, subjVars
  <2> QED
    BY <2>1, <2>4 DEF HeldIsCurrent, ReportedIsReached, CheckedIsOld, subjVars
<1>6. CASE Applied
  <2>1. /\ UNCHANGED <<agg, prune, applier, objs, queue, inst, orig, fresh, items, seen, unread, mishaps>> /\ UNCHANGED subjVars
        /\ todo = {} /\ pc = "apply"
    BY <1>6 DEF Applied
  <2>2. info' \in Info /\ todo' \subseteq Object /\ (pc' # "prune" => todo' \subseteq items) /\ pc' \in {"build", "prune"}
    <3>1. CASE Report(TRUE, "FailedToApply", FALSE)
      BY <1>0, <3>1, ReportType, Zenon
    <3>2. CASE pc' = "prune" /\ todo' = (IF prune THEN {o \in Prunable \ items : Exists(o)} ELSE {}) /\ UNCHANGED info
      <4>1. Prunable \subseteq Object
        BY Zenon DEF Prunable, TypeOK, Subj
      <4> QED
        BY <1>0, <3>2, <4>1
    <3> QED
      BY <1>6, <3>1, <3>2, Zenon DEF Applied
  <2>3. TypeOK'
    BY <2>1, <2>2, Zenon DEF TypeOK, Info, subjVars
  <2> QED
    BY <2>1, <2>2, <2>3 DEF HeldIsCurrent, ReportedIsReached, CheckedIsOld, subjVars
<1>7. ASSUME NEW o \in Object, Prune(o) PROVE RunInv'
  <2>1. /\ todo' \subseteq todo /\ pc = "prune"
        /\ UNCHANGED <<agg, prune, applier, pc, inst, orig, fresh, items, seen, unread>> /\ UNCHANGED subjVars
    BY <1>7 DEF Prune
  <2>2. mishaps' \in 0..MaxMishaps /\ info' \in Info
    BY <1>0, <1>7, MishapCounts, Zenon DEF Prune, Info
  <2>3. objs' \in [Object -> [gen: 0..MaxGen, health: Health, ignored: BOOLEAN]] /\ queue' \in BOOLEAN
    <3>1. objs \in [Object -> [gen: 0..MaxGen, health: Health, ignored: BOOLEAN]] /\ queue \in BOOLEAN
      BY Zenon DEF TypeOK
    <3>2. UNCHANGED <<objs, queue>> \/ (queue' = TRUE /\ objs' = [objs EXCEPT ![o] = Absent])
      BY <1>7 DEF Prune
    <3> QED
      BY <3>1, <3>2, AbsentType, Zenon
  <2>4. TypeOK'
    BY <2>1, <2>2, <2>3, Zenon DEF TypeOK, Info, subjVars
  <2> QED
    BY <2>1, <2>4 DEF HeldIsCurrent, ReportedIsReached, CheckedIsOld, subjVars
<1>8. CASE AfterApply
  <2>1. /\ UNCHANGED <<agg, prune, applier, gen, stored, cache, lag, objs, queue, orig, fresh, items, seen, unread>>
        /\ inst.named \in SUBSET Object /\ items \in SUBSET Object
    BY <1>8, Zenon DEF AfterApply, TypeOK, Subj
  <2>2. /\ inst' \in Subj /\ inst'.gen = inst.gen
        /\ named' \subseteq Object /\ synced' \in BOOLEAN /\ (synced' => synced)
    <3>1. CASE UNCHANGED <<inst, named, synced>>
      BY <3>1, Zenon DEF TypeOK
    <3>2. ASSUME NEW ok \in BOOLEAN, UpdateParent(IF prune THEN items ELSE inst.named, ok)
          PROVE  /\ inst' \in Subj /\ inst'.gen = inst.gen
                 /\ named' \subseteq Object /\ synced' \in BOOLEAN /\ (synced' => synced)
      <4>1. (IF prune THEN items ELSE inst.named) \in SUBSET Object
        BY <2>1
      <4> QED
        BY <1>0, <3>2, <4>1, UpdateParentKeeps
    <3> QED
      BY <1>8, <3>1, <3>2, Zenon DEF AfterApply, ShrinkParent
  <2>3. mishaps' \in 0..MaxMishaps /\ info' \in Info /\ todo' \subseteq items /\ pc' = "build"
    <3>1. CASE Mishap("hook") /\ Report(TRUE, "", FALSE)
      BY <1>0, <3>1, MishapCounts, ReportType, Zenon
    <3>2. CASE Report(TRUE, "FailedToApply", FALSE) /\ UNCHANGED mishaps
      BY <1>0, <3>2, ReportType, Zenon
    <3>3. CASE pc' = "build" /\ todo' = items /\ info' = [info EXCEPT !.live = TRUE] /\ UNCHANGED mishaps
      BY <1>0, <3>3, Zenon DEF Info
    <3> QED
      BY <1>8, <3>1, <3>2, <3>3, Zenon DEF AfterApply
  <2>4. TypeOK'
    BY <2>1, <2>2, <2>3, Zenon DEF TypeOK, Info
  <2> QED
    BY <2>1, <2>2, <2>3, <2>4 DEF HeldIsCurrent, ReportedIsReached, CheckedIsOld
<1>9. ASSUME NEW o \in Object, Observe(o) PROVE RunInv'
  <2>1. /\ todo' \subseteq todo /\ pc = "build"
        /\ UNCHANGED <<agg, prune, applier, objs, queue, pc, inst, orig, fresh, items, info>> /\ UNCHANGED subjVars
    BY <1>9 DEF Observe
  <2>2. mishaps' \in 0..MaxMishaps /\ unread' \in BOOLEAN
    BY <1>0, <1>9, MishapCounts, Zenon DEF Observe, TypeOK
  <2>3. seen' \subseteq Health \cup {"unknown"}
    <3>1. HealthOf(o) \in Health \cup {"unknown"}
      BY Zenon DEF HealthOf, TypeOK, Health
    <3> QED
      BY <1>9, <3>1, Zenon DEF Observe, TypeOK
  <2>4. TypeOK'
    BY <2>1, <2>2, <2>3, TypeParts, PartsKept, Zenon DEF LoopOK, WorldOK
  <2> QED
    BY <2>1, <2>4 DEF HeldIsCurrent, ReportedIsReached, CheckedIsOld, subjVars
<1>10. CASE UpdateStatus
  <2> DEFINE new == Marshal(BuildStatus(inst.status))
  <2>1. new \in Status /\ new.obs = inst.gen
    <3>1. inst.status \in Status
      BY Zenon DEF TypeOK, Subj
    <3> QED
      BY <1>0, <3>1, BuildStatusType, MarshalKeeps
  <2>2. /\ UNCHANGED <<agg, prune, applier, gen, named, cache, lag, objs>>
        /\ \E again \in BOOLEAN : Return(again)
        /\ UNCHANGED <<stored, synced>> \/ (fresh /\ stored' = new /\ synced' = FALSE)
    <3>1. info.err \/ info.requeue \in BOOLEAN
      BY <1>0, Zenon DEF Info
    <3> QED
      BY <1>10, <3>1, Zenon DEF UpdateStatus, StatusUpdate
  <2>3. mishaps' \in 0..MaxMishaps
    <3>1. UNCHANGED mishaps \/ Mishap("hook") \/ Mishap("write")
      BY <1>10, Zenon DEF UpdateStatus
    <3> QED
      BY <1>0, <3>1, MishapCounts
  <2> HIDE DEF new
  <2>4. stored' \in Status /\ stored'.obs <= gen /\ synced' \in BOOLEAN /\ (synced' => synced)
    <3>1. CASE UNCHANGED <<stored, synced>>
      BY <1>0, <3>1
    <3>2. CASE fresh /\ stored' = new /\ synced' = FALSE
      <4>1. stored'.obs = gen
        BY <2>1, <3>2 DEF HeldIsCurrent
      <4>2. stored'.obs <= gen
        BY <1>G, <4>1
      <4> QED
        BY <2>1, <3>2, <4>2, Zenon
    <3> QED
      BY <2>2, <3>1, <3>2, Zenon
  <2> QED
    BY <2>2, <2>3, <2>4, ReturnRun
<1>11. CASE Sync
  <2>1. cache' \in Subj /\ cache'.gen = gen /\ lag' \in Subj
    BY <1>11, Zenon DEF Sync, TypeOK, Subj
  <2>2. TypeOK'
    BY <1>11, <2>1, TypeParts, PartsKept, Zenon DEF Sync, SubjOK, WorldOK, runVars
  <2> QED
    BY <1>11, <2>1, <2>2 DEF Sync, HeldIsCurrent, ReportedIsReached, CheckedIsOld, runVars
<1>12. CASE Restart
  <2>1. /\ Return(TRUE) /\ mishaps' \in 0..MaxMishaps /\ UNCHANGED <<agg, prune, applier, gen, stored, named, objs>>
        /\ UNCHANGED <<cache, lag, synced>> \/ (cache' = lag /\ synced' = FALSE /\ lag' = lag)
    BY <1>0, <1>12, MishapCounts, Zenon DEF Restart
  <2>2. CASE UNCHANGED <<cache, lag, synced>>
    BY <1>0, <2>1, <2>2, ReturnRun, Zenon
  <2>3. CASE cache' = lag /\ synced' = FALSE /\ lag' = lag
    <3>1. /\ pc' = "idle" /\ items' = {} /\ todo' = {} /\ info' = NoInfo /\ seen' = {} /\ queue' \in BOOLEAN
          /\ UNCHANGED <<inst, orig, fresh, unread>>
      BY <2>1, Zenon DEF Return, TypeOK
    <3>2. info' \in Info
      BY <3>1, NoInfoType
    <3>3. TypeOK'
      BY <2>1, <2>3, <3>1, <3>2, Zenon DEF TypeOK, Info
    <3> QED
      BY <2>1, <2>3, <3>1, <3>3 DEF HeldIsCurrent, ReportedIsReached, CheckedIsOld
  <2> QED
    BY <2>1, <2>2, <2>3, Zenon
<1>13. CASE Edit
  <2>1. gen' \in Gen /\ gen \in Nat /\ gen' = gen + 1
    BY <1>13, <1>G DEF Edit, Gen
  <2>2. TypeOK'
    BY <1>13, <2>1, TypeParts, PartsKept, Zenon DEF Edit, SubjOK, HeldOK
  <2>3. ReportedIsReached'
    BY <1>0, <1>G, <1>13, <2>1 DEF Edit, ReportedIsReached
  <2> QED
    BY <1>13, <2>2, <2>3 DEF Edit, HeldIsCurrent, CheckedIsOld
<1>14. ASSUME NEW o \in Object, Progress(o) \/ Disturb(o) PROVE RunInv'
  <2>1. mishaps' \in 0..MaxMishaps
    BY <1>0, <1>14, MishapCounts DEF Progress, Disturb
  <2>2. PICK new \in [gen: 0..MaxGen, health: Health, ignored: BOOLEAN] : Changed(o, new)
    <3>1. objs[o] \in [gen: 0..MaxGen, health: Health, ignored: BOOLEAN]
      BY Zenon DEF TypeOK
    <3>2. /\ \A h \in Health : [objs[o] EXCEPT !.health = h] \in [gen: 0..MaxGen, health: Health, ignored: BOOLEAN]
          /\ [objs[o] EXCEPT !.ignored = ~@] \in [gen: 0..MaxGen, health: Health, ignored: BOOLEAN]
      BY <3>1, Zenon
    <3>3. "ready" \in Health /\ "progressing" \in Health /\ "failed" \in Health
      BY DEF Health
    <3> QED
      BY <1>14, <3>2, <3>3, AbsentType DEF Progress, Disturb
  <2>3. TypeOK'
    <3>1. objs' \in [Object -> [gen: 0..MaxGen, health: Health, ignored: BOOLEAN]]
      BY <2>2, Zenon DEF Changed, TypeOK
    <3>2. /\ UNCHANGED <<agg, prune, applier, gen, stored, named, cache, lag, synced>> /\ queue' = TRUE
          /\ UNCHANGED <<pc, inst, orig, fresh, items, todo, info, seen, unread>>
      BY <2>2 DEF Changed, subjVars, runVars
    <3> QED
      BY <2>1, <3>1, <3>2, TypeParts, PartsKept, Zenon DEF WorldOK, subjVars
  <2> QED
    BY <2>2, <2>3 DEF Changed, HeldIsCurrent, ReportedIsReached, CheckedIsOld, subjVars, runVars
<1>15. CASE UNCHANGED vars
  <2>1. UNCHANGED <<agg, prune, applier, gen, stored, named, cache, lag, synced, objs, queue, pc, inst, orig, fresh, items,
                    todo, info, seen, unread, mishaps>>
    BY <1>15 DEF vars, subjVars, runVars
  <2>2. TypeOK'
    BY <2>1, TypeParts, PartsKept, Zenon DEF subjVars
  <2> QED
    BY <2>1, <2>2 DEF HeldIsCurrent, ReportedIsReached, CheckedIsOld
<1> QED
  BY <1>1, <1>2, <1>3, <1>4, <1>4d, <1>5, <1>6, <1>7, <1>8, <1>9, <1>10, <1>11, <1>12, <1>13, <1>14, <1>15 DEF Next, RunStep

LEMMA RunAlways == Spec => []RunInv
BY InitRun, NextRun, PTL DEF Spec

\* Reconcile and all that runs beside it keep their types; the loops of
\* reconcileExists run over its items.
THEOREM TypeCorrect == Spec => []TypeOK
<1>1. RunInv => TypeOK
  BY DEF RunInv
<1> QED
  BY <1>1, RunAlways, PTL

\* updateStatus never takes the reported generation back, whatever restarts with a
\* cache that lags: a write succeeds only from the latest resourceVersion, and what is
\* held with it is of the present generation, which no report is ahead of.
THEOREM ReportsGoForward == Spec => ObservedIsMonotone
<1>1. RunInv /\ [Next]_vars => [stored'.obs >= stored.obs]_vars
  <2> SUFFICES ASSUME RunInv, Next PROVE stored'.obs >= stored.obs
    BY DEF vars, subjVars
  <2>1. stored.obs \in 0..MaxGen /\ gen \in 1..MaxGen /\ stored.obs <= gen /\ (fresh => inst.gen = gen)
    <3>1. gen \in Gen /\ stored \in Status
      BY Zenon DEF RunInv, TypeOK
    <3> QED
      BY <3>1, ReconcilerConstants, Zenon DEF RunInv, Gen, Status, ReportedIsReached, HeldIsCurrent
  <2>2. UNCHANGED stored \/ (fresh /\ stored' = Marshal(BuildStatus(inst.status)))
    <3>1. CASE UpdateStatus
      BY <3>1, Zenon DEF UpdateStatus, StatusUpdate
    <3>2. CASE ~UpdateStatus
      BY <3>2, Zenon DEF Next, RunStep, Reconcile, Prepare, Filter, BeforeApply, DirectApply, Apply, Applied, Prune, AfterApply,
                  Observe, Sync, Restart, Edit, Progress, Disturb, Changed, subjVars
    <3> QED
      BY <3>1, <3>2
  <2>3. Marshal(BuildStatus(inst.status)).obs = inst.gen
    <3>1. inst.status \in Status
      BY Zenon DEF RunInv, TypeOK, Subj
    <3> QED
      BY <3>1, BuildStatusType, MarshalKeeps DEF RunInv
  <2> QED
    BY <2>1, <2>2, <2>3
<1> QED
  BY <1>1, RunAlways, PTL DEF Spec, ObservedIsMonotone

\* VersionCheck keeps its promise to the objects: a manifest that needs a newer operator
\* is never applied, although the subject is edited while a reconcile runs and the
\* writes of the applier replace the subject that is held.
THEOREM TooNewIsNotApplied == Spec => NeverTooNew
<1> DEFINE A == \A o \in Object : objs'[o].gen # objs[o].gen => objs'[o].gen \notin TooNew
<1>1. RunInv /\ [Next]_vars => [A]_vars
  <2> SUFFICES ASSUME RunInv, Next PROVE A
    OBVIOUS
  <2>1. objs \in [Object -> [gen: 0..MaxGen, health: Health, ignored: BOOLEAN]] /\ 0 \notin TooNew
    <3>1. objs \in [Object -> [gen: 0..MaxGen, health: Health, ignored: BOOLEAN]]
      BY Zenon DEF RunInv, TypeOK
    <3>2. 0 \notin TooNew
      BY ReconcilerConstants DEF Gen
    <3> QED
      BY <3>1, <3>2
  <2>2. ASSUME NEW o \in Object, Apply(o) PROVE A
    <3>1. inst.gen \notin TooNew
      BY <2>2 DEF Apply, RunInv, CheckedIsOld
    <3>2. UNCHANGED objs \/ objs' = [objs EXCEPT ![o].gen = inst.gen, ![o].health = "progressing"]
      BY <2>2 DEF Apply
    <3> QED
      BY <2>1, <3>1, <3>2
  <2>3. ASSUME NEW o \in Object, Prune(o) PROVE A
    BY <2>1, <2>3, AbsentType DEF Prune
  <2>4. ASSUME NEW o \in Object, Progress(o) \/ Disturb(o) PROVE A
    BY <2>1, <2>4, AbsentType DEF Progress, Disturb, Changed
  <2>5. CASE UNCHANGED objs
    BY <2>5
  <2> QED
    BY <2>2, <2>3, <2>4, <2>5, Zenon DEF Next, RunStep, Reconcile, Prepare, Filter, BeforeApply, DirectApply, Applied, AfterApply,
                                  Observe, UpdateStatus, Sync, Restart, Edit
<1> QED
  BY <1>1, RunAlways, PTL DEF Spec, NeverTooNew

(***************************************************************************)
(* A status that is left alone is true.                                    *)
(***************************************************************************)
\* The cache that is up to date is the subject.
CacheIsTrue == synced => cache = [gen |-> gen, status |-> stored, named |-> named]

\* What is not there has no ignore annotation.
AbsentIsPlain == \A o \in Object : objs[o].gen = 0 => ~objs[o].ignored

\* The Ready condition goes with the phase it was computed from; the phases of errors
\* leave the condition as it was.
ReadyAgrees(s) ==
  agg = "kstatus" =>
    /\ s.phase = "Current" => s.ready = [status |-> "True", reason |-> "Normal"]
    /\ s.phase \in {"InProgress", "Failed"} => s.ready = [status |-> "False", reason |-> "ManifestsNotReady"]

ReadyIsTrue ==
  ReadyAgrees(stored) /\ ReadyAgrees(cache.status) /\ ReadyAgrees(lag.status) /\ ReadyAgrees(inst.status)

\* What statusInfo says on the way through reconcileExists: there are live objects only
\* at the end of a reconcile without an error.
InfoByPlace ==
  /\ pc \in {"idle", "prepare", "filter"} => info = NoInfo
  /\ pc \in {"apply", "prune"} => ~info.live /\ ~info.requeue /\ info.known # "VersionCheckFailed"
  /\ pc # "build" => seen = {}
  /\ pc = "build" /\ info.live => ~info.err /\ info.known = ""
  /\ pc = "build" /\ ~info.live => seen = {} /\ todo = {}

\* Since the reconcile under way, or the last one, began, nothing has happened that
\* queues the subject or changes it.
Calm == ~queue /\ synced /\ gen \notin TooNew

\* the objects of the manifest that are not ignored
Kept == {o \in ManifestOf[gen] : ~objs[o].ignored}

Looked == pc = "build" /\ info.live

HeldIsStored == pc # "idle" => fresh /\ inst.gen = gen /\ orig = stored

ItemsAreKept ==
  /\ pc \in {"filter", "apply", "prune"} \/ Looked => (info.known = "" => Kept \subseteq items)
  /\ pc = "filter" => (~unread => items \ todo \subseteq Kept) /\ items \subseteq ManifestOf[gen]
  /\ pc \in {"apply", "prune"} \/ Looked => (~unread => items \subseteq Kept)

ItemsAreApplied ==
  /\ pc = "apply" /\ ~info.err => \A o \in items \ todo : objs[o].gen = gen
  /\ pc = "prune" \/ Looked => \A o \in items : objs[o].gen = gen

SeenIsHealth ==
  Looked =>
    /\ \A o \in items \ todo : HealthOf(o) \in seen \/ (unread /\ "unknown" \in seen)
    /\ \A h \in seen : (unread /\ h = "unknown") \/ \E o \in items \ todo : HealthOf(o) = h

ErrorIsReported == pc = "build" => info.err \/ info.requeue \/ info.live

\* In a calm reconcile, what was read, chosen and applied so far is so now.
CalmInv == Calm => HeldIsStored /\ ItemsAreKept /\ ItemsAreApplied /\ SeenIsHealth /\ ErrorIsReported

Background == CacheIsTrue /\ AbsentIsPlain /\ ReadyIsTrue /\ InfoByPlace

RestInv == RunInv /\ Background /\ CalmInv /\ RestingStatusIsTrue

LEMMA InitRest == Init => RestInv
<1> SUFFICES ASSUME Init PROVE RestInv
  OBVIOUS
<1>1. RunInv
  BY InitRun
<1>2. Background
  BY Zenon DEF Init, Background, CacheIsTrue, AbsentIsPlain, ReadyIsTrue, ReadyAgrees, InfoByPlace, NewStatus, Absent
<1>3. ~Calm /\ ~AtRest
  BY DEF Init, Calm, AtRest
<1> QED
  BY <1>1, <1>2, <1>3 DEF RestInv, CalmInv, RestingStatusIsTrue

LEMMA RunTypes ==
  ASSUME RunInv
  PROVE  /\ info \in Info /\ inst \in Subj /\ cache \in Subj /\ lag \in Subj /\ stored \in Status /\ orig \in Status
         /\ objs \in [Object -> [gen: 0..MaxGen, health: Health, ignored: BOOLEAN]]
         /\ queue \in BOOLEAN /\ synced \in BOOLEAN /\ fresh \in BOOLEAN /\ unread \in BOOLEAN
         /\ agg \in {"aggregate", "kstatus"} /\ gen \in Gen /\ items \subseteq Object /\ todo \subseteq Object
         /\ inst.status \in Status /\ cache.status \in Status
BY Zenon DEF RunInv, TypeOK, Info, Subj

\* A status that is computed has the Ready condition of its phase.
LEMMA BuiltReadyAgrees ==
  ASSUME NEW s \in Status, ReadyAgrees(s)
  PROVE  ReadyAgrees(BuildStatus(s))
<1> SUFFICES ASSUME agg = "kstatus" PROVE ReadyAgrees(Kstatus(s))
  BY Zenon DEF ReadyAgrees, BuildStatus
<1> DEFINE k == Kstatus(s)
<1>1. CASE ~info.err /\ info.live
  <2>1. k.phase = AggregateStatus /\ k.ready = BuildReadyCondition(AggregateStatus = "Current")
    BY <1>1, Zenon DEF Kstatus, Status
  <2>2. CASE "progressing" \in seen \/ "failed" \in seen
    <3>1. AggregateStatus \in {"InProgress", "Failed"} /\ AbnormalConditions # {}
      BY <2>2 DEF AggregateStatus, AbnormalConditions
    <3> QED
      BY <2>1, <3>1 DEF ReadyAgrees, BuildReadyCondition
  <2>3. CASE ~("progressing" \in seen \/ "failed" \in seen)
    <3>1. AggregateStatus = "Current" /\ AbnormalConditions = {}
      BY <2>3 DEF AggregateStatus, AbnormalConditions
    <3> QED
      BY <2>1, <3>1 DEF ReadyAgrees, BuildReadyCondition
  <2> QED
    BY <2>2, <2>3
<1>2. CASE info.err
  <2>1. k.phase \in {"Applying", "InternalError"}
    BY <1>2, Zenon DEF Kstatus, Status
  <2> QED
    BY <2>1 DEF ReadyAgrees
<1>3. CASE ~info.err /\ ~info.live
  <2>1. k.phase = s.phase /\ k.ready = s.ready
    BY <1>3, Zenon DEF Kstatus, Status
  <2> QED
    BY <2>1 DEF ReadyAgrees
<1> QED
  BY <1>1, <1>2, <1>3

\* A write of the parent, successful or not, leaves a status behind that is one of the two.
LEMMA UpdateParentStatus ==
  ASSUME RunInv, NEW t, NEW ok, UpdateParent(t, ok)
  PROVE  /\ inst'.status \in {inst.status, stored}
         /\ synced' => synced /\ named' = named
         /\ synced' /\ fresh => inst' = inst
<1>1. CASE UNCHANGED <<inst, named, synced>>
  BY <1>1
<1>2. CASE synced' = FALSE /\ inst' = [gen |-> gen, status |-> stored, named |-> t]
  BY <1>2
<1>3. CASE ~fresh /\ inst' = [inst EXCEPT !.named = t] /\ UNCHANGED <<named, synced>>
  <2>1. inst \in Subj
    BY RunTypes
  <2>2. inst'.status = inst.status
    BY <1>3, <2>1, Zenon DEF Subj
  <2> QED
    BY <1>3, <2>2
<1> QED
  BY <1>1, <1>2, <1>3, Zenon DEF UpdateParent

\* What every step leaves alone, but for the few that are named.
LEMMA Frame ==
  ASSUME Next
  PROVE  /\ UNCHANGED <<agg, prune, applier>>
         /\ UNCHANGED gen \/ Edit
         /\ UNCHANGED stored \/ UpdateStatus
         /\ UNCHANGED named \/ BeforeApply \/ AfterApply
         /\ UNCHANGED <<cache, lag>> \/ Sync \/ Restart
         /\ UNCHANGED inst \/ Reconcile \/ Prepare \/ BeforeApply \/ AfterApply
         /\ UNCHANGED orig \/ Reconcile
         /\ UNCHANGED fresh \/ Reconcile \/ Edit
         /\ UNCHANGED synced \/ BeforeApply \/ AfterApply \/ UpdateStatus \/ Sync \/ Restart \/ Edit
         /\ UNCHANGED objs \/ \E o \in Object : Apply(o) \/ Prune(o) \/ Progress(o) \/ Disturb(o)
BY ZenonT(60) DEF Next, RunStep, Reconcile, Prepare, Filter, BeforeApply, DirectApply, Apply, Applied, Prune, AfterApply,
       Observe, UpdateStatus, Sync, Restart, Edit, Progress, Disturb, Changed, Return, subjVars, runVars

LEMMA CacheStaysTrue ==
  ASSUME RestInv, Next
  PROVE  CacheIsTrue'
<1> USE DEF RestInv, Background
<1>1. CASE Sync
  BY <1>1 DEF Sync, CacheIsTrue
<1>2. CASE Edit
  BY <1>2 DEF Edit, CacheIsTrue
<1>3. CASE UpdateStatus
  <2>1. UNCHANGED <<gen, named, cache>> /\ (UNCHANGED <<stored, synced>> \/ synced' = FALSE)
    BY <1>3, Zenon DEF UpdateStatus, StatusUpdate
  <2> QED
    BY <2>1, Zenon DEF CacheIsTrue
<1>4. CASE BeforeApply \/ AfterApply
  <2>1. UNCHANGED <<gen, stored, cache>>
    BY <1>4, Zenon DEF BeforeApply, AfterApply
  <2>2. UNCHANGED <<inst, named, synced>> \/ \E t, ok : UpdateParent(t, ok)
    BY <1>4, Zenon DEF BeforeApply, AfterApply, ShrinkParent
  <2>3. synced' => synced /\ named' = named
    BY <2>2, UpdateParentStatus, Zenon
  <2> QED
    BY <2>1, <2>3 DEF CacheIsTrue
<1>5. CASE Restart
  <2>1. UNCHANGED <<gen, stored, named>> /\ (UNCHANGED <<cache, synced>> \/ synced' = FALSE)
    BY <1>5, Zenon DEF Restart
  <2> QED
    BY <2>1, Zenon DEF CacheIsTrue
<1>6. CASE UNCHANGED <<gen, stored, named, cache, synced>>
  BY <1>6 DEF CacheIsTrue
<1> QED
  BY <1>1, <1>2, <1>3, <1>4, <1>5, <1>6, Frame, Zenon

LEMMA AbsentStaysPlain ==
  ASSUME RestInv, Next
  PROVE  AbsentIsPlain'
<1> USE DEF RestInv, Background
<1>0. objs \in [Object -> [gen: 0..MaxGen, health: Health, ignored: BOOLEAN]]
  BY RunTypes
<1>1. ASSUME NEW o \in Object, Apply(o) PROVE AbsentIsPlain'
  <2>1. UNCHANGED objs \/ objs' = [objs EXCEPT ![o].gen = inst.gen, ![o].health = "progressing"]
    BY <1>1 DEF Apply
  <2>2. inst.gen # 0
    <3>1. inst.gen \in Gen
      BY RunTypes, Zenon DEF Subj
    <3> QED
      BY <3>1 DEF Gen
  <2> QED
    BY <1>0, <2>1, <2>2 DEF AbsentIsPlain
<1>2. ASSUME NEW o \in Object, Prune(o) PROVE AbsentIsPlain'
  BY <1>0, <1>2 DEF Prune, Absent, AbsentIsPlain
<1>3. ASSUME NEW o \in Object, Progress(o) \/ Disturb(o) PROVE AbsentIsPlain'
  <2>1. PICK new : objs' = [objs EXCEPT ![o] = new] /\ (new.gen = objs[o].gen \/ new = Absent)
    BY <1>0, <1>3 DEF Progress, Disturb, Changed
  <2>2. Exists(o)
    BY <1>3 DEF Progress, Disturb
  <2> QED
    BY <1>0, <2>1, <2>2 DEF Exists, Absent, AbsentIsPlain
<1>4. CASE UNCHANGED objs
  BY <1>4 DEF AbsentIsPlain
<1> QED
  BY <1>1, <1>2, <1>3, <1>4, Frame, Zenon

LEMMA ReadyStaysTrue ==
  ASSUME RestInv, Next
  PROVE  ReadyIsTrue'
<1> USE DEF RestInv, Background
<1>1. agg' = agg
  BY Frame
<1>2. ReadyAgrees(stored)'
  <2> DEFINE new == BuildStatus(inst.status)
  <2>1. ReadyAgrees(Marshal(new))
    <3>1. new \in Status /\ ReadyAgrees(new)
      BY RunTypes, BuildStatusType, BuiltReadyAgrees DEF ReadyIsTrue, RunInv
    <3> HIDE DEF new
    <3> QED
      BY <3>1, MarshalKeeps DEF ReadyAgrees
  <2>2. stored' = stored \/ stored' = Marshal(new)
    BY Frame, Zenon DEF UpdateStatus, StatusUpdate
  <2> HIDE DEF new
  <2> QED
    BY <1>1, <2>1, <2>2 DEF ReadyAgrees, ReadyIsTrue
<1>3. ReadyAgrees(cache.status)' /\ ReadyAgrees(lag.status)'
  <2>1. cache'.status \in {cache.status, lag.status, stored} /\ lag'.status \in {cache.status, lag.status}
    <3>1. CASE Sync
      BY <3>1 DEF Sync
    <3>2. CASE Restart
      BY <3>2, Zenon DEF Restart
    <3>3. CASE UNCHANGED <<cache, lag>>
      BY <3>3
    <3> QED
      BY <3>1, <3>2, <3>3, Frame
  <2> QED
    BY <1>1, <2>1 DEF ReadyAgrees, ReadyIsTrue
<1>4. ReadyAgrees(inst.status)'
  <2>1. CASE Reconcile
    <3>1. inst'.status \in {inst.status, cache.status}
      BY <2>1, Zenon DEF Reconcile, Return
    <3> QED
      BY <1>1, <3>1 DEF ReadyAgrees, ReadyIsTrue
  <2>2. CASE Prepare
    <3>1. inst'.status.phase = inst.status.phase /\ inst'.status.ready = inst.status.ready
      <4>1. CASE inst' = [inst EXCEPT !.status.healthy = FALSE, !.status.errs = "some"]
        BY <4>1, RunTypes, Zenon DEF Subj, Status
      <4>2. CASE UNCHANGED inst
        BY <4>2
      <4> QED
        BY <2>2, <4>1, <4>2, Zenon DEF Prepare, Return
    <3> QED
      BY <1>1, <3>1 DEF ReadyAgrees, ReadyIsTrue
  <2>3. CASE BeforeApply \/ AfterApply
    <3>1. UNCHANGED inst \/ \E t, ok : UpdateParent(t, ok)
      BY <2>3, Zenon DEF BeforeApply, AfterApply, ShrinkParent
    <3>2. inst'.status \in {inst.status, stored}
      BY <3>1, UpdateParentStatus
    <3> QED
      BY <1>1, <3>2 DEF ReadyAgrees, ReadyIsTrue
  <2>4. CASE UNCHANGED inst
    BY <1>1, <2>4 DEF ReadyAgrees, ReadyIsTrue
  <2> QED
    BY <2>1, <2>2, <2>3, <2>4, Frame, Zenon
<1> QED
  BY <1>2, <1>3, <1>4 DEF ReadyIsTrue

\* What Report leaves of statusInfo.
LEMMA ReportInfo ==
  ASSUME RunInv, NEW e, NEW known, NEW again, Report(e, known, again)
  PROVE  /\ pc' = "build" /\ todo' = {}
         /\ info'.live = info.live /\ info'.err = e /\ info'.known = known /\ info'.requeue = again
<1>1. info \in Info
  BY RunTypes
<1> QED
  BY <1>1, Zenon DEF Report, Info

LEMMA InfoStaysByPlace ==
  ASSUME RestInv, Next
  PROVE  InfoByPlace'
<1> USE DEF RestInv, Background
<1>0. info \in Info
  BY RunTypes
<1>1. ASSUME NEW again, Return(again) PROVE InfoByPlace'
  BY <1>1, Zenon DEF Return, InfoByPlace
<1>2. ASSUME NEW e, NEW known, NEW again, Report(e, known, again), ~info.live, seen' = {}
      PROVE  InfoByPlace'
  BY <1>2, ReportInfo, Zenon DEF InfoByPlace
<1>3. CASE Reconcile
  <2>1. CASE pc' = "prepare" /\ UNCHANGED <<info, seen>>
    BY <1>3, <2>1 DEF Reconcile, InfoByPlace
  <2> QED
    BY <1>1, <1>3, <2>1, Zenon DEF Reconcile
<1>4. CASE Prepare
  <2>1. info = NoInfo /\ seen = {}
    BY <1>4, Zenon DEF Prepare, InfoByPlace
  <2>2. CASE pc' = "filter" /\ UNCHANGED <<info, seen>>
    BY <2>1, <2>2, Zenon DEF InfoByPlace
  <2>3. ~info.live
    BY <2>1, Zenon DEF NoInfo
  <2> QED
    BY <1>1, <1>2, <1>4, <2>1, <2>2, <2>3, Zenon DEF Prepare
<1>5. CASE \E o \in Object : Filter(o)
  BY <1>5 DEF Filter, InfoByPlace
<1>6. CASE BeforeApply
  <2>1. info = NoInfo /\ seen = {}
    BY <1>6, Zenon DEF BeforeApply, InfoByPlace
  <2>2. ~info.live /\ ~info.requeue /\ info.known # "VersionCheckFailed"
    BY <2>1, Zenon DEF NoInfo
  <2>3. CASE pc' = "apply" /\ UNCHANGED <<info, seen>>
    BY <2>1, <2>2, <2>3, Zenon DEF InfoByPlace
  <2>4. seen' = seen
    BY <1>6, Zenon DEF BeforeApply
  <2> QED
    BY <1>2, <1>6, <2>1, <2>2, <2>3, <2>4, Zenon DEF BeforeApply
<1>7. CASE DirectApply
  <2>1. info = NoInfo /\ seen = {}
    BY <1>7 DEF DirectApply, InfoByPlace
  <2>2. ~info.live /\ ~info.requeue /\ info.known # "VersionCheckFailed"
    BY <2>1, Zenon DEF NoInfo
  <2>3. CASE pc' = "apply" /\ info' \in {info, [info EXCEPT !.known = "FailedToApply"]} /\ seen' = seen
    <3>1. ~info'.live /\ ~info'.requeue /\ info'.known # "VersionCheckFailed"
      BY <1>0, <2>2, <2>3, Zenon DEF Info
    <3> QED
      BY <2>1, <2>3, <3>1, Zenon DEF InfoByPlace
  <2>4. seen' = seen
    BY <1>7 DEF DirectApply
  <2>5. \/ \E e, known, again : Report(e, known, again)
        \/ pc' = "apply" /\ info' \in {info, [info EXCEPT !.known = "FailedToApply"]}
    BY <1>7, Zenon DEF DirectApply
  <2> QED
    BY <1>2, <2>1, <2>2, <2>3, <2>4, <2>5, Zenon
<1>8. CASE \E o \in Object : Apply(o) \/ Prune(o)
  <2>1. pc \in {"apply", "prune"} /\ pc' = pc /\ seen' = seen
    BY <1>8 DEF Apply, Prune
  <2>2. info' \in {info, [info EXCEPT !.err = TRUE]}
    BY <1>8, Zenon DEF Apply, Prune
  <2>3. info'.live = info.live /\ info'.requeue = info.requeue /\ info'.known = info.known
    BY <1>0, <2>2, Zenon DEF Info
  <2> QED
    BY <2>1, <2>3, Zenon DEF InfoByPlace
<1>9. CASE Applied
  <2>1. ~info.live /\ ~info.requeue /\ info.known # "VersionCheckFailed" /\ seen = {} /\ seen' = seen
    BY <1>9 DEF Applied, InfoByPlace
  <2>2. CASE pc' = "prune" /\ UNCHANGED info
    BY <2>1, <2>2, Zenon DEF InfoByPlace
  <2> QED
    BY <1>2, <1>9, <2>1, <2>2, Zenon DEF Applied
<1>10. CASE AfterApply
  <2>1. ~info.live /\ ~info.requeue /\ seen = {} /\ seen' = seen
    BY <1>10, Zenon DEF AfterApply, InfoByPlace
  <2>2. CASE pc' = "build" /\ ~ApplyFailed /\ info' = [info EXCEPT !.live = TRUE]
    <3>1. info'.live /\ ~info'.err /\ info'.known = info.known /\ info.known # "FailedToApply"
      BY <1>0, <2>2, Zenon DEF Info, ApplyFailed
    <3>2. info'.known = ""
      BY <3>1, <1>0, <1>10, Zenon DEF AfterApply, InfoByPlace, Info
    <3> QED
      BY <2>1, <2>2, <3>1, <3>2, Zenon DEF InfoByPlace
  <2>3. \/ pc' = "build" /\ ~ApplyFailed /\ info' = [info EXCEPT !.live = TRUE]
        \/ \E e, known, again : Report(e, known, again)
    BY <1>10, Zenon DEF AfterApply
  <2> QED
    BY <1>2, <2>1, <2>2, <2>3, Zenon
<1>11. CASE \E o \in Object : Observe(o)
  BY <1>11, Zenon DEF Observe, InfoByPlace
<1>12. CASE UpdateStatus \/ Restart
  BY <1>1, <1>12, Zenon DEF UpdateStatus, Restart
<1>13. CASE UNCHANGED <<pc, info, seen, todo>>
  BY <1>13, Zenon DEF InfoByPlace
<1> QED
  BY <1>3, <1>4, <1>5, <1>6, <1>7, <1>8, <1>9, <1>10, <1>11, <1>12, <1>13, Zenon
     DEF Next, RunStep, Sync, Edit, Progress, Disturb, Changed, runVars

\* A step after which nothing is queued and the cache is up to date either begins a
\* reconcile or is a step of one, from calm to calm, that writes nothing.
LEMMA CalmStep ==
  ASSUME RestInv, Next, Calm'
  PROVE  \/ Reconcile
         \/ /\ Calm /\ pc # "idle"
            /\ UNCHANGED <<agg, gen, stored, objs, inst, orig, fresh>>
            /\ \/ Prepare \/ BeforeApply \/ DirectApply \/ Applied \/ AfterApply \/ UpdateStatus
               \/ \E o \in Object : Filter(o) \/ Apply(o) \/ Prune(o) \/ Observe(o)
<1> USE DEF RestInv
<1>1. queue' = FALSE /\ synced'
  <2>1. queue' \in BOOLEAN
    BY NextRun, RunTypes, Zenon DEF vars, RunInv, TypeOK
  <2> QED
    BY <2>1 DEF Calm
<1>2. ~Sync /\ ~Restart /\ ~Edit
  BY <1>1, Zenon DEF Sync, Restart, Return, Edit
<1>3. ~\E o \in Object : Progress(o) \/ Disturb(o)
  BY <1>1, Zenon DEF Progress, Disturb, Changed
<1> SUFFICES ASSUME ~Reconcile PROVE Calm /\ pc # "idle" /\ UNCHANGED <<agg, gen, stored, objs, inst, orig, fresh>>
  BY <1>2, <1>3, Zenon DEF Next, RunStep
<1>4. \/ Prepare \/ BeforeApply \/ DirectApply \/ Applied \/ AfterApply \/ UpdateStatus
      \/ \E o \in Object : Filter(o) \/ Apply(o) \/ Prune(o) \/ Observe(o)
  BY <1>2, <1>3, Zenon DEF Next, RunStep
<1>5. pc # "idle"
  BY <1>4, Zenon DEF Prepare, BeforeApply, DirectApply, Applied, AfterApply, UpdateStatus, Filter, Apply, Prune, Observe
<1>6. queue = FALSE
  <2>1. UNCHANGED queue \/ queue' = TRUE \/ \E again : queue' = (queue \/ again)
    BY <1>4, Zenon DEF Prepare, BeforeApply, DirectApply, Applied, AfterApply, UpdateStatus, Filter, Apply, Prune,
       Observe, Return
  <2>2. queue \in BOOLEAN
    BY RunTypes
  <2> QED
    BY <1>1, <2>1, <2>2
<1>7. UNCHANGED gen /\ synced
  <2>1. UNCHANGED gen
    BY <1>2, Frame
  <2>2. CASE BeforeApply \/ AfterApply
    <3>1. UNCHANGED <<inst, named, synced>> \/ \E t, ok : UpdateParent(t, ok)
      BY <2>2, Zenon DEF BeforeApply, AfterApply, ShrinkParent
    <3> QED
      BY <1>1, <2>1, <3>1, UpdateParentStatus, Zenon
  <2>3. CASE UpdateStatus
    BY <1>1, <2>1, <2>3, Zenon DEF UpdateStatus, StatusUpdate
  <2> QED
    BY <1>1, <1>2, <2>1, <2>2, <2>3, Frame, Zenon
<1>8. Calm
  BY <1>6, <1>7 DEF Calm
<1>9. HeldIsStored
  BY <1>8 DEF CalmInv
<1>10. UNCHANGED objs
  <2>1. ASSUME NEW o \in Object, Apply(o) PROVE UNCHANGED objs
    BY <1>1, <2>1, Zenon DEF Apply
  <2>2. ASSUME NEW o \in Object, Prune(o) PROVE UNCHANGED objs
    BY <1>1, <2>2, Zenon DEF Prune
  <2> QED
    BY <1>3, <2>1, <2>2, Frame, Zenon
<1>11. UNCHANGED stored
  BY <1>1, Frame, Zenon DEF UpdateStatus, StatusUpdate
<1>12. UNCHANGED inst
  <2>1. CASE Prepare
    <3>1. VersionCheck
      BY <1>5, <1>8, <1>9 DEF Calm, HeldIsStored, VersionCheck
    <3> QED
      BY <2>1, <3>1, Zenon DEF Prepare, Return
  <2>2. CASE BeforeApply \/ AfterApply
    <3>1. UNCHANGED <<inst, named, synced>> \/ \E t, ok : UpdateParent(t, ok)
      BY <2>2, Zenon DEF BeforeApply, AfterApply, ShrinkParent
    <3>2. fresh
      BY <1>5, <1>9 DEF HeldIsStored
    <3> QED
      BY <1>1, <3>1, <3>2, UpdateParentStatus, Zenon
  <2> QED
    BY <2>1, <2>2, Frame, Zenon
<1>13. UNCHANGED <<agg, orig, fresh>>
  BY <1>2, Frame
<1> QED
  BY <1>5, <1>7, <1>8, <1>10, <1>11, <1>12, <1>13

\* The reconcile that begins reads the subject as it is.
LEMMA CalmReconcile ==
  ASSUME RestInv, Reconcile, Calm'
  PROVE  CalmInv' /\ pc' = "prepare"
<1> USE DEF RestInv, Background
<1>1. /\ pc' = "prepare" /\ inst' = cache /\ orig' = cache.status /\ fresh' = synced
      /\ UNCHANGED <<gen, stored, synced>>
  <2>1. UNCHANGED <<gen, stored, synced>>
    BY DEF Reconcile, subjVars
  <2>2. ~Return(TRUE)
    BY Zenon DEF Calm, Return
  <2> QED
    BY <2>1, <2>2, Zenon DEF Reconcile
<1>2. HeldIsStored'
  BY <1>1 DEF CacheIsTrue, HeldIsStored, Calm
<1>3. ItemsAreKept' /\ ItemsAreApplied' /\ SeenIsHealth' /\ ErrorIsReported'
  BY <1>1 DEF ItemsAreKept, ItemsAreApplied, SeenIsHealth, ErrorIsReported, Looked
<1> QED
  BY <1>1, <1>2, <1>3 DEF CalmInv

LEMMA NoInfoFields == ~NoInfo.err /\ ~NoInfo.live /\ ~NoInfo.requeue /\ NoInfo.known = ""
BY DEF NoInfo

\* The calm steps of a reconcile, but for its last.
LEMMA CalmRun ==
  ASSUME RestInv, Calm, Calm', pc # "idle",
         UNCHANGED <<agg, gen, stored, objs, inst, orig, fresh>>,
         \/ Prepare \/ BeforeApply \/ DirectApply \/ Applied \/ AfterApply
         \/ \E o \in Object : Filter(o) \/ Apply(o) \/ Prune(o) \/ Observe(o)
  PROVE  CalmInv' /\ pc' # "idle"
<1> USE DEF RestInv, Background
<1> DEFINE Claim == (ItemsAreKept /\ ItemsAreApplied /\ SeenIsHealth /\ ErrorIsReported)'
<1>1. HeldIsStored /\ ItemsAreKept /\ ItemsAreApplied /\ SeenIsHealth /\ ErrorIsReported
  BY DEF CalmInv
<1>2. info \in Info /\ inst.gen = gen /\ items \subseteq Object /\ todo \subseteq Object
  BY <1>1, RunTypes DEF HeldIsStored
<1>3. HeldIsStored'
  BY <1>1 DEF HeldIsStored
<1>4. Kept' = Kept /\ \A o : HealthOf(o)' = HealthOf(o)
  BY Zenon DEF Kept, HealthOf, Exists
<1>5. pc # "prune" => todo \subseteq items
  BY Zenon DEF RunInv, TypeOK
<1>6. ASSUME NEW e, NEW known, NEW again, Report(e, known, again), ~info.live, e \/ again
      PROVE  Claim /\ pc' # "idle"
  <2>1. pc' = "build" /\ ~info'.live /\ (info'.err \/ info'.requeue)
    BY <1>6, ReportInfo
  <2> QED
    BY <2>1, Zenon DEF ItemsAreKept, ItemsAreApplied, SeenIsHealth, ErrorIsReported, Looked
<1>7. ~Return(TRUE)
  BY Zenon DEF Return, Calm
<1>8. CASE Prepare
  <2>1. info = NoInfo /\ ~info.live
    BY <1>8, NoInfoFields, Zenon DEF Prepare, InfoByPlace
  <2>2. VersionCheck
    BY <1>2 DEF VersionCheck, Calm
  <2>3. CASE pc' = "filter" /\ items' = ManifestOf[inst.gen] /\ todo' = ManifestOf[inst.gen] /\ UNCHANGED info
    <3>1. Kept \subseteq items' /\ items' \subseteq ManifestOf[gen] /\ items' \ todo' = {}
      BY <1>2, <2>3 DEF Kept
    <3> QED
      BY <1>3, <1>4, <2>3, <3>1, Zenon DEF CalmInv, ItemsAreKept, ItemsAreApplied, SeenIsHealth, ErrorIsReported, Looked
  <2>4. \/ \E known, again : Report(TRUE, known, again)
        \/ \E e, known : Report(e, known, TRUE)
        \/ pc' = "filter" /\ items' = ManifestOf[inst.gen] /\ todo' = ManifestOf[inst.gen] /\ UNCHANGED info
    BY <1>7, <1>8, <2>2, Zenon DEF Prepare
  <2> QED
    BY <1>3, <1>6, <2>1, <2>3, <2>4, Zenon DEF CalmInv
<1>9. ASSUME NEW o \in Object, Filter(o) PROVE CalmInv' /\ pc' # "idle"
  <2>1. pc = "filter" /\ o \in todo /\ todo' = todo \ {o} /\ UNCHANGED <<pc, info>>
    BY <1>9 DEF Filter
  <2>2. items \subseteq ManifestOf[gen] /\ o \in items /\ info.known = ""
    BY <1>1, <1>5, <2>1, NoInfoFields, Zenon DEF ItemsAreKept, InfoByPlace
  <2>3. CASE items' = (IF Exists(o) /\ objs[o].ignored THEN items \ {o} ELSE items) /\ UNCHANGED unread
    <3>1. Kept \subseteq items
      BY <1>1, <2>1, <2>2, Zenon DEF ItemsAreKept
    <3>2. objs[o].ignored => Exists(o)
      BY DEF AbsentIsPlain, Exists
    <3>3. CASE objs[o].ignored
      <4>1. items' = items \ {o} /\ o \notin Kept /\ items' \ todo' = (items \ todo)
        BY <2>1, <2>3, <3>2, <3>3 DEF Kept
      <4> QED
        BY <1>1, <1>3, <1>4, <2>1, <2>2, <2>3, <3>1, <4>1, ZenonT(60)
           DEF CalmInv, ItemsAreKept, ItemsAreApplied, SeenIsHealth, ErrorIsReported, Looked
    <3>4. CASE ~objs[o].ignored
      <4>1. items' = items /\ o \in Kept /\ items' \ todo' \subseteq (items \ todo) \cup {o}
        BY <2>1, <2>2, <2>3, <3>4, Zenon DEF Kept
      <4> QED
        BY <1>1, <1>3, <1>4, <2>1, <2>2, <2>3, <3>1, <4>1, Zenon
           DEF CalmInv, ItemsAreKept, ItemsAreApplied, SeenIsHealth, ErrorIsReported, Looked
    <3> QED
      BY <3>3, <3>4
  <2>4. CASE unread' = TRUE /\ UNCHANGED items
    BY <1>1, <1>3, <1>4, <2>1, <2>2, <2>4, Zenon
       DEF CalmInv, ItemsAreKept, ItemsAreApplied, SeenIsHealth, ErrorIsReported, Looked
  <2> QED
    BY <1>9, <2>3, <2>4, Zenon DEF Filter
<1>10. ASSUME pc = "filter", todo = {}, pc' = "apply", items' \subseteq items, todo' = items', UNCHANGED unread,
              info'.known = "" => items' = items
       PROVE  Claim /\ pc' # "idle"
  <2>1. info.known = ""
    BY <1>10, NoInfoFields, Zenon DEF InfoByPlace
  <2> QED
    BY <1>1, <1>4, <1>10, <2>1, Zenon DEF ItemsAreKept, ItemsAreApplied, SeenIsHealth, ErrorIsReported, Looked
<1>11. CASE BeforeApply
  <2>1. pc = "filter" /\ todo = {} /\ UNCHANGED <<items, unread>> /\ ~info.live
    BY <1>11, NoInfoFields, Zenon DEF BeforeApply, InfoByPlace
  <2>2. (\E known, again : Report(TRUE, known, again)) \/ (pc' = "apply" /\ todo' = items)
    BY <1>11, Zenon DEF BeforeApply
  <2>3. Claim /\ pc' # "idle"
    BY <1>6, <1>10, <2>1, <2>2, Zenon
  <2> QED
    BY <1>3, <2>3 DEF CalmInv
<1>12. CASE DirectApply
  <2>1. pc = "filter" /\ todo = {} /\ UNCHANGED unread /\ ~info.live
    BY <1>12, NoInfoFields, Zenon DEF DirectApply, InfoByPlace
  <2>2. \/ \E known, again : Report(TRUE, known, again)
        \/ pc' = "apply" /\ todo' = items' /\ items' = items
        \/ pc' = "apply" /\ todo' = items' /\ items' \subseteq items /\ info' = [info EXCEPT !.known = "FailedToApply"]
    <3>1. ASSUME NEW o \in items,
                 \/ items = {o} /\ Report(TRUE, "FailedToApply", FALSE) /\ UNCHANGED items
                 \/ /\ items # {o}
                    /\ pc' = "apply" /\ items' = items \ {o} /\ todo' = items \ {o}
                    /\ info' = [info EXCEPT !.known = "FailedToApply"]
          PROVE  \/ \E known, again : Report(TRUE, known, again)
                 \/ /\ pc' = "apply" /\ todo' = items' /\ items' \subseteq items
                    /\ info' = [info EXCEPT !.known = "FailedToApply"]
      BY <3>1, Zenon
    <3> QED
      BY <1>12, <3>1, Zenon DEF DirectApply
  <2>3. CASE info' = [info EXCEPT !.known = "FailedToApply"]
    <3>1. info'.known # ""
      BY <1>2, <2>3, Zenon DEF Info
    <3> QED
      BY <1>3, <1>6, <1>10, <2>1, <2>2, <3>1, Zenon DEF CalmInv
  <2>4. CASE info' # [info EXCEPT !.known = "FailedToApply"]
    BY <1>3, <1>6, <1>10, <2>1, <2>2, <2>4, Zenon DEF CalmInv
  <2> QED
    BY <2>3, <2>4
<1>13. ASSUME NEW o \in Object, Apply(o) PROVE CalmInv' /\ pc' # "idle"
  <2>1. pc = "apply" /\ todo' = todo \ {o} /\ UNCHANGED <<pc, items, unread>>
    BY <1>13 DEF Apply
  <2>2. (objs[o].gen = gen /\ UNCHANGED info) \/ info' = [info EXCEPT !.err = TRUE]
    BY <1>2, <1>13, Zenon DEF Apply, Calm
  <2>3. info'.known = info.known /\ (~info'.err => ~info.err /\ objs[o].gen = gen)
    BY <1>2, <2>2, Zenon DEF Info
  <2>4. items \ todo' \subseteq (items \ todo) \cup {o}
    BY <2>1
  <2> QED
    BY <1>1, <1>3, <1>4, <2>1, <2>3, <2>4, Zenon
       DEF CalmInv, ItemsAreKept, ItemsAreApplied, SeenIsHealth, ErrorIsReported, Looked
<1>14. CASE Applied
  <2>1. pc = "apply" /\ todo = {} /\ UNCHANGED <<items, unread>> /\ ~info.live
    BY <1>14 DEF Applied, InfoByPlace
  <2>2. CASE ~info.err /\ pc' = "prune" /\ UNCHANGED info
    BY <1>1, <1>3, <1>4, <2>1, <2>2, Zenon
       DEF CalmInv, ItemsAreKept, ItemsAreApplied, SeenIsHealth, ErrorIsReported, Looked
  <2>3. CASE Report(TRUE, "FailedToApply", FALSE)
    BY <1>3, <1>6, <2>1, <2>3, Zenon DEF CalmInv
  <2> QED
    BY <1>14, <2>2, <2>3, Zenon DEF Applied
<1>15. ASSUME NEW o \in Object, Prune(o) PROVE CalmInv' /\ pc' # "idle"
  <2>1. pc = "prune" /\ UNCHANGED <<pc, items, unread>>
    BY <1>15 DEF Prune
  <2>2. UNCHANGED info \/ info' = [info EXCEPT !.err = TRUE]
    BY <1>15, Zenon DEF Prune
  <2>3. info'.known = info.known
    BY <1>2, <2>2, Zenon DEF Info
  <2> QED
    BY <1>1, <1>3, <1>4, <2>1, <2>3, Zenon
       DEF CalmInv, ItemsAreKept, ItemsAreApplied, SeenIsHealth, ErrorIsReported, Looked
<1>16. CASE AfterApply
  <2>1. pc = "prune" /\ UNCHANGED <<items, unread, seen>> /\ ~info.live /\ seen = {}
    BY <1>16, Zenon DEF AfterApply, InfoByPlace
  <2>2. CASE pc' = "build" /\ todo' = items /\ info' = [info EXCEPT !.live = TRUE]
    <3>1. info'.live /\ info'.known = info.known
      BY <1>2, <2>2, Zenon DEF Info
    <3> QED
      BY <1>1, <1>3, <1>4, <2>1, <2>2, <3>1, Zenon
         DEF CalmInv, ItemsAreKept, ItemsAreApplied, SeenIsHealth, ErrorIsReported, Looked
  <2>3. CASE \E known, again : Report(TRUE, known, again)
    BY <1>3, <1>6, <2>1, <2>3, Zenon DEF CalmInv
  <2> QED
    BY <1>16, <2>2, <2>3, Zenon DEF AfterApply
<1>17. ASSUME NEW o \in Object, Observe(o) PROVE CalmInv' /\ pc' # "idle"
  <2>1. pc = "build" /\ o \in todo /\ todo' = todo \ {o} /\ UNCHANGED <<pc, items, info>>
    BY <1>17 DEF Observe
  <2>2. Looked /\ o \in items
    BY <1>5, <2>1, Zenon DEF InfoByPlace, Looked
  <2>3. items \ todo' = (items \ todo) \cup {o}
    BY <2>1, <2>2
  <2>4. CASE seen' = seen \cup {HealthOf(o)} /\ UNCHANGED unread
    BY <1>1, <1>3, <1>4, <2>1, <2>2, <2>3, <2>4, Zenon
       DEF CalmInv, ItemsAreKept, ItemsAreApplied, SeenIsHealth, ErrorIsReported, Looked
  <2>5. CASE seen' = seen \cup {"unknown"} /\ unread' = TRUE
    BY <1>1, <1>3, <1>4, <2>1, <2>2, <2>3, <2>5, Zenon
       DEF CalmInv, ItemsAreKept, ItemsAreApplied, SeenIsHealth, ErrorIsReported, Looked
  <2> QED
    BY <1>17, <2>4, <2>5, Zenon DEF Observe
<1> QED
  BY <1>8, <1>9, <1>11, <1>12, <1>13, <1>14, <1>15, <1>16, <1>17

\* The end of a calm reconcile: the status that was computed is the one that is stored,
\* whether or not it was sent.
LEMMA CalmUpdateStatus ==
  ASSUME RestInv, Calm, Calm', pc # "idle",
         UNCHANGED <<agg, gen, stored, objs, inst, orig, fresh>>, UpdateStatus
  PROVE  CalmInv' /\ RestingStatusIsTrue'
<1> USE DEF RestInv, Background
<1> DEFINE new == BuildStatus(inst.status)
<1>1. HeldIsStored /\ ItemsAreKept /\ ItemsAreApplied /\ SeenIsHealth /\ ErrorIsReported
  BY DEF CalmInv
<1>2. info \in Info /\ inst.gen = gen /\ orig = stored /\ inst.status \in Status /\ stored \in Status
      /\ objs \in [Object -> [gen: 0..MaxGen, health: Health, ignored: BOOLEAN]] /\ gen \in Gen
      /\ queue \in BOOLEAN
  BY <1>1, RunTypes DEF HeldIsStored
<1>3. pc = "build" /\ todo = {}
  BY DEF UpdateStatus
<1>4. (SameCommon(new, orig) \/ Marshal(new) = stored) /\ Return(info.err \/ info.requeue)
  <2>1. ~Return(TRUE) /\ synced'
    BY Zenon DEF Return, Calm
  <2> QED
    BY <2>1, Zenon DEF UpdateStatus, StatusUpdate
<1>5. pc' = "idle" /\ UNCHANGED unread /\ ~info.err /\ ~info.requeue
  BY <1>2, <1>4, Zenon DEF Return, Calm, Info
<1>6. CalmInv'
  BY <1>5, Zenon DEF CalmInv, HeldIsStored, ItemsAreKept, ItemsAreApplied, SeenIsHealth, ErrorIsReported, Looked
<1>7. Looked /\ info.live /\ info.known = ""
  BY <1>1, <1>3, <1>5, Zenon DEF ErrorIsReported, Looked, InfoByPlace
<1>8. /\ Kept \subseteq items /\ (~unread => items \subseteq Kept)
      /\ \A o \in items : objs[o].gen = gen
      /\ \A o \in items : HealthOf(o) \in seen \/ (unread /\ "unknown" \in seen)
      /\ \A h \in seen : (unread /\ h = "unknown") \/ \E o \in items : HealthOf(o) = h
  <2>1. items \ todo = items
    BY <1>3
  <2> QED
    BY <1>1, <1>7, <2>1, Zenon DEF ItemsAreKept, ItemsAreApplied, SeenIsHealth
<1>9. new.healthy = stored.healthy /\ new.obs = stored.obs /\ new.phase = stored.phase
  <2>1. new \in Status
    BY <1>2, BuildStatusType DEF RunInv
  <2>2. [new EXCEPT !.ready = stored.ready] = stored \/ Marshal(new) = stored
    BY <1>2, <1>4 DEF SameCommon
  <2> HIDE DEF new
  <2>3. CASE [new EXCEPT !.ready = stored.ready] = stored
    BY <2>1, <2>3, Zenon DEF Status
  <2>4. CASE Marshal(new) = stored
    BY <2>1, <2>4, MarshalKeeps
  <2> QED
    BY <2>2, <2>3, <2>4
<1>10. AllHealthy <=> \A o \in Kept : objs[o].gen = gen /\ HealthOf(o) = "ready"
  BY Zenon DEF AllHealthy, Kept
<1>11. AllHealthy' = AllHealthy
  BY Zenon DEF AllHealthy, HealthOf, Exists
<1>12. CASE agg = "aggregate"
  <2>1. new.obs = gen /\ (new.healthy <=> seen \subseteq {"ready"})
    BY <1>2, <1>5, <1>12, Zenon DEF BuildStatus, Aggregate, Status
  <2>2. new.healthy => AllHealthy
    BY <1>8, <1>10, <2>1
  <2>3. ~unread /\ AllHealthy => new.healthy
    BY <1>8, <1>10, <2>1
  <2>4. stored'.obs = gen' /\ (~unread' => (stored'.healthy <=> AllHealthy')) /\ (stored'.healthy => AllHealthy')
        /\ agg' # "kstatus"
    BY <1>2, <1>5, <1>9, <1>11, <1>12, <2>1, <2>2, <2>3, Zenon DEF Status
  <2> QED
    BY <1>6, <2>4, Zenon DEF RestingStatusIsTrue
<1>13. CASE agg = "kstatus"
  <2>1. new.obs = gen /\ new.phase = AggregateStatus /\ new.healthy = (AggregateStatus = "Current")
    BY <1>2, <1>5, <1>7, <1>13, Zenon DEF BuildStatus, Kstatus, Status
  <2>2. /\ new.healthy <=> ("progressing" \notin seen /\ "failed" \notin seen)
        /\ AggregateStatus \in {"Current", "InProgress", "Failed"}
    BY <2>1, Zenon DEF AggregateStatus
  <2>3. ~unread => (new.healthy <=> AllHealthy)
    <3> SUFFICES ASSUME ~unread PROVE new.healthy <=> AllHealthy
      OBVIOUS
    <3>1. ASSUME NEW o \in items PROVE HealthOf(o) = objs[o].health /\ objs[o].health \in Health
      <4>1. o \in Object /\ objs[o].gen = gen
        BY <1>8, RunTypes
      <4>2. Exists(o)
        BY <1>2, <4>1 DEF Exists, Gen
      <4> QED
        BY <1>2, <1>13, <4>1, <4>2 DEF HealthOf
    <3>2. items = Kept
      BY <1>8, Zenon
    <3>3. seen \subseteq {"ready", "progressing", "failed"}
      BY <1>8, <3>1 DEF Health
    <3>4. new.healthy <=> seen \subseteq {"ready"}
      BY <2>2, <3>3
    <3> QED
      BY <1>8, <1>10, <3>2, <3>4
  <2>4. stored.ready = IF stored.healthy THEN [status |-> "True", reason |-> "Normal"]
                       ELSE [status |-> "False", reason |-> "ManifestsNotReady"]
    <3>1. ReadyAgrees(stored)
      BY DEF ReadyIsTrue
    <3>2. stored.phase \in {"Current", "InProgress", "Failed"} /\ (stored.healthy <=> stored.phase = "Current")
      BY <1>9, <2>1, <2>2, Zenon
    <3> QED
      BY <1>13, <3>1, <3>2 DEF ReadyAgrees
  <2>5. stored'.obs = gen' /\ (~unread' => (stored'.healthy <=> AllHealthy')) /\ agg' # "aggregate"
        /\ stored' = stored
    BY <1>2, <1>5, <1>9, <1>11, <1>13, <2>1, <2>3, Zenon DEF Status
  <2> QED
    BY <1>6, <2>4, <2>5, Zenon DEF RestingStatusIsTrue
<1> QED
  BY <1>12, <1>13, RunTypes

LEMMA NextRest == RestInv /\ [Next]_vars => RestInv'
<1> SUFFICES ASSUME RestInv, [Next]_vars PROVE RestInv'
  OBVIOUS
<1>1. RunInv'
  BY NextRun DEF RestInv
<1>2. CASE UNCHANGED vars
  <2>1. Background'
    <3>1. CacheIsTrue' /\ AbsentIsPlain' /\ InfoByPlace'
      BY <1>2, Zenon DEF vars, subjVars, runVars, RestInv, Background, CacheIsTrue, AbsentIsPlain, InfoByPlace
    <3>2. ReadyIsTrue'
      BY <1>2, Zenon DEF vars, subjVars, runVars, RestInv, Background, ReadyIsTrue, ReadyAgrees
    <3> QED
      BY <3>1, <3>2 DEF Background
  <2>2. Kept' = Kept /\ (\A o : HealthOf(o)' = HealthOf(o)) /\ Looked' = Looked /\ AllHealthy' = AllHealthy
    BY <1>2, Zenon DEF vars, subjVars, runVars, Kept, HealthOf, Exists, Looked, AllHealthy
  <2>3. CalmInv'
    BY <1>2, <2>2, Zenon DEF vars, subjVars, runVars, RestInv, CalmInv, Calm, HeldIsStored, ItemsAreKept, ItemsAreApplied,
       SeenIsHealth, ErrorIsReported
  <2>4. RestingStatusIsTrue'
    BY <1>2, <2>2 DEF vars, subjVars, runVars, RestInv, RestingStatusIsTrue, AtRest
  <2> QED
    BY <1>1, <2>1, <2>3, <2>4 DEF RestInv
<1>3. CASE Next
  <2>1. Background'
    BY <1>3, CacheStaysTrue, AbsentStaysPlain, ReadyStaysTrue, InfoStaysByPlace DEF Background
  <2>2. CASE Calm'
    <3>1. CASE Reconcile
      BY <1>1, <2>1, <2>2, <3>1, CalmReconcile DEF RestInv, RestingStatusIsTrue, AtRest
    <3>2. CASE ~Reconcile /\ UpdateStatus
      BY <1>1, <1>3, <2>1, <2>2, <3>2, CalmStep, CalmUpdateStatus, Zenon DEF RestInv
    <3>3. CASE ~Reconcile /\ ~UpdateStatus
      <4>1. CalmInv' /\ pc' # "idle"
        BY <1>3, <2>2, <3>3, CalmStep, CalmRun, Zenon
      <4> QED
        BY <1>1, <2>1, <4>1 DEF RestInv, RestingStatusIsTrue, AtRest
    <3> QED
      BY <3>1, <3>2, <3>3
  <2>3. CASE ~Calm'
    <3>1. CalmInv' /\ RestingStatusIsTrue'
      BY <2>3 DEF CalmInv, RestingStatusIsTrue, AtRest, Calm
    <3> QED
      BY <1>1, <2>1, <3>1 DEF RestInv
  <2> QED
    BY <2>2, <2>3
<1> QED
  BY <1>2, <1>3

\* What the status says when the controller has nothing left to do is true, for every
\* number of objects, generations and mishaps.
THEOREM StatusLeftIsTrue == Spec => []RestingStatusIsTrue
<1>1. RestInv => RestingStatusIsTrue
  BY DEF RestInv
<1> QED
  BY <1>1, InitRest, NextRest, PTL DEF Spec

-----------------------------------------------------------------------------
(***************************************************************************)
(* A reconcile comes to an end.                                            *)
(***************************************************************************)
\* The loops of reconcileExists are over the items of the manifest, what the applier
\* sends, what it prunes and what BuildStatus reads: with finitely many objects every
\* reconcile has finitely many steps, whatever faults there are and whatever happens
\* beside it.
THEOREM ReconcilesAdvance == Spec => ReconcileAdvances
<1>1. ASSUME RunStep, pc # "idle" PROVE Advances
  <2>1. CASE Prepare
    BY <2>1, Zenon DEF Prepare, Return, Report, Advances
  <2>2. CASE BeforeApply
    BY <2>2, Zenon DEF BeforeApply, Report, Advances
  <2>3. CASE DirectApply
    BY <2>3, Zenon DEF DirectApply, Report, Advances
  <2>4. CASE Applied
    BY <2>4, Zenon DEF Applied, Report, Advances
  <2>5. CASE AfterApply
    BY <2>5, Zenon DEF AfterApply, Report, Advances
  <2>6. CASE UpdateStatus
    BY <2>6, Zenon DEF UpdateStatus, Return, Advances
  <2>7. ASSUME NEW o \in Object, Filter(o) \/ Apply(o) \/ Prune(o) \/ Observe(o) PROVE Advances
    <3>1. pc' = pc /\ o \in todo /\ (todo' = todo \ {o} \/ todo' = {})
      BY <2>7, Zenon DEF Filter, Apply, Prune, Observe
    <3> QED
      BY <3>1 DEF Advances
  <2> QED
    BY <1>1, <2>1, <2>2, <2>3, <2>4, <2>5, <2>6, <2>7, Zenon DEF RunStep, Reconcile
<1>2. ASSUME Next, ~RunStep PROVE pc' = "idle" \/ (pc' = pc /\ todo' = todo)
  <2>1. CASE Sync \/ Edit
    BY <2>1 DEF Sync, Edit, runVars
  <2>2. CASE Restart
    BY <2>2, Zenon DEF Restart, Return
  <2>3. ASSUME NEW o \in Object, Progress(o) \/ Disturb(o) PROVE pc' = pc /\ todo' = todo
    BY <2>3 DEF Progress, Disturb, Changed, runVars
  <2> QED
    BY <1>2, <2>1, <2>2, <2>3, Zenon DEF Next
<1>3. [Next]_vars =>
        [pc # "idle" => /\ RunStep => Advances
                        /\ ~RunStep => pc' = "idle" \/ (pc' = pc /\ todo' = todo)]_vars
  BY <1>1, <1>2
<1> QED
  BY <1>3, PTL DEF Spec, ReconcileAdvances
=============================================================================
