------------------------- MODULE ObjectTrackerProofs -------------------------
(***************************************************************************)
(* Proofs about ObjectTracker: its types and the use of the mutex, that    *)
(* metrics are not removed early, and that a gauge agrees with the cluster *)
(* once the handler of its kind has caught up.                             *)
(***************************************************************************)
EXTENDS ObjectTracker, FiniteSetTheorems, TLAPS

EventOf(k)  == [type: {"create", "update", "delete"}, obj: {o \in Object : KindOf[o] = k}]
HandOf(k)   == [obj: {o \in Object : KindOf[o] = k}, val: {0, 1}]
RunType     == [pc: {"idle", "add", "expire", "unset", "apply"}, manifest: SUBSET Object, todo: SUBSET Object]
CounterType == [count: 0..MaxDuration, deleted: BOOLEAN]

\* TypeOK with the types of what it leaves open.
TrackerTypes ==
  /\ TypeOK
  /\ DOMAIN events = Kind /\ \A k \in Kind : events[k] \in Seq(EventOf(k))
  /\ DOMAIN hand = Kind /\ \A k \in Kind : hand[k] \in HandOf(k) \cup {Empty}
  /\ mu \in Worker \cup {NoWorker}
  /\ run \in [Worker -> RunType]

\* A counter runs only while its object is gone, and no faster than the reconciles, the
\* one that last handled the object included.
CounterIsOld ==
  \A o \in Object : Has(o) => ids[o].count <= rest[o] + 1 /\ (~ids[o].deleted => ids[o].count = 0)

\* no event about o waits
NoNews(o) == \A i \in 1..Len(events[KindOf[o]]) : events[KindOf[o]][i].obj # o

\* the handler has looked o up and is about to set its gauge
InHand(o) == hand[KindOf[o]] # Empty /\ hand[KindOf[o]].obj = o

\* What was last said of o, by an event that waits, by the value in the handler's hand,
\* or by the gauge, is so.
LastWord(o) ==
  LET q == events[KindOf[o]]
  IN  /\ \A i \in 1..Len(q) :
           q[i].obj = o /\ (\A j \in 1..Len(q) : j > i => q[j].obj # o) => (q[i].type = "delete" <=> o \notin live)
      /\ NoNews(o) /\ InHand(o) => (hand[KindOf[o]].val = 1 <=> o \in live)
      /\ NoNews(o) /\ ~InHand(o) /\ o \notin expired /\ gauge[o] # NoSeries => (gauge[o] = 1 <=> o \in live)

\* An object that was never in its list has no gauge, and none is on its way; nor has
\* one of a kind that is not watched.
Silent(o) ==
  /\ (~Has(o) /\ o \notin expired) \/ KindOf[o] \notin started => gauge[o] = NoSeries /\ ~InHand(o)
  /\ KindOf[o] \notin started => NoNews(o)

WordInv == \A o \in Object : LastWord(o) /\ Silent(o)

TrackerInv == TrackerTypes /\ CounterIsOld /\ WordInv

LEMMA CounterTypes ==
  /\ NewCounter \in CounterType /\ NewCounter.count = 0 /\ NewCounter # Untracked
  /\ Untracked \notin CounterType
BY TrackerConstants DEF NewCounter, Untracked, CounterType

LEMMA InitTracker == Init => TrackerInv
<1> SUFFICES ASSUME Init PROVE TrackerInv
  OBVIOUS
<1>1. TypeOK
  <2>1. \A w \in Worker : run[w].pc = "idle" /\ mu # w
    BY TrackerSets DEF Init, NoRun
  <2>2. \A k \in Kind : DOMAIN events[k] = {}
    BY DEF Init
  <2>3. \A w \in Worker : mu = w <=> run[w].pc \in {"add", "expire", "unset"}
    BY <2>1
  <2> QED
    BY <2>2, <2>3, TrackerConstants DEF Init, TypeOK, NoSeries
<1>2. TrackerTypes
  <2>1. \A k \in Kind : events[k] \in Seq(EventOf(k))
    BY DEF Init
  <2> QED
    BY <1>1, <2>1 DEF Init, TrackerTypes, RunType, NoRun
<1>3. CounterIsOld
  BY DEF Init, CounterIsOld, Has
<1>4. \A o \in Object : KindOf[o] \in Kind /\ events[KindOf[o]] = <<>> /\ gauge[o] = NoSeries /\ hand[KindOf[o]] = Empty
  BY TrackerConstants DEF Init
<1>5. WordInv
  BY <1>4 DEF WordInv, LastWord, Silent, NoNews, InHand
<1> QED
  BY <1>2, <1>3, <1>5 DEF TrackerInv

\* An event about o goes to the end of the queue of its kind, if the kind is watched.
LEMMA NotifyEvents ==
  ASSUME TrackerTypes, NEW type \in {"create", "update", "delete"}, NEW o \in Object, Notify(type, o)
  PROVE  /\ DOMAIN events' = Kind /\ \A k \in Kind : events'[k] \in Seq(EventOf(k))
         /\ \A k \in Kind : k # KindOf[o] => events'[k] = events[k]
         /\ KindOf[o] \notin started => events' = events
         /\ KindOf[o] \in started => events'[KindOf[o]] = Append(events[KindOf[o]], [type |-> type, obj |-> o])
<1> DEFINE e == [type |-> type, obj |-> o]
<1>1. KindOf[o] \in Kind /\ e \in EventOf(KindOf[o])
  BY TrackerConstants DEF EventOf
<1>2. Append(events[KindOf[o]], e) \in Seq(EventOf(KindOf[o]))
  BY <1>1 DEF TrackerTypes
<1> QED
  BY <1>1, <1>2 DEF TrackerTypes, Notify

LEMMA SeqOfFunction ==
  ASSUME NEW T, NEW n \in Nat, NEW f \in [1..n -> T]
  PROVE  f \in Seq(T) /\ Len(f) = n
OBVIOUS

\* The watch of a kind begins with what is there.
LEMMA FirstEvents ==
  ASSUME TrackerTypes, NEW o \in Object, NEW s \in InAnyOrder({p \in live : KindOf[p] = KindOf[o]}),
         events' = [events EXCEPT ![KindOf[o]] = [i \in DOMAIN s |-> [type |-> "create", obj |-> s[i]]]]
  PROVE  /\ DOMAIN events' = Kind /\ \A k \in Kind : events'[k] \in Seq(EventOf(k))
         /\ \A k \in Kind : k # KindOf[o] => events'[k] = events[k]
         /\ \A i \in 1..Len(events'[KindOf[o]]) :
              events'[KindOf[o]][i].type = "create" /\ events'[KindOf[o]][i].obj \in live
<1> DEFINE S == {p \in live : KindOf[p] = KindOf[o]}
           new == [i \in DOMAIN s |-> [type |-> "create", obj |-> s[i]]]
<1>1. Cardinality(S) \in Nat
  BY TrackerSets, FS_Subset, FS_CardinalityType DEF TrackerTypes, TypeOK
<1>2. s \in [1..Cardinality(S) -> S]
  BY Zenon DEF InAnyOrder, Bijection, Injection
<1>3. new \in [1..Cardinality(S) -> EventOf(KindOf[o])]
  BY <1>2 DEF EventOf, TrackerTypes, TypeOK
<1>4. new \in Seq(EventOf(KindOf[o])) /\ Len(new) = Cardinality(S)
  BY <1>1, <1>3, SeqOfFunction, Zenon
<1>5. \A i \in 1..Len(new) : new[i].type = "create" /\ new[i].obj \in live
  BY <1>1, <1>2, <1>4
<1>6. KindOf[o] \in Kind
  BY TrackerConstants
<1> HIDE DEF new
<1>7. events'[KindOf[o]] = new /\ DOMAIN events' = Kind /\ \A k \in Kind : k # KindOf[o] => events'[k] = events[k]
  BY <1>6, SMTT(60) DEF TrackerTypes, new
<1> QED
  BY <1>4, <1>5, <1>6, <1>7, SMTT(60) DEF TrackerTypes

LEMMA NextTypes == ASSUME TrackerTypes, Next PROVE TrackerTypes'
<1> USE TrackerConstants, TrackerSets
<1>0. /\ listed \in Listings /\ duration \in Durations /\ live \subseteq Object
      /\ started \subseteq trackers /\ trackers \subseteq Kind
      /\ ids \in [Object -> CounterType \cup {Untracked}]
      /\ gauge \in [Object -> {NoSeries, 0, 1}]
      /\ expired \subseteq Object /\ rest \in [Object -> -1..MaxDuration] /\ changes \in 0..MaxChanges
      /\ \A w \in Worker : mu = w <=> run[w].pc \in {"add", "expire", "unset"}
      /\ DOMAIN events = Kind /\ \A k \in Kind : events[k] \in Seq(EventOf(k))
      /\ DOMAIN hand = Kind /\ \A k \in Kind : hand[k] \in HandOf(k) \cup {Empty}
      /\ mu \in Worker \cup {NoWorker}
      /\ run \in [Worker -> RunType]
  BY DEF TrackerTypes, TypeOK, CounterType
<1>w. \A w \in Worker : run[w] \in RunType
  BY <1>0, ZenonT(60)
<1> DEFINE Mutex == mu \in Worker \cup {NoWorker} /\ \A w \in Worker : mu = w <=> run[w].pc \in {"add", "expire", "unset"}
           Runs == run \in [Worker -> RunType]
           Events == DOMAIN events = Kind /\ \A k \in Kind : events[k] \in Seq(EventOf(k))
           Hands == DOMAIN hand = Kind /\ \A k \in Kind : hand[k] \in HandOf(k) \cup {Empty}
           Counters == ids \in [Object -> CounterType \cup {Untracked}] /\ rest \in [Object -> -1..MaxDuration]
           Others == /\ listed \in Listings /\ duration \in Durations /\ live \subseteq Object
                     /\ started \subseteq trackers /\ trackers \subseteq Kind
                     /\ gauge \in [Object -> {NoSeries, 0, 1}]
                     /\ expired \subseteq Object /\ changes \in 0..MaxChanges
<1>1. SUFFICES (Mutex /\ Runs /\ Events /\ Hands /\ Counters /\ Others)'
  <2>1. ASSUME Events' PROVE \A k \in Kind : \A i \in DOMAIN events'[k] : events'[k][i] \in EventOf(k)
    BY <2>1
  <2> QED
    BY <2>1 DEF TrackerTypes, TypeOK, CounterType, EventOf
<1>r. ASSUME NEW w \in Worker, NEW r \in RunType, run' = [run EXCEPT ![w] = r], mu' = mu,
             r.pc \in {"add", "expire", "unset"} <=> run[w].pc \in {"add", "expire", "unset"}
      PROVE  (Runs /\ Mutex)'
  <2>1. Runs' /\ run'[w] = r /\ \A v \in Worker : v # w => run'[v] = run[v]
    BY <1>0, <1>r
  <2> QED
    BY <1>0, <1>r, <2>1
<1>2. ASSUME NEW w \in Worker, Lock(w) PROVE (Mutex /\ Runs /\ Events /\ Hands /\ Counters /\ Others)'
  <2>1. Runs' /\ Mutex'
    BY <1>0, <1>2 DEF Lock, RunType
  <2> QED
    BY <1>0, <1>2, <2>1 DEF Lock
<1>3. ASSUME NEW w \in Worker, NEW o \in Object, AddIfNotPresent(w, o)
      PROVE  (Mutex /\ Runs /\ Events /\ Hands /\ Counters /\ Others)'
  <2>1. Runs' /\ Mutex' /\ Hands'
    <3> DEFINE r == [run[w] EXCEPT !.todo = @ \ {o}]
    <3>1. r \in RunType /\ r.pc = run[w].pc
      BY <1>w, Zenon DEF RunType
    <3>2. run' = [run EXCEPT ![w] = r] /\ mu' = mu /\ hand' = hand
      BY <1>3 DEF AddIfNotPresent
    <3> QED
      BY <1>0, <1>r, <3>1, <3>2
  <2>2. Counters'
    <3> DEFINE l == listed[o]
    <3>0. l \in Object /\ -1 \in -1..MaxDuration
      BY <1>0, TrackerListings
    <3>2. UNCHANGED <<ids, rest>> \/ (ids' = [ids EXCEPT ![l] = ResetIfItHas(l)] /\ rest' = [rest EXCEPT ![l] = -1])
      BY <1>3 DEF AddIfNotPresent
    <3> HIDE DEF l
    <3>1. ResetIfItHas(l) \in CounterType
      BY <1>0, <3>0, CounterTypes DEF ResetIfItHas, Has
    <3>3. CASE ids' = [ids EXCEPT ![l] = ResetIfItHas(l)] /\ rest' = [rest EXCEPT ![l] = -1]
      <4>1. ids' \in [Object -> CounterType \cup {Untracked}]
        BY <1>0, <3>0, <3>1, <3>3, Zenon
      <4>2. rest' \in [Object -> -1..MaxDuration]
        BY <1>0, <3>0, <3>3, Zenon
      <4> QED
        BY <4>1, <4>2
    <3> QED
      BY <1>0, <3>2, <3>3
  <2>3. Others'
    BY <1>0, <1>3 DEF AddIfNotPresent
  <2>4. Events'
    BY <1>0, <1>3, FirstEvents, Zenon DEF AddIfNotPresent
  <2> QED
    BY <2>1, <2>2, <2>3, <2>4
<1>4. ASSUME NEW w \in Worker, IncAll(w) PROVE (Mutex /\ Runs /\ Events /\ Hands /\ Counters /\ Others)'
  <2> DEFINE r == [run[w] EXCEPT !.pc = "expire"]
  <2>r. r \in RunType /\ r.pc = "expire" /\ run[w].pc = "add" /\ run' = [run EXCEPT ![w] = r] /\ mu' = mu
    BY <1>w, <1>4, Zenon DEF IncAll, RunType
  <2>1. Runs' /\ Mutex' /\ Hands' /\ Others' /\ Events'
    BY <1>0, <1>4, <1>r, <2>r DEF IncAll
  <2>2. ASSUME NEW o \in Object PROVE Inc(o) \in CounterType \cup {Untracked}
    BY <1>0 DEF Inc, Has, CounterType
  <2> QED
    BY <1>0, <1>4, <2>1, <2>2 DEF IncAll
<1>5. ASSUME NEW w \in Worker, Expire(w) PROVE (Mutex /\ Runs /\ Events /\ Hands /\ Counters /\ Others)'
  <2> DEFINE gone == {o \in Object : DeleteIfNeeded(o)}
  <2>1. gone \subseteq Object
    OBVIOUS
  <2> HIDE DEF gone
  <2>2. run' = [run EXCEPT ![w].pc = "unset", ![w].todo = gone]
    BY <1>5 DEF Expire, gone
  <2>3. Runs' /\ Mutex'
    <3> DEFINE r == [run[w] EXCEPT !.pc = "unset", !.todo = gone]
    <3>1. r \in RunType /\ r.pc = "unset"
      BY <1>w, <2>1, Zenon DEF RunType
    <3>2. run[w].pc = "expire" /\ mu' = mu
      BY <1>5 DEF Expire
    <3>3. run' = [run EXCEPT ![w] = r]
      BY <1>0, <2>2, Zenon
    <3> QED
      BY <1>0, <1>r, <3>1, <3>2, <3>3
  <2> QED
    BY <1>0, <1>5, <2>1, <2>3 DEF Expire
<1>6. ASSUME NEW w \in Worker, NEW o \in Object, Unset(w, o)
      PROVE  (Mutex /\ Runs /\ Events /\ Hands /\ Counters /\ Others)'
  <2>1. Runs' /\ Mutex'
    <3> DEFINE r == [run[w] EXCEPT !.todo = @ \ {o}]
    <3>1. r \in RunType /\ r.pc = run[w].pc /\ run' = [run EXCEPT ![w] = r] /\ mu' = mu
      BY <1>w, <1>6, Zenon DEF Unset, RunType
    <3> QED
      BY <1>0, <1>r, <3>1
  <2> QED
    BY <1>0, <1>6, <2>1 DEF Unset
<1>7. ASSUME NEW w \in Worker, Unlock(w) PROVE (Mutex /\ Runs /\ Events /\ Hands /\ Counters /\ Others)'
  <2> DEFINE r == [run[w] EXCEPT !.pc = "apply", !.todo = run[w].manifest]
  <2>r. r \in RunType /\ r.pc = "apply" /\ run[w].pc = "unset" /\ run' = [run EXCEPT ![w] = r] /\ mu' = NoWorker
    BY <1>w, <1>7, ZenonT(60) DEF Unlock, RunType
  <2>1. Runs' /\ run'[w] = r /\ \A v \in Worker : v # w => run'[v] = run[v]
    BY <1>0, <2>r
  <2>2. Mutex'
    BY <1>0, <2>r, <2>1
  <2> QED
    BY <1>0, <1>7, <2>1, <2>2 DEF Unlock
<1>8. ASSUME NEW w \in Worker, Apply(w) PROVE (Mutex /\ Runs /\ Events /\ Hands /\ Counters /\ Others)'
  <2>1. Runs' /\ Mutex'
    <3>1. NoRun \in RunType /\ NoRun.pc = "idle"
      BY DEF NoRun, RunType
    <3>2. ASSUME NEW o PROVE [run[w] EXCEPT !.todo = @ \ {o}] \in RunType /\ [run[w] EXCEPT !.todo = @ \ {o}].pc = run[w].pc
      BY <1>w, Zenon DEF RunType
    <3>3. run[w].pc = "apply" /\ mu' = mu
      BY <1>8 DEF Apply
    <3>4. CASE run' = [run EXCEPT ![w] = NoRun]
      BY <1>r, <3>1, <3>3, <3>4, Zenon
    <3>5. ASSUME NEW o, run' = [run EXCEPT ![w].todo = @ \ {o}] PROVE Runs' /\ Mutex'
      BY <1>r, <3>2, <3>3, <3>5, Zenon
    <3> QED
      BY <1>8, <3>4, <3>5, Zenon DEF Apply
  <2>2. Events'
    BY <1>0, <1>8, NotifyEvents, Zenon DEF Apply, RunType
  <2>3. live' \subseteq Object
    BY <1>0, <1>8, SMTT(60) DEF Apply, RunType
  <2> QED
    BY <1>0, <1>8, <2>1, <2>2, <2>3 DEF Apply
<1>9. ASSUME NEW k \in Kind, Handle(k) PROVE (Mutex /\ Runs /\ Events /\ Hands /\ Counters /\ Others)'
  <2> DEFINE e == Head(events[k])
  <2>1. e \in EventOf(k) /\ Tail(events[k]) \in Seq(EventOf(k))
    BY <1>0, <1>9 DEF Handle
  <2>2. e.obj \in Object /\ KindOf[e.obj] = k
    BY <2>1 DEF EventOf
  <2> HIDE DEF e
  <2>3. Events'
    BY <1>0, <1>9, <2>1 DEF Handle, e
  <2>4. Hands'
    <3>1. ASSUME NEW v \in {0, 1} PROVE [obj |-> e.obj, val |-> v] \in HandOf(k)
      BY <2>2 DEF HandOf
    <3>2. hand' = hand \/ \E v \in {0, 1} : hand' = [hand EXCEPT ![k] = [obj |-> e.obj, val |-> v]]
      BY <1>9, Zenon DEF Handle, e
    <3>3. ASSUME NEW v \in {0, 1}, hand' = [hand EXCEPT ![k] = [obj |-> e.obj, val |-> v]] PROVE Hands'
      <4> DEFINE h == [obj |-> e.obj, val |-> v]
      <4>1. h \in HandOf(k)
        BY <3>1
      <4> HIDE DEF h
      <4> QED
        BY <1>0, <3>3, <4>1 DEF h
    <3> QED
      BY <1>0, <3>2, <3>3
  <2>5. Counters'
    <3>1. Has(e.obj) => ids[e.obj] \in CounterType
      BY <1>0, <2>2 DEF Has
    <3>2. Has(e.obj) => [ids[e.obj] EXCEPT !.deleted = TRUE] \in CounterType
      BY <3>1, Zenon DEF CounterType
    <3> QED
      BY <1>0, <1>9, <2>2, <3>2, ZenonT(60) DEF Handle, e
  <2> QED
    BY <1>0, <1>9, <2>3, <2>4, <2>5, ZenonT(60) DEF Handle
<1>10. ASSUME NEW k \in Kind, Set(k) PROVE (Mutex /\ Runs /\ Events /\ Hands /\ Counters /\ Others)'
  <2>1. hand[k] \in HandOf(k)
    BY <1>0, <1>10 DEF Set
  <2>2. gauge' \in [Object -> {NoSeries, 0, 1}]
    BY <1>0, <1>10, <2>1 DEF Set, HandOf
  <2> QED
    BY <1>0, <1>10, <2>2 DEF Set
<1>11. ASSUME NEW o \in Object, Change(o) PROVE (Mutex /\ Runs /\ Events /\ Hands /\ Counters /\ Others)'
  <2>1. Events'
    BY <1>0, <1>11, NotifyEvents, Zenon DEF Change
  <2> QED
    BY <1>0, <1>11, <2>1 DEF Change
<1>12. ASSUME NEW n \in Durations, SetMetricsDuration(n)
       PROVE  (Mutex /\ Runs /\ Events /\ Hands /\ Counters /\ Others)'
  BY <1>0, <1>12 DEF SetMetricsDuration
<1> QED
  BY <1>2, <1>3, <1>4, <1>5, <1>6, <1>7, <1>8, <1>9, <1>10, <1>11, <1>12, ZenonT(60) DEF Next, WorkerStep, HandlerStep

LEMMA NextCounters == ASSUME TrackerTypes, CounterIsOld, Next PROVE CounterIsOld'
<1> USE TrackerConstants
<1>0. /\ ids \in [Object -> CounterType \cup {Untracked}] /\ rest \in [Object -> -1..MaxDuration]
      /\ DOMAIN events = Kind /\ \A k \in Kind : events[k] \in Seq(EventOf(k))
  BY DEF TrackerTypes, TypeOK, CounterType
<1>1. ASSUME NEW w \in Worker, NEW o \in Object, AddIfNotPresent(w, o) PROVE CounterIsOld'
  <2> DEFINE l == listed[o]
  <2>0. l \in Object
    BY TrackerListings DEF TrackerTypes, TypeOK
  <2>1. UNCHANGED <<ids, rest>> \/ (ids' = [ids EXCEPT ![l] = ResetIfItHas(l)] /\ rest' = [rest EXCEPT ![l] = -1])
    BY <1>1 DEF AddIfNotPresent
  <2> HIDE DEF l
  <2>2. ResetIfItHas(l).count = 0
    BY <2>0, CounterTypes DEF ResetIfItHas, CounterIsOld
  <2>3. ASSUME NEW p \in Object, ids'[p] # Untracked
        PROVE  ids'[p].count <= rest'[p] + 1 /\ (~ids'[p].deleted => ids'[p].count = 0)
    <3>1. CASE UNCHANGED <<ids, rest>>
      BY <2>3, <3>1 DEF CounterIsOld, Has
    <3>2. CASE p = l /\ ids' = [ids EXCEPT ![l] = ResetIfItHas(l)] /\ rest' = [rest EXCEPT ![l] = -1]
      BY <1>0, <2>2, <3>2
    <3>3. CASE p # l /\ ids' = [ids EXCEPT ![l] = ResetIfItHas(l)] /\ rest' = [rest EXCEPT ![l] = -1]
      <4>1. ids'[p] = ids[p] /\ rest'[p] = rest[p]
        BY <1>0, <3>3
      <4> QED
        BY <2>3, <4>1 DEF CounterIsOld, Has
    <3> QED
      BY <2>1, <3>1, <3>2, <3>3
  <2> QED
    BY <2>3 DEF CounterIsOld, Has
<1>2. ASSUME NEW w \in Worker, IncAll(w) PROVE CounterIsOld'
  <2>1. ASSUME NEW p \in Object, ids'[p] # Untracked
        PROVE  ids'[p].count <= rest'[p] + 1 /\ (~ids'[p].deleted => ids'[p].count = 0)
    <3>1. ids'[p] = Inc(p) /\ rest'[p] = IF Has(p) /\ rest[p] < MaxDuration THEN rest[p] + 1 ELSE rest[p]
      BY <1>2 DEF IncAll
    <3>2. CASE Has(p) /\ ids[p].deleted /\ ids[p].count < MaxDuration
      <4>1. ids[p] \in CounterType /\ ids[p].count <= rest[p] + 1
        BY <1>0, <3>2 DEF Has, CounterIsOld
      <4>2. Inc(p).count = ids[p].count + 1 /\ Inc(p).deleted
        BY <3>2, <4>1 DEF Inc, CounterType
      <4> QED
        BY <1>0, <3>1, <3>2, <4>1, <4>2 DEF CounterType
    <3>3. CASE ~(Has(p) /\ ids[p].deleted /\ ids[p].count < MaxDuration)
      <4>1. ids'[p] = ids[p]
        BY <3>1, <3>3 DEF Inc
      <4>2. ids[p] \in CounterType /\ ids[p].count <= rest[p] + 1 /\ (~ids[p].deleted => ids[p].count = 0)
        BY <1>0, <2>1, <4>1 DEF Has, CounterIsOld
      <4> QED
        BY <1>0, <3>1, <4>1, <4>2 DEF CounterType
    <3> QED
      BY <3>2, <3>3
  <2> QED
    BY <2>1 DEF CounterIsOld, Has
<1>3. ASSUME NEW w \in Worker, Expire(w) PROVE CounterIsOld'
  BY <1>0, <1>3 DEF Expire, CounterIsOld, Has
<1>4. ASSUME NEW k \in Kind, Handle(k) PROVE CounterIsOld'
  <2> DEFINE e == Head(events[k])
  <2>1. e \in EventOf(k)
    BY <1>0, <1>4 DEF Handle
  <2>2. e.obj \in Object
    BY <2>1 DEF EventOf
  <2> HIDE DEF e
  <2>3. UNCHANGED rest /\ (UNCHANGED ids \/ (Has(e.obj) /\ ids' = [ids EXCEPT ![e.obj].deleted = TRUE]))
    BY <1>4, Zenon DEF Handle, e
  <2>4. ASSUME Has(e.obj) PROVE [ids[e.obj] EXCEPT !.deleted = TRUE].count = ids[e.obj].count
                                /\ [ids[e.obj] EXCEPT !.deleted = TRUE].deleted = TRUE
    <3>1. ids[e.obj] \in CounterType
      BY <1>0, <2>2, <2>4 DEF Has
    <3> QED
      BY <3>1 DEF CounterType
  <2> QED
    BY <1>0, <2>2, <2>3, <2>4, Zenon DEF CounterIsOld, Has
<1>5. CASE UNCHANGED <<ids, rest>>
  BY <1>5 DEF CounterIsOld, Has
<1> QED
  BY <1>1, <1>2, <1>3, <1>4, <1>5, Zenon
     DEF Next, WorkerStep, HandlerStep, Lock, Unset, Unlock, Apply, Set, Change, SetMetricsDuration

\* A step that says nothing about p, or only takes its gauge away.
LEMMA SameWord ==
  ASSUME TrackerTypes, TrackerTypes', NEW p \in Object, LastWord(p) /\ Silent(p),
         events'[KindOf[p]] = events[KindOf[p]], hand'[KindOf[p]] = hand[KindOf[p]],
         p \in live' <=> p \in live, gauge'[p] \in {gauge[p], NoSeries}, expired \subseteq expired',
         started' = started, Has(p) /\ ~Has(p)' => p \in expired'
  PROVE  LastWord(p)' /\ Silent(p)'
<1>1. NoNews(p)' = NoNews(p) /\ InHand(p)' = InHand(p)
  BY SMTT(60) DEF NoNews, InHand
<1>2. LastWord(p)'
  BY <1>1, ZenonT(60) DEF LastWord
<1>3. Silent(p)'
  BY <1>1, Zenon DEF Silent
<1> QED
  BY <1>2, <1>3

\* An event that goes to the queue says what has become of its object.
LEMMA NewWord ==
  ASSUME TrackerTypes, TrackerTypes', NEW o \in Object, NEW type \in {"create", "update", "delete"}, Notify(type, o),
         type = "delete" <=> o \notin live', \A p \in Object : p # o => (p \in live' <=> p \in live),
         UNCHANGED <<hand, gauge, expired, started, ids>>, WordInv
  PROVE  WordInv'
<1> SUFFICES ASSUME NEW p \in Object PROVE LastWord(p)' /\ Silent(p)'
  BY DEF WordInv
<1> DEFINE K == KindOf[o]
           q == events[K]
           e == [type |-> type, obj |-> o]
<1>1. K \in Kind /\ KindOf[p] \in Kind /\ LastWord(p) /\ Silent(p) /\ Has(p)' = Has(p)
  BY TrackerConstants, Zenon DEF WordInv, Has
<1>2. CASE K \notin started
  <2>1. events' = events
    BY <1>2, NotifyEvents, Zenon
  <2>2. CASE p = o
    <3>1. NoNews(p) /\ ~InHand(p) /\ gauge[p] = NoSeries
      BY <1>1, <1>2, <2>2 DEF Silent
    <3>2. NoNews(p)' /\ ~InHand(p)'
      BY <2>1, <3>1, Zenon DEF NoNews, InHand
    <3>3. LastWord(p)'
      BY <2>1, <3>1, <3>2, ZenonT(60) DEF LastWord, NoNews
    <3>4. Silent(p)'
      BY <3>1, <3>2 DEF Silent
    <3> QED
      BY <3>3, <3>4
  <2>3. CASE p # o
    BY <1>1, <2>1, <2>3, SameWord, ZenonT(60)
  <2> QED
    BY <2>2, <2>3
<1>3. CASE K \in started /\ KindOf[p] # K
  <2>1. events'[KindOf[p]] = events[KindOf[p]]
    BY <1>1, <1>3, NotifyEvents, ZenonT(60)
  <2> QED
    BY <1>1, <1>3, <2>1, SameWord, Zenon
<1>4. CASE K \in started /\ KindOf[p] = K
  <2>1. events'[K] = Append(q, e) /\ q \in Seq(EventOf(K)) /\ e.type = type /\ e.obj = o
    BY <1>1, <1>4, NotifyEvents, Zenon DEF TrackerTypes
  <2> HIDE DEF e, q
  <2>2. Len(events'[K]) = Len(q) + 1 /\ events'[K][Len(q) + 1] = e /\ Len(q) \in Nat
        /\ \A i \in 1..Len(q) : events'[K][i] = q[i]
    BY <2>1
  <2>3. InHand(p)' = InHand(p)
    BY DEF InHand
  <2>4. Silent(p)'
    BY <1>1, <1>4, <2>3, Zenon DEF Silent
  <2>5. CASE p = o
    <3>1. ~NoNews(p)'
      BY <1>4, <2>1, <2>2, <2>5 DEF NoNews
    <3>2. ASSUME NEW i \in 1..Len(events'[K]), \A j \in 1..Len(events'[K]) : j > i => events'[K][j].obj # o
          PROVE  events'[K][i].type = "delete" <=> o \notin live'
      <4>1. i = Len(q) + 1
        BY <2>1, <2>2, <3>2
      <4> QED
        BY <2>1, <2>2, <4>1
    <3>3. LastWord(p)'
      BY <1>4, <2>5, <3>1, <3>2, ZenonT(60) DEF LastWord
    <3> QED
      BY <2>4, <3>3
  <2>6. CASE p # o
    <3>1. NoNews(p)' => NoNews(p)
      BY <1>4, <2>2, SMTT(60) DEF NoNews, q
    <3>2. ASSUME NEW i \in 1..Len(events'[K]), events'[K][i].obj = p,
                 \A j \in 1..Len(events'[K]) : j > i => events'[K][j].obj # p
          PROVE  events'[K][i].type = "delete" <=> p \notin live'
      <4>1. i \in 1..Len(q) /\ q[i] = events'[K][i]
        BY <2>1, <2>2, <2>6, <3>2
      <4>2. \A j \in 1..Len(q) : j > i => q[j].obj # p
        BY <2>2, <3>2, SMTT(60)
      <4> QED
        BY <1>1, <1>4, <2>6, <3>2, <4>1, <4>2, Zenon DEF LastWord, q
    <3>3. LastWord(p)'
      BY <1>1, <1>4, <2>3, <2>6, <3>1, <3>2, Zenon DEF LastWord
    <3> QED
      BY <2>4, <3>3
  <2> QED
    BY <2>5, <2>6
<1> QED
  BY <1>2, <1>3, <1>4

\* recordTrigger takes an event from the queue: it is the last word on its object, or
\* another one waits.
LEMMA HandleWord ==
  ASSUME TrackerTypes, TrackerTypes', WordInv, NEW k \in Kind, Handle(k)
  PROVE  WordInv'
<1> SUFFICES ASSUME NEW p \in Object PROVE LastWord(p)' /\ Silent(p)'
  BY DEF WordInv
<1> DEFINE q == events[k]
           e == Head(q)
<1>1. KindOf[p] \in Kind /\ LastWord(p) /\ Silent(p)
  BY TrackerConstants DEF WordInv
<1>2. q \in Seq(EventOf(k)) /\ q # <<>> /\ events' = [events EXCEPT ![k] = Tail(q)] /\ DOMAIN events = Kind
      /\ DOMAIN hand = Kind /\ hand[k] = Empty
  BY DEF TrackerTypes, Handle
<1> HIDE DEF q
<1>3. e = q[1] /\ e \in EventOf(k) /\ Len(q) \in Nat \ {0} /\ Len(events'[k]) = Len(q) - 1
      /\ \A i \in 1..(Len(q) - 1) : events'[k][i] = q[i + 1]
  BY <1>2
<1>4. e.obj \in Object /\ KindOf[e.obj] = k /\ UNCHANGED <<live, started, gauge, expired>>
  BY <1>3 DEF EventOf, Handle
<1>5. Has(p)' = Has(p)
  <2>1. ids \in [Object -> CounterType \cup {Untracked}]
    BY Zenon DEF TrackerTypes, TypeOK, CounterType
  <2>2. ids' = ids \/ (Has(e.obj) /\ ids' = [ids EXCEPT ![e.obj].deleted = TRUE])
    BY Zenon DEF Handle, q
  <2>3. Has(e.obj) => [ids[e.obj] EXCEPT !.deleted = TRUE] # Untracked
    <3>1. Has(e.obj) => ids[e.obj] \in CounterType
      BY <1>4, <2>1 DEF Has
    <3> QED
      BY <3>1, TrackerConstants DEF Untracked, CounterType
  <2> QED
    BY <1>4, <2>1, <2>2, <2>3 DEF Has
<1>6. \/ ~Has(e.obj) /\ hand' = hand
      \/ Has(e.obj) /\ hand' = [hand EXCEPT ![k] = [obj |-> e.obj, val |-> IF e.type = "delete" THEN 0 ELSE 1]]
  BY Zenon DEF Handle, q
<1> HIDE DEF e
<1>7. CASE KindOf[p] # k
  <2>1. events'[KindOf[p]] = events[KindOf[p]] /\ hand'[KindOf[p]] = hand[KindOf[p]]
    BY <1>1, <1>2, <1>6, <1>7
  <2> QED
    BY <1>1, <1>4, <1>5, <2>1, SameWord, Zenon
<1>8. CASE KindOf[p] = k
  <2>1. ~InHand(p) /\ (InHand(p)' => e.obj = p /\ Has(p))
    BY <1>2, <1>6, <1>8 DEF InHand
  <2>2. NoNews(p)' /\ e.obj # p => NoNews(p)
    <3> SUFFICES ASSUME NoNews(p)', e.obj # p, NEW i \in 1..Len(q) PROVE q[i].obj # p
      BY <1>8 DEF NoNews, q
    <3>1. CASE i = 1
      BY <1>3, <3>1
    <3>2. CASE i # 1
      <4>1. i - 1 \in 1..(Len(q) - 1) /\ q[i] = events'[k][i - 1]
        BY <1>3, <3>2
      <4> QED
        BY <1>3, <1>8, <4>1 DEF NoNews
    <3> QED
      BY <3>1, <3>2
  <2>3. e.obj = p => ~NoNews(p)
    BY <1>3, <1>8, SMTT(60) DEF NoNews, q
  <2>4. ASSUME NoNews(p)', e.obj = p PROVE e.type = "delete" <=> p \notin live
    <3>1. ASSUME NEW j \in 1..Len(q), j > 1 PROVE q[j].obj # p
      <4>1. j - 1 \in 1..(Len(q) - 1) /\ q[j] = events'[k][j - 1]
        BY <1>3, <3>1, SMTT(60)
      <4> QED
        BY <1>3, <1>8, <2>4, <4>1, ZenonT(60) DEF NoNews
    <3> QED
      BY <1>1, <1>3, <1>8, <2>4, <3>1 DEF LastWord, q
  <2>5. ASSUME NEW i \in 1..Len(events'[k]), events'[k][i].obj = p,
               \A j \in 1..Len(events'[k]) : j > i => events'[k][j].obj # p
        PROVE  events'[k][i].type = "delete" <=> p \notin live'
    <3>1. i + 1 \in 1..Len(q) /\ q[i + 1] = events'[k][i]
      BY <1>3
    <3>2. ASSUME NEW j \in 1..Len(q), j > i + 1 PROVE q[j].obj # p
      <4>1. j - 1 \in 1..(Len(q) - 1) /\ j - 1 > i /\ q[j] = events'[k][j - 1]
        BY <1>3, <3>2
      <4> QED
        BY <1>3, <2>5, <4>1, Zenon
    <3> QED
      BY <1>1, <1>4, <1>8, <2>5, <3>1, <3>2, Zenon DEF LastWord, q
  <2>6. ASSUME NoNews(p)', InHand(p)' PROVE hand'[k].val = 1 <=> p \in live'
    <3>1. Has(p) /\ e.obj = p
      BY <2>1, <2>6
    <3>2. hand'[k].val = IF e.type = "delete" THEN 0 ELSE 1
      BY <1>2, <1>6, <3>1
    <3> QED
      BY <1>4, <2>4, <2>6, <3>1, <3>2
  <2>7. ASSUME NoNews(p)', ~InHand(p)', p \notin expired', gauge'[p] # NoSeries PROVE gauge'[p] = 1 <=> p \in live'
    <3>1. CASE e.obj # p
      BY <1>1, <1>4, <2>1, <2>2, <2>7, <3>1, Zenon DEF LastWord
    <3>2. CASE e.obj = p
      <4>1. ~Has(p)
        <5>1. ASSUME Has(p) PROVE InHand(p)'
          <6>1. hand'[k] = [obj |-> p, val |-> IF e.type = "delete" THEN 0 ELSE 1]
            BY <1>2, <1>6, <3>2, <5>1
          <6>2. hand'[k] # Empty /\ hand'[k].obj = p
            BY <6>1 DEF Empty, NoSeries
          <6> QED
            BY <1>8, <6>2 DEF InHand
        <5> QED
          BY <2>7, <5>1
      <4> QED
        BY <1>1, <1>4, <2>7, <4>1, Zenon DEF Silent
    <3> QED
      BY <3>1, <3>2, SMTT(60)
  <2>8. LastWord(p)'
    BY <1>8, <2>5, <2>6, <2>7, Zenon DEF LastWord
  <2>9. Silent(p)'
    <3>1. KindOf[p] \in started
      BY <1>1, <1>3, <1>4, <1>8 DEF Silent, WordInv, NoNews, q
    <3> QED
      BY <1>1, <1>4, <1>5, <2>1, <3>1, Zenon DEF Silent
  <2> QED
    BY <2>8, <2>9
<1> QED
  BY <1>7, <1>8

\* The recorder sets the value it has in hand.
LEMMA SetWord ==
  ASSUME TrackerTypes, TrackerTypes', WordInv, NEW k \in Kind, Set(k)
  PROVE  WordInv'
<1> SUFFICES ASSUME NEW p \in Object PROVE LastWord(p)' /\ Silent(p)'
  BY DEF WordInv
<1>1. KindOf[p] \in Kind /\ LastWord(p) /\ Silent(p) /\ Has(p)' = Has(p)
  BY TrackerConstants, Zenon DEF WordInv, Has, Set
<1>2. hand[k] \in HandOf(k) /\ hand[k] # Empty
  BY DEF TrackerTypes, Set
<1>3. hand[k].obj \in Object /\ KindOf[hand[k].obj] = k /\ hand[k].val \in {0, 1}
  BY <1>2, SMTT(60) DEF HandOf
<1>4. /\ UNCHANGED <<events, live, started, expired>> /\ gauge' = [gauge EXCEPT ![hand[k].obj] = hand[k].val]
      /\ hand' = [hand EXCEPT ![k] = Empty] /\ DOMAIN hand = Kind /\ DOMAIN gauge = Object
  BY Zenon DEF Set, TrackerTypes, TypeOK
<1>5. NoNews(p)' = NoNews(p)
  BY <1>4, Zenon DEF NoNews
<1>6. CASE hand[k].obj = p
  <2>1. InHand(p) /\ ~InHand(p)' /\ gauge'[p] = hand[k].val
    BY <1>2, <1>3, <1>4, <1>6, Zenon DEF InHand
  <2>2. NoNews(p) => (hand[k].val = 1 <=> p \in live)
    BY <1>1, <1>3, <1>6, <2>1, Zenon DEF LastWord
  <2>3. LastWord(p)'
    BY <1>1, <1>4, <1>5, <2>1, <2>2, ZenonT(60) DEF LastWord
  <2>4. Silent(p)'
    BY <1>1, <1>4, <1>5, <2>1, Zenon DEF Silent
  <2> QED
    BY <2>3, <2>4
<1>7. CASE hand[k].obj # p
  <2>1. ~InHand(p)' \/ (InHand(p)' /\ InHand(p) /\ hand'[KindOf[p]] = hand[KindOf[p]])
    BY <1>1, <1>4, Zenon DEF InHand
  <2>2. gauge'[p] = gauge[p] /\ (InHand(p) => InHand(p)')
    BY <1>1, <1>4, <1>7, Zenon DEF InHand
  <2>3. LastWord(p)'
    BY <1>1, <1>4, <1>5, <2>1, <2>2, Zenon DEF LastWord
  <2>4. Silent(p)'
    BY <1>1, <1>4, <1>5, <2>1, <2>2, Zenon DEF Silent
  <2> QED
    BY <2>3, <2>4
<1> QED
  BY <1>6, <1>7

\* What a reconcile does to the lists, and the first watch of a kind.
LEMMA AddWord ==
  ASSUME TrackerTypes, TrackerTypes', WordInv, NEW w \in Worker, NEW o \in Object, AddIfNotPresent(w, o)
  PROVE  WordInv'
<1> SUFFICES ASSUME NEW p \in Object PROVE LastWord(p)' /\ Silent(p)'
  BY DEF WordInv
<1>1. KindOf[p] \in Kind /\ KindOf[o] \in Kind /\ LastWord(p) /\ Silent(p) /\ UNCHANGED <<live, gauge, hand, expired>>
  BY TrackerConstants DEF WordInv, AddIfNotPresent
<1>2. Has(p) => Has(p)'
  <2>1. ids \in [Object -> CounterType \cup {Untracked}]
    BY Zenon DEF TrackerTypes, TypeOK, CounterType
  <2>2. ids' = ids \/ ids' = [ids EXCEPT ![listed[o]] = ResetIfItHas(listed[o])]
    BY DEF AddIfNotPresent
  <2>3. ResetIfItHas(listed[o]) # Untracked
    BY CounterTypes, SMTT(60) DEF ResetIfItHas, Has
  <2> QED
    BY <2>1, <2>2, <2>3, SMTT(60) DEF Has
<1>3. CASE UNCHANGED <<started, events>>
  BY <1>1, <1>2, <1>3, SameWord, Zenon
<1>4. ASSUME NEW s \in InAnyOrder({r \in live : KindOf[r] = KindOf[o]}), KindOf[o] \notin trackers,
             started' = started \cup {KindOf[o]},
             events' = [events EXCEPT ![KindOf[o]] = [i \in DOMAIN s |-> [type |-> "create", obj |-> s[i]]]]
      PROVE  LastWord(p)' /\ Silent(p)'
  <2>1. /\ \A k \in Kind : k # KindOf[o] => events'[k] = events[k]
        /\ \A i \in 1..Len(events'[KindOf[o]]) :
             events'[KindOf[o]][i].type = "create" /\ events'[KindOf[o]][i].obj \in live
    BY <1>4, FirstEvents, Zenon
  <2>2. InHand(p)' = InHand(p)
    BY <1>1 DEF InHand
  <2>3. CASE KindOf[p] = KindOf[o]
    <3>1. gauge[p] = NoSeries /\ ~InHand(p)
      BY <1>1, <1>4, <2>3, Zenon DEF Silent, TrackerTypes, TypeOK
    <3>2. LastWord(p)'
      BY <1>1, <2>1, <2>2, <2>3, <3>1, Zenon DEF LastWord
    <3>3. Silent(p)'
      BY <1>1, <1>4, <2>2, <2>3, <3>1, Zenon DEF Silent
    <3> QED
      BY <3>2, <3>3, SMTT(60)
  <2>4. CASE KindOf[p] # KindOf[o]
    <3>1. events'[KindOf[p]] = events[KindOf[p]]
      BY <1>1, <2>1, <2>4, Zenon
    <3>2. NoNews(p)' = NoNews(p)
      BY <3>1, Zenon DEF NoNews
    <3>3. LastWord(p)'
      BY <1>1, <2>2, <3>1, <3>2, Zenon DEF LastWord
    <3>4. Silent(p)'
      BY <1>1, <1>2, <1>4, <2>2, <2>4, <3>2, Zenon DEF Silent
    <3> QED
      BY <3>3, <3>4, Zenon
  <2> QED
    BY <2>3, <2>4
<1> QED
  BY <1>3, <1>4, Zenon DEF AddIfNotPresent

LEMMA NextWord == ASSUME TrackerTypes, TrackerTypes', WordInv, Next PROVE WordInv'
<1>0. ASSUME UNCHANGED <<events, hand, live, started>>, expired \subseteq expired',
             \A p \in Object : gauge'[p] \in {gauge[p], NoSeries} /\ (Has(p) /\ ~Has(p)' => p \in expired')
      PROVE  WordInv'
  BY <1>0, SameWord, Zenon DEF WordInv
<1>1. ASSUME NEW w \in Worker, IncAll(w) PROVE WordInv'
  <2>1. ASSUME NEW p \in Object, Has(p) PROVE Has(p)'
    <3>1. ids[p] \in CounterType /\ ids'[p] = Inc(p)
      BY <1>1, <2>1 DEF TrackerTypes, TypeOK, CounterType, Has, IncAll
    <3>2. Inc(p) # Untracked
      BY <3>1, <2>1, TrackerConstants DEF Inc, Has, Untracked, CounterType
    <3> QED
      BY <3>1, <3>2 DEF Has
  <2> QED
    BY <1>0, <1>1, <2>1 DEF IncAll
<1>2. ASSUME NEW w \in Worker, Expire(w) PROVE WordInv'
  <2>1. ASSUME NEW p \in Object, Has(p), ~Has(p)' PROVE p \in expired'
    BY <1>2, <2>1 DEF Expire, Has
  <2>2. expired \subseteq expired' /\ UNCHANGED <<events, hand, live, started, gauge>>
    BY <1>2 DEF Expire
  <2> QED
    BY <1>0, <2>1, <2>2
<1>3. ASSUME NEW w \in Worker, NEW o \in Object, Unset(w, o) PROVE WordInv'
  <2>1. \A p \in Object : gauge'[p] \in {gauge[p], NoSeries}
    BY <1>3 DEF Unset, TrackerTypes, TypeOK
  <2> QED
    BY <1>0, <1>3, <2>1 DEF Unset, Has
<1>4. ASSUME NEW w \in Worker, Apply(w) PROVE WordInv'
  <2>1. UNCHANGED <<hand, gauge, expired, started, ids>>
    BY <1>4 DEF Apply
  <2>2. CASE UNCHANGED <<live, events>>
    BY <1>0, <2>1, <2>2 DEF Has
  <2>3. ASSUME NEW o \in run[w].todo, live' = live \cup {o}, o \in live, UNCHANGED events PROVE WordInv'
    BY <2>2, <2>3
  <2>4. ASSUME NEW o \in run[w].todo, live' = live \cup {o}, o \notin live, Notify("create", o) PROVE WordInv'
    <3>1. o \in Object
      BY DEF TrackerTypes, RunType
    <3> QED
      BY <2>1, <2>4, <3>1, NewWord
  <2> QED
    BY <1>4, <2>2, <2>3, <2>4 DEF Apply
<1>5. ASSUME NEW o \in Object, Change(o) PROVE WordInv'
  <2>1. UNCHANGED <<hand, gauge, expired, started, ids>> /\ o \in live
    BY <1>5 DEF Change
  <2>2. CASE Notify("update", o) /\ UNCHANGED live
    BY <2>1, <2>2, NewWord
  <2>3. CASE Notify("delete", o) /\ live' = live \ {o}
    BY <2>1, <2>3, NewWord
  <2> QED
    BY <1>5, <2>2, <2>3 DEF Change
<1>6. CASE UNCHANGED <<events, hand, live, started, expired, gauge, ids>>
  BY <1>0, <1>6 DEF Has
<1> QED
  BY <1>1, <1>2, <1>3, <1>4, <1>5, <1>6, AddWord, HandleWord, SetWord, ZenonT(60)
     DEF Next, WorkerStep, HandlerStep, Lock, Unlock, SetMetricsDuration

LEMMA NextTracker == TrackerInv /\ [Next]_vars => TrackerInv'
<1> SUFFICES ASSUME TrackerInv, [Next]_vars PROVE TrackerInv'
  OBVIOUS
<1>1. CASE Next
  BY <1>1, NextTypes, NextCounters, NextWord DEF TrackerInv
<1>2. CASE UNCHANGED vars
  <2>1. TrackerTypes'
    BY <1>2, ZenonT(60) DEF vars, TrackerInv, TrackerTypes, TypeOK, Has
  <2>2. CounterIsOld'
    BY <1>2, SMTT(60) DEF vars, TrackerInv, CounterIsOld, Has
  <2>3. WordInv'
    BY <1>2, <2>1, SameWord, Zenon DEF vars, TrackerInv, WordInv, Has
  <2> QED
    BY <2>1, <2>2, <2>3, SMTT(60) DEF TrackerInv
<1> QED
  BY <1>1, <1>2

\* The types hold, and the mutex is held exactly inside addIfNotPresent, for every number
\* of reconciles, kinds and objects.
THEOREM TrackerTypeCorrect == Spec => []TypeOK
<1>1. TrackerInv => TypeOK
  BY SMTT(60) DEF TrackerInv, TrackerTypes
<1> QED
  BY <1>1, InitTracker, NextTracker, PTL DEF Spec

\* The gauge of an object whose metrics were never removed agrees with the cluster as soon
\* as recordTrigger has nothing left to do for its kind.
THEOREM GaugeAgrees == Spec => []GaugeIsTrue
<1>1. TrackerInv => GaugeIsTrue
  <2> SUFFICES ASSUME TrackerInv, NEW o \in Object, o \notin expired, Quiet(KindOf[o]), gauge[o] # NoSeries
               PROVE  gauge[o] = 1 <=> o \in live
    BY Zenon DEF GaugeIsTrue
  <2>1. NoNews(o) /\ ~InHand(o)
    BY DEF Quiet, NoNews, InHand
  <2> QED
    BY <2>1, ZenonT(60) DEF TrackerInv, WordInv, LastWord
<1> QED
  BY <1>1, InitTracker, NextTracker, PTL DEF Spec

\* deleteMetricsIfNeeded removes the metrics of an object no earlier than metricsDuration - 1
\* reconciles after the one that last handled it.
THEOREM MetricsRemovedLate == Spec => RemovedLate
<1>1. TrackerInv /\ [Next]_vars => [\A o \in Object : Has(o) /\ ids'[o] = Untracked => rest[o] >= duration - 1]_vars
  <2> SUFFICES ASSUME TrackerInv, Next, NEW o \in Object, Has(o), ids'[o] = Untracked PROVE rest[o] >= duration - 1
    BY SMTT(60) DEF Has
  <2>00. ids \in [Object -> CounterType \cup {Untracked}] /\ rest \in [Object -> -1..MaxDuration] /\ duration \in Durations
         /\ CounterIsOld
    BY Zenon DEF TrackerInv, TrackerTypes, TypeOK, CounterType
  <2>0. ids \in [Object -> CounterType \cup {Untracked}] /\ rest[o] \in Int /\ duration \in Nat
        /\ ids[o] \in CounterType /\ ids[o].count <= rest[o] + 1
    BY <2>00, TrackerConstants DEF CounterIsOld, Has
  <2>1. ASSUME NEW w \in Worker, Expire(w) PROVE rest[o] >= duration - 1
    <3>1. DeleteIfNeeded(o)
      BY <2>1 DEF Expire, Has
    <3>2. ids[o].count \in Nat /\ ids[o].count >= duration
      BY <2>0, <3>1 DEF DeleteIfNeeded, CounterType
    <3> QED
      BY <2>0, <3>2
  <2>2. ASSUME NEW w \in Worker, NEW p \in Object, AddIfNotPresent(w, p) PROVE FALSE
    <3>1. ids' = ids \/ ids' = [ids EXCEPT ![listed[p]] = ResetIfItHas(listed[p])]
      BY <2>2 DEF AddIfNotPresent
    <3>2. ResetIfItHas(listed[p]) # Untracked
      BY CounterTypes DEF ResetIfItHas, Has
    <3> QED
      BY <2>0, <3>1, <3>2 DEF Has
  <2>3. ASSUME NEW w \in Worker, IncAll(w) PROVE FALSE
    <3>1. Inc(o) = Untracked
      BY <2>3 DEF IncAll
    <3> QED
      BY <2>0, <3>1, TrackerConstants DEF Inc, Has, Untracked, CounterType
  <2>4. ASSUME NEW k \in Kind, Handle(k) PROVE FALSE
    <3> DEFINE e == Head(events[k])
    <3>1. e \in EventOf(k)
      BY <2>4, SMTT(60) DEF Handle, TrackerInv, TrackerTypes
    <3>2. ids' = ids \/ (Has(e.obj) /\ ids' = [ids EXCEPT ![e.obj].deleted = TRUE])
      BY <2>4, Zenon DEF Handle
    <3> HIDE DEF e
    <3>3. [ids[o] EXCEPT !.deleted = TRUE] # Untracked
      BY <2>0, TrackerConstants DEF Untracked, CounterType
    <3> QED
      BY <2>0, <3>2, <3>3 DEF Has
  <2>5. CASE UNCHANGED ids
    BY <2>5 DEF Has
  <2> QED
    BY <2>1, <2>2, <2>3, <2>4, <2>5, ZenonT(60)
       DEF Next, WorkerStep, HandlerStep, Lock, Unset, Unlock, Apply, Set, Change, SetMetricsDuration
<1> QED
  BY <1>1, InitTracker, NextTracker, PTL DEF Spec, RemovedLate
=============================================================================
