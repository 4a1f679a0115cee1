---------------------------- MODULE ObjectTracker ----------------------------
(***************************************************************************)
(* The gauges that say which managed objects exist: metrics.go.            *)
(*                                                                         *)
(* Reconciles call addIfNotPresent before they apply, under the tracker's  *)
(* mutex; the event handlers of the watched kinds run beside them, each    *)
(* under the mutex of its kind's list only while it looks into the list.   *)
(***************************************************************************)
EXTENDS Integers, Sequences, FiniteSets, Functions

CONSTANTS
  Object, Kind, KindOf,   \* the objects, and the kind of each
  Listings,               \* what addIfNotPresent may list the objects as: see listed
  Worker,                 \* reconciles that share the tracker
  Durations, MaxDuration, \* the values of metricsDuration, the largest; counters stop there
  MaxChanges,             \* how often other clients change objects
  MaxEvents,              \* how many events may wait
  Faults                  \* "mapping", "start": no RESTMapping; the watch does not start

ASSUME TrackerConstants ==
  /\ KindOf \in [Object -> Kind]
  /\ Durations \subseteq 0..MaxDuration /\ MaxDuration \in Nat /\ MaxChanges \in Nat /\ MaxEvents \in Nat
  /\ Faults \subseteq {"mapping", "start"}

ASSUME TrackerListings ==
  \A f \in Listings : f \in [Object -> Object] /\ \A o \in Object : KindOf[f[o]] = KindOf[o]

VARIABLES
  listed,    \* [Object -> itself, or the one of its kind and name in the default namespace]
  duration,  \* metricsDuration
  live,      \* the objects in the cluster
  events,    \* [Kind -> the events that the kind's handler has not seen]
  trackers,  \* the kinds in trackedGVK
  started,   \* those whose watch runs
  ids,       \* [Object -> its counter in the kind's list, or Untracked]
  gauge,     \* [Object -> the value of its series, or NoSeries]
  hand,      \* [Kind -> the value the handler is about to set, or Empty]
  mu,        \* the worker that holds the tracker's mutex
  run,       \* [Worker -> pc, manifest and what is left of the current loop]
  rest,      \* [Object -> reconciles after the one that last handled it, -1 inside that; 0 if Untracked]
  expired,   \* the objects whose metrics were removed at some time
  changes

vars == <<listed, duration, live, events, trackers, started, ids, gauge, hand, mu, run, rest, expired, changes>>

Untracked == [count |-> -1, deleted |-> FALSE]
NewCounter == [count |-> 0, deleted |-> FALSE]
NoSeries == -1
Empty    == [obj |-> "none", val |-> NoSeries]
NoWorker == "nobody"
NoRun    == [pc |-> "idle", manifest |-> {}, todo |-> {}]

ASSUME TrackerSets == IsFiniteSet(Object) /\ NoWorker \notin Worker

Has(o) == ids[o] # Untracked

\* the members of a set as a sequence
InAnyOrder(S) == Bijection(1..Cardinality(S), S)

\* an event, for the kinds that are watched
Notify(type, o) ==
  events' = IF KindOf[o] \in started
            THEN [events EXCEPT ![KindOf[o]] = Append(@, [type |-> type, obj |-> o])]
            ELSE events

(***************************************************************************)
(* addIfNotPresent.                                                        *)
(***************************************************************************)
\* a mutated form of Lock: the mutex is not taken
Lock_NoWait(w) ==
  /\ run[w].pc = "idle"
  /\ \E D \in SUBSET Object : run' = [run EXCEPT ![w] = [pc |-> "add", manifest |-> D, todo |-> D]]
  /\ UNCHANGED <<listed, duration, live, events, trackers, started, ids, gauge, hand, mu, rest, expired, changes>>

Lock(w) ==
  /\ run[w].pc = "idle"
  /\ mu = NoWorker
  /\ mu' = w
  /\ \E D \in SUBSET Object : run' = [run EXCEPT ![w] = [pc |-> "add", manifest |-> D, todo |-> D]]
  /\ UNCHANGED <<listed, duration, live, events, trackers, started, ids, gauge, hand, rest, expired, changes>>

\* a mutated form of ResetIfItHas: the counter of a deleted object goes on
ResetIfItHas_Keeps(o) == IF Has(o) THEN ids[o] ELSE NewCounter

\* resetIfItHas, or insert
ResetIfItHas(o) == IF Has(o) /\ ~ids[o].deleted THEN ids[o] ELSE NewCounter

\* One object; the first of its kind starts the watch, which delivers what is there.
\* The default namespace, if there is one, replaces the object's own in the list only.
AddIfNotPresent(w, o) ==
  /\ run[w].pc = "add"
  /\ o \in run[w].todo
  /\ run' = [run EXCEPT ![w].todo = @ \ {o}]
  /\ \/ /\ ids' = [ids EXCEPT ![listed[o]] = ResetIfItHas(listed[o])]
        /\ rest' = [rest EXCEPT ![listed[o]] = -1]
        /\ trackers' = trackers \cup {KindOf[o]}
        /\ \/ /\ KindOf[o] \in trackers
              /\ UNCHANGED <<started, events>>
           \/ /\ KindOf[o] \notin trackers
              /\ started' = started \cup {KindOf[o]}
              /\ \E s \in InAnyOrder({p \in live : KindOf[p] = KindOf[o]}) :
                   events' = [events EXCEPT ![KindOf[o]] =
                                [i \in DOMAIN s |-> [type |-> "create", obj |-> s[i]]]]
           \/ /\ KindOf[o] \notin trackers /\ "start" \in Faults
              /\ UNCHANGED <<started, events>>
     \/ /\ "mapping" \in Faults
        /\ UNCHANGED <<ids, rest, trackers, started, events>>
  /\ UNCHANGED <<listed, duration, live, gauge, hand, mu, expired, changes>>

Inc(o) ==
  IF Has(o) /\ ids[o].deleted /\ ids[o].count < MaxDuration
  THEN [ids[o] EXCEPT !.count = @ + 1]
  ELSE ids[o]

\* deferred: inc
IncAll(w) ==
  /\ run[w].pc = "add"
  /\ run[w].todo = {}
  /\ ids' = [o \in Object |-> Inc(o)]
  /\ rest' = [o \in Object |-> IF Has(o) /\ rest[o] < MaxDuration THEN rest[o] + 1 ELSE rest[o]]
  /\ run' = [run EXCEPT ![w].pc = "expire"]
  /\ UNCHANGED <<listed, duration, live, events, trackers, started, gauge, hand, mu, expired, changes>>

DeleteIfNeeded(o) == duration > 0 /\ Has(o) /\ ids[o].deleted /\ ids[o].count >= duration

\* deferred: deleteMetricsIfNeeded, first the lists ...
Expire(w) ==
  /\ run[w].pc = "expire"
  /\ LET gone == {o \in Object : DeleteIfNeeded(o)}
     IN  /\ ids' = [o \in Object |-> IF o \in gone THEN Untracked ELSE ids[o]]
         /\ run' = [run EXCEPT ![w].pc = "unset", ![w].todo = gone]
         /\ expired' = expired \cup gone
         /\ rest' = [o \in Object |-> IF o \in gone THEN 0 ELSE rest[o]]
  /\ UNCHANGED <<listed, duration, live, events, trackers, started, gauge, hand, mu, changes>>

\* ... then the series, no list locked
Unset(w, o) ==
  /\ run[w].pc = "unset"
  /\ o \in run[w].todo
  /\ gauge' = [gauge EXCEPT ![o] = NoSeries]
  /\ run' = [run EXCEPT ![w].todo = @ \ {o}]
  /\ UNCHANGED <<listed, duration, live, events, trackers, started, ids, hand, mu, rest, expired, changes>>

Unlock(w) ==
  /\ run[w].pc = "unset"
  /\ run[w].todo = {}
  /\ mu' = NoWorker
  /\ run' = [run EXCEPT ![w].pc = "apply", ![w].todo = run[w].manifest]
  /\ UNCHANGED <<listed, duration, live, events, trackers, started, ids, gauge, hand, rest, expired, changes>>

\* the reconcile applies; an object that is there is left as it is, without an event
Apply(w) ==
  /\ run[w].pc = "apply"
  /\ \/ /\ run[w].todo = {}
        /\ run' = [run EXCEPT ![w] = NoRun]
        /\ UNCHANGED <<live, events>>
     \/ \E o \in run[w].todo :
          /\ Len(events[KindOf[o]]) < MaxEvents
          /\ run' = [run EXCEPT ![w].todo = @ \ {o}]
          /\ live' = live \cup {o}
          /\ IF o \in live THEN UNCHANGED events ELSE Notify("create", o)
  /\ UNCHANGED <<listed, duration, trackers, started, ids, gauge, hand, mu, rest, expired, changes>>

(***************************************************************************)
(* recordTrigger: one handler per kind, its events in order.               *)
(***************************************************************************)
\* a mutated form of Handle: a deletion is marked, the gauge is not touched
Handle_OnlyMarks(k) ==
  /\ hand[k] = Empty
  /\ events[k] # <<>>
  /\ LET e == Head(events[k])
     IN  /\ events' = [events EXCEPT ![k] = Tail(@)]
         /\ ids' = IF Has(e.obj) /\ e.type = "delete"
                   THEN [ids EXCEPT ![e.obj].deleted = TRUE] ELSE ids
         /\ hand' = IF Has(e.obj) /\ e.type # "delete"
                    THEN [hand EXCEPT ![k] = [obj |-> e.obj, val |-> 1]] ELSE hand
  /\ UNCHANGED <<listed, duration, live, trackers, started, gauge, mu, run, rest, expired, changes>>

\* has, hasPairs or markDeletedIfItHas, under the list's mutex
Handle(k) ==
  /\ hand[k] = Empty
  /\ events[k] # <<>>
  /\ LET e == Head(events[k])
     IN  /\ events' = [events EXCEPT ![k] = Tail(@)]
         /\ ids' = IF Has(e.obj) /\ e.type = "delete"
                   THEN [ids EXCEPT ![e.obj].deleted = TRUE]
                   ELSE ids
         /\ hand' = IF Has(e.obj)
                    THEN [hand EXCEPT ![k] = [obj |-> e.obj, val |-> IF e.type = "delete" THEN 0 ELSE 1]]
                    ELSE hand
  /\ UNCHANGED <<listed, duration, live, trackers, started, gauge, mu, run, rest, expired, changes>>

\* the recorder, after the mutex is released
Set(k) ==
  /\ hand[k] # Empty
  /\ gauge' = [gauge EXCEPT ![hand[k].obj] = hand[k].val]
  /\ hand' = [hand EXCEPT ![k] = Empty]
  /\ UNCHANGED <<listed, duration, live, events, trackers, started, ids, mu, run, rest, expired, changes>>

(***************************************************************************)
(* Other clients; SetMetricsDuration.                                      *)
(***************************************************************************)
Change(o) ==
  /\ changes < MaxChanges
  /\ changes' = changes + 1
  /\ o \in live
  /\ Len(events[KindOf[o]]) < MaxEvents
  /\ \/ Notify("update", o) /\ UNCHANGED live
     \/ Notify("delete", o) /\ live' = live \ {o}
  /\ UNCHANGED <<listed, duration, trackers, started, ids, gauge, hand, mu, run, rest, expired>>

SetMetricsDuration(n) ==
  /\ mu = NoWorker
  /\ changes < MaxChanges
  /\ changes' = changes + 1
  /\ duration' = n
  /\ UNCHANGED <<listed, live, events, trackers, started, ids, gauge, hand, mu, run, rest, expired>>

(***************************************************************************)
(* The specification.                                                      *)
(***************************************************************************)
Init ==
  /\ listed \in Listings /\ duration \in Durations /\ live \in SUBSET Object
  /\ events = [k \in Kind |-> <<>>] /\ trackers = {} /\ started = {}
  /\ ids = [o \in Object |-> Untracked] /\ gauge = [o \in Object |-> NoSeries]
  /\ hand = [k \in Kind |-> Empty] /\ mu = NoWorker /\ run = [w \in Worker |-> NoRun]
  /\ rest = [o \in Object |-> 0] /\ expired = {} /\ changes = 0

WorkerStep(w) ==
  \/ Lock(w) \/ IncAll(w) \/ Expire(w) \/ Unlock(w) \/ Apply(w)
  \/ \E o \in Object : AddIfNotPresent(w, o) \/ Unset(w, o)

HandlerStep(k) == Handle(k) \/ Set(k)

Next ==
  \/ \E w \in Worker : WorkerStep(w)
  \/ \E k \in Kind : HandlerStep(k)
  \/ \E o \in Object : Change(o)
  \/ \E n \in Durations : SetMetricsDuration(n)

Spec == Init /\ [][Next]_vars

(***************************************************************************)
(* Properties.                                                             *)
(***************************************************************************)
\* Every variable has its type; the mutex is held exactly inside addIfNotPresent.
TypeOK ==
  /\ listed \in Listings /\ duration \in Durations /\ live \subseteq Object
  /\ \A k \in Kind : \A i \in DOMAIN events[k] :
       events[k][i] \in [type: {"create", "update", "delete"}, obj: {o \in Object : KindOf[o] = k}]
  /\ started \subseteq trackers /\ trackers \subseteq Kind
  /\ ids \in [Object -> [count: 0..MaxDuration, deleted: BOOLEAN] \cup {Untracked}]
  /\ gauge \in [Object -> {NoSeries, 0, 1}]
  /\ expired \subseteq Object /\ rest \in [Object -> -1..MaxDuration] /\ changes \in 0..MaxChanges
  /\ \A w \in Worker : mu = w <=> run[w].pc \in {"add", "expire", "unset"}

Quiet(k) == events[k] = <<>> /\ hand[k] = Empty

\* Once the handler of its kind has caught up, the gauge of an object whose metrics
\* were never removed agrees with the cluster: 1 only while the object exists, 0 only
\* while it does not, whatever the order of reconciles, applies and events.
GaugeIsTrue ==
  \A o \in Object \ expired : Quiet(KindOf[o]) /\ gauge[o] # NoSeries =>
    (gauge[o] = 1 <=> o \in live)

\* Metrics are removed no earlier than metricsDuration - 1 reconciles after the one that
\* last handled the object: whatever was counted before it was handled again does not
\* count, but the reconcile that handled it does when the object is deleted before it ends.
RemovedLate ==
  [][\A o \in Object : Has(o) /\ ids'[o] = Untracked => rest[o] >= duration - 1]_vars

\* What WithReconcileMetrics's documentation says: metrics are removed when metricsDuration
\* reconciliations have happened in which the object was not handled.  It is one less.
RemovedAsDocumented ==
  [][\A o \in Object : Has(o) /\ ids'[o] = Untracked => rest[o] >= duration]_vars
=============================================================================
