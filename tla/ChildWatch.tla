----------------------------- MODULE ChildWatch -----------------------------
(***************************************************************************)
(* The watches that bring a controller back to its objects: clusterWatch   *)
(* registers one watch per kind, label selector and namespace before the   *)
(* objects are applied, dynamicWatch keeps each of them open and turns its *)
(* events into reconcile requests for the watch's target.                  *)
(*                                                                         *)
(* Models watch.go and pkg/watch/dynamic.go in pkg/patterns/declarative,   *)
(* and as much of the reconcile loop as calls them: take a subject from    *)
(* the work queue, BeforeApply, apply the subject's objects.               *)
(***************************************************************************)
EXTENDS Naturals, Sequences, FiniteSets

CONSTANTS
  Subject,           \* the custom resources the controller reconciles
  Child,             \* the objects they are made into
  Worker,            \* goroutines that reconcile, MaxConcurrentReconciles
  NoWorker, NoNs, NoSubject,
  OwnerOf,           \* [Child -> Subject]
  KindOf, NsOf,      \* kind and namespace of a child
  SelectorOf,        \* [Subject -> selector]: what labelMaker makes of it
  ScopeToNamespace,  \* ScopeWatchesToNamespace
  Faults,            \* what may go wrong in this instance
  MaxMishaps         \* how often something goes wrong

(* "delete": other clients delete children (they may always modify them).   *)
(* "close": the server ends a watch, or sends an Error event.               *)
(* "quiet": the server sends no bookmarks, so idle watches time out.        *)
(* "refuse", "hang": a Watch call returns an error, or does not return.     *)
(* "mapping": no RESTMapping is found for a kind.                           *)
(* "apply": an object cannot be applied.                                    *)
FaultKind == {"delete", "close", "quiet", "refuse", "hang", "mapping", "apply"}

ASSUME ChildWatchConstants ==
  /\ IsFiniteSet(Child) /\ OwnerOf \in [Child -> Subject]
  /\ NoWorker \notin Worker /\ NoSubject \notin Subject
  /\ ScopeToNamespace \in BOOLEAN
  /\ Faults \subseteq FaultKind /\ MaxMishaps \in Nat

\* the key under which BeforeApply registers the watch for an object
KeyOf(c) ==
  <<KindOf[c], SelectorOf[OwnerOf[c]], IF ScopeToNamespace THEN NsOf[c] ELSE NoNs>>

Key == {KeyOf(c) : c \in Child}

\* the objects a watch selects: by kind, by label and by namespace
Matches(k, c) ==
  /\ KindOf[c] = k[1] /\ SelectorOf[OwnerOf[c]] = k[2]
  /\ k[3] = NoNs \/ NsOf[c] = k[3]

ChildrenOf(s) == {c \in Child : OwnerOf[c] = s}

VARIABLES
  state,       \* a child in the API server: "absent", "good" or "bad" (drifted)
  rv,          \* its last resourceVersion; 0 until it is first created
  mishaps,     \* how often something went wrong
  queue,       \* the controller's work queue
  wk,          \* the workers: [pc, subj, todo, key]
  lock,        \* who holds clusterWatch.mutex
  registered,  \* clusterWatch.registered
  st,          \* a watch's goroutine: "none", "calling", "hung", "open", "sleeping"
  started,     \* the watches whose first Watch call has returned
  target,      \* the subject a watch notifies
  buf,         \* the events on its ResultChan
  active,      \* sawActivity
  lastRV       \* lastRV; 0: not in the map

clusterVars == <<state, rv>>
ctrlVars    == <<queue, wk, lock, registered>>
watchVars   == <<st, started, target, buf, active, lastRV>>
vars == <<clusterVars, ctrlVars, watchVars, mishaps>>

Idle == [pc |-> "idle", subj |-> NoSubject, todo |-> {}, key |-> <<>>]

Event(t, c, v) == [type |-> t, obj |-> c, rv |-> v]

\* c changes, and every open watch that selects it is sent the event
Write(c, s) ==
  /\ state' = [state EXCEPT ![c] = s]
  /\ rv' = [rv EXCEPT ![c] = @ + 1]
  /\ buf' = [k \in Key |->
       IF st[k] = "open" /\ Matches(k, c)
       THEN Append(buf[k], Event(IF s = "absent" THEN "deleted" ELSE "changed", c, rv[c] + 1))
       ELSE buf[k]]

Mishap(f) ==
  /\ f \in Faults
  /\ mishaps < MaxMishaps
  /\ mishaps' = mishaps + 1

(***************************************************************************)
(* The workers.                                                            *)
(***************************************************************************)
\* The queue never gives a subject to two workers at a time.
Begin(p, s) ==
  /\ wk[p].pc = "idle"
  /\ s \in queue
  /\ \A q \in Worker : wk[q].subj # s
  /\ queue' = queue \ {s}
  /\ wk' = [wk EXCEPT ![p] = [pc |-> "lock", subj |-> s, todo |-> {}, key |-> <<>>]]
  /\ UNCHANGED <<clusterVars, watchVars, lock, registered, mishaps>>

\* a mutated form of Lock: concurrent invocations are not kept apart
Lock_NoMutex(p) ==
  /\ wk[p].pc = "lock"
  /\ lock' = p
  /\ wk' = [wk EXCEPT ![p].pc = "adding", ![p].todo = ChildrenOf(wk[p].subj)]
  /\ UNCHANGED <<clusterVars, watchVars, queue, registered, mishaps>>

Lock(p) ==
  /\ wk[p].pc = "lock"
  /\ lock = NoWorker
  /\ lock' = p
  /\ wk' = [wk EXCEPT ![p].pc = "adding", ![p].todo = ChildrenOf(wk[p].subj)]
  /\ UNCHANGED <<clusterVars, watchVars, queue, registered, mishaps>>

\* Add starts the watch's goroutine.
Start(k, s) ==
  /\ st' = [st EXCEPT ![k] = "calling"]
  /\ target' = [target EXCEPT ![k] = s]
  /\ active' = [active EXCEPT ![k] = FALSE]
  /\ UNCHANGED <<started, buf, lastRV>>

\* a mutated form of Register: Add does not wait for the watch
Register_NoWait(p, c) ==
  /\ wk[p].pc = "adding"
  /\ c \in wk[p].todo
  /\ wk' = [wk EXCEPT ![p].todo = @ \ {c}]
  /\ IF KeyOf(c) \in registered
     THEN UNCHANGED <<watchVars, registered>>
     ELSE Start(KeyOf(c), wk[p].subj) /\ registered' = registered \cup {KeyOf(c)}
  /\ UNCHANGED <<clusterVars, queue, lock, mishaps>>

\* One object in BeforeApply's loop: an error of Add is only logged.
Register(p, c) ==
  /\ wk[p].pc = "adding"
  /\ c \in wk[p].todo
  /\ \/ /\ KeyOf(c) \in registered
        /\ wk' = [wk EXCEPT ![p].todo = @ \ {c}]
        /\ UNCHANGED <<watchVars, mishaps>>
     \/ /\ KeyOf(c) \notin registered
        /\ Mishap("mapping")
        /\ wk' = [wk EXCEPT ![p].todo = @ \ {c}]
        /\ UNCHANGED watchVars
     \/ /\ KeyOf(c) \notin registered
        /\ Start(KeyOf(c), wk[p].subj)
        /\ wk' = [wk EXCEPT ![p].todo = @ \ {c}, ![p].pc = "waiting", ![p].key = KeyOf(c)]
        /\ UNCHANGED mishaps
  /\ UNCHANGED <<clusterVars, queue, lock, registered>>

\* watchStarted.Wait returns
Registered(p) ==
  /\ wk[p].pc = "waiting"
  /\ wk[p].key \in started
  /\ registered' = registered \cup {wk[p].key}
  /\ wk' = [wk EXCEPT ![p].pc = "adding", ![p].key = <<>>]
  /\ UNCHANGED <<clusterVars, watchVars, queue, lock, mishaps>>

Unlock(p) ==
  /\ wk[p].pc = "adding"
  /\ wk[p].todo = {}
  /\ lock' = NoWorker
  /\ wk' = [wk EXCEPT ![p].pc = "apply", ![p].todo = ChildrenOf(wk[p].subj)]
  /\ UNCHANGED <<clusterVars, watchVars, queue, registered, mishaps>>

\* An apply that changes nothing leaves the resourceVersion alone; a reconcile
\* that fails is queued again.
ApplyChild(p, c) ==
  /\ wk[p].pc = "apply"
  /\ c \in wk[p].todo
  /\ \/ /\ IF state[c] = "good" THEN UNCHANGED <<clusterVars, buf>> ELSE Write(c, "good")
        /\ wk' = [wk EXCEPT ![p].todo = @ \ {c}]
        /\ UNCHANGED <<queue, mishaps>>
     \/ /\ Mishap("apply")
        /\ queue' = queue \cup {wk[p].subj}
        /\ wk' = [wk EXCEPT ![p] = Idle]
        /\ UNCHANGED <<clusterVars, buf>>
  /\ UNCHANGED <<lock, registered, st, started, target, active, lastRV>>

Finish(p) ==
  /\ wk[p].pc = "apply"
  /\ wk[p].todo = {}
  /\ wk' = [wk EXCEPT ![p] = Idle]
  /\ UNCHANGED <<clusterVars, watchVars, queue, lock, registered, mishaps>>

(***************************************************************************)
(* A watch's goroutine.                                                    *)
(***************************************************************************)
\* A watch without a resourceVersion begins with an event per existing object.
Replays(k) ==
  LET evs == {Event("changed", c, rv[c]) : c \in {d \in Child : Matches(k, d) /\ state[d] # "absent"}}
  IN  {r \in [1..Cardinality(evs) -> evs] : \A e \in evs : \E i \in DOMAIN r : r[i] = e}

\* the Watch call returns a watch
Open(k) ==
  /\ st[k] = "calling"
  /\ st' = [st EXCEPT ![k] = "open"]
  /\ \E r \in Replays(k) : buf' = [buf EXCEPT ![k] = r]
  /\ active' = [active EXCEPT ![k] = TRUE]
  /\ started' = started \cup {k}
  /\ UNCHANGED <<clusterVars, ctrlVars, target, lastRV, mishaps>>

\* the Watch call returns an error
Refuse(k) ==
  /\ st[k] = "calling"
  /\ Mishap("refuse")
  /\ st' = [st EXCEPT ![k] = "sleeping"]
  /\ active' = [active EXCEPT ![k] = TRUE]
  /\ started' = started \cup {k}
  /\ UNCHANGED <<clusterVars, ctrlVars, target, buf, lastRV>>

Hang(k) ==
  /\ st[k] = "calling"
  /\ Mishap("hang")
  /\ st' = [st EXCEPT ![k] = "hung"]
  /\ UNCHANGED <<clusterVars, ctrlVars, started, target, buf, active, lastRV>>

\* The ticker: a call, or an open watch, without activity for a whole period is
\* cancelled.  The period is long enough to handle the events that are there.
Tick(k) ==
  /\ \/ /\ st[k] = "hung"
        /\ st' = [st EXCEPT ![k] = "sleeping"]
        /\ active' = [active EXCEPT ![k] = TRUE]
        /\ started' = started \cup {k}
        /\ UNCHANGED buf
     \/ /\ st[k] = "open" /\ active[k]
        /\ active' = [active EXCEPT ![k] = FALSE]
        /\ UNCHANGED <<st, started, buf>>
     \/ /\ st[k] = "open" /\ ~active[k]
        /\ "quiet" \in Faults /\ buf[k] = <<>>
        /\ st' = [st EXCEPT ![k] = "sleeping"]
        /\ UNCHANGED <<started, buf, active>>
  /\ UNCHANGED <<clusterVars, ctrlVars, target, lastRV, mishaps>>

Bookmark(k) ==
  /\ st[k] = "open" /\ ~active[k]
  /\ active' = [active EXCEPT ![k] = TRUE]
  /\ UNCHANGED <<clusterVars, ctrlVars, st, started, target, buf, lastRV, mishaps>>

\* a mutated form of Receive: every event is sent on
Receive_NoDedup(k) ==
  /\ st[k] = "open" /\ buf[k] # <<>>
  /\ queue' = queue \cup {target[k]}
  /\ buf' = [buf EXCEPT ![k] = Tail(@)]
  /\ active' = [active EXCEPT ![k] = TRUE]
  /\ UNCHANGED <<clusterVars, wk, lock, registered, st, started, target, lastRV, mishaps>>

\* a mutated form of Receive: an object that was seen is not sent on again
Receive_DedupByName(k) ==
  /\ st[k] = "open" /\ buf[k] # <<>>
  /\ LET e == Head(buf[k])
     IN  /\ lastRV' = [lastRV EXCEPT ![k][e.obj] = IF e.type = "deleted" THEN 0 ELSE e.rv]
         /\ queue' = IF e.type = "changed" /\ lastRV[k][e.obj] # 0
                     THEN queue ELSE queue \cup {target[k]}
  /\ buf' = [buf EXCEPT ![k] = Tail(@)]
  /\ active' = [active EXCEPT ![k] = TRUE]
  /\ UNCHANGED <<clusterVars, wk, lock, registered, st, started, target, mishaps>>

\* One event: deletions are always sent on, and changes not seen before.
Receive(k) ==
  /\ st[k] = "open" /\ buf[k] # <<>>
  /\ LET e == Head(buf[k])
     IN  /\ lastRV' = [lastRV EXCEPT ![k][e.obj] = IF e.type = "deleted" THEN 0 ELSE e.rv]
         /\ queue' = IF e.type = "changed" /\ lastRV[k][e.obj] = e.rv
                     THEN queue ELSE queue \cup {target[k]}
  /\ buf' = [buf EXCEPT ![k] = Tail(@)]
  /\ active' = [active EXCEPT ![k] = TRUE]
  /\ UNCHANGED <<clusterVars, wk, lock, registered, st, started, target, mishaps>>

\* The stream ends; events on their way are lost.
Close(k) ==
  /\ st[k] = "open"
  /\ Mishap("close")
  /\ st' = [st EXCEPT ![k] = "sleeping"]
  /\ buf' = [buf EXCEPT ![k] = <<>>]
  /\ UNCHANGED <<clusterVars, ctrlVars, started, target, active, lastRV>>

\* after WatchDelay
Wake(k) ==
  /\ st[k] = "sleeping"
  /\ st' = [st EXCEPT ![k] = "calling"]
  /\ active' = [active EXCEPT ![k] = FALSE]
  /\ UNCHANGED <<clusterVars, ctrlVars, started, target, buf, lastRV, mishaps>>

(***************************************************************************)
(* Other clients of the API server.                                        *)
(***************************************************************************)
Disturb(c) ==
  /\ state[c] # "absent"
  /\ mishaps < MaxMishaps /\ mishaps' = mishaps + 1
  /\ \E s \in {"bad"} \cup (IF "delete" \in Faults THEN {"absent"} ELSE {}) : Write(c, s)
  /\ UNCHANGED <<ctrlVars, st, started, target, active, lastRV>>

(***************************************************************************)
(* The specification.                                                      *)
(***************************************************************************)
Init ==
  /\ state = [c \in Child |-> "absent"] /\ rv = [c \in Child |-> 0]
  /\ mishaps = 0
  /\ queue = Subject
  /\ wk = [p \in Worker |-> Idle]
  /\ lock = NoWorker
  /\ registered = {} /\ started = {}
  /\ st = [k \in Key |-> "none"] /\ target = [k \in Key |-> NoSubject]
  /\ buf = [k \in Key |-> <<>>] /\ active = [k \in Key |-> FALSE]
  /\ lastRV = [k \in Key |-> [c \in Child |-> 0]]

WorkerStep(p) ==
  \/ Lock(p) \/ Registered(p) \/ Unlock(p) \/ Finish(p)
  \/ \E c \in Child : Register(p, c) \/ ApplyChild(p, c)

Next ==
  \/ \E p \in Worker, s \in Subject : Begin(p, s)
  \/ \E p \in Worker : WorkerStep(p)
  \/ \E k \in Key : Open(k) \/ Refuse(k) \/ Hang(k) \/ Tick(k) \/ Bookmark(k)
                    \/ Receive(k) \/ Close(k) \/ Wake(k)
  \/ \E c \in Child : Disturb(c)

\* The work queue is first in, first out and the mutex is handed on in turn;
\* the goroutines run; a Watch call that is not hung returns; the ticker ticks.
Fairness ==
  /\ \A s \in Subject : SF_vars(\E p \in Worker : Begin(p, s))
  /\ \A p \in Worker : SF_vars(Lock(p)) /\ WF_vars(WorkerStep(p))
  /\ \A k \in Key : WF_vars(Open(k)) /\ WF_vars(Tick(k)) /\ WF_vars(Wake(k))
                    /\ WF_vars(Receive(k))

Spec == Init /\ [][Next]_vars

FairSpec == Spec /\ Fairness

(***************************************************************************)
(* Properties.                                                             *)
(***************************************************************************)
WorkerState == [pc: {"idle", "lock", "adding", "waiting", "apply"},
                subj: Subject \cup {NoSubject}, todo: SUBSET Child, key: Key \cup {<<>>}]
EventType == [type: {"changed", "deleted"}, obj: Child, rv: Nat]

\* Every variable has its type; the mutex has one holder, the worker in BeforeApply.
TypeOK ==
  /\ state \in [Child -> {"absent", "good", "bad"}] /\ rv \in [Child -> Nat]
  /\ mishaps \in 0..MaxMishaps /\ queue \subseteq Subject
  /\ wk \in [Worker -> WorkerState]
  /\ \A p \in Worker : wk[p].pc \in {"adding", "waiting"} <=> lock = p
  /\ registered \subseteq started /\ started \subseteq Key
  /\ st \in [Key -> {"none", "calling", "hung", "open", "sleeping"}]
  /\ target \in [Key -> Subject \cup {NoSubject}]
  /\ buf \in [Key -> Seq(EventType)]
  /\ active \in [Key -> BOOLEAN] /\ lastRV \in [Key -> [Child -> Nat]]

\* the subject of c is about to be reconciled, c included
Awaited(c) ==
  \/ OwnerOf[c] \in queue
  \/ \E p \in Worker : /\ wk[p].subj = OwnerOf[c]
                       /\ wk[p].pc = "apply" => c \in wk[p].todo

\* No change is overlooked: when a child has drifted, either a reconcile that
\* will apply it is due, or each open watch that selects it still has the event,
\* whatever lastRV suppressed and however often the watch was reopened.
NoLostWakeup ==
  \A k \in Key : \A c \in Child :
    st[k] = "open" /\ Matches(k, c) /\ state[c] = "bad" =>
      \/ Awaited(c)
      \/ \E i \in 1..Len(buf[k]) : buf[k][i].obj = c /\ buf[k][i].rv = rv[c]

\* Nor is a deletion overlooked while watches stay open: there is no event for it in
\* what a reopened watch begins with.
NoLostDeletion ==
  \A k \in Key : \A c \in Child :
    st[k] = "open" /\ Matches(k, c) /\ state[c] = "absent" =>
      \/ Awaited(c)
      \/ \E i \in 1..Len(buf[k]) : buf[k][i].obj = c /\ buf[k][i].type = "deleted"

\* nothing is left to be done, and every watch is open with nothing to read
AtRest ==
  /\ queue = {} /\ \A p \in Worker : wk[p].pc = "idle"
  /\ \A k \in Key : st[k] = "open" /\ buf[k] = <<>>

\* A controller at rest has left every child as it applied it.
RestIsRight == AtRest => \A c \in Child : state[c] = "good"

\* Every child that is missing or has drifted is put right again: what
\* watchUntilClosed's comment promises, that we always reconcile when needed.
Repairs == \A c \in Child : state[c] # "good" ~> state[c] = "good"

\* The controller comes to rest: neither its own writes nor the objects replayed
\* on every reopened watch keep it reconciling.
Quiesces == <>[](queue = {} /\ \A p \in Worker : wk[p].pc = "idle")
=============================================================================
