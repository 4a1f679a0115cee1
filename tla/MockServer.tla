----------------------------- MODULE MockServer -----------------------------
(***************************************************************************)
(* The mock kube-apiserver, for one resource: the routes, the handlers,    *)
(* the memory storage with its hooks, the watches, and the pipe between a  *)
(* watch and its client.                                                   *)
(*                                                                         *)
(* Every request has a goroutine of its own.  A storage operation holds    *)
(* the storage's mutex and broadcasts before it unlocks, so it is one      *)
(* step; PUT and PATCH read in one operation and write in another, and a   *)
(* watch registers in one and backfills in another.                        *)
(***************************************************************************)
EXTENDS Integers, Sequences, FiniteSets, FiniteSetsExt

CONSTANTS
  Id, NsOf, Ns, AllNs,   \* the objects, their namespaces, and the empty namespace of a request
  Client, Watcher,       \* requests in flight: writers and watches
  Opt,                   \* the namespace each watch asks for, or AllNs (of a cluster's kind: AllNs)
  Value,                 \* what a client may ask for
  Kinds,                 \* the kinds of resource to be served
  MaxRV,                 \* where the resource version clock stops
  Nobody,
  Faults                 \* "hangup": a watch's connection breaks (not with DirectTransport)

ASSUME MockConstants ==
  /\ NsOf \in [Id -> Ns] /\ Opt \in [Watcher -> Ns \cup {AllNs}] /\ AllNs \notin Ns /\ MaxRV \in Nat /\ Value \subseteq Nat
  /\ Nobody \notin Client \cup Watcher /\ IsFiniteSet(Id) /\ Id # {}
  /\ Kinds \subseteq {"Deployment", "Namespace", "ConfigMap", "Secret", "Custom"}
  /\ Faults \subseteq {"hangup"}

VARIABLES
  kind,     \* of the resource
  objects,  \* [Id -> the stored object or NoObj]
  clock,    \* resourceVersionClock
  mu,       \* who holds the storage's mutex between two steps
  watches,  \* the slots of resourceStorage.watches
  req,      \* [Client -> the PUT or PATCH between its read and its write]
  wpc,      \* [Watcher -> where its goroutine is]
  body,     \* [Watcher -> the events written and not yet read]
  mirror,   \* [Watcher -> what its client makes of the events it has read]
  hung      \* the watchers whose connection is broken

vars == <<kind, objects, clock, mu, watches, req, wpc, body, mirror, hung>>
watching == <<wpc, mirror, hung>>

NoObj == [rv |-> 0, gen |-> 0, spec |-> 0, status |-> 0]
NoReq == [pc |-> "idle", id |-> CHOOSE i \in Id : TRUE, seen |-> NoObj]

(***************************************************************************)
(* What depends on the kind.                                               *)
(***************************************************************************)
Core          == kind \in {"Namespace", "ConfigMap", "Secret"}
Namespaced    == kind # "Namespace"
ParseableType == kind # "Custom"
SetsGeneration == kind \notin {"Namespace", "ConfigMap", "Secret"}

\* ServeHTTP: the handler of a method on the path [api v1 | apis group version]
\* [namespaces ns]? resource name? sub?, by the number of its tokens.
Route(method, named, sub) ==
  LET n(b) == IF b THEN 1 ELSE 0
      len == (IF Core THEN 2 ELSE 3) + 2 * n(Namespaced) + 1 + n(named) + n(sub)
      namespaces == Namespaced \/ (kind = "Namespace" /\ named)
      collection == IF Core THEN len = 3 \/ (len = 5 /\ namespaces) ELSE len = 4 \/ (len = 6 /\ namespaces)
      object     == IF Core THEN len = 4 \/ (len = 6 /\ namespaces)
                            ELSE len = 5 \/ (len \in {7, 8} /\ namespaces)
  IN  CASE collection /\ method \in {"GET", "POST"} -> "collection"
        [] object /\ method \in {"GET", "PUT", "PATCH", "DELETE"} -> "object"
        [] collection \/ object -> "405"
        [] OTHER -> "404"

\* beforeObjectCreation: a Secret's stringData becomes data.
BeforeObjectCreation(v) == IF kind = "Secret" THEN v + 10 ELSE v

\* the storage hooks: they fill in the status of the object that is stored
DeploymentChanged(o) == IF kind = "Deployment" THEN [o EXCEPT !.status = o.gen] ELSE o
NamespaceChanged(o)  == IF kind = "Namespace" THEN [o EXCEPT !.status = 1] ELSE o

OnWatchEvent(o) == DeploymentChanged(NamespaceChanged(o))

(***************************************************************************)
(* Broadcast, with the mutex held by client c.                             *)
(***************************************************************************)
\* by the namespace of the object, which is that of the request: the namespace in the body
\* of a PUT or PATCH, which is not compared with it, is taken to be the same
Interested(w, id) == Opt[w] \in {AllNs, NsOf[id]}

\* DirectTransport's response body is a buffer without a limit: writing does not block.  So
\* it is over TCP only while the socket has room; a reader so slow that it has none, for
\* whom the broadcast waits with the mutex locked, is not modelled.
Write(b, evs) == b \o evs

\* Up to a watch whose callback fails and whose goroutine does not yet wait on
\* errChan: the send blocks there, and the mutex stays locked.
Broadcast(c, type, id, o) ==
  LET ev      == [type |-> type, id |-> id, obj |-> o]
      on      == {i \in DOMAIN watches : watches[i] # Nobody /\ Interested(watches[i], id)}
      failing == {i \in on : watches[i] \in hung}
      blocked == {i \in failing : wpc[watches[i]] = "registered"}
      reached == IF blocked = {} THEN on ELSE {i \in on : i < Min(blocked)}
      served  == {watches[i] : i \in reached \ failing}
      ended   == {watches[i] : i \in reached \cap failing}
  IN  /\ body' = [w \in Watcher |-> IF w \in served THEN Write(body[w], <<ev>>) ELSE body[w]]
      /\ wpc' = [w \in Watcher |-> IF w \in ended THEN "done" ELSE wpc[w]]
      /\ watches' = [i \in DOMAIN watches |-> IF watches[i] \in ended THEN Nobody ELSE watches[i]]
      /\ mu' = IF blocked = {} THEN mu ELSE c
      /\ req' = [req EXCEPT ![c] = IF blocked = {} THEN NoReq ELSE [NoReq EXCEPT !.pc = "stuck"]]
      /\ UNCHANGED <<mirror, hung>>

\* a mutated form of Store: the watches hear of the object before the hooks run
Store_HooksLast(c, type, id, o) ==
  LET u == [o EXCEPT !.rv = clock + 1]
  IN  /\ clock < MaxRV
      /\ clock' = clock + 1
      /\ objects' = [objects EXCEPT ![id] = OnWatchEvent(u)]
      /\ Broadcast(c, type, id, u)

\* the end of CreateObject and of UpdateObject
Store(c, type, id, o) ==
  LET u == OnWatchEvent([o EXCEPT !.rv = clock + 1])
  IN  /\ clock < MaxRV
      /\ clock' = clock + 1
      /\ objects' = [objects EXCEPT ![id] = u]
      /\ Broadcast(c, type, id, u)

\* a response without a write
Reply(c) ==
  /\ req' = [req EXCEPT ![c] = NoReq]
  /\ UNCHANGED <<objects, clock, mu, watches, body>>
  /\ UNCHANGED watching

CreateObject(c, id, v) ==
  IF objects[id] # NoObj THEN Reply(c)
  ELSE Store(c, "ADDED", id, [NoObj EXCEPT !.spec = v, !.gen = IF SetsGeneration THEN 1 ELSE 0])

UpdateObject(c, id, o) ==
  IF objects[id] = NoObj THEN Reply(c) ELSE Store(c, "MODIFIED", id, o)

DeleteObject(c, id) ==
  IF objects[id] = NoObj THEN Reply(c)
  ELSE /\ objects' = [objects EXCEPT ![id] = NoObj]
       /\ Broadcast(c, "DELETED", id, OnWatchEvent(objects[id]))
       /\ UNCHANGED clock

\* the generation of an object whose spec was replaced
Generation(old, new) ==
  IF SetsGeneration /\ old.spec # new.spec THEN new.gen + 1 ELSE new.gen

(***************************************************************************)
(* The handlers.                                                           *)
(***************************************************************************)
Ready(c) == req[c].pc = "idle" /\ mu = Nobody

\* AddObject: a test creates an object directly
AddObject(c) ==
  /\ Ready(c)
  /\ \E id \in Id, v \in Value : CreateObject(c, id, v)
  /\ UNCHANGED kind

Post(c) ==
  /\ Ready(c)
  /\ Route("POST", FALSE, FALSE) = "collection"
  /\ \E id \in Id, v \in Value : CreateObject(c, id, BeforeObjectCreation(v))
  /\ UNCHANGED kind

Delete(c) ==
  /\ Ready(c)
  /\ Route("DELETE", TRUE, FALSE) = "object"
  /\ \E id \in Id : DeleteObject(c, id)
  /\ UNCHANGED kind

\* PUT and PATCH: GetObject.  A PUT of what is not there is a 404, a PATCH of it
\* a creation, but not through a subresource.
Get(c) ==
  /\ Ready(c)
  /\ \E id \in Id, op \in {"put", "status", "patch"} :
       /\ Route(IF op = "patch" THEN "PATCH" ELSE "PUT", TRUE, op = "status") = "object"
       /\ op = "patch" \/ objects[id] # NoObj
       /\ req' = [req EXCEPT ![c] = [pc |-> op, id |-> id, seen |-> objects[id]]]
  /\ UNCHANGED <<kind, objects, clock, mu, watches, body>>
  /\ UNCHANGED watching

\* putResource: the body is what the client read, now or earlier, with a new
\* spec; only a body equal to what Get saw is no change.
Put(c) ==
  LET r == req[c]
  IN  /\ r.pc = "put" /\ mu = Nobody
      /\ \/ Reply(c)
         \/ \E v \in Value, g \in 0..r.seen.gen :
              /\ SetsGeneration <=> g > 0
              /\ LET new == [r.seen EXCEPT !.spec = v, !.gen = g]
                 IN  UpdateObject(c, r.id, [new EXCEPT !.gen = Generation(r.seen, new),
                                                       !.spec = BeforeObjectCreation(v)])
      /\ UNCHANGED kind

\* putResource on status: what Get saw with the client's status
PutStatus(c) ==
  LET r == req[c]
  IN  /\ r.pc = "status" /\ mu = Nobody
      /\ \E s \in Value :
           IF s = r.seen.status THEN Reply(c)
           ELSE UpdateObject(c, r.id, [r.seen EXCEPT !.status = s])
      /\ UNCHANGED kind

\* the live object with the fields of the patch; no object when that changes nothing
DoServerSideApply(live, v) == LET merged == [live EXCEPT !.spec = v]
                              IN  IF merged = live THEN NoObj ELSE merged

ApplyPatch(live, v) == [live EXCEPT !.spec = v]

\* patchResource: DoServerSideApply writes only a change, applyPatch always.
Patch(c) ==
  LET r == req[c]
  IN  /\ r.pc = "patch" /\ mu = Nobody
      /\ \E v \in Value :
           LET new == IF ParseableType THEN DoServerSideApply(r.seen, v) ELSE ApplyPatch(r.seen, v)
           IN  CASE r.seen = NoObj -> CreateObject(c, r.id, BeforeObjectCreation(v))
                 [] r.seen # NoObj /\ new = NoObj -> Reply(c)
                 [] OTHER -> UpdateObject(c, r.id, [new EXCEPT !.gen = Generation(r.seen, new),
                                                               !.spec = BeforeObjectCreation(v)])
      /\ UNCHANGED kind

(***************************************************************************)
(* Watches.                                                                *)
(***************************************************************************)
Idle(w) == wpc[w] = "none" /\ mu = Nobody

Slot == LET free == {i \in DOMAIN watches : watches[i] = Nobody}
        IN  IF free = {} THEN Len(watches) + 1 ELSE Min(free)

\* a mutated form of Register: the watch takes the first slot, free or not
Register_FirstSlot(w) ==
  /\ Idle(w)
  /\ watches' = IF watches = <<>> THEN <<w>> ELSE [watches EXCEPT ![1] = w]
  /\ wpc' = [wpc EXCEPT ![w] = "registered"]
  /\ UNCHANGED <<kind, objects, clock, mu, req, body, mirror, hung>>

\* listResource with watch=true
Register(w) ==
  /\ Idle(w)
  /\ watches' = IF Slot > Len(watches) THEN Append(watches, w) ELSE [watches EXCEPT ![Slot] = w]
  /\ wpc' = [wpc EXCEPT ![w] = "registered"]
  /\ UNCHANGED <<kind, objects, clock, mu, req, body, mirror, hung>>

View(w) == [id \in Id |-> IF Interested(w, id) THEN objects[id] ELSE NoObj]

\* the ADDED events of a backfill, in the order of a Go map
Added(w) ==
  LET ids == {id \in Id : View(w)[id] # NoObj}
  IN  {[i \in DOMAIN s |-> [type |-> "ADDED", id |-> s[i], obj |-> objects[s[i]]]] :
         s \in Bijection(1..Cardinality(ids), ids)}

\* a mutated form of Backfill: what was there before the first step is not sent
Backfill_Skipped(w) ==
  /\ wpc[w] = "registered" /\ mu = Nobody
  /\ wpc' = [wpc EXCEPT ![w] = "waiting"]
  /\ UNCHANGED <<kind, objects, clock, mu, watches, req, body, mirror, hung>>

\* The callback of a broken connection fails on the first object: the watch gives
\* its slot up and returns, but does not unlock.
Backfill(w) ==
  /\ wpc[w] = "registered" /\ mu = Nobody
  /\ \E evs \in Added(w) :
       IF w \in hung /\ evs # <<>>
       THEN /\ watches' = [i \in DOMAIN watches |-> IF watches[i] = w THEN Nobody ELSE watches[i]]
            /\ wpc' = [wpc EXCEPT ![w] = "done"]
            /\ mu' = w
            /\ UNCHANGED body
       ELSE /\ body' = [body EXCEPT ![w] = Write(@, evs)]
            /\ wpc' = [wpc EXCEPT ![w] = "waiting"]
            /\ UNCHANGED <<watches, mu>>
  /\ UNCHANGED <<kind, objects, clock, req, mirror, hung>>

\* The client is gone, and with it what it knew and had not read (one client: a bound).
Hangup(w) ==
  /\ "hangup" \in Faults
  /\ wpc[w] \in {"registered", "waiting"} /\ hung = {}
  /\ hung' = {w}
  /\ body' = [body EXCEPT ![w] = <<>>]
  /\ mirror' = [mirror EXCEPT ![w] = [id \in Id |-> NoObj]]
  /\ UNCHANGED <<kind, objects, clock, mu, watches, req, wpc>>

See(view, ev) == [view EXCEPT ![ev.id] = IF ev.type = "DELETED" THEN NoObj ELSE ev.obj]

\* a mutated form of Read: the reader takes what came last
Read_Newest(w) ==
  /\ w \notin hung /\ body[w] # <<>>
  /\ mirror' = [mirror EXCEPT ![w] = See(@, body[w][Len(body[w])])]
  /\ body' = [body EXCEPT ![w] = SubSeq(@, 1, Len(@) - 1)]
  /\ UNCHANGED <<kind, objects, clock, mu, watches, req, wpc, hung>>

\* the client reads an event off the response body
Read(w) ==
  /\ w \notin hung /\ body[w] # <<>>
  /\ mirror' = [mirror EXCEPT ![w] = See(@, Head(body[w]))]
  /\ body' = [body EXCEPT ![w] = Tail(@)]
  /\ UNCHANGED <<kind, objects, clock, mu, watches, req, wpc, hung>>

Init ==
  /\ kind \in Kinds
  /\ objects = [id \in Id |-> NoObj] /\ clock = 0 /\ mu = Nobody /\ watches = <<>>
  /\ req = [c \in Client |-> NoReq]
  /\ wpc = [w \in Watcher |-> "none"]
  /\ body = [w \in Watcher |-> <<>>] /\ mirror = [w \in Watcher |-> [id \in Id |-> NoObj]]
  /\ hung = {}

Next ==
  \/ \E c \in Client : AddObject(c) \/ Post(c) \/ Delete(c) \/ Get(c) \/ Put(c) \/ PutStatus(c) \/ Patch(c)
  \/ \E w \in Watcher : Register(w) \/ Backfill(w) \/ Hangup(w) \/ Read(w)

Spec == Init /\ [][Next]_vars

(***************************************************************************)
(* Properties.                                                             *)
(***************************************************************************)
\* Types; versions come from the clock and differ; a watch that runs has one
\* slot, and a free slot or a running watch is all there is.
TypeOK ==
  /\ kind \in Kinds /\ clock \in 0..MaxRV /\ mu \in Client \cup Watcher \cup {Nobody}
  /\ \A id \in Id : objects[id].rv \in 0..clock
  /\ \A i, j \in Id : i # j /\ objects[i] # NoObj => objects[i].rv # objects[j].rv
  /\ \A c \in Client : req[c].pc \in {"idle", "put", "status", "patch", "stuck"}
  /\ \A w \in Watcher : wpc[w] \in {"none", "registered", "waiting", "done"}
  /\ hung \subseteq Watcher
  /\ \A w \in Watcher : Cardinality({i \in DOMAIN watches : watches[i] = w}) =
                          (IF wpc[w] \in {"registered", "waiting"} THEN 1 ELSE 0)

\* What the client will know of an object once it has read the events: what the last
\* of them about the object leaves of it, or what the client knows where there is none.
Learns(known, evs, id, o) ==
  LET about == {i \in DOMAIN evs : evs[i].id = id}
  IN  \/ about = {} /\ o = known[id]
      \/ \E i \in about : (\A j \in about : j <= i) /\ o = See(known, evs[i])[id]

\* Once a watch has backfilled, the events on the way to its client lead from
\* what the client knows to what is stored, whatever was written between the
\* registration and the backfill.
WatchIsComplete ==
  \A w \in Watcher, id \in Id :
    mu = Nobody /\ wpc[w] = "waiting" /\ w \notin hung => Learns(mirror[w], body[w], id, View(w)[id])

\* Nobody sees a Deployment that its hook has not finished: what
\* is stored, and every event, reports the generation it is about.
SeenIsReady ==
  \A o \in {objects[id] : id \in Id}
           \cup UNION {{body[w][i].obj : i \in DOMAIN body[w]} : w \in Watcher} :
    o # NoObj /\ kind = "Deployment" => o.status = o.gen

\* The events on their way to a client tell of an object in the order of its
\* versions, and none after a DELETED tells of the version that was deleted.
EventsInOrder ==
  \A w \in Watcher : \A i, j \in DOMAIN body[w] :
    LET e == body[w][i]
        f == body[w][j]
    IN  i < j /\ e.id = f.id => e.obj.rv <= f.obj.rv /\ (e.type = "DELETED" => e.obj.rv < f.obj.rv)

\* A client never sees an object go back to an older version, and one that was
\* deleted never comes back but as a new one: neither a backfill that comes between
\* the broadcasts nor a slow reader changes the order.
NeverBack ==
  /\ []EventsInOrder
  /\ [][\A w \in Watcher, id \in Id :
          mirror'[w][id] # NoObj => mirror'[w][id].rv >= mirror[w][id].rv]_vars
=============================================================================
