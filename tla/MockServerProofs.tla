-------------------------- MODULE MockServerProofs --------------------------
(***************************************************************************)
(* For any number of objects, clients and watches: no client of a watch    *)
(* sees an object go back to an older version, what it sees is ready, and  *)
(* what it still has to read makes its view complete.                      *)
(***************************************************************************)
EXTENDS MockServer, TLAPS, FiniteSetTheorems

(***************************************************************************)
(* Versions.                                                               *)
(***************************************************************************)
Obj   == [rv: Nat, gen: Nat, spec: Nat, status: Nat]
Event == [type: {"ADDED", "MODIFIED", "DELETED"}, id: Id, obj: Obj]

Shape ==
  /\ clock \in Nat
  /\ objects \in [Id -> Obj]
  /\ req = [c \in Client |-> req[c]]
  /\ \A c \in Client : req[c].id \in Id /\ req[c].seen \in Obj
  /\ body \in [Watcher -> Seq(Event)]
  /\ mirror \in [Watcher -> [Id -> Obj]]

\* No version of an object is newer than this, until it is written again.
Top == [id \in Id |-> IF objects[id] = NoObj THEN clock ELSE objects[id].rv]

\* Of every object, the client knows no newer version than any event on its way to it
\* has, these come in the order of their versions, and none is newer than top says.
InOrder(known, evs, top) ==
  /\ \A i \in 1..Len(evs) : /\ evs[i].obj.rv <= top[evs[i].id]
                            /\ known[evs[i].id].rv <= evs[i].obj.rv
  /\ \A i, j \in 1..Len(evs) : i < j /\ evs[i].id = evs[j].id => evs[i].obj.rv <= evs[j].obj.rv
  /\ \A id \in Id : known[id].rv <= top[id]

OrderInv ==
  /\ Shape
  /\ \A id \in Id : objects[id].rv <= clock
  /\ \A w \in Watcher : InOrder(mirror[w], body[w], Top)

LEMMA NoObjType == NoObj \in Obj /\ NoObj.rv = 0
BY DEF NoObj, Obj

LEMMA NoReqType ==
  /\ NoReq.id \in Id /\ NoReq.seen \in Obj
  /\ [NoReq EXCEPT !.pc = "stuck"].id \in Id /\ [NoReq EXCEPT !.pc = "stuck"].seen \in Obj
<1> DEFINE i == CHOOSE i \in Id : TRUE
<1>1. i \in Id
  BY MockConstants
<1>2. NoReq = [pc |-> "idle", id |-> i, seen |-> NoObj]
  BY DEF NoReq
<1> HIDE DEF i
<1> QED
  BY <1>1, <1>2, NoObjType

LEMMA TopType ==
  ASSUME Shape
  PROVE  Top \in [Id -> Nat]
BY DEF Shape, Top, Obj

LEMMA InitOrder == Init => OrderInv
<1> SUFFICES ASSUME Init PROVE OrderInv
  OBVIOUS
<1>1. Shape
  BY NoObjType, NoReqType DEF Init, Shape
<1>2. \A id \in Id : objects[id] = NoObj /\ objects[id].rv <= clock
  BY NoObjType DEF Init
<1>3. ASSUME NEW w \in Watcher PROVE InOrder(mirror[w], body[w], Top)
  <2>1. body[w] = <<>> /\ \A id \in Id : mirror[w][id] = NoObj
    BY DEF Init
  <2>2. \A id \in Id : Top[id] = 0
    BY <1>2 DEF Init, Top
  <2> QED
    BY <2>1, <2>2, NoObjType DEF InOrder
<1> QED
  BY <1>1, <1>2, <1>3 DEF OrderInv

\* Fields of a sequence of events, and of what a client knows.
LEMMA Versions ==
  /\ \A evs \in Seq(Event) : \A i \in 1..Len(evs) : evs[i].id \in Id /\ evs[i].obj \in Obj /\ evs[i].obj.rv \in Nat
  /\ \A known \in [Id -> Obj] : \A id \in Id : known[id].rv \in Nat
<1>1. \A o \in Obj : o.rv \in Nat
  BY DEF Obj
<1>2. \A ev \in Event : ev.id \in Id /\ ev.obj \in Obj
  BY DEF Event
<1>3. \A evs \in Seq(Event) : \A i \in 1..Len(evs) : evs[i] \in Event
  OBVIOUS
<1> QED
  BY <1>1, <1>2, <1>3

LEMMA OrderRises ==
  ASSUME NEW known \in [Id -> Obj], NEW evs \in Seq(Event), NEW top \in [Id -> Nat], NEW new \in [Id -> Nat],
         InOrder(known, evs, top), \A id \in Id : top[id] <= new[id]
  PROVE  InOrder(known, evs, new)
BY Versions, SMTT(60) DEF InOrder

\* An event that is no older than anything before it comes last.
LEMMA OrderAdds ==
  ASSUME NEW known \in [Id -> Obj], NEW evs \in Seq(Event), NEW top \in [Id -> Nat],
         InOrder(known, evs, top), NEW ev \in Event, ev.obj.rv = top[ev.id]
  PROVE  InOrder(known, evs \o <<ev>>, top)
<1> DEFINE new == evs \o <<ev>>
<1>1. /\ new \in Seq(Event) /\ Len(new) = Len(evs) + 1 /\ Len(evs) \in Nat
      /\ \A i \in 1..Len(new) : new[i] = IF i <= Len(evs) THEN evs[i] ELSE ev
  OBVIOUS
<1>2. ev.id \in Id /\ ev.obj.rv \in Nat
  BY DEF Event, Obj
<1> HIDE DEF new
<1>3. ASSUME NEW i \in 1..Len(new)
      PROVE  new[i].obj.rv <= top[new[i].id] /\ known[new[i].id].rv <= new[i].obj.rv
  BY <1>1, <1>2 DEF InOrder
<1>4. ASSUME NEW i \in 1..Len(new), NEW j \in 1..Len(new), i < j, new[i].id = new[j].id
      PROVE  new[i].obj.rv <= new[j].obj.rv
  BY <1>1, <1>2, <1>4, SMTT(30) DEF InOrder
<1> QED
  BY <1>3, <1>4, Zenon DEF InOrder, new

\* The client takes the first event.
LEMMA OrderTakes ==
  ASSUME NEW known \in [Id -> Obj], NEW evs \in Seq(Event), evs # <<>>, NEW top \in [Id -> Nat],
         InOrder(known, evs, top)
  PROVE  /\ See(known, Head(evs)) \in [Id -> Obj] /\ Tail(evs) \in Seq(Event)
         /\ InOrder(See(known, Head(evs)), Tail(evs), top)
         /\ \A id \in Id : See(known, Head(evs))[id] # NoObj => known[id].rv <= See(known, Head(evs))[id].rv
<1> DEFINE new == Tail(evs)
           next == See(known, Head(evs))
<1>1. /\ new \in Seq(Event) /\ Len(new) = Len(evs) - 1 /\ Len(evs) \in Nat /\ 1 \in 1..Len(evs) /\ Head(evs) = evs[1]
      /\ \A i \in 1..Len(new) : new[i] = evs[i + 1] /\ i + 1 \in 1..Len(evs)
  OBVIOUS
<1>2. evs[1].id \in Id /\ evs[1].obj \in Obj
  BY <1>1, Versions
<1>3. /\ next \in [Id -> Obj]
      /\ \A id \in Id : next[id] = IF id = evs[1].id THEN IF evs[1].type = "DELETED" THEN NoObj ELSE evs[1].obj
                                                     ELSE known[id]
  BY <1>1, <1>2, NoObjType DEF See
<1> HIDE DEF new, next
<1>4. \A id \in Id : known[id].rv \in Nat /\ top[id] \in Nat
  BY Versions
<1>5. ASSUME NEW id \in Id PROVE next[id].rv <= top[id] /\ (next[id] # NoObj => known[id].rv <= next[id].rv)
  BY <1>1, <1>2, <1>3, <1>4, NoObjType, SMTT(60) DEF InOrder
<1>6. ASSUME NEW i \in 1..Len(new)
      PROVE  new[i].obj.rv <= top[new[i].id] /\ next[new[i].id].rv <= new[i].obj.rv
  <2>1. new[i] = evs[i + 1] /\ i + 1 \in 1..Len(evs) /\ 1 < i + 1
    BY <1>1
  <2>2. new[i].id \in Id /\ new[i].obj.rv \in Nat
    BY <2>1, Versions
  <2>3. new[i].obj.rv <= top[new[i].id] /\ known[new[i].id].rv <= new[i].obj.rv
    BY <2>1 DEF InOrder
  <2>4. evs[1].id = new[i].id => evs[1].obj.rv <= new[i].obj.rv
    BY <1>1, <2>1 DEF InOrder
  <2>5. CASE new[i].id = evs[1].id
    <3>1. next[new[i].id] = NoObj \/ next[new[i].id] = evs[1].obj
      BY <1>3, <2>2, <2>5
    <3> QED
      BY <3>1, <2>2, <2>3, <2>4, <2>5, NoObjType, SMTT(30)
  <2>6. CASE new[i].id # evs[1].id
    <3>1. next[new[i].id] = known[new[i].id]
      BY <1>3, <2>2, <2>6
    <3> QED
      BY <3>1, <2>3
  <2> QED
    BY <2>5, <2>6
<1>7. ASSUME NEW i \in 1..Len(new), NEW j \in 1..Len(new), i < j, new[i].id = new[j].id
      PROVE  new[i].obj.rv <= new[j].obj.rv
  <2>1. new[i] = evs[i + 1] /\ new[j] = evs[j + 1] /\ i + 1 \in 1..Len(evs) /\ j + 1 \in 1..Len(evs) /\ i + 1 < j + 1
    BY <1>1, <1>7
  <2>2. evs[i + 1].id = evs[j + 1].id
    BY <1>7, <2>1
  <2>3. evs[i + 1].obj.rv <= evs[j + 1].obj.rv
    BY <2>1, <2>2, SMTT(30) DEF InOrder
  <2> QED
    BY <2>1, <2>3
<1> QED
  BY <1>1, <1>3, <1>5, <1>6, <1>7, ZenonT(60) DEF InOrder, new, next

\* A backfill has one event for an object, with the version that is stored.
LEMMA OrderBackfills ==
  ASSUME NEW known \in [Id -> Obj], NEW evs \in Seq(Event), NEW top \in [Id -> Nat], InOrder(known, evs, top),
         NEW more \in Seq(Event), \A i \in 1..Len(more) : more[i].obj.rv = top[more[i].id],
         \A i, j \in 1..Len(more) : i # j => more[i].id # more[j].id
  PROVE  InOrder(known, evs \o more, top)
<1> DEFINE new == evs \o more
<1>1. /\ new \in Seq(Event) /\ Len(new) = Len(evs) + Len(more) /\ Len(evs) \in Nat /\ Len(more) \in Nat
      /\ \A i \in 1..Len(new) : new[i] = IF i <= Len(evs) THEN evs[i] ELSE more[i - Len(evs)]
  OBVIOUS
<1> HIDE DEF new
<1>2. ASSUME NEW i \in 1..Len(new)
      PROVE  \/ i \in 1..Len(evs) /\ new[i] = evs[i]
             \/ i > Len(evs) /\ i - Len(evs) \in 1..Len(more) /\ new[i] = more[i - Len(evs)]
  BY <1>1
<1>3. ASSUME NEW i \in 1..Len(new)
      PROVE  new[i].obj.rv <= top[new[i].id] /\ known[new[i].id].rv <= new[i].obj.rv
  <2>1. new[i].id \in Id /\ new[i].obj.rv \in Nat /\ top[new[i].id] \in Nat
    BY <1>1, Versions
  <2>2. known[new[i].id].rv <= top[new[i].id]
    BY <2>1 DEF InOrder
  <2>3. CASE i \in 1..Len(evs) /\ new[i] = evs[i]
    BY <2>3 DEF InOrder
  <2>4. CASE i - Len(evs) \in 1..Len(more) /\ new[i] = more[i - Len(evs)]
    BY <2>1, <2>2, <2>4, SMTT(30)
  <2> QED
    BY <1>2, <2>3, <2>4
<1>4. ASSUME NEW i \in 1..Len(new), NEW j \in 1..Len(new), i < j, new[i].id = new[j].id
      PROVE  new[i].obj.rv <= new[j].obj.rv
  <2>1. CASE j \in 1..Len(evs) /\ new[j] = evs[j]
    <3>1. i \in 1..Len(evs) /\ new[i] = evs[i]
      BY <1>1, <1>4, <2>1
    <3> QED
      BY <1>4, <2>1, <3>1 DEF InOrder
  <2>2. CASE j > Len(evs) /\ j - Len(evs) \in 1..Len(more) /\ new[j] = more[j - Len(evs)]
    <3>1. CASE i \in 1..Len(evs) /\ new[i] = evs[i]
      <4>1. new[i].obj.rv <= top[new[i].id]
        BY <1>3
      <4> QED
        BY <4>1, <1>4, <2>2, SMTT(60)
    <3>2. CASE i > Len(evs) /\ i - Len(evs) \in 1..Len(more) /\ new[i] = more[i - Len(evs)]
      <4>1. i - Len(evs) # j - Len(evs)
        BY <1>1, <1>4
      <4> QED
        BY <4>1, <1>4, <2>2, <3>2
    <3> QED
      BY <1>2, <3>1, <3>2
  <2> QED
    BY <1>2, <2>1, <2>2
<1> QED
  BY <1>1, <1>3, <1>4, Versions, Zenon DEF InOrder, new

\* The hooks fill in a status and keep the version.
LEMMA HooksKeepVersion ==
  ASSUME NEW o \in Obj
  PROVE  OnWatchEvent(o) \in Obj /\ OnWatchEvent(o).rv = o.rv
<1>1. NamespaceChanged(o) \in Obj /\ NamespaceChanged(o).rv = o.rv
  BY DEF NamespaceChanged, Obj
<1>2. \A p \in Obj : DeploymentChanged(p) \in Obj /\ DeploymentChanged(p).rv = p.rv
  BY DEF DeploymentChanged, Obj
<1> QED
  BY <1>1, <1>2 DEF OnWatchEvent

\* A broadcast adds one event to some of the bodies.
LEMMA BroadcastAdds ==
  ASSUME Shape, NEW c \in Client, NEW type \in {"ADDED", "MODIFIED", "DELETED"}, NEW id \in Id, NEW o \in Obj,
         Broadcast(c, type, id, o)
  PROVE  /\ mirror' = mirror
         /\ req' = [d \in Client |-> req'[d]] /\ \A d \in Client : req'[d].id \in Id /\ req'[d].seen \in Obj
         /\ body' \in [Watcher -> Seq(Event)]
         /\ \A w \in Watcher : \/ body'[w] = body[w]
                               \/ body'[w] = body[w] \o <<[type |-> type, id |-> id, obj |-> o]>>
<1> DEFINE ev == [type |-> type, id |-> id, obj |-> o]
<1>1. ev \in Event
  BY DEF Event
<1>2. mirror' = mirror
  BY DEF Broadcast
<1>3. PICK r \in {NoReq, [NoReq EXCEPT !.pc = "stuck"]} : req' = [req EXCEPT ![c] = r]
  BY Zenon DEF Broadcast
<1>4. r.id \in Id /\ r.seen \in Obj
  BY NoReqType, Zenon
<1>5. req' = [d \in Client |-> req'[d]] /\ \A d \in Client : req'[d].id \in Id /\ req'[d].seen \in Obj
  BY <1>3, <1>4 DEF Shape
<1>6. body' = [w \in Watcher |-> body'[w]] /\ \A w \in Watcher : body'[w] \in {body[w], body[w] \o <<ev>>}
  BY DEF Broadcast, Write
<1>7. \A w \in Watcher : body[w] \in Seq(Event) /\ body[w] \o <<ev>> \in Seq(Event)
  BY <1>1 DEF Shape
<1> QED
  BY <1>2, <1>5, <1>6, <1>7, SMTT(60)

\* No client sees an object go back in this step.
Rising == \A w \in Watcher, id \in Id : mirror'[w][id] # NoObj => mirror'[w][id].rv >= mirror[w][id].rv

LEMMA StillRising ==
  ASSUME Shape, mirror' = mirror
  PROVE  Rising
BY Versions DEF Rising, Shape

\* A write: the event has the version that is the newest from now on.
LEMMA StoreOrder ==
  ASSUME OrderInv, NEW c \in Client, NEW type \in {"ADDED", "MODIFIED"}, NEW id \in Id, NEW o \in Obj,
         Store(c, type, id, o)
  PROVE  OrderInv' /\ Rising
<1> DEFINE v == [o EXCEPT !.rv = clock + 1]
           u == OnWatchEvent(v)
           ev == [type |-> type, id |-> id, obj |-> u]
<1>1. Shape /\ clock \in Nat /\ objects \in [Id -> Obj] /\ Top \in [Id -> Nat]
  BY TopType DEF OrderInv, Shape
<1>2. v \in Obj /\ v.rv = clock + 1
  BY <1>1 DEF Obj
<1>3. u \in Obj /\ u.rv = clock + 1
  BY <1>2, HooksKeepVersion, Zenon
<1>4. clock' = clock + 1 /\ objects' = [objects EXCEPT ![id] = u] /\ Broadcast(c, type, id, u)
  BY DEF Store
<1> HIDE DEF u, v
<1>5. Shape' /\ mirror' = mirror /\ \A w \in Watcher : body'[w] = body[w] \/ body'[w] = body[w] \o <<ev>>
  BY <1>1, <1>3, <1>4, BroadcastAdds DEF Shape
<1>6. Rising
  BY <1>1, <1>5, StillRising
<1>7. ev \in Event /\ ev.id = id /\ ev.obj = u
  BY <1>3 DEF Event
<1>8. \A i \in Id : objects'[i].rv <= clock'
  BY <1>1, <1>3, <1>4, Versions, SMTT(30) DEF OrderInv
<1>9. Top' \in [Id -> Nat] /\ Top'[id] = clock + 1 /\ \A i \in Id : Top[i] <= Top'[i]
  <2>1. Top' \in [Id -> Nat]
    BY <1>5, TopType DEF Shape, Top, Obj
  <2>2. objects'[id] = u /\ u # NoObj
    BY <1>1, <1>3, <1>4, NoObjType, SMTT(30)
  <2>3. Top'[id] = clock + 1
    BY <1>3, <2>2 DEF Top
  <2>4. ASSUME NEW i \in Id, i # id PROVE Top[i] <= Top'[i]
    BY <1>1, <1>4, <2>4, Versions, SMTT(30) DEF Top
  <2>5. Top[id] <= clock
    BY <1>1 DEF Top, OrderInv
  <2> QED
    BY <1>1, <2>1, <2>3, <2>4, <2>5, SMTT(30)
<1>10. ASSUME NEW w \in Watcher PROVE InOrder(mirror'[w], body'[w], Top')
  <2>1. mirror[w] \in [Id -> Obj] /\ body[w] \in Seq(Event) /\ InOrder(mirror[w], body[w], Top)
    BY DEF OrderInv, Shape
  <2> DEFINE top == Top
             new == Top'
  <2>2. top \in [Id -> Nat] /\ new \in [Id -> Nat] /\ (\A i \in Id : top[i] <= new[i]) /\ ev.obj.rv = new[ev.id]
    BY <1>1, <1>3, <1>7, <1>9
  <2> HIDE DEF top, new, ev
  <2>3. InOrder(mirror[w], body[w], new)
    <3>1. InOrder(mirror[w], body[w], top)
      BY <2>1, Zenon DEF top
    <3> QED
      BY <2>1, <2>2, <3>1, OrderRises, ZenonT(60)
  <2>4. InOrder(mirror[w], body[w] \o <<ev>>, new)
    BY <2>1, <2>2, <2>3, <1>7, OrderAdds, Zenon
  <2> QED
    BY <1>5, <2>3, <2>4, Zenon DEF new
<1> QED
  BY <1>5, <1>6, <1>8, <1>10, SMTT(30) DEF OrderInv

\* A deletion: the event has the version of the object that goes.
LEMMA DeleteOrder ==
  ASSUME OrderInv, NEW c \in Client, NEW id \in Id, objects[id] # NoObj, DeleteObject(c, id)
  PROVE  OrderInv' /\ Rising
<1> DEFINE u == OnWatchEvent(objects[id])
           ev == [type |-> "DELETED", id |-> id, obj |-> u]
<1>1. Shape /\ clock \in Nat /\ objects \in [Id -> Obj] /\ Top \in [Id -> Nat]
  BY TopType DEF OrderInv, Shape
<1>2. u \in Obj /\ u.rv = objects[id].rv
  BY <1>1, HooksKeepVersion
<1>3. clock' = clock /\ objects' = [objects EXCEPT ![id] = NoObj] /\ Broadcast(c, "DELETED", id, u)
  BY DEF DeleteObject
<1> HIDE DEF u
<1>4. Shape' /\ mirror' = mirror /\ \A w \in Watcher : body'[w] = body[w] \/ body'[w] = body[w] \o <<ev>>
  BY <1>1, <1>2, <1>3, BroadcastAdds, NoObjType, ZenonT(60) DEF Shape
<1>5. Rising
  BY <1>1, <1>4, StillRising
<1>6. ev \in Event /\ ev.id = id /\ ev.obj = u
  BY <1>2, Zenon DEF Event
<1>7. \A i \in Id : objects'[i].rv <= clock'
  BY <1>1, <1>3, NoObjType DEF OrderInv
<1>8. Top' \in [Id -> Nat] /\ Top[id] = u.rv /\ \A i \in Id : Top[i] <= Top'[i]
  <2>1. Top' \in [Id -> Nat]
    BY <1>4, TopType DEF Shape, Top, Obj
  <2>2. Top[id] = u.rv
    BY <1>2 DEF Top
  <2>3. Top'[id] = clock
    BY <1>1, <1>3 DEF Top
  <2>4. ASSUME NEW i \in Id, i # id PROVE Top[i] <= Top'[i]
    BY <1>1, <1>3, <2>4, Versions, SMTT(30) DEF Top
  <2>5. Top[id] <= clock
    BY <1>1 DEF Top, OrderInv
  <2> QED
    BY <2>1, <2>2, <2>3, <2>4, <2>5, SMTT(30)
<1>9. ASSUME NEW w \in Watcher PROVE InOrder(mirror'[w], body'[w], Top')
  <2>1. mirror[w] \in [Id -> Obj] /\ body[w] \in Seq(Event) /\ InOrder(mirror[w], body[w], Top)
    BY DEF OrderInv, Shape
  <2> DEFINE top == Top
             new == Top'
  <2>2. top \in [Id -> Nat] /\ new \in [Id -> Nat] /\ (\A i \in Id : top[i] <= new[i]) /\ ev.obj.rv = top[ev.id]
    BY <1>1, <1>6, <1>8
  <2>3. InOrder(mirror[w], body[w], top)
    BY <2>1
  <2> HIDE DEF top, new, ev
  <2>4. InOrder(mirror[w], body[w] \o <<ev>>, top)
    BY <2>1, <2>2, <2>3, <1>6, OrderAdds, Zenon
  <2>5. body[w] \o <<ev>> \in Seq(Event)
    BY <2>1, <1>6
  <2>6. InOrder(mirror[w], body[w], new)
    BY <2>1, <2>2, <2>3, OrderRises, Zenon
  <2>7. InOrder(mirror[w], body[w] \o <<ev>>, new)
    BY <2>1, <2>2, <2>4, <2>5, OrderRises, Zenon
  <2> QED
    BY <1>4, <2>6, <2>7, Zenon DEF new
<1> QED
  BY <1>4, <1>5, <1>7, <1>9, Zenon DEF OrderInv

\* Steps that touch neither the objects nor what is on the way to a client.
LEMMA QuietOrder ==
  ASSUME OrderInv, UNCHANGED <<objects, clock, body, mirror>>,
         req' = [c \in Client |-> req'[c]], \A c \in Client : req'[c].id \in Id /\ req'[c].seen \in Obj
  PROVE  OrderInv' /\ Rising
<1>1. objects' = objects /\ clock' = clock /\ body' = body /\ mirror' = mirror /\ Shape
  BY DEF OrderInv
<1>2. Shape' /\ Top' = Top
  BY <1>1 DEF Shape, Top
<1>3. Rising
  BY <1>1, StillRising
<1> QED
  BY <1>1, <1>2, <1>3 DEF OrderInv

LEMMA ReplyOrder ==
  ASSUME OrderInv, NEW c \in Client, Reply(c)
  PROVE  OrderInv' /\ Rising
<1>1. UNCHANGED <<objects, clock, body, mirror>> /\ req' = [req EXCEPT ![c] = NoReq]
  BY DEF Reply, watching
<1>2. req' = [d \in Client |-> req'[d]] /\ \A d \in Client : req'[d].id \in Id /\ req'[d].seen \in Obj
  BY <1>1, NoReqType DEF OrderInv, Shape
<1> QED
  BY <1>1, <1>2, QuietOrder

\* What a request does to the storage: an answer, a read, a write or a deletion.
Stores(c)  == \E type \in {"ADDED", "MODIFIED"}, id \in Id, o \in Obj : Store(c, type, id, o)
Deletes(c) == \E id \in Id : objects[id] # NoObj /\ DeleteObject(c, id)
Asks(c)    == \E id \in Id, op \in {"put", "status", "patch"} :
                /\ req' = [req EXCEPT ![c] = [pc |-> op, id |-> id, seen |-> objects[id]]]
                /\ UNCHANGED <<objects, clock, mu, watches, body>> /\ UNCHANGED watching
Handled(c) == Reply(c) \/ Stores(c) \/ Deletes(c) \/ Asks(c)

\* The storage operations, whatever they are given.
LEMMA StorageSteps ==
  ASSUME NEW c \in Client, NEW id \in Id, NEW v \in Nat, NEW o \in Obj,
         CreateObject(c, id, v) \/ UpdateObject(c, id, o) \/ DeleteObject(c, id) \/ Reply(c)
  PROVE  Handled(c)
<1>1. CASE CreateObject(c, id, v)
  <2>1. [NoObj EXCEPT !.spec = v, !.gen = IF SetsGeneration THEN 1 ELSE 0] \in Obj
    BY NoObjType, Zenon DEF Obj
  <2> QED
    BY <1>1, <2>1, Zenon DEF CreateObject, Handled, Stores
<1>2. CASE UpdateObject(c, id, o)
  BY <1>2, Zenon DEF UpdateObject, Handled, Stores
<1>3. CASE DeleteObject(c, id)
  <2>1. CASE objects[id] = NoObj
    BY <1>3, <2>1, Zenon DEF DeleteObject, Handled
  <2> QED
    BY <1>3, <2>1, Zenon DEF Handled, Deletes
<1> QED
  BY <1>1, <1>2, <1>3, Zenon DEF Handled

\* The handlers of a client: each needs the mutex.
LEMMA HandlerSteps ==
  ASSUME Shape, NEW c \in Client,
         AddObject(c) \/ Post(c) \/ Delete(c) \/ Get(c) \/ Put(c) \/ PutStatus(c) \/ Patch(c)
  PROVE  mu = Nobody /\ kind' = kind /\ Handled(c)
<1> DEFINE r == req[c]
<1>0. mu = Nobody /\ kind' = kind
  BY Zenon DEF AddObject, Post, Delete, Get, Put, PutStatus, Patch, Ready
<1> SUFFICES Handled(c)
  BY <1>0
<1>1. r.id \in Id /\ r.seen \in Obj /\ NoObj \in Obj /\ 0 \in Nat
  BY NoObjType DEF Shape
<1>2. \A v \in Value : v \in Nat /\ BeforeObjectCreation(v) \in Nat
  BY MockConstants DEF BeforeObjectCreation
<1>3. \A old, new \in Obj : Generation(old, new) \in Nat
  BY DEF Generation, Obj
<1>4. CASE AddObject(c)
  BY <1>1, <1>2, <1>4, StorageSteps, SMTT(30) DEF AddObject
<1>5. CASE Post(c)
  BY <1>1, <1>2, <1>5, StorageSteps, SMTT(30) DEF Post
<1>6. CASE Delete(c)
  BY <1>1, <1>6, StorageSteps, SMTT(30) DEF Delete
<1>7. CASE Get(c)
  BY <1>7, Zenon DEF Get, Handled, Asks
<1>8. CASE Put(c)
  <2>1. CASE Reply(c)
    BY <2>1, Zenon DEF Handled
  <2>2. CASE ~ Reply(c)
    <3>1. PICK v \in Value, g \in 0..r.seen.gen :
            LET new == [r.seen EXCEPT !.spec = v, !.gen = g]
            IN  UpdateObject(c, r.id, [new EXCEPT !.gen = Generation(r.seen, new), !.spec = BeforeObjectCreation(v)])
      BY <1>8, <2>2, Zenon DEF Put
    <3> DEFINE new == [r.seen EXCEPT !.spec = v, !.gen = g]
    <3>2. new \in Obj
      <4>1. r.seen.gen \in Nat
        BY <1>1 DEF Obj
      <4>2. g \in Nat /\ v \in Nat
        BY <4>1, <1>2
      <4> QED
        BY <4>2, <1>1, Zenon DEF Obj
    <3> HIDE DEF new
    <3>3. [new EXCEPT !.gen = Generation(r.seen, new), !.spec = BeforeObjectCreation(v)] \in Obj
      BY <1>1, <1>2, <1>3, <3>2, Zenon DEF Obj
    <3>4. UpdateObject(c, r.id, [new EXCEPT !.gen = Generation(r.seen, new), !.spec = BeforeObjectCreation(v)])
      BY <3>1 DEF new
    <3> QED
      BY <1>1, <3>3, <3>4, StorageSteps, SMTT(30)
  <2> QED
    BY <2>1, <2>2
<1>9. CASE PutStatus(c)
  <2>1. PICK s \in Value : Reply(c) \/ UpdateObject(c, r.id, [r.seen EXCEPT !.status = s])
    BY <1>9 DEF PutStatus
  <2>2. [r.seen EXCEPT !.status = s] \in Obj
    BY <1>1, <1>2, SMTT(30) DEF Obj
  <2> QED
    BY <1>1, <2>1, <2>2, StorageSteps
<1>10. CASE Patch(c)
  <2>1. PICK v \in Value :
          \/ CreateObject(c, r.id, BeforeObjectCreation(v))
          \/ Reply(c)
          \/ \E new \in {NoObj, [r.seen EXCEPT !.spec = v]} :
               UpdateObject(c, r.id, [new EXCEPT !.gen = Generation(r.seen, new), !.spec = BeforeObjectCreation(v)])
    BY <1>10, Zenon DEF Patch, DoServerSideApply, ApplyPatch
  <2>2. \A new \in {NoObj, [r.seen EXCEPT !.spec = v]} : new \in Obj
    BY <1>1, <1>2 DEF Obj
  <2>3. \A new \in Obj : [new EXCEPT !.gen = Generation(r.seen, new), !.spec = BeforeObjectCreation(v)] \in Obj
    BY <1>1, <1>2, <1>3, Zenon DEF Obj
  <2> QED
    BY <1>1, <1>2, <2>1, <2>2, <2>3, StorageSteps, ZenonT(30)
<1> QED
  BY <1>4, <1>5, <1>6, <1>7, <1>8, <1>9, <1>10, SMTT(30)

LEMMA HandlerOrder ==
  ASSUME OrderInv, NEW c \in Client, Handled(c)
  PROVE  OrderInv' /\ Rising
<1>1. CASE Asks(c)
  <2>1. PICK id \in Id, op \in {"put", "status", "patch"} :
          /\ req' = [req EXCEPT ![c] = [pc |-> op, id |-> id, seen |-> objects[id]]]
          /\ UNCHANGED <<objects, clock, body>> /\ mirror' = mirror
    BY <1>1, Zenon DEF Asks, watching
  <2>2. req' = [d \in Client |-> req'[d]] /\ \A d \in Client : req'[d].id \in Id /\ req'[d].seen \in Obj
    BY <2>1 DEF OrderInv, Shape
  <2> QED
    BY <2>1, <2>2, QuietOrder, SMTT(30)
<1>2. CASE Stores(c)
  BY <1>2, StoreOrder, Zenon DEF Stores
<1>3. CASE Deletes(c)
  BY <1>3, DeleteOrder, Zenon DEF Deletes
<1> QED
  BY <1>1, <1>2, <1>3, ReplyOrder, Zenon DEF Handled

\* The events of a backfill: one for each object the watch asks for, as it is stored.
LEMMA AddedEvents ==
  ASSUME Shape, NEW w \in Watcher, NEW evs \in Added(w)
  PROVE  /\ evs \in Seq(Event)
         /\ \A i \in 1..Len(evs) : /\ evs[i].type = "ADDED" /\ evs[i].id \in Id /\ evs[i].obj = objects[evs[i].id]
                                    /\ objects[evs[i].id] # NoObj /\ View(w)[evs[i].id] # NoObj
         /\ \A i, j \in 1..Len(evs) : i # j => evs[i].id # evs[j].id
         /\ \A id \in Id : View(w)[id] # NoObj => \E i \in 1..Len(evs) : evs[i].id = id
<1> DEFINE S == {id \in Id : View(w)[id] # NoObj}
<1>1. PICK s \in Bijection(1..Cardinality(S), S) : evs = [i \in DOMAIN s |-> [type |-> "ADDED", id |-> s[i], obj |-> objects[s[i]]]]
  BY ZenonT(60) DEF Added
<1>2. S \subseteq Id /\ \A id \in S : objects[id] # NoObj /\ View(w)[id] # NoObj /\ objects[id] \in Obj
  BY DEF View, Shape
<1> DEFINE n == Cardinality(S)
           I == 1..n
<1>3. \A id \in Id : View(w)[id] # NoObj => id \in S
  OBVIOUS
<1> HIDE DEF S
<1>4. IsFiniteSet(S) /\ n \in Nat
  BY <1>2, MockConstants, FS_Subset, FS_CardinalityType, ZenonT(60)
<1>5. s \in [I -> S] /\ \A i, j \in I : i # j => s[i] # s[j]
  BY <1>1 DEF Bijection, Injection, IsInjective
<1>6. \A i \in I :
        /\ s[i] \in S /\ evs[i] = [type |-> "ADDED", id |-> s[i], obj |-> objects[s[i]]]
        /\ evs[i] \in Event
  BY <1>1, <1>2, <1>5, Zenon DEF Event
<1>7. evs \in [I -> Event]
  <2>1. evs = [i \in I |-> evs[i]]
    BY <1>1, <1>5
  <2> QED
    BY <1>6, <2>1
<1>8. evs \in Seq(Event) /\ Len(evs) = n
  BY <1>4, <1>7
<1>9. ASSUME NEW i \in I PROVE evs[i].type = "ADDED" /\ evs[i].id = s[i] /\ evs[i].obj = objects[s[i]]
  <2>1. evs[i] = [type |-> "ADDED", id |-> s[i], obj |-> objects[s[i]]]
    BY <1>6
  <2> QED
    BY <2>1
<1>10. ASSUME NEW id \in S PROVE \E i \in I : s[i] = id
  BY <1>1 DEF Bijection, Surjection
<1>11. 1..Len(evs) = I
  BY <1>8
<1> HIDE DEF I, n
<1>12. ASSUME NEW i \in I
       PROVE  /\ evs[i].type = "ADDED" /\ evs[i].id \in Id /\ evs[i].obj = objects[evs[i].id]
              /\ objects[evs[i].id] # NoObj /\ View(w)[evs[i].id] # NoObj
  <2>1. s[i] \in S /\ evs[i].id = s[i]
    BY <1>6, <1>9, Zenon
  <2>2. evs[i].id \in Id /\ objects[evs[i].id] # NoObj /\ View(w)[evs[i].id] # NoObj
    BY <1>2, <2>1, Zenon
  <2> QED
    BY <1>9, <2>1, <2>2, Zenon
<1>13. ASSUME NEW i \in I, NEW j \in I, i # j PROVE evs[i].id # evs[j].id
  <2>1. evs[i].id = s[i] /\ evs[j].id = s[j]
    BY <1>9
  <2> QED
    BY <1>5, <1>13, <2>1, Zenon
<1>14. ASSUME NEW id \in Id, View(w)[id] # NoObj PROVE \E i \in I : evs[i].id = id
  <2>1. PICK i \in I : s[i] = id
    BY <1>3, <1>10, <1>14
  <2>2. evs[i].id = id
    BY <1>9, <2>1
  <2> QED
    BY <2>2
<1> QED
  BY <1>8, <1>11, <1>12, <1>13, <1>14, Zenon

LEMMA BackfillOrder ==
  ASSUME OrderInv, NEW w \in Watcher, Backfill(w)
  PROVE  OrderInv' /\ Rising
<1>1. /\ Shape /\ mirror' = mirror /\ objects' = objects /\ clock' = clock /\ req' = req
      /\ body \in [Watcher -> Seq(Event)] /\ objects \in [Id -> Obj] /\ Top \in [Id -> Nat]
  BY TopType DEF Backfill, OrderInv, Shape
<1>2. PICK evs \in Added(w) : body' = body \/ body' = [body EXCEPT ![w] = @ \o evs]
  BY SMTT(60) DEF Backfill, Write
<1>7. /\ evs \in Seq(Event) /\ \A i \in 1..Len(evs) : evs[i].obj.rv = Top[evs[i].id]
      /\ \A i, j \in 1..Len(evs) : i # j => evs[i].id # evs[j].id
  BY <1>1, <1>2, AddedEvents, SMTT(60) DEF Top
<1>8. Rising
  BY <1>1, StillRising, SMTT(30)
<1>9. \A v \in Watcher : body'[v] \in Seq(Event) /\ (body'[v] = body[v] \/ (v = w /\ body'[v] = body[v] \o evs))
  <2>1. evs \in Seq(Event) /\ \A v \in Watcher : body[v] \in Seq(Event)
    BY <1>1, <1>7
  <2>2. \A v \in Watcher : body[v] \o evs \in Seq(Event)
    BY <2>1
  <2>3. ASSUME NEW v \in Watcher PROVE body'[v] = body[v] \/ (v = w /\ body'[v] = body[v] \o evs)
    <3> DEFINE b == body[w] \o evs
    <3>1. body' = body \/ body' = [body EXCEPT ![w] = b]
      BY <1>2
    <3> HIDE DEF b
    <3>2. body'[v] = body[v] \/ (v = w /\ body'[v] = b)
      BY <1>1, <3>1
    <3> QED
      BY <3>2 DEF b
  <2> QED
    BY <2>1, <2>2, <2>3, Zenon
<1>10. Shape'
  <2>1. body' = [v \in Watcher |-> body'[v]]
    BY <1>1, <1>2
  <2> QED
    BY <1>1, <1>9, <2>1, SMTT(30) DEF Shape
<1>11. Top' = Top
  BY <1>1 DEF Top
<1>12. ASSUME NEW v \in Watcher PROVE InOrder(mirror[v], body'[v], Top)
  <2> DEFINE top == Top
  <2>1. mirror[v] \in [Id -> Obj] /\ body[v] \in Seq(Event) /\ InOrder(mirror[v], body[v], top)
    BY DEF OrderInv, Shape
  <2>2. top \in [Id -> Nat]
    BY <1>1
  <2>3. \A i \in 1..Len(evs) : evs[i].obj.rv = top[evs[i].id]
    BY <1>7
  <2> HIDE DEF top
  <2>4. InOrder(mirror[v], body[v] \o evs, top)
    BY <1>7, <2>1, <2>2, <2>3, OrderBackfills, ZenonT(60)
  <2> QED
    BY <1>9, <2>1, <2>4, Zenon DEF top
<1> QED
  BY <1>1, <1>8, <1>10, <1>11, <1>12, ZenonT(60) DEF OrderInv

LEMMA ReadOrder ==
  ASSUME OrderInv, NEW w \in Watcher, Read(w)
  PROVE  OrderInv' /\ Rising
<1>1. /\ Shape /\ objects' = objects /\ clock' = clock /\ req' = req /\ body[w] # <<>>
      /\ body \in [Watcher -> Seq(Event)] /\ mirror \in [Watcher -> [Id -> Obj]] /\ Top \in [Id -> Nat]
      /\ mirror' = [mirror EXCEPT ![w] = See(@, Head(body[w]))] /\ body' = [body EXCEPT ![w] = Tail(@)]
  BY TopType, Zenon DEF Read, OrderInv, Shape
<1> DEFINE top == Top
           next == See(mirror[w], Head(body[w]))
<1>2. top \in [Id -> Nat] /\ \A v \in Watcher : InOrder(mirror[v], body[v], top)
  BY <1>1, Zenon DEF OrderInv
<1> HIDE DEF top
<1>3. /\ next \in [Id -> Obj] /\ Tail(body[w]) \in Seq(Event) /\ InOrder(next, Tail(body[w]), top)
      /\ \A id \in Id : next[id] # NoObj => mirror[w][id].rv <= next[id].rv
  <2> DEFINE k == mirror[w]
             e == body[w]
  <2>1. k \in [Id -> Obj] /\ e \in Seq(Event) /\ e # <<>> /\ InOrder(k, e, top)
    BY <1>1, <1>2, SMTT(30)
  <2> HIDE DEF k, e
  <2>2. /\ See(k, Head(e)) \in [Id -> Obj] /\ Tail(e) \in Seq(Event) /\ InOrder(See(k, Head(e)), Tail(e), top)
        /\ \A id \in Id : See(k, Head(e))[id] # NoObj => k[id].rv <= See(k, Head(e))[id].rv
    BY <1>2, <2>1, OrderTakes, Zenon
  <2> QED
    BY <2>2, Zenon DEF k, e
<1> HIDE DEF next
<1>4. mirror' = [mirror EXCEPT ![w] = next]
  BY <1>1 DEF next
<1>5. \A v \in Watcher : \/ v = w /\ mirror'[v] = next /\ body'[v] = Tail(body[w])
                         \/ v # w /\ mirror'[v] = mirror[v] /\ body'[v] = body[v]
  BY <1>1, <1>4
<1>6. body' \in [Watcher -> Seq(Event)] /\ mirror' \in [Watcher -> [Id -> Obj]]
  BY <1>1, <1>3, <1>4, SMTT(30)
<1>7. Shape' /\ top = Top'
  BY <1>1, <1>6, SMTT(30) DEF Shape, Top, top
<1>8. \A v \in Watcher : InOrder(mirror'[v], body'[v], top)
  BY <1>2, <1>3, <1>5, Zenon
<1>9. Rising
  <2>1. \A v \in Watcher, id \in Id : mirror[v][id].rv \in Nat /\ next[id].rv \in Nat
    BY <1>1, <1>3, Versions, Zenon
  <2> QED
    BY <1>3, <1>5, <2>1, SMTT(30) DEF Rising
<1> QED
  BY <1>1, <1>7, <1>8, <1>9, Zenon DEF OrderInv

LEMMA HangupOrder ==
  ASSUME OrderInv, NEW w \in Watcher, Hangup(w)
  PROVE  OrderInv' /\ Rising
<1> DEFINE none == [id \in Id |-> NoObj]
<1>1. /\ Shape /\ objects' = objects /\ clock' = clock /\ req' = req
      /\ body \in [Watcher -> Seq(Event)] /\ mirror \in [Watcher -> [Id -> Obj]] /\ Top \in [Id -> Nat]
      /\ mirror' = [mirror EXCEPT ![w] = none] /\ body' = [body EXCEPT ![w] = <<>>]
  BY TopType, Zenon DEF Hangup, OrderInv, Shape
<1>2. none \in [Id -> Obj] /\ \A id \in Id : none[id] = NoObj
  BY NoObjType
<1> HIDE DEF none
<1>3. InOrder(none, <<>>, Top)
  BY <1>1, <1>2, NoObjType DEF InOrder
<1>4. \A v \in Watcher : \/ mirror'[v] = none /\ body'[v] = <<>>
                         \/ mirror'[v] = mirror[v] /\ body'[v] = body[v]
  BY <1>1
<1>5. body' \in [Watcher -> Seq(Event)] /\ mirror' \in [Watcher -> [Id -> Obj]]
  BY <1>1, <1>2
<1>6. Shape' /\ Top' = Top
  BY <1>1, <1>5, ZenonT(60) DEF Shape, Top
<1>7. \A v \in Watcher : InOrder(mirror'[v], body'[v], Top)
  BY <1>3, <1>4 DEF OrderInv
<1>8. Rising
  <2>1. \A v \in Watcher, id \in Id : mirror[v][id].rv \in Nat
    BY <1>1, Versions, Zenon
  <2>2. \A v \in Watcher, id \in Id : mirror'[v][id] = NoObj \/ mirror'[v][id] = mirror[v][id]
    BY <1>2, <1>4
  <2> QED
    BY <2>1, <2>2 DEF Rising
<1> QED
  BY <1>1, <1>6, <1>7, <1>8, ZenonT(60) DEF OrderInv

LEMMA NextOrder == OrderInv /\ [Next]_vars => OrderInv' /\ Rising
<1> SUFFICES ASSUME OrderInv, [Next]_vars PROVE OrderInv' /\ Rising
  OBVIOUS
<1>1. ASSUME UNCHANGED <<objects, clock, body, mirror, req>> PROVE OrderInv' /\ Rising
  <2>1. UNCHANGED <<objects, clock, body, mirror>> /\ req' = req
    BY <1>1
  <2>2. req' = [c \in Client |-> req'[c]] /\ \A c \in Client : req'[c].id \in Id /\ req'[c].seen \in Obj
    BY <2>1 DEF OrderInv, Shape
  <2> QED
    BY <2>1, <2>2, QuietOrder
<1>2. ASSUME NEW w \in Watcher, Register(w) PROVE OrderInv' /\ Rising
  BY <1>1, <1>2 DEF Register
<1>3. CASE UNCHANGED vars
  BY <1>1, <1>3 DEF vars
<1>4. ASSUME NEW c \in Client,
             AddObject(c) \/ Post(c) \/ Delete(c) \/ Get(c) \/ Put(c) \/ PutStatus(c) \/ Patch(c)
      PROVE  OrderInv' /\ Rising
  <2>1. Handled(c)
    BY <1>4, HandlerSteps, Zenon DEF OrderInv
  <2> QED
    BY <2>1, HandlerOrder
<1> QED
  BY <1>2, <1>3, <1>4, BackfillOrder, ReadOrder, HangupOrder, Zenon DEF Next

\* What was deleted comes back only as something newer: among the events on their way
\* to a client, and in the storage, where a backfill takes its events from.
Dead(e)      == e.type = "DELETED"
Before(e, o) == e.obj.rv < o.rv

DeadBefore(evs, objs) ==
  \A i \in 1..Len(evs) : Dead(evs[i]) /\ objs[evs[i].id] # NoObj => Before(evs[i], objs[evs[i].id])

StaysDead(evs) ==
  \A i, j \in 1..Len(evs) : i < j /\ evs[i].id = evs[j].id /\ Dead(evs[i]) => Before(evs[i], evs[j].obj)

DeadInv == \A w \in Watcher : StaysDead(body[w]) /\ DeadBefore(body[w], objects)

\* Events about different objects are added, each newer than any deletion before it.
LEMMA DeadAdds ==
  ASSUME NEW evs \in Seq(Event), NEW more \in Seq(Event), StaysDead(evs),
         \A i, j \in 1..Len(more) : i # j => more[i].id # more[j].id,
         \A i \in 1..Len(evs), j \in 1..Len(more) :
           Dead(evs[i]) /\ evs[i].id = more[j].id => Before(evs[i], more[j].obj)
  PROVE  StaysDead(evs \o more)
<1> DEFINE new == evs \o more
           m(i) == i - Len(evs)
<1>1. ASSUME NEW i \in 1..Len(new)
      PROVE  \/ i \in 1..Len(evs) /\ new[i] = evs[i]
             \/ i > Len(evs) /\ m(i) \in 1..Len(more) /\ new[i] = more[m(i)]
  OBVIOUS
<1>2. ASSUME NEW i \in 1..Len(new), NEW j \in 1..Len(new), i < j
      PROVE  (i > Len(evs) => m(i) # m(j)) /\ (j \in 1..Len(evs) => i \in 1..Len(evs) /\ ~(i > Len(evs)))
  BY <1>2
<1> HIDE DEF new, m
<1>3. ASSUME NEW i \in 1..Len(new), NEW j \in 1..Len(new), i < j, new[i].id = new[j].id, Dead(new[i])
      PROVE  Before(new[i], new[j].obj)
  <2>1. CASE j \in 1..Len(evs) /\ new[j] = evs[j]
    BY <1>1, <1>2, <1>3, <2>1, Zenon DEF StaysDead
  <2>2. CASE m(j) \in 1..Len(more) /\ new[j] = more[m(j)]
    BY <1>1, <1>2, <1>3, <2>2, Zenon
  <2> QED
    BY <1>1, <2>1, <2>2, Zenon
<1> QED
  BY <1>3, Zenon DEF StaysDead, new

\* A broadcast: the event is newer than the deletions before it.
LEMMA BroadcastDead ==
  ASSUME Shape, DeadInv, NEW c \in Client, NEW type \in {"ADDED", "MODIFIED", "DELETED"}, NEW id \in Id, NEW o \in Obj,
         Broadcast(c, type, id, o),
         \A w \in Watcher : \A i \in 1..Len(body[w]) : Dead(body[w][i]) /\ body[w][i].id = id => Before(body[w][i], o)
  PROVE  \A w \in Watcher : /\ StaysDead(body'[w])
                            /\ \/ body'[w] = body[w]
                               \/ body'[w] = body[w] \o <<[type |-> type, id |-> id, obj |-> o]>>
<1> DEFINE ev == [type |-> type, id |-> id, obj |-> o]
           more == <<ev>>
<1>1. \A w \in Watcher : body'[w] = body[w] \/ body'[w] = body[w] \o more
  BY BroadcastAdds, Zenon
<1>2. more \in Seq(Event) /\ \A j \in 1..Len(more) : j = 1 /\ more[j].id = id /\ more[j].obj = o
  BY DEF Event
<1> HIDE DEF more
<1>3. ASSUME NEW w \in Watcher PROVE StaysDead(body[w]) /\ StaysDead(body[w] \o more)
  <2>1. body[w] \in Seq(Event) /\ StaysDead(body[w])
    BY DEF Shape, DeadInv
  <2>2. \A i, j \in 1..Len(more) : i # j => more[i].id # more[j].id
    BY <1>2, Zenon
  <2>3. \A i \in 1..Len(body[w]), j \in 1..Len(more) :
          Dead(body[w][i]) /\ body[w][i].id = more[j].id => Before(body[w][i], more[j].obj)
    BY <1>2, Zenon
  <2> QED
    BY <1>2, <2>1, <2>2, <2>3, DeadAdds, Zenon
<1> QED
  BY <1>1, <1>3, Zenon DEF more

LEMMA DeadBeforeAdds ==
  ASSUME NEW evs \in Seq(Event), NEW more \in Seq(Event), NEW objs, DeadBefore(evs, objs), DeadBefore(more, objs)
  PROVE  DeadBefore(evs \o more, objs)
<1> DEFINE new == evs \o more
<1>1. ASSUME NEW i \in 1..Len(new)
      PROVE  \/ i \in 1..Len(evs) /\ new[i] = evs[i]
             \/ i - Len(evs) \in 1..Len(more) /\ new[i] = more[i - Len(evs)]
  OBVIOUS
<1> HIDE DEF new
<1>2. \A i \in 1..Len(new) : Dead(new[i]) /\ objs[new[i].id] # NoObj => Before(new[i], objs[new[i].id])
  BY <1>1, Zenon DEF DeadBefore
<1> QED
  BY <1>2, Zenon DEF DeadBefore, new

LEMMA EventOf ==
  ASSUME Shape, NEW w \in Watcher, NEW i \in 1..Len(body[w])
  PROVE  body[w][i].id \in Id /\ body[w][i].obj.rv \in Nat
<1>1. body[w] \in Seq(Event)
  BY DEF Shape
<1>2. body[w][i] \in Event
  BY <1>1
<1> QED
  BY <1>2 DEF Event, Obj

LEMMA HandlerDead ==
  ASSUME OrderInv, Shape, DeadInv, NEW c \in Client, Handled(c)
  PROVE  DeadInv'
<1>0. objects \in [Id -> Obj] /\ clock \in Nat /\ \A w \in Watcher : body[w] \in Seq(Event)
  BY DEF Shape
<1>1. CASE Reply(c) \/ Asks(c)
  <2>1. objects' = objects /\ body' = body
    BY <1>1, Zenon DEF Reply, Asks
  <2> QED
    BY <2>1 DEF DeadInv
<1>2. CASE Stores(c)
  <2>1. PICK type \in {"ADDED", "MODIFIED"}, id \in Id, o \in Obj : Store(c, type, id, o)
    BY <1>2, Zenon DEF Stores
  <2> DEFINE v == [o EXCEPT !.rv = clock + 1]
             u == OnWatchEvent(v)
             ev == [type |-> type, id |-> id, obj |-> u]
  <2>2. v \in Obj /\ v.rv = clock + 1
    BY <1>0, SMTT(60) DEF Obj
  <2>3. u \in Obj /\ u.rv = clock + 1
    BY <2>2, HooksKeepVersion, Zenon
  <2>4. objects' = [objects EXCEPT ![id] = u] /\ Broadcast(c, type, id, u)
    BY <2>1 DEF Store
  <2> HIDE DEF u, v
  <2>5. ASSUME NEW w \in Watcher, NEW i \in 1..Len(body[w]) PROVE Before(body[w][i], u)
    <3>1. body[w][i].id \in Id /\ body[w][i].obj.rv \in Nat
      BY EventOf
    <3>2. body[w][i].obj.rv <= Top[body[w][i].id]
      BY Zenon DEF OrderInv, InOrder
    <3>3. \A k \in Id : Top[k] \in Nat /\ Top[k] <= clock
      BY <1>0 DEF Top, OrderInv, Obj
    <3> QED
      BY <1>0, <2>3, <3>1, <3>2, <3>3 DEF Before
  <2>6. \A w \in Watcher : StaysDead(body'[w]) /\ (body'[w] = body[w] \/ body'[w] = body[w] \o <<ev>>)
    <3>1. type \in {"ADDED", "MODIFIED", "DELETED"}
      OBVIOUS
    <3> QED
      BY <2>3, <2>4, <2>5, <3>1, BroadcastDead, ZenonT(60)
  <2>7. \A k \in Id : objects'[k] = IF k = id THEN u ELSE objects[k]
    BY <1>0, <2>4
  <2>8. ASSUME NEW w \in Watcher PROVE DeadBefore(body[w], objects')
    <3>1. \A i \in 1..Len(body[w]) : body[w][i].id \in Id
      BY EventOf, Zenon
    <3> QED
      BY <2>5, <2>7, <3>1, Zenon DEF DeadInv, DeadBefore
  <2>9. <<ev>> \in Seq(Event) /\ DeadBefore(<<ev>>, objects')
    <3>1. ev \in Event /\ ev.type = type
      BY <2>3 DEF Event
    <3>2. ~Dead(ev)
      BY <2>1, <3>1 DEF Dead
    <3> HIDE DEF ev
    <3> QED
      BY <3>1, <3>2 DEF DeadBefore
  <2> HIDE DEF ev
  <2>10. ASSUME NEW w \in Watcher PROVE DeadBefore(body[w] \o <<ev>>, objects')
    BY <1>0, <2>8, <2>9, DeadBeforeAdds, Zenon
  <2> QED
    BY <2>6, <2>8, <2>10, Zenon DEF DeadInv
<1>3. CASE Deletes(c)
  <2>1. PICK id \in Id : objects[id] # NoObj /\ DeleteObject(c, id)
    BY <1>3 DEF Deletes
  <2> DEFINE u == OnWatchEvent(objects[id])
             ev == [type |-> "DELETED", id |-> id, obj |-> u]
  <2>2. u \in Obj /\ u.rv = objects[id].rv
    BY <1>0, HooksKeepVersion
  <2>3. objects' = [objects EXCEPT ![id] = NoObj] /\ Broadcast(c, "DELETED", id, u)
    BY <2>1 DEF DeleteObject
  <2> HIDE DEF u
  <2>4. ASSUME NEW w \in Watcher, NEW i \in 1..Len(body[w]), Dead(body[w][i]), body[w][i].id = id
        PROVE  Before(body[w][i], u)
    <3>1. Before(body[w][i], objects[id])
      BY <2>1, <2>4, Zenon DEF DeadInv, DeadBefore
    <3> QED
      BY <2>2, <3>1, Zenon DEF Before
  <2>5. \A w \in Watcher : StaysDead(body'[w]) /\ (body'[w] = body[w] \/ body'[w] = body[w] \o <<ev>>)
    BY <2>2, <2>3, <2>4, BroadcastDead, Zenon
  <2>6. \A k \in Id : objects'[k] = IF k = id THEN NoObj ELSE objects[k]
    BY <1>0, <2>3
  <2>7. ASSUME NEW w \in Watcher PROVE DeadBefore(body[w], objects')
    <3>1. \A i \in 1..Len(body[w]) : body[w][i].id \in Id
      BY EventOf, Zenon
    <3> QED
      BY <2>6, <3>1, Zenon DEF DeadInv, DeadBefore
  <2>8. <<ev>> \in Seq(Event) /\ DeadBefore(<<ev>>, objects')
    <3>1. ev \in Event /\ ev.id = id
      BY <2>2, Zenon DEF Event
    <3>2. objects'[ev.id] = NoObj
      BY <2>6, <3>1
    <3> HIDE DEF ev
    <3> QED
      BY <3>1, <3>2 DEF DeadBefore
  <2> HIDE DEF ev
  <2>9. ASSUME NEW w \in Watcher PROVE DeadBefore(body[w] \o <<ev>>, objects')
    BY <1>0, <2>7, <2>8, DeadBeforeAdds, Zenon
  <2> QED
    BY <2>5, <2>7, <2>9, Zenon DEF DeadInv
<1> QED
  BY <1>1, <1>2, <1>3 DEF Handled

LEMMA BackfillDead ==
  ASSUME Shape, DeadInv, NEW w \in Watcher, Backfill(w)
  PROVE  DeadInv'
<1>1. objects' = objects /\ body \in [Watcher -> Seq(Event)]
  BY Zenon DEF Backfill, Shape
<1>2. PICK evs \in Added(w) : body' = body \/ body' = [body EXCEPT ![w] = @ \o evs]
  BY SMTT(60) DEF Backfill, Write
<1>3. /\ evs \in Seq(Event)
      /\ \A i \in 1..Len(evs) : evs[i].type = "ADDED" /\ evs[i].obj = objects[evs[i].id] /\ objects[evs[i].id] # NoObj
      /\ \A i, j \in 1..Len(evs) : i # j => evs[i].id # evs[j].id
  BY AddedEvents, ZenonT(60)
<1>4. \A i \in 1..Len(evs) : ~Dead(evs[i])
  BY <1>3 DEF Dead
<1>5. DeadBefore(evs, objects)
  BY <1>4, Zenon DEF DeadBefore
<1>6. body[w] \in Seq(Event) /\ StaysDead(body[w]) /\ DeadBefore(body[w], objects)
  BY <1>1 DEF DeadInv
<1> DEFINE b == body[w] \o evs
<1>7. \A i \in 1..Len(body[w]), j \in 1..Len(evs) :
        Dead(body[w][i]) /\ body[w][i].id = evs[j].id => Before(body[w][i], evs[j].obj)
  BY <1>3, <1>6, Zenon DEF DeadBefore
<1>8. StaysDead(b) /\ DeadBefore(b, objects)
  BY <1>3, <1>5, <1>6, <1>7, DeadAdds, DeadBeforeAdds, Zenon
<1>9. body' = body \/ body' = [body EXCEPT ![w] = b]
  BY <1>2
<1> HIDE DEF b
<1>10. \A v \in Watcher : body'[v] = body[v] \/ body'[v] = b
  BY <1>1, <1>9
<1> QED
  BY <1>1, <1>8, <1>10, Zenon DEF DeadInv

LEMMA ReadDead ==
  ASSUME Shape, DeadInv, NEW w \in Watcher, Read(w) \/ Hangup(w)
  PROVE  DeadInv'
<1>1. /\ objects' = objects /\ body \in [Watcher -> Seq(Event)]
      /\ \/ body' = [body EXCEPT ![w] = <<>>]
         \/ body[w] # <<>> /\ body' = [body EXCEPT ![w] = Tail(@)]
  BY DEF Read, Hangup, Shape
<1> DEFINE e == body[w]
<1>2. e \in Seq(Event) /\ StaysDead(e) /\ DeadBefore(e, objects)
  BY <1>1 DEF DeadInv
<1>3. StaysDead(<<>>) /\ DeadBefore(<<>>, objects)
  BY DEF StaysDead, DeadBefore
<1> HIDE DEF e
<1>4. ASSUME e # <<>> PROVE StaysDead(Tail(e)) /\ DeadBefore(Tail(e), objects)
  <2>1. /\ \A i \in 1..Len(Tail(e)) : Tail(e)[i] = e[i + 1] /\ i + 1 \in 1..Len(e)
        /\ \A i, j \in 1..Len(Tail(e)) : i < j => i + 1 < j + 1
    BY <1>2, <1>4
  <2> QED
    BY <1>2, <2>1, ZenonT(60) DEF StaysDead, DeadBefore
<1>5. \A v \in Watcher : \/ body'[v] = body[v] \/ body'[v] = <<>>
                         \/ e # <<>> /\ body'[v] = Tail(e)
  BY <1>1 DEF e
<1> QED
  BY <1>1, <1>3, <1>4, <1>5, Zenon DEF DeadInv

LEMMA NextDead == OrderInv /\ DeadInv /\ [Next]_vars => DeadInv'
<1> SUFFICES ASSUME OrderInv, Shape, DeadInv, [Next]_vars PROVE DeadInv'
  BY Zenon DEF OrderInv
<1>1. ASSUME NEW c \in Client,
             AddObject(c) \/ Post(c) \/ Delete(c) \/ Get(c) \/ Put(c) \/ PutStatus(c) \/ Patch(c)
      PROVE  DeadInv'
  BY <1>1, HandlerSteps, HandlerDead, Zenon
<1>2. ASSUME NEW w \in Watcher, Register(w) PROVE DeadInv'
  BY <1>2 DEF Register, DeadInv
<1>3. CASE UNCHANGED vars
  BY <1>3 DEF vars, DeadInv
<1> QED
  BY <1>1, <1>2, <1>3, BackfillDead, ReadDead, ZenonT(60) DEF Next

\* However the writers, the registrations, the backfills and the broadcasts
\* interleave, the client of a watch never sees an object go back to an older version,
\* nor one that was deleted come back but as a newer one.
THEOREM SeenGoesForward == Spec => NeverBack
<1>1. OrderInv /\ [Next]_vars =>
        [\A w \in Watcher, id \in Id : mirror'[w][id] # NoObj => mirror'[w][id].rv >= mirror[w][id].rv]_vars
  BY NextOrder, ZenonT(60) DEF Rising
<1>2. Init => DeadInv
  <2>1. \A objs : StaysDead(<<>>) /\ DeadBefore(<<>>, objs)
    BY DEF StaysDead, DeadBefore
  <2> QED
    BY <2>1, Zenon DEF Init, DeadInv
<1>3. OrderInv /\ DeadInv => EventsInOrder
  <2> SUFFICES ASSUME OrderInv, DeadInv, NEW w \in Watcher, NEW i \in DOMAIN body[w], NEW j \in DOMAIN body[w],
                      i < j, body[w][i].id = body[w][j].id
               PROVE  /\ body[w][i].obj.rv <= body[w][j].obj.rv
                      /\ body[w][i].type = "DELETED" => body[w][i].obj.rv < body[w][j].obj.rv
    BY Zenon DEF EventsInOrder
  <2>1. DOMAIN body[w] = 1..Len(body[w])
    BY DEF OrderInv, Shape
  <2>2. body[w][i].obj.rv <= body[w][j].obj.rv
    BY <2>1, Zenon DEF OrderInv, InOrder
  <2>3. body[w][i].type = "DELETED" => body[w][i].obj.rv < body[w][j].obj.rv
    BY <2>1, Zenon DEF DeadInv, StaysDead, Dead, Before
  <2> QED
    BY <2>2, <2>3, Zenon
<1> QED
  BY <1>1, <1>2, <1>3, InitOrder, NextOrder, NextDead, PTL DEF Spec, NeverBack

(***************************************************************************)
(* What a watch shows is what the hooks have finished.                     *)
(***************************************************************************)
Finished(k, o)    == k = "Deployment" => o.status = o.gen
AllFinished(k, evs) == \A i \in 1..Len(evs) : Finished(k, evs[i].obj)

FinishedInv ==
  /\ \A id \in Id : Finished(kind, objects[id])
  /\ \A w \in Watcher : AllFinished(kind, body[w])

LEMMA HooksFinish ==
  ASSUME NEW o \in Obj
  PROVE  Finished(kind, OnWatchEvent(o))
<1>1. NamespaceChanged(o) \in Obj
  BY DEF NamespaceChanged, Obj
<1>2. \A p \in Obj : Finished(kind, DeploymentChanged(p))
  BY DEF DeploymentChanged, Obj, Finished
<1> QED
  BY <1>1, <1>2 DEF OnWatchEvent

LEMMA NoObjFinished == Finished(kind, NoObj)
BY DEF Finished, NoObj

LEMMA FinishedAdds ==
  ASSUME NEW k, NEW evs \in Seq(Event), NEW more \in Seq(Event), AllFinished(k, evs), AllFinished(k, more)
  PROVE  AllFinished(k, evs \o more)
<1> DEFINE new == evs \o more
<1>1. ASSUME NEW i \in 1..Len(new)
      PROVE  \/ i \in 1..Len(evs) /\ new[i] = evs[i]
             \/ i - Len(evs) \in 1..Len(more) /\ new[i] = more[i - Len(evs)]
  OBVIOUS
<1> HIDE DEF new
<1>2. ASSUME NEW i \in 1..Len(new) PROVE Finished(k, new[i].obj)
  BY <1>1, Zenon DEF AllFinished
<1>3. AllFinished(k, new)
  BY <1>2, Zenon DEF AllFinished
<1> QED
  BY <1>3 DEF new

\* A broadcast of a finished object.
LEMMA BroadcastFinished ==
  ASSUME Shape, FinishedInv, kind' = kind, NEW c \in Client, NEW type \in {"ADDED", "MODIFIED", "DELETED"},
         NEW id \in Id, NEW o \in Obj, Finished(kind, o), Broadcast(c, type, id, o)
  PROVE  \A w \in Watcher : AllFinished(kind, body'[w])
<1> DEFINE ev == [type |-> type, id |-> id, obj |-> o]
<1>1. \A w \in Watcher : body'[w] = body[w] \/ body'[w] = body[w] \o <<ev>>
  BY BroadcastAdds, ZenonT(60)
<1>2. <<ev>> \in Seq(Event) /\ Len(<<ev>>) = 1 /\ <<ev>>[1] = ev /\ ev.obj = o
  BY DEF Event
<1>3. AllFinished(kind, <<ev>>)
  BY <1>2 DEF AllFinished
<1>4. \A w \in Watcher : body[w] \in Seq(Event) /\ AllFinished(kind, body[w])
  BY DEF Shape, FinishedInv
<1> HIDE DEF ev
<1>5. ASSUME NEW w \in Watcher PROVE AllFinished(kind, body[w] \o <<ev>>)
  BY <1>2, <1>3, <1>4, FinishedAdds, Zenon
<1> QED
  BY <1>1, <1>4, <1>5, Zenon

LEMMA HandlerFinished ==
  ASSUME Shape, FinishedInv, kind' = kind, NEW c \in Client, Handled(c)
  PROVE  FinishedInv'
<1>0. objects \in [Id -> Obj] /\ clock \in Nat
  BY DEF Shape
<1>1. CASE Reply(c) \/ Asks(c)
  <2>1. objects' = objects /\ body' = body
    BY <1>1, Zenon DEF Reply, Asks
  <2> QED
    BY <2>1 DEF FinishedInv
<1>2. CASE Stores(c)
  <2>1. PICK type \in {"ADDED", "MODIFIED"}, id \in Id, o \in Obj : Store(c, type, id, o)
    BY <1>2, Zenon DEF Stores
  <2> DEFINE v == [o EXCEPT !.rv = clock + 1]
             u == OnWatchEvent(v)
  <2>2. v \in Obj
    BY <1>0 DEF Obj
  <2>3. u \in Obj /\ Finished(kind, u)
    BY <2>2, HooksKeepVersion, HooksFinish, Zenon
  <2>4. objects' = [objects EXCEPT ![id] = u] /\ Broadcast(c, type, id, u)
    BY <2>1 DEF Store
  <2> HIDE DEF u, v
  <2>5. \A w \in Watcher : AllFinished(kind, body'[w])
    BY <2>3, <2>4, BroadcastFinished
  <2>6. \A i \in Id : Finished(kind, objects'[i])
    BY <1>0, <2>3, <2>4, SMTT(60) DEF FinishedInv
  <2> QED
    BY <2>5, <2>6, Zenon DEF FinishedInv
<1>3. CASE Deletes(c)
  <2>1. PICK id \in Id : objects[id] # NoObj /\ DeleteObject(c, id)
    BY <1>3 DEF Deletes
  <2> DEFINE u == OnWatchEvent(objects[id])
  <2>2. u \in Obj /\ Finished(kind, u)
    BY <1>0, HooksKeepVersion, HooksFinish
  <2>3. objects' = [objects EXCEPT ![id] = NoObj] /\ Broadcast(c, "DELETED", id, u)
    BY <2>1 DEF DeleteObject
  <2> HIDE DEF u
  <2>4. \A w \in Watcher : AllFinished(kind, body'[w])
    BY <2>2, <2>3, BroadcastFinished
  <2>5. \A i \in Id : Finished(kind, objects'[i])
    BY <1>0, <2>3, NoObjFinished DEF FinishedInv
  <2> QED
    BY <2>4, <2>5, Zenon DEF FinishedInv
<1> QED
  BY <1>1, <1>2, <1>3 DEF Handled

LEMMA BackfillFinished ==
  ASSUME Shape, FinishedInv, NEW w \in Watcher, Backfill(w)
  PROVE  FinishedInv'
<1>1. objects' = objects /\ kind' = kind /\ body \in [Watcher -> Seq(Event)]
  BY Zenon DEF Backfill, Shape
<1>2. PICK evs \in Added(w) : body' = body \/ body' = [body EXCEPT ![w] = @ \o evs]
  BY SMTT(60) DEF Backfill, Write
<1>3. evs \in Seq(Event) /\ AllFinished(kind, evs)
  BY AddedEvents DEF AllFinished, FinishedInv
<1>4. \A v \in Watcher : body[v] \in Seq(Event) /\ AllFinished(kind, body[v])
  BY <1>1 DEF FinishedInv
<1> DEFINE b == body[w] \o evs
<1>5. AllFinished(kind, b)
  BY <1>3, <1>4, FinishedAdds, Zenon
<1>6. body' = body \/ body' = [body EXCEPT ![w] = b]
  BY <1>2
<1> HIDE DEF b
<1>7. \A v \in Watcher : body'[v] = body[v] \/ body'[v] = b
  BY <1>1, <1>6
<1> QED
  BY <1>1, <1>4, <1>5, <1>7 DEF FinishedInv

LEMMA ReadFinished ==
  ASSUME Shape, FinishedInv, NEW w \in Watcher, Read(w) \/ Hangup(w)
  PROVE  FinishedInv'
<1>1. /\ objects' = objects /\ kind' = kind /\ body \in [Watcher -> Seq(Event)]
      /\ \/ body' = [body EXCEPT ![w] = <<>>]
         \/ body[w] # <<>> /\ body' = [body EXCEPT ![w] = Tail(@)]
  BY Zenon DEF Read, Hangup, Shape
<1> DEFINE e == body[w]
<1>2. e \in Seq(Event) /\ AllFinished(kind, e)
  BY <1>1 DEF FinishedInv
<1>3. AllFinished(kind, <<>>)
  BY DEF AllFinished
<1> HIDE DEF e
<1>4. ASSUME e # <<>> PROVE AllFinished(kind, Tail(e))
  <2>1. \A i \in 1..Len(Tail(e)) : Tail(e)[i] = e[i + 1] /\ i + 1 \in 1..Len(e)
    BY <1>2, <1>4
  <2> QED
    BY <1>2, <2>1, ZenonT(60) DEF AllFinished
<1>5. \A v \in Watcher : \/ body'[v] = body[v] \/ body'[v] = <<>>
                         \/ e # <<>> /\ body'[v] = Tail(e)
  BY <1>1, SMTT(60) DEF e
<1> QED
  BY <1>1, <1>3, <1>4, <1>5, ZenonT(60) DEF FinishedInv

LEMMA NextFinished == OrderInv /\ FinishedInv /\ [Next]_vars => FinishedInv'
<1> SUFFICES ASSUME OrderInv, Shape, FinishedInv, [Next]_vars PROVE FinishedInv'
  BY DEF OrderInv
<1>1. ASSUME NEW c \in Client,
             AddObject(c) \/ Post(c) \/ Delete(c) \/ Get(c) \/ Put(c) \/ PutStatus(c) \/ Patch(c)
      PROVE  FinishedInv'
  BY <1>1, HandlerSteps, HandlerFinished, Zenon
<1>2. ASSUME NEW w \in Watcher, Register(w) PROVE FinishedInv'
  BY <1>2 DEF Register, FinishedInv
<1>3. CASE UNCHANGED vars
  BY <1>3 DEF vars, FinishedInv
<1> QED
  BY <1>1, <1>2, <1>3, BackfillFinished, ReadFinished, ZenonT(60) DEF Next

\* What the storage keeps and what it sends to a watch of a Deployment always reports
\* the generation it is about: the hooks run before the object is stored and broadcast.
THEOREM SeenIsAlwaysReady == Spec => []SeenIsReady
<1>1. Init => FinishedInv
  BY NoObjFinished DEF Init, FinishedInv, AllFinished
<1>2. OrderInv /\ FinishedInv => SeenIsReady
  <2> SUFFICES ASSUME OrderInv, FinishedInv PROVE SeenIsReady
    OBVIOUS
  <2>1. ASSUME NEW w \in Watcher PROVE DOMAIN body[w] = 1..Len(body[w])
    BY DEF OrderInv, Shape
  <2>2. ASSUME NEW o \in {objects[id] : id \in Id} PROVE Finished(kind, o)
    BY Zenon DEF FinishedInv
  <2>3. ASSUME NEW w \in Watcher, NEW o \in {body[w][i].obj : i \in DOMAIN body[w]} PROVE Finished(kind, o)
    BY <2>1, Zenon DEF FinishedInv, AllFinished
  <2> QED
    BY <2>2, <2>3, Zenon DEF Finished, SeenIsReady
<1> QED
  BY <1>1, <1>2, InitOrder, NextOrder, NextFinished, PTL DEF Spec

(***************************************************************************)
(* Slots.                                                                  *)
(***************************************************************************)
Running(w) == wpc[w] \in {"registered", "waiting"}

\* Every watch that runs has one slot, and no other watch has any.
SlotInv ==
  /\ watches \in Seq(Watcher \cup {Nobody})
  /\ wpc \in [Watcher -> {"none", "registered", "waiting", "done"}]
  /\ hung \subseteq Watcher
  /\ \A i, j \in DOMAIN watches : watches[i] = watches[j] /\ watches[i] # Nobody => i = j
  /\ \A w \in Watcher : Running(w) <=> \E i \in DOMAIN watches : watches[i] = w

LEMMA LeastNat ==
  ASSUME NEW T, T \subseteq Nat, T # {}
  PROVE  \E n \in T : \A m \in T : n <= m
<1> DEFINE R == {ss \in Nat \X Nat : ss[1] < ss[2]}
<1>1. IsWellFoundedOn(R, Nat)
  BY NatLessThanWellFounded DEF OpToRel
<1> HIDE DEF R
<1>2. PICK n \in T : \A m \in T : ~(<<m, n>> \in R)
  BY <1>1, WFMin, Zenon
<1>3. ASSUME NEW m \in T PROVE n <= m
  <2>1. <<m, n>> \notin R
    BY <1>2
  <2> QED
    BY <2>1 DEF R
<1> QED
  BY <1>3

\* Some watches end, and give up their slots.
LEMMA SlotsEnd ==
  ASSUME SlotInv, NEW E, E \subseteq Watcher, hung' \subseteq Watcher,
         watches' = [i \in DOMAIN watches |-> IF watches[i] \in E THEN Nobody ELSE watches[i]],
         wpc' = [w \in Watcher |-> IF w \in E THEN "done" ELSE wpc[w]]
  PROVE  SlotInv'
<1>1. watches \in Seq(Watcher \cup {Nobody}) /\ Nobody \notin Watcher
  BY MockConstants DEF SlotInv
<1>2. /\ DOMAIN watches' = DOMAIN watches /\ DOMAIN watches = 1..Len(watches) /\ Len(watches) \in Nat
      /\ \A i \in DOMAIN watches : watches'[i] = IF watches[i] \in E THEN Nobody ELSE watches[i]
  BY <1>1
<1>3. watches' \in Seq(Watcher \cup {Nobody})
  <2>1. watches' \in [1..Len(watches) -> Watcher \cup {Nobody}]
    BY <1>1, <1>2
  <2> QED
    BY <1>2, <2>1
<1>4. wpc' \in [Watcher -> {"none", "registered", "waiting", "done"}]
  BY Zenon DEF SlotInv
<1>5. \A i, j \in DOMAIN watches' : watches'[i] = watches'[j] /\ watches'[i] # Nobody => i = j
  BY <1>2, Zenon DEF SlotInv
<1>6. ASSUME NEW w \in Watcher PROVE Running(w)' <=> \E i \in DOMAIN watches' : watches'[i] = w
  <2>1. CASE w \in E
    <3>1. ~ Running(w)'
      BY <2>1 DEF Running
    <3> QED
      BY <1>1, <1>2, <2>1, <3>1, Zenon
  <2>2. CASE w \notin E
    <3>1. Running(w)' <=> Running(w)
      BY <2>2 DEF Running
    <3> QED
      BY <1>1, <1>2, <2>2, <3>1, Zenon DEF SlotInv
  <2> QED
    BY <2>1, <2>2, ZenonT(60)
<1> QED
  BY <1>3, <1>4, <1>5, <1>6, ZenonT(60) DEF SlotInv

\* A new watch takes the first free slot, or a new one.
LEMMA FreeSlot ==
  ASSUME SlotInv
  PROVE  \/ Slot = Len(watches) + 1
         \/ Slot \in DOMAIN watches /\ Slot <= Len(watches) /\ watches[Slot] = Nobody
<1> DEFINE free == {i \in DOMAIN watches : watches[i] = Nobody}
<1>1. CASE free = {}
  BY <1>1 DEF Slot
<1>2. CASE free # {}
  <2>1. DOMAIN watches = 1..Len(watches) /\ Len(watches) \in Nat
    BY DEF SlotInv
  <2>2. free \subseteq Nat
    BY <2>1
  <2>3. \E n \in free : \A m \in free : n <= m
    BY <1>2, <2>2, LeastNat, Zenon
  <2>4. Slot \in free
    BY <1>2, <2>3 DEF Slot, Min
  <2> QED
    BY <2>1, <2>4
<1> QED
  BY <1>1, <1>2

LEMMA RegisterSlots ==
  ASSUME SlotInv, NEW w \in Watcher, Register(w)
  PROVE  SlotInv'
<1>1. /\ watches \in Seq(Watcher \cup {Nobody}) /\ Nobody \notin Watcher /\ hung' = hung
      /\ DOMAIN watches = 1..Len(watches) /\ Len(watches) \in Nat
      /\ wpc \in [Watcher -> {"none", "registered", "waiting", "done"}]
      /\ wpc' = [wpc EXCEPT ![w] = "registered"] /\ wpc[w] = "none"
  BY MockConstants DEF SlotInv, Register, Idle
<1>2. PICK n \in 1..(Len(watches) + 1) :
        /\ watches' \in Seq(Watcher \cup {Nobody}) /\ watches'[n] = w /\ n \in DOMAIN watches'
        /\ n \in DOMAIN watches => watches[n] = Nobody
        /\ DOMAIN watches' = DOMAIN watches \cup {n}
        /\ \A i \in DOMAIN watches \ {n} : watches'[i] = watches[i]
  <2>1. CASE Slot = Len(watches) + 1
    <3>1. watches' = Append(watches, w)
      <4>1. Slot > Len(watches)
        BY <1>1, <2>1
      <4> QED
        BY <4>1, Zenon DEF Register
    <3> QED
      BY <1>1, <2>1, <3>1
  <2>2. CASE Slot \in DOMAIN watches /\ Slot <= Len(watches) /\ watches[Slot] = Nobody
    <3> DEFINE n == Slot
    <3>1. n \in DOMAIN watches /\ n \in 1..(Len(watches) + 1) /\ watches[n] = Nobody
      BY <1>1, <2>2
    <3>2. watches' = [watches EXCEPT ![n] = w]
      <4>1. ~ (Slot > Len(watches))
        BY <1>1, <2>2
      <4> QED
        BY <4>1, Zenon DEF Register
    <3> HIDE DEF n
    <3> QED
      BY <1>1, <3>1, <3>2
  <2> QED
    BY <2>1, <2>2, FreeSlot, ZenonT(60)
<1>3. \A i \in DOMAIN watches : watches[i] # w
  BY <1>1 DEF SlotInv, Running
<1>4. \A i, j \in DOMAIN watches' : watches'[i] = watches'[j] /\ watches'[i] # Nobody => i = j
  BY <1>2, <1>3, Zenon DEF SlotInv
<1>5. wpc' \in [Watcher -> {"none", "registered", "waiting", "done"}] /\ wpc'[w] = "registered"
  BY <1>1
<1>6. ASSUME NEW v \in Watcher PROVE Running(v)' <=> \E i \in DOMAIN watches' : watches'[i] = v
  <2>1. CASE v = w
    BY <1>2, <1>5, <2>1, ZenonT(60) DEF Running
  <2>2. CASE v # w
    <3>1. Running(v)' <=> Running(v)
      BY <1>1, <2>2 DEF Running
    <3>2. Running(v) <=> \E i \in DOMAIN watches : watches[i] = v
      BY DEF SlotInv
    <3>3. v # Nobody
      BY <1>1
    <3> QED
      BY <1>2, <2>2, <3>1, <3>2, <3>3, ZenonT(60)
  <2> QED
    BY <2>1, <2>2
<1> QED
  BY <1>1, <1>2, <1>4, <1>5, <1>6, ZenonT(60) DEF SlotInv

LEMMA BroadcastSlots ==
  ASSUME SlotInv, NEW c, NEW type, NEW id, NEW o, Broadcast(c, type, id, o)
  PROVE  SlotInv'
<1>1. PICK E : /\ E \subseteq hung
               /\ watches' = [i \in DOMAIN watches |-> IF watches[i] \in E THEN Nobody ELSE watches[i]]
               /\ wpc' = [w \in Watcher |-> IF w \in E THEN "done" ELSE wpc[w]]
  <2> DEFINE on      == {i \in DOMAIN watches : watches[i] # Nobody /\ Interested(watches[i], id)}
             failing == {i \in on : watches[i] \in hung}
             blocked == {i \in failing : wpc[watches[i]] = "registered"}
             reached == IF blocked = {} THEN on ELSE {i \in on : i < Min(blocked)}
             ended   == {watches[i] : i \in reached \cap failing}
  <2>1. ended \subseteq hung
    BY Zenon
  <2>2. /\ watches' = [i \in DOMAIN watches |-> IF watches[i] \in ended THEN Nobody ELSE watches[i]]
        /\ wpc' = [w \in Watcher |-> IF w \in ended THEN "done" ELSE wpc[w]]
    BY DEF Broadcast
  <2> HIDE DEF ended
  <2> QED
    BY <2>1, <2>2, Zenon
<1>2. hung \subseteq Watcher /\ hung' = hung
  BY ZenonT(60) DEF SlotInv, Broadcast
<1>3. E \subseteq Watcher
  BY <1>1, <1>2
<1> QED
  BY <1>1, <1>2, <1>3, SlotsEnd, Zenon

LEMMA BackfillSlots ==
  ASSUME SlotInv, NEW w \in Watcher, Backfill(w)
  PROVE  SlotInv'
<1>1. wpc \in [Watcher -> {"none", "registered", "waiting", "done"}] /\ hung' = hung /\ hung \subseteq Watcher
  BY DEF SlotInv, Backfill
<1>2. CASE wpc' = [wpc EXCEPT ![w] = "done"]
  <2>1. watches' = [i \in DOMAIN watches |-> IF watches[i] = w THEN Nobody ELSE watches[i]]
    <3>1. "done" # "waiting" /\ wpc'[w] = "done"
      BY <1>1, <1>2
    <3>2. wpc' # [wpc EXCEPT ![w] = "waiting"]
      BY <1>1, <3>1
    <3> QED
      BY <3>2, Zenon DEF Backfill
  <2>2. watches' = [i \in DOMAIN watches |-> IF watches[i] \in {w} THEN Nobody ELSE watches[i]]
    BY <2>1
  <2>3. wpc' = [v \in Watcher |-> IF v \in {w} THEN "done" ELSE wpc[v]]
    BY <1>1, <1>2, Zenon
  <2>4. {w} \subseteq Watcher /\ hung' \subseteq Watcher
    BY <1>1
  <2> QED
    BY <2>2, <2>3, <2>4, SlotsEnd, Zenon
<1>3. CASE wpc' = [wpc EXCEPT ![w] = "waiting"] /\ watches' = watches
  <2>1. wpc[w] = "registered"
    BY DEF Backfill
  <2>2. wpc' \in [Watcher -> {"none", "registered", "waiting", "done"}]
    BY <1>1, <1>3
  <2>3. \A v \in Watcher : Running(v)' <=> Running(v)
    BY <1>1, <1>3, <2>1 DEF Running
  <2> QED
    BY <1>1, <1>3, <2>2, <2>3, ZenonT(60) DEF SlotInv
<1> QED
  BY <1>2, <1>3, Zenon DEF Backfill

\* What leaves the watches as they are.
LEMMA QuietSlots ==
  ASSUME SlotInv, watches' = watches, wpc' = wpc, hung' \subseteq Watcher
  PROVE  SlotInv'
BY DEF SlotInv, Running

LEMMA NextSlots == OrderInv /\ SlotInv /\ [Next]_vars => SlotInv'
<1> SUFFICES ASSUME OrderInv, Shape, SlotInv, [Next]_vars PROVE SlotInv'
  BY DEF OrderInv
<1>0. hung \subseteq Watcher
  BY DEF SlotInv
<1>1. ASSUME NEW c \in Client,
             AddObject(c) \/ Post(c) \/ Delete(c) \/ Get(c) \/ Put(c) \/ PutStatus(c) \/ Patch(c)
      PROVE  SlotInv'
  <2>1. Handled(c)
    BY <1>1, HandlerSteps, Zenon
  <2>2. CASE Reply(c) \/ Asks(c)
    <3>1. watches' = watches /\ wpc' = wpc /\ hung' = hung
      BY <2>2, Zenon DEF Reply, Asks, watching
    <3> QED
      BY <1>0, <3>1, QuietSlots
  <2>3. CASE Stores(c) \/ Deletes(c)
    BY <2>3, BroadcastSlots, Zenon DEF Stores, Store, Deletes, DeleteObject
  <2> QED
    BY <2>1, <2>2, <2>3 DEF Handled
<1>2. ASSUME NEW w \in Watcher, Read(w) \/ Hangup(w) PROVE SlotInv'
  <2>1. watches' = watches /\ wpc' = wpc /\ hung' \subseteq Watcher
    BY <1>0, <1>2, ZenonT(60) DEF Read, Hangup
  <2> QED
    BY <2>1, QuietSlots
<1>3. CASE UNCHANGED vars
  BY <1>0, <1>3, QuietSlots DEF vars
<1> QED
  BY <1>1, <1>2, <1>3, RegisterSlots, BackfillSlots, ZenonT(60) DEF Next

(***************************************************************************)
(* The storage.                                                            *)
(***************************************************************************)
ReqPc == {"idle", "put", "status", "patch", "stuck"}

StorageInv ==
  /\ kind \in Kinds /\ clock <= MaxRV /\ mu \in Client \cup Watcher \cup {Nobody}
  /\ \A id \in Id : objects[id] # NoObj => objects[id].rv > 0
  /\ \A i, j \in Id : i # j /\ objects[i] # NoObj => objects[i].rv # objects[j].rv
  /\ \A c \in Client : req[c].pc \in ReqPc

\* A request that is answered, one that waits, and one that has read.
LEMMA RequestPc ==
  ASSUME Shape, StorageInv, NEW c \in Client, NEW r, r.pc \in ReqPc,
         req' = [req EXCEPT ![c] = r]
  PROVE  \A d \in Client : req'[d].pc \in ReqPc
<1>1. \A d \in Client : req'[d] = IF d = c THEN r ELSE req[d]
  BY DEF Shape
<1> QED
  BY <1>1, Zenon DEF StorageInv

LEMMA BroadcastPc ==
  ASSUME Shape, StorageInv, NEW c \in Client, NEW type, NEW id, NEW o, Broadcast(c, type, id, o)
  PROVE  /\ mu' \in Client \cup Watcher \cup {Nobody}
         /\ \A d \in Client : req'[d].pc \in ReqPc
<1>1. mu' \in {mu, c} /\ \E r \in {NoReq, [NoReq EXCEPT !.pc = "stuck"]} : req' = [req EXCEPT ![c] = r]
  BY Zenon DEF Broadcast
<1>2. \A r \in {NoReq, [NoReq EXCEPT !.pc = "stuck"]} : r.pc \in ReqPc
  BY DEF NoReq, ReqPc
<1>3. mu' \in Client \cup Watcher \cup {Nobody}
  BY <1>1 DEF StorageInv
<1>4. PICK r : r.pc \in ReqPc /\ req' = [req EXCEPT ![c] = r]
  BY <1>1, <1>2, Zenon
<1> QED
  BY <1>3, <1>4, RequestPc, Zenon

LEMMA HandlerStorage ==
  ASSUME OrderInv, Shape, StorageInv, kind' = kind, NEW c \in Client, Handled(c)
  PROVE  StorageInv'
<1>0. objects \in [Id -> Obj] /\ clock \in Nat /\ \A id \in Id : objects[id].rv \in Nat /\ objects[id].rv <= clock
  BY Versions, ZenonT(60) DEF Shape, OrderInv
<1>1. CASE Reply(c) \/ Asks(c)
  <2>1. objects' = objects /\ clock' = clock /\ mu' = mu
    BY <1>1, Zenon DEF Reply, Asks
  <2>2. PICK r : req' = [req EXCEPT ![c] = r] /\ r.pc \in ReqPc
    <3>1. CASE Reply(c)
      <4>1. req' = [req EXCEPT ![c] = NoReq] /\ NoReq.pc \in ReqPc
        BY <3>1, ZenonT(60) DEF Reply, NoReq, ReqPc
      <4> QED
        BY <4>1, Zenon
    <3>2. CASE Asks(c)
      <4>1. PICK id \in Id, op \in {"put", "status", "patch"} :
              req' = [req EXCEPT ![c] = [pc |-> op, id |-> id, seen |-> objects[id]]]
        BY <3>2, Zenon DEF Asks
      <4>2. [pc |-> op, id |-> id, seen |-> objects[id]].pc \in ReqPc
        BY DEF ReqPc
      <4> QED
        BY <4>1, <4>2, Zenon
    <3> QED
      BY <1>1, <3>1, <3>2
  <2>3. \A d \in Client : req'[d].pc \in ReqPc
    BY <2>2, RequestPc, Zenon
  <2> QED
    BY <2>1, <2>3, Zenon DEF StorageInv
<1>2. CASE Stores(c)
  <2>1. PICK type \in {"ADDED", "MODIFIED"}, id \in Id, o \in Obj : Store(c, type, id, o)
    BY <1>2, Zenon DEF Stores
  <2> DEFINE v == [o EXCEPT !.rv = clock + 1]
             u == OnWatchEvent(v)
  <2>2. v \in Obj /\ v.rv = clock + 1
    BY <1>0 DEF Obj
  <2>3. u.rv = clock + 1
    BY <2>2, HooksKeepVersion, Zenon
  <2>4. clock < MaxRV /\ clock' = clock + 1 /\ objects' = [objects EXCEPT ![id] = u] /\ Broadcast(c, type, id, u)
    BY <2>1 DEF Store
  <2> HIDE DEF u, v
  <2>5. mu' \in Client \cup Watcher \cup {Nobody} /\ \A d \in Client : req'[d].pc \in ReqPc
    BY <2>4, BroadcastPc, Zenon
  <2>6. \A i \in Id : objects'[i] = IF i = id THEN u ELSE objects[i]
    BY <1>0, <2>4, SMTT(60)
  <2>7. \A i \in Id : objects'[i] # NoObj => objects'[i].rv > 0
    BY <1>0, <2>3, <2>6, SMTT(60) DEF StorageInv
  <2>8. \A i, j \in Id : i # j /\ objects'[i] # NoObj => objects'[i].rv # objects'[j].rv
    BY <1>0, <2>3, <2>6, SMTT(60) DEF StorageInv
  <2>9. clock' <= MaxRV /\ kind' \in Kinds
    BY <1>0, <2>4, MockConstants DEF StorageInv
  <2> QED
    BY <2>5, <2>7, <2>8, <2>9, Zenon DEF StorageInv
<1>3. CASE Deletes(c)
  <2>1. PICK id \in Id : objects[id] # NoObj /\ DeleteObject(c, id)
    BY <1>3 DEF Deletes
  <2>2. clock' = clock /\ objects' = [objects EXCEPT ![id] = NoObj] /\ Broadcast(c, "DELETED", id, OnWatchEvent(objects[id]))
    BY <2>1 DEF DeleteObject
  <2>3. mu' \in Client \cup Watcher \cup {Nobody} /\ \A d \in Client : req'[d].pc \in ReqPc
    BY <2>2, BroadcastPc, Zenon
  <2>4. \A i \in Id : objects'[i] = IF i = id THEN NoObj ELSE objects[i]
    BY <1>0, <2>2, SMTT(60)
  <2>5. \A i \in Id : objects'[i] # NoObj => objects'[i].rv > 0
    BY <2>4, ZenonT(60) DEF StorageInv
  <2>6. \A i, j \in Id : i # j /\ objects'[i] # NoObj => objects'[i].rv # objects'[j].rv
    BY <1>0, <2>4, NoObjType, SMTT(30) DEF StorageInv
  <2> QED
    BY <2>2, <2>3, <2>5, <2>6, Zenon DEF StorageInv
<1> QED
  BY <1>1, <1>2, <1>3 DEF Handled

LEMMA NextStorage == OrderInv /\ StorageInv /\ [Next]_vars => StorageInv'
<1> SUFFICES ASSUME OrderInv, Shape, StorageInv, [Next]_vars PROVE StorageInv'
  BY DEF OrderInv
<1>1. ASSUME NEW c \in Client,
             AddObject(c) \/ Post(c) \/ Delete(c) \/ Get(c) \/ Put(c) \/ PutStatus(c) \/ Patch(c)
      PROVE  StorageInv'
  BY <1>1, HandlerSteps, HandlerStorage, ZenonT(60)
<1>2. ASSUME UNCHANGED <<kind, objects, clock, req>>, mu' \in Client \cup Watcher \cup {Nobody} PROVE StorageInv'
  BY <1>2, ZenonT(60) DEF StorageInv
<1>3. mu \in Client \cup Watcher \cup {Nobody}
  BY Zenon DEF StorageInv
<1>4. ASSUME NEW w \in Watcher, Register(w) \/ Read(w) \/ Hangup(w) PROVE StorageInv'
  BY <1>2, <1>3, <1>4, ZenonT(60) DEF Register, Read, Hangup
<1>5. ASSUME NEW w \in Watcher, Backfill(w) PROVE StorageInv'
  <2>1. mu' \in {mu, w} /\ UNCHANGED <<kind, objects, clock, req>>
    BY <1>5, Zenon DEF Backfill
  <2> QED
    BY <1>2, <1>3, <2>1
<1>6. CASE UNCHANGED vars
  BY <1>2, <1>3, <1>6 DEF vars
<1> QED
  BY <1>1, <1>4, <1>5, <1>6, Zenon DEF Next

ServerInv == OrderInv /\ SlotInv /\ StorageInv

LEMMA InitServer == Init => ServerInv
<1> SUFFICES ASSUME Init PROVE SlotInv /\ StorageInv
  BY InitOrder DEF ServerInv
<1>1. /\ watches = <<>> /\ hung = {} /\ wpc = [w \in Watcher |-> "none"] /\ kind \in Kinds /\ clock = 0 /\ mu = Nobody
      /\ objects = [id \in Id |-> NoObj] /\ req = [c \in Client |-> NoReq]
  BY DEF Init
<1>2. SlotInv
  BY <1>1 DEF SlotInv, Running
<1>3. NoReq.pc \in ReqPc
  BY DEF NoReq, ReqPc
<1>4. clock <= MaxRV
  BY <1>1, MockConstants
<1> QED
  BY <1>1, <1>2, <1>3, <1>4 DEF StorageInv

LEMMA NextServer == ServerInv /\ [Next]_vars => ServerInv'
BY NextOrder, NextSlots, NextStorage DEF ServerInv

\* The storage gives every object it holds a version of its own, none beyond its clock,
\* and every watch that runs has exactly one slot, however many begin and end.
THEOREM StorageTypeCorrect == Spec => []TypeOK
<1>1. ServerInv => TypeOK
  <2> SUFFICES ASSUME ServerInv PROVE TypeOK
    OBVIOUS
  <2>1. clock \in Nat /\ \A id \in Id : objects[id].rv \in Nat /\ objects[id].rv <= clock
    BY Versions DEF ServerInv, OrderInv, Shape
  <2>2. clock \in 0..MaxRV /\ \A id \in Id : objects[id].rv \in 0..clock
    BY <2>1, MockConstants DEF ServerInv, StorageInv
  <2>3. ASSUME NEW w \in Watcher
        PROVE  Cardinality({i \in DOMAIN watches : watches[i] = w}) =
                 (IF wpc[w] \in {"registered", "waiting"} THEN 1 ELSE 0)
    <3> DEFINE I == {i \in DOMAIN watches : watches[i] = w}
    <3>1. w # Nobody
      BY MockConstants
    <3>2. CASE Running(w)
      <4>1. PICK i \in DOMAIN watches : watches[i] = w
        BY <3>2 DEF ServerInv, SlotInv
      <4>2. I = {i}
        BY <3>1, <4>1 DEF ServerInv, SlotInv
      <4>3. Cardinality({i}) = 1
        BY FS_Singleton
      <4> QED
        BY <3>2, <4>2, <4>3 DEF Running
    <3>3. CASE ~ Running(w)
      <4>1. I = {}
        BY <3>3 DEF ServerInv, SlotInv
      <4> QED
        BY <3>3, <4>1, FS_EmptySet DEF Running
    <3> QED
      BY <3>2, <3>3
  <2>4. \A w \in Watcher : wpc[w] \in {"none", "registered", "waiting", "done"}
    BY DEF ServerInv, SlotInv
  <2> QED
    BY <2>2, <2>3, <2>4, Zenon DEF ServerInv, SlotInv, StorageInv, TypeOK, ReqPc
<1> QED
  BY <1>1, InitServer, NextServer, PTL DEF Spec

(***************************************************************************)
(* Completeness.                                                           *)
(***************************************************************************)
\* What the client of a watch will know of an object that is stored as v: v once the
\* watch has backfilled, before that v or nothing.
Due(known, evs, pc, id, v) ==
  /\ pc = "none" => evs = <<>> /\ known[id] = NoObj
  /\ pc = "registered" => Learns(known, evs, id, NoObj) \/ Learns(known, evs, id, v)
  /\ pc = "waiting" => Learns(known, evs, id, v)

CompleteInv ==
  mu = Nobody => \A w \in Watcher \ hung, id \in Id : Due(mirror[w], body[w], wpc[w], id, View(w)[id])

\* what an event leaves of its object
Left(ev) == IF ev.type = "DELETED" THEN NoObj ELSE ev.obj

LEMMA SeeAt ==
  ASSUME NEW known \in [Id -> Obj], NEW ev \in Event
  PROVE  /\ ev.id \in Id /\ Left(ev) \in Obj /\ See(known, ev) \in [Id -> Obj]
         /\ \A id \in Id : See(known, ev)[id] = IF id = ev.id THEN Left(ev) ELSE known[id]
<1>1. ev.id \in Id /\ ev.obj \in Obj
  BY DEF Event
<1>2. Left(ev) \in Obj
  BY <1>1, NoObjType DEF Left
<1>3. See(known, ev) = [known EXCEPT ![ev.id] = Left(ev)]
  BY DEF See, Left
<1> QED
  BY <1>1, <1>2, <1>3

\* The places of an event of evs \o more.
LEMMA Joined ==
  ASSUME NEW evs \in Seq(Event), NEW more \in Seq(Event)
  PROVE  /\ DOMAIN evs = 1..Len(evs) /\ DOMAIN more = 1..Len(more) /\ Len(evs) \in Nat /\ Len(more) \in Nat
         /\ DOMAIN (evs \o more) = 1..(Len(evs) + Len(more))
         /\ \A i \in 1..Len(evs) : (evs \o more)[i] = evs[i]
         /\ \A i \in 1..Len(more) : (evs \o more)[Len(evs) + i] = more[i]
OBVIOUS

\* Events about other objects change nothing.
LEMMA LearnsOther ==
  ASSUME NEW known, NEW evs \in Seq(Event), NEW more \in Seq(Event), NEW id, NEW o,
         Learns(known, evs, id, o), \A i \in 1..Len(more) : more[i].id # id
  PROVE  Learns(known, evs \o more, id, o)
<1> DEFINE all == evs \o more
           old == {i \in DOMAIN evs : evs[i].id = id}
           new == {i \in DOMAIN all : all[i].id = id}
<1>1. new = old
  <2>1. ASSUME NEW i \in 1..(Len(evs) + Len(more)) PROVE i \in new <=> i \in old
    <3>1. CASE i \in 1..Len(evs)
      BY <2>1, <3>1, Joined, ZenonT(60)
    <3>2. CASE i \notin 1..Len(evs)
      <4>1. PICK j \in 1..Len(more) : i = Len(evs) + j
        <5>1. i - Len(evs) \in 1..Len(more) /\ i = Len(evs) + (i - Len(evs))
          BY <2>1, <3>2, Joined, SMTT(60)
        <5> QED
          BY <5>1, ZenonT(60)
      <4>2. all[i] = more[j]
        BY <4>1, Joined, Zenon
      <4> QED
        BY <3>2, <4>2, Joined, ZenonT(60)
    <3> QED
      BY <3>1, <3>2, Zenon
  <2>2. new \subseteq 1..(Len(evs) + Len(more)) /\ old \subseteq 1..(Len(evs) + Len(more))
    BY Joined
  <2> QED
    BY <2>1, <2>2, Zenon
<1>2. \A i \in old : all[i] = evs[i]
  BY Joined, SMTT(60)
<1> HIDE DEF all
<1>3. Learns(known, all, id, o)
  <2>1. \/ old = {} /\ o = known[id]
        \/ \E i \in old : (\A j \in old : j <= i) /\ o = See(known, evs[i])[id]
    BY Zenon DEF Learns
  <2>2. \/ new = {} /\ o = known[id]
        \/ \E i \in new : (\A j \in new : j <= i) /\ o = See(known, all[i])[id]
    <3> HIDE DEF old, new
    <3> QED
      BY <1>1, <1>2, <2>1, Zenon
  <2> QED
    BY <2>2, Zenon DEF Learns
<1> QED
  BY <1>3 DEF all

\* The one event about the object that comes now decides.
LEMMA LearnsLast ==
  ASSUME NEW known \in [Id -> Obj], NEW evs \in Seq(Event), NEW more \in Seq(Event), NEW id,
         NEW k \in 1..Len(more), more[k].id = id, \A i \in 1..Len(more) : more[i].id = id => i = k
  PROVE  Learns(known, evs \o more, id, Left(more[k]))
<1> DEFINE all == evs \o more
           new == {i \in DOMAIN all : all[i].id = id}
           n == Len(evs) + k
<1>1. n \in new /\ all[n] = more[k]
  BY Joined
<1>2. ASSUME NEW i \in new PROVE i <= n
  <2>1. i \in 1..(Len(evs) + Len(more)) /\ all[i].id = id
    BY Joined, Zenon
  <2>2. CASE i \in 1..Len(evs)
    BY <2>2, Joined
  <2>3. CASE i \notin 1..Len(evs)
    <3>1. i - Len(evs) \in 1..Len(more) /\ i = Len(evs) + (i - Len(evs))
      BY <2>1, <2>3, Joined
    <3> DEFINE j == i - Len(evs)
    <3>2. j \in 1..Len(more) /\ i = Len(evs) + j
      BY <3>1, Zenon
    <3> HIDE DEF j
    <3>3. all[i] = more[j]
      BY <3>2, Joined, Zenon
    <3>4. j = k
      BY <2>1, <3>2, <3>3, ZenonT(60)
    <3> QED
      BY <3>2, <3>4, Joined, SMTT(60)
  <2> QED
    BY <2>2, <2>3, Zenon
<1>3. See(known, all[n])[id] = Left(more[k])
  <2>1. more[k] \in Event
    OBVIOUS
  <2> QED
    BY <1>1, <2>1, SeeAt
<1> HIDE DEF n
<1>4. \E i \in new : (\A j \in new : j <= i) /\ Left(more[k]) = See(known, all[i])[id]
  BY <1>1, <1>2, <1>3, Zenon
<1> QED
  BY <1>4, Zenon DEF Learns

\* The client reads the first event.
LEMMA LearnsReads ==
  ASSUME NEW known \in [Id -> Obj], NEW evs \in Seq(Event), evs # <<>>, NEW id \in Id, NEW o, Learns(known, evs, id, o)
  PROVE  Learns(See(known, Head(evs)), Tail(evs), id, o)
<1> DEFINE now  == See(known, evs[1])
           rest == Tail(evs)
           old == {i \in DOMAIN evs : evs[i].id = id}
           new == {i \in DOMAIN rest : rest[i].id = id}
<1>1. /\ Head(evs) = evs[1] /\ Len(evs) \in Nat /\ DOMAIN evs = 1..Len(evs) /\ DOMAIN rest = 1..(Len(evs) - 1)
      /\ 1 \in 1..Len(evs) /\ \A i \in 1..Len(evs) : evs[i] \in Event
      /\ \A i \in 1..(Len(evs) - 1) : rest[i] = evs[i + 1]
  OBVIOUS
<1>2. now \in [Id -> Obj] /\ now[id] = IF id = evs[1].id THEN Left(evs[1]) ELSE known[id]
  BY <1>1, SeeAt, Zenon
<1>3. \A i \in old : See(known, evs[i])[id] = Left(evs[i]) /\ See(now, evs[i])[id] = Left(evs[i])
  BY <1>1, <1>2, SeeAt, ZenonT(60)
<1>4. \A i : i \in new <=> i \in 1..(Len(evs) - 1) /\ i + 1 \in old
  BY <1>1
<1> HIDE DEF rest, now
<1>5. CASE old = {} /\ o = known[id]
  <2>1. new = {}
    BY <1>4, <1>5
  <2>2. evs[1].id # id
    BY <1>1, <1>5
  <2>3. new = {} /\ o = now[id]
    BY <1>2, <1>5, <2>1, <2>2, SMTT(60)
  <2> QED
    BY <1>1, <2>3, ZenonT(60) DEF Learns, now, rest
<1>6. ASSUME NEW i \in old, \A j \in old : j <= i, o = See(known, evs[i])[id]
      PROVE  Learns(See(known, Head(evs)), Tail(evs), id, o)
  <2>1. i \in 1..Len(evs) /\ evs[i].id = id
    BY <1>1, SMTT(60)
  <2>2. CASE i = 1
    <3>1. new = {}
      BY <1>1, <1>4, <1>6, <2>2, SMTT(60)
    <3>2. o = now[id]
      BY <1>2, <1>3, <1>6, <2>1, <2>2, ZenonT(60)
    <3> QED
      BY <1>1, <3>1, <3>2, ZenonT(60) DEF Learns, now, rest
  <2>3. CASE i # 1
    <3> DEFINE k == i - 1
    <3>1. k \in 1..(Len(evs) - 1) /\ k + 1 = i
      BY <1>1, <2>1, <2>3, SMTT(60)
    <3> HIDE DEF k, old
    <3>2. k \in new
      BY <1>4, <1>6, <3>1, ZenonT(60)
    <3>3. \A j \in new : j <= k
      BY <1>1, <1>4, <1>6, <3>1, SMTT(60)
    <3>4. rest[k] = evs[i]
      BY <1>1, <3>1, SMTT(60)
    <3>5. o = See(now, rest[k])[id]
      BY <1>3, <1>6, <3>4
    <3>6. \E j \in new : (\A m \in new : m <= j) /\ o = See(now, rest[j])[id]
      BY <3>2, <3>3, <3>5, ZenonT(60)
    <3> QED
      BY <1>1, <3>6, ZenonT(60) DEF Learns, now, rest
  <2> QED
    BY <2>2, <2>3
<1>7. \/ old = {} /\ o = known[id]
      \/ \E i \in old : (\A j \in old : j <= i) /\ o = See(known, evs[i])[id]
  BY Zenon DEF Learns
<1> QED
  BY <1>5, <1>6, <1>7, ZenonT(60)

\* While nobody is stuck, a broadcast reaches exactly the connected watches that run
\* and are interested.
LEMMA BroadcastServes ==
  ASSUME SlotInv, NEW c \in Client, NEW type, NEW id, NEW o, mu' = Nobody, Broadcast(c, type, id, o),
         NEW w \in Watcher, w \notin hung
  PROVE  /\ wpc'[w] = wpc[w] /\ hung' = hung /\ mirror' = mirror
         /\ body'[w] = IF Running(w) /\ Interested(w, id) THEN body[w] \o <<[type |-> type, id |-> id, obj |-> o]>>
                                                           ELSE body[w]
<1> DEFINE ev      == [type |-> type, id |-> id, obj |-> o]
           on      == {i \in DOMAIN watches : watches[i] # Nobody /\ Interested(watches[i], id)}
           failing == {i \in on : watches[i] \in hung}
           blocked == {i \in failing : wpc[watches[i]] = "registered"}
           reached == IF blocked = {} THEN on ELSE {i \in on : i < Min(blocked)}
           served  == {watches[i] : i \in reached \ failing}
           ended   == {watches[i] : i \in reached \cap failing}
<1>1. /\ body' = [v \in Watcher |-> IF v \in served THEN body[v] \o <<ev>> ELSE body[v]]
      /\ wpc' = [v \in Watcher |-> IF v \in ended THEN "done" ELSE wpc[v]]
      /\ mu' = IF blocked = {} THEN mu ELSE c
      /\ mirror' = mirror /\ hung' = hung
  BY ZenonT(60) DEF Broadcast, Write
<1>2. blocked = {}
  <2> HIDE DEF blocked
  <2> QED
    BY <1>1, MockConstants, ZenonT(60)
<1>3. reached = on
  <2> HIDE DEF blocked, on
  <2> QED
    BY <1>2
<1>4. w \notin ended
  <2> HIDE DEF reached
  <2> QED
    BY ZenonT(60)
<1>5. w \in served <=> \E i \in on : watches[i] = w
  <2> HIDE DEF reached, on
  <2> QED
    BY <1>3, Zenon
<1>6. (\E i \in on : watches[i] = w) <=> Running(w) /\ Interested(w, id)
  <2>1. w # Nobody /\ (Running(w) <=> \E i \in DOMAIN watches : watches[i] = w)
    BY MockConstants, Zenon DEF SlotInv
  <2> QED
    BY <2>1, Zenon
<1> HIDE DEF served, ended, on, ev
<1>7. wpc'[w] = wpc[w] /\ body'[w] = IF w \in served THEN body[w] \o <<ev>> ELSE body[w]
  BY <1>1, <1>4, ZenonT(60)
<1> QED
  BY <1>1, <1>5, <1>6, <1>7, ZenonT(60) DEF ev

\* A write or a deletion, as the watches hear of it.
LEMMA PublishComplete ==
  ASSUME Shape, SlotInv, CompleteInv, mu = Nobody, NEW c \in Client, NEW type \in {"ADDED", "MODIFIED", "DELETED"},
         NEW id \in Id, NEW o \in Obj, Broadcast(c, type, id, o),
         objects' = [objects EXCEPT ![id] = IF type = "DELETED" THEN NoObj ELSE o]
  PROVE  CompleteInv'
<1> SUFFICES ASSUME mu' = Nobody, NEW w \in Watcher, w \notin hung', NEW i \in Id
             PROVE  Due(mirror'[w], body'[w], wpc'[w], i, View(w)'[i])
  BY ZenonT(60) DEF CompleteInv
<1> DEFINE ev == [type |-> type, id |-> id, obj |-> o]
           k  == mirror[w]
           e  == body[w]
           v  == View(w)[i]
           u  == View(w)'[i]
           more == <<ev>>
<1>1. hung' = hung
  BY Zenon DEF Broadcast
<1>2. /\ w \notin hung /\ wpc'[w] = wpc[w] /\ mirror' = mirror
      /\ body'[w] = IF Running(w) /\ Interested(w, id) THEN e \o more ELSE e
  BY <1>1, BroadcastServes, ZenonT(60)
<1>3. k \in [Id -> Obj] /\ e \in Seq(Event) /\ objects \in [Id -> Obj]
  BY SMTT(60) DEF Shape
<1>4. Due(k, e, wpc[w], i, v)
  BY <1>2, ZenonT(60) DEF CompleteInv
<1>5. ev \in Event /\ ev.id = id /\ Left(ev) = IF type = "DELETED" THEN NoObj ELSE o
  BY Zenon DEF Event, Left
<1>6. more \in Seq(Event) /\ Len(more) = 1 /\ 1 \in 1..Len(more) /\ \A j \in 1..Len(more) : j = 1 /\ more[j] = ev
  BY <1>5, SMTT(60)
<1>7. u = IF Interested(w, i) THEN IF i = id THEN Left(ev) ELSE objects[i] ELSE NoObj
  BY <1>3, <1>5, ZenonT(60) DEF View, Interested
<1>8. v = IF Interested(w, i) THEN objects[i] ELSE NoObj
  BY DEF View
<1> HIDE DEF ev, k, e, v, u, more
<1>9. CASE Running(w) /\ Interested(w, id) /\ i = id
  <2>1. u = Left(ev) /\ body'[w] = e \o more
    BY <1>2, <1>7, <1>9, ZenonT(60)
  <2>2. Learns(k, e \o more, i, Left(more[1]))
    BY <1>3, <1>5, <1>6, <1>9, LearnsLast, ZenonT(60)
  <2>3. Learns(k, body'[w], i, u)
    BY <1>6, <2>1, <2>2, Zenon
  <2>4. wpc[w] # "none"
    BY <1>9 DEF Running
  <2> QED
    BY <1>2, <2>3, <2>4, ZenonT(60) DEF Due, k, u
<1>10. CASE Running(w) /\ Interested(w, id) /\ i # id
  <2>1. u = v /\ body'[w] = e \o more /\ \A j \in 1..Len(more) : more[j].id # i
    BY <1>2, <1>5, <1>6, <1>7, <1>8, <1>10, ZenonT(60)
  <2>2. \A x : Learns(k, e, i, x) => Learns(k, e \o more, i, x)
    BY <1>3, <1>6, <2>1, LearnsOther, ZenonT(60)
  <2>3. wpc[w] # "none"
    BY <1>10 DEF Running
  <2>4. Due(k, e \o more, wpc[w], i, u)
    BY <1>4, <2>1, <2>2, <2>3, ZenonT(60) DEF Due
  <2> QED
    BY <1>2, <2>1, <2>4, ZenonT(60) DEF k, u
<1>11. CASE ~(Running(w) /\ Interested(w, id))
  <2>1. body'[w] = e
    BY <1>2, <1>11, ZenonT(60)
  <2>2. CASE Interested(w, id)
    <3>1. wpc[w] \notin {"registered", "waiting"}
      BY <1>11, <2>2, ZenonT(60) DEF Running
    <3> QED
      BY <1>2, <1>4, <2>1, <3>1, ZenonT(60) DEF Due, k
  <2>3. CASE ~ Interested(w, id)
    <3>1. u = v
      BY <1>7, <1>8, <2>3, ZenonT(60)
    <3> QED
      BY <1>2, <1>4, <2>1, <3>1, ZenonT(60) DEF k, u
  <2> QED
    BY <2>2, <2>3, ZenonT(60)
<1> QED
  BY <1>9, <1>10, <1>11, ZenonT(60)

\* What leaves the storage and the watches as they are.
LEMMA QuietComplete ==
  ASSUME CompleteInv, UNCHANGED <<objects, mu, wpc, body, mirror, hung>>
  PROVE  CompleteInv'
<1>1. \A w \in Watcher : View(w)' = View(w)
  BY ZenonT(60) DEF View, Interested
<1> QED
  BY <1>1, ZenonT(60) DEF CompleteInv

LEMMA HandlerComplete ==
  ASSUME Shape, SlotInv, CompleteInv, mu = Nobody, NEW c \in Client, Handled(c)
  PROVE  CompleteInv'
<1>0. objects \in [Id -> Obj] /\ clock \in Nat
  BY DEF Shape
<1>1. CASE Reply(c) \/ Asks(c)
  <2>1. UNCHANGED <<objects, mu, wpc, body, mirror, hung>>
    BY <1>1, Zenon DEF Reply, Asks, watching
  <2> QED
    BY <2>1, QuietComplete
<1>2. CASE Stores(c)
  <2>1. PICK type \in {"ADDED", "MODIFIED"}, id \in Id, o \in Obj : Store(c, type, id, o)
    BY <1>2, Zenon DEF Stores
  <2> DEFINE v == [o EXCEPT !.rv = clock + 1]
             u == OnWatchEvent(v)
  <2>2. v \in Obj
    BY <1>0 DEF Obj
  <2>3. u \in Obj
    BY <2>2, HooksKeepVersion, Zenon
  <2>4. objects' = [objects EXCEPT ![id] = u] /\ Broadcast(c, type, id, u)
    BY <2>1 DEF Store
  <2> HIDE DEF u, v
  <2>5. type # "DELETED" /\ type \in {"ADDED", "MODIFIED", "DELETED"}
    OBVIOUS
  <2>6. objects' = [objects EXCEPT ![id] = IF type = "DELETED" THEN NoObj ELSE u]
    BY <2>4, <2>5
  <2> QED
    BY <2>3, <2>4, <2>5, <2>6, PublishComplete, ZenonT(60)
<1>3. CASE Deletes(c)
  <2>1. PICK id \in Id : objects[id] # NoObj /\ DeleteObject(c, id)
    BY <1>3 DEF Deletes
  <2> DEFINE type == "DELETED"
             u == OnWatchEvent(objects[id])
  <2>2. u \in Obj
    BY <1>0, HooksKeepVersion
  <2>3. objects' = [objects EXCEPT ![id] = IF type = "DELETED" THEN NoObj ELSE u] /\ Broadcast(c, type, id, u)
    BY <2>1 DEF DeleteObject
  <2>4. type \in {"ADDED", "MODIFIED", "DELETED"}
    BY SMTT(60)
  <2> HIDE DEF u, type
  <2> QED
    BY <2>2, <2>3, <2>4, PublishComplete, ZenonT(60)
<1> QED
  BY <1>1, <1>2, <1>3 DEF Handled

LEMMA RegisterComplete ==
  ASSUME Shape, SlotInv, CompleteInv, NEW w \in Watcher, Register(w)
  PROVE  CompleteInv'
<1>1. /\ UNCHANGED <<objects, mu, body, mirror, hung>> /\ mu = Nobody
      /\ wpc' = [wpc EXCEPT ![w] = "registered"] /\ wpc[w] = "none"
  BY ZenonT(60) DEF Register, Idle
<1>2. \A v \in Watcher : View(v)' = View(v)
  BY <1>1, ZenonT(60) DEF View, Interested
<1>3. ASSUME NEW v \in Watcher \ hung, NEW id \in Id PROVE Due(mirror[v], body[v], wpc'[v], id, View(v)[id])
  <2>1. Due(mirror[v], body[v], wpc[v], id, View(v)[id])
    BY <1>1, ZenonT(60) DEF CompleteInv
  <2>2. CASE v = w
    <3>1. body[v] = <<>> /\ mirror[v][id] = NoObj
      BY <1>1, <2>1, <2>2, ZenonT(60) DEF Due
    <3>2. {i \in DOMAIN body[v] : body[v][i].id = id} = {}
      BY <3>1
    <3>3. Learns(mirror[v], body[v], id, NoObj)
      BY <3>1, <3>2, ZenonT(60) DEF Learns
    <3>4. wpc'[v] = "registered"
      BY <1>1, <2>2, ZenonT(60) DEF SlotInv
    <3> QED
      BY <3>3, <3>4, ZenonT(60) DEF Due
  <2>3. CASE v # w
    <3>1. wpc'[v] = wpc[v]
      BY <1>1, <2>3 DEF SlotInv
    <3> QED
      BY <2>1, <3>1, ZenonT(60)
  <2> QED
    BY <2>2, <2>3, ZenonT(60)
<1> QED
  BY <1>1, <1>2, <1>3, ZenonT(60) DEF CompleteInv

LEMMA BackfillComplete ==
  ASSUME Shape, SlotInv, CompleteInv, NEW w \in Watcher, Backfill(w)
  PROVE  CompleteInv'
<1>1. UNCHANGED <<objects, mirror, hung>> /\ mu = Nobody /\ wpc[w] = "registered"
  BY ZenonT(60) DEF Backfill
<1>2. \A v \in Watcher : View(v)' = View(v)
  BY <1>1, ZenonT(60) DEF View, Interested
<1>3. PICK evs \in Added(w) :
        IF w \in hung /\ evs # <<>>
        THEN mu' = w
        ELSE body' = [body EXCEPT ![w] = @ \o evs] /\ wpc' = [wpc EXCEPT ![w] = "waiting"]
  BY ZenonT(60) DEF Backfill, Write
<1>4. CASE mu' = w
  BY <1>4, MockConstants, ZenonT(60) DEF CompleteInv
<1>5. CASE body' = [body EXCEPT ![w] = @ \o evs] /\ wpc' = [wpc EXCEPT ![w] = "waiting"]
  <2>1. ASSUME NEW v \in Watcher \ hung, NEW id \in Id PROVE Due(mirror[v], body'[v], wpc'[v], id, View(v)[id])
    <3>1. Due(mirror[v], body[v], wpc[v], id, View(v)[id])
      BY <1>1, ZenonT(60) DEF CompleteInv
    <3>2. CASE v # w
      <4>1. body'[v] = body[v] /\ wpc'[v] = wpc[v]
        BY <1>5, <3>2, ZenonT(60) DEF SlotInv, Shape
      <4> QED
        BY <3>1, <4>1, ZenonT(60)
    <3>3. CASE v = w
      <4> DEFINE k == mirror[w]
                 e == body[w]
                 u == View(w)[id]
      <4>1. k \in [Id -> Obj] /\ e \in Seq(Event)
        BY DEF Shape
      <4>2. body'[w] = e \o evs /\ wpc'[w] = "waiting"
        BY <1>5, ZenonT(60) DEF SlotInv, Shape
      <4>3. evs \in Seq(Event)
        BY AddedEvents, ZenonT(60)
      <4>4. Learns(k, e, id, NoObj) \/ Learns(k, e, id, u)
        BY <1>1, <3>1, <3>3, ZenonT(60) DEF Due
      <4>5. CASE u = NoObj
        <5>1. \A i \in 1..Len(evs) : evs[i].id # id
          BY <4>5, AddedEvents, ZenonT(60)
        <5> HIDE DEF k, e, u
        <5>2. Learns(k, e \o evs, id, u)
          BY <4>1, <4>3, <4>4, <4>5, <5>1, LearnsOther, Zenon
        <5> QED
          BY <3>3, <4>2, <5>2, ZenonT(60) DEF Due, k, u
      <4>6. CASE u # NoObj
        <5>1. PICK i \in 1..Len(evs) : evs[i].id = id
          BY <4>6, AddedEvents
        <5>2. evs[i].type = "ADDED" /\ evs[i].obj = objects[id] /\ \A j \in 1..Len(evs) : evs[j].id = id => j = i
          <6>1. /\ \A j \in 1..Len(evs) : evs[j].type = "ADDED" /\ evs[j].obj = objects[evs[j].id]
                /\ \A j, l \in 1..Len(evs) : j # l => evs[j].id # evs[l].id
            BY AddedEvents, SMTT(60)
          <6> HIDE DEF k, e, u
          <6> QED
            BY <5>1, <6>1, ZenonT(60)
        <5>3. u = objects[id]
          BY <4>6, SMTT(60) DEF View
        <5>4. Left(evs[i]) = u
          BY <5>2, <5>3, Zenon DEF Left
        <5> HIDE DEF k, e, u
        <5>5. Learns(k, e \o evs, id, u)
          BY <4>1, <4>3, <5>1, <5>2, <5>4, LearnsLast, ZenonT(60)
        <5> QED
          BY <3>3, <4>2, <5>5, ZenonT(60) DEF Due, k, u
      <4> QED
        BY <4>5, <4>6, ZenonT(60)
    <3> QED
      BY <3>2, <3>3, ZenonT(60)
  <2> QED
    BY <1>1, <1>2, <2>1, ZenonT(60) DEF CompleteInv
<1> QED
  BY <1>3, <1>4, <1>5, SMTT(60)

LEMMA ReadComplete ==
  ASSUME Shape, CompleteInv, NEW w \in Watcher, Read(w)
  PROVE  CompleteInv'
<1>1. /\ UNCHANGED <<objects, mu, wpc, hung>> /\ body[w] # <<>>
      /\ mirror' = [mirror EXCEPT ![w] = See(@, Head(body[w]))] /\ body' = [body EXCEPT ![w] = Tail(@)]
  BY SMTT(60) DEF Read
<1>2. \A v \in Watcher : View(v)' = View(v)
  BY <1>1, ZenonT(60) DEF View, Interested
<1>3. ASSUME mu = Nobody, NEW v \in Watcher \ hung, NEW id \in Id
      PROVE  Due(mirror'[v], body'[v], wpc[v], id, View(v)[id])
  <2>1. Due(mirror[v], body[v], wpc[v], id, View(v)[id])
    BY <1>3, ZenonT(60) DEF CompleteInv
  <2>2. CASE v # w
    <3>1. mirror'[v] = mirror[v] /\ body'[v] = body[v]
      BY <1>1, <2>2, SMTT(60) DEF Shape
    <3> QED
      BY <2>1, <3>1, ZenonT(60)
  <2>3. CASE v = w
    <3> DEFINE k == mirror[w]
               e == body[w]
               u == View(w)[id]
    <3>1. k \in [Id -> Obj] /\ e \in Seq(Event) /\ e # <<>>
      BY <1>1 DEF Shape
    <3>2. mirror'[w] = See(k, Head(e)) /\ body'[w] = Tail(e)
      BY <1>1, ZenonT(60) DEF Shape
    <3>3. Due(k, e, wpc[w], id, u)
      BY <2>1, <2>3, ZenonT(60)
    <3> HIDE DEF k, e, u
    <3>4. \A x : Learns(k, e, id, x) => Learns(See(k, Head(e)), Tail(e), id, x)
      BY <3>1, LearnsReads
    <3>5. Due(See(k, Head(e)), Tail(e), wpc[w], id, u)
      BY <3>1, <3>3, <3>4, ZenonT(60) DEF Due
    <3> QED
      BY <2>3, <3>2, <3>5, ZenonT(60) DEF u
  <2> QED
    BY <2>2, <2>3, ZenonT(60)
<1> QED
  BY <1>1, <1>2, <1>3, ZenonT(60) DEF CompleteInv

LEMMA HangupComplete ==
  ASSUME Shape, CompleteInv, NEW w \in Watcher, Hangup(w)
  PROVE  CompleteInv'
<1> DEFINE none == [id \in Id |-> NoObj]
<1>1. /\ UNCHANGED <<objects, mu, wpc>> /\ hung = {} /\ hung' = {w}
      /\ mirror' = [mirror EXCEPT ![w] = none] /\ body' = [body EXCEPT ![w] = <<>>]
  BY DEF Hangup
<1> HIDE DEF none
<1>2. \A v \in Watcher : View(v)' = View(v)
  BY <1>1, ZenonT(60) DEF View, Interested
<1>3. \A v \in Watcher \ {w} : mirror'[v] = mirror[v] /\ body'[v] = body[v]
  BY <1>1 DEF Shape
<1> QED
  BY <1>1, <1>2, <1>3, ZenonT(60) DEF CompleteInv

LEMMA NextComplete == ServerInv /\ CompleteInv /\ [Next]_vars => CompleteInv'
<1> SUFFICES ASSUME Shape, SlotInv, CompleteInv, [Next]_vars PROVE CompleteInv'
  BY Zenon DEF ServerInv, OrderInv
<1>1. ASSUME NEW c \in Client,
             AddObject(c) \/ Post(c) \/ Delete(c) \/ Get(c) \/ Put(c) \/ PutStatus(c) \/ Patch(c)
      PROVE  CompleteInv'
  BY <1>1, HandlerSteps, HandlerComplete, ZenonT(60)
<1>2. CASE UNCHANGED vars
  BY <1>2, QuietComplete DEF vars
<1> QED
  BY <1>1, <1>2, RegisterComplete, BackfillComplete, ReadComplete, HangupComplete, ZenonT(60) DEF Next

\* A watch that has backfilled sends its client everything it needs to know what is
\* stored: no write falls between the registration, the backfill and the broadcasts.
THEOREM WatchAlwaysComplete == Spec => []WatchIsComplete
<1>1. Init => CompleteInv
  BY DEF Init, CompleteInv, Due
<1>2. CompleteInv => WatchIsComplete
  BY Zenon DEF CompleteInv, Due, WatchIsComplete
<1> QED
  BY <1>1, <1>2, InitServer, NextServer, NextComplete, PTL DEF Spec
=============================================================================
