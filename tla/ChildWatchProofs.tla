-------------------------- MODULE ChildWatchProofs --------------------------
(***************************************************************************)
(* Proofs about ChildWatch, for any subjects, children, workers and faults. *)
(***************************************************************************)
EXTENDS ChildWatch, FiniteSetTheorems, TLAPS

\* A busy worker has a subject, and the objects it still has to go through are
\* the subject's; it waits for a key only while it is adding watches.
BusyOK ==
  \A p \in Worker :
    /\ wk[p].pc = "idle" <=> wk[p].subj = NoSubject
    /\ wk[p].todo \subseteq ChildrenOf(wk[p].subj)

\* A watch that was started notifies the owner of an object it selects.
TargetOK ==
  \A k \in Key : st[k] # "none" => \E c \in Child : k = KeyOf(c) /\ target[k] = OwnerOf[c]

WorkInv == TypeOK /\ BusyOK

LEMMA KeyOfIsKey == \A c \in Child : KeyOf(c) \in Key
BY DEF Key

\* What a buffer has after an event was added, and after its first one was read.
LEMMA BufferFacts ==
  ASSUME NEW q \in Seq(EventType)
  PROVE  /\ \A e \in EventType :
              /\ Append(q, e)[Len(q) + 1] = e /\ Len(q) + 1 \in 1..Len(Append(q, e))
              /\ \A i \in 1..Len(q) : i \in 1..Len(Append(q, e)) /\ Append(q, e)[i] = q[i]
         /\ q # <<>> =>
              /\ Head(q) = q[1]
              /\ \A i \in 1..Len(q) : i # 1 => i - 1 \in 1..Len(Tail(q)) /\ Tail(q)[i - 1] = q[i]
<1>1. ASSUME NEW e \in EventType
      PROVE  /\ Append(q, e)[Len(q) + 1] = e /\ Len(q) + 1 \in 1..Len(Append(q, e))
             /\ \A i \in 1..Len(q) : i \in 1..Len(Append(q, e)) /\ Append(q, e)[i] = q[i]
  BY SMTT(60)
<1>2. ASSUME q # <<>>
      PROVE  /\ Head(q) = q[1]
             /\ \A i \in 1..Len(q) : i # 1 => i - 1 \in 1..Len(Tail(q)) /\ Tail(q)[i - 1] = q[i]
  BY <1>2, SMTT(60)
<1> QED
  BY <1>1, <1>2, Zenon

LEMMA MishapType ==
  ASSUME TypeOK, NEW f, Mishap(f)
  PROVE  mishaps' \in 0..MaxMishaps
BY ChildWatchConstants DEF TypeOK, Mishap

\* Write gives the changed child and the open watches' buffers their types.
LEMMA WriteType ==
  ASSUME TypeOK, NEW c \in Child, NEW s \in {"absent", "good", "bad"}, Write(c, s)
  PROVE  /\ state' \in [Child -> {"absent", "good", "bad"}] /\ rv' \in [Child -> Nat]
         /\ buf' \in [Key -> Seq(EventType)]
<1>1. state' \in [Child -> {"absent", "good", "bad"}] /\ rv' \in [Child -> Nat]
  BY DEF TypeOK, Write
<1>2. \A t \in {"changed", "deleted"} : Event(t, c, rv[c] + 1) \in EventType
  BY DEF TypeOK, Event, EventType
<1>3. ASSUME NEW k \in Key, NEW e \in EventType
      PROVE  Append(buf[k], e) \in Seq(EventType)
  BY DEF TypeOK
<1>4. buf' \in [Key -> Seq(EventType)]
  <2> DEFINE ev == Event(IF s = "absent" THEN "deleted" ELSE "changed", c, rv[c] + 1)
             new(k) == IF st[k] = "open" /\ Matches(k, c) THEN Append(buf[k], ev) ELSE buf[k]
  <2>1. ev \in EventType
    BY <1>2
  <2>2. \A k \in Key : new(k) \in Seq(EventType)
    BY <1>3, <2>1 DEF TypeOK
  <2>3. buf' = [k \in Key |-> new(k)]
    BY DEF Write
  <2> HIDE DEF new
  <2> QED
    BY <2>2, <2>3
<1> QED
  BY <1>1, <1>4

LEMMA InitType == Init => WorkInv /\ TargetOK
BY ChildWatchConstants DEF Init, WorkInv, TargetOK, TypeOK, BusyOK, Idle, WorkerState, ChildrenOf

\* What is left to show when a step changes one worker's record to w.
LEMMA WorkerUpdate ==
  ASSUME WorkInv, NEW p \in Worker, NEW w \in WorkerState,
         wk' = [wk EXCEPT ![p] = w],
         w.pc = "idle" <=> w.subj = NoSubject,
         w.todo \subseteq ChildrenOf(w.subj),
         \/ lock' = lock /\ (w.pc \in {"adding", "waiting"} <=> wk[p].pc \in {"adding", "waiting"})
         \/ lock = NoWorker /\ lock' = p /\ w.pc \in {"adding", "waiting"}
         \/ lock = p /\ lock' = NoWorker /\ w.pc \notin {"adding", "waiting"}
  PROVE  /\ wk' \in [Worker -> WorkerState]
         /\ \A q \in Worker : wk'[q].pc \in {"adding", "waiting"} <=> lock' = q
         /\ BusyOK'
<1>1. wk'[p] = w /\ \A q \in Worker \ {p} : wk'[q] = wk[q]
  BY DEF WorkInv, TypeOK
<1>2. wk' \in [Worker -> WorkerState]
  BY DEF WorkInv, TypeOK
<1>3. \A q \in Worker : wk'[q].pc \in {"adding", "waiting"} <=> lock' = q
  BY <1>1, ChildWatchConstants DEF WorkInv, TypeOK
<1>4. BusyOK'
  BY <1>1 DEF WorkInv, BusyOK, ChildrenOf
<1> QED
  BY <1>2, <1>3, <1>4

\* The steps of a worker keep the types.
LEMMA WorkerType ==
  ASSUME WorkInv, NEW p \in Worker, WorkerStep(p)
  PROVE  WorkInv'
<1> USE DEF WorkInv
<1>0. wk[p] \in WorkerState /\ wk \in [Worker -> WorkerState]
  BY DEF TypeOK
<1>1. CASE Lock(p)
  <2> DEFINE w == [wk[p] EXCEPT !.pc = "adding", !.todo = ChildrenOf(wk[p].subj)]
  <2>1. w \in WorkerState /\ w.pc = "adding" /\ w.subj = wk[p].subj /\ w.todo = ChildrenOf(w.subj)
    BY <1>0, Zenon DEF WorkerState, ChildrenOf
  <2>2. wk' = [wk EXCEPT ![p] = w]
    BY <1>0, <1>1, Zenon DEF Lock
  <2>3. wk[p].pc = "lock" /\ lock = NoWorker /\ lock' = p
    BY <1>1 DEF Lock
  <2>4. w.subj # NoSubject /\ w.todo \subseteq ChildrenOf(w.subj)
    BY <2>1, <2>3 DEF BusyOK
  <2> HIDE DEF w
  <2>5. /\ wk' \in [Worker -> WorkerState] /\ BusyOK'
        /\ \A q \in Worker : wk'[q].pc \in {"adding", "waiting"} <=> lock' = q
    BY <2>1, <2>2, <2>3, <2>4, WorkerUpdate, Zenon DEF TypeOK
  <2> QED
    BY <1>1, <2>5, SMTT(30) DEF Lock, TypeOK, clusterVars, watchVars
<1>2. CASE Registered(p)
  <2> DEFINE w == [wk[p] EXCEPT !.pc = "adding", !.key = <<>>]
  <2>1. w \in WorkerState /\ w.pc = "adding" /\ w.subj = wk[p].subj /\ w.todo = wk[p].todo
    BY <1>0, Zenon DEF WorkerState, ChildrenOf
  <2>2. wk' = [wk EXCEPT ![p] = w]
    BY <1>0, <1>2, Zenon DEF Registered
  <2>3. wk[p].pc = "waiting" /\ lock' = lock
    BY <1>2 DEF Registered
  <2>4. w.subj # NoSubject /\ w.todo \subseteq ChildrenOf(w.subj)
    BY <2>1, <2>3 DEF BusyOK
  <2> HIDE DEF w
  <2>5. /\ wk' \in [Worker -> WorkerState] /\ BusyOK'
        /\ \A q \in Worker : wk'[q].pc \in {"adding", "waiting"} <=> lock' = q
    BY <2>1, <2>2, <2>3, <2>4, WorkerUpdate, Zenon DEF TypeOK
  <2> QED
    BY <1>2, <2>5 DEF Registered, TypeOK, clusterVars, watchVars
<1>3. CASE Unlock(p)
  <2> DEFINE w == [wk[p] EXCEPT !.pc = "apply", !.todo = ChildrenOf(wk[p].subj)]
  <2>1. w \in WorkerState /\ w.pc = "apply" /\ w.subj = wk[p].subj /\ w.todo = ChildrenOf(w.subj)
    BY <1>0, Zenon DEF WorkerState, ChildrenOf
  <2>2. wk' = [wk EXCEPT ![p] = w]
    BY <1>0, <1>3, Zenon DEF Unlock
  <2>3. wk[p].pc = "adding" /\ lock' = NoWorker
    BY <1>3 DEF Unlock
  <2>4. w.subj # NoSubject /\ w.todo \subseteq ChildrenOf(w.subj)
    BY <2>1, <2>3 DEF BusyOK
  <2> HIDE DEF w
  <2>5. /\ wk' \in [Worker -> WorkerState] /\ BusyOK'
        /\ \A q \in Worker : wk'[q].pc \in {"adding", "waiting"} <=> lock' = q
    BY <2>1, <2>2, <2>3, <2>4, WorkerUpdate, Zenon DEF TypeOK
  <2> QED
    BY <1>3, <2>5 DEF Unlock, TypeOK, clusterVars, watchVars
<1>4. CASE Finish(p)
  BY <1>4, ChildWatchConstants
     DEF Finish, TypeOK, BusyOK, WorkerState, ChildrenOf, Idle, clusterVars, watchVars
<1>5. ASSUME NEW c \in Child, Register(p, c) PROVE WorkInv'
  <2>0. KeyOf(c) \in Key
    BY KeyOfIsKey
  <2> DEFINE w1 == [wk[p] EXCEPT !.todo = @ \ {c}]
             w2 == [wk[p] EXCEPT !.todo = @ \ {c}, !.pc = "waiting", !.key = KeyOf(c)]
  <2>1. /\ w1 \in WorkerState /\ w1.pc = wk[p].pc /\ w1.subj = wk[p].subj
        /\ w2 \in WorkerState /\ w2.pc = "waiting" /\ w2.subj = wk[p].subj
        /\ w1.todo \subseteq wk[p].todo /\ w2.todo \subseteq wk[p].todo
    BY <1>0, <2>0, Zenon DEF WorkerState
  <2>2. PICK w \in {w1, w2} : wk' = [wk EXCEPT ![p] = w]
    <3>1. wk' = [wk EXCEPT ![p] = w1] \/ wk' = [wk EXCEPT ![p] = w2]
      BY <1>0, <1>5 DEF Register
    <3> QED
      BY <3>1
  <2>3. wk[p].pc = "adding" /\ lock' = lock
    BY <1>5 DEF Register
  <2>4. w \in WorkerState /\ w.pc \in {"adding", "waiting"} /\ w.subj = wk[p].subj
        /\ w.todo \subseteq wk[p].todo
    BY <2>1, <2>3, Zenon
  <2>5. w.subj # NoSubject /\ w.todo \subseteq ChildrenOf(w.subj)
    BY <2>3, <2>4 DEF BusyOK
  <2> HIDE DEF w1, w2
  <2>6. /\ wk' \in [Worker -> WorkerState] /\ BusyOK'
        /\ \A q \in Worker : wk'[q].pc \in {"adding", "waiting"} <=> lock' = q
    BY <2>2, <2>3, <2>4, <2>5, WorkerUpdate, Zenon
  <2>7. wk[p].subj \in Subject \cup {NoSubject}
    BY <1>0 DEF WorkerState
  <2>8. /\ st' \in [Key -> {"none", "calling", "hung", "open", "sleeping"}]
        /\ target' \in [Key -> Subject \cup {NoSubject}]
        /\ active' \in [Key -> BOOLEAN]
        /\ UNCHANGED <<started, buf, lastRV>>
    BY <1>5, <2>0, <2>7, Zenon DEF Register, Start, TypeOK, watchVars
  <2>9. mishaps' \in 0..MaxMishaps
    BY <1>5, MishapType DEF Register, TypeOK
  <2> QED
    BY <1>5, <2>6, <2>8, <2>9 DEF Register, TypeOK, clusterVars
<1>6. ASSUME NEW c \in Child, ApplyChild(p, c) PROVE WorkInv'
  <2>1. /\ state' \in [Child -> {"absent", "good", "bad"}] /\ rv' \in [Child -> Nat]
        /\ buf' \in [Key -> Seq(EventType)]
    BY <1>6, WriteType DEF ApplyChild, TypeOK, clusterVars
  <2> DEFINE w1 == [wk[p] EXCEPT !.todo = @ \ {c}]
  <2>2. /\ w1 \in WorkerState /\ w1.pc = wk[p].pc /\ w1.subj = wk[p].subj
        /\ w1.todo \subseteq wk[p].todo
        /\ Idle \in WorkerState /\ Idle.pc = "idle" /\ Idle.subj = NoSubject /\ Idle.todo = {}
    BY <1>0 DEF WorkerState, Idle
  <2>3. PICK w \in {w1, Idle} : wk' = [wk EXCEPT ![p] = w]
    <3>1. wk' = [wk EXCEPT ![p] = w1] \/ wk' = [wk EXCEPT ![p] = Idle]
      BY <1>0, <1>6 DEF ApplyChild
    <3> QED
      BY <3>1
  <2>4. wk[p].pc = "apply" /\ lock' = lock
    BY <1>6 DEF ApplyChild
  <2>5. /\ w \in WorkerState /\ w.pc \in {"apply", "idle"}
        /\ w.pc = "idle" <=> w.subj = NoSubject
        /\ w.todo \subseteq ChildrenOf(w.subj)
    BY <2>2, <2>4, Zenon DEF BusyOK
  <2> HIDE DEF w1
  <2>6. /\ wk' \in [Worker -> WorkerState] /\ BusyOK'
        /\ \A q \in Worker : wk'[q].pc \in {"adding", "waiting"} <=> lock' = q
    BY <2>3, <2>4, <2>5, WorkerUpdate, Zenon
  <2>7. queue' \subseteq Subject /\ mishaps' \in 0..MaxMishaps
    BY <1>6, <1>0, <2>4, ChildWatchConstants DEF ApplyChild, Mishap, TypeOK, BusyOK, WorkerState
  <2> QED
    BY <1>6, <2>1, <2>6, <2>7 DEF ApplyChild, TypeOK
<1> QED
  BY <1>1, <1>2, <1>3, <1>4, <1>5, <1>6 DEF WorkerStep

LEMMA BeginType ==
  ASSUME WorkInv, NEW p \in Worker, NEW s \in Subject, Begin(p, s)
  PROVE  WorkInv'
<1> DEFINE w == [pc |-> "lock", subj |-> s, todo |-> {}, key |-> <<>>]
<1>1. /\ w \in WorkerState /\ w.pc = "lock" /\ w.subj # NoSubject /\ w.todo = {}
      /\ wk' = [wk EXCEPT ![p] = w] /\ lock' = lock /\ wk[p].pc = "idle"
  BY ChildWatchConstants DEF WorkerState, Begin
<1>2. /\ wk' \in [Worker -> WorkerState] /\ BusyOK'
      /\ \A q \in Worker : wk'[q].pc \in {"adding", "waiting"} <=> lock' = q
  BY <1>1, WorkerUpdate, Zenon
<1> QED
  BY <1>2 DEF Begin, WorkInv, TypeOK, clusterVars, watchVars

\* the sequences a watch may begin with
LEMMA ReplayType ==
  ASSUME TypeOK, NEW k \in Key, NEW r \in Replays(k)
  PROVE  /\ r \in Seq(EventType)
         /\ \A c \in Child : Matches(k, c) /\ state[c] # "absent" =>
              \E i \in 1..Len(r) : r[i].obj = c /\ r[i].rv = rv[c]
         /\ \A i \in 1..Len(r) : r[i].rv = rv[r[i].obj]
<1> DEFINE here == {d \in Child : Matches(k, d) /\ state[d] # "absent"}
           evs  == {Event("changed", c, rv[c]) : c \in here}
<1>1. here \subseteq Child /\ \A c \in here : Event("changed", c, rv[c]) \in EventType
  BY DEF TypeOK, Event, EventType
<1>2. IsFiniteSet(evs)
  <2>1. IsFiniteSet(here)
    BY ChildWatchConstants, FS_Subset
  <2>2. [c \in here |-> Event("changed", c, rv[c])] \in Surjection(here, evs)
    BY DEF Surjection
  <2> QED
    BY <2>1, <2>2, FS_Surjection
<1>3. Cardinality(evs) \in Nat
  BY <1>2, FS_CardinalityType
<1>4. /\ r \in [1..Cardinality(evs) -> evs]
      /\ \A e \in evs : \E i \in DOMAIN r : r[i] = e
  BY Zenon DEF Replays
<1>5. /\ \A c \in here : Event("changed", c, rv[c]) \in evs
      /\ \A e \in evs : \E c \in here : e = Event("changed", c, rv[c])
      /\ evs \subseteq EventType
  BY <1>1
<1> HIDE DEF evs
<1>6. r \in Seq(EventType) /\ Len(r) = Cardinality(evs) /\ DOMAIN r = 1..Len(r)
  BY <1>3, <1>4, <1>5
<1>7. \A i \in 1..Len(r) : r[i].rv = rv[r[i].obj]
  BY <1>4, <1>5, <1>6 DEF Event
<1>8. ASSUME NEW c \in here
      PROVE  \E i \in 1..Len(r) : r[i].obj = c /\ r[i].rv = rv[c]
  <2>1. PICK i \in 1..Len(r) : r[i] = Event("changed", c, rv[c])
    BY <1>4, <1>5, <1>6
  <2> QED
    BY <2>1 DEF Event
<1> QED
  BY <1>6, <1>7, <1>8

\* The steps of a watch's goroutine, and of other clients, keep the types.
LEMMA WatchType ==
  ASSUME WorkInv, TargetOK, NEW k \in Key,
         \/ Open(k) \/ Refuse(k) \/ Hang(k) \/ Tick(k) \/ Bookmark(k)
         \/ Receive(k) \/ Close(k) \/ Wake(k)
  PROVE  WorkInv'
<1>1. CASE Open(k)
  <2>1. buf' \in [Key -> Seq(EventType)]
    BY <1>1, ReplayType, ZenonT(60) DEF Open, WorkInv, TypeOK
  <2> QED
    BY <1>1, <2>1, Zenon DEF Open, WorkInv, TypeOK, BusyOK, clusterVars, ctrlVars
<1>2. CASE Refuse(k) \/ Hang(k)
  BY <1>2, MishapType, Zenon
     DEF Refuse, Hang, WorkInv, TypeOK, BusyOK, clusterVars, ctrlVars
<1>3. CASE Tick(k)
  BY <1>3, Zenon DEF Tick, WorkInv, TypeOK, BusyOK, clusterVars, ctrlVars
<1>4. CASE Bookmark(k) \/ Wake(k)
  BY <1>4, ZenonT(60) DEF Bookmark, Wake, WorkInv, TypeOK, BusyOK, clusterVars, ctrlVars
<1>5. CASE Receive(k)
  <2> DEFINE e == Head(buf[k])
  <2>1. e \in EventType /\ Tail(buf[k]) \in Seq(EventType)
    BY <1>5 DEF Receive, WorkInv, TypeOK
  <2>2. e.obj \in Child /\ e.rv \in Nat
    BY <2>1 DEF EventType
  <2>3. buf' \in [Key -> Seq(EventType)]
    BY <1>5, <2>1, Zenon DEF Receive, WorkInv, TypeOK
  <2>4. lastRV' \in [Key -> [Child -> Nat]]
    BY <1>5, <2>2, Zenon DEF Receive, WorkInv, TypeOK
  <2>5. st[k] # "none" /\ queue' \in {queue, queue \cup {target[k]}}
    BY <1>5 DEF Receive
  <2>6. queue' \subseteq Subject
    BY <2>5, ChildWatchConstants DEF TargetOK, WorkInv, TypeOK
  <2> QED
    BY <1>5, <2>3, <2>4, <2>6, Zenon DEF Receive, WorkInv, TypeOK, BusyOK, clusterVars
<1>6. CASE Close(k)
  BY <1>6, MishapType
     DEF Close, WorkInv, TypeOK, BusyOK, clusterVars, ctrlVars
<1> QED
  BY <1>1, <1>2, <1>3, <1>4, <1>5, <1>6

LEMMA DisturbType ==
  ASSUME WorkInv, NEW c \in Child, Disturb(c)
  PROVE  WorkInv'
<1>1. PICK s \in {"absent", "bad"} : Write(c, s)
  BY DEF Disturb
<1>2. /\ state' \in [Child -> {"absent", "good", "bad"}] /\ rv' \in [Child -> Nat]
      /\ buf' \in [Key -> Seq(EventType)]
  BY <1>1, WriteType DEF WorkInv
<1>3. mishaps' \in 0..MaxMishaps
  BY ChildWatchConstants DEF Disturb, WorkInv, TypeOK
<1> QED
  BY <1>2, <1>3, Zenon DEF Disturb, WorkInv, TypeOK, BusyOK, ctrlVars

\* Only Register starts a watch, and for the subject that has the object.
LEMMA TargetStep ==
  ASSUME WorkInv, TargetOK, [Next]_vars
  PROVE  TargetOK'
<1>1. ASSUME target' = target, \A k \in Key : st'[k] # "none" => st[k] # "none"
      PROVE  TargetOK'
  BY <1>1 DEF TargetOK
<1>2. CASE UNCHANGED <<st, target>>
  BY <1>1, <1>2
<1>3. ASSUME NEW p \in Worker, NEW c \in Child, Register(p, c)
      PROVE  TargetOK'
  <2>1. CASE Start(KeyOf(c), wk[p].subj)
    <3>1. wk[p].subj = OwnerOf[c]
      BY <1>3 DEF Register, WorkInv, BusyOK, ChildrenOf
    <3> QED
      BY <2>1, <3>1, Zenon DEF Start, TargetOK, WorkInv, TypeOK
  <2> QED
    BY <1>2, <1>3, <2>1 DEF Register, watchVars
<1>4. ASSUME NEW k \in Key,
             \/ Open(k) \/ Refuse(k) \/ Hang(k) \/ Tick(k) \/ Bookmark(k)
             \/ Receive(k) \/ Close(k) \/ Wake(k)
      PROVE  TargetOK'
  <2>1. /\ target' = target
        /\ st' = st \/ (st[k] # "none" /\ \E x : st' = [st EXCEPT ![k] = x])
    BY <1>4, ZenonT(60) DEF Open, Refuse, Hang, Tick, Bookmark, Receive, Close, Wake
  <2> QED
    BY <1>1, <2>1 DEF WorkInv, TypeOK
<1>5. ASSUME NEW p \in Worker, NEW s \in Subject, Begin(p, s) PROVE TargetOK'
  BY <1>2, <1>5 DEF Begin, watchVars
<1>6. ASSUME NEW p \in Worker, Lock(p) \/ Registered(p) \/ Unlock(p) \/ Finish(p)
      PROVE  TargetOK'
  BY <1>2, <1>6 DEF Lock, Registered, Unlock, Finish, watchVars
<1>7. ASSUME NEW p \in Worker, NEW c \in Child, ApplyChild(p, c) PROVE TargetOK'
  BY <1>2, <1>7 DEF ApplyChild
<1>8. ASSUME NEW c \in Child, Disturb(c) PROVE TargetOK'
  BY <1>2, <1>8 DEF Disturb
<1>9. CASE UNCHANGED vars
  BY <1>2, <1>9 DEF vars, watchVars
<1> QED
  BY <1>3, <1>4, <1>5, <1>6, <1>7, <1>8, <1>9 DEF Next, WorkerStep

LEMMA NextType == WorkInv /\ TargetOK /\ [Next]_vars => WorkInv'
<1> SUFFICES ASSUME WorkInv, TargetOK, [Next]_vars PROVE WorkInv'
  OBVIOUS
<1>1. CASE UNCHANGED vars
  BY <1>1, Zenon DEF vars, clusterVars, ctrlVars, watchVars, WorkInv, TypeOK, BusyOK
<1> QED
  BY <1>1, BeginType, WorkerType, WatchType, DisturbType DEF Next

\* Every variable keeps its type, and the mutex has at most one holder, however
\* many workers reconcile at a time.
THEOREM TypeCorrect == Spec => []TypeOK
<1>1. WorkInv => TypeOK
  BY DEF WorkInv
<1> QED
  BY <1>1, InitType, NextType, TargetStep, PTL DEF Spec

-----------------------------------------------------------------------------
(***************************************************************************)
(* No change is overlooked.  NoLostWakeup is not inductive: a replayed     *)
(* event may be suppressed because lastRV has its resourceVersion, so the  *)
(* strengthening says that what lastRV has was acted upon, and that no     *)
(* resourceVersion is known before it is given out.                        *)
(***************************************************************************)
\* A watch selects the objects of one subject only.
Distinct == \A c, e \in Child : Matches(KeyOf(c), e) => OwnerOf[c] = OwnerOf[e]

VersionsOK ==
  /\ \A c \in Child : state[c] # "absent" => rv[c] > 0
  /\ \A k \in Key : \A c \in Child : lastRV[k][c] <= rv[c]
  /\ \A k \in Key : \A i \in 1..Len(buf[k]) : buf[k][i].rv <= rv[buf[k][i].obj]

SeenIsAwaited ==
  \A k \in Key : \A c \in Child :
    Matches(k, c) /\ state[c] = "bad" /\ lastRV[k][c] = rv[c] => Awaited(c)

WakeInv == VersionsOK /\ SeenIsAwaited /\ NoLostWakeup

LEMMA InitWake == Init => WakeInv
BY DEF Init, WakeInv, VersionsOK, SeenIsAwaited, NoLostWakeup

\* A step that writes no object and opens no watch.
LEMMA QuietWake ==
  ASSUME WorkInv, WakeInv, UNCHANGED <<state, rv, lastRV>>,
         \A k \in Key : buf'[k] = buf[k] \/ buf'[k] = <<>>,
         \A k \in Key : st'[k] = "open" => st[k] = "open" /\ buf'[k] = buf[k],
         \A c \in Child : Awaited(c) => Awaited(c)'
  PROVE  WakeInv'
<1>1. VersionsOK'
  BY DEF WakeInv, VersionsOK
<1>2. SeenIsAwaited'
  BY DEF WakeInv, SeenIsAwaited, Matches
<1>3. NoLostWakeup'
  BY DEF WakeInv, NoLostWakeup, Matches
<1> QED
  BY <1>1, <1>2, <1>3 DEF WakeInv

\* A write is sent to every open watch that selects the object.
LEMMA WriteWake ==
  ASSUME WorkInv, WakeInv, NEW c \in Child, NEW s \in {"absent", "good", "bad"}, Write(c, s),
         UNCHANGED <<st, lastRV>>,
         \A e \in Child \ {c} : Awaited(e) => Awaited(e)'
  PROVE  WakeInv'
<1> DEFINE ev == Event(IF s = "absent" THEN "deleted" ELSE "changed", c, rv[c] + 1)
<1>1. /\ state'[c] = s /\ rv'[c] = rv[c] + 1 /\ rv[c] \in Nat /\ rv'[c] \in Nat
      /\ \A e \in Child \ {c} : state'[e] = state[e] /\ rv'[e] = rv[e] /\ rv[e] \in Nat
  BY DEF Write, WorkInv, TypeOK
<1>2. ev \in EventType /\ ev.obj = c /\ ev.rv = rv[c] + 1
  BY <1>1 DEF Event, EventType
<1>3. ASSUME NEW k \in Key
      PROVE  /\ buf[k] \in Seq(EventType)
             /\ buf'[k] = IF st[k] = "open" /\ Matches(k, c) THEN Append(buf[k], ev) ELSE buf[k]
  BY DEF Write, WorkInv, TypeOK
<1> HIDE DEF ev
<1>4. ASSUME NEW k \in Key, NEW i \in 1..Len(buf[k])
      PROVE  i \in 1..Len(buf'[k]) /\ buf'[k][i] = buf[k][i]
  <2>1. CASE buf'[k] = Append(buf[k], ev)
    <3>1. /\ Len(Append(buf[k], ev)) = Len(buf[k]) + 1 /\ Len(buf[k]) \in Nat
          /\ Append(buf[k], ev)[i] = buf[k][i]
      BY <1>2, <1>3
    <3> QED
      BY <2>1, <3>1
  <2> QED
    BY <1>3, <2>1, Zenon
<1>5. ASSUME NEW k \in Key, NEW i \in 1..Len(buf'[k])
      PROVE  \/ i \in 1..Len(buf[k]) /\ buf'[k][i] = buf[k][i]
             \/ buf'[k][i] = ev
  <2>1. CASE buf'[k] = Append(buf[k], ev)
    <3>1. /\ Len(Append(buf[k], ev)) = Len(buf[k]) + 1 /\ Len(buf[k]) \in Nat
          /\ Append(buf[k], ev)[Len(buf[k]) + 1] = ev
          /\ \A j \in 1..Len(buf[k]) : Append(buf[k], ev)[j] = buf[k][j]
      BY <1>2, <1>3
    <3>2. i \in 1..(Len(buf[k]) + 1)
      BY <2>1, <3>1
    <3>3. i \in 1..Len(buf[k]) \/ i = Len(buf[k]) + 1
      BY <3>1, <3>2
    <3> QED
      BY <2>1, <3>1, <3>3
  <2> QED
    BY <1>3, <2>1, Zenon
<1>6. VersionsOK'
  <2>1. \A e \in Child : state'[e] # "absent" => rv'[e] > 0
    BY <1>1 DEF WakeInv, VersionsOK
  <2>2. ASSUME NEW k \in Key, NEW e \in Child
        PROVE  lastRV'[k][e] <= rv'[e]
    <3>1. lastRV[k][e] \in Nat /\ lastRV[k][e] <= rv[e]
      BY Zenon DEF WakeInv, VersionsOK, WorkInv, TypeOK
    <3> QED
      BY <1>1, <3>1
  <2>3. ASSUME NEW k \in Key, NEW i \in 1..Len(buf'[k])
        PROVE  buf'[k][i].rv <= rv'[buf'[k][i].obj]
    <3>1. CASE buf'[k][i] = ev
      BY <1>1, <1>2, <3>1
    <3>2. CASE i \in 1..Len(buf[k]) /\ buf'[k][i] = buf[k][i]
      <4>1. buf[k][i] \in EventType
        BY <1>3, <3>2
      <4>2. buf[k][i].obj \in Child /\ buf[k][i].rv \in Nat
        BY <4>1, Zenon DEF EventType
      <4> QED
        BY <1>1, <3>2, <4>2, SMTT(60) DEF WakeInv, VersionsOK
    <3> QED
      BY <1>5, <3>1, <3>2, Zenon
  <2> QED
    BY <2>1, <2>2, <2>3 DEF VersionsOK
<1>7. SeenIsAwaited'
  <2> SUFFICES ASSUME NEW k \in Key, NEW e \in Child, Matches(k, e), state'[e] = "bad",
                      lastRV'[k][e] = rv'[e]
               PROVE  Awaited(e)'
    BY SMTT(60) DEF SeenIsAwaited, Matches
  <2>1. e # c
    BY <1>1, SMTT(60) DEF WakeInv, VersionsOK, WorkInv, TypeOK
  <2> QED
    BY <1>1, <2>1 DEF WakeInv, SeenIsAwaited
<1>8. NoLostWakeup'
  <2> SUFFICES ASSUME NEW k \in Key, NEW e \in Child, st[k] = "open", Matches(k, e),
                      state'[e] = "bad", ~Awaited(e)'
               PROVE  \E i \in 1..Len(buf'[k]) : buf'[k][i].obj = e /\ buf'[k][i].rv = rv'[e]
    BY Zenon DEF NoLostWakeup, Matches
  <2>1. CASE e = c
    <3>1. buf'[k] = Append(buf[k], ev)
      BY <1>3, <2>1, Zenon
    <3>2. Len(buf[k]) + 1 \in 1..Len(buf'[k]) /\ buf'[k][Len(buf[k]) + 1] = ev
      BY <1>2, <1>3, <3>1
    <3> QED
      BY <1>1, <1>2, <2>1, <3>2, Zenon
  <2>2. CASE e # c
    <3>1. PICK i \in 1..Len(buf[k]) : buf[k][i].obj = e /\ buf[k][i].rv = rv[e]
      BY <1>1, <2>2 DEF WakeInv, NoLostWakeup
    <3> QED
      BY <1>1, <1>4, <2>2, <3>1, Zenon
  <2> QED
    BY <2>1, <2>2, Zenon
<1> QED
  BY <1>6, <1>7, <1>8 DEF WakeInv

\* The event at the head of an open watch: sent on, or known to be acted upon.
LEMMA ReceiveWake ==
  ASSUME Distinct, WorkInv, TargetOK, WakeInv, NEW k \in Key, Receive(k)
  PROVE  WakeInv'
<1> DEFINE e == Head(buf[k])
<1>1. /\ buf[k] \in Seq(EventType) /\ buf[k] # <<>>
      /\ e \in EventType /\ e = buf[k][1] /\ Len(buf[k]) \in Nat /\ 1 \in 1..Len(buf[k])
  BY DEF Receive, WorkInv, TypeOK
<1>2. e.obj \in Child /\ e.rv \in Nat /\ e.type \in {"changed", "deleted"}
  BY <1>1 DEF EventType
<1>3. /\ buf'[k] = Tail(buf[k])
      /\ \A j \in Key \ {k} : buf'[j] = buf[j]
      /\ UNCHANGED <<state, rv, st, wk>>
  BY Zenon DEF Receive, WorkInv, TypeOK, clusterVars
<1>4. /\ lastRV'[k][e.obj] = IF e.type = "deleted" THEN 0 ELSE e.rv
      /\ \A j \in Key : \A c \in Child : j # k \/ c # e.obj => lastRV'[j][c] = lastRV[j][c]
  BY <1>2, Zenon DEF Receive, WorkInv, TypeOK
<1>5. /\ queue \subseteq queue'
      /\ \/ e.type = "changed" /\ lastRV[k][e.obj] = e.rv
         \/ target[k] \in queue'
  BY Zenon DEF Receive
<1>6. \A c \in Child : Awaited(c) => Awaited(c)'
  BY <1>3, <1>5 DEF Awaited
<1>7. ASSUME NEW c \in Child, Matches(k, c)
      PROVE  target[k] = OwnerOf[c]
  BY <1>7 DEF Receive, TargetOK, Distinct
<1>8. /\ Len(buf'[k]) = Len(buf[k]) - 1
      /\ \A i \in 1..Len(buf'[k]) : i + 1 \in 1..Len(buf[k]) /\ buf'[k][i] = buf[k][i + 1]
      /\ \A i \in 1..Len(buf[k]) : i # 1 => i - 1 \in 1..Len(buf'[k]) /\ buf'[k][i - 1] = buf[k][i]
  BY <1>1, <1>3
<1> HIDE DEF e
<1>9. e.rv <= rv[e.obj] /\ \A c \in Child : rv[c] \in Nat
  BY <1>1, Zenon DEF WakeInv, VersionsOK, WorkInv, TypeOK
<1>10. VersionsOK'
  <2>1. ASSUME NEW j \in Key, NEW c \in Child
        PROVE  lastRV'[j][c] <= rv'[c]
    <3>1. CASE j = k /\ c = e.obj
      BY <1>2, <1>3, <1>4, <1>9, <3>1
    <3>2. CASE j # k \/ c # e.obj
      BY <1>3, <1>4, <3>2 DEF WakeInv, VersionsOK
    <3> QED
      BY <3>1, <3>2
  <2>2. ASSUME NEW j \in Key, NEW i \in 1..Len(buf'[j])
        PROVE  buf'[j][i].rv <= rv'[buf'[j][i].obj]
    <3>1. CASE j = k
      <4>1. i + 1 \in 1..Len(buf[k]) /\ buf'[k][i] = buf[k][i + 1]
        BY <1>8, <3>1
      <4> QED
        BY <1>3, <3>1, <4>1, Zenon DEF WakeInv, VersionsOK
    <3>2. CASE j # k
      BY <1>3, <3>2, Zenon DEF WakeInv, VersionsOK
    <3> QED
      BY <3>1, <3>2
  <2> QED
    BY <1>3, <2>1, <2>2 DEF WakeInv, VersionsOK
<1>11. SeenIsAwaited'
  <2> SUFFICES ASSUME NEW j \in Key, NEW c \in Child, Matches(j, c), state[c] = "bad",
                      lastRV'[j][c] = rv[c]
               PROVE  Awaited(c)'
    BY <1>3, Zenon DEF SeenIsAwaited, Matches
  <2>1. CASE j # k \/ c # e.obj
    BY <1>4, <1>6, <2>1, Zenon DEF WakeInv, SeenIsAwaited
  <2>2. CASE j = k /\ c = e.obj
    <3>1. e.type = "changed" /\ e.rv = rv[c]
      BY <1>2, <1>4, <2>2, SMTT(60) DEF WakeInv, VersionsOK
    <3>2. CASE lastRV[k][c] = e.rv
      BY <1>6, <2>2, <3>1, <3>2, ZenonT(60) DEF WakeInv, SeenIsAwaited
    <3>3. CASE target[k] \in queue'
      BY <1>7, <2>2, <3>3, Zenon DEF Awaited
    <3> QED
      BY <1>5, <2>2, <3>2, <3>3, ZenonT(60)
  <2> QED
    BY <2>1, <2>2
<1>12. NoLostWakeup'
  <2> SUFFICES ASSUME NEW j \in Key, NEW c \in Child, st[j] = "open", Matches(j, c),
                      state[c] = "bad", ~Awaited(c)'
               PROVE  \E i \in 1..Len(buf'[j]) : buf'[j][i].obj = c /\ buf'[j][i].rv = rv[c]
    BY <1>3, ZenonT(60) DEF NoLostWakeup, Matches
  <2>1. PICK i \in 1..Len(buf[j]) : buf[j][i].obj = c /\ buf[j][i].rv = rv[c]
    BY <1>6, Zenon DEF WakeInv, NoLostWakeup
  <2>2. CASE j # k
    BY <1>3, <2>1, <2>2, ZenonT(60)
  <2>3. CASE j = k /\ i # 1
    BY <1>8, <2>1, <2>3, ZenonT(60)
  <2>4. CASE j = k /\ i = 1
    <3>1. e.obj = c /\ e.rv = rv[c]
      BY <1>1, <2>1, <2>4, Zenon
    <3>2. CASE lastRV[k][c] = e.rv
      BY <1>6, <2>4, <3>1, <3>2, Zenon DEF WakeInv, SeenIsAwaited
    <3>3. CASE target[k] \in queue'
      BY <1>7, <2>4, <3>3 DEF Awaited
    <3> QED
      BY <1>5, <3>1, <3>2, <3>3, Zenon
  <2> QED
    BY <2>2, <2>3, <2>4, ZenonT(60)
<1> QED
  BY <1>10, <1>11, <1>12 DEF WakeInv

\* A watch that opens begins with every object it selects.
LEMMA OpenWake ==
  ASSUME WorkInv, WakeInv, NEW k \in Key, Open(k)
  PROVE  WakeInv'
<1>1. PICK r \in Replays(k) : buf' = [buf EXCEPT ![k] = r]
  BY Zenon DEF Open
<1>2. /\ buf'[k] = r /\ st'[k] = "open"
      /\ \A j \in Key \ {k} : buf'[j] = buf[j] /\ st'[j] = st[j]
      /\ UNCHANGED <<state, rv, lastRV, queue, wk>>
  BY <1>1, SMTT(60) DEF Open, WorkInv, TypeOK, clusterVars, ctrlVars
<1>3. /\ \A c \in Child : Matches(k, c) /\ state[c] # "absent" =>
           \E i \in 1..Len(r) : r[i].obj = c /\ r[i].rv = rv[c]
      /\ \A i \in 1..Len(r) : r[i].rv = rv[r[i].obj] /\ rv[r[i].obj] \in Nat
  <2>1. \A i \in 1..Len(r) : r[i] \in EventType
    BY ReplayType, SMTT(60) DEF WorkInv
  <2>2. \A i \in 1..Len(r) : r[i].obj \in Child
    BY <2>1, Zenon DEF EventType
  <2> QED
    BY <2>2, ReplayType, ZenonT(60) DEF WorkInv, TypeOK
<1>4. \A c \in Child : Awaited(c)' <=> Awaited(c)
  BY <1>2 DEF Awaited
<1>5. VersionsOK'
  <2>1. ASSUME NEW j \in Key, NEW i \in 1..Len(buf'[j])
        PROVE  buf'[j][i].rv <= rv'[buf'[j][i].obj]
    <3>1. CASE j = k
      BY <1>2, <1>3, <3>1, SMTT(60)
    <3>2. CASE j # k
      BY <1>2, <3>2, Zenon DEF WakeInv, VersionsOK
    <3> QED
      BY <3>1, <3>2, SMTT(60)
  <2> QED
    BY <1>2, <2>1, Zenon DEF WakeInv, VersionsOK
<1>6. SeenIsAwaited'
  BY <1>2, <1>4, Zenon DEF WakeInv, SeenIsAwaited, Matches
<1>7. NoLostWakeup'
  <2> SUFFICES ASSUME NEW j \in Key, NEW c \in Child, st'[j] = "open", Matches(j, c),
                      state[c] = "bad", ~Awaited(c)
               PROVE  \E i \in 1..Len(buf'[j]) : buf'[j][i].obj = c /\ buf'[j][i].rv = rv[c]
    BY <1>2, <1>4, ZenonT(60) DEF NoLostWakeup, Matches
  <2>1. CASE j = k
    BY <1>2, <1>3, <2>1, Zenon
  <2>2. CASE j # k
    BY <1>2, <2>2 DEF WakeInv, NoLostWakeup
  <2> QED
    BY <2>1, <2>2, Zenon
<1> QED
  BY <1>5, <1>6, <1>7 DEF WakeInv

\* A worker's steps leave no child unawaited but the one it has just applied.
LEMMA WorkerWake ==
  ASSUME WorkInv, WakeInv, NEW p \in Worker, WorkerStep(p)
  PROVE  WakeInv'
<1>0. wk \in [Worker -> WorkerState]
  BY DEF WorkInv, TypeOK
<1>1. CASE Lock(p) \/ Registered(p) \/ Unlock(p) \/ Finish(p)
  <2>1. UNCHANGED <<state, rv, lastRV, buf, st, queue>>
    BY <1>1 DEF Lock, Registered, Unlock, Finish, clusterVars, watchVars
  <2>2. \A q \in Worker \ {p} : wk'[q] = wk[q]
    BY <1>0, <1>1 DEF Lock, Registered, Unlock, Finish
  <2>3. \/ wk[p].pc = "apply" /\ wk[p].todo = {}
        \/ wk'[p].subj = wk[p].subj /\ wk'[p].pc # "apply"
        \/ wk'[p].subj = wk[p].subj /\ wk'[p].todo = ChildrenOf(wk[p].subj)
    BY <1>0, <1>1 DEF Lock, Registered, Unlock, Finish, WorkerState
  <2>4. \A c \in Child : Awaited(c) => Awaited(c)'
    BY <2>1, <2>2, <2>3, ZenonT(60) DEF Awaited, ChildrenOf
  <2> QED
    BY <2>1, <2>4, QuietWake
<1>2. ASSUME NEW c \in Child, Register(p, c) PROVE WakeInv'
  <2>1. UNCHANGED <<state, rv, lastRV, buf, queue>>
    BY <1>2 DEF Register, Start, clusterVars, watchVars
  <2>2. \A k \in Key : st'[k] = "open" => st[k] = "open"
    BY <1>2 DEF Register, Start, watchVars, WorkInv, TypeOK
  <2>3. /\ \A q \in Worker \ {p} : wk'[q] = wk[q]
        /\ wk'[p].subj = wk[p].subj /\ wk'[p].pc \in {"adding", "waiting"}
    BY <1>0, <1>2 DEF Register, WorkerState
  <2>4. \A e \in Child : Awaited(e) => Awaited(e)'
    BY <2>1, <2>3 DEF Awaited
  <2> QED
    BY <2>1, <2>2, <2>4, QuietWake, Zenon
<1>3. ASSUME NEW c \in Child, ApplyChild(p, c) PROVE WakeInv'
  <2>1. wk[p].pc = "apply" /\ UNCHANGED <<st, lastRV>> /\ queue \subseteq queue'
    BY <1>3 DEF ApplyChild
  <2>2. /\ \A q \in Worker \ {p} : wk'[q] = wk[q]
        /\ \/ wk'[p].subj = wk[p].subj /\ wk'[p].pc = "apply" /\ wk'[p].todo = wk[p].todo \ {c}
           \/ wk[p].subj \in queue'
    BY <1>0, <1>3 DEF ApplyChild, WorkerState
  <2>3. \A e \in Child \ {c} : Awaited(e) => Awaited(e)'
    BY <2>1, <2>2, Zenon DEF Awaited
  <2>4. CASE Write(c, "good")
    BY <2>1, <2>3, <2>4, WriteWake, SMTT(60)
  <2>5. CASE UNCHANGED <<clusterVars, buf>> /\ (state[c] = "good" \/ wk[p].subj \in queue')
    <3>1. state[c] = "bad" => (Awaited(c) => Awaited(c)')
      BY <2>1, <2>2, <2>5, Zenon DEF Awaited
    <3>2. SeenIsAwaited'
      BY <2>1, <2>3, <2>5, <3>1, Zenon DEF WakeInv, SeenIsAwaited, Matches, clusterVars
    <3>3. NoLostWakeup'
      BY <2>1, <2>3, <2>5, <3>1, ZenonT(60) DEF WakeInv, NoLostWakeup, Matches, clusterVars
    <3> QED
      BY <2>1, <2>5, <3>2, <3>3, Zenon DEF WakeInv, VersionsOK, clusterVars
  <2> QED
    BY <1>3, <2>4, <2>5 DEF ApplyChild
<1> QED
  BY <1>1, <1>2, <1>3 DEF WorkerStep

LEMMA NextWake == Distinct /\ WorkInv /\ TargetOK /\ WakeInv /\ [Next]_vars => WakeInv'
<1> SUFFICES ASSUME Distinct, WorkInv, TargetOK, WakeInv, [Next]_vars PROVE WakeInv'
  BY SMTT(60)
<1>1. ASSUME NEW p \in Worker, NEW s \in Subject, Begin(p, s) PROVE WakeInv'
  <2>1. UNCHANGED <<state, rv, lastRV, buf, st>> /\ queue' = queue \ {s}
    BY <1>1, SMTT(60) DEF Begin, clusterVars, watchVars
  <2>2. /\ \A q \in Worker \ {p} : wk'[q] = wk[q]
        /\ wk'[p].subj = s /\ wk'[p].pc = "lock" /\ wk[p].subj = NoSubject
    BY <1>1, Zenon DEF Begin, WorkInv, TypeOK, BusyOK
  <2>3. \A c \in Child : Awaited(c) => Awaited(c)'
    BY <2>1, <2>2, ChildWatchConstants, Zenon DEF Awaited
  <2> QED
    BY <2>1, <2>3, QuietWake, Zenon
<1>2. ASSUME NEW k \in Key, Refuse(k) \/ Hang(k) \/ Tick(k) \/ Bookmark(k) \/ Close(k) \/ Wake(k)
      PROVE  WakeInv'
  <2>1. UNCHANGED <<state, rv, lastRV, queue, wk>>
    BY <1>2, Zenon DEF Refuse, Hang, Tick, Bookmark, Close, Wake, clusterVars, ctrlVars
  <2>2. /\ buf' = buf \/ (buf' = [buf EXCEPT ![k] = <<>>] /\ st'[k] = "sleeping")
        /\ st' = st \/ \E x \in {"sleeping", "hung", "calling"} : st' = [st EXCEPT ![k] = x]
    BY <1>2, Zenon DEF Refuse, Hang, Tick, Bookmark, Close, Wake, WorkInv, TypeOK
  <2>3. /\ \A j \in Key : buf'[j] = buf[j] \/ buf'[j] = <<>>
        /\ \A j \in Key : st'[j] = "open" => st[j] = "open" /\ buf'[j] = buf[j]
    BY <2>2 DEF WorkInv, TypeOK
  <2>4. \A c \in Child : Awaited(c) => Awaited(c)'
    BY <2>1 DEF Awaited
  <2> QED
    BY <2>1, <2>3, <2>4, QuietWake, Zenon
<1>3. ASSUME NEW c \in Child, Disturb(c) PROVE WakeInv'
  <2>1. PICK s \in {"absent", "bad"} : Write(c, s)
    BY <1>3 DEF Disturb
  <2>2. \A e \in Child : Awaited(e) => Awaited(e)'
    BY <1>3, Zenon DEF Disturb, Awaited, ctrlVars
  <2>3. UNCHANGED <<st, lastRV>>
    BY <1>3 DEF Disturb
  <2> QED
    BY <2>1, <2>2, <2>3, WriteWake
<1>4. CASE UNCHANGED vars
  <2>1. UNCHANGED <<state, rv, lastRV, buf, st, queue, wk>>
    BY <1>4 DEF vars, clusterVars, ctrlVars, watchVars
  <2>2. \A c \in Child : Awaited(c) => Awaited(c)'
    BY <2>1, Zenon DEF Awaited
  <2> QED
    BY <2>1, <2>2, QuietWake, ZenonT(60)
<1> QED
  BY <1>1, <1>2, <1>3, <1>4, WorkerWake, OpenWake, ReceiveWake DEF Next

\* If every watch selects the objects of one subject only, an object that has
\* drifted is always awaited by a reconcile or on its way to one through every
\* open watch: for any number of objects, workers, rewatches and failures.
THEOREM NoChangeIsOverlooked ==
  ASSUME Distinct
  PROVE  Spec => []NoLostWakeup
<1>1. WakeInv => NoLostWakeup
  BY DEF WakeInv
<1>2. WorkInv /\ TargetOK /\ WakeInv /\ [Next]_vars => WakeInv'
  BY NextWake
<1> QED
  BY <1>1, <1>2, InitType, NextType, TargetStep, InitWake, PTL DEF Spec

-----------------------------------------------------------------------------
(***************************************************************************)
(* No deletion is overlooked while watches stay open.  A watch is opened   *)
(* once, and then the worker that registers it still waits for it: what    *)
(* was deleted before is applied by that worker.                           *)
(***************************************************************************)
\* No watch is refused, cancelled or ended.
Uninterrupted == Faults \cap {"close", "quiet", "refuse", "hang"} = {}

\* BeforeApply waits for watch k
WaitedFor(k) == \E p \in Worker : wk[p].pc = "waiting" /\ wk[p].key = k

KeyIsOwn ==
  \A p \in Worker : wk[p].pc = "waiting" => \E c \in Child : wk[p].key = KeyOf(c) /\ wk[p].subj = OwnerOf[c]

OpensOnce ==
  /\ \A k \in Key : st[k] \in {"none", "calling", "open"}
  /\ \A k \in Key : st[k] = "calling" => k \notin started /\ WaitedFor(k)
  /\ \A k \in started \ registered : WaitedFor(k)

OpenInv == KeyIsOwn /\ OpensOnce

LEMMA InitOpen == Init => OpenInv
BY DEF Init, OpenInv, KeyIsOwn, OpensOnce, Idle

\* Steps in which no worker begins or stops to wait, and no watch is started or opened.
LEMMA QuietOpen ==
  ASSUME OpenInv, UNCHANGED <<st, started, registered>>,
         \A p \in Worker : \/ wk'[p] = wk[p]
                           \/ wk[p].pc # "waiting" /\ wk'[p].pc # "waiting"
  PROVE  OpenInv'
<1>1. \A p \in Worker : wk'[p].pc = "waiting" => wk'[p] = wk[p] /\ wk[p].pc = "waiting"
  OBVIOUS
<1>2. KeyIsOwn'
  BY <1>1, ZenonT(60) DEF OpenInv, KeyIsOwn
<1>3. \A k : WaitedFor(k) => WaitedFor(k)'
  BY Zenon DEF WaitedFor
<1> QED
  BY <1>2, <1>3, Zenon DEF OpenInv, OpensOnce

\* A worker that begins to wait has the mutex, so no other waits.
LEMMA RegisterOpen ==
  ASSUME WorkInv, OpenInv, NEW p \in Worker, NEW c \in Child, Register(p, c)
  PROVE  OpenInv'
<1>0. wk \in [Worker -> WorkerState] /\ KeyOf(c) \in Key /\ st \in [Key -> {"none", "calling", "hung", "open", "sleeping"}]
  BY KeyOfIsKey DEF WorkInv, TypeOK
<1>1. wk[p].pc = "adding" /\ registered' = registered
  BY DEF Register
<1>2. CASE UNCHANGED watchVars /\ wk' = [wk EXCEPT ![p].todo = @ \ {c}]
  <2>1. \A q \in Worker : wk'[q] = wk[q] \/ (wk[q].pc # "waiting" /\ wk'[q].pc # "waiting")
    BY <1>0, <1>1, <1>2 DEF WorkerState
  <2> QED
    BY <1>1, <1>2, <2>1, QuietOpen DEF watchVars
<1>3. CASE KeyOf(c) \notin registered /\ Start(KeyOf(c), wk[p].subj)
           /\ wk' = [wk EXCEPT ![p].todo = @ \ {c}, ![p].pc = "waiting", ![p].key = KeyOf(c)]
  <2>1. wk'[p].pc = "waiting" /\ wk'[p].key = KeyOf(c) /\ wk'[p].subj = wk[p].subj
    BY <1>0, <1>3 DEF WorkerState
  <2>2. \A q \in Worker : wk[q].pc # "waiting"
    BY <1>1 DEF WorkInv, TypeOK
  <2>3. \A q \in Worker \ {p} : wk'[q] = wk[q]
    BY <1>0, <1>3
  <2>4. wk[p].subj = OwnerOf[c]
    BY <1>1 DEF Register, WorkInv, BusyOK, ChildrenOf
  <2>5. KeyIsOwn'
    BY <2>1, <2>2, <2>3, <2>4, Zenon DEF KeyIsOwn
  <2>6. \A k : ~WaitedFor(k)
    BY <2>2 DEF WaitedFor
  <2>7. started \subseteq registered /\ \A k \in Key : st[k] \in {"none", "open"}
    BY <2>6 DEF OpenInv, OpensOnce
  <2>8. WaitedFor(KeyOf(c))'
    BY <2>1 DEF WaitedFor
  <2>9. started' = started /\ st' = [st EXCEPT ![KeyOf(c)] = "calling"]
    BY <1>3 DEF Start
  <2>10. \A k \in Key : st'[k] = IF k = KeyOf(c) THEN "calling" ELSE st[k]
    BY <1>0, <2>9
  <2>11. OpensOnce'
    BY <1>1, <1>3, <2>7, <2>8, <2>9, <2>10, Zenon DEF OpensOnce
  <2> QED
    BY <2>5, <2>11 DEF OpenInv
<1> QED
  BY <1>2, <1>3, Zenon DEF Register

LEMMA NextOpen == Uninterrupted /\ WorkInv /\ OpenInv /\ [Next]_vars => OpenInv'
<1> SUFFICES ASSUME Uninterrupted, WorkInv, OpenInv, [Next]_vars PROVE OpenInv'
  OBVIOUS
<1>0. /\ wk \in [Worker -> WorkerState] /\ started \subseteq Key
      /\ st \in [Key -> {"none", "calling", "hung", "open", "sleeping"}]
  BY DEF WorkInv, TypeOK
<1>1. ASSUME NEW p \in Worker, NEW s \in Subject, Begin(p, s) PROVE OpenInv'
  <2>1. \A q \in Worker : wk'[q] = wk[q] \/ (wk[q].pc # "waiting" /\ wk'[q].pc # "waiting")
    BY <1>0, <1>1, Zenon DEF Begin
  <2> QED
    BY <1>1, <2>1, QuietOpen, Zenon DEF Begin, watchVars
<1>2. ASSUME NEW p \in Worker, Lock(p) \/ Unlock(p) \/ Finish(p) PROVE OpenInv'
  <2>1. \A q \in Worker : wk'[q] = wk[q] \/ (wk[q].pc # "waiting" /\ wk'[q].pc # "waiting")
    BY <1>0, <1>2 DEF Lock, Unlock, Finish, Idle, WorkerState
  <2>2. UNCHANGED <<st, started, registered>>
    BY <1>2 DEF Lock, Unlock, Finish, watchVars
  <2> QED
    BY <2>1, <2>2, QuietOpen
<1>3. ASSUME NEW p \in Worker, NEW c \in Child, ApplyChild(p, c) PROVE OpenInv'
  <2>1. \A q \in Worker : wk'[q] = wk[q] \/ (wk[q].pc # "waiting" /\ wk'[q].pc # "waiting")
    BY <1>0, <1>3 DEF ApplyChild, Idle, WorkerState
  <2>2. UNCHANGED <<st, started, registered>>
    BY <1>3 DEF ApplyChild
  <2> QED
    BY <2>1, <2>2, QuietOpen
<1>4. ASSUME NEW p \in Worker, Registered(p) PROVE OpenInv'
  <2>1. /\ wk[p].pc = "waiting" /\ wk[p].key \in started /\ registered' = registered \cup {wk[p].key}
        /\ UNCHANGED <<st, started>>
    BY <1>4 DEF Registered, watchVars
  <2>2. wk'[p].pc = "adding" /\ \A q \in Worker \ {p} : wk'[q] = wk[q]
    BY <1>0, <1>4 DEF Registered, WorkerState
  <2>3. KeyIsOwn'
    BY <2>2 DEF OpenInv, KeyIsOwn
  <2>4. \A k : WaitedFor(k) => k = wk[p].key \/ WaitedFor(k)'
    BY <2>2 DEF WaitedFor
  <2>5. OpensOnce'
    BY <2>1, <2>4, Zenon DEF OpenInv, OpensOnce
  <2> QED
    BY <2>3, <2>5 DEF OpenInv
<1>5. ASSUME NEW k \in Key, Open(k) PROVE OpenInv'
  <2>1. /\ st[k] = "calling" /\ started' = started \cup {k} /\ UNCHANGED <<wk, registered>>
        /\ \A j \in Key : st'[j] = IF j = k THEN "open" ELSE st[j]
    BY <1>0, <1>5 DEF Open, ctrlVars
  <2>2. \A j : WaitedFor(j)' <=> WaitedFor(j)
    BY <2>1 DEF WaitedFor
  <2>3. KeyIsOwn'
    BY <2>1, ZenonT(60) DEF OpenInv, KeyIsOwn
  <2>4. OpensOnce'
    BY <1>0, <2>1, <2>2 DEF OpenInv, OpensOnce
  <2> QED
    BY <2>3, <2>4 DEF OpenInv
<1>6. ASSUME NEW k \in Key, Refuse(k) \/ Hang(k) \/ Tick(k) \/ Bookmark(k) \/ Receive(k) \/ Close(k) \/ Wake(k)
      PROVE  OpenInv'
  <2>1. st[k] \notin {"hung", "sleeping"}
    BY SMTT(60) DEF OpenInv, OpensOnce
  <2>2. UNCHANGED <<st, started, registered, wk>>
    BY <1>6, <2>1, ZenonT(60)
       DEF Refuse, Hang, Tick, Bookmark, Receive, Close, Wake, Mishap, Uninterrupted, ctrlVars
  <2> QED
    BY <2>2, QuietOpen
<1>7. ASSUME NEW c \in Child, Disturb(c) PROVE OpenInv'
  BY <1>7, QuietOpen, Zenon DEF Disturb, ctrlVars
<1>8. CASE UNCHANGED vars
  BY <1>8, QuietOpen, Zenon DEF vars, ctrlVars, watchVars
<1> QED
  BY <1>1, <1>2, <1>3, <1>4, <1>5, <1>6, <1>7, <1>8, RegisterOpen, ZenonT(60) DEF Next, WorkerStep

\* A step that deletes nothing and takes no event away.
LEMMA QuietDeletion ==
  ASSUME NoLostDeletion, UNCHANGED <<state, buf, st>>,
         \A c \in Child : state[c] = "absent" /\ Awaited(c) => Awaited(c)'
  PROVE  NoLostDeletion'
BY Zenon DEF NoLostDeletion, Matches

\* A write is sent to every open watch that selects the object.
LEMMA WriteDeletion ==
  ASSUME TypeOK, NoLostDeletion, NEW c \in Child, NEW s \in {"absent", "good", "bad"}, Write(c, s), st' = st,
         \A e \in Child \ {c} : Awaited(e) => Awaited(e)'
  PROVE  NoLostDeletion'
<1> DEFINE ev == Event(IF s = "absent" THEN "deleted" ELSE "changed", c, rv[c] + 1)
<1>1. state'[c] = s /\ \A e \in Child \ {c} : state'[e] = state[e]
  BY Zenon DEF Write, TypeOK
<1>2. ev \in EventType /\ ev.obj = c /\ (s = "absent" => ev.type = "deleted")
  BY DEF Event, EventType, TypeOK
<1>3. ASSUME NEW k \in Key
      PROVE  /\ buf[k] \in Seq(EventType)
             /\ buf'[k] = IF st[k] = "open" /\ Matches(k, c) THEN Append(buf[k], ev) ELSE buf[k]
  BY Zenon DEF Write, TypeOK
<1> HIDE DEF ev
<1>4. ASSUME NEW k \in Key
      PROVE  /\ Append(buf[k], ev)[Len(buf[k]) + 1] = ev /\ Len(buf[k]) + 1 \in 1..Len(Append(buf[k], ev))
             /\ \A i \in 1..Len(buf[k]) : i \in 1..Len(Append(buf[k], ev)) /\ Append(buf[k], ev)[i] = buf[k][i]
  BY <1>2, <1>3, <1>4, BufferFacts, Zenon
<1>5. ASSUME NEW k \in Key, NEW e \in Child, st[k] = "open", Matches(k, e), state'[e] = "absent", ~Awaited(e)'
      PROVE  \E i \in 1..Len(buf'[k]) : buf'[k][i].obj = e /\ buf'[k][i].type = "deleted"
  <2>1. CASE e = c
    <3>1. buf'[k] = Append(buf[k], ev) /\ ev.type = "deleted"
      BY <1>1, <1>2, <1>3, <1>5, <2>1, Zenon
    <3> QED
      BY <1>2, <1>4, <2>1, <3>1, Zenon
  <2>2. CASE e # c
    <3>1. PICK i \in 1..Len(buf[k]) : buf[k][i].obj = e /\ buf[k][i].type = "deleted"
      <4>1. e \in Child \ {c} /\ state[e] = "absent" /\ ~Awaited(e)
        BY <1>1, <1>5, <2>2, Zenon
      <4> QED
        BY <1>5, <4>1, ZenonT(60) DEF NoLostDeletion
    <3> QED
      BY <1>3, <1>4, <3>1, Zenon
  <2> QED
    BY <2>1, <2>2, Zenon
<1> QED
  BY <1>5, ZenonT(60) DEF NoLostDeletion, Matches

LEMMA ReceiveDeletion ==
  ASSUME Distinct, TypeOK, TargetOK, NoLostDeletion, NEW k \in Key, Receive(k)
  PROVE  NoLostDeletion'
<1> DEFINE e == Head(buf[k])
<1>1. /\ buf[k] \in Seq(EventType) /\ buf[k] # <<>> /\ e = buf[k][1]
      /\ \A i \in 1..Len(buf[k]) : i # 1 => i - 1 \in 1..Len(Tail(buf[k])) /\ Tail(buf[k])[i - 1] = buf[k][i]
  <2>1. buf[k] \in Seq(EventType) /\ buf[k] # <<>>
    BY Zenon DEF Receive, TypeOK
  <2> QED
    BY <2>1, BufferFacts, Zenon
<1>2. /\ buf'[k] = Tail(buf[k]) /\ (\A j \in Key \ {k} : buf'[j] = buf[j])
      /\ UNCHANGED <<state, st, wk>> /\ queue \subseteq queue'
      /\ e.type = "deleted" => target[k] \in queue'
  BY Zenon DEF Receive, TypeOK, clusterVars
<1> HIDE DEF e
<1>3. \A c \in Child : Awaited(c) => Awaited(c)'
  BY <1>2, Zenon DEF Awaited
<1>4. ASSUME NEW c \in Child, Matches(k, c)
      PROVE  target[k] = OwnerOf[c]
  BY <1>4, ZenonT(60) DEF Receive, TargetOK, Distinct
<1>5. ASSUME NEW j \in Key, NEW c \in Child, st[j] = "open", Matches(j, c), state[c] = "absent", ~Awaited(c)'
      PROVE  \E i \in 1..Len(buf'[j]) : buf'[j][i].obj = c /\ buf'[j][i].type = "deleted"
  <2>1. PICK i \in 1..Len(buf[j]) : buf[j][i].obj = c /\ buf[j][i].type = "deleted"
    BY <1>3, <1>5, Zenon DEF NoLostDeletion
  <2>2. CASE j # k
    BY <1>2, <2>1, <2>2, Zenon
  <2>3. CASE j = k /\ i # 1
    BY <1>1, <1>2, <2>1, <2>3, ZenonT(60)
  <2>4. CASE j = k /\ i = 1
    <3>1. OwnerOf[c] \in queue'
      BY <1>1, <1>2, <1>4, <1>5, <2>1, <2>4, Zenon
    <3> QED
      BY <1>5, <3>1, Zenon DEF Awaited
  <2> QED
    BY <2>2, <2>3, <2>4, Zenon
<1> QED
  BY <1>2, <1>5, ZenonT(60) DEF NoLostDeletion, Matches

\* The worker that waits for the watch will apply what is missing.
LEMMA OpenDeletion ==
  ASSUME Distinct, WorkInv, OpenInv, NoLostDeletion, NEW k \in Key, Open(k)
  PROVE  NoLostDeletion'
<1>1. /\ st[k] = "calling" /\ UNCHANGED <<state, queue, wk>>
      /\ \A j \in Key \ {k} : buf'[j] = buf[j] /\ st'[j] = st[j]
  BY Zenon DEF Open, WorkInv, TypeOK, clusterVars, ctrlVars
<1>2. PICK p \in Worker : wk[p].pc = "waiting" /\ wk[p].key = k
  BY <1>1, Zenon DEF OpenInv, OpensOnce, WaitedFor
<1>3. PICK c \in Child : k = KeyOf(c) /\ wk[p].subj = OwnerOf[c]
  BY <1>2, ZenonT(60) DEF OpenInv, KeyIsOwn
<1>4. \A e \in Child : Matches(k, e) => Awaited(e)
  BY <1>2, <1>3, Zenon DEF Distinct, Awaited
<1>5. \A e \in Child : Awaited(e)' <=> Awaited(e)
  BY <1>1 DEF Awaited
<1>6. ASSUME NEW j \in Key, NEW e \in Child, st'[j] = "open", Matches(j, e), state[e] = "absent", ~Awaited(e)'
      PROVE  \E i \in 1..Len(buf'[j]) : buf'[j][i].obj = e /\ buf'[j][i].type = "deleted"
  <2>1. j # k
    BY <1>4, <1>5, <1>6
  <2> QED
    <3>1. st[j] = "open" /\ buf'[j] = buf[j] /\ ~Awaited(e)
      BY <1>1, <1>5, <1>6, <2>1, Zenon
    <3>2. \E i \in 1..Len(buf[j]) : buf[j][i].obj = e /\ buf[j][i].type = "deleted"
      BY <1>6, <3>1, Zenon DEF NoLostDeletion
    <3> QED
      BY <3>1, <3>2, ZenonT(60)
<1> QED
  BY <1>1, <1>6, Zenon DEF NoLostDeletion, Matches

LEMMA NextDeletion ==
  Distinct /\ Uninterrupted /\ WorkInv /\ TargetOK /\ OpenInv /\ NoLostDeletion /\ [Next]_vars => NoLostDeletion'
<1> SUFFICES ASSUME Distinct, Uninterrupted, WorkInv, TypeOK, TargetOK, OpenInv, NoLostDeletion, [Next]_vars
             PROVE  NoLostDeletion'
  BY DEF WorkInv
<1>0. wk \in [Worker -> WorkerState]
  BY DEF TypeOK
<1>1. ASSUME NEW p \in Worker, NEW s \in Subject, Begin(p, s) PROVE NoLostDeletion'
  <2>1. UNCHANGED <<state, buf, st>> /\ queue' = queue \ {s}
    BY <1>1, ZenonT(60) DEF Begin, clusterVars, watchVars
  <2>2. /\ \A q \in Worker \ {p} : wk'[q] = wk[q]
        /\ wk'[p].subj = s /\ wk'[p].pc = "lock" /\ wk[p].subj = NoSubject
    BY <1>0, <1>1, Zenon DEF Begin, WorkInv, BusyOK
  <2>3. \A c \in Child : Awaited(c) => Awaited(c)'
    BY <2>1, <2>2, ChildWatchConstants, ZenonT(60) DEF Awaited
  <2> QED
    BY <2>1, <2>3, QuietDeletion, ZenonT(60)
<1>2. ASSUME NEW p \in Worker, Lock(p) \/ Registered(p) \/ Unlock(p) \/ Finish(p) PROVE NoLostDeletion'
  <2>1. UNCHANGED <<state, buf, st, queue>>
    BY <1>2 DEF Lock, Registered, Unlock, Finish, clusterVars, watchVars
  <2>2. \A q \in Worker \ {p} : wk'[q] = wk[q]
    BY <1>0, <1>2 DEF Lock, Registered, Unlock, Finish
  <2>3. \/ wk[p].pc = "apply" /\ wk[p].todo = {}
        \/ wk'[p].subj = wk[p].subj /\ wk'[p].pc # "apply"
        \/ wk'[p].subj = wk[p].subj /\ wk'[p].todo = ChildrenOf(wk[p].subj)
    BY <1>0, <1>2 DEF Lock, Registered, Unlock, Finish, WorkerState
  <2>4. \A c \in Child : Awaited(c) => Awaited(c)'
    BY <2>1, <2>2, <2>3, ZenonT(60) DEF Awaited, ChildrenOf
  <2> QED
    BY <2>1, <2>4, QuietDeletion, Zenon
<1>3. ASSUME NEW p \in Worker, NEW c \in Child, Register(p, c) PROVE NoLostDeletion'
  <2>1. UNCHANGED <<state, buf, queue>> /\ \A k \in Key : st'[k] = "open" => st[k] = "open"
    BY <1>3 DEF Register, Start, clusterVars, watchVars, TypeOK
  <2>2. /\ \A q \in Worker \ {p} : wk'[q] = wk[q]
        /\ wk'[p].subj = wk[p].subj /\ wk'[p].pc \in {"adding", "waiting"}
    BY <1>0, <1>3 DEF Register, WorkerState
  <2>3. \A e \in Child : Awaited(e) => Awaited(e)'
    BY <2>1, <2>2, Zenon DEF Awaited
  <2> QED
    BY <2>1, <2>3, ZenonT(60) DEF NoLostDeletion, Matches
<1>4. ASSUME NEW p \in Worker, NEW c \in Child, ApplyChild(p, c) PROVE NoLostDeletion'
  <2>1. wk[p].pc = "apply" /\ st' = st /\ queue \subseteq queue'
    BY <1>4 DEF ApplyChild
  <2>2. /\ \A q \in Worker \ {p} : wk'[q] = wk[q]
        /\ \/ wk'[p].subj = wk[p].subj /\ wk'[p].pc = "apply" /\ wk'[p].todo = wk[p].todo \ {c}
           \/ wk[p].subj \in queue'
    BY <1>0, <1>4, SMTT(60) DEF ApplyChild, WorkerState
  <2>3. \A e \in Child \ {c} : Awaited(e) => Awaited(e)'
    BY <2>1, <2>2, Zenon DEF Awaited
  <2>4. CASE Write(c, "good")
    BY <2>1, <2>3, <2>4, WriteDeletion, ZenonT(60)
  <2>5. CASE UNCHANGED <<clusterVars, buf>> /\ (state[c] = "good" \/ wk[p].subj \in queue')
    <3>1. state[c] = "absent" => (Awaited(c) => Awaited(c)')
      BY <2>1, <2>2, <2>5, ZenonT(60) DEF Awaited
    <3>2. \A e \in Child : state[e] = "absent" /\ Awaited(e) => Awaited(e)'
      BY <2>3, <3>1
    <3> QED
      BY <2>1, <2>5, <3>2, QuietDeletion, ZenonT(60) DEF clusterVars
  <2> QED
    BY <1>4, <2>4, <2>5 DEF ApplyChild
<1>5. ASSUME NEW k \in Key, Refuse(k) \/ Hang(k) \/ Tick(k) \/ Bookmark(k) \/ Close(k) \/ Wake(k)
      PROVE  NoLostDeletion'
  <2>1. st[k] \notin {"hung", "sleeping"}
    BY SMTT(60) DEF OpenInv, OpensOnce
  <2>2. UNCHANGED <<st, buf, state, queue, wk>>
    BY <1>5, <2>1, ZenonT(60)
       DEF Refuse, Hang, Tick, Bookmark, Close, Wake, Mishap, Uninterrupted, ctrlVars, clusterVars
  <2>3. \A c \in Child : Awaited(c) => Awaited(c)'
    BY <2>2, ZenonT(60) DEF Awaited
  <2> QED
    BY <2>2, <2>3, QuietDeletion, Zenon
<1>6. ASSUME NEW c \in Child, Disturb(c) PROVE NoLostDeletion'
  <2>1. PICK s \in {"absent", "bad"} : Write(c, s)
    BY <1>6, SMTT(60) DEF Disturb
  <2>2. st' = st /\ \A e \in Child : Awaited(e) => Awaited(e)'
    BY <1>6, Zenon DEF Disturb, Awaited, ctrlVars
  <2> QED
    BY <2>1, <2>2, WriteDeletion
<1>7. CASE UNCHANGED vars
  <2>1. UNCHANGED <<state, buf, st, queue, wk>>
    BY <1>7 DEF vars, clusterVars, ctrlVars, watchVars
  <2>2. \A c \in Child : Awaited(c) => Awaited(c)'
    BY <2>1 DEF Awaited
  <2> QED
    BY <2>1, <2>2, QuietDeletion, Zenon
<1> QED
  BY <1>1, <1>2, <1>3, <1>4, <1>5, <1>6, <1>7, OpenDeletion, ReceiveDeletion, ZenonT(60) DEF Next, WorkerStep

\* While the watches stay open, whatever else fails, a child that was deleted is
\* awaited by a reconcile, or every watch of it has the event.  MCChildWatchGap shows
\* that a watch must not be interrupted.
THEOREM NoDeletionIsOverlooked ==
  ASSUME Distinct, Uninterrupted
  PROVE  Spec => []NoLostDeletion
<1>1. Init => NoLostDeletion
  BY DEF Init, NoLostDeletion
<1>2. /\ WorkInv /\ OpenInv /\ [Next]_vars => OpenInv'
      /\ WorkInv /\ TargetOK /\ OpenInv /\ NoLostDeletion /\ [Next]_vars => NoLostDeletion'
  BY NextOpen, NextDeletion
<1> QED
  BY <1>1, <1>2, InitType, NextType, TargetStep, InitOpen, PTL DEF Spec

\* So a controller whose queue is empty, whose workers are idle and whose watches have
\* nothing to say has left every child as it applied it: what was modified or deleted
\* by others, at whatever moment of whichever reconcile, has been put right.
THEOREM RestIsAlwaysRight ==
  ASSUME Distinct, Uninterrupted
  PROVE  Spec => []RestIsRight
<1>1. WorkInv /\ NoLostWakeup /\ NoLostDeletion => RestIsRight
  <2> SUFFICES ASSUME WorkInv, NoLostWakeup, NoLostDeletion, AtRest, NEW c \in Child PROVE state[c] = "good"
    BY Zenon DEF RestIsRight
  <2> DEFINE k == KeyOf(c)
  <2>1. k \in Key /\ Matches(k, c)
    BY KeyOfIsKey, ZenonT(60) DEF KeyOf, Matches
  <2> HIDE DEF k
  <2>2. st[k] = "open" /\ buf[k] = <<>> /\ 1..Len(buf[k]) = {}
    BY <2>1 DEF AtRest
  <2>3. ~Awaited(c)
    <3>1. \A p \in Worker : wk[p].subj = NoSubject
      BY DEF AtRest, WorkInv, BusyOK
    <3>2. OwnerOf[c] # NoSubject /\ queue = {}
      BY ChildWatchConstants DEF AtRest
    <3> QED
      BY <3>1, <3>2, Zenon DEF Awaited
  <2>4. state[c] # "bad" /\ state[c] # "absent"
    BY <2>1, <2>2, <2>3, Zenon DEF NoLostWakeup, NoLostDeletion
  <2> QED
    BY <2>4 DEF WorkInv, TypeOK
<1>2. Spec => []NoLostWakeup /\ []NoLostDeletion
  BY NoChangeIsOverlooked, NoDeletionIsOverlooked
<1> QED
  BY <1>1, <1>2, InitType, NextType, TargetStep, PTL DEF Spec
=============================================================================
