-------------------------- MODULE RESTMapperProofs --------------------------
(***************************************************************************)
(* The cache of discovery, for any number of callers, groups, versions and *)
(* kinds: its mutexes exclude, it keeps what it knows, and it does not     *)
(* remember what a real server does not have.  Then the calls: what they   *)
(* answer is what the cache says, and the preferred version comes first.   *)
(***************************************************************************)
EXTENDS RESTMapper, FiniteSetTheorems, TLAPS

Answer == [ok: BOOLEAN, found: BOOLEAN, kinds: SUBSET Kind, versions: [Group -> SUBSET Version]]

\* a call is a record with at least these fields
IsCall(c) ==
  /\ "pc" \in DOMAIN c /\ "group" \in DOMAIN c /\ "todo" \in DOMAIN c /\ "answer" \in DOMAIN c
  /\ c = [f \in DOMAIN c |-> c[f]]
  /\ c.answer \in Answer

Shape ==
  /\ allGroups \in [known: BOOLEAN, versions: [Group -> SUBSET Version]]
  /\ resources \in [GroupVersion -> [known: BOOLEAN, kinds: SUBSET Kind]]
  /\ rmu \in [GroupVersion -> Worker \cup {Nobody}]
  /\ call = [w \in Worker |-> call[w]]
  /\ \A w \in Worker : IsCall(call[w])

GV(w) == <<call[w].group, Head(call[w].todo)>>

\* Whoever asks for the groups, or the resources of a group-version, holds the mutex
\* and found nothing; so does not overwrite what another caller has found since.
AskedIsUnknown ==
  \A w \in Worker :
    /\ call[w].pc = "askGroups" => ~allGroups.known
    /\ call[w].pc = "askResources" => \A gv \in GroupVersion : gv = GV(w) => ~resources[gv].known

\* What was found is not empty: a real server has no empty lists.
Honest(c) == c.answer.found => c.answer.kinds # {}
FoundIsServed == real => \A w \in Worker : Honest(call[w])

CacheInv == TypeOK /\ Shape /\ AskedIsUnknown /\ FoundIsServed /\ AbsentIsNotCached

LEMMA NoAnswerIsAnswer == NoAnswer \in Answer /\ NoAnswer.found = FALSE
BY DEF NoAnswer, Answer

LEMMA NoCallIsCall == IsCall(NoCall) /\ Honest(NoCall) /\ NoCall.pc = "idle"
<1> DEFINE g == CHOOSE g \in Group : TRUE
           k == CHOOSE k \in Kind : TRUE
<1>1. NoCall = [pc |-> "idle", op |-> "none", group |-> g, kind |-> k, version |-> 0,
                todo |-> <<>>, found |-> <<>>, answer |-> NoAnswer, held |-> {}]
  BY DEF NoCall
<1> HIDE DEF g, k
<1> QED
  BY <1>1, NoAnswerIsAnswer, Zenon DEF IsCall, Honest

LEMMA DoneIsCall ==
  ASSUME NEW p
  PROVE  IsCall(Done(p)) /\ Honest(Done(p)) /\ Done(p).pc = p
BY NoCallIsCall DEF Done, IsCall, Honest

LEMMA InitCache == Init => CacheInv
BY NoCallIsCall, MapperConstants
DEF Init, CacheInv, TypeOK, Shape, AskedIsUnknown, FoundIsServed, AbsentIsNotCached, NoGroups, Unknown

\* The call of w, and no other, becomes c.
Becomes(w, c) ==
  /\ call' = [v \in Worker |-> call'[v]]
  /\ call'[w] = c
  /\ \A v \in Worker : v # w => call'[v] = call[v]

LEMMA OneCall ==
  ASSUME CacheInv, NEW w \in Worker, NEW c, IsCall(c), real => Honest(c),
         call' = [call EXCEPT ![w] = c], real' = real
  PROVE  Becomes(w, c) /\ FoundIsServed' /\ \A v \in Worker : IsCall(call'[v])
BY DEF CacheInv, Shape, Becomes, FoundIsServed

LEMMA ServerAnswers ==
  ASSUME TypeOK
  PROVE  /\ ApiGroupList \in [Group -> SUBSET Version]
         /\ [NoAnswer EXCEPT !.ok = TRUE, !.versions = ApiGroupList] \in Answer
         /\ \A gv : ApiResourceList(gv) \in Answer /\ (real /\ ApiResourceList(gv).found => ApiResourceList(gv).kinds # {})
BY Zenon DEF ApiGroupList, ApiResourceList, Answer, NoAnswer

LEMMA NextCache == CacheInv /\ [Next]_vars => CacheInv'
<1> SUFFICES ASSUME CacheInv, [Next]_vars PROVE CacheInv'
  OBVIOUS
<1> USE MapperConstants
<1>1. CASE UpdateCRD
  BY <1>1 DEF UpdateCRD, CacheInv, TypeOK, Shape, AskedIsUnknown, FoundIsServed, AbsentIsNotCached, GV, GroupVersion
<1>2. CASE DeleteCRD
  <2>1. /\ call' = [w \in Worker |-> call'[w]]
        /\ \A w \in Worker : /\ IsCall(call'[w]) /\ call'[w].pc = call[w].pc /\ call'[w].answer = call[w].answer
                             /\ call'[w].group = call[w].group /\ call'[w].todo = call[w].todo
    BY <1>2, ZenonT(60) DEF DeleteCRD, CacheInv, Shape, IsCall
  <2>2. served' \subseteq served /\ changes' \in 0..MaxChanges
    BY <1>2 DEF DeleteCRD, CacheInv, TypeOK
  <2>3. UNCHANGED <<real, allGroups, resources, gmu, rmu>>
    BY <1>2 DEF DeleteCRD
  <2>4. TypeOK'
    BY <2>1, <2>2, <2>3 DEF CacheInv, TypeOK
  <2>5. Shape' /\ AskedIsUnknown' /\ FoundIsServed' /\ AbsentIsNotCached'
    BY <2>1, <2>3 DEF CacheInv, Shape, AskedIsUnknown, FoundIsServed, AbsentIsNotCached, GV, Honest
  <2> QED
    BY <2>4, <2>5 DEF CacheInv
<1>3. ASSUME NEW w \in Worker, Call(w) PROVE CacheInv'
  <2>0. real' = real
    BY <1>3, SMTT(30) DEF Call
  <2>1. PICK c : /\ call' = [call EXCEPT ![w] = c]
                 /\ IsCall(c) /\ (real => Honest(c)) /\ c.pc \in {"groups", "next"}
    <3>1. PICK op \in {"mapping", "kindFor"}, g \in Group, k \in Kind, v \in Version \cup {0} :
            call' = [call EXCEPT ![w] =
              [NoCall EXCEPT !.pc = IF v = 0 THEN "groups" ELSE "next", !.op = op, !.group = g, !.kind = k,
                             !.version = v, !.todo = IF v = 0 THEN <<>> ELSE <<v>>,
                             !.held = {u \in Version : <<g, u, k>> \in served}]]
      BY <1>3, ZenonT(30) DEF Call
    <3> DEFINE c == [NoCall EXCEPT !.pc = IF v = 0 THEN "groups" ELSE "next", !.op = op, !.group = g, !.kind = k,
                             !.version = v, !.todo = IF v = 0 THEN <<>> ELSE <<v>>,
                             !.held = {u \in Version : <<g, u, k>> \in served}]
    <3>2. IsCall(c) /\ (real => Honest(c)) /\ c.pc \in {"groups", "next"}
      BY NoCallIsCall, ZenonT(60) DEF IsCall, Honest
    <3> QED
      BY <3>1, <3>2, ZenonT(30)
  <2>2. Becomes(w, c) /\ FoundIsServed' /\ \A v \in Worker : IsCall(call'[v])
    BY <2>0, <2>1, OneCall, Zenon
  <2>3. call[w].pc \notin {"askGroups", "askResources"} /\ UNCHANGED <<real, served, allGroups, resources, gmu, rmu, changes>>
    BY <1>3 DEF Call
  <2>4. TypeOK'
    BY <2>1, <2>2, <2>3 DEF CacheInv, TypeOK, Becomes
  <2>5. Shape' /\ AskedIsUnknown' /\ FoundIsServed' /\ AbsentIsNotCached'
    BY <2>1, <2>2, <2>3 DEF Becomes, CacheInv, Shape, AskedIsUnknown, FoundIsServed, AbsentIsNotCached, GV
  <2> QED
    BY <2>4, <2>5 DEF CacheInv
<1>4. ASSUME NEW w \in Worker, FetchAllGroups(w) PROVE CacheInv'
  <2>0. real' = real
    BY <1>4 DEF FetchAllGroups
  <2> DEFINE c == call'[w]
  <2>1. CASE allGroups.known
    <3>1. IsCall(c) /\ (real => Honest(c)) /\ c.pc = "next" /\ call' = [call EXCEPT ![w] = c]
      <4>1. PICK t : call' = [call EXCEPT ![w].pc = "next", ![w].todo = t]
        BY <1>4, <2>1 DEF FetchAllGroups
      <4> QED
        BY <4>1, ZenonT(60) DEF CacheInv, Shape, IsCall, FoundIsServed, Honest
    <3>2. Becomes(w, c) /\ FoundIsServed' /\ \A v \in Worker : IsCall(call'[v])
      BY <2>0, <3>1, OneCall
    <3>3. call[w].pc = "groups" /\ UNCHANGED <<real, served, allGroups, resources, gmu, rmu, changes>>
      BY <1>4, <2>1 DEF FetchAllGroups
    <3> HIDE DEF c
    <3>4. TypeOK'
      BY <3>1, <3>2, <3>3 DEF CacheInv, TypeOK, Becomes
    <3>5. Shape' /\ AskedIsUnknown' /\ FoundIsServed' /\ AbsentIsNotCached'
      BY <3>1, <3>2, <3>3 DEF Becomes, CacheInv, Shape, AskedIsUnknown, FoundIsServed, AbsentIsNotCached, GV
    <3> QED
      BY <3>4, <3>5 DEF CacheInv
  <2>2. CASE ~allGroups.known
    <3>1. IsCall(c) /\ (real => Honest(c)) /\ c.pc = "askGroups" /\ call' = [call EXCEPT ![w] = c]
      <4>1. CASE call' = [call EXCEPT ![w].pc = "askGroups",
                                     ![w].answer = [NoAnswer EXCEPT !.ok = TRUE, !.versions = ApiGroupList]]
        <5> DEFINE a == [NoAnswer EXCEPT !.ok = TRUE, !.versions = ApiGroupList]
        <5>1. a \in Answer /\ a.found = FALSE
          BY ServerAnswers DEF CacheInv, NoAnswer
        <5> HIDE DEF a
        <5> QED
          BY <4>1, <5>1, ZenonT(60) DEF CacheInv, Shape, IsCall, Honest, a
      <4>2. CASE call' = [call EXCEPT ![w].pc = "askGroups"]
        BY <4>2 DEF CacheInv, Shape, IsCall, FoundIsServed, Honest
      <4> QED
        BY <1>4, <2>2, <4>1, <4>2 DEF FetchAllGroups
    <3>2. Becomes(w, c) /\ FoundIsServed' /\ \A v \in Worker : IsCall(call'[v])
      BY <2>0, <3>1, OneCall
    <3>3. call[w].pc = "groups" /\ gmu = Nobody /\ gmu' = w /\ UNCHANGED <<real, served, allGroups, resources, rmu, changes>>
      BY <1>4, <2>2 DEF FetchAllGroups
    <3> HIDE DEF c
    <3>4. TypeOK'
      BY <3>1, <3>2, <3>3 DEF CacheInv, TypeOK, Becomes
    <3>5. Shape' /\ AskedIsUnknown' /\ FoundIsServed' /\ AbsentIsNotCached'
      BY <2>2, <3>1, <3>2, <3>3 DEF Becomes, CacheInv, Shape, AskedIsUnknown, FoundIsServed, AbsentIsNotCached, GV
    <3> QED
      BY <3>4, <3>5 DEF CacheInv
  <2> QED
    BY <2>1, <2>2
<1>5. ASSUME NEW w \in Worker, ServerGroups(w) PROVE CacheInv'
  <2>0. real' = real
    BY <1>5 DEF ServerGroups
  <2> DEFINE c == call'[w]
  <2>1. IsCall(c) /\ (real => Honest(c)) /\ c.pc \in {"next", "error"} /\ call' = [call EXCEPT ![w] = c]
    <3>1. CASE call[w].answer.ok
      <4>1. PICK t : call' = [call EXCEPT ![w].pc = "next", ![w].answer = NoAnswer, ![w].todo = t]
        BY <1>5, <3>1 DEF ServerGroups
      <4> QED
        BY <4>1, NoAnswerIsAnswer, ZenonT(60) DEF CacheInv, Shape, IsCall, FoundIsServed, Honest
    <3>2. CASE ~call[w].answer.ok
      <4>1. call' = [call EXCEPT ![w] = Done("error")]
        BY <1>5, <3>2 DEF ServerGroups
      <4> QED
        BY <4>1, DoneIsCall DEF CacheInv, Shape
    <3> QED
      BY <3>1, <3>2
  <2>2. Becomes(w, c) /\ FoundIsServed' /\ \A v \in Worker : IsCall(call'[v])
    BY <2>0, <2>1, OneCall
  <2>3. call[w].pc = "askGroups" /\ gmu = w /\ gmu' = Nobody /\ UNCHANGED <<real, served, resources, rmu, changes>>
    BY <1>5 DEF ServerGroups, CacheInv, TypeOK
  <2>4. allGroups' \in [known: BOOLEAN, versions: [Group -> SUBSET Version]]
    <3>1. call[w].answer.versions \in [Group -> SUBSET Version]
      BY DEF CacheInv, Shape, IsCall, Answer
    <3>2. allGroups' = [known |-> TRUE, versions |-> call[w].answer.versions] \/ allGroups' = allGroups
      BY <1>5 DEF ServerGroups
    <3>3. [known |-> TRUE, versions |-> call[w].answer.versions] \in [known: BOOLEAN, versions: [Group -> SUBSET Version]]
      BY <3>1
    <3> QED
      BY <3>2, <3>3, Zenon DEF CacheInv, Shape
  <2>5. \A v \in Worker : call'[v].pc # "askGroups"
    BY <2>1, <2>2, <2>3 DEF Becomes, CacheInv, TypeOK
  <2> HIDE DEF c
  <2>6. TypeOK'
    BY <2>1, <2>2, <2>3, <2>4, <2>5, SMTT(30) DEF CacheInv, TypeOK, Becomes
  <2>7. Shape' /\ AskedIsUnknown' /\ FoundIsServed' /\ AbsentIsNotCached'
    BY <2>1, <2>2, <2>3, <2>4, <2>5 DEF Becomes, CacheInv, Shape, AskedIsUnknown, FoundIsServed, AbsentIsNotCached, GV
  <2> QED
    BY <2>6, <2>7 DEF CacheInv
<1>6. ASSUME NEW w \in Worker, FetchServerResources(w) PROVE CacheInv'
  <2>0. real' = real
    BY <1>6 DEF FetchServerResources
  <2> DEFINE c == call'[w]
             gv == GV(w)
  <2>1. CASE resources[gv].known
    <3>1. IsCall(c) /\ (real => Honest(c)) /\ c.pc = "next" /\ call' = [call EXCEPT ![w] = c]
      <4>1. PICK t, f : call' = [call EXCEPT ![w].pc = "next", ![w].answer = NoAnswer, ![w].todo = t, ![w].found = f]
        BY <1>6, <2>1, Zenon DEF FetchServerResources, Visit, GV
      <4> QED
        BY <4>1, NoAnswerIsAnswer, ZenonT(60) DEF CacheInv, Shape, IsCall, FoundIsServed, Honest
    <3>2. Becomes(w, c) /\ FoundIsServed' /\ \A v \in Worker : IsCall(call'[v])
      BY <2>0, <3>1, OneCall
    <3>3. call[w].pc = "next" /\ UNCHANGED <<real, served, allGroups, resources, gmu, rmu, changes>>
      BY <1>6, <2>1 DEF FetchServerResources, GV
    <3> HIDE DEF c
    <3>4. TypeOK'
      BY <3>1, <3>2, <3>3 DEF CacheInv, TypeOK, Becomes
    <3>5. Shape' /\ AskedIsUnknown' /\ FoundIsServed' /\ AbsentIsNotCached'
      BY <3>1, <3>2, <3>3 DEF Becomes, CacheInv, Shape, AskedIsUnknown, FoundIsServed, AbsentIsNotCached, GV
    <3> QED
      BY <3>4, <3>5 DEF CacheInv
  <2>2. CASE ~resources[gv].known
    <3>1. /\ IsCall(c) /\ (real => Honest(c)) /\ c.pc = "askResources" /\ call' = [call EXCEPT ![w] = c]
          /\ c.group = call[w].group /\ c.todo = call[w].todo
      <4>1. CASE call' = [call EXCEPT ![w].pc = "askResources", ![w].answer = ApiResourceList(gv)]
        <5> DEFINE a == ApiResourceList(gv)
        <5>1. a \in Answer /\ (real /\ a.found => a.kinds # {})
          BY ServerAnswers DEF CacheInv
        <5>2. call' = [call EXCEPT ![w].pc = "askResources", ![w].answer = a]
          BY <4>1
        <5> HIDE DEF a
        <5> QED
          BY <5>1, <5>2, ZenonT(60) DEF CacheInv, Shape, IsCall, Honest
      <4>2. CASE call' = [call EXCEPT ![w].pc = "askResources"]
        BY <4>2, SMTT(30) DEF CacheInv, Shape, IsCall, FoundIsServed, Honest
      <4> QED
        BY <1>6, <2>2, <4>1, <4>2, Zenon DEF FetchServerResources, GV
    <3>2. Becomes(w, c) /\ FoundIsServed' /\ \A v \in Worker : IsCall(call'[v])
      BY <2>0, <3>1, OneCall
    <3>3. /\ call[w].pc = "next" /\ rmu[gv] = Nobody /\ rmu' = [rmu EXCEPT ![gv] = w]
          /\ UNCHANGED <<real, served, allGroups, resources, gmu, changes>>
      BY <1>6, <2>2 DEF FetchServerResources, GV
    <3>4. gv = <<c.group, Head(c.todo)>>
      BY <3>1 DEF GV
    <3> HIDE DEF c, gv
    <3>5. TypeOK'
      <4>1. \A v \in Worker, u \in GroupVersion :
              rmu'[u] = v <=> call'[v].pc = "askResources" /\ u = <<call'[v].group, Head(call'[v].todo)>>
        <5>1. \A u \in GroupVersion : rmu'[u] = IF u = gv THEN w ELSE rmu[u]
          BY <3>3 DEF CacheInv, Shape
        <5>2. \A v \in Worker, u \in GroupVersion :
                rmu[u] = v <=> call[v].pc = "askResources" /\ u = <<call[v].group, Head(call[v].todo)>>
          BY DEF CacheInv, TypeOK
        <5>3. \A u \in GroupVersion : rmu'[u] = w <=> u = gv
          BY <3>3, <5>1, <5>2
        <5>4. \A v \in Worker \ {w}, u \in GroupVersion : rmu'[u] = v <=> rmu[u] = v
          BY <3>3, <5>1
        <5> QED
          BY <3>1, <3>2, <3>4, <5>2, <5>3, <5>4, SMTT(30) DEF Becomes
      <4>2. \A v \in Worker : gmu' = v <=> call'[v].pc = "askGroups"
        BY <3>1, <3>2, <3>3 DEF CacheInv, TypeOK, Becomes
      <4>3. \A v \in Worker : call'[v].pc \in {"idle", "groups", "askGroups", "next", "askResources",
                                            "match", "noMatch", "several", "error"}
        BY <3>1, <3>2, <3>3 DEF CacheInv, TypeOK, Becomes
      <4> QED
        BY <3>3, <4>1, <4>2, <4>3 DEF CacheInv, TypeOK
    <3>6. Shape' /\ FoundIsServed' /\ AbsentIsNotCached'
      BY <3>1, <3>2, <3>3, Zenon DEF Becomes, CacheInv, Shape, FoundIsServed, AbsentIsNotCached
    <3>7. AskedIsUnknown'
      BY <2>2, <3>1, <3>2, <3>3, <3>4 DEF Becomes, CacheInv, AskedIsUnknown, GV
    <3> QED
      BY <3>5, <3>6, <3>7 DEF CacheInv
  <2> QED
    BY <2>1, <2>2
<1>7. ASSUME NEW w \in Worker, ServerResources(w) PROVE CacheInv'
  <2>0. real' = real
    BY <1>7 DEF ServerResources
  <2> DEFINE c == call'[w]
             gv == GV(w)
             a == call[w].answer
  <2>1. IsCall(c) /\ (real => Honest(c)) /\ c.pc \in {"next", "error"} /\ call' = [call EXCEPT ![w] = c]
    <3>1. CASE call[w].answer.ok
      <4>1. PICK t, f : call' = [call EXCEPT ![w].pc = "next", ![w].answer = NoAnswer, ![w].todo = t, ![w].found = f]
        BY <1>7, <3>1, Zenon DEF ServerResources, Visit
      <4> QED
        BY <4>1, NoAnswerIsAnswer, ZenonT(60) DEF CacheInv, Shape, IsCall, FoundIsServed, Honest
    <3>2. CASE ~call[w].answer.ok
      <4>1. call' = [call EXCEPT ![w] = Done("error")]
        BY <1>7, <3>2 DEF ServerResources
      <4> QED
        BY <4>1, DoneIsCall DEF CacheInv, Shape
    <3> QED
      BY <3>1, <3>2
  <2>2. Becomes(w, c) /\ FoundIsServed' /\ \A v \in Worker : IsCall(call'[v])
    BY <2>0, <2>1, OneCall
  <2>3. /\ call[w].pc = "askResources" /\ rmu' = [rmu EXCEPT ![gv] = Nobody]
        /\ UNCHANGED <<real, served, allGroups, gmu, changes>>
    BY <1>7 DEF ServerResources, GV
  <2>4. /\ resources' \in [GroupVersion -> [known: BOOLEAN, kinds: SUBSET Kind]]
        /\ \A u \in GroupVersion : u # gv => resources'[u] = resources[u]
        /\ AbsentIsNotCached'
    <3>1. a.kinds \in SUBSET Kind /\ (real /\ a.found => a.kinds # {})
      BY DEF CacheInv, Shape, IsCall, Answer, FoundIsServed, Honest
    <3>2. resources' = resources \/ (a.found /\ resources' = [resources EXCEPT ![gv] = [known |-> TRUE, kinds |-> a.kinds]])
      BY <1>7 DEF ServerResources, GV
    <3>3. [known |-> TRUE, kinds |-> a.kinds] \in [known: BOOLEAN, kinds: SUBSET Kind]
      BY <3>1
    <3> HIDE DEF a, gv
    <3>4. \A u \in GroupVersion : \/ resources'[u] = resources[u]
                                  \/ u = gv /\ a.found /\ resources'[u] = [known |-> TRUE, kinds |-> a.kinds]
      BY <3>2, Zenon DEF CacheInv, Shape
    <3>5. resources' \in [GroupVersion -> [known: BOOLEAN, kinds: SUBSET Kind]]
      BY <3>2, <3>3, Zenon DEF CacheInv, Shape
    <3>6. AbsentIsNotCached'
      BY <2>3, <3>1, <3>4 DEF CacheInv, AbsentIsNotCached
    <3> QED
      BY <3>4, <3>5, <3>6
  <2> HIDE DEF c
  <2>5. TypeOK'
    <3>1. \A v \in Worker, u \in GroupVersion :
            rmu'[u] = v <=> call'[v].pc = "askResources" /\ u = <<call'[v].group, Head(call'[v].todo)>>
      BY <2>1, <2>2, <2>3 DEF CacheInv, TypeOK, Shape, Becomes, GV
    <3>2. \A v \in Worker : gmu' = v <=> call'[v].pc = "askGroups"
      BY <2>1, <2>2, <2>3 DEF CacheInv, TypeOK, Becomes
    <3>3. \A v \in Worker : call'[v].pc \in {"idle", "groups", "askGroups", "next", "askResources",
                                          "match", "noMatch", "several", "error"}
      BY <2>1, <2>2, <2>3 DEF CacheInv, TypeOK, Becomes
    <3>4. \A u \in GroupVersion : resources'[u].kinds \subseteq Kind
      BY <2>4
    <3> QED
      BY <2>3, <3>1, <3>2, <3>3, <3>4, SMTT(30) DEF CacheInv, TypeOK
  <2>6. Shape' /\ FoundIsServed'
    BY <2>1, <2>2, <2>3, <2>4, Zenon DEF Becomes, CacheInv, Shape, FoundIsServed
  <2>7. AskedIsUnknown'
    BY <2>1, <2>2, <2>3, <2>4 DEF Becomes, CacheInv, TypeOK, AskedIsUnknown, GV
  <2> QED
    BY <2>4, <2>5, <2>6, <2>7 DEF CacheInv
<1>8. ASSUME NEW w \in Worker, Return(w) PROVE CacheInv'
  <2>0. real' = real
    BY <1>8 DEF Return
  <2> DEFINE c == call'[w]
  <2>1. IsCall(c) /\ (real => Honest(c)) /\ c.pc \in {"noMatch", "several", "match"} /\ call' = [call EXCEPT ![w] = c]
    <3> DEFINE e == call[w]
    <3>1. /\ IsCall([e EXCEPT !.pc = "noMatch"]) /\ [e EXCEPT !.pc = "noMatch"].pc = "noMatch"
          /\ IsCall([e EXCEPT !.pc = "match"]) /\ [e EXCEPT !.pc = "match"].pc = "match"
      BY ZenonT(60) DEF CacheInv, Shape, IsCall
    <3>2. \/ call' = [call EXCEPT ![w] = [e EXCEPT !.pc = "noMatch"]]
          \/ call' = [call EXCEPT ![w] = Done("several")]
          \/ call' = [call EXCEPT ![w] = [e EXCEPT !.pc = "match"]]
      <4>1. CASE e.found = <<>>
        BY <1>8, <4>1 DEF Return
      <4>2. CASE e.found # <<>> /\ e.op = "kindFor" /\ Len(e.found) > 1
        BY <1>8, <4>2, Zenon DEF Return
      <4>3. CASE e.found # <<>> /\ ~(e.op = "kindFor" /\ Len(e.found) > 1)
        BY <1>8, <4>3, Zenon DEF Return
      <4> QED
        BY <4>1, <4>2, <4>3
    <3>3. real => Honest([e EXCEPT !.pc = "noMatch"]) /\ Honest([e EXCEPT !.pc = "match"])
      BY DEF CacheInv, Shape, IsCall, FoundIsServed, Honest
    <3>4. PICK d : IsCall(d) /\ (real => Honest(d)) /\ d.pc \in {"noMatch", "several", "match"} /\ call' = [call EXCEPT ![w] = d]
      <4> HIDE DEF e
      <4> QED
        BY <3>1, <3>2, <3>3, DoneIsCall, Zenon
    <3> QED
      BY <3>4 DEF CacheInv, Shape
  <2>2. Becomes(w, c) /\ FoundIsServed' /\ \A v \in Worker : IsCall(call'[v])
    BY <2>0, <2>1, OneCall
  <2>3. call[w].pc = "next" /\ UNCHANGED <<real, served, allGroups, resources, gmu, rmu, changes>>
    BY <1>8 DEF Return
  <2> HIDE DEF c
  <2>4. TypeOK'
    BY <2>1, <2>2, <2>3 DEF CacheInv, TypeOK, Becomes
  <2>5. Shape' /\ AskedIsUnknown' /\ FoundIsServed' /\ AbsentIsNotCached'
    BY <2>1, <2>2, <2>3 DEF Becomes, CacheInv, Shape, AskedIsUnknown, FoundIsServed, AbsentIsNotCached, GV
  <2> QED
    BY <2>4, <2>5 DEF CacheInv
<1>9. CASE UNCHANGED vars
  BY <1>9 DEF vars, CacheInv, TypeOK, Shape, AskedIsUnknown, FoundIsServed, AbsentIsNotCached, GV
<1> QED
  BY <1>1, <1>2, <1>3, <1>4, <1>5, <1>6, <1>7, <1>8, <1>9, SMTT(30) DEF Next

LEMMA CacheAlways == Spec => []CacheInv
BY InitCache, NextCache, PTL DEF Spec

\* For any number of callers: the cache's mutex and that of a group-version are held
\* exactly by the caller whose request is under way (fetchAllGroups and
\* fetchServerResources unlock on every path), and all state has its type.
THEOREM TypeCorrect == Spec => []TypeOK
<1>1. CacheInv => TypeOK
  BY DEF CacheInv
<1> QED
  BY <1>1, CacheAlways, PTL

\* fetchServerResources never remembers a real server's NotFound, whatever is
\* installed and deleted meanwhile.
THEOREM NotFoundIsNotCached == Spec => []AbsentIsNotCached
<1>1. CacheInv => AbsentIsNotCached
  BY DEF CacheInv
<1> QED
  BY <1>1, CacheAlways, PTL

LEMMA StepKeeps ==
  ASSUME CacheInv, [Next]_vars
  PROVE  /\ allGroups.known => allGroups' = allGroups
         /\ \A gv \in GroupVersion : resources[gv].known => resources'[gv] = resources[gv]
<1>1. ASSUME NEW w \in Worker, ServerGroups(w)
      PROVE  ~allGroups.known /\ UNCHANGED resources
  BY <1>1 DEF ServerGroups, CacheInv, AskedIsUnknown
<1>2. ASSUME NEW w \in Worker, ServerResources(w)
      PROVE  /\ UNCHANGED allGroups
             /\ \A gv \in GroupVersion : resources[gv].known => resources'[gv] = resources[gv]
  <2> DEFINE gw == GV(w)
  <2>1. \A gv \in GroupVersion : gv = gw => ~resources[gv].known
    BY <1>2 DEF ServerResources, CacheInv, AskedIsUnknown
  <2>2. resources' = resources \/ \E r : resources' = [resources EXCEPT ![gw] = r]
    BY <1>2 DEF ServerResources, GV
  <2>3. UNCHANGED allGroups
    BY <1>2, Zenon DEF ServerResources
  <2> HIDE DEF gw
  <2> QED
    BY <2>1, <2>2, <2>3 DEF CacheInv, Shape
<1>3. ASSUME NEW w \in Worker, Call(w) \/ FetchAllGroups(w) \/ FetchServerResources(w) \/ Return(w)
      PROVE  UNCHANGED <<allGroups, resources>>
  BY <1>3, Zenon DEF Call, FetchAllGroups, FetchServerResources, Return
<1>4. CASE UpdateCRD \/ DeleteCRD \/ UNCHANGED vars
  BY <1>4 DEF UpdateCRD, DeleteCRD, vars
<1> QED
  BY <1>1, <1>2, <1>3, <1>4 DEF Next

\* What the cache knows it keeps: a caller that found it empty never overwrites what
\* another has found since.  The groups and the resources are requested with the mutex
\* held, so the answer comes to a cache that is still empty.
THEOREM CacheKeeps == Spec => CacheIsForever
<1>1. CacheInv /\ [Next]_vars =>
        [/\ allGroups.known => allGroups' = allGroups
         /\ \A gv \in GroupVersion : resources[gv].known => resources'[gv] = resources[gv]]_vars
  BY StepKeeps
<1> QED
  BY <1>1, CacheAlways, PTL DEF Spec, CacheIsForever

(***************************************************************************)
(* The order of the versions.                                              *)
(***************************************************************************)
In(v, s)     == \E i \in 1..Len(s) : s[i] = v
Different(s) == \A i, j \in 1..Len(s) : s[i] = s[j] => i = j
Lists(s, V)  == s \in Seq(V) /\ Different(s) /\ \A v \in V : In(v, s)

\* The place of a version is the number of those up to it: no two have the same one.
LEMMA AscendingExists ==
  ASSUME NEW V \in SUBSET Version
  PROVE  /\ IsFiniteSet(V) /\ Cardinality(V) \in Nat
         /\ \E s \in Bijection(1..Cardinality(V), V) : \A i, j \in DOMAIN s : i < j => s[i] < s[j]
<1> DEFINE n    == Cardinality(V)
           D    == 1..n
           L(v) == {u \in V : u <= v}
           f    == [v \in V |-> Cardinality(L(v))]
<1>1. IsFiniteSet(V) /\ n \in Nat /\ V \subseteq Nat
  BY MapperConstants, FS_Subset, FS_CardinalityType, Zenon
<1>2. \A v \in V : IsFiniteSet(L(v)) /\ Cardinality(L(v)) \in Nat /\ Cardinality(L(v)) <= n
  <2> SUFFICES ASSUME NEW v \in V PROVE IsFiniteSet(L(v)) /\ Cardinality(L(v)) \in Nat /\ Cardinality(L(v)) <= n
    OBVIOUS
  <2>1. L(v) \in SUBSET V
    OBVIOUS
  <2> HIDE DEF L
  <2> QED
    BY <1>1, <2>1, FS_Subset, FS_CardinalityType
<1>3. ASSUME NEW v \in V PROVE f[v] \in D
  <2>1. v \in L(v)
    BY <1>1
  <2> DEFINE l == L(v)
  <2>2. l # {} /\ IsFiniteSet(l) /\ Cardinality(l) \in Nat /\ Cardinality(l) <= n
    BY <1>2, <2>1
  <2>3. f[v] = Cardinality(l)
    OBVIOUS
  <2> HIDE DEF l, f, L
  <2>4. Cardinality(l) # 0
    BY <2>2, FS_EmptySet
  <2> QED
    BY <1>1, <2>2, <2>3, <2>4
<1>4. ASSUME NEW v \in V, NEW u \in V, v < u PROVE f[v] < f[u]
  <2> DEFINE a == L(v)
             b == L(u)
  <2>1. a \in SUBSET b /\ a # b /\ f[v] = Cardinality(a) /\ f[u] = Cardinality(b)
    <3>1. u \in b /\ u \notin a
      BY <1>1, <1>4
    <3>2. \A x \in a : x \in b
      BY <1>1, <1>4
    <3> QED
      BY <3>1, <3>2
  <2>2. IsFiniteSet(b) /\ Cardinality(a) \in Nat /\ Cardinality(b) \in Nat
    BY <1>2
  <2> HIDE DEF a, b, f, L
  <2>3. Cardinality(a) <= Cardinality(b) /\ Cardinality(b) # Cardinality(a)
    BY <2>1, <2>2, FS_Subset
  <2> QED
    BY <2>1, <2>2, <2>3
<1> HIDE DEF L
<1>5. f \in [V -> D]
  BY <1>3
<1>6. \A v, u \in V : v < u => f[v] < f[u]
  BY <1>4
<1>7. IsFiniteSet(D) /\ Cardinality(D) = n
  BY <1>1, FS_Interval
<1> HIDE DEF D, f
<1>8. \A v \in V : f[v] \in Nat
  BY <1>1, <1>5 DEF D
<1>9. \A v, u \in V : f[v] = f[u] => v = u
  BY <1>1, <1>6, <1>8
<1>10. f \in Injection(V, D)
  BY <1>5, <1>9 DEF Injection, IsInjective
<1>11. f \in Surjection(V, D)
  BY <1>7, <1>10, FS_Injection
<1>12. \A i \in D : \E v \in V : f[v] = i
  BY <1>11 DEF Surjection
<1> DEFINE s == [i \in D |-> CHOOSE v \in V : f[v] = i]
<1>13. \A i \in D : s[i] \in V /\ f[s[i]] = i
  BY <1>12
<1>14. s \in [D -> V]
  BY <1>13
<1> HIDE DEF s
<1>15. \A v \in V : f[v] \in D /\ s[f[v]] = v
  BY <1>5, <1>9, <1>13
<1>16. s \in Bijection(D, V)
  BY <1>13, <1>14, <1>15 DEF Bijection, Injection, Surjection, IsInjective
<1>17. \A i, j \in D : i < j => s[i] < s[j]
  <2> SUFFICES ASSUME NEW i \in D, NEW j \in D, i < j PROVE s[i] < s[j]
    OBVIOUS
  <2>0. s[i] \in V /\ s[j] \in V
    BY <1>13
  <2>1. s[i] \in Nat /\ s[j] \in Nat /\ i \in Nat /\ j \in Nat
    <3>1. s[i] \in Nat /\ s[j] \in Nat
      BY <1>1, <2>0, Zenon
    <3>2. i \in Nat /\ j \in Nat
      BY <1>1 DEF D
    <3> QED
      BY <3>1, <3>2
  <2>2. f[s[i]] = i /\ f[s[j]] = j
    BY <1>13
  <2>3. ~ (s[j] < s[i]) /\ s[j] # s[i]
    BY <1>6, <2>0, <2>1, <2>2
  <2> QED
    BY <2>1, <2>3
<1>18. DOMAIN s = D
  BY <1>14
<1> QED
  BY <1>1, <1>16, <1>17, <1>18 DEF D

LEMMA AscendingLists ==
  ASSUME NEW V \in SUBSET Version
  PROVE  /\ Lists(Ascending(V), V)
         /\ \A i, j \in 1..Len(Ascending(V)) : i < j => Ascending(V)[i] < Ascending(V)[j]
<1> DEFINE n == Cardinality(V)
           s == Ascending(V)
<1>1. /\ s \in Bijection(1..n, V) /\ n \in Nat
      /\ \A i, j \in DOMAIN s : i < j => s[i] < s[j]
  BY AscendingExists, Zenon DEF Ascending
<1> HIDE DEF s, n
<1>2. /\ s \in [1..n -> V] /\ (\A i, j \in 1..n : s[i] = s[j] => i = j)
      /\ \A v \in V : \E i \in 1..n : s[i] = v
  BY <1>1 DEF Bijection, Injection, Surjection, IsInjective
<1>3. s \in Seq(V) /\ Len(s) = n /\ DOMAIN s = 1..n
  BY <1>1, <1>2
<1>4. Lists(s, V) /\ \A i, j \in 1..Len(s) : i < j => s[i] < s[j]
  BY <1>1, <1>2, <1>3 DEF Lists, Different, In
<1> QED
  BY <1>4 DEF s

\* The preferred version is the last of them.
LEMMA PreferredIsOne ==
  ASSUME NEW V \in SUBSET Version, V # {}
  PROVE  PreferredVersion(V) \in V
<1> DEFINE s == Ascending(V)
<1>1. Lists(s, V) /\ \A i, j \in 1..Len(s) : i < j => s[i] < s[j]
  BY AscendingLists
<1> HIDE DEF s
<1>2. s \in Seq(V) /\ V \subseteq Nat
  BY <1>1, MapperConstants DEF Lists
<1>3. PICK v \in V : TRUE
  OBVIOUS
<1>4. PICK i \in 1..Len(s) : s[i] = v
  BY <1>1 DEF Lists, In
<1> DEFINE n == Len(s)
<1>5. n \in 1..Len(s) /\ s[n] \in V
  BY <1>2, <1>4
<1>6. ASSUME NEW u \in V PROVE u <= s[n]
  <2>1. PICK j \in 1..Len(s) : s[j] = u
    BY <1>1 DEF Lists, In
  <2>2. CASE j = n
    BY <1>2, <1>5, <2>1, <2>2
  <2>3. CASE j < n
    <3>1. s[j] < s[n]
      BY <1>1, <1>5, <2>3
    <3>2. u \in Nat /\ s[n] \in Nat
      BY <1>2, <1>5, Zenon
    <3> HIDE DEF n
    <3> QED
      BY <2>1, <3>1, <3>2
  <2> QED
    BY <1>2, <2>1, <2>2, <2>3
<1>7. \E x \in V : \A u \in V : u <= x
  BY <1>5, <1>6
<1> QED
  BY <1>7 DEF PreferredVersion

\* A call looks at every version of the group, at none twice, and RESTMappings at
\* the preferred one first.
LEMMA PlanLists ==
  ASSUME NEW V \in SUBSET Version, NEW op
  PROVE  /\ Lists(Plan(op, V), V)
         /\ op # "kindFor" => \A i \in 1..Len(Plan(op, V)) : Plan(op, V)[i] = PreferredVersion(V) => i = 1
<1>1. CASE V = {}
  <2> DEFINE s == Ascending(V)
  <2>1. Lists(s, V) /\ Plan(op, V) = s
    BY <1>1, AscendingLists DEF Plan
  <2> HIDE DEF s
  <2>2. s \in Seq({})
    BY <1>1, <2>1 DEF Lists
  <2>3. Len(s) = 0
    BY <2>2
  <2> QED
    BY <2>1, <2>3
<1>2. CASE op = "kindFor"
  BY <1>2, AscendingLists DEF Plan
<1>3. CASE V # {} /\ op # "kindFor"
  <2> DEFINE p == PreferredVersion(V)
             U == V \ {p}
             t == Ascending(U)
             s == <<p>> \o t
  <2>1. p \in V /\ U \in SUBSET Version /\ U \subseteq V /\ p \notin U
    BY <1>3, PreferredIsOne
  <2>2. \A v \in V : v = p \/ v \in U
    OBVIOUS
  <2>3. Plan(op, V) = s
    BY <1>3 DEF Plan
  <2> HIDE DEF U, p
  <2>4. Lists(t, U)
    BY <2>1, AscendingLists
  <2> HIDE DEF t
  <2>5. t \in Seq(U) /\ t \in Seq(V)
    BY <2>1, <2>4 DEF Lists
  <2>6. /\ s \in Seq(V) /\ Len(s) = Len(t) + 1 /\ Len(t) \in Nat /\ s[1] = p
        /\ \A i \in 1..Len(t) : s[i + 1] = t[i]
    BY <2>1, <2>5
  <2> HIDE DEF s
  <2>7. ASSUME NEW i \in 1..Len(s), i # 1
        PROVE  i - 1 \in 1..Len(t) /\ s[i] = t[i - 1] /\ s[i] \in U
    <3>1. i - 1 \in 1..Len(t) /\ i = (i - 1) + 1
      BY <2>6, <2>7
    <3>2. s[i] = t[i - 1]
      BY <2>6, <3>1
    <3> QED
      BY <2>5, <3>1, <3>2
  <2>8. \A i \in 1..Len(s) : s[i] = p => i = 1
    BY <2>1, <2>7
  <2>9. Different(s)
    <3> SUFFICES ASSUME NEW i \in 1..Len(s), NEW j \in 1..Len(s), s[i] = s[j] PROVE i = j
      BY DEF Different
    <3>1. CASE i = 1 \/ j = 1
      BY <2>6, <2>8, <3>1
    <3>2. CASE i # 1 /\ j # 1
      <4>1. i - 1 \in 1..Len(t) /\ j - 1 \in 1..Len(t) /\ t[i - 1] = t[j - 1]
        BY <2>7, <3>2
      <4>2. i - 1 = j - 1
        BY <2>4, <4>1 DEF Lists, Different
      <4> QED
        BY <2>6, <4>2
    <3> QED
      BY <3>1, <3>2
  <2>10. ASSUME NEW v \in V PROVE In(v, s)
    <3>1. CASE v = p
      <4>1. 1 \in 1..Len(s)
        BY <2>6
      <4> QED
        BY <2>6, <3>1, <4>1 DEF In
    <3>2. CASE v \in U
      <4>1. PICK i \in 1..Len(t) : t[i] = v
        BY <2>4, <3>2 DEF Lists, In
      <4>2. i + 1 \in 1..Len(s) /\ s[i + 1] = v
        BY <2>6, <4>1
      <4> QED
        BY <4>2 DEF In
    <3> QED
      BY <2>2, <3>1, <3>2
  <2> QED
    BY <2>3, <2>6, <2>8, <2>9, <2>10 DEF Lists, p
<1> QED
  BY <1>1, <1>2, <1>3

(***************************************************************************)
(* The calls.                                                              *)
(***************************************************************************)
CallPc == {"idle", "groups", "askGroups", "next", "askResources", "match", "noMatch", "several", "error"}
CallType == [pc: CallPc, op: {"none", "mapping", "kindFor"}, group: Group, kind: Kind, version: Version \cup {0},
             todo: Seq(Version), found: Seq(Version), answer: Answer, held: SUBSET Version]
GroupsType    == [known: BOOLEAN, versions: [Group -> SUBSET Version]]
ResourcesType == [GroupVersion -> [known: BOOLEAN, kinds: SUBSET Kind]]

\* the cached resources of the version lack the kind of the call
Lacks(c, v, res) == res[<<c.group, v>>].known /\ c.kind \notin res[<<c.group, v>>].kinds

Has(c, v, res) == res[<<c.group, v>>].known /\ c.kind \in res[<<c.group, v>>].kinds
FoundIsCached(c, res) == \A v \in Version : In(v, c.found) => Has(c, v, res)

\* A version is to be looked at, or found, or missing from the cache.
Accounted(c, v, groups, res) ==
  \/ In(v, c.todo) \/ In(v, c.found)
  \/ c.version = 0 /\ v \notin groups.versions[c.group]
  \/ Lacks(c, v, res)

\* A call without a version uses the cached groups, and a version that is served all
\* through a call is accounted for.
Looking(c, groups, res) ==
  /\ c.pc \in {"groups", "askGroups"} => c.version = 0 /\ c.found = <<>>
  /\ c.pc \in {"groups", "next"} => ~c.answer.ok
  /\ c.pc \in {"next", "askResources", "noMatch", "match"} /\ c.version = 0 => groups.known
  /\ c.pc \in {"next", "askResources", "noMatch", "match"} =>
       \A v \in c.held : c.version \in {0, v} => Accounted(c, v, groups, res)
  /\ c.pc \in {"noMatch", "match"} => c.todo = <<>>
  /\ c.pc = "askResources" =>
       /\ c.todo # <<>>
       /\ c.answer.ok /\ Head(c.todo) \in c.held => c.kind \in c.answer.kinds
       /\ c.answer.ok /\ c.kind \in c.answer.kinds => c.answer.found

\* No version comes twice, and the preferred one is looked at first.
InTurn(p, todo, found) ==
  /\ Different(todo) /\ Different(found)
  /\ \A i \in 1..Len(todo), j \in 1..Len(found) : todo[i] # found[j]
  /\ \A i \in 1..Len(todo) : todo[i] = p => i = 1 /\ found = <<>>
  /\ \A i \in 1..Len(found) : found[i] = p => i = 1

Ordered(c, groups) ==
  c.op = "mapping" /\ c.version = 0 /\ c.pc \in {"next", "askResources", "match"} =>
    InTurn(PreferredVersion(groups.versions[c.group]), c.todo, c.found)

HeldIsServed(c, types) == \A v \in c.held : <<c.group, v, c.kind>> \in types

GoodCall(c, types, groups, res) ==
  HeldIsServed(c, types) /\ Looking(c, groups, res) /\ Ordered(c, groups) /\ FoundIsCached(c, res)

CallsInv == call \in [Worker -> CallType] /\ \A w \in Worker : GoodCall(call[w], served, allGroups, resources)

\* what the cache knows it keeps
Keeps(groups, res, groups2, res2) ==
  /\ groups.known => groups2 = groups
  /\ \A gv \in GroupVersion : res[gv].known => res2[gv] = res[gv]

\* A cache that only grows does not disturb a call.
LEMMA GoodGrows ==
  ASSUME NEW c \in CallType, NEW types, NEW types2, NEW groups, NEW groups2, NEW res, NEW res2,
         GoodCall(c, types, groups, res), types \subseteq types2, Keeps(groups, res, groups2, res2)
  PROVE  GoodCall(c, types2, groups2, res2)
<1>0. c.group \in Group /\ c.held \subseteq Version
  BY DEF CallType
<1>1. HeldIsServed(c, types2)
  BY DEF GoodCall, HeldIsServed
<1>2. ASSUME c.version = 0, c.pc \in {"next", "askResources", "noMatch", "match"}
      PROVE  groups.known /\ groups2 = groups
  BY <1>2, Zenon DEF GoodCall, Looking, Keeps
<1>3. ASSUME c.pc \in {"next", "askResources", "noMatch", "match"}, NEW v \in c.held, Accounted(c, v, groups, res)
      PROVE  Accounted(c, v, groups2, res2)
  <2>1. <<c.group, v>> \in GroupVersion
    BY <1>0 DEF GroupVersion
  <2>2. Lacks(c, v, res) => Lacks(c, v, res2)
    BY <2>1 DEF Lacks, Keeps
  <2>3. c.version = 0 => groups2 = groups
    BY <1>2, <1>3
  <2> QED
    BY <1>3, <2>2, <2>3, Zenon DEF Accounted
<1>4. Looking(c, groups2, res2)
  BY <1>2, <1>3, Zenon DEF GoodCall, Looking
<1>5. Ordered(c, groups2)
  BY <1>2, Zenon DEF GoodCall, Ordered
<1>6. FoundIsCached(c, res2)
  <2> SUFFICES ASSUME NEW v \in Version, In(v, c.found) PROVE Has(c, v, res2)
    BY DEF FoundIsCached
  <2>1. Has(c, v, res) /\ <<c.group, v>> \in GroupVersion
    BY <1>0 DEF GoodCall, FoundIsCached, GroupVersion
  <2> QED
    BY <2>1 DEF Has, Keeps
<1> QED
  BY <1>1, <1>4, <1>5, <1>6 DEF GoodCall

\* A type that is deleted was not served all through the call.
LEMMA GoodDrops ==
  ASSUME NEW c \in CallType, NEW types, NEW types2, NEW groups, NEW res, GoodCall(c, types, groups, res), NEW d,
         d = [c EXCEPT !.held = {v \in @ : <<c.group, v, c.kind>> \in types2}]
  PROVE  d \in CallType /\ GoodCall(d, types2, groups, res)
<1>1. /\ d.pc = c.pc /\ d.op = c.op /\ d.group = c.group /\ d.kind = c.kind /\ d.version = c.version
      /\ d.todo = c.todo /\ d.found = c.found /\ d.answer = c.answer
      /\ d.held = {v \in c.held : <<c.group, v, c.kind>> \in types2}
  BY Zenon DEF CallType
<1>2. d.held \subseteq c.held /\ HeldIsServed(d, types2)
  BY <1>1 DEF HeldIsServed
<1>3. {v \in c.held : <<c.group, v, c.kind>> \in types2} \in SUBSET Version
  BY DEF CallType
<1>4. d \in CallType
  BY <1>3, Zenon DEF CallType
<1>5. \A v : Accounted(c, v, groups, res) => Accounted(d, v, groups, res)
  BY <1>1 DEF Accounted, Lacks
<1>6. Looking(d, groups, res)
  BY <1>1, <1>2, <1>5, Zenon DEF GoodCall, Looking
<1>7. Ordered(d, groups)
  BY <1>1 DEF GoodCall, Ordered
<1>8. FoundIsCached(d, res)
  BY <1>1 DEF GoodCall, FoundIsCached, Has
<1> QED
  BY <1>2, <1>4, <1>6, <1>7, <1>8 DEF GoodCall

\* A call that has found nothing yet has found nothing wrong.
LEMMA NothingFound ==
  ASSUME NEW c, c.found = <<>>, NEW res
  PROVE  FoundIsCached(c, res)
BY DEF FoundIsCached, In

LEMMA NoCallType == NoCall \in CallType /\ NoCall.held = {} /\ NoCall.pc = "idle" /\ NoCall.answer = NoAnswer
<1> DEFINE g == CHOOSE g \in Group : TRUE
           k == CHOOSE k \in Kind : TRUE
<1>1. g \in Group /\ k \in Kind
  BY MapperConstants
<1>2. NoCall = [pc |-> "idle", op |-> "none", group |-> g, kind |-> k, version |-> 0,
                todo |-> <<>>, found |-> <<>>, answer |-> NoAnswer, held |-> {}]
  BY DEF NoCall
<1> HIDE DEF g, k
<1>3. <<>> \in Seq(Version) /\ 0 \in Version \cup {0} /\ {} \in SUBSET Version
  OBVIOUS
<1> QED
  BY <1>1, <1>2, <1>3, NoAnswerIsAnswer, Zenon DEF CallType, CallPc

LEMMA DoneIsGood ==
  ASSUME NEW p \in {"idle", "several", "error"}, NEW types, NEW groups, NEW res
  PROVE  Done(p) \in CallType /\ GoodCall(Done(p), types, groups, res)
<1>1. Done(p) \in CallType /\ Done(p).pc = p /\ Done(p).held = {}
  BY NoCallType, Zenon DEF Done, CallType, CallPc
<1>2. HeldIsServed(Done(p), types)
  BY <1>1 DEF HeldIsServed
<1>3. Looking(Done(p), groups, res) /\ Ordered(Done(p), groups)
  BY <1>1, Zenon DEF Looking, Ordered
<1>4. Done(p).found = <<>>
  BY DEF Done, NoCall
<1> QED
  BY <1>1, <1>2, <1>3, <1>4, NothingFound DEF GoodCall

NewCall(op, g, k, v, types) ==
  [NoCall EXCEPT !.pc = IF v = 0 THEN "groups" ELSE "next", !.op = op, !.group = g, !.kind = k,
                 !.version = v, !.todo = IF v = 0 THEN <<>> ELSE <<v>>,
                 !.held = {u \in Version : <<g, u, k>> \in types}]

\* A call begins: with a version, it looks at that one.
LEMMA CallIsGood ==
  ASSUME NEW op \in {"mapping", "kindFor"}, NEW g \in Group, NEW k \in Kind, NEW v \in Version \cup {0},
         NEW types, NEW groups, NEW res, NEW d, d = NewCall(op, g, k, v, types)
  PROVE  d \in CallType /\ GoodCall(d, types, groups, res)
<1> DEFINE pc   == IF v = 0 THEN "groups" ELSE "next"
           todo == IF v = 0 THEN <<>> ELSE <<v>>
           held == {u \in Version : <<g, u, k>> \in types}
<1>1. pc \in CallPc /\ todo \in Seq(Version) /\ held \in SUBSET Version
  <2>1. pc \in CallPc
    BY DEF CallPc
  <2>2. todo \in Seq(Version)
    OBVIOUS
  <2> QED
    BY <2>1, <2>2
<1>2. d = [NoCall EXCEPT !.pc = pc, !.op = op, !.group = g, !.kind = k, !.version = v, !.todo = todo, !.held = held]
  BY DEF NewCall
<1> HIDE DEF pc, todo, held
<1>3. /\ d.pc = pc /\ d.op = op /\ d.group = g /\ d.kind = k /\ d.version = v /\ d.todo = todo
      /\ d.held = held /\ d.found = NoCall.found /\ d.answer = NoCall.answer /\ d \in CallType
  BY <1>1, <1>2, NoCallType, ZenonT(60) DEF CallType
<1>4. d.found = <<>> /\ ~d.answer.ok
  BY <1>3 DEF NoCall, NoAnswer
<1>5. HeldIsServed(d, types)
  BY <1>3 DEF HeldIsServed, held
<1>6. CASE v = 0
  <2>1. d.pc = "groups"
    BY <1>3, <1>6 DEF pc
  <2> QED
    BY <1>3, <1>4, <1>5, <1>6, <2>1, NothingFound, Zenon DEF GoodCall, Looking, Ordered
<1>7. CASE v # 0
  <2>1. d.pc = "next" /\ d.todo = <<v>>
    BY <1>3, <1>7 DEF pc, todo
  <2>2. In(v, d.todo)
    <3>1. 1 \in 1..Len(<<v>>) /\ <<v>>[1] = v
      OBVIOUS
    <3> QED
      BY <2>1, <3>1 DEF In
  <2>3. \A u \in d.held : d.version \in {0, u} => Accounted(d, u, groups, res)
    BY <1>3, <1>7, <2>2, Zenon DEF Accounted
  <2>4. Looking(d, groups, res) /\ Ordered(d, groups)
    BY <1>3, <1>4, <1>7, <2>1, <2>3, Zenon DEF Looking, Ordered
  <2> QED
    BY <1>3, <1>4, <1>5, <2>4, NothingFound, Zenon DEF GoodCall
<1> QED
  BY <1>3, <1>6, <1>7

\* What a step makes of a call that goes on: the same question.
SameQuestion(d, c) ==
  d.op = c.op /\ d.group = c.group /\ d.kind = c.kind /\ d.version = c.version /\ d.held = c.held

\* The groups are known: the call plans what to look at.
LEMMA PlannedIsGood ==
  ASSUME NEW c \in CallType, NEW types, NEW res, HeldIsServed(c, types), c.version = 0, c.found = <<>>,
         NEW groups2 \in GroupsType, groups2.known, NEW d \in CallType, SameQuestion(d, c), d.pc = "next", ~d.answer.ok,
         d.found = c.found, d.todo = Plan(c.op, groups2.versions[c.group])
  PROVE  GoodCall(d, types, groups2, res)
<1> DEFINE V == groups2.versions[c.group]
<1>1. c.group \in Group /\ V \in SUBSET Version
  BY DEF CallType, GroupsType
<1>2. d.group = c.group /\ d.kind = c.kind /\ d.version = 0 /\ d.held = c.held /\ d.op = c.op /\ d.found = <<>>
  BY DEF SameQuestion
<1>3. HeldIsServed(d, types)
  BY <1>2 DEF HeldIsServed
<1>4. d.todo = Plan(c.op, V) /\ V = groups2.versions[d.group]
  BY <1>2
<1> HIDE DEF V
<1>5. Lists(d.todo, V)
  BY <1>1, <1>4, PlanLists, Zenon
<1>6. \A v : Accounted(d, v, groups2, res)
  BY <1>2, <1>4, <1>5, Zenon DEF Accounted, Lists
<1>7. Looking(d, groups2, res)
  BY <1>6, Zenon DEF Looking
<1>8. ASSUME d.op = "mapping" PROVE InTurn(PreferredVersion(V), d.todo, d.found)
  <2>1. \A i \in 1..Len(d.todo) : d.todo[i] = PreferredVersion(V) => i = 1
    BY <1>1, <1>2, <1>4, <1>8, PlanLists, ZenonT(60)
  <2>2. Different(d.todo) /\ Different(d.found) /\ \A i \in 1..Len(d.found) : FALSE
    BY <1>2, <1>5 DEF Lists, Different
  <2> QED
    BY <1>2, <2>1, <2>2, Zenon DEF InTurn
<1>9. Ordered(d, groups2)
  BY <1>4, <1>8, Zenon DEF Ordered
<1> QED
  BY <1>2, <1>3, <1>7, <1>9, NothingFound, ZenonT(60) DEF GoodCall

Visited(c, kinds) ==
  [c EXCEPT !.pc = "next", !.answer = NoAnswer, !.todo = Tail(@),
            !.found = IF c.kind \in kinds THEN Append(@, Head(c.todo)) ELSE @]

\* A version has been looked at.  Where it has the kind, the cache says so, and also
\* where it lacks the kind although it has had it all through the call.
LEMMA VisitedIsGood ==
  ASSUME NEW c \in CallType, NEW types, NEW groups, NEW res, GoodCall(c, types, groups, res),
         c.pc \in {"next", "askResources"}, c.todo # <<>>, NEW kinds,
         Head(c.todo) \in c.held /\ c.kind \notin kinds => Lacks(c, Head(c.todo), res),
         c.kind \in kinds => Has(c, Head(c.todo), res),
         NEW d, d = Visited(c, kinds)
  PROVE  d \in CallType /\ GoodCall(d, types, groups, res)
<1> DEFINE t == c.todo
           f == c.found
           h == Head(c.todo)
           t2 == Tail(c.todo)
           f2 == IF c.kind \in kinds THEN Append(f, h) ELSE f
<1>1. t \in Seq(Version) /\ f \in Seq(Version) /\ t # <<>>
  BY DEF CallType
<1>2. /\ h \in Version /\ h = t[1] /\ t2 \in Seq(Version) /\ Len(t) \in Nat /\ Len(t) > 0 /\ Len(t2) = Len(t) - 1
      /\ \A i \in 1..Len(t2) : t2[i] = t[i + 1] /\ i + 1 \in 1..Len(t)
  BY <1>1
<1>3. /\ Append(f, h) \in Seq(Version) /\ Len(Append(f, h)) = Len(f) + 1 /\ Len(f) \in Nat
      /\ Append(f, h)[Len(f) + 1] = h /\ \A i \in 1..Len(f) : Append(f, h)[i] = f[i]
  BY <1>1, <1>2
<1>4. f2 \in Seq(Version)
  BY <1>1, <1>3, Zenon
<1>5. d = [c EXCEPT !.pc = "next", !.answer = NoAnswer, !.todo = t2, !.found = f2]
  BY DEF Visited
<1>6. "next" \in CallPc
  BY DEF CallPc
<1> HIDE DEF t, f, h, t2, f2
<1>7. /\ d.pc = "next" /\ d.answer = NoAnswer /\ d.todo = t2 /\ d.found = f2 /\ d.op = c.op /\ d.group = c.group
      /\ d.kind = c.kind /\ d.version = c.version /\ d.held = c.held /\ d \in CallType
  BY <1>2, <1>4, <1>5, <1>6, NoAnswerIsAnswer, ZenonT(60) DEF CallType
<1>8. ~d.answer.ok
  BY <1>7 DEF NoAnswer
<1>9. ASSUME NEW v, In(v, f) PROVE In(v, f2)
  <2>1. PICK i \in 1..Len(f) : f[i] = v
    BY <1>9 DEF In
  <2>2. i \in 1..Len(Append(f, h)) /\ Append(f, h)[i] = v
    BY <1>3, <2>1
  <2> QED
    BY <2>1, <2>2 DEF In, f2
<1>10. ASSUME NEW v, In(v, t), v # h PROVE In(v, t2)
  <2>1. PICK i \in 1..Len(t) : t[i] = v
    BY <1>10 DEF In
  <2>2. i # 1
    BY <1>2, <1>10, <2>1, Zenon
  <2>3. i - 1 \in 1..Len(t2) /\ (i - 1) + 1 = i
    BY <1>2, <2>1, <2>2
  <2>4. t2[i - 1] = v
    BY <1>2, <2>1, <2>3, Zenon
  <2> QED
    BY <2>3, <2>4, Zenon DEF In
<1>11. ASSUME c.kind \in kinds PROVE In(h, f2)
  <2>1. f2 = Append(f, h)
    BY <1>11, Zenon DEF f2
  <2>2. Len(f) + 1 \in 1..Len(f2) /\ f2[Len(f) + 1] = h
    BY <1>3, <2>1, SMTT(60)
  <2> QED
    BY <2>2 DEF In
<1>12. \A v \in d.held : d.version \in {0, v} => Accounted(d, v, groups, res)
  <2> SUFFICES ASSUME NEW v \in c.held, c.version \in {0, v} PROVE Accounted(d, v, groups, res)
    BY <1>7, Zenon
  <2>1. Accounted(c, v, groups, res)
    BY Zenon DEF GoodCall, Looking
  <2>2. CASE In(v, t) /\ v = h
    <3>1. CASE c.kind \in kinds
      BY <1>7, <1>11, <2>2, <3>1, Zenon DEF Accounted
    <3>2. CASE c.kind \notin kinds
      <4>1. Lacks(c, v, res)
        BY <2>2, <3>2, ZenonT(60) DEF h
      <4> QED
        BY <1>7, <4>1, Zenon DEF Accounted, Lacks
    <3> QED
      BY <3>1, <3>2, Zenon
  <2>3. CASE In(v, t) /\ v # h
    BY <1>7, <1>10, <2>3, Zenon DEF Accounted
  <2>4. CASE In(v, f)
    BY <1>7, <1>9, <2>4, Zenon DEF Accounted
  <2>5. CASE (c.version = 0 /\ v \notin groups.versions[c.group]) \/ Lacks(c, v, res)
    BY <1>7, <2>5, Zenon DEF Accounted, Lacks
  <2> QED
    BY <2>1, <2>2, <2>3, <2>4, <2>5, Zenon DEF Accounted, t, f
<1>13. Looking(d, groups, res)
  <2>1. d.version = 0 => groups.known
    BY <1>7, Zenon DEF GoodCall, Looking
  <2> QED
    BY <1>7, <1>8, <1>12, <2>1, Zenon DEF Looking
<1>14. ASSUME NEW p, InTurn(p, t, f) PROVE InTurn(p, t2, f2)
  <2>1. Different(t2)
    BY <1>2, <1>14, SMTT(60) DEF InTurn, Different
  <2>2. \A i \in 1..Len(t2) : t2[i] # p /\ t2[i] # h /\ \A j \in 1..Len(f) : t2[i] # f[j]
    BY <1>2, <1>14 DEF InTurn, Different
  <2>3. CASE f2 = f
    BY <1>14, <2>1, <2>2, <2>3, Zenon DEF InTurn
  <2>4. CASE f2 = Append(f, h)
    <3>1. \A j \in 1..Len(f2) : (j \in 1..Len(f) /\ f2[j] = f[j]) \/ (j = Len(f) + 1 /\ f2[j] = h)
      BY <1>3, <2>4
    <3>2. \A j \in 1..Len(f) : f[j] # h
      BY <1>2, <1>14 DEF InTurn
    <3>3. Different(f2)
      BY <1>3, <1>14, <3>1, <3>2 DEF InTurn, Different
    <3>4. \A i \in 1..Len(t2), j \in 1..Len(f2) : t2[i] # f2[j]
      BY <2>2, <3>1, ZenonT(60)
    <3>5. ASSUME h = p PROVE Len(f) = 0
      <4>1. 1 \in 1..Len(t) /\ t[1] = p
        BY <1>2, <3>5
      <4>2. f = <<>>
        BY <1>14, <4>1, Zenon DEF InTurn
      <4> QED
        BY <4>2, Zenon
    <3>6. \A j \in 1..Len(f2) : f2[j] = p => j = 1
      BY <1>14, <3>1, <3>5, SMTT(60) DEF InTurn
    <3> QED
      BY <2>1, <2>2, <3>3, <3>4, <3>6, ZenonT(60) DEF InTurn
  <2> QED
    BY <2>3, <2>4, Zenon DEF f2
<1>15. Ordered(d, groups)
  BY <1>7, <1>14, Zenon DEF GoodCall, Ordered, t, f
<1>16. HeldIsServed(d, types)
  BY <1>7, Zenon DEF GoodCall, HeldIsServed
<1>17. FoundIsCached(d, res)
  <2> SUFFICES ASSUME NEW v \in Version, In(v, f2) PROVE Has(c, v, res)
    BY <1>7, ZenonT(60) DEF FoundIsCached, Has
  <2>1. PICK i \in 1..Len(f2) : f2[i] = v
    BY Zenon DEF In
  <2>2. CASE c.kind \in kinds /\ i = Len(f) + 1
    BY <1>3, <2>1, <2>2, ZenonT(60) DEF f2, h
  <2>3. CASE ~(c.kind \in kinds /\ i = Len(f) + 1)
    <3>1. i \in 1..Len(f) /\ f[i] = v
      BY <1>3, <2>1, <2>3 DEF f2
    <3>2. In(v, f)
      BY <3>1, Zenon DEF In
    <3> QED
      BY <3>2, Zenon DEF GoodCall, FoundIsCached, f
  <2> QED
    BY <2>2, <2>3, Zenon
<1> QED
  BY <1>7, <1>13, <1>15, <1>16, <1>17, Zenon DEF GoodCall

\* The resources of a version are asked for: they have the kinds that are served now.
LEMMA AskingIsGood ==
  ASSUME NEW c \in CallType, NEW groups, NEW res, GoodCall(c, served, groups, res), c.pc = "next", c.todo # <<>>,
         NEW a \in Answer, a.ok => a = ApiResourceList(<<c.group, Head(c.todo)>>),
         NEW d, d = [c EXCEPT !.pc = "askResources", !.answer = a]
  PROVE  d \in CallType /\ GoodCall(d, served, groups, res)
<1>1. /\ d.pc = "askResources" /\ d.answer = a /\ d.todo = c.todo /\ d.found = c.found /\ d.op = c.op
      /\ d.group = c.group /\ d.kind = c.kind /\ d.version = c.version /\ d.held = c.held /\ d \in CallType
  BY Zenon DEF CallType, CallPc
<1>2. ASSUME a.ok, Head(c.todo) \in c.held PROVE c.kind \in a.kinds
  <2>1. <<c.group, Head(c.todo), c.kind>> \in served /\ c.kind \in Kind
    BY <1>2 DEF GoodCall, HeldIsServed, CallType
  <2>2. a.kinds = {k \in Kind : <<c.group, Head(c.todo), k>> \in served}
    BY <1>2, ZenonT(60) DEF ApiResourceList, NoAnswer
  <2> QED
    BY <2>1, <2>2
<1>2f. ASSUME a.ok, c.kind \in a.kinds PROVE a.found
  BY <1>2f, Zenon DEF ApiResourceList, NoAnswer
<1>3. \A v : Accounted(c, v, groups, res) => Accounted(d, v, groups, res)
  BY <1>1 DEF Accounted, Lacks
<1>4. Looking(d, groups, res)
  BY <1>1, <1>2, <1>2f, <1>3, Zenon DEF GoodCall, Looking
<1>5. Ordered(d, groups) /\ HeldIsServed(d, served) /\ FoundIsCached(d, res)
  BY <1>1 DEF GoodCall, Ordered, HeldIsServed, FoundIsCached, Has
<1> QED
  BY <1>1, <1>4, <1>5 DEF GoodCall

\* The call ends with what it found.
LEMMA ReturnedIsGood ==
  ASSUME NEW c \in CallType, NEW types, NEW groups, NEW res, GoodCall(c, types, groups, res), c.pc = "next", c.todo = <<>>,
         NEW p \in {"noMatch", "match"}, NEW d, d = [c EXCEPT !.pc = p]
  PROVE  d \in CallType /\ GoodCall(d, types, groups, res)
<1>1. /\ d.pc = p /\ d.answer = c.answer /\ d.todo = c.todo /\ d.found = c.found /\ d.op = c.op
      /\ d.group = c.group /\ d.kind = c.kind /\ d.version = c.version /\ d.held = c.held /\ d \in CallType
  BY Zenon DEF CallType, CallPc
<1>2. \A v : Accounted(c, v, groups, res) => Accounted(d, v, groups, res)
  BY <1>1 DEF Accounted, Lacks
<1>3. Looking(d, groups, res)
  BY <1>1, <1>2, Zenon DEF GoodCall, Looking
<1>4. Ordered(d, groups) /\ HeldIsServed(d, types) /\ FoundIsCached(d, res)
  BY <1>1 DEF GoodCall, Ordered, HeldIsServed, FoundIsCached, Has
<1> QED
  BY <1>1, <1>3, <1>4 DEF GoodCall

\* The groups are asked for.
LEMMA AskingGroupsIsGood ==
  ASSUME NEW c \in CallType, NEW types, NEW groups, NEW res, GoodCall(c, types, groups, res), c.pc = "groups",
         NEW a \in Answer, NEW d, d = [c EXCEPT !.pc = "askGroups", !.answer = a]
  PROVE  d \in CallType /\ GoodCall(d, types, groups, res)
<1>1. /\ d.pc = "askGroups" /\ d.answer = a /\ d.todo = c.todo /\ d.found = c.found /\ d.op = c.op
      /\ d.group = c.group /\ d.kind = c.kind /\ d.version = c.version /\ d.held = c.held /\ d \in CallType
  BY Zenon DEF CallType, CallPc
<1>2. Looking(d, groups, res)
  BY <1>1, Zenon DEF GoodCall, Looking
<1>3. Ordered(d, groups) /\ HeldIsServed(d, types) /\ FoundIsCached(d, res)
  BY <1>1 DEF GoodCall, Ordered, HeldIsServed, FoundIsCached, Has
<1> QED
  BY <1>1, <1>2, <1>3 DEF GoodCall

\* One call takes a step; the cache grows, and the server serves no less.
LEMMA OneGood ==
  ASSUME CacheInv, CallsInv, [Next]_vars, served' = served, NEW w \in Worker, NEW d \in CallType,
         call' = [call EXCEPT ![w] = d], GoodCall(d, served, allGroups', resources')
  PROVE  CallsInv'
<1>1. Keeps(allGroups, resources, allGroups', resources')
  BY StepKeeps DEF Keeps
<1>2. call' \in [Worker -> CallType] /\ \A v \in Worker : call'[v] = IF v = w THEN d ELSE call[v]
  BY DEF CallsInv
<1> DEFINE G == allGroups'
           R == resources'
<1>3. GoodCall(d, served, G, R) /\ Keeps(allGroups, resources, G, R) /\ served \subseteq served
  BY <1>1
<1> HIDE DEF G, R
<1>4. ASSUME NEW v \in Worker PROVE GoodCall(call[v], served, G, R)
  <2>1. call[v] \in CallType /\ GoodCall(call[v], served, allGroups, resources)
    BY DEF CallsInv
  <2> QED
    BY <1>3, <2>1, GoodGrows, Zenon
<1>5. \A v \in Worker : GoodCall(call'[v], served, G, R)
  BY <1>2, <1>3, <1>4, Zenon
<1> QED
  BY <1>2, <1>5 DEF CallsInv, G, R

LEMMA InitCalls == Init => CallsInv
<1> SUFFICES ASSUME Init PROVE CallsInv
  OBVIOUS
<1>1. call = [w \in Worker |-> NoCall]
  BY SMTT(60) DEF Init
<1>2. HeldIsServed(NoCall, served) /\ Looking(NoCall, allGroups, resources) /\ Ordered(NoCall, allGroups)
  BY NoCallType, ZenonT(60) DEF HeldIsServed, Looking, Ordered
<1>3. NoCall.found = <<>>
  BY Zenon DEF NoCall
<1> QED
  BY <1>1, <1>2, <1>3, NoCallType, NothingFound, ZenonT(60) DEF CallsInv, GoodCall

\* The types of the server change.
LEMMA ServerCalls ==
  ASSUME CallsInv, UpdateCRD \/ DeleteCRD
  PROVE  CallsInv'
<1>1. CASE UpdateCRD
  <2>1. served \subseteq served' /\ UNCHANGED <<allGroups, resources, call>>
    BY <1>1, Zenon DEF UpdateCRD
  <2>2. Keeps(allGroups, resources, allGroups, resources)
    BY DEF Keeps
  <2> DEFINE T == served'
  <2>3. served \subseteq T
    BY <2>1
  <2> HIDE DEF T
  <2>4. ASSUME NEW w \in Worker PROVE GoodCall(call[w], T, allGroups, resources)
    <3>1. call[w] \in CallType /\ GoodCall(call[w], served, allGroups, resources)
      BY DEF CallsInv
    <3> QED
      BY <2>2, <2>3, <3>1, GoodGrows, Zenon
  <2> QED
    BY <2>1, <2>4 DEF CallsInv, T
<1>2. CASE DeleteCRD
  <2> DEFINE T == served'
  <2>1. /\ call' = [w \in Worker |-> [call[w] EXCEPT !.held = {v \in @ : <<call[w].group, v, call[w].kind>> \in T}]]
        /\ UNCHANGED <<allGroups, resources>>
    BY <1>2 DEF DeleteCRD
  <2> HIDE DEF T
  <2>2. ASSUME NEW w \in Worker PROVE call'[w] \in CallType /\ GoodCall(call'[w], T, allGroups, resources)
    <3> DEFINE c == call[w]
               d == call'[w]
    <3>1. c \in CallType /\ GoodCall(c, served, allGroups, resources)
      BY DEF CallsInv
    <3>2. d = [c EXCEPT !.held = {v \in @ : <<c.group, v, c.kind>> \in T}]
      BY <2>1
    <3> HIDE DEF c, d
    <3>3. d \in CallType /\ GoodCall(d, T, allGroups, resources)
      BY <3>1, <3>2, GoodDrops
    <3> QED
      BY <3>3 DEF d
  <2>3. call' \in [Worker -> CallType]
    BY <2>1, <2>2
  <2> QED
    BY <2>1, <2>2, <2>3 DEF CallsInv, T
<1> QED
  BY <1>1, <1>2

\* The groups: from the cache, or from the server.
LEMMA GroupsCalls ==
  ASSUME CacheInv, CallsInv, [Next]_vars, NEW w \in Worker, FetchAllGroups(w) \/ ServerGroups(w)
  PROVE  CallsInv'
<1> DEFINE c == call[w]
<1>1. /\ c \in CallType /\ GoodCall(c, served, allGroups, resources) /\ call \in [Worker -> CallType]
      /\ allGroups \in GroupsType
  BY DEF CallsInv, CacheInv, Shape, GroupsType
<1>2. served' = served /\ resources' = resources
  BY Zenon DEF FetchAllGroups, ServerGroups
<1>3. CASE FetchAllGroups(w) /\ allGroups.known
  <2> DEFINE t == Plan(c.op, allGroups.versions[c.group])
             d == [c EXCEPT !.pc = "next", !.todo = t]
  <2>1. c.pc = "groups" /\ allGroups' = allGroups /\ call' = [call EXCEPT ![w].pc = "next", ![w].todo = t]
    BY <1>3, Zenon DEF FetchAllGroups
  <2>2. call' = [call EXCEPT ![w] = d]
    BY <1>1, <2>1, Zenon
  <2>3. t \in Seq(Version)
    <3> DEFINE V == allGroups.versions[c.group]
    <3>1. V \in SUBSET Version
      BY <1>1, ZenonT(60) DEF CallType, GroupsType
    <3>2. t = Plan(c.op, V)
      OBVIOUS
    <3> HIDE DEF V, t
    <3>3. Lists(t, V)
      BY <3>1, <3>2, PlanLists, Zenon
    <3> QED
      BY <3>1, <3>3, SMTT(60) DEF Lists
  <2>4. ~c.answer.ok /\ c.version = 0 /\ c.found = <<>> /\ HeldIsServed(c, served)
    BY <1>1, <2>1, Zenon DEF GoodCall, Looking
  <2> HIDE DEF t, c
  <2>5. d \in CallType /\ SameQuestion(d, c) /\ d.pc = "next" /\ d.answer = c.answer /\ d.found = c.found /\ d.todo = t
    BY <1>1, <2>3, ZenonT(60) DEF CallType, CallPc, SameQuestion
  <2> HIDE DEF d
  <2>6. GoodCall(d, served, allGroups, resources)
    BY <1>1, <1>3, <2>4, <2>5, PlannedIsGood, ZenonT(60) DEF t
  <2> QED
    BY <1>2, <2>1, <2>2, <2>5, <2>6, OneGood, Zenon
<1>4. CASE FetchAllGroups(w) /\ ~allGroups.known
  <2>1. PICK a \in Answer : call' = [call EXCEPT ![w].pc = "askGroups", ![w].answer = a]
    <3>1. c.answer \in Answer
      BY <1>1, Zenon DEF CallType
    <3>2. CASE call' = [call EXCEPT ![w].pc = "askGroups"]
      <4>1. call' = [call EXCEPT ![w].pc = "askGroups", ![w].answer = c.answer]
        BY <1>1, <3>2, Zenon DEF CallType
      <4> QED
        BY <3>1, <4>1, Zenon
    <3> QED
      BY <1>4, <3>2, ServerAnswers, ZenonT(60) DEF FetchAllGroups, CacheInv
  <2> DEFINE d == [c EXCEPT !.pc = "askGroups", !.answer = a]
  <2>2. c.pc = "groups" /\ allGroups' = allGroups /\ call' = [call EXCEPT ![w] = d]
    BY <1>1, <1>4, <2>1, Zenon DEF FetchAllGroups
  <2> HIDE DEF c
  <2>3. d \in CallType /\ GoodCall(d, served, allGroups, resources)
    BY <1>1, <2>2, AskingGroupsIsGood, Zenon
  <2> HIDE DEF d
  <2> QED
    BY <1>2, <2>2, <2>3, OneGood, Zenon
<1>5. CASE ServerGroups(w) /\ ~c.answer.ok
  <2>1. call' = [call EXCEPT ![w] = Done("error")] /\ allGroups' = allGroups
    BY <1>5, ZenonT(60) DEF ServerGroups
  <2>2. Done("error") \in CallType /\ GoodCall(Done("error"), served, allGroups, resources)
    BY DoneIsGood
  <2> QED
    BY <1>2, <2>1, <2>2, OneGood, Zenon
<1>6. CASE ServerGroups(w) /\ c.answer.ok
  <2> DEFINE V == c.answer.versions
             G == [known |-> TRUE, versions |-> V]
             t == Plan(c.op, V[c.group])
             d == [c EXCEPT !.pc = "next", !.answer = NoAnswer, !.todo = t]
  <2>1. c.pc = "askGroups" /\ allGroups' = G /\ call' = [call EXCEPT ![w].pc = "next", ![w].answer = NoAnswer, ![w].todo = t]
    BY <1>6, Zenon DEF ServerGroups
  <2>2. call' = [call EXCEPT ![w] = d]
    BY <1>1, <2>1, ZenonT(60)
  <2>3. V \in [Group -> SUBSET Version] /\ c.group \in Group
    BY <1>1, Zenon DEF CallType, Answer
  <2>4. c.version = 0 /\ c.found = <<>> /\ HeldIsServed(c, served)
    BY <1>1, <2>1, Zenon DEF GoodCall, Looking
  <2> HIDE DEF V, c
  <2>5. G \in GroupsType /\ G.known /\ G.versions = V
    BY <2>3 DEF GroupsType
  <2>6. t \in Seq(Version)
    <3> DEFINE U == V[c.group]
    <3>1. U \in SUBSET Version
      BY <2>3
    <3>2. t = Plan(c.op, U)
      OBVIOUS
    <3> HIDE DEF U, t
    <3>3. Lists(t, U)
      BY <3>1, <3>2, PlanLists, Zenon
    <3> QED
      BY <3>1, <3>3 DEF Lists
  <2>7. t = Plan(c.op, G.versions[c.group])
    BY <2>5, Zenon
  <2> HIDE DEF t, G
  <2>8. d \in CallType /\ SameQuestion(d, c) /\ d.pc = "next" /\ d.answer = NoAnswer /\ d.found = c.found /\ d.todo = t
    BY <1>1, <2>6, NoAnswerIsAnswer, Zenon DEF CallType, CallPc, SameQuestion
  <2>9. ~ d.answer.ok
    BY <2>8, SMTT(60) DEF NoAnswer
  <2> HIDE DEF d
  <2>10. GoodCall(d, served, G, resources)
    BY <1>1, <2>4, <2>5, <2>7, <2>8, <2>9, PlannedIsGood, ZenonT(60)
  <2> QED
    BY <1>2, <2>1, <2>2, <2>8, <2>10, OneGood, Zenon
<1> QED
  BY <1>3, <1>4, <1>5, <1>6

\* One version of a call: from the cache, or from the server.
LEMMA ResourcesCalls ==
  ASSUME CacheInv, CallsInv, [Next]_vars, NEW w \in Worker, FetchServerResources(w) \/ ServerResources(w)
  PROVE  CallsInv'
<1> DEFINE c  == call[w]
           gv == <<c.group, Head(c.todo)>>
<1>1. c \in CallType /\ GoodCall(c, served, allGroups, resources) /\ call \in [Worker -> CallType]
  BY DEF CallsInv
<1>2. served' = served /\ Keeps(allGroups, resources, allGroups', resources') /\ allGroups' = allGroups
  <2>1. served' = served /\ allGroups' = allGroups
    BY Zenon DEF FetchServerResources, ServerResources
  <2>2. Keeps(allGroups, resources, allGroups', resources')
    BY StepKeeps DEF Keeps
  <2> QED
    BY <2>1, <2>2
<1>3. ASSUME NEW kinds, Visit(w, kinds), c.pc \in {"next", "askResources"}, c.todo # <<>>,
             Head(c.todo) \in c.held /\ c.kind \notin kinds => Lacks(c, Head(c.todo), resources'),
             c.kind \in kinds => Has(c, Head(c.todo), resources')
      PROVE  CallsInv'
  <2> DEFINE d == Visited(c, kinds)
             R == resources'
  <2>1. call' = [call EXCEPT ![w] = d]
    BY <1>1, <1>3, ZenonT(60) DEF Visit, Visited
  <2>2. /\ Keeps(allGroups, resources, allGroups, R)
        /\ Head(c.todo) \in c.held /\ c.kind \notin kinds => Lacks(c, Head(c.todo), R)
        /\ c.kind \in kinds => Has(c, Head(c.todo), R)
    BY <1>2, <1>3, ZenonT(60)
  <2> HIDE DEF c, R
  <2>3. GoodCall(c, served, allGroups, R)
    BY <1>1, <2>2, GoodGrows, ZenonT(60)
  <2>4. d \in CallType /\ GoodCall(d, served, allGroups, R)
    BY <1>1, <1>3, <2>2, <2>3, VisitedIsGood, Zenon
  <2> HIDE DEF d
  <2> QED
    BY <1>2, <2>1, <2>4, OneGood, Zenon DEF R
<1>4. CASE FetchServerResources(w)
  <2>1. c.pc = "next" /\ c.todo # <<>> /\ resources' = resources
    BY <1>4, ZenonT(60) DEF FetchServerResources
  <2>2. CASE resources[gv].known /\ Visit(w, resources[gv].kinds)
    <3>1. /\ c.kind \notin resources[gv].kinds => Lacks(c, Head(c.todo), resources')
          /\ c.kind \in resources[gv].kinds => Has(c, Head(c.todo), resources')
      BY <2>1, <2>2, ZenonT(60) DEF Lacks, Has
    <3> QED
      BY <1>3, <2>1, <2>2, <3>1, ZenonT(60)
  <2>3. ASSUME NEW a \in Answer, a.ok => a = ApiResourceList(gv),
               call' = [call EXCEPT ![w].pc = "askResources", ![w].answer = a]
        PROVE  CallsInv'
    <3> DEFINE d == [c EXCEPT !.pc = "askResources", !.answer = a]
    <3>1. call' = [call EXCEPT ![w] = d]
      BY <1>1, <2>3, Zenon
    <3> HIDE DEF c
    <3>2. d \in CallType /\ GoodCall(d, served, allGroups, resources)
      BY <1>1, <2>1, <2>3, AskingIsGood, Zenon
    <3> HIDE DEF d
    <3> QED
      BY <1>2, <2>1, <3>1, <3>2, OneGood, Zenon
  <2>4. CASE call' = [call EXCEPT ![w].pc = "askResources", ![w].answer = ApiResourceList(gv)]
    <3>1. ApiResourceList(gv) \in Answer
      BY ServerAnswers, Zenon DEF CacheInv
    <3> QED
      BY <2>3, <2>4, <3>1, Zenon
  <2>5. CASE call' = [call EXCEPT ![w].pc = "askResources"]
    <3>1. call' = [call EXCEPT ![w].pc = "askResources", ![w].answer = c.answer]
      BY <1>1, <2>5, Zenon DEF CallType
    <3>2. c.answer \in Answer /\ ~c.answer.ok
      BY <1>1, <2>1, Zenon DEF CallType, GoodCall, Looking
    <3> QED
      BY <2>3, <3>1, <3>2, Zenon
  <2> QED
    BY <1>4, <2>2, <2>4, <2>5, Zenon DEF FetchServerResources
<1>5. CASE ServerResources(w)
  <2>1. /\ c.pc = "askResources" /\ c.todo # <<>>
        /\ c.answer.ok /\ Head(c.todo) \in c.held => c.kind \in c.answer.kinds
        /\ c.answer.ok /\ c.kind \in c.answer.kinds => c.answer.found
    BY <1>1, <1>5, ZenonT(60) DEF ServerResources, GoodCall, Looking
  <2>2. CASE /\ c.answer.ok /\ Visit(w, c.answer.kinds)
             /\ resources' = IF c.answer.found
                             THEN [resources EXCEPT ![gv] = [known |-> TRUE, kinds |-> c.answer.kinds]]
                             ELSE resources
    <3>1. gv \in GroupVersion /\ resources \in ResourcesType
      <4>1. c.group \in Group /\ c.todo \in Seq(Version)
        BY <1>1, Zenon DEF CallType
      <4>2. Head(c.todo) \in Version
        BY <2>1, <4>1
      <4> QED
        BY <4>1, <4>2, Zenon DEF GroupVersion, CacheInv, Shape, ResourcesType
    <3>2. c.kind \in c.answer.kinds => Has(c, Head(c.todo), resources')
      BY <2>1, <2>2, <3>1, Zenon DEF Has, ResourcesType
    <3> QED
      BY <1>3, <2>1, <2>2, <3>2, ZenonT(60)
  <2>3. CASE call' = [call EXCEPT ![w] = Done("error")]
    <3> DEFINE R == resources'
               G == allGroups'
    <3>1. Done("error") \in CallType /\ GoodCall(Done("error"), served, G, R)
      BY DoneIsGood
    <3> QED
      BY <1>2, <2>3, <3>1, OneGood, Zenon
  <2> QED
    BY <1>5, <2>2, <2>3, Zenon DEF ServerResources
<1> QED
  BY <1>4, <1>5

LEMMA NextCalls == CacheInv /\ CallsInv /\ [Next]_vars => CallsInv'
<1> SUFFICES ASSUME CacheInv, CallsInv, [Next]_vars PROVE CallsInv'
  OBVIOUS
<1>1. CASE UpdateCRD \/ DeleteCRD
  BY <1>1, ServerCalls
<1>2. ASSUME NEW w \in Worker, Call(w) PROVE CallsInv'
  <2>1. PICK op \in {"mapping", "kindFor"}, g \in Group, k \in Kind, v \in Version \cup {0} :
          call' = [call EXCEPT ![w] = NewCall(op, g, k, v, served)]
    BY <1>2, Zenon DEF Call, NewCall
  <2> DEFINE d == NewCall(op, g, k, v, served)
  <2>2. call' = [call EXCEPT ![w] = d] /\ UNCHANGED <<served, allGroups, resources>>
    BY <1>2, <2>1, Zenon DEF Call
  <2>3. d \in CallType /\ GoodCall(d, served, allGroups, resources)
    BY CallIsGood, Zenon
  <2> HIDE DEF d
  <2> QED
    BY <2>2, <2>3, OneGood, Zenon
<1>3. ASSUME NEW w \in Worker, FetchAllGroups(w) \/ ServerGroups(w) PROVE CallsInv'
  BY <1>3, GroupsCalls
<1>4. ASSUME NEW w \in Worker, FetchServerResources(w) \/ ServerResources(w) PROVE CallsInv'
  BY <1>4, ResourcesCalls
<1>5. ASSUME NEW w \in Worker, Return(w) PROVE CallsInv'
  <2> DEFINE c == call[w]
  <2>1. c.pc = "next" /\ c.todo = <<>> /\ UNCHANGED <<served, allGroups, resources>>
    BY <1>5, Zenon DEF Return
  <2>2. c \in CallType /\ GoodCall(c, served, allGroups, resources)
    BY DEF CallsInv
  <2>3. PICK d : /\ call' = [call EXCEPT ![w] = d]
                 /\ \/ \E p \in {"noMatch", "match"} : d = [c EXCEPT !.pc = p]
                    \/ d = Done("several")
    <3> DEFINE e == CASE c.found = <<>> -> [c EXCEPT !.pc = "noMatch"]
                      [] c.op = "kindFor" /\ Len(c.found) > 1 -> Done("several")
                      [] OTHER -> [c EXCEPT !.pc = "match"]
    <3>1. call' = [call EXCEPT ![w] = e]
      BY <1>5 DEF Return
    <3> HIDE DEF c
    <3>2. e = [c EXCEPT !.pc = "noMatch"] \/ e = [c EXCEPT !.pc = "match"] \/ e = Done("several")
      OBVIOUS
    <3> QED
      BY <3>1, <3>2, Zenon
  <2> HIDE DEF c
  <2>4. d \in CallType /\ GoodCall(d, served, allGroups, resources)
    <3>1. CASE d = Done("several")
      BY <3>1, DoneIsGood, Zenon
    <3>2. CASE \E p \in {"noMatch", "match"} : d = [c EXCEPT !.pc = p]
      BY <2>1, <2>2, <3>2, ReturnedIsGood, Zenon
    <3> QED
      BY <2>3, <3>1, <3>2, Zenon
  <2> QED
    BY <2>1, <2>3, <2>4, OneGood, Zenon
<1>6. CASE UNCHANGED vars
  BY <1>6 DEF vars, CallsInv
<1> QED
  BY <1>1, <1>2, <1>3, <1>4, <1>5, <1>6 DEF Next

LEMMA CallsAlways == Spec => [](CacheInv /\ CallsInv)
<1>1. Init => CacheInv /\ CallsInv
  BY InitCache, InitCalls
<1>2. CacheInv /\ CallsInv /\ [Next]_vars => CacheInv' /\ CallsInv'
  BY NextCache, NextCalls
<1> QED
  BY <1>1, <1>2, PTL DEF Spec

\* RESTMapping answers with what the cache says: what it found is there, and a type that
\* is served all through the call and not in the answer is missing from the copy.  Every
\* version is looked at, found, or missing from the copy the call used, and an answer
\* that is asked for during the call has the type.  So no type is lost to a race with
\* another caller, to NotFound, or to a request that failed.
THEOREM AnswerIsAlwaysCached == Spec => []AnswerIsCached
<1>1. CacheInv /\ CallsInv => AnswerIsCached
  <2> SUFFICES ASSUME CacheInv, CallsInv, NEW w \in Worker, call[w].pc \in {"match", "noMatch"}
               PROVE  LET c == call[w]
                      IN  /\ \A v \in Range(c.found) : c.kind \in resources[<<c.group, v>>].kinds
                          /\ \A v \in c.held \ Range(c.found) :
                               c.version \in {0, v} =>
                                 \/ c.version = 0 /\ v \notin allGroups.versions[c.group]
                                 \/ resources[<<c.group, v>>].known /\ c.kind \notin resources[<<c.group, v>>].kinds
    BY Zenon DEF AnswerIsCached
  <2> DEFINE c == call[w]
  <2>1. /\ Looking(c, allGroups, resources) /\ FoundIsCached(c, resources)
        /\ c.found \in Seq(Version) /\ c.held \subseteq Version
    BY DEF CallsInv, GoodCall, CallType
  <2>2. c.todo = <<>> /\ \A v \in c.held : c.version \in {0, v} => Accounted(c, v, allGroups, resources)
    BY <2>1, Zenon DEF Looking
  <2>3. DOMAIN c.found = 1..Len(c.found) /\ Range(c.found) \subseteq Version
    BY <2>1 DEF Range
  <2>4. \A v : In(v, c.found) <=> v \in Range(c.found)
    BY <2>3, Zenon DEF In, Range
  <2>5. \A v : ~In(v, c.todo)
    BY <2>2, SMTT(60) DEF In
  <2>6. ASSUME NEW v \in Range(c.found) PROVE c.kind \in resources[<<c.group, v>>].kinds
    BY <2>1, <2>3, <2>4, Zenon DEF FoundIsCached, Has
  <2>7. ASSUME NEW v \in c.held \ Range(c.found), c.version \in {0, v}
        PROVE  \/ c.version = 0 /\ v \notin allGroups.versions[c.group]
               \/ resources[<<c.group, v>>].known /\ c.kind \notin resources[<<c.group, v>>].kinds
    BY <2>2, <2>4, <2>5, <2>7, Zenon DEF Accounted, Lacks
  <2> QED
    BY <2>6, <2>7, Zenon
<1> QED
  BY <1>1, CallsAlways, PTL

\* The mappings of a kind without a version are in the order the caller relies on: the
\* preferred version, where it has the kind, is the first, and none comes twice.  The
\* plan is an enumeration of the cached versions with the preferred one in front, and
\* the cached groups do not change between the plan and the end of the call.
THEOREM PreferredComesFirst == Spec => []PreferredFirst
<1>1. CacheInv /\ CallsInv => PreferredFirst
  <2> SUFFICES ASSUME CallsInv, NEW w \in Worker, call[w].pc = "match", call[w].op = "mapping", call[w].version = 0
               PROVE  /\ IsInjective(call[w].found)
                      /\ \A i \in DOMAIN call[w].found :
                           call[w].found[i] = PreferredVersion(allGroups.versions[call[w].group]) => i = 1
    BY Zenon DEF PreferredFirst
  <2> DEFINE c == call[w]
             p == PreferredVersion(allGroups.versions[c.group])
  <2>1. InTurn(p, c.todo, c.found)
    BY Zenon DEF CallsInv, GoodCall, Ordered
  <2>2. c.found \in Seq(Version)
    BY DEF CallsInv, CallType
  <2> HIDE DEF p
  <2>3. DOMAIN c.found = 1..Len(c.found)
    BY <2>2
  <2>4. /\ \A i, j \in DOMAIN c.found : c.found[i] = c.found[j] => i = j
        /\ \A i \in DOMAIN c.found : c.found[i] = p => i = 1
    BY <2>1, <2>3, Zenon DEF InTurn, Different
  <2> QED
    BY <2>4, Zenon DEF IsInjective, p
<1> QED
  BY <1>1, CallsAlways, PTL


-----------------------------------------------------------------------------
(***************************************************************************)
(* The callers and the mutexes.                                            *)
(***************************************************************************)
HeldByACaller == gmu \in Worker \cup {Nobody}

LEMMA NextHeld == HeldByACaller /\ [Next]_vars => HeldByACaller'
<1> SUFFICES ASSUME HeldByACaller, [Next]_vars PROVE HeldByACaller'
  OBVIOUS
<1>1. CASE UpdateCRD \/ DeleteCRD \/ UNCHANGED vars
  BY <1>1 DEF UpdateCRD, DeleteCRD, vars, HeldByACaller
<1>2. ASSUME NEW w \in Worker, Call(w) \/ FetchServerResources(w) \/ ServerResources(w) \/ Return(w)
      PROVE HeldByACaller'
  <2>1. gmu' = gmu
    BY <1>2, Zenon DEF Call, FetchServerResources, ServerResources, Return
  <2> QED
    BY <2>1 DEF HeldByACaller
<1>3. ASSUME NEW w \in Worker, FetchAllGroups(w) \/ ServerGroups(w) PROVE HeldByACaller'
  BY <1>3, Zenon DEF FetchAllGroups, ServerGroups, HeldByACaller
<1> QED
  BY <1>1, <1>2, <1>3, Zenon DEF Next

\* fetchAllGroups and fetchServerResources lock a mutex when they hold none, and give
\* it back when the server has answered or failed: with any number of callers no
\* caller waits for one that waits for a mutex, so they cannot deadlock.
THEOREM NoRingOfCallers == Spec => []WaitsForARequest
<1>1. Init => HeldByACaller
  BY DEF Init, HeldByACaller
<1>2. CacheInv /\ CallsInv /\ HeldByACaller => WaitsForARequest
  <2> SUFFICES ASSUME CacheInv, CallsInv, HeldByACaller, NEW w \in Worker
               PROVE  /\ (call[w].pc = "groups" \/ (call[w].pc = "next" /\ call[w].todo # <<>>)) /\ gmu # Nobody =>
                           \E v \in Worker \ {w} : gmu = v /\ call[v].pc = "askGroups"
                      /\ call[w].pc = "next" /\ call[w].todo # <<>> /\ rmu[GV(w)] # Nobody =>
                           \E v \in Worker \ {w} : rmu[GV(w)] = v /\ call[v].pc = "askResources"
    BY Zenon DEF WaitsForARequest, GV
  <2>1. ASSUME call[w].pc = "groups" \/ call[w].pc = "next", gmu # Nobody
        PROVE  \E v \in Worker \ {w} : gmu = v /\ call[v].pc = "askGroups"
    BY <2>1, Zenon DEF CacheInv, TypeOK, HeldByACaller
  <2>2. ASSUME call[w].pc = "next", call[w].todo # <<>>, rmu[GV(w)] # Nobody
        PROVE  \E v \in Worker \ {w} : rmu[GV(w)] = v /\ call[v].pc = "askResources"
    <3>1. GV(w) \in GroupVersion
      <4>1. call[w].group \in Group /\ call[w].todo \in Seq(Version)
        BY Zenon DEF CallsInv, CallType
      <4>2. Head(call[w].todo) \in Version
        BY <2>2, <4>1
      <4> QED
        BY <4>1, <4>2 DEF GV, GroupVersion
    <3>2. rmu[GV(w)] \in Worker
      BY <2>2, <3>1 DEF CacheInv, Shape
    <3> QED
      BY <2>2, <3>1, <3>2, ZenonT(60) DEF CacheInv, TypeOK
  <2> QED
    BY <2>1, <2>2, Zenon
<1> QED
  BY <1>1, <1>2, NextHeld, CallsAlways, PTL DEF Spec
=============================================================================
