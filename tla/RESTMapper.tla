----------------------------- MODULE RESTMapper -----------------------------
(***************************************************************************)
(* ControllerRESTMapper and its cache of discovery, shared by the callers  *)
(* of one process, with the discovery endpoints it asks: those of the mock *)
(* kube-apiserver, or of a real one.                                       *)
(*                                                                         *)
(* A request to the server is sent with a mutex held: the cache's for the  *)
(* groups, the group-version's for its resources.  The answer is fixed in  *)
(* the step that takes the mutex and used in the step that gives it back.  *)
(***************************************************************************)
EXTENDS Integers, Sequences, FiniteSets, Functions

CONSTANTS
  Group, Kind,
  Version,     \* numbers from 1, in the order of the version strings
  Worker,      \* callers
  Nobody,
  MaxChanges,  \* how often the types of the server change
  Faults       \* "discovery": a request may fail

ASSUME MapperConstants ==
  /\ Version \subseteq Nat \ {0} /\ IsFiniteSet(Version) /\ Group # {} /\ Kind # {}
  /\ Nobody \notin Worker /\ MaxChanges \in Nat /\ Faults \subseteq {"discovery"}

VARIABLES
  real,       \* a real server: unknown group-versions are NotFound, and CRDs can be deleted
  served,     \* the <<group, version, kind>> of the server
  allGroups,  \* cachedAllGroups
  resources,  \* [group-version -> cachedServerResources]
  gmu, rmu,   \* the mutex of the cache, and of each group-version
  call,       \* [Worker -> its call]
  changes

vars == <<real, served, allGroups, resources, gmu, rmu, call, changes>>

GroupVersion == Group \X Version
Unknown      == [known |-> FALSE, kinds |-> {}]
NoGroups     == [known |-> FALSE, versions |-> [g \in Group |-> {}]]
NoAnswer     == [ok |-> FALSE, found |-> FALSE, kinds |-> {}, versions |-> [g \in Group |-> {}]]
\* todo: the versions still to be looked at, found: those that have the kind,
\* held: the versions that served the kind all through the call
NoCall == [pc |-> "idle", op |-> "none", group |-> CHOOSE g \in Group : TRUE, kind |-> CHOOSE k \in Kind : TRUE,
           version |-> 0, todo |-> <<>>, found |-> <<>>, answer |-> NoAnswer, held |-> {}]

Done(outcome) == [NoCall EXCEPT !.pc = outcome]

(***************************************************************************)
(* The server.                                                             *)
(***************************************************************************)
\* RegisterType, or UpdateCRD up to the first version it cannot read
UpdateCRD ==
  /\ changes < MaxChanges
  /\ \E g \in Group, k \in Kind, V \in SUBSET Version \ {{}} :
       served' = served \cup ({g} \X V \X {k})
  /\ changes' = changes + 1
  /\ UNCHANGED <<real, allGroups, resources, gmu, rmu, call>>

\* a real server forgets the types of a CRD that is deleted
DeleteCRD ==
  /\ real /\ changes < MaxChanges
  /\ \E g \in Group, k \in Kind : served' = {t \in served : ~(t[1] = g /\ t[3] = k)}
  /\ call' = [w \in Worker |-> [call[w] EXCEPT !.held = {v \in @ : <<call[w].group, v, call[w].kind>> \in served'}]]
  /\ changes' = changes + 1
  /\ UNCHANGED <<real, allGroups, resources, gmu, rmu>>

\* GET /apis
ApiGroupList == [g \in Group |-> {v \in Version : \E k \in Kind : <<g, v, k>> \in served}]

\* GET /apis/group/version: the mock server answers with an empty list where a
\* real one says NotFound.
ApiResourceList(gv) ==
  LET kinds == {k \in Kind : <<gv[1], gv[2], k>> \in served}
  IN  [NoAnswer EXCEPT !.ok = TRUE, !.found = ~real \/ kinds # {}, !.kinds = kinds]

(***************************************************************************)
(* The calls.                                                              *)
(***************************************************************************)
Ascending(V) == CHOOSE s \in Bijection(1..Cardinality(V), V) : \A i, j \in DOMAIN s : i < j => s[i] < s[j]
PreferredVersion(V) == CHOOSE v \in V : \A u \in V : u <= v

\* a mutated form of Plan: the preferred version is looked at again
Plan_Repeats(op, V) ==
  IF op = "kindFor" \/ V = {} THEN Ascending(V)
  ELSE <<PreferredVersion(V)>> \o Ascending(V)

\* The versions to look at, from the cached groups: RESTMappings begins with the
\* preferred one, the newest; KindsFor takes them as they come.
Plan(op, V) ==
  IF op = "kindFor" \/ V = {} THEN Ascending(V)
  ELSE <<PreferredVersion(V)>> \o Ascending(V \ {PreferredVersion(V)})

\* KindFor, RESTMapping, RESTMappings: with a version, or for every version (the code
\* could look at several; nobody in the repository asks for more than one)
Call(w) ==
  /\ call[w].pc \notin {"groups", "askGroups", "next", "askResources"}
  /\ \E op \in {"mapping", "kindFor"}, g \in Group, k \in Kind, v \in Version \cup {0} :
       call' = [call EXCEPT ![w] =
         [NoCall EXCEPT !.pc = IF v = 0 THEN "groups" ELSE "next", !.op = op, !.group = g, !.kind = k,
                        !.version = v, !.todo = IF v = 0 THEN <<>> ELSE <<v>>,
                        !.held = {u \in Version : <<g, u, k>> \in served}]]
  /\ UNCHANGED <<real, served, allGroups, resources, gmu, rmu, changes>>

\* fetchAllGroups
FetchAllGroups(w) ==
  /\ call[w].pc = "groups"
  /\ gmu = Nobody
  /\ \/ /\ allGroups.known
        /\ call' = [call EXCEPT ![w].pc = "next", ![w].todo = Plan(call[w].op, allGroups.versions[call[w].group])]
        /\ UNCHANGED gmu
     \/ /\ ~allGroups.known
        /\ gmu' = w
        /\ \/ call' = [call EXCEPT ![w].pc = "askGroups",
                                   ![w].answer = [NoAnswer EXCEPT !.ok = TRUE, !.versions = ApiGroupList]]
           \/ /\ "discovery" \in Faults
              /\ call' = [call EXCEPT ![w].pc = "askGroups"]
  /\ UNCHANGED <<real, served, allGroups, resources, rmu, changes>>

\* ServerGroups returns
ServerGroups(w) ==
  LET c == call[w]
  IN  /\ c.pc = "askGroups"
      /\ gmu' = Nobody
      /\ \/ /\ c.answer.ok
            /\ allGroups' = [known |-> TRUE, versions |-> c.answer.versions]
            /\ call' = [call EXCEPT ![w].pc = "next", ![w].answer = NoAnswer,
                                    ![w].todo = Plan(c.op, c.answer.versions[c.group])]
         \/ /\ ~c.answer.ok
            /\ call' = [call EXCEPT ![w] = Done("error")]
            /\ UNCHANGED allGroups
      /\ UNCHANGED <<real, served, resources, rmu, changes>>

\* One version of the loops of RESTMappings and KindsFor is done with.
Visit(w, kinds) ==
  LET c == call[w]
  IN  call' = [call EXCEPT ![w].pc = "next", ![w].answer = NoAnswer, ![w].todo = Tail(@),
                           ![w].found = IF c.kind \in kinds THEN Append(@, Head(c.todo)) ELSE @]

\* a mutated form of FetchServerResources: the cache is not guarded
FetchServerResources_NoLock(w) ==
  LET gv == <<call[w].group, Head(call[w].todo)>>
  IN  /\ call[w].pc = "next" /\ call[w].todo # <<>>
      /\ gmu = Nobody
      /\ \/ /\ resources[gv].known
            /\ Visit(w, resources[gv].kinds)
         \/ /\ ~resources[gv].known
            /\ call' = [call EXCEPT ![w].pc = "askResources", ![w].answer = ApiResourceList(gv)]
      /\ UNCHANGED <<real, served, allGroups, resources, gmu, rmu, changes>>

\* cacheForGroupVersion, then fetchServerResources
FetchServerResources(w) ==
  LET gv == <<call[w].group, Head(call[w].todo)>>
  IN  /\ call[w].pc = "next" /\ call[w].todo # <<>>
      /\ gmu = Nobody /\ rmu[gv] = Nobody
      /\ \/ /\ resources[gv].known
            /\ Visit(w, resources[gv].kinds)
            /\ UNCHANGED rmu
         \/ /\ ~resources[gv].known
            /\ rmu' = [rmu EXCEPT ![gv] = w]
            /\ \/ call' = [call EXCEPT ![w].pc = "askResources", ![w].answer = ApiResourceList(gv)]
               \/ /\ "discovery" \in Faults
                  /\ call' = [call EXCEPT ![w].pc = "askResources"]
      /\ UNCHANGED <<real, served, allGroups, resources, gmu, changes>>

\* a mutated form of ServerResources: NotFound is remembered
ServerResources_CachesNotFound(w) ==
  LET c  == call[w]
      gv == <<c.group, Head(c.todo)>>
  IN  /\ c.pc = "askResources" /\ c.answer.ok
      /\ rmu' = [rmu EXCEPT ![gv] = Nobody]
      /\ Visit(w, c.answer.kinds)
      /\ resources' = [resources EXCEPT ![gv] = [known |-> TRUE, kinds |-> c.answer.kinds]]
      /\ UNCHANGED <<real, served, allGroups, gmu, changes>>

\* a mutated form of ServerResources: a failure counts as an empty list
ServerResources_SwallowsError(w) ==
  LET c  == call[w]
      gv == <<c.group, Head(c.todo)>>
  IN  /\ c.pc = "askResources"
      /\ rmu' = [rmu EXCEPT ![gv] = Nobody]
      /\ Visit(w, c.answer.kinds)
      /\ resources' = IF c.answer.found
                      THEN [resources EXCEPT ![gv] = [known |-> TRUE, kinds |-> c.answer.kinds]]
                      ELSE resources
      /\ UNCHANGED <<real, served, allGroups, gmu, changes>>

\* a mutated form of ServerResources: a failure leaves the mutex locked
ServerResources_KeepsLock(w) ==
  LET c  == call[w]
      gv == <<c.group, Head(c.todo)>>
  IN  /\ c.pc = "askResources"
      /\ \/ /\ c.answer.ok
            /\ rmu' = [rmu EXCEPT ![gv] = Nobody]
            /\ Visit(w, c.answer.kinds)
         \/ /\ ~c.answer.ok
            /\ call' = [call EXCEPT ![w] = Done("error")]
            /\ UNCHANGED rmu
      /\ UNCHANGED <<real, served, allGroups, resources, gmu, changes>>

\* ServerResourcesForGroupVersion returns: what is NotFound has no kinds and is
\* not remembered, a failure ends the call.
ServerResources(w) ==
  LET c  == call[w]
      gv == <<c.group, Head(c.todo)>>
  IN  /\ c.pc = "askResources"
      /\ rmu' = [rmu EXCEPT ![gv] = Nobody]
      /\ \/ /\ c.answer.ok
            /\ Visit(w, c.answer.kinds)
            /\ resources' = IF c.answer.found
                            THEN [resources EXCEPT ![gv] = [known |-> TRUE, kinds |-> c.answer.kinds]]
                            ELSE resources
         \/ /\ ~c.answer.ok
            /\ call' = [call EXCEPT ![w] = Done("error")]
            /\ UNCHANGED resources
      /\ UNCHANGED <<real, served, allGroups, gmu, changes>>

\* NoResourceMatchError; KindFor also fails where several versions have the kind
Return(w) ==
  LET c == call[w]
  IN  /\ c.pc = "next" /\ c.todo = <<>>
      /\ call' = [call EXCEPT ![w] = CASE c.found = <<>> -> [c EXCEPT !.pc = "noMatch"]
                                       [] c.op = "kindFor" /\ Len(c.found) > 1 -> Done("several")
                                       [] OTHER -> [c EXCEPT !.pc = "match"]]
      /\ UNCHANGED <<real, served, allGroups, resources, gmu, rmu, changes>>

Init ==
  /\ real \in BOOLEAN /\ served = {} /\ changes = 0
  /\ allGroups = NoGroups /\ resources = [gv \in GroupVersion |-> Unknown]
  /\ gmu = Nobody /\ rmu = [gv \in GroupVersion |-> Nobody]
  /\ call = [w \in Worker |-> NoCall]

Next ==
  \/ UpdateCRD \/ DeleteCRD
  \/ \E w \in Worker : \/ Call(w) \/ FetchAllGroups(w) \/ ServerGroups(w)
                        \/ FetchServerResources(w) \/ ServerResources(w) \/ Return(w)

Spec == Init /\ [][Next]_vars

(***************************************************************************)
(* Properties.                                                             *)
(***************************************************************************)
\* Types; a mutex is held exactly by the worker whose request is under way, so
\* nobody waits for one that is never unlocked.
TypeOK ==
  /\ served \subseteq Group \X Version \X Kind /\ changes \in 0..MaxChanges
  /\ \A g \in Group : allGroups.versions[g] \subseteq Version
  /\ \A gv \in GroupVersion : resources[gv].kinds \subseteq Kind
  /\ \A w \in Worker :
       /\ call[w].pc \in {"idle", "groups", "askGroups", "next", "askResources",
                          "match", "noMatch", "several", "error"}
       /\ gmu = w <=> call[w].pc = "askGroups"
       /\ \A gv \in GroupVersion :
            rmu[gv] = w <=> call[w].pc = "askResources" /\ gv = <<call[w].group, Head(call[w].todo)>>

\* The callers cannot wait for each other in a ring: the mutex a caller waits for, of
\* the cache or of the next group-version, is held by another one that waits for an
\* answer of the server and for no mutex.
WaitsForARequest ==
  \A w \in Worker :
    LET c  == call[w]
        gv == <<c.group, Head(c.todo)>>
    IN  /\ (c.pc = "groups" \/ (c.pc = "next" /\ c.todo # <<>>)) /\ gmu # Nobody =>
             \E v \in Worker \ {w} : gmu = v /\ call[v].pc = "askGroups"
        /\ c.pc = "next" /\ c.todo # <<>> /\ rmu[gv] # Nobody =>
             \E v \in Worker \ {w} : rmu[gv] = v /\ call[v].pc = "askResources"

\* A call answers with what is in the cache when it returns.  The versions it found
\* have the kind there; a version that served the kind all through the call and is
\* not in the answer, whether the call found others or none, is missed only where the
\* copy that the call used was taken before: the cached groups lack the version, or
\* the cached resources of the version lack the kind.
AnswerIsCached ==
  \A w \in Worker :
    LET c == call[w]
    IN  c.pc \in {"match", "noMatch"} =>
          /\ \A v \in Range(c.found) : c.kind \in resources[<<c.group, v>>].kinds
          /\ \A v \in c.held \ Range(c.found) :
               c.version \in {0, v} =>
                 \/ c.version = 0 /\ v \notin allGroups.versions[c.group]
                 \/ resources[<<c.group, v>>].known /\ c.kind \notin resources[<<c.group, v>>].kinds

\* A real server's NotFound is never remembered, so the types of a CRD that is
\* created in a group-version of its own are found once they are there.
AbsentIsNotCached == real => \A gv \in GroupVersion : resources[gv].known => resources[gv].kinds # {}

\* RESTMapping takes the first of the mappings: without a version, the preferred
\* one comes first where it has the kind, and no version comes twice.
PreferredFirst ==
  \A w \in Worker :
    LET c == call[w]
    IN  c.pc = "match" /\ c.op = "mapping" /\ c.version = 0 =>
          /\ IsInjective(c.found)
          /\ \A i \in DOMAIN c.found :
               c.found[i] = PreferredVersion(allGroups.versions[c.group]) => i = 1

\* Two callers never get different answers out of the cache: what it knows, it
\* keeps, although several of them may have found it empty.
CacheIsForever ==
  [][/\ allGroups.known => allGroups' = allGroups
     /\ \A gv \in GroupVersion : resources[gv].known => resources'[gv] = resources[gv]]_vars
=============================================================================
