----------------------------- MODULE MCPipeline -----------------------------
(***************************************************************************)
(* A small instance of Pipeline.  Both files of version 1 have an          *)
(* Application, only one of version 2; version 3 does not parse as a       *)
(* semantic version and has no package.                                    *)
(***************************************************************************)
EXTENDS Pipeline

CONSTANTS w1, w2, def, nsp, dep, app, svc, app2, f1, f2

D(k, n, ns, image) == [group |-> IF k = "Application" THEN "app.k8s.io" ELSE "", kind |-> k,
                       name |-> n, ns |-> ns, image |-> image]

MCDoc == [o \in Object |->
  CASE o = def -> D("CustomResourceDefinition", 1, "", <<>>)
    [] o = nsp -> D("Namespace", 1, "", <<>>)
    [] o = dep -> D("Deployment", 1, "", <<"a", "b", "c", "d">>)
    [] o = app -> D("Application", 2, "", <<>>)
    [] o = app2 -> D("Application", 1, "", <<>>)
    [] o = svc -> D("Service", 1, "elsewhere", <<>>)]

MCPackage == [v \in {1, 2} |->
  IF v = 1 THEN [f \in {f1, f2} |-> IF f = f1 THEN <<svc, app>> ELSE <<app2>>]
           ELSE [f \in {f1, f2} |-> IF f = f1 THEN <<app, dep>> ELSE <<nsp, def>>]]

MCSemver   == [v \in Version |-> v % 3]
MCKindRank == [k \in {"CustomResourceDefinition", "Deployment", "Application", "Service", "Namespace"} |->
  CASE k = "Service" -> 1 [] k = "Namespace" -> 0 [] k = "CustomResourceDefinition" -> 2
    [] k = "Application" -> 3 [] k = "Deployment" -> 4]
MCSubjectNs == [w \in Worker |-> IF w = w1 THEN "home" ELSE ""]
=============================================================================
