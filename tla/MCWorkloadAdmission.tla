------------------------ MODULE MCWorkloadAdmission ------------------------
(* Instances of WorkloadAdmission for TLC. *)
EXTENDS WorkloadAdmission, TLC

CONSTANTS w1, c1, c2, u1, u2, u3, o1, o2, ta, tb, tc, i1, r1, r2

\* The template "t" in two namespaces, and one of another name.
MCRefName == [t \in Templates |-> IF t = tc THEN "other" ELSE "t"]

\* c1 is deleted and recreated for another organization; c2 has no label.
MCNameOf == [u \in Uids |-> IF u = u3 THEN c2 ELSE c1]
MCOrgOf == [u \in Uids |-> CASE u = u1 -> o1 [] u = u2 -> o2 [] u = u3 -> None]

Plain == [defect |-> "none", cluster |-> TRUE, workload |-> TRUE,
          definesInput |-> FALSE, accepts |-> {}]
Requiring == [Plain EXCEPT !.definesInput = TRUE, !.accepts = {i1}]
Broken == [Plain EXCEPT !.defect = "build"]
Headless == [Plain EXCEPT !.cluster = FALSE]

Good == [org |-> o1, label |-> c1, owner |-> None,
         ref |-> [key |-> ta, group |-> FALSE], input |-> None]
Owner(c, u) == [name |-> c, uid |-> u]

UnlabelledManifests ==
  {Good, [Good EXCEPT !.label = None, !.owner = Owner(c1, u1)]}
ClusterManifests ==
  {Good, [Good EXCEPT !.org = o2], [Good EXCEPT !.owner = Owner(c1, u1)],
   [Good EXCEPT !.label = None, !.owner = Owner(c1, u1)]}
MovingManifests ==
  {Good, [Good EXCEPT !.label = c2], [Good EXCEPT !.org = o2, !.label = c2],
   [Good EXCEPT !.ref = None], [Good EXCEPT !.ref.key = tc, !.input = i1]}
TemplateManifests ==
  {[Good EXCEPT !.ref = None], Good, [Good EXCEPT !.ref.key = tb],
   [Good EXCEPT !.input = i1], [Good EXCEPT !.ref.key = tb, !.input = i1]}

PlainSource == {Plain}
BrokenSource == {Broken}
GoodSources == {Plain, Requiring}
SubmittedSources == {Plain, Requiring, Broken, Headless}

RequestSymmetry == Permutations(Requests)
=============================================================================
