----------------------- MODULE WorkloadAdmissionProofs -----------------------
(* Proofs about WorkloadAdmission, for every value of its constants.        *)
EXTENDS WorkloadAdmission, InformerProofs

-----------------------------------------------------------------------------
(* What each step of a request does to it.                                  *)

\* Request r becomes q.
Becomes(r, q) == q \in Request \cup {None} /\ req' = [req EXCEPT ![r] = q]

Grouped(m) == m.ref # None => m.ref.group

\* The manifests that Default builds from a workload are workloads.
LEMMA DefaultedType ==
  ASSUME NEW m \in Workload
  PROVE  /\ WithGroup(m) \in Workload /\ Grouped(WithGroup(m))
         /\ \A c \in Clusters, u \in Uids :
              LET d == [WithGroup(m) EXCEPT !.owner = [name |-> c, uid |-> u]]
              IN  d \in Workload /\ Grouped(d)
<1>1. WithGroup(m) \in Workload /\ Grouped(WithGroup(m))
  BY AdmissionNone DEF WithGroup, Workload, TemplateRef, Grouped
<1>2. \A c \in Clusters, u \in Uids : [name |-> c, uid |-> u] \in OwnerReference
  BY DEF OwnerReference
<1>. QED  BY <1>1, <1>2 DEF Workload, Grouped

\* A request keeps its type when a webhook lets it pass.
LEMMA RequestType ==
  ASSUME NEW q \in Request, NEW m \in Workload, NEW s \in Stages, NEW e \in BOOLEAN
  PROVE  /\ [q EXCEPT !.new = m, !.stage = s] \in Request
         /\ [q EXCEPT !.errs = e, !.stage = s] \in Request
         /\ [q EXCEPT !.stage = s] \in Request
BY DEF Request

\* A request that is under way has its parts.
LEMMA RequestParts ==
  ASSUME TypeOK, NEW r \in Requests, req[r] # None
  PROVE  /\ req[r] \in Request /\ req[r].new \in Workload
         /\ req[r].old \in Workload \cup {None} /\ req[r].workload \in Workloads
         /\ req[r].errs \in BOOLEAN
         /\ req[r].new.label # None => cls[req[r].new.label] \in Stream(Uids \cup {None})
         /\ req[r].new.ref # None =>
              tpl[req[r].new.ref.key] \in Stream(Source \cup {None})
BY DEF TypeOK, Request, Workload, TemplateRef

\* Submit starts a request.
LEMMA SubmitStep ==
  ASSUME TypeOK, NEW r \in Requests, NEW w \in Workloads, NEW m \in Manifests,
         Submit(r, w, m)
  PROVE  \E q \in Request : Becomes(r, q) /\ q.stage = "default"
<1>. DEFINE q == [workload |-> w, old |-> wl[w], new |-> m,
                  stage |-> "default", errs |-> FALSE]
<1>1. q \in Request /\ q.stage = "default"
  BY AdmissionConstants DEF TypeOK, Request, Stages
<1>2. req' = [req EXCEPT ![r] = q]
  BY DEF Submit
<1>. QED  BY <1>1, <1>2 DEF Becomes

\* Default sets the API group.
LEMMA DefaultStep ==
  ASSUME TypeOK, NEW r \in Requests, Default(r)
  PROVE  \/ Becomes(r, None)
         \/ \E q \in Request : /\ Becomes(r, q) /\ q.stage = "validate"
                               /\ Grouped(q.new)
<1>1. req[r] # None /\ req[r] \in Request /\ req[r].new \in Workload
  BY RequestParts DEF Default, At
<1>2. ASSUME NEW m \in Workload, Grouped(m),
             req' = [req EXCEPT ![r].new = m, ![r].stage = "validate"]
      PROVE  \E q \in Request : /\ Becomes(r, q) /\ q.stage = "validate"
                                /\ Grouped(q.new)
  <2>. DEFINE q == [req[r] EXCEPT !.new = m, !.stage = "validate"]
  <2>1. q \in Request /\ q.stage = "validate" /\ q.new = m
    BY <1>1 DEF Request, Stages
  <2>2. req' = [req EXCEPT ![r] = q]
    BY <1>2 DEF TypeOK
  <2>. QED  BY <1>2, <2>1, <2>2 DEF Becomes
<1>. DEFINE m == WithGroup(req[r].new)
<1>3. m \in Workload /\ Grouped(m)
  BY <1>1, DefaultedType
<1>4. CASE req' = [req EXCEPT ![r].new = m, ![r].stage = "validate"]
  BY <1>2, <1>3, <1>4
<1>5. CASE Reject(r)
  BY <1>5 DEF Reject, Becomes
<1>6. ASSUME NEW u \in Uids, m.label # None,
             req' = [req EXCEPT
                       ![r].new = [m EXCEPT !.owner = [name |-> m.label, uid |-> u]],
                       ![r].stage = "validate"]
      PROVE  \E q \in Request : /\ Becomes(r, q) /\ q.stage = "validate"
                                /\ Grouped(q.new)
  <2>1. m.label \in Clusters
    BY <1>3, <1>6 DEF Workload
  <2>2. /\ [m EXCEPT !.owner = [name |-> m.label, uid |-> u]] \in Workload
        /\ Grouped([m EXCEPT !.owner = [name |-> m.label, uid |-> u]])
    BY <1>1, <2>1, DefaultedType
  <2>. QED  BY <1>2, <1>6, <2>2
<1>. QED  BY <1>4, <1>5, <1>6 DEF Default

\* What validate has established of m when it has found no error.
ClusterChecked(m) ==
  /\ ~MissingLabel(m)
  /\ \E answer \in Answers(cls[m.label]) : ValidClusterReference(m, answer)

\* The first half of validate changes nothing but the stage and errs.
LEMMA ValidateStep ==
  ASSUME TypeOK, NEW r \in Requests, Validate(r)
  PROVE  \/ Becomes(r, None)
         \/ \E q \in Request :
              /\ Becomes(r, q) /\ At(r, "validate")
              /\ q.new = req[r].new /\ q.old = req[r].old
              /\ q.workload = req[r].workload
              /\ ValidateUpdate(q.old, q.new)
              /\ \/ q.stage = "template" /\ q.new.ref # None
                    /\ (~q.errs => ClusterChecked(q.new))
                 \/ q.stage = "admitted" /\ q.new.ref = None
                    /\ ClusterChecked(q.new)
<1>. DEFINE m == req[r].new
            Report(errs) ==
              \/ m.ref = None /\ errs /\ Reject(r)
              \/ m.ref = None /\ ~errs /\ Pass(r, "admitted")
              \/ /\ m.ref # None
                 /\ req' = [req EXCEPT ![r].errs = errs, ![r].stage = "template"]
            Goal == \/ Becomes(r, None)
                    \/ \E q \in Request :
                         /\ Becomes(r, q) /\ At(r, "validate")
                         /\ q.new = req[r].new /\ q.old = req[r].old
                         /\ q.workload = req[r].workload
                         /\ ValidateUpdate(q.old, q.new)
                         /\ \/ q.stage = "template" /\ q.new.ref # None
                               /\ (~q.errs => ClusterChecked(q.new))
                            \/ q.stage = "admitted" /\ q.new.ref = None
                               /\ ClusterChecked(q.new)
<1>1. req[r] \in Request /\ At(r, "validate")
  BY RequestParts DEF Validate, At
<1>2. ASSUME Reject(r) PROVE Goal
  BY <1>2 DEF Reject, Becomes
<1>3. ASSUME ValidateUpdate(req[r].old, m), NEW e \in BOOLEAN, Report(e),
             ~e => ClusterChecked(m)
      PROVE  Goal
  <2>1. CASE Reject(r)
    BY <1>2, <2>1
  <2>2. CASE m.ref = None /\ ~e /\ Pass(r, "admitted")
    <3>. DEFINE q == [req[r] EXCEPT !.stage = "admitted"]
    <3>1. /\ q \in Request /\ q.stage = "admitted" /\ q.new = m
          /\ q.old = req[r].old /\ q.workload = req[r].workload
      BY <1>1 DEF Request, Stages
    <3>2. Becomes(r, q)
      BY <2>2, <3>1 DEF Pass, Becomes, TypeOK
    <3>. QED  BY <1>1, <1>3, <2>2, <3>1, <3>2, Zenon
  <2>3. CASE /\ m.ref # None
             /\ req' = [req EXCEPT ![r].errs = e, ![r].stage = "template"]
    <3>. DEFINE q == [req[r] EXCEPT !.errs = e, !.stage = "template"]
    <3>1. /\ q \in Request /\ q.stage = "template" /\ q.new = m /\ q.errs = e
          /\ q.old = req[r].old /\ q.workload = req[r].workload
      BY <1>1 DEF Request, Stages
    <3>2. Becomes(r, q)
      BY <2>3, <3>1 DEF Becomes, TypeOK
    <3>. QED  BY <1>1, <1>3, <2>3, <3>1, <3>2, Zenon
  <2>. QED  BY <1>3, <2>1, <2>2, <2>3
<1>4. CASE ~ValidateUpdate(req[r].old, m) /\ Reject(r)
  BY <1>2, <1>4
<1>5. CASE ValidateUpdate(req[r].old, m) /\ MissingLabel(m) /\ Report(TRUE)
  BY <1>3, <1>5
<1>6. ASSUME ValidateUpdate(req[r].old, m), ~MissingLabel(m),
             NEW answer \in Answers(cls[m.label]),
             Report(~ValidClusterReference(m, answer))
      PROVE  Goal
  <2>1. ValidClusterReference(m, answer) \in BOOLEAN
    BY DEF ValidClusterReference
  <2>2. PICK e \in BOOLEAN : e = ~ValidClusterReference(m, answer)
    BY <2>1
  <2>3. Report(e) /\ (~e => ClusterChecked(m))
    BY <1>6, <2>2 DEF ClusterChecked
  <2>. QED  BY <1>3, <1>6, <2>3
<1>. QED  BY <1>4, <1>5, <1>6 DEF Validate

\* The second half admits a request that has no errors, unless the template
\* does not build.
LEMMA TemplateStep ==
  ASSUME TypeOK, NEW r \in Requests, ValidateTemplate(r)
  PROVE  \/ Becomes(r, None)
         \/ \E q \in Request :
              /\ Becomes(r, q) /\ At(r, "template") /\ q.stage = "admitted"
              /\ q.new = req[r].new /\ q.old = req[r].old
              /\ LET s == Cached(tpl[q.new.ref.key])
                 IN  /\ s \in Source
                     /\ s.defect = "none" =>
                          ~InputForbidden(q.new, s) /\ ~req[r].errs
<1>1. At(r, "template") /\ req[r] # None
  BY DEF ValidateTemplate, At
<1>. DEFINE m == req[r].new
            s == Cached(tpl[m.ref.key])
            q == [req[r] EXCEPT !.stage = "admitted"]
<1>2. req[r] \in Request /\ m.ref # None
  BY <1>1, RequestParts DEF TypeOK
<1>3. s \in Source \cup {None}
  BY <1>1, <1>2, RequestParts, StreamRead
<1>4. /\ q \in Request /\ q.stage = "admitted" /\ q.new = m /\ q.old = req[r].old
  BY <1>2 DEF Request, Stages
<1>5. CASE Reject(r)
  BY <1>5 DEF Reject, Becomes
<1>6. CASE /\ Pass(r, "admitted") /\ s \in Source
           /\ s.defect = "none" => ~InputForbidden(m, s) /\ ~req[r].errs
  <2>1. Becomes(r, q)
    BY <1>4, <1>6 DEF Pass, Becomes, TypeOK
  <2>. QED  BY <1>1, <1>4, <1>6, <2>1, Zenon
<1>7. ASSUME NEW answer \in Answers(tpl[m.ref.key]), answer \in Source
      PROVE  answer = s
  BY <1>7, AdmissionNone DEF Answers
<1>. QED  BY <1>5, <1>6, <1>7 DEF ValidateTemplate

\* Store and Abort end a request.
LEMMA EndStep ==
  ASSUME NEW r \in Requests, Store(r) \/ Abort(r)
  PROVE  Becomes(r, None)
BY DEF Store, Abort, Becomes
-----------------------------------------------------------------------------
(* Type correctness.                                                        *)

\* A step of a request that leaves the surroundings alone.
LEMMA BecomesTypeOK ==
  ASSUME TypeOK, NEW r \in Requests, NEW q, Becomes(r, q),
         q # None /\ q.stage = "template" => q.new.ref # None,
         wl' \in [Workloads -> Workload \cup {None}],
         UNCHANGED << cls, tpl, used, edits, restarts >>
  PROVE  TypeOK'
BY DEF TypeOK, Becomes, At

\* The steps of a request.
LEMMA ServeTypeOK ==
  ASSUME TypeOK, NEW r \in Requests, Serve(r)
  PROVE  TypeOK'
<1>0. wl \in [Workloads -> Workload \cup {None}]
  BY DEF TypeOK
<1>1. ASSUME NEW w \in Workloads, NEW m \in Manifests, Submit(r, w, m)
      PROVE  TypeOK'
  BY <1>0, <1>1, SubmitStep, BecomesTypeOK DEF Submit
<1>2. CASE Default(r)
  <2>1. UNCHANGED << wl, cls, tpl, used, edits, restarts >>
    BY <1>2 DEF Default
  <2>. QED  BY <1>0, <1>2, <2>1, DefaultStep, BecomesTypeOK
<1>3. CASE Validate(r)
  <2>1. UNCHANGED << wl, cls, tpl, used, edits, restarts >>
    BY <1>3 DEF Validate
  <2>2. CASE Becomes(r, None)
    BY <1>0, <2>1, <2>2, BecomesTypeOK
  <2>3. ASSUME NEW q \in Request, Becomes(r, q),
               q.stage = "template" => q.new.ref # None
        PROVE  TypeOK'
    BY <1>0, <2>1, <2>3, BecomesTypeOK
  <2>. QED  BY <1>3, <2>2, <2>3, ValidateStep
<1>4. CASE ValidateTemplate(r)
  <2>1. UNCHANGED << wl, cls, tpl, used, edits, restarts >>
    BY <1>4 DEF ValidateTemplate
  <2>. QED  BY <1>0, <1>4, <2>1, TemplateStep, BecomesTypeOK
<1>5. CASE Store(r)
  <2>1. req[r] # None /\ UNCHANGED << cls, tpl, used, edits, restarts >>
    BY <1>5 DEF Store, At
  <2>2. wl' \in [Workloads -> Workload \cup {None}]
    BY <1>0, <1>5, <2>1, RequestParts DEF Store
  <2>. QED  BY <1>5, <2>1, <2>2, EndStep, BecomesTypeOK
<1>6. CASE Abort(r)
  <2>1. UNCHANGED << wl, cls, tpl, used, edits, restarts >>
    BY <1>6 DEF Abort
  <2>. QED  BY <1>0, <1>6, <2>1, EndStep, BecomesTypeOK
<1>. QED  BY <1>1, <1>2, <1>3, <1>4, <1>5, <1>6 DEF Serve

\* Users, the watches and restarts.
Surroundings ==
  \/ \E w \in Workloads : DeleteWorkload(w)
  \/ \E u \in Uids : CreateCluster(u)
  \/ \E c \in Clusters : DeleteCluster(c) \/ DeliverCluster(c)
  \/ \E t \in Templates : DeliverTemplate(t)
                          \/ \E s \in Sources \cup {None} : PutTemplate(t, s)
  \/ Restart

\* The requests under way survive the surroundings, except for a restart.
LEMMA RequestsSurvive ==
  ASSUME TypeOK, Surroundings
  PROVE  /\ req' \in [Requests -> Request \cup {None}]
         /\ \A r \in Requests : req'[r] \in {req[r], None}
BY DEF TypeOK, Surroundings, DeleteWorkload, CreateCluster, DeleteCluster,
       DeliverCluster, DeliverTemplate, PutTemplate, Restart

\* The streams of clusters stay streams of a set P(c) of uids.
LEMMA ClustersStep ==
  ASSUME NEW P \in [Clusters -> SUBSET (Uids \cup {None})],
         \A c \in Clusters : None \in P[c],
         \A u \in Uids : u \in P[NameOf[u]],
         TypeOK, \A c \in Clusters : cls[c] \in Stream(P[c]), Next
  PROVE  \A c \in Clusters : cls'[c] \in Stream(P[c])
<1>. SUFFICES ASSUME NEW d \in Clusters PROVE cls'[d] \in Stream(P[d])
  OBVIOUS
<1>0. cls \in [Clusters -> Stream(Uids \cup {None})] /\ cls[d] \in Stream(P[d])
  BY DEF TypeOK
<1>1. CASE cls' = cls
  BY <1>0, <1>1
<1>2. ASSUME NEW c \in Clusters, NEW v \in P[c], cls' = [cls EXCEPT ![c] = Commit(@, v)]
      PROVE  cls'[d] \in Stream(P[d])
  BY <1>0, <1>2, StreamCommit
<1>3. ASSUME NEW u \in Uids, CreateCluster(u) PROVE cls'[d] \in Stream(P[d])
  BY <1>2, <1>3, AdmissionConstants DEF CreateCluster
<1>4. ASSUME NEW c \in Clusters, DeleteCluster(c) PROVE cls'[d] \in Stream(P[d])
  BY <1>2, <1>4 DEF DeleteCluster
<1>5. ASSUME NEW c \in Clusters, DeliverCluster(c) PROVE cls'[d] \in Stream(P[d])
  BY <1>0, <1>5, StreamDelivered DEF DeliverCluster
<1>6. CASE Restart
  BY <1>0, <1>6, StreamRelisted DEF Restart
<1>7. ASSUME NEW r \in Requests, Serve(r) PROVE cls' = cls
  BY <1>7 DEF Serve, Submit, Default, Validate, ValidateTemplate, Store, Abort
<1>. QED
  BY <1>1, <1>3, <1>4, <1>5, <1>6, <1>7
  DEF Next, DeleteWorkload, DeliverTemplate, PutTemplate

\* The streams of templates stay streams of a set P of sources, if the
\* template webhook lets no others through.
LEMMA TemplatesStep ==
  ASSUME NEW P \in SUBSET (Source \cup {None}), None \in P,
         \A s \in Sources : validate(s) => s \in P,
         TypeOK, tpl \in [Templates -> Stream(P)], Next
  PROVE  tpl' \in [Templates -> Stream(P)]
<1>1. ASSUME NEW t \in Templates, DeliverTemplate(t) PROVE tpl' \in [Templates -> Stream(P)]
  BY <1>1, StreamDelivered DEF DeliverTemplate
<1>2. ASSUME NEW t \in Templates, NEW s \in Sources \cup {None}, PutTemplate(t, s)
      PROVE  tpl' \in [Templates -> Stream(P)]
  <2>1. s \in P
    BY <1>2 DEF PutTemplate
  <2>. QED  BY <1>2, <2>1, StreamCommit DEF PutTemplate
<1>3. CASE Restart
  BY <1>3, StreamRelisted DEF Restart
<1>4. ASSUME NEW r \in Requests, Serve(r) PROVE tpl' = tpl
  BY <1>4 DEF Serve, Submit, Default, Validate, ValidateTemplate, Store, Abort
<1>. QED
  BY <1>1, <1>2, <1>3, <1>4
  DEF Next, DeleteWorkload, CreateCluster, DeleteCluster, DeliverCluster

\* The remaining variables under the surroundings.
LEMMA SurroundingsTypeOK ==
  ASSUME TypeOK, Surroundings
  PROVE  TypeOK'
<1>1. /\ req' \in [Requests -> Request \cup {None}]
      /\ \A r \in Requests : (At(r, "template") => req[r].new.ref # None)'
  BY RequestsSurvive DEF TypeOK, At
<1>2. Next
  BY DEF Surroundings, Next
<1>3. cls' \in [Clusters -> Stream(Uids \cup {None})]
  <2>. DEFINE P == [c \in Clusters |-> Uids \cup {None}]
  <2>1. \A c \in Clusters : cls'[c] \in Stream(P[c])
    <3>. HIDE DEF P
    <3>1. /\ P \in [Clusters -> SUBSET (Uids \cup {None})]
          /\ \A c \in Clusters : P[c] = Uids \cup {None}
      BY DEF P
    <3>. QED  BY <1>2, <3>1, ClustersStep, AdmissionConstants DEF TypeOK
  <2>2. cls' = [c \in Clusters |-> cls'[c]]
    BY DEF TypeOK, Surroundings, DeleteWorkload, CreateCluster, DeleteCluster,
           DeliverCluster, DeliverTemplate, PutTemplate, Restart
  <2>. QED  BY <2>1, <2>2
<1>4. tpl' \in [Templates -> Stream(Source \cup {None})]
  BY <1>2, TemplatesStep, AdmissionConstants DEF TypeOK
<1>5. wl' \in [Workloads -> Workload \cup {None}] /\ used' \subseteq Uids
  BY DEF TypeOK, Surroundings, DeleteWorkload, CreateCluster, DeleteCluster,
         DeliverCluster, DeliverTemplate, PutTemplate, Restart
<1>6. edits' \in [Templates -> 0..MaxEdits] /\ restarts' \in 0..MaxRestarts
  BY AdmissionConstants
  DEF TypeOK, Surroundings, DeleteWorkload, CreateCluster, DeleteCluster,
      DeliverCluster, DeliverTemplate, PutTemplate, Restart
<1>. QED  BY <1>1, <1>3, <1>4, <1>5, <1>6 DEF TypeOK

\* Type correctness of the webhooks' specification, for every set of
\* clusters, templates, manifests and concurrent requests: in particular a
\* template is looked up only for a workload that refers to one.
THEOREM AdmissionTypeCorrect == Spec => []TypeOK
<1>1. Init => TypeOK
  <2>. SUFFICES ASSUME Init PROVE TypeOK
    OBVIOUS
  <2>1. tpl \in [Templates -> Stream(Source \cup {None})]
    BY StreamOne, AdmissionConstants DEF Init
  <2>2. cls \in [Clusters -> Stream(Uids \cup {None})]
    BY StreamOne DEF Init
  <2>3. edits \in [Templates -> 0..MaxEdits] /\ restarts \in 0..MaxRestarts
    BY AdmissionConstants DEF Init
  <2>. QED  BY <2>1, <2>2, <2>3 DEF Init, TypeOK, At
<1>2. TypeOK /\ [Next]_vars => TypeOK'
  <2>. SUFFICES ASSUME TypeOK, [Next]_vars PROVE TypeOK'
    OBVIOUS
  <2>1. CASE UNCHANGED vars
    BY <2>1 DEF vars, TypeOK, At
  <2>2. CASE Next
    BY <2>2, ServeTypeOK, SurroundingsTypeOK DEF Next, Surroundings
  <2>. QED  BY <2>1, <2>2
<1>. QED  BY <1>1, <1>2, PTL DEF Spec
-----------------------------------------------------------------------------
(* The references of a workload are immutable.                              *)

\* A request past the first half of validate has been compared with the
\* version it is to replace.
RequestsChecked ==
  \A r \in Requests : At(r, "template") \/ At(r, "admitted") =>
    ValidateUpdate(req[r].old, req[r].new)

\* The comparison survives every step.
LEMMA CheckedStep ==
  ASSUME TypeOK, RequestsChecked, [Next]_vars
  PROVE  RequestsChecked'
<1>0. req \in [Requests -> Request \cup {None}]
  BY DEF TypeOK
<1>1. CASE UNCHANGED vars
  BY <1>1 DEF vars, RequestsChecked, At
<1>2. CASE Surroundings
  BY <1>2, RequestsSurvive DEF RequestsChecked, At
<1>3. ASSUME NEW r \in Requests, NEW q, Becomes(r, q),
             q # None /\ q.stage \in {"template", "admitted"} =>
               ValidateUpdate(q.old, q.new)
      PROVE  RequestsChecked'
  BY <1>0, <1>3 DEF Becomes, RequestsChecked, At
<1>4. ASSUME NEW r \in Requests, Serve(r) PROVE RequestsChecked'
  <2>1. ASSUME NEW w \in Workloads, NEW m \in Manifests, Submit(r, w, m)
        PROVE  RequestsChecked'
    BY <1>3, <2>1, SubmitStep
  <2>2. CASE Default(r)
    BY <1>3, <2>2, DefaultStep
  <2>3. CASE Validate(r)
    BY <1>3, <2>3, ValidateStep
  <2>4. CASE ValidateTemplate(r)
    BY <1>3, <2>4, TemplateStep DEF RequestsChecked
  <2>5. CASE Store(r) \/ Abort(r)
    BY <1>3, <2>5, EndStep
  <2>. QED  BY <1>4, <2>1, <2>2, <2>3, <2>4, <2>5 DEF Serve
<1>. QED  BY <1>1, <1>2, <1>4 DEF Next, Surroundings

\* A step stores a workload, removes one or leaves them alone.
LEMMA StoredBy ==
  ASSUME TypeOK, Next
  PROVE  \/ UNCHANGED wl
         \/ \E w \in Workloads : wl' = [wl EXCEPT ![w] = None]
         \/ \E r \in Requests : /\ At(r, "admitted")
                                /\ wl[req[r].workload] = req[r].old
                                /\ wl' = [wl EXCEPT ![req[r].workload] = req[r].new]
<1>1. ASSUME NEW w \in Workloads, DeleteWorkload(w) PROVE wl' = [wl EXCEPT ![w] = None]
  BY <1>1 DEF DeleteWorkload
<1>2. ASSUME NEW r \in Requests, Store(r)
      PROVE  \/ UNCHANGED wl
             \/ /\ At(r, "admitted")
                /\ wl[req[r].workload] = req[r].old
                /\ wl' = [wl EXCEPT ![req[r].workload] = req[r].new]
  BY <1>2 DEF Store
<1>3. ASSUME NEW r \in Requests, Serve(r), ~Store(r) PROVE UNCHANGED wl
  BY <1>3 DEF Serve, Submit, Default, Validate, ValidateTemplate, Abort
<1>. QED
  BY <1>1, <1>2, <1>3
  DEF Next, CreateCluster, DeleteCluster, DeliverCluster, DeliverTemplate,
      PutTemplate, Restart

\* No update changes the cluster label, the organization label or the name
\* of the template reference of a stored workload, for any number of
\* concurrent requests (ValidateUpdate and the conflict check of the write).
THEOREM ReferencesAreImmutable == Spec => ReferencesImmutable
<1>1. Init => RequestsChecked
  BY DEF Init, RequestsChecked, At
<1>2. TypeOK /\ RequestsChecked /\ [Next]_vars => RequestsChecked'
  BY CheckedStep
<1>3. ASSUME TypeOK, RequestsChecked, [Next]_vars
      PROVE  [\A w \in Workloads : SameReferences(w)]_vars
  <2>. SUFFICES ASSUME Next, NEW w \in Workloads PROVE SameReferences(w)
    BY <1>3
  <2>0. wl \in [Workloads -> Workload \cup {None}]
    BY <1>3 DEF TypeOK
  <2>1. CASE UNCHANGED wl
    BY <2>1 DEF SameReferences
  <2>2. ASSUME NEW v \in Workloads, wl' = [wl EXCEPT ![v] = None]
        PROVE  SameReferences(w)
    BY <2>0, <2>2 DEF SameReferences
  <2>3. ASSUME NEW r \in Requests, At(r, "admitted"),
               wl[req[r].workload] = req[r].old,
               wl' = [wl EXCEPT ![req[r].workload] = req[r].new]
        PROVE  SameReferences(w)
    <3>1. ValidateUpdate(req[r].old, req[r].new)
      BY <1>3, <2>3 DEF RequestsChecked
    <3>2. CASE w = req[r].workload
      BY <2>0, <2>3, <3>1, <3>2 DEF SameReferences, ValidateUpdate, validTemplateReferenceUpdate,
         validClusterReferenceUpdate, validOrganizationReferenceUpdate
    <3>3. CASE w # req[r].workload
      <4>1. wl'[w] = wl[w]
        BY <2>0, <2>3, <3>3
      <4>. QED  BY <4>1 DEF SameReferences
    <3>. QED  BY <3>2, <3>3
  <2>. QED  BY <1>3, <2>1, <2>2, <2>3, StoredBy
<1>. QED
  BY <1>1, <1>2, <1>3, AdmissionTypeCorrect, PTL DEF Spec, ReferencesImmutable
-----------------------------------------------------------------------------
(* What is admitted is consistent, if the templates build.                  *)

\* The sources that build, and the clusters of a name.
Building == {s \in Source : s.defect = "none"} \cup {None}
Named(c) == {u \in Uids : NameOf[u] = c} \cup {None}

\* Every template that the cache can serve builds: what the template webhook
\* adds to the promise of the workload webhook.
TemplatesBuild == tpl \in [Templates -> Stream(Building)]

\* Every version of a cluster has the name it is read by.
ClustersNamed == \A c \in Clusters : cls[c] \in Stream(Named(c))

\* A request without errors is consistent from the cluster check on.
RequestsConsistent ==
  \A r \in Requests : req[r] # None =>
    /\ req[r].stage # "default" => Grouped(req[r].new)
    /\ (req[r].stage = "template" /\ ~req[r].errs) \/ req[r].stage = "admitted"
         => Consistent(req[r].new)

AdmissionInv ==
  TemplatesBuild /\ ClustersNamed /\ RequestsConsistent /\ AdmittedConsistent

\* The templates keep building: the template webhook lets no other through.
LEMMA TemplatesBuildStep ==
  ASSUME TypeOK, TemplatesBuild, [Next]_vars
  PROVE  TemplatesBuild'
<1>1. CASE UNCHANGED vars
  BY <1>1 DEF vars, TemplatesBuild
<1>2. CASE Next
  <2>1. \A s \in Sources : validate(s) => s \in Building
    BY AdmissionConstants DEF validate, Building
  <2>2. Building \in SUBSET (Source \cup {None}) /\ None \in Building
    BY DEF Building
  <2>. QED  BY <1>2, <2>1, <2>2, TemplatesStep DEF TemplatesBuild
<1>. QED  BY <1>1, <1>2

\* A workload whose cluster reference is valid for an answer of the cache.
LEMMA CheckedIsConsistent ==
  ASSUME TypeOK, ClustersNamed, NEW m \in Workload, Grouped(m), ClusterChecked(m)
  PROVE  Consistent(m)
<1>1. PICK answer \in Answers(cls[m.label]) : ValidClusterReference(m, answer)
  BY DEF ClusterChecked
<1>2. ~MissingLabel(m) /\ m.label \in Clusters
  BY DEF ClusterChecked, MissingLabel, Workload
<1>3. answer \in Uids /\ answer \in Named(m.label)
  <2>1. Cached(cls[m.label]) \in Named(m.label)
    BY <1>2, StreamRead DEF ClustersNamed
  <2>2. answer \in Uids /\ answer \in {Cached(cls[m.label]), Failed}
    BY <1>1 DEF ValidClusterReference, Answers
  <2>. QED  BY <2>1, <2>2, AdmissionNone
<1>4. NameOf[answer] = m.label
  BY <1>3, AdmissionNone DEF Named
<1>5. m.owner # None => /\ m.owner.name = m.label /\ m.owner.uid = answer
                        /\ OrgOf[answer] \in {None, m.org}
  BY <1>1 DEF ValidClusterReference
<1>. QED  BY <1>2, <1>4, <1>5 DEF Consistent, Grouped

\* Consistency of the requests survives every step.
LEMMA ConsistentRequestsStep ==
  ASSUME TypeOK, AdmissionInv, [Next]_vars
  PROVE  RequestsConsistent'
<1>0. req \in [Requests -> Request \cup {None}]
  BY DEF TypeOK
<1>1. CASE UNCHANGED vars
  BY <1>1 DEF vars, AdmissionInv, RequestsConsistent
<1>2. CASE Surroundings
  BY <1>2, RequestsSurvive DEF AdmissionInv, RequestsConsistent
<1>3. ASSUME NEW r \in Requests, NEW q, Becomes(r, q),
             q # None =>
               /\ q.stage # "default" => Grouped(q.new)
               /\ (q.stage = "template" /\ ~q.errs) \/ q.stage = "admitted"
                    => Consistent(q.new)
      PROVE  RequestsConsistent'
  BY <1>0, <1>3 DEF Becomes, AdmissionInv, RequestsConsistent
<1>4. ASSUME NEW r \in Requests, Serve(r) PROVE RequestsConsistent'
  <2>1. ASSUME NEW w \in Workloads, NEW m \in Manifests, Submit(r, w, m)
        PROVE  RequestsConsistent'
    BY <1>3, <2>1, SubmitStep
  <2>2. CASE Default(r)
    BY <1>3, <2>2, DefaultStep
  <2>3. CASE Validate(r)
    <3>1. ASSUME NEW q \in Request, Becomes(r, q), At(r, "validate"),
                 q.new = req[r].new,
                 \/ q.stage = "template" /\ (~q.errs => ClusterChecked(q.new))
                 \/ q.stage = "admitted" /\ ClusterChecked(q.new)
          PROVE  RequestsConsistent'
      <4>1. q.new \in Workload /\ Grouped(q.new)
        BY <3>1 DEF Request, At, AdmissionInv, RequestsConsistent
      <4>2. ClusterChecked(q.new) => Consistent(q.new)
        BY <4>1, CheckedIsConsistent DEF AdmissionInv
      <4>. QED  BY <1>3, <3>1, <4>1, <4>2
    <3>. QED  BY <1>3, <2>3, <3>1, ValidateStep
  <2>4. CASE ValidateTemplate(r)
    <3>1. ASSUME NEW q \in Request, Becomes(r, q), At(r, "template"),
                 q.stage = "admitted", q.new = req[r].new,
                 Cached(tpl[q.new.ref.key]) \in Source,
                 Cached(tpl[q.new.ref.key]).defect = "none" => ~req[r].errs
          PROVE  RequestsConsistent'
      <4>1. req[r] # None /\ req[r].new.ref # None /\ req[r].new \in Workload
        BY <3>1, RequestParts DEF At, TypeOK
      <4>2. q.new.ref.key \in Templates
        BY <3>1, <4>1 DEF Workload, TemplateRef
      <4>3. Cached(tpl[q.new.ref.key]) \in Building
        BY <4>2, StreamRead DEF AdmissionInv, TemplatesBuild
      <4>4. ~req[r].errs
        BY <3>1, <4>3, AdmissionNone DEF Building
      <4>5. Grouped(q.new) /\ Consistent(q.new)
        BY <3>1, <4>4 DEF At, AdmissionInv, RequestsConsistent
      <4>. QED  BY <1>3, <3>1, <4>5
    <3>. QED  BY <1>3, <2>4, <3>1, TemplateStep
  <2>5. CASE Store(r) \/ Abort(r)
    BY <1>3, <2>5, EndStep
  <2>. QED  BY <1>4, <2>1, <2>2, <2>3, <2>4, <2>5 DEF Serve
<1>. QED  BY <1>1, <1>2, <1>4 DEF Next, Surroundings

\* If the templates from before the webhooks build, every workload that gets
\* past the webhooks has its labels and is owned, if at all, by the cluster
\* its label names, incarnation included, of the same organization.
THEOREM AdmittedAreConsistent ==
  ASSUME \A s \in InitialSources : s.defect = "none"
  PROVE  Spec => []AdmittedConsistent
<1>1. Init => AdmissionInv
  <2>. SUFFICES ASSUME Init PROVE AdmissionInv
    OBVIOUS
  <2>1. TemplatesBuild
    <3>1. \A s \in InitialSources \cup {None} : << s >> \in Stream(Building)
      BY StreamOne, AdmissionConstants DEF Building
    <3>. QED  BY <3>1 DEF Init, TemplatesBuild
  <2>2. ClustersNamed
    BY StreamOne DEF Init, ClustersNamed, Named
  <2>3. RequestsConsistent /\ AdmittedConsistent
    BY DEF Init, RequestsConsistent, AdmittedConsistent
  <2>. QED  BY <2>1, <2>2, <2>3 DEF AdmissionInv
<1>2. TypeOK /\ AdmissionInv /\ [Next]_vars => AdmissionInv'
  <2>. SUFFICES ASSUME TypeOK, AdmissionInv, [Next]_vars PROVE AdmissionInv'
    OBVIOUS
  <2>1. TemplatesBuild'
    BY TemplatesBuildStep DEF AdmissionInv
  <2>2. ClustersNamed'
    <3>1. CASE UNCHANGED vars
      BY <3>1 DEF vars, AdmissionInv, ClustersNamed
    <3>2. CASE Next
      <4>. DEFINE P == [c \in Clusters |-> Named(c)]
      <4>1. /\ P \in [Clusters -> SUBSET (Uids \cup {None})]
            /\ \A c \in Clusters : P[c] = Named(c) /\ None \in P[c]
            /\ \A u \in Uids : u \in P[NameOf[u]]
        BY AdmissionConstants DEF Named
      <4>. HIDE DEF P
      <4>2. \A c \in Clusters : cls'[c] \in Stream(P[c])
        BY <3>2, <4>1, ClustersStep DEF AdmissionInv, ClustersNamed
      <4>. QED  BY <4>1, <4>2 DEF ClustersNamed
    <3>. QED  BY <3>1, <3>2
  <2>3. AdmittedConsistent'
    <3>0. wl \in [Workloads -> Workload \cup {None}]
      BY DEF TypeOK
    <3>1. CASE UNCHANGED wl
      BY <3>1 DEF AdmissionInv, AdmittedConsistent
    <3>2. ASSUME NEW v \in Workloads, wl' = [wl EXCEPT ![v] = None]
          PROVE  AdmittedConsistent'
      BY <3>0, <3>2 DEF AdmissionInv, AdmittedConsistent
    <3>3. ASSUME NEW r \in Requests, At(r, "admitted"),
                 wl' = [wl EXCEPT ![req[r].workload] = req[r].new]
          PROVE  AdmittedConsistent'
      <4>1. Consistent(req[r].new)
        BY <3>3 DEF At, AdmissionInv, RequestsConsistent
      <4>. QED  BY <3>0, <3>3, <4>1 DEF AdmissionInv, AdmittedConsistent
    <3>. QED  BY <3>1, <3>2, <3>3, StoredBy DEF vars
  <2>. QED  BY <2>1, <2>2, <2>3, ConsistentRequestsStep DEF AdmissionInv
<1>3. AdmissionInv => AdmittedConsistent
  BY DEF AdmissionInv
<1>. QED  BY <1>1, <1>2, <1>3, AdmissionTypeCorrect, PTL DEF Spec
-----------------------------------------------------------------------------
(* The inputs of the workloads fit their templates.                         *)

\* The cache has the stored version of a template nobody has changed.
UneditedSynced == \A t \in Templates : edits[t] = 0 => Synced(tpl[t])

\* A request that is to be stored has an input that fits, although its
\* template was looked up some time ago.
RequestsFit == \A r \in Requests : At(r, "admitted") => Fits(req[r].new)

InputsInv == TemplatesBuild /\ UneditedSynced /\ RequestsFit /\ InputsFit

\* A template that nobody has changed after a step was not changed by it.
LEMMA UneditedStep ==
  ASSUME TypeOK, UneditedSynced, [Next]_vars
  PROVE  \A t \in Templates : edits'[t] = 0 =>
           /\ edits[t] = 0 /\ Synced(tpl'[t])
           /\ Live(tpl'[t]) = Live(tpl[t])
<1>. SUFFICES ASSUME NEW t \in Templates, edits'[t] = 0
              PROVE  edits[t] = 0 /\ Synced(tpl'[t]) /\ Live(tpl'[t]) = Live(tpl[t])
  OBVIOUS
<1>0. /\ tpl \in [Templates -> Stream(Source \cup {None})]
      /\ tpl[t] \in Stream(Source \cup {None})
      /\ edits \in [Templates -> 0..MaxEdits] /\ edits[t] \in 0..MaxEdits
  BY DEF TypeOK
<1>1. CASE UNCHANGED << tpl, edits >>
  BY <1>1 DEF UneditedSynced
<1>2. ASSUME NEW u \in Templates, DeliverTemplate(u)
      PROVE  edits[t] = 0 /\ Synced(tpl'[t]) /\ Live(tpl'[t]) = Live(tpl[t])
  BY <1>0, <1>2 DEF DeliverTemplate, UneditedSynced
<1>3. ASSUME NEW u \in Templates, NEW s \in Sources \cup {None}, PutTemplate(u, s)
      PROVE  edits[t] = 0 /\ Synced(tpl'[t]) /\ Live(tpl'[t]) = Live(tpl[t])
  <2>1. u # t
    BY <1>0, <1>3 DEF PutTemplate
  <2>2. edits'[t] = edits[t] /\ tpl'[t] = tpl[t]
    BY <1>0, <1>3, <2>1 DEF PutTemplate
  <2>. QED  BY <2>2 DEF UneditedSynced
<1>4. CASE Restart
  BY <1>0, <1>4, StreamRelisted DEF Restart
<1>5. ASSUME NEW r \in Requests, Serve(r) PROVE UNCHANGED << tpl, edits >>
  BY <1>5 DEF Serve, Submit, Default, Validate, ValidateTemplate, Store, Abort
<1>. QED
  BY <1>1, <1>2, <1>3, <1>4, <1>5
  DEF Next, vars, DeleteWorkload, CreateCluster, DeleteCluster, DeliverCluster

\* A workload that fits does so after every step.
LEMMA FitsKept ==
  ASSUME TypeOK, UneditedSynced, [Next]_vars, NEW m \in Workload, Fits(m)
  PROVE  Fits(m)'
<1>1. m.ref # None => m.ref.key \in Templates
  BY DEF Workload, TemplateRef
<1>. QED  BY <1>1, UneditedStep DEF Fits

\* What validate admits fits.
LEMMA AdmittedFits ==
  ASSUME TypeOK, TemplatesBuild, UneditedSynced, NEW m \in Workload, m.ref # None,
         Cached(tpl[m.ref.key]) \in Source,
         Cached(tpl[m.ref.key]).defect = "none" =>
           ~InputForbidden(m, Cached(tpl[m.ref.key]))
  PROVE  Fits(m)
<1>. DEFINE t == m.ref.key
            s == Cached(tpl[t])
<1>1. t \in Templates
  BY DEF Workload, TemplateRef
<1>2. s \in Building
  BY <1>1, StreamRead DEF TemplatesBuild
<1>3. s \in Source /\ s # None /\ ~InputForbidden(m, s)
  BY <1>2, AdmissionNone DEF Building
<1>4. m.input \in Takes(s)
  BY <1>3 DEF InputForbidden, Takes
<1>5. edits[t] = 0 => Live(tpl[t]) = s
  BY <1>1 DEF UneditedSynced, Synced, Live, Cached
<1>. QED  BY <1>3, <1>4, <1>5 DEF Fits

\* The requests to be stored fit after every step.
LEMMA FittingRequestsStep ==
  ASSUME TypeOK, InputsInv, [Next]_vars
  PROVE  RequestsFit'
<1>0. req \in [Requests -> Request \cup {None}]
  BY DEF TypeOK
<1>1. TemplatesBuild /\ UneditedSynced /\ RequestsFit
  BY DEF InputsInv
<1>2. ASSUME NEW r \in Requests, req'[r] # None, req'[r].new \in Workload,
             Fits(req'[r].new)
      PROVE  (Fits(req[r].new))'
  <2>1. PICK m \in Workload : m = req'[r].new
    BY <1>2
  <2>2. Fits(m)
    BY <1>2, <2>1
  <2>3. Fits(m)'
    BY <1>1, <2>2, FitsKept
  <2>. QED  BY <2>1, <2>3 DEF Fits
<1>3. ASSUME NEW r \in Requests, req'[r] # None, req'[r] = req[r],
             At(r, "admitted")'
      PROVE  (Fits(req[r].new))'
  <2>1. At(r, "admitted") /\ req[r] # None
    BY <1>3 DEF At
  <2>. QED  BY <1>1, <1>2, <1>3, <2>1, RequestParts DEF RequestsFit
<1>4. CASE UNCHANGED vars \/ Surroundings
  <2>1. \A r \in Requests : req'[r] \in {req[r], None}
    BY <1>4, RequestsSurvive DEF vars
  <2>. QED  BY <1>3, <2>1 DEF RequestsFit, At
<1>5. ASSUME NEW r \in Requests, NEW q, Becomes(r, q),
             q # None /\ q.stage = "admitted" => Fits(q.new)
      PROVE  RequestsFit'
  <2>. SUFFICES ASSUME NEW p \in Requests, At(p, "admitted")'
                PROVE  (Fits(req[p].new))'
    BY DEF RequestsFit
  <2>1. req'[p] # None /\ req'[p].stage = "admitted"
    BY DEF At
  <2>2. CASE p # r
    BY <1>0, <1>3, <1>5, <2>1, <2>2 DEF Becomes
  <2>3. CASE p = r
    <3>1. req'[p] = q /\ q \in Request
      BY <1>0, <1>5, <2>1, <2>3 DEF Becomes
    <3>. QED  BY <1>2, <1>5, <2>1, <3>1 DEF Request
  <2>. QED  BY <2>2, <2>3
<1>6. ASSUME NEW r \in Requests, Serve(r) PROVE RequestsFit'
  <2>1. ASSUME NEW w \in Workloads, NEW m \in Manifests, Submit(r, w, m)
        PROVE  RequestsFit'
    BY <1>5, <2>1, SubmitStep
  <2>2. CASE Default(r)
    BY <1>5, <2>2, DefaultStep
  <2>3. CASE Validate(r)
    <3>1. ASSUME NEW q \in Request, Becomes(r, q), q.new.ref = None
          PROVE  RequestsFit'
      BY <1>5, <3>1 DEF Fits
    <3>. QED  BY <1>5, <2>3, <3>1, ValidateStep
  <2>4. CASE ValidateTemplate(r)
    <3>1. ASSUME NEW q \in Request, Becomes(r, q), At(r, "template"),
                 q.new = req[r].new, Cached(tpl[q.new.ref.key]) \in Source,
                 Cached(tpl[q.new.ref.key]).defect = "none" =>
                   ~InputForbidden(q.new, Cached(tpl[q.new.ref.key]))
          PROVE  RequestsFit'
      <4>1. q.new.ref # None /\ q.new \in Workload
        BY <3>1 DEF TypeOK, Request
      <4>2. Fits(q.new)
        BY <1>1, <3>1, <4>1, AdmittedFits
      <4>. QED  BY <1>5, <3>1, <4>2
    <3>. QED  BY <1>5, <2>4, <3>1, TemplateStep
  <2>5. CASE Store(r) \/ Abort(r)
    BY <1>5, <2>5, EndStep
  <2>. QED  BY <1>6, <2>1, <2>2, <2>3, <2>4, <2>5 DEF Serve
<1>. QED  BY <1>4, <1>6 DEF Next, Surroundings

\* If the templates from before the webhooks build, a stored workload has an
\* input that its template takes for as long as nobody changes the template,
\* for any number of concurrent updates of references and inputs.
THEOREM InputsAlwaysFit ==
  ASSUME \A s \in InitialSources : s.defect = "none"
  PROVE  Spec => []InputsFit
<1>1. Init => InputsInv
  <2>. SUFFICES ASSUME Init PROVE InputsInv
    OBVIOUS
  <2>1. \A s \in InitialSources \cup {None} : << s >> \in Stream(Building) /\ Synced(<< s >>)
    BY StreamOne, AdmissionConstants DEF Building
  <2>2. TemplatesBuild /\ UneditedSynced
    BY <2>1 DEF Init, TemplatesBuild, UneditedSynced
  <2>3. RequestsFit /\ InputsFit
    BY DEF Init, RequestsFit, InputsFit, At
  <2>. QED  BY <2>2, <2>3 DEF InputsInv
<1>2. TypeOK /\ InputsInv /\ [Next]_vars => InputsInv'
  <2>. SUFFICES ASSUME TypeOK, InputsInv, [Next]_vars PROVE InputsInv'
    OBVIOUS
  <2>1. TemplatesBuild'
    BY TemplatesBuildStep DEF InputsInv
  <2>2. UneditedSynced'
    BY UneditedStep DEF InputsInv, UneditedSynced
  <2>3. InputsFit'
    <3>0. wl \in [Workloads -> Workload \cup {None}]
      BY DEF TypeOK
    <3>. SUFFICES ASSUME NEW w \in Workloads, wl'[w] # None PROVE (Fits(wl[w]))'
      BY DEF InputsFit
    <3>1. ASSUME wl'[w] \in Workload, Fits(wl'[w]) PROVE (Fits(wl[w]))'
      <4>1. PICK m \in Workload : m = wl'[w]
        BY <3>1
      <4>2. Fits(m)
        BY <3>1, <4>1
      <4>3. Fits(m)'
        BY <4>2, FitsKept DEF InputsInv
      <4>. QED  BY <4>1, <4>3 DEF Fits
    <3>2. CASE wl'[w] = wl[w]
      BY <3>0, <3>1, <3>2 DEF InputsInv, InputsFit
    <3>3. ASSUME NEW v \in Workloads, wl' = [wl EXCEPT ![v] = None]
          PROVE  wl'[w] = wl[w]
      BY <3>0, <3>3
    <3>4. ASSUME NEW r \in Requests, At(r, "admitted"),
                 wl' = [wl EXCEPT ![req[r].workload] = req[r].new]
          PROVE  (Fits(wl[w]))'
      <4>1. Fits(req[r].new) /\ req[r].new \in Workload
        BY <3>4, RequestParts DEF At, InputsInv, RequestsFit
      <4>. QED  BY <3>0, <3>1, <3>2, <3>4, <4>1
    <3>. QED  BY <3>2, <3>3, <3>4, StoredBy DEF vars
  <2>. QED  BY <2>1, <2>2, <2>3, FittingRequestsStep DEF InputsInv
<1>3. InputsInv => InputsFit
  BY DEF InputsInv
<1>. QED  BY <1>1, <1>2, <1>3, AdmissionTypeCorrect, PTL DEF Spec
=============================================================================
