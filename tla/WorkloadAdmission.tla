------------------------- MODULE WorkloadAdmission -------------------------
(***************************************************************************)
(* The admission webhooks of webhooks/workload_webhook.go and              *)
(* webhooks/workloadtemplate_webhook.go.  The API server hands a request   *)
(* to create or update a Workload first to Default, then to ValidateCreate *)
(* or ValidateUpdate, and stores the result if both agree and the workload *)
(* has not changed meanwhile.  Each webhook reads clusters and templates   *)
(* from the manager's cache at its own moment, while clusters are created  *)
(* and deleted, templates edited and other requests served.                *)
(***************************************************************************)
EXTENDS Informer

CONSTANTS
  Workloads, Clusters, Templates,
  RefName,        \* the name in a template's key, without its namespace
  Uids,           \* the clusters that come to exist over time
  NameOf, OrgOf,  \* the name and the organization label of each of them
  Orgs, Inputs,
  Manifests,      \* the workloads that users submit
  Sources,        \* the template sources that users submit
  InitialSources, \* sources stored before the webhooks were enabled
  Requests,       \* requests that can be under way at the same time
  MaxEdits,       \* bound on the changes of each template
  MaxRestarts,    \* bound on restarts of the manager
  None, Failed    \* no value; a read that fails

\* A CUE source: whether it loads and builds, the definitions it has, and
\* the inputs that its #Input accepts (None: no input, validated as {}).
Source == [defect: {"none", "load", "build"}, cluster: BOOLEAN,
           workload: BOOLEAN, definesInput: BOOLEAN,
           accepts: SUBSET (Inputs \cup {None})]

OwnerReference == [name: Clusters, uid: Uids]
TemplateRef == [key: Templates, group: BOOLEAN]

\* A workload as far as the webhooks look at it: its two labels, its first
\* owner reference to a cluster, its template reference (group: whether the
\* API group is set) and its input.
Workload == [org: Orgs \cup {None}, label: Clusters \cup {None},
             owner: OwnerReference \cup {None},
             ref: TemplateRef \cup {None}, input: Inputs \cup {None}]

\* A request waits for Default, for validate, inside validate for the lookup
\* of its template, or to be stored.  errs: validate has found errors.
Stages == {"default", "validate", "template", "admitted"}
Request == [workload: Workloads, old: Workload \cup {None}, new: Workload,
            stage: Stages, errs: BOOLEAN]

ASSUME AdmissionConstants ==
  /\ RefName \in [Templates -> STRING]
  /\ NameOf \in [Uids -> Clusters] /\ OrgOf \in [Uids -> Orgs \cup {None}]
  /\ Manifests \subseteq Workload
  /\ Sources \subseteq Source /\ InitialSources \subseteq Source
  /\ MaxEdits \in Nat /\ MaxRestarts \in Nat

ASSUME AdmissionNone ==
  /\ None \notin Orgs /\ None \notin Clusters /\ None \notin Uids
  /\ None \notin OwnerReference /\ None \notin TemplateRef
  /\ None \notin Inputs /\ None \notin Source /\ None \notin Workload
  /\ None \notin Request /\ Failed \notin Uids /\ Failed \notin Source
  /\ Failed # None

VARIABLES
  wl,        \* the stored workloads
  cls, tpl,  \* the watch streams of clusters (by uid) and template sources
  used,      \* the clusters created so far
  edits,     \* how often each template has been changed
  req,       \* the requests under way
  restarts   \* restarts so far

vars == << wl, cls, tpl, used, edits, req, restarts >>

\* The workloads of the model are created after the webhooks are enabled,
\* the templates may be older.
Init ==
  /\ wl = [w \in Workloads |-> None]
  /\ cls = [c \in Clusters |-> << None >>]
  /\ tpl \in [Templates -> {<< s >> : s \in InitialSources \cup {None}}]
  /\ used = {}
  /\ edits = [t \in Templates |-> 0]
  /\ req = [r \in Requests |-> None]
  /\ restarts = 0
-----------------------------------------------------------------------------
(* A request on its way through the webhooks.                              *)

Submit(r, w, m) ==
  /\ req[r] = None
  /\ req' = [req EXCEPT ![r] = [workload |-> w, old |-> wl[w], new |-> m,
                                stage |-> "default", errs |-> FALSE]]
  /\ UNCHANGED << wl, cls, tpl, used, edits, restarts >>

At(r, stage) == req[r] # None /\ req[r].stage = stage

\* What a Get answers: the cached version, or a failure of the read itself.
Answers(stream) == {Cached(stream), Failed}

Reject(r) == req' = [req EXCEPT ![r] = None]
Pass(r, stage) == req' = [req EXCEPT ![r].stage = stage]

\* The API group that Default fills in.
WithGroup(m) == IF m.ref = None THEN m ELSE [m EXCEPT !.ref.group = TRUE]

\* A workload without a cluster owner gets the one its label names, if the
\* cache has it.
Default(r) ==
  /\ At(r, "default")
  /\ LET m == WithGroup(req[r].new)
     IN  \/ /\ m.owner # None \/ m.label = None
            /\ req' = [req EXCEPT ![r].new = m, ![r].stage = "validate"]
         \/ /\ m.owner = None /\ m.label # None
            /\ \E answer \in Answers(cls[m.label]) :
                 \/ answer = Failed /\ Reject(r)
                 \/ /\ answer = None
                    /\ req' = [req EXCEPT ![r].new = m, ![r].stage = "validate"]
                 \/ /\ answer \in Uids
                    /\ req' = [req EXCEPT
                         ![r].new = [m EXCEPT !.owner =
                                       [name |-> m.label, uid |-> answer]],
                         ![r].stage = "validate"]
  /\ UNCHANGED << wl, cls, tpl, used, edits, restarts >>

\* Mutant: does not ask whether the reference has been removed.
validTemplateNameUpdate(old, new) ==
  old.ref # None /\ new.ref # None =>
    RefName[new.ref.key] = RefName[old.ref.key]

validTemplateReferenceUpdate(old, new) ==
  old.ref # None => /\ new.ref # None
                    /\ RefName[new.ref.key] = RefName[old.ref.key]

validClusterReferenceUpdate(old, new) == old.label = new.label

validOrganizationReferenceUpdate(old, new) == old.org = new.org

ValidateUpdate(old, new) ==
  old # None => /\ validTemplateReferenceUpdate(old, new)
                /\ validClusterReferenceUpdate(old, new)
                /\ validOrganizationReferenceUpdate(old, new)

MissingLabel(m) == m.org = None \/ m.label = None

\* Mutant: compares the name of the cluster only.
ValidClusterName(m, answer) ==
  /\ m.owner # None => m.owner.name = m.label
  /\ answer \in Uids
  /\ OrgOf[answer] \in {None, m.org}

\* validateClusterReference, the cluster lookup having given this answer.
ValidClusterReference(m, answer) ==
  /\ m.owner # None => m.owner.name = m.label
  /\ answer \in Uids
  /\ m.owner # None => m.owner.uid = answer
  /\ OrgOf[answer] \in {None, m.org}

\* Mutant: looks the template up without asking for a reference.
ValidateAnyRef(r) ==
  LET m == req[r].new
  IN  /\ At(r, "validate")
      /\ \/ ~ValidateUpdate(req[r].old, m) /\ Reject(r)
         \/ /\ ValidateUpdate(req[r].old, m)
            /\ \E errs \in BOOLEAN :
                 req' = [req EXCEPT ![r].errs = errs, ![r].stage = "template"]
      /\ UNCHANGED << wl, cls, tpl, used, edits, restarts >>

\* ValidateCreate or ValidateUpdate, up to the lookup of the template.
Validate(r) ==
  LET m == req[r].new
      Report(errs) ==
        \/ m.ref = None /\ errs /\ Reject(r)
        \/ m.ref = None /\ ~errs /\ Pass(r, "admitted")
        \/ /\ m.ref # None
           /\ req' = [req EXCEPT ![r].errs = errs, ![r].stage = "template"]
  IN  /\ At(r, "validate")
      /\ \/ ~ValidateUpdate(req[r].old, m) /\ Reject(r)
         \/ ValidateUpdate(req[r].old, m) /\ MissingLabel(m) /\ Report(TRUE)
         \/ /\ ValidateUpdate(req[r].old, m) /\ ~MissingLabel(m)
            /\ \E answer \in Answers(cls[m.label]) :
                 Report(~ValidClusterReference(m, answer))
      /\ UNCHANGED << wl, cls, tpl, used, edits, restarts >>

\* Mutant: does not validate a missing input.
InputForbiddenIfAny(m, s) ==
  /\ m.input # None
  /\ s.definesInput => m.input \notin s.accepts

\* The verdict on the input: a template without #Input takes none.
InputForbidden(m, s) ==
  IF s.definesInput THEN m.input \notin s.accepts ELSE m.input # None

\* The rest of validate.  A source that does not build ends it without an
\* error: the one returned is that of Getwd.
ValidateTemplate(r) ==
  LET m == req[r].new
  IN  /\ At(r, "template")
      /\ \E answer \in Answers(tpl[m.ref.key]) :
           \/ answer \in {None, Failed} /\ Reject(r)
           \/ /\ answer \in Source /\ answer.defect # "none"
              /\ Pass(r, "admitted")
           \/ /\ answer \in Source /\ answer.defect = "none"
              /\ IF InputForbidden(m, answer) \/ req[r].errs
                   THEN Reject(r) ELSE Pass(r, "admitted")
      /\ UNCHANGED << wl, cls, tpl, used, edits, restarts >>

\* The API server stores the workload, unless it has changed since admission
\* looked at it.
Store(r) ==
  /\ At(r, "admitted")
  /\ LET w == req[r].workload
     IN  IF wl[w] = req[r].old THEN wl' = [wl EXCEPT ![w] = req[r].new]
                               ELSE UNCHANGED wl
  /\ req' = [req EXCEPT ![r] = None]
  /\ UNCHANGED << cls, tpl, used, edits, restarts >>

\* A timeout or a lost connection.
Abort(r) ==
  /\ req[r] # None
  /\ req' = [req EXCEPT ![r] = None]
  /\ UNCHANGED << wl, cls, tpl, used, edits, restarts >>
-----------------------------------------------------------------------------
(* The surroundings.                                                       *)

\* ValidateDelete has no objections.
DeleteWorkload(w) ==
  /\ wl[w] # None
  /\ wl' = [wl EXCEPT ![w] = None]
  /\ UNCHANGED << cls, tpl, used, edits, req, restarts >>

CreateCluster(u) ==
  /\ u \notin used /\ Live(cls[NameOf[u]]) = None
  /\ used' = used \cup {u}
  /\ cls' = [cls EXCEPT ![NameOf[u]] = Commit(@, u)]
  /\ UNCHANGED << wl, tpl, edits, req, restarts >>

DeleteCluster(c) ==
  /\ Live(cls[c]) # None
  /\ cls' = [cls EXCEPT ![c] = Commit(@, None)]
  /\ UNCHANGED << wl, tpl, used, edits, req, restarts >>

\* The template webhook: a source has to load, to build and to define
\* #cluster and #workload.
validate(s) == s.defect = "none" /\ s.cluster /\ s.workload

PutTemplate(t, s) ==
  /\ edits[t] < MaxEdits
  /\ Live(tpl[t]) # s
  /\ s # None => validate(s)
  /\ tpl' = [tpl EXCEPT ![t] = Commit(@, s)]
  /\ edits' = [edits EXCEPT ![t] = @ + 1]
  /\ UNCHANGED << wl, cls, used, req, restarts >>

DeliverCluster(c) ==
  /\ ~Synced(cls[c])
  /\ cls' = [cls EXCEPT ![c] = Delivered(@)]
  /\ UNCHANGED << wl, tpl, used, edits, req, restarts >>

DeliverTemplate(t) ==
  /\ ~Synced(tpl[t])
  /\ tpl' = [tpl EXCEPT ![t] = Delivered(@)]
  /\ UNCHANGED << wl, cls, used, edits, req, restarts >>

\* The manager restarts: a request inside a handler is lost.
Restart ==
  /\ restarts < MaxRestarts /\ restarts' = restarts + 1
  /\ cls' = [c \in Clusters |-> Relisted(cls[c])]
  /\ tpl' = [t \in Templates |-> Relisted(tpl[t])]
  /\ req' = [r \in Requests |-> IF At(r, "template") THEN None ELSE req[r]]
  /\ UNCHANGED << wl, used, edits >>

Serve(r) ==
  \/ \E w \in Workloads, m \in Manifests : Submit(r, w, m)
  \/ Default(r) \/ Validate(r) \/ ValidateTemplate(r) \/ Store(r) \/ Abort(r)

Next ==
  \/ \E r \in Requests : Serve(r)
  \/ \E w \in Workloads : DeleteWorkload(w)
  \/ \E u \in Uids : CreateCluster(u)
  \/ \E c \in Clusters : DeleteCluster(c) \/ DeliverCluster(c)
  \/ \E t \in Templates : DeliverTemplate(t)
                          \/ \E s \in Sources \cup {None} : PutTemplate(t, s)
  \/ Restart

Spec == Init /\ [][Next]_vars
-----------------------------------------------------------------------------
\* Every variable has its type, and a request has a template reference when
\* its template is looked up.
TypeOK ==
  /\ wl \in [Workloads -> Workload \cup {None}]
  /\ cls \in [Clusters -> Stream(Uids \cup {None})]
  /\ tpl \in [Templates -> Stream(Source \cup {None})]
  /\ used \subseteq Uids
  /\ edits \in [Templates -> 0..MaxEdits]
  /\ req \in [Requests -> Request \cup {None}]
  /\ restarts \in 0..MaxRestarts
  /\ \A r \in Requests : At(r, "template") => req[r].new.ref # None

\* The labels and the API group are there, and an owner is the cluster that
\* the label names, of the same organization.
Consistent(m) ==
  /\ ~MissingLabel(m)
  /\ m.ref # None => m.ref.group
  /\ m.owner # None => /\ m.owner.name = m.label
                       /\ NameOf[m.owner.uid] = m.label
                       /\ OrgOf[m.owner.uid] \in {None, m.org}

\* Every workload that got past the webhooks carries its organization and
\* cluster labels, and the cluster it is owned by, incarnation included, is
\* the one its label names and belongs to the same organization, however
\* clusters are deleted and recreated between Default, validate and the
\* write.  The workload controller finds the workloads of a cluster by that
\* label and the cluster of a workload by that owner.
AdmittedConsistent == \A w \in Workloads : wl[w] # None => Consistent(wl[w])

\* No sequence of concurrent updates, each checked against the version it
\* replaces, moves a workload to another cluster or organization, or away
\* from the name of the template it refers to (validClusterReferenceUpdate,
\* validOrganizationReferenceUpdate, validTemplateReferenceUpdate).
SameReferences(w) ==
  wl[w] # None /\ wl'[w] # None =>
    /\ wl'[w].org = wl[w].org /\ wl'[w].label = wl[w].label
    /\ wl[w].ref # None =>
         wl'[w].ref # None /\ RefName[wl'[w].ref.key] = RefName[wl[w].ref.key]
ReferencesImmutable == [][\A w \in Workloads : SameReferences(w)]_vars

\* The input of m is one that the template it refers to takes, if that
\* template is as it was.
Takes(s) == IF s.definesInput THEN s.accepts ELSE {None}
Fits(m) ==
  m.ref # None /\ edits[m.ref.key] = 0 =>
    LET s == Live(tpl[m.ref.key])
    IN  s # None /\ m.input \in Takes(s)

\* As long as a template is as it was, every workload that refers to it has
\* an input it accepts (cuejson.Validate on the new workload), whichever
\* order updates of the reference and of the input arrive in.
InputsFit == \A w \in Workloads : wl[w] # None => Fits(wl[w])

\* CHANGELOG.md:9: "workload webhooks to ensure that workloads have DY
\* labels" (dropped by line 223 when the template does not build).
WorkloadsLabelled == \A w \in Workloads : wl[w] # None => ~MissingLabel(wl[w])

\* workload_webhook.go:124: of spec.workloadTemplateRef, "reference is
\* immutable" (line 285 compares the name and not the namespace).
TemplateRefImmutable ==
  [][\A w \in Workloads :
       wl[w] # None /\ wl'[w] # None /\ wl[w].ref # None =>
         wl'[w].ref # None /\ wl'[w].ref.key = wl[w].ref.key]_vars
=============================================================================
