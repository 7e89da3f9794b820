------------------------- MODULE WorkloadReconciler -------------------------
(***************************************************************************)
(* The workload controller of controllers/dockyardsworkload_controller.go: *)
(* one worker that takes a Workload from the work queue, reads it, its     *)
(* owner Cluster and its WorkloadTemplate from the informer cache,         *)
(* evaluates the template, creates or patches the rendered objects one by  *)
(* one in the API server, and patches the Workload's conditions.  Around   *)
(* it run users, Flux, the garbage collector, the watch streams, API       *)
(* errors and restarts of the manager.                                     *)
(***************************************************************************)
EXTENDS Informer

CONSTANTS
  Workloads, Templates, Clusters,
  Names,          \* names of the objects rendered for one workload
  KindOf,         \* the kind of each of them
  Sources, Inputs, Attrs,  \* CUE sources, workload inputs, cluster contents
  Outcome,        \* what evaluating a source before its first field yields
  Fields,         \* the fields of an evaluated source, in iteration order
  WorkloadSpecs,  \* the workload metadata and specs users write
  Touched,        \* the rendered objects that others write to as well
  ApiErrors,      \* messages of failed API requests
  MaxChanges,     \* bound on changes made by users and Flux
  MaxFaults,      \* bound on failed requests and restarts
  MaxLag,         \* bound on the events of an object the collector outruns
  Drifted,        \* what somebody else wrote into a rendered object
  None

OwnedKinds == {"Kustomization", "HelmRelease"}
Kinds == OwnedKinds \cup {"Other"}

RenderFailures == {"LoadInstanceFailed", "BuildInstanceFailed",
                   "LookupPathFailed", "FillPathFailed", "ValidateFailed",
                   "FieldsFailed"}
FieldFailures == {"ValidateFailed", "DecodeFailed"}
Waits == {"WaitingForWorkloadTemplate", "IncorrectWorkloadTemplateType",
          "WaitingForClusterReady"}
\* The messages a ReconcileFailed condition can carry.
WriteFailures == {"AlreadyExists", "NotFound", "MutateFailed"} \cup ApiErrors

Rendered == [source: Sources, input: Inputs, attr: Attrs]
Field == [name: Names, hasSpec: BOOLEAN,
          check: FieldFailures \cup {"ok", "MutateFailed"}]

WorkloadSpec == [owner: Clusters \cup {None}, label: Clusters \cup {None},
                 ref: Templates \cup {None}, component: BOOLEAN,
                 input: Inputs]

\* WorkloadTemplateReconciled, Reconciling and Ready.  A condition that is
\* not set is "Unset"; tmpl is "Ready" when true and its reason when false.
Conditions == [tmpl: {"Unset", "Ready"} \cup Waits \cup RenderFailures
                       \cup FieldFailures \cup WriteFailures,
               recon: {"Unset", "KustomizationReconciling",
                       "HelmReleaseReconciling"},
               ready: {"Unset", "True", "False"}]

Workload == [spec: WorkloadSpecs, deleting: BOOLEAN, cond: Conditions]
Template == [cue: BOOLEAN, source: Sources]
Cluster == [ready: {"Unset", "True", "False"}, attr: Attrs]

\* A rendered object.  meta is the owner cluster's label when the object has
\* the owner reference and labels the reconciler sets, None when it lacks
\* them; rest stands for everything outside metadata, spec and status.
Object == [meta: Clusters \cup {None}, spec: Rendered \cup {None, Drifted},
           rest: Rendered \cup {Drifted}, reconciling: BOOLEAN]

ASSUME ConstantsTyped ==
  /\ KindOf \in [Names -> Kinds]
  /\ Outcome \in [Rendered -> RenderFailures \cup {"ok"}]
  /\ Fields \in [Sources -> Seq(Field)]
  /\ \A s \in Sources : \A i, j \in 1..Len(Fields[s]) :
       Fields[s][i].name = Fields[s][j].name => i = j
  /\ WorkloadSpecs \subseteq WorkloadSpec
  /\ Touched \subseteq Names /\ "Ready" \notin ApiErrors
  /\ MaxChanges \in Nat /\ MaxFaults \in Nat /\ MaxLag \in Nat \ {0}

\* The message of a failed request is not one of the other reports.
ASSUME ErrorsNamed ==
  ApiErrors \cap ({"Unset", "AlreadyExists", "NotFound", "MutateFailed"}
                    \cup Waits \cup RenderFailures \cup FieldFailures) = {}

ASSUME NoneIsNoValue ==
  /\ None \notin Clusters /\ None \notin Templates /\ None \notin Workloads
  /\ None \notin Workload /\ None \notin Template /\ None \notin Cluster
  /\ None \notin Object /\ None \notin Rendered
  /\ Drifted \notin Rendered /\ Drifted # None

VARIABLES
  wl, tpl, cls, obj,  \* the watch streams of the four sorts of objects
  queue,              \* workloads waiting in the controller's work queue
  pc,                 \* where the worker stands in Reconcile
  cur,                \* the workload it reconciles
  seen,               \* the workload as first read
  clu,                \* the owner cluster as read
  rend,               \* the evaluated template
  idx,                \* the field to reconcile next
  got,                \* the object as read by CreateOrPatch
  cond,               \* the workload's conditions as built so far
  err,                \* whether Reconcile returns an error
  changes, faults     \* changes and faults so far

api == << wl, tpl, cls, obj >>
frame == << cur, seen, clu, rend, idx, got, cond, err >>
vars == << api, queue, pc, frame, changes, faults >>

Unset == [tmpl |-> "Unset", recon |-> "Unset", ready |-> "Unset"]

IdleFrame ==
  /\ pc = "idle" /\ cur = None /\ seen = None /\ clu = None /\ rend = None
  /\ idx = 1 /\ got = None /\ cond = Unset /\ err = FALSE

\* The manager starts among existing workloads, clusters and templates, all
\* of them freshly listed.
Init ==
  /\ wl \in [Workloads -> {<< [spec |-> s, deleting |-> FALSE,
                                cond |-> Unset] >> : s \in WorkloadSpecs}]
  /\ tpl \in [Templates -> {<< v >> : v \in Template \cup {None}}]
  /\ cls \in [Clusters -> {<< v >> : v \in Cluster}]
  /\ obj = [o \in Workloads \X Names |-> << None >>]
  /\ queue = Workloads
  /\ IdleFrame
  /\ changes = 0 /\ faults = 0
-----------------------------------------------------------------------------
(* The watches of SetupWithManager: which workloads an event enqueues.     *)

\* Mutant: passes over the workloads that are ready.
workloadTemplateToUnready(t) ==
  {w \in Workloads : /\ Cached(wl[w]) # None
                     /\ Cached(wl[w]).spec.ref = t
                     /\ Cached(wl[w]).cond.tmpl # "Ready"}

\* Lists the cached workloads by the template-reference index.
workloadTemplateToWorkloads(t) ==
  {w \in Workloads : /\ Cached(wl[w]) # None
                     /\ Cached(wl[w]).spec.ref = t}

\* Mutant: returns with the first workload of the list.
clusterToFirst(c) ==
  LET listed == {w \in Workloads : /\ Cached(wl[w]) # None
                                   /\ Cached(wl[w]).spec.label = c}
  IN  IF listed = {} THEN {} ELSE {CHOOSE w \in listed : TRUE}

\* Lists the cached workloads by their cluster label.
clusterToWorkloads(c) ==
  {w \in Workloads : /\ Cached(wl[w]) # None
                     /\ Cached(wl[w]).spec.label = c}

\* Mutant: looks at the new version only.
newOwnerOf(o, old, new) ==
  {w \in Workloads : w = o[1] /\ new # None /\ new.meta # None}

\* Owns: the workload named by the owner reference of the old or new version.
ownerOf(o, old, new) ==
  {w \in Workloads : /\ w = o[1]
                     /\ \E v \in {old, new} : v # None /\ v.meta # None}

\* Mutant: a change of the status does not wake the controller.
DeliverGeneration(w) ==
  /\ ~Synced(wl[w])
  /\ wl' = [wl EXCEPT ![w] = Delivered(@)]
  /\ queue' = IF /\ Cached(wl[w]) # None /\ Cached(wl'[w]) # None
                 /\ Cached(wl'[w]).spec = Cached(wl[w]).spec
              THEN queue ELSE queue \cup {w}
  /\ UNCHANGED << tpl, cls, obj, pc, frame, changes, faults >>

DeliverWorkload(w) ==
  /\ ~Synced(wl[w])
  /\ wl' = [wl EXCEPT ![w] = Delivered(@)]
  /\ queue' = queue \cup {w}
  /\ UNCHANGED << tpl, cls, obj, pc, frame, changes, faults >>

DeliverTemplate(t) ==
  /\ ~Synced(tpl[t])
  /\ tpl' = [tpl EXCEPT ![t] = Delivered(@)]
  /\ queue' = queue \cup workloadTemplateToWorkloads(t)
  /\ UNCHANGED << wl, cls, obj, pc, frame, changes, faults >>

DeliverCluster(c) ==
  /\ ~Synced(cls[c])
  /\ cls' = [cls EXCEPT ![c] = Delivered(@)]
  /\ queue' = queue \cup clusterToWorkloads(c)
  /\ UNCHANGED << wl, tpl, obj, pc, frame, changes, faults >>

DeliverObject(o) ==
  /\ ~Synced(obj[o])
  /\ obj' = [obj EXCEPT ![o] = Delivered(@)]
  /\ queue' = queue \cup ownerOf(o, Cached(obj[o]), Cached(obj'[o]))
  /\ UNCHANGED << wl, tpl, cls, pc, frame, changes, faults >>

Deliver ==
  \/ \E w \in Workloads : DeliverWorkload(w)
  \/ \E t \in Templates : DeliverTemplate(t)
  \/ \E c \in Clusters : DeliverCluster(c)
  \/ \E o \in Workloads \X Names : DeliverObject(o)

\* Only Kustomizations and HelmReleases are watched; an object of another
\* kind has a stored version and no cached one.
Stored(o, v) == IF KindOf[o[2]] \in OwnedKinds THEN Commit(obj[o], v) ELSE << v >>
-----------------------------------------------------------------------------
(* Reconcile.                                                              *)

Goto(label) == pc' = label
Requeue == queue' = queue \cup {cur}

\* The deferred patch has run: the worker is free for the next key.
Return ==
  /\ pc' = "idle" /\ cur' = None /\ seen' = None /\ clu' = None
  /\ rend' = None /\ idx' = 1 /\ got' = None /\ cond' = Unset /\ err' = FALSE

\* The workload is no longer in the cache.
ReconcileGone(w) ==
  /\ pc = "idle" /\ w \in queue
  /\ Cached(wl[w]) = None
  /\ queue' = queue \ {w}
  /\ UNCHANGED << api, pc, frame, changes, faults >>

\* Mutant: renders a workload that is being deleted.
StartAnyway(w) ==
  /\ pc = "idle" /\ w \in queue
  /\ Cached(wl[w]) # None
  /\ queue' = queue \ {w}
  /\ cur' = w /\ seen' = Cached(wl[w]) /\ cond' = Cached(wl[w]).cond
  /\ Goto("cluster")
  /\ UNCHANGED << api, clu, rend, idx, got, err, changes, faults >>

\* Reads the workload; one that is being deleted is not rendered.
ReconcileStart(w) ==
  /\ pc = "idle" /\ w \in queue
  /\ Cached(wl[w]) # None
  /\ queue' = queue \ {w}
  /\ cur' = w /\ seen' = Cached(wl[w]) /\ cond' = Cached(wl[w]).cond
  /\ Goto(IF Cached(wl[w]).deleting THEN "listKustomizations" ELSE "cluster")
  /\ UNCHANGED << api, clu, rend, idx, got, err, changes, faults >>

\* Mutant: does not ask whether the workload refers to a template.
GetOwnerClusterOnly ==
  LET owner == seen.spec.owner
  IN  /\ pc = "cluster"
      /\ IF owner = None THEN Goto("listKustomizations") /\ UNCHANGED clu
         ELSE clu' = Cached(cls[owner]) /\ Goto("template")
      /\ UNCHANGED << api, queue, cur, seen, rend, idx, got, cond, err,
                      changes, faults >>

\* GetOwnerCluster: no owner is not an error, a missing owner is.
GetOwnerCluster ==
  LET owner == seen.spec.owner
  IN  /\ pc = "cluster"
      /\ \/ /\ owner = None
            /\ Goto("listKustomizations") /\ UNCHANGED << clu, err >>
         \/ /\ owner # None
            /\ Cached(cls[owner]) = None
            /\ err' = TRUE /\ Goto("patch") /\ UNCHANGED clu
         \/ /\ owner # None
            /\ Cached(cls[owner]) # None
            /\ clu' = Cached(cls[owner])
            /\ Goto(IF seen.spec.ref = None THEN "listKustomizations"
                                            ELSE "template")
            /\ UNCHANGED err
      /\ UNCHANGED << api, queue, cur, seen, rend, idx, got, cond,
                      changes, faults >>

Render(t, spec, cluster) ==
  [source |-> t.source, input |-> spec.input, attr |-> cluster.attr]

\* The checks between reading the template and iterating over its fields:
\* "ok", or the reason of the condition.
Evaluate(t, spec, cluster) ==
  IF t = None THEN "WaitingForWorkloadTemplate"
  ELSE IF ~t.cue THEN "IncorrectWorkloadTemplateType"
  ELSE IF ~spec.component /\ cluster.ready = "False"
         THEN "WaitingForClusterReady"
  ELSE Outcome[Render(t, spec, cluster)]

MarkFalse(reason) ==
  /\ cond' = [cond EXCEPT !.tmpl = reason]
  /\ Goto("listKustomizations")

EvaluateTemplate ==
  LET t == Cached(tpl[seen.spec.ref])
      verdict == Evaluate(t, seen.spec, clu)
  IN  /\ pc = "template"
      /\ clu' = None
      /\ \/ /\ verdict # "ok"
            /\ MarkFalse(verdict) /\ UNCHANGED rend
         \/ /\ verdict = "ok"
            /\ rend' = Render(t, seen.spec, clu)
            /\ Goto("field") /\ UNCHANGED cond
      /\ UNCHANGED << api, queue, cur, seen, idx, got, err, changes, faults >>

field == Fields[rend.source][idx]
target == << cur, field.name >>

\* Every field has been reconciled.
MarkTrue ==
  /\ pc = "field" /\ idx > Len(Fields[rend.source])
  /\ cond' = [cond EXCEPT !.tmpl = "Ready"]
  /\ Goto("listKustomizations")
  /\ UNCHANGED << api, queue, cur, seen, clu, rend, idx, got, err,
                  changes, faults >>

\* Mutant: goes on with the next field.
SkipField ==
  /\ pc = "field" /\ idx <= Len(Fields[rend.source])
  /\ field.check \in FieldFailures
  /\ idx' = idx + 1
  /\ UNCHANGED << api, queue, pc, cur, seen, clu, rend, got, cond, err,
                  changes, faults >>

\* The field is not concrete or cannot be decoded.
RejectField ==
  /\ pc = "field" /\ idx <= Len(Fields[rend.source])
  /\ field.check \in FieldFailures
  /\ MarkFalse(field.check)
  /\ UNCHANGED << api, queue, cur, seen, clu, rend, idx, got, err,
                  changes, faults >>

\* CreateOrPatch reads the object: unstructured, hence from the API server.
GetObject ==
  /\ pc = "field" /\ idx <= Len(Fields[rend.source])
  /\ field.check \notin FieldFailures
  /\ got' = Live(obj[target])
  /\ Goto("write")
  /\ UNCHANGED << api, queue, cur, seen, clu, rend, idx, cond, err,
                  changes, faults >>

\* Mutant: creates the object without an owner reference.
DecodedOnly == [meta |-> None, spec |-> IF field.hasSpec THEN rend ELSE None,
                rest |-> rend, reconciling |-> FALSE]

\* The object decoded from the field, as it is created.
Decoded == [meta |-> seen.spec.owner,
            spec |-> IF field.hasSpec THEN rend ELSE None,
            rest |-> rend, reconciling |-> FALSE]

\* The mutate function on an object that exists: owner reference and labels,
\* and the spec if the field has one.
Mutated == [got EXCEPT !.meta = seen.spec.owner,
                       !.spec = IF field.hasSpec THEN rend ELSE @]

Merge(live, before, after) == IF after # before THEN after ELSE live

\* A merge patch changes what differs between the object read and its
\* mutated form, whatever the API server holds by then: a spec that somebody
\* wrote in between can end up as a mixture of both.
MergePatches(live, before, after) ==
  {[live EXCEPT !.meta = Merge(@, before.meta, after.meta),
                !.spec = Merge(@, before.spec, s)] :
     s \in {after.spec} \cup (IF live.spec = before.spec THEN {} ELSE {Drifted})}

NextField == idx' = idx + 1 /\ got' = None /\ Goto("field") /\ UNCHANGED cond

ReconcileFailed(message) ==
  /\ MarkFalse(message) /\ got' = None
  /\ UNCHANGED << obj, idx >>

\* The writes that the API server accepts.
Create ==
  /\ got = None /\ Live(obj[target]) = None
  /\ obj' = [obj EXCEPT ![target] = Stored(target, Decoded)]

Patch ==
  /\ got # None /\ Mutated # got /\ Live(obj[target]) # None
  /\ \E v \in MergePatches(Live(obj[target]), got, Mutated) :
       obj' = [obj EXCEPT ![target] = Stored(target, v)]

CreateObject ==
  \/ Create /\ NextField
  \/ /\ got = None /\ Live(obj[target]) # None
     /\ ReconcileFailed("AlreadyExists")

PatchObject ==
  \/ got # None /\ Mutated = got /\ NextField /\ UNCHANGED obj
  \/ Patch /\ NextField
  \/ /\ got # None /\ Mutated # got /\ Live(obj[target]) = None
     /\ ReconcileFailed("NotFound")

WriteObject ==
  /\ pc = "write"
  /\ \/ field.check = "ok" /\ (CreateObject \/ PatchObject)
     \/ field.check # "ok" /\ ReconcileFailed("MutateFailed")
  /\ UNCHANGED << wl, tpl, cls, queue, cur, seen, clu, rend, err,
                  changes, faults >>

\* The read or the write of CreateOrPatch fails, or the write is made and
\* its answer is lost: the condition says so, Reconcile returns no error.
WriteFails(e) ==
  /\ pc = "write"
  /\ faults < MaxFaults /\ faults' = faults + 1
  /\ \/ ReconcileFailed(e)
     \/ /\ field.check = "ok" /\ (Create \/ Patch)
        /\ MarkFalse(e) /\ got' = None /\ UNCHANGED idx
  /\ UNCHANGED << wl, tpl, cls, queue, cur, seen, clu, rend, err, changes >>

\* Mutant: lists without the label selector.
AllOfKind(w, kind) ==
  {Cached(obj[<< v, n >>]) : v \in Workloads,
                             n \in {m \in Names : KindOf[m] = kind}}

\* The cached objects of a kind that carry the workload's label.
Labelled(w, kind) ==
  {Cached(obj[<< w, n >>]) : n \in {m \in Names : KindOf[m] = kind}}

AnyReconciling(w, kind) ==
  \E v \in Labelled(w, kind) : v # None /\ v.meta # None /\ v.reconciling

ListKustomizations ==
  /\ pc = "listKustomizations"
  /\ \/ /\ AnyReconciling(cur, "Kustomization")
        /\ cond' = [cond EXCEPT !.recon = "KustomizationReconciling"]
        /\ Goto("patch")
     \/ /\ ~AnyReconciling(cur, "Kustomization")
        /\ Goto("listHelmReleases") /\ UNCHANGED cond
  /\ UNCHANGED << api, queue, cur, seen, clu, rend, idx, got, err,
                  changes, faults >>

\* Mutant: never deletes the Reconciling condition.
ListHelmReleasesOnly ==
  /\ pc = "listHelmReleases"
  /\ cond' = [cond EXCEPT !.recon =
                IF AnyReconciling(cur, "HelmRelease")
                  THEN "HelmReleaseReconciling" ELSE @]
  /\ Goto("patch")
  /\ UNCHANGED << api, queue, cur, seen, clu, rend, idx, got, err,
                  changes, faults >>

ListHelmReleases ==
  /\ pc = "listHelmReleases"
  /\ cond' = [cond EXCEPT !.recon =
                IF AnyReconciling(cur, "HelmRelease")
                  THEN "HelmReleaseReconciling" ELSE "Unset"]
  /\ Goto("patch")
  /\ UNCHANGED << api, queue, cur, seen, clu, rend, idx, got, err,
                  changes, faults >>

\* conditions.SetSummary: Ready is false while Reconciling is true, else it
\* follows the template condition, and it stays when there is none.
SetSummary(c) ==
  [c EXCEPT !.ready = IF c.recon # "Unset" THEN "False"
                      ELSE IF c.tmpl = "Ready" THEN "True"
                      ELSE IF c.tmpl # "Unset" THEN "False"
                      ELSE c.ready]

\* The patch helper merges each condition that changed since the workload
\* was read into the cached workload, unless that one changed otherwise.
MergeConditions(latest, before, after) ==
  [tmpl |-> Merge(latest.tmpl, before.tmpl, after.tmpl),
   recon |-> Merge(latest.recon, before.recon, after.recon),
   ready |-> Merge(latest.ready, before.ready, after.ready)]

MergeConflict(latest, before, after) ==
  \E f \in {"tmpl", "recon", "ready"} :
     after[f] # before[f] /\ latest[f] \notin {before[f], after[f]}

\* Mutant: writes the status whether it has changed or not.
PatchAlways ==
  /\ pc = "patch" /\ SetSummary(cond) = seen.cond
  /\ wl' = IF Live(wl[cur]) # None /\ Synced(wl[cur])
             THEN [wl EXCEPT ![cur] = Commit(@, Live(@))] ELSE wl
  /\ IF err THEN Requeue ELSE UNCHANGED queue
  /\ Return
  /\ UNCHANGED << tpl, cls, obj, changes, faults >>

\* Reconcile returns: an error puts the key back into the queue.
PatchUnneeded ==
  /\ pc = "patch" /\ SetSummary(cond) = seen.cond
  /\ IF err THEN Requeue ELSE UNCHANGED queue
  /\ Return
  /\ UNCHANGED << api, changes, faults >>

\* The patch carries the cached resource version: the API server accepts it
\* only if that is the stored one.
StoreStatus ==
  LET latest == Cached(wl[cur])
      after == SetSummary(cond)
      merged == [latest EXCEPT !.cond =
                   MergeConditions(latest.cond, seen.cond, after)]
  IN  /\ pc = "patch" /\ after # seen.cond
      /\ latest # None
      /\ ~MergeConflict(latest.cond, seen.cond, after)
      /\ Synced(wl[cur])
      /\ wl' = IF merged = latest THEN wl
               ELSE [wl EXCEPT ![cur] = Commit(wl[cur], merged)]

PatchStatus ==
  /\ StoreStatus
  /\ IF err THEN Requeue ELSE UNCHANGED queue
  /\ Return
  /\ UNCHANGED << tpl, cls, obj, changes, faults >>

\* The workload left the cache, another writer changed the same condition,
\* or the retries on a resource version conflict are used up.
PatchRefused ==
  LET latest == Cached(wl[cur])
  IN  /\ pc = "patch" /\ SetSummary(cond) # seen.cond
      /\ \/ latest = None
         \/ latest # None /\ MergeConflict(latest.cond, seen.cond, SetSummary(cond))
         \/ ~Synced(wl[cur])
      /\ Requeue /\ Return
      /\ UNCHANGED << api, changes, faults >>

\* The request fails for another reason, or it is served and its answer is
\* lost.
PatchFails ==
  /\ pc = "patch" /\ SetSummary(cond) # seen.cond
  /\ faults < MaxFaults /\ faults' = faults + 1
  /\ StoreStatus \/ UNCHANGED wl
  /\ Requeue /\ Return
  /\ UNCHANGED << tpl, cls, obj, changes >>

\* A read of the cache or of the working directory fails: Reconcile returns
\* the error, after the deferred patch of what it has found out.
ReadFails ==
  /\ pc \in {"cluster", "template", "listKustomizations", "listHelmReleases"}
  /\ faults < MaxFaults /\ faults' = faults + 1
  /\ err' = TRUE /\ Goto("patch")
  /\ UNCHANGED << api, queue, cur, seen, clu, rend, idx, got, cond, changes >>

Worker ==
  \/ GetOwnerCluster \/ EvaluateTemplate
  \/ MarkTrue \/ RejectField \/ GetObject \/ WriteObject
  \/ ListKustomizations \/ ListHelmReleases
  \/ PatchUnneeded \/ PatchStatus \/ PatchRefused

-----------------------------------------------------------------------------
(* The manager restarts: the queue, the cache and the pass under way are   *)
(* lost, and the initial lists enqueue every workload they lead to.        *)
Restart ==
  /\ faults < MaxFaults /\ faults' = faults + 1
  /\ wl' = [w \in Workloads |-> Relisted(wl[w])]
  /\ tpl' = [t \in Templates |-> Relisted(tpl[t])]
  /\ cls' = [c \in Clusters |-> Relisted(cls[c])]
  /\ obj' = [o \in Workloads \X Names |-> Relisted(obj[o])]
  /\ queue' = {w \in Workloads :
                 \/ Live(wl[w]) # None
                 \/ \E n \in Names : /\ Live(obj[<< w, n >>]) # None
                                     /\ Live(obj[<< w, n >>]).meta # None}
  /\ Return
  /\ UNCHANGED changes

(* Users and the other controllers of the cluster.                         *)
Change == changes < MaxChanges /\ changes' = changes + 1

UpdateWorkload(w, s) ==
  /\ Live(wl[w]) # None /\ Live(wl[w]).spec # s
  /\ wl' = [wl EXCEPT ![w] = Commit(@, [Live(@) EXCEPT !.spec = s])]
  /\ Change /\ UNCHANGED << tpl, cls, obj, queue, pc, frame, faults >>

\* In the background the workload goes at once, in the foreground after the
\* objects it owns.
DeleteWorkload(w) ==
  /\ Live(wl[w]) # None /\ ~Live(wl[w]).deleting
  /\ \E v \in {None, [Live(wl[w]) EXCEPT !.deleting = TRUE]} :
       wl' = [wl EXCEPT ![w] = Commit(@, v)]
  /\ Change /\ UNCHANGED << tpl, cls, obj, queue, pc, frame, faults >>

PutTemplate(t, v) ==
  /\ Live(tpl[t]) # v
  /\ tpl' = [tpl EXCEPT ![t] = Commit(@, v)]
  /\ Change /\ UNCHANGED << wl, cls, obj, queue, pc, frame, faults >>

\* A cluster that is gone does not come back under its name.
PutCluster(c, v) ==
  /\ Live(cls[c]) # None /\ Live(cls[c]) # v
  /\ cls' = [cls EXCEPT ![c] = Commit(@, v)]
  /\ Change /\ UNCHANGED << wl, tpl, obj, queue, pc, frame, faults >>

\* Somebody creates an object the template also renders, strips its
\* metadata, edits its spec or deletes it; or Flux starts or stops
\* reconciling it.
TouchObject(o) ==
  LET v == Live(obj[o])
      foreign == [meta |-> None, spec |-> Drifted, rest |-> Drifted,
                  reconciling |-> FALSE]
      versions == IF v = None THEN {foreign}
                  ELSE {None, [v EXCEPT !.meta = None],
                              [v EXCEPT !.spec = Drifted],
                              [v EXCEPT !.reconciling = ~@]}
  IN  /\ o[2] \in Touched
      /\ \E new \in versions \ {v} :
           obj' = [obj EXCEPT ![o] = Stored(o, new)]
      /\ Change /\ UNCHANGED << wl, tpl, cls, queue, pc, frame, faults >>

Users ==
  \/ \E w \in Workloads : DeleteWorkload(w)
                          \/ \E s \in WorkloadSpecs : UpdateWorkload(w, s)
  \/ \E t \in Templates, v \in Template \cup {None} : PutTemplate(t, v)
  \/ \E c \in Clusters, v \in Cluster \cup {None} : PutCluster(c, v)
  \/ \E o \in Workloads \X Names : TouchObject(o)

\* The garbage collector: objects go with the workload that owns them, a
\* workload with the cluster that owns it, and a workload deleted in the
\* foreground once it owns nothing.
Owned(o) == Live(obj[o]) # None /\ Live(obj[o]).meta # None

CollectObject(o) ==
  /\ Owned(o)
  /\ Live(wl[o[1]]) # None => Live(wl[o[1]]).deleting
  /\ Len(obj[o]) <= MaxLag
  /\ obj' = [obj EXCEPT ![o] = Stored(o, None)]
  /\ UNCHANGED << wl, tpl, cls, queue, pc, frame, changes, faults >>

CollectWorkload(w) ==
  /\ Live(wl[w]) # None
  /\ \/ Live(wl[w]).deleting /\ \A n \in Names : ~Owned(<< w, n >>)
     \/ /\ Live(wl[w]).spec.owner # None
        /\ Live(cls[Live(wl[w]).spec.owner]) = None
  /\ wl' = [wl EXCEPT ![w] = Commit(@, None)]
  /\ UNCHANGED << tpl, cls, obj, queue, pc, frame, changes, faults >>

Collect ==
  \/ \E o \in Workloads \X Names : CollectObject(o)
  \/ \E w \in Workloads : CollectWorkload(w)

Faults == Restart \/ ReadFails \/ PatchFails \/ \E e \in ApiErrors : WriteFails(e)

Next ==
  \/ Deliver
  \/ \E w \in Workloads : ReconcileGone(w) \/ ReconcileStart(w)
  \/ Worker
  \/ Faults
  \/ Users
  \/ Collect

Spec == Init /\ [][Next]_vars

\* The work queue is first in first out, so no key waits for ever; the
\* worker, each watch and the garbage collector keep running.
Fairness ==
  /\ WF_vars(Worker)
  /\ \A w \in Workloads : /\ SF_vars(ReconcileGone(w) \/ ReconcileStart(w))
                          /\ WF_vars(DeliverWorkload(w))
                          /\ WF_vars(CollectWorkload(w))
  /\ \A t \in Templates : WF_vars(DeliverTemplate(t))
  /\ \A c \in Clusters : WF_vars(DeliverCluster(c))
  /\ \A o \in Workloads \X Names : /\ WF_vars(DeliverObject(o))
                                   /\ WF_vars(CollectObject(o))

FairSpec == Spec /\ Fairness
-----------------------------------------------------------------------------
ApiOK ==
  /\ wl \in [Workloads -> Stream(Workload \cup {None})]
  /\ tpl \in [Templates -> Stream(Template \cup {None})]
  /\ cls \in [Clusters -> Stream(Cluster \cup {None})]
  /\ obj \in [Workloads \X Names -> Stream(Object \cup {None})]

FrameOK ==
  /\ pc \in {"idle", "cluster", "template", "field", "write",
             "listKustomizations", "listHelmReleases", "patch"}
  /\ cur \in Workloads \cup {None}
  /\ seen \in Workload \cup {None}
  /\ clu \in Cluster \cup {None}
  /\ rend \in Rendered \cup {None}
  /\ idx \in Nat \ {0}
  /\ got \in Object \cup {None}
  /\ cond \in Conditions
  /\ err \in BOOLEAN
  /\ IF pc = "idle" THEN cur = None ELSE cur # None /\ seen # None
  /\ pc \in {"idle", "cluster", "template"} => idx = 1
  /\ pc = "template" => clu # None /\ seen.spec.ref # None
  /\ pc \in {"field", "write"} => rend # None
  /\ pc = "write" => idx <= Len(Fields[rend.source])

\* Every variable has its type, and the worker has read what the point of
\* Reconcile it has reached uses.
TypeOK ==
  /\ ApiOK
  /\ FrameOK
  /\ queue \subseteq Workloads
  /\ changes \in 0..MaxChanges
  /\ faults \in 0..MaxFaults

\* Nothing is left to do: no key queued, no pass under way, no event on its
\* way to the cache.
Settled ==
  /\ pc = "idle" /\ queue = {}
  /\ \A w \in Workloads : Synced(wl[w])
  /\ \A t \in Templates : Synced(tpl[t])
  /\ \A c \in Clusters : Synced(cls[c])
  /\ \A o \in Workloads \X Names : Synced(obj[o])

\* A workload the reconciler renders, woken by its cluster: its label names
\* the cluster that owns it.
Reconcilable(w) ==
  LET v == Live(wl[w])
  IN  /\ v # None
      /\ ~v.deleting
      /\ v.spec.owner # None /\ v.spec.label = v.spec.owner
      /\ v.spec.ref # None

\* The condition that the fields of a source lead to when every request
\* succeeds: the first field that fails decides.
FieldsReport(fs, tmpl) ==
  \/ tmpl = "Ready" /\ \A i \in 1..Len(fs) : fs[i].check = "ok"
  \/ \E i \in 1..Len(fs) : /\ tmpl = fs[i].check /\ fs[i].check # "ok"
                           /\ \A k \in 1..(i - 1) : fs[k].check = "ok"

InSync(w, f, r, owner) ==
  LET o == Live(obj[<< w, f.name >>])
  IN  o # None /\ o.meta = owner /\ (f.hasSpec => o.spec = r)

\* The objects whose changes by others the controller hears of, or that
\* nobody else changes.
Tracked(f) == KindOf[f.name] \in OwnedKinds \/ f.name \notin Touched

\* The stored owner cluster and template of w, what they render and the
\* verdict on it.
clusterOf(w) == Live(cls[Live(wl[w]).spec.owner])
templateOf(w) == Live(tpl[Live(wl[w]).spec.ref])
renderOf(w) == Render(templateOf(w), Live(wl[w]).spec, clusterOf(w))
verdictOf(w) == Evaluate(templateOf(w), Live(wl[w]).spec, clusterOf(w))
fieldsOf(w) == Fields[templateOf(w).source]

InSyncField(w, i) ==
  Tracked(fieldsOf(w)[i]) =>
    InSync(w, fieldsOf(w)[i], renderOf(w), Live(wl[w]).spec.owner)

\* tmpl and the rendered objects of w are what the stored workload, cluster
\* and template call for; a failed write is reported.
Faithful(w, tmpl) ==
  IF verdictOf(w) # "ok" THEN tmpl = verdictOf(w)
  ELSE /\ FieldsReport(fieldsOf(w), tmpl) \/ tmpl \in WriteFailures
       /\ tmpl = "Ready" => \A i \in 1..Len(fieldsOf(w)) : InSyncField(w, i)

Truthful(w) == clusterOf(w) # None /\ Faithful(w, Live(wl[w]).cond.tmpl)

\* No wake-up is lost and no stale read is final: however reads of the cache,
\* writes, events, failures and restarts interleave, once everything is
\* quiet the WorkloadTemplateReconciled condition and the rendered objects
\* match the stored workload, cluster and template (Reconcile,
\* reconcileWorkloadTemplate and the watches of SetupWithManager).
TruthfulWhenSettled ==
  Settled => \A w \in Workloads : Reconcilable(w) => Truthful(w)

\* An event on its way that Owns maps to the workload of the object.
Marked(v) == v # None /\ v.meta # None
Woken(o) ==
  /\ KindOf[o[2]] \in OwnedKinds
  /\ \E i \in 1..(Len(obj[o]) - 1) : Marked(obj[o][i]) \/ Marked(obj[o][i + 1])

\* Something will start another pass over w.
Pending(w) ==
  \/ w \in queue
  \/ ~Synced(wl[w])
  \/ ~Synced(tpl[Live(wl[w]).spec.ref])
  \/ ~Synced(cls[Live(wl[w]).spec.owner])
  \/ \E n \in Names : Woken(<< w, n >>)

\* The pass over w works with what is stored, and what it has done so far
\* is in place.
PassCurrent(w) ==
  /\ seen = Live(wl[w])
  /\ pc = "template" => clu = clusterOf(w)
  /\ pc \in {"field", "write"} =>
       /\ clusterOf(w) # None /\ verdictOf(w) = "ok" /\ rend = renderOf(w)
       /\ \A i \in 1..(idx - 1) : /\ i <= Len(fieldsOf(w))
                                  /\ fieldsOf(w)[i].check = "ok"
                                  /\ InSyncField(w, i)
  /\ pc = "write" =>
       /\ field.check \notin FieldFailures
       /\ Tracked(field) => \/ Live(obj[target]) = got
                            \/ KindOf[field.name] \in OwnedKinds /\ ~Marked(got)
  /\ pc \in {"listKustomizations", "listHelmReleases", "patch"} /\ ~err =>
       clusterOf(w) # None /\ Faithful(w, cond.tmpl)

\* Why that is so: at every moment, a workload that nothing will wake again
\* is truthful already, or the pass under way over it has read what is
\* stored.  A change that the pass has missed has left an event behind.
NoLostWakeUp ==
  \A w \in Workloads : Reconcilable(w) /\ ~Pending(w) =>
    IF cur = w THEN PassCurrent(w) ELSE Truthful(w)

\* Once everything is quiet, Reconciling says whether a labelled
\* Kustomization or HelmRelease is reconciling, and Ready is the summary of
\* the other two conditions (reconcileReconcilingCondition and the deferred
\* SetSummary), although the patch merges them one by one.
ReadyWhenSettled ==
  Settled => \A w \in Workloads :
    LET v == Live(wl[w])
        Reconciling(kind) ==
          \E n \in Names : /\ KindOf[n] = kind /\ Owned(<< w, n >>)
                           /\ Live(obj[<< w, n >>]).reconciling
    IN  v # None =>
          /\ v.cond.recon = IF Reconciling("Kustomization")
                              THEN "KustomizationReconciling"
                            ELSE IF Reconciling("HelmRelease")
                              THEN "HelmReleaseReconciling" ELSE "Unset"
          /\ v.cond = SetSummary(v.cond)

\* One failed request heals by itself: Reconcile does not return the error,
\* but the condition it reports is an event that wakes the controller again.
OneFailureHeals ==
  Settled => \A w \in Workloads :
    Reconcilable(w) /\ Live(wl[w]).cond.tmpl \in ApiErrors => faults > 1

\* README.md:9: "ensures the generated Flux Kustomization, HelmRelease, and
\* supporting resources stay in sync with the template output".  Hence no
\* workload is left with a failed write (line 306 swallows the error).
FailedWritesAreRetried ==
  Settled => \A w \in Workloads :
    Reconcilable(w) => Live(wl[w]).cond.tmpl \notin ApiErrors

\* The same sentence for what an object holds outside its metadata and spec,
\* such as the data of a Secret: a workload whose template condition is true
\* has objects that hold what the template renders.
PayloadInSync ==
  Settled => \A w \in Workloads :
    Reconcilable(w) /\ Live(wl[w]).cond.tmpl = "Ready" =>
      \A i \in 1..Len(fieldsOf(w)) :
        fieldsOf(w)[i].name \notin Touched =>
          Live(obj[<< w, fieldsOf(w)[i].name >>]).rest = renderOf(w)

\* Once users and faults stop, the controller stops as well: it does not feed
\* on the events its own writes cause, and a workload whose owner is missing
\* is retried only until the garbage collector takes it.
EventuallySettles == <>[]Settled

\* A workload deleted in the foreground goes, although a pass with a stale
\* copy of it can render objects again that hold up its deletion.
DeletionCompletes ==
  \A w \in Workloads :
    (Live(wl[w]) # None /\ Live(wl[w]).deleting) ~> Live(wl[w]) = None

\* Nothing outlives its workload: what a late pass renders for a workload
\* that is gone carries the owner reference that gets it collected.
OrphansCollected ==
  <>[](\A w \in Workloads : Live(wl[w]) = None =>
         \A n \in Names \ Touched : Live(obj[<< w, n >>]) = None)
=============================================================================
