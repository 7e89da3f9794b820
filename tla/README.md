# A TLA+ model of dockyards-flux2

dockyards-flux2 is a Kubernetes controller manager. It renders Dockyards
`Workload` resources through CUE `WorkloadTemplate`s into Flux objects, reports
on the workload what became of them, and optionally guards workloads and
templates with admission webhooks. Next to that it mirrors Flux objects into
`WorkloadInventory` objects and `Worktree`s into `GitRepository`s, and it lets a
Kustomization go whose cluster cannot be reached any more. This directory models
its controllers and webhooks, checks them with TLC and proves their main
properties with TLAPS. Paths are relative to the
root of the repository; the part they name is in `src/` here.

## The system

| part | state it keeps | operations |
|---|---|---|
| workload controller, `controllers/dockyardsworkload_controller.go` | none of its own: the work queue, and the variables of the pass under way; conditions of the Workload; the rendered objects | `Reconcile` with its deferred status patch, `reconcileWorkloadTemplate`, `reconcileReconcilingCondition`, the map functions of its watches |
| workload webhooks, `webhooks/workload_webhook.go` | none; labels, owner and template reference of the stored Workloads | `Default`, `ValidateCreate`, `ValidateUpdate`, `ValidateDelete` |
| template webhook, `webhooks/workloadtemplate_webhook.go` | none; the stored sources | `validate` on create and update |
| kustomization, helm release and source repository controllers | one `WorkloadInventory` per labelled Flux object; the prune flag of a Kustomization that is being deleted | `Reconcile`, `reconcileWorkloadInventory`, `reconcileDelete` with its deferred patch |
| worktree controller | one `GitRepository` per `Worktree` | `Reconcile` |
| manager, `main.go` | the informer cache all of the above read | start, restart |
| `pkg/ingressutil`, `cmd/create-workload-template`, `test/mockcrds` | none | a pure function, a command, test support |

The parts interact through the API server only. Every typed read is served by
the informer cache, which lags behind; unstructured reads (the rendered
objects) and all writes go to the API server; its watch events update the cache
and put keys into a controller's work queue. Each controller has one worker.
Two controllers write Kustomizations (the workload controller and the
kustomization controller); the webhooks decide what the workload controller
gets to see.

What is hard here:

- **stale reads**: one pass mixes a workload, a cluster and a template read from
  the cache at different moments with objects read live;
- **lost wake-ups**: whether a stale read is corrected depends on some event
  being mapped to the right workload: by index for templates, by *label* for
  clusters (which are read by *owner reference*), by owner reference for objects;
- **failures that are not returned**: a failed write sets a condition and
  returns no error, so nothing but the event of that condition retries it;
- **partial work**: objects are written one at a time; the manager may stop, or
  a request be answered or not, between any two;
- **merged status**: conditions computed from an old copy are merged one by one
  into a newer one, under a resource version check;
- **deletion**: passes with stale copies run against the garbage collector;
- **targets that nobody watches**: the mirroring controllers wake for their
  sources only, and compute what to write from a cached target that may miss
  their own last write;
- **two writers of one object**: the workload controller sets `prune` of a
  Kustomization, the kustomization controller clears it, Flux acts on it;
- **admission**: `Default` and `validate` each look the cluster up, in a cache,
  while it is being deleted and recreated and other requests are served.

`PROJECT.json` lists these as hazards, each at its line.

## Modules

| module | what it is |
|---|---|
| `Informer` | external: one object as the stream of its versions from the cached to the stored one |
| `WorkloadReconciler` | the workload controller and its surroundings |
| `MCWorkloadReconciler` | its instances |
| `WorkloadAdmission` | the webhooks and the API server's admission chain |
| `MCWorkloadAdmission` | its instances |
| `Mirror` | abstract: what a controller that copies a source into a target promises |
| `MirrorReconciler` | the kustomization, helm release, source repository and worktree controllers, shown to implement `Mirror` |
| `MCMirrorReconciler` | its instances |
| `KustomizationDeletion` | the kustomization and the workload controller around a Kustomization that is being deleted |
| `InformerProofs`, `WorkloadReconcilerProofs`, `WorkloadAdmissionProofs`, `MirrorReconcilerProofs`, `KustomizationDeletionProofs` | theorems |
| `WorkloadStatusProofs`, `MirrorSettledProofs` | theorems about the workload's conditions and about targets at rest |

Operators commented `Mutant:` are plausible bugs of the definition that follows
them. They are used by no specification; substituted for it, each makes TLC
report the property named in `PROJECT.json`.

### Informer

An object is a non-empty sequence of versions. Its head is what `Get` and `List`
return, its last element what the API server stores, and the rest are watch
events on their way. A write appends, a delivery removes the head, a restart
keeps the last element. Two assumptions about client-go are built in: a watch
resumes where it broke, so a running manager loses no event (a watch that has to
list again after `410 Gone` could skip versions); and a handler enqueues keys
together with the update of the cache it reacts to.

### WorkloadReconciler

State: the streams `wl`, `tpl`, `cls`, `obj` of workloads, templates, clusters
and rendered objects; the `queue`; and the pass under way, `pc` being the place
in `Reconcile` and `cur`, `seen`, `clu`, `rend`, `idx`, `got`, `cond`, `err` its
local variables. A pass is cut into a step per request or cached read, so that
everything else may happen in between:

| action | code |
|---|---|
| `ReconcileGone`, `ReconcileStart` | `Get` of the workload, check of the deletion timestamp (60-71, 112) |
| `GetOwnerCluster` | owner and template reference (116-131) |
| `EvaluateTemplate` | template read, its checks, CUE up to `Fields` (133-239) |
| `RejectField`, `GetObject`, `WriteObject`, `MarkTrue` | the loop over the fields; `CreateOrPatch` is a live read and then a create or merge patch (241-319) |
| `ListKustomizations`, `ListHelmReleases` | the Reconciling condition (322-360) |
| `PatchUnneeded`, `PatchStatus`, `PatchRefused` | the deferred `SetSummary` and patch (72-94) |
| `ReadFails`, `WriteFails`, `PatchFails` | a request or read fails, or a write is accepted and its answer lost |
| `DeliverWorkload`, `DeliverTemplate`, `DeliverCluster`, `DeliverObject` | the watches of `SetupWithManager` (446-457) |
| `Restart` | the process ends (also by the `panic` of a map function) and starts again |

`Users` and `Collect` are the surroundings: users edit and delete workloads
(in the background and in the foreground), templates and clusters; Flux and
others edit, strip, delete, or reconcile rendered objects; the garbage collector
follows owner references.

Abstractions. CUE evaluation is a pair of constants: `Outcome` is the verdict
before the first field, for every combination of source, input and cluster
content, and `Fields` the fields in order with the check each fails, if any.
What an object holds is the combination it was rendered from, `Drifted` when
somebody else wrote it. A `WorkloadTemplateReconciled` condition is one value:
`Ready`, or its reason, or the message when the reason is `ReconcileFailed`
(messages matter, for a changed message is an event). Field failures do not
depend on the input. A failing `Get` of the workload itself puts the key back
and changes nothing else, so it is a stutter.

External behaviour used: the patch helper of the conditions package merges each
condition that changed since the workload was read into the workload it reads
again, fails on a conflicting change, and sends the resource version; Ready is
false while Reconciling is true and follows `WorkloadTemplateReconciled`
otherwise; an unstructured merge patch sends only what differs from the object
read; any change of a workload, of its status too, wakes its controller, for no
predicate is set.

### WorkloadAdmission

State: the stored workloads `wl`; the streams of clusters (an object's version
is the uid of its incarnation) and of template sources; and up to `Requests`
requests, each with the old version it is compared with, the new one as
`Default` has left it, and its stage. `Default`, `Validate` (up to the lookup of
the template) and `ValidateTemplate` are steps of their own, for each reads the
cache; `Store` is the API server's write, refused when the workload has changed
since. Clusters are created and deleted, templates put through `validate` of the
template webhook; a read may fail.

A cluster's organization label is fixed per incarnation. A workload's owner
references are represented by the first one to a cluster, the only one the
webhooks look at.

### Mirror and MirrorReconciler

The four controllers have one shape: take a name from the queue; for each kind
of source of that name (two for the source repository controller, whose one key
stands for a HelmRepository and an OCIRepository) read the source from the
cache, pass over it or `CreateOrPatch` its target. `MirrorReconciler` is that
shape with what differs as operators: what is passed over (`Ignored`), the
target that a source calls for (one operator per mutate function), the error
that the helm release controller swallows (`CreateOrPatchFails`), the panic on a
HelmRelease without `spec.chart` (`Panics`), which controller-runtime turns into
an error.

State: `log[k]` holds all versions of the source of kind `k`, `at[k]` is the one
in the cache; the targets are streams; `pc`, `pos`, `seen`, `got` are the pass
under way. The controllers share no object, so a behaviour is about one of them,
chosen in `Init` as `walk`.

| action | code |
|---|---|
| `DeliverSource` | `For`, and `Watches` with `objectToRequest` |
| `ReconcileStart`, `GetSource` | `Reconcile` up to the last early return |
| `GetTarget` | the cached read of `CreateOrPatch` and the mutate function |
| `WriteTarget`, `WriteUnneeded`, `WriteRefused` | create or merge patch, nothing to do, `AlreadyExists` or `NotFound` |
| `WriteFails`, `GetFails`, `Restart` | a request or read fails, or a write is served and its answer lost; the manager restarts |

Sources are created, edited, deleted (at once, or with a finalizer) and created
again with another uid; others edit and delete targets; the garbage collector
follows owner references; every ten hours, controller-runtime's default
`SyncPeriod`, the informers hand out every cached object again (`Resync`).

Abstractions. A patch holds the fields in which the wanted target differs from
the one read, and no resource version, as `CreateOrPatch` sends it; it applies
to whatever is stored. Selectors that name the source are one value. Constant
fields (the intervals) are left out. Targets go at once when they are deleted.

`Mirror` is the promise: a target is made of fields of versions of its source;
the version they are taken from never goes back; only the garbage collector and
others remove it. `MovesForward` states that `MirrorReconciler` implements it.
The mapping takes the version known to be `seen` while a pass holds one and
`at` otherwise, and the copy to be the stored target.

### KustomizationDeletion

State: the streams of one workload, its Kustomization and the kubeconfig Secret;
the kustomization controller (`kqueued`, `kpc`) and the workload controller as
far as this object goes (`wqueued`, `wpc`, `seen`, `got`). `KReconcile`,
`GetSecret`, `PatchPrune` are `Reconcile`, the cached read of the Secret in
`reconcileDelete` and the deferred patch, which names the object and nothing
else; `WReconcile`, `GetKustomization`, `WriteKustomization` are the pass of
`WorkloadReconciler` over one field, with its live read and merge patch. `Finalize`
is Flux: it prunes through the kubeconfig and then removes its finalizer, and
cannot prune when the Secret is missing. The cluster provider removes and writes
the Secret at any time. Unsuccessful writes of the workload controller are
modelled in `WorkloadReconciler`; here its requests do not fail, so that
`PruneRestored` is not about `WorkloadRetry` once more.

### How they fit together

`WorkloadReconciler` states its properties for workloads whose label names the
cluster that owns them (`Reconcilable`). `AdmittedConsistent`, proved of
`WorkloadAdmission`, is what makes admitted workloads such: label and owner
agree. Without the webhooks nothing does: a workload with an owner but not its
label is rendered, but not when its cluster changes. And admission lets a
workload without an owner pass, when its cluster reaches the cache after
`Default` and before `validate`; the workload controller ignores such a one.

## Runs

Passing runs (states are distinct states):

| run | instance | checks | states |
|---|---|---|---|
| `WorkloadTemplates` | 1 workload, 2 inputs, 3 sources of two fields, one of which may fail its check or its mutate function; 2 changes | `NoLostWakeUp`, `TruthfulWhenSettled` | 3.4 M |
| `WorkloadDrift` | a Kustomization others touch, and a Secret; 2 changes, 1 fault | `NoLostWakeUp`, `ReadyWhenSettled`, `OneFailureHeals` | 1.9 M |
| `WorkloadPair` | 2 workloads of a HelmRelease that others touch, also without owner, without reference and as cluster components; 1 change | `TypeOK`, `NoLostWakeUp`, `ReadyWhenSettled` | 2.2 M |
| `WorkloadLiveness` | 1 workload, 1 object, 2 changes, 1 fault, `FairSpec` | `EventuallySettles`, `DeletionCompletes`, `OrphansCollected` | 0.4 M |
| `AdmissionClusters` | 2 requests, a cluster name with two incarnations of two organizations, 1 template edit, 1 restart | `AdmittedConsistent` | 0.8 M |
| `AdmissionMoves` | 2 requests, 2 clusters, 2 templates of different names with and without `#Input` | `TypeOK`, `InputsFit`, `ReferencesImmutable` | 2.6 M |
| `Mirrors` | each of the 4 controllers, 3 changes of the source, 1 edit of the target, 1 fault, `FairSpec` | `TypeOK`, `MirroredWhenSettled`, `MovesForward`, `MirroredInTheEnd`, `NothingOutlivesItsSource` | 0.6 M |
| `KustomizationDeletion` | 1 Kustomization, with or without kubeconfig, 3 changes, 1 fault, `FairSpec` | `TypeOK`, `PruneKeptWithSecret`, `PruneRestored`, `KustomizationGoes`, `WorkloadGoes` | 0.7 M |

The properties, in words:

- `NoLostWakeUp`: a workload that no queued key and no event on its way will
  wake is truthful already, or the pass over it has read what is stored.
- `TruthfulWhenSettled`: once all is quiet, the template condition and the
  rendered objects are what the stored workload, cluster and template call for.
- `ReadyWhenSettled`: then Reconciling and Ready are right, too.
- `OneFailureHeals`: a single failed request leaves no workload failed.
- `EventuallySettles`, `DeletionCompletes`, `OrphansCollected`: the controller
  stops when the others do; foreground deletion completes; nothing that only
  the controller writes outlives its workload.
- `AdmittedConsistent`, `ReferencesImmutable`, `InputsFit`: see above and the
  comments at their definitions.
- `MirroredWhenSettled`: once all is quiet each target is the one its source
  calls for, with three provisos that are limits of the code: nobody else has
  edited the target (it is not watched); no field of what the source calls for
  has returned to a value it had before; and errors are returned, which leaves
  the helm release controller out.
- `MirroredInTheEnd`: without the provisos it is so in the end, by the resync. It
  does not rule out the situations below; it says that they do not last.
- `NothingOutlivesItsSource`: targets go with their sources, also those that a
  late pass makes, and a Worktree that is deleted in the foreground goes.
- `MovesForward`: the refinement.
- `PruneKeptWithSecret`: prune is cleared only if the Secret has been missing.
- `PruneRestored`: while the workload lives, the clearing of prune does not last,
  neither on a Kustomization created again under the name nor on one that is
  being deleted: at rest the spec is the rendered one.
- `KustomizationGoes`, `WorkloadGoes`: a deletion completes, with the cluster
  reachable or not.

Runs that end in a counterexample, each a finding in `PROJECT.json`:

| run | shows |
|---|---|
| `WorkloadRetry` | two failed writes in a row, and nothing retries: `reconcileWorkloadTemplate` returns no error |
| `WorkloadPayload` | the data of a Secret is never updated: only owner, labels and spec are. The controller's test renders a Secret; `config/rbac/role.yaml` alone would not let it create one, so this concerns deployments that grant it more |
| `AdmissionBroken` | a template that does not build makes `validate` drop its errors |
| `AdmissionNamespace` | the template reference's namespace can be changed |

### Where the guarantees of the mirrors end

TLC shows that each proviso of `MirroredWhenSettled` is needed; dropping it gives
these behaviours, which only a resync ends:

- *helm release* (`helmrelease_controller.go:108`), without any fault: a
  HelmRelease is created and its inventory written; its labels change before the
  inventory reaches the cache; the next pass finds no inventory, creates it,
  gets `AlreadyExists` and returns no error. The inventory keeps the old labels.
- *worktree* (`dockyardsworktree_controller.go:61`): the reference goes from a
  name to a commit and back; the cached GitRepository still shows the name, so
  there is nothing to patch, and the stored one stays at the commit.
- *targets* (`kustomization_controller.go:168`, and the other `SetupWithManager`s):
  an inventory that somebody edits or deletes stays so.

Likewise `KustomizationGoes` needs the resync: nothing watches Secrets, so a
Secret that goes missing after the Kustomization was marked wakes nobody.

And the two writers of prune need not come to rest: when a user deletes a
Kustomization whose Secret is missing while its workload lives, the Kustomization
controller clears prune, the workload controller sets it again, and each write
wakes the other. Flux ends it if it acts in between; TLC finds the cycle in which
it never does. `PruneRestored` therefore speaks of rest, and `WorkloadGoes` of
workloads that are deleted, for which the cycle cannot go on
(`dockyardsworkload_controller.go:112`). Nothing in the repository claims more.

### Bounds

`MaxChanges` bounds what users and Flux do, `MaxFaults` failures and restarts,
`MaxLag` how many undelivered events of an object the garbage collector and
Flux add to, `MaxEdits` and `MaxRestarts` the same in the admission model, and
`MaxEdits` in the mirrors what others do to targets. Three changes of a source
let a mirror's source be created, changed and changed back, or created, deleted
and created again, around one pass. Two changes of a workload suffice for a
change during a pass that reacts to another one, which is where a wake-up could
be lost; one fault for each kind of failure at each point of a pass; two
requests for every race between a check and a write. Two fields give an object
written before one that fails. The safety theorems below hold for
all bounds; the bounds limit TLC only. `WorkloadReconciler` has no further
step once all is settled and the bounds are used up, which is what
`CHECK_DEADLOCK FALSE` allows: a controller at rest. The same holds of
`MirrorReconciler` and `KustomizationDeletion` when no object is left. The admission runs check
for deadlock. `RequestSymmetry` permutes requests, which no property names.

### Fairness

`FairSpec` assumes weak fairness of the worker's steps (it runs as long as the
process does), of each watch and of the garbage collector; and strong fairness
of starting a queued key, which the first-in first-out work queue gives: a key
is taken after finitely many others, though the worker is busy in between.
Nothing is assumed of users or faults.

The mirrors and the deletion assume weak fairness of each worker (a controller
has one, and one name), of each watch, of the garbage collector, of Flux and of
the resync, which client-go runs on a timer. `Resync` is enabled only when all
is quiet, as ten hours are long against a pass; so the liveness properties say
that a resync repairs what it finds, and not that resyncs race passes. A worker
that retries is taken to run again, whatever the back-off.

## Proofs

All for arbitrary constants that satisfy the named assumptions.

- `InformerProofs`: what committing, delivering and relisting do to a stream.
- `WorkloadReconcilerProofs`
  - `TypeCorrect`: `Spec => []TypeOK`.
  - `WakeUpsKept`: `Spec => []NoLostWakeUp`.
  - `SettledIsTruthful`: `Spec => []TruthfulWhenSettled`.

  `TruthfulWhenSettled` says nothing of the states on the way to rest, so it is
  not inductive. `TypeOK /\ NoLostWakeUp` is: for every reconcilable workload it
  says that either something is pending that starts another pass, or what is
  stored is right, or the pass under way is `PassCurrent`: its copies equal what
  is stored, the fields before `idx` are in sync, and its condition, once set, is
  faithful. The proof takes one workload `w` and one lemma per group of actions.
  Steps that change what `w` depends on leave an event (`CommitWakes`); a
  delivery either enqueues `w` or was not the last event (`WokenShift`); a step
  over another workload changes nothing of `w` (`SoundOther`); steps of the pass
  over `w` keep `PassCurrent`; its end either finds the stored conditions equal
  to those computed, or writes and so leaves an event, or requeues.
  `TruthfulWhenSettled` follows because nothing is pending in a settled state.
  - `RenderedAreOwned`: `Spec => []RenderedOwned`, the safety half of
    `OrphansCollected`: what is rendered, and touched by nobody else, carries its
    owner reference. The invariant adds `OwnerKnown` (a pass reaches the template
    only with an owner); a patch takes the reference from what is stored or from
    what it wants, and both have one.
- `WorkloadStatusProofs`
  - `StatusIsKept`: `Spec => []StatusKept`.
  - `SettledIsReported`: `Spec => []ReadyWhenSettled`.
  - `OneFailureIsHealed`: `Spec => []OneFailureHeals`.

  A workload is `CaughtUp` when it is stored and neither queued nor with an event
  of its own on the way; `StatusKept` says of such a workload that the pass under
  way over it has read what is stored, or else that the stored Ready is the
  summary of the other conditions and, unless an event of one of its objects is
  on the way, that Reconciling says what the stored objects do. `Steps` sorts
  every step by what it does to one such workload: elsewhere, the pass over it
  goes on, ends, or starts. The end of a pass leaves a workload caught up only if
  the conditions computed are the stored ones, since a write is an event.
  For `OneFailureHeals`: without a fault no version of a workload reports one
  (`FailureFree`); after one, a workload that is caught up does not report it, as
  the write of the report is itself the event that starts the pass that mends it
  (`Healing`). `ErrorsNamed` keeps the messages of failed requests apart from the
  reasons that the controller sets.
- `WorkloadAdmissionProofs`
  - `AdmissionTypeCorrect`: `Spec => []TypeOK`.
  - `ReferencesAreImmutable`: `Spec => ReferencesImmutable`. The invariant: a
    request past `Validate` has passed `ValidateUpdate` against its old version;
    `Store` compares that version with the stored one.
  - `AdmittedAreConsistent`: `Spec => []AdmittedConsistent`, assuming that the
    templates stored before the webhooks were enabled build. The invariant
    `AdmissionInv` adds that all templates build (the template webhook admits no
    other), that a cluster's versions carry its name, and that requests past
    `Validate` without errors are consistent. Without the assumption the theorem
    is false: that is the run `AdmissionBroken`.
  - `InputsAlwaysFit`: `Spec => []InputsFit`, under the same assumption. The
    invariant `InputsInv`: the cache has the stored version of a template that
    nobody has changed (`UneditedSynced`), so what the lookup accepts is accepted
    by what is stored, and a request that is to be stored still fits
    (`RequestsFit`), however long ago its lookup was.
- `MirrorReconcilerProofs`
  - `MirrorTypeCorrect`: `Spec => []TypeOK`: no pass reads or writes a target
    before it has read a version of the source that calls for one. `MirrorInv`
    adds the domains of the maps; `StepCases` splits a step by what it writes.
  - `MirrorsMoveForward`: `Spec => MovesForward`, the refinement of `Mirror`.
    `MarkType` shows that the mapped version is a place of the log at or before
    the cached one, `WorkerMark` that a step of the worker leaves it or moves it
    to the cached one, `StoreCopies` that a write of `CreateOrPatch`, answered or
    not, is a `Copy`; the other steps are observations, publications, edits,
    collections or stutters.
- `MirrorSettledProofs`
  - `SettledIsMirrored`: `Spec => []MirroredWhenSettled`. Not for the HelmRelease
    kind, whose controller swallows errors.
  - `OwnedTargetsStay`: `Spec => []OwnedStays`.

  `SettledInv` takes five more facts. `LogKept`: versions of one source follow
  each other in the log, and a new source has a uid that nothing before has.
  `PassKept`: a pass works with the cached version of the source, unless its name
  is queued again. `Lineage`: as long as nobody edits the target, each field of
  the stored target comes from a version of the source at or after the one that
  the same field comes from in any version still on its way to the cache or read
  by the worker; that a step keeps this uses the refinement of `Mirror`.
  `OwnedStays`: a target that the stored source owns is not removed, so a pass
  that finds its copy up to date does not miss a collected one. `UpToDate`: a
  target for which the worker has nothing left to do (`Due`) is the one wanted.
  The last write of a pass is where they meet (`WriteMirrors`): a field that
  CreateOrPatch leaves out equals the wanted one in the copy read; the stored
  one is of a version in between, and so the same unless the field has returned
  to an earlier value, which `NoReturn` excludes (`NothingMissed`).
  `NoneIsNoTarget` says that nil is not a target.
- `KustomizationDeletionProofs`
  - `DeletionTypeCorrect`: `Spec => []TypeOK`.
  - `PruneIsKept`: `Spec => []PruneKeptWithSecret`. The invariant `PruneInv`:
    while the Secret has never been missing, no version of it on its way says
    so and the patch is not reached.
  - `PruneIsRestored`: `Spec => []PruneRestored`. The invariant `RestoreInv`: a
    Kustomization is never wrong without something on its way that starts a pass
    of the workload controller, or a pass that has read what is stored. Whether
    the Kustomization is being deleted makes no difference.

Only model-checked: the liveness properties `EventuallySettles`,
`DeletionCompletes`, `OrphansCollected`, `MirroredInTheEnd`,
`NothingOutlivesItsSource`, `KustomizationGoes` and `WorkloadGoes` (fairness is
beyond the prover), and the violations. Every safety property of the passing
runs is proved.

## Not modelled

- In `WorkloadReconciler`, the periodic resync of the informers, which would
  eventually repair what its violation runs show. Everywhere: a relist after
  `410 Gone`; a write of a process that has died which lands after its successor
  has listed.
- Two managers. `main.go` sets no leader election, so during a rolling update two
  processes reconcile the same objects from caches of their own.
- The status of the workload as an input of its own template (`#workload` is
  filled with the whole object).
- The key function of the template-reference index (in dockyards-backend): it is
  taken to resolve references as lines 133-140 of the controller do.
- Names reused: in `WorkloadReconciler` a workload or cluster that is gone does
  not come back under its name; two workloads do not render the same object, over
  whose owner reference they would take turns. Objects that a template no longer
  renders stay; nothing in the repository promises otherwise.
- `ensureValidJSON`, which descends into maps but not into lists: a pure function
  over JSON trees; that a mutate function may fail is modelled (`MutateFailed`).
- Finalizers of workloads in `WorkloadAdmission`: an update that only removes one
  is validated in full, and refused once the cluster or the template is gone.
- Finalizers of targets and rendered objects other than the Kustomization.
- `pkg/ingressutil`, a pure function that no code of the repository calls;
  `cmd/create-workload-template`, one `CreateOrPatch` from a command line, a
  `PutTemplate` of the models; test support, manifests and build files; flags,
  logging and metrics of `main.go`.

## Plan

1. `Informer`, `WorkloadReconciler`: runs and theorems (done).
2. `WorkloadAdmission`: runs and theorems (done).
3. `Mirror`, `MirrorReconciler`: runs, the refinement and its proof (done).
4. `KustomizationDeletion`: runs and theorems (done).
5. `WorkloadStatusProofs`, `MirrorSettledProofs`: the remaining safety
   properties of the runs (done).
6. Finalizers in `WorkloadAdmission`, and whether a workload that is being
   deleted can lose its last one.
7. Composition of 2 and 1: workloads entering the reconciler through admission.
