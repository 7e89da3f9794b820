-------------------------- MODULE MirrorReconciler --------------------------
(***************************************************************************)
(* The controllers that mirror an object into another one: inventories of  *)
(* Kustomizations, HelmReleases, HelmRepositories and OCIRepositories, and *)
(* GitRepositories of Worktrees.  They share one shape: a worker takes a   *)
(* name from its queue and, for each kind of source of that name in turn,  *)
(* reads the source from the cache and creates or merge-patches the target *)
(* it calls for, on top of the cached copy of the target.  None of them    *)
(* watches its target.  The module is about the objects of one name; the   *)
(* controllers have no object in common, and a behaviour is about one of   *)
(* them.  What the Kustomization controller does with a Kustomization that *)
(* is being deleted is in KustomizationDeletion.                           *)
(***************************************************************************)
EXTENDS Informer

CONSTANTS
  Controllers,  \* the controllers looked at
  Bodies,       \* for each kind, what users write into a source
  Foreign,      \* what somebody else writes into a field of a target
  MaxChanges,   \* bound on the changes of the sources
  MaxEdits,     \* bound on the edits of targets by others
  MaxFaults,    \* bound on failed requests and restarts
  MaxLag,       \* bound on the events of a target the collector outruns
  None

Kinds == {"Kustomization", "HelmRelease", "HelmRepository", "OCIRepository",
          "Worktree"}

\* The kinds of source that a pass of each controller walks through.
Walks == {<< "Kustomization" >>, << "HelmRelease" >>,
          << "HelmRepository", "OCIRepository" >>, << "Worktree" >>}

\* A version of a source; uid is the place in the log where it was created.
Source(k) == [uid: Nat, deleting: BOOLEAN, body: Bodies[k]]

ASSUME ConstantsTyped ==
  /\ Controllers \subseteq Walks
  /\ DOMAIN Bodies = Kinds
  /\ MaxChanges \in Nat /\ MaxEdits \in Nat /\ MaxFaults \in Nat
  /\ MaxLag \in Nat \ {0}

VARIABLES
  walk,      \* the kinds of source of the controller looked at
  log,       \* every version of each source, the stored one last
  at,        \* the version of each source that the cache holds
  tgt,       \* the watch stream of each target
  queued,    \* whether the name is in the controller's work queue
  pc, pos,   \* where the worker stands, and at which kind of source
  seen,      \* the version of the source as read
  got,       \* the target as read by CreateOrPatch
  changes, edits, faults  \* what has happened so far

api == << log, at, tgt >>
frame == << pc, pos, seen, got >>
vars == << walk, api, queued, frame, changes, edits, faults >>

kind == walk[pos]
Active == {walk[i] : i \in 1..Len(walk)}

\* The manager starts in a cluster that holds no source of this name.
Init ==
  /\ walk \in Controllers
  /\ log = [k \in Kinds |-> << None >>]
  /\ at = [k \in Kinds |-> 1]
  /\ tgt = [k \in Kinds |-> << None >>]
  /\ queued = FALSE
  /\ pc = "idle" /\ pos = 1 /\ seen = 0 /\ got = None
  /\ changes = 0 /\ edits = 0 /\ faults = 0
-----------------------------------------------------------------------------
(* The target that a version of a source calls for.  A selector names the  *)
(* source itself, except that of a HelmRelease, which names its chart.     *)

KustomizationInventory(v) ==
  [owner |-> v.uid, workload |-> v.body.workload, cluster |-> v.body.cluster,
   selector |-> "Kustomization"]

HelmReleaseInventory(v) ==
  [owner |-> v.uid, cluster |-> v.body.cluster, workload |-> v.body.workload,
   name |-> v.body.chart, version |-> v.body.version,
   chart |-> << v.body.chart, v.body.version >>]

HelmRepositoryInventory(v) ==
  [owner |-> v.uid, cluster |-> v.body.cluster, workload |-> v.body.workload,
   selector |-> "HelmRepository"]

OCIRepositoryInventory(v) ==
  [owner |-> v.uid, cluster |-> v.body.cluster, workload |-> v.body.workload,
   selector |-> "OCIRepository"]

\* Mutant: no owner reference.
UnownedGitRepository(v) ==
  [owner |-> None, url |-> v.body.url, commit |-> v.body.commit,
   name |-> IF v.body.commit = None THEN v.body.ref ELSE None]

\* A commit takes the place of a reference name.
GitRepository(v) ==
  [owner |-> v.uid, url |-> v.body.url, commit |-> v.body.commit,
   name |-> IF v.body.commit = None THEN v.body.ref ELSE None]

\* A source that its controller passes over: a Worktree that has nothing to
\* track yet, another source that is being deleted or lacks a label.
Ignored(k, v) ==
  IF k = "Worktree"
  THEN v.body.url = None \/ (v.body.ref = None /\ v.body.commit = None)
  ELSE v.deleting \/ v.body.cluster = None \/ v.body.workload = None

Target(k, v) ==
  CASE k = "Kustomization" -> KustomizationInventory(v)
    [] k = "HelmRelease" -> HelmReleaseInventory(v)
    [] k = "HelmRepository" -> HelmRepositoryInventory(v)
    [] k = "OCIRepository" -> OCIRepositoryInventory(v)
    [] k = "Worktree" -> GitRepository(v)

Wanted(k, v) == IF v = None \/ Ignored(k, v) THEN None ELSE Target(k, v)

\* A HelmRelease that refers to its chart by chartRef has no spec.chart: the
\* selector is built from a nil pointer, and controller-runtime turns the
\* panic into an error of the pass.
Panics(k, v) == k = "HelmRelease" /\ v.body.chart = None

stored(k) == log[k][Len(log[k])]
want == Wanted(kind, log[kind][seen])
-----------------------------------------------------------------------------
(* The watches: For, and in the source repository controller Watches with  *)
(* objectToRequest, enqueue the name of a source that changes.             *)

DeliverSource(k) ==
  /\ at[k] < Len(log[k])
  /\ at' = [at EXCEPT ![k] = @ + 1]
  /\ queued' = TRUE
  /\ UNCHANGED << walk, log, tgt, frame, changes, edits, faults >>

DeliverTarget(k) ==
  /\ ~Synced(tgt[k])
  /\ tgt' = [tgt EXCEPT ![k] = Delivered(@)]
  /\ UNCHANGED << walk, log, at, queued, frame, changes, edits, faults >>
-----------------------------------------------------------------------------
(* Reconcile.                                                              *)

Forget == pos' = 1 /\ seen' = 0 /\ got' = None

ReconcileStart ==
  /\ pc = "idle" /\ queued
  /\ queued' = FALSE /\ pc' = "source"
  /\ UNCHANGED << walk, api, pos, seen, got, changes, edits, faults >>

\* The pass is done with one kind of source: on to the next or return nil.
NextKind ==
  /\ IF pos < Len(walk)
     THEN pc' = "source" /\ pos' = pos + 1 /\ seen' = 0 /\ got' = None
     ELSE pc' = "idle" /\ Forget
  /\ UNCHANGED queued

\* Reconcile returns an error and the name is queued again.
Fail == pc' = "idle" /\ queued' = TRUE /\ Forget

\* Mutant: every controller returns nil.
CreateOrPatchSwallowed == NextKind

\* An error of CreateOrPatch ends the pass, but the HelmRelease controller
\* returns nil in its place.
CreateOrPatchFails == IF kind = "HelmRelease" THEN NextKind ELSE Fail

\* Mutant: a source that is to be passed over is not.
GetSourceAnyway ==
  /\ pc = "source"
  /\ seen' = at[kind] /\ pc' = "target" /\ UNCHANGED << pos, got, queued >>
  /\ UNCHANGED << walk, api, changes, edits, faults >>

GetSource ==
  /\ pc = "source"
  /\ IF Wanted(kind, log[kind][at[kind]]) = None THEN NextKind
     ELSE seen' = at[kind] /\ pc' = "target" /\ UNCHANGED << pos, got, queued >>
  /\ UNCHANGED << walk, api, changes, edits, faults >>

\* CreateOrPatch reads the cached target and calls the mutate function.
GetTarget ==
  /\ pc = "target"
  /\ IF Panics(kind, log[kind][seen]) THEN Fail
     ELSE got' = Cached(tgt[kind]) /\ pc' = "write"
          /\ UNCHANGED << pos, seen, queued >>
  /\ UNCHANGED << walk, api, changes, edits, faults >>

\* Mutant: the patch is computed from the new target to the old one.
PatchedBack(live) ==
  [f \in DOMAIN live |-> IF got[f] = want[f] THEN live[f] ELSE got[f]]

\* Mutant: all but the owner reference is set on creation only.
PatchedOwner(live) ==
  [f \in DOMAIN live |-> IF f = "owner" THEN want[f] ELSE live[f]]

\* The merge patch holds the fields in which the target as wanted differs
\* from the target as read, and no resource version.
Patched(live) ==
  [f \in DOMAIN live |-> IF got[f] = want[f] THEN live[f] ELSE want[f]]

\* A request that the API server accepts; one that changes nothing there is
\* no event.
Store ==
  LET live == Live(tgt[kind])
      new == IF got = None THEN want ELSE Patched(live)
  IN  /\ pc = "write" /\ got # want
      /\ (got = None) = (live = None)
      /\ tgt' = IF new = live THEN tgt
                ELSE [tgt EXCEPT ![kind] = Commit(@, new)]

WriteTarget ==
  /\ Store /\ NextKind
  /\ UNCHANGED << walk, log, at, changes, edits, faults >>

WriteUnneeded ==
  /\ pc = "write" /\ got = want
  /\ NextKind
  /\ UNCHANGED << walk, api, changes, edits, faults >>

\* AlreadyExists, or NotFound.
WriteRefused ==
  /\ pc = "write" /\ got # want
  /\ (got = None) # (Live(tgt[kind]) = None)
  /\ CreateOrPatchFails
  /\ UNCHANGED << walk, api, changes, edits, faults >>

Worker ==
  \/ ReconcileStart \/ GetSource \/ GetTarget
  \/ WriteTarget \/ WriteUnneeded \/ WriteRefused
-----------------------------------------------------------------------------
(* Faults.                                                                 *)

Fault == faults < MaxFaults /\ faults' = faults + 1

\* The request fails, or it is served and its answer is lost.
WriteFails ==
  /\ pc = "write" /\ got # want
  /\ Store \/ UNCHANGED tgt
  /\ CreateOrPatchFails
  /\ Fault /\ UNCHANGED << walk, log, at, changes, edits >>

\* A read of the source or of the target fails.
GetFails ==
  /\ \/ pc = "source" /\ Fail
     \/ pc = "target" /\ CreateOrPatchFails
  /\ Fault /\ UNCHANGED << walk, api, changes, edits >>

\* The manager restarts and its lists enqueue every source there is.
Restart ==
  /\ at' = [k \in Kinds |-> Len(log[k])]
  /\ tgt' = [k \in Kinds |-> Relisted(tgt[k])]
  /\ queued' = (\E k \in Kinds : stored(k) # None)
  /\ pc' = "idle" /\ Forget
  /\ Fault /\ UNCHANGED << walk, log, changes, edits >>

Faults == WriteFails \/ GetFails \/ Restart
-----------------------------------------------------------------------------
(* Users, Flux and the garbage collector.                                  *)

Publish(k, v) ==
  /\ log' = [log EXCEPT ![k] = Append(@, v)]
  /\ UNCHANGED << walk, at, tgt, queued, frame, edits, faults >>

Change == changes < MaxChanges /\ changes' = changes + 1

CreateSource(k, b) ==
  /\ stored(k) = None
  /\ Publish(k, [uid |-> Len(log[k]), deleting |-> FALSE, body |-> b])
  /\ Change

UpdateSource(k, b) ==
  /\ stored(k) # None /\ stored(k).body # b
  /\ Publish(k, [stored(k) EXCEPT !.body = b])
  /\ Change

\* A source without finalizers goes at once.
DeleteSource(k) ==
  /\ stored(k) # None /\ ~stored(k).deleting
  /\ \E v \in {None, [stored(k) EXCEPT !.deleting = TRUE]} : Publish(k, v)
  /\ Change

\* Somebody deletes or edits a target.
EditTarget(k) ==
  LET v == Live(tgt[k])
  IN  /\ v # None
      /\ \E new \in {None} \cup {[v EXCEPT ![f] = Foreign] :
                                   f \in DOMAIN v \ {"owner"}} :
           new # v /\ tgt' = [tgt EXCEPT ![k] = Commit(@, new)]
      /\ edits < MaxEdits /\ edits' = edits + 1
      /\ UNCHANGED << walk, log, at, queued, frame, changes, faults >>

\* A target goes with the source that owns it; the GitRepository of a
\* Worktree that is deleted in the foreground goes first.
Garbage(k) ==
  /\ Live(tgt[k]) # None /\ Live(tgt[k]).owner # None
  /\ \/ stored(k) = None
     \/ stored(k) # None /\ Live(tgt[k]).owner # stored(k).uid
     \/ stored(k) # None /\ stored(k).deleting /\ k = "Worktree"

CollectTarget(k) ==
  /\ Garbage(k) /\ Len(tgt[k]) <= MaxLag
  /\ tgt' = [tgt EXCEPT ![k] = Commit(@, None)]
  /\ UNCHANGED << walk, log, at, queued, frame, changes, edits, faults >>

\* Flux has removed its finalizer, or the garbage collector its own.
Finalized(k) ==
  /\ stored(k) # None /\ stored(k).deleting
  /\ k = "Worktree" => ~Garbage(k)

RemoveSource(k) ==
  /\ Finalized(k)
  /\ Publish(k, None)
  /\ UNCHANGED changes

Users ==
  \E k \in Active :
    \/ \E b \in Bodies[k] : CreateSource(k, b) \/ UpdateSource(k, b)
    \/ DeleteSource(k)
    \/ EditTarget(k)

Collect == \E k \in Active : CollectTarget(k) \/ RemoveSource(k)
Deliver == \E k \in Active : DeliverSource(k) \/ DeliverTarget(k)

\* Nothing is left to do: the name is not queued, no pass is under way and
\* no event is on its way to the cache.
Settled ==
  /\ pc = "idle" /\ ~queued
  /\ \A k \in Kinds : at[k] = Len(log[k]) /\ Synced(tgt[k])

\* Every ten hours the informers hand out each cached object again.  By then
\* the controller and the garbage collector have long done what they had to.
Resync ==
  /\ Settled
  /\ \A k \in Kinds : ~Garbage(k) /\ ~Finalized(k)
  /\ \E k \in Kinds : stored(k) # None
  /\ queued' = TRUE
  /\ UNCHANGED << walk, api, frame, changes, edits, faults >>

Next == Worker \/ Deliver \/ Faults \/ Users \/ Collect \/ Resync

Spec == Init /\ [][Next]_vars

\* The worker, each watch, the garbage collector, Flux and the resyncs keep
\* running.
Fairness ==
  /\ WF_vars(Worker) /\ WF_vars(Resync)
  /\ \A k \in Kinds : /\ WF_vars(DeliverSource(k)) /\ WF_vars(DeliverTarget(k))
                      /\ WF_vars(CollectTarget(k)) /\ WF_vars(RemoveSource(k))

FairSpec == Spec /\ Fairness
-----------------------------------------------------------------------------
Held(k, f) == {b[f] : b \in Bodies[k]} \cup {None, Foreign}

\* The targets there can be of a source of kind k.
Targets(k) ==
  CASE k = "HelmRelease" ->
         [owner: Nat, cluster: Held(k, "cluster"), workload: Held(k, "workload"),
          name: Held(k, "chart"), version: Held(k, "version"),
          chart: (Held(k, "chart") \X Held(k, "version")) \cup {Foreign}]
    [] k = "Worktree" ->
         [owner: Nat, url: Held(k, "url"), commit: Held(k, "commit"),
          name: Held(k, "ref")]
    [] OTHER ->
         [owner: Nat, cluster: Held(k, "cluster"), workload: Held(k, "workload"),
          selector: {k, Foreign}]

ASSUME NoneIsNoTarget == \A k \in Kinds : None \notin Targets(k)

\* Every variable has its type, and the worker has read a version of the
\* source that the cache has held, and that calls for a target, before it
\* reads or writes the target.
TypeOK ==
  /\ walk \in Controllers
  /\ \A k \in Kinds : /\ log[k] \in Stream(Source(k) \cup {None})
                      /\ at[k] \in 1..Len(log[k])
                      /\ tgt[k] \in Stream(Targets(k) \cup {None})
  /\ queued \in BOOLEAN
  /\ pc \in {"idle", "source", "target", "write"}
  /\ pos \in 1..Len(walk)
  /\ IF pc \in {"target", "write"}
     THEN seen \in 1..at[kind] /\ want # None
     ELSE seen = 0
  /\ IF pc = "write" THEN got \in Targets(kind) \cup {None} ELSE got = None
  /\ changes \in 0..MaxChanges /\ edits \in 0..MaxEdits
  /\ faults \in 0..MaxFaults

\* No field of what the source calls for has returned to an earlier value.
NoReturn(k) ==
  \A i, j, n \in 1..Len(log[k]) :
    LET a == Wanted(k, log[k][i])
        b == Wanted(k, log[k][j])
        c == Wanted(k, log[k][n])
    IN  i < j /\ j < n /\ None \notin {a, b, c} =>
          \A f \in DOMAIN a : a[f] = c[f] => b[f] = a[f]

\* The target is the one that the stored source calls for.
Mirrored(k) ==
  LET v == stored(k)
  IN  Wanted(k, v) # None /\ ~v.deleting /\ ~Panics(k, v) =>
        Live(tgt[k]) = Wanted(k, v)

\* No controller wakes when its target changes, each writes on top of a copy
\* of the target that may be old, and the copy of the source may be old as
\* well.  Still, once everything is quiet, the target of a source is the one
\* it calls for, provided that no field of it has returned to a value it had
\* before (CreateOrPatch then finds no difference to an old copy), that
\* nobody else has edited the target and that errors are returned.
MirroredWhenSettled ==
  Settled /\ edits = 0 =>
    \A k \in Kinds \ {"HelmRelease"} : NoReturn(k) => Mirrored(k)

\* Without those provisos it takes a resync: in the end each target is the
\* one its source calls for.
MirroredInTheEnd == \A k \in Kinds : <>[]Mirrored(k)

\* Nothing outlives its source: a target that a late pass makes for a source
\* that is gone carries the owner reference that gets it collected, and a
\* Worktree that is deleted in the foreground goes, although its controller
\* goes on making its GitRepository.
NothingOutlivesItsSource ==
  \A k \in Kinds : <>[](/\ stored(k) = None => Live(tgt[k]) = None
                        /\ stored(k) # None => ~stored(k).deleting)

\* However reads, events, failures and restarts interleave, a target only
\* moves forward along the versions of its source, field by field.
M == INSTANCE Mirror WITH
  mark <- [k \in Kinds |-> IF pc \in {"target", "write"} /\ kind = k
                           THEN seen ELSE at[k]],
  copy <- [k \in Kinds |-> Live(tgt[k])]

MovesForward == M!Spec
=============================================================================
