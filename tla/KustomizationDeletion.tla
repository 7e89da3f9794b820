----------------------- MODULE KustomizationDeletion -----------------------
(***************************************************************************)
(* The deletion of a Kustomization, between the two controllers that write *)
(* to it.  The workload controller keeps its spec as the template renders  *)
(* it, with prune set.  The Kustomization controller (reconcileDelete)     *)
(* clears prune on a Kustomization that is being deleted and whose         *)
(* kubeconfig Secret is missing, since Flux cannot prune the objects of a  *)
(* cluster it cannot reach and would keep its finalizer for ever.  Around  *)
(* them run Flux, the garbage collector, users, the cluster provider that  *)
(* owns the Secret, the watch streams, faults and restarts.                *)
(***************************************************************************)
EXTENDS Informer

CONSTANTS
  MaxChanges,  \* bound on the changes by users and the cluster provider
  MaxFaults,   \* bound on failed requests and restarts
  MaxLag,      \* bound on the events Flux and the garbage collector outrun
  None

\* remote: the rendered Kustomization has a spec.kubeConfig.
Workload == [deleting: BOOLEAN, remote: BOOLEAN]
Kustomization == [deleting: BOOLEAN, remote: BOOLEAN, prune: BOOLEAN]

ASSUME ConstantsTyped ==
  /\ MaxChanges \in Nat /\ MaxFaults \in Nat /\ MaxLag \in Nat \ {0}
  /\ None \notin Workload /\ None \notin Kustomization

VARIABLES
  wl, kust,         \* the watch streams of the workload and Kustomization
  secret,           \* and of whether the kubeconfig Secret exists
  missed,           \* whether the Secret has ever been missing
  kqueued, kpc,     \* the Kustomization controller
  wqueued, wpc,     \* the workload controller
  seen, got,        \* the workload and the Kustomization that it has read
  changes, faults   \* what has happened so far

api == << wl, kust, secret, missed >>
kctl == << kqueued, kpc >>
wctl == << wqueued, wpc, seen, got >>
vars == << api, kctl, wctl, changes, faults >>

Init ==
  /\ wl \in {<< [deleting |-> FALSE, remote |-> r] >> : r \in BOOLEAN}
  /\ kust = << None >>
  /\ secret \in {<< TRUE >>, << FALSE >>}
  /\ missed = ~Live(secret)
  /\ kqueued = FALSE /\ kpc = "idle"
  /\ wqueued = TRUE /\ wpc = "idle" /\ seen = None /\ got = None
  /\ changes = 0 /\ faults = 0
-----------------------------------------------------------------------------
(* The watches.  Nothing watches Secrets: their events reach the cache and *)
(* wake nobody.                                                            *)

DeliverWorkload ==
  /\ ~Synced(wl)
  /\ wl' = Delivered(wl) /\ wqueued' = TRUE
  /\ UNCHANGED << kust, secret, missed, kctl, wpc, seen, got, changes, faults >>

\* Mutant: the workload controller does not own Kustomizations.
DeliverUnowned ==
  /\ ~Synced(kust)
  /\ kust' = Delivered(kust) /\ kqueued' = TRUE
  /\ UNCHANGED << wl, secret, missed, kpc, wctl, changes, faults >>

DeliverKustomization ==
  /\ ~Synced(kust)
  /\ kust' = Delivered(kust) /\ kqueued' = TRUE /\ wqueued' = TRUE
  /\ UNCHANGED << wl, secret, missed, kpc, wpc, seen, got, changes, faults >>

DeliverSecret ==
  /\ ~Synced(secret)
  /\ secret' = Delivered(secret)
  /\ UNCHANGED << wl, kust, missed, kctl, wctl, changes, faults >>
-----------------------------------------------------------------------------
(* The Kustomization controller.                                           *)

KFail == kpc' = "idle" /\ kqueued' = TRUE

\* reconcileDelete has something to do.
Releasable(k) == k # None /\ k.deleting /\ k.remote /\ k.prune

KReconcile ==
  /\ kpc = "idle" /\ kqueued
  /\ kqueued' = FALSE
  /\ kpc' = IF Releasable(Cached(kust)) THEN "secret" ELSE "idle"
  /\ UNCHANGED << api, wctl, changes, faults >>

\* Mutant: never releases.
GetSecretOnly ==
  /\ kpc = "secret" /\ kpc' = "idle"
  /\ UNCHANGED << api, kqueued, wctl, changes, faults >>

GetSecret ==
  /\ kpc = "secret"
  /\ kpc' = IF Cached(secret) THEN "idle" ELSE "patch"
  /\ UNCHANGED << api, kqueued, wctl, changes, faults >>

\* Mutant: any error is taken for a Secret that is missing.
GetSecretFailsOpen ==
  /\ kpc = "secret" /\ kpc' = "patch"
  /\ faults < MaxFaults /\ faults' = faults + 1
  /\ UNCHANGED << api, kqueued, wctl, changes >>

\* The error is returned: a Secret that cannot be read is not missing.
GetSecretFails ==
  /\ kpc = "secret" /\ KFail
  /\ faults < MaxFaults /\ faults' = faults + 1
  /\ UNCHANGED << api, wctl, changes >>

\* The deferred merge patch names the Kustomization and nothing else: it
\* holds for one that has been created again in the meantime as well.
Release ==
  /\ kpc = "patch" /\ Live(kust) # None
  /\ kust' = IF Live(kust).prune
             THEN Commit(kust, [Live(kust) EXCEPT !.prune = FALSE]) ELSE kust

PatchPrune ==
  /\ Release /\ kpc' = "idle"
  /\ UNCHANGED << wl, secret, missed, kqueued, wctl, changes, faults >>

PatchNotFound ==
  /\ kpc = "patch" /\ Live(kust) = None /\ KFail
  /\ UNCHANGED << api, wctl, changes, faults >>

\* The patch fails, or it is served and its answer is lost.
PatchFails ==
  /\ kpc = "patch" /\ KFail
  /\ Release \/ UNCHANGED kust
  /\ faults < MaxFaults /\ faults' = faults + 1
  /\ UNCHANGED << wl, secret, missed, wctl, changes >>

KWorker == KReconcile \/ GetSecret \/ PatchPrune \/ PatchNotFound
-----------------------------------------------------------------------------
(* The workload controller, as far as this Kustomization goes; the module  *)
(* WorkloadReconciler has the whole of it.                                 *)

Rendering(w) == w # None /\ ~w.deleting

\* Mutant: the next pass starts with what this one has read.
WDoneKeeping == wpc' = "idle" /\ seen' = None /\ UNCHANGED got

WDone == wpc' = "idle" /\ seen' = None /\ got' = None

\* Mutant: renders a workload that is being deleted.
WReconcileAnyway ==
  /\ wpc = "idle" /\ wqueued
  /\ wqueued' = FALSE
  /\ IF Cached(wl) # None THEN wpc' = "get" /\ seen' = Cached(wl)
     ELSE wpc' = "idle" /\ seen' = None
  /\ UNCHANGED << api, got, kctl, changes, faults >>

WReconcile ==
  /\ wpc = "idle" /\ wqueued
  /\ wqueued' = FALSE
  /\ IF Rendering(Cached(wl)) THEN wpc' = "get" /\ seen' = Cached(wl)
     ELSE wpc' = "idle" /\ seen' = None
  /\ UNCHANGED << api, got, kctl, changes, faults >>

\* Rendered objects are unstructured, which the client reads from the API
\* server.
GetKustomization ==
  /\ wpc = "get"
  /\ wpc' = "write" /\ got' = Live(kust)
  /\ UNCHANGED << api, wqueued, seen, kctl, changes, faults >>

\* Creates the Kustomization, or patches what differs from what was read.
WriteKustomization ==
  LET live == Live(kust)
      patched == [live EXCEPT
        !.remote = IF got.remote = seen.remote THEN live.remote ELSE seen.remote,
        !.prune = live.prune \/ ~got.prune]
      new == IF got = None
             THEN [deleting |-> FALSE, remote |-> seen.remote, prune |-> TRUE]
             ELSE patched
  IN  /\ wpc = "write" /\ (got = None) = (live = None)
      /\ kust' = IF new = live THEN kust ELSE Commit(kust, new)
      /\ WDone
      /\ UNCHANGED << wl, secret, missed, wqueued, kctl, changes, faults >>

\* AlreadyExists or NotFound: the event of the other write wakes again.
WriteRefused ==
  /\ wpc = "write" /\ (got = None) # (Live(kust) = None)
  /\ WDone
  /\ UNCHANGED << api, wqueued, kctl, changes, faults >>

WWorker == WReconcile \/ GetKustomization \/ WriteKustomization \/ WriteRefused
-----------------------------------------------------------------------------
(* The manager restarts, with both controllers.                            *)
Restart ==
  /\ faults < MaxFaults /\ faults' = faults + 1
  /\ wl' = Relisted(wl) /\ kust' = Relisted(kust) /\ secret' = Relisted(secret)
  /\ kqueued' = (Live(kust) # None)
  /\ wqueued' = (Live(wl) # None \/ Live(kust) # None)
  /\ kpc' = "idle" /\ WDone
  /\ UNCHANGED << missed, changes >>

Faults == GetSecretFails \/ PatchFails \/ Restart
-----------------------------------------------------------------------------
(* Users, the cluster provider, Flux and the garbage collector.            *)

Change == changes < MaxChanges /\ changes' = changes + 1

UpdateWorkload ==
  /\ Rendering(Live(wl))
  /\ wl' = Commit(wl, [Live(wl) EXCEPT !.remote = ~@])
  /\ Change /\ UNCHANGED << kust, secret, missed, kctl, wctl, faults >>

\* In the background or in the foreground.
DeleteWorkload ==
  /\ Rendering(Live(wl))
  /\ \E v \in {None, [Live(wl) EXCEPT !.deleting = TRUE]} : wl' = Commit(wl, v)
  /\ Change /\ UNCHANGED << kust, secret, missed, kctl, wctl, faults >>

MarkDeleted ==
  /\ Live(kust) # None /\ ~Live(kust).deleting
  /\ kust' = Commit(kust, [Live(kust) EXCEPT !.deleting = TRUE])
  /\ UNCHANGED << wl, secret, missed, kctl, wctl, faults >>

DeleteKustomization == MarkDeleted /\ Change

\* The Secret goes with its cluster, or is written again.
PutSecret ==
  /\ secret' = Commit(secret, ~Live(secret))
  /\ missed' = (missed \/ Live(secret))
  /\ Change /\ UNCHANGED << wl, kust, kctl, wctl, faults >>

Users == UpdateWorkload \/ DeleteWorkload \/ DeleteKustomization \/ PutSecret

\* The Kustomization goes with the workload that owns it.
CollectKustomization ==
  /\ ~Rendering(Live(wl)) /\ Len(kust) <= MaxLag
  /\ MarkDeleted /\ UNCHANGED changes

\* A workload that is deleted in the foreground waits for the Kustomization.
CollectWorkload ==
  /\ Live(wl) # None /\ Live(wl).deleting /\ Live(kust) = None
  /\ wl' = Commit(wl, None)
  /\ UNCHANGED << kust, secret, missed, kctl, wctl, changes, faults >>

\* Flux prunes through the kubeconfig and removes its finalizer; without
\* prune it only removes its finalizer.
Finalize ==
  /\ Live(kust) # None /\ Live(kust).deleting /\ Len(kust) <= MaxLag
  /\ Releasable(Live(kust)) => Live(secret)
  /\ kust' = Commit(kust, None)
  /\ UNCHANGED << wl, secret, missed, kctl, wctl, changes, faults >>

Settled ==
  /\ kpc = "idle" /\ ~kqueued /\ wpc = "idle" /\ ~wqueued
  /\ Synced(wl) /\ Synced(kust) /\ Synced(secret)

\* Every ten hours the informers hand out each cached object again.
Resync ==
  /\ Settled /\ Live(kust) # None
  /\ kqueued' = TRUE /\ wqueued' = TRUE
  /\ UNCHANGED << api, kpc, wpc, seen, got, changes, faults >>

Deliver == DeliverWorkload \/ DeliverKustomization \/ DeliverSecret
Collect == CollectKustomization \/ CollectWorkload

Next == KWorker \/ WWorker \/ Deliver \/ Faults \/ Users \/ Collect
          \/ Finalize \/ Resync

Spec == Init /\ [][Next]_vars

\* Both workers, each watch, Flux, the garbage collector and the resyncs
\* keep running.
Fairness ==
  /\ WF_vars(KWorker) /\ WF_vars(WWorker) /\ WF_vars(Resync)
  /\ WF_vars(DeliverWorkload) /\ WF_vars(DeliverKustomization)
  /\ WF_vars(DeliverSecret)
  /\ WF_vars(CollectKustomization) /\ WF_vars(CollectWorkload)
  /\ WF_vars(Finalize)

FairSpec == Spec /\ Fairness
-----------------------------------------------------------------------------
TypeOK ==
  /\ wl \in Stream(Workload \cup {None})
  /\ kust \in Stream(Kustomization \cup {None})
  /\ secret \in Stream(BOOLEAN) /\ missed \in BOOLEAN
  /\ kqueued \in BOOLEAN /\ kpc \in {"idle", "secret", "patch"}
  /\ wqueued \in BOOLEAN /\ wpc \in {"idle", "get", "write"}
  /\ IF wpc = "idle" THEN seen = None ELSE seen \in Workload
  /\ got \in Kustomization \cup {None}
  /\ wpc # "write" => got = None
  /\ changes \in 0..MaxChanges /\ faults \in 0..MaxFaults

\* Objects are left behind in a cluster only if its kubeconfig Secret has
\* been missing: prune stays set while the Secret has always been there,
\* although reads of it fail, answers are lost and the manager restarts
\* (reconcileDelete and its two tests, which look at one pass each).
PruneKeptWithSecret ==
  ~missed => \A i \in 1..Len(kust) : kust[i] # None => kust[i].prune

\* Two controllers write prune.  The patch of a deletion also reaches a
\* Kustomization that has been created again under the name, which would
\* then leave its objects behind one day; and on one that is being deleted
\* while its workload lives, each write undoes the other.  Whatever the
\* order, the workload controller has the last word: once everything is
\* quiet, the Kustomization of a workload has the spec that is rendered.
PruneRestored ==
  Settled /\ Rendering(Live(wl)) /\ Live(kust) # None =>
    Live(kust).prune /\ Live(kust).remote = Live(wl).remote

\* A Kustomization whose workload is gone goes too, whether its cluster can
\* be reached or not, although nothing wakes when the Secret goes missing
\* and a late pass of the workload controller can set prune again or even
\* create the Kustomization again.
KustomizationGoes == <>[](Live(wl) = None => Live(kust) = None)

\* A workload that is deleted in the foreground does not wait for ever for a
\* Kustomization that Flux cannot prune.
WorkloadGoes == (Live(wl) # None /\ ~Rendering(Live(wl))) ~> Live(wl) = None
=============================================================================
