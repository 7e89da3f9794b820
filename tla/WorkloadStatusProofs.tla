------------------------ MODULE WorkloadStatusProofs ------------------------
(* Proofs about the conditions that WorkloadReconciler reports, for every    *)
(* value of its constants.                                                  *)
EXTENDS WorkloadReconcilerProofs

\* The cache holds the stored workload and no pass over it is queued.
CaughtUp(w) == w \notin queue /\ Synced(wl[w]) /\ Live(wl[w]) # None

\* What the Reconciling condition is about: a stored object of w that carries
\* its label and that Flux is reconciling.
ReconcilingAt(o) == Owned(o) /\ Live(obj[o]).reconciling

ReconcilingOf(w, kind) ==
  \E n \in Names : KindOf[n] = kind /\ ReconcilingAt(<< w, n >>)

ReconOf(w) ==
  IF ReconcilingOf(w, "Kustomization") THEN "KustomizationReconciling"
  ELSE IF ReconcilingOf(w, "HelmRelease") THEN "HelmReleaseReconciling"
  ELSE "Unset"

\* No event of an object of w is on its way to the controller.
Heard(w) == \A n \in Names : ~Woken(<< w, n >>)

\* What the pass over w has found out about its objects so far.
PassReports(w) ==
  /\ pc = "listHelmReleases" => ~ReconcilingOf(w, "Kustomization")
  /\ pc = "patch" /\ ~err => cond.recon = ReconOf(w)

Reported(w) ==
  IF cur = w THEN seen = Live(wl[w]) /\ (Heard(w) => PassReports(w))
  ELSE /\ Live(wl[w]).cond = SetSummary(Live(wl[w]).cond)
       /\ Heard(w) => Live(wl[w]).cond.recon = ReconOf(w)

\* The inductive invariant: a workload that the worker will not take up again
\* carries the summary of its conditions, and Reconciling says what its
\* objects do unless an event of one of them is on its way; the pass under
\* way over it has read what is stored.
StatusKept == \A w \in Workloads : CaughtUp(w) => Reported(w)
-----------------------------------------------------------------------------
(* Objects.                                                                 *)

\* A step writes to one object, delivers an event of one, or is a restart.
LEMMA ObjectSteps ==
  ASSUME TypeOK, [Next]_vars
  PROVE  \/ UNCHANGED obj
         \/ \E o \in Workloads \X Names : DeliverObject(o)
         \/ UNCHANGED queue /\ \E o \in Workloads \X Names, v \in Object \cup {None} :
              obj' = [obj EXCEPT ![o] = Stored(o, v)]
         \/ Restart
<1>. DEFINE Writes == UNCHANGED queue /\ \E o \in Workloads \X Names, v \in Object \cup {None} :
                        obj' = [obj EXCEPT ![o] = Stored(o, v)]
<1>1. CASE Deliver
  BY <1>1 DEF Deliver, DeliverWorkload, DeliverTemplate, DeliverCluster
<1>2. CASE \E w \in Workloads : ReconcileGone(w) \/ ReconcileStart(w)
  BY <1>2 DEF ReconcileGone, ReconcileStart, api
<1>3. ASSUME pc = "write", Create \/ Patch, UNCHANGED queue PROVE Writes
  <2>1. target \in Workloads \X Names
    BY <1>3, AtWrite
  <2>2. \E v \in Object : obj' = [obj EXCEPT ![target] = Stored(target, v)]
    BY <1>3, Written
  <2>. QED  BY <1>3, <2>1, <2>2
<1>4. CASE Worker
  <2>1. CASE WriteObject
    BY <1>3, <2>1 DEF WriteObject, CreateObject, PatchObject, ReconcileFailed
  <2>2. CASE ~WriteObject
    BY <1>4, <2>2 DEF Worker, GetOwnerCluster, EvaluateTemplate, MarkTrue, RejectField,
       GetObject, ListKustomizations, ListHelmReleases, PatchUnneeded, PatchStatus,
       PatchRefused, api
  <2>. QED  BY <2>1, <2>2
<1>5. CASE Faults
  <2>1. CASE \E e \in ApiErrors : WriteFails(e)
    BY <1>3, <2>1 DEF WriteFails, ReconcileFailed
  <2>2. CASE ReadFails \/ PatchFails
    BY <2>2 DEF ReadFails, PatchFails, api
  <2>. QED  BY <1>5, <2>1, <2>2 DEF Faults
<1>6. CASE Users
  <2>1. ASSUME NEW o \in Workloads \X Names, TouchObject(o) PROVE Writes
    BY <2>1, TouchedType DEF TouchObject
  <2>. QED
    BY <1>6, <2>1 DEF Users, DeleteWorkload, UpdateWorkload, PutTemplate, PutCluster
<1>7. CASE Collect
  BY <1>7 DEF Collect, CollectObject, CollectWorkload
<1>8. CASE UNCHANGED vars
  BY <1>8 DEF vars, api
<1>. QED  BY <1>1, <1>2, <1>4, <1>5, <1>6, <1>7, <1>8 DEF Next

\* A manager that restarts queues every workload.
LEMMA RestartQueues ==
  ASSUME TypeOK, Restart, NEW w \in Workloads
  PROVE  ~CaughtUp(w)'
<1>1. Live(wl'[w]) = Live(wl[w])
  BY StreamRelisted DEF Restart, TypeOK, ApiOK
<1>. QED  BY <1>1 DEF Restart, CaughtUp

\* A step after which no event of w's objects is on its way, and w is not
\* queued, leaves it so and its labelled objects as they were.
LEMMA HeardStep ==
  ASSUME TypeOK, [Next]_vars, NEW w \in Workloads, CaughtUp(w)', Heard(w)'
  PROVE  /\ Heard(w)
         /\ \A n \in Names : KindOf[n] \in OwnedKinds =>
              (ReconcilingAt(<< w, n >>)' <=> ReconcilingAt(<< w, n >>))
<1>1. CASE UNCHANGED obj
  BY <1>1 DEF Heard, Woken, ReconcilingAt, Owned
<1>2. CASE Restart
  BY <1>2, RestartQueues
<1>3. ASSUME NEW o \in Workloads \X Names, DeliverObject(o)
      PROVE  /\ Heard(w)
             /\ \A n \in Names : ReconcilingAt(<< w, n >>)' <=> ReconcilingAt(<< w, n >>)
  <2>1. /\ obj'[o] = Delivered(obj[o])
        /\ \A q \in Workloads \X Names : q # o => obj'[q] = obj[q]
    BY <1>3 DEF DeliverObject, TypeOK, ApiOK
  <2>2. \A q \in Workloads \X Names : Live(obj'[q]) = Live(obj[q])
    BY <1>3, <2>1, StreamDelivered DEF DeliverObject, TypeOK, ApiOK
  <2>3. ASSUME NEW n \in Names, Woken(<< w, n >>) PROVE FALSE
    <3>1. CASE << w, n >> # o
      BY <2>1, <2>3, <3>1 DEF Heard, Woken
    <3>2. CASE << w, n >> = o
      <4>1. ~Woken(o)'
        BY <3>2 DEF Heard
      <4>2. Marked(Cached(obj[o])) \/ Marked(Cached(obj'[o]))
        BY <1>3, <2>1, <2>3, <3>2, <4>1, WokenShift DEF DeliverObject
      <4>3. w \in ownerOf(o, Cached(obj[o]), Cached(obj'[o]))
        BY <3>2, <4>2 DEF ownerOf, Marked
      <4>. QED  BY <1>3, <4>3 DEF DeliverObject, CaughtUp
    <3>. QED  BY <3>1, <3>2
  <2>. QED  BY <2>2, <2>3 DEF Heard, ReconcilingAt, Owned
<1>4. ASSUME NEW o \in Workloads \X Names, NEW v \in Object \cup {None},
             obj' = [obj EXCEPT ![o] = Stored(o, v)]
      PROVE  /\ Heard(w)
             /\ \A n \in Names : KindOf[n] \in OwnedKinds =>
                  (ReconcilingAt(<< w, n >>)' <=> ReconcilingAt(<< w, n >>))
  <2>1. /\ obj'[o] = Stored(o, v)
        /\ \A q \in Workloads \X Names : q # o => obj'[q] = obj[q]
    BY <1>4 DEF TypeOK, ApiOK
  <2>2. Live(obj'[o]) = v
    BY <2>1, StoredType DEF TypeOK
  <2>3. ASSUME NEW n \in Names, << w, n >> = o, KindOf[n] \in OwnedKinds
        PROVE  ~Woken(o) /\ ~Marked(Live(obj[o])) /\ ~Marked(v)
    <3>1. obj'[o] = Commit(obj[o], v) /\ KindOf[o[2]] \in OwnedKinds
      BY <2>1, <2>3 DEF Stored
    <3>2. ~Woken(o)'
      BY <2>3 DEF Heard
    <3>. QED  BY <3>1, <3>2, CommitWakes
  <2>4. ASSUME NEW n \in Names PROVE ~Woken(<< w, n >>)
    <3>1. CASE << w, n >> = o
      BY <2>3, <3>1 DEF Woken
    <3>2. CASE << w, n >> # o
      BY <2>1, <3>2 DEF Heard, Woken
    <3>. QED  BY <3>1, <3>2
  <2>5. ASSUME NEW n \in Names, KindOf[n] \in OwnedKinds
        PROVE  ReconcilingAt(<< w, n >>)' <=> ReconcilingAt(<< w, n >>)
    <3>1. CASE << w, n >> = o
      BY <2>2, <2>3, <2>5, <3>1 DEF ReconcilingAt, Owned, Marked
    <3>2. CASE << w, n >> # o
      BY <2>1, <3>2 DEF ReconcilingAt, Owned
    <3>. QED  BY <3>1, <3>2
  <2>. QED  BY <2>4, <2>5 DEF Heard
<1>. QED  BY <1>1, <1>2, <1>3, <1>4, ObjectSteps

\* Hence what the Reconciling condition is to say stays the same.
LEMMA ReconStep ==
  ASSUME TypeOK, [Next]_vars, NEW w \in Workloads, CaughtUp(w)', Heard(w)'
  PROVE  /\ Heard(w) /\ ReconOf(w)' = ReconOf(w)
         /\ \A kind \in OwnedKinds : ReconcilingOf(w, kind)' <=> ReconcilingOf(w, kind)
<1>1. ASSUME NEW kind \in OwnedKinds
      PROVE  ReconcilingOf(w, kind)' <=> ReconcilingOf(w, kind)
  BY HeardStep DEF ReconcilingOf
<1>2. /\ ReconcilingOf(w, "Kustomization")' <=> ReconcilingOf(w, "Kustomization")
      /\ ReconcilingOf(w, "HelmRelease")' <=> ReconcilingOf(w, "HelmRelease")
  BY <1>1 DEF OwnedKinds
<1>3. ReconOf(w)' = ReconOf(w)
  BY <1>2 DEF ReconOf
<1>. QED  BY <1>1, <1>3, HeardStep

\* Once no event is on its way, the cached objects say the same as the stored
\* ones: an event that is still there is between unlabelled versions.
LEMMA ListedAsStored ==
  ASSUME TypeOK, NEW w \in Workloads, Heard(w), NEW kind \in OwnedKinds
  PROVE  AnyReconciling(w, kind) <=> ReconcilingOf(w, kind)
<1>1. ASSUME NEW n \in Names, KindOf[n] = kind
      PROVE  (Marked(Cached(obj[<< w, n >>])) /\ Cached(obj[<< w, n >>]).reconciling)
               <=> ReconcilingAt(<< w, n >>)
  <2>. DEFINE s == obj[<< w, n >>]
  <2>1. s \in Seq(Object \cup {None}) /\ s # << >> /\ Len(s) \in Nat
    BY DEF TypeOK, ApiOK, Stream
  <2>2. Len(s) # 0
    BY <2>1, EmptySeq
  <2>3. CASE Len(s) = 1
    BY <2>3 DEF Cached, Live, ReconcilingAt, Owned, Marked
  <2>4. CASE Len(s) # 1
    <3>. \A k \in Nat : k # 0 /\ k # 1 =>
           1 \in 1..(k - 1) /\ k - 1 \in 1..(k - 1) /\ (k - 1) + 1 = k
      OBVIOUS
    <3>1. 1 \in 1..(Len(s) - 1) /\ Len(s) - 1 \in 1..(Len(s) - 1) /\ (Len(s) - 1) + 1 = Len(s)
      BY <2>1, <2>2, <2>4
    <3>2. \A i \in 1..(Len(s) - 1) : ~Marked(s[i]) /\ ~Marked(s[i + 1])
      BY <1>1 DEF Heard, Woken
    <3>3. ~Marked(s[1]) /\ ~Marked(s[Len(s)])
      BY <3>1, <3>2
    <3>. QED  BY <3>3 DEF Cached, Live, ReconcilingAt, Owned, Marked
  <2>. QED  BY <2>3, <2>4
<1>. QED  BY <1>1 DEF AnyReconciling, Labelled, ReconcilingOf, Marked
-----------------------------------------------------------------------------
(* The worker.                                                              *)

\* How a step can leave w caught up.  The worker is with another workload or
\* idle, before and after; or the pass over w goes on; or it starts; or it
\* ends with nothing to store.
Elsewhere(w) == cur # w /\ cur' # w
GoesOn(w) == cur = w /\ cur' = w /\ seen' = seen
Starts(w) == cur # w /\ ReconcileStart(w)
Ends(w) == cur = w /\ cur' = None /\ PatchUnneeded /\ ~err

\* A step of the worker within the pass.
LEMMA PassGoesOn ==
  ASSUME TypeOK, NEW w \in Workloads, UNCHANGED << wl, queue, cur, seen >>, CaughtUp(w)'
  PROVE  /\ CaughtUp(w) /\ wl'[w] = wl[w]
         /\ Elsewhere(w) \/ GoesOn(w)
BY DEF CaughtUp, Elsewhere, GoesOn

\* A write to the stream of a workload other than w.
LEMMA StreamElsewhere ==
  ASSUME TypeOK, NEW x \in Workloads, NEW v \in Workload \cup {None},
         wl' = [wl EXCEPT ![x] = Commit(wl[x], v)], NEW w \in Workloads, CaughtUp(w)'
  PROVE  w # x /\ wl'[w] = wl[w]
<1>1. CASE x = w
  <2>1. wl'[w] = Commit(wl[w], v) /\ wl[w] \in Stream(Workload \cup {None})
    BY <1>1 DEF TypeOK, ApiOK
  <2>2. ~Synced(wl'[w])
    BY <2>1, StreamCommit
  <2>. QED  BY <2>2 DEF CaughtUp
<1>2. CASE x # w
  BY <1>2 DEF TypeOK, ApiOK
<1>. QED  BY <1>1, <1>2

\* The status patch of the workload whose pass ends.
LEMMA StatusStored ==
  ASSUME TypeOK, StatusKept, StoreStatus, NEW w \in Workloads,
         w \notin queue, CaughtUp(w)'
  PROVE  cur # w /\ wl'[w] = wl[w]
<1>. DEFINE latest == Cached(wl[cur])
            after == SetSummary(cond)
            merged == [latest EXCEPT !.cond =
                         MergeConditions(latest.cond, seen.cond, after)]
<1>1. /\ pc = "patch" /\ after # seen.cond /\ latest # None /\ Synced(wl[cur])
      /\ wl' = IF merged = latest THEN wl
               ELSE [wl EXCEPT ![cur] = Commit(wl[cur], merged)]
  BY DEF StoreStatus
<1>2. cur \in Workloads /\ seen \in Workload /\ latest \in Workload
  BY <1>1, Reads
<1>3. merged \in Workload
  BY <1>2, WorkloadParts, ConditionsClosed DEF TypeOK, FrameOK
<1>4. CASE merged # latest
  <2>1. wl' = [wl EXCEPT ![cur] = Commit(wl[cur], merged)]
    BY <1>1, <1>4
  <2>. HIDE DEF merged
  <2>. QED  BY <1>2, <1>3, <2>1, StreamElsewhere
<1>5. CASE merged = latest /\ cur # w
  BY <1>1, <1>5
<1>6. CASE merged = latest /\ cur = w
  <2>1. CaughtUp(w)
    BY <1>1, <1>6 DEF CaughtUp
  <2>2. seen = latest
    BY <1>6, <2>1 DEF StatusKept, Reported, CaughtUp, Synced, Cached, Live
  <2>3. seen.cond \in Conditions /\ after \in Conditions
    BY <1>2, WorkloadParts, ConditionsClosed DEF TypeOK, FrameOK
  <2>4. MergeConditions(seen.cond, seen.cond, after) = after
    BY <2>3 DEF MergeConditions, Merge, Conditions
  <2>5. merged.cond = after
    BY <1>2, <2>2, <2>4 DEF Workload
  <2>. QED  BY <1>1, <1>6, <2>2, <2>5
<1>. QED  BY <1>4, <1>5, <1>6

\* The end of a pass.
LEMMA PatchSteps ==
  ASSUME TypeOK, StatusKept,
         PatchUnneeded \/ PatchStatus \/ PatchRefused \/ PatchFails,
         NEW w \in Workloads, CaughtUp(w)'
  PROVE  /\ CaughtUp(w) /\ wl'[w] = wl[w]
         /\ Elsewhere(w) \/ Ends(w)
<1>1. pc = "patch" /\ cur \in Workloads /\ cur' = None /\ w \notin queue /\ w # None
  BY Reads, NoneIsNoValue
     DEF PatchUnneeded, PatchStatus, StoreStatus, PatchRefused, PatchFails,
         Requeue, Return, CaughtUp
<1>2. CASE PatchUnneeded
  <2>1. wl' = wl /\ (err => cur \in queue')
    BY <1>2 DEF PatchUnneeded, Requeue, api
  <2>. QED  BY <1>1, <1>2, <2>1 DEF CaughtUp, Elsewhere, Ends
<1>3. CASE PatchStatus
  <2>1. cur # w /\ wl'[w] = wl[w]
    BY <1>1, <1>3, StatusStored DEF PatchStatus
  <2>. QED  BY <1>1, <2>1 DEF CaughtUp, Elsewhere
<1>4. CASE PatchRefused
  BY <1>1, <1>4 DEF PatchRefused, Requeue, api, CaughtUp, Elsewhere
<1>5. CASE PatchFails
  <2>1. cur # w /\ wl'[w] = wl[w]
    BY <1>1, <1>5, StatusStored DEF PatchFails, Requeue, CaughtUp
  <2>. QED  BY <1>1, <2>1 DEF CaughtUp, Elsewhere
<1>. QED  BY <1>2, <1>3, <1>4, <1>5

\* Every step that leaves w caught up is one of the four, and leaves what is
\* stored of w alone: whatever changes it, or fails for it, leaves an event
\* or the key in the queue.
LEMMA Steps ==
  ASSUME TypeOK, StatusKept, [Next]_vars, NEW w \in Workloads, CaughtUp(w)'
  PROVE  /\ wl'[w] = wl[w]
         /\ \/ CaughtUp(w) /\ (Elsewhere(w) \/ GoesOn(w) \/ Ends(w))
            \/ Starts(w)
<1>1. CASE Deliver
  <2>1. ASSUME NEW x \in Workloads, DeliverWorkload(x)
        PROVE  w # x /\ wl'[w] = wl[w] /\ w \notin queue
    BY <2>1 DEF DeliverWorkload, CaughtUp, TypeOK, ApiOK
  <2>2. CASE \E x \in Workloads : DeliverWorkload(x)
    <3>1. wl'[w] = wl[w] /\ w \notin queue /\ cur' = cur /\ seen' = seen
      BY <2>1, <2>2 DEF DeliverWorkload, frame
    <3>. QED  BY <3>1 DEF CaughtUp, Elsewhere, GoesOn
  <2>3. CASE ~\E x \in Workloads : DeliverWorkload(x)
    <3>1. wl' = wl /\ w \notin queue /\ cur' = cur /\ seen' = seen
      BY <1>1, <2>3
         DEF Deliver, DeliverTemplate, DeliverCluster, DeliverObject, CaughtUp, frame
    <3>. QED  BY <3>1 DEF CaughtUp, Elsewhere, GoesOn
  <2>. QED  BY <2>2, <2>3
<1>2. ASSUME NEW x \in Workloads, ReconcileGone(x) \/ ReconcileStart(x)
      PROVE  /\ wl'[w] = wl[w]
             /\ (CaughtUp(w) /\ Elsewhere(w)) \/ Starts(w)
  <2>1. wl' = wl /\ cur = None /\ queue' = queue \ {x} /\ w # None
    BY <1>2, NoneIsNoValue DEF ReconcileGone, ReconcileStart, api, TypeOK, FrameOK
  <2>2. Cached(wl[w]) # None
    BY <2>1 DEF CaughtUp, Synced, Cached, Live
  <2>3. CASE x # w
    BY <1>2, <2>1, <2>3 DEF ReconcileGone, ReconcileStart, frame, CaughtUp, Elsewhere
  <2>4. CASE x = w
    BY <1>2, <2>1, <2>2, <2>4 DEF ReconcileGone, Starts
  <2>. QED  BY <2>3, <2>4
<1>3. CASE Worker
  <2>1. CASE PatchUnneeded \/ PatchStatus \/ PatchRefused
    BY <2>1, PatchSteps
  <2>2. CASE ~(PatchUnneeded \/ PatchStatus \/ PatchRefused)
    <3>1. UNCHANGED << wl, queue, cur, seen >>
      BY <1>3, <2>2 DEF Worker, GetOwnerCluster, EvaluateTemplate, MarkTrue, RejectField,
         GetObject, WriteObject, ListKustomizations, ListHelmReleases, api
    <3>. QED  BY <3>1, PassGoesOn
  <2>. QED  BY <2>1, <2>2
<1>4. CASE Faults
  <2>1. CASE PatchFails
    BY <2>1, PatchSteps
  <2>2. CASE Restart
    BY <2>2, RestartQueues
  <2>3. CASE ReadFails \/ \E e \in ApiErrors : WriteFails(e)
    <3>1. UNCHANGED << wl, queue, cur, seen >>
      BY <2>3 DEF ReadFails, WriteFails, api
    <3>. QED  BY <3>1, PassGoesOn
  <2>. QED  BY <1>4, <2>1, <2>2, <2>3 DEF Faults
<1>5. ASSUME NEW x \in Workloads, NEW v \in Workload \cup {None},
             wl' = [wl EXCEPT ![x] = Commit(wl[x], v)], UNCHANGED << queue, frame >>
      PROVE  /\ wl'[w] = wl[w]
             /\ CaughtUp(w) /\ (Elsewhere(w) \/ GoesOn(w))
  <2>1. wl'[w] = wl[w]
    BY <1>5, StreamElsewhere
  <2>. QED  BY <1>5, <2>1 DEF CaughtUp, Elsewhere, GoesOn, frame
<1>6. ASSUME UNCHANGED << wl, queue, frame >>
      PROVE  /\ wl'[w] = wl[w]
             /\ CaughtUp(w) /\ (Elsewhere(w) \/ GoesOn(w))
  BY <1>6, PassGoesOn DEF frame
<1>7. CASE Users
  <2>1. ASSUME NEW x \in Workloads, DeleteWorkload(x)
        PROVE  \E v \in Workload \cup {None} : wl' = [wl EXCEPT ![x] = Commit(wl[x], v)]
    <3>1. [Live(wl[x]) EXCEPT !.deleting = TRUE] \in Workload
      BY <2>1, Reads, WorkloadParts DEF DeleteWorkload
    <3>. QED  BY <2>1, <3>1 DEF DeleteWorkload
  <2>2. ASSUME NEW x \in Workloads, NEW s \in WorkloadSpecs, UpdateWorkload(x, s)
        PROVE  \E v \in Workload \cup {None} : wl' = [wl EXCEPT ![x] = Commit(wl[x], v)]
    <3>1. [Live(wl[x]) EXCEPT !.spec = s] \in Workload
      BY <2>2, Reads, WorkloadParts DEF UpdateWorkload
    <3>. QED  BY <2>2, <3>1 DEF UpdateWorkload
  <2>3. ASSUME NEW x \in Workloads,
               DeleteWorkload(x) \/ \E s \in WorkloadSpecs : UpdateWorkload(x, s)
        PROVE  \E v \in Workload \cup {None} :
                 /\ wl' = [wl EXCEPT ![x] = Commit(wl[x], v)]
                 /\ UNCHANGED << queue, frame >>
    BY <2>1, <2>2, <2>3 DEF DeleteWorkload, UpdateWorkload
  <2>4. CASE \E x \in Workloads :
               DeleteWorkload(x) \/ \E s \in WorkloadSpecs : UpdateWorkload(x, s)
    BY <1>5, <2>3, <2>4
  <2>5. CASE UNCHANGED << wl, queue, frame >>
    BY <1>6, <2>5
  <2>. QED  BY <1>7, <2>4, <2>5 DEF Users, PutTemplate, PutCluster, TouchObject
<1>8. CASE Collect
  <2>1. CASE \E x \in Workloads : CollectWorkload(x)
    BY <1>5, <2>1 DEF CollectWorkload
  <2>2. CASE \E o \in Workloads \X Names : CollectObject(o)
    BY <1>6, <2>2 DEF CollectObject
  <2>. QED  BY <1>8, <2>1, <2>2 DEF Collect
<1>9. CASE UNCHANGED vars
  BY <1>6, <1>9 DEF vars, api
<1>. QED  BY <1>1, <1>2, <1>3, <1>4, <1>7, <1>8, <1>9 DEF Next

\* Where a pass that goes on comes to the lists and to the patch from.
LEMMA ListSteps ==
  ASSUME TypeOK, NEW w \in Workloads, GoesOn(w), [Next]_vars
  PROVE  \/ UNCHANGED << pc, cond, err >>
         \/ ListKustomizations \/ ListHelmReleases
         \/ pc' \notin {"listHelmReleases", "patch"}
         \/ pc' = "patch" /\ err'
<1>0. cur = w /\ cur' = w /\ w # None /\ pc # "idle"
  BY NoneIsNoValue DEF GoesOn, TypeOK, FrameOK
<1>1. CASE Deliver
  BY <1>1 DEF Deliver, DeliverWorkload, DeliverTemplate, DeliverCluster, DeliverObject, frame
<1>2. CASE \E x \in Workloads : ReconcileGone(x) \/ ReconcileStart(x)
  BY <1>0, <1>2 DEF ReconcileGone, ReconcileStart
<1>3. CASE Worker
  <2>1. CASE GetOwnerCluster
    BY <2>1 DEF GetOwnerCluster, Goto
  <2>2. CASE EvaluateTemplate \/ MarkTrue \/ RejectField \/ GetObject
    BY <2>2 DEF EvaluateTemplate, MarkTrue, RejectField, GetObject, MarkFalse, Goto
  <2>3. CASE WriteObject
    BY <2>3 DEF WriteObject, CreateObject, PatchObject, ReconcileFailed, NextField,
                MarkFalse, Goto
  <2>4. CASE PatchUnneeded \/ PatchStatus \/ PatchRefused
    BY <1>0, <2>4 DEF PatchUnneeded, PatchStatus, PatchRefused, Return
  <2>. QED  BY <1>3, <2>1, <2>2, <2>3, <2>4 DEF Worker
<1>4. CASE Faults
  <2>1. CASE Restart \/ PatchFails
    BY <1>0, <2>1 DEF Restart, PatchFails, Return
  <2>2. CASE ReadFails
    BY <2>2 DEF ReadFails, Goto
  <2>3. CASE \E e \in ApiErrors : WriteFails(e)
    BY <2>3 DEF WriteFails, ReconcileFailed, MarkFalse, Goto
  <2>. QED  BY <1>4, <2>1, <2>2, <2>3 DEF Faults
<1>5. CASE Users \/ Collect
  BY <1>5 DEF Users, Collect, DeleteWorkload, UpdateWorkload, PutTemplate, PutCluster,
              TouchObject, CollectObject, CollectWorkload, frame
<1>6. CASE UNCHANGED vars
  BY <1>6 DEF vars, frame
<1>. QED  BY <1>1, <1>2, <1>3, <1>4, <1>5, <1>6 DEF Next

\* The lists find out what the stored objects do.
LEMMA ListReports ==
  ASSUME TypeOK, NEW w \in Workloads, cur = w, Heard(w), PassReports(w),
         ListKustomizations \/ ListHelmReleases
  PROVE  /\ pc' = "listHelmReleases" => ~ReconcilingOf(w, "Kustomization")
         /\ pc' = "patch" => cond'.recon = ReconOf(w)
<1>1. /\ AnyReconciling(w, "Kustomization") <=> ReconcilingOf(w, "Kustomization")
      /\ AnyReconciling(w, "HelmRelease") <=> ReconcilingOf(w, "HelmRelease")
  BY ListedAsStored DEF OwnedKinds
<1>2. CASE ListKustomizations
  BY <1>1, <1>2 DEF ListKustomizations, Goto, ReconOf, Conditions, TypeOK, FrameOK
<1>3. CASE ListHelmReleases
  BY <1>1, <1>3 DEF ListHelmReleases, Goto, PassReports, ReconOf, Conditions, TypeOK, FrameOK
<1>. QED  BY <1>2, <1>3

\* The summary of a summary is the summary.
LEMMA SummaryOnce ==
  ASSUME NEW c \in Conditions
  PROVE  /\ SetSummary(SetSummary(c)) = SetSummary(c)
         /\ SetSummary(c).recon = c.recon /\ SetSummary(c).tmpl = c.tmpl
BY DEF SetSummary, Conditions

\* The inductive step.
LEMMA StatusStep ==
  ASSUME TypeOK, StatusKept, [Next]_vars
  PROVE  StatusKept'
<1>. SUFFICES ASSUME NEW w \in Workloads, CaughtUp(w)' PROVE Reported(w)'
  BY DEF StatusKept
<1>. w # None
  BY NoneIsNoValue
<1>1. wl'[w] = wl[w]
  BY Steps
<1>2. /\ Heard(w)' => Heard(w) /\ ReconOf(w)' = ReconOf(w)
      /\ Heard(w)' =>
           (ReconcilingOf(w, "Kustomization")' <=> ReconcilingOf(w, "Kustomization"))
  BY ReconStep DEF OwnedKinds
<1>3. CASE CaughtUp(w) /\ Elsewhere(w)
  BY <1>1, <1>2, <1>3 DEF StatusKept, Reported, Elsewhere
<1>4. CASE CaughtUp(w) /\ GoesOn(w)
  <2>1. cur = w /\ cur' = w /\ seen' = Live(wl[w])' /\ (Heard(w) => PassReports(w))
    BY <1>1, <1>4 DEF StatusKept, Reported, GoesOn
  <2>2. ASSUME Heard(w)' PROVE PassReports(w)'
    <3>1. PassReports(w)
      BY <1>2, <2>1, <2>2
    <3>2. CASE UNCHANGED << pc, cond, err >>
      BY <1>2, <2>2, <3>1, <3>2 DEF PassReports
    <3>3. CASE ListKustomizations \/ ListHelmReleases
      BY <1>2, <2>1, <2>2, <3>1, <3>3, ListReports DEF PassReports
    <3>4. CASE pc' \notin {"listHelmReleases", "patch"} \/ (pc' = "patch" /\ err')
      BY <3>4 DEF PassReports
    <3>. QED  BY <1>4, <3>2, <3>3, <3>4, ListSteps
  <2>. QED  BY <2>1, <2>2 DEF Reported
<1>5. CASE CaughtUp(w) /\ Ends(w)
  <2>1. /\ seen = Live(wl[w]) /\ SetSummary(cond) = seen.cond /\ cur' # w
        /\ Heard(w) => cond.recon = ReconOf(w)
    BY <1>5 DEF StatusKept, Reported, PassReports, Ends, PatchUnneeded
  <2>2. cond \in Conditions
    BY DEF TypeOK, FrameOK
  <2>. QED  BY <1>1, <1>2, <2>1, <2>2, SummaryOnce DEF Reported
<1>6. CASE Starts(w)
  <2>1. cur' = w /\ seen' = Cached(wl[w]) /\ pc' \in {"listKustomizations", "cluster"}
    BY <1>6 DEF Starts, ReconcileStart, Goto
  <2>2. Cached(wl[w]) = Live(wl'[w])
    BY <1>1 DEF CaughtUp, Synced, Cached, Live
  <2>. QED  BY <2>1, <2>2 DEF Reported, PassReports
<1>. QED  BY <1>3, <1>4, <1>5, <1>6, Steps

\* A workload that nothing will wake again has conditions that say what its
\* stored objects do.
THEOREM StatusIsKept == Spec => []StatusKept
<1>1. Init => StatusKept
  BY DEF Init, StatusKept, CaughtUp
<1>. QED  BY <1>1, StatusStep, TypeCorrect, PTL DEF Spec

\* Once the system is quiet, nothing is on its way and no pass is under way.
LEMMA SettledParts ==
  ASSUME TypeOK, Settled, NEW w \in Workloads
  PROVE  Heard(w) /\ cur # w /\ (Live(wl[w]) # None => CaughtUp(w))
<1>1. ASSUME NEW n \in Names PROVE ~Woken(<< w, n >>)
  <2>1. Len(obj[<< w, n >>]) = 1
    BY DEF Settled, Synced
  <2>2. 1..(1 - 1) = {}
    OBVIOUS
  <2>. QED  BY <2>1, <2>2 DEF Woken
<1>2. cur # w
  BY NoneIsNoValue DEF Settled, TypeOK, FrameOK
<1>. QED  BY <1>1, <1>2 DEF Heard, CaughtUp, Settled

\* For any number of workloads, objects, changes and faults, once the system
\* is quiet Reconciling says whether a stored Kustomization or HelmRelease of
\* the workload is reconciling, and Ready sums up the other two
\* (ReadyWhenSettled), although the lists read the cache and the patch merges
\* the conditions one by one into a workload that may have moved on.
THEOREM SettledIsReported == Spec => []ReadyWhenSettled
<1>1. TypeOK /\ StatusKept => ReadyWhenSettled
  <2>. SUFFICES ASSUME TypeOK, StatusKept, Settled, NEW w \in Workloads,
                       Live(wl[w]) # None
                PROVE  /\ Live(wl[w]).cond.recon = ReconOf(w)
                       /\ Live(wl[w]).cond = SetSummary(Live(wl[w]).cond)
    BY DEF ReadyWhenSettled, ReconOf, ReconcilingOf, ReconcilingAt
  <2>. QED  BY SettledParts DEF StatusKept, Reported
<1>. QED  BY <1>1, StatusIsKept, TypeCorrect, PTL
-----------------------------------------------------------------------------
(* One failed request heals.                                                *)

\* The versions of a workload that do not report a failed request.
Clean == {v \in Workload : v.cond.tmpl \notin ApiErrors} \cup {None}

\* Without a fault there is no report of one, stored, on its way or in the
\* pass under way.
FailureFree ==
  faults = 0 => /\ \A w \in Workloads : wl[w] \in Stream(Clean)
                /\ seen \in Clean
                /\ cond.tmpl \notin ApiErrors

\* What is left of the first one once w is caught up: the pass that met it,
\* before it stores what it found.
Heals(w) ==
  IF cur = w
    THEN /\ pc \in {"listKustomizations", "listHelmReleases", "patch"} /\ ~err
         /\ cond.tmpl \in ApiErrors
         => seen.cond.tmpl \notin ApiErrors
    ELSE Live(wl[w]).cond.tmpl \notin ApiErrors

\* The inductive invariant, with StatusKept and FailureFree.
Healing ==
  faults <= 1 => \A w \in Workloads : CaughtUp(w) /\ Reconcilable(w) => Heals(w)

\* The steps from the template to the lists report no failed request.
LEMMA TemplateReports ==
  ASSUME TypeOK, EvaluateTemplate \/ MarkTrue \/ RejectField \/ GetObject \/ WriteObject
  PROVE  /\ cond'.tmpl \notin ApiErrors \/ (UNCHANGED cond /\ pc' \in {"field", "write"})
         /\ UNCHANGED << wl, queue, cur, seen, err, faults >>
<1>1. UNCHANGED << wl, queue, cur, seen, err, faults >>
  BY DEF EvaluateTemplate, MarkTrue, RejectField, GetObject, WriteObject, api
<1>. DEFINE Named == {"Unset", "AlreadyExists", "NotFound", "MutateFailed"}
                       \cup Waits \cup RenderFailures \cup FieldFailures
<1>2. \A r \in Named : cond' = [cond EXCEPT !.tmpl = r] => cond'.tmpl \notin ApiErrors
  BY ErrorsNamed DEF Conditions, TypeOK, FrameOK
<1>3. CASE EvaluateTemplate
  <2>. DEFINE t == Cached(tpl[seen.spec.ref])
              verdict == Evaluate(t, seen.spec, clu)
  <2>1. pc = "template" /\ seen \in Workload /\ seen.spec \in WorkloadSpec
        /\ clu \in Cluster
    BY <1>3, Reads, WorkloadParts DEF EvaluateTemplate
  <2>2. seen.spec.ref \in Templates /\ seen.spec.input \in Inputs
        /\ clu.attr \in Attrs
    BY <2>1 DEF WorkloadSpec, Cluster, TypeOK, FrameOK
  <2>3. t \in Template \cup {None}
    BY <2>2, Reads
  <2>4. t # None => Render(t, seen.spec, clu) \in Rendered
    BY <2>2, <2>3 DEF Render, Rendered, Template
  <2>5. verdict \in Waits \cup RenderFailures \cup {"ok"}
    BY <2>4, ConstantsTyped DEF Evaluate, Waits, RenderFailures
  <2>6. \/ verdict # "ok" /\ cond' = [cond EXCEPT !.tmpl = verdict]
        \/ pc' = "field" /\ UNCHANGED cond
    BY <1>3 DEF EvaluateTemplate, MarkFalse, Goto
  <2>. QED  BY <1>1, <1>2, <2>5, <2>6
<1>4. CASE MarkTrue
  <2>1. cond'.tmpl = "Ready"
    BY <1>4 DEF MarkTrue, Conditions, TypeOK, FrameOK
  <2>. QED  BY <1>1, <2>1, ConstantsTyped
<1>5. CASE RejectField
  BY <1>1, <1>2, <1>5 DEF RejectField, MarkFalse
<1>6. CASE GetObject
  BY <1>1, <1>6 DEF GetObject, Goto
<1>7. CASE WriteObject
  <2>1. CASE \E r \in {"AlreadyExists", "NotFound", "MutateFailed"} : ReconcileFailed(r)
    BY <1>1, <1>2, <2>1 DEF ReconcileFailed, MarkFalse
  <2>2. CASE NextField
    BY <1>1, <2>2 DEF NextField, Goto
  <2>. QED  BY <1>7, <2>1, <2>2 DEF WriteObject, CreateObject, PatchObject
<1>. QED  BY <1>3, <1>4, <1>5, <1>6, <1>7

\* Faults are counted.
LEMMA FaultsCounted ==
  ASSUME TypeOK, [Next]_vars
  PROVE  /\ faults \in Nat /\ faults' \in Nat
         /\ IF Faults THEN faults' = faults + 1 ELSE faults' = faults
<1>1. faults \in Nat
  BY ConstantsTyped DEF TypeOK
<1>2. Faults => faults' = faults + 1
  BY DEF Faults, Restart, ReadFails, PatchFails, WriteFails
<1>3. ~Faults => faults' = faults
  BY DEF Next, vars, Deliver, DeliverWorkload, DeliverTemplate, DeliverCluster,
         DeliverObject, ReconcileGone, ReconcileStart, Worker, GetOwnerCluster,
         EvaluateTemplate, MarkTrue, RejectField, GetObject, WriteObject,
         ListKustomizations, ListHelmReleases, PatchUnneeded, PatchStatus, PatchRefused,
         Users, DeleteWorkload, UpdateWorkload, PutTemplate, PutCluster, TouchObject,
         Collect, CollectObject, CollectWorkload
<1>. QED  BY <1>1, <1>2, <1>3

\* A version committed to the stream of a workload.
LEMMA CleanCommit ==
  ASSUME TypeOK, \A w \in Workloads : wl[w] \in Stream(Clean),
         NEW x \in Workloads, NEW v \in Clean, wl' = [wl EXCEPT ![x] = Commit(wl[x], v)]
  PROVE  \A w \in Workloads : wl'[w] \in Stream(Clean)
<1>1. Commit(wl[x], v) \in Stream(Clean)
  BY StreamCommit
<1>. QED  BY <1>1 DEF TypeOK, ApiOK

\* Before the first fault.
LEMMA FailureFreeStep ==
  ASSUME TypeOK, FailureFree, [Next]_vars
  PROVE  FailureFree'
<1>. SUFFICES ASSUME faults' = 0
              PROVE  /\ \A w \in Workloads : wl'[w] \in Stream(Clean)
                     /\ seen' \in Clean
                     /\ cond'.tmpl \notin ApiErrors
  BY DEF FailureFree, Clean
<1>1. faults = 0 /\ ~Faults
  BY FaultsCounted
<1>2. /\ \A w \in Workloads : wl[w] \in Stream(Clean)
      /\ seen \in Clean
      /\ cond.tmpl \notin ApiErrors
  BY <1>1 DEF FailureFree
<1>3. \A w \in Workloads : Cached(wl[w]) \in Clean /\ Live(wl[w]) \in Clean
  BY <1>2, StreamRead
<1>4. ASSUME NEW v \in Clean, v # None
      PROVE  v \in Workload /\ v.cond.tmpl \notin ApiErrors
  BY <1>4 DEF Clean
<1>5. CASE Deliver
  <2>1. ASSUME NEW x \in Workloads, DeliverWorkload(x)
        PROVE  \A w \in Workloads : wl'[w] \in Stream(Clean)
    <3>1. Delivered(wl[x]) \in Stream(Clean)
      BY <1>2, <2>1, StreamDelivered DEF DeliverWorkload
    <3>. QED  BY <1>2, <2>1, <3>1 DEF DeliverWorkload, TypeOK, ApiOK
  <2>2. UNCHANGED frame /\ (wl' = wl \/ \E x \in Workloads : DeliverWorkload(x))
    BY <1>5 DEF Deliver, DeliverWorkload, DeliverTemplate, DeliverCluster, DeliverObject
  <2>. QED  BY <1>2, <2>1, <2>2 DEF frame
<1>6. CASE \E x \in Workloads : ReconcileGone(x) \/ ReconcileStart(x)
  BY <1>2, <1>3, <1>4, <1>6 DEF ReconcileGone, ReconcileStart, api, frame
<1>7. CASE Worker
  <2>1. CASE EvaluateTemplate \/ MarkTrue \/ RejectField \/ GetObject \/ WriteObject
    BY <1>2, <2>1, TemplateReports
  <2>2. CASE GetOwnerCluster \/ ListKustomizations \/ ListHelmReleases
    <3>1. UNCHANGED << wl, seen >> /\ cond'.tmpl = cond.tmpl
      BY <2>2 DEF GetOwnerCluster, ListKustomizations, ListHelmReleases, api,
                  Conditions, TypeOK, FrameOK
    <3>. QED  BY <1>2, <3>1
  <2>3. CASE PatchUnneeded \/ PatchStatus \/ PatchRefused
    <3>1. seen' \in Clean /\ cond'.tmpl \notin ApiErrors
      BY <2>3, ErrorsNamed
         DEF PatchUnneeded, PatchStatus, PatchRefused, Return, Unset, Clean
    <3>2. CASE PatchUnneeded \/ PatchRefused
      BY <1>2, <3>1, <3>2 DEF PatchUnneeded, PatchRefused, api
    <3>3. CASE PatchStatus
      <4>. DEFINE latest == Cached(wl[cur])
                  merged == [latest EXCEPT !.cond =
                              MergeConditions(latest.cond, seen.cond, SetSummary(cond))]
      <4>1. /\ pc = "patch" /\ latest # None
            /\ wl' = IF merged = latest THEN wl
                     ELSE [wl EXCEPT ![cur] = Commit(wl[cur], merged)]
        BY <3>3 DEF PatchStatus, StoreStatus
      <4>2. cur \in Workloads /\ seen \in Workload /\ latest \in Workload
        BY <4>1, Reads
      <4>3. merged \in Workload
        BY <4>2, WorkloadParts, ConditionsClosed DEF TypeOK, FrameOK
      <4>4. latest.cond.tmpl \notin ApiErrors
        BY <1>3, <1>4, <4>1, <4>2
      <4>5. SetSummary(cond).tmpl = cond.tmpl
        BY SummaryOnce DEF TypeOK, FrameOK
      <4>6. merged.cond.tmpl \notin ApiErrors
        BY <1>2, <4>2, <4>4, <4>5 DEF MergeConditions, Merge, Workload
      <4>7. merged \in Clean
        BY <4>3, <4>6 DEF Clean
      <4>. HIDE DEF merged
      <4>. QED  BY <1>2, <3>1, <4>1, <4>2, <4>7, CleanCommit
    <3>. QED  BY <2>3, <3>2, <3>3
  <2>. QED  BY <1>7, <2>1, <2>2, <2>3 DEF Worker
<1>8. ASSUME UNCHANGED frame
      PROVE  seen' \in Clean /\ cond'.tmpl \notin ApiErrors
  BY <1>2, <1>8 DEF frame
<1>9. CASE Users
  <2>1. ASSUME NEW x \in Workloads,
               DeleteWorkload(x) \/ \E s \in WorkloadSpecs : UpdateWorkload(x, s)
        PROVE  \E v \in Clean : wl' = [wl EXCEPT ![x] = Commit(wl[x], v)]
    <3>1. Live(wl[x]) \in Workload /\ Live(wl[x]).cond.tmpl \notin ApiErrors
      BY <1>3, <1>4, <2>1 DEF DeleteWorkload, UpdateWorkload
    <3>2. /\ [Live(wl[x]) EXCEPT !.deleting = TRUE] \in Clean
          /\ \A s \in WorkloadSpecs : [Live(wl[x]) EXCEPT !.spec = s] \in Clean
      BY <3>1 DEF Clean, Workload
    <3>3. None \in Clean
      BY DEF Clean
    <3>. QED  BY <2>1, <3>2, <3>3 DEF DeleteWorkload, UpdateWorkload
  <2>2. /\ UNCHANGED frame
        /\ \/ wl' = wl
           \/ \E x \in Workloads :
                DeleteWorkload(x) \/ \E s \in WorkloadSpecs : UpdateWorkload(x, s)
    BY <1>9 DEF Users, DeleteWorkload, UpdateWorkload, PutTemplate, PutCluster, TouchObject
  <2>. QED  BY <1>2, <1>8, <2>1, <2>2, CleanCommit
<1>10. CASE Collect
  <2>1. None \in Clean
    BY DEF Clean
  <2>2. /\ UNCHANGED frame
        /\ wl' = wl \/ \E x \in Workloads : wl' = [wl EXCEPT ![x] = Commit(wl[x], None)]
    BY <1>10 DEF Collect, CollectObject, CollectWorkload
  <2>. QED  BY <1>2, <1>8, <2>1, <2>2, CleanCommit
<1>11. CASE UNCHANGED vars
  BY <1>2, <1>8, <1>11 DEF vars, api
<1>. QED  BY <1>1, <1>5, <1>6, <1>7, <1>9, <1>10, <1>11 DEF Next

\* How a pass over a workload that is rendered comes to report something.
LEMMA HealingSteps ==
  ASSUME TypeOK, NEW w \in Workloads, GoesOn(w), Reconcilable(w), seen = Live(wl[w]),
         [Next]_vars
  PROVE  \/ UNCHANGED << pc, cond, err >>
         \/ /\ pc \in {"listKustomizations", "listHelmReleases"}
            /\ cond'.tmpl = cond.tmpl /\ err' = err
         \/ pc' \notin {"listKustomizations", "listHelmReleases", "patch"}
         \/ err' \/ cond'.tmpl \notin ApiErrors
         \/ \E e \in ApiErrors : WriteFails(e)
<1>0. cur = w /\ cur' = w /\ w # None /\ pc # "idle"
  BY NoneIsNoValue DEF GoesOn, TypeOK, FrameOK
<1>1. CASE Deliver
  BY <1>1 DEF Deliver, DeliverWorkload, DeliverTemplate, DeliverCluster, DeliverObject, frame
<1>2. CASE \E x \in Workloads : ReconcileGone(x) \/ ReconcileStart(x)
  BY <1>0, <1>2 DEF ReconcileGone, ReconcileStart
<1>3. CASE Worker
  <2>1. CASE GetOwnerCluster
    <3>1. seen.spec.owner # None /\ seen.spec.ref # None
      BY DEF Reconcilable
    <3>. QED  BY <2>1, <3>1 DEF GetOwnerCluster, Goto
  <2>2. CASE EvaluateTemplate \/ MarkTrue \/ RejectField \/ GetObject \/ WriteObject
    BY <2>2, TemplateReports
  <2>3. CASE ListKustomizations \/ ListHelmReleases
    BY <2>3 DEF ListKustomizations, ListHelmReleases, Conditions, TypeOK, FrameOK
  <2>4. CASE PatchUnneeded \/ PatchStatus \/ PatchRefused
    BY <1>0, <2>4 DEF PatchUnneeded, PatchStatus, PatchRefused, Return
  <2>. QED  BY <1>3, <2>1, <2>2, <2>3, <2>4 DEF Worker
<1>4. CASE Faults
  <2>1. CASE Restart \/ PatchFails
    BY <1>0, <2>1 DEF Restart, PatchFails, Return
  <2>2. CASE ReadFails
    BY <2>2 DEF ReadFails
  <2>. QED  BY <1>4, <2>1, <2>2 DEF Faults
<1>5. CASE Users \/ Collect
  BY <1>5 DEF Users, Collect, DeleteWorkload, UpdateWorkload, PutTemplate, PutCluster,
              TouchObject, CollectObject, CollectWorkload, frame
<1>6. CASE UNCHANGED vars
  BY <1>6 DEF vars, frame
<1>. QED  BY <1>1, <1>2, <1>3, <1>4, <1>5, <1>6 DEF Next

\* Up to the first fault.
LEMMA HealingStep ==
  ASSUME TypeOK, StatusKept, FailureFree, Healing, [Next]_vars
  PROVE  Healing'
<1>. SUFFICES ASSUME faults' <= 1, NEW w \in Workloads, CaughtUp(w)', Reconcilable(w)'
              PROVE  Heals(w)'
  BY DEF Healing
<1>. w # None
  BY NoneIsNoValue
<1>1. wl'[w] = wl[w] /\ Reconcilable(w)
  BY Steps DEF Reconcilable
<1>2. faults \in Nat /\ faults <= 1 /\ (Faults => faults = 0)
  BY FaultsCounted
<1>3. CaughtUp(w) => Heals(w) /\ Reported(w)
  BY <1>1, <1>2 DEF Healing, StatusKept
<1>4. CASE CaughtUp(w) /\ Elsewhere(w)
  BY <1>1, <1>3, <1>4 DEF Heals, Elsewhere
<1>5. CASE CaughtUp(w) /\ GoesOn(w)
  <2>1. cur = w /\ cur' = w /\ seen' = seen /\ seen = Live(wl[w])
    BY <1>3, <1>5 DEF Reported, GoesOn
  <2>2. CASE \E e \in ApiErrors : WriteFails(e)
    <3>1. faults = 0 /\ seen # None
      BY <1>2, <2>2, Reads, NoneIsNoValue DEF Faults, WriteFails
    <3>2. seen.cond.tmpl \notin ApiErrors
      BY <3>1 DEF FailureFree, Clean
    <3>. QED  BY <2>1, <3>2 DEF Heals
  <2>3. CASE UNCHANGED << pc, cond, err >>
    BY <1>3, <1>5, <2>1, <2>3 DEF Heals
  <2>4. CASE /\ pc \in {"listKustomizations", "listHelmReleases"}
             /\ cond'.tmpl = cond.tmpl /\ err' = err
    BY <1>3, <1>5, <2>1, <2>4 DEF Heals
  <2>5. CASE \/ pc' \notin {"listKustomizations", "listHelmReleases", "patch"}
             \/ err' \/ cond'.tmpl \notin ApiErrors
    BY <2>1, <2>5 DEF Heals
  <2>. QED  BY <1>1, <1>5, <2>1, <2>2, <2>3, <2>4, <2>5, HealingSteps
<1>6. CASE CaughtUp(w) /\ Ends(w)
  <2>1. /\ cur = w /\ cur' # w /\ pc = "patch" /\ ~err /\ seen = Live(wl[w])
        /\ SetSummary(cond) = seen.cond
    BY <1>3, <1>6 DEF Ends, PatchUnneeded, Reported
  <2>2. cond.tmpl = seen.cond.tmpl
    BY <2>1, SummaryOnce DEF TypeOK, FrameOK
  <2>3. seen.cond.tmpl \notin ApiErrors
    BY <1>3, <1>6, <2>1, <2>2 DEF Heals
  <2>. QED  BY <1>1, <2>1, <2>3 DEF Heals
<1>7. CASE Starts(w)
  <2>1. cur' = w /\ pc' = IF Cached(wl[w]).deleting THEN "listKustomizations" ELSE "cluster"
    BY <1>7 DEF Starts, ReconcileStart, Goto
  <2>2. Cached(wl[w]) = Live(wl[w])
    BY <1>1 DEF CaughtUp, Synced, Cached, Live
  <2>3. pc' = "cluster"
    BY <1>1, <2>1, <2>2 DEF Reconcilable
  <2>. QED  BY <2>1, <2>3 DEF Heals
<1>. QED  BY <1>4, <1>5, <1>6, <1>7, Steps

\* A single fault, whatever request it hits and whatever happens around it,
\* leaves no workload with a failed request in its conditions once the
\* system is quiet (OneFailureHeals): the report itself is the event that
\* starts the pass that mends it.
THEOREM OneFailureIsHealed == Spec => []OneFailureHeals
<1>1. Init => FailureFree /\ Healing
  <2>1. ASSUME Init PROVE FailureFree
    <3>1. Unset \in Conditions /\ Unset.tmpl \notin ApiErrors
      BY ErrorsNamed DEF Unset, Conditions
    <3>2. ASSUME NEW s \in WorkloadSpecs
          PROVE  << [spec |-> s, deleting |-> FALSE, cond |-> Unset] >> \in Stream(Clean)
      <4>1. [spec |-> s, deleting |-> FALSE, cond |-> Unset] \in Clean
        BY <3>1 DEF Clean, Workload
      <4>. QED  BY <4>1, StreamOne
    <3>3. \A w \in Workloads : wl[w] \in Stream(Clean)
      BY <2>1, <3>2 DEF Init
    <3>4. seen \in Clean /\ cond = Unset
      BY <2>1 DEF Init, IdleFrame, Clean
    <3>. QED  BY <3>1, <3>3, <3>4 DEF FailureFree
  <2>2. Init => Healing
    BY DEF Init, Healing, CaughtUp
  <2>. QED  BY <2>1, <2>2
<1>2. TypeOK /\ StatusKept /\ FailureFree /\ Healing /\ [Next]_vars
        => (FailureFree /\ Healing)'
  BY FailureFreeStep, HealingStep
<1>3. TypeOK /\ Healing => OneFailureHeals
  <2>. SUFFICES ASSUME TypeOK, Healing, Settled, NEW w \in Workloads, Reconcilable(w),
                       Live(wl[w]).cond.tmpl \in ApiErrors, ~(faults > 1)
                PROVE  FALSE
    BY DEF OneFailureHeals
  <2>1. faults <= 1
    BY ConstantsTyped DEF TypeOK
  <2>. QED  BY <2>1, SettledParts DEF Healing, Heals, Reconcilable
<1>. QED  BY <1>1, <1>2, <1>3, StatusIsKept, TypeCorrect, PTL DEF Spec
=============================================================================
