---------------------- MODULE WorkloadReconcilerProofs ----------------------
(* Proofs about WorkloadReconciler, for every value of its constants.       *)
EXTENDS WorkloadReconciler, InformerProofs

-----------------------------------------------------------------------------
(* Type correctness.                                                        *)

\* The manager starts with typed lists and an idle worker.
LEMMA InitTypeOK == Init => TypeOK
<1>. SUFFICES ASSUME Init PROVE TypeOK
  OBVIOUS
<1>1. Unset \in Conditions
  BY DEF Unset, Conditions
<1>2. wl \in [Workloads -> Stream(Workload \cup {None})]
  <2>. DEFINE Fresh == {<< [spec |-> s, deleting |-> FALSE, cond |-> Unset] >> :
                         s \in WorkloadSpecs}
  <2>1. Fresh \subseteq Stream(Workload \cup {None})
    <3>. SUFFICES ASSUME NEW s \in WorkloadSpecs
                  PROVE  << [spec |-> s, deleting |-> FALSE, cond |-> Unset] >>
                            \in Stream(Workload \cup {None})
      OBVIOUS
    <3>1. [spec |-> s, deleting |-> FALSE, cond |-> Unset] \in Workload
      BY <1>1 DEF Workload
    <3>. QED  BY <3>1, StreamOne
  <2>2. wl \in [Workloads -> Fresh]
    BY DEF Init
  <2>. QED  BY <2>1, <2>2, Zenon
<1>3. tpl \in [Templates -> Stream(Template \cup {None})]
  BY StreamOne DEF Init
<1>4. cls \in [Clusters -> Stream(Cluster \cup {None})]
  BY StreamOne DEF Init
<1>5. obj \in [Workloads \X Names -> Stream(Object \cup {None})]
  BY StreamOne DEF Init
<1>6. /\ queue = Workloads /\ IdleFrame /\ changes = 0 /\ faults = 0
      /\ MaxChanges \in Nat /\ MaxFaults \in Nat
  BY ConstantsTyped DEF Init
<1>7. err \in BOOLEAN
  BY <1>6, Zenon DEF IdleFrame
<1>8. idx \in Nat \ {0} /\ changes \in 0..MaxChanges /\ faults \in 0..MaxFaults
  BY <1>6 DEF IdleFrame
<1>9. pc = "idle" /\ cond = Unset /\ cur = None /\ seen = None /\ clu = None
      /\ rend = None /\ got = None /\ queue = Workloads /\ idx = 1
  BY <1>6, Zenon DEF IdleFrame
<1>. QED
  BY <1>1, <1>2, <1>3, <1>4, <1>5, <1>7, <1>8, <1>9 DEF TypeOK, ApiOK, FrameOK

\* A step that leaves the worker alone.
LEMMA FrameSame == FrameOK /\ UNCHANGED << pc, frame >> => FrameOK'
BY DEF frame, FrameOK

\* An event that reaches the cache.
LEMMA DeliverTypeOK == TypeOK /\ Deliver => TypeOK'
<1>. SUFFICES ASSUME TypeOK, Deliver PROVE TypeOK'
  OBVIOUS
<1>1. ASSUME NEW w \in Workloads, DeliverWorkload(w) PROVE TypeOK'
  <2>1. Delivered(wl[w]) \in Stream(Workload \cup {None})
    BY <1>1, StreamDelivered DEF DeliverWorkload, TypeOK, ApiOK
  <2>2. ApiOK'
    BY <1>1, <2>1 DEF DeliverWorkload, TypeOK, ApiOK
  <2>3. queue' \subseteq Workloads
    BY <1>1 DEF DeliverWorkload, TypeOK
  <2>. QED  BY <1>1, <2>2, <2>3, FrameSame DEF DeliverWorkload, TypeOK
<1>2. ASSUME NEW t \in Templates, DeliverTemplate(t) PROVE TypeOK'
  <2>1. Delivered(tpl[t]) \in Stream(Template \cup {None})
    BY <1>2, StreamDelivered DEF DeliverTemplate, TypeOK, ApiOK
  <2>2. ApiOK'
    BY <1>2, <2>1 DEF DeliverTemplate, TypeOK, ApiOK
  <2>3. queue' \subseteq Workloads
    BY <1>2 DEF DeliverTemplate, workloadTemplateToWorkloads, TypeOK
  <2>. QED  BY <1>2, <2>2, <2>3, FrameSame DEF DeliverTemplate, TypeOK
<1>3. ASSUME NEW c \in Clusters, DeliverCluster(c) PROVE TypeOK'
  <2>1. Delivered(cls[c]) \in Stream(Cluster \cup {None})
    BY <1>3, StreamDelivered DEF DeliverCluster, TypeOK, ApiOK
  <2>2. ApiOK'
    BY <1>3, <2>1 DEF DeliverCluster, TypeOK, ApiOK
  <2>3. queue' \subseteq Workloads
    BY <1>3 DEF DeliverCluster, clusterToWorkloads, TypeOK
  <2>. QED  BY <1>3, <2>2, <2>3, FrameSame DEF DeliverCluster, TypeOK
<1>4. ASSUME NEW o \in Workloads \X Names, DeliverObject(o) PROVE TypeOK'
  <2>1. Delivered(obj[o]) \in Stream(Object \cup {None})
    BY <1>4, StreamDelivered DEF DeliverObject, TypeOK, ApiOK
  <2>2. ApiOK'
    BY <1>4, <2>1 DEF DeliverObject, TypeOK, ApiOK
  <2>3. queue' \subseteq Workloads
    BY <1>4 DEF DeliverObject, ownerOf, TypeOK
  <2>. QED  BY <1>4, <2>2, <2>3, FrameSame DEF DeliverObject, TypeOK
<1>. QED  BY <1>1, <1>2, <1>3, <1>4 DEF Deliver

\* The types of what the worker reads and of what it has read.
LEMMA Reads ==
  ASSUME TypeOK
  PROVE  /\ \A w \in Workloads : /\ Cached(wl[w]) \in Workload \cup {None}
                                 /\ Live(wl[w]) \in Workload \cup {None}
         /\ \A t \in Templates : Cached(tpl[t]) \in Template \cup {None}
         /\ \A c \in Clusters : Cached(cls[c]) \in Cluster \cup {None}
         /\ \A o \in Workloads \X Names : Live(obj[o]) \in Object \cup {None}
         /\ pc # "idle" => cur \in Workloads /\ seen \in Workload
         /\ pc = "template" => clu \in Cluster
         /\ pc \in {"field", "write"} => rend \in Rendered
BY StreamRead DEF TypeOK, ApiOK, FrameOK

\* The fields of a workload.
LEMMA WorkloadParts ==
  ASSUME NEW v \in Workload
  PROVE  /\ v.spec \in WorkloadSpec /\ v.cond \in Conditions
         /\ v.deleting \in BOOLEAN
         /\ \A c \in Conditions : [v EXCEPT !.cond = c] \in Workload
         /\ \A s \in WorkloadSpecs : [v EXCEPT !.spec = s] \in Workload
         /\ [v EXCEPT !.deleting = TRUE] \in Workload
BY ConstantsTyped DEF Workload

\* A pass that ends leaves an idle worker.
LEMMA ReturnTypeOK == FrameOK /\ Return => FrameOK'
<1>. SUFFICES ASSUME Return PROVE FrameOK'
  OBVIOUS
<1>1. err' \in BOOLEAN
  BY Zenon DEF Return
<1>2. cond' \in Conditions
  BY DEF Return, Unset, Conditions
<1>3. /\ pc' = "idle" /\ cur' = None /\ seen' = None /\ clu' = None
      /\ rend' = None /\ idx' = 1 /\ got' = None
  BY Zenon DEF Return
<1>. QED  BY <1>1, <1>2, <1>3 DEF FrameOK

\* The worker takes a key from the queue.
LEMMA StartTypeOK ==
  ASSUME TypeOK, NEW w \in Workloads, ReconcileGone(w) \/ ReconcileStart(w)
  PROVE  TypeOK'
<1>1. CASE ReconcileGone(w)
  BY <1>1 DEF ReconcileGone, api, frame, TypeOK, ApiOK, FrameOK
<1>2. CASE ReconcileStart(w)
  <2>1. Cached(wl[w]) \in Workload /\ Cached(wl[w]).cond \in Conditions
    BY <1>2, Reads, WorkloadParts DEF ReconcileStart
  <2>2. cur' = w /\ seen' = Cached(wl[w]) /\ cond' = Cached(wl[w]).cond
        /\ pc' \in {"listKustomizations", "cluster"}
    BY <1>2 DEF ReconcileStart, Goto
  <2>3. FrameOK'
    BY <1>2, <2>1, <2>2, NoneIsNoValue DEF ReconcileStart, TypeOK, FrameOK
  <2>. QED  BY <1>2, <2>3 DEF ReconcileStart, api, TypeOK, ApiOK
<1>. QED  BY <1>1, <1>2

\* GetOwnerCluster reads the cluster, EvaluateTemplate the template.
LEMMA ReadTypeOK ==
  ASSUME TypeOK, GetOwnerCluster \/ EvaluateTemplate
  PROVE  TypeOK'
<1>1. CASE GetOwnerCluster
  <2>1. pc = "cluster" /\ seen \in Workload /\ seen.spec \in WorkloadSpec
    BY <1>1, Reads, WorkloadParts DEF GetOwnerCluster
  <2>2. seen.spec.owner \in Clusters \cup {None}
    BY <2>1 DEF WorkloadSpec
  <2>3. clu' \in Cluster \cup {None} /\ err' \in BOOLEAN
        /\ pc' \in {"listKustomizations", "patch", "template"}
        /\ (pc' = "template" => clu' # None /\ seen.spec.ref # None)
    <3>1. CASE seen.spec.owner = None
      BY <1>1, <3>1 DEF GetOwnerCluster, Goto, TypeOK, FrameOK
    <3>2. CASE seen.spec.owner # None /\ Cached(cls[seen.spec.owner]) = None
      BY <1>1, <3>2 DEF GetOwnerCluster, Goto, TypeOK, FrameOK
    <3>3. CASE seen.spec.owner # None /\ Cached(cls[seen.spec.owner]) # None
      BY <1>1, <2>2, <3>3, Reads DEF GetOwnerCluster, Goto, TypeOK, FrameOK
    <3>. QED  BY <3>1, <3>2, <3>3
  <2>4. FrameOK'
    BY <1>1, <2>1, <2>3, NoneIsNoValue DEF GetOwnerCluster, TypeOK, FrameOK
  <2>. QED  BY <1>1, <2>4 DEF GetOwnerCluster, api, TypeOK, ApiOK
<1>2. CASE EvaluateTemplate
  <2>. DEFINE t == Cached(tpl[seen.spec.ref])
              verdict == Evaluate(t, seen.spec, clu)
  <2>1. pc = "template" /\ seen \in Workload /\ seen.spec \in WorkloadSpec
        /\ clu \in Cluster
    BY <1>2, Reads, WorkloadParts DEF EvaluateTemplate
  <2>2. seen.spec.ref \in Templates /\ seen.spec.input \in Inputs
        /\ clu.attr \in Attrs
    BY <2>1 DEF WorkloadSpec, Cluster, TypeOK, FrameOK
  <2>3. t \in Template \cup {None}
    BY <2>2, Reads
  <2>4. t # None => Render(t, seen.spec, clu) \in Rendered
    BY <2>2, <2>3 DEF Render, Rendered, Template
  <2>5. /\ verdict \in Waits \cup RenderFailures \cup {"ok"}
        /\ verdict = "ok" => t # None
    BY <2>4, ConstantsTyped DEF Evaluate, Waits, RenderFailures
  <2>6. CASE verdict = "ok"
    <3>1. /\ rend' = Render(t, seen.spec, clu) /\ pc' = "field" /\ cond' = cond
          /\ clu' = None
      BY <1>2, <2>6 DEF EvaluateTemplate, Goto
    <3>2. rend' \in Rendered
      BY <2>4, <2>5, <2>6, <3>1
    <3>3. FrameOK'
      BY <1>2, <2>1, <3>1, <3>2, NoneIsNoValue DEF EvaluateTemplate, TypeOK, FrameOK
    <3>. QED  BY <1>2, <3>3 DEF EvaluateTemplate, api, TypeOK, ApiOK
  <2>7. CASE verdict # "ok"
    <3>1. /\ cond' = [cond EXCEPT !.tmpl = verdict] /\ pc' = "listKustomizations"
          /\ rend' = rend /\ clu' = None
      BY <1>2, <2>7 DEF EvaluateTemplate, MarkFalse, Goto
    <3>2. cond' \in Conditions
      BY <2>5, <2>7, <3>1 DEF TypeOK, FrameOK, Conditions
    <3>3. FrameOK'
      BY <1>2, <2>1, <3>1, <3>2, NoneIsNoValue DEF EvaluateTemplate, TypeOK, FrameOK
    <3>. QED  BY <1>2, <3>3 DEF EvaluateTemplate, api, TypeOK, ApiOK
  <2>. QED  BY <2>6, <2>7
<1>. QED  BY <1>1, <1>2

\* The steps of the loop over the fields, and the lists after it, set
\* conditions and read objects.
LEMMA FieldTypeOK ==
  ASSUME TypeOK, MarkTrue \/ RejectField \/ GetObject
                   \/ ListKustomizations \/ ListHelmReleases
  PROVE  TypeOK'
<1>1. CASE MarkTrue
  <2>1. cond' \in Conditions
    BY <1>1 DEF MarkTrue, Conditions, TypeOK, FrameOK
  <2>. QED
    BY <1>1, <2>1 DEF MarkTrue, Goto, api, TypeOK, ApiOK, FrameOK
<1>2. CASE RejectField
  <2>1. cond' \in Conditions
    BY <1>2 DEF RejectField, MarkFalse, FieldFailures, Conditions, TypeOK, FrameOK
  <2>. QED
    BY <1>2, <2>1 DEF RejectField, MarkFalse, Goto, api, TypeOK, ApiOK, FrameOK
<1>3. CASE GetObject
  <2>1. pc = "field" /\ cur \in Workloads /\ rend \in Rendered
        /\ idx \in 1..Len(Fields[rend.source])
    BY <1>3, Reads DEF GetObject, TypeOK, FrameOK
  <2>2. field \in Field
    BY <2>1, ConstantsTyped DEF field, Rendered
  <2>3. target \in Workloads \X Names
    BY <2>1, <2>2 DEF target, Field
  <2>4. got' \in Object \cup {None}
    BY <1>3, <2>3, Reads DEF GetObject
  <2>5. FrameOK'
    BY <1>3, <2>1, <2>4 DEF GetObject, Goto, TypeOK, FrameOK
  <2>. QED  BY <1>3, <2>5 DEF GetObject, api, TypeOK, ApiOK
<1>4. CASE ListKustomizations
  <2>1. cond' \in Conditions
    BY <1>4 DEF ListKustomizations, Conditions, TypeOK, FrameOK
  <2>. QED
    BY <1>4, <2>1 DEF ListKustomizations, Goto, api, TypeOK, ApiOK, FrameOK
<1>5. CASE ListHelmReleases
  <2>1. cond' \in Conditions
    BY <1>5 DEF ListHelmReleases, Conditions, TypeOK, FrameOK
  <2>. QED
    BY <1>5, <2>1 DEF ListHelmReleases, Goto, api, TypeOK, ApiOK, FrameOK
<1>. QED  BY <1>1, <1>2, <1>3, <1>4, <1>5

\* Where the worker writes: the field it is at and the object this renders.
LEMMA AtWrite ==
  ASSUME TypeOK, pc = "write"
  PROVE  /\ cur \in Workloads /\ seen \in Workload /\ rend \in Rendered
         /\ idx \in 1..Len(Fields[rend.source]) /\ field \in Field
         /\ target \in Workloads \X Names
         /\ obj[target] \in Stream(Object \cup {None})
         /\ Live(obj[target]) \in Object \cup {None}
<1>1. cur \in Workloads /\ seen \in Workload /\ rend \in Rendered
      /\ idx \in 1..Len(Fields[rend.source])
  BY Reads DEF TypeOK, FrameOK
<1>2. field \in Field
  BY <1>1, ConstantsTyped DEF field, Rendered
<1>3. target \in Workloads \X Names
  BY <1>1, <1>2 DEF target, Field
<1>. QED  BY <1>1, <1>2, <1>3, Reads DEF TypeOK, ApiOK

\* What is stored of an object is a stream.
LEMMA StoredType ==
  ASSUME ApiOK, NEW o \in Workloads \X Names, NEW v \in Object \cup {None}
  PROVE  /\ Stored(o, v) \in Stream(Object \cup {None})
         /\ Live(Stored(o, v)) = v
<1>1. obj[o] \in Stream(Object \cup {None})
  BY DEF ApiOK
<1>2. /\ Commit(obj[o], v) \in Stream(Object \cup {None})
      /\ Live(Commit(obj[o], v)) = v
  BY <1>1, StreamCommit
<1>3. << v >> \in Stream(Object \cup {None}) /\ Live(<< v >>) = v
  BY StreamOne
<1>. QED  BY <1>2, <1>3 DEF Stored

\* The forms of an object that the reconciler writes are objects.
LEMMA WrittenType ==
  ASSUME TypeOK, pc = "write"
  PROVE  /\ Decoded \in Object
         /\ got # None => Mutated \in Object
         /\ \A live \in Object : got # None =>
              MergePatches(live, got, Mutated) \subseteq Object
<1>1. seen.spec.owner \in Clusters \cup {None}
  BY AtWrite, WorkloadParts DEF WorkloadSpec
<1>2. Decoded \in Object
  BY <1>1, AtWrite DEF Decoded, Object
<1>3. got # None => got \in Object /\ Mutated \in Object
  BY <1>1, AtWrite DEF Mutated, Object, TypeOK, FrameOK
<1>4. ASSUME NEW live \in Object, got # None
      PROVE  MergePatches(live, got, Mutated) \subseteq Object
  <2>1. Mutated \in Object /\ got \in Object
    BY <1>3, <1>4
  <2>2. ASSUME NEW s \in Rendered \cup {None, Drifted}
        PROVE  [live EXCEPT !.meta = Merge(@, got.meta, Mutated.meta),
                            !.spec = Merge(@, got.spec, s)] \in Object
    <3>1. /\ Merge(live.meta, got.meta, Mutated.meta) \in Clusters \cup {None}
          /\ Merge(live.spec, got.spec, s) \in Rendered \cup {None, Drifted}
      BY <2>1 DEF Merge, Object
    <3>. QED  BY <3>1 DEF Object
  <2>3. Mutated.spec \in Rendered \cup {None, Drifted}
    BY <2>1 DEF Object
  <2>. QED  BY <2>2, <2>3 DEF MergePatches
<1>. QED  BY <1>2, <1>3, <1>4

\* A write that the API server accepts stores an object.
LEMMA Written ==
  ASSUME TypeOK, pc = "write", Create \/ Patch
  PROVE  \E v \in Object : obj' = [obj EXCEPT ![target] = Stored(target, v)]
<1>1. CASE Create
  BY <1>1, WrittenType DEF Create
<1>2. CASE Patch
  <2>1. Live(obj[target]) \in Object /\ got # None
    BY <1>2, AtWrite DEF Patch
  <2>. QED  BY <1>2, <2>1, WrittenType DEF Patch
<1>. QED  BY <1>1, <1>2

\* The streams stay streams.
LEMMA WrittenTypeOK ==
  ASSUME TypeOK, pc = "write", Create \/ Patch, UNCHANGED << wl, tpl, cls >>
  PROVE  ApiOK'
<1>1. PICK v \in Object : obj' = [obj EXCEPT ![target] = Stored(target, v)]
  BY Written
<1>2. Stored(target, v) \in Stream(Object \cup {None})
  BY AtWrite, StoredType DEF TypeOK
<1>. QED  BY <1>1, <1>2 DEF TypeOK, ApiOK

\* A write that fails is reported in the condition.
LEMMA FailedTypeOK ==
  ASSUME TypeOK, pc = "write", NEW e \in WriteFailures, ReconcileFailed(e),
         UNCHANGED << wl, tpl, cls, cur, seen, clu, rend, err >>
  PROVE  ApiOK' /\ FrameOK'
<1>1. cond' \in Conditions
  BY DEF ReconcileFailed, MarkFalse, Conditions, TypeOK, FrameOK
<1>. QED
  BY <1>1 DEF ReconcileFailed, MarkFalse, Goto, TypeOK, ApiOK, FrameOK

\* The step to the next field.
LEMMA NextFieldTypeOK ==
  ASSUME TypeOK, pc = "write", NextField,
         UNCHANGED << cur, seen, clu, rend, err >>
  PROVE  FrameOK'
BY DEF NextField, Goto, TypeOK, FrameOK

\* CreateOrPatch writes the object.
LEMMA WriteTypeOK == TypeOK /\ WriteObject => TypeOK'
<1>. SUFFICES ASSUME TypeOK, WriteObject PROVE ApiOK' /\ FrameOK'
  BY DEF WriteObject, TypeOK
<1>0. /\ pc = "write"
      /\ UNCHANGED << wl, tpl, cls, queue, cur, seen, clu, rend, err, changes, faults >>
  BY DEF WriteObject
<1>1. CASE \E e \in WriteFailures : ReconcileFailed(e)
  BY <1>0, <1>1, FailedTypeOK
<1>2. CASE NextField /\ UNCHANGED obj
  BY <1>0, <1>2, NextFieldTypeOK DEF TypeOK, ApiOK
<1>3. CASE NextField /\ (Create \/ Patch)
  BY <1>0, <1>3, NextFieldTypeOK, WrittenTypeOK
<1>4. CASE CreateObject
  BY <1>1, <1>3, <1>4 DEF CreateObject, WriteFailures
<1>5. CASE PatchObject
  BY <1>1, <1>2, <1>3, <1>5 DEF PatchObject, WriteFailures
<1>6. CASE ReconcileFailed("MutateFailed")
  BY <1>1, <1>6 DEF WriteFailures
<1>. QED  BY <1>4, <1>5, <1>6 DEF WriteObject

\* The summary of conditions, and their merge, are conditions.
LEMMA ConditionsClosed ==
  ASSUME NEW a \in Conditions, NEW b \in Conditions, NEW c \in Conditions
  PROVE  SetSummary(a) \in Conditions /\ MergeConditions(a, b, c) \in Conditions
BY DEF SetSummary, MergeConditions, Merge, Conditions

\* The status patch stores a workload.
LEMMA StatusType ==
  ASSUME TypeOK, cur \in Workloads, seen \in Workload, StoreStatus
  PROVE  wl' \in [Workloads -> Stream(Workload \cup {None})]
<1>. DEFINE latest == Cached(wl[cur])
            merged == [latest EXCEPT !.cond =
                         MergeConditions(latest.cond, seen.cond, SetSummary(cond))]
<1>1. latest \in Workload
  BY Reads DEF StoreStatus
<1>2. merged \in Workload
  BY <1>1, WorkloadParts, ConditionsClosed DEF TypeOK, FrameOK
<1>3. wl' = wl \/ wl' = [wl EXCEPT ![cur] = Commit(wl[cur], merged)]
  BY DEF StoreStatus
<1>. HIDE DEF merged
<1>4. Commit(wl[cur], merged) \in Stream(Workload \cup {None})
  BY <1>2, StreamCommit DEF TypeOK, ApiOK
<1>. QED  BY <1>3, <1>4 DEF TypeOK, ApiOK

\* The deferred patch, in each of its outcomes.
LEMMA PatchTypeOK ==
  ASSUME TypeOK,
         PatchUnneeded \/ PatchStatus \/ PatchRefused \/ PatchFails
  PROVE  TypeOK'
<1>1. pc = "patch" /\ cur \in Workloads /\ seen \in Workload
  BY Reads DEF PatchUnneeded, PatchStatus, StoreStatus, PatchRefused, PatchFails
<1>2. Return
  BY DEF PatchUnneeded, PatchStatus, PatchRefused, PatchFails
<1>3. FrameOK'
  BY <1>2, ReturnTypeOK DEF TypeOK
<1>4. queue' \subseteq Workloads
  BY <1>1 DEF PatchUnneeded, PatchStatus, PatchRefused, PatchFails, Requeue, TypeOK
<1>5. CASE PatchStatus
  <2>1. ApiOK'
    BY <1>1, <1>5, StatusType DEF PatchStatus, TypeOK, ApiOK
  <2>. QED  BY <1>3, <1>4, <1>5, <2>1 DEF PatchStatus, TypeOK
<1>6. CASE PatchUnneeded \/ PatchRefused
  BY <1>3, <1>4, <1>6 DEF PatchUnneeded, PatchRefused, api, TypeOK, ApiOK
<1>7. CASE PatchFails
  <2>1. faults' \in 0..MaxFaults
    BY <1>7, ConstantsTyped DEF PatchFails, TypeOK
  <2>2. ApiOK' /\ changes' = changes
    BY <1>1, <1>7, StatusType DEF PatchFails, TypeOK, ApiOK
  <2>. QED  BY <1>3, <1>4, <2>1, <2>2 DEF TypeOK
<1>. QED  BY <1>5, <1>6, <1>7

\* A failed request and a restart.
LEMMA FaultTypeOK == TypeOK /\ Faults => TypeOK'
<1>. SUFFICES ASSUME TypeOK, Faults PROVE TypeOK'
  OBVIOUS
<1>1. CASE PatchFails
  BY <1>1, PatchTypeOK
<1>2. CASE \E e \in ApiErrors : WriteFails(e)
  <2>1. PICK e \in ApiErrors : WriteFails(e)
    BY <1>2
  <2>2. CASE ReconcileFailed(e)
    <3>1. ApiOK' /\ FrameOK'
      BY <2>1, <2>2, FailedTypeOK DEF WriteFails, WriteFailures
    <3>. QED  BY <2>1, <3>1, ConstantsTyped DEF WriteFails, TypeOK
  <2>3. CASE /\ Create \/ Patch
             /\ MarkFalse(e) /\ got' = None /\ UNCHANGED idx
    <3>1. pc = "write" /\ UNCHANGED << wl, tpl, cls, queue, cur, seen, clu, rend, err, changes >>
      BY <2>1 DEF WriteFails
    <3>2. ApiOK'
      BY <2>3, <3>1, WrittenTypeOK
    <3>3. cond' \in Conditions
      BY <2>3 DEF MarkFalse, Conditions, WriteFailures, TypeOK, FrameOK
    <3>4. FrameOK'
      BY <2>3, <3>1, <3>3 DEF MarkFalse, Goto, TypeOK, FrameOK
    <3>5. faults' \in 0..MaxFaults
      BY <2>1, ConstantsTyped DEF WriteFails, TypeOK
    <3>. QED  BY <3>1, <3>2, <3>4, <3>5 DEF TypeOK
  <2>. QED  BY <2>1, <2>2, <2>3 DEF WriteFails
<1>3. CASE Restart
  <2>1. ApiOK'
    BY <1>3, StreamRelisted DEF Restart, TypeOK, ApiOK
  <2>2. FrameOK'
    BY <1>3, ReturnTypeOK DEF Restart, TypeOK
  <2>3. queue' \subseteq Workloads
    BY <1>3 DEF Restart
  <2>. QED  BY <1>3, <2>1, <2>2, <2>3, ConstantsTyped DEF Restart, TypeOK
<1>4. CASE ReadFails
  <2>1. ApiOK'
    BY <1>4 DEF ReadFails, api, TypeOK, ApiOK
  <2>2. FrameOK'
    BY <1>4 DEF ReadFails, Goto, TypeOK, FrameOK
  <2>. QED  BY <1>4, <2>1, <2>2, ConstantsTyped DEF ReadFails, TypeOK
<1>. QED  BY <1>1, <1>2, <1>3, <1>4 DEF Faults

\* What others write into an object is an object.
LEMMA TouchedType ==
  ASSUME TypeOK, NEW o \in Workloads \X Names, TouchObject(o)
  PROVE  \E v \in Object \cup {None} : obj' = [obj EXCEPT ![o] = Stored(o, v)]
<1>1. Live(obj[o]) \in Object \cup {None}
  BY Reads
<1>2. CASE Live(obj[o]) = None
  BY <1>2 DEF TouchObject, Object
<1>3. CASE Live(obj[o]) \in Object
  <2>1. /\ [Live(obj[o]) EXCEPT !.meta = None] \in Object
        /\ [Live(obj[o]) EXCEPT !.spec = Drifted] \in Object
        /\ [Live(obj[o]) EXCEPT !.reconciling = ~@] \in Object
    BY <1>3 DEF Object
  <2>2. Live(obj[o]) # None
    BY <1>3, NoneIsNoValue
  <2>. QED  BY <2>1, <2>2 DEF TouchObject
<1>. QED  BY <1>1, <1>2, <1>3

\* Users, Flux and the garbage collector write to the API server.
LEMMA OthersTypeOK == TypeOK /\ (Users \/ Collect) => TypeOK'
<1>. SUFFICES ASSUME TypeOK, Users \/ Collect PROVE TypeOK'
  OBVIOUS
<1>0. ASSUME NEW w \in Workloads, NEW v \in Workload \cup {None}
      PROVE  Commit(wl[w], v) \in Stream(Workload \cup {None})
  BY <1>0, StreamCommit DEF TypeOK, ApiOK
<1>c. Change => changes' \in 0..MaxChanges
  BY ConstantsTyped DEF Change, TypeOK
<1>1. ASSUME NEW w \in Workloads, DeleteWorkload(w) PROVE TypeOK'
  <2>1. Live(wl[w]) \in Workload
    BY <1>1, Reads DEF DeleteWorkload
  <2>2. [Live(wl[w]) EXCEPT !.deleting = TRUE] \in Workload \cup {None}
    BY <2>1, WorkloadParts
  <2>3. PICK v \in Workload \cup {None} : wl' = [wl EXCEPT ![w] = Commit(wl[w], v)]
    BY <1>1, <2>2 DEF DeleteWorkload
  <2>4. Commit(wl[w], v) \in Stream(Workload \cup {None})
    BY <1>0
  <2>5. ApiOK'
    BY <1>1, <2>3, <2>4 DEF DeleteWorkload, TypeOK, ApiOK
  <2>. QED  BY <1>1, <1>c, <2>5, FrameSame DEF DeleteWorkload, TypeOK
<1>2. ASSUME NEW w \in Workloads, NEW s \in WorkloadSpecs, UpdateWorkload(w, s)
      PROVE  TypeOK'
  <2>1. Live(wl[w]) \in Workload
    BY <1>2, Reads DEF UpdateWorkload
  <2>2. [Live(wl[w]) EXCEPT !.spec = s] \in Workload \cup {None}
    BY <2>1, WorkloadParts
  <2>3. ApiOK'
    BY <1>0, <1>2, <2>2 DEF UpdateWorkload, TypeOK, ApiOK
  <2>. QED  BY <1>2, <1>c, <2>3, FrameSame DEF UpdateWorkload, TypeOK
<1>3. ASSUME NEW t \in Templates, NEW v \in Template \cup {None}, PutTemplate(t, v)
      PROVE  TypeOK'
  <2>1. Commit(tpl[t], v) \in Stream(Template \cup {None})
    BY StreamCommit DEF TypeOK, ApiOK
  <2>2. ApiOK'
    BY <1>3, <2>1 DEF PutTemplate, TypeOK, ApiOK
  <2>. QED  BY <1>3, <1>c, <2>2, FrameSame DEF PutTemplate, TypeOK
<1>4. ASSUME NEW c \in Clusters, NEW v \in Cluster \cup {None}, PutCluster(c, v)
      PROVE  TypeOK'
  <2>1. Commit(cls[c], v) \in Stream(Cluster \cup {None})
    BY StreamCommit DEF TypeOK, ApiOK
  <2>2. ApiOK'
    BY <1>4, <2>1 DEF PutCluster, TypeOK, ApiOK
  <2>. QED  BY <1>4, <1>c, <2>2, FrameSame DEF PutCluster, TypeOK
<1>5. ASSUME NEW o \in Workloads \X Names, TouchObject(o) PROVE TypeOK'
  <2>1. \E v \in Object \cup {None} : obj' = [obj EXCEPT ![o] = Stored(o, v)]
    BY <1>5, TouchedType
  <2>2. \A v \in Object \cup {None} : Stored(o, v) \in Stream(Object \cup {None})
    BY StoredType DEF TypeOK
  <2>3. ApiOK'
    <3>1. PICK v \in Object \cup {None} : obj' = [obj EXCEPT ![o] = Stored(o, v)]
      BY <2>1
    <3>2. Stored(o, v) \in Stream(Object \cup {None})
      BY <2>2
    <3>. QED  BY <1>5, <3>1, <3>2 DEF TouchObject, TypeOK, ApiOK
  <2>. QED  BY <1>5, <1>c, <2>3, FrameSame DEF TouchObject, TypeOK
<1>6. ASSUME NEW o \in Workloads \X Names, CollectObject(o) PROVE TypeOK'
  <2>1. Stored(o, None) \in Stream(Object \cup {None})
    BY StoredType DEF TypeOK
  <2>2. ApiOK'
    BY <1>6, <2>1 DEF CollectObject, TypeOK, ApiOK
  <2>. QED  BY <1>6, <2>2, FrameSame DEF CollectObject, TypeOK
<1>7. ASSUME NEW w \in Workloads, CollectWorkload(w) PROVE TypeOK'
  <2>1. ApiOK'
    BY <1>0, <1>7 DEF CollectWorkload, TypeOK, ApiOK
  <2>. QED  BY <1>7, <2>1, FrameSame DEF CollectWorkload, TypeOK
<1>. QED
  BY <1>1, <1>2, <1>3, <1>4, <1>5, <1>6, <1>7 DEF Users, Collect

\* Type correctness of the specification, for every set of workloads,
\* templates, clusters and objects and every bound: whatever users, Flux,
\* the garbage collector, failures and restarts do in between, the worker
\* never uses a workload, cluster, template or field it has not read.
THEOREM TypeCorrect == Spec => []TypeOK
<1>1. TypeOK /\ [Next]_vars => TypeOK'
  <2>. SUFFICES ASSUME TypeOK, [Next]_vars PROVE TypeOK'
    OBVIOUS
  <2>1. CASE Deliver
    BY <2>1, DeliverTypeOK
  <2>2. CASE \E w \in Workloads : ReconcileGone(w) \/ ReconcileStart(w)
    BY <2>2, StartTypeOK
  <2>3. CASE Worker
    BY <2>3, ReadTypeOK, FieldTypeOK, WriteTypeOK, PatchTypeOK DEF Worker
  <2>4. CASE Faults
    BY <2>4, FaultTypeOK
  <2>5. CASE Users \/ Collect
    BY <2>5, OthersTypeOK
  <2>6. CASE UNCHANGED vars
    <3>1. UNCHANGED api => (ApiOK => ApiOK')
      BY DEF api, ApiOK
    <3>. QED  BY <2>6, <3>1, FrameSame DEF vars, TypeOK
  <2>. QED  BY <2>1, <2>2, <2>3, <2>4, <2>5, <2>6 DEF Next
<1>. QED  BY InitTypeOK, <1>1, PTL DEF Spec
-----------------------------------------------------------------------------
(* No lost wake-up.  NoLostWakeUp is inductive together with TypeOK: below,  *)
(* each action preserves it for one workload w.                             *)

Quiet(w) == Reconcilable(w) /\ ~Pending(w)

Sound(w) == IF cur = w THEN PassCurrent(w) ELSE Truthful(w)

\* What is stored for w stays as it is, but for objects that are not as the
\* template wants them anyway or whose changes the controller does not see.
SameStored(w) ==
  /\ Live(wl[w])' = Live(wl[w])
  /\ clusterOf(w)' = clusterOf(w)
  /\ templateOf(w)' = templateOf(w)
  /\ \A n \in Names :
       \/ Live(obj[<< w, n >>])' = Live(obj[<< w, n >>])
       \/ n \in Touched /\ (KindOf[n] \in OwnedKinds => ~Marked(Live(obj[<< w, n >>])))

\* The fields of a source have names of objects.
LEMMA FieldName ==
  ASSUME NEW w \in Workloads, templateOf(w) \in Template,
         NEW i \in 1..Len(fieldsOf(w))
  PROVE  fieldsOf(w)[i] \in Field /\ fieldsOf(w)[i].name \in Names
<1>1. fieldsOf(w) \in Seq(Field)
  BY ConstantsTyped DEF fieldsOf, Template
<1>2. \A f \in Field : f.name \in Names
  BY DEF Field
<1>3. fieldsOf(w)[i] \in Field
  BY <1>1
<1>. QED  BY <1>2, <1>3

\* A template that passes the checks exists.
LEMMA VerdictOk ==
  ASSUME TypeOK, NEW w \in Workloads, Reconcilable(w), verdictOf(w) = "ok"
  PROVE  templateOf(w) \in Template
<1>1. templateOf(w) \in Template \cup {None}
  BY Reads, WorkloadParts, StreamRead
     DEF templateOf, Reconcilable, WorkloadSpec, TypeOK, ApiOK
<1>2. templateOf(w) # None
  BY DEF verdictOf, Evaluate
<1>. QED  BY <1>1, <1>2

\* The verdict, what is rendered and the fields depend on what is stored.
LEMMA RenderStable ==
  ASSUME NEW w \in Workloads, SameStored(w)
  PROVE  /\ verdictOf(w)' = verdictOf(w) /\ renderOf(w)' = renderOf(w)
         /\ fieldsOf(w)' = fieldsOf(w)
BY DEF SameStored, verdictOf, renderOf, fieldsOf

\* So does what is in sync, unless somebody else touches the object.
LEMMA InSyncStable ==
  ASSUME TypeOK, NEW w \in Workloads, Reconcilable(w), SameStored(w),
         verdictOf(w) = "ok", NEW i \in 1..Len(fieldsOf(w)), InSyncField(w, i)
  PROVE  InSyncField(w, i)'
<1>1. fieldsOf(w)[i].name \in Names
  BY VerdictOk, FieldName
<1>2. CASE Tracked(fieldsOf(w)[i])
  <2>1. Marked(Live(obj[<< w, fieldsOf(w)[i].name >>]))
    BY <1>2 DEF InSyncField, InSync, Marked, Reconcilable
  <2>2. Live(obj'[<< w, fieldsOf(w)[i].name >>]) = Live(obj[<< w, fieldsOf(w)[i].name >>])
    BY <1>1, <1>2, <2>1 DEF SameStored, Tracked
  <2>. QED
    BY <2>2, RenderStable DEF InSyncField, InSync, Tracked, SameStored
<1>3. CASE ~Tracked(fieldsOf(w)[i])
  BY <1>3, RenderStable DEF InSyncField, Tracked
<1>. QED  BY <1>2, <1>3

\* What Faithful says depends on what is stored for w only.
LEMMA FaithfulStable ==
  ASSUME TypeOK, NEW w \in Workloads, Reconcilable(w), SameStored(w),
         NEW tmpl, clusterOf(w) # None, Faithful(w, tmpl)
  PROVE  Faithful(w, tmpl)'
<1>1. CASE verdictOf(w) # "ok"
  BY <1>1, RenderStable DEF Faithful
<1>2. CASE verdictOf(w) = "ok"
  BY <1>2, RenderStable, InSyncStable DEF Faithful
<1>. QED  BY <1>1, <1>2

\* A step that leaves w, what is stored for it and the pass over it alone.
LEMMA SoundStable ==
  ASSUME TypeOK, NEW w \in Workloads, Reconcilable(w), SameStored(w), Sound(w),
         \/ cur = w /\ UNCHANGED << pc, frame >>
         \/ cur # w /\ cur' # w
  PROVE  Sound(w)'
<1>1. CASE cur # w /\ cur' # w
  <2>1. Truthful(w)
    BY <1>1 DEF Sound
  <2>2. Live(wl[w]).cond.tmpl = (Live(wl[w]).cond.tmpl)'
    BY DEF SameStored
  <2>3. PICK k : k = Live(wl[w]).cond.tmpl
    OBVIOUS
  <2>4. Faithful(w, k)'
    BY <2>1, <2>3, FaithfulStable DEF Truthful
  <2>5. Truthful(w)'
    BY <2>1, <2>2, <2>3, <2>4 DEF Truthful, SameStored
  <2>. QED  BY <1>1, <2>5 DEF Sound
<1>2. CASE cur = w /\ UNCHANGED << pc, frame >>
  <2>1. PassCurrent(w)
    BY <1>2 DEF Sound
  <2>2. UNCHANGED << pc, cur, seen, clu, rend, idx, got, cond, err >>
    BY <1>2 DEF frame
  <2>3. pc = "template" => clu' = clusterOf(w)'
    BY <2>1, <2>2 DEF PassCurrent, SameStored
  <2>4. ASSUME pc \in {"field", "write"}
        PROVE  /\ clusterOf(w)' # None /\ verdictOf(w)' = "ok" /\ rend' = renderOf(w)'
               /\ \A i \in 1..(idx - 1) : /\ i <= Len(fieldsOf(w)')
                                          /\ fieldsOf(w)'[i].check = "ok"
                                          /\ InSyncField(w, i)'
    <3>1. clusterOf(w)' # None /\ verdictOf(w)' = "ok" /\ rend' = renderOf(w)'
      BY <2>1, <2>2, <2>4, RenderStable DEF PassCurrent, SameStored
    <3>2. ASSUME NEW i \in 1..(idx - 1)
          PROVE  /\ i <= Len(fieldsOf(w)') /\ fieldsOf(w)'[i].check = "ok"
                 /\ InSyncField(w, i)'
      <4>1. /\ i <= Len(fieldsOf(w)) /\ fieldsOf(w)[i].check = "ok"
            /\ InSyncField(w, i) /\ verdictOf(w) = "ok"
        BY <2>1, <2>4 DEF PassCurrent
      <4>2. i \in 1..Len(fieldsOf(w))
        <5>1. fieldsOf(w) \in Seq(Field)
          BY <4>1, VerdictOk, ConstantsTyped DEF fieldsOf, Template
        <5>2. Len(fieldsOf(w)) \in Nat
          BY <5>1
        <5>3. idx \in Nat
          BY DEF TypeOK, FrameOK
        <5>. QED  BY <4>1, <5>2, <5>3
      <4>. QED  BY <4>1, <4>2, RenderStable, InSyncStable
    <3>. QED  BY <3>1, <3>2
  <2>5. ASSUME pc = "write"
        PROVE  /\ field'.check \notin FieldFailures
               /\ Tracked(field') => \/ Live(obj'[target']) = got'
                                     \/ KindOf[field'.name] \in OwnedKinds /\ ~Marked(got')
    <3>1. field' = field /\ target' = target /\ got' = got
      BY <2>2 DEF field, target
    <3>2. \/ Live(obj'[target]) = Live(obj[target])
          \/ /\ field.name \in Touched
             /\ KindOf[field.name] \in OwnedKinds => ~Marked(Live(obj[target]))
      <4>1. target = << w, field.name >> /\ field.name \in Names
        BY <1>2, <2>5, AtWrite DEF target, Field
      <4>. QED  BY <4>1 DEF SameStored
    <3>3. /\ field.check \notin FieldFailures
          /\ Tracked(field) => \/ Live(obj[target]) = got
                               \/ KindOf[field.name] \in OwnedKinds /\ ~Marked(got)
      BY <2>1, <2>5 DEF PassCurrent
    <3>. QED  BY <3>1, <3>2, <3>3 DEF Tracked
  <2>6. PICK k : k = cond.tmpl
    OBVIOUS
  <2>7. clusterOf(w) # None /\ Faithful(w, k) =>
          clusterOf(w)' # None /\ Faithful(w, k)'
    BY FaithfulStable DEF SameStored
  <2>8. ASSUME pc \in {"listKustomizations", "listHelmReleases", "patch"}, ~err
        PROVE  clusterOf(w)' # None /\ Faithful(w, cond.tmpl)'
    <3>1. Faithful(w, k)' /\ clusterOf(w)' # None
      BY <2>1, <2>6, <2>7, <2>8 DEF PassCurrent
    <3>2. cond'.tmpl = k
      BY <2>2, <2>6
    <3>. QED  BY <3>1, <3>2 DEF Faithful
  <2>9. seen' = Live(wl[w])'
    BY <2>1, <2>2 DEF PassCurrent, SameStored
  <2>10. PassCurrent(w)'
    BY <2>2, <2>3, <2>4, <2>5, <2>8, <2>9 DEF PassCurrent, Tracked, Marked
  <2>. QED  BY <1>2, <2>2, <2>10 DEF Sound
<1>. QED  BY <1>1, <1>2

\* The parts of a workload that is quiet.
LEMMA QuietParts ==
  ASSUME TypeOK, NEW w \in Workloads, Quiet(w)
  PROVE  /\ Live(wl[w]) \in Workload /\ Live(wl[w]).spec.owner \in Clusters
         /\ Live(wl[w]).spec.ref \in Templates
         /\ Cached(wl[w]) = Live(wl[w])
         /\ Cached(cls[Live(wl[w]).spec.owner]) = clusterOf(w)
         /\ Cached(tpl[Live(wl[w]).spec.ref]) = templateOf(w)
<1>1. Live(wl[w]) \in Workload
  BY Reads DEF Quiet, Reconcilable
<1>2. Live(wl[w]).spec.owner \in Clusters /\ Live(wl[w]).spec.ref \in Templates
  BY <1>1, WorkloadParts DEF Quiet, Reconcilable, WorkloadSpec
<1>. QED
  BY <1>1, <1>2 DEF Quiet, Pending, Synced, Cached, Live, clusterOf, templateOf

\* A step outside the pass that keeps what is stored for a quiet workload.
LEMMA SoundElsewhere ==
  ASSUME TypeOK, NoLostWakeUp, NEW w \in Workloads, Quiet(w), SameStored(w),
         UNCHANGED << pc, frame >>
  PROVE  Sound(w)'
BY SoundStable DEF NoLostWakeUp, Quiet, Sound, frame

\* An event that reaches the cache and concerns w queues w.
LEMMA DeliverWorkloadSound ==
  ASSUME TypeOK, NoLostWakeUp, NEW x \in Workloads, DeliverWorkload(x),
         NEW w \in Workloads, Quiet(w)'
  PROVE  Sound(w)'
<1>1. w # x
  BY DEF DeliverWorkload, Quiet, Pending
<1>2. wl'[w] = wl[w] /\ w \notin queue /\ UNCHANGED << tpl, cls, obj, pc, frame >>
  BY <1>1 DEF DeliverWorkload, Quiet, Pending, TypeOK, ApiOK
<1>3. Quiet(w) /\ SameStored(w)
  BY <1>2 DEF Quiet, Reconcilable, Pending, Woken, SameStored, clusterOf, templateOf
<1>. QED  BY <1>2, <1>3, SoundElsewhere

\* So does an event of the template w refers to.
LEMMA DeliverTemplateSound ==
  ASSUME TypeOK, NoLostWakeUp, NEW t \in Templates, DeliverTemplate(t),
         NEW w \in Workloads, Quiet(w)'
  PROVE  Sound(w)'
<1>1. UNCHANGED << wl, cls, obj, pc, frame >> /\ w \notin queue
  BY DEF DeliverTemplate, Quiet, Pending
<1>2. Synced(wl[w]) /\ Live(wl[w]) # None /\ Cached(wl[w]) = Live(wl[w])
  BY <1>1 DEF Quiet, Reconcilable, Pending, Synced, Cached, Live
<1>3. Live(wl[w]).spec.ref # t
  BY <1>1, <1>2 DEF DeliverTemplate, workloadTemplateToWorkloads, Quiet, Pending
<1>4. tpl'[Live(wl[w]).spec.ref] = tpl[Live(wl[w]).spec.ref]
  BY <1>3 DEF DeliverTemplate, TypeOK, ApiOK
<1>5. Quiet(w) /\ SameStored(w)
  BY <1>1, <1>4 DEF Quiet, Reconcilable, Pending, Woken, SameStored, clusterOf, templateOf
<1>. QED  BY <1>1, <1>5, SoundElsewhere

\* So does an event of the cluster that owns w and that its label names.
LEMMA DeliverClusterSound ==
  ASSUME TypeOK, NoLostWakeUp, NEW c \in Clusters, DeliverCluster(c),
         NEW w \in Workloads, Quiet(w)'
  PROVE  Sound(w)'
<1>1. UNCHANGED << wl, tpl, obj, pc, frame >> /\ w \notin queue
  BY DEF DeliverCluster, Quiet, Pending
<1>2. Synced(wl[w]) /\ Live(wl[w]) # None /\ Cached(wl[w]) = Live(wl[w])
  BY <1>1 DEF Quiet, Reconcilable, Pending, Synced, Cached, Live
<1>3. Live(wl[w]).spec.label = Live(wl[w]).spec.owner
  BY <1>1 DEF Quiet, Reconcilable
<1>4. Live(wl[w]).spec.owner # c
  BY <1>1, <1>2, <1>3 DEF DeliverCluster, clusterToWorkloads, Quiet, Pending
<1>5. cls'[Live(wl[w]).spec.owner] = cls[Live(wl[w]).spec.owner]
  BY <1>4 DEF DeliverCluster, TypeOK, ApiOK
<1>6. Quiet(w) /\ SameStored(w)
  BY <1>1, <1>5 DEF Quiet, Reconcilable, Pending, Woken, SameStored, clusterOf, templateOf
<1>. QED  BY <1>1, <1>6, SoundElsewhere

\* An event on its way is delivered next or stays on its way.
LEMMA WokenShift ==
  ASSUME TypeOK, NEW o \in Workloads \X Names, ~Synced(obj[o]),
         obj'[o] = Delivered(obj[o]), Woken(o)
  PROVE  \/ Marked(Cached(obj[o])) \/ Marked(Cached(obj[o])')
         \/ Woken(o)'
<1>. DEFINE s == obj[o]
<1>1. s \in Seq(Object \cup {None}) /\ s # << >> /\ Len(s) \in Nat
  BY DEF TypeOK, ApiOK, Stream
<1>2. /\ Len(Tail(s)) = Len(s) - 1
      /\ \A i \in 1..(Len(s) - 1) : Tail(s)[i] = s[i + 1]
  BY <1>1, HeadTailProperties
<1>3. PICK i \in 1..(Len(s) - 1) : Marked(s[i]) \/ Marked(s[i + 1])
  BY DEF Woken
<1>4. CASE i = 1
  <2>1. Cached(obj[o]) = s[1] /\ Cached(obj[o])' = Tail(s)[1]
    BY DEF Cached, Delivered
  <2>. QED  BY <1>2, <1>3, <1>4, <2>1
<1>5. CASE i # 1
  <2>. \A n \in Nat : \A j \in 1..(n - 1) : j # 1 =>
         /\ j - 1 \in 1..(n - 1) /\ (j - 1) + 1 = j
         /\ j - 1 \in 1..((n - 1) - 1)
    OBVIOUS
  <2>1. i - 1 \in 1..((Len(s) - 1) - 1) /\ i - 1 \in 1..(Len(s) - 1) /\ (i - 1) + 1 = i
    BY <1>1, <1>5
  <2>2. Tail(s)[i - 1] = s[i] /\ Tail(s)[(i - 1) + 1] = s[i + 1]
    BY <1>2, <2>1
  <2>3. /\ i - 1 \in 1..(Len(obj'[o]) - 1)
        /\ Marked(obj'[o][i - 1]) \/ Marked(obj'[o][(i - 1) + 1])
    BY <1>2, <1>3, <2>1, <2>2 DEF Delivered
  <2>. QED  BY <2>3 DEF Woken, Marked
<1>. QED  BY <1>4, <1>5

\* So does an event of an object of w that Owns maps to w.
LEMMA DeliverObjectSound ==
  ASSUME TypeOK, NoLostWakeUp, NEW o \in Workloads \X Names, DeliverObject(o),
         NEW w \in Workloads, Quiet(w)'
  PROVE  Sound(w)'
<1>1. UNCHANGED << wl, tpl, cls, pc, frame >> /\ w \notin queue
  BY DEF DeliverObject, Quiet, Pending
<1>2. obj'[o] = Delivered(obj[o]) /\ \A q \in Workloads \X Names : q # o => obj'[q] = obj[q]
  BY DEF DeliverObject, TypeOK, ApiOK
<1>3. \A q \in Workloads \X Names : Live(obj'[q]) = Live(obj[q])
  BY <1>2, StreamDelivered DEF DeliverObject, TypeOK, ApiOK
<1>4. ASSUME NEW n \in Names, Woken(<< w, n >>) PROVE FALSE
  <2>1. CASE << w, n >> # o
    BY <1>2, <1>4, <2>1 DEF Quiet, Pending, Woken
  <2>2. CASE << w, n >> = o
    <3>1. ~Woken(o)'
      BY <2>2 DEF Quiet, Pending
    <3>2. Marked(Cached(obj[o])) \/ Marked(Cached(obj'[o]))
      BY <1>2, <1>4, <2>2, <3>1, WokenShift DEF DeliverObject
    <3>3. w \in ownerOf(o, Cached(obj[o]), Cached(obj'[o]))
      BY <2>2, <3>2 DEF ownerOf, Marked
    <3>. QED  BY <3>3 DEF DeliverObject, Quiet, Pending
  <2>. QED  BY <2>1, <2>2
<1>5. Quiet(w)
  BY <1>1, <1>4 DEF Quiet, Reconcilable, Pending
<1>6. SameStored(w)
  BY <1>1, <1>3 DEF SameStored, clusterOf, templateOf
<1>. QED  BY <1>1, <1>5, <1>6, SoundElsewhere

\* A step of a pass over another workload.
LEMMA SoundOther ==
  ASSUME TypeOK, NoLostWakeUp, NEW w \in Workloads, Quiet(w), SameStored(w),
         cur # w, cur' # w
  PROVE  Sound(w)'
BY SoundStable DEF NoLostWakeUp, Quiet, Sound

\* A step that writes nothing leaves what is stored and the events alone.
LEMMA NothingWritten ==
  ASSUME NEW w \in Workloads, UNCHANGED << api, queue >>, Quiet(w)'
  PROVE  Quiet(w) /\ SameStored(w)
<1>. UNCHANGED << wl, tpl, cls, obj, queue >>
  BY DEF api
<1>. QED
  BY DEF Quiet, Reconcilable, Pending, Woken, SameStored, clusterOf, templateOf

\* A pass starts from what is stored, or else another one is due.
LEMMA StartSound ==
  ASSUME TypeOK, NoLostWakeUp, NEW x \in Workloads,
         ReconcileGone(x) \/ ReconcileStart(x), NEW w \in Workloads, Quiet(w)'
  PROVE  Sound(w)'
<1>1. /\ pc = "idle" /\ cur = None /\ queue' = queue \ {x}
      /\ UNCHANGED << wl, tpl, cls, obj >>
  BY DEF ReconcileGone, ReconcileStart, api, TypeOK, FrameOK
<1>2. Live(wl[w]) # None /\ ~Live(wl[w]).deleting /\ Cached(wl[w]) = Live(wl[w])
  BY <1>1 DEF Quiet, Reconcilable, Pending, Synced, Cached, Live
<1>3. CASE w # x
  <2>1. Quiet(w) /\ SameStored(w)
    BY <1>1, <1>3
       DEF Quiet, Reconcilable, Pending, Woken, SameStored, clusterOf, templateOf
  <2>2. cur' # w /\ cur # w
    BY <1>1, <1>3, NoneIsNoValue DEF ReconcileGone, ReconcileStart, frame
  <2>. QED  BY <2>1, <2>2, SoundOther
<1>4. CASE w = x /\ ReconcileStart(w)
  <2>1. cur' = w /\ seen' = Live(wl'[w]) /\ pc' = "cluster"
    BY <1>1, <1>2, <1>4 DEF ReconcileStart, Goto
  <2>. QED  BY <2>1 DEF Sound, PassCurrent
<1>5. CASE w = x /\ ReconcileGone(w)
  BY <1>2, <1>5 DEF ReconcileGone
<1>. QED  BY <1>3, <1>4, <1>5

\* The cluster and the template of a quiet workload are read as stored.
LEMMA ReadSound ==
  ASSUME TypeOK, NoLostWakeUp, GetOwnerCluster \/ EvaluateTemplate,
         NEW w \in Workloads, Quiet(w)'
  PROVE  Sound(w)'
<1>1. UNCHANGED << api, queue, cur, seen >>
  BY DEF GetOwnerCluster, EvaluateTemplate
<1>2. Quiet(w) /\ SameStored(w)
  BY <1>1, NothingWritten
<1>3. CASE cur # w
  BY <1>1, <1>2, <1>3, SoundOther
<1>4. CASE cur = w
  <2>1. PassCurrent(w) /\ seen = Live(wl[w]) /\ seen' = Live(wl'[w])
    BY <1>1, <1>2, <1>4 DEF NoLostWakeUp, Quiet, PassCurrent, SameStored
  <2>2. /\ seen.spec.owner # None /\ seen.spec.ref # None
        /\ Cached(cls[seen.spec.owner]) = clusterOf(w)
        /\ Cached(tpl[seen.spec.ref]) = templateOf(w)
    BY <1>2, <2>1, QuietParts DEF Quiet, Reconcilable
  <2>3. CASE GetOwnerCluster
    <3>1. CASE clusterOf(w) = None
      <4>1. pc' = "patch" /\ err' = TRUE
        BY <2>2, <2>3, <3>1 DEF GetOwnerCluster, Goto
      <4>2. PassCurrent(w)'
        BY <2>1, <4>1 DEF PassCurrent
      <4>. QED  BY <1>1, <1>4, <4>2 DEF Sound
    <3>2. CASE clusterOf(w) # None
      <4>1. pc' = "template" /\ clu' = clusterOf(w)'
        BY <1>2, <2>2, <2>3, <3>2 DEF GetOwnerCluster, Goto, SameStored
      <4>2. PassCurrent(w)'
        BY <2>1, <4>1 DEF PassCurrent
      <4>. QED  BY <1>1, <1>4, <4>2 DEF Sound
    <3>. QED  BY <3>1, <3>2
  <2>4. CASE EvaluateTemplate
    <3>1. clu = clusterOf(w) /\ clu # None /\ idx' = 1
      BY <2>1, <2>4 DEF EvaluateTemplate, PassCurrent, TypeOK, FrameOK
    <3>2. /\ Evaluate(Cached(tpl[seen.spec.ref]), seen.spec, clu) = verdictOf(w)
          /\ Render(Cached(tpl[seen.spec.ref]), seen.spec, clu) = renderOf(w)
      BY <2>1, <2>2, <3>1 DEF verdictOf, renderOf
    <3>3. clusterOf(w)' # None
      BY <1>2, <3>1 DEF SameStored
    <3>4. CASE verdictOf(w) = "ok"
      <4>1. pc' = "field" /\ rend' = renderOf(w)' /\ verdictOf(w)' = "ok"
        BY <1>2, <2>4, <3>2, <3>4, RenderStable DEF EvaluateTemplate, Goto
      <4>2. PassCurrent(w)'
        BY <2>1, <3>1, <3>3, <4>1 DEF PassCurrent
      <4>. QED  BY <1>1, <1>4, <4>2 DEF Sound
    <3>5. CASE verdictOf(w) # "ok"
      <4>1. pc' = "listKustomizations" /\ cond'.tmpl = verdictOf(w)'
            /\ verdictOf(w)' # "ok"
        BY <1>2, <2>4, <3>2, <3>5, RenderStable
           DEF EvaluateTemplate, MarkFalse, Goto, Conditions, TypeOK, FrameOK
      <4>2. PassCurrent(w)'
        BY <2>1, <3>3, <4>1 DEF PassCurrent, Faithful
      <4>. QED  BY <1>1, <1>4, <4>2 DEF Sound
    <3>. QED  BY <3>4, <3>5
  <2>. QED  BY <2>3, <2>4
<1>. QED  BY <1>3, <1>4

\* In the loop the pass is at a field of the stored template.
LEMMA AtField ==
  ASSUME TypeOK, NoLostWakeUp, NEW w \in Workloads, Quiet(w), cur = w,
         pc \in {"field", "write"}
  PROVE  /\ PassCurrent(w) /\ seen = Live(wl[w]) /\ clusterOf(w) # None
         /\ verdictOf(w) = "ok" /\ rend = renderOf(w)
         /\ Fields[rend.source] = fieldsOf(w)
         /\ fieldsOf(w) \in Seq(Field) /\ Len(fieldsOf(w)) \in Nat
         /\ idx \in Nat \ {0}
         /\ field = fieldsOf(w)[idx]
         /\ \A i \in 1..(idx - 1) : /\ i \in 1..Len(fieldsOf(w))
                                    /\ fieldsOf(w)[i].check = "ok"
                                    /\ InSyncField(w, i)
<1>1. PassCurrent(w)
  BY DEF NoLostWakeUp, Quiet
<1>2. /\ seen = Live(wl[w]) /\ clusterOf(w) # None
      /\ verdictOf(w) = "ok" /\ rend = renderOf(w)
      /\ \A i \in 1..(idx - 1) : /\ i <= Len(fieldsOf(w))
                                 /\ fieldsOf(w)[i].check = "ok"
                                 /\ InSyncField(w, i)
  BY <1>1 DEF PassCurrent
<1>3. templateOf(w) \in Template
  BY <1>2, VerdictOk DEF Quiet
<1>4. Fields[rend.source] = fieldsOf(w) /\ field = fieldsOf(w)[idx]
  BY <1>2 DEF renderOf, Render, fieldsOf, field
<1>5. fieldsOf(w) \in Seq(Field)
  BY <1>3, ConstantsTyped DEF fieldsOf, Template
<1>6. Len(fieldsOf(w)) \in Nat
  BY <1>5
<1>7. idx \in Nat \ {0}
  BY DEF TypeOK, FrameOK
<1>8. \A i \in 1..(idx - 1) : i \in 1..Len(fieldsOf(w))
  BY <1>2, <1>6, <1>7
<1>. QED  BY <1>1, <1>2, <1>4, <1>5, <1>6, <1>7, <1>8

\* The loop ends in a condition that says what has been done.
LEMMA FieldSound ==
  ASSUME TypeOK, NoLostWakeUp, MarkTrue \/ RejectField \/ GetObject,
         NEW w \in Workloads, Quiet(w)'
  PROVE  Sound(w)'
<1>1. pc = "field" /\ UNCHANGED << api, queue, cur, seen, rend, idx, clu, err >>
  BY DEF MarkTrue, RejectField, GetObject
<1>2. Quiet(w) /\ SameStored(w)
  BY <1>1, NothingWritten
<1>3. CASE cur # w
  BY <1>1, <1>2, <1>3, SoundOther
<1>4. CASE cur = w
  <2>1. seen' = Live(wl[w])' /\ clusterOf(w)' # None
    BY <1>1, <1>2, <1>4, AtField DEF SameStored
  <2>2. /\ clusterOf(w) # None /\ verdictOf(w) = "ok" /\ rend = renderOf(w)
        /\ Fields[rend.source] = fieldsOf(w)
        /\ Len(fieldsOf(w)) \in Nat /\ idx \in Nat \ {0}
        /\ field = fieldsOf(w)[idx]
        /\ \A i \in 1..(idx - 1) : /\ i \in 1..Len(fieldsOf(w))
                                   /\ fieldsOf(w)[i].check = "ok"
                                   /\ InSyncField(w, i)
    BY <1>1, <1>2, <1>4, AtField
  <2>3. ASSUME NEW k, cond'.tmpl = k, Faithful(w, k), pc' = "listKustomizations"
        PROVE  Sound(w)'
    <3>1. Faithful(w, k)'
      BY <1>2, <2>2, <2>3, FaithfulStable DEF Quiet
    <3>2. Faithful(w, cond.tmpl)'
      BY <2>3, <3>1 DEF Faithful
    <3>3. PassCurrent(w)'
      BY <2>1, <2>3, <3>2 DEF PassCurrent
    <3>. QED  BY <1>1, <1>4, <3>3 DEF Sound
  <2>4. CASE MarkTrue
    <3>1. \A i \in 1..Len(fieldsOf(w)) : i \in 1..(idx - 1)
      BY <2>2, <2>4 DEF MarkTrue
    <3>2. Faithful(w, "Ready")
      BY <2>2, <3>1 DEF Faithful, FieldsReport
    <3>3. cond'.tmpl = "Ready" /\ pc' = "listKustomizations"
      BY <2>4 DEF MarkTrue, Goto, Conditions, TypeOK, FrameOK
    <3>. QED  BY <2>3, <3>2, <3>3
  <2>5. CASE RejectField
    <3>1. idx \in 1..Len(fieldsOf(w)) /\ field.check \in FieldFailures
      BY <2>2, <2>5 DEF RejectField
    <3>2. field.check # "ok" /\ field.check # "Ready"
      BY <3>1 DEF FieldFailures
    <3>3. FieldsReport(fieldsOf(w), field.check)
      BY <2>2, <3>1, <3>2 DEF FieldsReport
    <3>4. Faithful(w, field.check)
      BY <2>2, <3>2, <3>3 DEF Faithful
    <3>5. cond'.tmpl = field.check /\ pc' = "listKustomizations"
      BY <2>5 DEF RejectField, MarkFalse, Goto, Conditions, TypeOK, FrameOK
    <3>6. PICK k : k = field.check
      OBVIOUS
    <3>. QED  BY <2>3, <3>4, <3>5, <3>6
  <2>6. CASE GetObject
    <3>1. /\ pc' = "write" /\ got' = Live(obj'[target']) /\ field' = field
          /\ field.check \notin FieldFailures
      BY <1>1, <2>6 DEF GetObject, Goto, api, field, target
    <3>2. /\ verdictOf(w)' = "ok" /\ rend' = renderOf(w)' /\ fieldsOf(w)' = fieldsOf(w)
      BY <1>1, <1>2, <2>2, RenderStable
    <3>3. \A i \in 1..(idx' - 1) : /\ i <= Len(fieldsOf(w)') /\ fieldsOf(w)'[i].check = "ok"
                                  /\ InSyncField(w, i)'
      BY <1>1, <1>2, <2>2, <3>2, InSyncStable DEF Quiet
    <3>4. PassCurrent(w)'
      BY <2>1, <3>1, <3>2, <3>3 DEF PassCurrent
    <3>. QED  BY <1>1, <1>4, <3>4 DEF Sound
  <2>. QED  BY <2>4, <2>5, <2>6
<1>. QED  BY <1>3, <1>4

\* A write from or to a version with an owner reference leaves an event, and
\* any write leaves the events on their way.
LEMMA CommitWakes ==
  ASSUME TypeOK, NEW o \in Workloads \X Names, NEW v \in Object \cup {None},
         KindOf[o[2]] \in OwnedKinds, obj'[o] = Commit(obj[o], v),
         Woken(o) \/ Marked(Live(obj[o])) \/ Marked(v)
  PROVE  Woken(o)'
<1>. DEFINE s == obj[o]
<1>1. s \in Seq(Object \cup {None}) /\ s # << >> /\ Len(s) \in Nat
  BY DEF TypeOK, ApiOK, Stream
<1>2. Len(s) # 0
  BY <1>1, EmptySeq
<1>3. /\ Len(Append(s, v)) = Len(s) + 1
      /\ Append(s, v)[Len(s)] = s[Len(s)]
      /\ Append(s, v)[Len(s) + 1] = v
  BY <1>1, <1>2, AppendProperties
<1>4. CASE Woken(o)
  <2>1. PICK i \in 1..(Len(s) - 1) : Marked(s[i]) \/ Marked(s[i + 1])
    BY <1>4 DEF Woken
  <2>. \A n \in Nat : \A j \in 1..(n - 1) :
         j \in 1..n /\ j + 1 \in 1..n /\ j \in 1..((n + 1) - 1)
    OBVIOUS
  <2>2. i \in 1..Len(s) /\ i + 1 \in 1..Len(s) /\ i \in 1..((Len(s) + 1) - 1)
    BY <1>1
  <2>3. Append(s, v)[i] = s[i] /\ Append(s, v)[i + 1] = s[i + 1]
    BY <1>1, <2>2, AppendProperties
  <2>4. i \in 1..(Len(obj'[o]) - 1) /\ (Marked(obj'[o][i]) \/ Marked(obj'[o][i + 1]))
    BY <1>3, <2>1, <2>2, <2>3 DEF Commit
  <2>. QED  BY <2>4 DEF Woken, Marked
<1>5. CASE Marked(Live(obj[o])) \/ Marked(v)
  <2>. \A n \in Nat : n # 0 => n \in 1..((n + 1) - 1)
    OBVIOUS
  <2>1. Len(s) \in 1..(Len(obj'[o]) - 1)
    BY <1>1, <1>2, <1>3 DEF Commit
  <2>2. Marked(obj'[o][Len(s)]) \/ Marked(obj'[o][Len(s) + 1])
    BY <1>3, <1>5 DEF Commit, Live
  <2>. QED  BY <2>1, <2>2 DEF Woken, Marked
<1>. QED  BY <1>4, <1>5

\* A write that fails leaves a condition that says so.
LEMMA FailedSound ==
  ASSUME TypeOK, NoLostWakeUp, pc = "write", NEW e \in WriteFailures,
         ReconcileFailed(e), UNCHANGED << wl, tpl, cls, queue, cur, seen, rend, err >>,
         NEW w \in Workloads, Quiet(w)'
  PROVE  Sound(w)'
<1>1. UNCHANGED << api, queue >>
  BY DEF ReconcileFailed, api
<1>2. Quiet(w) /\ SameStored(w)
  BY <1>1, NothingWritten
<1>3. CASE cur # w
  BY <1>2, <1>3, SoundOther
<1>4. CASE cur = w
  <2>1. seen' = Live(wl[w])' /\ clusterOf(w)' # None /\ verdictOf(w)' = "ok"
    BY <1>2, <1>4, AtField, RenderStable DEF SameStored
  <2>2. cond'.tmpl = e /\ pc' = "listKustomizations" /\ e # "Ready"
    BY ConstantsTyped DEF ReconcileFailed, MarkFalse, Goto, Conditions,
                          WriteFailures, TypeOK, FrameOK
  <2>3. Faithful(w, cond.tmpl)'
    BY <2>1, <2>2 DEF Faithful, WriteFailures
  <2>4. PassCurrent(w)'
    BY <2>1, <2>2, <2>3 DEF PassCurrent
  <2>. QED  BY <1>4, <2>4 DEF Sound
<1>. QED  BY <1>3, <1>4

\* The step to the next field once the object of this one is in place.
LEMMA NextFieldSound ==
  ASSUME TypeOK, NoLostWakeUp, pc = "write", NextField, field.check = "ok",
         UNCHANGED << wl, tpl, cls, queue, cur, seen, rend, err >>,
         NEW w \in Workloads, cur = w, Quiet(w),
         \A n \in Names : n # field.name => Live(obj'[<< w, n >>]) = Live(obj[<< w, n >>]),
         Tracked(field) => /\ Live(obj'[target]) # None
                           /\ Live(obj'[target]).meta = seen.spec.owner
                           /\ field.hasSpec => Live(obj'[target]).spec = rend
  PROVE  Sound(w)'
<1>1. /\ PassCurrent(w) /\ seen = Live(wl[w]) /\ clusterOf(w) # None
      /\ verdictOf(w) = "ok" /\ rend = renderOf(w)
      /\ Fields[rend.source] = fieldsOf(w)
      /\ fieldsOf(w) \in Seq(Field) /\ Len(fieldsOf(w)) \in Nat
      /\ idx \in Nat \ {0} /\ field = fieldsOf(w)[idx]
      /\ \A i \in 1..(idx - 1) : /\ i \in 1..Len(fieldsOf(w))
                                 /\ fieldsOf(w)[i].check = "ok"
                                 /\ InSyncField(w, i)
  BY AtField
<1>2. idx \in 1..Len(fieldsOf(w))
  BY <1>1, AtWrite
<1>3. /\ clusterOf(w)' = clusterOf(w) /\ verdictOf(w)' = verdictOf(w)
      /\ renderOf(w)' = renderOf(w) /\ fieldsOf(w)' = fieldsOf(w)
      /\ Live(wl[w])' = Live(wl[w])
  BY DEF clusterOf, templateOf, verdictOf, renderOf, fieldsOf
<1>4. templateOf(w) \in Template /\ rend.source \in Sources
  BY <1>1, VerdictOk, AtWrite DEF Quiet, Rendered
<1>5. ASSUME NEW i \in 1..(idx - 1)
      PROVE  InSyncField(w, i)'
  <2>1. i \in 1..Len(fieldsOf(w)) /\ i # idx
    BY <1>1, <1>5
  <2>2. fieldsOf(w)[i].name # field.name
    BY <1>1, <1>2, <1>4, <2>1, ConstantsTyped
  <2>3. fieldsOf(w)[i].name \in Names
    BY <1>4, <2>1, FieldName
  <2>4. Live(obj'[<< w, fieldsOf(w)[i].name >>]) = Live(obj[<< w, fieldsOf(w)[i].name >>])
    BY <2>2, <2>3
  <2>. QED  BY <1>1, <1>3, <2>4 DEF InSyncField, InSync, Tracked
<1>6. PICK j \in 1..Len(fieldsOf(w)) : j = idx
  BY <1>2
<1>7. InSyncField(w, j)'
  <2>1. field = fieldsOf(w)'[j] /\ target = << w, fieldsOf(w)'[j].name >>
    BY <1>1, <1>3, <1>6 DEF target
  <2>2. rend = renderOf(w)' /\ seen.spec.owner = Live(wl[w])'.spec.owner
    BY <1>1, <1>3
  <2>. QED  BY <2>1, <2>2 DEF InSyncField, InSync, Tracked
<1>8. pc' = "field" /\ idx' = idx + 1
  BY DEF NextField, Goto
<1>9. ASSUME NEW i \in 1..(idx' - 1)
      PROVE  /\ i <= Len(fieldsOf(w)') /\ fieldsOf(w)'[i].check = "ok"
             /\ InSyncField(w, i)'
  <2>1. i \in 1..(idx - 1) \/ i = j
    BY <1>1, <1>6, <1>8, <1>9
  <2>2. CASE i = j
    BY <1>1, <1>2, <1>3, <1>6, <1>7, <2>2
  <2>3. CASE i \in 1..(idx - 1)
    BY <1>1, <1>3, <1>5, <2>3
  <2>. QED  BY <2>1, <2>2, <2>3
<1>10. PassCurrent(w)'
  BY <1>1, <1>3, <1>8, <1>9 DEF PassCurrent
<1>. QED  BY <1>10 DEF Sound

\* A write to an object keeps the events for the workload of the object.
LEMMA StoreQuiet ==
  ASSUME TypeOK, NEW o \in Workloads \X Names, NEW v \in Object \cup {None},
         obj' = [obj EXCEPT ![o] = Stored(o, v)], UNCHANGED << wl, tpl, cls, queue >>,
         NEW w \in Workloads, Quiet(w)'
  PROVE  /\ Quiet(w)
         /\ \A q \in Workloads \X Names : q # o => Live(obj'[q]) = Live(obj[q])
         /\ Live(obj'[o]) = v
         /\ o[1] = w /\ KindOf[o[2]] \in OwnedKinds =>
              ~Marked(Live(obj[o])) /\ ~Marked(v)
<1>1. /\ obj'[o] = Stored(o, v)
      /\ \A q \in Workloads \X Names : q # o => obj'[q] = obj[q]
  BY DEF TypeOK, ApiOK
<1>2. Live(obj'[o]) = v
  BY <1>1, StoredType DEF TypeOK
<1>3. ASSUME NEW n \in Names, << w, n >> = o, KindOf[n] \in OwnedKinds
      PROVE  ~Woken(o) /\ ~Marked(Live(obj[o])) /\ ~Marked(v)
  <2>1. obj'[o] = Commit(obj[o], v) /\ KindOf[o[2]] \in OwnedKinds
    BY <1>1, <1>3 DEF Stored
  <2>2. ~Woken(o)'
    BY <1>3 DEF Quiet, Pending
  <2>. QED  BY <2>1, <2>2, CommitWakes
<1>4. ASSUME NEW n \in Names PROVE ~Woken(<< w, n >>)
  <2>1. CASE << w, n >> = o
    BY <1>3, <2>1 DEF Woken
  <2>2. CASE << w, n >> # o
    BY <1>1, <2>2 DEF Quiet, Pending, Woken
  <2>. QED  BY <2>1, <2>2
<1>5. Quiet(w)
  BY <1>4 DEF Quiet, Reconcilable, Pending
<1>6. o[1] = w /\ KindOf[o[2]] \in OwnedKinds => ~Marked(Live(obj[o])) /\ ~Marked(v)
  <2>1. o = << o[1], o[2] >> /\ o[2] \in Names
    OBVIOUS
  <2>. QED  BY <1>3, <2>1
<1>. QED  BY <1>1, <1>2, <1>5, <1>6

\* A write whose answer is lost is reported as a failure.
LEMMA UnansweredSound ==
  ASSUME TypeOK, NoLostWakeUp, pc = "write", NEW e \in WriteFailures,
         Create \/ Patch, MarkFalse(e),
         UNCHANGED << wl, tpl, cls, queue, cur, seen, rend, err >>,
         NEW w \in Workloads, Quiet(w)'
  PROVE  Sound(w)'
<1>1. target \in Workloads \X Names /\ target = << cur, field.name >>
  BY AtWrite DEF target
<1>2. PICK v \in Object : obj' = [obj EXCEPT ![target] = Stored(target, v)]
  BY Written
<1>3. /\ Quiet(w)
      /\ \A q \in Workloads \X Names : q # target => Live(obj'[q]) = Live(obj[q])
  <2>1. v \in Object \cup {None} /\ UNCHANGED << wl, tpl, cls, queue >>
    OBVIOUS
  <2>. QED  BY <1>1, <1>2, <2>1, StoreQuiet
<1>4. CASE cur # w
  <2>1. SameStored(w)
    BY <1>1, <1>3, <1>4 DEF SameStored, clusterOf, templateOf
  <2>. QED  BY <1>3, <1>4, <2>1, SoundOther
<1>5. CASE cur = w
  <2>1. /\ seen = Live(wl[w]) /\ clusterOf(w) # None /\ verdictOf(w) = "ok"
    BY <1>3, <1>5, AtField
  <2>2. seen' = Live(wl[w])' /\ clusterOf(w)' # None /\ verdictOf(w)' = "ok"
    BY <2>1 DEF verdictOf, clusterOf, templateOf
  <2>3. cond'.tmpl = e /\ pc' = "listKustomizations" /\ e # "Ready"
    BY ConstantsTyped DEF MarkFalse, Goto, Conditions, WriteFailures, TypeOK, FrameOK
  <2>4. Faithful(w, cond.tmpl)'
    BY <2>2, <2>3 DEF Faithful, WriteFailures
  <2>5. PassCurrent(w)'
    BY <2>2, <2>3, <2>4 DEF PassCurrent
  <2>. QED  BY <1>5, <2>5 DEF Sound
<1>. QED  BY <1>4, <1>5

\* CreateOrPatch puts the object in place, leaves an event, or fails.
LEMMA WriteSound ==
  ASSUME TypeOK, NoLostWakeUp, WriteObject, NEW w \in Workloads, Quiet(w)'
  PROVE  Sound(w)'
<1>1. /\ pc = "write"
      /\ UNCHANGED << wl, tpl, cls, queue, cur, seen, clu, rend, err >>
  BY DEF WriteObject
<1>2. CASE \E e \in WriteFailures : ReconcileFailed(e)
  BY <1>1, <1>2, FailedSound
<1>3. CASE NextField /\ UNCHANGED obj /\ got # None /\ Mutated = got /\ field.check = "ok"
  <2>1. Quiet(w) /\ SameStored(w)
    BY <1>1, <1>3, NothingWritten DEF api
  <2>2. CASE cur # w
    BY <1>1, <2>1, <2>2, SoundOther
  <2>3. CASE cur = w
    <3>1. PassCurrent(w) /\ seen = Live(wl[w]) /\ seen.spec.owner # None
      BY <1>1, <2>1, <2>3, AtField DEF Quiet, Reconcilable
    <3>2. got \in Object
      BY <1>3 DEF TypeOK, FrameOK
    <3>3. got.meta = seen.spec.owner /\ (field.hasSpec => got.spec = rend)
      BY <1>3, <3>2 DEF Mutated, Object
    <3>4. Tracked(field) => Live(obj'[target]) = got
      BY <1>1, <1>3, <3>1, <3>3 DEF PassCurrent, Marked
    <3>. QED
      BY <1>1, <1>3, <2>1, <2>3, <3>3, <3>4, NextFieldSound
  <2>. QED  BY <2>2, <2>3
<1>4. ASSUME NEW v \in Object, obj' = [obj EXCEPT ![target] = Stored(target, v)],
             NextField, field.check = "ok",
             cur = w /\ Quiet(w) =>
               /\ KindOf[field.name] \in OwnedKinds =>
                    Marked(v) \/ Marked(Live(obj[target]))
               /\ KindOf[field.name] \notin OwnedKinds /\ Tracked(field) =>
                    v.meta = seen.spec.owner /\ (field.hasSpec => v.spec = rend)
      PROVE  Sound(w)'
  <2>1. target \in Workloads \X Names /\ target = << cur, field.name >>
    BY <1>1, AtWrite DEF target
  <2>2. /\ Quiet(w)
        /\ \A q \in Workloads \X Names : q # target => Live(obj'[q]) = Live(obj[q])
        /\ Live(obj'[target]) = v
        /\ cur = w /\ KindOf[field.name] \in OwnedKinds =>
              ~Marked(Live(obj[target])) /\ ~Marked(v)
    <3>1. /\ target \in Workloads \X Names /\ v \in Object \cup {None}
          /\ obj' = [obj EXCEPT ![target] = Stored(target, v)]
          /\ UNCHANGED << wl, tpl, cls, queue >>
      BY <1>1, <1>4, <2>1
    <3>2. /\ Quiet(w)
          /\ \A q \in Workloads \X Names : q # target => Live(obj'[q]) = Live(obj[q])
          /\ Live(obj'[target]) = v
          /\ target[1] = w /\ KindOf[target[2]] \in OwnedKinds =>
                ~Marked(Live(obj[target])) /\ ~Marked(v)
      BY <3>1, StoreQuiet
    <3>3. target[1] = cur /\ target[2] = field.name
      BY <2>1
    <3>. QED  BY <3>2, <3>3
  <2>3. CASE cur # w
    <3>1. SameStored(w)
      BY <1>1, <2>1, <2>2, <2>3 DEF SameStored, clusterOf, templateOf
    <3>. QED  BY <1>1, <2>2, <2>3, <3>1, SoundOther
  <2>4. CASE cur = w
    <3>1. KindOf[field.name] \notin OwnedKinds
      BY <1>4, <2>2, <2>4
    <3>2. v # None
      BY NoneIsNoValue
    <3>3. \A n \in Names : n # field.name => Live(obj'[<< w, n >>]) = Live(obj[<< w, n >>])
      BY <2>1, <2>2, <2>4
    <3>. QED  BY <1>1, <1>4, <2>2, <2>4, <3>1, <3>2, <3>3, NextFieldSound
  <2>. QED  BY <2>3, <2>4
<1>5. CASE CreateObject /\ field.check = "ok"
  <2>1. CASE Live(obj[target]) = None
    <3>1. obj' = [obj EXCEPT ![target] = Stored(target, Decoded)] /\ NextField
      BY <1>5, <2>1 DEF CreateObject, Create
    <3>2. Decoded \in Object
      BY <1>1, WrittenType
    <3>3. cur = w /\ Quiet(w) => seen.spec.owner # None
      BY <1>1, AtField DEF Quiet, Reconcilable
    <3>4. Decoded.meta = seen.spec.owner /\ (field.hasSpec => Decoded.spec = rend)
      BY DEF Decoded
    <3>5. Decoded # None
      BY <3>2, NoneIsNoValue
    <3>. QED  BY <1>4, <1>5, <3>1, <3>2, <3>3, <3>4, <3>5 DEF Marked
  <2>2. CASE Live(obj[target]) # None
    BY <1>2, <1>5, <2>2 DEF CreateObject, Create, WriteFailures
  <2>. QED  BY <2>1, <2>2
<1>6. CASE PatchObject /\ field.check = "ok"
  <2>1. CASE Mutated = got
    BY <1>3, <1>6, <2>1 DEF PatchObject, Patch
  <2>2. CASE Mutated # got /\ Live(obj[target]) = None
    BY <1>2, <1>6, <2>2 DEF PatchObject, Patch, WriteFailures
  <2>3. CASE Mutated # got /\ Live(obj[target]) # None
    <3>. DEFINE live == Live(obj[target])
    <3>1. got \in Object /\ live \in Object
      BY <1>1, <1>6, <2>3, AtWrite DEF PatchObject, Patch, TypeOK, FrameOK
    <3>2. PICK v \in MergePatches(live, got, Mutated) :
            obj' = [obj EXCEPT ![target] = Stored(target, v)] /\ NextField
      BY <1>6, <2>3 DEF PatchObject, Patch
    <3>3. v \in Object /\ v # None /\ got # None
      BY <1>1, <3>1, <3>2, WrittenType, NoneIsNoValue
    <3>4. /\ Mutated.meta = seen.spec.owner
          /\ field.hasSpec => Mutated.spec = rend
          /\ ~field.hasSpec => Mutated.spec = got.spec
      BY <3>1 DEF Mutated, Object
    <3>5. /\ v.meta = Merge(live.meta, got.meta, Mutated.meta)
          /\ live.spec = got.spec => v.spec = Merge(live.spec, got.spec, Mutated.spec)
      BY <3>1, <3>2 DEF MergePatches, Object
    <3>6. ASSUME cur = w, Quiet(w)
          PROVE  /\ KindOf[field.name] \in OwnedKinds =>
                      Marked(v) \/ Marked(live)
                 /\ KindOf[field.name] \notin OwnedKinds /\ Tracked(field) =>
                      v.meta = seen.spec.owner /\ (field.hasSpec => v.spec = rend)
      <4>1. PassCurrent(w) /\ seen.spec.owner # None
        BY <1>1, <3>6, AtField DEF Quiet, Reconcilable
      <4>2. Tracked(field) => \/ live = got
                              \/ KindOf[field.name] \in OwnedKinds /\ ~Marked(got)
        BY <1>1, <4>1 DEF PassCurrent
      <4>3. CASE KindOf[field.name] \in OwnedKinds
        <5>1. CASE got.meta = seen.spec.owner
          BY <3>3, <4>1, <4>2, <4>3, <5>1 DEF Tracked, Marked
        <5>2. CASE got.meta # seen.spec.owner
          BY <3>3, <3>4, <3>5, <4>1, <4>3, <5>2 DEF Merge, Marked
        <5>. QED  BY <4>3, <5>1, <5>2
      <4>4. CASE KindOf[field.name] \notin OwnedKinds
        BY <3>4, <3>5, <4>2, <4>4 DEF Merge
      <4>. QED  BY <4>3, <4>4
    <3>. QED  BY <1>4, <1>6, <3>2, <3>3, <3>6
  <2>. QED  BY <2>1, <2>2, <2>3
<1>7. CASE ReconcileFailed("MutateFailed")
  BY <1>2, <1>7 DEF WriteFailures
<1>. QED  BY <1>5, <1>6, <1>7 DEF WriteObject

\* The lists set the Reconciling condition only.
LEMMA ListSound ==
  ASSUME TypeOK, NoLostWakeUp, ListKustomizations \/ ListHelmReleases,
         NEW w \in Workloads, Quiet(w)'
  PROVE  Sound(w)'
<1>1. /\ pc \in {"listKustomizations", "listHelmReleases"}
      /\ pc' \in {"listHelmReleases", "patch"}
      /\ UNCHANGED << api, queue, cur, seen, err >>
  BY DEF ListKustomizations, ListHelmReleases, Goto
<1>2. Quiet(w) /\ SameStored(w)
  BY <1>1, NothingWritten
<1>3. CASE cur # w
  BY <1>1, <1>2, <1>3, SoundOther
<1>4. CASE cur = w
  <2>1. PassCurrent(w)
    BY <1>2, <1>4 DEF NoLostWakeUp, Quiet
  <2>2. PICK k : k = cond.tmpl
    OBVIOUS
  <2>3. cond'.tmpl = k
    BY <2>2 DEF ListKustomizations, ListHelmReleases, Conditions, TypeOK, FrameOK
  <2>4. ~err => clusterOf(w)' # None /\ Faithful(w, k)'
    BY <1>1, <1>2, <2>1, <2>2, FaithfulStable DEF PassCurrent, SameStored, Quiet
  <2>5. ~err => Faithful(w, cond.tmpl)'
    BY <2>3, <2>4 DEF Faithful
  <2>6. seen' = Live(wl[w])'
    BY <1>1, <1>2, <2>1 DEF PassCurrent, SameStored
  <2>7. PassCurrent(w)'
    BY <1>1, <2>4, <2>5, <2>6 DEF PassCurrent
  <2>. QED  BY <1>1, <1>4, <2>7 DEF Sound
<1>. QED  BY <1>3, <1>4

\* The pass ends with the conditions as they are stored, with an event that
\* starts another one, or with the key in the queue.
LEMMA PatchSound ==
  ASSUME TypeOK, NoLostWakeUp,
         PatchUnneeded \/ PatchStatus \/ PatchRefused \/ PatchFails,
         NEW w \in Workloads, Quiet(w)'
  PROVE  Sound(w)'
<1>1. /\ pc = "patch" /\ cur \in Workloads /\ cur' = None /\ seen \in Workload
      /\ queue \subseteq queue'
      /\ UNCHANGED << tpl, cls, obj >>
      /\ cur # w => wl'[w] = wl[w]
  BY Reads DEF PatchUnneeded, PatchStatus, StoreStatus, PatchRefused, PatchFails,
               Requeue, Return, api, TypeOK, ApiOK
<1>2. cur' # w
  BY <1>1, NoneIsNoValue
<1>3. CASE wl'[w] = wl[w] /\ cur # w
  <2>1. Quiet(w) /\ SameStored(w)
    BY <1>1, <1>3
       DEF Quiet, Reconcilable, Pending, Woken, SameStored, clusterOf, templateOf
  <2>. QED  BY <1>2, <1>3, <2>1, SoundOther
<1>4. CASE cur = w /\ (PatchRefused \/ PatchFails)
  <2>1. w \in queue'
    BY <1>4 DEF PatchRefused, PatchFails, Requeue
  <2>. QED  BY <2>1 DEF Quiet, Pending
<1>5. ASSUME cur = w, wl' = wl
      PROVE  Quiet(w) /\ SameStored(w) /\ PassCurrent(w) /\ seen = Live(wl[w])
  <2>1. Quiet(w) /\ SameStored(w)
    BY <1>1, <1>5
       DEF Quiet, Reconcilable, Pending, Woken, SameStored, clusterOf, templateOf
  <2>. QED  BY <1>5, <2>1 DEF NoLostWakeUp, Quiet, PassCurrent
<1>6. CASE cur = w /\ PatchUnneeded
  <2>1. wl' = wl /\ SetSummary(cond) = seen.cond
    BY <1>6 DEF PatchUnneeded, api
  <2>2. ~err
    BY <1>6 DEF PatchUnneeded, Requeue, Quiet, Pending
  <2>3. Quiet(w) /\ SameStored(w) /\ PassCurrent(w) /\ seen = Live(wl[w])
    BY <1>5, <1>6, <2>1
  <2>4. clusterOf(w) # None /\ Faithful(w, cond.tmpl)
    BY <1>1, <2>2, <2>3 DEF PassCurrent
  <2>5. PICK k : k = cond.tmpl
    OBVIOUS
  <2>6. k = Live(wl'[w]).cond.tmpl
    BY <2>1, <2>3, <2>5 DEF SetSummary, Conditions, TypeOK, FrameOK
  <2>7. Faithful(w, k)' /\ clusterOf(w)' # None
    BY <2>3, <2>4, <2>5, FaithfulStable DEF Quiet, SameStored
  <2>8. Truthful(w)'
    BY <2>6, <2>7 DEF Truthful
  <2>. QED  BY <1>2, <2>8 DEF Sound
<1>7. CASE cur = w /\ PatchStatus
  <2>. DEFINE latest == Cached(wl[w])
              after == SetSummary(cond)
              merged == [latest EXCEPT !.cond =
                           MergeConditions(latest.cond, seen.cond, after)]
  <2>1. /\ after # seen.cond /\ latest # None
        /\ wl' = IF merged = latest THEN wl
                 ELSE [wl EXCEPT ![w] = Commit(wl[w], merged)]
    BY <1>7 DEF PatchStatus, StoreStatus
  <2>2. latest \in Workload
    BY <2>1, Reads
  <2>3. CASE merged # latest
    <3>1. merged \in Workload
      BY <1>1, <2>2, WorkloadParts, ConditionsClosed DEF TypeOK, FrameOK
    <3>. HIDE DEF merged
    <3>2. wl'[w] = Commit(wl[w], merged)
      BY <2>1, <2>3 DEF TypeOK, ApiOK
    <3>3. ~Synced(wl'[w])
      BY <3>1, <3>2, StreamCommit DEF TypeOK, ApiOK
    <3>. QED  BY <3>3 DEF Quiet, Pending
  <2>4. CASE merged = latest
    <3>1. wl' = wl
      BY <2>1, <2>4
    <3>2. seen = latest
      BY <1>5, <1>7, <3>1, QuietParts
    <3>3. seen.cond \in Conditions /\ after \in Conditions
      BY <1>1, WorkloadParts, ConditionsClosed DEF TypeOK, FrameOK
    <3>4. MergeConditions(seen.cond, seen.cond, after) = after
      BY <3>3 DEF MergeConditions, Merge, Conditions
    <3>5. merged.cond = after
      BY <2>2, <3>2, <3>4 DEF Workload
    <3>. QED  BY <2>1, <2>4, <3>2, <3>5
  <2>. QED  BY <2>3, <2>4
<1>. QED  BY <1>1, <1>3, <1>4, <1>6, <1>7

\* A failed write is reported, a failed read or patch is retried, and a
\* manager that restarts queues every workload.
LEMMA FaultSound ==
  ASSUME TypeOK, NoLostWakeUp, Faults, NEW w \in Workloads, Quiet(w)'
  PROVE  Sound(w)'
<1>1. CASE PatchFails
  BY <1>1, PatchSound
<1>2. CASE \E e \in ApiErrors : WriteFails(e)
  <2>1. PICK e \in ApiErrors : WriteFails(e)
    BY <1>2
  <2>2. /\ pc = "write" /\ e \in WriteFailures
        /\ UNCHANGED << wl, tpl, cls, queue, cur, seen, rend, err >>
    BY <2>1 DEF WriteFails, WriteFailures
  <2>3. CASE ReconcileFailed(e)
    BY <2>2, <2>3, FailedSound
  <2>4. CASE (Create \/ Patch) /\ MarkFalse(e)
    BY <2>2, <2>4, UnansweredSound
  <2>. QED  BY <2>1, <2>3, <2>4 DEF WriteFails
<1>3. CASE Restart
  <2>1. Live(wl'[w]) = Live(wl[w])
    BY <1>3, StreamRelisted DEF Restart, TypeOK, ApiOK
  <2>2. w \in queue'
    BY <1>3, <2>1 DEF Restart, Quiet, Reconcilable
  <2>. QED  BY <2>2 DEF Quiet, Pending
<1>4. CASE ReadFails
  <2>1. err' /\ pc' = "patch" /\ UNCHANGED << api, queue, cur, seen >>
    BY <1>4 DEF ReadFails, Goto
  <2>2. Quiet(w) /\ SameStored(w)
    BY <2>1, NothingWritten
  <2>3. CASE cur # w
    BY <2>1, <2>2, <2>3, SoundOther
  <2>4. CASE cur = w
    <3>1. seen' = Live(wl[w])'
      BY <2>1, <2>2, <2>4 DEF NoLostWakeUp, Quiet, PassCurrent, SameStored
    <3>. QED  BY <2>1, <2>4, <3>1 DEF Sound, PassCurrent
  <2>. QED  BY <2>3, <2>4
<1>. QED  BY <1>1, <1>2, <1>3, <1>4 DEF Faults

\* What users change leaves an event, and what the garbage collector takes
\* belongs to a workload that is going.
LEMMA OthersSound ==
  ASSUME TypeOK, NoLostWakeUp, Users \/ Collect, NEW w \in Workloads, Quiet(w)'
  PROVE  Sound(w)'
<1>1. ASSUME NEW x \in Workloads, NEW v \in Workload \cup {None},
             wl' = [wl EXCEPT ![x] = Commit(wl[x], v)],
             UNCHANGED << tpl, cls, obj, queue, pc, frame >>
      PROVE  Sound(w)'
  <2>1. CASE x = w
    <3>1. wl'[w] = Commit(wl[w], v) /\ wl[w] \in Stream(Workload \cup {None})
      BY <1>1, <2>1 DEF TypeOK, ApiOK
    <3>2. ~Synced(wl'[w])
      BY <3>1, StreamCommit
    <3>. QED  BY <3>2 DEF Quiet, Pending
  <2>2. CASE x # w
    <3>1. wl'[w] = wl[w]
      BY <1>1, <2>2 DEF TypeOK, ApiOK
    <3>2. Quiet(w) /\ SameStored(w)
      BY <1>1, <3>1
         DEF Quiet, Reconcilable, Pending, Woken, SameStored, clusterOf, templateOf
    <3>. QED  BY <1>1, <3>2, SoundElsewhere
  <2>. QED  BY <2>1, <2>2
<1>2. ASSUME NEW x \in Workloads, DeleteWorkload(x) PROVE Sound(w)'
  <2>1. Live(wl[x]) \in Workload
    BY <1>2, Reads DEF DeleteWorkload
  <2>2. [Live(wl[x]) EXCEPT !.deleting = TRUE] \in Workload
    BY <2>1, WorkloadParts
  <2>3. \E v \in Workload \cup {None} : wl' = [wl EXCEPT ![x] = Commit(wl[x], v)]
    BY <1>2, <2>2 DEF DeleteWorkload
  <2>. QED  BY <1>1, <1>2, <2>3 DEF DeleteWorkload
<1>3. ASSUME NEW x \in Workloads, NEW s \in WorkloadSpecs, UpdateWorkload(x, s)
      PROVE  Sound(w)'
  <2>1. Live(wl[x]) \in Workload
    BY <1>3, Reads DEF UpdateWorkload
  <2>2. [Live(wl[x]) EXCEPT !.spec = s] \in Workload
    BY <2>1, WorkloadParts
  <2>. QED  BY <1>1, <1>3, <2>2 DEF UpdateWorkload
<1>4. ASSUME NEW x \in Workloads, CollectWorkload(x) PROVE Sound(w)'
  BY <1>1, <1>4 DEF CollectWorkload
<1>5. ASSUME NEW t \in Templates, NEW v \in Template \cup {None}, PutTemplate(t, v)
      PROVE  Sound(w)'
  <2>1. UNCHANGED << wl, cls, obj, queue, pc, frame >>
    BY <1>5 DEF PutTemplate
  <2>2. tpl'[t] = Commit(tpl[t], v) /\ \A u \in Templates : u # t => tpl'[u] = tpl[u]
    BY <1>5 DEF PutTemplate, TypeOK, ApiOK
  <2>3. ~Synced(tpl'[t])
    BY <2>2, StreamCommit DEF TypeOK, ApiOK
  <2>4. Live(wl[w]).spec.ref \in Templates
    BY <2>1, Reads, WorkloadParts DEF Quiet, Reconcilable, WorkloadSpec
  <2>5. tpl'[Live(wl[w]).spec.ref] = tpl[Live(wl[w]).spec.ref]
    BY <2>1, <2>2, <2>3, <2>4 DEF Quiet, Pending
  <2>6. Quiet(w) /\ SameStored(w)
    BY <2>1, <2>5 DEF Quiet, Reconcilable, Pending, Woken, SameStored, clusterOf, templateOf
  <2>. QED  BY <2>1, <2>6, SoundElsewhere
<1>6. ASSUME NEW c \in Clusters, NEW v \in Cluster \cup {None}, PutCluster(c, v)
      PROVE  Sound(w)'
  <2>1. UNCHANGED << wl, tpl, obj, queue, pc, frame >>
    BY <1>6 DEF PutCluster
  <2>2. cls'[c] = Commit(cls[c], v) /\ \A u \in Clusters : u # c => cls'[u] = cls[u]
    BY <1>6 DEF PutCluster, TypeOK, ApiOK
  <2>3. ~Synced(cls'[c])
    BY <2>2, StreamCommit DEF TypeOK, ApiOK
  <2>4. Live(wl[w]).spec.owner \in Clusters
    BY <2>1, Reads, WorkloadParts DEF Quiet, Reconcilable, WorkloadSpec
  <2>5. cls'[Live(wl[w]).spec.owner] = cls[Live(wl[w]).spec.owner]
    BY <2>1, <2>2, <2>3, <2>4 DEF Quiet, Pending
  <2>6. Quiet(w) /\ SameStored(w)
    BY <2>1, <2>5 DEF Quiet, Reconcilable, Pending, Woken, SameStored, clusterOf, templateOf
  <2>. QED  BY <2>1, <2>6, SoundElsewhere
<1>7. ASSUME NEW o \in Workloads \X Names, NEW v \in Object \cup {None},
             obj' = [obj EXCEPT ![o] = Stored(o, v)],
             UNCHANGED << wl, tpl, cls, queue, pc, frame >>,
             o[1] = w => o[2] \in Touched
      PROVE  Sound(w)'
  <2>1. /\ Quiet(w)
        /\ \A q \in Workloads \X Names : q # o => Live(obj'[q]) = Live(obj[q])
        /\ o[1] = w /\ KindOf[o[2]] \in OwnedKinds => ~Marked(Live(obj[o]))
    BY <1>7, StoreQuiet
  <2>2. ASSUME NEW n \in Names
        PROVE  \/ Live(obj'[<< w, n >>]) = Live(obj[<< w, n >>])
               \/ /\ n \in Touched
                  /\ KindOf[n] \in OwnedKinds => ~Marked(Live(obj[<< w, n >>]))
    <3>1. CASE << w, n >> # o
      BY <2>1, <3>1
    <3>2. CASE << w, n >> = o
      <4>1. o[1] = w /\ o[2] = n
        BY <3>2
      <4>. QED  BY <1>7, <2>1, <3>2, <4>1
    <3>. QED  BY <3>1, <3>2
  <2>3. SameStored(w)
    BY <1>7, <2>2 DEF SameStored, clusterOf, templateOf
  <2>. QED  BY <1>7, <2>1, <2>3, SoundElsewhere
<1>8. ASSUME NEW o \in Workloads \X Names, TouchObject(o) PROVE Sound(w)'
  <2>1. \E v \in Object \cup {None} : obj' = [obj EXCEPT ![o] = Stored(o, v)]
    BY <1>8, TouchedType
  <2>. QED  BY <1>7, <1>8, <2>1 DEF TouchObject
<1>9. ASSUME NEW o \in Workloads \X Names, CollectObject(o) PROVE Sound(w)'
  <2>1. o[1] # w
    BY <1>9 DEF CollectObject, Quiet, Reconcilable
  <2>. QED  BY <1>7, <1>9, <2>1 DEF CollectObject
<1>. QED
  BY <1>2, <1>3, <1>4, <1>5, <1>6, <1>8, <1>9 DEF Users, Collect

\* No wake-up is lost, for any number of workloads, templates, clusters and
\* objects and any number of changes and faults: NoLostWakeUp is an invariant.
THEOREM WakeUpsKept == Spec => []NoLostWakeUp
<1>1. Init => NoLostWakeUp
  BY DEF Init, NoLostWakeUp, Pending
<1>2. TypeOK /\ NoLostWakeUp /\ [Next]_vars => NoLostWakeUp'
  <2>. SUFFICES ASSUME TypeOK, NoLostWakeUp, [Next]_vars, NEW w \in Workloads, Quiet(w)'
                PROVE  Sound(w)'
    BY DEF NoLostWakeUp, Quiet, Sound
  <2>1. CASE Deliver
    BY <2>1, DeliverWorkloadSound, DeliverTemplateSound, DeliverClusterSound,
       DeliverObjectSound DEF Deliver
  <2>2. CASE \E x \in Workloads : ReconcileGone(x) \/ ReconcileStart(x)
    BY <2>2, StartSound
  <2>3. CASE Worker
    BY <2>3, ReadSound, FieldSound, WriteSound, ListSound, PatchSound DEF Worker
  <2>4. CASE Faults
    BY <2>4, FaultSound
  <2>5. CASE Users \/ Collect
    BY <2>5, OthersSound
  <2>6. CASE UNCHANGED vars
    <3>1. UNCHANGED << api, queue, pc, frame >>
      BY <2>6 DEF vars
    <3>2. Quiet(w) /\ SameStored(w)
      BY <3>1, NothingWritten
    <3>. QED  BY <3>1, <3>2, SoundElsewhere
  <2>. QED  BY <2>1, <2>2, <2>3, <2>4, <2>5, <2>6 DEF Next
<1>. QED  BY <1>1, <1>2, TypeCorrect, PTL DEF Spec

\* Whatever interleaving led there, once the system is quiet the template
\* condition and the rendered objects are what the stored workload, cluster
\* and template call for (TruthfulWhenSettled).
THEOREM SettledIsTruthful == Spec => []TruthfulWhenSettled
<1>1. TypeOK /\ NoLostWakeUp => TruthfulWhenSettled
  <2>. SUFFICES ASSUME TypeOK, NoLostWakeUp, Settled,
                       NEW w \in Workloads, Reconcilable(w)
                PROVE  Truthful(w)
    BY DEF TruthfulWhenSettled
  <2>1. Live(wl[w]).spec.ref \in Templates /\ Live(wl[w]).spec.owner \in Clusters
    BY Reads, WorkloadParts DEF Reconcilable, WorkloadSpec
  <2>2. ASSUME NEW n \in Names PROVE ~Woken(<< w, n >>)
    <3>1. Len(obj[<< w, n >>]) = 1
      BY DEF Settled, Synced
    <3>2. 1..(1 - 1) = {}
      OBVIOUS
    <3>. QED  BY <3>1, <3>2 DEF Woken
  <2>3. ~Pending(w)
    BY <2>1, <2>2 DEF Settled, Pending
  <2>4. cur # w
    BY NoneIsNoValue DEF Settled, TypeOK, FrameOK
  <2>. QED  BY <2>3, <2>4 DEF NoLostWakeUp
<1>. QED  BY <1>1, TypeCorrect, WakeUpsKept, PTL

-----------------------------------------------------------------------------
(* What is rendered is owned.                                                *)

\* Whatever the reconciler has rendered, and nobody else has touched, has the
\* owner reference that lets the garbage collector take it.
RenderedOwned ==
  \A w \in Workloads : \A n \in Names \ Touched :
    Live(obj[<< w, n >>]) # None => Owned(<< w, n >>)

\* A pass gets to the template only with an owner.
OwnerKnown == pc \in {"template", "field", "write"} => seen.spec.owner # None

LEMMA OwnerKnownStep == OwnerKnown /\ [Next]_vars => OwnerKnown'
<1>. SUFFICES ASSUME OwnerKnown, [Next]_vars PROVE OwnerKnown'
  OBVIOUS
<1>1. CASE UNCHANGED << pc, frame >>
  BY <1>1 DEF OwnerKnown, frame
<1>2. CASE pc' \in {"idle", "cluster", "listKustomizations", "listHelmReleases", "patch"}
  BY <1>2 DEF OwnerKnown
<1>3. CASE GetOwnerCluster
  BY <1>3 DEF GetOwnerCluster, Goto, OwnerKnown
<1>4. CASE pc \in {"template", "field", "write"} /\ seen' = seen
  BY <1>4 DEF OwnerKnown
<1>5. CASE Worker
  BY <1>2, <1>3, <1>4, <1>5 DEF Worker, EvaluateTemplate, MarkTrue, RejectField, GetObject,
    WriteObject, ListKustomizations, ListHelmReleases, PatchUnneeded, PatchStatus,
    PatchRefused, Return, Goto
<1>6. CASE Faults
  BY <1>2, <1>4, <1>6 DEF Faults, Restart, ReadFails, PatchFails, WriteFails, Return, Goto
<1>7. ASSUME NEW w \in Workloads, ReconcileGone(w) \/ ReconcileStart(w) PROVE OwnerKnown'
  BY <1>1, <1>2, <1>7 DEF ReconcileGone, ReconcileStart, Goto, frame
<1>8. CASE Deliver
  BY <1>1, <1>8 DEF Deliver, DeliverWorkload, DeliverTemplate, DeliverCluster, DeliverObject
<1>9. CASE Users \/ Collect
  BY <1>1, <1>9 DEF Users, Collect, DeleteWorkload, UpdateWorkload, PutTemplate, PutCluster,
    TouchObject, CollectObject, CollectWorkload
<1>10. CASE UNCHANGED vars
  BY <1>1, <1>10 DEF vars
<1>. QED  BY <1>5, <1>6, <1>7, <1>8, <1>9, <1>10 DEF Next

\* What a pass writes is owned if what was there before was.
LEMMA WrittenOwned ==
  ASSUME TypeOK, OwnerKnown, pc = "write", Create \/ Patch,
         Live(obj[target]) # None => Live(obj[target]).meta # None
  PROVE  \E v \in Object : /\ obj' = [obj EXCEPT ![target] = Stored(target, v)]
                           /\ v.meta # None
<1>0. seen.spec.owner # None
  BY DEF OwnerKnown
<1>1. CASE Create
  <2>1. Decoded \in Object /\ Decoded.meta # None
    BY <1>0, WrittenType DEF Decoded
  <2>. QED  BY <1>1, <2>1 DEF Create
<1>2. CASE Patch
  <2>0. Live(obj[target]) \in Object /\ got \in Object
    BY <1>2, AtWrite DEF Patch, TypeOK, FrameOK
  <2>1. PICK v \in MergePatches(Live(obj[target]), got, Mutated) :
          obj' = [obj EXCEPT ![target] = Stored(target, v)]
    BY <1>2 DEF Patch
  <2>2. v \in Object
    BY <1>2, <2>0, <2>1, WrittenType DEF Patch
  <2>3. v.meta = Merge(Live(obj[target]).meta, got.meta, Mutated.meta)
    BY <2>0, <2>1 DEF MergePatches, Object
  <2>4. Mutated.meta = seen.spec.owner
    BY <2>0 DEF Mutated, Object
  <2>5. Live(obj[target]).meta # None
    BY <1>2 DEF Patch
  <2>6. v.meta # None
    BY <1>0, <2>3, <2>4, <2>5 DEF Merge
  <2>. QED  BY <2>1, <2>2, <2>6
<1>. QED  BY <1>1, <1>2

LEMMA RenderedOwnedStep ==
  TypeOK /\ OwnerKnown /\ RenderedOwned /\ [Next]_vars => RenderedOwned'
<1>. SUFFICES ASSUME TypeOK, OwnerKnown, RenderedOwned, [Next]_vars,
                     NEW w \in Workloads, NEW n \in Names \ Touched,
                     NEW o, o = << w, n >>, Live(obj'[o]) # None
              PROVE  Live(obj'[o]).meta # None
  BY DEF RenderedOwned, Owned
<1>0. o \in Workloads \X Names /\ obj[o] \in Stream(Object \cup {None})
  BY DEF TypeOK, ApiOK
<1>1. CASE Live(obj'[o]) = Live(obj[o])
  BY <1>1 DEF RenderedOwned, Owned
<1>2. ASSUME NEW p \in Workloads \X Names, NEW v \in Object \cup {None},
             obj' = [obj EXCEPT ![p] = Stored(p, v)], v # None => v.meta # None
      PROVE  Live(obj'[o]).meta # None
  <2>1. CASE p = o
    <3>1. obj'[o] = Stored(o, v)
      BY <1>0, <1>2, <2>1 DEF TypeOK, ApiOK
    <3>. QED  BY <1>0, <1>2, <3>1, StoredType DEF TypeOK
  <2>2. CASE p # o
    <3>1. obj'[o] = obj[o]
      BY <1>2, <2>2 DEF TypeOK, ApiOK
    <3>. QED  BY <1>1, <3>1
  <2>. QED  BY <2>1, <2>2
<1>3. CASE obj' = obj
  BY <1>1, <1>3
<1>4. CASE pc = "write" /\ (Create \/ Patch)
  <2>0. target \in Workloads \X Names
    BY <1>4, AtWrite
  <2>1. CASE target = o
    <3>1. Live(obj[target]) # None => Live(obj[target]).meta # None
      BY <2>1 DEF RenderedOwned, Owned
    <3>2. PICK v \in Object : obj' = [obj EXCEPT ![target] = Stored(target, v)] /\ v.meta # None
      BY <1>4, <3>1, WrittenOwned
    <3>. QED  BY <1>2, <2>0, <3>2
  <2>2. CASE target # o
    <3>1. obj'[o] = obj[o]
      BY <1>4, <2>2, Written DEF TypeOK, ApiOK
    <3>. QED  BY <1>1, <3>1
  <2>. QED  BY <2>1, <2>2
<1>5. CASE Worker
  BY <1>3, <1>4, <1>5 DEF Worker, GetOwnerCluster, EvaluateTemplate, MarkTrue, RejectField,
    GetObject, WriteObject, CreateObject, PatchObject, ReconcileFailed, ListKustomizations,
    ListHelmReleases, PatchUnneeded, PatchStatus, PatchRefused, api
<1>6. CASE Restart
  <2>1. obj'[o] = Relisted(obj[o])
    BY <1>0, <1>6 DEF Restart
  <2>. QED  BY <1>0, <1>1, <2>1, StreamRelisted
<1>7. CASE ReadFails \/ PatchFails \/ \E e \in ApiErrors : WriteFails(e)
  BY <1>3, <1>4, <1>7 DEF ReadFails, PatchFails, WriteFails, ReconcileFailed, api
<1>8. ASSUME NEW p \in Workloads \X Names, DeliverObject(p)
      PROVE  Live(obj'[o]) = Live(obj[o])
  <2>1. obj' = [obj EXCEPT ![p] = Delivered(obj[p])] /\ ~Synced(obj[p])
    BY <1>8 DEF DeliverObject
  <2>2. CASE p = o
    <3>1. obj'[o] = Delivered(obj[o])
      BY <1>0, <2>1, <2>2 DEF TypeOK, ApiOK
    <3>. QED  BY <1>0, <2>1, <2>2, <3>1, StreamDelivered
  <2>3. CASE p # o
    BY <2>1, <2>3 DEF TypeOK, ApiOK
  <2>. QED  BY <2>2, <2>3
<1>9. CASE Deliver
  BY <1>1, <1>3, <1>8, <1>9 DEF Deliver, DeliverWorkload, DeliverTemplate, DeliverCluster
<1>10. ASSUME NEW x \in Workloads, ReconcileGone(x) \/ ReconcileStart(x) PROVE obj' = obj
  BY <1>10 DEF ReconcileGone, ReconcileStart, api
<1>11. ASSUME NEW p \in Workloads \X Names, TouchObject(p) PROVE obj'[o] = obj[o]
  <2>1. p # o
    BY <1>11 DEF TouchObject
  <2>. QED  BY <1>11, <2>1, TouchedType DEF TypeOK, ApiOK
<1>12. ASSUME NEW p \in Workloads \X Names, CollectObject(p)
       PROVE  obj' = [obj EXCEPT ![p] = Stored(p, None)]
  BY <1>12 DEF CollectObject
<1>13. CASE Users \/ Collect
  BY <1>1, <1>2, <1>3, <1>11, <1>12, <1>13 DEF Users, Collect, DeleteWorkload,
    UpdateWorkload, PutTemplate, PutCluster, CollectWorkload
<1>14. CASE UNCHANGED vars
  BY <1>3, <1>14 DEF vars, api
<1>. QED  BY <1>3, <1>5, <1>6, <1>7, <1>9, <1>10, <1>13, <1>14 DEF Next, Faults

\* Whatever a pass renders, however old the workload it has read, and even
\* for one that is gone, the garbage collector can take: no object of a
\* workload that others leave alone is without its owner reference, also
\* after a patch on top of an object that changed since it was read.
THEOREM RenderedAreOwned == Spec => []RenderedOwned
<1>1. Init => OwnerKnown /\ RenderedOwned
  <2>1. Live(<< None >>) = None
    BY DEF Live
  <2>. QED  BY <2>1 DEF Init, IdleFrame, OwnerKnown, RenderedOwned
<1>. QED  BY <1>1, OwnerKnownStep, RenderedOwnedStep, TypeCorrect, PTL DEF Spec
=============================================================================
