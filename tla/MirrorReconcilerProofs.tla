----------------------- MODULE MirrorReconcilerProofs -----------------------
(* Proofs about MirrorReconciler, for every value of its constants.          *)
EXTENDS MirrorReconciler, InformerProofs

-----------------------------------------------------------------------------
(* Kinds and targets.                                                        *)

\* A pass walks through kinds of source.
LEMMA WalkKinds ==
  ASSUME walk \in Controllers
  PROVE  /\ Len(walk) \in Nat \ {0}
         /\ \A i \in 1..Len(walk) : walk[i] \in Kinds
         /\ Active \subseteq Kinds
<1>1. walk \in Walks
  BY ConstantsTyped
<1>2. CASE walk = << "HelmRepository", "OCIRepository" >>
  <2>1. Len(walk) = 2 /\ walk[1] = "HelmRepository" /\ walk[2] = "OCIRepository"
    BY <1>2
  <2>2. \A i \in 1..2 : i = 1 \/ i = 2
    OBVIOUS
  <2>. QED  BY <2>1, <2>2 DEF Kinds, Active
<1>3. ASSUME NEW k \in Kinds, walk = << k >> PROVE /\ Len(walk) \in Nat \ {0}
         /\ \A i \in 1..Len(walk) : walk[i] \in Kinds
  <2>1. Len(walk) = 1 /\ walk[1] = k /\ \A i \in 1..1 : i = 1
    BY <1>3
  <2>. QED  BY <1>3, <2>1
<1>4. \/ walk = << "HelmRepository", "OCIRepository" >>
      \/ \E k \in Kinds : walk = << k >>
  BY <1>1 DEF Walks, Kinds
<1>. QED  BY <1>2, <1>3, <1>4 DEF Active

\* The fields of a target.
Fields(k) ==
  CASE k = "HelmRelease" ->
         {"owner", "cluster", "workload", "name", "version", "chart"}
    [] k = "Worktree" -> {"owner", "url", "commit", "name"}
    [] OTHER -> {"owner", "cluster", "workload", "selector"}

\* What a field of a target holds.
Values(k, f) ==
  CASE f = "owner" -> Nat
    [] f = "selector" -> {k, Foreign}
    [] f = "chart" -> (Held(k, "chart") \X Held(k, "version")) \cup {Foreign}
    [] f = "name" -> IF k = "HelmRelease" THEN Held(k, "chart") ELSE Held(k, "ref")
    [] OTHER -> Held(k, f)

\* A target is a function of its fields.
LEMMA TargetFields ==
  ASSUME NEW k \in Kinds, NEW t
  PROVE  t \in Targets(k) <=>
           /\ t = [f \in Fields(k) |-> t[f]]
           /\ \A f \in Fields(k) : t[f] \in Values(k, f)
<1>1. CASE k = "HelmRelease"
  <2>1. Targets(k) =
          [owner: Nat, cluster: Held(k, "cluster"), workload: Held(k, "workload"),
           name: Held(k, "chart"), version: Held(k, "version"),
           chart: (Held(k, "chart") \X Held(k, "version")) \cup {Foreign}]
    BY <1>1 DEF Targets
  <2>2. Fields(k) = {"owner", "cluster", "workload", "name", "version", "chart"}
    BY <1>1 DEF Fields
  <2>3. /\ Values(k, "owner") = Nat
        /\ Values(k, "cluster") = Held(k, "cluster")
        /\ Values(k, "workload") = Held(k, "workload")
        /\ Values(k, "name") = Held(k, "chart")
        /\ Values(k, "version") = Held(k, "version")
        /\ Values(k, "chart") = (Held(k, "chart") \X Held(k, "version")) \cup {Foreign}
    BY <1>1 DEF Values
  <2>. QED  BY <2>1, <2>2, <2>3
<1>2. CASE k = "Worktree"
  <2>1. Targets(k) = [owner: Nat, url: Held(k, "url"), commit: Held(k, "commit"),
                      name: Held(k, "ref")]
    BY <1>2 DEF Targets
  <2>2. Fields(k) = {"owner", "url", "commit", "name"}
    BY <1>2 DEF Fields
  <2>3. /\ Values(k, "owner") = Nat
        /\ Values(k, "url") = Held(k, "url")
        /\ Values(k, "commit") = Held(k, "commit")
        /\ Values(k, "name") = Held(k, "ref")
    BY <1>2 DEF Values
  <2>. QED  BY <2>1, <2>2, <2>3
<1>3. CASE k # "HelmRelease" /\ k # "Worktree"
  <2>1. Targets(k) = [owner: Nat, cluster: Held(k, "cluster"),
                      workload: Held(k, "workload"), selector: {k, Foreign}]
    BY <1>3 DEF Targets
  <2>2. Fields(k) = {"owner", "cluster", "workload", "selector"}
    BY <1>3 DEF Fields
  <2>3. /\ Values(k, "owner") = Nat
        /\ Values(k, "cluster") = Held(k, "cluster")
        /\ Values(k, "workload") = Held(k, "workload")
        /\ Values(k, "selector") = {k, Foreign}
    BY DEF Values
  <2>. QED  BY <2>1, <2>2, <2>3
<1>. QED  BY <1>1, <1>2, <1>3

\* A value of the body of a source may be in a target.
LEMMA HeldBody ==
  ASSUME NEW k \in Kinds, NEW b \in Bodies[k], NEW f
  PROVE  b[f] \in Held(k, f) /\ None \in Held(k, f) /\ Foreign \in Held(k, f)
BY DEF Held

\* What a source calls for is a target, of the fields that targets have.
LEMMA WantedType ==
  ASSUME NEW k \in Kinds, NEW v \in Source(k) \cup {None}, Wanted(k, v) # None
  PROVE  Wanted(k, v) \in Targets(k) /\ Wanted(k, v) = Target(k, v) /\ v \in Source(k)
<1>1. Wanted(k, v) = Target(k, v) /\ v \in Source(k)
  BY DEF Wanted
<1>2. v.uid \in Nat /\ v.body \in Bodies[k]
  BY <1>1 DEF Source
<1>3. CASE k = "HelmRelease"
  <2>1. Target(k, v) = HelmReleaseInventory(v)
    BY <1>3 DEF Target
  <2>2. /\ v.body.cluster \in Held(k, "cluster") /\ v.body.workload \in Held(k, "workload")
        /\ v.body.chart \in Held(k, "chart") /\ v.body.version \in Held(k, "version")
    BY <1>2, HeldBody
  <2>. QED  BY <1>1, <1>2, <1>3, <2>1, <2>2 DEF HelmReleaseInventory, Targets
<1>4. CASE k = "Worktree"
  <2>1. Target(k, v) = GitRepository(v)
    BY <1>4 DEF Target
  <2>2. /\ v.body.url \in Held(k, "url") /\ v.body.commit \in Held(k, "commit")
        /\ v.body.ref \in Held(k, "ref") /\ None \in Held(k, "ref")
    BY <1>2, HeldBody
  <2>. QED  BY <1>1, <1>2, <1>4, <2>1, <2>2 DEF GitRepository, Targets
<1>5. CASE k # "HelmRelease" /\ k # "Worktree"
  <2>1. Target(k, v) = [owner |-> v.uid, cluster |-> v.body.cluster,
                        workload |-> v.body.workload, selector |-> k]
    BY <1>5 DEF Target, Kinds, KustomizationInventory, HelmRepositoryInventory,
      OCIRepositoryInventory
  <2>2. v.body.cluster \in Held(k, "cluster") /\ v.body.workload \in Held(k, "workload")
    BY <1>2, HeldBody
  <2>. QED  BY <1>1, <1>2, <1>5, <2>1, <2>2 DEF Targets
<1>. QED  BY <1>1, <1>3, <1>4, <1>5

\* A merge patch takes each field from one of two targets.
LEMMA MergeType ==
  ASSUME NEW k \in Kinds, NEW a \in Targets(k), NEW b \in Targets(k), NEW t,
         t = [f \in Fields(k) |-> t[f]],
         \A f \in Fields(k) : t[f] \in {a[f], b[f]}
  PROVE  t \in Targets(k)
BY TargetFields

\* Somebody writes into a field of a target.
LEMMA ForeignType ==
  ASSUME NEW k \in Kinds, NEW t \in Targets(k), NEW f \in Fields(k) \ {"owner"}
  PROVE  [t EXCEPT ![f] = Foreign] \in Targets(k)
<1>. DEFINE n == [t EXCEPT ![f] = Foreign]
<1>1. /\ t = [g \in Fields(k) |-> t[g]]
      /\ \A g \in Fields(k) : t[g] \in Values(k, g)
  BY TargetFields
<1>2. Foreign \in Values(k, f)
  BY DEF Values, Held
<1>3. n = [g \in Fields(k) |-> n[g]]
  BY <1>1
<1>4. \A g \in Fields(k) : n[g] \in Values(k, g)
  BY <1>1, <1>2
<1>5. n \in Targets(k)
  <2>. HIDE DEF n
  <2>. QED  BY <1>3, <1>4, TargetFields
<1>. QED  BY <1>5

-----------------------------------------------------------------------------
(* Types.                                                                    *)

\* The maps have an entry for each kind.
Shape ==
  /\ log = [k \in Kinds |-> log[k]] /\ at = [k \in Kinds |-> at[k]]
  /\ tgt = [k \in Kinds |-> tgt[k]]

SourcesTyped ==
  \A k \in Kinds : /\ log[k] \in Stream(Source(k) \cup {None})
                   /\ at[k] \in 1..Len(log[k])

TargetsTyped == \A k \in Kinds : tgt[k] \in Stream(Targets(k) \cup {None})

PassTyped ==
  /\ walk \in Controllers /\ queued \in BOOLEAN
  /\ pc \in {"idle", "source", "target", "write"} /\ pos \in 1..Len(walk)

FrameTyped ==
  /\ IF pc \in {"target", "write"} THEN seen \in 1..at[kind] /\ want # None
     ELSE seen = 0
  /\ IF pc = "write" THEN got \in Targets(kind) \cup {None} ELSE got = None

Counted ==
  changes \in 0..MaxChanges /\ edits \in 0..MaxEdits /\ faults \in 0..MaxFaults

MirrorInv ==
  Shape /\ SourcesTyped /\ TargetsTyped /\ PassTyped /\ FrameTyped /\ Counted

LEMMA MirrorInvTypes == MirrorInv => TypeOK
BY Zenon DEF MirrorInv, SourcesTyped, TargetsTyped, PassTyped, FrameTyped, Counted, TypeOK

LEMMA MirrorInvParts ==
  MirrorInv' <=> /\ Shape' /\ SourcesTyped' /\ TargetsTyped'
                 /\ PassTyped' /\ FrameTyped' /\ Counted'
BY DEF MirrorInv

LEMMA MirrorInit == Init => MirrorInv
<1>. SUFFICES ASSUME Init PROVE MirrorInv
  OBVIOUS
<1>1. Shape
  BY DEF Init, Shape
<1>2. SourcesTyped /\ TargetsTyped
  <2>1. \A k \in Kinds : /\ log[k] = << None >> /\ tgt[k] = << None >>
                         /\ at[k] = 1 /\ Len(<< None >>) = 1
    BY DEF Init
  <2>2. \A k \in Kinds : /\ << None >> \in Stream(Source(k) \cup {None})
                         /\ << None >> \in Stream(Targets(k) \cup {None})
    BY StreamOne
  <2>3. \A k \in Kinds : at[k] \in 1..Len(log[k])
    BY <2>1
  <2>. QED  BY <2>1, <2>2, <2>3 DEF SourcesTyped, TargetsTyped
<1>3. PassTyped
  <2>1. 1 \in 1..Len(walk)
    BY WalkKinds DEF Init
  <2>. QED  BY <2>1, Zenon DEF Init, PassTyped
<1>4. FrameTyped /\ Counted
  BY ConstantsTyped DEF Init, FrameTyped, Counted
<1>. QED  BY <1>1, <1>2, <1>3, <1>4 DEF MirrorInv

\* What a typed state gives to each step.
LEMMA Given ==
  ASSUME MirrorInv
  PROVE  /\ kind \in Kinds /\ Len(walk) \in Nat \ {0} /\ Active \subseteq Kinds
         /\ \A k \in Kinds : /\ stored(k) \in Source(k) \cup {None}
                             /\ Live(tgt[k]) \in Targets(k) \cup {None}
                             /\ Cached(tgt[k]) \in Targets(k) \cup {None}
                             /\ log[k] \in Seq(Source(k) \cup {None})
                             /\ Len(log[k]) \in Nat \ {0}
                             /\ at[k] \in 1..Len(log[k])
                             /\ log[k][at[k]] \in Source(k) \cup {None}
         /\ pc \in {"target", "write"} =>
              /\ seen \in 1..at[kind] /\ seen \in 1..Len(log[kind])
              /\ log[kind][seen] \in Source(kind)
              /\ want \in Targets(kind) /\ want # None
<1>1. kind \in Kinds /\ Len(walk) \in Nat \ {0} /\ Active \subseteq Kinds
  BY WalkKinds DEF MirrorInv, PassTyped, kind
<1>2. ASSUME NEW k \in Kinds
      PROVE  /\ stored(k) \in Source(k) \cup {None}
             /\ log[k] \in Seq(Source(k) \cup {None})
             /\ Len(log[k]) \in Nat \ {0}
             /\ at[k] \in 1..Len(log[k])
             /\ log[k][at[k]] \in Source(k) \cup {None}
  <2>1. log[k] \in Seq(Source(k) \cup {None}) /\ log[k] # << >> /\ at[k] \in 1..Len(log[k])
    BY DEF MirrorInv, SourcesTyped, Stream
  <2>2. Len(log[k]) \in Nat \ {0}
    BY <2>1
  <2>3. \A n \in Nat \ {0} : n \in 1..n
    OBVIOUS
  <2>4. stored(k) \in Source(k) \cup {None}
    BY <2>1, <2>2, <2>3 DEF stored
  <2>5. log[k][at[k]] \in Source(k) \cup {None}
    BY <2>1
  <2>. QED  BY <2>1, <2>2, <2>4, <2>5
<1>3. \A k \in Kinds : /\ Live(tgt[k]) \in Targets(k) \cup {None}
                       /\ Cached(tgt[k]) \in Targets(k) \cup {None}
  BY StreamRead DEF MirrorInv, TargetsTyped
<1>4. ASSUME pc \in {"target", "write"}
      PROVE  /\ seen \in 1..at[kind] /\ seen \in 1..Len(log[kind])
             /\ log[kind][seen] \in Source(kind)
             /\ want \in Targets(kind) /\ want # None
  <2>1. seen \in 1..at[kind] /\ want # None
    BY <1>4 DEF MirrorInv, FrameTyped
  <2>2. seen \in 1..Len(log[kind])
    <3>1. \A n \in Nat : \A a \in 1..n : \A i \in 1..a : i \in 1..n
      OBVIOUS
    <3>. QED  BY <1>1, <1>2, <2>1, <3>1
  <2>3. log[kind][seen] \in Source(kind) \cup {None}
    <3>1. log[kind] \in Seq(Source(kind) \cup {None})
      BY <1>1, <1>2
    <3>. QED  BY <2>2, <3>1
  <2>. QED  BY <1>1, <2>1, <2>2, <2>3, WantedType DEF want
<1>. QED  BY <1>1, <1>2, <1>3, <1>4

\* The places of the log.
LEMMA Places ==
  ASSUME MirrorInv, NEW k \in Kinds
  PROVE  /\ at[k] \in Nat \ {0} /\ Len(log[k]) \in Nat \ {0} /\ at[k] <= Len(log[k])
         /\ at[k] \in 1..at[k] /\ Len(log[k]) \in 1..Len(log[k])
         /\ at[k] \in 1..(Len(log[k]) + 1)
         /\ at[k] < Len(log[k]) => at[k] + 1 \in 1..Len(log[k])
<1>1. \A n \in Nat \ {0} : \A i \in 1..n :
        /\ i \in Nat \ {0} /\ i <= n /\ i \in 1..i /\ n \in 1..n /\ i \in 1..(n + 1)
        /\ i < n => i + 1 \in 1..n
  OBVIOUS
<1>2. Len(log[k]) \in Nat \ {0} /\ at[k] \in 1..Len(log[k])
  BY Given
<1>. QED  BY <1>1, <1>2

\* A step of the worker keeps the types of the pass and its frame when it
\* ends the pass, moves it on or puts its name back.
LEMMA PassSteps ==
  ASSUME MirrorInv, walk' = walk, NextKind \/ Fail \/ (pc' = "idle" /\ Forget /\ queued' \in BOOLEAN)
  PROVE  PassTyped' /\ FrameTyped'
<1>1. PassTyped
  BY DEF MirrorInv
<1>2. pos' \in 1..Len(walk)
  <2>1. \A n \in Nat : n # 0 => 1 \in 1..n /\ \A i \in 1..n : i < n => i + 1 \in 1..n
    OBVIOUS
  <2>2. Len(walk) \in Nat \ {0} /\ pos \in 1..Len(walk)
    BY Given DEF MirrorInv, PassTyped
  <2>. QED  BY <2>1, <2>2 DEF NextKind, Fail, Forget
<1>3. queued' \in BOOLEAN
  BY <1>1, Zenon DEF PassTyped, NextKind, Fail
<1>4. pc' \in {"idle", "source"} /\ seen' = 0 /\ got' = None
  BY DEF NextKind, Fail, Forget
<1>. QED  BY <1>1, <1>2, <1>3, <1>4 DEF PassTyped, FrameTyped

\* What leaves api alone keeps its types.
LEMMA ApiKept ==
  ASSUME MirrorInv, UNCHANGED api
  PROVE  Shape' /\ SourcesTyped' /\ TargetsTyped'
BY DEF MirrorInv, api, Shape, SourcesTyped, TargetsTyped

LEMMA CountKept ==
  ASSUME MirrorInv,
         \/ UNCHANGED << changes, edits, faults >>
         \/ faults < MaxFaults /\ faults' = faults + 1 /\ UNCHANGED << changes, edits >>
         \/ edits < MaxEdits /\ edits' = edits + 1 /\ UNCHANGED << changes, faults >>
         \/ changes < MaxChanges /\ changes' = changes + 1 /\ UNCHANGED << edits, faults >>
  PROVE  Counted'
BY ConstantsTyped DEF MirrorInv, Counted

\* The target of one kind changes.
LEMMA TargetStep ==
  ASSUME MirrorInv, NEW k \in Kinds, UNCHANGED << log, at >>,
         NEW s \in Stream(Targets(k) \cup {None}), tgt' = [tgt EXCEPT ![k] = s]
  PROVE  Shape' /\ SourcesTyped' /\ TargetsTyped'
BY DEF MirrorInv, Shape, SourcesTyped, TargetsTyped

\* What is stored in place of the target that was there.
Stores(k, v) ==
  /\ v \in Targets(k) \cup {None}
  /\ tgt' = [tgt EXCEPT ![k] = Commit(@, v)]

LEMMA StoresType ==
  ASSUME MirrorInv, NEW k \in Kinds, NEW v, UNCHANGED << log, at >>, Stores(k, v)
  PROVE  Shape' /\ SourcesTyped' /\ TargetsTyped'
<1>1. Commit(tgt[k], v) \in Stream(Targets(k) \cup {None})
  BY StreamCommit DEF Stores, MirrorInv, TargetsTyped
<1>2. tgt' = [tgt EXCEPT ![k] = Commit(tgt[k], v)]
  BY DEF Stores
<1>. QED  BY <1>1, <1>2, TargetStep

\* What CreateOrPatch stores, if anything, is a target: the one wanted, or
\* one with each field as it was or as it is wanted.
LEMMA StoreStep ==
  ASSUME MirrorInv, Store
  PROVE  \/ tgt' = tgt /\ Live(tgt[kind]) \in Targets(kind)
            /\ \A f \in Fields(kind) : Live(tgt[kind])[f] \in {Live(tgt[kind])[f], want[f]}
         \/ Live(tgt[kind]) = None /\ Stores(kind, want)
         \/ \E new \in Targets(kind) :
              /\ Live(tgt[kind]) \in Targets(kind) /\ Live(tgt[kind]) # None
              /\ new = Patched(Live(tgt[kind]))
              /\ \A f \in Fields(kind) : new[f] \in {Live(tgt[kind])[f], want[f]}
              /\ Stores(kind, new)
<1>. DEFINE live == Live(tgt[kind])
<1>0. kind \in Kinds /\ pc = "write" /\ want \in Targets(kind) /\ want # None
  BY Given DEF Store
<1>1. live \in Targets(kind) \cup {None}
  BY <1>0, Given
<1>2. CASE got = None
  <2>1. live = None
    BY <1>2 DEF Store
  <2>2. tgt' = [tgt EXCEPT ![kind] = Commit(@, want)]
    BY <1>0, <1>2, <2>1 DEF Store
  <2>. QED  BY <1>0, <2>1, <2>2 DEF Stores
<1>3. CASE got # None
  <2>1. live \in Targets(kind) /\ live # None
    BY <1>1, <1>3 DEF Store
  <2>2. DOMAIN live = Fields(kind)
    BY <1>0, <2>1, TargetFields
  <2>3. /\ Patched(live) = [f \in Fields(kind) |-> Patched(live)[f]]
        /\ \A f \in Fields(kind) : Patched(live)[f] \in {live[f], want[f]}
    BY <2>2 DEF Patched
  <2>4. Patched(live) \in Targets(kind)
    BY <1>0, <2>1, <2>3, MergeType
  <2>5. tgt' = tgt \/ tgt' = [tgt EXCEPT ![kind] = Commit(@, Patched(live))]
    BY <1>3 DEF Store
  <2>. QED  BY <2>1, <2>3, <2>4, <2>5 DEF Stores
<1>. QED  BY <1>2, <1>3

\* Store keeps the types of what is stored.
LEMMA StoreType ==
  ASSUME MirrorInv, Store \/ UNCHANGED tgt, UNCHANGED << log, at >>
  PROVE  Shape' /\ SourcesTyped' /\ TargetsTyped'
<1>1. CASE tgt' = tgt
  BY <1>1, ApiKept DEF api
<1>2. CASE tgt' # tgt
  <2>1. PICK v : Stores(kind, v)
    BY <1>2, StoreStep
  <2>. QED  BY <2>1, StoresType, Given
<1>. QED  BY <1>1, <1>2

\* A version of a source is added and the earlier ones stay.
LEMMA LogGrows ==
  ASSUME MirrorInv, NEW k \in Kinds, NEW v, log' = [log EXCEPT ![k] = Append(@, v)]
  PROVE  /\ log'[k] = Append(log[k], v) /\ Len(log'[k]) = Len(log[k]) + 1
         /\ log'[k][Len(log'[k])] = v
         /\ \A j \in Kinds : j # k => log'[j] = log[j]
         /\ \A j \in Kinds : \A i \in 1..Len(log[j]) : log'[j][i] = log[j][i]
<1>1. log[k] \in Seq(Source(k) \cup {None}) /\ Len(log[k]) \in Nat
  BY Given
<1>2. log'[k] = Append(log[k], v) /\ \A j \in Kinds : j # k => log'[j] = log[j]
  BY DEF MirrorInv, Shape
<1>3. /\ Len(Append(log[k], v)) = Len(log[k]) + 1
      /\ Append(log[k], v)[Len(log[k]) + 1] = v
      /\ \A i \in 1..Len(log[k]) : Append(log[k], v)[i] = log[k][i]
  BY <1>1
<1>. QED  BY <1>2, <1>3

LEMMA PublishType ==
  ASSUME MirrorInv, NEW k \in Kinds, NEW v \in Source(k) \cup {None}, Publish(k, v)
  PROVE  Shape' /\ SourcesTyped' /\ TargetsTyped' /\ PassTyped' /\ FrameTyped'
<1>1. /\ log' = [log EXCEPT ![k] = Append(@, v)] /\ at' = at /\ tgt' = tgt
      /\ UNCHANGED << walk, queued, frame >>
  BY DEF Publish
<1>2. Shape' /\ TargetsTyped'
  BY <1>1 DEF MirrorInv, Shape, TargetsTyped
<1>3. SourcesTyped'
  <2>1. ASSUME NEW j \in Kinds
        PROVE  log'[j] \in Stream(Source(j) \cup {None}) /\ at[j] \in 1..Len(log'[j])
    <3>1. CASE j = k
      <4>1. Commit(log[k], v) \in Stream(Source(k) \cup {None})
        BY StreamCommit DEF MirrorInv, SourcesTyped
      <4>2. log'[k] = Append(log[k], v) /\ Len(log'[k]) = Len(log[k]) + 1
        BY <1>1, LogGrows
      <4>3. at[k] \in 1..(Len(log[k]) + 1)
        BY Places
      <4>. QED  BY <3>1, <4>1, <4>2, <4>3 DEF Commit
    <3>2. CASE j # k
      BY <1>1, <3>2, LogGrows DEF MirrorInv, SourcesTyped
    <3>. QED  BY <3>1, <3>2
  <2>. QED  BY <1>1, <2>1 DEF SourcesTyped
<1>4. PassTyped'
  BY <1>1, Zenon DEF MirrorInv, PassTyped, frame
<1>5. FrameTyped'
  <2>1. kind' = kind /\ kind \in Kinds
    BY <1>1, Given DEF kind, frame
  <2>2. pc \in {"target", "write"} => log'[kind][seen] = log[kind][seen]
    BY <1>1, <2>1, Given, LogGrows
  <2>3. pc \in {"target", "write"} => want' = want
    BY <1>1, <2>1, <2>2 DEF want, frame
  <2>. QED  BY <1>1, <2>1, <2>3 DEF MirrorInv, FrameTyped, frame
<1>. QED  BY <1>2, <1>3, <1>4, <1>5

\* The steps that leave the pass under way alone, and the log.
LEMMA FrameKept ==
  ASSUME MirrorInv, UNCHANGED << walk, log, frame >>, queued' \in BOOLEAN,
         \A k \in Kinds : at'[k] \in Nat /\ at[k] <= at'[k]
  PROVE  PassTyped' /\ FrameTyped'
<1>1. kind' = kind /\ kind \in Kinds /\ want' = want
  BY Given DEF kind, want, frame
<1>2. \A a, b \in Nat : a <= b => \A i \in 1..a : i \in 1..b
  OBVIOUS
<1>3. at[kind] \in Nat
  BY <1>1, Places
<1>4. PassTyped'
  BY DEF MirrorInv, PassTyped, frame
<1>. QED  BY <1>1, <1>2, <1>3, <1>4 DEF MirrorInv, FrameTyped, frame

LEMMA WorkerType ==
  ASSUME MirrorInv, Worker \/ WriteFails \/ GetFails
  PROVE  MirrorInv'
<1>0. UNCHANGED << walk, log, at, changes, edits >>
  BY DEF Worker, ReconcileStart, GetSource, GetTarget, WriteTarget, WriteUnneeded,
    WriteRefused, WriteFails, GetFails, Fault, api
<1>1. Counted'
  <2>1. UNCHANGED faults \/ (faults < MaxFaults /\ faults' = faults + 1)
    BY DEF Worker, ReconcileStart, GetSource, GetTarget, WriteTarget, WriteUnneeded,
      WriteRefused, WriteFails, GetFails, Fault
  <2>. QED  BY <1>0, <2>1, CountKept
<1>2. Shape' /\ SourcesTyped' /\ TargetsTyped'
  <2>1. Store \/ UNCHANGED tgt
    BY DEF Worker, ReconcileStart, GetSource, GetTarget, WriteTarget, WriteUnneeded,
      WriteRefused, WriteFails, GetFails, Fault, api
  <2>. QED  BY <1>0, <2>1, StoreType
<1>3. PassTyped' /\ FrameTyped'
  <2>1. CASE NextKind \/ Fail
    BY <1>0, <2>1, PassSteps
  <2>2. CASE ~NextKind /\ ~Fail
    <3>0. kind \in Kinds /\ PassTyped
      BY Given DEF MirrorInv
    <3>1. CASE ReconcileStart
      <4>1. pc = "idle" /\ pc' = "source" /\ queued' \in BOOLEAN
            /\ UNCHANGED << pos, seen, got >>
        BY <3>1 DEF ReconcileStart
      <4>2. seen = 0 /\ got = None
        BY <4>1 DEF MirrorInv, FrameTyped
      <4>. QED  BY <1>0, <3>0, <4>1, <4>2 DEF PassTyped, FrameTyped
    <3>2. CASE GetSource
      <4>1. /\ pc = "source" /\ Wanted(kind, log[kind][at[kind]]) # None
            /\ seen' = at[kind] /\ pc' = "target" /\ UNCHANGED << pos, got, queued >>
        BY <2>2, <3>2 DEF GetSource
      <4>2. kind' = kind /\ got = None
        BY <1>0, <4>1 DEF kind, MirrorInv, FrameTyped
      <4>3. want' # None
        BY <1>0, <4>1, <4>2 DEF want
      <4>4. at[kind] \in 1..at[kind]
        BY <3>0, Places
      <4>5. PassTyped'
        BY <1>0, <3>0, <4>1 DEF PassTyped
      <4>. QED  BY <1>0, <4>1, <4>2, <4>3, <4>4, <4>5 DEF FrameTyped
    <3>3. CASE GetTarget
      <4>1. /\ pc = "target" /\ got' = Cached(tgt[kind]) /\ pc' = "write"
            /\ UNCHANGED << pos, seen, queued >>
        BY <2>2, <3>3 DEF GetTarget
      <4>2. kind' = kind /\ want' = want
        BY <1>0, <4>1 DEF kind, want
      <4>3. got' \in Targets(kind) \cup {None}
        BY <3>0, <4>1, Given
      <4>4. PassTyped'
        BY <1>0, <3>0, <4>1 DEF PassTyped
      <4>5. seen \in 1..at[kind] /\ want # None
        BY <4>1, Given
      <4>. QED  BY <1>0, <4>1, <4>2, <4>3, <4>4, <4>5 DEF FrameTyped
    <3>4. CASE WriteTarget \/ WriteUnneeded \/ WriteRefused \/ WriteFails \/ GetFails
      BY <2>2, <3>4 DEF WriteTarget, WriteUnneeded, WriteRefused, WriteFails, GetFails,
        CreateOrPatchFails
    <3>. QED  BY <3>1, <3>2, <3>3, <3>4 DEF Worker
  <2>. QED  BY <2>1, <2>2
<1>. QED  BY <1>1, <1>2, <1>3, MirrorInvParts

LEMMA DeliverType ==
  ASSUME MirrorInv, NEW k \in Kinds, DeliverSource(k) \/ DeliverTarget(k)
  PROVE  MirrorInv'
<1>1. Counted'
  BY CountKept DEF DeliverSource, DeliverTarget
<1>2. CASE DeliverSource(k)
  <2>1. at' = [at EXCEPT ![k] = at[k] + 1] /\ at[k] < Len(log[k])
    BY <1>2 DEF DeliverSource
  <2>2. \A j \in Kinds : at'[j] = IF j = k THEN at[j] + 1 ELSE at[j]
    BY <2>1 DEF MirrorInv, Shape
  <2>3. ASSUME NEW j \in Kinds
        PROVE  at[j] \in Nat \ {0} /\ at[j] \in 1..Len(log[j])
               /\ (at[j] < Len(log[j]) => at[j] + 1 \in 1..Len(log[j]))
    BY Places, Given
  <2>4. \A j \in Kinds : at'[j] \in 1..Len(log[j]) /\ at[j] <= at'[j] /\ at'[j] \in Nat
    BY <2>1, <2>2, <2>3
  <2>5. Shape' /\ SourcesTyped' /\ TargetsTyped'
    BY <1>2, <2>1, <2>4 DEF DeliverSource, MirrorInv, Shape, SourcesTyped, TargetsTyped
  <2>6. PassTyped' /\ FrameTyped'
    BY <1>2, <2>4, FrameKept DEF DeliverSource
  <2>. QED  BY <1>1, <2>5, <2>6, MirrorInvParts
<1>3. CASE DeliverTarget(k)
  <2>1. Delivered(tgt[k]) \in Stream(Targets(k) \cup {None})
    BY <1>3, StreamDelivered DEF DeliverTarget, MirrorInv, TargetsTyped
  <2>2. Shape' /\ SourcesTyped' /\ TargetsTyped'
    BY <1>3, <2>1, TargetStep DEF DeliverTarget
  <2>3. \A j \in Kinds : at'[j] \in Nat /\ at[j] <= at'[j]
    <3>1. \A j \in Kinds : at[j] \in Nat
      BY Places
    <3>. QED  BY <1>3, <3>1 DEF DeliverTarget
  <2>4. queued' \in BOOLEAN
    BY <1>3, Zenon DEF DeliverTarget, MirrorInv, PassTyped
  <2>5. PassTyped' /\ FrameTyped'
    BY <1>3, <2>3, <2>4, FrameKept DEF DeliverTarget
  <2>. QED  BY <1>1, <2>2, <2>5, MirrorInvParts
<1>. QED  BY <1>2, <1>3

LEMMA RestartType ==
  ASSUME MirrorInv, Restart
  PROVE  MirrorInv'
<1>1. Counted'
  BY CountKept DEF Restart, Fault
<1>2. /\ \A k \in Kinds : at'[k] = Len(log[k]) /\ tgt'[k] = Relisted(tgt[k])
      /\ log' = log /\ Shape'
  BY DEF Restart, Shape, MirrorInv
<1>3. SourcesTyped'
  <2>1. \A k \in Kinds : Len(log[k]) \in 1..Len(log[k])
    BY Places
  <2>. QED  BY <1>2, <2>1 DEF MirrorInv, SourcesTyped
<1>4. TargetsTyped'
  BY <1>2, StreamRelisted DEF MirrorInv, TargetsTyped
<1>5. PassTyped' /\ FrameTyped'
  <2>1. queued' \in BOOLEAN
    BY Zenon DEF Restart
  <2>. QED  BY <2>1, PassSteps DEF Restart
<1>. QED  BY <1>1, <1>2, <1>3, <1>4, <1>5, MirrorInvParts

\* Users and Flux write a version of a source.
Writes(k) == \E v \in Source(k) \cup {None} : Publish(k, v)

LEMMA SourceSteps ==
  ASSUME MirrorInv, NEW k \in Kinds,
         \/ \E b \in Bodies[k] : CreateSource(k, b) \/ UpdateSource(k, b)
         \/ DeleteSource(k) \/ RemoveSource(k)
  PROVE  /\ Writes(k)
         /\ \/ changes' = changes
            \/ changes < MaxChanges /\ changes' = changes + 1
<1>0. stored(k) \in Source(k) \cup {None} /\ Len(log[k]) \in Nat
  BY Given
<1>1. ASSUME NEW b \in Bodies[k], CreateSource(k, b) PROVE Writes(k)
  <2>1. [uid |-> Len(log[k]), deleting |-> FALSE, body |-> b] \in Source(k)
    BY <1>0 DEF Source
  <2>. QED  BY <1>1, <2>1 DEF CreateSource, Writes
<1>2. ASSUME NEW b \in Bodies[k], UpdateSource(k, b) PROVE Writes(k)
  <2>1. [stored(k) EXCEPT !.body = b] \in Source(k)
    BY <1>0, <1>2 DEF UpdateSource, Source
  <2>. QED  BY <1>2, <2>1 DEF UpdateSource, Writes
<1>3. CASE DeleteSource(k)
  <2>1. [stored(k) EXCEPT !.deleting = TRUE] \in Source(k)
    BY <1>0, <1>3 DEF DeleteSource, Source
  <2>. QED  BY <1>3, <2>1 DEF DeleteSource, Writes, Change
<1>4. CASE RemoveSource(k)
  BY <1>4 DEF RemoveSource, Writes
<1>5. ASSUME NEW b \in Bodies[k], CreateSource(k, b) \/ UpdateSource(k, b)
      PROVE  changes < MaxChanges /\ changes' = changes + 1
  BY <1>5 DEF CreateSource, UpdateSource, Change
<1>. QED  BY <1>1, <1>2, <1>3, <1>4, <1>5

LEMMA SourceStepsType ==
  ASSUME MirrorInv, NEW k \in Kinds, Writes(k),
         \/ changes' = changes
         \/ changes < MaxChanges /\ changes' = changes + 1
  PROVE  MirrorInv'
<1>1. PICK v \in Source(k) \cup {None} : Publish(k, v)
  BY DEF Writes
<1>2. Shape' /\ SourcesTyped' /\ TargetsTyped' /\ PassTyped' /\ FrameTyped'
  BY <1>1, PublishType
<1>3. Counted'
  BY <1>1, CountKept DEF Publish
<1>. QED  BY <1>2, <1>3, MirrorInvParts

\* Others write to or delete a target.
LEMMA TargetSteps ==
  ASSUME MirrorInv, NEW k \in Kinds, EditTarget(k) \/ CollectTarget(k)
  PROVE  /\ \E v : Stores(k, v)
         /\ UNCHANGED << walk, log, at, queued, frame, changes, faults >>
         /\ edits' = edits \/ (edits < MaxEdits /\ edits' = edits + 1)
<1>1. CASE EditTarget(k)
  <2>1. Live(tgt[k]) \in Targets(k)
    BY <1>1, Given DEF EditTarget
  <2>2. DOMAIN Live(tgt[k]) = Fields(k)
    BY <2>1, TargetFields
  <2>3. \A f \in Fields(k) \ {"owner"} :
          [Live(tgt[k]) EXCEPT ![f] = Foreign] \in Targets(k)
    BY <2>1, ForeignType
  <2>4. \E v \in Targets(k) \cup {None} : tgt' = [tgt EXCEPT ![k] = Commit(@, v)]
    BY <1>1, <2>2, <2>3 DEF EditTarget
  <2>. QED  BY <1>1, <2>4 DEF EditTarget, Stores
<1>2. CASE CollectTarget(k)
  <2>1. Stores(k, None)
    BY <1>2 DEF CollectTarget, Stores
  <2>. QED  BY <1>2, <2>1 DEF CollectTarget
<1>. QED  BY <1>1, <1>2

LEMMA TargetStepsType ==
  ASSUME MirrorInv, NEW k \in Kinds, EditTarget(k) \/ CollectTarget(k)
  PROVE  MirrorInv'
<1>0. /\ UNCHANGED << walk, log, at, queued, frame, changes, faults >>
      /\ edits' = edits \/ (edits < MaxEdits /\ edits' = edits + 1)
  BY TargetSteps
<1>1. Shape' /\ SourcesTyped' /\ TargetsTyped'
  <2>1. PICK v : Stores(k, v)
    BY TargetSteps
  <2>. QED  BY <1>0, <2>1, StoresType
<1>2. PassTyped' /\ FrameTyped'
  <2>1. \A j \in Kinds : at[j] \in Nat
    BY Places
  <2>2. queued' \in BOOLEAN
    BY <1>0, Zenon DEF MirrorInv, PassTyped
  <2>. QED  BY <1>0, <2>1, <2>2, FrameKept
<1>3. Counted'
  BY <1>0, CountKept
<1>. QED  BY <1>1, <1>2, <1>3, MirrorInvParts

LEMMA QuietType ==
  ASSUME MirrorInv, Resync \/ UNCHANGED vars
  PROVE  MirrorInv'
<1>0. UNCHANGED << walk, api, frame, changes, edits, faults >>
  BY DEF Resync, vars
<1>1. Shape' /\ SourcesTyped' /\ TargetsTyped'
  BY <1>0, ApiKept
<1>2. PassTyped' /\ FrameTyped'
  <2>1. \A j \in Kinds : at[j] \in Nat
    BY Places
  <2>2. queued' \in BOOLEAN
    BY Zenon DEF MirrorInv, PassTyped, Resync, vars
  <2>. QED  BY <1>0, <2>1, <2>2, FrameKept DEF api
<1>3. Counted'
  BY <1>0, CountKept
<1>. QED  BY <1>1, <1>2, <1>3, MirrorInvParts

\* A step is one of these; the ones of users, events and the collector are
\* about a kind.
LEMMA StepCases ==
  ASSUME MirrorInv, [Next]_vars
  PROVE  \/ Worker \/ WriteFails \/ GetFails
         \/ Restart
         \/ Resync \/ UNCHANGED vars
         \/ \E k \in Kinds : DeliverSource(k) \/ DeliverTarget(k)
         \/ \E k \in Kinds : EditTarget(k) \/ CollectTarget(k)
         \/ \E k \in Kinds : /\ Writes(k)
                             /\ \/ changes' = changes
                                \/ changes < MaxChanges /\ changes' = changes + 1
<1>1. Active \subseteq Kinds
  BY Given
<1>2. CASE Deliver
  BY <1>1, <1>2 DEF Deliver
<1>3. CASE Users
  BY <1>1, <1>3, SourceSteps DEF Users
<1>4. CASE Collect
  BY <1>1, <1>4, SourceSteps DEF Collect
<1>. QED  BY <1>2, <1>3, <1>4 DEF Next, Faults

LEMMA MirrorStep == MirrorInv /\ [Next]_vars => MirrorInv'
BY StepCases, WorkerType, RestartType, QuietType, DeliverType, TargetStepsType,
  SourceStepsType

\* No controller reads or writes a target before it has read a version of
\* the source that calls for it, and every target is well formed.
THEOREM MirrorTypeCorrect == Spec => []TypeOK
<1>. QED  BY MirrorInit, MirrorStep, MirrorInvTypes, PTL DEF Spec

-----------------------------------------------------------------------------
(* The controllers implement Mirror.                                         *)

Mark == [k \in Kinds |-> IF pc \in {"target", "write"} /\ kind = k
                         THEN seen ELSE at[k]]
Copies == [k \in Kinds |-> Live(tgt[k])]

Advances == \A k \in Kinds : Mark'[k] \in Mark[k]..Len(log[k])

\* The actions of Mirror, under the mapping.
LEMMA Mapped ==
  /\ M!Observe <=> Advances /\ UNCHANGED << log, Copies, edits >>
  /\ \A k \in Kinds : M!Publish(k) <=>
       /\ Len(log'[k]) = Len(log[k]) + 1
       /\ log' = [log EXCEPT ![k] = Append(@, log'[k][Len(@) + 1])]
       /\ UNCHANGED << Mark, Copies, edits >>
  /\ \A k \in Kinds : M!Edit(k) <=>
       /\ Copies' = [Copies EXCEPT ![k] = Copies'[k]]
       /\ edits' = edits + 1 /\ UNCHANGED << log, Mark >>
BY DEF M!Observe, M!Forward, M!Publish, M!Edit, Mark, Copies, Advances

LEMMA MappedVars == M!vars = << log, Mark, Copies, edits >>
BY DEF M!vars, Mark, Copies

LEMMA MappedInit == Init => M!Init
BY DEF Init, M!Init, Live

\* The mark is a place of the log and a step that keeps the frame keeps it.
LEMMA MarkType ==
  ASSUME MirrorInv, NEW k \in Kinds
  PROVE  /\ Mark[k] \in Nat \ {0} /\ Mark[k] <= at[k] /\ Mark[k] <= Len(log[k])
         /\ at[k] \in Mark[k]..Len(log[k]) /\ Len(log[k]) \in Mark[k]..Len(log[k])
         /\ Mark[k] \in Mark[k]..Len(log[k])
<1>1. at[k] \in Nat \ {0} /\ Len(log[k]) \in Nat \ {0} /\ at[k] <= Len(log[k])
  BY Places
<1>2. Mark[k] \in Nat \ {0} /\ Mark[k] <= at[k]
  <2>1. CASE pc \in {"target", "write"} /\ kind = k
    <3>1. seen \in 1..at[k]
      BY <2>1, Given
    <3>. QED  BY <1>1, <2>1, <3>1 DEF Mark
  <2>2. CASE ~(pc \in {"target", "write"} /\ kind = k)
    BY <1>1, <2>2 DEF Mark
  <2>. QED  BY <2>1, <2>2
<1>3. \A m, a, n \in Nat : m <= a /\ a <= n => a \in m..n /\ n \in m..n /\ m \in m..n /\ m <= n
  OBVIOUS
<1>. QED  BY <1>1, <1>2, <1>3

\* A step of the worker leaves the mark or moves it to what the cache holds.
LEMMA WorkerMark ==
  ASSUME MirrorInv, Worker \/ WriteFails \/ GetFails
  PROVE  \A k \in Kinds : Mark'[k] = Mark[k] \/ Mark'[k] = at[k]
<1>0. UNCHANGED << walk, at >>
  BY DEF Worker, ReconcileStart, GetSource, GetTarget, WriteTarget, WriteUnneeded,
    WriteRefused, WriteFails, GetFails, Fault, api
<1>1. CASE pc' \notin {"target", "write"}
  BY <1>0, <1>1 DEF Mark
<1>2. CASE pc' \in {"target", "write"}
  <2>1. \/ pc = "source" /\ seen' = at[kind] /\ pos' = pos
        \/ pc = "target" /\ seen' = seen /\ pos' = pos
    BY <1>2 DEF Worker, ReconcileStart, GetSource, GetTarget, WriteTarget, WriteUnneeded,
      WriteRefused, WriteFails, GetFails, CreateOrPatchFails, NextKind, Fail
  <2>2. kind' = kind
    BY <1>0, <2>1 DEF kind
  <2>. QED  BY <1>0, <1>2, <2>1, <2>2 DEF Mark
<1>. QED  BY <1>1, <1>2

LEMMA WorkerAdvances ==
  ASSUME MirrorInv, Worker \/ WriteFails \/ GetFails
  PROVE  Advances
BY WorkerMark, MarkType DEF Advances

\* A write of CreateOrPatch is a Copy of the known version.
LEMMA StoreCopies ==
  ASSUME MirrorInv, Store, WriteTarget \/ WriteFails
  PROVE  M!Copy(kind)
<1>. DEFINE live == Live(tgt[kind])
<1>0. kind \in Kinds /\ want \in Targets(kind) /\ want # None /\ pc = "write"
  BY Given DEF Store
<1>1. UNCHANGED << log, edits >> /\ Advances
  BY WorkerAdvances DEF WriteTarget, WriteFails, Worker
<1>2. want = Wanted(kind, log[kind][Mark[kind]])
  BY <1>0 DEF want, Mark
<1>3. Copies[kind] = live /\ DOMAIN want = Fields(kind)
  BY <1>0, TargetFields DEF Copies
<1>4. ASSUME NEW v, Stores(kind, v)
      PROVE  Copies' = [Copies EXCEPT ![kind] = v] /\ Copies'[kind] = v
  <2>1. Live(Commit(tgt[kind], v)) = v
    BY <1>0, <1>4, StreamCommit DEF Stores, MirrorInv, TargetsTyped
  <2>2. \A k \in Kinds : tgt'[k] = IF k = kind THEN Commit(tgt[k], v) ELSE tgt[k]
    BY <1>0, <1>4 DEF Stores, MirrorInv, Shape
  <2>3. \A k \in Kinds : Live(tgt'[k]) = IF k = kind THEN v ELSE Live(tgt[k])
    BY <2>1, <2>2
  <2>4. Copies' = [k \in Kinds |-> IF k = kind THEN v ELSE Live(tgt[k])]
    BY <2>3 DEF Copies
  <2>. QED  BY <1>0, <2>4 DEF Copies
<1>5. /\ Copies' = [Copies EXCEPT ![kind] = Copies'[kind]]
      /\ IF Copies[kind] = None THEN Copies'[kind] = want
         ELSE /\ DOMAIN Copies'[kind] = DOMAIN want
              /\ \A f \in DOMAIN want : Copies'[kind][f] \in {Copies[kind][f], want[f]}
  <2>1. CASE live = None /\ Stores(kind, want)
    BY <1>3, <1>4, <2>1
  <2>2. CASE live # None /\ \E new \in Targets(kind) :
               /\ \A f \in Fields(kind) : new[f] \in {live[f], want[f]}
               /\ Stores(kind, new)
    <3>1. PICK new \in Targets(kind) :
               /\ \A f \in Fields(kind) : new[f] \in {live[f], want[f]}
               /\ Stores(kind, new)
      BY <2>2
    <3>2. DOMAIN new = Fields(kind)
      BY <1>0, <3>1, TargetFields
    <3>3. Copies' = [Copies EXCEPT ![kind] = new] /\ Copies'[kind] = new
      BY <1>4, <3>1
    <3>. QED  BY <1>3, <2>2, <3>1, <3>2, <3>3
  <2>3. CASE tgt' = tgt /\ live \in Targets(kind) /\ live # None
    <3>1. Copies' = Copies
      BY <2>3 DEF Copies
    <3>2. DOMAIN live = Fields(kind)
      BY <1>0, <2>3, TargetFields
    <3>3. Copies = [Copies EXCEPT ![kind] = Copies[kind]]
      BY DEF Copies
    <3>. QED  BY <1>3, <2>3, <3>1, <3>2, <3>3
  <2>4. CASE tgt' = tgt /\ live = None
    <3>1. got = None /\ want # live
      BY <1>0, <2>4 DEF Store
    <3>2. Stores(kind, want)
      BY <1>0, <3>1, <2>4 DEF Store, Stores
    <3>. QED  BY <1>3, <1>4, <2>4, <3>2
  <2>5. live = None \/ live # None
    OBVIOUS
  <2>. QED  BY <2>1, <2>2, <2>3, <2>4, <2>5, StoreStep
<1>. QED  BY <1>0, <1>1, <1>2, <1>5 DEF M!Copy, M!Forward, Advances, Mark, Copies

\* Each step of the controllers and their surroundings is a step of Mirror
\* or leaves it alone.
LEMMA MappedStep == MirrorInv /\ [Next]_vars => [M!Next]_(M!vars)
<1>. SUFFICES ASSUME MirrorInv, [Next]_vars PROVE [M!Next]_(M!vars)
  OBVIOUS
<1>1. CASE Worker \/ WriteFails \/ GetFails
  <2>1. CASE Store /\ (WriteTarget \/ WriteFails)
    <3>. kind \in Kinds
      BY Given
    <3>. QED  BY <2>1, StoreCopies DEF M!Next
  <2>2. CASE UNCHANGED tgt
    <3>1. UNCHANGED << log, Copies, edits >>
      BY <1>1, <2>2 DEF Worker, ReconcileStart, GetSource, GetTarget, WriteTarget,
        WriteUnneeded, WriteRefused, WriteFails, GetFails, Fault, api, Copies
    <3>. QED  BY <1>1, <3>1, WorkerAdvances, Mapped DEF M!Next
  <2>3. UNCHANGED tgt \/ (Store /\ (WriteTarget \/ WriteFails))
    BY <1>1 DEF Worker, ReconcileStart, GetSource, GetTarget, WriteTarget,
      WriteUnneeded, WriteRefused, WriteFails, GetFails, api
  <2>. QED  BY <2>1, <2>2, <2>3
<1>2. CASE Restart
  <2>1. Advances
    <3>1. \A k \in Kinds : Mark'[k] = Len(log[k])
      BY <1>2 DEF Restart, Mark
    <3>. QED  BY <3>1, MarkType DEF Advances
  <2>2. Copies' = Copies
    <3>1. \A k \in Kinds : Live(tgt'[k]) = Live(tgt[k])
      BY <1>2, StreamRelisted DEF Restart, MirrorInv, TargetsTyped
    <3>. QED  BY <3>1 DEF Copies
  <2>. QED  BY <1>2, <2>1, <2>2, Mapped DEF Restart, M!Next
<1>3. CASE Resync \/ UNCHANGED vars
  <2>1. UNCHANGED << log, Mark, Copies, edits >>
    BY <1>3 DEF Resync, vars, api, frame, Mark, Copies, kind
  <2>. QED  BY <2>1, MappedVars DEF M!vars, Mark, Copies
<1>4. ASSUME NEW k \in Kinds, DeliverSource(k) PROVE [M!Next]_(M!vars)
  <2>1. \A j \in Kinds : at'[j] = IF j = k THEN at[j] + 1 ELSE at[j]
    BY <1>4 DEF DeliverSource, MirrorInv, Shape
  <2>2. kind' = kind /\ UNCHANGED << log, Copies, edits, pc, seen >>
    BY <1>4 DEF DeliverSource, frame, kind, Copies
  <2>3. ASSUME NEW j \in Kinds PROVE Mark'[j] \in Mark[j]..Len(log[j])
    <3>1. CASE Mark'[j] = Mark[j]
      BY <3>1, MarkType
    <3>2. CASE Mark'[j] # Mark[j]
      <4>1. j = k /\ Mark[j] = at[j] /\ Mark'[j] = at[j] + 1
        BY <2>1, <2>2, <3>2 DEF Mark
      <4>2. at[j] \in Nat /\ Len(log[j]) \in Nat /\ at[j] < Len(log[j])
        BY <1>4, <4>1, Places DEF DeliverSource
      <4>3. \A a, n \in Nat : a < n => a + 1 \in a..n
        OBVIOUS
      <4>. QED  BY <4>1, <4>2, <4>3
    <3>. QED  BY <3>1, <3>2
  <2>. QED  BY <2>2, <2>3, Mapped DEF Advances, M!Next
<1>5. ASSUME NEW k \in Kinds, DeliverTarget(k) PROVE [M!Next]_(M!vars)
  <2>1. Live(Delivered(tgt[k])) = Live(tgt[k])
    BY <1>5, StreamDelivered DEF DeliverTarget, MirrorInv, TargetsTyped
  <2>2. \A j \in Kinds : Live(tgt'[j]) = Live(tgt[j])
    BY <1>5, <2>1 DEF DeliverTarget, MirrorInv, Shape
  <2>3. UNCHANGED << log, Mark, Copies, edits >>
    BY <1>5, <2>2 DEF DeliverTarget, frame, Mark, Copies, kind
  <2>. QED  BY <2>3, MappedVars DEF M!vars, Mark, Copies
<1>6. ASSUME NEW k \in Kinds, NEW v, Publish(k, v) PROVE M!Publish(k)
  <2>1. /\ Len(log'[k]) = Len(log[k]) + 1 /\ log'[k][Len(log'[k])] = v
        /\ log' = [log EXCEPT ![k] = Append(@, v)]
    BY <1>6, LogGrows DEF Publish
  <2>2. UNCHANGED << Mark, Copies, edits >>
    BY <1>6 DEF Publish, frame, Mark, Copies, kind
  <2>3. log' = [log EXCEPT ![k] = Append(@, log'[k][Len(@) + 1])]
    BY <2>1
  <2>. QED  BY <2>1, <2>2, <2>3, Mapped
<1>7. ASSUME NEW k \in Kinds, EditTarget(k) \/ CollectTarget(k)
      PROVE  M!Edit(k) \/ M!Collect(k)
  <2>1. PICK v : Stores(k, v)
    BY <1>7, TargetSteps
  <2>2. /\ \A j \in Kinds : j # k => tgt'[j] = tgt[j]
        /\ Live(tgt'[k]) = v
    <3>0. v \in Targets(k) \cup {None} /\ tgt[k] \in Stream(Targets(k) \cup {None})
      BY <2>1 DEF Stores, MirrorInv, TargetsTyped
    <3>1. Live(Commit(tgt[k], v)) = v
      BY <3>0, StreamCommit
    <3>. QED  BY <2>1, <3>1 DEF Stores, MirrorInv, Shape
  <2>3. Copies' = [Copies EXCEPT ![k] = v] /\ Copies'[k] = v
    BY <2>2 DEF Copies
  <2>4. UNCHANGED << log, Mark >>
    <3>1. UNCHANGED << walk, log, at, frame >>
      BY <1>7, TargetSteps
    <3>. QED  BY <3>1 DEF frame, Mark, kind
  <2>5. CASE EditTarget(k)
    BY <2>3, <2>4, <2>5, Mapped DEF EditTarget
  <2>6. CASE CollectTarget(k)
    <3>1. Copies'[k] = None /\ edits' = edits
      <4>1. tgt' = [tgt EXCEPT ![k] = Commit(@, None)] /\ edits' = edits
        BY <2>6 DEF CollectTarget
      <4>2. Stores(k, None)
        BY <4>1 DEF Stores
      <4>3. Live(Commit(tgt[k], None)) = None
        <5>1. tgt[k] \in Stream(Targets(k) \cup {None}) /\ None \in Targets(k) \cup {None}
          BY DEF MirrorInv, TargetsTyped
        <5>. QED  BY <5>1, StreamCommit
      <4>4. Live(tgt'[k]) = None
        BY <4>1, <4>3 DEF MirrorInv, Shape
      <4>. QED  BY <4>1, <4>4 DEF Copies
    <3>2. Copies' = [Copies EXCEPT ![k] = None]
      BY <2>3, <3>1
    <3>3. /\ Copies[k] # None
          /\ \/ stored(k) = None
             \/ stored(k) # None /\ (Copies[k].owner # stored(k).uid \/ stored(k).deleting)
      BY <2>6 DEF CollectTarget, Garbage, Copies
    <3>. QED  BY <2>4, <3>1, <3>2, <3>3 DEF M!Collect, Copies, Mark, stored
  <2>. QED  BY <1>7, <2>5, <2>6
<1>8. ASSUME NEW k \in Kinds, M!Edit(k) \/ M!Collect(k) \/ M!Publish(k)
      PROVE  M!Next
  BY <1>8 DEF M!Next
<1>9. ASSUME NEW k \in Kinds, Writes(k) PROVE M!Publish(k)
  BY <1>6, <1>9 DEF Writes
<1>. QED  BY <1>1, <1>2, <1>3, <1>4, <1>5, <1>7, <1>8, <1>9, StepCases

\* However reads, events, failures and restarts interleave, a target only
\* moves forward along the versions of its source, field by field: the
\* controllers implement Mirror.
THEOREM MirrorsMoveForward == Spec => MovesForward
<1>. QED  BY MirrorInit, MirrorStep, MappedInit, MappedStep, PTL DEF Spec, MovesForward, M!Spec
=============================================================================
