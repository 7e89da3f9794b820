--------------------- MODULE KustomizationDeletionProofs ---------------------
(* Proofs about KustomizationDeletion, for every value of its constants.     *)
EXTENDS KustomizationDeletion, InformerProofs

-----------------------------------------------------------------------------
(* Types.                                                                   *)

Kust == Kustomization \cup {None}
Wl == Workload \cup {None}

\* What the streams of a typed state hold.
LEMMA Reads ==
  ASSUME TypeOK
  PROVE  /\ Cached(wl) \in Wl /\ Live(wl) \in Wl
         /\ Cached(kust) \in Kust /\ Live(kust) \in Kust
         /\ Cached(secret) \in BOOLEAN /\ Live(secret) \in BOOLEAN
BY StreamRead DEF TypeOK, Kust, Wl

\* The variables of each part keep their types when its streams change by a
\* write, an event or a list.
LEMMA StreamSteps ==
  ASSUME NEW S, NEW s \in Stream(S)
  PROVE  /\ \A v \in S : Commit(s, v) \in Stream(S)
         /\ ~Synced(s) => Delivered(s) \in Stream(S)
         /\ Relisted(s) \in Stream(S)
BY StreamCommit, StreamDelivered, StreamRelisted

\* An edit of a Kustomization or workload is one.
LEMMA Edits ==
  /\ \A k \in Kustomization, b \in BOOLEAN :
       /\ [k EXCEPT !.prune = b] \in Kustomization
       /\ [k EXCEPT !.deleting = b] \in Kustomization
       /\ [k EXCEPT !.prune = b].deleting = k.deleting
       /\ [k EXCEPT !.deleting = b].prune = k.prune
  /\ \A w \in Workload, b \in BOOLEAN :
       /\ [w EXCEPT !.remote = b] \in Workload
       /\ [w EXCEPT !.deleting = b] \in Workload
BY DEF Kustomization, Workload

\* The variables that no stream is in have their types to start with.
LEMMA DeletionInit == Init => TypeOK
<1>. SUFFICES ASSUME Init PROVE TypeOK
  OBVIOUS
<1>1. PICK r \in BOOLEAN : wl = << [deleting |-> FALSE, remote |-> r] >>
  BY DEF Init
<1>2. [deleting |-> FALSE, remote |-> r] \in Workload
  BY DEF Workload
<1>3. wl \in Stream(Workload \cup {None}) /\ kust \in Stream(Kustomization \cup {None})
  BY <1>1, <1>2, StreamOne DEF Init
<1>4. secret \in Stream(BOOLEAN) /\ Live(secret) \in BOOLEAN
  <2>1. CASE secret = << TRUE >>
    BY <2>1, StreamOne, Zenon
  <2>2. CASE secret = << FALSE >>
    BY <2>2, StreamOne, Zenon
  <2>. QED  BY <2>1, <2>2 DEF Init
<1>5. missed \in BOOLEAN /\ kqueued \in BOOLEAN /\ wqueued \in BOOLEAN
  BY <1>4, Zenon DEF Init
<1>6. changes \in 0..MaxChanges /\ faults \in 0..MaxFaults
  BY ConstantsTyped DEF Init
<1>7. /\ kpc \in {"idle", "secret", "patch"} /\ wpc \in {"idle", "get", "write"}
      /\ wpc = "idle" /\ seen = None /\ got = None
  BY DEF Init
<1>. QED  BY <1>3, <1>4, <1>5, <1>6, <1>7, Zenon DEF TypeOK

\* What the workload controller writes is a Kustomization with prune, unless
\* the one it patches has none.
Rewritten(live) ==
  [live EXCEPT
     !.remote = IF got.remote = seen.remote THEN live.remote ELSE seen.remote,
     !.prune = live.prune \/ ~got.prune]

LEMMA RewrittenType ==
  ASSUME NEW live \in Kustomization, got \in Kustomization, seen \in Workload
  PROVE  /\ Rewritten(live) \in Kustomization
         /\ Rewritten(live).deleting = live.deleting
         /\ Rewritten(live).prune = (live.prune \/ ~got.prune)
         /\ Rewritten(live).remote =
              IF got.remote = seen.remote THEN live.remote ELSE seen.remote
<1>. DEFINE r == IF got.remote = seen.remote THEN live.remote ELSE seen.remote
            p == live.prune \/ ~got.prune
<1>1. r \in BOOLEAN /\ p \in BOOLEAN
  BY DEF Kustomization, Workload
<1>. HIDE DEF r, p
<1>2. /\ [live EXCEPT !.remote = r, !.prune = p] \in Kustomization
      /\ [live EXCEPT !.remote = r, !.prune = p].deleting = live.deleting
      /\ [live EXCEPT !.remote = r, !.prune = p].remote = r
      /\ [live EXCEPT !.remote = r, !.prune = p].prune = p
  BY <1>1 DEF Kustomization
<1>. QED  BY <1>2 DEF Rewritten, r, p

ApiTyped ==
  /\ wl \in Stream(Workload \cup {None})
  /\ kust \in Stream(Kustomization \cup {None})
  /\ secret \in Stream(BOOLEAN) /\ missed \in BOOLEAN

KTyped == kqueued \in BOOLEAN /\ kpc \in {"idle", "secret", "patch"}

WTyped ==
  /\ wqueued \in BOOLEAN /\ wpc \in {"idle", "get", "write"}
  /\ IF wpc = "idle" THEN seen = None ELSE seen \in Workload
  /\ got \in Kustomization \cup {None}
  /\ wpc # "write" => got = None

Counted == changes \in 0..MaxChanges /\ faults \in 0..MaxFaults

LEMMA TypeParts ==
  /\ TypeOK <=> ApiTyped /\ KTyped /\ WTyped /\ Counted
  /\ TypeOK' <=> ApiTyped' /\ KTyped' /\ WTyped' /\ Counted'
BY Zenon DEF TypeOK, ApiTyped, KTyped, WTyped, Counted

\* A part that is left alone keeps its types.
LEMMA TypeKept ==
  /\ ApiTyped /\ UNCHANGED api => ApiTyped'
  /\ KTyped /\ UNCHANGED kctl => KTyped'
  /\ WTyped /\ UNCHANGED wctl => WTyped'
  /\ Counted /\ UNCHANGED << changes, faults >> => Counted'
BY Zenon DEF ApiTyped, KTyped, WTyped, Counted, api, kctl, wctl

\* A counter that is below its bound may be increased.
LEMMA CountStep ==
  ASSUME Counted, \/ UNCHANGED << changes, faults >>
                  \/ changes < MaxChanges /\ changes' = changes + 1 /\ faults' = faults
                  \/ faults < MaxFaults /\ faults' = faults + 1 /\ changes' = changes
  PROVE  Counted'
BY ConstantsTyped DEF Counted

\* What a step may make of a stream.
Follows(new, old, S) ==
  \/ new = old
  \/ \E v \in S : new = Commit(old, v)
  \/ ~Synced(old) /\ new = Delivered(old)
  \/ new = Relisted(old)

LEMMA FollowsType ==
  ASSUME NEW S, NEW s \in Stream(S), NEW n, Follows(n, s, S)
  PROVE  n \in Stream(S)
BY StreamSteps DEF Follows

LEMMA ApiStep ==
  ASSUME ApiTyped, Follows(wl', wl, Workload \cup {None}),
         Follows(kust', kust, Kustomization \cup {None}),
         Follows(secret', secret, BOOLEAN), missed' \in BOOLEAN
  PROVE  ApiTyped'
BY FollowsType DEF ApiTyped

\* A write of the workload controller, a release and a mark.
LEMMA KustSteps ==
  ASSUME TypeOK
  PROVE  /\ WriteKustomization => Follows(kust', kust, Kustomization \cup {None})
         /\ Release => Follows(kust', kust, Kustomization \cup {None})
         /\ MarkDeleted => Follows(kust', kust, Kustomization \cup {None})
<1>. Live(kust) \in Kustomization \cup {None}
  BY Reads DEF Kust
<1>1. ASSUME WriteKustomization
      PROVE  Follows(kust', kust, Kustomization \cup {None})
  <2>1. seen \in Workload /\ got \in Kustomization \cup {None}
    BY <1>1 DEF WriteKustomization, TypeOK
  <2>2. CASE got = None
    <3>. DEFINE new == [deleting |-> FALSE, remote |-> seen.remote, prune |-> TRUE]
    <3>1. new \in Kustomization
      BY <2>1 DEF Workload, Kustomization
    <3>2. kust' = kust \/ kust' = Commit(kust, new)
      BY <1>1, <2>2 DEF WriteKustomization
    <3>. QED  BY <3>1, <3>2 DEF Follows
  <2>3. CASE got # None
    <3>1. Live(kust) \in Kustomization /\ got \in Kustomization
      BY <1>1, <2>1, <2>3 DEF WriteKustomization
    <3>2. Rewritten(Live(kust)) \in Kustomization
      BY <2>1, <3>1, RewrittenType
    <3>3. kust' = kust \/ kust' = Commit(kust, Rewritten(Live(kust)))
      BY <1>1, <2>3 DEF WriteKustomization, Rewritten
    <3>. QED  BY <3>2, <3>3 DEF Follows
  <2>. QED  BY <2>2, <2>3
<1>2. ASSUME Release
      PROVE  Follows(kust', kust, Kustomization \cup {None})
  <2>1. [Live(kust) EXCEPT !.prune = FALSE] \in Kustomization
    BY <1>2, Edits DEF Release
  <2>. QED  BY <1>2, <2>1 DEF Release, Follows
<1>3. ASSUME MarkDeleted
      PROVE  Follows(kust', kust, Kustomization \cup {None})
  <2>1. [Live(kust) EXCEPT !.deleting = TRUE] \in Kustomization
    BY <1>3, Edits DEF MarkDeleted
  <2>. QED  BY <1>3, <2>1 DEF MarkDeleted, Follows
<1>. QED  BY <1>1, <1>2, <1>3

LEMMA DeletionStep == TypeOK /\ [Next]_vars => TypeOK'
<1>. SUFFICES ASSUME TypeOK, [Next]_vars PROVE TypeOK'
  OBVIOUS
<1>. USE TypeParts
<1>t. ApiTyped /\ KTyped /\ WTyped /\ Counted
  OBVIOUS
<1>s. /\ Follows(wl, wl, Workload \cup {None})
      /\ Follows(kust, kust, Kustomization \cup {None})
      /\ Follows(secret, secret, BOOLEAN) /\ missed \in BOOLEAN
  BY DEF Follows, TypeOK
<1>0. CASE UNCHANGED vars
  <2>1. UNCHANGED api /\ UNCHANGED kctl /\ UNCHANGED wctl /\ UNCHANGED << changes, faults >>
    BY <1>0 DEF vars
  <2>. QED  BY <1>t, <2>1, TypeKept
<1>1. CASE Deliver
  <2>1. ApiTyped'
    <3>1. CASE DeliverWorkload
      BY <1>t, <1>s, <3>1, ApiStep DEF DeliverWorkload, Follows
    <3>2. CASE DeliverKustomization
      BY <1>t, <1>s, <3>2, ApiStep DEF DeliverKustomization, Follows
    <3>3. CASE DeliverSecret
      BY <1>t, <1>s, <3>3, ApiStep DEF DeliverSecret, Follows
    <3>. QED  BY <1>1, <3>1, <3>2, <3>3 DEF Deliver
  <2>2. KTyped' /\ WTyped' /\ Counted'
    BY <1>1, <1>t, Zenon DEF Deliver, DeliverWorkload, DeliverKustomization,
      DeliverSecret, KTyped, WTyped, Counted, kctl, wctl
  <2>. QED  BY <2>1, <2>2
<1>2. CASE KWorker \/ GetSecretFails \/ PatchFails
  <2>1. ApiTyped'
    <3>1. CASE Release
      <4>. UNCHANGED << wl, secret, missed >>
        BY <1>2, <3>1 DEF KWorker, KReconcile, GetSecret, PatchPrune, PatchNotFound,
          GetSecretFails, PatchFails, Release, api
      <4>. QED  BY <1>t, <1>s, <3>1, ApiStep, KustSteps
    <3>2. CASE ~Release
      BY <1>2, <1>t, <3>2, TypeKept DEF KWorker, KReconcile, GetSecret, PatchPrune,
        PatchNotFound, GetSecretFails, PatchFails, api
    <3>. QED  BY <3>1, <3>2
  <2>2. KTyped'
    BY <1>2, <1>t, Zenon DEF KWorker, KReconcile, GetSecret, PatchPrune, PatchNotFound,
      GetSecretFails, PatchFails, KFail, KTyped
  <2>3. WTyped'
    BY <1>2, <1>t, TypeKept, Zenon DEF KWorker, KReconcile, GetSecret, PatchPrune,
      PatchNotFound, GetSecretFails, PatchFails
  <2>4. Counted'
    BY <1>2, <1>t, CountStep DEF KWorker, KReconcile, GetSecret, PatchPrune,
      PatchNotFound, GetSecretFails, PatchFails
  <2>. QED  BY <2>1, <2>2, <2>3, <2>4
<1>3. CASE WWorker
  <2>1. ApiTyped'
    <3>1. CASE WriteKustomization
      BY <1>t, <1>s, <3>1, ApiStep, KustSteps DEF WriteKustomization
    <3>2. CASE ~WriteKustomization
      BY <1>3, <1>t, <3>2, TypeKept DEF WWorker, WReconcile, GetKustomization,
        WriteRefused
    <3>. QED  BY <3>1, <3>2
  <2>2. KTyped' /\ Counted'
    BY <1>3, <1>t, TypeKept, Zenon DEF WWorker, WReconcile, GetKustomization,
      WriteRefused, WriteKustomization
  <2>3. WTyped'
    <3>1. CASE WReconcile
      <4>1. Rendering(Cached(wl)) => Cached(wl) \in Workload
        BY Reads DEF Rendering, Wl
      <4>2. wqueued' \in BOOLEAN /\ wpc = "idle" /\ got' = got /\ got = None
        BY <1>t, <3>1 DEF WReconcile, WTyped
      <4>3. CASE Rendering(Cached(wl))
        BY <3>1, <4>1, <4>2, <4>3 DEF WReconcile, WTyped
      <4>4. CASE ~Rendering(Cached(wl))
        BY <3>1, <4>2, <4>4 DEF WReconcile, WTyped
      <4>. QED  BY <4>3, <4>4
    <3>2. CASE GetKustomization
      <4>. Live(kust) \in Kustomization \cup {None}
        BY Reads DEF Kust
      <4>. QED  BY <1>t, <3>2 DEF GetKustomization, WTyped
    <3>3. CASE WriteKustomization \/ WriteRefused
      <4>1. wqueued' = wqueued /\ WDone
        BY <3>3 DEF WriteKustomization, WriteRefused
      <4>. QED  BY <1>t, <4>1 DEF WDone, WTyped
    <3>. QED  BY <1>3, <3>1, <3>2, <3>3 DEF WWorker
  <2>. QED  BY <2>1, <2>2, <2>3
<1>4. CASE Restart
  <2>1. ApiTyped'
    BY <1>4, <1>t, <1>s, ApiStep DEF Restart, Follows
  <2>2. KTyped' /\ WTyped'
    BY <1>4, Zenon DEF Restart, WDone, KTyped, WTyped
  <2>3. Counted'
    BY <1>4, <1>t, CountStep DEF Restart
  <2>. QED  BY <2>1, <2>2, <2>3
<1>5. CASE Users \/ Collect \/ Finalize
  <2>1. Live(wl) \in Workload \cup {None} /\ Live(secret) \in BOOLEAN
    BY Reads DEF Wl
  <2>2. ApiTyped'
    <3>1. CASE UpdateWorkload
      <4>1. Live(wl) \in Workload /\ (~Live(wl).remote) \in BOOLEAN
        BY <2>1, <3>1 DEF UpdateWorkload, Rendering
      <4>2. [Live(wl) EXCEPT !.remote = ~@] \in Workload \cup {None}
        BY <4>1, Edits
      <4>. QED  BY <1>t, <1>s, <3>1, <4>2, ApiStep DEF UpdateWorkload, Follows
    <3>2. CASE DeleteWorkload
      <4>1. [Live(wl) EXCEPT !.deleting = TRUE] \in Workload \cup {None}
        BY <2>1, <3>2, Edits DEF DeleteWorkload, Rendering
      <4>. QED  BY <1>t, <1>s, <3>2, <4>1, ApiStep DEF DeleteWorkload, Follows
    <3>3. CASE MarkDeleted
      BY <1>t, <1>s, <3>3, ApiStep, KustSteps DEF MarkDeleted
    <3>4. CASE PutSecret
      <4>1. missed' \in BOOLEAN /\ (~Live(secret)) \in BOOLEAN
        BY <1>s, <2>1, <3>4, Zenon DEF PutSecret
      <4>. QED  BY <1>t, <1>s, <3>4, <4>1, ApiStep DEF PutSecret, Follows
    <3>5. CASE CollectWorkload
      BY <1>t, <1>s, <3>5, ApiStep DEF CollectWorkload, Follows
    <3>6. CASE Finalize
      BY <1>t, <1>s, <3>6, ApiStep DEF Finalize, Follows
    <3>. QED  BY <1>5, <3>1, <3>2, <3>3, <3>4, <3>5, <3>6
           DEF Users, Collect, DeleteKustomization, CollectKustomization
  <2>3. KTyped' /\ WTyped'
    BY <1>5, <1>t, TypeKept DEF Users, Collect, DeleteKustomization, MarkDeleted,
      CollectKustomization, UpdateWorkload, DeleteWorkload, PutSecret,
      CollectWorkload, Finalize
  <2>4. Counted'
    BY <1>5, <1>t, CountStep DEF Users, Collect, DeleteKustomization, MarkDeleted,
      CollectKustomization, UpdateWorkload, DeleteWorkload, PutSecret,
      CollectWorkload, Finalize, Change
  <2>. QED  BY <2>2, <2>3, <2>4
<1>6. CASE Resync
  <2>1. ApiTyped' /\ Counted'
    BY <1>6, <1>t, TypeKept DEF Resync
  <2>2. KTyped' /\ WTyped'
    BY <1>6, <1>t, Zenon DEF Resync, KTyped, WTyped
  <2>. QED  BY <2>1, <2>2
<1>. QED  BY <1>0, <1>1, <1>2, <1>3, <1>4, <1>5, <1>6 DEF Next, Faults

\* Each part of a pass uses only what it has read, and every version of the
\* three objects is well formed.
THEOREM DeletionTypeCorrect == Spec => []TypeOK
<1>. QED  BY DeletionInit, DeletionStep, PTL DEF Spec

-----------------------------------------------------------------------------
(* Prune is kept while the Secret is there.                                 *)

Pruning == {k \in Kustomization : k.prune}

\* The strengthening: while the Secret has never been missing no version of
\* it on its way says so, and the patch that clears prune is not reached.
PruneInv ==
  /\ ~missed => /\ kust \in Stream(Pruning \cup {None})
                /\ secret \in Stream({TRUE})
  /\ kpc = "patch" => missed

\* A stream of Kustomizations that prune has no other in it.
LEMMA PruneInvKeeps == TypeOK /\ PruneInv => PruneKeptWithSecret
BY DEF PruneInv, PruneKeptWithSecret, Pruning, Stream

LEMMA PruneInit == Init => PruneInv
<1>. SUFFICES ASSUME Init PROVE PruneInv
  OBVIOUS
<1>1. kust \in Stream(Pruning \cup {None})
  BY StreamOne DEF Init
<1>2. ~missed => secret \in Stream({TRUE})
  <2>1. CASE secret = << TRUE >>
    BY <2>1, StreamOne, Zenon
  <2>2. CASE secret = << FALSE >>
    BY <2>2, StreamOne, Zenon DEF Init
  <2>. QED  BY <2>1, <2>2 DEF Init
<1>. QED  BY <1>1, <1>2 DEF Init, PruneInv

\* What is written to a Kustomization, but for the release, keeps prune.
LEMMA PruneWritten ==
  ASSUME TypeOK, kust \in Stream(Pruning \cup {None})
  PROVE  /\ WriteKustomization => Follows(kust', kust, Pruning \cup {None})
         /\ MarkDeleted => Follows(kust', kust, Pruning \cup {None})
<1>. Live(kust) \in Pruning \cup {None}
  BY StreamRead
<1>1. ASSUME WriteKustomization
      PROVE  Follows(kust', kust, Pruning \cup {None})
  <2>1. seen \in Workload /\ got \in Kustomization \cup {None}
    BY <1>1 DEF WriteKustomization, TypeOK
  <2>2. CASE got = None
    <3>. DEFINE new == [deleting |-> FALSE, remote |-> seen.remote, prune |-> TRUE]
    <3>1. new \in Pruning
      BY <2>1 DEF Workload, Kustomization, Pruning
    <3>2. kust' = kust \/ kust' = Commit(kust, new)
      BY <1>1, <2>2 DEF WriteKustomization
    <3>. QED  BY <3>1, <3>2 DEF Follows
  <2>3. CASE got # None
    <3>1. Live(kust) \in Pruning /\ Live(kust) \in Kustomization /\ got \in Kustomization
      BY <1>1, <2>1, <2>3 DEF WriteKustomization, Pruning
    <3>2. Rewritten(Live(kust)) \in Pruning
      BY <2>1, <3>1, RewrittenType DEF Pruning
    <3>3. kust' = kust \/ kust' = Commit(kust, Rewritten(Live(kust)))
      BY <1>1, <2>3 DEF WriteKustomization, Rewritten
    <3>. QED  BY <3>2, <3>3 DEF Follows
  <2>. QED  BY <2>2, <2>3
<1>2. ASSUME MarkDeleted
      PROVE  Follows(kust', kust, Pruning \cup {None})
  <2>1. [Live(kust) EXCEPT !.deleting = TRUE] \in Pruning
    BY <1>2, Edits DEF MarkDeleted, Pruning
  <2>. QED  BY <1>2, <2>1 DEF MarkDeleted, Follows
<1>. QED  BY <1>1, <1>2

LEMMA PruneStep == TypeOK /\ PruneInv /\ [Next]_vars => PruneInv'
<1>. SUFFICES ASSUME TypeOK, PruneInv, [Next]_vars PROVE PruneInv'
  OBVIOUS
<1>1. missed => missed'
  BY DEF Next, vars, api, KWorker, KReconcile, GetSecret, PatchPrune, PatchNotFound,
    WWorker, WReconcile, GetKustomization, WriteKustomization, WriteRefused,
    Deliver, DeliverWorkload, DeliverKustomization, DeliverSecret,
    Faults, GetSecretFails, PatchFails, Restart, Resync, Finalize,
    Users, UpdateWorkload, DeleteWorkload, DeleteKustomization, PutSecret,
    MarkDeleted, Collect, CollectKustomization, CollectWorkload
<1>2. ASSUME ~missed' PROVE kust' \in Stream(Pruning \cup {None})
  <2>1. kust \in Stream(Pruning \cup {None}) /\ kpc # "patch"
    BY <1>1, <1>2 DEF PruneInv
  <2>2. ~Release
    BY <2>1 DEF Release
  <2>3. Follows(kust', kust, Pruning \cup {None})
    <3>1. CASE WriteKustomization \/ MarkDeleted
      BY <2>1, <3>1, PruneWritten
    <3>2. CASE ~WriteKustomization /\ ~MarkDeleted
      <4>1. \/ UNCHANGED kust
            \/ ~Synced(kust) /\ kust' = Delivered(kust)
            \/ kust' = Relisted(kust)
            \/ kust' = Commit(kust, None)
        BY <2>1, <2>2, <3>2 DEF Next, vars, api, KWorker, KReconcile, GetSecret,
          PatchPrune, PatchNotFound, WWorker, WReconcile, GetKustomization,
          WriteRefused, Deliver, DeliverWorkload, DeliverKustomization,
          DeliverSecret, Faults, GetSecretFails, PatchFails, Restart, Resync,
          Finalize, Users, UpdateWorkload, DeleteWorkload, DeleteKustomization,
          PutSecret, Collect, CollectKustomization, CollectWorkload
      <4>. QED  BY <4>1 DEF Follows
    <3>. QED  BY <3>1, <3>2
  <2>. QED  BY <2>1, <2>3, FollowsType
<1>3. ASSUME ~missed' PROVE secret' \in Stream({TRUE})
  <2>1. secret \in Stream({TRUE})
    BY <1>1, <1>3 DEF PruneInv
  <2>2. CASE PutSecret
    <3>1. Live(secret) = TRUE
      BY <2>1, StreamRead
    <3>. QED  BY <1>3, <2>2, <3>1 DEF PutSecret
  <2>3. CASE ~PutSecret
    <3>1. Follows(secret', secret, {TRUE})
      BY <2>3 DEF Next, vars, api, KWorker, KReconcile, GetSecret, PatchPrune,
        PatchNotFound, WWorker, WReconcile, GetKustomization, WriteKustomization,
        WriteRefused, Deliver, DeliverWorkload, DeliverKustomization, DeliverSecret,
        Faults, GetSecretFails, PatchFails, Restart, Resync, Finalize,
        Users, UpdateWorkload, DeleteWorkload, DeleteKustomization,
        MarkDeleted, Collect, CollectKustomization, CollectWorkload, Follows
    <3>. QED  BY <2>1, <3>1, FollowsType
  <2>. QED  BY <2>2, <2>3
<1>4. ASSUME kpc' = "patch" PROVE missed'
  <2>1. CASE GetSecret
    <3>1. ~Cached(secret) /\ missed' = missed
      BY <1>4, <2>1 DEF GetSecret, api
    <3>2. secret \in Stream({TRUE}) => Cached(secret) = TRUE
      BY StreamRead
    <3>. QED  BY <3>1, <3>2 DEF PruneInv
  <2>2. CASE ~GetSecret
    <3>1. kpc = "patch"
      BY <1>4, <2>2 DEF Next, vars, kctl, KWorker, KReconcile, PatchPrune, KFail,
        PatchNotFound, WWorker, WReconcile, GetKustomization, WriteKustomization,
        WriteRefused, Deliver, DeliverWorkload, DeliverKustomization, DeliverSecret,
        Faults, GetSecretFails, PatchFails, Restart, Resync, Finalize,
        Users, UpdateWorkload, DeleteWorkload, DeleteKustomization, PutSecret,
        MarkDeleted, Collect, CollectKustomization, CollectWorkload
    <3>. QED  BY <1>1, <3>1 DEF PruneInv
  <2>. QED  BY <2>1, <2>2
<1>. QED  BY <1>2, <1>3, <1>4 DEF PruneInv

\* Objects are left behind in a cluster only if its kubeconfig Secret has
\* been missing, however many changes, failures and restarts there are.
THEOREM PruneIsKept == Spec => []PruneKeptWithSecret
<1>1. Init => TypeOK /\ PruneInv
  BY DeletionInit, PruneInit
<1>2. TypeOK /\ PruneInv /\ [Next]_vars => (TypeOK /\ PruneInv)'
  BY DeletionStep, PruneStep
<1>. QED  BY <1>1, <1>2, PruneInvKeeps, PTL DEF Spec

-----------------------------------------------------------------------------
(* Prune is restored.                                                       *)

\* Something is on its way that starts a pass of the workload controller.
Woken == wqueued \/ ~Synced(wl) \/ ~Synced(kust)

\* The Kustomization is gone or has the spec that is rendered.
Right(k, w) == k = None \/ (k.prune /\ k.remote = w.remote)

\* The pass under way works on what is stored.
PassFresh ==
  \/ wpc = "get" /\ seen = Live(wl)
  \/ wpc = "write" /\ seen = Live(wl) /\ got = Live(kust)

\* The strengthening: at no time is a Kustomization wrong with nobody about
\* to notice.
RestoreInv == Rendering(Live(wl)) => Woken \/ Right(Live(kust), Live(wl)) \/ PassFresh

LEMMA RestoreInvRestores == TypeOK /\ RestoreInv => PruneRestored
<1>. SUFFICES ASSUME TypeOK, RestoreInv, Settled, Rendering(Live(wl)),
                     Live(kust) # None
              PROVE  Live(kust).prune /\ Live(kust).remote = Live(wl).remote
  BY DEF PruneRestored
<1>1. ~Woken /\ ~PassFresh
  BY DEF Settled, Woken, PassFresh
<1>. QED  BY <1>1 DEF RestoreInv, Right

\* A step that leaves the workload controller and its objects alone, or that
\* writes to one of them, leaves nothing wrong unnoticed.
LEMMA OthersNoticed ==
  ASSUME TypeOK, RestoreInv,
         wqueued' = wqueued, wpc' = wpc, seen' = seen, got' = got,
         \/ UNCHANGED << wl, kust >>
         \/ wl' = wl /\ \E v \in Kust : kust' = Commit(kust, v)
         \/ kust' = kust /\ \E v \in Wl : wl' = Commit(wl, v)
  PROVE  RestoreInv'
<1>1. CASE UNCHANGED << wl, kust >>
  BY <1>1 DEF RestoreInv, Woken, PassFresh
<1>2. CASE \E v \in Kust : kust' = Commit(kust, v)
  <2>1. ~Synced(kust')
    BY <1>2, StreamCommit DEF TypeOK, Kust
  <2>. QED  BY <2>1 DEF RestoreInv, Woken
<1>3. CASE \E v \in Wl : wl' = Commit(wl, v)
  <2>1. ~Synced(wl')
    BY <1>3, StreamCommit DEF TypeOK, Wl
  <2>. QED  BY <2>1 DEF RestoreInv, Woken
<1>. QED  BY <1>1, <1>2, <1>3

\* A step that enqueues the workload leaves nothing unnoticed.
LEMMA QueuedNoticed ==
  ASSUME wqueued' = TRUE PROVE RestoreInv'
BY DEF RestoreInv, Woken

\* A pass that reads what is stored either finds it right or writes.
LEMMA PassNotices ==
  ASSUME TypeOK, RestoreInv, WWorker
  PROVE  RestoreInv'
<1>. SUFFICES ASSUME Rendering(Live(wl))'
              PROVE  (Woken \/ Right(Live(kust), Live(wl)) \/ PassFresh)'
  BY DEF RestoreInv
<1>w. wl' = wl /\ Rendering(Live(wl))
  BY DEF WWorker, WReconcile, GetKustomization, WriteKustomization, WriteRefused, api
<1>1. CASE WReconcile
  <2>1. CASE Synced(wl)
    <3>1. Cached(wl) = Live(wl)
      BY <2>1 DEF Synced, Cached, Live
    <3>2. wpc' = "get" /\ seen' = Live(wl)
      BY <1>1, <1>w, <3>1 DEF WReconcile
    <3>. QED  BY <1>w, <3>2 DEF PassFresh
  <2>2. CASE ~Synced(wl)
    BY <1>w, <2>2 DEF Woken
  <2>. QED  BY <2>1, <2>2
<1>2. CASE GetKustomization
  <2>1. /\ kust' = kust /\ wqueued' = wqueued /\ seen' = seen
        /\ wpc = "get" /\ wpc' = "write" /\ got' = Live(kust)
    BY <1>2 DEF GetKustomization, api
  <2>. QED  BY <1>w, <2>1 DEF RestoreInv, Woken, PassFresh
<1>3. CASE WriteKustomization
  <2>0. wqueued' = wqueued /\ wpc = "write"
    BY <1>3 DEF WriteKustomization
  <2>1. CASE kust' = kust /\ PassFresh
    <3>1. seen = Live(wl) /\ got = Live(kust) /\ seen \in Workload
      BY <2>0, <2>1 DEF PassFresh, TypeOK
    <3>2. Live(kust) \in Kust
      BY Reads
    <3>3. CASE got = None
      BY <1>w, <2>1, <3>1, <3>3 DEF Right
    <3>4. CASE got # None
      <4>1. got \in Kustomization /\ Live(kust) \in Kustomization
        BY <3>1, <3>2, <3>4 DEF Kust
      <4>2. kust \in Stream(Kust)
        BY DEF TypeOK, Kust
      <4>3. Rewritten(Live(kust)) = Live(kust)
        <5>1. \/ Rewritten(Live(kust)) = Live(kust)
              \/ kust' = Commit(kust, Rewritten(Live(kust)))
          BY <1>3, <3>4 DEF WriteKustomization, Rewritten
        <5>2. Len(kust) # Len(kust) + 1
          BY <4>2 DEF Stream
        <5>3. kust # Commit(kust, Rewritten(Live(kust)))
          BY <4>2, <5>2 DEF Stream, Commit
        <5>. QED  BY <2>1, <5>1, <5>3
      <4>4. Live(kust).prune /\ Live(kust).remote = seen.remote
        BY <3>1, <4>1, <4>3, RewrittenType
      <4>. QED  BY <1>w, <2>1, <3>1, <4>4 DEF Right
    <3>. QED  BY <3>3, <3>4
  <2>2. CASE kust' = kust /\ ~PassFresh
    BY <1>w, <2>0, <2>2 DEF RestoreInv, Woken
  <2>3. CASE kust' # kust
    <3>1. \E v \in Kust : kust' = Commit(kust, v)
      <4>1. Follows(kust', kust, Kust) /\ Live(kust) \in Kust
        BY <1>3, KustSteps, Reads DEF Kust
      <4>2. CASE got = None
        <5>. [deleting |-> FALSE, remote |-> seen.remote, prune |-> TRUE] \in Kust
          BY <2>0 DEF Kust, Kustomization, Workload, TypeOK
        <5>. QED  BY <1>3, <2>3, <4>2 DEF WriteKustomization
      <4>3. CASE got # None
        <5>1. Rewritten(Live(kust)) \in Kust
          BY <1>3, <2>0, <4>1, <4>3, RewrittenType DEF WriteKustomization, TypeOK, Kust
        <5>. QED  BY <1>3, <2>3, <4>3, <5>1 DEF WriteKustomization, Rewritten
      <4>. QED  BY <4>2, <4>3
    <3>2. ~Synced(kust')
      BY <3>1, StreamCommit DEF TypeOK, Kust
    <3>. QED  BY <3>2 DEF Woken
  <2>. QED  BY <2>1, <2>2, <2>3
<1>4. CASE WriteRefused
  <2>1. kust' = kust /\ wqueued' = wqueued /\ ~PassFresh
    BY <1>4 DEF WriteRefused, PassFresh, api
  <2>. QED  BY <1>w, <2>1 DEF RestoreInv, Woken
<1>. QED  BY <1>1, <1>2, <1>3, <1>4 DEF WWorker

LEMMA RestoreStep == TypeOK /\ RestoreInv /\ [Next]_vars => RestoreInv'
<1>. SUFFICES ASSUME TypeOK, RestoreInv, [Next]_vars PROVE RestoreInv'
  OBVIOUS
<1>1. CASE UNCHANGED vars
  BY <1>1, OthersNoticed DEF vars, api, wctl
<1>2. CASE KWorker \/ GetSecretFails \/ PatchFails
  <2>1. wl' = wl /\ wqueued' = wqueued /\ wpc' = wpc /\ seen' = seen /\ got' = got
    BY <1>2 DEF KWorker, KReconcile, GetSecret, PatchPrune, PatchNotFound,
      GetSecretFails, PatchFails, api, wctl
  <2>2. kust' = kust \/ \E v \in Kust : kust' = Commit(kust, v)
    <3>1. Release => kust' = kust \/ \E v \in Kust : kust' = Commit(kust, v)
      <4>. Release => [Live(kust) EXCEPT !.prune = FALSE] \in Kust
        BY Reads, Edits DEF Release, Kust
      <4>. QED  BY DEF Release
    <3>. QED  BY <1>2, <3>1 DEF KWorker, KReconcile, GetSecret, PatchPrune,
           PatchNotFound, GetSecretFails, PatchFails, api
  <2>. QED  BY <2>1, <2>2, OthersNoticed
<1>3. CASE WWorker
  BY <1>3, PassNotices
<1>4. CASE DeliverWorkload \/ DeliverKustomization \/ Resync
  BY <1>4, QueuedNoticed DEF DeliverWorkload, DeliverKustomization, Resync
<1>5. CASE DeliverSecret
  BY <1>5, OthersNoticed DEF DeliverSecret, wctl
<1>6. CASE Restart
  <2>1. Rendering(Live(wl))' => wqueued'
    <3>1. Live(wl') = Live(wl)
      BY <1>6, StreamRelisted DEF Restart, TypeOK
    <3>. QED  BY <1>6, <3>1 DEF Restart, Rendering
  <2>. QED  BY <2>1 DEF RestoreInv, Woken
<1>7. CASE Users \/ Collect \/ Finalize
  <2>1. wqueued' = wqueued /\ wpc' = wpc /\ seen' = seen /\ got' = got
    BY <1>7 DEF Users, Collect, Finalize, UpdateWorkload, DeleteWorkload, MarkDeleted,
      DeleteKustomization, PutSecret, CollectKustomization, CollectWorkload, wctl
  <2>2. CASE UpdateWorkload \/ DeleteWorkload \/ CollectWorkload
    <3>1. Rendering(Live(wl)) =>
            /\ [Live(wl) EXCEPT !.remote = ~@] \in Wl
            /\ [Live(wl) EXCEPT !.deleting = TRUE] \in Wl
      BY Reads, Edits DEF Rendering, Wl
    <3>2. None \in Wl
      BY DEF Wl
    <3>3. kust' = kust /\ \E v \in Wl : wl' = Commit(wl, v)
      BY <2>2, <3>1, <3>2 DEF UpdateWorkload, DeleteWorkload, CollectWorkload
    <3>. QED  BY <2>1, <3>3, OthersNoticed
  <2>3. CASE MarkDeleted \/ Finalize
    <3>1. MarkDeleted => [Live(kust) EXCEPT !.deleting = TRUE] \in Kust
      BY Reads, Edits DEF MarkDeleted, Kust
    <3>2. wl' = wl /\ \E v \in Kust : kust' = Commit(kust, v)
      BY <2>3, <3>1 DEF MarkDeleted, Finalize, Kust
    <3>. QED  BY <2>1, <3>2, OthersNoticed
  <2>4. CASE PutSecret
    BY <2>1, <2>4, OthersNoticed DEF PutSecret
  <2>. QED  BY <1>7, <2>2, <2>3, <2>4
         DEF Users, Collect, DeleteKustomization, CollectKustomization
<1>. QED  BY <1>1, <1>2, <1>3, <1>4, <1>5, <1>6, <1>7 DEF Next, Deliver, Faults

\* A Kustomization that has lost its prune, by whatever write and whether it
\* is being deleted or not, gets it back from the workload controller before
\* everything is quiet, as long as its workload lives.
THEOREM PruneIsRestored == Spec => []PruneRestored
<1>1. Init => TypeOK /\ RestoreInv
  BY DeletionInit DEF Init, RestoreInv, Woken
<1>2. TypeOK /\ RestoreInv /\ [Next]_vars => (TypeOK /\ RestoreInv)'
  BY DeletionStep, RestoreStep
<1>. QED  BY <1>1, <1>2, RestoreInvRestores, PTL DEF Spec
=============================================================================
