------------------------ MODULE MirrorSettledProofs -------------------------
(* Proof that a target is the one its source calls for once everything is    *)
(* quiet, for every value of the constants of MirrorReconciler.              *)
EXTENDS MirrorReconcilerProofs

WantedAt(k, i) == Wanted(k, log[k][i])

-----------------------------------------------------------------------------
(* The log of a source.                                                      *)

\* The uid of a source is older than each of its versions, the versions that
\* share one follow each other, and only the kinds of the walk have sources.
LogKept ==
  \A k \in Kinds :
    /\ k \notin Active => log[k] = << None >>
    /\ \A a \in 1..Len(log[k]) : log[k][a] # None => log[k][a].uid < a
    /\ \A a, b, c \in 1..Len(log[k]) :
         /\ a <= b /\ b <= c /\ log[k][a] # None /\ log[k][c] # None
         /\ log[k][a].uid = log[k][c].uid
         => log[k][b] # None /\ log[k][b].uid = log[k][c].uid

\* What a new version of a source can be: none, a new source, or the next
\* version of the stored one, which does not stop being deleted.
Successor(k, v) ==
  /\ v \in Source(k) \cup {None}
  /\ v # None => IF stored(k) = None THEN v.uid = Len(log[k])
                 ELSE v.uid = stored(k).uid /\ (stored(k).deleting => v.deleting)

\* Sources change one version at a time.
LEMMA LogSteps ==
  ASSUME MirrorInv, [Next]_vars
  PROVE  /\ walk' = walk
         /\ log' = log \/ \E k \in Active : \E v : Successor(k, v) /\ Publish(k, v)
<1>0. Active \subseteq Kinds
  BY Given
<1>1. CASE Worker
  BY <1>1 DEF Worker, ReconcileStart, GetSource, GetTarget, WriteTarget, WriteUnneeded,
    WriteRefused, api
<1>2. CASE Faults
  BY <1>2 DEF Faults, WriteFails, GetFails, Restart, api
<1>3. CASE Deliver
  BY <1>3 DEF Deliver, DeliverSource, DeliverTarget
<1>4. CASE Resync \/ UNCHANGED vars
  BY <1>4 DEF Resync, vars, api
<1>5. ASSUME NEW k \in Active,
             \/ \E b \in Bodies[k] : CreateSource(k, b) \/ UpdateSource(k, b)
             \/ DeleteSource(k) \/ RemoveSource(k)
      PROVE  walk' = walk /\ \E v : Successor(k, v) /\ Publish(k, v)
  <2>0. k \in Kinds /\ stored(k) \in Source(k) \cup {None} /\ Len(log[k]) \in Nat
    BY <1>0, Given
  <2>1. ASSUME NEW b \in Bodies[k], CreateSource(k, b)
        PROVE  \E v : Successor(k, v) /\ Publish(k, v)
    <3>. DEFINE v == [uid |-> Len(log[k]), deleting |-> FALSE, body |-> b]
    <3>1. stored(k) = None /\ Publish(k, v)
      BY <2>1 DEF CreateSource
    <3>2. v \in Source(k) /\ v.uid = Len(log[k])
      BY <2>0 DEF Source
    <3>. QED  BY <3>1, <3>2 DEF Successor
  <2>2. ASSUME NEW b \in Bodies[k], UpdateSource(k, b)
        PROVE  \E v : Successor(k, v) /\ Publish(k, v)
    <3>. DEFINE v == [stored(k) EXCEPT !.body = b]
    <3>1. stored(k) # None /\ Publish(k, v)
      BY <2>2 DEF UpdateSource
    <3>2. v \in Source(k) /\ v.uid = stored(k).uid /\ v.deleting = stored(k).deleting
      BY <2>0, <3>1 DEF Source
    <3>. QED  BY <3>1, <3>2 DEF Successor
  <2>3. Successor(k, None)
    BY DEF Successor
  <2>4. CASE DeleteSource(k)
    <3>. DEFINE v == [stored(k) EXCEPT !.deleting = TRUE]
    <3>1. stored(k) # None /\ (Publish(k, None) \/ Publish(k, v))
      BY <2>4 DEF DeleteSource
    <3>2. v \in Source(k) /\ v.uid = stored(k).uid /\ v.deleting
      BY <2>0, <3>1 DEF Source
    <3>3. Successor(k, v)
      BY <3>1, <3>2 DEF Successor
    <3>. QED  BY <2>3, <3>1, <3>3 DEF Publish
  <2>5. CASE RemoveSource(k)
    BY <2>3, <2>5 DEF RemoveSource, Publish
  <2>6. \E v : Successor(k, v) /\ Publish(k, v)
    <3>1. CASE \E b \in Bodies[k] : CreateSource(k, b) \/ UpdateSource(k, b)
      BY <2>1, <2>2, <3>1
    <3>. QED  BY <1>5, <2>4, <2>5, <3>1
  <2>. QED  BY <2>6 DEF Publish
<1>6. ASSUME NEW k \in Active, EditTarget(k) \/ CollectTarget(k)
      PROVE  walk' = walk /\ log' = log
  BY <1>6 DEF EditTarget, CollectTarget
<1>7. CASE Users \/ Collect
  <2>1. \E k \in Active :
          \/ EditTarget(k) \/ CollectTarget(k)
          \/ \E b \in Bodies[k] : CreateSource(k, b) \/ UpdateSource(k, b)
          \/ DeleteSource(k) \/ RemoveSource(k)
    BY <1>7 DEF Users, Collect
  <2>. QED  BY <1>5, <1>6, <2>1
<1>. QED  BY <1>1, <1>2, <1>3, <1>4, <1>7 DEF Next

\* The log keeps its order.
LEMMA LogStep ==
  ASSUME MirrorInv, LogKept, [Next]_vars
  PROVE  LogKept'
<1>1. Active' = Active
  BY LogSteps DEF Active
<1>2. CASE log' = log
  BY <1>1, <1>2 DEF LogKept
<1>3. ASSUME NEW k \in Active, NEW v, Successor(k, v), Publish(k, v) PROVE LogKept'
  <2>. PICK n : n = Len(log[k])
    OBVIOUS
  <2>0. k \in Kinds /\ n \in Nat \ {0} /\ stored(k) = log[k][n] /\ n \in 1..n
    <3>1. k \in Kinds /\ n \in Nat \ {0}
      BY Given
    <3>. QED  BY <3>1 DEF stored
  <2>1. /\ Len(log'[k]) = n + 1 /\ log'[k][n + 1] = v
        /\ \A j \in Kinds : j # k => log'[j] = log[j]
        /\ \A i \in 1..n : log'[k][i] = log[k][i]
    <3>1. log' = [log EXCEPT ![k] = Append(@, v)]
      BY <1>3 DEF Publish
    <3>2. /\ Len(log'[k]) = Len(log[k]) + 1 /\ log'[k][Len(log'[k])] = v
          /\ \A j \in Kinds : j # k => log'[j] = log[j]
          /\ \A j \in Kinds : \A i \in 1..Len(log[j]) : log'[j][i] = log[j][i]
      BY <2>0, <3>1, LogGrows
    <3>. QED  BY <2>0, <3>2
  <2>2. /\ \A a \in 1..n : log[k][a] # None => log[k][a].uid < a
        /\ \A a, b, c \in 1..n :
             /\ a <= b /\ b <= c /\ log[k][a] # None /\ log[k][c] # None
             /\ log[k][a].uid = log[k][c].uid
             => log[k][b] # None /\ log[k][b].uid = log[k][c].uid
    BY <2>0 DEF LogKept
  <2>3. \A i \in 1..(n + 1) : i \in 1..n \/ i = n + 1
    BY <2>0
  <2>4. ASSUME NEW a \in 1..(n + 1), log'[k][a] # None
        PROVE  log'[k][a].uid < a
    <3>1. CASE a \in 1..n
      BY <2>1, <2>2, <2>4, <3>1
    <3>2. CASE a = n + 1
      <4>1. v # None
        BY <2>1, <2>4, <3>2
      <4>2. CASE stored(k) = None
        BY <1>3, <2>0, <2>1, <3>2, <4>1, <4>2 DEF Successor
      <4>3. CASE stored(k) # None
        <5>1. v.uid = log[k][n].uid /\ log[k][n].uid < n /\ log[k][n].uid \in Nat
          <6>1. n \in 1..n /\ stored(k) \in Source(k)
            BY <2>0, <4>3, Given
          <6>. QED  BY <1>3, <2>0, <2>2, <4>1, <4>3, <6>1 DEF Successor, Source
        <5>. QED  BY <2>0, <2>1, <3>2, <5>1
      <4>. QED  BY <4>2, <4>3
    <3>. QED  BY <2>3, <3>1, <3>2
  <2>5. ASSUME NEW a \in 1..(n + 1), NEW b \in 1..(n + 1), NEW c \in 1..(n + 1),
               a <= b, b <= c, log'[k][a] # None, log'[k][c] # None,
               log'[k][a].uid = log'[k][c].uid
        PROVE  log'[k][b] # None /\ log'[k][b].uid = log'[k][c].uid
    <3>1. CASE c \in 1..n
      <4>1. a \in 1..n /\ b \in 1..n
        BY <2>0, <2>5, <3>1
      <4>2. log'[k][a] = log[k][a] /\ log'[k][b] = log[k][b] /\ log'[k][c] = log[k][c]
        BY <2>1, <3>1, <4>1
      <4>. QED  BY <2>2, <2>5, <3>1, <4>1, <4>2
    <3>2. CASE c = n + 1 /\ b = n + 1
      BY <2>5, <3>2
    <3>3. CASE c = n + 1 /\ b \in 1..n
      <4>1. a \in 1..n /\ n \in 1..n /\ b <= n
        BY <2>0, <2>5, <3>3
      <4>2. log[k][a] # None /\ v # None /\ log[k][a].uid = v.uid
        BY <2>1, <2>5, <3>3, <4>1
      <4>3. log[k][a].uid < a
        BY <2>2, <4>1, <4>2
      <4>4. log[k][a].uid \in Nat
        <5>1. log[k] \in Seq(Source(k) \cup {None})
          BY <2>0, Given
        <5>2. log[k][a] \in Source(k)
          BY <4>1, <4>2, <5>1
        <5>. QED  BY <5>2 DEF Source
      <4>5. CASE stored(k) = None
        <5>1. log[k][a].uid = n
          BY <1>3, <4>2, <4>5 DEF Successor
        <5>. QED  BY <2>0, <4>1, <4>3, <5>1
      <4>6. CASE stored(k) # None
        <5>1. log[k][n] # None /\ log[k][a].uid = log[k][n].uid /\ v.uid = log[k][n].uid
          BY <1>3, <2>0, <4>2, <4>6 DEF Successor
        <5>2. log[k][b] # None /\ log[k][b].uid = log[k][n].uid
          BY <2>2, <2>5, <3>3, <4>1, <4>2, <5>1
        <5>. QED  BY <2>1, <3>3, <5>1, <5>2
      <4>. QED  BY <4>5, <4>6
    <3>. QED  BY <2>3, <3>1, <3>2, <3>3
  <2>6. k \in Active'
    BY <1>1
  <2>7. ASSUME NEW j \in Kinds
        PROVE  /\ j \notin Active' => log'[j] = << None >>
               /\ \A a \in 1..Len(log'[j]) : log'[j][a] # None => log'[j][a].uid < a
               /\ \A a, b, c \in 1..Len(log'[j]) :
                    /\ a <= b /\ b <= c /\ log'[j][a] # None /\ log'[j][c] # None
                    /\ log'[j][a].uid = log'[j][c].uid
                    => log'[j][b] # None /\ log'[j][b].uid = log'[j][c].uid
    <3>1. CASE j = k
      BY <2>1, <2>4, <2>5, <2>6, <3>1
    <3>2. CASE j # k
      BY <1>1, <2>1, <3>2 DEF LogKept
    <3>. QED  BY <3>1, <3>2
  <2>. QED  BY <2>7 DEF LogKept
<1>. QED  BY <1>2, <1>3, LogSteps

-----------------------------------------------------------------------------
(* The versions of a target.                                                 *)

\* The versions that the worker may still write on top of: those on their
\* way to the cache, and the one it has read.
Line(k) ==
  {tgt[k][i] : i \in 1..Len(tgt[k])}
    \cup (IF pc = "write" /\ kind = k THEN {got} ELSE {})

\* Each field of x was called for no later than the one of y, and both were
\* called for by versions that the worker has seen.
Older(k, x, y) ==
  \A f \in Fields(k) : \E a, b \in 1..Mark[k] :
    /\ a <= b /\ WantedAt(k, a) # None /\ WantedAt(k, b) # None
    /\ x[f] = WantedAt(k, a)[f] /\ y[f] = WantedAt(k, b)[f]

\* The stored target is the newest of its line, field by field.
Lineage ==
  edits = 0 => \A k \in Kinds : \A x \in Line(k) : x # None =>
    /\ Older(k, x, x)
    /\ Live(tgt[k]) # None => Older(k, x, Live(tgt[k]))

\* Once a target that the source owns is there, it stays.
OwnedStays ==
  edits = 0 => \A k \in Kinds : \A x \in Line(k) :
    /\ x # None /\ stored(k) # None /\ ~stored(k).deleting
    /\ x.owner = stored(k).uid
    => Live(tgt[k]) # None /\ Live(tgt[k]).owner = stored(k).uid

\* The line of a target is made of targets and holds the stored one.
LEMMA LineType ==
  ASSUME MirrorInv, NEW k \in Kinds
  PROVE  /\ Live(tgt[k]) \in Line(k) /\ Cached(tgt[k]) \in Line(k)
         /\ Line(k) \subseteq Targets(k) \cup {None}
<1>1. tgt[k] \in Seq(Targets(k) \cup {None}) /\ tgt[k] # << >>
  BY DEF MirrorInv, TargetsTyped, Stream
<1>2. 1 \in 1..Len(tgt[k]) /\ Len(tgt[k]) \in 1..Len(tgt[k])
  BY <1>1
<1>3. \A i \in 1..Len(tgt[k]) : tgt[k][i] \in Targets(k) \cup {None}
  BY <1>1
<1>4. pc = "write" /\ kind = k => got \in Targets(k) \cup {None}
  BY DEF MirrorInv, FrameTyped
<1>. QED  BY <1>2, <1>3, <1>4 DEF Line, Live, Cached

\* The versions of a target after a step were there before it, except for
\* the stored one.
LEMMA StreamStep ==
  ASSUME MirrorInv, [Next]_vars, NEW k \in Kinds
  PROVE  \A i \in 1..Len(tgt'[k]) :
           \/ \E j \in 1..Len(tgt[k]) : tgt'[k][i] = tgt[k][j]
           \/ tgt'[k][i] = Live(tgt'[k])
<1>0. tgt[k] \in Stream(Targets(k) \cup {None}) /\ kind \in Kinds
  BY Given DEF MirrorInv, TargetsTyped
<1>1. CASE tgt'[k] = tgt[k]
  BY <1>1
<1>2. ASSUME NEW j \in Kinds, NEW v, Stores(j, v), tgt'[k] # tgt[k]
      PROVE  \A i \in 1..Len(tgt'[k]) :
               \/ \E h \in 1..Len(tgt[k]) : tgt'[k][i] = tgt[k][h]
               \/ tgt'[k][i] = Live(tgt'[k])
  <2>1. v \in Targets(k) \cup {None} /\ tgt'[k] = Append(tgt[k], v)
    BY <1>2 DEF Stores, Commit, MirrorInv, Shape
  <2>. DEFINE s == tgt[k]
  <2>2. s \in Seq(Targets(k) \cup {None})
    BY <1>0 DEF Stream
  <2>. HIDE DEF s
  <2>3. /\ Len(Append(s, v)) = Len(s) + 1 /\ Append(s, v)[Len(s) + 1] = v
        /\ \A i \in 1..Len(s) : Append(s, v)[i] = s[i]
        /\ Len(s) \in Nat
    BY <2>1, <2>2
  <2>4. \A n \in Nat : \A i \in 1..(n + 1) : i \in 1..n \/ i = n + 1
    OBVIOUS
  <2>5. tgt'[k] = Append(s, v) /\ s = tgt[k]
    BY <2>1 DEF s
  <2>. QED  BY <2>3, <2>4, <2>5 DEF Live
<1>3. CASE Restart
  <2>1. tgt'[k] = << Live(tgt[k]) >>
    BY <1>3 DEF Restart, Relisted
  <2>2. Len(tgt'[k]) = 1 /\ \A i \in 1..1 : i = 1
    BY <2>1
  <2>. QED  BY <2>2 DEF Live
<1>4. ASSUME NEW j \in Kinds, DeliverTarget(j), tgt'[k] # tgt[k]
      PROVE  \A i \in 1..Len(tgt'[k]) : \E h \in 1..Len(tgt[k]) : tgt'[k][i] = tgt[k][h]
  <2>1. tgt'[k] = Tail(tgt[k])
    BY <1>4 DEF DeliverTarget, Delivered, MirrorInv, Shape
  <2>. DEFINE s == tgt[k]
  <2>2. s \in Seq(Targets(k) \cup {None}) /\ s # << >>
    BY <1>0 DEF Stream
  <2>. HIDE DEF s
  <2>3. Len(Tail(s)) = Len(s) - 1 /\ \A i \in 1..(Len(s) - 1) : Tail(s)[i] = s[i + 1]
    BY <2>2, HeadTailProperties
  <2>4. \A n \in Nat : \A i \in 1..(n - 1) : i + 1 \in 1..n
    OBVIOUS
  <2>5. Len(s) \in Nat /\ tgt'[k] = Tail(s) /\ s = tgt[k]
    BY <2>1, <2>2 DEF s
  <2>6. \A i \in 1..Len(tgt'[k]) : i + 1 \in 1..Len(tgt[k]) /\ tgt'[k][i] = tgt[k][i + 1]
    BY <2>3, <2>4, <2>5
  <2>. QED  BY <2>6
<1>5. CASE Worker \/ WriteFails \/ GetFails
  <2>1. tgt' = tgt \/ Store
    BY <1>5 DEF Worker, ReconcileStart, GetSource, GetTarget, WriteTarget,
      WriteUnneeded, WriteRefused, WriteFails, GetFails, api
  <2>2. tgt' = tgt \/ \E v : Stores(kind, v)
    BY <2>1, StoreStep
  <2>. QED  BY <1>0, <1>1, <1>2, <2>2
<1>6. CASE Resync \/ UNCHANGED vars
  BY <1>1, <1>6 DEF Resync, vars, api
<1>7. ASSUME NEW j \in Kinds, DeliverSource(j) \/ Writes(j) PROVE tgt' = tgt
  BY <1>7 DEF DeliverSource, Writes, Publish
<1>8. ASSUME NEW j \in Kinds, EditTarget(j) \/ CollectTarget(j) PROVE \E v : Stores(j, v)
  BY <1>8, TargetSteps
<1>. QED  BY <1>1, <1>2, <1>3, <1>4, <1>5, <1>6, <1>7, <1>8, StepCases

\* The worker comes to write with what the cache serves, and goes on with it.
LEMMA FrameStep ==
  ASSUME MirrorInv, [Next]_vars, pc' = "write"
  PROVE  /\ kind' = kind
         /\ \/ pc = "write" /\ got' = got
            \/ pc = "target" /\ got' = Cached(tgt[kind]) /\ tgt' = tgt
<1>1. CASE Worker \/ WriteFails \/ GetFails
  <2>1. GetTarget
    BY <1>1 DEF Worker, ReconcileStart, GetSource, WriteTarget, WriteUnneeded,
      WriteRefused, WriteFails, GetFails, CreateOrPatchFails, NextKind, Fail
  <2>2. /\ pc = "target" /\ got' = Cached(tgt[kind]) /\ UNCHANGED << walk, pos, tgt >>
    BY <2>1 DEF GetTarget, Fail, api
  <2>. QED  BY <2>2 DEF kind
<1>2. CASE UNCHANGED << walk, frame >>
  BY <1>2 DEF frame, kind
<1>3. CASE Restart
  BY <1>3 DEF Restart
<1>4. CASE Resync \/ UNCHANGED vars
  BY <1>2, <1>4 DEF Resync, vars
<1>5. ASSUME NEW k \in Kinds, DeliverSource(k) \/ DeliverTarget(k) \/ Writes(k)
      PROVE  UNCHANGED << walk, frame >>
  BY <1>5 DEF DeliverSource, DeliverTarget, Writes, Publish
<1>6. ASSUME NEW k \in Kinds, EditTarget(k) \/ CollectTarget(k)
      PROVE  UNCHANGED << walk, frame >>
  BY <1>6, TargetSteps
<1>. QED  BY <1>1, <1>2, <1>3, <1>4, <1>5, <1>6, StepCases

\* A step adds nothing but the stored target to the line.
LEMMA LineStep ==
  ASSUME MirrorInv, [Next]_vars, NEW k \in Kinds, NEW x \in Line(k)'
  PROVE  x \in Line(k) \/ x = Live(tgt'[k])
<1>1. CASE \E i \in 1..Len(tgt'[k]) : x = tgt'[k][i]
  BY <1>1, StreamStep DEF Line
<1>2. CASE pc' = "write" /\ kind' = k /\ x = got'
  <2>1. kind = k /\ ((pc = "write" /\ got' = got) \/ got' = Cached(tgt[kind]))
    BY <1>2, FrameStep
  <2>. QED  BY <1>2, <2>1, LineType DEF Line
<1>. QED  BY <1>1, <1>2 DEF Line

\* What a worker knows of a source does not become older, and what it knew
\* stays as it was.
LEMMA MarkStep ==
  ASSUME MirrorInv, [Next]_vars, NEW k \in Kinds
  PROVE  /\ Mark'[k] \in Nat /\ Mark[k] <= Mark'[k]
         /\ \A i \in 1..Mark[k] : i \in 1..Mark'[k] /\ log'[k][i] = log[k][i]
         /\ \A i \in 1..Mark[k] : i \in 1..Len(log[k])
<1>1. Mark'[k] \in Mark[k]..Len(log[k])
  <2>1. Advances \/ Mark' = Mark
    <3>1. UNCHANGED M!vars => Mark' = Mark
      BY MappedVars DEF M!vars, Mark
    <3>2. ASSUME NEW j \in Kinds, M!Publish(j) \/ M!Edit(j) PROVE Mark' = Mark
      BY <3>2, Mapped
    <3>3. ASSUME NEW j \in Kinds, M!Collect(j) PROVE Mark' = Mark
      BY <3>3 DEF M!Collect, Mark
    <3>4. ASSUME NEW j \in Kinds, M!Copy(j) PROVE Advances
      BY <3>4 DEF M!Copy, M!Forward, Advances, Mark
    <3>5. M!Observe => Advances
      BY Mapped
    <3>. QED  BY <3>1, <3>2, <3>3, <3>4, <3>5, MappedStep DEF M!Next
  <2>. QED  BY <2>1, MarkType DEF Advances
<1>2. Mark[k] \in Nat /\ Len(log[k]) \in Nat /\ Mark[k] <= Len(log[k])
  BY MarkType, Places
<1>3. \A m, n \in Nat : m <= n => \A p \in m..n : 
        /\ p \in Nat /\ m <= p
        /\ \A i \in 1..m : i \in 1..p /\ i \in 1..n
  OBVIOUS
<1>4. \A i \in 1..Len(log[k]) : log'[k][i] = log[k][i]
  <2>1. CASE log' = log
    BY <2>1
  <2>2. ASSUME NEW j \in Active, NEW v, Publish(j, v)
        PROVE  \A i \in 1..Len(log[k]) : log'[k][i] = log[k][i]
    <3>1. j \in Kinds /\ log' = [log EXCEPT ![j] = Append(@, v)]
      BY <2>2, Given DEF Publish
    <3>. QED  BY <3>1, LogGrows
  <2>. QED  BY <2>1, <2>2, LogSteps
<1>. QED  BY <1>1, <1>2, <1>3, <1>4

\* What was older stays older.
LEMMA OlderKept ==
  ASSUME MirrorInv, [Next]_vars, NEW k \in Kinds, NEW x, NEW y, Older(k, x, y)
  PROVE  Older(k, x, y)'
<1>1. ASSUME NEW f \in Fields(k)
      PROVE  \E a, b \in 1..Mark'[k] :
               /\ a <= b /\ Wanted(k, log'[k][a]) # None /\ Wanted(k, log'[k][b]) # None
               /\ x[f] = Wanted(k, log'[k][a])[f] /\ y[f] = Wanted(k, log'[k][b])[f]
  <2>1. PICK a \in 1..Mark[k], b \in 1..Mark[k] :
               /\ a <= b /\ WantedAt(k, a) # None /\ WantedAt(k, b) # None
               /\ x[f] = WantedAt(k, a)[f] /\ y[f] = WantedAt(k, b)[f]
    BY DEF Older
  <2>2. /\ a \in 1..Mark'[k] /\ b \in 1..Mark'[k]
        /\ log'[k][a] = log[k][a] /\ log'[k][b] = log[k][b]
    BY MarkStep
  <2>. QED  BY <2>1, <2>2 DEF WantedAt
<1>. QED  BY <1>1 DEF Older, WantedAt

\* Nothing but the collector and those who edit a target remove it.
LEMMA Gone ==
  ASSUME MirrorInv, [Next]_vars, NEW k \in Kinds,
         Live(tgt[k]) # None, Live(tgt'[k]) = None
  PROVE  CollectTarget(k) \/ EditTarget(k)
<1>0. tgt'[k] # tgt[k] /\ tgt[k] \in Stream(Targets(k) \cup {None})
  BY DEF MirrorInv, TargetsTyped
<1>1. CASE Worker \/ WriteFails \/ GetFails
  <2>1. Store
    BY <1>0, <1>1 DEF Worker, ReconcileStart, GetSource, GetTarget, WriteTarget,
      WriteUnneeded, WriteRefused, WriteFails, GetFails, api
  <2>2. PICK v : v # None /\ Stores(kind, v)
    <3>1. \A v \in Targets(kind) : v # None
      BY Given, NoneIsNoTarget
    <3>2. want \in Targets(kind)
      BY <2>1, Given DEF Store
    <3>. QED  BY <1>0, <2>1, <3>1, <3>2, StoreStep
  <2>3. tgt'[k] = Commit(tgt[k], v) /\ v \in Targets(k) \cup {None}
    BY <1>0, <2>2, Given DEF Stores, MirrorInv, Shape
  <2>. QED  BY <1>0, <2>2, <2>3, StreamCommit
<1>2. CASE Restart
  <2>1. tgt'[k] = Relisted(tgt[k])
    BY <1>2 DEF Restart
  <2>. QED  BY <1>0, <2>1, StreamRelisted
<1>3. CASE Resync \/ UNCHANGED vars
  BY <1>0, <1>3 DEF Resync, vars, api
<1>4. ASSUME NEW j \in Kinds, DeliverSource(j) \/ Writes(j) PROVE FALSE
  BY <1>0, <1>4 DEF DeliverSource, Writes, Publish
<1>5. ASSUME NEW j \in Kinds, DeliverTarget(j) PROVE FALSE
  <2>1. tgt'[k] = Delivered(tgt[k]) /\ ~Synced(tgt[k])
    BY <1>0, <1>5 DEF DeliverTarget, MirrorInv, Shape
  <2>. QED  BY <1>0, <2>1, StreamDelivered
<1>6. ASSUME NEW j \in Kinds, EditTarget(j) \/ CollectTarget(j) PROVE j = k
  BY <1>0, <1>6, TargetSteps DEF Stores, MirrorInv, Shape
<1>. QED  BY <1>1, <1>2, <1>3, <1>4, <1>5, <1>6, StepCases

\* As long as nobody edits it, the stored target stays, moves towards the
\* version of the source that is known, or is collected.
LEMMA LiveStep ==
  ASSUME MirrorInv, [Next]_vars, NEW k \in Kinds, edits' = 0
  PROVE  /\ edits = 0
         /\ \/ Live(tgt'[k]) = Live(tgt[k])
            \/ /\ log' = log /\ WantedAt(k, Mark[k]) # None
               /\ Live(tgt'[k]) # None
               /\ IF Live(tgt[k]) = None THEN Live(tgt'[k]) = WantedAt(k, Mark[k])
                  ELSE \A f \in Fields(k) :
                         Live(tgt'[k])[f] \in {Live(tgt[k])[f], WantedAt(k, Mark[k])[f]}
            \/ /\ log' = log /\ Live(tgt'[k]) = None
               /\ stored(k) = None \/ stored(k).deleting
                    \/ Live(tgt[k]).owner # stored(k).uid
<1>0. /\ edits \in Nat
      /\ Copies[k] = Live(tgt[k]) /\ Copies'[k] = Live(tgt'[k])
      /\ Live(tgt[k]) \in Targets(k) \cup {None}
  <2>1. edits \in Nat
    BY ConstantsTyped DEF MirrorInv, Counted
  <2>2. Copies[k] = Live(tgt[k]) /\ Copies'[k] = Live(tgt'[k])
    BY DEF Copies
  <2>. QED  BY <2>1, <2>2, Given
<1>1. CASE UNCHANGED M!vars
  <2>1. Copies' = Copies /\ edits' = edits
    BY <1>1 DEF M!vars, Copies
  <2>. QED  BY <1>0, <2>1
<1>2. CASE M!Observe
  BY <1>0, <1>2, Mapped
<1>3. ASSUME NEW j \in Kinds, M!Publish(j)
      PROVE  edits' = edits /\ Copies' = Copies
  BY <1>3, Mapped
<1>4. ASSUME NEW j \in Kinds, M!Edit(j)
      PROVE  FALSE
  BY <1>0, <1>4, Mapped
<1>5. ASSUME NEW j \in Kinds, M!Collect(j)
      PROVE  /\ edits' = edits /\ log' = log
             /\ \/ Live(tgt'[k]) = Live(tgt[k])
                \/ /\ Live(tgt'[k]) = None
                   /\ stored(k) = None \/ stored(k).deleting
                        \/ Live(tgt[k]).owner # stored(k).uid
  <2>1. /\ Copies' = [Copies EXCEPT ![j] = None] /\ edits' = edits /\ log' = log
        /\ stored(j) = None \/ stored(j).deleting \/ Copies[j].owner # stored(j).uid
    BY <1>5 DEF M!Collect, Copies, stored
  <2>2. Copies'[k] = IF j = k THEN None ELSE Copies[k]
    BY <2>1 DEF Copies
  <2>. QED  BY <1>0, <2>1, <2>2
<1>6. ASSUME NEW j \in Kinds, M!Copy(j)
      PROVE  /\ edits' = edits
             /\ \/ Live(tgt'[k]) = Live(tgt[k])
                \/ /\ log' = log /\ WantedAt(k, Mark[k]) # None
                   /\ IF Live(tgt[k]) = None THEN Live(tgt'[k]) = WantedAt(k, Mark[k])
                      ELSE \A f \in Fields(k) :
                        Live(tgt'[k])[f] \in {Live(tgt[k])[f], WantedAt(k, Mark[k])[f]}
  <2>. DEFINE w == WantedAt(j, Mark[j])
  <2>1. /\ edits' = edits /\ log' = log /\ w # None
        /\ IF Copies[j] = None THEN Copies'[j] = w
           ELSE \A f \in DOMAIN w : Copies'[j][f] \in {Copies[j][f], w[f]}
        /\ Copies' = [Copies EXCEPT ![j] = Copies'[j]]
    BY <1>6 DEF M!Copy, Copies, Mark, WantedAt
  <2>2. j # k => Copies'[k] = Copies[k]
    BY <2>1 DEF Copies
  <2>3. DOMAIN w = Fields(j)
    <3>1. log[j][Mark[j]] \in Source(j) \cup {None}
      <4>1. log[j] \in Seq(Source(j) \cup {None}) /\ Mark[j] \in 1..Len(log[j])
        BY Given, MarkType, Places
      <4>. QED  BY <4>1
    <3>2. w \in Targets(j)
      BY <2>1, <3>1, WantedType DEF WantedAt
    <3>. QED  BY <3>2, TargetFields
  <2>4. CASE j = k
    BY <1>0, <2>1, <2>3, <2>4
  <2>5. CASE j # k
    BY <1>0, <2>1, <2>2, <2>5
  <2>. QED  BY <2>4, <2>5
<1>7. edits' = edits \/ \E j \in Kinds : M!Edit(j)
  BY <1>1, <1>2, <1>3, <1>5, <1>6, MappedStep, Mapped DEF M!Next, M!vars
<1>8. ASSUME Live(tgt[k]) # None, Live(tgt'[k]) = None
      PROVE  /\ log' = log
             /\ stored(k) = None \/ stored(k).deleting
                  \/ Live(tgt[k]).owner # stored(k).uid
  <2>1. CollectTarget(k)
    <3>1. EditTarget(k) => edits' = edits + 1
      BY DEF EditTarget
    <3>. QED  BY <1>0, <1>8, <3>1, Gone
  <2>. QED  BY <2>1 DEF CollectTarget, Garbage
<1>. QED  BY <1>0, <1>1, <1>2, <1>3, <1>4, <1>5, <1>6, <1>7, <1>8, MappedStep DEF M!Next

\* The stored target stays the newest of its line.
LEMMA LineageStep ==
  ASSUME MirrorInv, Lineage, [Next]_vars
  PROVE  Lineage'
<1>. SUFFICES ASSUME edits' = 0, NEW k \in Kinds, NEW x \in Line(k)', x # None,
                     NEW l, l = Live(tgt[k]), NEW m, m = Live(tgt'[k])
              PROVE  Older(k, x, x)' /\ (m # None => Older(k, x, m)')
  <2>1. ASSUME edits' = 0, NEW k \in Kinds, NEW x \in Line(k)', x # None,
               NEW m, m = Live(tgt'[k]), Older(k, x, x)', m # None => Older(k, x, m)'
        PROVE  Older(k, x, x)' /\ (Live(tgt'[k]) # None => Older(k, x, Live(tgt[k]))')
    BY <2>1 DEF Older
  <2>. QED  BY <2>1 DEF Lineage
<1>0. edits = 0
  BY LiveStep
<1>1. /\ l \in Line(k)
      /\ \A y \in Line(k) : y # None => Older(k, y, y) /\ (l # None => Older(k, y, l))
  <2>1. \A y \in Line(k) : y # None =>
          Older(k, y, y) /\ (Live(tgt[k]) # None => Older(k, y, Live(tgt[k])))
    BY <1>0 DEF Lineage
  <2>2. \A y : Older(k, y, Live(tgt[k])) <=> Older(k, y, l)
    BY DEF Older
  <2>. QED  BY <2>1, <2>2, LineType
<1>2. x \in Line(k) \/ x = m
  BY LineStep
<1>3. CASE m = l
  BY <1>1, <1>2, <1>3, OlderKept
<1>4. CASE m = None
  BY <1>1, <1>2, <1>4, OlderKept
<1>5. CASE /\ m # l /\ m # None /\ WantedAt(k, Mark[k]) # None
           /\ IF l = None THEN m = WantedAt(k, Mark[k])
              ELSE \A f \in Fields(k) : m[f] \in {l[f], WantedAt(k, Mark[k])[f]}
  <2>0. /\ Mark[k] \in 1..Mark[k] /\ Mark[k] <= Mark[k]
        /\ \A a \in 1..Mark[k] : a <= Mark[k]
    <3>1. Mark[k] \in Nat \ {0}
      BY MarkType
    <3>2. \A n \in Nat \ {0} : n \in 1..n /\ n <= n /\ \A a \in 1..n : a <= n
      OBVIOUS
    <3>. QED  BY <3>1, <3>2
  <2>1. ASSUME NEW y \in Line(k) \cup {m}, y # None, NEW f \in Fields(k)
        PROVE  \E a, b \in 1..Mark[k] :
                 /\ a <= b /\ WantedAt(k, a) # None /\ WantedAt(k, b) # None
                 /\ y[f] = WantedAt(k, a)[f] /\ m[f] = WantedAt(k, b)[f]
    <3>1. m[f] = WantedAt(k, Mark[k])[f] \/ (l # None /\ m[f] = l[f])
      BY <1>5
    <3>2. CASE m[f] = WantedAt(k, Mark[k])[f]
      <4>1. CASE y \in Line(k)
        <5>1. PICK a \in 1..Mark[k] : WantedAt(k, a) # None /\ y[f] = WantedAt(k, a)[f]
          BY <1>1, <2>1, <4>1 DEF Older
        <5>. QED  BY <1>5, <2>0, <3>2, <5>1
      <4>2. CASE y = m
        BY <1>5, <2>0, <3>2, <4>2
      <4>. QED  BY <4>1, <4>2
    <3>3. CASE l # None /\ m[f] = l[f]
      <4>1. \E z \in Line(k) : z # None /\ y[f] = z[f]
        BY <1>1, <2>1, <3>3
      <4>2. PICK z \in Line(k) : z # None /\ y[f] = z[f]
        BY <4>1
      <4>3. Older(k, z, l)
        BY <1>1, <3>3, <4>2
      <4>. QED  BY <3>3, <4>2, <4>3 DEF Older
    <3>. QED  BY <3>1, <3>2, <3>3
  <2>2. ASSUME NEW y \in Line(k) \cup {m}, y # None
        PROVE  Older(k, y, m)
    BY <2>1, <2>2 DEF Older
  <2>3. Older(k, x, m) /\ Older(k, x, x)
    BY <1>1, <1>2, <1>5, <2>2
  <2>. QED  BY <2>3, OlderKept
<1>. QED  BY <1>3, <1>4, <1>5, LiveStep

\* A target is owned by the version that calls for it.
LEMMA WantedOwner ==
  ASSUME NEW k \in Kinds, NEW v, Wanted(k, v) # None
  PROVE  v # None /\ Wanted(k, v).owner = v.uid
<1>1. v # None /\ Wanted(k, v) = Target(k, v)
  BY DEF Wanted
<1>2. Target(k, v).owner = v.uid
  BY DEF Kinds, Target, KustomizationInventory, HelmReleaseInventory,
    HelmRepositoryInventory, OCIRepositoryInventory, GitRepository
<1>. QED  BY <1>1, <1>2

LEMMA OwnerField == \A k : "owner" \in Fields(k)
BY DEF Fields

\* The owner of a version of the line is that of a version of the source
\* that the worker has seen.
LEMMA LineOwner ==
  ASSUME MirrorInv, Lineage, LogKept, edits = 0,
         NEW k \in Kinds, NEW x \in Line(k), x # None
  PROVE  \E a \in 1..Mark[k] :
           /\ a \in 1..Len(log[k]) /\ log[k][a] # None /\ log[k][a] \in Source(k)
           /\ x.owner = log[k][a].uid /\ log[k][a].uid < a
<1>1. Older(k, x, x)
  BY DEF Lineage
<1>2. PICK a \in 1..Mark[k] : WantedAt(k, a) # None /\ x["owner"] = WantedAt(k, a)["owner"]
  BY <1>1, OwnerField DEF Older
<1>3. log[k][a] # None /\ x.owner = log[k][a].uid
  BY <1>2, WantedOwner DEF WantedAt
<1>4. a \in 1..Len(log[k])
  <2>1. \A m, n \in Nat : m <= n => \A i \in 1..m : i \in 1..n
    OBVIOUS
  <2>2. Mark[k] \in Nat /\ Len(log[k]) \in Nat /\ Mark[k] <= Len(log[k])
    BY MarkType, Places
  <2>. QED  BY <2>1, <2>2
<1>5. log[k][a] \in Source(k)
  <2>1. log[k] \in Seq(Source(k) \cup {None})
    BY Given
  <2>. QED  BY <1>3, <1>4, <2>1
<1>6. log[k][a].uid < a
  BY <1>3, <1>4 DEF LogKept
<1>. QED  BY <1>3, <1>4, <1>5, <1>6

\* A source that owns a version of the line is the stored one, or was: a new
\* source has a uid that no target of the line can have.
LEMMA OwnerStored ==
  ASSUME MirrorInv, LogKept, Lineage, edits = 0, [Next]_vars,
         NEW k \in Kinds, NEW x \in Line(k), x # None,
         NEW s, s = log'[k][Len(log'[k])], s # None, ~s.deleting, x.owner = s.uid
  PROVE  stored(k) # None /\ ~stored(k).deleting /\ stored(k).uid = s.uid
<1>1. CASE log'[k] = log[k]
  BY <1>1 DEF stored
<1>2. ASSUME NEW j \in Active, NEW v, Successor(j, v), Publish(j, v), log'[k] # log[k]
      PROVE  stored(k) # None /\ ~stored(k).deleting /\ stored(k).uid = s.uid
  <2>1. j = k /\ v = s
    <3>1. j \in Kinds /\ log' = [log EXCEPT ![j] = Append(@, v)]
      BY <1>2, Given DEF Publish
    <3>2. \A i \in Kinds : i # j => log'[i] = log[i]
      BY <3>1, LogGrows
    <3>3. j = k
      BY <1>2, <3>2
    <3>. QED  BY <3>1, <3>3, LogGrows
  <2>2. stored(k) # None
    <3>. SUFFICES ASSUME stored(k) = None PROVE FALSE
      OBVIOUS
    <3>1. x.owner = Len(log[k])
      BY <1>2, <2>1 DEF Successor
    <3>2. PICK a \in 1..Mark[k] : a \in 1..Len(log[k]) /\ x.owner < a
      BY LineOwner
    <3>3. \A n \in Nat : \A i \in 1..n : ~(n < i)
      OBVIOUS
    <3>4. Len(log[k]) \in Nat
      BY Places
    <3>. QED  BY <3>1, <3>2, <3>3, <3>4
  <2>. QED  BY <1>2, <2>1, <2>2 DEF Successor
<1>. QED  BY <1>1, <1>2, LogSteps

\* A version between two of the same source is of that source.
LEMMA SameOwner ==
  ASSUME MirrorInv, LogKept, Lineage, edits = 0,
         NEW k \in Kinds, NEW x \in Line(k), x # None,
         stored(k) # None, x.owner = stored(k).uid, WantedAt(k, Mark[k]) # None
  PROVE  WantedAt(k, Mark[k]).owner = stored(k).uid
<1>1. PICK a \in 1..Mark[k] :
        a \in 1..Len(log[k]) /\ log[k][a] # None /\ x.owner = log[k][a].uid
  BY LineOwner
<1>2. PICK n : n = Len(log[k])
  OBVIOUS
<1>3. PICK m : m = Mark[k]
  OBVIOUS
<1>4. n \in Nat \ {0} /\ m \in Nat \ {0} /\ m <= n /\ a \in 1..m
  BY <1>1, <1>2, <1>3, MarkType, Places
<1>5. a <= m /\ m \in 1..n /\ n \in 1..n /\ a \in 1..n
  BY <1>4
<1>6. log[k][n] = stored(k) /\ log[k][a].uid = log[k][n].uid
  BY <1>1, <1>2 DEF stored
<1>7. log[k][m] # None /\ log[k][m].uid = log[k][n].uid
  BY <1>1, <1>2, <1>4, <1>5, <1>6 DEF LogKept
<1>8. Wanted(k, log[k][m]).owner = log[k][m].uid
  BY <1>3, WantedOwner DEF WantedAt
<1>. QED  BY <1>3, <1>6, <1>7, <1>8 DEF WantedAt

\* A target that the source owns stays.
LEMMA OwnedStep ==
  ASSUME MirrorInv, LogKept, Lineage, OwnedStays, [Next]_vars
  PROVE  OwnedStays'
<1>. SUFFICES ASSUME edits' = 0, NEW k \in Kinds, NEW x \in Line(k)', x # None,
                     NEW s, s = log'[k][Len(log'[k])], s # None, ~s.deleting,
                     x.owner = s.uid
              PROVE  Live(tgt'[k]) # None /\ Live(tgt'[k]).owner = s.uid
  BY DEF OwnedStays, stored
<1>0. edits = 0
  BY LiveStep
<1>1. CASE x = Live(tgt'[k])
  BY <1>1
<1>2. CASE x \in Line(k)
  <2>1. stored(k) # None /\ ~stored(k).deleting /\ stored(k).uid = s.uid
    BY <1>0, <1>2, OwnerStored
  <2>2. Live(tgt[k]) # None /\ Live(tgt[k]).owner = s.uid
    BY <1>0, <1>2, <2>1 DEF OwnedStays
  <2>3. WantedAt(k, Mark[k]) # None => WantedAt(k, Mark[k]).owner = s.uid
    BY <1>0, <1>2, <2>1, SameOwner
  <2>. QED  BY <2>1, <2>2, <2>3, LiveStep, OwnerField
<1>. QED  BY <1>1, <1>2, LineStep

-----------------------------------------------------------------------------
(* The pass.                                                                 *)

\* A pass begins with the first kind, and works with the cached version of
\* the source unless the name is queued again.
PassKept ==
  /\ pc = "idle" => pos = 1
  /\ pc \in {"target", "write"} => seen = at[kind] \/ queued

\* The worker has still to look at a version of the source, or to finish.
Due(k) ==
  \/ queued
  \/ at[k] < Len(log[k])
  \/ pc # "idle" /\ \E i \in pos..Len(walk) : walk[i] = k

\* A target for which there is nothing left to do is the one its source
\* calls for.
UpToDate ==
  edits = 0 => \A k \in Kinds \ {"HelmRelease"} :
    /\ NoReturn(k) /\ Wanted(k, stored(k)) # None /\ ~stored(k).deleting
    /\ ~Due(k)
    => Live(tgt[k]) = Wanted(k, stored(k))

\* A step that ends the pass, moves it on or leaves it alone keeps PassKept.
LEMMA PassStep ==
  ASSUME MirrorInv, PassKept, [Next]_vars
  PROVE  PassKept'
<1>1. CASE NextKind \/ Fail \/ (pc' = "idle" /\ Forget)
  BY <1>1 DEF NextKind, Fail, Forget, PassKept
<1>2. CASE UNCHANGED << walk, at, frame >> /\ (queued' = queued \/ queued')
  BY <1>2 DEF PassKept, frame, kind
<1>3. CASE ReconcileStart
  BY <1>3 DEF ReconcileStart, PassKept
<1>4. CASE GetSource /\ ~NextKind
  BY <1>4 DEF GetSource, PassKept, kind, api
<1>5. CASE GetTarget /\ ~Fail
  BY <1>5 DEF GetTarget, PassKept, kind, api
<1>6. CASE Worker \/ WriteFails \/ GetFails
  <2>1. \/ NextKind \/ Fail \/ ReconcileStart
        \/ (GetSource /\ ~NextKind) \/ (GetTarget /\ ~Fail)
    BY <1>6 DEF Worker, WriteTarget, WriteUnneeded, WriteRefused, WriteFails, GetFails,
      CreateOrPatchFails
  <2>. QED  BY <1>1, <1>3, <1>4, <1>5, <2>1
<1>7. CASE Restart
  BY <1>1, <1>7 DEF Restart
<1>8. CASE Resync \/ UNCHANGED vars
  BY <1>2, <1>8 DEF Resync, vars, api
<1>9. ASSUME NEW k \in Kinds, DeliverSource(k)
      PROVE  PassKept'
  BY <1>9 DEF DeliverSource, frame, PassKept
<1>10. ASSUME NEW k \in Kinds, DeliverTarget(k) \/ Writes(k)
      PROVE  UNCHANGED << walk, at, frame, queued >>
  BY <1>10 DEF DeliverTarget, Writes, Publish
<1>11. ASSUME NEW k \in Kinds, EditTarget(k) \/ CollectTarget(k)
      PROVE  UNCHANGED << walk, at, frame, queued >>
  BY <1>11, TargetSteps
<1>. QED  BY <1>2, <1>6, <1>7, <1>8, <1>9, <1>10, <1>11, StepCases

\* Two targets with the same fields are the same.
LEMMA SameTarget ==
  ASSUME NEW k \in Kinds, NEW s \in Targets(k), NEW t \in Targets(k),
         \A f \in Fields(k) : s[f] = t[f]
  PROVE  s = t
<1>1. s = [f \in Fields(k) |-> s[f]] /\ t = [f \in Fields(k) |-> t[f]]
  BY TargetFields
<1>. QED  BY <1>1

\* A pass is not done with a kind before it has been through it.
LEMMA NextKindDue ==
  ASSUME MirrorInv, NEW k \in Kinds, Due(k), NextKind, kind # k, pc # "idle",
         walk' = walk, at' = at, log'[k] = log[k]
  PROVE  Due(k)'
<1>1. CASE queued \/ at[k] < Len(log[k])
  BY <1>1 DEF NextKind, Due
<1>2. CASE \E i \in pos..Len(walk) : walk[i] = k
  <2>1. PICK i \in pos..Len(walk) : walk[i] = k
    BY <1>2
  <2>2. i # pos
    BY <2>1 DEF kind
  <2>3. pos \in 1..Len(walk) /\ Len(walk) \in Nat
    BY Given DEF MirrorInv, PassTyped
  <2>4. \A n \in Nat : \A p \in 1..n : \A h \in p..n : h # p => p < n /\ h \in (p + 1)..n
    OBVIOUS
  <2>5. pos < Len(walk) /\ i \in (pos + 1)..Len(walk)
    BY <2>2, <2>3, <2>4
  <2>6. pc' = "source" /\ pos' = pos + 1
    BY <2>5 DEF NextKind
  <2>. QED  BY <2>1, <2>5, <2>6 DEF Due
<1>. QED  BY <1>1, <1>2 DEF Due

\* The step after which nothing is left to do for a target: the pass is done
\* with its kind.
LEMMA DueStep ==
  ASSUME MirrorInv, PassKept, [Next]_vars, NEW k \in Active, k # "HelmRelease",
         log'[k] = log[k], stored(k) # None, Due(k), ~Due(k)'
  PROVE  /\ kind = k /\ ~queued /\ UNCHANGED << log, at >>
         /\ at[k] = Len(log[k])
         /\ WriteTarget \/ WriteUnneeded \/ (GetSource /\ NextKind)
<1>0. k \in Kinds
  BY Given
<1>1. ~queued' /\ ~(at'[k] < Len(log[k])) /\ ~(pc' # "idle" /\ \E i \in pos'..Len(walk') : walk'[i] = k)
  BY DEF Due
<1>2. CASE Worker \/ WriteFails \/ GetFails
  <2>0. UNCHANGED << walk, log, at >>
    BY <1>2 DEF Worker, ReconcileStart, GetSource, GetTarget, WriteTarget, WriteUnneeded,
      WriteRefused, WriteFails, GetFails, Fault, api
  <2>1. ~Fail
    BY <1>1 DEF Fail
  <2>2. CASE NextKind
    <3>1. pc # "idle"
      BY <1>2, <2>2 DEF Worker, ReconcileStart, GetSource, GetTarget, WriteTarget,
        WriteUnneeded, WriteRefused, WriteFails, GetFails, NextKind, Store
    <3>2. kind = k
      BY <1>0, <2>0, <2>2, <3>1, NextKindDue
    <3>3. ~queued
      BY <1>1, <2>2 DEF NextKind
    <3>4. at[k] = Len(log[k])
      <4>1. at[k] \in Nat /\ Len(log[k]) \in Nat /\ at[k] <= Len(log[k])
        BY <1>0, Places
      <4>. QED  BY <1>1, <2>0, <4>1
    <3>5. ~CreateOrPatchFails
      BY <2>1, <3>2 DEF CreateOrPatchFails
    <3>6. WriteTarget \/ WriteUnneeded \/ GetSource
      <4>1. ~WriteRefused /\ ~WriteFails /\ ~GetFails
        BY <2>1, <3>5 DEF WriteRefused, WriteFails, GetFails
      <4>2. ~ReconcileStart
        BY <3>1 DEF ReconcileStart
      <4>3. ~GetTarget
        BY <2>1, <2>2 DEF GetTarget, NextKind
      <4>. QED  BY <1>2, <4>1, <4>2, <4>3 DEF Worker
    <3>. QED  BY <2>0, <2>2, <3>2, <3>3, <3>4, <3>6
  <2>3. CASE ReconcileStart
    <3>1. pos' = 1 /\ pc' = "source"
      BY <2>3 DEF ReconcileStart, PassKept
    <3>2. \E i \in 1..Len(walk) : walk[i] = k
      BY DEF Active
    <3>. QED  BY <1>1, <2>0, <3>1, <3>2
  <2>4. CASE ~NextKind /\ (GetSource \/ GetTarget)
    <3>1. /\ pc # "idle" /\ pc' # "idle" /\ UNCHANGED << pos, queued >>
      BY <2>1, <2>4 DEF GetSource, GetTarget
    <3>. QED  BY <1>1, <2>0, <3>1 DEF Due
  <2>5. CASE ~NextKind /\ ~ReconcileStart /\ ~GetSource /\ ~GetTarget
    BY <1>2, <2>1, <2>5 DEF Worker, WriteTarget, WriteUnneeded, WriteRefused, WriteFails,
      GetFails, CreateOrPatchFails
  <2>. QED  BY <2>2, <2>3, <2>4, <2>5
<1>3. CASE UNCHANGED << walk, at, frame, queued >>
  BY <1>1, <1>3 DEF Due, frame
<1>4. CASE Restart
  BY <1>0, <1>1, <1>4 DEF Restart
<1>5. CASE Resync \/ UNCHANGED vars
  BY <1>1, <1>3, <1>5 DEF Resync, vars, api
<1>6. ASSUME NEW j \in Kinds, DeliverSource(j) PROVE FALSE
  BY <1>1, <1>6 DEF DeliverSource
<1>7. ASSUME NEW j \in Kinds, DeliverTarget(j) \/ Writes(j)
      PROVE  UNCHANGED << walk, at, frame, queued >>
  BY <1>7 DEF DeliverTarget, Writes, Publish
<1>8. ASSUME NEW j \in Kinds, EditTarget(j) \/ CollectTarget(j)
      PROVE  UNCHANGED << walk, at, frame, queued >>
  BY <1>8, TargetSteps
<1>. QED  BY <1>2, <1>3, <1>4, <1>5, <1>6, <1>7, <1>8, StepCases

\* Where the copy that the worker has read is as it should be, the stored
\* target is too, although it may be another version: between the two the
\* field would have returned to an earlier value.
LEMMA NothingMissed ==
  ASSUME MirrorInv, Lineage, edits = 0, NEW k \in Kinds, NoReturn(k),
         pc = "write", kind = k, seen = Len(log[k]), Wanted(k, stored(k)) # None,
         got # None, Live(tgt[k]) # None,
         NEW f \in Fields(k), got[f] = Wanted(k, stored(k))[f]
  PROVE  Live(tgt[k])[f] = Wanted(k, stored(k))[f]
<1>1. PICK n : n = Len(log[k])
  OBVIOUS
<1>2. Mark[k] = n /\ n \in Nat \ {0} /\ WantedAt(k, n) = Wanted(k, stored(k))
  BY <1>1, Places DEF Mark, WantedAt, stored
<1>3. Older(k, got, Live(tgt[k]))
  BY DEF Lineage, Line
<1>4. PICK a \in 1..n, b \in 1..n :
        /\ a <= b /\ WantedAt(k, a) # None /\ WantedAt(k, b) # None
        /\ got[f] = WantedAt(k, a)[f] /\ Live(tgt[k])[f] = WantedAt(k, b)[f]
  BY <1>2, <1>3 DEF Older
<1>5. DOMAIN WantedAt(k, a) = Fields(k)
  <2>1. log[k] \in Seq(Source(k) \cup {None})
    BY Given
  <2>2. log[k][a] \in Source(k) \cup {None}
    BY <1>1, <1>4, <2>1
  <2>. QED  BY <1>4, <2>2, WantedType, TargetFields DEF WantedAt
<1>6. CASE a = b \/ b = n
  BY <1>2, <1>4, <1>6
<1>7. CASE a < b /\ b < n
  <2>1. n \in 1..n
    BY <1>2
  <2>2. WantedAt(k, b)[f] = WantedAt(k, a)[f]
    <3>1. \A i, j, m \in 1..Len(log[k]) :
            i < j /\ j < m /\ None \notin {WantedAt(k, i), WantedAt(k, j), WantedAt(k, m)}
              => \A g \in DOMAIN WantedAt(k, i) :
                   WantedAt(k, i)[g] = WantedAt(k, m)[g] =>
                     WantedAt(k, j)[g] = WantedAt(k, i)[g]
      BY DEF NoReturn, WantedAt
    <3>2. None \notin {WantedAt(k, a), WantedAt(k, b), WantedAt(k, n)}
          /\ WantedAt(k, a)[f] = WantedAt(k, n)[f] /\ f \in DOMAIN WantedAt(k, a)
      BY <1>2, <1>4, <1>5
    <3>3. a \in 1..Len(log[k]) /\ b \in 1..Len(log[k]) /\ n \in 1..Len(log[k])
      BY <1>1, <1>4, <2>1
    <3>. QED  BY <1>7, <3>1, <3>2, <3>3
  <2>. QED  BY <1>2, <1>4, <2>2
<1>8. a = b \/ b = n \/ (a < b /\ b < n)
  BY <1>2, <1>4
<1>. QED  BY <1>6, <1>7, <1>8

\* What the worker leaves behind when it is done with a kind is the target
\* that the stored source calls for.
LEMMA WriteMirrors ==
  ASSUME MirrorInv, LogKept, Lineage, OwnedStays, PassKept, edits = 0,
         NEW k \in Kinds, NoReturn(k), kind = k, ~queued, at[k] = Len(log[k]),
         Wanted(k, stored(k)) # None, ~stored(k).deleting,
         WriteTarget \/ WriteUnneeded
  PROVE  Live(tgt'[k]) = Wanted(k, stored(k))
<1>1. pc = "write" /\ seen = Len(log[k]) /\ want = Wanted(k, stored(k))
  <2>1. pc = "write"
    BY DEF WriteTarget, WriteUnneeded, Store
  <2>2. seen = Len(log[k])
    BY <2>1 DEF PassKept
  <2>. QED  BY <2>1, <2>2 DEF want, stored
<1>2. want \in Targets(k) /\ want # None
  BY <1>1, Given
<1>3. /\ Live(tgt[k]) \in Targets(k) \cup {None}
      /\ tgt[k] \in Stream(Targets(k) \cup {None})
  BY Given DEF MirrorInv, TargetsTyped
<1>4. ASSUME got # None, Live(tgt[k]) # None, NEW f \in Fields(k), got[f] = want[f]
      PROVE  Live(tgt[k])[f] = want[f]
  BY <1>1, <1>4, NothingMissed
<1>5. CASE WriteUnneeded
  <2>1. got = want /\ tgt' = tgt
    BY <1>5 DEF WriteUnneeded, api
  <2>2. got \in Line(k)
    BY <1>1 DEF Line
  <2>3. stored(k) # None /\ got.owner = stored(k).uid
    BY <1>1, <1>2, <2>1, WantedOwner
  <2>4. Live(tgt[k]) # None
    BY <1>2, <2>1, <2>2, <2>3 DEF OwnedStays
  <2>5. \A f \in Fields(k) : Live(tgt[k])[f] = want[f]
    BY <1>2, <1>4, <2>1, <2>4
  <2>. QED  BY <1>1, <1>2, <1>3, <2>1, <2>4, <2>5, SameTarget
<1>6. CASE WriteTarget
  <2>. DEFINE live == Live(tgt[k])
              new == IF got = None THEN want ELSE Patched(live)
  <2>1. /\ (got = None) = (live = None)
        /\ tgt' = IF new = live THEN tgt ELSE [tgt EXCEPT ![k] = Commit(@, new)]
    BY <1>6 DEF WriteTarget, Store
  <2>2. new = want
    <3>1. CASE got = None
      BY <3>1
    <3>2. CASE got # None
      <4>1. live # None /\ live \in Targets(k)
        BY <1>3, <2>1, <3>2
      <4>2. DOMAIN live = Fields(k) /\ want = [f \in Fields(k) |-> want[f]]
        BY <1>2, <4>1, TargetFields
      <4>3. \A f \in Fields(k) : Patched(live)[f] = want[f]
        <5>1. ASSUME NEW f \in Fields(k)
              PROVE  (IF got[f] = want[f] THEN live[f] ELSE want[f]) = want[f]
          BY <1>4, <3>2, <4>1
        <5>. QED  BY <4>2, <5>1 DEF Patched
      <4>4. Patched(live) = [f \in Fields(k) |-> Patched(live)[f]]
        BY <4>2 DEF Patched
      <4>. QED  BY <3>2, <4>2, <4>3, <4>4
    <3>. QED  BY <3>1, <3>2
  <2>3. CASE new = live
    BY <1>1, <2>1, <2>2, <2>3
  <2>4. CASE new # live
    <3>1. tgt'[k] = Commit(tgt[k], want)
      BY <2>1, <2>2, <2>4 DEF MirrorInv, Shape
    <3>2. Live(Commit(tgt[k], want)) = want
      BY <1>2, <1>3, StreamCommit
    <3>. QED  BY <1>1, <3>1, <3>2
  <2>. QED  BY <2>3, <2>4
<1>. QED  BY <1>5, <1>6

\* While nothing is left to do, the target stays.
LEMMA RestMirrors ==
  ASSUME MirrorInv, [Next]_vars, edits' = 0, NEW k \in Kinds, ~Due(k),
         Wanted(k, stored(k)) # None, ~stored(k).deleting,
         Live(tgt[k]) = Wanted(k, stored(k))
  PROVE  Live(tgt'[k]) = Live(tgt[k])
<1>1. Mark[k] = Len(log[k])
  <2>1. ~(pc \in {"target", "write"} /\ kind = k)
    <3>1. pos \in pos..Len(walk)
      <4>1. \A n \in Nat : \A p \in 1..n : p \in p..n
        OBVIOUS
      <4>2. pos \in 1..Len(walk) /\ Len(walk) \in Nat
        BY Given DEF MirrorInv, PassTyped
      <4>. QED  BY <4>1, <4>2
    <3>. QED  BY <3>1 DEF Due, kind
  <2>2. at[k] \in Nat /\ Len(log[k]) \in Nat /\ at[k] <= Len(log[k])
    BY Places
  <2>3. ~(at[k] < Len(log[k]))
    BY DEF Due
  <2>. QED  BY <2>1, <2>2, <2>3 DEF Mark
<1>2. WantedAt(k, Mark[k]) = Live(tgt[k])
  BY <1>1 DEF WantedAt, stored
<1>3. stored(k) # None /\ Live(tgt[k]).owner = stored(k).uid /\ Live(tgt[k]) # None
  BY WantedOwner
<1>4. /\ Live(tgt[k]) \in Targets(k)
      /\ Live(tgt'[k]) # None => Live(tgt'[k]) \in Targets(k)
  <2>1. MirrorInv'
    BY MirrorStep
  <2>2. tgt'[k] \in Stream(Targets(k) \cup {None})
    BY <2>1 DEF MirrorInv, TargetsTyped
  <2>. QED  BY <1>3, <2>2, Given, StreamRead
<1>5. CASE /\ Live(tgt'[k]) # None
           /\ \A f \in Fields(k) : Live(tgt'[k])[f] = Live(tgt[k])[f]
  BY <1>4, <1>5, SameTarget
<1>. QED  BY <1>2, <1>3, <1>5, LiveStep

\* A target for which nothing is left to do is up to date.
LEMMA UpToDateStep ==
  ASSUME MirrorInv, LogKept, Lineage, OwnedStays, PassKept, UpToDate, [Next]_vars
  PROVE  UpToDate'
<1>. SUFFICES ASSUME edits' = 0, NEW k \in Kinds, k # "HelmRelease", NoReturn(k)',
                     NEW s, s = log'[k][Len(log'[k])], Wanted(k, s) # None,
                     ~s.deleting, ~Due(k)'
              PROVE  Live(tgt'[k]) = Wanted(k, s)
  BY DEF UpToDate, stored
<1>0. edits = 0
  BY LiveStep
<1>1. log'[k] = log[k]
  <2>1. ASSUME NEW j \in Active, NEW v, Publish(j, v) PROVE log'[k] = log[k]
    <3>1. j \in Kinds /\ log' = [log EXCEPT ![j] = Append(@, v)] /\ at' = at
      BY <2>1, Given DEF Publish
    <3>2. CASE j = k
      <4>1. Len(log'[k]) = Len(log[k]) + 1
        BY <3>1, <3>2, LogGrows
      <4>2. at[k] \in Nat /\ Len(log[k]) \in Nat /\ at[k] <= Len(log[k])
        BY Places
      <4>3. at'[k] < Len(log'[k])
        BY <3>1, <4>1, <4>2
      <4>. QED  BY <4>3 DEF Due
    <3>3. CASE j # k
      BY <3>1, <3>3, LogGrows
    <3>. QED  BY <3>2, <3>3
  <2>. QED  BY <2>1, LogSteps
<1>2. s = stored(k) /\ NoReturn(k) /\ s # None
  BY <1>1 DEF stored, NoReturn, Wanted
<1>3. CASE ~Due(k)
  <2>1. Live(tgt[k]) = Wanted(k, stored(k))
    BY <1>0, <1>2, <1>3 DEF UpToDate
  <2>. QED  BY <1>2, <1>3, <2>1, RestMirrors
<1>4. CASE Due(k)
  <2>1. k \in Active
    <3>1. k \notin Active => log[k] = << None >>
      BY DEF LogKept
    <3>2. << None >>[Len(<< None >>)] = None
      OBVIOUS
    <3>. QED  BY <1>2, <3>1, <3>2 DEF stored
  <2>2. /\ kind = k /\ ~queued /\ at[k] = Len(log[k])
        /\ WriteTarget \/ WriteUnneeded \/ (GetSource /\ NextKind)
    BY <1>1, <1>2, <1>4, <2>1, DueStep
  <2>3. ~(GetSource /\ NextKind)
    <3>1. Wanted(kind, log[kind][at[kind]]) # None
      BY <1>2, <2>2 DEF stored
    <3>. QED  BY <3>1 DEF GetSource, NextKind, Forget
  <2>. QED  BY <1>0, <1>2, <2>2, <2>3, WriteMirrors
<1>. QED  BY <1>3, <1>4

-----------------------------------------------------------------------------
SettledInv ==
  MirrorInv /\ LogKept /\ PassKept /\ Lineage /\ OwnedStays /\ UpToDate

LEMMA SettledInit == Init => SettledInv
<1>. SUFFICES ASSUME Init PROVE SettledInv
  OBVIOUS
<1>1. MirrorInv
  BY MirrorInit
<1>2. \A k \in Kinds : log[k] = << None >> /\ tgt[k] = << None >> /\ pc = "idle"
  BY DEF Init
<1>3. Len(<< None >>) = 1 /\ << None >>[1] = None /\ \A i \in 1..1 : << None >>[i] = None
  OBVIOUS
<1>4. LogKept
  BY <1>2, <1>3 DEF LogKept
<1>5. PassKept
  BY DEF Init, PassKept
<1>6. \A k \in Kinds : \A x \in Line(k) : x = None
  BY <1>2, <1>3 DEF Line
<1>7. Lineage /\ OwnedStays
  BY <1>6 DEF Lineage, OwnedStays
<1>8. UpToDate
  <2>1. \A k \in Kinds : Wanted(k, stored(k)) = None
    BY <1>2, <1>3 DEF stored, Wanted
  <2>. QED  BY <2>1 DEF UpToDate
<1>. QED  BY <1>1, <1>4, <1>5, <1>7, <1>8 DEF SettledInv

LEMMA SettledStep == SettledInv /\ [Next]_vars => SettledInv'
BY MirrorStep, LogStep, PassStep, LineageStep, OwnedStep, UpToDateStep DEF SettledInv

LEMMA SettledMirrors == SettledInv => MirroredWhenSettled
<1>. SUFFICES ASSUME SettledInv, Settled, edits = 0,
                     NEW k \in Kinds \ {"HelmRelease"}, NoReturn(k),
                     Wanted(k, stored(k)) # None, ~stored(k).deleting
              PROVE  Live(tgt[k]) = Wanted(k, stored(k))
  BY DEF MirroredWhenSettled, Mirrored
<1>1. ~Due(k)
  <2>1. Len(log[k]) \in Nat
    BY Places DEF SettledInv
  <2>2. ~(Len(log[k]) < Len(log[k]))
    BY <2>1
  <2>. QED  BY <2>2 DEF Settled, Due
<1>. QED  BY <1>1 DEF SettledInv, UpToDate

\* Once everything is quiet, the target of a source is the one it calls for,
\* although no controller watches its target and each writes on top of a
\* copy that may be old: provided that no field has returned to a value it
\* had before, that nobody else has edited the target and that errors are
\* returned.
THEOREM SettledIsMirrored == Spec => []MirroredWhenSettled
<1>. QED  BY SettledInit, SettledStep, SettledMirrors, PTL DEF Spec

\* As long as nobody edits it, a target that the stored source owns stays:
\* once there is a version that it owns, stored, on its way to the cache or
\* read by the worker, no late write takes it over for an earlier source of
\* the same name and the garbage collector does not take it.
THEOREM OwnedTargetsStay == Spec => []OwnedStays
<1>1. SettledInv => OwnedStays
  BY DEF SettledInv
<1>. QED  BY <1>1, SettledInit, SettledStep, PTL DEF Spec
=============================================================================
