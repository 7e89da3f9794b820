--------------------------- MODULE InformerProofs ---------------------------
(* What the operators of Informer return, for every object and version.     *)
EXTENDS Informer, SequenceTheorems, TLAPS

\* What the cache serves and what is stored are versions of the object.
LEMMA StreamRead ==
  ASSUME NEW S, NEW s \in Stream(S)
  PROVE  Cached(s) \in S /\ Live(s) \in S
BY DEF Stream, Cached, Live

\* A write that is accepted is what is stored, and the cache does not see it.
LEMMA StreamCommit ==
  ASSUME NEW S, NEW s \in Stream(S), NEW v \in S
  PROVE  /\ Commit(s, v) \in Stream(S)
         /\ Live(Commit(s, v)) = v
         /\ Cached(Commit(s, v)) = Cached(s)
         /\ ~Synced(Commit(s, v))
<1>. Append(s, v) \in Seq(S) /\ Len(Append(s, v)) = Len(s) + 1 /\ Len(s) \in Nat \ {0}
  BY DEF Stream
<1>. /\ Append(s, v)[Len(s) + 1] = v
     /\ Append(s, v)[1] = s[1]
  BY DEF Stream
<1>. QED  BY DEF Stream, Commit, Live, Cached, Synced

\* A single version is a stream.
LEMMA StreamOne ==
  ASSUME NEW S, NEW v \in S
  PROVE  /\ << v >> \in Stream(S)
         /\ Cached(<< v >>) = v /\ Live(<< v >>) = v /\ Synced(<< v >>)
BY DEF Stream, Cached, Live, Synced

\* An event moves the cache, not what is stored.
LEMMA StreamDelivered ==
  ASSUME NEW S, NEW s \in Stream(S), ~Synced(s)
  PROVE  Delivered(s) \in Stream(S) /\ Live(Delivered(s)) = Live(s)
<1>1. s \in Seq(S) /\ Len(s) \in Nat /\ Len(s) # 0 /\ Len(s) # 1
  BY EmptySeq DEF Stream, Synced
<1>2. /\ Tail(s) \in Seq(S) /\ Len(Tail(s)) = Len(s) - 1
      /\ \A i \in 1..(Len(s) - 1) : Tail(s)[i] = s[i + 1]
  BY <1>1, HeadTailProperties
<1>. \A n \in Nat : n # 0 /\ n # 1 =>
       n - 1 # 0 /\ n - 1 \in 1..(n - 1) /\ (n - 1) + 1 = n
  OBVIOUS
<1>3. Len(s) - 1 # 0
  BY <1>1
<1>4. Tail(s) # << >>
  BY <1>2, <1>3, EmptySeq
<1>5. Tail(s)[Len(s) - 1] = s[Len(s)]
  BY <1>1, <1>2
<1>. QED  BY <1>2, <1>4, <1>5 DEF Stream, Delivered, Live

\* A fresh list is what is stored.
LEMMA StreamRelisted ==
  ASSUME NEW S, NEW s \in Stream(S)
  PROVE  /\ Relisted(s) \in Stream(S)
         /\ Cached(Relisted(s)) = Live(s) /\ Live(Relisted(s)) = Live(s)
         /\ Synced(Relisted(s))
BY StreamRead, StreamOne DEF Relisted
=============================================================================
