---------------------------- MODULE KadTableProofs ----------------------------
(***************************************************************************)
(* The node table stays sound however calls of bond overlap: an inductive  *)
(* invariant of KadTable, and the proof that every step keeps it.          *)
(***************************************************************************)
EXTENDS KadTable, FiniteSetTheorems, SequenceTheorems, TLAPS

Objs == Bonds \cup FirstObjs \cup {NoObj}
Entries == [id : KadNodes, obj : Objs]
Stages == {"idle", "register", "await", "slot", "ping", "waitping", "unregister", "add", "contest", "reset", "done"}
BonderRecords == [at : Stages, id : KadNodes, w : Bonds \cup KadNodes \cup {NoObj}, ok : BOOLEAN,
                  node : Bonds \cup {NoObj}, oldest : Objs]
DbRecords == [known : SUBSET (KadNodes \ {KadSelf}), recent : SUBSET KadNodes, fails : [KadNodes -> Nat], ages : Nat]

KadTypes ==
    /\ kadDb \in DbRecords
    /\ kadBuckets \in [Buckets -> Seq(Entries)]
    /\ bonding \in [KadNodes -> Bonds \cup {NoObj}]
    /\ bondSlots \in Nat
    /\ bonders \in [Bonds -> BonderRecords]

\* What a call refers to while it is at a stage: the ping/pong it waits for, the
\* node it pings; and a call for ourself ends at once, without a node.
CallOK(r) ==
    /\ r.at = "await" => r.w \in Bonds
    /\ r.at = "contest" => r.w \in KadNodes
    /\ r.id = KadSelf => r.at \in {"idle", "done"} /\ r.node = NoObj

CallsOK == \A b \in Bonds : CallOK(bonders[b])

BucketsSound == \A k \in Buckets : BucketSound(k, kadBuckets[k])

\* Each contested object is contested by one call.
Contests ==
    /\ contested = {bonders[b].oldest : b \in {c \in Bonds : bonders[c].at = "contest"}}
    /\ \A b, c \in Bonds : bonders[b].at = "contest" /\ bonders[c].at = "contest"
                               => (bonders[b].oldest = bonders[c].oldest => b = c)

InPingPong == {"slot", "ping", "waitping", "unregister"}
Registered == \A b \in Bonds : bonders[b].at \in InPingPong => bonding[bonders[b].id] = b

Pinging == {b \in Bonds : bonders[b].at \in {"ping", "waitping"}}
SlotsCounted == IsFiniteSet(Pinging) /\ bondSlots + Cardinality(Pinging) = maxBondingPingPongs

KadInv == KadTypes /\ CallsOK /\ BucketsSound /\ Contests /\ Registered /\ SlotsCounted

-----------------------------------------------------------------------------
(* What the operations of a bucket do to it.                               *)

\* A bucket, as its indices see it.
LEMMA BucketByIndex ==
    ASSUME NEW k, NEW s \in Seq(Entries)
    PROVE  /\ Len(s) \in Nat /\ DOMAIN s = 1 .. Len(s)
           /\ \A i \in 1 .. Len(s) : s[i] \in Entries /\ s[i].id \in KadNodes
           /\ \A n : n \in IdsIn(s) <=> \E i \in 1 .. Len(s) : s[i].id = n
           /\ BucketSound(k, s) <=>
                 /\ Len(s) <= bucketSize
                 /\ \A i, j \in 1 .. Len(s) : s[i].id = s[j].id => i = j
                 /\ \A i \in 1 .. Len(s) : s[i].id # KadSelf /\ BucketOf[s[i].id] = k
<1>1. Len(s) \in Nat /\ DOMAIN s = 1 .. Len(s)
  BY LenProperties
<1>2. \A i \in 1 .. Len(s) : s[i] \in Entries
  BY ElementOfSeq
<1>3. \A i \in 1 .. Len(s) : s[i].id \in KadNodes
  BY <1>2 DEF Entries
<1>4. \A n : n \in IdsIn(s) <=> \E i \in 1 .. Len(s) : s[i].id = n
  BY <1>1, Zenon DEF IdsIn
<1>5. BucketSound(k, s) <=>
                 /\ Len(s) <= bucketSize
                 /\ \A i, j \in 1 .. Len(s) : s[i].id = s[j].id => i = j
                 /\ \A i \in 1 .. Len(s) : s[i].id # KadSelf /\ BucketOf[s[i].id] = k
  BY <1>1, <1>4, ZenonT(60) DEF BucketSound
<1> QED
  BY <1>1, <1>2, <1>3, <1>4, <1>5

\* And the other way round.
LEMMA SoundByIndex ==
    ASSUME NEW k, NEW s \in Seq(Entries), Len(s) <= bucketSize,
           \A i, j \in 1 .. Len(s) : s[i].id = s[j].id => i = j,
           \A i \in 1 .. Len(s) : s[i].id # KadSelf /\ BucketOf[s[i].id] = k
    PROVE  BucketSound(k, s)
BY BucketByIndex

\* The first entries of a sound bucket.
LEMMA PrefixSound ==
    ASSUME NEW k, NEW s \in Seq(Entries), BucketSound(k, s), NEW n \in 0 .. Len(s)
    PROVE  LET t == SubSeq(s, 1, n)
           IN  t \in Seq(Entries) /\ Len(t) = n /\ IdsIn(t) \subseteq IdsIn(s) /\ BucketSound(k, t)
<1> DEFINE t == SubSeq(s, 1, n)
<1>1. /\ Len(s) \in Nat /\ n \in Nat /\ n <= Len(s)
      /\ \A i \in 1 .. Len(s) : s[i] \in Entries
      /\ Len(s) <= bucketSize /\ bucketSize \in Nat
      /\ \A i, j \in 1 .. Len(s) : s[i].id = s[j].id => i = j
      /\ \A i \in 1 .. Len(s) : s[i].id # KadSelf /\ BucketOf[s[i].id] = k
  BY BucketByIndex, KadAssumption
<1>2. t \in Seq(Entries) /\ Len(t) = n /\ \A i \in 1 .. n : t[i] = s[i]
  <2>1. \A i \in 1 .. n : s[i] \in Entries
    BY <1>1
  <2>2. /\ SubSeq(s, 1, n) \in Seq(Entries)
        /\ Len(SubSeq(s, 1, n)) = IF 1 <= n THEN n - 1 + 1 ELSE 0
        /\ \A i \in 1 .. n - 1 + 1 : SubSeq(s, 1, n)[i] = s[1 + i - 1]
    BY <1>1, <2>1, SubSeqProperties
  <2> QED
    BY <1>1, <2>2
<1> HIDE DEF t
<1>3. IdsIn(t) \subseteq IdsIn(s)
  <2> SUFFICES ASSUME NEW x \in IdsIn(t) PROVE x \in IdsIn(s)
    OBVIOUS
  <2>1. PICK i \in 1 .. n : t[i].id = x
    BY <1>2, BucketByIndex, ZenonT(60)
  <2>2. i \in 1 .. Len(s) /\ s[i].id = x
    BY <1>1, <1>2, <2>1
  <2> QED
    BY <2>2, BucketByIndex, Zenon
<1>4. BucketSound(k, t)
  <2>1. /\ Len(t) <= bucketSize
        /\ \A i, j \in 1 .. Len(t) : t[i].id = t[j].id => i = j
        /\ \A i \in 1 .. Len(t) : t[i].id # KadSelf /\ BucketOf[t[i].id] = k
    BY <1>1, <1>2, SMTT(60)
  <2> QED
    BY <1>2, <2>1, BucketByIndex, Zenon
<1> QED
  BY <1>2, <1>3, <1>4 DEF t

\* A node in front of a sound bucket that has room for it and does not have it.
LEMMA PutFirstSound ==
    ASSUME NEW k, NEW s \in Seq(Entries), BucketSound(k, s), Len(s) < bucketSize,
           NEW e \in Entries, e.id \notin IdsIn(s), e.id # KadSelf, BucketOf[e.id] = k
    PROVE  <<e>> \o s \in Seq(Entries) /\ BucketSound(k, <<e>> \o s)
<1> DEFINE t == <<e>> \o s
<1>1. /\ Len(s) \in Nat /\ bucketSize \in Nat
      /\ \A i \in 1 .. Len(s) : s[i].id # e.id
      /\ \A i, j \in 1 .. Len(s) : s[i].id = s[j].id => i = j
      /\ \A i \in 1 .. Len(s) : s[i].id # KadSelf /\ BucketOf[s[i].id] = k
  BY BucketByIndex, KadAssumption
<1>2. t \in Seq(Entries) /\ Len(t) = Len(s) + 1 /\ t[1] = e /\ \A i \in 2 .. Len(s) + 1 : t[i] = s[i - 1]
  <2>1. <<e>> \in Seq(Entries) /\ Len(<<e>>) = 1 /\ <<e>>[1] = e
    OBVIOUS
  <2>2. /\ <<e>> \o s \in Seq(Entries) /\ Len(<<e>> \o s) = Len(<<e>>) + Len(s)
        /\ \A i \in 1 .. Len(<<e>>) + Len(s) :
              (<<e>> \o s)[i] = IF i <= Len(<<e>>) THEN <<e>>[i] ELSE s[i - Len(<<e>>)]
    BY <2>1, ConcatProperties
  <2> QED
    BY <1>1, <2>1, <2>2
<1> HIDE DEF t
<1>3. /\ Len(t) <= bucketSize
      /\ \A i, j \in 1 .. Len(t) : t[i].id = t[j].id => i = j
      /\ \A i \in 1 .. Len(t) : t[i].id # KadSelf /\ BucketOf[t[i].id] = k
  <2>1. \A i \in 1 .. Len(t) : i = 1 \/ (i \in 2 .. Len(s) + 1 /\ i - 1 \in 1 .. Len(s))
    BY <1>1, <1>2
  <2>2. \A i \in 1 .. Len(t) : t[i].id # KadSelf /\ BucketOf[t[i].id] = k
    BY <1>1, <1>2, <2>1, SMTT(60)
  <2>3. ASSUME NEW i \in 1 .. Len(t), NEW j \in 1 .. Len(t), t[i].id = t[j].id PROVE i = j
    <3>0. \A l \in 2 .. Len(s) + 1 : t[l].id # t[1].id
      <4> SUFFICES ASSUME NEW l \in 2 .. Len(s) + 1 PROVE s[l - 1].id # e.id
        BY <1>2, SMTT(60)
      <4> QED
        BY <1>1
    <3>1. CASE i = 1 \/ j = 1
      BY <2>1, <2>3, <3>0, <3>1, Zenon
    <3>2. CASE i # 1 /\ j # 1
      <4>1. s[i - 1].id = s[j - 1].id
        BY <1>2, <2>1, <2>3, <3>2
      <4>2. i - 1 = j - 1
        BY <1>1, <2>1, <3>2, <4>1, SMTT(60)
      <4> QED
        BY <4>2
    <3> QED
      BY <3>1, <3>2
  <2> QED
    BY <1>1, <1>2, <2>2, <2>3
<1>4. BucketSound(k, t)
  BY <1>2, <1>3, SoundByIndex, Zenon
<1> QED
  BY <1>2, <1>4 DEF t

\* A node at the end of one: stuff.
LEMMA AppendSound ==
    ASSUME NEW k, NEW s \in Seq(Entries), BucketSound(k, s), Len(s) < bucketSize,
           NEW e \in Entries, e.id \notin IdsIn(s), e.id # KadSelf, BucketOf[e.id] = k
    PROVE  Append(s, e) \in Seq(Entries) /\ BucketSound(k, Append(s, e))
<1> DEFINE t == Append(s, e)
<1>1. /\ Len(s) \in Nat /\ bucketSize \in Nat
      /\ \A i \in 1 .. Len(s) : s[i].id # e.id
      /\ \A i, j \in 1 .. Len(s) : s[i].id = s[j].id => i = j
      /\ \A i \in 1 .. Len(s) : s[i].id # KadSelf /\ BucketOf[s[i].id] = k
  BY BucketByIndex, KadAssumption
<1>2. t \in Seq(Entries) /\ Len(t) = Len(s) + 1 /\ (\A i \in 1 .. Len(s) : t[i] = s[i]) /\ t[Len(s) + 1] = e
  BY AppendProperties
<1> HIDE DEF t
<1>3. /\ Len(t) <= bucketSize
      /\ \A i, j \in 1 .. Len(t) : t[i].id = t[j].id => i = j
      /\ \A i \in 1 .. Len(t) : t[i].id # KadSelf /\ BucketOf[t[i].id] = k
  <2>1. \A i \in 1 .. Len(t) : i = Len(s) + 1 \/ i \in 1 .. Len(s)
    BY <1>1, <1>2
  <2> QED
    BY <1>1, <1>2, <2>1, SMTT(60)
<1>4. BucketSound(k, t)
  BY <1>2, <1>3, SoundByIndex, Zenon
<1> QED
  BY <1>2, <1>4 DEF t

\* A sound bucket without a node of it: delete, and the first half of bump.
LEMMA WithoutSound ==
    ASSUME NEW k, NEW s \in Seq(Entries), BucketSound(k, s), NEW n \in IdsIn(s)
    PROVE  LET t == without(s, n)
           IN  t \in Seq(Entries) /\ Len(t) < bucketSize /\ n \notin IdsIn(t) /\ BucketSound(k, t)
<1> DEFINE has == {j \in DOMAIN s : s[j].id = n}
           i == CHOOSE j \in has : \A l \in has : j <= l
           a == SubSeq(s, 1, i - 1)
           b == SubSeq(s, i + 1, Len(s))
           t == a \o b
<1>1. /\ Len(s) \in Nat /\ bucketSize \in Nat /\ Len(s) <= bucketSize /\ DOMAIN s = 1 .. Len(s)
      /\ \A j \in 1 .. Len(s) : s[j] \in Entries
      /\ \A j, l \in 1 .. Len(s) : s[j].id = s[l].id => j = l
      /\ \A j \in 1 .. Len(s) : s[j].id # KadSelf /\ BucketOf[s[j].id] = k
  BY BucketByIndex, KadAssumption
<1>2. PICK m \in 1 .. Len(s) : s[m].id = n
  BY BucketByIndex, ZenonT(60)
<1>3. m \in has /\ \A l \in has : m <= l
  BY <1>1, <1>2
<1>4. i \in has
  BY <1>3, Zenon
<1>5. i \in 1 .. Len(s) /\ s[i].id = n /\ has # {}
  BY <1>1, <1>4
<1>6. without(s, n) = t
  BY <1>5, Zenon DEF without
<1> HIDE DEF i, has
<1>7. a \in Seq(Entries) /\ Len(a) = i - 1 /\ \A j \in 1 .. i - 1 : a[j] = s[j]
  <2>1. \A j \in 1 .. i - 1 : s[j] \in Entries
    BY <1>1, <1>5
  <2>2. /\ SubSeq(s, 1, i - 1) \in Seq(Entries)
        /\ Len(SubSeq(s, 1, i - 1)) = IF 1 <= i - 1 THEN (i - 1) - 1 + 1 ELSE 0
        /\ \A j \in 1 .. (i - 1) - 1 + 1 : SubSeq(s, 1, i - 1)[j] = s[1 + j - 1]
    BY <1>1, <1>5, <2>1, SubSeqProperties
  <2> QED
    BY <1>1, <1>5, <2>2
<1>8. b \in Seq(Entries) /\ Len(b) = Len(s) - i /\ \A j \in 1 .. Len(s) - i : b[j] = s[i + j]
  <2>1. \A j \in i + 1 .. Len(s) : s[j] \in Entries
    BY <1>1, <1>5
  <2>2. /\ SubSeq(s, i + 1, Len(s)) \in Seq(Entries)
        /\ Len(SubSeq(s, i + 1, Len(s))) = IF i + 1 <= Len(s) THEN Len(s) - (i + 1) + 1 ELSE 0
        /\ \A j \in 1 .. Len(s) - (i + 1) + 1 : SubSeq(s, i + 1, Len(s))[j] = s[(i + 1) + j - 1]
    BY <1>1, <1>5, <2>1, SubSeqProperties
  <2>3. b \in Seq(Entries) /\ Len(b) = Len(s) - i
    <3>1. b \in Seq(Entries) /\ Len(b) = IF i + 1 <= Len(s) THEN Len(s) - (i + 1) + 1 ELSE 0
      BY <2>2
    <3>2. Len(s) \in Nat /\ i \in 1 .. Len(s)
      BY <1>1, <1>5
    <3> HIDE DEF b
    <3>3. CASE i = Len(s)
      BY <3>1, <3>2, <3>3
    <3>4. CASE i < Len(s)
      BY <3>1, <3>2, <3>4
    <3> QED
      BY <3>2, <3>3, <3>4
  <2>4. \A j \in 1 .. Len(s) - i : b[j] = s[(i + 1) + j - 1] /\ (i + 1) + j - 1 = i + j
    <3>1. Len(s) - (i + 1) + 1 = Len(s) - i
      BY <1>1, <1>5
    <3> HIDE DEF b
    <3>2. \A j \in 1 .. Len(s) - i : b[j] = s[(i + 1) + j - 1]
      BY <2>2, <3>1 DEF b
    <3>3. \A j \in 1 .. Len(s) - i : (i + 1) + j - 1 = i + j
      BY <1>1, <1>5
    <3> QED
      BY <3>2, <3>3
  <2> HIDE DEF b
  <2> QED
    BY <2>3, <2>4
<1> HIDE DEF a, b
<1>9. /\ t \in Seq(Entries) /\ Len(t) = Len(s) - 1
      /\ \A j \in 1 .. Len(s) - 1 : t[j] = s[IF j < i THEN j ELSE j + 1]
  <2>1. /\ t \in Seq(Entries) /\ Len(t) = Len(a) + Len(b)
        /\ \A j \in 1 .. Len(a) + Len(b) : t[j] = IF j <= Len(a) THEN a[j] ELSE b[j - Len(a)]
    BY <1>7, <1>8, ConcatProperties, Zenon
  <2> HIDE DEF t
  <2>2. Len(t) = Len(s) - 1
    BY <1>1, <1>5, <1>7, <1>8, <2>1
  <2>3. ASSUME NEW j \in 1 .. Len(s) - 1 PROVE t[j] = s[IF j < i THEN j ELSE j + 1]
    <3>1. CASE j < i
      <4>1. j \in 1 .. Len(a) + Len(b) /\ j <= Len(a) /\ j \in 1 .. i - 1
        BY <1>1, <1>5, <1>7, <1>8, <3>1
      <4> QED
        BY <1>7, <2>1, <3>1, <4>1
    <3>2. CASE ~(j < i)
      <4>1. j \in 1 .. Len(a) + Len(b) /\ ~(j <= Len(a)) /\ j - Len(a) \in 1 .. Len(s) - i /\ i + (j - Len(a)) = j + 1
        BY <1>1, <1>5, <1>7, <1>8, <3>2
      <4> QED
        BY <1>8, <2>1, <3>2, <4>1
    <3> QED
      BY <3>1, <3>2
  <2> QED
    BY <2>1, <2>2, <2>3
<1> HIDE DEF t
<1> DEFINE f(j) == IF j < i THEN j ELSE j + 1
<1>10. \A j \in 1 .. Len(s) - 1 : f(j) \in 1 .. Len(s) /\ f(j) # i /\ t[j] = s[f(j)]
  BY <1>1, <1>5, <1>9, SMTT(60)
<1>11. \A j, l \in 1 .. Len(s) - 1 : f(j) = f(l) => j = l
  BY <1>1, <1>5
<1> HIDE DEF f
<1>12. /\ \A j, l \in 1 .. Len(t) : t[j].id = t[l].id => j = l
       /\ \A j \in 1 .. Len(t) : t[j].id # KadSelf /\ BucketOf[t[j].id] = k
       /\ \A j \in 1 .. Len(t) : t[j].id # n
  BY <1>1, <1>5, <1>9, <1>10, <1>11, SMTT(60)
<1>13. Len(t) < bucketSize /\ Len(t) <= bucketSize
  BY <1>1, <1>9
<1>14. BucketSound(k, t)
  BY <1>9, <1>12, <1>13, SoundByIndex, Zenon
<1>15. n \notin IdsIn(t)
  <2>1. DOMAIN t = 1 .. Len(t)
    BY <1>9, LenProperties
  <2> QED
    BY <1>12, <2>1, Zenon DEF IdsIn
<1> QED
  BY <1>6, <1>9, <1>13, <1>14, <1>15, ZenonT(60)

-----------------------------------------------------------------------------
(* What one call's step does to each part of the invariant.                *)

\* The step of call b leaves it at r.
Becomes(b, r) == r \in BonderRecords /\ CallOK(r) /\ bonders' = [bonders EXCEPT ![b] = r]

\* The call, and the others.
LEMMA CallStep ==
    ASSUME KadTypes, CallsOK, NEW b \in Bonds, NEW r, Becomes(b, r)
    PROVE  /\ bonders' \in [Bonds -> BonderRecords] /\ CallsOK'
           /\ bonders'[b] = r /\ \A c \in Bonds \ {b} : bonders'[c] = bonders[c]
<1>1. bonders \in [Bonds -> BonderRecords]
  BY DEF KadTypes
<1>2. bonders' \in [Bonds -> BonderRecords] /\ bonders'[b] = r /\ \A c \in Bonds \ {b} : bonders'[c] = bonders[c]
  BY <1>1 DEF Becomes
<1>3. CallsOK'
  BY <1>2, Zenon DEF CallsOK, Becomes, CallOK
<1> QED
  BY <1>2, <1>3

\* A call that only moves on to another stage.
LEMMA GoStep ==
    ASSUME KadTypes, CallsOK, NEW b \in Bonds, NEW at \in Stages \ {"await", "contest"},
           bonders[b].at \notin {"idle", "done"}, Go(b, at)
    PROVE  LET r == [bonders[b] EXCEPT !.at = at]
           IN  Becomes(b, r) /\ r.at = at /\ r.id = bonders[b].id
<1> DEFINE o == bonders[b]
           r == [o EXCEPT !.at = at]
<1>1. o \in BonderRecords /\ CallOK(o)
  BY DEF KadTypes, CallsOK
<1>2. bonders' = [bonders EXCEPT ![b] = r]
  BY DEF Go, KadTypes
<1> HIDE DEF o
<1>3. r \in BonderRecords /\ r.at = at /\ r.id = o.id
  BY <1>1 DEF BonderRecords
<1>4. o.id # KadSelf
  BY <1>1 DEF CallOK, o
<1>5. CallOK(r)
  BY <1>3, <1>4 DEF CallOK
<1> QED
  BY <1>2, <1>3, <1>5, Zenon DEF Becomes, o

\* Nobody starts or ends a contest.
LEMMA ContestsSame ==
    ASSUME Contests, NEW b \in Bonds, NEW r, bonders'[b] = r, \A c \in Bonds \ {b} : bonders'[c] = bonders[c],
           bonders[b].at # "contest", r.at # "contest", contested' = contested
    PROVE  Contests'
<1>1. \A c \in Bonds : bonders'[c].at = "contest" <=> bonders[c].at = "contest"
  OBVIOUS
<1>2. \A c \in Bonds : bonders[c].at = "contest" => bonders'[c].oldest = bonders[c].oldest
  OBVIOUS
<1>3. contested' = {bonders'[d].oldest : d \in {c \in Bonds : bonders'[c].at = "contest"}}
  BY <1>1, <1>2 DEF Contests
<1> QED
  BY <1>1, <1>2, <1>3, ZenonT(60) DEF Contests

\* Nobody enters a ping/pong.
LEMMA RegisteredSame ==
    ASSUME Registered, NEW b \in Bonds, NEW r, bonders'[b] = r, \A c \in Bonds \ {b} : bonders'[c] = bonders[c],
           r.at \in InPingPong => bonders[b].at \in InPingPong /\ r.id = bonders[b].id,
           bonding' = bonding
    PROVE  Registered'
BY DEF Registered

\* Nobody takes or returns a slot.
LEMMA SlotsSame ==
    ASSUME SlotsCounted, NEW b \in Bonds, NEW r, bonders'[b] = r, \A c \in Bonds \ {b} : bonders'[c] = bonders[c],
           r.at \in {"ping", "waitping"} <=> bonders[b].at \in {"ping", "waitping"}, bondSlots' = bondSlots
    PROVE  SlotsCounted'
<1>1. Pinging' = Pinging
  BY DEF Pinging
<1> QED
  BY <1>1 DEF SlotsCounted

\* A slot is taken for a ping.
LEMMA SlotTaken ==
    ASSUME SlotsCounted, bondSlots \in Nat, NEW b \in Bonds, NEW r, bonders'[b] = r,
           \A c \in Bonds \ {b} : bonders'[c] = bonders[c],
           bonders[b].at \notin {"ping", "waitping"}, r.at \in {"ping", "waitping"}, bondSlots' = bondSlots - 1
    PROVE  SlotsCounted'
<1>1. Pinging' = Pinging \cup {b} /\ b \notin Pinging
  BY DEF Pinging
<1>2. IsFiniteSet(Pinging') /\ Cardinality(Pinging') = Cardinality(Pinging) + 1
  BY <1>1, FS_AddElement, Zenon DEF SlotsCounted
<1>3. Cardinality(Pinging) \in Nat
  BY FS_CardinalityType, Zenon DEF SlotsCounted
<1> QED
  BY <1>2, <1>3, KadAssumption DEF SlotsCounted

\* A slot comes back.
LEMMA SlotReturned ==
    ASSUME SlotsCounted, bondSlots \in Nat, NEW b \in Bonds, NEW r, bonders'[b] = r,
           \A c \in Bonds \ {b} : bonders'[c] = bonders[c],
           bonders[b].at \in {"ping", "waitping"}, r.at \notin {"ping", "waitping"}, bondSlots' = bondSlots + 1
    PROVE  SlotsCounted'
<1>1. Pinging' = Pinging \ {b} /\ b \in Pinging
  BY DEF Pinging
<1>2. IsFiniteSet(Pinging') /\ Cardinality(Pinging') = Cardinality(Pinging) - 1
  BY <1>1, FS_RemoveElement, Zenon DEF SlotsCounted
<1>3. Cardinality(Pinging) \in Nat
  BY FS_CardinalityType, Zenon DEF SlotsCounted
<1> QED
  BY <1>2, <1>3, KadAssumption DEF SlotsCounted

\* A bucket that is replaced by a sound one.
LEMMA BucketStep ==
    ASSUME KadTypes, BucketsSound, NEW n \in KadNodes, NEW s \in Seq(Entries), BucketSound(BucketOf[n], s), SetBucket(n, s)
    PROVE  kadBuckets' \in [Buckets -> Seq(Entries)] /\ BucketsSound'
<1>1. BucketOf[n] \in Buckets /\ kadBuckets \in [Buckets -> Seq(Entries)]
  BY DEF Buckets, KadTypes
<1>2. kadBuckets' = [kadBuckets EXCEPT ![BucketOf[n]] = s]
  BY DEF SetBucket
<1>3. kadBuckets' \in [Buckets -> Seq(Entries)]
  BY <1>1, <1>2
<1>4. \A k \in Buckets : kadBuckets'[k] = IF k = BucketOf[n] THEN s ELSE kadBuckets[k]
  BY <1>1, <1>2
<1>5. BucketsSound'
  BY <1>4, Zenon DEF BucketsSound
<1> QED
  BY <1>3, <1>5

-----------------------------------------------------------------------------
(* The steps of bond.                                                      *)

\* A step that leaves the table, the contests and what is registered alone.
LEMMA QuietStep ==
    ASSUME KadInv, NEW b \in Bonds, NEW r, Becomes(b, r), UNCHANGED <<kadDb, kadBuckets, contested, bonding, bondSlots>>,
           bonders[b].at # "contest", r.at # "contest",
           r.at \in InPingPong => bonders[b].at \in InPingPong /\ r.id = bonders[b].id,
           r.at \in {"ping", "waitping"} <=> bonders[b].at \in {"ping", "waitping"}
    PROVE  KadInv'
<1> USE DEF KadInv
<1>1. /\ bonders' \in [Bonds -> BonderRecords] /\ CallsOK'
      /\ bonders'[b] = r /\ \A c \in Bonds \ {b} : bonders'[c] = bonders[c]
  BY CallStep, Zenon
<1>2. KadTypes' /\ BucketsSound'
  BY <1>1, Zenon DEF KadTypes, BucketsSound
<1>3. Contests'
  BY <1>1, ContestsSame, Zenon
<1>4. Registered'
  BY <1>1, RegisteredSame, Zenon
<1>5. SlotsCounted'
  BY <1>1, SlotsSame, Zenon
<1> QED
  BY <1>1, <1>2, <1>3, <1>4, <1>5, SMTT(60)

\* What the invariant says of one call.
LEMMA OneCall ==
    ASSUME KadInv, NEW b \in Bonds
    PROVE  /\ bonders[b] \in BonderRecords /\ CallOK(bonders[b])
           /\ bonders[b].id \in KadNodes /\ bonders[b].at \in Stages /\ bonders[b].ok \in BOOLEAN
           /\ bonders[b].node \in Bonds \cup {NoObj}
           /\ bonders[b].at \notin {"idle", "done"} => bonders[b].id # KadSelf
<1>1. bonders[b] \in BonderRecords /\ CallOK(bonders[b])
  BY DEF KadInv, KadTypes, CallsOK
<1> QED
  BY <1>1 DEF BonderRecords, CallOK

\* bond starts: what the database knows is never ourself.
LEMMA BondKeeps == ASSUME KadInv, NEW b \in Bonds, NEW id \in KadNodes, Bond(b, id) PROVE KadInv'
<1> DEFINE o == bonders[b]
           known == id \in kadDb.known
           bonded == known /\ kadDb.fails[id] = 0 /\ id \in kadDb.recent
           at == IF id = KadSelf THEN "done" ELSE IF bonded THEN "add" ELSE "register"
           node == IF known THEN b ELSE NoObj
           r == [o EXCEPT !.at = at, !.id = id, !.ok = bonded, !.node = node]
<1>1. o \in BonderRecords
  BY OneCall
<1>2. bonders' = [bonders EXCEPT ![b] = r] /\ o.at = "idle"
      /\ UNCHANGED <<kadDb, kadBuckets, contested, bonding, bondSlots>>
  BY Zenon DEF Bond
<1>3. id = KadSelf => ~known
  BY DEF KadInv, KadTypes, DbRecords
<1>4. bonded \in BOOLEAN
  OBVIOUS
<1>a. /\ at \in {"done", "add", "register"} /\ node \in Bonds \cup {NoObj}
      /\ id = KadSelf => at = "done" /\ node = NoObj
  <2> HIDE DEF bonded, known
  <2>1. at = "done" \/ (id # KadSelf /\ (at = "add" \/ at = "register"))
    BY Zenon
  <2>2. node \in Bonds \cup {NoObj} /\ (id = KadSelf => node = NoObj)
    BY <1>3, Zenon
  <2> HIDE DEF at, node
  <2> QED
    BY <2>1, <2>2, Zenon
<1> HIDE DEF bonded, at, node, o
<1>5. r \in BonderRecords /\ r.at = at /\ r.id = id /\ r.node = node
  <2>1. PICK ok \in BOOLEAN : ok = bonded
    BY <1>4
  <2>2. [o EXCEPT !.at = at, !.id = id, !.ok = ok, !.node = node] \in BonderRecords
    BY <1>1, <1>a, Zenon DEF BonderRecords, Stages
  <2>3. r \in BonderRecords
    BY <2>1, <2>2, Zenon
  <2>4. r.at = at /\ r.id = id /\ r.node = node
    BY <1>1 DEF BonderRecords
  <2> QED
    BY <2>3, <2>4
<1> HIDE DEF r
<1>6. Becomes(b, r)
  BY <1>2, <1>5, <1>a DEF Becomes, CallOK
<1> QED
  BY <1>2, <1>5, <1>6, <1>a, QuietStep DEF o, InPingPong

\* The ping/pong of a node that has one is waited for; the call that starts one
\* is the only one of the node.
LEMMA RegisterKeeps == ASSUME KadInv, NEW b \in Bonds, Register(b) PROVE KadInv'
<1> DEFINE o == bonders[b]
<1>1. o \in BonderRecords /\ o.at = "register" /\ o.id \in KadNodes /\ o.id # KadSelf
  BY OneCall DEF Register
<1>2. bonding[o.id] \in Bonds \cup {NoObj} /\ bonding \in [KadNodes -> Bonds \cup {NoObj}] /\ bonders \in [Bonds -> BonderRecords]
  BY <1>1 DEF KadInv, KadTypes
<1>3. CASE bonding[o.id] # NoObj
  <2> DEFINE w == bonding[o.id]
             r == [o EXCEPT !.at = "await", !.w = w]
  <2>1. /\ bonders' = [bonders EXCEPT ![b].at = "await", ![b].w = w]
        /\ UNCHANGED <<kadDb, kadBuckets, contested, bonding, bondSlots>>
    BY <1>3, Zenon DEF Register
  <2>2. bonders' = [bonders EXCEPT ![b] = r]
    BY <1>2, <2>1, Zenon
  <2>3. w \in Bonds
    BY <1>2, <1>3
  <2> HIDE DEF o, w
  <2>4. r \in BonderRecords /\ r.at = "await" /\ r.w = w /\ r.id = o.id
    BY <1>1, <2>3, Zenon DEF BonderRecords, Stages
  <2> HIDE DEF r
  <2>5. Becomes(b, r)
    BY <1>1, <2>2, <2>3, <2>4 DEF Becomes, CallOK
  <2> QED
    BY <1>1, <2>1, <2>4, <2>5, QuietStep DEF o, InPingPong
<1>4. CASE bonding[o.id] = NoObj
  <2> DEFINE r == [o EXCEPT !.at = "slot", !.w = b]
  <2>1. /\ bonders' = [bonders EXCEPT ![b].at = "slot", ![b].w = b]
        /\ bonding' = [bonding EXCEPT ![o.id] = b]
        /\ UNCHANGED <<kadDb, kadBuckets, contested, bondSlots>>
    BY <1>4, Zenon DEF Register
  <2>2. bonders' = [bonders EXCEPT ![b] = r]
    BY <1>2, <2>1, Zenon
  <2> HIDE DEF o
  <2>3. r \in BonderRecords /\ r.at = "slot" /\ r.id = o.id
    BY <1>1, Zenon DEF BonderRecords, Stages
  <2> HIDE DEF r
  <2>4. Becomes(b, r)
    BY <1>1, <2>2, <2>3 DEF Becomes, CallOK
  <2>5. /\ bonders' \in [Bonds -> BonderRecords] /\ CallsOK'
        /\ bonders'[b] = r /\ \A c \in Bonds \ {b} : bonders'[c] = bonders[c]
    BY <2>4, CallStep, Zenon DEF KadInv
  <2>6. bonding' \in [KadNodes -> Bonds \cup {NoObj}] /\ bonding'[o.id] = b
        /\ \A n \in KadNodes \ {o.id} : bonding'[n] = bonding[n]
    BY <1>1, <1>2, <2>1
  <2>7. KadTypes' /\ BucketsSound'
    BY <2>1, <2>5, <2>6, Zenon DEF KadInv, KadTypes, BucketsSound
  <2>8. Contests' /\ SlotsCounted'
    <3>1. r.at # "contest" /\ bonders[b].at # "contest"
          /\ (r.at \in {"ping", "waitping"} <=> bonders[b].at \in {"ping", "waitping"})
      BY <1>1, <2>3 DEF o
    <3> QED
      BY <2>1, <2>5, <3>1, ContestsSame, SlotsSame, ZenonT(60) DEF KadInv
  <2>9. Registered'
    <3> SUFFICES ASSUME NEW c \in Bonds, bonders'[c].at \in InPingPong PROVE bonding'[bonders'[c].id] = c
      BY Zenon DEF Registered
    <3>1. CASE c = b
      BY <2>3, <2>5, <2>6, <3>1, SMTT(60)
    <3>2. CASE c # b
      <4>1. bonders'[c] = bonders[c] /\ bonders[c].id \in KadNodes /\ bonding[bonders[c].id] = c
        BY <2>5, <3>2, OneCall, SMTT(60) DEF KadInv, Registered
      <4>2. bonders[c].id # o.id
        BY <1>4, <4>1, KadAssumption, SMTT(60) DEF o
      <4> QED
        BY <2>6, <4>1, <4>2, SMTT(60)
    <3> QED
      BY <3>1, <3>2
  <2> QED
    BY <2>5, <2>7, <2>8, <2>9 DEF KadInv
<1> QED
  BY <1>3, <1>4

\* The outcome of a ping/pong: the call goes on to add, or ends without a node.
LEMMA OutcomeOK ==
    ASSUME KadInv, NEW b \in Bonds, NEW w \in Bonds, bonders[b].at \notin {"idle", "done"},
           bonders' = [bonders EXCEPT ![b] = BondOutcome(b, w)]
    PROVE  Becomes(b, BondOutcome(b, w)) /\ BondOutcome(b, w).at \in {"done", "add"}
<1> DEFINE o == bonders[b]
           ok == bonders[w].ok
           node == IF ok THEN w ELSE o.node
           at == IF node = NoObj THEN "done" ELSE "add"
           r == [o EXCEPT !.node = node, !.ok = ok, !.at = at]
<1>1. o \in BonderRecords /\ o.id # KadSelf /\ o.node \in Bonds \cup {NoObj} /\ ok \in BOOLEAN
  BY OneCall
<1>2. BondOutcome(b, w) = r
  BY Zenon DEF BondOutcome
<1>3. node \in Bonds \cup {NoObj} /\ at \in {"done", "add"}
  BY <1>1
<1> HIDE DEF o, ok, node, at
<1>4. r \in BonderRecords /\ r.at = at /\ r.id = o.id
  <2>1. PICK f \in BOOLEAN : f = ok
    BY <1>1
  <2>2. [o EXCEPT !.node = node, !.ok = f, !.at = at] \in BonderRecords
    BY <1>1, <1>3, ZenonT(60) DEF BonderRecords, Stages
  <2>3. r \in BonderRecords
    BY <2>1, <2>2, Zenon
  <2>4. r.at = at /\ r.id = o.id
    BY <1>1 DEF BonderRecords
  <2> QED
    BY <2>3, <2>4
<1> HIDE DEF r
<1> QED
  BY <1>1, <1>2, <1>3, <1>4, SMTT(60) DEF Becomes, CallOK

\* A call that waited for the ping/pong of another gets its outcome.
LEMMA AwaitKeeps == ASSUME KadInv, NEW b \in Bonds, Await(b) PROVE KadInv'
<1>1. bonders[b].at = "await" /\ bonders' = [bonders EXCEPT ![b] = BondOutcome(b, bonders[b].w)]
      /\ UNCHANGED <<kadDb, kadBuckets, contested, bonding, bondSlots>>
  BY DEF Await
<1>2. bonders[b].w \in Bonds
  BY <1>1, OneCall DEF CallOK
<1>3. Becomes(b, BondOutcome(b, bonders[b].w)) /\ BondOutcome(b, bonders[b].w).at \in {"done", "add"}
  BY <1>1, <1>2, OutcomeOK, Zenon
<1> QED
  BY <1>1, <1>3, QuietStep DEF InPingPong

\* The ping/pong is over: nobody else had the node's entry.
LEMMA UnregisterKeeps == ASSUME KadInv, NEW b \in Bonds, Unregister(b) PROVE KadInv'
<1> DEFINE id == bonders[b].id
           r == BondOutcome(b, b)
<1>1. /\ bonders[b].at = "unregister" /\ bonders' = [bonders EXCEPT ![b] = r]
      /\ bonding' = [bonding EXCEPT ![id] = NoObj]
      /\ UNCHANGED <<kadDb, kadBuckets, contested, bondSlots>>
  BY DEF Unregister
<1>2. Becomes(b, r) /\ r.at \in {"done", "add"}
  BY <1>1, OutcomeOK, Zenon
<1> HIDE DEF r
<1>3. /\ bonders' \in [Bonds -> BonderRecords] /\ CallsOK'
      /\ bonders'[b] = r /\ \A c \in Bonds \ {b} : bonders'[c] = bonders[c]
  BY <1>2, CallStep, Zenon DEF KadInv
<1>4. id \in KadNodes /\ bonding \in [KadNodes -> Bonds \cup {NoObj}]
  BY OneCall DEF KadInv, KadTypes
<1>5. bonding' \in [KadNodes -> Bonds \cup {NoObj}] /\ \A n \in KadNodes \ {id} : bonding'[n] = bonding[n]
  BY <1>1, <1>4
<1>6. KadTypes' /\ BucketsSound'
  BY <1>1, <1>3, <1>5, Zenon DEF KadInv, KadTypes, BucketsSound
<1>7. Contests' /\ SlotsCounted'
  <2>1. r.at # "contest" /\ bonders[b].at # "contest"
        /\ (r.at \in {"ping", "waitping"} <=> bonders[b].at \in {"ping", "waitping"})
    BY <1>1, <1>2
  <2> QED
    BY <1>1, <1>3, <2>1, ContestsSame, SlotsSame, ZenonT(60) DEF KadInv
<1>8. Registered'
  <2> SUFFICES ASSUME NEW c \in Bonds, bonders'[c].at \in InPingPong PROVE bonding'[bonders'[c].id] = c
    BY Zenon DEF Registered
  <2>1. c # b
    BY <1>2, <1>3 DEF InPingPong
  <2>2. bonders'[c] = bonders[c] /\ bonders[c].id \in KadNodes /\ bonding[bonders[c].id] = c
    BY <1>3, <2>1, OneCall DEF KadInv, Registered
  <2>3. bonding[id] = b
    BY <1>1 DEF KadInv, Registered, InPingPong
  <2> QED
    BY <1>5, <2>1, <2>2, <2>3, SMTT(60)
<1> QED
  BY <1>3, <1>6, <1>7, <1>8 DEF KadInv

\* A call that has registered its ping/pong takes a slot for it.
LEMMA TakeSlotKeeps == ASSUME KadInv, NEW b \in Bonds, TakeSlot(b) PROVE KadInv'
<1> DEFINE r == [bonders[b] EXCEPT !.at = "ping"]
<1>1. /\ bonders[b].at = "slot" /\ bondSlots > 0 /\ bondSlots' = bondSlots - 1 /\ Go(b, "ping")
      /\ UNCHANGED <<kadDb, kadBuckets, contested, bonding>>
  BY DEF TakeSlot
<1>2. Becomes(b, r) /\ r.at = "ping" /\ r.id = bonders[b].id
  BY <1>1, GoStep DEF KadInv, Stages
<1> HIDE DEF r
<1>3. /\ bonders' \in [Bonds -> BonderRecords] /\ CallsOK'
      /\ bonders'[b] = r /\ \A c \in Bonds \ {b} : bonders'[c] = bonders[c]
  BY <1>2, CallStep, Zenon DEF KadInv
<1>4. bondSlots \in Nat /\ bondSlots' \in Nat
  BY <1>1 DEF KadInv, KadTypes
<1>5. KadTypes' /\ BucketsSound'
  BY <1>1, <1>3, <1>4, Zenon DEF KadInv, KadTypes, BucketsSound
<1>6. /\ r.at # "contest" /\ bonders[b].at # "contest" /\ bonders[b].at \in InPingPong
      /\ r.at \in {"ping", "waitping"} /\ bonders[b].at \notin {"ping", "waitping"}
  BY <1>1, <1>2 DEF InPingPong
<1>7. Contests' /\ Registered' /\ SlotsCounted'
  BY <1>1, <1>2, <1>3, <1>4, <1>6, ContestsSame, RegisteredSame, SlotTaken, ZenonT(60) DEF KadInv
<1> QED
  BY <1>3, <1>5, <1>7 DEF KadInv

\* The ping fails, and the slot is free again.
LEMMA PingFailsKeeps == ASSUME KadInv, NEW b \in Bonds, PingFails(b) PROVE KadInv'
<1> DEFINE r == [bonders[b] EXCEPT !.at = "unregister"]
<1>1. /\ bonders[b].at = "ping" /\ bondSlots' = bondSlots + 1 /\ Go(b, "unregister")
      /\ UNCHANGED <<kadDb, kadBuckets, contested, bonding>>
  BY DEF PingFails
<1>2. Becomes(b, r) /\ r.at = "unregister" /\ r.id = bonders[b].id
  BY <1>1, GoStep DEF KadInv, Stages
<1> HIDE DEF r
<1>3. /\ bonders' \in [Bonds -> BonderRecords] /\ CallsOK'
      /\ bonders'[b] = r /\ \A c \in Bonds \ {b} : bonders'[c] = bonders[c]
  BY <1>2, CallStep, Zenon DEF KadInv
<1>4. bondSlots \in Nat /\ bondSlots' \in Nat
  BY <1>1 DEF KadInv, KadTypes
<1>5. KadTypes' /\ BucketsSound'
  BY <1>1, <1>3, <1>4, ZenonT(60) DEF KadInv, KadTypes, BucketsSound
<1>6. /\ r.at # "contest" /\ bonders[b].at # "contest" /\ bonders[b].at \in InPingPong
      /\ r.at \notin {"ping", "waitping"} /\ bonders[b].at \in {"ping", "waitping"}
  BY <1>1, <1>2 DEF InPingPong
<1>7. Contests' /\ Registered' /\ SlotsCounted'
  BY <1>1, <1>2, <1>3, <1>4, <1>6, ContestsSame, RegisteredSame, SlotReturned, ZenonT(60) DEF KadInv
<1> QED
  BY <1>3, <1>5, <1>7 DEF KadInv

\* The database, when a pong is recorded or a node stored.
LEMMA DbStep ==
    ASSUME KadInv, NEW n \in KadNodes
    PROVE  /\ [kadDb EXCEPT !.recent = @ \union {n}] \in DbRecords
           /\ n # KadSelf => [kadDb EXCEPT !.known = @ \union {n}] \in DbRecords
           /\ [kadDb EXCEPT !.fails[n] = 0] \in DbRecords
<1>1. kadDb \in DbRecords
  BY DEF KadInv, KadTypes
<1>2. [kadDb EXCEPT !.recent = @ \union {n}] \in DbRecords
  BY <1>1 DEF DbRecords
<1>3. n # KadSelf => [kadDb EXCEPT !.known = @ \union {n}] \in DbRecords
  BY <1>1 DEF DbRecords
<1>4. [kadDb EXCEPT !.fails[n] = 0] \in DbRecords
  BY <1>1 DEF DbRecords
<1> QED
  BY <1>2, <1>3, <1>4

\* The pong is recorded.
LEMMA PongedKeeps == ASSUME KadInv, NEW b \in Bonds, Ponged(b) PROVE KadInv'
<1> DEFINE r == [bonders[b] EXCEPT !.at = "waitping"]
<1>1. /\ bonders[b].at = "ping" /\ kadDb' = [kadDb EXCEPT !.recent = @ \union {bonders[b].id}] /\ Go(b, "waitping")
      /\ UNCHANGED <<kadBuckets, contested, bonding, bondSlots>>
  BY DEF Ponged
<1>2. Becomes(b, r) /\ r.at = "waitping" /\ r.id = bonders[b].id
  BY <1>1, GoStep DEF KadInv, Stages
<1> HIDE DEF r
<1>3. /\ bonders' \in [Bonds -> BonderRecords] /\ CallsOK'
      /\ bonders'[b] = r /\ \A c \in Bonds \ {b} : bonders'[c] = bonders[c]
  BY <1>2, CallStep, Zenon DEF KadInv
<1>4. kadDb' \in DbRecords
  BY <1>1, OneCall, DbStep, Zenon
<1>5. KadTypes' /\ BucketsSound'
  BY <1>1, <1>3, <1>4, Zenon DEF KadInv, KadTypes, BucketsSound
<1>6. /\ r.at # "contest" /\ bonders[b].at # "contest" /\ bonders[b].at \in InPingPong
      /\ r.at \in {"ping", "waitping"} /\ bonders[b].at \in {"ping", "waitping"}
  BY <1>1, <1>2 DEF InPingPong
<1>7. Contests' /\ Registered' /\ SlotsCounted'
  BY <1>1, <1>2, <1>3, <1>6, ContestsSame, RegisteredSame, SlotsSame, ZenonT(60) DEF KadInv
<1> QED
  BY <1>3, <1>5, <1>7 DEF KadInv

\* The ping/pong is complete: the node, never ourself, is stored.
LEMMA PingPongEndsKeeps == ASSUME KadInv, NEW b \in Bonds, PingPongEnds(b) PROVE KadInv'
<1> DEFINE o == bonders[b]
           r == [o EXCEPT !.at = "unregister", !.ok = TRUE]
<1>1. /\ o.at = "waitping" /\ kadDb' = [kadDb EXCEPT !.known = @ \union {o.id}]
      /\ bondSlots' = bondSlots + 1
      /\ bonders' = [bonders EXCEPT ![b].at = "unregister", ![b].ok = TRUE]
      /\ UNCHANGED <<kadBuckets, contested, bonding>>
  BY DEF PingPongEnds
<1>2. o \in BonderRecords /\ o.id \in KadNodes /\ o.id # KadSelf
  BY <1>1, OneCall
<1>3. bonders' = [bonders EXCEPT ![b] = r]
  BY <1>1, Zenon DEF KadInv, KadTypes
<1> HIDE DEF o
<1>4. r \in BonderRecords /\ r.at = "unregister" /\ r.id = o.id
  BY <1>2, Zenon DEF BonderRecords, Stages
<1> HIDE DEF r
<1>5. Becomes(b, r)
  BY <1>2, <1>3, <1>4 DEF Becomes, CallOK
<1>6. /\ bonders' \in [Bonds -> BonderRecords] /\ CallsOK'
      /\ bonders'[b] = r /\ \A c \in Bonds \ {b} : bonders'[c] = bonders[c]
  BY <1>5, CallStep, Zenon DEF KadInv
<1>7. kadDb' \in DbRecords
  BY <1>1, <1>2, DbStep, Zenon
<1>8. bondSlots \in Nat /\ bondSlots' \in Nat
  BY <1>1 DEF KadInv, KadTypes
<1>9. KadTypes' /\ BucketsSound'
  BY <1>1, <1>6, <1>7, <1>8, Zenon DEF KadInv, KadTypes, BucketsSound
<1>10. /\ r.at # "contest" /\ bonders[b].at # "contest" /\ bonders[b].at \in InPingPong /\ r.id = bonders[b].id
       /\ r.at \notin {"ping", "waitping"} /\ bonders[b].at \in {"ping", "waitping"}
  BY <1>1, <1>4 DEF InPingPong, o
<1>11. Contests' /\ Registered' /\ SlotsCounted'
  BY <1>1, <1>6, <1>8, <1>10, ContestsSame, RegisteredSame, SlotReturned, ZenonT(60) DEF KadInv
<1> QED
  BY <1>6, <1>9, <1>11 DEF KadInv

\* The call ends, with the failures of its node forgotten.
LEMMA ResetFailsKeeps == ASSUME KadInv, NEW b \in Bonds, ResetFails(b) PROVE KadInv'
<1> DEFINE r == [bonders[b] EXCEPT !.at = "done"]
<1>1. /\ bonders[b].at = "reset" /\ kadDb' = [kadDb EXCEPT !.fails[bonders[b].id] = 0] /\ Go(b, "done")
      /\ UNCHANGED <<kadBuckets, contested, bonding, bondSlots>>
  BY DEF ResetFails
<1>2. Becomes(b, r) /\ r.at = "done" /\ r.id = bonders[b].id
  BY <1>1, GoStep DEF KadInv, Stages
<1> HIDE DEF r
<1>3. /\ bonders' \in [Bonds -> BonderRecords] /\ CallsOK'
      /\ bonders'[b] = r /\ \A c \in Bonds \ {b} : bonders'[c] = bonders[c]
  BY <1>2, CallStep, Zenon DEF KadInv
<1>4. kadDb' \in DbRecords
  BY <1>1, OneCall, DbStep, Zenon
<1>5. KadTypes' /\ BucketsSound'
  BY <1>1, <1>3, <1>4, Zenon DEF KadInv, KadTypes, BucketsSound
<1>6. /\ r.at # "contest" /\ bonders[b].at # "contest" /\ r.at \notin InPingPong
      /\ r.at \notin {"ping", "waitping"} /\ bonders[b].at \notin {"ping", "waitping"}
  BY <1>1, <1>2 DEF InPingPong
<1>7. Contests' /\ Registered' /\ SlotsCounted'
  BY <1>1, <1>3, <1>6, ContestsSame, RegisteredSame, SlotsSame, ZenonT(60) DEF KadInv
<1> QED
  BY <1>3, <1>5, <1>7 DEF KadInv

-----------------------------------------------------------------------------
(* The steps of add, and what else changes the buckets.                    *)

\* The entry a call adds, and the bucket it belongs to.
LEMMA EntryTyped ==
    ASSUME KadInv, NEW b \in Bonds, bonders[b].id # KadSelf
    PROVE  /\ EntryOf(b) \in Entries /\ EntryOf(b).id = bonders[b].id
           /\ kadBuckets[BucketOf[bonders[b].id]] \in Seq(Entries)
           /\ BucketSound(BucketOf[bonders[b].id], kadBuckets[BucketOf[bonders[b].id]])
<1>1. bonders[b].id \in KadNodes /\ bonders[b].node \in Objs
  BY OneCall DEF Objs
<1>2. BucketOf[bonders[b].id] \in Buckets
  BY <1>1 DEF Buckets
<1>3. EntryOf(b) \in Entries /\ EntryOf(b).id = bonders[b].id
  BY <1>1 DEF EntryOf, Entries
<1> QED
  BY <1>2, <1>3 DEF KadInv, KadTypes, BucketsSound

\* replace, on a sound bucket: what it puts in front takes the place of the last
\* entry when the bucket is full.
LEMMA ReplaceSound ==
    ASSUME NEW k, NEW s \in Seq(Entries), BucketSound(k, s), NEW e \in Entries, e.id # KadSelf, BucketOf[e.id] = k, NEW last
    PROVE  replace(s, e, last) \in Seq(Entries) /\ BucketSound(k, replace(s, e, last))
<1> DEFINE n == IF Len(s) = bucketSize THEN bucketSize - 1 ELSE Len(s)
           t == SubSeq(s, 1, n)
<1>1. CASE e.id \in IdsIn(s) \/ (Len(s) = bucketSize /\ s[bucketSize].id # last)
  BY <1>1, Zenon DEF replace
<1>2. CASE ~(e.id \in IdsIn(s) \/ (Len(s) = bucketSize /\ s[bucketSize].id # last))
  <2>1. replace(s, e, last) = <<e>> \o t
    BY <1>2, Zenon DEF replace
  <2>2. Len(s) \in Nat /\ Len(s) <= bucketSize /\ bucketSize \in Nat \ {0}
    BY BucketByIndex, KadAssumption
  <2>3. n \in 0 .. Len(s) /\ n < bucketSize
    BY <2>2
  <2> HIDE DEF n
  <2>4. t \in Seq(Entries) /\ Len(t) = n /\ IdsIn(t) \subseteq IdsIn(s) /\ BucketSound(k, t)
    BY <2>3, PrefixSound
  <2> HIDE DEF t
  <2>5. Len(t) < bucketSize /\ e.id \notin IdsIn(t)
    BY <1>2, <2>3, <2>4, SMTT(60)
  <2> QED
    BY <2>1, <2>4, <2>5, PutFirstSound
<1> QED
  BY <1>1, <1>2

\* add: the node is moved to the front, put there, or contests the oldest entry,
\* which nobody else contests.
LEMMA AddKeeps == ASSUME KadInv, NEW b \in Bonds, Add(b) PROVE KadInv'
<1> DEFINE o == bonders[b]
           id == o.id
           k == BucketOf[id]
           s == kadBuckets[k]
           e == EntryOf(b)
<1>1. o.at = "add" /\ UNCHANGED <<kadDb, bonding, bondSlots>>
  BY Zenon DEF Add
<1>2. o \in BonderRecords /\ id \in KadNodes /\ id # KadSelf
  BY <1>1, OneCall, SMTT(60)
<1>3. e \in Entries /\ e.id = id /\ s \in Seq(Entries) /\ BucketSound(k, s)
  BY <1>2, EntryTyped, SMTT(60)
<1>4. bucketSize \in Nat \ {0} /\ Len(s) \in Nat /\ Len(s) <= bucketSize
  BY <1>3, BucketByIndex, KadAssumption
\* The call is done with the table.
<1>5. ASSUME Go(b, "reset"), UNCHANGED contested, kadBuckets' \in [Buckets -> Seq(Entries)], BucketsSound' PROVE KadInv'
  <2> DEFINE r == [bonders[b] EXCEPT !.at = "reset"]
  <2>1. Becomes(b, r) /\ r.at = "reset" /\ r.id = bonders[b].id
    BY <1>1, <1>5, GoStep DEF KadInv, Stages
  <2> HIDE DEF r
  <2>2. /\ bonders' \in [Bonds -> BonderRecords] /\ CallsOK'
        /\ bonders'[b] = r /\ \A c \in Bonds \ {b} : bonders'[c] = bonders[c]
    BY <2>1, CallStep, Zenon DEF KadInv
  <2>3. KadTypes'
    BY <1>1, <1>5, <2>2, Zenon DEF KadInv, KadTypes
  <2>4. /\ r.at # "contest" /\ bonders[b].at # "contest" /\ r.at \notin InPingPong
        /\ r.at \notin {"ping", "waitping"} /\ bonders[b].at \notin {"ping", "waitping"}
    BY <1>1, <2>1 DEF InPingPong
  <2>5. Contests' /\ Registered' /\ SlotsCounted'
    BY <1>1, <1>5, <2>2, <2>4, ContestsSame, RegisteredSame, SlotsSame, ZenonT(60) DEF KadInv
  <2> QED
    BY <1>5, <2>2, <2>3, <2>5 DEF KadInv
<1>6. CASE id \in IdsIn(s)
  <2>1. SetBucket(id, bump(s, e)) /\ Go(b, "reset") /\ UNCHANGED contested
    BY <1>6, Zenon DEF Add
  <2> DEFINE t == without(s, id)
  <2>2. t \in Seq(Entries) /\ Len(t) < bucketSize /\ id \notin IdsIn(t) /\ BucketSound(k, t)
    BY <1>3, <1>6, WithoutSound, Zenon
  <2>3. bump(s, e) = <<e>> \o t
    BY <1>3, ZenonT(60) DEF bump
  <2> HIDE DEF t
  <2>4. bump(s, e) \in Seq(Entries) /\ BucketSound(k, bump(s, e))
    BY <1>2, <1>3, <2>2, <2>3, PutFirstSound, ZenonT(60)
  <2>5. kadBuckets' \in [Buckets -> Seq(Entries)] /\ BucketsSound'
    BY <1>2, <2>1, <2>4, BucketStep, ZenonT(60) DEF KadInv
  <2> QED
    BY <1>5, <2>1, <2>5
<1>7. CASE id \notin IdsIn(s) /\ Len(s) < bucketSize
  <2>0. ~(Len(s) >= bucketSize)
    BY <1>4, <1>7
  <2>1. SetBucket(id, replace(s, e, NoObj)) /\ Go(b, "reset") /\ UNCHANGED contested
    BY <1>7, <2>0, Zenon DEF Add
  <2>2. replace(s, e, NoObj) \in Seq(Entries) /\ BucketSound(k, replace(s, e, NoObj))
    BY <1>2, <1>3, ReplaceSound, Zenon
  <2>3. kadBuckets' \in [Buckets -> Seq(Entries)] /\ BucketsSound'
    BY <1>2, <2>1, <2>2, BucketStep, ZenonT(60) DEF KadInv
  <2> QED
    BY <1>5, <2>1, <2>3, SMTT(60)
<1>8. CASE id \notin IdsIn(s) /\ Len(s) >= bucketSize
  <2> DEFINE oldest == s[bucketSize]
  <2>0. ~(Len(s) < bucketSize)
    BY <1>4, <1>8
  <2>1. /\ IF oldest.obj \in contested
           THEN Go(b, "reset") /\ UNCHANGED contested
           ELSE /\ contested' = contested \union {oldest.obj}
                /\ bonders' = [bonders EXCEPT ![b].at = "contest", ![b].oldest = oldest.obj, ![b].w = oldest.id]
        /\ UNCHANGED kadBuckets
    BY <1>8, <2>0, Zenon DEF Add
  <2>2. kadBuckets' \in [Buckets -> Seq(Entries)] /\ BucketsSound'
    BY <2>1, ZenonT(60) DEF KadInv, KadTypes, BucketsSound
  <2>3. CASE oldest.obj \in contested
    BY <1>5, <2>1, <2>2, <2>3, SMTT(60)
  <2>4. CASE oldest.obj \notin contested
    <3> DEFINE r == [o EXCEPT !.at = "contest", !.oldest = oldest.obj, !.w = oldest.id]
    <3>1. bonders' = [bonders EXCEPT ![b] = r] /\ contested' = contested \union {oldest.obj}
      BY <2>1, <2>4, Zenon DEF KadInv, KadTypes
    <3>2. oldest \in Entries
      <4>1. Len(s) = bucketSize /\ bucketSize \in 1 .. Len(s)
        BY <1>4, <1>8, SMTT(60)
      <4> QED
        BY <1>3, <4>1, ElementOfSeq, ZenonT(60)
    <3>3. oldest.id \in KadNodes /\ oldest.obj \in Objs
      BY <3>2 DEF Entries
    <3> HIDE DEF oldest, o, Objs
    <3>4. r \in BonderRecords /\ r.at = "contest" /\ r.w = oldest.id /\ r.oldest = oldest.obj /\ r.id = o.id
      BY <1>2, <3>3, ZenonT(60) DEF BonderRecords, Stages
    <3> HIDE DEF r
    <3>5. Becomes(b, r)
      BY <1>2, <3>1, <3>3, <3>4 DEF Becomes, CallOK
    <3>6. /\ bonders' \in [Bonds -> BonderRecords] /\ CallsOK'
          /\ bonders'[b] = r /\ \A c \in Bonds \ {b} : bonders'[c] = bonders[c]
      BY <3>5, CallStep, Zenon DEF KadInv
    <3>7. KadTypes'
      BY <1>1, <2>2, <3>6, Zenon DEF KadInv, KadTypes
    <3>8. /\ r.at \notin InPingPong
          /\ r.at \notin {"ping", "waitping"} /\ bonders[b].at \notin {"ping", "waitping"}
      BY <1>1, <3>4 DEF InPingPong, o
    <3>9. Registered' /\ SlotsCounted'
      BY <1>1, <3>6, <3>8, RegisteredSame, SlotsSame, ZenonT(60) DEF KadInv
    <3>10. Contests'
      <4>0. bonders[b].at # "contest" /\ bonders'[b].at = "contest" /\ bonders'[b].oldest = oldest.obj
        BY <1>1, <3>4, <3>6, SMTT(60) DEF o
      <4>1. \A c \in Bonds \ {b} : bonders[c].at = "contest" => bonders[c].oldest # oldest.obj
        BY <2>4 DEF KadInv, Contests
      <4>2. contested' = {bonders'[d].oldest : d \in {c \in Bonds : bonders'[c].at = "contest"}}
        <5>1. contested = {bonders[d].oldest : d \in {c \in Bonds : bonders[c].at = "contest"}}
          BY DEF KadInv, Contests
        <5> QED
          BY <3>1, <3>6, <4>0, <5>1, SMTT(60)
      <4>3. \A c, d \in Bonds : bonders'[c].at = "contest" /\ bonders'[d].at = "contest"
                                    => (bonders'[c].oldest = bonders'[d].oldest => c = d)
        <5>1. \A c, d \in Bonds : bonders[c].at = "contest" /\ bonders[d].at = "contest"
                                    => (bonders[c].oldest = bonders[d].oldest => c = d)
          BY DEF KadInv, Contests
        <5> QED
          BY <3>6, <4>0, <4>1, <5>1, SMTT(60)
      <4> QED
        BY <4>2, <4>3, ZenonT(60) DEF Contests
    <3> QED
      BY <2>2, <3>6, <3>7, <3>9, <3>10, SMTT(60) DEF KadInv
  <2> QED
    BY <2>3, <2>4, SMTT(60)
<1> QED
  BY <1>4, <1>6, <1>7, <1>8

\* The contest of the oldest entry ends: its object is free again, and the node
\* takes its place if it has not answered and is still the last.
LEMMA ContestedKeeps == ASSUME KadInv, NEW b \in Bonds, NEW answers \in BOOLEAN, Contested(b, answers) PROVE KadInv'
<1> DEFINE o == bonders[b]
           k == BucketOf[o.id]
           s == kadBuckets[k]
           e == EntryOf(b)
           r == [bonders[b] EXCEPT !.at = "reset"]
<1>1. /\ o.at = "contest" /\ contested' = contested \ {o.oldest}
      /\ kadDb' = IF answers THEN [kadDb EXCEPT !.recent = @ \union {o.w}] ELSE kadDb
      /\ IF answers THEN UNCHANGED kadBuckets ELSE SetBucket(o.id, replace(s, e, o.w))
      /\ Go(b, "reset") /\ UNCHANGED <<bonding, bondSlots>>
  BY Zenon DEF Contested
<1>2. o.id \in KadNodes /\ o.id # KadSelf /\ o.w \in KadNodes
  BY <1>1, OneCall, SMTT(60) DEF CallOK
<1>3. e \in Entries /\ e.id = o.id /\ s \in Seq(Entries) /\ BucketSound(k, s)
  BY <1>2, EntryTyped
<1>4. kadDb' \in DbRecords
  <2>1. kadDb \in DbRecords /\ [kadDb EXCEPT !.recent = @ \union {o.w}] \in DbRecords
    BY <1>2, DbStep, ZenonT(60) DEF KadInv, KadTypes
  <2> QED
    BY <1>1, <2>1, Zenon
<1>5. kadBuckets' \in [Buckets -> Seq(Entries)] /\ BucketsSound'
  <2>1. CASE answers
    BY <1>1, <2>1, ZenonT(60) DEF KadInv, KadTypes, BucketsSound
  <2>2. CASE ~answers
    <3>1. SetBucket(o.id, replace(s, e, o.w))
      BY <1>1, <2>2, Zenon
    <3>2. replace(s, e, o.w) \in Seq(Entries) /\ BucketSound(k, replace(s, e, o.w))
      BY <1>2, <1>3, ReplaceSound, ZenonT(60)
    <3> QED
      BY <1>2, <3>1, <3>2, BucketStep, ZenonT(60) DEF KadInv
  <2> QED
    BY <2>1, <2>2
<1>6. Becomes(b, r) /\ r.at = "reset" /\ r.id = bonders[b].id
  BY <1>1, GoStep DEF KadInv, Stages
<1> HIDE DEF r
<1>7. /\ bonders' \in [Bonds -> BonderRecords] /\ CallsOK'
      /\ bonders'[b] = r /\ \A c \in Bonds \ {b} : bonders'[c] = bonders[c]
  BY <1>6, CallStep, ZenonT(60) DEF KadInv
<1>8. KadTypes'
  BY <1>1, <1>4, <1>5, <1>7, ZenonT(60) DEF KadInv, KadTypes
<1>9. /\ r.at \notin InPingPong
      /\ r.at \notin {"ping", "waitping"} /\ bonders[b].at \notin {"ping", "waitping"}
  BY <1>1, <1>6 DEF InPingPong
<1>10. Registered' /\ SlotsCounted'
  BY <1>1, <1>7, <1>9, RegisteredSame, SlotsSame, ZenonT(60) DEF KadInv
<1>11. Contests'
  <2>1. /\ contested = {bonders[d].oldest : d \in {c \in Bonds : bonders[c].at = "contest"}}
        /\ \A c, d \in Bonds : bonders[c].at = "contest" /\ bonders[d].at = "contest"
                                    => (bonders[c].oldest = bonders[d].oldest => c = d)
    BY DEF KadInv, Contests
  <2>2. bonders[b].at = "contest" /\ bonders'[b].at # "contest"
    BY <1>1, <1>6, <1>7
  <2>3. contested' = {bonders'[d].oldest : d \in {c \in Bonds : bonders'[c].at = "contest"}}
    BY <1>1, <1>7, <2>1, <2>2, SMTT(60)
  <2>4. \A c, d \in Bonds : bonders'[c].at = "contest" /\ bonders'[d].at = "contest"
                                => (bonders'[c].oldest = bonders'[d].oldest => c = d)
    BY <1>7, <2>1, <2>2
  <2> QED
    BY <2>3, <2>4, ZenonT(60) DEF Contests
<1> QED
  BY <1>5, <1>7, <1>8, <1>10, <1>11, SMTT(60) DEF KadInv

\* A step of the table and the database alone.
LEMMA TableStep ==
    ASSUME KadInv, kadDb' \in DbRecords, kadBuckets' \in [Buckets -> Seq(Entries)], BucketsSound',
           UNCHANGED <<contested, bonding, bondSlots, bonders>>
    PROVE  KadInv'
<1>1. KadTypes'
  BY Zenon DEF KadInv, KadTypes
<1>2. CallsOK' /\ Contests' /\ Registered'
  BY Zenon DEF KadInv, CallsOK, CallOK, Contests, Registered
<1>3. Pinging' = Pinging
  BY Zenon DEF Pinging
<1>4. SlotsCounted'
  BY <1>3, Zenon DEF KadInv, SlotsCounted
<1> QED
  BY <1>1, <1>2, <1>4 DEF KadInv

\* stuff.
LEMMA StuffKeeps == ASSUME KadInv, NEW b \in Bonds, Stuff(b) PROVE KadInv'
<1> DEFINE id == bonders[b].id
           s == kadBuckets[BucketOf[id]]
           e == EntryOf(b)
<1>1. /\ bonders[b].at = "done" /\ bonders[b].node # NoObj /\ id \notin IdsIn(s) /\ Len(s) < bucketSize
      /\ SetBucket(id, Append(s, e)) /\ UNCHANGED <<kadDb, contested, bonding, bondSlots, bonders>>
  BY ZenonT(60) DEF Stuff
<1>2. id \in KadNodes /\ id # KadSelf
  BY <1>1, OneCall, SMTT(60) DEF CallOK
<1>3. e \in Entries /\ e.id = id /\ s \in Seq(Entries) /\ BucketSound(BucketOf[id], s)
  BY <1>2, EntryTyped, SMTT(60)
<1> HIDE DEF e, s
<1>4. Append(s, e) \in Seq(Entries) /\ BucketSound(BucketOf[id], Append(s, e))
  BY <1>1, <1>2, <1>3, AppendSound, SMTT(60)
<1>5. kadBuckets' \in [Buckets -> Seq(Entries)] /\ BucketsSound'
  BY <1>1, <1>2, <1>4, BucketStep, ZenonT(60) DEF KadInv
<1>6. kadDb' \in DbRecords
  BY <1>1, Zenon DEF KadInv, KadTypes
<1> QED
  BY <1>1, <1>5, <1>6, TableStep

\* A failed findnode, which may take the node out of its bucket.
LEMMA FindnodeFailsKeeps == ASSUME KadInv, NEW n \in KadNodes, FindnodeFails(n) PROVE KadInv'
<1> DEFINE k == BucketOf[n]
           s == kadBuckets[k]
           fails == kadDb.fails[n] + 1
           new == IF fails > maxFindnodeFailures THEN kadDb.fails[n] ELSE fails
<1>1. /\ n \in UNION {IdsIn(kadBuckets[b]) : b \in Buckets}
      /\ kadDb' = [kadDb EXCEPT !.fails[n] = new]
      /\ IF fails >= maxFindnodeFailures THEN SetBucket(n, without(s, n)) ELSE UNCHANGED kadBuckets
      /\ UNCHANGED <<contested, bonding, bondSlots, bonders>>
  BY Zenon DEF FindnodeFails
<1>2. kadDb' \in DbRecords
  <2>1. kadDb \in DbRecords
    BY DEF KadInv, KadTypes
  <2>2. kadDb.fails[n] \in Nat
    BY <2>1 DEF DbRecords
  <2>3. new \in Nat
    BY <2>2
  <2> HIDE DEF new
  <2> QED
    BY <1>1, <2>1, <2>3 DEF DbRecords
<1>3. k \in Buckets /\ s \in Seq(Entries) /\ BucketSound(k, s)
  BY DEF KadInv, KadTypes, BucketsSound, Buckets
<1>4. n \in IdsIn(s)
  <2>1. PICK b \in Buckets : n \in IdsIn(kadBuckets[b])
    BY <1>1, Zenon
  <2>2. BucketOf[n] = b
    BY <2>1 DEF KadInv, BucketsSound, BucketSound
  <2> QED
    BY <2>1, <2>2, Zenon
<1>5. kadBuckets' \in [Buckets -> Seq(Entries)] /\ BucketsSound'
  <2>1. CASE fails >= maxFindnodeFailures
    <3>1. SetBucket(n, without(s, n))
      BY <1>1, <2>1, Zenon
    <3>2. without(s, n) \in Seq(Entries) /\ BucketSound(k, without(s, n))
      BY <1>3, <1>4, WithoutSound, ZenonT(60)
    <3> QED
      BY <3>1, <3>2, BucketStep, Zenon DEF KadInv
  <2>2. CASE ~(fails >= maxFindnodeFailures)
    BY <1>1, <2>2, Zenon DEF KadInv, KadTypes, BucketsSound
  <2> QED
    BY <2>1, <2>2
<1> QED
  BY <1>1, <1>2, <1>5, TableStep, SMTT(60)

\* Pongs become old, and what is old is removed from the database.
LEMMA ExpiryKeeps ==
    ASSUME KadInv, expireNodes \/ \E n \in KadNodes : Ages(n)
    PROVE  KadInv'
<1>1. kadDb \in DbRecords
  BY DEF KadInv, KadTypes
<1>2. UNCHANGED <<kadBuckets, contested, bonding, bondSlots, bonders>>
  BY Zenon DEF expireNodes, Ages
<1>3. kadDb' \in DbRecords
  <2>1. CASE expireNodes
    <3> DEFINE known == kadDb.known \intersect kadDb.recent
               fails == [n \in KadNodes |-> IF n \in kadDb.recent THEN kadDb.fails[n] ELSE 0]
    <3>1. kadDb' = [kadDb EXCEPT !.known = known, !.fails = fails]
      BY <2>1, Zenon DEF expireNodes
    <3>2. known \in SUBSET (KadNodes \ {KadSelf}) /\ fails \in [KadNodes -> Nat]
      BY <1>1 DEF DbRecords
    <3> HIDE DEF known, fails
    <3> QED
      BY <1>1, <3>1, <3>2, Zenon DEF DbRecords
  <2>2. ASSUME NEW n \in KadNodes, Ages(n) PROVE kadDb' \in DbRecords
    <3> DEFINE recent == kadDb.recent \ {n}
               ages == kadDb.ages + 1
    <3>1. kadDb' = [kadDb EXCEPT !.recent = recent, !.ages = ages]
      BY <2>2, Zenon DEF Ages
    <3>2. recent \in SUBSET KadNodes /\ ages \in Nat
      BY <1>1 DEF DbRecords
    <3> HIDE DEF recent, ages
    <3> QED
      BY <1>1, <3>1, <3>2, Zenon DEF DbRecords
  <2> QED
    BY <2>1, <2>2
<1>4. kadBuckets' \in [Buckets -> Seq(Entries)] /\ BucketsSound'
  BY <1>2, Zenon DEF KadInv, KadTypes, BucketsSound
<1> QED
  BY <1>2, <1>3, <1>4, TableStep, SMTT(60)

-----------------------------------------------------------------------------
\* The table newTable makes, or what earlier calls have left in it.
LEMMA KadInitInv == KadInit => KadInv
<1> SUFFICES ASSUME KadInit PROVE KadInv
  OBVIOUS
<1> DEFINE new == [at |-> "idle", id |-> KadSelf, w |-> NoObj, ok |-> FALSE, node |-> NoObj, oldest |-> NoObj]
<1>1. new \in BonderRecords /\ CallOK(new) /\ new.at = "idle"
  BY KadAssumption, SMTT(60) DEF BonderRecords, Stages, Objs, CallOK
<1>2. bonders = [b \in Bonds |-> new] /\ bonding = [n \in KadNodes |-> NoObj] /\ bondSlots = maxBondingPingPongs
      /\ contested = {} /\ kadBuckets = FirstEntries
  BY DEF KadInit
<1> HIDE DEF new
<1>3. bonders \in [Bonds -> BonderRecords] /\ \A b \in Bonds : bonders[b] = new
  BY <1>1, <1>2
<1>4. [id : KadNodes, obj : FirstObjs] \subseteq Entries
  BY DEF Entries, Objs
<1>5. \A k \in Buckets : FirstEntries[k] \in Seq(Entries)
  <2> SUFFICES ASSUME NEW k \in Buckets PROVE FirstEntries[k] \in Seq(Entries)
    OBVIOUS
  <2>1. FirstEntries[k] \in Seq([id : KadNodes, obj : FirstObjs])
    BY KadAssumption, Zenon
  <2>2. FirstEntries[k] \in [1 .. Len(FirstEntries[k]) -> [id : KadNodes, obj : FirstObjs]] /\ Len(FirstEntries[k]) \in Nat
    BY <2>1, LenProperties, Zenon
  <2>3. FirstEntries[k] \in [1 .. Len(FirstEntries[k]) -> Entries]
    BY <1>4, <2>2, Zenon
  <2> QED
    BY <2>2, <2>3, SeqDef, ZenonT(60)
<1>6. kadBuckets \in [Buckets -> Seq(Entries)] /\ BucketsSound
  <2>1. FirstEntries \in [Buckets -> Seq(Entries)]
    BY <1>5, KadAssumption
  <2> QED
    BY <1>2, <2>1, KadAssumption, Zenon DEF BucketsSound
<1>7. UNION {IdsIn(FirstEntries[b]) : b \in Buckets} \subseteq KadNodes \ {KadSelf}
  <2> SUFFICES ASSUME NEW k \in Buckets, NEW n \in IdsIn(FirstEntries[k]) PROVE n \in KadNodes /\ n # KadSelf
    BY Zenon
  <2>1. FirstEntries[k] \in Seq(Entries) /\ BucketSound(k, FirstEntries[k])
    BY <1>5, KadAssumption, SMTT(60)
  <2>2. n \in KadNodes
    BY <2>1, BucketByIndex, SMTT(60)
  <2> QED
    BY <2>1, <2>2 DEF BucketSound
<1>8. kadDb \in DbRecords
  <2> DEFINE ids == UNION {IdsIn(FirstEntries[b]) : b \in Buckets}
  <2>1. kadDb = [known |-> ids, recent |-> ids, fails |-> [n \in KadNodes |-> 0], ages |-> 0]
    BY DEF KadInit
  <2>2. ids \in SUBSET (KadNodes \ {KadSelf}) /\ ids \in SUBSET KadNodes
    BY <1>7
  <2> HIDE DEF ids
  <2> QED
    BY <2>1, <2>2, SMTT(60) DEF DbRecords
<1>9. bonding \in [KadNodes -> Bonds \cup {NoObj}] /\ bondSlots \in Nat
  BY <1>2, KadAssumption
<1>10. KadTypes
  BY <1>3, <1>6, <1>8, <1>9, ZenonT(60) DEF KadTypes
<1>11. CallsOK /\ Registered
  BY <1>1, <1>3, SMTT(60) DEF CallsOK, Registered, InPingPong
<1>12. Contests
  BY <1>1, <1>2, <1>3, SMTT(60) DEF Contests
<1>13. SlotsCounted
  <2>1. Pinging = {}
    BY <1>1, <1>3 DEF Pinging
  <2>2. IsFiniteSet(Pinging) /\ Cardinality(Pinging) = 0
    BY <2>1, FS_EmptySet, Zenon
  <2> QED
    BY <1>2, <2>2, KadAssumption DEF SlotsCounted
<1> QED
  BY <1>6, <1>10, <1>11, <1>12, <1>13, SMTT(60) DEF KadInv

\* Every step keeps the invariant.
LEMMA KadNextInv == KadInv /\ [KadNext]_kadVars => KadInv'
<1> SUFFICES ASSUME KadInv, [KadNext]_kadVars PROVE KadInv'
  OBVIOUS
<1>1. ASSUME NEW b \in Bonds, \E id \in KadNodes : Bond(b, id) PROVE KadInv'
  BY <1>1, BondKeeps
<1>2. ASSUME NEW b \in Bonds, Register(b) \/ Await(b) \/ Unregister(b) PROVE KadInv'
  BY <1>2, RegisterKeeps, AwaitKeeps, UnregisterKeeps, SMTT(60)
<1>3. ASSUME NEW b \in Bonds, TakeSlot(b) \/ PingFails(b) \/ Ponged(b) \/ PingPongEnds(b) PROVE KadInv'
  BY <1>3, TakeSlotKeeps, PingFailsKeeps, PongedKeeps, PingPongEndsKeeps, SMTT(60)
<1>4. ASSUME NEW b \in Bonds, Add(b) \/ ResetFails(b) \/ Stuff(b) PROVE KadInv'
  BY <1>4, AddKeeps, ResetFailsKeeps, StuffKeeps
<1>5. ASSUME NEW b \in Bonds, \E answers \in BOOLEAN : Contested(b, answers) PROVE KadInv'
  BY <1>5, ContestedKeeps
<1>6. ASSUME NEW n \in KadNodes, FindnodeFails(n) PROVE KadInv'
  BY <1>6, FindnodeFailsKeeps
<1>7. CASE expireNodes \/ \E n \in KadNodes : Ages(n)
  BY <1>7, ExpiryKeeps
<1>8. CASE UNCHANGED kadVars
  <2>1. UNCHANGED <<kadDb, kadBuckets, contested, bonding, bondSlots, bonders>>
    BY <1>8 DEF kadVars
  <2>2. kadDb' \in DbRecords /\ kadBuckets' \in [Buckets -> Seq(Entries)] /\ BucketsSound'
    BY <2>1, Zenon DEF KadInv, KadTypes, BucketsSound
  <2> QED
    BY <2>1, <2>2, TableStep, SMTT(60)
<1> QED
  BY <1>1, <1>2, <1>3, <1>4, <1>5, <1>6, <1>7, <1>8, ZenonT(60) DEF KadNext

\* However calls of bond, failures of findnode and expirations overlap while
\* add has let go of the mutex (table.go), the buckets stay sound, an object is
\* contested just as long as a call pings its node, each node has one
\* ping/pong, and every slot is free or in use: for every set of nodes and
\* calls, every bucket size and every number of slots.
THEOREM TableStaysSound == KadSpec => []TableSound
<1>1. KadInv => TableSound
  <2> SUFFICES ASSUME KadInv PROVE TableSound
    OBVIOUS
  <2>1. KadTypeOK
    <3>1. kadDb.known \subseteq KadNodes /\ kadDb.recent \subseteq KadNodes
      BY DEF KadInv, KadTypes, DbRecords
    <3>2. \A b \in Bonds : bonders[b].id \in KadNodes
      BY OneCall
    <3>3. bondSlots \in 0 .. maxBondingPingPongs
      <4>1. Cardinality(Pinging) \in Nat
        BY FS_CardinalityType, Zenon DEF KadInv, SlotsCounted
      <4>2. bondSlots \in Nat /\ bondSlots + Cardinality(Pinging) = maxBondingPingPongs
        BY DEF KadInv, KadTypes, SlotsCounted
      <4> QED
        BY <4>1, <4>2, KadAssumption
    <3> QED
      BY <3>1, <3>2, <3>3 DEF KadTypeOK
  <2>2. bondSlots + Cardinality({b \in Bonds : bonders[b].at \in {"ping", "waitping"}}) = maxBondingPingPongs
    BY Zenon DEF KadInv, SlotsCounted, Pinging
  <2> QED
    BY <2>1, <2>2, Zenon DEF KadInv, BucketsSound, Contests, Registered, InPingPong, TableSound
<1> QED
  BY <1>1, KadInitInv, KadNextInv, PTL DEF KadSpec
=============================================================================
