------------------------------ MODULE KadTable ------------------------------
(***************************************************************************)
(* The node table of the discovery protocol (p2p/discover/table.go) with   *)
(* the node database under it (database.go): calls of bond, which share    *)
(* one ping/pong per node and a limited number of slots, and add the node  *)
(* to its bucket; add, which lets go of the mutex while it pings the least *)
(* recently active node of a full bucket; failures of findnode, which      *)
(* evacuate a node; stuff; and the expiration of the database.             *)
(*                                                                         *)
(* A node in a bucket is an object, and Contested is a field of it: the    *)
(* database returns a new object each time, callers that shared a          *)
(* ping/pong share the object it made.  An object is named after the call  *)
(* that made it.                                                           *)
(***************************************************************************)
EXTENDS Integers, Sequences, FiniteSets

CONSTANTS
    KadNodes,              \* the nodes of the network, ourself included
    KadSelf,
    BucketOf,              \* per node, logdist to ourself
    Bonds,                 \* calls of bond
    FirstEntries,          \* per bucket, what earlier calls have put in it
    bucketSize,
    maxBondingPingPongs,
    maxFindnodeFailures,
    MaxAges                \* bound: how often a pong becomes old

NoObj == "nil"
Buckets == {BucketOf[n] : n \in KadNodes}
IdsIn(entries) == {entries[i].id : i \in DOMAIN entries}

FirstObjs == UNION {{FirstEntries[k][i].obj : i \in DOMAIN FirstEntries[k]} : k \in Buckets}

\* What a bucket is to be: not too long, with no node twice, of its own nodes
\* and without ourself.
BucketSound(k, entries) ==
    /\ Len(entries) <= bucketSize
    /\ \A i, j \in DOMAIN entries : entries[i].id = entries[j].id => i = j
    /\ \A n \in IdsIn(entries) : n # KadSelf /\ BucketOf[n] = k

ASSUME KadAssumption ==
    /\ KadSelf \in KadNodes /\ NoObj \notin Bonds
    /\ bucketSize \in Nat \ {0} /\ maxBondingPingPongs \in Nat
    /\ FirstEntries \in [Buckets -> Seq([id : KadNodes, obj : FirstObjs])]
    /\ \A k \in Buckets : BucketSound(k, FirstEntries[k])

VARIABLES
    kadDb,                 \* known nodes, those with a recent pong, findnode failures
    kadBuckets,            \* per bucket its entries, the most recently active first
    contested,             \* the objects with Contested set
    bonding,               \* the ping/pong of a node: the call that does it
    bondSlots,             \* the tokens in bondslots
    bonders                \* the calls of bond

kadVars == <<kadDb, kadBuckets, contested, bonding, bondSlots, bonders>>

KadInit ==
    /\ kadDb = [known |-> UNION {IdsIn(FirstEntries[b]) : b \in Buckets},
                recent |-> UNION {IdsIn(FirstEntries[b]) : b \in Buckets},
                fails |-> [n \in KadNodes |-> 0], ages |-> 0]
    /\ kadBuckets = FirstEntries
    /\ contested = {}
    /\ bonding = [n \in KadNodes |-> NoObj]
    /\ bondSlots = maxBondingPingPongs
    /\ bonders = [b \in Bonds |-> [at |-> "idle", id |-> KadSelf,
                                   w |-> NoObj, ok |-> FALSE, node |-> NoObj, oldest |-> NoObj]]

Go(b, at) == bonders' = [bonders EXCEPT ![b].at = at]

-----------------------------------------------------------------------------
(* Buckets. *)

\* What is left without the first entry of the node.
without(entries, id) ==
    LET has == {i \in DOMAIN entries : entries[i].id = id}
        i == CHOOSE j \in has : \A l \in has : j <= l
    IN  IF has = {} THEN entries
        ELSE SubSeq(entries, 1, i - 1) \o SubSeq(entries, i + 1, Len(entries))

\* bucket.bump moves the node to the front, as the new object.
bump(entries, e) == <<e>> \o without(entries, e.id)

\* A fault: replace relies on the look add had before it let go of the mutex.
replaceUnseen(entries, e, last) ==
    IF Len(entries) = bucketSize /\ entries[bucketSize].id # last
    THEN entries
    ELSE <<e>> \o SubSeq(entries, 1, IF Len(entries) = bucketSize THEN bucketSize - 1 ELSE Len(entries))

\* bucket.replace: last is the entry to give up if the bucket is full.
replace(entries, e, last) ==
    IF \/ e.id \in IdsIn(entries)
       \/ Len(entries) = bucketSize /\ entries[bucketSize].id # last
    THEN entries
    ELSE <<e>> \o SubSeq(entries, 1, IF Len(entries) = bucketSize THEN bucketSize - 1 ELSE Len(entries))

-----------------------------------------------------------------------------
(* bond. *)

\* What the database knows decides whether there is a ping/pong; the node it
\* returns is used if that fails.
Bond(b, id) ==
    /\ bonders[b].at = "idle"
    /\ LET known == id \in kadDb.known
           bonded == known /\ kadDb.fails[id] = 0 /\ id \in kadDb.recent
       IN  bonders' = [bonders EXCEPT ![b] = [@ EXCEPT
               !.at = IF id = KadSelf THEN "done" ELSE IF bonded THEN "add" ELSE "register",
               !.id = id, !.ok = bonded,
               !.node = IF known THEN b ELSE NoObj]]
    /\ UNCHANGED <<kadDb, kadBuckets, contested, bonding, bondSlots>>

Register(b) ==
    /\ bonders[b].at = "register"
    /\ LET id == bonders[b].id
       IN  IF bonding[id] # NoObj
           THEN /\ bonders' = [bonders EXCEPT ![b].at = "await", ![b].w = bonding[id]]
                /\ UNCHANGED bonding
           ELSE /\ bonders' = [bonders EXCEPT ![b].at = "slot", ![b].w = b]
                /\ bonding' = [bonding EXCEPT ![id] = b]
    /\ UNCHANGED <<kadDb, kadBuckets, contested, bondSlots>>

\* w.done is closed once the call that does the ping/pong is past it.
PingPongOver(w) == bonders[w].at \notin {"slot", "ping", "waitping"}

\* The result of w: its node, or the one from the database.
BondOutcome(b, w) ==
    LET node == IF bonders[w].ok THEN w ELSE bonders[b].node
    IN  [bonders[b] EXCEPT !.node = node, !.ok = bonders[w].ok,
                           !.at = IF node = NoObj THEN "done" ELSE "add"]

Await(b) ==
    /\ bonders[b].at = "await" /\ PingPongOver(bonders[b].w)
    /\ bonders' = [bonders EXCEPT ![b] = BondOutcome(b, bonders[b].w)]
    /\ UNCHANGED <<kadDb, kadBuckets, contested, bonding, bondSlots>>

TakeSlot(b) ==
    /\ bonders[b].at = "slot" /\ bondSlots > 0
    /\ bondSlots' = bondSlots - 1
    /\ Go(b, "ping")
    /\ UNCHANGED <<kadDb, kadBuckets, contested, bonding>>

\* ping fails: the error is the result, the slot goes back
PingFails(b) ==
    /\ bonders[b].at = "ping"
    /\ bondSlots' = bondSlots + 1
    /\ Go(b, "unregister")
    /\ UNCHANGED <<kadDb, kadBuckets, contested, bonding>>

Ponged(b) ==
    /\ bonders[b].at = "ping"
    /\ kadDb' = [kadDb EXCEPT !.recent = @ \union {bonders[b].id}]
    /\ Go(b, "waitping")
    /\ UNCHANGED <<kadBuckets, contested, bonding, bondSlots>>

\* waitping, however it ends (a call that answers a ping skips it), then
\* updateNode
PingPongEnds(b) ==
    /\ bonders[b].at = "waitping"
    /\ kadDb' = [kadDb EXCEPT !.known = @ \union {bonders[b].id}]
    /\ bondSlots' = bondSlots + 1
    /\ bonders' = [bonders EXCEPT ![b].at = "unregister", ![b].ok = TRUE]
    /\ UNCHANGED <<kadBuckets, contested, bonding>>

Unregister(b) ==
    /\ bonders[b].at = "unregister"
    /\ bonding' = [bonding EXCEPT ![bonders[b].id] = NoObj]
    /\ bonders' = [bonders EXCEPT ![b] = BondOutcome(b, b)]
    /\ UNCHANGED <<kadDb, kadBuckets, contested, bondSlots>>

-----------------------------------------------------------------------------
(* add, and the reset of the failures after it. *)

EntryOf(b) == [id |-> bonders[b].id, obj |-> bonders[b].node]
SetBucket(n, entries) == kadBuckets' = [kadBuckets EXCEPT ![BucketOf[n]] = entries]

Add(b) ==
    /\ bonders[b].at = "add"
    /\ LET id == bonders[b].id
           entries == kadBuckets[BucketOf[id]]
           oldest == entries[bucketSize]
       IN  \/ /\ id \in IdsIn(entries)
              /\ SetBucket(id, bump(entries, EntryOf(b)))
              /\ Go(b, "reset") /\ UNCHANGED contested
           \/ /\ id \notin IdsIn(entries) /\ Len(entries) < bucketSize
              /\ SetBucket(id, replace(entries, EntryOf(b), NoObj))
              /\ Go(b, "reset") /\ UNCHANGED contested
           \/ /\ id \notin IdsIn(entries) /\ Len(entries) >= bucketSize
              /\ IF oldest.obj \in contested
                 THEN Go(b, "reset") /\ UNCHANGED contested
                 ELSE /\ contested' = contested \union {oldest.obj}
                      /\ bonders' = [bonders EXCEPT ![b].at = "contest", ![b].oldest = oldest.obj,
                                                    ![b].w = oldest.id]
              /\ UNCHANGED kadBuckets
    /\ UNCHANGED <<kadDb, bonding, bondSlots>>

\* The ping of the oldest entry ends, and the mutex is taken again.
Contested(b, answers) ==
    /\ bonders[b].at = "contest"
    /\ contested' = contested \ {bonders[b].oldest}
    /\ kadDb' = IF answers THEN [kadDb EXCEPT !.recent = @ \union {bonders[b].w}] ELSE kadDb
    /\ IF answers THEN UNCHANGED kadBuckets
       ELSE SetBucket(bonders[b].id,
                      replace(kadBuckets[BucketOf[bonders[b].id]], EntryOf(b), bonders[b].w))
    /\ Go(b, "reset")
    /\ UNCHANGED <<bonding, bondSlots>>

ResetFails(b) ==
    /\ bonders[b].at = "reset"
    /\ kadDb' = [kadDb EXCEPT !.fails[bonders[b].id] = 0]
    /\ Go(b, "done")
    /\ UNCHANGED <<kadBuckets, contested, bonding, bondSlots>>

-----------------------------------------------------------------------------
(* What else changes the table and the database. *)

\* stuff appends the seeds that doRefresh has bonded with.
Stuff(b) ==
    /\ bonders[b].at = "done" /\ bonders[b].node # NoObj
    /\ LET id == bonders[b].id
           entries == kadBuckets[BucketOf[id]]
       IN  /\ id \notin IdsIn(entries) /\ Len(entries) < bucketSize
           /\ SetBucket(id, Append(entries, EntryOf(b)))
    /\ UNCHANGED <<kadDb, contested, bonding, bondSlots, bonders>>

\* A findnode of a lookup fails; at the limit, delete takes the node out
\* (counts beyond the limit are the same to the code).
FindnodeFails(n) ==
    /\ n \in UNION {IdsIn(kadBuckets[b]) : b \in Buckets}
    /\ LET fails == kadDb.fails[n] + 1
       IN  /\ kadDb' = [kadDb EXCEPT !.fails[n] = IF fails > maxFindnodeFailures THEN @ ELSE fails]
           /\ IF fails >= maxFindnodeFailures
              THEN SetBucket(n, without(kadBuckets[BucketOf[n]], n))
              ELSE UNCHANGED kadBuckets
    /\ UNCHANGED <<contested, bonding, bondSlots, bonders>>

\* A day passes without a pong of n; expireNodes removes all that is old.
Ages(n) ==
    /\ n \in kadDb.recent /\ kadDb.ages < MaxAges
    /\ kadDb' = [kadDb EXCEPT !.recent = @ \ {n}, !.ages = @ + 1]
    /\ UNCHANGED <<kadBuckets, contested, bonding, bondSlots, bonders>>

expireNodes ==
    /\ ~(kadDb.known \subseteq kadDb.recent)
    /\ kadDb' = [kadDb EXCEPT !.known = @ \intersect kadDb.recent,
                              !.fails = [n \in KadNodes |-> IF n \in kadDb.recent THEN @[n] ELSE 0]]
    /\ UNCHANGED <<kadBuckets, contested, bonding, bondSlots, bonders>>

KadNext ==
    \/ \E b \in Bonds :
          \/ \E id \in KadNodes : Bond(b, id)
          \/ Register(b) \/ Await(b) \/ TakeSlot(b) \/ PingFails(b) \/ Ponged(b)
          \/ PingPongEnds(b) \/ Unregister(b) \/ Add(b) \/ ResetFails(b) \/ Stuff(b)
          \/ \E answers \in BOOLEAN : Contested(b, answers)
    \/ \E n \in KadNodes : FindnodeFails(n) \/ Ages(n)
    \/ expireNodes

KadSpec == KadInit /\ [][KadNext]_kadVars

-----------------------------------------------------------------------------
\* The values the variables range over.
KadTypeOK ==
    /\ kadDb.known \subseteq KadNodes /\ kadDb.recent \subseteq KadNodes
    /\ bondSlots \in 0 .. maxBondingPingPongs
    /\ \A b \in Bonds : bonders[b].id \in KadNodes

\* Whatever calls of bond, failures and expirations overlap while the mutex
\* is released, a bucket never has a node twice, ourself or more nodes than
\* it holds, an object is contested only while somebody pings its node (it
\* could never be replaced otherwise), a node has one ping/pong at a time,
\* which the table of bonding processes names, and no slot is lost.
TableSound ==
    /\ KadTypeOK
    /\ \A k \in Buckets : BucketSound(k, kadBuckets[k])
    /\ contested = {bonders[b].oldest : b \in {c \in Bonds : bonders[c].at = "contest"}}
    /\ \A b \in Bonds : bonders[b].at \in {"slot", "ping", "waitping", "unregister"}
                            => bonding[bonders[b].id] = b
    /\ bondSlots + Cardinality({b \in Bonds : bonders[b].at \in {"ping", "waitping"}}) = maxBondingPingPongs
=============================================================================
