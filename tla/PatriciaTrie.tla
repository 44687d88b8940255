---------------------------- MODULE PatriciaTrie ----------------------------
(***************************************************************************)
(* The Merkle Patricia trie (package trie): lookup, insertion and deletion *)
(* with loading of nodes on demand, the hasher with its cached hashes and  *)
(* the unloading of old cache generations, Commit, the key iterator, and   *)
(* proofs.                                                                 *)
(*                                                                         *)
(* A hash is the encoding of the node it stands for, so equal hashes mean  *)
(* equal nodes and the database is a set of encodings.  An encoding is a   *)
(* node without flags and with compact keys; one that is Small goes into   *)
(* its parent.  A byte has two nibbles of Radix values, the terminator is  *)
(* Radix.                                                                  *)
(***************************************************************************)
EXTENDS Integers, Sequences, SequencesExt, FiniteSets, FiniteSetsExt

CONSTANTS
    TrieKeys,       \* the keys, sequences of bytes
    TrieValues,     \* per key the values it may get
    SmallValues,    \* values with a short encoding
    Radix,          \* 16 in the code
    Cachelimit,
    MaxTrieCommits  \* bound on commits

VARIABLES
    trie,           \* the root and the cache generation
    trieDb,         \* the encodings in the database
    content         \* what the trie should hold: the last value given for each key

trieVars == <<trie, trieDb, content>>

NilNode == [t |-> "nil"]
ValueNode(v) == [t |-> "value", v |-> v]
HashNode(enc) == [t |-> "hash", of |-> enc]
ShortNode(k, c, f) == [t |-> "short", key |-> k, val |-> c, flags |-> f]
FullNode(ch, f) == [t |-> "full", ch |-> ch, flags |-> f]
newFlag(gen) == [hash |-> NilNode, gen |-> gen, dirty |-> TRUE]
NoValue == "none"

-----------------------------------------------------------------------------
(* Keys. *)

keybytesToHex(str) == FlattenSeq([i \in DOMAIN str |-> <<str[i] \div Radix, str[i] % Radix>>]) \o <<Radix>>
hasTerm(s) == s # <<>> /\ s[Len(s)] = Radix
hexToCompact(hex) == [term |-> hasTerm(hex), nibbles |-> IF hasTerm(hex) THEN Front(hex) ELSE hex]
compactToHex(c) == IF c.term THEN Append(c.nibbles, Radix) ELSE c.nibbles
prefixLen(a, b) ==
    Max({i \in 0 .. Min({Len(a), Len(b)}) : SubSeq(a, 1, i) = SubSeq(b, 1, i)})
Rest(s, i) == SubSeq(s, i, Len(s))

\* bytes.Compare(a, b) < 0
Before(a, b) ==
    LET n == prefixLen(a, b)
    IN  n < Len(b) /\ (n = Len(a) \/ a[n + 1] < b[n + 1])

-----------------------------------------------------------------------------
(* The encoding of nodes, and decodeNode. *)

\* An empty child is encoded as an empty value.
Emptied(n) == IF n.t = "nil" THEN ValueNode(NoValue) ELSE n

EncShort(key, val) == [t |-> "short", key |-> hexToCompact(key), val |-> val]
EncFull(ch) == [t |-> "full", ch |-> ch]

\* Fits into its parent: a leaf with a short value.
Small(enc) == enc.t = "short" /\ enc.val.t = "value" /\ enc.val.v \in SmallValues

RECURSIVE decodeNode(_, _, _)
decodeNode(enc, hash, gen) ==
    LET flags == [hash |-> hash, gen |-> gen, dirty |-> FALSE]
    IN  CASE enc.t = "short" -> ShortNode(compactToHex(enc.key), decodeNode(enc.val, NilNode, gen), flags)
          [] enc.t = "full" -> FullNode([i \in DOMAIN enc.ch |-> decodeNode(enc.ch[i], NilNode, gen)], flags)
          [] enc.t = "value" /\ enc.v = NoValue -> NilNode
          [] OTHER -> enc

\* resolveHash; the error is left to the callers
Missing(n) == n.t = "hash" /\ n.of \notin trieDb
resolveHash(n, gen) == decodeNode(n.of, n.of, gen)
resolve(n, gen) == IF n.t = "hash" THEN resolveHash(n, gen) ELSE n

-----------------------------------------------------------------------------
(* tryGet, insert and delete. *)

RECURSIVE tryGet(_, _, _)
tryGet(n, key, gen) ==
    CASE n.t = "nil" -> [v |-> NoValue, node |-> n, did |-> FALSE, err |-> FALSE]
      [] n.t = "value" -> [v |-> n.v, node |-> n, did |-> FALSE, err |-> FALSE]
      [] n.t = "short" ->
           IF ~IsPrefix(n.key, key)
           THEN [v |-> NoValue, node |-> n, did |-> FALSE, err |-> FALSE]
           ELSE LET r == tryGet(n.val, Rest(key, Len(n.key) + 1), gen)
                IN  [r EXCEPT !.node = IF r.did /\ ~r.err
                                       THEN [n EXCEPT !.val = r.node, !.flags.gen = gen] ELSE n]
      [] n.t = "full" ->
           LET r == tryGet(n.ch[key[1]], Tail(key), gen)
           IN  [r EXCEPT !.node = IF r.did /\ ~r.err
                                  THEN [n EXCEPT !.ch[key[1]] = r.node, !.flags.gen = gen] ELSE n]
      [] n.t = "hash" ->
           IF Missing(n) THEN [v |-> NoValue, node |-> n, did |-> TRUE, err |-> TRUE]
           ELSE [tryGet(resolveHash(n, gen), key, gen) EXCEPT !.did = TRUE]

Same(n) == [dirty |-> FALSE, node |-> n, err |-> FALSE]
Changed(n) == [dirty |-> TRUE, node |-> n, err |-> FALSE]
Failed == [dirty |-> FALSE, node |-> NilNode, err |-> TRUE]

\* What a caller makes of the result r for a part of n.
Within(r, n, new) == IF r.err \/ ~r.dirty THEN [r EXCEPT !.dirty = FALSE, !.node = n] ELSE Changed(new)

\* A fault: a full node keeps the hash it had when one of its children changes.
WithChildStale(n, i, c, gen) == [n EXCEPT !.ch[i] = c, !.flags.dirty = TRUE]

\* A copy of a full node with another child has no hash yet.
WithChild(n, i, c, gen) == [n EXCEPT !.ch[i] = c, !.flags = newFlag(gen)]

RECURSIVE insert(_, _, _, _)
insert(n, key, value, gen) ==
    IF key = <<>> THEN IF n = value THEN Same(value) ELSE Changed(value)
    ELSE CASE n.t = "short" ->
           LET m == prefixLen(key, n.key)
               whole == insert(n.val, Rest(key, m + 1), value, gen)
               old == insert(NilNode, Rest(n.key, m + 2), n.val, gen).node
               new == insert(NilNode, Rest(key, m + 2), value, gen).node
               branch == FullNode([i \in 0 .. Radix |->
                             CASE i = n.key[m + 1] -> old [] i = key[m + 1] -> new [] OTHER -> NilNode],
                             newFlag(gen))
           IN  IF m = Len(n.key) THEN Within(whole, n, ShortNode(n.key, whole.node, newFlag(gen)))
               ELSE IF m = 0 THEN Changed(branch)
               ELSE Changed(ShortNode(SubSeq(key, 1, m), branch, newFlag(gen)))
      [] n.t = "full" ->
           LET r == insert(n.ch[key[1]], Tail(key), value, gen)
           IN  Within(r, n, WithChild(n, key[1], r.node, gen))
      [] n.t = "nil" -> Changed(ShortNode(key, value, newFlag(gen)))
      [] n.t = "hash" ->
           IF Missing(n) THEN Failed
           ELSE LET rn == resolveHash(n, gen)
                    r == insert(rn, key, value, gen)
                IN  Within(r, rn, r.node)

ChildrenLeft(n) == {i \in DOMAIN n.ch : n.ch[i].t # "nil"}

\* A full node with one child left becomes a short node.
Reduced(n, gen) ==
    IF Cardinality(ChildrenLeft(n)) # 1 THEN Changed(n)
    ELSE LET pos == CHOOSE i \in ChildrenLeft(n) : TRUE
             c == n.ch[pos]
             cnode == resolve(c, gen)
         IN  IF pos # Radix /\ Missing(c) THEN Failed
             ELSE IF pos # Radix /\ cnode.t = "short"
             THEN Changed(ShortNode(<<pos>> \o cnode.key, cnode.val, newFlag(gen)))
             ELSE Changed(ShortNode(<<pos>>, c, newFlag(gen)))

RECURSIVE delete(_, _, _)
delete(n, key, gen) ==
    CASE n.t = "short" ->
           LET m == prefixLen(key, n.key)
               r == delete(n.val, Rest(key, Len(n.key) + 1), gen)
               c == r.node
           IN  IF m < Len(n.key) THEN Same(n)
               ELSE IF m = Len(key) THEN Changed(NilNode)
               ELSE Within(r, n, IF c.t = "short"
                                 THEN ShortNode(n.key \o c.key, c.val, newFlag(gen))
                                 ELSE ShortNode(n.key, c, newFlag(gen)))
      [] n.t = "full" ->
           LET r == delete(n.ch[key[1]], Tail(key), gen)
           IN  IF r.err \/ ~r.dirty THEN [r EXCEPT !.dirty = FALSE, !.node = n]
               ELSE Reduced(WithChild(n, key[1], r.node, gen), gen)
      [] n.t = "value" -> Changed(NilNode)
      [] n.t = "nil" -> Same(n)
      [] n.t = "hash" ->
           IF Missing(n) THEN Failed
           ELSE LET rn == resolveHash(n, gen)
                    r == delete(rn, key, gen)
                IN  Within(r, rn, r.node)

-----------------------------------------------------------------------------
(* The hasher. *)

canUnload(n, gen) == ~n.flags.dirty /\ gen - n.flags.gen >= Cachelimit

\* store: the node itself if it fits into its parent, or its hash, if that is
\* known the known one
store(enc, known, force) ==
    IF Small(enc) /\ ~force THEN [hashed |-> enc, puts |-> {}]
    ELSE [hashed |-> HashNode(IF known = NilNode THEN enc ELSE known), puts |-> {enc}]

\* hash and hashChildren.  With commit, what is new is put into the database
\* and what is old is unloaded.
RECURSIVE hash(_, _, _, _)
hash(n, commit, force, gen) ==
    IF n.t = "hash" THEN [hashed |-> n, cached |-> n, puts |-> {}]
    ELSE IF n.flags.hash # NilNode /\ (~commit \/ ~n.flags.dirty)
    THEN [hashed |-> HashNode(n.flags.hash), puts |-> {},
          cached |-> IF commit /\ canUnload(n, gen) THEN HashNode(n.flags.hash) ELSE n]
    ELSE LET Leave(c) == [hashed |-> Emptied(c), cached |-> c, puts |-> {}]
             Sub(c) == IF c.t \in {"nil", "value"} THEN Leave(c) ELSE hash(c, commit, FALSE, gen)
             kids == IF n.t = "short" THEN [i \in {0} |-> Sub(n.val)]
                     ELSE [i \in DOMAIN n.ch |-> Sub(n.ch[i])]
             enc == IF n.t = "short"
                    THEN EncShort(n.key, kids[0].hashed)
                    ELSE EncFull([i \in DOMAIN kids |-> kids[i].hashed])
             st == store(enc, n.flags.hash, force)
             flags == [n.flags EXCEPT !.hash = IF st.hashed.t = "hash" THEN st.hashed.of ELSE NilNode,
                                      !.dirty = IF commit THEN FALSE ELSE @]
         IN  [hashed |-> st.hashed,
              cached |-> IF n.t = "short" THEN ShortNode(n.key, kids[0].cached, flags)
                         ELSE FullNode([i \in DOMAIN kids |-> kids[i].cached], flags),
              puts |-> st.puts \union UNION {kids[i].puts : i \in DOMAIN kids}]

hashRoot(n, commit, gen) ==
    IF n.t = "nil" THEN [hashed |-> HashNode(NilNode), cached |-> n, puts |-> {}]
    ELSE hash(n, commit, TRUE, gen)

-----------------------------------------------------------------------------
(* The key iterator: a stack of nodes, each with the child it is at.  The  *)
(* result of peek is the iterator after what it popped, with what it found.*)

nextChild(top, path, gen) ==
    LET n == top.node
        Child(i, c, p) == [node |-> resolve(c, gen), index |-> -1, pathlen |-> Len(path), path |-> p, at |-> i]
        left == IF n.t = "full" THEN {i \in DOMAIN n.ch : i > top.index /\ n.ch[i].t # "nil"} ELSE {}
    IN  CASE n.t = "full" /\ left # {} -> <<Child(Min(left), n.ch[Min(left)], Append(path, Min(left)))>>
          [] n.t = "short" /\ top.index < 0 -> <<Child(0, n.val, path \o n.key)>>
          [] OTHER -> <<>>

pop(it) == [it EXCEPT !.path = SubSeq(@, 1, Last(it.stack).pathlen), !.stack = Front(@)]

RECURSIVE peekUp(_, _)
peekUp(it, gen) ==
    IF it.stack = <<>> THEN [it |-> it, found |-> <<>>]
    ELSE LET c == nextChild(Last(it.stack), it.path, gen)
         IN  IF c # <<>> THEN [it |-> it, found |-> c] ELSE peekUp(pop(it), gen)

peek(it, root, descend, gen) ==
    IF it.stack = <<>>
    THEN [it |-> it, found |-> <<[node |-> resolve(root, gen), index |-> -1, pathlen |-> 0,
                                  path |-> <<>>, at |-> -1]>>]
    ELSE peekUp(IF descend THEN it ELSE pop(it), gen)

\* push also moves the parent to this child
pushState(it, c) ==
    [path |-> c.path,
     stack |-> Append(IF it.stack = <<>> THEN it.stack
                      ELSE [it.stack EXCEPT ![Len(it.stack)].index = c.at],
                      [node |-> c.node, index |-> -1, pathlen |-> c.pathlen])]

\* seek stops just before the first node that is not before the key; the
\* result has no iterator if the iteration has ended.
RECURSIVE seek(_, _, _, _)
seek(it, root, key, gen) ==
    LET p == peek(it, root, IsPrefix(it.path, key), gen)
    IN  IF p.found = <<>> THEN <<>>
        ELSE IF ~Before(p.found[1].path, key) THEN <<p.it>>
        ELSE seek(pushState(p.it, p.found[1]), root, key, gen)

\* Iterator.Next until the end: the leaves
RECURSIVE Iterate(_, _, _)
Iterate(it, root, gen) ==
    LET p == peek(it, root, TRUE, gen)
    IN  IF p.found = <<>> THEN <<>>
        ELSE LET c == p.found[1]
             IN  (IF hasTerm(c.path) THEN << <<c.path, c.node.v>> >> ELSE <<>>)
                 \o Iterate(pushState(p.it, c), root, gen)

LeavesFrom(root, start, gen) ==
    LET key == Front(keybytesToHex(start))
        it == seek([stack |-> <<>>, path |-> <<>>], root, key, gen)
    IN  IF it = <<>> THEN <<>> ELSE Iterate(it[1], root, gen)

-----------------------------------------------------------------------------
(* Prove and VerifyProof. *)

RECURSIVE PathNodes(_, _, _)
PathNodes(n, key, gen) ==
    CASE n.t = "short" -> <<n>> \o (IF IsPrefix(n.key, key)
                                    THEN PathNodes(n.val, Rest(key, Len(n.key) + 1), gen) ELSE <<>>)
      [] n.t = "full" -> <<n>> \o PathNodes(n.ch[key[1]], Tail(key), gen)
      [] n.t = "hash" -> PathNodes(resolveHash(n, gen), key, gen)
      [] OTHER -> <<>>

\* The nodes of the path that are not inside another one, and the root.
Prove(root, key, gen) ==
    LET nodes == PathNodes(root, key, gen)
        Bare(n) == [n EXCEPT !.flags.hash = NilNode]
        Enc(i) == hash(Bare(nodes[i]), FALSE, TRUE, 0).hashed.of
    IN  {Enc(i) : i \in {j \in DOMAIN nodes : j = 1 \/ ~Small(Enc(j))}}

\* get: as far as the node goes
RECURSIVE get(_, _)
get(n, key) ==
    CASE n.t = "short" -> IF IsPrefix(n.key, key) THEN get(n.val, Rest(key, Len(n.key) + 1))
                          ELSE <<key, NilNode>>
      [] n.t = "full" -> get(n.ch[key[1]], Tail(key))
      [] OTHER -> <<key, n>>

RECURSIVE VerifyProof(_, _, _)
VerifyProof(want, key, proof) ==
    IF want \notin proof THEN "missing"
    ELSE LET g == get(decodeNode(want, want, 0), key)
         IN  CASE g[2].t = "nil" -> NoValue
               [] g[2].t = "value" -> g[2].v
               [] g[2].t = "hash" -> VerifyProof(g[2].of, g[1], proof)

-----------------------------------------------------------------------------
(* The operations of a trie. *)

TrieInit ==
    /\ trie = [root |-> NilNode, gen |-> 0]
    /\ trieDb = {}
    /\ content = [k \in TrieKeys |-> NoValue]

\* TryUpdate; TryDelete is an update with no value
TryUpdate(k, v) ==
    LET hex == keybytesToHex(k)
        r == IF v = NoValue THEN delete(trie.root, hex, trie.gen)
             ELSE insert(trie.root, hex, ValueNode(v), trie.gen)
    IN  /\ trie' = IF r.err THEN trie ELSE [trie EXCEPT !.root = r.node]
        /\ content' = [content EXCEPT ![k] = v]
        /\ UNCHANGED trieDb

TryGet(k) ==
    LET r == tryGet(trie.root, keybytesToHex(k), trie.gen)
    IN  /\ r.did /\ ~r.err
        /\ trie' = [trie EXCEPT !.root = r.node]
        /\ UNCHANGED <<trieDb, content>>

TrieHash ==
    /\ trie' = [trie EXCEPT !.root = hashRoot(@, FALSE, trie.gen).cached]
    /\ UNCHANGED <<trieDb, content>>

TrieCommitTo ==
    /\ trie.gen < MaxTrieCommits
    /\ LET h == hashRoot(trie.root, TRUE, trie.gen)
       IN  /\ trie' = [root |-> h.cached, gen |-> trie.gen + 1]
           /\ trieDb' = trieDb \union h.puts
    /\ UNCHANGED content

TrieNext ==
    \/ \E k \in TrieKeys : \E v \in TrieValues[k] \union {NoValue} : TryUpdate(k, v)
    \/ \E k \in TrieKeys : TryGet(k)
    \/ TrieHash
    \/ TrieCommitTo

TrieSpec == TrieInit /\ [][TrieNext]_trieVars

-----------------------------------------------------------------------------
(* What the trie should be. *)

\* The nodes of a set of pairs of a key and a value, built from the set.
RECURSIVE Canon(_)
Canon(P) ==
    IF P = {} THEN NilNode
    ELSE LET keys == {p[1] : p \in P}
             any == CHOOSE k \in keys : TRUE
             m == Max({i \in 0 .. Len(any) : \A k \in keys : IsPrefix(SubSeq(any, 1, i), k)})
             Cut(S, i) == {<<Rest(p[1], i + 1), p[2]>> : p \in S}
         IN  IF Cardinality(P) = 1
             THEN EncShort(any, ValueNode((CHOOSE p \in P : TRUE)[2]))
             ELSE LET kid(i) == Cut({p \in Cut(P, m) : p[1][1] = i}, 1)
                      node(i) == IF kid(i) = {} THEN ValueNode(NoValue)
                                 ELSE IF i = Radix THEN ValueNode((CHOOSE p \in kid(i) : TRUE)[2])
                                 ELSE store(Canon(kid(i)), NilNode, FALSE).hashed
                      full == EncFull([i \in 0 .. Radix |-> node(i)])
                  IN  IF m = 0 THEN full
                      ELSE EncShort(SubSeq(any, 1, m), store(full, NilNode, FALSE).hashed)

Pairs == {<<keybytesToHex(k), content[k]>> : k \in {j \in TrieKeys : content[j] # NoValue}}

\* The pairs from start on, in the order of their keys.
Sorted(P, start) ==
    SetToSortSeq({p \in P : ~Before(p[1], Front(keybytesToHex(start)))},
                 LAMBDA p, q : Before(p[1], q[1]))

\* The values the variables range over.
TrieTypeOK == trie.gen \in 0 .. MaxTrieCommits /\ DOMAIN content = TrieKeys

\* Whatever was inserted, deleted, loaded, hashed, committed and unloaded
\* before: every key has its last value, the root hash depends on the content
\* alone (no cached hash is stale), the nodes on the way are in the database,
\* the iterator gives all keys from any start in order, and a proof of a key
\* verifies to its value.
TrieExact ==
    LET root == trie.root
        h == hashRoot(root, FALSE, 0).hashed.of
    IN  /\ TrieTypeOK
        /\ \A k \in TrieKeys :
              LET r == tryGet(root, keybytesToHex(k), 0) IN ~r.err /\ r.v = content[k]
        /\ h = Canon(Pairs)
        /\ \A k \in TrieKeys \union {<<>>} : LeavesFrom(root, k, 0) = Sorted(Pairs, k)
        /\ \A k \in TrieKeys : Pairs # {} =>
              VerifyProof(h, keybytesToHex(k), Prove(root, keybytesToHex(k), 0)) = content[k]
=============================================================================
