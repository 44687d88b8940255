----------------------------- MODULE HeaderQuery -----------------------------
(***************************************************************************)
(* ProtocolManager.handleMsg, GetBlockHeadersMsg: the headers a peer gets  *)
(* for an origin (a hash or a number), an amount, a skip and a direction.  *)
(* ParentOf and StoredNumber describe the stored headers, Canonical those  *)
(* of the canonical chain by number.  Numbers are taken modulo HeaderWord, *)
(* which stands for 2^64, and int is their signed reading.                 *)
(***************************************************************************)
EXTENDS Integers, Sequences, FiniteSets, TLC

CONSTANTS ParentOf, StoredNumber, Canonical,
          MaxHeaderFetch, MaxAmount, HeaderWord

ASSUME HeaderWordAssumption == HeaderWord % 2 = 0 /\ MaxAmount < HeaderWord \div 2

VARIABLE query

Headers == DOMAIN StoredNumber
None == "none"
HeaderByNumber(n) == IF n + 1 \in DOMAIN Canonical THEN Canonical[n + 1] ELSE None
IntOf(n) == IF n < HeaderWord \div 2 THEN n ELSE n - HeaderWord
HeaderByHash(h) == IF h \in Headers THEN h ELSE None

\* The k-th ancestor: GetBlockHashesFromHash(h, k)[k - 1], None past the genesis.
AncestorHash(h, k) == LET up[i \in 0 .. k] == IF i = 0 THEN h ELSE IF up[i - 1] \in Headers THEN ParentOf[up[i - 1]] ELSE None
                      IN  up[k]

-----------------------------------------------------------------------------
(* The loop: where it is, what it has collected, whether it goes on.       *)

\* Reversed by hash: int(skip) + 1 parents up; the walk fails at an unknown
\* header, and does not begin if the sum is not positive.
UpByHash(hash, skip) ==
    IF IntOf((skip + 1) % HeaderWord) <= 0 THEN [hash |-> hash, unknown |-> FALSE]
    ELSE IF \A k \in 0 .. skip : AncestorHash(hash, k) \in Headers
    THEN [hash |-> AncestorHash(hash, skip + 1), unknown |-> FALSE]
    ELSE [hash |-> None, unknown |-> TRUE]

\* Onwards by hash: only along the canonical chain.  The second form does
\* not look whether the next header descends from the origin.
DownByHashAny(hash, skip) ==
    LET next == (StoredNumber[hash] + skip + 1) % HeaderWord IN
    IF next <= StoredNumber[hash] \/ HeaderByNumber(next) = None
    THEN [hash |-> hash, unknown |-> TRUE]
    ELSE [hash |-> HeaderByNumber(next), unknown |-> FALSE]
DownByHash(hash, skip) ==
    LET next == (StoredNumber[hash] + skip + 1) % HeaderWord IN
    IF next <= StoredNumber[hash] \/ HeaderByNumber(next) = None \/ AncestorHash(HeaderByNumber(next), skip + 1) # hash
    THEN [hash |-> hash, unknown |-> TRUE]
    ELSE [hash |-> HeaderByNumber(next), unknown |-> FALSE]

UpByNumber(n, skip) ==
    IF n >= (skip + 1) % HeaderWord THEN [number |-> n - ((skip + 1) % HeaderWord), unknown |-> FALSE] ELSE [number |-> n, unknown |-> TRUE]

DownByNumber(n, skip) == [number |-> (n + skip + 1) % HeaderWord, unknown |-> FALSE]

Advance(q, at, origin) ==
    CASE q.hashMode /\ q.reverse -> UpByHash(origin, q.skip)
      [] q.hashMode /\ ~q.reverse -> DownByHash(origin, q.skip)
      [] ~q.hashMode /\ q.reverse -> UpByNumber(at.number, q.skip)
      [] ~q.hashMode /\ ~q.reverse -> DownByNumber(at.number, q.skip)

Limit(q) == IF IntOf(q.amount) < 0 THEN 0 ELSE IF q.amount < MaxHeaderFetch THEN q.amount ELSE MaxHeaderFetch

Answer(q) ==
    LET limit == Limit(q)
        Origin(at) == IF q.hashMode THEN HeaderByHash(at.hash) ELSE HeaderByNumber(at.number)
        loop[i \in 0 .. limit] ==
            IF i = 0 THEN [at |-> IF q.hashMode THEN [hash |-> q.origin, unknown |-> FALSE]
                                  ELSE [number |-> q.origin, unknown |-> FALSE], out |-> <<>>, on |-> TRUE]
            ELSE LET s == loop[i - 1]
                     origin == Origin(s.at)
                     at == Advance(q, s.at, origin)
                 IN  IF ~s.on \/ origin = None THEN [s EXCEPT !.on = FALSE]
                     ELSE [at |-> at, out |-> Append(s.out, origin), on |-> ~at.unknown]
    IN  loop[limit].out

-----------------------------------------------------------------------------
HeaderQueryInit == query = [done |-> FALSE]

GetBlockHeaders(hashMode, origin, amount, skip, reverse) ==
    /\ ~query.done
    /\ LET q == [done |-> TRUE, hashMode |-> hashMode, origin |-> origin, amount |-> amount, skip |-> skip, reverse |-> reverse]
       IN  query' = [answer |-> Answer(q)] @@ q

HeaderQueryNext ==
    \E amount \in 0 .. MaxAmount \union {HeaderWord - 1}, skip \in 0 .. HeaderWord - 1, reverse \in BOOLEAN :
        \/ \E h \in Headers \union {None} : GetBlockHeaders(TRUE, h, amount, skip, reverse)
        \/ \E n \in 0 .. Len(Canonical) : GetBlockHeaders(FALSE, n, amount, skip, reverse)

HeaderQuerySpec == HeaderQueryInit /\ [][HeaderQueryNext]_query

-----------------------------------------------------------------------------
\* The sums of the loop that pass the end of their range: unsigned for numbers,
\* signed for the steps of a reversed query by hash.  A query onwards by hash
\* notices it.
Wraps(q) ==
    CASE q.hashMode /\ q.reverse -> q.skip + 1 >= HeaderWord \div 2
      [] q.hashMode /\ ~q.reverse -> FALSE
      [] ~q.hashMode /\ q.reverse -> q.skip + 1 >= HeaderWord
      [] ~q.hashMode /\ ~q.reverse -> q.skip + Len(Canonical) >= HeaderWord

\* Every answer is what the query asks for: from the origin in steps of
\* skip + 1, along the parents for a reversed query by hash and along the
\* canonical chain otherwise (which a header of a side chain does not leave),
\* as far as the headers reach and no more than the limit.  Where the sum wraps
\* round it is not: a reversed query then gets its origin as often as the limit
\* allows, and one onwards by number may come back into the chain.
Asked(q, i) ==
    LET far == i * (q.skip + 1)
        h == IF q.hashMode THEN q.origin ELSE HeaderByNumber(q.origin)
    IN  IF h \notin Headers THEN None
        ELSE IF i = 0 THEN h
        ELSE IF q.reverse THEN IF far <= StoredNumber[h] THEN AncestorHash(h, far) ELSE None
        ELSE IF h = HeaderByNumber(StoredNumber[h]) THEN HeaderByNumber(StoredNumber[h] + far) ELSE None

HeadersAsked ==
    query.done =>
        LET known == {n \in 0 .. Limit(query) : \A i \in 0 .. n - 1 : Asked(query, i) # None}
            count == CHOOSE n \in known : \A m \in known : m <= n
        IN  IF ~Wraps(query) THEN query.answer = [i \in 1 .. count |-> Asked(query, i - 1)]
            ELSE query.reverse => query.answer = [i \in 1 .. (IF known = {0} THEN 0 ELSE Limit(query)) |-> Asked(query, 0)]
=============================================================================
