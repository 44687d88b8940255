---------------------------- MODULE DownloadQueue ----------------------------
(***************************************************************************)
(* The queue of the downloader: which bodies and receipts are still to be  *)
(* fetched, which are asked of a peer, which are there, and the cache in   *)
(* which blocks are put together and leave in the order of the chain.      *)
(*                                                                         *)
(* A header is its block's number: the queue only ever holds headers of    *)
(* one chain, the one Schedule has checked for numbers and parents.  The   *)
(* priority queue of tasks gives out the lowest number first, so a set     *)
(* stands for it; TaskOnce says that no number is ever pushed twice.  The  *)
(* priorities are -float32(number), which tells numbers apart up to 2^24:  *)
(* a chain is no longer than that here.                                    *)
(***************************************************************************)
EXTENDS Integers, Sequences, FiniteSets, FiniteSetsExt, SequencesExt

CONSTANTS Height,       \* length of the chain the peers have
          Conns,        \* connections, each one peerConnection object
          PeerOf,       \* the id of the peer at the other end of a connection
          CacheLimit,   \* blockCacheLimit
          MinFetch,     \* the least a peer is asked for: two in the code
          MaxFetch,     \* MaxBlockFetch and MaxReceiptFetch
          ForceVerify,  \* fsHeaderForceVerify
          EmptyBody,    \* blocks without transactions
          EmptyReceipt  \* blocks without receipts

ASSUME QueueAssumption ==
    /\ Height \in 0 .. 2^24 /\ CacheLimit \in Nat \ {0} /\ MinFetch \in Nat \ {0}
    /\ MaxFetch \in Nat /\ MaxFetch >= MinFetch
    /\ ForceVerify \in Nat /\ ForceVerify < CacheLimit
    /\ EmptyBody \subseteq 1..Height /\ EmptyReceipt \subseteq 1..Height
    /\ DOMAIN PeerOf = Conns

Blocks == 1..Height
Peers == {PeerOf[c] : c \in Conns}
Kinds == {"body", "receipt"}
NoRequest == [conn |-> "none", headers |-> <<>>]
NoResult == [number |-> 0, pending |-> 0, parts |-> {}]

VARIABLES tasks,         \* per kind: taskPool, taskQueue, pendPool, donePool
          resultCache,   \* the fetchResults, from resultOffset on
          resultOffset,
          closed,
          mode, pivot    \* what Prepare was given

queueVars == <<tasks, resultCache, resultOffset, closed, mode, pivot>>

EmptyTasks ==
    [taskPool |-> {}, taskQueue |-> {}, pendPool |-> [p \in Peers |-> NoRequest], donePool |-> {}]
EmptyCache == [i \in 1..CacheLimit |-> NoResult]

-----------------------------------------------------------------------------
(* Reading the queue. *)

\* The peers with a request of one kind under way.
Pending(q) == {p \in Peers : q.pendPool[p] # NoRequest}
\* (Fault: a fetcher does not see the requests under way.)
InFlightNever(q) == FALSE
InFlight(q) == Pending(q) # {}

\* The number of tasks under way.
InFlightTasks(q) == MapThenSumSet(LAMBDA p : Len(q.pendPool[p].headers), Peers)

\* ShouldThrottleBlocks and ShouldThrottleReceipts.
ShouldThrottle(q) == InFlightTasks(q) >= CacheLimit - Cardinality(q.donePool)

\* The parts of a block that have to be fetched.
Components(b) == {"body"} \union (IF mode = "fast" /\ b <= pivot THEN {"receipt"} ELSE {})

IsNoop(kind, b) == b \in (IF kind = "body" THEN EmptyBody ELSE EmptyReceipt)

\* The place of a block in resultCache, counted from 1.
Index(b) == b - resultOffset + 1

\* countProcessableItems: how many results at the front are complete, short
\* of a pivot that has not got its successors in the cache yet.
HeldBack(i) ==
    /\ mode = "fast" /\ resultCache[i].number = pivot
    /\ \E j \in 1..ForceVerify :
           i + j > CacheLimit \/ resultCache[i + j] = NoResult
Stops(i) == resultCache[i] = NoResult \/ resultCache[i].pending > 0 \/ HeldBack(i)
Processable == LET stops == {i \in 1..CacheLimit : Stops(i)}
               IN  IF stops = {} THEN CacheLimit ELSE Min(stops) - 1

-----------------------------------------------------------------------------
(* Changing the queue.  Each operator gives the new value of a part of it. *)

\* Schedule: the headers of the given numbers are put up for retrieval.
Scheduled(bs) ==
    [kind \in Kinds |->
        LET new == {b \in bs : kind \in Components(b)}
        IN  [tasks[kind] EXCEPT !.taskPool = @ \union new, !.taskQueue = @ \union new]]

\* cancel, expire and Revoke: the requests of the given peers go back.
\* (Fault: the request stays in the pend pool.)
ReturnedKept(q, ps) ==
    [q EXCEPT !.taskQueue = @ \union UNION {ToSet(q.pendPool[p].headers) : p \in ps}]
Returned(q, ps) ==
    [q EXCEPT !.taskQueue = @ \union UNION {ToSet(q.pendPool[p].headers) : p \in ps},
              !.pendPool = [p \in Peers |-> IF p \in ps THEN NoRequest ELSE @[p]]]

\* reserveHeaders takes the tasks from the lowest number on, until there is no
\* space in the cache or the request is full.  An empty part neither uses up
\* the request nor, as it takes one off both proc and space, moves the limit.
Popped(kind, lacks, count) ==
    LET q == tasks[kind]
        space == CacheLimit - Cardinality(q.donePool) - InFlightTasks(q)
        Below(b) == {x \in q.taskQueue : x < b}
        Sent(x) == ~IsNoop(kind, x) /\ x \notin lacks
    IN  {b \in q.taskQueue : /\ Cardinality(Below(b)) < space
                             /\ Cardinality({x \in Below(b) : Sent(x)}) < count}

\* Those of them that have no place in the cache end the loop at once.
BeyondCache(bs) == {b \in bs : Index(b) \notin 1..CacheLimit}
UpToFault(bs) == {b \in bs : \A x \in BeyondCache(bs) : b <= x}

\* A result is made when the first part of its block is reserved, and has one
\* part less to wait for when a part is empty or delivered.
Result(b) == IF resultCache[Index(b)] = NoResult
             THEN [number |-> b, pending |-> Cardinality(Components(b)), parts |-> {}]
             ELSE resultCache[Index(b)]
WithPart(r, kind) == [r EXCEPT !.pending = @ - 1, !.parts = @ \union {kind}]

CacheWith(kind, bs, got) ==
    [i \in 1..CacheLimit |->
        LET b == i + resultOffset - 1
        IN  CASE b \in bs /\ b \in got -> WithPart(Result(b), kind)
              [] b \in bs /\ b \notin got -> Result(b)
              [] OTHER -> resultCache[i]]

Ascending(bs) == SetToSortSeq(bs, <)

\* The whole of reserveHeaders for connection c: the request, whether empty
\* parts were completed, and what becomes of the tasks and the cache.
Reserve(kind, c, lacks, count) ==
    LET q == tasks[kind]
        popped == UpToFault(Popped(kind, lacks, count))
        fault == BeyondCache(popped) # {}
        placed == popped \ BeyondCache(popped)
        noops == {b \in placed : IsNoop(kind, b)}
        send == placed \ (noops \union lacks)
        skip == {b \in placed \ noops : b \in lacks}
        refused == q.taskQueue = {} \/ q.pendPool[PeerOf[c]] # NoRequest
        request == [conn |-> c, headers |-> Ascending(send)]
    IN  IF refused
        THEN [request |-> NoRequest, progress |-> FALSE, fault |-> FALSE,
              tasks |-> q, cache |-> resultCache]
        ELSE [request |-> IF fault \/ send = {} THEN NoRequest ELSE request,
              progress |-> noops # {} /\ ~fault,
              fault |-> fault,
              tasks |-> [q EXCEPT !.taskQueue = (@ \ popped) \union (IF fault THEN {} ELSE skip),
                                  !.taskPool = @ \ noops,
                                  !.donePool = @ \union noops,
                                  !.pendPool[PeerOf[c]] =
                                      IF fault \/ send = {} THEN NoRequest ELSE request],
              cache |-> CacheWith(kind, placed, noops)]

\* The whole of deliver: data holds, per item, the number of the block it is
\* the body or the receipts of, 0 for anything else.  The items are accepted
\* up to the first one that is not what was asked for at its place.
Deliver(kind, p, data) ==
    LET q == tasks[kind]
        asked == q.pendPool[p].headers
        Placed(b) == Index(b) \in 1..CacheLimit /\ resultCache[Index(b)] # NoResult
        Good(i) == i <= Len(data) /\ Placed(asked[i]) /\ data[i] = asked[i]
        stops == {i \in 1..Len(asked) : ~Good(i)}
        n == IF stops = {} THEN Len(asked) ELSE Min(stops) - 1
        got == {asked[i] : i \in 1..n}
        failed == n < Len(asked) /\ n < Len(data)
    IN  [accepted |-> n,
         fault |-> failed /\ ~Placed(asked[n + 1]),
         stale |-> failed /\ n = 0 /\ Placed(asked[n + 1]),
         tasks |-> [q EXCEPT !.pendPool[p] = NoRequest,
                             !.donePool = @ \union got,
                             !.taskPool = @ \ got,
                             !.taskQueue = @ \union (ToSet(asked) \ got)],
         cache |-> CacheWith(kind, got, got)]

\* WaitResults takes the first n results out of the cache.
CacheAfter(n) == SubSeq(resultCache, n + 1, CacheLimit) \o [i \in 1..n |-> NoResult]
TasksAfter(n) ==
    [kind \in Kinds |->
        [tasks[kind] EXCEPT !.donePool = @ \ {resultCache[i].number : i \in 1..n}]]

\* Reset, followed by Prepare with the first block wanted.
Prepared(first, m, v) ==
    /\ tasks' = [kind \in Kinds |-> EmptyTasks]
    /\ resultCache' = EmptyCache
    /\ resultOffset' = first
    /\ closed' = FALSE
    /\ mode' = m
    /\ pivot' = v

QueueInit ==
    /\ tasks = [kind \in Kinds |-> EmptyTasks]
    /\ resultCache = EmptyCache
    /\ resultOffset = 0
    /\ closed = FALSE
    /\ mode = "full"
    /\ pivot = 0
=============================================================================
