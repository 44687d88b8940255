------------------------------ MODULE Fetcher --------------------------------
(***************************************************************************)
(* fetcher.Fetcher: announced blocks on their way through announced,       *)
(* fetching, fetched and completing, blocks that wait for their turn in a  *)
(* queue, and the goroutines that import them.                             *)
(*                                                                         *)
(* Replies are not tied to requests: any peer may send any header or body  *)
(* at any time.  A time-out has or has not passed; a timer is armed or     *)
(* not.  An absent entry of a map is the empty sequence or 0.              *)
(***************************************************************************)
EXTENDS Integers, Sequences, FiniteSets, SequencesExt, FiniteSetsExt, TLC

CONSTANTS FPeers,                \* peers
          Blocks,                \* hashes of the blocks that may be announced
          Number, Parent, EmptyBlocks, \* of a block; EmptyBlocks are those without transactions
          HashLimit, BlockLimit, MaxBackDist, MaxQueueDist,
          MaxEvents              \* announcements and direct insertions

VARIABLES fetch,    \* the maps and timers of the loop, and where it is
          importing,\* per block: none, started, verified, done
          chain,    \* blocks in the local chain
          events

fetchVars == <<fetch, importing, chain, events>>

Root == "root"   \* the parent that is always known
Height == Max({0} \union {Number[h] : h \in chain})
Absent == [h \in Blocks |-> <<>>]

FetchInit ==
    /\ fetch = [at |-> "clean", height |-> 0, announces |-> [p \in FPeers |-> 0], announced |-> Absent,
                fetching |-> Absent, fetched |-> Absent, completing |-> Absent,
                queue |-> {}, queues |-> [p \in FPeers |-> 0], queued |-> Absent,
                fetchTimer |-> TRUE, completeTimer |-> TRUE]
    /\ importing = [h \in Blocks |-> "none"]
    /\ chain = {}
    /\ events = 0

From(as, p) == Len(SelectSeq(as, LAMBDA a : a.origin = p))
Some(map) == {h \in Blocks : map[h] # <<>>}

-----------------------------------------------------------------------------
(* Helpers of the loop. *)

forgetHash(f, h) ==
    LET all == f.announced[h] \o f.fetching[h] \o f.fetched[h] \o f.completing[h]
    IN  [f EXCEPT !.announces = [p \in FPeers |-> @[p] - From(all, p)],
                  !.announced[h] = <<>>, !.fetching[h] = <<>>, !.fetched[h] = <<>>,
                  !.completing[h] = <<>>]

\* A count that is kept when the block has been imported.
forgetBlockOnly(f, h) == [f EXCEPT !.queued[h] = <<>>]

forgetBlock(f, h) ==
    IF f.queued[h] = <<>> THEN f
    ELSE [f EXCEPT !.queues[f.queued[h][1]] = @ - 1, !.queued[h] = <<>>]

Near(n) == n - Height \in -MaxBackDist .. MaxQueueDist

enqueue(f, p, h) ==
    IF f.queues[p] + 1 > BlockLimit \/ ~Near(Number[h]) THEN forgetHash(f, h)
    ELSE IF f.queued[h] # <<>> THEN f
    ELSE [f EXCEPT !.queues[p] = @ + 1, !.queued[h] = <<p>>, !.queue = @ \union {h}]

rescheduleFetch(f) == [f EXCEPT !.fetchTimer = @ \/ Some(f.announced) # {}]
rescheduleComplete(f) == [f EXCEPT !.completeTimer = @ \/ Some(f.fetched) # {}]

-----------------------------------------------------------------------------
(* The top of the loop: expired fetches, then what of the queue fits.  The *)
(* height is the one read before the queue is looked at.                   *)

Clean ==
    /\ fetch.at = "clean"
    /\ \E old \in SUBSET Some(fetch.fetching) :
          fetch' = [FoldSet(LAMBDA h, f : forgetHash(f, h), fetch, old) EXCEPT
                       !.at = "pop", !.height = Height]
    /\ UNCHANGED <<importing, chain, events>>

\* PopItem is one of the lowest blocks.
Pop ==
    /\ fetch.at = "pop"
    /\ IF fetch.queue = {}
       THEN fetch' = [fetch EXCEPT !.at = "select"] /\ UNCHANGED importing
       ELSE \E h \in {g \in fetch.queue : \A k \in fetch.queue : Number[g] <= Number[k]} :
            LET popped == [fetch EXCEPT !.queue = @ \ {h}]
            IN  \/ /\ Number[h] > fetch.height + 1
                   /\ fetch' = [fetch EXCEPT !.at = "select"]
                   /\ UNCHANGED importing
                \/ /\ Number[h] <= fetch.height + 1
                   /\ Number[h] + MaxBackDist < fetch.height \/ h \in chain
                   /\ fetch' = forgetBlock(popped, h)
                   /\ UNCHANGED importing
                \/ /\ Number[h] <= fetch.height + 1
                   /\ Number[h] + MaxBackDist >= fetch.height /\ h \notin chain
                   /\ fetch' = popped
                   /\ importing' = [importing EXCEPT ![h] = "started"]
    /\ UNCHANGED <<chain, events>>

\* The end of a case of the select: back to the top.
Again(f) == fetch' = [f EXCEPT !.at = "clean"]

-----------------------------------------------------------------------------
(* Events. *)

\* number is 0 when the peer has not told it.
Notify(p, h, number) ==
    /\ fetch.at = "select" /\ events < MaxEvents
    /\ LET a == [origin |-> p, number |-> number, header |-> FALSE]
           drop == \/ fetch.announces[p] + 1 > HashLimit
                   \/ number > 0 /\ ~Near(number)
                   \/ fetch.fetching[h] # <<>> \/ fetch.completing[h] # <<>>
           f == [fetch EXCEPT !.announces[p] = @ + 1, !.announced[h] = Append(@, a)]
       IN  Again(IF drop THEN fetch
                 ELSE IF Cardinality(Some(f.announced)) = 1 THEN rescheduleFetch(f) ELSE f)
    /\ events' = events + 1
    /\ UNCHANGED <<importing, chain>>

Inject(p, h) ==
    /\ fetch.at = "select" /\ events < MaxEvents
    /\ Again(enqueue(fetch, p, h))
    /\ events' = events + 1
    /\ UNCHANGED <<importing, chain>>

Done(h) ==
    /\ fetch.at = "select" /\ importing[h] = "done"
    /\ Again(forgetBlock(forgetHash(fetch, h), h))
    /\ importing' = [importing EXCEPT ![h] = "none"]
    /\ UNCHANGED <<chain, events>>

\* One announcement per hash is taken for a request, the others are forgotten.
Requested(f, hashes, pick, to) ==
    FoldSet(LAMBDA h, g : IF h \in chain THEN forgetHash(g, h)
                          ELSE [forgetHash(g, h) EXCEPT ![to][h] = <<pick[h]>>],
            f, hashes)

FetchTimer ==
    /\ fetch.at = "select" /\ fetch.fetchTimer
    /\ \E due \in SUBSET Some(fetch.announced) :
       \E pick \in [due -> UNION {ToSet(fetch.announced[h]) : h \in due}] :
          /\ \A h \in due : pick[h] \in ToSet(fetch.announced[h])
          /\ Again(rescheduleFetch(Requested([fetch EXCEPT !.fetchTimer = FALSE], due, pick, "fetching")))
    /\ UNCHANGED <<importing, chain, events>>

CompleteTimer ==
    /\ fetch.at = "select" /\ fetch.completeTimer
    /\ \E pick \in [Some(fetch.fetched) -> UNION {ToSet(fetch.fetched[h]) : h \in Blocks}] :
          /\ \A h \in DOMAIN pick : pick[h] \in ToSet(fetch.fetched[h])
          /\ Again(rescheduleComplete(Requested([fetch EXCEPT !.completeTimer = FALSE],
                                                Some(fetch.fetched), pick, "completing")))
    /\ UNCHANGED <<importing, chain, events>>

\* A header the fetcher has asked this peer for; all others go to the downloader.
Expected(f, p, h) ==
    /\ From(f.fetching[h], p) = 1
    /\ f.fetched[h] = <<>> /\ f.completing[h] = <<>> /\ f.queued[h] = <<>>

FilterHeader(f, p, h) ==
    LET a == [f.fetching[h][1] EXCEPT !.header = TRUE]
        kept == [f EXCEPT !.fetching[h] = <<a>>]
    IN  IF ~Expected(f, p, h) THEN f
        ELSE IF f.fetching[h][1].number # Number[h] \/ h \in chain THEN forgetHash(f, h)
        ELSE IF h \in EmptyBlocks THEN enqueue([kept EXCEPT !.completing[h] = <<a>>], p, h)
        ELSE LET g == [kept EXCEPT !.fetched[h] = <<a>>]
             IN  IF Cardinality(Some(g.fetched)) = 1 THEN rescheduleComplete(g) ELSE g

FilterHeaders(p, headers) ==
    /\ fetch.at = "select"
    /\ Again(FoldLeft(LAMBDA f, h : FilterHeader(f, p, h), fetch, headers))
    /\ UNCHANGED <<importing, chain, events>>

\* A body belongs to the blocks being completed by this peer that have its hash.
FilterBody(f, p, h) ==
    IF From(f.completing[h], p) = 0 \/ f.queued[h] # <<>> THEN f
    ELSE IF h \in chain THEN forgetHash(f, h) ELSE enqueue(f, p, h)

FilterBodies(p, bodies) ==
    /\ fetch.at = "select"
    /\ Again(FoldLeft(LAMBDA f, h : FilterBody(f, p, h), fetch, bodies))
    /\ UNCHANGED <<importing, chain, events>>

-----------------------------------------------------------------------------
(* insert: a goroutine per block, and the chain that grows by other means. *)

\* Parent and header are checked; the block is propagated, or the peer dropped.
Verify(h) ==
    /\ importing[h] = "started"
    /\ \E ok \in BOOLEAN :
          importing' = [importing EXCEPT ![h] = IF ok /\ Parent[h] \in chain \union {Root} THEN "verified"
                                                ELSE "done"]
    /\ UNCHANGED <<fetch, chain, events>>

InsertChain(h) ==
    /\ importing[h] = "verified"
    /\ importing' = [importing EXCEPT ![h] = "done"]
    /\ chain' \in {chain, chain \union {h}}
    /\ UNCHANGED <<fetch, events>>

Downloaded(h) ==
    /\ h \notin chain /\ Parent[h] \in chain \union {Root}
    /\ chain' = chain \union {h}
    /\ UNCHANGED <<fetch, importing, events>>

FetchNext ==
    \/ Clean \/ Pop \/ FetchTimer \/ CompleteTimer
    \/ \E h \in Blocks : Done(h) \/ Verify(h) \/ InsertChain(h) \/ Downloaded(h)
    \/ \E p \in FPeers, h \in Blocks :
          Inject(p, h) \/ FilterBodies(p, <<h>>) \/ \E n \in {0, Number[h]} : Notify(p, h, n)
    \/ \E p \in FPeers : \E hs \in {<<h>> : h \in Blocks} \union {SetToSeq(Blocks)} : FilterHeaders(p, hs)

FetchSpec == FetchInit /\ [][FetchNext]_fetchVars

-----------------------------------------------------------------------------
Waiting(p) == MapThenSumSet(LAMBDA h : From(fetch.announced[h], p), Blocks)

\* Whatever is announced, answered late, answered by somebody else, queued and imported
\* meanwhile: a block is in the queue or being imported exactly if it counts as queued, by
\* one goroutine at most; the count of a peer's blocks is right and within its limit; the
\* count of its announcements never exceeds those that wait, so that no peer is refused for
\* announcements of the past; a body is only awaited for a header that has come; and a
\* timer is armed as long as something waits for it.
FetcherTracks ==
    /\ \A h \in Blocks :
          /\ fetch.queued[h] # <<>> <=> (h \in fetch.queue \/ importing[h] # "none")
          /\ ~(h \in fetch.queue /\ importing[h] # "none")
          /\ \A i \in DOMAIN fetch.completing[h] : fetch.completing[h][i].header
    /\ \A p \in FPeers :
          /\ fetch.queues[p] = Cardinality({h \in Blocks : fetch.queued[h] = <<p>>})
          /\ fetch.queues[p] <= BlockLimit
          /\ fetch.announces[p] <= Waiting(p)
    /\ Some(fetch.announced) # {} => fetch.fetchTimer
    /\ Some(fetch.fetched) # {} => fetch.completeTimer
=============================================================================
