----------------------------- MODULE Downloader ------------------------------
(***************************************************************************)
(* One synchronisation after the other: the header processor feeds the     *)
(* queue, fetchParts runs once for the bodies and once for the receipts,   *)
(* the content processor imports what is complete, and spawnSync collects  *)
(* their results.  Peers come and go, answer late, in part, with something *)
(* else or never.                                                          *)
(*                                                                         *)
(* The channels into fetchParts only delay what is in them, so a packet is *)
(* taken from the network when the fetcher takes it.  The ticker makes the *)
(* update case of fetchParts always ready, so that all wakeCh tells it is  *)
(* that processHeaders is done.  The time-out of a request may have passed *)
(* at any update.  A goroutine that finds cancelCh closed in its select    *)
(* returns: what another case would do could as well have been done before *)
(* the channel was closed, as no other case reads what Cancel changes.     *)
(***************************************************************************)
EXTENDS DownloadQueue

CONSTANTS InitialConns, \* the connections there are at the start
          Pivots,       \* the pivots a fast synchronisation may choose; none: fastSync is off
          SafetyNet,    \* fsHeaderSafetyNet, and maxHeadersProcess, the same number
          LeastChunk,   \* bound: the fewest headers that come at once, the last ones excepted
          MaxQueued,    \* maxQueuedHeaders
          CriticalTrials, \* fsCriticalTrials
          Masters,      \* peers to synchronise with
          MaxLeaves,    \* bound on the peers that leave by themselves
          MaxCycles     \* bound on the number of synchronisations

ASSUME DownloaderAssumption ==
    /\ InitialConns \subseteq Conns
    /\ \A c, d \in InitialConns : PeerOf[c] = PeerOf[d] => c = d
    /\ Pivots \subseteq 0 .. Height - ForceVerify
    /\ SafetyNet \in Nat \ {0} /\ LeastChunk \in 1 .. SafetyNet
    /\ MaxQueued \in Nat \ {0} /\ CriticalTrials \in Nat /\ MaxLeaves \in Nat /\ MaxCycles \in Nat

\* A value of PeerOf: every peer has one connection, named like it.
OnePerPeer == [c \in Conns |-> c]

VARIABLES registered, \* the peerSet
          leaves,     \* number of peers that left by themselves
          joined,     \* connections that have been registered so far
          busy,       \* per kind: connections with blockIdle or receiptIdle at 1
          rated,      \* per kind: connections with a throughput above 0
          lacking,    \* per connection: blocks the peer did not have
          sent,       \* requests that may still be answered
          fetcher,    \* per kind: where fetchParts is, and its locals
          headers,    \* processHeaders: state, next header, and the chain of the last ones
          content,    \* the content processor: state, batch in hand, its stateSync
          watchers,   \* synchronisations whose goroutine on stateSync.Wait has an error
          sync,       \* spawnSync: state, first error, cancelCh, master
          cycles,
          head,       \* CurrentBlock
          fastHead,   \* CurrentFastBlock
          stored,     \* blocks that were imported
          known,      \* the last header ever inserted, for HasHeader
          headerHead, \* CurrentHeader, as far as fast synchronisations move it
          pivotLock,  \* fsPivotLock: number and chain
          pivotFails, \* fsPivotFails
          stale,      \* a delivery of this synchronisation was stale
          late        \* a goroutine of an earlier one has closed the queue of this one

peerVars == <<registered, leaves, joined, busy, rated, lacking>>
chainVars == <<head, fastHead, stored, known, headerHead>>
pivotVars == <<pivotLock, pivotFails>>
history == <<stale, late>>
vars == <<queueVars, peerVars, sent, fetcher, headers, content, watchers, sync, cycles, chainVars, pivotVars, history>>

Errors == {"errCancel", "errNoPeers", "errPeersUnavailable", "errInvalidChain", "errBadPeer", "errStallingPeer",
           "errState", "panic"}
Resting(at) == at \in Errors \union {"done"}
NoLock == [number |-> 0, chain |-> "main"]
At(place) == [at |-> place, idles |-> {}, hope |-> FALSE]

Running == sync.at # "off"

\* Register's object for a peer, if there is one.
ConnOf(p) == {c \in registered : PeerOf[c] = p}

\* BlockCapacity and ReceiptCapacity.
Capacity(kind, c) == IF c \in rated[kind] THEN MinFetch..MaxFetch ELSE {MinFetch}

\* active.Signal and active.Broadcast.
\* (Fault: nobody is woken.)
WokenNever == content
Woken == [content EXCEPT !.at = IF @ = "wait" THEN "check" ELSE @]

\* UnregisterPeer for the given peers, on tasks ts: their connections leave
\* the set, their requests go back, and the loss of the master cancels.
Unregistered(ts, ps) == [kind \in Kinds |-> Returned(ts[kind], ps)]
Remaining(ps) == {c \in registered : PeerOf[c] \notin ps}

-----------------------------------------------------------------------------
(* The life cycle: synchronise, syncWithPeer and spawnSync.                *)

\* The mode and the pivot: once a synchronisation has failed past its pivot
\* that pivot stays, and after too many failures there is no fast one.
Mode(m) == IF m = "fast" /\ pivotFails >= CriticalTrials THEN "full" ELSE m
\* (Fault: a locked pivot is not used.)
PivotFresh(m, v) == IF Mode(m) = "full" THEN 0 ELSE v
Pivot(m, v) == IF Mode(m) = "full" THEN 0 ELSE IF pivotLock # NoLock THEN pivotLock.number ELSE v

\* findAncestor looks at every sixteenth header up to the current block, so
\* that it may find any block up to it; a fast synchronisation goes back to
\* its pivot.
Ancestors(m) == 0 .. IF m = "full" THEN head ELSE fastHead
Origin(m, v, ancestor) == IF m = "fast" /\ v < ancestor THEN (IF v > 0 THEN v - 1 ELSE 0)
                          ELSE ancestor

\* synchronise with peer p, up to where its goroutines start.  The protocol
\* manager of a node with fastSync asks for a fast one until it has blocks.
Synchronise(p, v, ancestor) ==
    LET asked == IF Pivots # {} /\ head = 0 THEN "fast" ELSE "full"
        m == Mode(asked)
        pv == Pivot(asked, v)
        first == Origin(m, pv, ancestor) + 1
    IN  /\ ~Running /\ cycles < MaxCycles /\ ConnOf(p) # {} /\ head < Height
        /\ ancestor \in Ancestors(m)
        /\ cycles' = cycles + 1
        /\ Prepared(first, m, pv)
        /\ busy' = [kind \in Kinds |-> busy[kind] \ registered]
        /\ rated' = [kind \in Kinds |-> rated[kind] \ registered]
        /\ lacking' = [c \in Conns |-> IF c \in registered THEN {} ELSE lacking[c]]
        /\ fetcher' = [kind \in Kinds |-> At("select")]
        /\ headers' = [at |-> "run", origin |-> first, got |-> FALSE, rollback |-> {}, chain |-> "main"]
        /\ content' = [at |-> "check", batch |-> <<>>,
                       state |-> IF m = "fast" THEN "running" ELSE "none"]
        /\ sync' = [at |-> "collect", err |-> "nil", cancelled |-> FALSE, lost |-> FALSE, master |-> p]
        /\ stale' = FALSE /\ late' = FALSE
        /\ UNCHANGED <<registered, leaves, joined, sent, watchers, chainVars, pivotVars>>

\* Where the goroutines are; a fetcher in its select with cancelCh closed has
\* nothing left to do but to return.
Place(kind) == IF fetcher[kind].at = "select" /\ sync.cancelled THEN "errCancel" ELSE fetcher[kind].at
States == {Place("body"), Place("receipt"), headers.at, content.at}

\* The first error ends the others: the queue is closed, cancelCh too.
CollectError(e) ==
    /\ sync.at = "collect" /\ e \in States \intersect Errors
    /\ sync' = [sync EXCEPT !.at = "wait", !.err = e, !.cancelled = TRUE]
    /\ closed' = TRUE
    /\ content' = Woken
    /\ UNCHANGED <<tasks, resultCache, resultOffset, mode, pivot, peerVars, sent, fetcher, headers,
                   cycles, chainVars, pivotVars, watchers, history>>

\* When all but the last have returned nil the queue is closed.
CloseQueue ==
    /\ sync.at = "collect" /\ ~closed
    /\ \A kind \in Kinds : fetcher[kind].at = "done"
    /\ headers.at = "done"
    /\ closed' = TRUE
    /\ content' = Woken
    /\ UNCHANGED <<tasks, resultCache, resultOffset, mode, pivot, peerVars, sent, fetcher, headers,
                   sync, cycles, chainVars, pivotVars, watchers, history>>

\* All have returned.  Synchronise drops a master whose data was no good.
Return ==
    /\ Running /\ \A at \in States : Resting(at)
    /\ sync.at = "collect" => States = {"done"}
    /\ sync' = [sync EXCEPT !.at = "off", !.cancelled = TRUE, !.lost = FALSE]
    /\ closed' = TRUE
    /\ LET drops == sync.err \in {"errPeersUnavailable", "errInvalidChain", "errBadPeer", "errStallingPeer"}
           ps == IF drops THEN {sync.master} ELSE {}
       IN  /\ registered' = Remaining(ps)
           /\ tasks' = Unregistered(tasks, ps)
    /\ pivotFails' = IF sync.err # "nil" /\ mode = "fast" /\ pivotLock # NoLock
                     THEN pivotFails + 1 ELSE pivotFails
    /\ fetcher' = [kind \in Kinds |-> At("done")]
    /\ headers' = [headers EXCEPT !.at = "done"]
    /\ content' = [content EXCEPT !.at = "done"]
    /\ UNCHANGED <<resultCache, resultOffset, mode, pivot, leaves, joined, busy, rated, lacking, sent,
                   cycles, chainVars, pivotLock, watchers, history>>

-----------------------------------------------------------------------------
(* Peers. *)

\* RegisterPeer: a new connection has the average throughput of the others.
RegisterPeer(c) ==
    /\ c \notin joined /\ ConnOf(PeerOf[c]) = {}
    /\ registered' = registered \union {c}
    /\ joined' = joined \union {c}
    /\ rated' = [kind \in Kinds |-> rated[kind] \union
                     (IF rated[kind] \intersect registered # {} THEN {c} ELSE {})]
    /\ UNCHANGED <<queueVars, leaves, busy, lacking, sent, fetcher, headers, content, sync, cycles,
                   chainVars, pivotVars, watchers, history>>

\* UnregisterPeer, when a connection ends.
UnregisterPeer(p) ==
    /\ ConnOf(p) # {} /\ leaves < MaxLeaves
    /\ leaves' = leaves + 1
    /\ registered' = Remaining({p})
    /\ tasks' = Unregistered(tasks, {p})
    /\ sync' = [sync EXCEPT !.lost = @ \/ (Running /\ p = sync.master)]
    /\ UNCHANGED <<resultCache, resultOffset, closed, mode, pivot, joined, busy, rated, lacking,
                   sent, fetcher, headers, content, cycles, chainVars, pivotVars, watchers, history>>

\* Cancel, the last thing UnregisterPeer does when the master is gone.
Cancel ==
    /\ sync.lost /\ ~sync.cancelled
    /\ sync' = [sync EXCEPT !.cancelled = TRUE]
    /\ UNCHANGED <<queueVars, peerVars, sent, fetcher, headers, content, cycles, chainVars, pivotVars,
                   watchers, history>>

-----------------------------------------------------------------------------
(* processHeaders, fed by fetchHeaders. *)

\* The next n headers.  Those of a fork differ from the locked pivot on, and
\* are new to this node.
Chunk(n) == headers.origin .. headers.origin + n - 1
Reaches(n) == mode = "fast" /\ pivotLock # NoLock /\ pivot \in Chunk(n)
OnFork(b, chain) == chain = "fork" /\ b >= pivot

\* If the chunk has the pivot in it, that must be the one locked in.
LockHolds(n, chain) == Reaches(n) => chain = pivotLock.chain

\* Those of them a fast synchronisation inserts: InsertHeaderChain skips the
\* headers it has, those that were rolled back too, which do not become the
\* current header again; others do if they are higher.
New(n, chain) == {b \in Chunk(n) : mode = "fast" /\ (b > known \/ OnFork(b, chain))}
Inserted(n, chain) == Max({headerHead} \union New(n, chain))
KnownWith(n, chain) == Max({known} \union {b \in New(n, chain) : ~OnFork(b, chain)})

\* The newest of the uncertain headers: only so many are kept.
Netted(bs) == {b \in bs : Cardinality({x \in bs : x > b}) < SafetyNet}

\* There are fewer than maxQueuedHeaders tasks of each kind.
Room == \A kind \in Kinds : Cardinality(tasks[kind].taskQueue) < MaxQueued

\* processHeaders returns, the last n headers inserted: on an error those that
\* are not certain are rolled back, and past the pivot the first such failure
\* locks the pivot.  Blocks are never of a fork.
LeaveHeaders(at, n, chain, uncertain) ==
    LET back == IF at = "done" THEN {} ELSE uncertain
        blocks == {b \in back : ~OnFork(b, chain)}
        current == Inserted(n, chain)
        forked == chain = "fork" /\ current > headerHead
        Rolled(h, bs) == IF h \in bs THEN Min(bs) - 1 ELSE h
    IN  /\ headers' = [headers EXCEPT !.at = at, !.rollback = {}]
        /\ head' = Rolled(head, blocks)
        /\ fastHead' = Rolled(fastHead, blocks)
        /\ headerHead' = Rolled(current, IF forked THEN back ELSE blocks)
        /\ known' = KnownWith(n, chain)
        /\ pivotLock' = IF pivot \in back /\ Max(back) > pivot /\ pivotFails = 0
                        THEN [number |-> pivot, chain |-> chain] ELSE pivotLock
        /\ UNCHANGED <<resultCache, resultOffset, closed, mode, pivot, peerVars, sent, fetcher, content,
                       sync, cycles, stored, pivotFails, watchers, history>>

\* A chunk of n headers: a fast synchronisation inserts them into the header
\* chain, where the new ones are uncertain; Schedule puts them up, unless they
\* contradict the lock.
ProcessHeaders(n, chain) ==
    /\ headers.at = "run" /\ ~sync.cancelled /\ headers.origin + n - 1 <= Height
    /\ n >= LeastChunk \/ headers.origin + n - 1 = Height
    /\ chain = "fork" => Reaches(n)
    /\ LET uncertain == Netted(headers.rollback \union New(n, chain)) IN
       IF LockHolds(n, chain)
       THEN /\ Room
            /\ tasks' = Scheduled(Chunk(n))
            /\ headers' = [at |-> "run", origin |-> headers.origin + n, got |-> TRUE,
                           rollback |-> uncertain, chain |-> chain]
            /\ known' = KnownWith(n, chain)
            /\ headerHead' = Inserted(n, chain)
            /\ UNCHANGED <<resultCache, resultOffset, closed, mode, pivot, peerVars, sent, fetcher, content,
                           sync, cycles, head, fastHead, stored, pivotVars, watchers, history>>
       ELSE /\ LeaveHeaders("errInvalidChain", n, chain, uncertain)
            /\ UNCHANGED tasks

\* A chunk that breaks off after n headers.  Full: Schedule stops there.  Fast:
\* nothing is inserted, but the n count as uncertain.
ProcessBroken(n) ==
    /\ headers.at = "run" /\ ~sync.cancelled /\ headers.origin + n <= Height
    /\ IF mode = "fast"
       THEN /\ tasks' = tasks
            /\ LeaveHeaders("errInvalidChain", 0, "main", headers.rollback \union Chunk(n))
       ELSE /\ Room
            /\ tasks' = Scheduled(Chunk(n))
            /\ LeaveHeaders("errBadPeer", 0, "main", headers.rollback)

\* No more headers.  A master that promised more than it gave is stalling; in
\* a full synchronisation anything at all will do.
HeadersEnd ==
    /\ headers.at = "run" /\ ~sync.cancelled
    /\ LET kept == headers.got /\ (mode = "fast" => headerHead >= Height)
       IN  LeaveHeaders(IF kept THEN "done" ELSE "errStallingPeer", 0, "main", headers.rollback)
    /\ UNCHANGED tasks

\* cancelCh is closed, between two chunks or while there is no room for one of
\* n headers that has been inserted.
HeadersCancel(n) ==
    /\ headers.at = "run" /\ sync.cancelled
    /\ headers.origin + n - 1 <= Height
    /\ n > 0 => mode = "fast" /\ ~Room
    /\ LeaveHeaders("errCancel", n, "main", Netted(headers.rollback \union New(n, "main")))
    /\ UNCHANGED tasks

-----------------------------------------------------------------------------
(* fetchParts, for one kind. *)

Goto(kind, at) == [fetcher EXCEPT ![kind].at = at]

\* setIdle for the connections in cs, with n items delivered.
SetIdle(kind, cs, n) ==
    /\ busy' = [busy EXCEPT ![kind] = @ \ cs]
    /\ rated' = [rated EXCEPT ![kind] = IF n > 0 THEN @ \union cs ELSE @ \ cs]

\* A packet: an answer to request m, with the items data.
Receive(kind, m, data) ==
    LET p == PeerOf[m.conn]
        request == tasks[kind].pendPool[p]
        d == Deliver(kind, p, data)
    IN  /\ fetcher[kind].at = "select" /\ ~sync.cancelled /\ m \in sent /\ m.kind = kind
        /\ sent' = sent \ {m}
        /\ IF ConnOf(p) = {} \/ request = NoRequest
           THEN /\ SetIdle(kind, ConnOf(p), 0)
                /\ UNCHANGED <<tasks, resultCache, lacking, fetcher, content, stale>>
           ELSE /\ tasks' = [tasks EXCEPT ![kind] = d.tasks]
                /\ resultCache' = d.cache
                /\ lacking' = [lacking EXCEPT ![request.conn] =
                                  IF data = <<>> THEN @ \union ToSet(request.headers) ELSE @]
                /\ fetcher' = IF d.fault THEN Goto(kind, "errInvalidChain") ELSE fetcher
                /\ SetIdle(kind, IF d.fault \/ d.stale THEN {} ELSE ConnOf(p), d.accepted)
                /\ content' = IF d.accepted > 0 THEN Woken ELSE content
                /\ stale' = (stale \/ d.stale)
        /\ UNCHANGED <<resultOffset, closed, mode, pivot, registered, leaves, joined, headers, sync,
                       cycles, chainVars, pivotVars, watchers, late>>

\* What can come back for a request: the first items of it, or those with
\* something else at the end.
Answers(hs) ==
    {SubSeq(hs, 1, n) : n \in 0 .. Len(hs)} \union {SubSeq(hs, 1, n) \o <<0>> : n \in 0 .. Len(hs) - 1}

\* The update case up to its loop: the requests of the peers ps have timed out.
\* A peer that was asked for more than the least is asked for less from now
\* on, another one is dropped.
Update(kind, ps) ==
    LET q == tasks[kind]
        Small(p) == Len(q.pendPool[p].headers) <= MinFetch
        dropped == {p \in ps : ConnOf(p) # {} /\ Small(p)}
        slowed == UNION {ConnOf(p) : p \in ps \ dropped}
        after == Unregistered([tasks EXCEPT ![kind] = Returned(q, ps)], dropped)
        rest == Remaining(dropped)
        idles == {c \in rest : c \notin busy[kind] \ slowed}
    IN  /\ fetcher[kind].at = "select" /\ ~sync.cancelled /\ ps \subseteq Pending(q)
        /\ registered = {} => ps = {}
        /\ tasks' = after
        /\ registered' = rest
        /\ SetIdle(kind, slowed, 0)
        /\ sync' = [sync EXCEPT !.cancelled = @ \/ sync.master \in dropped]
        /\ fetcher' =
               CASE registered = {} -> Goto(kind, "errNoPeers")
                 [] registered # {} /\ after[kind].taskQueue = {} ->
                       IF ~InFlight(after[kind]) /\ headers.at = "done"
                       THEN Goto(kind, "done") ELSE fetcher
                 [] OTHER -> [fetcher EXCEPT ![kind] =
                       [at |-> "loop", idles |-> idles,
                        hope |-> InFlight(after[kind]) \/ idles # rest]]
        /\ UNCHANGED <<resultCache, resultOffset, closed, mode, pivot, leaves, joined, lacking, sent, headers,
                       content, cycles, chainVars, pivotVars, watchers, history>>

\* One turn of the loop over the idle peers, of those it found before it began.
Assign(kind, c, count) ==
    LET f == fetcher[kind]
        r == Reserve(kind, c, lacking[c], count)
        asks == r.request # NoRequest
    IN  /\ f.at = "loop" /\ c \in f.idles
        /\ ~ShouldThrottle(tasks[kind]) /\ tasks[kind].taskQueue # {}
        /\ count \in Capacity(kind, c)
        /\ tasks' = [tasks EXCEPT ![kind] = r.tasks]
        /\ resultCache' = r.cache
        /\ content' = IF r.progress THEN Woken ELSE content
        /\ busy' = [busy EXCEPT ![kind] = IF asks THEN @ \union {c} ELSE @]
        /\ sent' = IF asks THEN sent \union {[kind |-> kind, conn |-> c, headers |-> r.request.headers]}
                   ELSE sent
        /\ fetcher' = [fetcher EXCEPT ![kind] =
               [@ EXCEPT !.at = IF r.fault THEN "errInvalidChain"
                                ELSE IF asks /\ c \in busy[kind] THEN "panic" ELSE @,
                         !.idles = @ \ {c},
                         !.hope = @ \/ r.progress \/ asks]]
        /\ UNCHANGED <<resultOffset, closed, mode, pivot, registered, leaves, joined, rated, lacking, headers,
                       sync, cycles, chainVars, pivotVars, watchers, history>>

\* The end of the loop, early if throttled or out of tasks.
LoopEnd(kind) ==
    LET f == fetcher[kind]
        throttled == f.idles # {} /\ ShouldThrottle(tasks[kind])
        over == f.idles = {} \/ throttled \/ tasks[kind].taskQueue = {}
        stuck == ~f.hope /\ ~throttled /\ tasks[kind].taskQueue # {}
    IN  /\ f.at = "loop" /\ over
        /\ fetcher' = [fetcher EXCEPT ![kind] = At(IF stuck THEN "errPeersUnavailable" ELSE "select")]
        /\ UNCHANGED <<queueVars, peerVars, sent, headers, content, sync, cycles, chainVars, pivotVars, watchers, history>>

-----------------------------------------------------------------------------
(* processFullSyncContent and processFastSyncContent. *)

\* stateSync.Cancel: a state download that was under way ends with an error,
\* which the goroutine on stateSync.Wait will see.
Cancelled(state) == IF state = "running" THEN "cancelled" ELSE state
WatchersAfter(state) == watchers \union (IF state = "running" THEN {cycles} ELSE {})

\* The state download of the head ends by itself, well or not.
StateEnds(r) ==
    /\ content.state = "running"
    /\ content' = [content EXCEPT !.state = r]
    /\ watchers' = watchers \union (IF r = "failed" THEN {cycles} ELSE {})
    /\ UNCHANGED <<queueVars, peerVars, sent, fetcher, headers, sync, cycles, chainVars, pivotVars, history>>

\* The goroutine on stateSync.Wait closes the queue, of whatever
\* synchronisation it has become.
Watch(k) ==
    /\ k \in watchers
    /\ watchers' = watchers \ {k}
    /\ closed' = TRUE
    /\ content' = Woken
    /\ late' = (late \/ (Running /\ k < cycles))
    /\ UNCHANGED <<tasks, resultCache, resultOffset, mode, pivot, peerVars, sent, fetcher, headers,
                   sync, cycles, chainVars, pivotVars, stale>>

\* WaitResults; a closed queue with nothing to process ends the processor.
WaitResults ==
    LET n == Processable
        ends == n = 0 /\ closed
        result == IF content.state \in {"none", "ok"} THEN "done" ELSE "errState"
    IN  /\ content.at = "check"
        /\ content' = [at |-> IF n > 0 THEN "import" ELSE IF closed THEN result ELSE "wait",
                       batch |-> SubSeq(resultCache, 1, n),
                       state |-> IF ends THEN Cancelled(content.state) ELSE content.state]
        /\ watchers' = IF ends THEN WatchersAfter(content.state) ELSE watchers
        /\ tasks' = TasksAfter(n)
        /\ resultCache' = CacheAfter(n)
        /\ resultOffset' = resultOffset + n
        /\ UNCHANGED <<closed, mode, pivot, peerVars, sent, fetcher, headers, sync, cycles, chainVars,
                       pivotVars, history>>

\* The first n blocks of the batch are imported, then one fails if there are
\* more: blocks before the pivot with their receipts, unless the state
\* download has failed; the pivot with its state; later ones by execution.
Import(n) ==
    LET numbers == {content.batch[i].number : i \in 1..n}
        fast == mode = "fast"
        all == n = Len(content.batch)
        before == fast /\ \E i \in DOMAIN content.batch : content.batch[i].number < pivot
        broken == IF fast /\ content.batch[n + 1].number = pivot THEN "errState" ELSE "errInvalidChain"
        cancels == ~all \/ (fast /\ pivot \in numbers)
    IN  /\ content.at = "import" /\ n \in 0 .. Len(content.batch)
        /\ before /\ content.state = "failed" => n = 0
        /\ stored' = stored \union numbers
        /\ head' = Max({head} \union {b \in numbers : ~fast \/ b >= pivot})
        /\ fastHead' = Max({fastHead} \union {b \in numbers : ~fast \/ b <= pivot})
        /\ content' = [at |-> IF all THEN "check"
                              ELSE IF before /\ content.state = "failed" THEN "errState"
                              ELSE broken,
                       batch |-> <<>>,
                       state |-> IF cancels THEN Cancelled(content.state) ELSE content.state]
        /\ watchers' = IF cancels THEN WatchersAfter(content.state) ELSE watchers
        /\ UNCHANGED <<queueVars, peerVars, sent, fetcher, headers, sync, cycles, known, headerHead, pivotVars,
                       history>>

-----------------------------------------------------------------------------
Init ==
    /\ QueueInit
    /\ leaves = 0 /\ registered = InitialConns /\ joined = InitialConns
    /\ busy = [kind \in Kinds |-> {}] /\ rated = [kind \in Kinds |-> {}]
    /\ lacking = [c \in Conns |-> {}]
    /\ sent = {}
    /\ fetcher = [kind \in Kinds |-> At("done")]
    /\ headers = [at |-> "done", origin |-> 1, got |-> FALSE, rollback |-> {}, chain |-> "main"]
    /\ content = [at |-> "done", batch |-> <<>>, state |-> "none"]
    /\ watchers = {}
    /\ sync = [at |-> "off", err |-> "nil", cancelled |-> FALSE, lost |-> FALSE, master |-> "none"]
    /\ cycles = 0
    /\ head = 0 /\ fastHead = 0 /\ stored = {} /\ known = 0 /\ headerHead = 0
    /\ pivotLock = NoLock /\ pivotFails = 0
    /\ stale = FALSE /\ late = FALSE

Headers ==
    \/ \E n \in 1 .. SafetyNet, chain \in {"main", "fork"} : ProcessHeaders(n, chain)
    \/ \E n \in 0 .. SafetyNet - 1 : ProcessBroken(n)
    \/ HeadersEnd
    \/ \E n \in 0 .. SafetyNet : HeadersCancel(n)
Fetch(kind) ==
    \/ LoopEnd(kind)
    \/ \E c \in Conns : \E count \in MinFetch .. MaxFetch : Assign(kind, c, count)
    \/ \E ps \in SUBSET Pending(tasks[kind]) : Update(kind, ps)
    \/ \E m \in sent : \E data \in Answers(m.headers) : Receive(kind, m, data)
Content ==
    \/ WaitResults
    \/ \E n \in 0 .. CacheLimit : Import(n)
Spawn == CloseQueue \/ Return \/ \E e \in Errors : CollectError(e)
External ==
    \/ \E p \in Masters, v \in IF Pivots = {} THEN {0} ELSE Pivots, ancestor \in 0 .. Height :
           Synchronise(p, v, ancestor)
    \/ \E c \in Conns : RegisterPeer(c)
    \/ \E p \in Peers : UnregisterPeer(p)
    \/ Cancel
    \/ \E r \in {"ok", "failed"} : StateEnds(r)
    \/ \E k \in watchers : Watch(k)

Next == Headers \/ (\E kind \in Kinds : Fetch(kind)) \/ Content \/ Spawn \/ External
Spec == Init /\ [][Next]_vars

\* Goroutines go on, the ticker ticks, and a request that is not answered is
\* found to have timed out at some tick: the select of fetchParts is taken
\* again and again, so a strong fairness for what stays due at it.  Peers owe
\* nothing: no fairness for Receive.
Ticks(kind) == LoopEnd(kind) \/ Update(kind, {})
               \/ \E c \in Conns : \E count \in MinFetch .. MaxFetch : Assign(kind, c, count)
TimesOut(kind) == \E ps \in SUBSET Pending(tasks[kind]) : ps # {} /\ Update(kind, ps)
Fairness ==
    /\ WF_vars(Headers \/ Content \/ Spawn \/ Cancel \/ \E r \in {"ok", "failed"} : StateEnds(r))
    /\ \A kind \in Kinds : WF_vars(Ticks(kind)) /\ SF_vars(TimesOut(kind))
FairSpec == Spec /\ Fairness
-----------------------------------------------------------------------------
(* Properties. *)

\* Types, and no more requests under way than peers.
TypeOK ==
    /\ \A kind \in Kinds :
           /\ tasks[kind].taskPool \union tasks[kind].taskQueue \union tasks[kind].donePool \subseteq Blocks
           /\ \A p \in Peers : tasks[kind].pendPool[p] # NoRequest =>
                  /\ PeerOf[tasks[kind].pendPool[p].conn] = p
                  /\ Len(tasks[kind].pendPool[p].headers) \in 1..MaxFetch
           /\ busy[kind] \union rated[kind] \subseteq Conns
    /\ Len(resultCache) = CacheLimit
    /\ registered \subseteq joined /\ joined \subseteq Conns
    /\ {head, fastHead} \subseteq 0..Height

\* Whatever order peers answer, time out, leave and come back in, a body or
\* receipt that is not there yet is in exactly one place: in the task queue,
\* or in the request of one peer.  The queue's functions move it with no check.
Asked(q, p) == ToSet(q.pendPool[p].headers)
TaskOnce ==
    Running => \A kind \in Kinds :
        LET q == tasks[kind]
        IN  /\ q.taskPool = q.taskQueue \union UNION {Asked(q, p) : p \in Peers}
            /\ \A p \in Peers : Asked(q, p) \intersect (q.taskQueue \union q.donePool) = {}
            /\ \A p1, p2 \in Peers : p1 # p2 => Asked(q, p1) \intersect Asked(q, p2) = {}
            /\ q.taskQueue \intersect q.donePool = {}

\* No reservation goes beyond the result cache and no delivery misses it, and
\* no connection is asked while it is fetching: what reserveHeaders reports,
\* deliver calls errInvalidChain and fetchParts panics on does not happen.
NeverCorrupt == \A kind \in Kinds : fetcher[kind].at \notin {"errInvalidChain", "panic"}

\* A result waits for exactly the parts that are neither empty nor delivered,
\* and those it has are the ones in the done pools: results are counted in
\* two functions and the pools cleared in a third.
ResultsExact ==
    /\ \A i \in 1..CacheLimit : resultCache[i] # NoResult =>
           LET r == resultCache[i]
           IN  /\ Index(r.number) = i
               /\ r.pending = Cardinality(Components(r.number) \ r.parts)
               /\ \A kind \in Kinds : kind \in r.parts <=> r.number \in tasks[kind].donePool
    /\ \A kind \in Kinds, b \in Blocks : b \in tasks[kind].donePool =>
           Index(b) \in 1..CacheLimit /\ resultCache[Index(b)].number = b

\* What the content processor gets is complete and has no gap: every block
\* comes with all its parts, right after a block that is imported or before
\* it in the same batch.
InOrder ==
    content.at = "import" =>
        \A i \in DOMAIN content.batch :
            LET r == content.batch[i]
            IN  /\ r.parts = Components(r.number)
                /\ r.number - 1 \in {0} \union stored \union (IF i = 1 THEN {} ELSE {content.batch[i - 1].number})

\* The four together, with the types: the accounts the queue keeps of tasks,
\* requests and results agree, so that what it hands on is complete and in order.
QueueExact == TypeOK /\ TaskOnce /\ NeverCorrupt /\ ResultsExact /\ InOrder

\* A synchronisation that returns nil has imported every block whose header
\* it took and made the last one the current block, unless a goroutine of an
\* earlier one has closed its queue.  A fast one takes all the headers for it:
\* for what happens if it does not see PromiseChecked.
SuccessImports ==
    ~Running /\ cycles > 0 /\ sync.err = "nil" /\ ~late /\ (mode = "fast" => headers.origin > Height) =>
        1 .. headers.origin - 1 \subseteq stored /\ head >= headers.origin - 1

\* "lock in the pivot header (must! not! change!)": once a failure past the
\* pivot has locked it, every later fast synchronisation has this pivot, takes
\* no other header for it, and the lock is never set again.
PivotLocked ==
    pivotLock # NoLock =>
        /\ pivotLock.chain = "main"
        /\ Running /\ mode = "fast" =>
               pivot = pivotLock.number /\ (headers.origin > pivot => headers.chain = pivotLock.chain)

\* The pivot is only handed on, to become the current block without being
\* executed, when headers past it, as many as fsHeaderForceVerify, are checked.
PivotVerified ==
    mode = "fast" /\ (\E i \in DOMAIN content.batch : content.batch[i].number = pivot) =>
        headers.origin > pivot + ForceVerify

\* What synchronisations in a row, full or fast, hand on, import and keep.
FastExact == ResultsExact /\ InOrder /\ SuccessImports /\ PivotLocked /\ PivotVerified

\* Every synchronisation ends, with the peers it has and whatever they do,
\* unless a stale delivery has left a peer marked as fetching for good, or the
\* queue was closed under it.
Terminates == Running ~> (~Running \/ stale \/ late)

\* processHeaders: "If fast or light syncing, ensure promised headers are
\* indeed delivered."  Its last step is an error exactly if some were not.  It
\* does not hold: processHeaders compares the number promised with
\* CurrentHeader, which headers of an earlier synchronisation may have raised,
\* and rolled back headers do not raise again.
PromiseChecked ==
    Running /\ mode = "fast" =>
        /\ headers.at = "done" => headers.origin > Height
        /\ headers.at = "errStallingPeer" => headers.origin <= Height
=============================================================================
