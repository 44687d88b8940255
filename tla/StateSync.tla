------------------------------ MODULE StateSync ------------------------------
(***************************************************************************)
(* The download of a state trie: trie.TrieSync, which knows what is        *)
(* missing, the stateSync loop, which asks peers for it, and the           *)
(* stateFetcher, which tracks the requests and switches between syncs.     *)
(*                                                                         *)
(* A trie node, storage trie or code is its hash; Kids are the nodes it    *)
(* refers to by hash and Leaves what the accounts below it refer to.  A    *)
(* blob that hashes to a node decodes as that node.  The order in which    *)
(* the priority queue gives out hashes is left open.                       *)
(***************************************************************************)
EXTENDS Naturals, Sequences, FiniteSets, SequencesExt, FiniteSetsExt, TLC

CONSTANTS Hashes, Kids, Leaves,
          SyncRoots,          \* the roots that are asked for, in turn
          Conns, PeerId,      \* connections of peers; a peer may come back with a new one
          FirstConns,         \* connected at the start
          Capacities,         \* what NodeDataCapacity may allow
          FewItems,           \* a request this small that times out drops the peer (2)
          FlushAt,            \* entries that make a batch (IdealBatchSize)
          MaxTimeouts         \* bound on requests that time out

VARIABLES stateDB,   \* persisted hashes
          trieSync,  \* requests, queue and membatch of the current scheduler
          syncLoop,  \* the current stateSync: where its loop is, its tasks
          flight,    \* runStateSync: active and finished requests
          conns,     \* registered and idle connections, requests on the wire
          roots      \* roots still to be asked for

stateSyncVars == <<stateDB, trieSync, syncLoop, flight, conns, roots>>

NoEntries == [h \in {} |-> h]
Without(f, ks) == [k \in DOMAIN f \ ks |-> f[k]]

-----------------------------------------------------------------------------
(* trie.TrieSync *)

newSyncMemBatch == {}
Known(ts, h) == h \in ts.batch \union stateDB

schedule(ts, h, parents) ==
    IF h \in DOMAIN ts.requests
    THEN [ts EXCEPT !.requests[h].parents = @ \o parents]
    ELSE [ts EXCEPT !.requests = (h :> [data |-> FALSE, parents |-> parents, deps |-> 0]) @@ @,
                    !.queue = @ \union {h}]

\* AddSubTrie and AddRawEntry for a node with a parent.
AddEntry(ts, h, parent) ==
    IF Known(ts, h) THEN ts ELSE schedule([ts EXCEPT !.requests[parent].deps = @ + 1], h, <<parent>>)

NewTrieSync(root) ==
    LET empty == [requests |-> NoEntries, queue |-> {}, batch |-> newSyncMemBatch]
    IN  IF Known(empty, root) THEN empty ELSE schedule(empty, root, <<>>)

RECURSIVE commit(_, _)
commit(ts, h) ==
    LET done == [ts EXCEPT !.batch = @ \union {h}, !.requests = Without(@, {h})]
        Tell(p, t) == LET less == [t EXCEPT !.requests[p].deps = @ - 1]
                      IN  IF less.requests[p].deps = 0 THEN commit(less, p) ELSE less
    IN  FoldSeq(Tell, done, ts.requests[h].parents)

\* What children returns, once the callback has asked for the leaves.
children(ts, h) == {k \in Kids[h] : ~Known(ts, k)}

Process(ts, h) ==
    IF h \notin DOMAIN ts.requests \/ ts.requests[h].data THEN ts
    ELSE LET read == [ts EXCEPT !.requests[h].data = TRUE]
             called == FoldSet(LAMBDA l, t : AddEntry(t, l, h), read, Leaves[h])
             new == children(called, h)
             linked == [called EXCEPT !.requests[h].deps = @ + Cardinality(new)]
         IN  IF linked.requests[h].deps = 0 THEN commit(linked, h)
             ELSE FoldSet(LAMBDA k, t : schedule(t, k, <<h>>), linked, new)

Requested(ts, h) == h \in DOMAIN ts.requests /\ ~ts.requests[h].data
Pending(ts) == Cardinality(DOMAIN ts.requests)

-----------------------------------------------------------------------------
(* The peer set. *)

Connected(id) == {c \in conns.registered : PeerId[c] = id}
SetNodeDataIdle(cs, gone) == [cs EXCEPT !.idle = @ \union gone]

\* Unregister, with its peerDropFeed.
Unregister(cs, gone) == [cs EXCEPT !.registered = @ \ gone, !.idle = @ \ gone, !.drops = @ \union gone,
                                   !.wire = [c \in Conns |-> IF c \in gone THEN <<>> ELSE @[c]]]

Register(c) ==
    /\ c \notin conns.gone /\ Connected(PeerId[c]) = {}
    /\ conns' = [conns EXCEPT !.registered = @ \union {c}, !.idle = @ \union {c}, !.gone = @ \union {c}]
    /\ syncLoop' = [syncLoop EXCEPT !.newPeer = @ \/ syncLoop.at \notin {"none", "done"}]
    /\ UNCHANGED <<stateDB, trieSync, flight, roots>>

Disconnect(c) ==
    /\ c \in conns.registered
    /\ \E d \in Conns \ conns.gone : PeerId[d] = PeerId[c]
    /\ conns' = Unregister(conns, {c})
    /\ UNCHANGED <<stateDB, trieSync, syncLoop, flight, roots>>

-----------------------------------------------------------------------------
(* stateSync.loop *)

newStateSync(root) == [root |-> root, at |-> "top", todo |-> {}, tasks |-> NoEntries, uncommitted |-> 0,
                       cancel |-> FALSE, newPeer |-> FALSE, err |-> "none"]
NoSync == [newStateSync("none") EXCEPT !.at = "none"]

Ends(err) == syncLoop' = [syncLoop EXCEPT !.at = "done", !.err = err, !.tasks = NoEntries, !.newPeer = FALSE]

\* commit: the batch is written as a whole, or the sync ends.  The membatch is dropped either way.
Flush(force) ==
    LET flush == force \/ syncLoop.uncommitted >= FlushAt
    IN  \E failed \in {FALSE} \union {flush} :
           /\ stateDB' = IF flush /\ ~failed THEN stateDB \union trieSync.batch ELSE stateDB
           /\ trieSync' = IF flush THEN [trieSync EXCEPT !.batch = newSyncMemBatch] ELSE trieSync
           /\ IF failed THEN Ends("write") ELSE IF force THEN Ends("nil")
              ELSE syncLoop' = [syncLoop EXCEPT !.at = "assign", !.todo = conns.idle,
                                                !.uncommitted = IF flush THEN 0 ELSE @]

LoopTop ==
    /\ syncLoop.at = "top"
    /\ Flush(Pending(trieSync) = 0)
    /\ UNCHANGED <<flight, conns, roots>>

\* The refilled task list of fillTasks: Missing gives as many hashes as are short.
Refilled(n) ==
    LET short == n - Cardinality(DOMAIN syncLoop.tasks)
        count == IF short > Cardinality(trieSync.queue) THEN Cardinality(trieSync.queue) ELSE short
    IN  IF short <= 0 THEN {{}} ELSE kSubset(count, trieSync.queue)

\* Tasks of the list that fit into a request to this peer.
Chosen(tasks, n, id) ==
    LET fresh == {h \in DOMAIN tasks : id \notin tasks[h]}
    IN  kSubset(IF n > Cardinality(fresh) THEN Cardinality(fresh) ELSE n, fresh)

\* trackStateReq in runStateSync: an older request of the peer is given up.
Tracked(req) ==
    [flight EXCEPT !.finished = @ \o [i \in 1..Len(flight.active[req.id]) |-> [flight.active[req.id][i] EXCEPT !.dropped = TRUE]],
                   !.active[req.id] = <<req>>]

\* assignTasks and fillTasks for one idle peer; it is tracked before it is sent.
AssignTo(c, n) ==
    /\ syncLoop.at = "assign" /\ c \in syncLoop.todo
    /\ \E new \in Refilled(n) :
       LET all == [h \in new |-> {}] @@ syncLoop.tasks
       IN  \E items \in Chosen(all, n, PeerId[c]) :
           LET req == [id |-> PeerId[c], conn |-> c, count |-> Cardinality(items), got |-> {}, dropped |-> FALSE,
                       tasks |-> [h \in items |-> all[h] \union {PeerId[c]}]]
               sent == items # {} /\ flight.at = "run"
           IN  /\ sent \/ items = {} \/ syncLoop.cancel
               /\ trieSync' = [trieSync EXCEPT !.queue = @ \ new]
               /\ syncLoop' = [syncLoop EXCEPT !.todo = @ \ {c}, !.tasks = Without(all, items)]
               /\ flight' = IF sent THEN Tracked(req) ELSE flight
               /\ conns' = IF sent /\ c \in conns.registered
                           THEN [conns EXCEPT !.idle = @ \ {c}, !.wire[c] = Append(@, items)] ELSE conns
    /\ UNCHANGED <<stateDB, roots>>

Assigned ==
    /\ syncLoop.at = "assign" /\ syncLoop.todo = {}
    /\ syncLoop' = [syncLoop EXCEPT !.at = "select"]
    /\ UNCHANGED <<stateDB, trieSync, flight, conns, roots>>

NewPeer ==
    /\ syncLoop.at = "select" /\ syncLoop.newPeer
    /\ syncLoop' = [syncLoop EXCEPT !.at = "top", !.newPeer = FALSE]
    /\ UNCHANGED <<stateDB, trieSync, flight, conns, roots>>

Cancelled ==
    /\ syncLoop.at = "select" /\ syncLoop.cancel
    /\ Ends("cancel")
    /\ UNCHANGED <<stateDB, trieSync, flight, conns, roots>>

\* An empty reply is decoded as nil, which is also what a time-out leaves.
timedOut(req) == req.got = {}
stale(req) == req.got # {} /\ req.got \intersect DOMAIN req.tasks = {}

\* A retry that takes back only what a delivery left over.
RetriedPartly(req) == IF timedOut(req) THEN NoEntries ELSE
    [h \in DOMAIN req.tasks \ req.got |-> req.tasks[h] \ {req.id}]

\* The tasks of a request that go back to the list, without this peer's attempt.
Retried(req) ==
    [h \in DOMAIN req.tasks \ req.got |->
        IF req.got # {} \/ timedOut(req) THEN req.tasks[h] \ {req.id} ELSE req.tasks[h]]

\* The next finished request: process, and the peer is idle unless the delivery was stale.
Receive ==
    /\ syncLoop.at = "select" /\ flight.at = "run" /\ flight.finished # <<>>
    /\ LET req == Head(flight.finished)
           drop == req.count <= FewItems /\ ~req.dropped /\ timedOut(req)
           left == IF drop THEN Unregister(conns, Connected(req.id)) ELSE conns
           back == Retried(req)
           npeers == Cardinality(left.registered)
           useful == {h \in req.got : Requested(trieSync, h)}
           failed == \E h \in DOMAIN back : Cardinality(back[h]) >= npeers
       IN  /\ flight' = [flight EXCEPT !.finished = Tail(@)]
           /\ trieSync' = FoldSet(LAMBDA h, t : Process(t, h), trieSync, req.got)
           /\ IF failed THEN Ends("peers")
              ELSE syncLoop' = [syncLoop EXCEPT !.at = "top", !.tasks = back @@ @,
                                                !.uncommitted = @ + Cardinality(useful)]
           /\ conns' = IF failed \/ stale(req) \/ req.conn \notin left.registered THEN left
                       ELSE SetNodeDataIdle(left, {req.conn})
    /\ UNCHANGED <<stateDB, roots>>

-----------------------------------------------------------------------------
(* stateFetcher and runStateSync *)

NoFlight == [at |-> "idle", active |-> [id \in {PeerId[c] : c \in Conns} |-> <<>>], finished |-> <<>>]

\* A request that is over: it waits for the loop.
Finish(id, req) == [flight EXCEPT !.active[id] = <<>>, !.finished = Append(@, req)]

\* syncState, called once the sync before it is done: taken by the idle fetcher,
\* or by runStateSync if that has not noticed yet, which then winds up.
SyncState ==
    /\ roots # <<>> /\ flight.at \in {"idle", "run"} /\ syncLoop.at \in {"none", "done"}
    /\ roots' = Tail(roots)
    /\ IF flight.at = "run"
       THEN /\ flight' = [flight EXCEPT !.at = "next"]
            /\ UNCHANGED <<syncLoop, trieSync>>
       ELSE /\ flight' = [NoFlight EXCEPT !.at = "run"]
            /\ syncLoop' = newStateSync(Head(roots))
            /\ trieSync' = NewTrieSync(Head(roots))
    /\ conns' = [conns EXCEPT !.drops = IF flight.at = "run" THEN @ ELSE {}]
    /\ UNCHANGED stateDB

\* The deferred calls, once the loop is done; then the sync that was asked for.
Wind ==
    LET busy == {c \in conns.registered : \E i \in DOMAIN flight.active[PeerId[c]] : flight.active[PeerId[c]][i].conn = c}
        next == SyncRoots[Len(SyncRoots) - Len(roots)]
    IN  /\ flight.at \in {"run", "next"} /\ syncLoop.at = "done"
        /\ conns' = [SetNodeDataIdle(conns, busy) EXCEPT !.drops = {}]
        /\ flight' = [NoFlight EXCEPT !.at = IF flight.at = "next" THEN "run" ELSE "idle"]
        /\ syncLoop' = IF flight.at = "next" THEN newStateSync(next) ELSE syncLoop
        /\ trieSync' = IF flight.at = "next" THEN NewTrieSync(next) ELSE trieSync
        /\ UNCHANGED <<stateDB, roots>>

\* A reply: an answer to the oldest request the peer has not answered.
StatePack(c, got) ==
    LET id == PeerId[c]
    IN  /\ conns.wire[c] # <<>> /\ got \subseteq Head(conns.wire[c]) /\ flight.at \in {"idle", "run"}
        /\ conns' = [conns EXCEPT !.wire[c] = Tail(@)]
        /\ flight' = IF flight.at = "idle" \/ flight.active[id] = <<>> THEN flight
                     ELSE Finish(id, [flight.active[id][1] EXCEPT !.got = got])
        /\ UNCHANGED <<stateDB, trieSync, syncLoop, roots>>

PeerDrop(c) ==
    LET id == PeerId[c]
    IN  /\ flight.at = "run" /\ c \in conns.drops
        /\ conns' = [conns EXCEPT !.drops = @ \ {c}]
        /\ flight' = IF flight.active[id] = <<>> THEN flight
                     ELSE Finish(id, [flight.active[id][1] EXCEPT !.dropped = TRUE])
        /\ UNCHANGED <<stateDB, trieSync, syncLoop, roots>>

Timeout(id) ==
    /\ flight.at = "run" /\ flight.active[id] # <<>> /\ conns.timeouts < MaxTimeouts
    /\ flight' = Finish(id, flight.active[id][1])
    /\ conns' = [conns EXCEPT !.timeouts = @ + 1]
    /\ UNCHANGED <<stateDB, trieSync, syncLoop, roots>>

\* stateSync.Cancel, called by processFastSyncContent.
CancelSync ==
    /\ syncLoop.at \notin {"none", "done"} /\ ~syncLoop.cancel /\ roots # <<>>
    /\ syncLoop' = [syncLoop EXCEPT !.cancel = TRUE]
    /\ UNCHANGED <<stateDB, trieSync, flight, conns, roots>>

-----------------------------------------------------------------------------
StateSyncInit ==
    /\ stateDB = {} /\ trieSync = [requests |-> NoEntries, queue |-> {}, batch |-> {}]
    /\ syncLoop = NoSync /\ flight = NoFlight /\ roots = SyncRoots
    /\ conns = [registered |-> FirstConns, idle |-> FirstConns, gone |-> FirstConns, drops |-> {},
                timeouts |-> 0, wire |-> [c \in Conns |-> <<>>]]

StateSyncNext ==
    \/ LoopTop \/ Assigned \/ NewPeer \/ Cancelled \/ Receive \/ SyncState \/ Wind \/ CancelSync
    \/ \E c \in Conns : Register(c) \/ Disconnect(c) \/ PeerDrop(c)
                        \/ (\E n \in Capacities : AssignTo(c, n)) \/ (\E got \in SUBSET Hashes : StatePack(c, got))
    \/ \E id \in {PeerId[c] : c \in Conns} : Timeout(id)

StateSyncSpec == StateSyncInit /\ [][StateSyncNext]_stateSyncVars

-----------------------------------------------------------------------------
InFlightReqs == {flight.active[id][1] : id \in {i \in DOMAIN flight.active : flight.active[i] # <<>>}}
                \union ToSet(flight.finished)
Working == syncLoop.at \in {"top", "assign", "select"} /\ flight.at = "run" /\ ~syncLoop.cancel

RECURSIVE Below(_)
Below(h) == {h} \union UNION {Below(k) : k \in Kids[h] \union Leaves[h]}

\* The database never holds a node without everything below it (TrieSync takes
\* a node it finds there for a complete subtrie), a sync that ends without an
\* error has stored its whole state, and while a sync runs no missing node is
\* forgotten: it is queued, listed, part of a request or waits for nodes below.
StateComplete ==
    /\ \A h \in stateDB : Below(h) \subseteq stateDB
    /\ syncLoop.at = "done" /\ syncLoop.err = "nil" => Below(syncLoop.root) \subseteq stateDB
    /\ Working => \A h \in DOMAIN trieSync.requests :
          IF trieSync.requests[h].data THEN trieSync.requests[h].deps > 0
          ELSE \/ h \in trieSync.queue \/ h \in DOMAIN syncLoop.tasks
               \/ \E r \in InFlightReqs : h \in DOMAIN r.tasks

\* process lets a peer retry what it has not delivered "to avoid single-peer
\* stalls": a sync that waits with work left and nothing in flight has a peer
\* it may ask.  It does not hold: runStateSync frees only the peers of the
\* active requests, and those of requests finished but not delivered stay busy
\* for the next sync.
PeersRetried ==
    Working /\ syncLoop.at = "select" /\ conns.registered # {} /\ ~syncLoop.newPeer
        /\ InFlightReqs = {} => conns.idle # {}
=============================================================================
