# A TLA+ model of mjoy-go

mjoy-go is a blockchain node in Go, derived from go-ethereum. Its code is in
`src/mjoy-go-master/src/mjoy.io/`; paths below are relative to that directory.
The modules of this directory model the parts of the node whose correctness
rests on orders of events: which lock is held, which database write came before
a crash, which message was late. `PROJECT.json` maps every definition to the
lines it models, lists the runs, the theorems, the hazards of the code and the
places where the code and its own comments or tests disagree.

## The system

```
   RPC/API ----------> Blockproducer --work--> CpuAgent --block--> wait
      |                 ^        ^                                  |
      | transactions    | head   | StartEvent, DoneEvent            | WriteBlockAndState
      v                 | events |                                  v
   TxPool <----------- BlockChain <---InsertChain--- Downloader, Fetcher
   (lists, heap,        (database, heads, number        ^
    journal)             index, positions)              | ProtocolManager, p2p.Server, discovery
```

| Part | State | Operations | What makes it hard |
|---|---|---|---|
| Transaction pool (`core/txprocessor`) | pending and queued lists per account, index, priority heap, managed nonces, local accounts | add batches, reset on a new head, eviction, SetPriority, Pending | several structures updated in turn on every path; limits that drop transactions; executed nonces under reorganisations; a reset that fails |
| Transaction journal (`tx_journal.go`) | a file and its writer | insert, load, rotate, close | crashes and errors between closing, renaming and reopening |
| Canonical chain (`core/blockchain`) | headers, bodies, states, number index, transaction positions, three heads, each on disk and in memory | InsertChain, WriteBlockAndState, reorg, SetHead, start-up, fast sync | non-atomic database writes, crashes, failing batches, an importer and a producer, events posted outside the locks |
| Block producer (`blockproducer`) | three atomic flags, producer.mu, the agent's flag and channels | Start, Stop, commitNewWork, the sync, update and wait loops | some ten goroutines, blocking sends under a lock, starts and stops that overtake each other |
| State database (`core/state`) | state objects, dirty sets, journal | snapshot, revert, commit | reverts of nested snapshots |
| Block execution (`core/stateprocessor`, `core/interpreter`, `core/sdk`) | state, receipts, status cache | Process, ApplyTransaction, TransitionDb | a failed transaction must leave nothing but its receipt |
| Trie (`trie`) | nodes, cache | Update, Delete, Commit, sync schedule | recursive structure; download with missing and duplicate nodes |
| Chain indexer, bloom bits (`core/chainindexer`, `utils/bloom`) | sections | newHead, processSection, match | reorganisations during processing, pipelines of goroutines |
| Downloader (`node/services/mjoy/downloader`) | task queues, reservations, results | Synchronise, reserve, deliver, expire, import | time-outs racing late answers, cancellation, order of results |
| Fetcher (`node/services/mjoy/fetcher`) | announcements, fetches, import queue, per-peer counters | Notify, Enqueue, Filter, timers | counters that must match the maps, time-outs, duplicated announcements |
| Protocol manager (`node/services/mjoy`) | peers, sync loop | handle, synchronise, broadcast, Stop | peers that register while the node stops |
| Filters (`node/services/mjoy/filters`) | subscriptions, polled filters | install, uninstall, event loop | uninstall racing the event loop, expiry |
| Events (`utils/event`) | subscriber cases | Send, Subscribe, Unsubscribe | an unsubscribe during a blocking send |
| P2P server, discovery (`communication/p2p`) | peers, tasks, buckets, pending replies | dial, accept, checkpoints, ping, findnode | two checkpoints per connection, expiring replies |
| RPC (`communication/rpc`) | pending requests, subscriptions | call, dispatch, notify | responses racing cancellation |
| Node (`node`) | services, server, endpoints | Start, Stop, Restart | failures half way through start-up |
| Accounts (`accounts`) | unlocked keys, cache | Unlock, TimedUnlock, Sign | expiry racing re-unlocking |

What each part must guarantee is the list of properties of the runs below. The
node and its accounts, the consensus engine, the genesis block and topic
discovery are not modelled; the last section says why.

## The modules

Conventions. An operation under a lock that makes several state changes whose
order matters is split into the functions it calls, and a variable (`stage`,
`todo`, `phase`, `pc`) says which comes next; other threads interleave only where
the code lets them. A definition whose comment starts with "(Fault: ...)" is a
mutated form of the definition that follows it: no specification uses it; it
stands for a plausible mistake that the property named with it in
`PROJECT.json` detects. Bounds are CONSTANTS with a comment.

### TxPool, TxPoolProofs: the transaction pool

The per-account lists are two sets of transactions, `pending` and `queue`; a
transaction is a name with a sender, a nonce and a priority. `all` is the index,
`pendingNonce` the managed state. An operation is the sequence of `AddTxs`, the
outcome of `add` for each transaction (`AddRejected`, `AddDiscard`,
`AddReplacePending`, `AddEnqueue`), `RemoveTx`, `PromoteExecutables` and
`DemoteUnexecutables` that the code makes while it holds pool.mu. `Reset` takes
any head of `HeadNonces`, forwards or backwards, with any subset of the dropped
transactions reinjected; `ResetFails` is the early return when the state cannot
be opened. Map iteration orders are nondeterministic choices. The heap is what it
decides, a cheapest remote transaction; `TxPriorityList` models the heap itself.
Balances are not modelled: the code's pool does not check them (there is no cost
filter in this fork's `txList`).

Proved (`TxPoolProofs`), for all accounts, transactions, priorities, limits and
batch sizes: `PoolSound`, which joins `TypeOK`, `OneTxPerNonce`, `QueueIndexed`
and `NoStaleTx`, and `SlotsFair`, which joins `PendingLimited` and the action
properties `SlotsGuaranteed` and `LocalsKept`. `NoStaleTx` is not inductive, since `add` accepts
executed nonces; the invariant `IndInv` adds that outside a reset what is stale
is queued in an account that `promoteExecutables` has still to look at
(`StaleOnlyIfDirty`), and that an operation ends only with no such account left
(`StageOK`). `OneTxPerNonce` is needed for `QueueIndexed` (a promotion never
replaces anything, because the slot is free). `PendingLimited` speaks of the
pool at rest; the invariant behind it is `Limited`, the same at any time: only
`promoteExecutables` makes `pending` grow, and `LimitedPromote` shows that it
ends within the limit. A list that is cut keeps at most `n` transactions because
the number of lower nonces is an injection into `0 .. n - 1`, and at least `n`
because those below the first one cut stay; cardinalities of sets of transactions
are numbers because `TxAssumption` says that `Txs` is finite.

### Equalise: the nested loops that shrink pending lists

`promoteExecutables` shrinks the longest lists in rounds, popping accounts from a
heap. `TxPool` has the result in closed form (`EqualLength`); `Equalise` has the
loops as recursive operators, and the pool's run evaluates them for all lengths of
four lists, one of them local, and all orders of equally long ones.

### TxPriorityList: the priority heap

The heap is a bag of transactions (`items`) with a counter of stale entries.
Transactions leave the index without leaving the heap, are put again while an
old entry is still there, and the heap is rebuilt when a quarter seems stale. The
proofs are for any transactions and priorities; their invariant accounts for the
entries a loop has popped (`PoppedOK`, `PopsInOrder`).

### TxPoolJournal, TxPoolProofs: the pool with its journal, crashes and restarts

Extends `TxPool`; `JournalTx` is added where `add` calls `journalTx`, `Rotated`
has every failure of `rotate`, `Crash` may come between any two steps, `Restart`
at any head. The file is a set: `load` adds in file order, but rotation writes
accounts in map order.

`JournalKept` proves `JournalKeeps`, an invariant and an action property, for any
pool and any failures. The invariant `JInv` adds to the pool's own (`IndInv`,
which survives the steps of the journal too) that whoever is journaled is local,
so that no rotation leaves it out (`JournaledLocal`), that a process that is down
has nothing in memory (`DownEmpty`), and what holds while the journal is loaded
(`LoadSafe`): everything in the pool comes from the file and is local, so that no
limit drops it, and each transaction that `load` has dealt with is in the pool,
executed or outdone, also when later ones of the file replace it.

### BlockChain: the canonical chain

The disk is `headers`, `bodies`, `states`, the number index `canon`, the
transaction positions `lookup` and the three persisted head hashes; memory is the
three heads. A thread that holds bc.mu has a script `todo` of database writes
(`Op` records) computed where the code computes them: `WriteOps` for
WriteBlockAndState with `ReorgOps`, `UnwindOps` for SetHead, `LoadHeads` for
start-up. Every write is one step, a batch is one step, and `Crash` may come
between any two. The importer verifies a batch block by block without bc.mu and
takes it for each write; the producer seals a block on the head it saw and writes
it later. `announced` is the last head event. Blocks, their parents, numbers and
transactions are constants: the tree has branches of length two and three, a
block sealed locally on one of them, and transactions shared by the branches; the
runs that show divergences use a larger one with an invalid block. The passing
run allows a crash, a rewind and a failing batch, in any order; what holds only
as long as none of them happened says so.

### BlockProducer: starting, stopping and the work cycle

`pc` has a label per goroutine; every atomic, lock acquisition and channel
operation is a step. Works are fresh (built on the head) or stale, which decides
whether the sealed block becomes the head. Fairness: the liveness runs assume
`WF_vars(Internal)`, that the Go scheduler does not idle while some goroutine can
run; nothing forces an API call, an imported block or a downloader event.

`ProducerOneLoop` proves `OneLoop` for any number of Start goroutines and any
bounds. It speaks of states in which producer.mu is free; the invariant adds who
holds it (`MutexOK`), that the holder may owe a stop token (`Owed`, `LoopsOK`)
and how the agent's flag relates to the producer's meanwhile (`FlagOK`).

### DownloadQueue, Downloader: synchronisation with a peer

`DownloadQueue` is `queue.go`. A block is its number; a header and its task too.
Per kind (`body`, `receipt`) `tasks` has the task pool, the task queue, the
pending pool (a request per peer) and the done pool; `resultCache` is the window
of results that starts at `resultOffset`. `Reserve`, `Deliver`, `Returned` (for
Revoke, expire and cancel), `Processable` and `CacheAfter` are the functions of
the queue; a request keeps the connection it was made on, since the code compares
peers by name and connections by pointer.

`Downloader` has the goroutines of one synchronisation after another: `Synchronise`
starts them, `Headers` is processHeaders, `Fetch` is fetchParts for each kind (one
`Receive` per packet, an `Update` per tick, one `Assign` per turn of its loop over
the idle peers, since peers leave between turns), `Content` the two content
processors, `CollectError`, `CloseQueue` and `Return` are spawnSync, and `Watch`
is the goroutine of processFastSyncContent that waits for its state download. A request
that was sent may be answered at any later time, in a later synchronisation or
after its connection ended too, with any first part of what was asked, with
something else at the end, or never.

Abstractions. fetchHeight, findAncestor and fetchHeaders are their outcomes: any
common ancestor, then chunks of headers, one that breaks off, or the end. Packets
are taken from the network when the fetcher takes them, as the channels in
between only delay. A goroutine that finds cancelCh closed returns at once: what
another ready case would have done could have been done before. The smallest
request is scaled from two items to one (`MinFetch`), the critical section
after the pivot from its constant to `ForceVerify`, and the heights are below
fsHeaderSafetyNet, so that a rollback is never cut by it. Receipts and states have no
content.

Bounds. The part of `p2p_suite` has three blocks, one without transactions, and a cache for
two, so that reservations wait for the window to move; two peers, one with a
second connection. `download_fast` has three blocks with the pivot in the middle
and its successor as the critical section, one peer, and two synchronisations,
so that locks, rollbacks, answers and waiting goroutines of the first reach the
second. `download_ends` has two blocks, two peers, the second of which
joins at any time or never, and one that leaves.

Fairness (`FairSpec`). Goroutines that can step do, as one weak fairness
condition; the ticker of each fetchParts fires (weak fairness of its update); a
request that is not answered times out (strong fairness, because the request is
under way only between ticks). Nothing is assumed of the peers.

Two variables mark exceptions that the code really has: `stale`, a delivery that
matched nothing of the request, after which the peer is never idle again in this
synchronisation (`Terminates` does not hold without it), and `late`, the goroutine
that waits for a state download and closes the queue of a later synchronisation
(`SuccessImports` does not hold without it).

### StateDB, Execution, PatriciaTrie: state and execution

`StateDB` has the StateDB as a record and its calls as operators from record to
record; its machine makes any calls and keeps beside it the plain map from
accounts to values that it should stand for (`plain`, and one copy per valid
snapshot). `StateReverts` compares the two after every call: reverts over
creations, resets, suicides, logs and refunds, then Finalise, CommitTo, Copy.

`Execution` builds a block as the producer does, with transactions that fail and
are reverted, and processes the block on another node: `ExecutionAgrees` says
that receipts, state and database come out the same. `TransitionDb` is split into
operators that take the result of the step before them (`Creation`,
`Settlement`); the contract is the balance contract, the only one registered. The
`execution_last` run shows what the values kept in TmpStatusManager leave out.

`PatriciaTrie` has a node as in the code, with its cached hash and generation;
a hash is the encoding of what it is the hash of. `TrieExact` compares every
lookup, the root, the iterator and the proofs with the map the trie stands for,
after any insertions, deletions, commits and unloads.

### WireTypes: the generated MessagePack code

All `*_gen.go` files follow one scheme, which is here as recursive operators over
a description of the type; every type that has such code is described. Messages
are sequences of tokens. A run of the machine encodes any object of a type,
changes the message (a field missing, a field unknown, cut short), and decodes it
into a fresh or a used object.

### Events: Feed and TypeMux

Steps are channel operations and lock acquisitions. In the `Feed` a sender walks
`sendCases` and may be overtaken by subscriptions and by `removeSub`; in
`TypeMux` the two locks of a subscription are modelled with waiting writers.
`FeedSound` and `MuxSound` join who must get an event (safety) and that senders,
unsubscribers, Close and Stop return (liveness).

### Fetcher, StateSync, TxSync, BlockGossip, PeerManager, HeaderQuery: the protocol manager's traffic

`Fetcher` is one action per case of its select, with any header or body from
anybody at any time; `FetcherTracks` ties the counters per peer to the maps.
`StateSync` joins the trie's schedule of missing nodes, the loop that assigns
them and the fetcher that tracks requests over successive roots.
`PeerManager` is the life of connections, `removePeer` step by step, and Stop.
`TxSync` and `BlockGossip` are what peers are sent, are known to have, and when a
synchronisation starts and in which mode. `HeaderQuery` is the loop that answers
a query for headers, for all queries over a small chain with a side chain,
compared with the definition of what was asked for; its arithmetic wraps at
`HeaderWord`.

`ProtocolManagerProofs` proves `GossipSound` and `TxsRelayed` for any peers,
heights, transactions and pack sizes. The invariant of the first, `GossipInv`,
says of a broadcast in progress that who is not on its list any more has heard of
the block (`Hearing`), and of a synchronisation between its reading of the head
and its start which modes the head may still call for (`Modes`: the block read is
no higher than the block of now). `TxsRelayed` is inductive with the facts about
connections it needs (`Connections`): a node has one connection that is up, and
what a connection is known to have it has, until a send to it fails.

### ChainIndexer, BloomMatcher, FilterSystem, LogSearch: logs

`ChainIndexer` has both loops, the chain that reorganises under them, database
writes and restarts. `BloomMatcher` is the pipeline of a session as processes with
bounded channels. `LogSearch` splits a range between index and headers, with the
64-bit conversions of the code scaled to `LogWord`, and is compared with the logs
that meet the criteria. `FilterSystem` is the event loop, the polled filters and
their expiry.

`FilterProofs` proves `FilterExact` for any filters, criteria and events, from
`FilterAssumption` (block ranges are integers). The invariant `FilterInv` says
which combinations of a filter's subscription, its goroutine, its entry in
`api.filters`, the scan of timeoutLoop and the event loop's list can meet
(`FilterControl`), and that the events a filter is due are, in order, those it
polled, has in its list, has in the hand of its goroutine and is about to be sent
(`FilterData`); that it holds of an uninstalled filter only for what was polled
is why the lists of a removed filter need no bookkeeping. An event moves from one
of these parts to the next by a lemma about sequences each (`Passed...`).

### P2PServer, DialState, P2PPeer, ProtoMatch, Msgpx: connections

The run loop with its two checkpoints and the connections in their handshakes;
the dialer with the run loop's scheduling of its tasks; the goroutines of a peer;
the layout of message codes at both ends; and the encrypted transport at both
ends with symbolic cryptography (a MAC is the record of what it absorbed, a
cipher state is a position), so that a frame written in two parts by two
goroutines would be seen as a MAC that differs.

`CommunicationProofs` proves `PeersServed` for any connections, identities and
limits. Its invariant `ServerInv` gives the variables the shape of their records
(`Shapes`), counts the slots of the listener against the goroutines that hold one
(`SlotsKept`) and relates the peer map to the runPeer goroutines (`PeersMatch`).
The second checkpoint is why it holds: connections of one identity pass the first
one together.

### Replies, KadTable, Lookup: node discovery

`Replies` has the pending list with relative deadlines and the timer with the
value it left in its channel. `KadTable` has bonding, buckets and evictions at
the grain of the mutex; nodes in buckets are objects with identity, because
`contested` is a field of the object.

`KadTableProofs` proves `TableSound` for any nodes, buckets, bucket size and
number of concurrent calls of bond, from a sound first table (`KadAssumption`).
The invariant `KadInv` adds to `TableSound` that an object is contested by one
call at a time (`Contests`, so that the end of its ping ends the contest), that
a call in its ping/pong is the one registered for its node, and what a call
refers to at each stage (`CallsOK`). The lemmas about `bump`, `replace` and
`without` are about buckets by index: what is removed, where it goes, that no
node comes in twice.

`Lookup` has the lookup together with the
answers of the nodes asked.

### RpcClient, RpcServer

`RpcClient` has calls, dispatch, read loop, reconnection, subscriptions and Close;
`RpcServer` has the reading and classification of messages, their execution in
goroutines, notifications and Stop. Client and server are not composed: each
meets any behaviour of the other.

`CommunicationProofs` proves `ClientSound` for any requests, batches and
subscriptions. `RpcClientAssumption` says that a subscription is one request and
that the call ending it ends no other. `ClientSound` counts what is in a
channel; the invariant `ClientInv` counts with it the ids dispatch still waits
for (`OpGood`): together they never exceed the room of the channel, and there are
none left once the channel is closed, which is why neither a late response, nor
closeRequestOps, nor both can send on a closed channel. `LockGood` makes the
write lock of dispatch, the writer and the outcome in `sendDone` one token, and
`SubGood` says that quitWithError made its call to the server for the first
time.

`RpcServerProofs` proves `ServerSound` for any connections, messages and
callbacks; `ScriptAssumption` only says that messages and their requests come in
sequences. The invariant is one predicate of the three values of a connection
(`ConnSound`), so that each step is a lemma about values and one frame lemma
(`ConnStep`) leaves the other connections alone: an answer is of a message that
was read and is not being executed (`Answered`); a subscription belongs to the
message that made it and is active only after that message is done
(`Subscribed`); who was told of an end had an ended subscription (`Ended`); and,
while the connection can be written to, the ids of every answered message were
sent (`Sent`). The last one is what makes a notification come after its id,
although a failed write goes unnoticed by `activate`. `StopSound` says that what
is served is registered, and that no connection is registered once Stop has
closed the registered ones.

### The suites: MCCore, MCNet, MCP2P, MCLive

Components that do not share state are checked together, one per behaviour: the
variable `part` is chosen at the start, that component runs, and the others stay
in their initial states (`Rests`), so the state graph is the union of theirs and
an invariant of a component is evaluated on all of its states. Where an invariant
is costly on a resting component it is stated for the behaviours of its part
(`TrieHolds`, `CodesAgree`, `MatcherStops`). `MCNet` lets only the part of the
journal choose the head the pool starts from.

Bounds. They are the smallest with which each hazard occurs: a node with two
connections, so that one ends while the other begins (`Conns`, `TxConns`, `SrvConns`,
`PMConns`); queues, windows and limits of one or two, so that they are full after
a few steps; one failure or time-out, restarts of one, two reorganisations for
the indexer; a bucket of two with a third node that wants in; a batch of two
calls for the RPC client with a connection that is lost once; types as they are
in the code, with two values per leaf. Symmetry is not used, as the properties of
the suites include temporal ones or name the model values.

Fairness (`LiveSpec`). One weak fairness condition for the goroutines of a component
that are neither idle nor waiting for a user: the Go scheduler runs what can run,
and a select with a ready case proceeds. A reader that has subscribed reads
(`Receive` of the feed; the documentation of Feed requires it), a subscriber of
the mux reads or unsubscribes, time passes for the discovery timer, and a writer
whose connection was closed gets an error. Nothing is assumed of remote nodes, of
calls of users, or of which case a select takes.

## The runs

`pass` runs hold for every reachable state of their instance; `violation` runs show a
sentence of a comment, document or test that the code does not keep.

| Run | Module, configuration | Properties | What it shows |
|---|---|---|---|
| txpool | MCTxPool, MCTxPool.cfg | PoolSound, EqualiseClosedForm, SlotsFair | The pool under every order of adds, new heads, reorganisations, evictions and priority changes keeps one transaction per nonce, an indexed queue, nothing stale, its limits, its local transactions and the guaranteed slots, and the equalisation loops compute their closed form. |
| txpool_remove (violation) | MCTxPool, MCTxPoolRemove.cfg | RemoveKeepsSubsequent | removeTx on the first transaction of a pending list loses the transactions after it instead of queueing them again. |
| chain | MCBlockChain, MCBlockChain.cfg | ChainSound, HeadAnnounced | Importer and producer write competing branches, with a crash between any two database writes, a failing batch and a SetHead: the head always has its state and a complete line of ancestors, and as long as nothing went wrong the number index, the three heads, the transaction positions and the last head event describe exactly the head's chain whenever bc.mu is free. |
| chain_index_crash (violation) | MCBlockChain, MCBlockChainIndex.cfg | AlwaysCanonical | A crash inside reorg, after the first number was rewritten and before the head pointer was, leaves a number index that names a side block below the head. |
| producer | BlockProducer, BlockProducer.cfg | OneLoop, CycleLives | Start goroutines, Stop calls, a synchronisation, an imported head and failures interleave: the agent has one loop while started and none while stopped, a started producer at rest has work under way, producer.mu is always released, and without failures a started producer writes new heads for ever. |
| download_fast | Downloader, DownloaderFast.cfg | FastExact | Two synchronisations in a row on a node with fast sync, with failures, rollbacks, a state download that ends at any time and answers from the first one that arrive in the second: results wait for both parts and the pivot for its successors, and a locked pivot stays. |
| download_ends | Downloader, DownloaderEnds.cfg | Terminates | Under the fairness of goroutines, ticker and time-outs, with nothing assumed of the peers, a synchronisation ends unless a delivery was stale. |
| execution_last (violation) | MCExecution, MCExecutionLast.cfg | LastValue | A transaction that fails in its second action leaves the balances its first action has set in the TmpStatusManager, although the state has been reverted. |
| core_suite | MCCore, MCCore.cfg | HeapSound, CodecExact, StateReverts, ExecutionAgrees, FetcherTracks, SectionsCanonical, LogsComplete, HeadersAsked, CodesAgree, TableSound, LookupClosest, TrieHolds | Data structures and algorithms, each alone, through all orders of calls or inputs: the generated encoders and decoders, the StateDB with its snapshots, the execution of a block by its producer and by another node, the block fetcher, the chain indexer across reorganisations and restarts, searches for logs, answers to header queries, the matching of protocols, lookups, the node table, the trie, and the priority heap. |
| net_suite | MCNet, MCNet.cfg | JournalKeeps, StateComplete, MatchesExact, FilterExact, TxsRelayed, GossipSound, DialerSound | What is exchanged with peers and clients, each component with its goroutines, failures and reconnections: the state download, the bloom matcher, filters, transaction and block propagation, the journal of local transactions with crashes and restarts, and the dialer. |
| p2p_suite | MCP2P, MCP2P.cfg | QueueExact, SuccessImports, PeersServed, SessionAgrees, ClientSound, ServerSound | Connections from the handshakes to the requests that use them: the server's run loop, the encrypted transport, the RPC client with reconnection, the RPC server with notifications and Stop, and a full download from two peers that answer late, in part, with something else or never. |
| live_suite | MCLive, MCLive.cfg | FeedSound, MuxSound, MatcherStops, ManagerStops, PeerRunEnds, RequestsAnswered | What must end does, under weak fairness of the goroutines: sends and unsubscriptions of feeds and muxes, a matcher session, Stop of the protocol manager, run of a peer, and every request of the discovery protocol. |

## The theorems

| Theorem | Property | What it establishes |
|---|---|---|
| TxPoolProofs!PoolSoundness | PoolSound | For any accounts, transactions, limits and bounds: the pool is well typed (the managed nonces never leave the range of account nonces), no account has two transactions with one nonce, in one list or across the two, every queued transaction is in the index, and at rest nothing in the pool has a nonce the head state has used, although add does not check it. |
| TxPoolProofs!PoolSlotsFair | SlotsFair | For any accounts, finite set of transactions and limits: after every operation the pending limit is met, the equalisation that meets it leaves every account its guaranteed slots, and nothing of a local account is dropped for a limit. |
| TxPoolProofs!PoolLocalsKept |  | A transaction of a local account leaves the pool only executed or replaced by a better one. |
| TxPriorityList!HeapSoundness | HeapSound | For any transactions and priorities: stale and repeated entries, rebuilds and saved local entries never make the heap lose a transaction of the index, Discard and Cap only ever pick remote transactions that are no better than any remote one left, and Cap picks exactly those below the threshold. |
| TxPoolProofs!JournalKept | JournalKeeps | For any pool, journal, heads, crashes and failures of the file: what was journaled when it entered the pool stays in the file while it is pooled, through rotations and resets, and a restart that can open the file brings back all of it that is not executed, outdone, or more than the pool holds. |
| BlockProducer!ProducerOneLoop | OneLoop | For any number of Start goroutines, API calls and imported heads, the agent has exactly one loop that no stop token will end while the producer is started, and none while it is stopped. |
| FilterProofs!FiltersExact | FilterExact | For any filters, criteria and events: however events, polls, uninstalls, the time-out and the ends of filters interleave, what a filter was given is the start of what it was due, and while it is installed the events it was given, has in its list, in the hand of its goroutine or to come are exactly those due, each once and in order. |
| ProtocolManagerProofs!GossipSoundness | GossipSound | For any peers, heights and number of concurrent synchronisations: after a broadcast every peer that is still connected has the block or its hash from us or has sent one to us, and no full synchronisation runs over what an interrupted fast one left. |
| ProtocolManagerProofs!TxSyncRelays | TxsRelayed | For any connections, nodes, transactions and size of packs: a connection that is up has every transaction of the pool, or it is in the pack being sent to it or in its pending sync, unless a send to its node failed. |
| CommunicationProofs!ServerPeersServed | PeersServed | For any connections, identities, limits and numbers of slots: the peer map and the runPeer goroutines agree at every step of the run loop, no identity is connected twice, MaxPeers bounds the peers that are not exempt, and no slot of the listener is lost. |
| KadTableProofs!TableStaysSound | TableSound | For any nodes, buckets, bucket size, first entries and number of calls: however calls of bond, evictions, failed lookups and expirations overlap, no bucket has a node twice, ourself or too many, exactly the objects that some call pings are contested, a node has one ping/pong, and no slot for ping/pongs is lost. |
| RpcServerProofs!RpcServerStaysSound | ServerSound | For any connections, messages and callbacks: every message is answered at most once and with one response per request, a subscription is notified only after its id was sent and never after its end was confirmed, and when Stop has returned what is still served is closed. |
| CommunicationProofs!ClientStaysSound | ClientSound | For any requests, batches, subscriptions and connections: however calls, responses, lost connections, reconnection, Unsubscribe and Close interleave, the channel of a request is closed at most once and last and has room for what dispatch sends on it, one request at a time is written, and a subscription reports at most one error. |

## Where the code and its documentation disagree

- **RemoveKeepsSubsequent** (core/txprocessor/tx_pool.go:893, run txpool_remove): pending.Remove filters the invalidated transactions out of the list before pending.Empty() is asked, so when the first one is removed the list is empty, the list is deleted and the invalidated ones are dropped from both lists; the comment says "removeTx removes a single transaction from the queue, moving all subsequent transactions back to the future queue" (core/txprocessor/tx_pool.go:876-877).
- **AlwaysCanonical** (core/blockchain/blockchain.go:472, run chain_index_crash): insert writes the number index, the head block and the head header as separate writes and reorg calls it from the fork point upwards, so a crash after the first WriteCanonicalHash leaves the old head with an index that names a block of the other branch, which no later extension of the old head repairs; the type's comment says "GetBlockByNumber always represents the canonical chain" (core/blockchain/blockchain.go:115-116).
- **LastValue** (core/stateprocessor/statetransition.go:171, run execution_last): TransitionDb reverts the StateDB to its snapshot when an action fails, but not the TmpStatusManager, which keeps the balances set by the actions before it. The next transaction of the block reads them as the last ones and writes them to the state for the accounts it touches only: an amount is taken from one account and never reaches the other. The comment says "we can get a last value from TmpStatusManager" (core/sdk/tmp_status_manager.go:19).

## Sentences that do not hold and have no run of their own

Each is a definition in its module, with the comment or test it comes from, and
the reason why the code does not keep it. TLC finds each violated on an instance
like those of the suites.

| Definition | What the code does |
|---|---|
| BlockProducer!NotWhileSyncing | Start loads `canStart` and stores `producing` separately; a StartEvent in between stops nothing. |
| Downloader!PromiseChecked | The master is judged by `CurrentHeader`, which other synchronisations move. |
| StateSync!PeersRetried | Peers of requests that are finished but not delivered stay busy for the next root. |
| ChainIndexer!NoReorgMissed | A reorganisation of the section being processed, or one announced to a node that stops, is not seen. |
| FilterSystem!NeverStuck | timeoutLoop unsubscribes with `filtersMu` held, and the loop may be sending to a filter that waits for it. |
| PeerManager!SessionsDisconnected | removePeer takes out of the set what is there under the id, a new connection of the node included. |
| BlockGossip!FastOnlyWhenEmpty | synchronise compares the block of its start with the fast block of now. |
| TxSync!EveryPeerSynced | A failed send to the old connection of a node deletes what its new one waits for. |
| P2PServer!StopReturns | Stop waits for loops with `srv.lock` held, and the run loop calls Self, which takes it. |
| Replies!DispatchedToAll | The walk over the pending list ends at the first entry that is removed. |
| Lookup!LookupUnique | Nodes from the table are not marked as seen and may be in the result twice. |
| RpcClient!LossSignalled | A reconnection takes the error of the old connection without closing the operations on it. |
| RpcClient!CloseAborts | dispatch waits for a subscription whose Unsubscribe waits for dispatch. |
| RpcServer!PendingFinish | Stop closes the connections without waiting for requests being executed. |
| WireTypes!UnmarshalCopies | IP.UnmarshalBinary looks at the address it is to overwrite; all callers use new objects. |

Where a checked property would fail for the same reason it excepts exactly these
cases, by a history variable (`missed`, `lostSync`, `stale`, `late`) or an operator
(`Orphan`) named in it.

## What is only model-checked

Liveness (`CycleLives`, `Terminates`, all of `live_suite`), because the prover has
no support for fairness. Properties about recursive operators, or about
what a fold or a loop over a sequence computes (`TrieHolds`, `CodecExact`,
`StateComplete`, `EqualiseClosedForm`, `LookupClosest`, `HeadersAsked`,
`LogsComplete`, `StateReverts`, `ExecutionAgrees`, `DialerSound`), since the prover
has no induction over data. The chain's properties (`ChainSound`, `HeadAnnounced`),
as the ancestors of a block are a recursive function of the constants. And, with
no obstacle but their size, the invariants of the downloader, the fetcher, the
indexer, the matcher and the transport.

## What is not modelled

Signatures and hashes are taken as given or as symbols; LevelDB writes and batches
are atomic; metrics, logging and the command line have no state of interest.

- Consensus engine and genesis: no concurrency the rest can see; their verdicts
  are choices or initial states of the chain model.
- Topic discovery (discv5): off unless configured; its node states and tickets
  are ruled by estimated waiting times and random radii, of which little is left
  once they are abstracted. Its messages are in the codec model.
- Node and accounts: services started and stopped under one lock, and a
  directory of keys; no modelled part depends on them.
- RPC transports and the API calls that only read; conversions of basic types;
  arithmetic of the cryptography, which is out of the reach of TLC.

Within the modelled parts: the lru caches of the chain (readers take no lock and
can put back a block that SetHead deleted), the queue of future blocks (no engine
of the repository returns the error that fills it), the unconfirmed-block set of
the producer (it only logs), InsertReceiptChain and Rollback of the chain (the
downloader's model has their outcomes), the filling of the header skeleton in the
downloader, a second matcher session over the same schedulers, and errors of the
database under the StateDB and the trie. The notes of the components in
`PROJECT.json` list the rest.
