----------------------------- MODULE BlockGossip -----------------------------
(***************************************************************************)
(* mjoy.ProtocolManager: how blocks travel (BroadcastBlock, what a peer is *)
(* known to have, NewBlockMsg and NewBlockHashesMsg) and when the chain is *)
(* synchronised with the best peer, in fast or full mode.  The chain is    *)
(* linear: a block is its number, and the node has 1 .. block, with the    *)
(* fast block ahead of it while a fast sync is not finished.               *)
(***************************************************************************)
EXTENDS Naturals, FiniteSets, Functions

CONSTANTS GPeers, Top,       \* Top: the highest block of the network
          KnownBlocks,       \* maxKnownBlocks
          Casters,           \* goroutines that run BroadcastBlock
          SyncTasks          \* goroutines that run synchronise

ASSUME GossipAssumption == Top \in Nat

VARIABLES gossip,   \* per peer: registered, head number, known blocks, the blocks it was told or has told,
                    \* and whether a send to it has failed
          local,    \* block, fast: heads; fastSync, acceptTxs; busy: the downloader runs
          imports,  \* blocks that the fetcher is importing
          cast,     \* per goroutine: its broadcast
          task,     \* per goroutine: its run of synchronise
          told      \* finished announcements: <<block, peer>>

gossipVars == <<gossip, local, imports, cast, task, told>>

NoPeer == [up |-> FALSE, number |-> 0, known |-> {}, heard |-> {}, broken |-> FALSE]
\* list: peers left to send to; to: the one a send is going on to; seen: those
\* registered when an announcement began; loop: run by producedBroadcastLoop.
NoCast == [at |-> "idle", block |-> 0, list |-> {}, to |-> {}, seen |-> {}, loop |-> FALSE]
NoTask == [at |-> "idle", peer |-> "none", number |-> 0, block |-> 0, mode |-> "none"]
Registered == {p \in GPeers : gossip[p].up}

\* MarkBlock: at the limit some known blocks are forgotten.
MarkBlock(known, b, kept) == (IF Cardinality(known) >= KnownBlocks THEN kept ELSE known) \union {b}
Kept(known) == {k \in SUBSET known : Cardinality(k) = IF Cardinality(known) >= KnownBlocks THEN KnownBlocks - 1 ELSE Cardinality(known)}

-----------------------------------------------------------------------------
(* Peers. *)

\* The handshake brings the head of the peer.
PeerUp(p, n) ==
    /\ ~gossip[p].up
    /\ gossip' = [gossip EXCEPT ![p] = [NoPeer EXCEPT !.up = TRUE, !.number = n]]
    /\ UNCHANGED <<local, imports, cast, task, told>>

\* Sends to it fail from now on.  A run of synchronise still has its head.
PeerDown(p) ==
    /\ gossip[p].up
    /\ gossip' = [gossip EXCEPT ![p] = NoPeer]
    /\ cast' = [c \in Casters |-> [cast[c] EXCEPT !.list = @ \ {p}, !.to = @ \ {p}, !.seen = @ \ {p}]]
    /\ told' = {t \in told : t[2] # p}
    /\ UNCHANGED <<local, imports, task>>

Sync(p) == \E t \in SyncTasks : task[t].at = "idle" /\ task' = [task EXCEPT ![t] = [NoTask EXCEPT !.at = "start", !.peer = p]]

\* A block is propagated: the fetcher gets it, and a sync is started when the
\* parent is beyond both the head the peer was known for and the own one.
NewBlockMsg(p, b, kept) ==
    /\ gossip[p].up
    /\ gossip' = [gossip EXCEPT ![p].known = MarkBlock(@, b, kept), ![p].heard = @ \union {b},
                                ![p].number = IF b - 1 > @ THEN b - 1 ELSE @]
    /\ \/ b - 1 > gossip[p].number /\ b - 1 > local.block /\ Sync(p)
       \/ UNCHANGED task
    /\ UNCHANGED <<local, imports, cast, told>>

NewBlockHashesMsg(p, b, kept) ==
    /\ gossip[p].up
    /\ gossip' = [gossip EXCEPT ![p].known = MarkBlock(@, b, kept), ![p].heard = @ \union {b}]
    /\ UNCHANGED <<local, imports, cast, task, told>>

-----------------------------------------------------------------------------
(* BroadcastBlock: goroutines of the fetcher, producedBroadcastLoop, and   *)
(* synchronise at its end.                                                 *)

PeersWithoutBlock(b) == {p \in Registered : b \notin gossip[p].known}
Root(n) == CHOOSE r \in 0 .. n : r * r <= n /\ n < (r + 1) * (r + 1)

StartCast(c, at, b, loop) ==
    /\ cast[c].at = "idle"
    /\ cast' = [cast EXCEPT ![c] = [NoCast EXCEPT !.at = at, !.block = b, !.loop = loop]]

\* A block with a known parent is sent to some of the peers without it.
Propagate(c) ==
    LET b == cast[c].block
        without == PeersWithoutBlock(b)
    IN
    /\ cast[c].at = "propagate"
    /\ \E list \in SUBSET without :
          /\ Cardinality(list) = IF b - 1 <= local.block THEN Root(Cardinality(without)) ELSE 0
          /\ cast' = [cast EXCEPT ![c].at = "propagating", ![c].list = list]
    /\ UNCHANGED <<gossip, local, imports, task, told>>

\* A block of the chain is announced to every peer not known to have it.
Announced(b) == PeersWithoutBlock(b)

Announce(c) ==
    /\ cast[c].at = "announce"
    /\ cast' = [cast EXCEPT ![c] =
                   IF @.block > local.block THEN NoCast
                   ELSE [@ EXCEPT !.at = "announcing", !.list = Announced(cast[c].block), !.seen = Registered]]
    /\ UNCHANGED <<gossip, local, imports, task, told>>

\* SendNewBlock, SendNewBlockHashes: the block is marked as known, then p2p.Send
\* blocks until the message is written.
SendTo(c, p) ==
    /\ p \in cast[c].list /\ cast[c].to = {}
    /\ gossip' = [gossip EXCEPT ![p].known = @ \union {cast[c].block}]
    /\ cast' = [cast EXCEPT ![c].list = @ \ {p}, ![c].to = {p}]
    /\ UNCHANGED <<local, imports, task, told>>

SendEnds(c, p) ==
    /\ p \in cast[c].to /\ ~gossip[p].broken
    /\ gossip' = [gossip EXCEPT ![p].heard = @ \union {cast[c].block}]
    /\ cast' = [cast EXCEPT ![c].to = {}]
    /\ UNCHANGED <<local, imports, task, told>>

\* The error is ignored; the connection is on its way down.  (Fault: it ends the
\* broadcast.)
SendFailsEnds(c, p) ==
    /\ p \in cast[c].to
    /\ gossip' = [gossip EXCEPT ![p].broken = TRUE]
    /\ cast' = [cast EXCEPT ![c].to = {}, ![c].list = {}]
    /\ UNCHANGED <<local, imports, task, told>>
SendFails(c, p) ==
    /\ p \in cast[c].to
    /\ gossip' = [gossip EXCEPT ![p].broken = TRUE]
    /\ cast' = [cast EXCEPT ![c].to = {}]
    /\ UNCHANGED <<local, imports, task, told>>

\* The loop goes on to announce the block it has propagated.
CastDone(c) ==
    /\ cast[c].at \in {"propagating", "announcing"} /\ cast[c].list = {} /\ cast[c].to = {}
    /\ told' = told \union {<<cast[c].block, p>> : p \in cast[c].seen}
    /\ cast' = [cast EXCEPT ![c] = IF @.at = "propagating" /\ @.loop THEN [@ EXCEPT !.at = "announce"] ELSE NoCast]
    /\ UNCHANGED <<gossip, local, imports, task>>

-----------------------------------------------------------------------------
(* Blocks that enter the chain: from the fetcher and from the producer.    *)

Imported(b) == [local EXCEPT !.block = IF b > @ THEN b ELSE @, !.fast = IF b > @ THEN b ELSE @]

\* Fetcher.insert: the parent is known, the header is verified and the block
\* propagated, unless it is from the future.
FetcherInsert(b) ==
    /\ b = local.block + 1 /\ b \notin imports
    /\ imports' = imports \union {b}
    /\ UNCHANGED cast \/ \E c \in Casters : StartCast(c, "propagate", b, FALSE)
    /\ UNCHANGED <<gossip, local, task, told>>

\* inserter: nothing is imported during a fast sync, which is no error.
Insert(b) ==
    /\ b \in imports
    /\ imports' = imports \ {b}
    /\ local' = IF local.fastSync THEN local ELSE [Imported(b) EXCEPT !.acceptTxs = TRUE]
    /\ \E c \in Casters : StartCast(c, "announce", b, FALSE)
    /\ UNCHANGED <<gossip, task, told>>

InsertFails(b) ==
    /\ b \in imports
    /\ imports' = imports \ {b}
    /\ local' = [local EXCEPT !.acceptTxs = @ \/ ~local.fastSync]
    /\ UNCHANGED <<gossip, cast, task, told>>

\* producedBroadcastLoop takes one block at a time.
Produced(b) ==
    /\ b = local.block + 1 /\ \A c \in Casters : ~cast[c].loop
    /\ local' = Imported(b)
    /\ \E c \in Casters : StartCast(c, "propagate", b, TRUE)
    /\ UNCHANGED <<gossip, imports, task, told>>

-----------------------------------------------------------------------------
(* syncer and synchronise. *)

BestPeers == {p \in Registered : \A q \in Registered : gossip[q].number <= gossip[p].number}

ForceSync ==
    /\ \E p \in BestPeers : Sync(p)
    /\ UNCHANGED <<gossip, local, imports, cast, told>>

\* The own head is read, compared with that of the peer, and both are kept.
ReadHead(t) ==
    /\ task[t].at = "start"
    /\ task' = [task EXCEPT ![t] = LET n == gossip[@.peer].number IN
                   IF n <= local.block THEN NoTask
                   ELSE [@ EXCEPT !.at = "mode", !.number = n, !.block = local.block]]
    /\ UNCHANGED <<gossip, local, imports, cast, told>>

\* Fast mode again when the database has a fast block but no full one.  The
\* second form forgets it.
ReenabledNever(block) == FALSE
Reenabled(block) == block = 0 /\ local.fast > 0

ChooseMode(t) ==
    LET fast == local.fastSync \/ Reenabled(task[t].block) IN
    /\ task[t].at = "mode"
    /\ task' = [task EXCEPT ![t].at = "run", ![t].mode = IF fast THEN "fast" ELSE "full"]
    /\ local' = [local EXCEPT !.fastSync = fast]
    /\ UNCHANGED <<gossip, imports, cast, told>>

\* The downloader runs one sync at a time.
SyncStart(t) ==
    /\ task[t].at = "run"
    /\ task' = [task EXCEPT ![t].at = IF local.busy THEN "failed" ELSE "syncing"]
    /\ local' = [local EXCEPT !.busy = TRUE]
    /\ UNCHANGED <<gossip, imports, cast, told>>

\* It imports up to some block; a fast sync has no full block until its end.
SyncEnd(t) ==
    /\ task[t].at = "syncing"
    /\ \/ \E n \in local.fast .. task[t].number, ok \in BOOLEAN :
             /\ ok => n = task[t].number
             /\ local' = [local EXCEPT !.busy = FALSE, !.fast = n,
                             !.block = IF task[t].mode = "fast" /\ @ = 0 /\ ~ok THEN 0 ELSE n]
             /\ task' = [task EXCEPT ![t].at = IF ok THEN "done" ELSE "failed"]
       \/ /\ local' = [local EXCEPT !.busy = FALSE]
          /\ task' = [task EXCEPT ![t].at = "failed"]
    /\ UNCHANGED <<gossip, imports, cast, told>>

\* Fast sync is disabled once there is a full block.
SyncReturns(t) ==
    /\ task[t].at \in {"done", "failed"}
    /\ local' = [local EXCEPT !.fastSync = @ /\ local.block = 0, !.acceptTxs = @ \/ task[t].at = "done"]
    /\ task' = [task EXCEPT ![t] = IF task[t].at = "done" /\ local.block > 0 THEN [NoTask EXCEPT !.at = "cast"] ELSE NoTask]
    /\ UNCHANGED <<gossip, imports, cast, told>>

AnnounceHead(t) ==
    /\ task[t].at = "cast"
    /\ \E c \in Casters : StartCast(c, "announce", local.block, FALSE)
    /\ task' = [task EXCEPT ![t] = NoTask]
    /\ UNCHANGED <<gossip, local, imports, told>>

\* NewProtocolManager: fast sync only for an empty chain.
NodeRestart(fast) ==
    /\ local' = [local EXCEPT !.fastSync = fast /\ local.block = 0, !.acceptTxs = FALSE, !.busy = FALSE]
    /\ gossip' = [p \in GPeers |-> NoPeer]
    /\ imports' = {}
    /\ cast' = [c \in Casters |-> NoCast]
    /\ task' = [t \in SyncTasks |-> NoTask]
    /\ told' = {}

-----------------------------------------------------------------------------
GossipInit ==
    /\ gossip = [p \in GPeers |-> NoPeer]
    /\ local = [block |-> 0, fast |-> 0, fastSync |-> TRUE, acceptTxs |-> FALSE, busy |-> FALSE]
    /\ imports = {}
    /\ cast = [c \in Casters |-> NoCast]
    /\ task = [t \in SyncTasks |-> NoTask]
    /\ told = {}

CastStep(c) ==
    \/ Propagate(c) \/ Announce(c) \/ CastDone(c)
    \/ \E p \in GPeers : SendTo(c, p) \/ SendEnds(c, p) \/ SendFails(c, p)

GossipNext ==
    \/ ForceSync
    \/ \E fast \in BOOLEAN : NodeRestart(fast)
    \/ \E b \in 1 .. Top : FetcherInsert(b) \/ Insert(b) \/ InsertFails(b) \/ Produced(b)
    \/ \E c \in Casters : CastStep(c)
    \/ \E p \in GPeers : \/ PeerDown(p) \/ \E n \in 0 .. Top : PeerUp(p, n)
                         \/ \E b \in 1 .. Top + 1, kept \in Kept(gossip[p].known) :
                               NewBlockMsg(p, b, kept) \/ NewBlockHashesMsg(p, b, kept)
    \/ \E t \in SyncTasks : \/ ReadHead(t) \/ ChooseMode(t) \/ SyncStart(t) \/ SyncEnd(t) \/ SyncReturns(t) \/ AnnounceHead(t)

GossipSpec == GossipInit /\ [][GossipNext]_gossipVars

-----------------------------------------------------------------------------
\* The peer has been sent the block or its hash, or has itself sent one of them;
\* or some goroutine is about to; or its connection is about to go.
Gets(p, b) ==
    \/ b \in gossip[p].heard
    \/ \E c \in Casters : p \in cast[c].to /\ cast[c].block = b
    \/ gossip[p].broken

\* A peer that is marked as knowing a block, and so is left out of every broadcast
\* of it, gets it; after an announcement so does every peer that was connected
\* when it began, whichever goroutine had marked it.  No sync in full mode is
\* asked for over what an interrupted fast sync left behind.
GossipSound ==
    /\ \A p \in Registered : \A b \in gossip[p].known : Gets(p, b)
    /\ \A t \in told : gossip[t[2]].up /\ Gets(t[2], t[1])
    /\ \A t \in SyncTasks : task[t].at = "syncing" /\ task[t].mode = "full" => ~(local.block = 0 /\ local.fast > 0)

==============================================================================
