-------------------------------- MODULE TxSync --------------------------------
(***************************************************************************)
(* mjoy.ProtocolManager's transaction traffic: txsyncLoop sends the pending*)
(* transactions to each new connection in packs, one send at a time in the *)
(* background; BroadcastTx sends new ones to the peers not known to have   *)
(* them; handleMsg takes those of others.  A node may connect again while  *)
(* a send to its previous connection has not returned.                     *)
(***************************************************************************)
EXTENDS Naturals, Sequences, FiniteSets, Functions

CONSTANTS TxConns, TxNode, \* TxNode[c]: the node of a connection
          StartTxs, NewTxs, \* sequences: pending at first, and added one after the other
          PackSize, KnownTxs \* maxKnownTxs

ASSUME TxSyncAssumption ==
    /\ PackSize \in Nat
    /\ StartTxs \in Seq(Range(StartTxs)) /\ NewTxs \in Seq(Range(NewTxs))

VARIABLES txConn,   \* per connection: its stage, the transactions it is known to have, and those it was sent or has sent
          txLoop,   \* the loop: pending syncs by node, and the pack being sent
          txPool,   \* pending transactions, in order
          lostSync  \* nodes whose sync was given up after a failed send

txSyncVars == <<txConn, txLoop, txPool, lostSync>>

Min2(a, b) == IF a < b THEN a ELSE b
NoTxSync == [i \in {} |-> 0]
Idle == txLoop.pack = <<>>

-----------------------------------------------------------------------------
\* What is left after a pack of n.  The second form loses one at the seam.
RestSkipping(txs, n) == SubSeq(txs, n + 2, Len(txs))
Rest(txs, n) == SubSeq(txs, n + 1, Len(txs))

\* The pack of a sync and what remains of it.
SendTxs(pending, node) ==
    LET s == pending[node]
        n == Min2(PackSize, Len(s.txs))
        rest == Rest(s.txs, n)
    IN  [pending |-> IF rest = <<>> THEN Restrict(pending, DOMAIN pending \ {node})
                     ELSE [pending EXCEPT ![node].txs = rest],
         pack |-> <<[conn |-> s.conn, txs |-> SubSeq(s.txs, 1, n), res |-> "sending"]>>]

Connect(c) ==
    /\ txConn[c].at = "none"
    /\ \A d \in TxConns : TxNode[d] = TxNode[c] => txConn[d].at # "up"
    /\ txConn' = [txConn EXCEPT ![c].at = "up"]
    /\ UNCHANGED <<txLoop, txPool, lostSync>>

\* syncTransactions: the loop takes the pending transactions of the pool.
SyncTransactions(c) ==
    LET node == TxNode[c]
        pending == [m \in DOMAIN txLoop.pending \union {node} |->
                       IF m = node THEN [conn |-> c, txs |-> txPool] ELSE txLoop.pending[m]]
    IN  /\ txConn[c].at = "up" /\ ~txConn[c].synced
        /\ txConn' = [txConn EXCEPT ![c].synced = TRUE]
        /\ txLoop' = IF txPool = <<>> THEN txLoop
                     ELSE IF Idle THEN SendTxs(pending, node)
                     ELSE [txLoop EXCEPT !.pending = pending]
        /\ UNCHANGED <<txPool, lostSync>>

\* The background send: the hashes are known before the message is written,
\* which fails when the connection is down.
SendPack ==
    /\ ~Idle /\ txLoop.pack[1].res = "sending"
    /\ LET p == txLoop.pack[1] IN
       \/ /\ txConn[p.conn].at = "up"
          /\ txConn' = [txConn EXCEPT ![p.conn].known = @ \union Range(p.txs), ![p.conn].has = @ \union Range(p.txs)]
          /\ txLoop' = [txLoop EXCEPT !.pack[1].res = "ok"]
       \/ /\ txConn' = [txConn EXCEPT ![p.conn].known = @ \union Range(p.txs), ![p.conn].at = "down"]
          /\ txLoop' = [txLoop EXCEPT !.pack[1].res = "failed"]
    /\ UNCHANGED <<txPool, lostSync>>

\* done: the sync of a failed send is dropped, then the next pack is taken
\* from any pending one.
AfterFailure(pending, node) == Restrict(pending, DOMAIN pending \ {node})

SendDone ==
    /\ ~Idle /\ txLoop.pack[1].res # "sending"
    /\ LET p == txLoop.pack[1]
           pending == IF p.res = "failed" THEN AfterFailure(txLoop.pending, TxNode[p.conn]) ELSE txLoop.pending
       IN  /\ IF DOMAIN pending = {} THEN txLoop' = [pending |-> pending, pack |-> <<>>]
              ELSE \E node \in DOMAIN pending : txLoop' = SendTxs(pending, node)
           /\ lostSync' = IF p.res = "failed" THEN lostSync \union {TxNode[p.conn]} ELSE lostSync
    /\ UNCHANGED <<txConn, txPool>>

Disconnected(c) ==
    /\ txConn[c].at = "up"
    /\ txConn' = [txConn EXCEPT ![c].at = "down"]
    /\ UNCHANGED <<txLoop, txPool, lostSync>>

-----------------------------------------------------------------------------
\* BroadcastTx, for a transaction the pool has just announced.
BroadcastTx(tx, c) == txConn[c].at = "up" /\ tx \notin txConn[c].known

\* A transaction of the node's own, or taken from a peer: MarkTransaction,
\* AddRemotes, and the broadcast that follows.
Marked(known, tx, kept) == (IF Cardinality(known) >= KnownTxs THEN kept ELSE known) \union {tx}

AddTx(tx, from, kept) ==
    LET heard == IF from \in TxConns THEN [txConn EXCEPT ![from].known = Marked(@, tx, kept), ![from].has = @ \union {tx}] ELSE txConn
    IN  /\ tx \notin Range(txPool)
        /\ txPool' = Append(txPool, tx)
        /\ txConn' = [c \in TxConns |->
                         IF BroadcastTx(tx, c) /\ c # from
                         THEN [heard[c] EXCEPT !.known = @ \union {tx}, !.has = @ \union {tx}] ELSE heard[c]]
        /\ UNCHANGED <<txLoop, lostSync>>

NextTx == NewTxs[Len(txPool) - Len(StartTxs) + 1]

LocalTx == Len(txPool) < Len(StartTxs) + Len(NewTxs) /\ AddTx(NextTx, "self", {})

RemoteTx(c) ==
    /\ Len(txPool) < Len(StartTxs) + Len(NewTxs) /\ txConn[c].at = "up"
    /\ \E kept \in SUBSET txConn[c].known : Cardinality(kept) = Min2(KnownTxs - 1, Cardinality(txConn[c].known)) /\ AddTx(NextTx, c, kept)

-----------------------------------------------------------------------------
TxSyncInit ==
    /\ txConn = [c \in TxConns |-> [at |-> "none", synced |-> FALSE, known |-> {}, has |-> {}]]
    /\ txLoop = [pending |-> NoTxSync, pack |-> <<>>]
    /\ txPool = StartTxs
    /\ lostSync = {}

TxSyncNext ==
    \/ SendPack \/ SendDone \/ LocalTx
    \/ \E c \in TxConns : Connect(c) \/ SyncTransactions(c) \/ Disconnected(c) \/ RemoteTx(c)

TxSyncSpec == TxSyncInit /\ [][TxSyncNext]_txSyncVars

-----------------------------------------------------------------------------
\* A connection that is up and was handed to the loop has every transaction
\* of the pool, or gets it: what was pending by then is in the pack being sent
\* or in the pending sync, and what came later was broadcast.  A node that a
\* send failed to is no longer tracked.
Outstanding(c) ==
    (IF ~Idle /\ txLoop.pack[1].conn = c /\ txLoop.pack[1].res = "sending" THEN Range(txLoop.pack[1].txs) ELSE {})
    \union (IF TxNode[c] \in DOMAIN txLoop.pending /\ txLoop.pending[TxNode[c]].conn = c
            THEN Range(txLoop.pending[TxNode[c]].txs) ELSE {})

Relayed(c) == txConn[c].at = "up" /\ txConn[c].synced => Range(txPool) \subseteq txConn[c].has \union Outstanding(c)

TxsRelayed == \A c \in TxConns : TxNode[c] \notin lostSync => Relayed(c)

\* "When a new peer appears, we relay all currently pending transactions",
\* also when its node was connected before.  It does not hold: txsyncLoop keys
\* what is pending by the node's id, and a failed send to its old connection
\* deletes what the new one waits for.
EveryPeerSynced == \A c \in TxConns : Relayed(c)
=============================================================================
