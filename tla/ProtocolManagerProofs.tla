------------------------ MODULE ProtocolManagerProofs ------------------------
(***************************************************************************)
(* Proofs about mjoy.ProtocolManager: what a broadcast of a block and a    *)
(* synchronisation promise (BlockGossip), and that every transaction of    *)
(* the pool reaches every connection (TxSync).                             *)
(***************************************************************************)
EXTENDS BlockGossip, TxSync, SequenceTheorems, TLAPS

-----------------------------------------------------------------------------
(* BlockGossip: types.                                                     *)

PeerRecords == [up : BOOLEAN, number : Nat, known : SUBSET Nat, heard : SUBSET Nat, broken : BOOLEAN]
LocalRecords == [block : Nat, fast : Nat, fastSync : BOOLEAN, acceptTxs : BOOLEAN, busy : BOOLEAN]
CastRecords == [at : {"idle", "propagate", "propagating", "announce", "announcing"}, block : Nat,
                list : SUBSET GPeers, to : SUBSET GPeers, seen : SUBSET GPeers, loop : BOOLEAN]
TaskRecords == [at : {"idle", "cast"}, peer : {"none"}, number : Nat, block : Nat, mode : {"none"}]
               \cup [at : {"start", "mode", "run", "syncing", "done", "failed"}, peer : GPeers, number : Nat,
                     block : Nat, mode : {"none", "fast", "full"}]

GossipTypes ==
    /\ gossip \in [GPeers -> PeerRecords]
    /\ local \in LocalRecords
    /\ cast \in [Casters -> CastRecords]
    /\ task \in [SyncTasks -> TaskRecords]
    /\ \A t \in told : t[2] \in GPeers

\* Gets, of the peers g and the broadcasts k.
GetsIn(g, k, p, b) ==
    \/ b \in g[p].heard
    \/ \E c \in Casters : p \in k[c].to /\ k[c].block = b
    \/ g[p].broken

\* A send goes on, and peers are remembered, only while a broadcast sends; a peer
\* that an announcement began with is left to be sent to, or gets the block.
CastSound(g, k, c) ==
    /\ k[c].at \notin {"propagating", "announcing"} => k[c].to = {} /\ k[c].list = {}
    /\ \A p, q \in k[c].to : p = q
    /\ k[c].at # "announcing" => k[c].seen = {}
    /\ \A p \in k[c].seen : g[p].up /\ (p \in k[c].list \/ GetsIn(g, k, p, k[c].block))

HearingIn(g, k, T) ==
    /\ \A p \in GPeers : \A b \in g[p].known : GetsIn(g, k, p, b)
    /\ \A t \in T : g[t[2]].up /\ GetsIn(g, k, t[2], t[1])
    /\ \A c \in Casters : CastSound(g, k, c)

Hearing == HearingIn(gossip, cast, told)

\* A synchronisation in full mode has a full block to start from, or nothing at
\* all and no fast synchronisation that could leave something meanwhile.
Modes ==
    /\ local.block <= local.fast
    /\ \A t \in SyncTasks : task[t].at = "mode" => task[t].block <= local.block
    /\ \A t \in SyncTasks : task[t].at \in {"run", "syncing"} =>
          /\ task[t].mode = "full" => local.block > 0 \/ (local.fast = 0 /\ ~local.fastSync)
          /\ task[t].mode = "fast" => local.block > 0 \/ local.fastSync

GossipInv == GossipTypes /\ Hearing /\ Modes

\* A goroutine that starts synchronise.
LEMMA SyncTyped == ASSUME GossipTypes, NEW p \in GPeers, Sync(p) PROVE task' \in [SyncTasks -> TaskRecords]
<1>1. [NoTask EXCEPT !.at = "start", !.peer = p] \in TaskRecords
  BY Zenon DEF NoTask, TaskRecords
<1> QED
  BY <1>1 DEF Sync, GossipTypes

\* Numbers, records and sets stay what they are.
LEMMA GossipTypesNext == GossipTypes /\ [GossipNext]_gossipVars => GossipTypes'
<1> SUFFICES ASSUME GossipTypes, [GossipNext]_gossipVars PROVE GossipTypes'
  OBVIOUS
<1>g. ASSUME NEW p \in GPeers, NEW r \in PeerRecords, gossip' = [gossip EXCEPT ![p] = r]
      PROVE  gossip' \in [GPeers -> PeerRecords]
  BY <1>g DEF GossipTypes
<1>t. ASSUME NEW t \in SyncTasks, NEW r \in TaskRecords, task' = [task EXCEPT ![t] = r]
      PROVE  task' \in [SyncTasks -> TaskRecords]
  BY <1>t DEF GossipTypes
<1>p. \A p \in GPeers : gossip[p] \in PeerRecords
  BY DEF GossipTypes
<1>r. \A t \in SyncTasks : task[t] \in TaskRecords
  BY DEF GossipTypes
<1>k. ASSUME NEW c \in Casters, NEW r \in CastRecords, cast' = [cast EXCEPT ![c] = r]
      PROVE  cast' \in [Casters -> CastRecords]
  BY <1>k DEF GossipTypes
<1>c. \A c \in Casters : cast[c] \in CastRecords
  BY DEF GossipTypes
<1>b. ASSUME NEW c \in Casters, NEW at \in {"propagate", "announce"}, NEW b \in Nat, NEW loop \in BOOLEAN,
             StartCast(c, at, b, loop)
      PROVE  cast' \in [Casters -> CastRecords]
  <2>1. [NoCast EXCEPT !.at = at, !.block = b, !.loop = loop] \in CastRecords
    BY Zenon DEF NoCast, CastRecords
  <2> QED
    BY <1>b, <1>k, <2>1, Zenon DEF StartCast
<1>l. local.block \in Nat /\ local.fast \in Nat
  BY DEF GossipTypes, LocalRecords
<1>i. ASSUME NEW b \in Nat PROVE Imported(b) \in LocalRecords
  BY <1>i, Zenon DEF Imported, LocalRecords, GossipTypes
<1>1. ASSUME NEW p \in GPeers, NEW n \in 0 .. Top, PeerUp(p, n) PROVE GossipTypes'
  <2>0. n \in Nat
    BY GossipAssumption
  <2>1. [NoPeer EXCEPT !.up = TRUE, !.number = n] \in PeerRecords
    BY <2>0, Zenon DEF NoPeer, PeerRecords
  <2> QED
    BY <1>1, <1>g, <2>1, Zenon DEF PeerUp, GossipTypes
<1>2. ASSUME NEW p \in GPeers, PeerDown(p) PROVE GossipTypes'
  <2>1. NoPeer \in PeerRecords
    BY DEF NoPeer, PeerRecords
  <2>2. gossip' \in [GPeers -> PeerRecords]
    BY <1>2, <1>g, <2>1, Zenon DEF PeerDown
  <2>3. \A c \in Casters : [cast[c] EXCEPT !.list = @ \ {p}, !.to = @ \ {p}, !.seen = @ \ {p}] \in CastRecords
    BY <1>c, Zenon DEF CastRecords
  <2>4. cast' \in [Casters -> CastRecords]
    BY <1>2, <2>3, Zenon DEF PeerDown
  <2>5. \A t \in told' : t[2] \in GPeers
    BY <1>2 DEF PeerDown, GossipTypes
  <2> QED
    BY <1>2, <2>2, <2>4, <2>5, Zenon DEF PeerDown, GossipTypes
<1>3. ASSUME NEW p \in GPeers, NEW b \in 1 .. Top + 1, NEW kept \in Kept(gossip[p].known),
             NewBlockMsg(p, b, kept) \/ NewBlockHashesMsg(p, b, kept)
      PROVE  GossipTypes'
  <2> DEFINE number == IF b - 1 > gossip[p].number THEN b - 1 ELSE gossip[p].number
             known == MarkBlock(gossip[p].known, b, kept)
             heard == gossip[p].heard \cup {b}
  <2>1. /\ gossip[p].number \in Nat /\ gossip[p].known \in SUBSET Nat /\ gossip[p].heard \in SUBSET Nat
    BY <1>p DEF PeerRecords
  <2>2. b \in Nat /\ number \in Nat
    BY <2>1, GossipAssumption
  <2>3. kept \in SUBSET gossip[p].known
    BY Zenon DEF Kept
  <2>4. known \in SUBSET Nat /\ heard \in SUBSET Nat
    BY <2>1, <2>2, <2>3 DEF MarkBlock
  <2>5. /\ [gossip[p] EXCEPT !.known = known, !.heard = heard, !.number = number] \in PeerRecords
        /\ [gossip[p] EXCEPT !.known = known, !.heard = heard] \in PeerRecords
    <3> HIDE DEF known, heard, number
    <3> QED
      BY <1>p, <2>2, <2>4, Zenon DEF PeerRecords
  <2>6. \/ gossip' = [gossip EXCEPT ![p] = [gossip[p] EXCEPT !.known = known, !.heard = heard, !.number = number]]
        \/ gossip' = [gossip EXCEPT ![p] = [gossip[p] EXCEPT !.known = known, !.heard = heard]]
    BY <1>3, Zenon DEF NewBlockMsg, NewBlockHashesMsg
  <2> HIDE DEF known, heard, number
  <2>7. gossip' \in [GPeers -> PeerRecords]
    BY <1>g, <2>5, <2>6, Zenon
  <2>8. UNCHANGED <<local, cast, told>> /\ (Sync(p) \/ UNCHANGED task)
    BY <1>3, Zenon DEF NewBlockMsg, NewBlockHashesMsg
  <2>9. task' \in [SyncTasks -> TaskRecords]
    BY <2>8, SyncTyped, Zenon DEF GossipTypes
  <2> QED
    BY <2>7, <2>8, <2>9, Zenon DEF GossipTypes
<1>4. ASSUME NEW c \in Casters, Propagate(c) PROVE GossipTypes'
  <2>1. PICK list \in SUBSET GPeers : cast' = [cast EXCEPT ![c] = [cast[c] EXCEPT !.at = "propagating", !.list = list]]
    <3>1. PeersWithoutBlock(cast[c].block) \subseteq GPeers
      BY DEF PeersWithoutBlock, Registered
    <3>2. PICK list \in SUBSET PeersWithoutBlock(cast[c].block) :
             cast' = [cast EXCEPT ![c].at = "propagating", ![c].list = list]
      BY <1>4, Zenon DEF Propagate
    <3>3. list \in SUBSET GPeers
      BY <3>1
    <3> QED
      BY <3>2, <3>3, Zenon
  <2>2. [cast[c] EXCEPT !.at = "propagating", !.list = list] \in CastRecords
    BY <1>c, Zenon DEF CastRecords
  <2> QED
    BY <1>4, <1>k, <2>1, <2>2, Zenon DEF Propagate, GossipTypes
<1>5. ASSUME NEW c \in Casters, Announce(c) PROVE GossipTypes'
  <2>1. NoCast \in CastRecords
    BY DEF NoCast, CastRecords
  <2>2. Announced(cast[c].block) \in SUBSET GPeers /\ Registered \in SUBSET GPeers
    BY DEF Announced, PeersWithoutBlock, Registered
  <2>3. [cast[c] EXCEPT !.at = "announcing", !.list = Announced(cast[c].block), !.seen = Registered] \in CastRecords
    BY <1>c, <2>2, Zenon DEF CastRecords
  <2> QED
    BY <1>5, <1>k, <2>1, <2>3, Zenon DEF Announce, GossipTypes
<1>6. ASSUME NEW c \in Casters, NEW p \in GPeers, SendTo(c, p) \/ SendEnds(c, p) \/ SendFails(c, p) PROVE GossipTypes'
  <2>1. cast[c].block \in Nat
    BY <1>c DEF CastRecords
  <2>2. /\ [gossip[p] EXCEPT !.known = @ \cup {cast[c].block}] \in PeerRecords
        /\ [gossip[p] EXCEPT !.heard = @ \cup {cast[c].block}] \in PeerRecords
        /\ [gossip[p] EXCEPT !.broken = TRUE] \in PeerRecords
    BY <1>p, <2>1, Zenon DEF PeerRecords
  <2>3. /\ [cast[c] EXCEPT !.list = @ \ {p}, !.to = {p}] \in CastRecords
        /\ [cast[c] EXCEPT !.to = {}] \in CastRecords
    BY <1>c, Zenon DEF CastRecords
  <2>4. gossip' \in [GPeers -> PeerRecords]
    BY <1>6, <1>g, <2>2, Zenon DEF SendTo, SendEnds, SendFails
  <2>5. cast' \in [Casters -> CastRecords]
    <3>1. \/ cast' = [cast EXCEPT ![c] = [cast[c] EXCEPT !.list = @ \ {p}, !.to = {p}]]
          \/ cast' = [cast EXCEPT ![c] = [cast[c] EXCEPT !.to = {}]]
      BY <1>6, Zenon DEF SendTo, SendEnds, SendFails
    <3> QED
      BY <1>k, <2>3, <3>1, Zenon
  <2> QED
    BY <1>6, <2>4, <2>5, Zenon DEF SendTo, SendEnds, SendFails, GossipTypes
<1>7. ASSUME NEW c \in Casters, CastDone(c) PROVE GossipTypes'
  <2>1. NoCast \in CastRecords /\ [cast[c] EXCEPT !.at = "announce"] \in CastRecords /\ cast[c].seen \subseteq GPeers
    BY <1>c DEF NoCast, CastRecords
  <2>2. cast' \in [Casters -> CastRecords]
    BY <1>7, <1>k, <2>1, Zenon DEF CastDone
  <2>3. \A t \in told' : t[2] \in GPeers
    BY <1>7, <2>1 DEF CastDone, GossipTypes
  <2> QED
    BY <1>7, <2>2, <2>3, Zenon DEF CastDone, GossipTypes
<1>8. ASSUME NEW b \in 1 .. Top, FetcherInsert(b) \/ Insert(b) \/ InsertFails(b) \/ Produced(b) PROVE GossipTypes'
  <2>1. b \in Nat
    BY GossipAssumption
  <2>2. cast' \in [Casters -> CastRecords]
    BY <1>8, <1>b, <2>1, Zenon DEF FetcherInsert, Insert, InsertFails, Produced, GossipTypes
  <2>3. [Imported(b) EXCEPT !.acceptTxs = TRUE] \in LocalRecords
    <3> DEFINE imported == Imported(b)
    <3>1. imported \in LocalRecords
      BY <1>i, <2>1, Zenon
    <3> HIDE DEF imported
    <3>2. [imported EXCEPT !.acceptTxs = TRUE] \in LocalRecords
      BY <3>1, Zenon DEF LocalRecords
    <3> QED
      BY <3>2, Zenon DEF imported
  <2>4. [local EXCEPT !.acceptTxs = @ \/ ~local.fastSync] \in LocalRecords
    BY Zenon DEF LocalRecords, GossipTypes
  <2>5. local' \in LocalRecords
    BY <1>8, <1>i, <2>1, <2>3, <2>4, Zenon DEF FetcherInsert, Insert, InsertFails, Produced, GossipTypes
  <2> QED
    BY <1>8, <2>2, <2>5, Zenon DEF FetcherInsert, Insert, InsertFails, Produced, GossipTypes
<1>9. CASE ForceSync
  <2>1. BestPeers \subseteq GPeers
    BY DEF BestPeers, Registered
  <2> QED
    BY <1>9, <2>1, SyncTyped, Zenon DEF ForceSync, GossipTypes
<1>10. ASSUME NEW t \in SyncTasks, ReadHead(t) PROVE GossipTypes'
  <2>1. NoTask \in TaskRecords
    BY DEF NoTask, TaskRecords
  <2>2. task[t].peer \in GPeers
    BY <1>10, <1>r, Zenon DEF ReadHead, TaskRecords
  <2>3. gossip[task[t].peer].number \in Nat
    BY <1>p, <2>2 DEF PeerRecords
  <2>4. [task[t] EXCEPT !.at = "mode", !.number = gossip[task[t].peer].number, !.block = local.block] \in TaskRecords
    BY <1>10, <1>r, <1>l, <2>3, ZenonT(60) DEF ReadHead, TaskRecords
  <2> QED
    BY <1>10, <1>t, <2>1, <2>4, Zenon DEF ReadHead, GossipTypes
<1>11. ASSUME NEW t \in SyncTasks, ChooseMode(t) PROVE GossipTypes'
  <2>1. \A mode \in {"fast", "full"} : [task[t] EXCEPT !.at = "run", !.mode = mode] \in TaskRecords
    BY <1>11, <1>r, Zenon DEF ChooseMode, TaskRecords
  <2>2. \E mode \in {"fast", "full"} : task' = [task EXCEPT ![t] = [task[t] EXCEPT !.at = "run", !.mode = mode]]
    BY <1>11, Zenon DEF ChooseMode
  <2>3. local' \in LocalRecords
    BY <1>11, Zenon DEF ChooseMode, Reenabled, LocalRecords, GossipTypes
  <2> QED
    BY <1>11, <1>t, <2>1, <2>2, <2>3, Zenon DEF ChooseMode, GossipTypes
<1>12. ASSUME NEW t \in SyncTasks, SyncStart(t) PROVE GossipTypes'
  <2>1. \A at \in {"failed", "syncing"} : [task[t] EXCEPT !.at = at] \in TaskRecords
    BY <1>12, <1>r DEF SyncStart, TaskRecords
  <2>2. \E at \in {"failed", "syncing"} : task' = [task EXCEPT ![t] = [task[t] EXCEPT !.at = at]]
    BY <1>12, Zenon DEF SyncStart
  <2>3. local' \in LocalRecords
    BY <1>12, Zenon DEF SyncStart, LocalRecords, GossipTypes
  <2> QED
    BY <1>12, <1>t, <2>1, <2>2, <2>3, Zenon DEF SyncStart, GossipTypes
<1>13. ASSUME NEW t \in SyncTasks, SyncEnd(t) PROVE GossipTypes'
  <2>1. \A at \in {"failed", "done"} : [task[t] EXCEPT !.at = at] \in TaskRecords
    BY <1>13, <1>r, ZenonT(60) DEF SyncEnd, TaskRecords
  <2>2. \E at \in {"failed", "done"} : task' = [task EXCEPT ![t] = [task[t] EXCEPT !.at = at]]
    BY <1>13, Zenon DEF SyncEnd
  <2>4. task[t].number \in Nat
    BY <1>r DEF TaskRecords
  <2>5. local' \in LocalRecords
    <3>1. CASE local' = [local EXCEPT !.busy = FALSE]
      BY <3>1, Zenon DEF LocalRecords, GossipTypes
    <3>2. ASSUME NEW n \in local.fast .. task[t].number, NEW block \in {0, n},
                 local' = [local EXCEPT !.busy = FALSE, !.fast = n, !.block = block]
          PROVE  local' \in LocalRecords
      <4>1. n \in Nat /\ block \in Nat
        BY <2>4 DEF LocalRecords, GossipTypes
      <4> QED
        BY <3>2, <4>1, Zenon DEF LocalRecords, GossipTypes
    <3> QED
      BY <1>13, <3>1, <3>2, Zenon DEF SyncEnd
  <2> QED
    BY <1>13, <1>t, <2>1, <2>2, <2>5, Zenon DEF SyncEnd, GossipTypes
<1>14. ASSUME NEW t \in SyncTasks, SyncReturns(t) PROVE GossipTypes'
  <2>1. NoTask \in TaskRecords /\ [NoTask EXCEPT !.at = "cast"] \in TaskRecords
    BY DEF NoTask, TaskRecords
  <2>2. local' \in LocalRecords
    BY <1>14, Zenon DEF SyncReturns, LocalRecords, GossipTypes
  <2> QED
    BY <1>14, <1>t, <2>1, <2>2, Zenon DEF SyncReturns, GossipTypes
<1>15. ASSUME NEW t \in SyncTasks, AnnounceHead(t) PROVE GossipTypes'
  <2>1. NoTask \in TaskRecords
    BY DEF NoTask, TaskRecords
  <2>2. cast' \in [Casters -> CastRecords]
    BY <1>15, <1>b, <1>l, Zenon DEF AnnounceHead
  <2> QED
    BY <1>15, <1>t, <2>1, <2>2, Zenon DEF AnnounceHead, GossipTypes
<1>16. ASSUME NEW fast \in BOOLEAN, NodeRestart(fast) PROVE GossipTypes'
  <2>1. NoTask \in TaskRecords /\ NoPeer \in PeerRecords /\ NoCast \in CastRecords
    BY DEF NoTask, TaskRecords, NoPeer, PeerRecords, NoCast, CastRecords
  <2>2. local' \in LocalRecords
    <3>1. PICK f \in BOOLEAN : local' = [local EXCEPT !.fastSync = f, !.acceptTxs = FALSE, !.busy = FALSE]
      BY <1>16, Zenon DEF NodeRestart
    <3>3. CASE f = TRUE
      BY <3>1, <3>3, Zenon DEF LocalRecords, GossipTypes
    <3>4. CASE f = FALSE
      BY <3>1, <3>4, Zenon DEF LocalRecords, GossipTypes
    <3> QED
      BY <3>3, <3>4, Zenon
  <2> QED
    BY <1>16, <2>1, <2>2, Zenon DEF NodeRestart, GossipTypes
<1>17. CASE UNCHANGED gossipVars
  BY <1>17, Zenon DEF gossipVars, GossipTypes
<1> QED
  BY <1>1, <1>2, <1>3, <1>4, <1>5, <1>6, <1>7, <1>8, <1>9, <1>10, <1>11, <1>12, <1>13, <1>14, <1>15, <1>16, <1>17,
     Zenon DEF GossipNext, CastStep

-----------------------------------------------------------------------------
(* BlockGossip: who has heard of a block.                                  *)

\* A step that keeps the connections of Q, and what they get.
LEMMA HearingKept ==
    ASSUME Hearing, NEW Q,
           \A p \in Q : gossip'[p].up = gossip[p].up,
           \A p \in Q : \A b : GetsIn(gossip, cast, p, b) => GetsIn(gossip', cast', p, b),
           \A p \in GPeers : \A b \in gossip'[p].known : GetsIn(gossip', cast', p, b),
           \A t \in told' : (t \in told /\ t[2] \in Q) \/ (gossip'[t[2]].up /\ GetsIn(gossip', cast', t[2], t[1])),
           \A c \in Casters : (cast'[c] = cast[c] /\ cast[c].seen \subseteq Q) \/ CastSound(gossip', cast', c)
    PROVE  Hearing'
<1>1. \A t \in told' : gossip'[t[2]].up /\ GetsIn(gossip', cast', t[2], t[1])
  BY Zenon DEF Hearing, HearingIn
<1>2. ASSUME NEW c \in Casters, cast'[c] = cast[c], cast[c].seen \subseteq Q PROVE CastSound(gossip', cast', c)
  <2>1. CastSound(gossip, cast, c)
    BY DEF Hearing, HearingIn
  <2>2. ASSUME NEW p \in cast[c].seen
        PROVE  gossip'[p].up /\ (p \in cast[c].list \/ GetsIn(gossip', cast', p, cast[c].block))
    BY <1>2, <2>1 DEF CastSound
  <2> QED
    BY <1>2, <2>1, <2>2, Zenon DEF CastSound
<1> QED
  BY <1>1, <1>2, Zenon DEF Hearing, HearingIn

\* A step that keeps all connections.
LEMMA HearingSame ==
    ASSUME GossipTypes, Hearing,
           \A p \in GPeers : gossip'[p].up = gossip[p].up,
           \A p \in GPeers : \A b : GetsIn(gossip, cast, p, b) => GetsIn(gossip', cast', p, b),
           \A p \in GPeers : \A b \in gossip'[p].known : GetsIn(gossip', cast', p, b),
           \A t \in told' : t \in told \/ (gossip'[t[2]].up /\ GetsIn(gossip', cast', t[2], t[1])),
           \A c \in Casters : cast'[c] = cast[c] \/ CastSound(gossip', cast', c)
    PROVE  Hearing'
<1>1. \A c \in Casters : (cast'[c] = cast[c] /\ cast[c].seen \subseteq GPeers) \/ CastSound(gossip', cast', c)
  BY DEF GossipTypes, CastRecords
<1>2. \A t \in told' : (t \in told /\ t[2] \in GPeers) \/ (gossip'[t[2]].up /\ GetsIn(gossip', cast', t[2], t[1]))
  BY Zenon DEF GossipTypes
<1> QED
  BY <1>1, <1>2, HearingKept, Zenon

\* A broadcast that starts has nothing to send.
LEMMA Broadcasts ==
    ASSUME GossipTypes, Hearing, NEW c \in Casters, NEW at \in {"propagate", "announce"}, NEW b, NEW loop,
           StartCast(c, at, b, loop), UNCHANGED <<gossip, told>>
    PROVE  Hearing'
<1>1. /\ cast'[c] = [NoCast EXCEPT !.at = at, !.block = b, !.loop = loop]
      /\ \A d \in Casters : d # c => cast'[d] = cast[d]
      /\ cast[c].at = "idle"
  BY DEF StartCast, GossipTypes
<1>2. cast[c].to = {}
  BY <1>1 DEF Hearing, HearingIn, CastSound
<1>3. \A p \in GPeers : \A q : GetsIn(gossip, cast, p, q) => GetsIn(gossip', cast', p, q)
  <2> TAKE p \in GPeers
  <2> QED
    BY <1>1, <1>2 DEF GetsIn
<1>4. CastSound(gossip', cast', c)
  BY <1>1 DEF CastSound, NoCast
<1>5. \A p \in GPeers : \A q \in gossip'[p].known : GetsIn(gossip', cast', p, q)
  BY <1>3, Zenon DEF Hearing, HearingIn
<1> QED
  BY <1>1, <1>3, <1>4, <1>5, HearingSame, Zenon

\* Every peer that was connected when a block was announced gets it.
LEMMA HearingNext == GossipTypes /\ Hearing /\ [GossipNext]_gossipVars => Hearing'
<1> SUFFICES ASSUME GossipTypes, Hearing, [GossipNext]_gossipVars PROVE Hearing'
  OBVIOUS
<1>t. /\ \A t \in told : t[2] \in GPeers
      /\ \A c \in Casters : cast[c].seen \subseteq GPeers /\ cast[c].list \subseteq GPeers /\ cast[c].to \subseteq GPeers
  BY DEF GossipTypes, CastRecords
<1>h. HearingIn(gossip, cast, told)
  BY DEF Hearing
<1>s. \A c \in Casters : CastSound(gossip, cast, c)
  BY <1>h DEF HearingIn
<1>k. \A p \in GPeers : \A b \in gossip[p].known : GetsIn(gossip, cast, p, b)
  BY <1>h DEF HearingIn
<1>o. \A c \in Casters : \A p, q \in cast[c].to : p = q
  BY <1>s DEF CastSound
<1>1. ASSUME NEW p \in GPeers, NEW n \in 0 .. Top, PeerUp(p, n) PROVE Hearing'
  <2>1. /\ UNCHANGED <<cast, told>> /\ ~gossip[p].up /\ gossip'[p].known = {}
        /\ \A q \in GPeers \ {p} : gossip'[q] = gossip[q]
    BY <1>1 DEF PeerUp, NoPeer, GossipTypes
  <2>2. \A q \in GPeers \ {p} : \A b : GetsIn(gossip, cast, q, b) => GetsIn(gossip', cast', q, b)
    BY <2>1, Zenon DEF GetsIn
  <2>3. \A q \in GPeers : \A b \in gossip'[q].known : GetsIn(gossip', cast', q, b)
    BY <1>k, <2>1, <2>2
  <2>4. (\A c \in Casters : p \notin cast[c].seen) /\ \A t \in told : t[2] # p
    BY <1>h, <1>s, <2>1 DEF HearingIn, CastSound
  <2>5. \A c \in Casters : (cast'[c] = cast[c] /\ cast[c].seen \subseteq GPeers \ {p}) \/ CastSound(gossip', cast', c)
    BY <1>t, <2>1, <2>4
  <2>6. \A t \in told' : (t \in told /\ t[2] \in GPeers \ {p}) \/ (gossip'[t[2]].up /\ GetsIn(gossip', cast', t[2], t[1]))
    BY <1>t, <2>1, <2>4
  <2>7. \A q \in GPeers \ {p} : gossip'[q].up = gossip[q].up
    BY <2>1
  <2> QED
    BY <2>2, <2>3, <2>5, <2>6, <2>7, HearingKept, Zenon
<1>2. ASSUME NEW p \in GPeers, PeerDown(p) PROVE Hearing'
  <2>1. /\ gossip'[p].known = {}
        /\ \A q \in GPeers \ {p} : gossip'[q] = gossip[q]
        /\ told' = {t \in told : t[2] # p}
    BY <1>2 DEF PeerDown, NoPeer, GossipTypes
  <2>2. \A c \in Casters : /\ cast'[c].at = cast[c].at /\ cast'[c].block = cast[c].block
                           /\ cast'[c].list = cast[c].list \ {p} /\ cast'[c].to = cast[c].to \ {p}
                           /\ cast'[c].seen = cast[c].seen \ {p}
    BY <1>2 DEF PeerDown, GossipTypes, CastRecords
  <2>3. \A q \in GPeers \ {p} : \A b : GetsIn(gossip, cast, q, b) => GetsIn(gossip', cast', q, b)
    BY <2>1, <2>2 DEF GetsIn
  <2>4. \A q \in GPeers : \A b \in gossip'[q].known : GetsIn(gossip', cast', q, b)
    BY <1>k, <2>1, <2>3
  <2>5. \A c \in Casters : CastSound(gossip', cast', c)
    BY <1>s, <1>t, <2>1, <2>2, <2>3 DEF CastSound
  <2>6. \A t \in told' : (t \in told /\ t[2] \in GPeers \ {p}) \/ (gossip'[t[2]].up /\ GetsIn(gossip', cast', t[2], t[1]))
    BY <1>t, <2>1
  <2>7. \A q \in GPeers \ {p} : gossip'[q].up = gossip[q].up
    BY <2>1
  <2> QED
    BY <2>3, <2>4, <2>5, <2>6, <2>7, HearingKept, Zenon
<1>3. ASSUME NEW p \in GPeers, NEW b \in 1 .. Top + 1, NEW kept \in Kept(gossip[p].known),
             NewBlockMsg(p, b, kept) \/ NewBlockHashesMsg(p, b, kept)
      PROVE  Hearing'
  <2>1. /\ gossip'[p].known = MarkBlock(gossip[p].known, b, kept) /\ gossip'[p].heard = gossip[p].heard \cup {b}
        /\ gossip'[p].up = gossip[p].up /\ gossip'[p].broken = gossip[p].broken
        /\ \A q \in GPeers : q # p => gossip'[q] = gossip[q]
        /\ UNCHANGED <<cast, told>>
    BY <1>3 DEF NewBlockMsg, NewBlockHashesMsg, GossipTypes, PeerRecords
  <2>2. MarkBlock(gossip[p].known, b, kept) \subseteq gossip[p].known \cup {b}
    BY DEF MarkBlock, Kept
  <2>3. \A q \in GPeers : \A n : GetsIn(gossip, cast, q, n) => GetsIn(gossip', cast', q, n)
    BY <2>1 DEF GetsIn
  <2>4. GetsIn(gossip', cast', p, b)
    BY <2>1 DEF GetsIn
  <2>5. \A q \in GPeers : \A n \in gossip'[q].known : GetsIn(gossip', cast', q, n)
    BY <1>k, <2>1, <2>2, <2>3, <2>4
  <2>6. \A q \in GPeers : gossip'[q].up = gossip[q].up
    BY <2>1
  <2> QED
    BY <2>1, <2>3, <2>5, <2>6, HearingSame, Zenon
<1>4. ASSUME NEW c \in Casters, Propagate(c) PROVE Hearing'
  <2>1. /\ UNCHANGED <<gossip, told>> /\ cast[c].at = "propagate"
        /\ cast'[c].at = "propagating" /\ cast'[c].to = cast[c].to /\ cast'[c].seen = cast[c].seen
        /\ cast'[c].block = cast[c].block
        /\ \A d \in Casters : d # c => cast'[d] = cast[d]
    BY <1>4 DEF Propagate, GossipTypes, CastRecords
  <2>2. \A p \in GPeers : \A b : GetsIn(gossip, cast, p, b) => GetsIn(gossip', cast', p, b)
    BY <2>1 DEF GetsIn
  <2>3. CastSound(gossip', cast', c)
    BY <1>s, <2>1 DEF CastSound
  <2>4. \A p \in GPeers : \A b \in gossip'[p].known : GetsIn(gossip', cast', p, b)
    BY <1>k, <2>1, <2>2
  <2> QED
    BY <2>1, <2>2, <2>3, <2>4, HearingSame, Zenon
<1>5. ASSUME NEW c \in Casters, Announce(c) PROVE Hearing'
  <2>1. /\ UNCHANGED <<gossip, told>> /\ cast[c].at = "announce"
        /\ \A d \in Casters : d # c => cast'[d] = cast[d]
    BY <1>5 DEF Announce, GossipTypes, CastRecords
  <2>2. cast[c].to = {}
    BY <1>s, <2>1 DEF CastSound
  <2>3. \A p \in GPeers : \A b : GetsIn(gossip, cast, p, b) => GetsIn(gossip', cast', p, b)
    BY <2>1, <2>2 DEF GetsIn
  <2>4. CastSound(gossip', cast', c)
    <3>1. CASE cast'[c] = NoCast
      BY <3>1 DEF CastSound, NoCast
    <3>2. CASE cast'[c] # NoCast
      <4>1. /\ cast'[c].at = "announcing" /\ cast'[c].block = cast[c].block
            /\ cast'[c].list = Announced(cast[c].block) /\ cast'[c].seen = Registered
            /\ cast'[c].to = cast[c].to
        BY <1>5, <3>2 DEF Announce, GossipTypes, CastRecords
      <4>2. \A p \in Registered : gossip[p].up /\ p \in GPeers
                                  /\ (p \in Announced(cast[c].block) \/ cast[c].block \in gossip[p].known)
        BY DEF Registered, Announced, PeersWithoutBlock
      <4>3. \A p \in Registered : p \in Announced(cast[c].block) \/ GetsIn(gossip', cast', p, cast[c].block)
        BY <1>k, <2>3, <4>2
      <4> QED
        BY <2>1, <2>2, <4>1, <4>2, <4>3 DEF CastSound
    <3> QED
      BY <3>1, <3>2
  <2>5. \A p \in GPeers : \A b \in gossip'[p].known : GetsIn(gossip', cast', p, b)
    BY <1>k, <2>1, <2>3
  <2> QED
    BY <2>1, <2>3, <2>4, <2>5, HearingSame, Zenon
<1>6. ASSUME NEW c \in Casters, NEW p \in GPeers, SendTo(c, p) PROVE Hearing'
  <2>1. /\ gossip'[p].known = gossip[p].known \cup {cast[c].block}
        /\ \A q \in GPeers : q # p => gossip'[q] = gossip[q]
        /\ \A q \in GPeers : /\ gossip'[q].heard = gossip[q].heard /\ gossip'[q].broken = gossip[q].broken
                             /\ gossip'[q].up = gossip[q].up
        /\ UNCHANGED told /\ cast[c].to = {} /\ cast'[c].to = {p} /\ p \in cast[c].list
        /\ cast'[c].at = cast[c].at /\ cast'[c].block = cast[c].block
        /\ cast'[c].list = cast[c].list \ {p} /\ cast'[c].seen = cast[c].seen
        /\ \A d \in Casters : d # c => cast'[d] = cast[d]
    BY <1>6 DEF SendTo, GossipTypes, PeerRecords, CastRecords
  <2>2. \A q \in GPeers : \A b : GetsIn(gossip, cast, q, b) => GetsIn(gossip', cast', q, b)
    BY <2>1 DEF GetsIn
  <2>3. GetsIn(gossip', cast', p, cast[c].block)
    BY <2>1 DEF GetsIn
  <2>4. \A q \in GPeers : \A b \in gossip'[q].known : GetsIn(gossip', cast', q, b)
    BY <1>k, <2>1, <2>2, <2>3
  <2>5. CastSound(gossip', cast', c)
    BY <1>s, <1>t, <2>1, <2>2, <2>3 DEF CastSound
  <2> QED
    BY <2>1, <2>2, <2>4, <2>5, HearingSame, Zenon
<1>7. ASSUME NEW c \in Casters, NEW p \in GPeers, SendEnds(c, p) \/ SendFails(c, p) PROVE Hearing'
  <2>1. /\ \A q \in GPeers : /\ gossip'[q].known = gossip[q].known /\ gossip'[q].up = gossip[q].up
                             /\ gossip[q].heard \subseteq gossip'[q].heard /\ (gossip[q].broken => gossip'[q].broken)
        /\ cast[c].block \in gossip'[p].heard \/ gossip'[p].broken
        /\ UNCHANGED told /\ cast'[c].to = {}
        /\ cast'[c].at = cast[c].at /\ cast'[c].block = cast[c].block
        /\ cast'[c].list = cast[c].list /\ cast'[c].seen = cast[c].seen
        /\ \A d \in Casters : d # c => cast'[d] = cast[d]
    <3>1. CASE SendEnds(c, p)
      BY <3>1 DEF SendEnds, GossipTypes, PeerRecords, CastRecords
    <3>2. CASE SendFails(c, p)
      BY <3>2 DEF SendFails, GossipTypes, PeerRecords, CastRecords
    <3> QED
      BY <1>7, <3>1, <3>2
  <2>2. cast[c].to \subseteq {p}
    BY <1>7, <1>o DEF SendEnds, SendFails
  <2>3. \A q \in GPeers : \A b : GetsIn(gossip, cast, q, b) => GetsIn(gossip', cast', q, b)
    BY <2>1, <2>2 DEF GetsIn
  <2>4. \A q \in GPeers : \A b \in gossip'[q].known : GetsIn(gossip', cast', q, b)
    BY <1>k, <2>1, <2>3
  <2>5. CastSound(gossip', cast', c)
    BY <1>s, <1>t, <2>1, <2>3 DEF CastSound
  <2> QED
    BY <2>1, <2>3, <2>4, <2>5, HearingSame, Zenon
<1>8. ASSUME NEW c \in Casters, CastDone(c) PROVE Hearing'
  <2>1. /\ UNCHANGED gossip /\ cast[c].list = {} /\ cast[c].to = {}
        /\ told' = told \cup {<<cast[c].block, p>> : p \in cast[c].seen}
        /\ \A d \in Casters : d # c => cast'[d] = cast[d]
    BY <1>8 DEF CastDone, GossipTypes
  <2>2. \A p \in GPeers : \A b : GetsIn(gossip, cast, p, b) => GetsIn(gossip', cast', p, b)
    BY <2>1 DEF GetsIn
  <2>3. CastSound(gossip', cast', c)
    <3>1. CASE cast'[c] = NoCast
      BY <3>1 DEF CastSound, NoCast
    <3>2. CASE cast'[c] # NoCast
      <4>1. /\ cast[c].at = "propagating" /\ cast'[c].at = "announce" /\ cast'[c].seen = cast[c].seen
            /\ cast'[c].list = cast[c].list /\ cast'[c].to = cast[c].to
        BY <1>8, <3>2 DEF CastDone, GossipTypes, CastRecords
      <4> QED
        BY <1>s, <2>1, <4>1 DEF CastSound
    <3> QED
      BY <3>1, <3>2
  <2>4. \A p \in cast[c].seen : gossip'[p].up /\ GetsIn(gossip', cast', p, cast[c].block)
    BY <1>s, <1>t, <2>1, <2>2 DEF CastSound
  <2>5. \A t \in told' : t \in told \/ (gossip'[t[2]].up /\ GetsIn(gossip', cast', t[2], t[1]))
    <3> SUFFICES ASSUME NEW t \in told', t \notin told PROVE gossip'[t[2]].up /\ GetsIn(gossip', cast', t[2], t[1])
      BY <1>t
    <3>1. PICK p \in cast[c].seen : t = <<cast[c].block, p>>
      BY <2>1
    <3>2. t[1] = cast[c].block /\ t[2] = p
      BY <3>1
    <3> QED
      BY <2>4, <3>2, Zenon
  <2>6. \A p \in GPeers : \A b \in gossip'[p].known : GetsIn(gossip', cast', p, b)
    BY <1>k, <2>1, <2>2
  <2> QED
    BY <2>1, <2>2, <2>3, <2>5, <2>6, HearingSame, Zenon
<1>9. CASE UNCHANGED <<gossip, cast, told>>
  BY <1>9 DEF Hearing, HearingIn, CastSound, GetsIn
<1>10. ASSUME NEW b \in 1 .. Top, FetcherInsert(b) \/ Insert(b) \/ InsertFails(b) \/ Produced(b) PROVE Hearing'
  BY <1>9, <1>10, Broadcasts, Zenon DEF FetcherInsert, Insert, InsertFails, Produced
<1>11. ASSUME NEW t \in SyncTasks, AnnounceHead(t) PROVE Hearing'
  BY <1>11, Broadcasts, Zenon DEF AnnounceHead
<1>12. ASSUME NEW fast \in BOOLEAN, NodeRestart(fast) PROVE Hearing'
  BY <1>12 DEF NodeRestart, Hearing, HearingIn, CastSound, NoPeer, NoCast
<1>13. ForceSync \/ (\E t \in SyncTasks : ReadHead(t) \/ ChooseMode(t) \/ SyncStart(t) \/ SyncEnd(t) \/ SyncReturns(t))
           \/ UNCHANGED gossipVars => UNCHANGED <<gossip, cast, told>>
  BY Zenon DEF gossipVars, ForceSync, ReadHead, ChooseMode, SyncStart, SyncEnd, SyncReturns
<1> QED
  BY <1>1, <1>2, <1>3, <1>4, <1>5, <1>6, <1>7, <1>8, <1>9, <1>10, <1>11, <1>12, <1>13, ZenonT(60) DEF GossipNext, CastStep

-----------------------------------------------------------------------------
(* BlockGossip: the mode of a synchronisation.                             *)

\* Nothing that a mode was chosen by changes, and no task goes on.
LEMMA ModesSame ==
    ASSUME Modes, UNCHANGED local,
           \A t \in SyncTasks : task'[t] = task[t] \/ task'[t].at \notin {"mode", "run", "syncing"}
    PROVE  Modes'
BY ZenonT(60) DEF Modes

\* A mode that was chosen stays right: heads only rise, and a fast mode that is
\* switched off, or on again, meets no full synchronisation of an empty chain.
LEMMA ModesNext == GossipTypes /\ Modes /\ [GossipNext]_gossipVars => Modes'
<1> SUFFICES ASSUME GossipTypes, Modes, [GossipNext]_gossipVars PROVE Modes'
  OBVIOUS
<1>n. local.block \in Nat /\ local.fast \in Nat /\ local.block <= local.fast
  BY DEF GossipTypes, LocalRecords, Modes
<1>1. ASSUME NEW p, Sync(p), UNCHANGED local PROVE Modes'
  <2>1. \A t \in SyncTasks : task'[t] = task[t] \/ task'[t].at = "start"
    BY <1>1 DEF Sync, NoTask, GossipTypes, PeerRecords, LocalRecords, CastRecords, TaskRecords
  <2> QED
    BY <1>1, <2>1, ModesSame
<1>2. ASSUME NEW b \in 1 .. Top, Insert(b) \/ InsertFails(b) \/ Produced(b) PROVE Modes'
  <2>0. b \in Nat
    BY GossipAssumption
  <2>1. UNCHANGED task /\ b \in Nat
    BY <1>2, <2>0, Zenon DEF Insert, InsertFails, Produced
  <2>2. /\ local'.block \in {local.block, IF b > local.block THEN b ELSE local.block}
        /\ local'.fast = IF local'.block = local.block THEN local'.fast ELSE IF b > local.fast THEN b ELSE local.fast
        /\ local'.fast \in {local.fast, b} /\ local'.fast >= local.fast
        /\ local'.fastSync = local.fastSync /\ local'.block <= local'.fast
        /\ local'.fast > local.fast => local'.block = local'.fast
    <3>1. local' \in {local, [local EXCEPT !.acceptTxs = @ \/ ~local.fastSync], Imported(b),
                      [Imported(b) EXCEPT !.acceptTxs = TRUE]}
      BY <1>2, Zenon DEF Insert, InsertFails, Produced
    <3>2. /\ Imported(b).block = (IF b > local.block THEN b ELSE local.block)
          /\ Imported(b).fast = (IF b > local.fast THEN b ELSE local.fast)
          /\ Imported(b).fastSync = local.fastSync /\ Imported(b) \in LocalRecords
      BY <1>n, <2>1 DEF Imported, GossipTypes, LocalRecords
    <3>3. \/ local'.block = local.block /\ local'.fast = local.fast /\ local'.fastSync = local.fastSync
          \/ /\ local'.block = Imported(b).block /\ local'.fast = Imported(b).fast
             /\ local'.fastSync = Imported(b).fastSync
      BY <3>1, <3>2 DEF GossipTypes, LocalRecords
    <3> QED
      BY <1>n, <2>1, <3>2, <3>3
  <2>3. local'.block \in Nat /\ local'.block >= local.block /\ (local'.block = 0 => local'.fast = local.fast)
    BY <1>n, <2>1, <2>2
  <2>4. \A t \in SyncTasks : task[t].at = "mode" => task[t].block <= local'.block
    <3> TAKE t \in SyncTasks
    <3>1. task[t].block \in Nat
      BY DEF GossipTypes, TaskRecords
    <3> QED
      BY <1>n, <2>3, <3>1 DEF Modes
  <2>5. local'.block = 0 => local.block = 0
    BY <1>n, <2>3
  <2>6. local'.block = 0 \/ local'.block > 0
    BY <2>3
  <2>7. local.block = 0 => ~(local.block > 0)
    OBVIOUS
  <2> QED
    BY <2>1, <2>2, <2>3, <2>4, <2>5, <2>6, <2>7 DEF Modes
<1>3. ASSUME NEW t \in SyncTasks, ReadHead(t) PROVE Modes'
  BY <1>3 DEF ReadHead, Modes, GossipTypes, PeerRecords, LocalRecords, CastRecords, TaskRecords, NoTask
<1>4. ASSUME NEW t \in SyncTasks, ChooseMode(t) PROVE Modes'
  <2>1. /\ task[t].at = "mode" /\ task'[t].at = "run"
        /\ \A u \in SyncTasks : u # t => task'[u] = task[u]
        /\ local'.block = local.block /\ local'.fast = local.fast
    BY <1>4 DEF ChooseMode, GossipTypes, LocalRecords, TaskRecords
  <2>2. CASE local.fastSync \/ Reenabled(task[t].block)
    <3>1. local'.fastSync /\ task'[t].mode = "fast"
      BY <1>4, <2>2, Zenon DEF ChooseMode, GossipTypes, LocalRecords, TaskRecords
    <3>2. ~(local.fast = 0 /\ ~local.fastSync) \/ local.block > 0
      BY <2>2, <1>n DEF Reenabled
    <3> QED
      BY <2>1, <3>1, <3>2, Zenon DEF Modes
  <2>3. CASE ~(local.fastSync \/ Reenabled(task[t].block))
    <3>1. ~local'.fastSync /\ ~local.fastSync /\ task'[t].mode = "full"
      BY <1>4, <2>3 DEF ChooseMode, GossipTypes, LocalRecords, TaskRecords
    <3>2. local.block > 0 \/ local.fast = 0
      <4>1. task[t].block \in Nat /\ task[t].block <= local.block
        BY <2>1 DEF GossipTypes, TaskRecords, Modes
      <4> QED
        BY <2>3, <4>1, <1>n DEF Reenabled
    <3> QED
      BY <2>1, <3>1, <3>2, Zenon DEF Modes
  <2> QED
    BY <2>2, <2>3
<1>5. ASSUME NEW t \in SyncTasks, SyncStart(t) PROVE Modes'
  <2>1. /\ task[t].at = "run" /\ task'[t].at \in {"failed", "syncing"} /\ task'[t].mode = task[t].mode
        /\ \A u \in SyncTasks : u # t => task'[u] = task[u]
        /\ local'.fastSync = local.fastSync /\ local'.block = local.block /\ local'.fast = local.fast
    BY <1>5 DEF SyncStart, GossipTypes, PeerRecords, LocalRecords, CastRecords, TaskRecords
  <2> QED
    BY <2>1 DEF Modes
<1>6. ASSUME NEW t \in SyncTasks, SyncEnd(t) PROVE Modes'
  <2>1. /\ task[t].at = "syncing" /\ task'[t].at \in {"failed", "done"}
        /\ \A u \in SyncTasks : u # t => task'[u] = task[u]
    <3>1. PICK at \in {"failed", "done"} : task' = [task EXCEPT ![t] = [task[t] EXCEPT !.at = at]]
      BY <1>6, Zenon DEF SyncEnd
    <3>2. task[t].at = "syncing"
      BY <1>6, Zenon DEF SyncEnd
    <3> QED
      BY <3>1, <3>2 DEF GossipTypes, TaskRecords
  <2>2. CASE local' = [local EXCEPT !.busy = FALSE]
    <3>1. local'.block = local.block /\ local'.fast = local.fast /\ local'.fastSync = local.fastSync
      BY <2>2 DEF GossipTypes, LocalRecords
    <3> QED
      BY <2>1, <3>1, Zenon DEF Modes
  <2>3. ASSUME NEW n \in local.fast .. task[t].number, NEW block \in {0, n},
               local' = [local EXCEPT !.busy = FALSE, !.fast = n, !.block = block],
               block = n \/ (task[t].mode = "fast" /\ local.block = 0)
        PROVE  Modes'
    <3>1. local'.block = block /\ local'.fast = n /\ local'.fastSync = local.fastSync
      BY <2>3 DEF GossipTypes, LocalRecords
    <3>2. n \in Nat /\ n >= local.fast
      <4>2. task[t].number \in Nat
        BY DEF GossipTypes, TaskRecords
      <4> QED
        BY <1>n, <4>2
    <3>3. block <= n /\ local.block <= block
      BY <1>n, <2>3, <3>2
    <3>4. \A u \in SyncTasks : task'[u].at = "mode" => task'[u].block <= local'.block
      <4> SUFFICES ASSUME NEW u \in SyncTasks, u # t, task[u].at = "mode" PROVE task[u].block <= block
        BY <2>1, <3>1
      <4>1. task[u].block \in Nat /\ task[u].block <= local.block
        BY DEF Modes, GossipTypes, TaskRecords
      <4> QED
        BY <1>n, <3>2, <3>3, <4>1
    <3>5. ASSUME NEW u \in SyncTasks, u # t, task[u].at \in {"run", "syncing"}
          PROVE  /\ task[u].mode = "full" => block > 0 \/ (n = 0 /\ ~local.fastSync)
                 /\ task[u].mode = "fast" => block > 0 \/ local.fastSync
      <4>1. CASE local.block > 0
        BY <1>n, <3>2, <3>3, <4>1
      <4>2. CASE local.block = 0
        <5>1. /\ task[u].mode = "full" => local.fast = 0 /\ ~local.fastSync
              /\ task[u].mode = "fast" => local.fastSync
              /\ task[t].mode = "fast" => local.fastSync
          BY <2>1, <3>5, <4>2 DEF Modes
        <5>2. block = n \/ local.fastSync
          BY <2>3, <5>1, Zenon
        <5>3. block > 0 \/ n = 0 \/ local.fastSync
          BY <3>2, <5>2
        <5> QED
          BY <5>1, <5>3, Zenon
      <4> QED
        BY <1>n, <4>1, <4>2
    <3> QED
      BY <2>1, <3>1, <3>3, <3>4, <3>5, Zenon DEF Modes
  <2> QED
    BY <1>6, <2>2, <2>3, Zenon DEF SyncEnd
<1>7. ASSUME NEW t \in SyncTasks, SyncReturns(t) PROVE Modes'
  <2>1. /\ task'[t].at \in {"idle", "cast"}
        /\ \A u \in SyncTasks : u # t => task'[u] = task[u]
    BY <1>7 DEF SyncReturns, GossipTypes, TaskRecords, NoTask
  <2>2. /\ local'.fastSync <=> (local.fastSync /\ local.block = 0)
        /\ local'.block = local.block /\ local'.fast = local.fast
    BY <1>7, Zenon DEF SyncReturns, GossipTypes, LocalRecords
  <2>3. local.block > 0 \/ local.block = 0
    BY <1>n
  <2> QED
    BY <2>1, <2>2, <2>3, Zenon DEF Modes
<1>8. ASSUME NEW t \in SyncTasks, AnnounceHead(t) PROVE Modes'
  <2>1. \A u \in SyncTasks : task'[u] = task[u] \/ task'[u].at = "idle"
    BY <1>8 DEF AnnounceHead, NoTask, GossipTypes, PeerRecords, LocalRecords, CastRecords, TaskRecords
  <2> QED
    BY <1>8, <2>1, ModesSame DEF AnnounceHead
<1>9. ASSUME NEW fast \in BOOLEAN, NodeRestart(fast) PROVE Modes'
  <2>1. \A u \in SyncTasks : task'[u].at = "idle"
    BY <1>9 DEF NodeRestart, NoTask
  <2>2. local'.block = local.block /\ local'.fast = local.fast
    BY <1>9 DEF NodeRestart, GossipTypes, PeerRecords, LocalRecords, CastRecords, TaskRecords
  <2> QED
    BY <2>1, <2>2 DEF Modes
<1>10. CASE UNCHANGED <<local, task>>
  BY <1>10 DEF Modes
<1>11. \/ UNCHANGED <<local, task>>
       \/ \E b \in 1 .. Top : Insert(b) \/ InsertFails(b) \/ Produced(b)
       \/ \E p : Sync(p) /\ UNCHANGED local
       \/ \E fast \in BOOLEAN : NodeRestart(fast)
       \/ \E t \in SyncTasks : \/ ReadHead(t) \/ ChooseMode(t) \/ SyncStart(t) \/ SyncEnd(t) \/ SyncReturns(t)
                               \/ AnnounceHead(t)
  <2>1. ForceSync => UNCHANGED <<local, task>> \/ \E p : Sync(p) /\ UNCHANGED local
    BY Zenon DEF ForceSync
  <2>2. (\E c \in Casters : CastStep(c)) \/ (\E b \in 1 .. Top : FetcherInsert(b)) => UNCHANGED <<local, task>>
    BY Zenon DEF CastStep, Propagate, Announce, CastDone, SendTo, SendEnds, SendFails, FetcherInsert
  <2>3. ASSUME NEW p \in GPeers
        PROVE  PeerDown(p) \/ (\E n \in 0 .. Top : PeerUp(p, n)) => UNCHANGED <<local, task>>
    BY Zenon DEF PeerDown, PeerUp
  <2>4. ASSUME NEW p \in GPeers, NEW b \in 1 .. Top + 1, NEW kept, NewBlockMsg(p, b, kept)
        PROVE  UNCHANGED <<local, task>> \/ \E q : Sync(q) /\ UNCHANGED local
    BY <2>4, Zenon DEF NewBlockMsg
  <2>5. ASSUME NEW p \in GPeers, NEW b \in 1 .. Top + 1, NEW kept, NewBlockHashesMsg(p, b, kept)
        PROVE  UNCHANGED <<local, task>>
    BY <2>5, Zenon DEF NewBlockHashesMsg
  <2>6. UNCHANGED gossipVars => UNCHANGED <<local, task>>
    BY Zenon DEF gossipVars
  <2> QED
    BY <2>1, <2>2, <2>3, <2>4, <2>5, <2>6, Zenon DEF GossipNext
<1> QED
  BY <1>1, <1>2, <1>3, <1>4, <1>5, <1>6, <1>7, <1>8, <1>9, <1>10, <1>11, Zenon

\* Whatever peers come and go, sends fail and broadcasts of the fetcher, the
\* producer and synchronise overlap (handler.go BroadcastBlock, peer.go
\* SendNewBlock, sync.go synchronise): a peer is marked as knowing a block only if
\* it has it from us or from itself, is being sent it, or has a broken connection;
\* so is every peer that was connected at a finished announcement; and no full
\* synchronisation runs over what an interrupted fast one left behind.
THEOREM GossipSoundness == GossipSpec => []GossipSound
<1>1. GossipInit => GossipInv
  <2> SUFFICES ASSUME GossipInit PROVE GossipInv
    OBVIOUS
  <2>1. GossipTypes
    BY DEF GossipInit, GossipTypes, PeerRecords, LocalRecords, CastRecords, TaskRecords, NoPeer, NoCast, NoTask
  <2>2. Hearing
    BY DEF GossipInit, Hearing, HearingIn, CastSound, NoPeer, NoCast
  <2>3. Modes
    BY DEF GossipInit, Modes, NoTask
  <2> QED
    BY <2>1, <2>2, <2>3, Zenon DEF GossipInv
<1>2. GossipInv /\ [GossipNext]_gossipVars => GossipInv'
  BY GossipTypesNext, HearingNext, ModesNext, Zenon DEF GossipInv
<1>3. GossipInv => GossipSound
  <2> SUFFICES ASSUME GossipInv PROVE GossipSound
    OBVIOUS
  <2>1. \A p \in Registered : \A b \in gossip[p].known : Gets(p, b)
    BY DEF GossipInv, Hearing, HearingIn, GetsIn, Gets, Registered
  <2>2. \A t \in told : gossip[t[2]].up /\ Gets(t[2], t[1])
    BY DEF GossipInv, Hearing, HearingIn, GetsIn, Gets
  <2>3. \A t \in SyncTasks : task[t].at = "syncing" /\ task[t].mode = "full" => ~(local.block = 0 /\ local.fast > 0)
    BY DEF GossipInv, GossipTypes, LocalRecords, Modes
  <2> QED
    BY <2>1, <2>2, <2>3, Zenon DEF GossipSound
<1> QED
  BY <1>1, <1>2, <1>3, PTL DEF GossipSpec

-----------------------------------------------------------------------------
(* TxSync: types.                                                          *)

AllTxs == Range(StartTxs) \cup Range(NewTxs)
TxSets == SUBSET AllTxs
ConnRecords == [at : {"none", "up", "down"}, synced : BOOLEAN, known : SUBSET AllTxs, has : SUBSET AllTxs]
SyncRecords == [conn : TxConns, txs : Seq(AllTxs)]
PackRecords == [conn : TxConns, txs : Seq(AllTxs), res : {"sending", "ok", "failed"}]

Syncs(pending) == pending \in [DOMAIN pending -> SyncRecords]
Packs(pack) == pack = <<>> \/ \E p \in PackRecords : pack = <<p>>

TxTypes ==
    /\ txConn \in [TxConns -> ConnRecords]
    /\ txLoop = [pending |-> txLoop.pending, pack |-> txLoop.pack]
    /\ Syncs(txLoop.pending) /\ Packs(txLoop.pack)
    /\ txPool \in Seq(AllTxs) /\ Len(txPool) >= Len(StartTxs)

\* A node has one connection that is up; what a connection is known to have it
\* has, as long as no send to it has failed.
Connections ==
    /\ \A c, d \in TxConns : txConn[c].at = "up" /\ txConn[d].at = "up" /\ TxNode[c] = TxNode[d] => c = d
    /\ \A c \in TxConns : txConn[c].at = "none" => ~txConn[c].synced
    /\ \A c \in TxConns : txConn[c].at # "down" => txConn[c].known \subseteq txConn[c].has

TxSyncInv == TxTypes /\ Connections /\ TxsRelayed

\* The two places where a transaction can be on its way to a connection.
InPack(pack, c) ==
    IF pack # <<>> /\ pack[1].conn = c /\ pack[1].res = "sending" THEN Range(pack[1].txs) ELSE {}
InSync(pending, c) ==
    IF TxNode[c] \in DOMAIN pending /\ pending[TxNode[c]].conn = c THEN Range(pending[TxNode[c]].txs) ELSE {}

\* What is sent and what is left of a sequence are all of it.
LEMMA PackAndRest ==
    ASSUME NEW S, NEW txs \in Seq(S), NEW n \in 0 .. Len(txs)
    PROVE  /\ SubSeq(txs, 1, n) \in Seq(S) /\ SubSeq(txs, n + 1, Len(txs)) \in Seq(S)
           /\ Range(txs) \subseteq Range(SubSeq(txs, 1, n)) \cup Range(SubSeq(txs, n + 1, Len(txs)))
<1> DEFINE a == SubSeq(txs, 1, n)
           b == SubSeq(txs, n + 1, Len(txs))
<1>0. Len(txs) \in Nat /\ n \in Nat /\ n <= Len(txs) /\ DOMAIN txs = 1 .. Len(txs)
  BY LenProperties
<1>1. \A i \in 1 .. Len(txs) : txs[i] \in S
  BY ElementOfSeq
<1>2. a \in Seq(S) /\ Len(a) = n /\ \A i \in 1 .. n : a[i] = txs[i]
  <2>1. \A i \in 1 .. n : txs[i] \in S
    BY <1>0, <1>1
  <2>2. /\ SubSeq(txs, 1, n) \in Seq(S)
        /\ Len(SubSeq(txs, 1, n)) = IF 1 <= n THEN n - 1 + 1 ELSE 0
        /\ \A i \in 1 .. n - 1 + 1 : SubSeq(txs, 1, n)[i] = txs[1 + i - 1]
    BY <1>0, <2>1, SubSeqProperties
  <2> QED
    BY <1>0, <2>2
<1>3. b \in Seq(S) /\ Len(b) = Len(txs) - n /\ \A i \in 1 .. Len(txs) - n : b[i] = txs[n + i]
  <2>1. \A i \in n + 1 .. Len(txs) : txs[i] \in S
    BY <1>0, <1>1
  <2>2. /\ SubSeq(txs, n + 1, Len(txs)) \in Seq(S)
        /\ Len(SubSeq(txs, n + 1, Len(txs))) = IF n + 1 <= Len(txs) THEN Len(txs) - (n + 1) + 1 ELSE 0
        /\ \A i \in 1 .. Len(txs) - (n + 1) + 1 : SubSeq(txs, n + 1, Len(txs))[i] = txs[(n + 1) + i - 1]
    BY <1>0, <2>1, SubSeqProperties
  <2>3. b \in Seq(S)
    BY <2>2, Zenon
  <2>4. Len(b) = Len(txs) - n
    <3> DEFINE k == Len(b)
               m == Len(txs)
    <3>1. k = IF n + 1 <= m THEN m - (n + 1) + 1 ELSE 0
      BY <2>2, Zenon
    <3>2. m \in Nat /\ n \in Nat /\ n <= m
      BY <1>0
    <3> HIDE DEF k, m
    <3>3. k = m - n
      BY <3>1, <3>2
    <3> QED
      BY <3>3 DEF k, m
  <2>5. ASSUME NEW i \in 1 .. Len(txs) - n PROVE b[i] = txs[n + i]
    <3>1. i \in 1 .. Len(txs) - (n + 1) + 1 /\ (n + 1) + i - 1 = n + i
      BY <1>0
    <3>2. b[i] = txs[(n + 1) + i - 1]
      BY <2>2, <3>1, Zenon
    <3> QED
      BY <3>1, <3>2, Zenon
  <2> QED
    BY <2>3, <2>4, <2>5, Zenon
<1>4. DOMAIN a = 1 .. n /\ DOMAIN b = 1 .. Len(txs) - n
  BY <1>2, <1>3, LenProperties
<1> HIDE DEF a, b
<1>5. ASSUME NEW i \in 1 .. Len(txs) PROVE txs[i] \in Range(a) \cup Range(b)
  <2>1. CASE i <= n
    <3>1. i \in 1 .. n /\ txs[i] = a[i]
      BY <1>0, <1>2, <2>1
    <3> QED
      BY <1>4, <3>1, Zenon DEF Range
  <2>2. CASE i > n
    <3>1. i - n \in 1 .. Len(txs) - n /\ n + (i - n) = i
      BY <1>0, <2>2
    <3>2. txs[i] = b[i - n]
      BY <1>3, <3>1
    <3> QED
      BY <1>4, <3>1, <3>2, Zenon DEF Range
  <2> QED
    BY <1>0, <2>1, <2>2
<1> QED
  BY <1>0, <1>2, <1>3, <1>5, ZenonT(60) DEF Range, a, b

\* send: the first transactions of the sync become the pack, what is left stays
\* pending, and a sync with nothing left is deleted; nothing is lost between them.
LEMMA SendTxsKeeps ==
    ASSUME NEW pending, Syncs(pending), NEW node \in DOMAIN pending
    PROVE  LET l == SendTxs(pending, node)
           IN  /\ l = [pending |-> l.pending, pack |-> l.pack]
               /\ Syncs(l.pending) /\ Packs(l.pack)
               /\ \A c \in TxConns : InSync(pending, c) \subseteq InPack(l.pack, c) \cup InSync(l.pending, c)
<1> DEFINE q == pending[node]
           n == Min2(PackSize, Len(q.txs))
           first == SubSeq(q.txs, 1, n)
           rest == SubSeq(q.txs, n + 1, Len(q.txs))
           p == [conn |-> q.conn, txs |-> first, res |-> "sending"]
           left == IF rest = <<>> THEN Restrict(pending, DOMAIN pending \ {node})
                   ELSE [pending EXCEPT ![node].txs = rest]
           l == SendTxs(pending, node)
<1>1. q \in SyncRecords /\ q.txs \in Seq(AllTxs) /\ q.conn \in TxConns
  BY DEF Syncs, SyncRecords
<1>2. n \in 0 .. Len(q.txs)
  <2>1. Len(q.txs) \in Nat /\ PackSize \in Nat
    BY <1>1, LenProperties, TxSyncAssumption, Zenon
  <2> HIDE DEF q
  <2> QED
    BY <2>1 DEF Min2
<1>3. l = [pending |-> left, pack |-> <<p>>]
  BY Zenon DEF SendTxs, Rest
<1>4. l.pending = left /\ l.pack = <<p>>
  <2> HIDE DEF l, left, p
  <2> QED
    BY <1>3
<1> HIDE DEF n, l
<1>5. /\ first \in Seq(AllTxs) /\ rest \in Seq(AllTxs)
      /\ Range(q.txs) \subseteq Range(first) \cup Range(rest)
  BY <1>1, <1>2, PackAndRest, Zenon
<1> HIDE DEF first, rest
<1>6. p \in PackRecords /\ p.conn = q.conn /\ p.txs = first /\ p.res = "sending"
  BY <1>1, <1>5 DEF PackRecords
<1>7. InPack(<<p>>, q.conn) = Range(first)
  <2>1. <<p>> # <<>> /\ <<p>>[1] = p
    OBVIOUS
  <2> QED
    BY <1>6, <2>1, Zenon DEF InPack
<1> HIDE DEF p
<1>8. CASE rest = <<>>
  <2>1. left = Restrict(pending, DOMAIN pending \ {node})
    BY <1>8
  <2>2. DOMAIN left = DOMAIN pending \ {node} /\ \A m \in DOMAIN pending \ {node} : left[m] = pending[m]
    BY <2>1 DEF Restrict
  <2>3. Syncs(left)
    BY <2>1, <2>2 DEF Syncs, Restrict
  <2>4. Range(rest) = {}
    BY <1>8 DEF Range
  <2> HIDE DEF left
  <2>5. ASSUME NEW c \in TxConns PROVE InSync(pending, c) \subseteq InPack(<<p>>, c) \cup InSync(left, c)
    <3>1. CASE TxNode[c] = node /\ q.conn = c
      <4>1. InSync(pending, c) = Range(q.txs)
        BY <3>1, Zenon DEF InSync
      <4> QED
        BY <1>5, <1>7, <2>4, <3>1, <4>1
    <3>2. CASE TxNode[c] = node /\ q.conn # c
      BY <3>2 DEF InSync
    <3>3. CASE TxNode[c] # node
      BY <2>2, <3>3 DEF InSync
    <3> QED
      BY <3>1, <3>2, <3>3
  <2> QED
    BY <1>3, <1>4, <1>6, <2>3, <2>5, Zenon DEF Packs, l
<1>9. CASE rest # <<>>
  <2>1. left = [pending EXCEPT ![node].txs = rest]
    BY <1>9
  <2>2. [q EXCEPT !.txs = rest] \in SyncRecords /\ [q EXCEPT !.txs = rest].txs = rest
        /\ [q EXCEPT !.txs = rest].conn = q.conn
    BY <1>1, <1>5, SMTT(60) DEF SyncRecords
  <2>3. /\ DOMAIN left = DOMAIN pending /\ left[node] = [q EXCEPT !.txs = rest]
        /\ \A m \in DOMAIN pending \ {node} : left[m] = pending[m]
    BY <2>1, Zenon DEF Syncs
  <2>4. Syncs(left)
    <3>1. pending \in [DOMAIN pending -> SyncRecords]
      BY DEF Syncs
    <3>2. [pending EXCEPT ![node] = [q EXCEPT !.txs = rest]] \in [DOMAIN pending -> SyncRecords]
      BY <2>2, <3>1
    <3> QED
      BY <2>1, <2>3, <3>2, Zenon DEF Syncs
  <2> HIDE DEF left
  <2>5. ASSUME NEW c \in TxConns PROVE InSync(pending, c) \subseteq InPack(<<p>>, c) \cup InSync(left, c)
    <3>1. CASE TxNode[c] = node /\ q.conn = c
      <4>1. InSync(pending, c) = Range(q.txs)
        BY <3>1, Zenon DEF InSync
      <4>2. InSync(left, c) = Range(rest)
        BY <2>2, <2>3, <3>1, Zenon DEF InSync
      <4> QED
        BY <1>5, <1>7, <3>1, <4>1, <4>2
    <3>2. CASE TxNode[c] = node /\ q.conn # c
      BY <3>2 DEF InSync
    <3>3. CASE TxNode[c] # node
      BY <2>3, <3>3 DEF InSync
    <3> QED
      BY <3>1, <3>2, <3>3
  <2> QED
    BY <1>3, <1>4, <1>6, <2>4, <2>5, Zenon DEF Packs, l
<1> QED
  BY <1>8, <1>9, Zenon DEF l

-----------------------------------------------------------------------------
(* TxSync: the steps.                                                      *)

\* A connection that nothing is taken from stays served.
LEMMA RelayedStays ==
    ASSUME TxsRelayed, NEW c \in TxConns, TxNode[c] \notin lostSync, UNCHANGED txPool,
           txConn[c].at = "up", txConn[c].synced, txConn[c].has \subseteq txConn'[c].has,
           Outstanding(c) \subseteq txConn'[c].has \cup Outstanding(c)'
    PROVE  Relayed(c)'
<1>1. Range(txPool) \subseteq txConn[c].has \cup Outstanding(c)
  BY Zenon DEF TxsRelayed, Relayed
<1>2. Range(txPool') \subseteq txConn'[c].has \cup Outstanding(c)'
  BY <1>1
<1> QED
  BY <1>2, Zenon DEF Relayed

\* Outstanding, by where the transactions are.
LEMMA OutstandingSplit ==
    \A c \in TxConns : /\ Outstanding(c) = InPack(txLoop.pack, c) \cup InSync(txLoop.pending, c)
                       /\ Outstanding(c)' = InPack(txLoop'.pack, c) \cup InSync(txLoop'.pending, c)
BY Zenon DEF Outstanding, InPack, InSync, Idle

\* A connection comes up, alone of its node, and has not been synchronised.
LEMMA ConnectKeeps == ASSUME TxSyncInv, NEW c \in TxConns, Connect(c) PROVE TxSyncInv'
<1> USE DEF TxSyncInv
<1>1. /\ UNCHANGED <<txLoop, txPool, lostSync>> /\ txConn[c].at = "none"
      /\ \A d \in TxConns : TxNode[d] = TxNode[c] => txConn[d].at # "up"
  BY DEF Connect
<1>2. [txConn[c] EXCEPT !.at = "up"] \in ConnRecords
  BY DEF TxTypes, ConnRecords
<1>3. txConn' = [txConn EXCEPT ![c] = [txConn[c] EXCEPT !.at = "up"]] /\ txConn' \in [TxConns -> ConnRecords]
  BY <1>2 DEF Connect, TxTypes
<1>4. TxTypes'
  BY <1>1, <1>3, Zenon DEF TxTypes
<1>5. /\ txConn'[c].at = "up" /\ txConn'[c].synced = txConn[c].synced
      /\ txConn'[c].known = txConn[c].known /\ txConn'[c].has = txConn[c].has
      /\ \A d \in TxConns : d # c => txConn'[d] = txConn[d]
  BY <1>3 DEF TxTypes, ConnRecords
<1>6. Connections'
  BY <1>1, <1>5 DEF Connections
<1>7. TxsRelayed'
  <2> SUFFICES ASSUME NEW d \in TxConns, TxNode[d] \notin lostSync', txConn'[d].at = "up", txConn'[d].synced
               PROVE  Relayed(d)'
    BY Zenon DEF TxsRelayed, Relayed
  <2>1. d # c
    BY <1>1, <1>5 DEF Connections
  <2>2. txConn'[d] = txConn[d] /\ Outstanding(d)' = Outstanding(d)
    BY <1>1, <1>5, <2>1, Zenon DEF Outstanding, Idle
  <2> QED
    BY <1>1, <2>2, RelayedStays
<1> QED
  BY <1>4, <1>6, <1>7

\* A connection goes down.
LEMMA DisconnectKeeps == ASSUME TxSyncInv, NEW c \in TxConns, Disconnected(c) PROVE TxSyncInv'
<1> USE DEF TxSyncInv
<1>1. UNCHANGED <<txLoop, txPool, lostSync>>
  BY DEF Disconnected
<1>2. [txConn[c] EXCEPT !.at = "down"] \in ConnRecords
  BY DEF TxTypes, ConnRecords
<1>3. txConn' = [txConn EXCEPT ![c] = [txConn[c] EXCEPT !.at = "down"]] /\ txConn' \in [TxConns -> ConnRecords]
  BY <1>2 DEF Disconnected, TxTypes
<1>4. TxTypes'
  BY <1>1, <1>3, Zenon DEF TxTypes
<1>5. txConn'[c].at = "down" /\ \A d \in TxConns : d # c => txConn'[d] = txConn[d]
  BY <1>3 DEF TxTypes, ConnRecords
<1>6. Connections'
  BY <1>5 DEF Connections
<1>7. TxsRelayed'
  <2> SUFFICES ASSUME NEW d \in TxConns, TxNode[d] \notin lostSync', txConn'[d].at = "up", txConn'[d].synced
               PROVE  Relayed(d)'
    BY Zenon DEF TxsRelayed, Relayed
  <2>1. txConn'[d] = txConn[d] /\ Outstanding(d)' = Outstanding(d)
    BY <1>1, <1>5, Zenon DEF Outstanding, Idle
  <2> QED
    BY <1>1, <2>1, RelayedStays
<1> QED
  BY <1>4, <1>6, <1>7

\* The loop takes a new connection: all of the pool is pending for it, or the
\* first pack of it is being sent; a sync that this replaces was for a connection
\* of the same node, which is down.
LEMMA SyncKeeps == ASSUME TxSyncInv, NEW c \in TxConns, SyncTransactions(c) PROVE TxSyncInv'
<1> USE DEF TxSyncInv
<1> DEFINE node == TxNode[c]
           pending == [m \in DOMAIN txLoop.pending \union {node} |->
                          IF m = node THEN [conn |-> c, txs |-> txPool] ELSE txLoop.pending[m]]
<1>1. /\ UNCHANGED <<txPool, lostSync>> /\ txConn[c].at = "up"
      /\ txLoop' = IF txPool = <<>> THEN txLoop
                   ELSE IF Idle THEN SendTxs(pending, node)
                   ELSE [txLoop EXCEPT !.pending = pending]
  BY Zenon DEF SyncTransactions
<1>2. [txConn[c] EXCEPT !.synced = TRUE] \in ConnRecords
  BY Zenon DEF TxTypes, ConnRecords
<1>3. txConn' = [txConn EXCEPT ![c] = [txConn[c] EXCEPT !.synced = TRUE]] /\ txConn' \in [TxConns -> ConnRecords]
  BY <1>2 DEF SyncTransactions, TxTypes
<1>4. /\ txConn'[c].at = "up" /\ txConn'[c].known = txConn[c].known /\ txConn'[c].has = txConn[c].has
      /\ \A d \in TxConns : d # c => txConn'[d] = txConn[d]
  BY <1>1, <1>3 DEF TxTypes, ConnRecords
<1>5. Connections'
  BY <1>1, <1>4 DEF Connections
<1>6. /\ DOMAIN pending = DOMAIN txLoop.pending \union {node}
      /\ pending[node] = [conn |-> c, txs |-> txPool]
      /\ \A m \in DOMAIN txLoop.pending : m # node => pending[m] = txLoop.pending[m]
  OBVIOUS
<1>7. [conn |-> c, txs |-> txPool] \in SyncRecords
  BY DEF TxTypes, SyncRecords
<1>8. \A m \in DOMAIN txLoop.pending : txLoop.pending[m] \in SyncRecords
  BY DEF TxTypes, Syncs
<1>9. Syncs(pending)
  <2>1. pending \in [DOMAIN txLoop.pending \union {node} -> SyncRecords]
    BY <1>7, <1>8
  <2> HIDE DEF pending
  <2> QED
    BY <1>6, <2>1, Zenon DEF Syncs
<1> HIDE DEF pending
<1>10. /\ InSync(pending, c) = Range(txPool)
       /\ \A d \in TxConns : TxNode[d] # node => InSync(pending, d) = InSync(txLoop.pending, d)
  <2>1. pending[node].conn = c /\ pending[node].txs = txPool
    BY <1>6
  <2>2. InSync(pending, c) = Range(txPool)
    BY <1>6, <2>1, Zenon DEF InSync
  <2>3. \A d \in TxConns : TxNode[d] # node => InSync(pending, d) = InSync(txLoop.pending, d)
    BY <1>6, Zenon DEF InSync
  <2> QED
    BY <2>2, <2>3
<1>11. /\ txLoop' = [pending |-> txLoop'.pending, pack |-> txLoop'.pack]
       /\ Syncs(txLoop'.pending) /\ Packs(txLoop'.pack)
       /\ \A d \in TxConns : TxNode[d] # node => Outstanding(d) \subseteq Outstanding(d)'
       /\ Range(txPool) \subseteq Outstanding(c)'
  <2>1. CASE txPool = <<>>
    <3>1. txLoop' = txLoop /\ Range(txPool) = {}
      BY <1>1, <2>1 DEF Range
    <3>2. \A d \in TxConns : Outstanding(d) \subseteq Outstanding(d)'
      BY <3>1, OutstandingSplit
    <3> QED
      BY <3>1, <3>2, Zenon DEF TxTypes
  <2>2. CASE txPool # <<>> /\ Idle
    <3>1. txLoop' = SendTxs(pending, node) /\ node \in DOMAIN pending /\ txLoop.pack = <<>>
      BY <1>1, <1>6, <2>2, Zenon DEF Idle
    <3>2. /\ txLoop' = [pending |-> txLoop'.pending, pack |-> txLoop'.pack]
          /\ Syncs(txLoop'.pending) /\ Packs(txLoop'.pack)
          /\ \A d \in TxConns : InSync(pending, d) \subseteq InPack(txLoop'.pack, d) \cup InSync(txLoop'.pending, d)
      BY <1>9, <3>1, SendTxsKeeps, Zenon
    <3>3. \A d \in TxConns : InPack(txLoop.pack, d) = {}
      BY <3>1, Zenon DEF InPack
    <3>4. \A d \in TxConns : TxNode[d] # node => Outstanding(d) \subseteq Outstanding(d)'
      BY <1>10, <3>2, <3>3, OutstandingSplit
    <3>5. Range(txPool) \subseteq Outstanding(c)'
      BY <1>10, <3>2, OutstandingSplit
    <3> QED
      BY <3>2, <3>4, <3>5, Zenon
  <2>3. CASE txPool # <<>> /\ ~Idle
    <3>1. txLoop' = [pending |-> pending, pack |-> txLoop.pack]
      BY <1>1, <2>3 DEF TxTypes
    <3>2. txLoop'.pending = pending /\ txLoop'.pack = txLoop.pack
      BY <3>1
    <3>3. \A d \in TxConns : TxNode[d] # node => Outstanding(d) \subseteq Outstanding(d)'
      BY <1>10, <3>2, OutstandingSplit
    <3>4. Range(txPool) \subseteq Outstanding(c)'
      BY <1>10, <3>2, OutstandingSplit
    <3> QED
      BY <1>9, <3>1, <3>2, <3>3, <3>4, Zenon DEF TxTypes
  <2> QED
    BY <2>1, <2>2, <2>3
<1>12. TxTypes'
  BY <1>1, <1>3, <1>11, Zenon DEF TxTypes
<1>13. TxsRelayed'
  <2> SUFFICES ASSUME NEW d \in TxConns, TxNode[d] \notin lostSync', txConn'[d].at = "up", txConn'[d].synced
               PROVE  Relayed(d)'
    BY Zenon DEF TxsRelayed, Relayed
  <2>1. CASE d = c
    <3>1. Range(txPool') \subseteq txConn'[c].has \cup Outstanding(c)'
      BY <1>1, <1>11
    <3> QED
      BY <2>1, <3>1, Zenon DEF Relayed
  <2>2. CASE d # c
    <3>1. txConn'[d] = txConn[d] /\ TxNode[d] # node
      BY <1>1, <1>4, <2>2, Zenon DEF Connections
    <3> QED
      BY <1>1, <1>11, <3>1, RelayedStays
  <2> QED
    BY <2>1, <2>2
<1> QED
  BY <1>5, <1>12, <1>13

\* A connection that was sent transactions, and one that a send failed to.
SentTo(o, known, has) == [o EXCEPT !.known = known, !.has = has]
LostTo(o, known) == [o EXCEPT !.known = known, !.at = "down"]

\* What they are then.
LEMMA ConnLearns ==
    ASSUME NEW o \in ConnRecords, NEW known \in TxSets, NEW has \in TxSets
    PROVE  /\ SentTo(o, known, has) \in ConnRecords
           /\ SentTo(o, known, has).at = o.at /\ SentTo(o, known, has).synced = o.synced
           /\ SentTo(o, known, has).known = known /\ SentTo(o, known, has).has = has
<1> HIDE DEF AllTxs
<1> QED
  BY Zenon DEF ConnRecords, SentTo, TxSets

\* The same for a failed send.
LEMMA ConnLost ==
    ASSUME NEW o \in ConnRecords, NEW known \in TxSets
    PROVE  /\ LostTo(o, known) \in ConnRecords
           /\ LostTo(o, known).at = "down" /\ LostTo(o, known).synced = o.synced /\ LostTo(o, known).has = o.has
<1> HIDE DEF AllTxs
<1> QED
  BY Zenon DEF ConnRecords, LostTo, TxSets

\* A sequence with one more element.
LEMMA RangeAppend ==
    ASSUME NEW S, NEW s \in Seq(S), NEW e \in S
    PROVE  Range(Append(s, e)) \subseteq Range(s) \cup {e}
<1> DEFINE t == Append(s, e)
<1>1. t \in Seq(S) /\ Len(t) = Len(s) + 1 /\ (\A i \in 1 .. Len(s) : t[i] = s[i]) /\ t[Len(s) + 1] = e
  BY AppendProperties
<1> HIDE DEF t
<1>2. DOMAIN t = 1 .. Len(s) + 1 /\ DOMAIN s = 1 .. Len(s) /\ Len(s) \in Nat
  BY <1>1, LenProperties
<1>3. Range(t) \subseteq Range(s) \cup {e}
  BY <1>1, <1>2 DEF Range
<1> QED
  BY <1>3 DEF t

\* The background send: what was in the pack has been sent, or the connection
\* is down.
LEMMA SendPackKeeps == ASSUME TxSyncInv, SendPack PROVE TxSyncInv'
<1> USE DEF TxSyncInv
<1>1. PICK p \in PackRecords : txLoop.pack = <<p>>
  BY Zenon DEF SendPack, Idle, TxTypes, Packs
<1>2. txLoop.pack[1] = p /\ p.conn \in TxConns /\ Range(p.txs) \subseteq AllTxs /\ p.res \in {"sending", "ok", "failed"}
  <2>1. p.txs \in Seq(AllTxs) /\ p.conn \in TxConns /\ p.res \in {"sending", "ok", "failed"}
    BY DEF PackRecords
  <2>2. Range(p.txs) \subseteq AllTxs
    BY <2>1, ElementOfSeq DEF Range
  <2> QED
    BY <1>1, <2>1, <2>2
<1> DEFINE c == p.conn
           txs == Range(p.txs)
<1>3. PICK res \in {"ok", "failed"}, r \in ConnRecords :
         /\ txLoop' = [txLoop EXCEPT !.pack[1].res = res]
         /\ txConn' = [txConn EXCEPT ![c] = r]
         /\ r.synced = txConn[c].synced /\ txConn[c].has \subseteq r.has
         /\ \/ r.at = "down"
            \/ r.at = txConn[c].at /\ r.known = txConn[c].known \cup txs /\ r.has = txConn[c].has \cup txs
  <2>0. txConn[c] \in ConnRecords /\ txs \in TxSets
    BY <1>2 DEF TxTypes, TxSets
  <2> DEFINE o == txConn[c]
             known == o.known \cup txs
             has == o.has \cup txs
  <2>k. known \in TxSets /\ has \in TxSets
    BY <2>0, SMTT(60) DEF ConnRecords, TxSets
  <2> HIDE DEF txs
  <2>1. CASE /\ txConn' = [txConn EXCEPT ![c].known = @ \union txs, ![c].has = @ \union txs]
             /\ txLoop' = [txLoop EXCEPT !.pack[1].res = "ok"]
    <3> DEFINE r == SentTo(o, known, has)
    <3>1. /\ r \in ConnRecords /\ r.synced = o.synced
          /\ r.at = o.at /\ r.known = known /\ r.has = has
      <4>1. o \in ConnRecords
        BY <2>0
      <4> HIDE DEF known, has, o
      <4> QED
        BY <4>1, <2>k, ConnLearns
    <3>2. txConn' = [txConn EXCEPT ![c] = r]
      BY <1>2, <2>1, Zenon DEF TxTypes, ConnRecords, SentTo
    <3> QED
      BY <2>1, <3>1, <3>2, Zenon
  <2>2. CASE /\ txConn' = [txConn EXCEPT ![c].known = @ \union txs, ![c].at = "down"]
             /\ txLoop' = [txLoop EXCEPT !.pack[1].res = "failed"]
    <3> DEFINE r == LostTo(txConn[c], known)
    <3>1. /\ r \in ConnRecords /\ r.synced = txConn[c].synced /\ r.has = txConn[c].has /\ r.at = "down"
      <4> HIDE DEF known
      <4> QED
        BY <2>0, <2>k, ConnLost, Zenon
    <3>2. txConn' = [txConn EXCEPT ![c] = r]
      BY <1>2, <2>2, Zenon DEF TxTypes, ConnRecords, LostTo
    <3> QED
      BY <2>2, <3>1, <3>2, Zenon
  <2> QED
    BY <1>2, <2>1, <2>2, Zenon DEF SendPack, txs
<1>4. txConn'[c] = r /\ (\A d \in TxConns : d # c => txConn'[d] = txConn[d]) /\ txConn' \in [TxConns -> ConnRecords]
  BY <1>2, <1>3 DEF TxTypes
<1> DEFINE q == [p EXCEPT !.res = res]
<1>5. q \in PackRecords /\ q.conn = c /\ q.txs = p.txs
  BY <1>3 DEF PackRecords
<1>6. txLoop' = [pending |-> txLoop.pending, pack |-> <<q>>]
  <2>1. txLoop' = [txLoop EXCEPT !.pack = [<<p>> EXCEPT ![1].res = res]]
    BY <1>1, <1>3
  <2>2. [<<p>> EXCEPT ![1].res = res] = <<q>>
    OBVIOUS
  <2> HIDE DEF q
  <2>3. txLoop' = [txLoop EXCEPT !.pack = <<q>>]
    BY <2>1, <2>2, Zenon
  <2> QED
    BY <2>3 DEF TxTypes
<1> HIDE DEF q, txs
<1>7. txLoop'.pending = txLoop.pending /\ txLoop'.pack = <<q>>
  BY <1>6, SMTT(60)
<1>8. UNCHANGED <<txPool, lostSync>>
  BY Zenon DEF SendPack
<1>9. TxTypes'
  BY <1>4, <1>5, <1>6, <1>7, <1>8, ZenonT(60) DEF TxTypes, Packs
<1>10. Connections'
  <2>1. txConn'[c].at \in {"down", txConn[c].at} /\ txConn'[c].synced = txConn[c].synced
    BY <1>3, <1>4
  <2>2. txConn'[c].at # "down" => txConn'[c].known \subseteq txConn'[c].has
    BY <1>2, <1>3, <1>4 DEF Connections
  <2> QED
    BY <1>2, <1>4, <2>1, <2>2 DEF Connections
<1>11. TxsRelayed'
  <2> SUFFICES ASSUME NEW d \in TxConns, TxNode[d] \notin lostSync', txConn'[d].at = "up", txConn'[d].synced
               PROVE  Relayed(d)'
    BY Zenon DEF TxsRelayed, Relayed
  <2>1. InSync(txLoop.pending, d) \subseteq Outstanding(d)'
    BY <1>7, OutstandingSplit, SMTT(60)
  <2>2. CASE d = c
    <3>1. InPack(txLoop.pack, d) \subseteq txs
      BY <1>2, Zenon DEF InPack, txs
    <3>2. txConn'[d].has = txConn[d].has \cup txs /\ txConn[d].at = "up" /\ txConn[d].synced
      BY <1>3, <1>4, <2>2, SMTT(60)
    <3>3. Outstanding(d) \subseteq txConn'[d].has \cup Outstanding(d)'
      BY <2>1, <3>1, <3>2, OutstandingSplit, SMTT(60)
    <3> QED
      BY <1>8, <3>2, <3>3, RelayedStays
  <2>3. CASE d # c
    <3>1. InPack(txLoop.pack, d) = {}
      BY <1>2, <2>3, Zenon DEF InPack
    <3>2. Outstanding(d) \subseteq txConn'[d].has \cup Outstanding(d)'
      BY <2>1, <3>1, OutstandingSplit
    <3> QED
      BY <1>4, <1>8, <2>3, <3>2, RelayedStays
  <2> QED
    BY <2>2, <2>3
<1> QED
  BY <1>9, <1>10, <1>11

\* The send has returned: a failed one gives up the node's sync, and the next
\* pack is taken without loss.
LEMMA SendDoneKeeps == ASSUME TxSyncInv, SendDone PROVE TxSyncInv'
<1> USE DEF TxSyncInv
<1>1. PICK p \in PackRecords : txLoop.pack = <<p>>
  BY ZenonT(60) DEF SendDone, Idle, TxTypes, Packs
<1>2. txLoop.pack[1] = p /\ p.res # "sending"
  BY <1>1 DEF SendDone
<1> DEFINE node == TxNode[p.conn]
           pending == IF p.res = "failed" THEN AfterFailure(txLoop.pending, node) ELSE txLoop.pending
<1>3. /\ IF DOMAIN pending = {} THEN txLoop' = [pending |-> pending, pack |-> <<>>]
         ELSE \E m \in DOMAIN pending : txLoop' = SendTxs(pending, m)
      /\ lostSync' = IF p.res = "failed" THEN lostSync \union {node} ELSE lostSync
      /\ UNCHANGED <<txConn, txPool>>
  BY <1>2, Zenon DEF SendDone
<1>4. Syncs(pending)
  <2>1. CASE p.res = "failed"
    <3>1. pending = [m \in DOMAIN txLoop.pending \ {node} |-> txLoop.pending[m]]
      BY <2>1 DEF AfterFailure, Restrict
    <3> QED
      BY <3>1 DEF TxTypes, Syncs
  <2>2. CASE p.res # "failed"
    BY <2>2, Zenon DEF TxTypes
  <2> QED
    BY <2>1, <2>2
<1>5. \A d \in TxConns : TxNode[d] \notin lostSync' => InSync(txLoop.pending, d) = InSync(pending, d)
  <2>1. CASE p.res = "failed"
    <3>1. /\ DOMAIN pending = DOMAIN txLoop.pending \ {node}
          /\ \A m \in DOMAIN txLoop.pending \ {node} : pending[m] = txLoop.pending[m]
      BY <2>1 DEF AfterFailure, Restrict
    <3>2. lostSync' = lostSync \union {node}
      BY <1>3, <2>1, Zenon
    <3> HIDE DEF pending, node
    <3> QED
      BY <3>1, <3>2 DEF InSync
  <2>2. CASE p.res # "failed"
    BY <2>2, Zenon
  <2> QED
    BY <2>1, <2>2, SMTT(60)
<1>6. lostSync \subseteq lostSync'
  BY <1>3, Zenon
<1> HIDE DEF pending
<1>7. /\ txLoop' = [pending |-> txLoop'.pending, pack |-> txLoop'.pack]
      /\ Syncs(txLoop'.pending) /\ Packs(txLoop'.pack)
      /\ \A d \in TxConns : InSync(pending, d) \subseteq Outstanding(d)'
  <2>1. CASE DOMAIN pending = {}
    <3>1. txLoop' = [pending |-> pending, pack |-> <<>>]
      BY <1>3, <2>1, Zenon
    <3>2. txLoop'.pending = pending /\ txLoop'.pack = <<>>
      BY <3>1
    <3> QED
      BY <1>4, <3>1, <3>2, OutstandingSplit, Zenon DEF Packs
  <2>2. CASE DOMAIN pending # {}
    <3>1. PICK m \in DOMAIN pending : txLoop' = SendTxs(pending, m)
      BY <1>3, <2>2, Zenon
    <3>2. /\ txLoop' = [pending |-> txLoop'.pending, pack |-> txLoop'.pack]
          /\ Syncs(txLoop'.pending) /\ Packs(txLoop'.pack)
          /\ \A d \in TxConns : InSync(pending, d) \subseteq InPack(txLoop'.pack, d) \cup InSync(txLoop'.pending, d)
      BY <1>4, <3>1, SendTxsKeeps, Zenon
    <3> QED
      BY <3>2, OutstandingSplit, Zenon
  <2> QED
    BY <2>1, <2>2, ZenonT(60)
<1>8. TxTypes' /\ Connections'
  BY <1>3, <1>7, Zenon DEF TxTypes, Connections
<1>9. TxsRelayed'
  <2> SUFFICES ASSUME NEW d \in TxConns, TxNode[d] \notin lostSync', txConn'[d].at = "up", txConn'[d].synced
               PROVE  Relayed(d)'
    BY Zenon DEF TxsRelayed, Relayed
  <2>1. InPack(txLoop.pack, d) = {}
    BY <1>2, Zenon DEF InPack
  <2>2. Outstanding(d) \subseteq Outstanding(d)'
    BY <1>5, <1>7, <2>1, OutstandingSplit
  <2> QED
    BY <1>3, <1>6, <2>2, RelayedStays
<1> QED
  BY <1>8, <1>9

\* A transaction enters the pool: every connection that is up is sent it, or is
\* known to have it, and what is known to be there is.
LEMMA AddTxKeeps ==
    ASSUME TxSyncInv, NEW tx \in AllTxs, NEW from, NEW kept,
           from \in TxConns => kept \subseteq txConn[from].known,
           AddTx(tx, from, kept)
    PROVE  TxSyncInv'
<1> USE DEF TxSyncInv
<1> DEFINE heard == IF from \in TxConns
                    THEN [txConn EXCEPT ![from].known = Marked(@, tx, kept), ![from].has = @ \union {tx}] ELSE txConn
<1>1. /\ txPool' = Append(txPool, tx) /\ UNCHANGED <<txLoop, lostSync>>
      /\ txConn' = [c \in TxConns |->
                       IF BroadcastTx(tx, c) /\ c # from
                       THEN [heard[c] EXCEPT !.known = @ \union {tx}, !.has = @ \union {tx}] ELSE heard[c]]
  BY ZenonT(60) DEF AddTx
<1>2. ASSUME NEW c \in TxConns
      PROVE  LET r == txConn'[c]
                 o == txConn[c]
             IN  /\ r \in ConnRecords /\ r.at = o.at /\ r.synced = o.synced
                 /\ o.has \subseteq r.has
                 /\ r.known \subseteq o.known \cup {tx} /\ r.has \subseteq o.has \cup {tx}
                 /\ tx \in r.known => r.known \subseteq o.known \/ tx \in r.has
                 /\ o.at = "up" => tx \in o.known \cup r.has
  <2> DEFINE o == txConn[c]
  <2>0. o \in ConnRecords /\ {tx} \in TxSets
    BY DEF TxTypes, TxSets
  <2>1. txConn'[c] = IF BroadcastTx(tx, c) /\ c # from
                     THEN [heard[c] EXCEPT !.known = @ \union {tx}, !.has = @ \union {tx}] ELSE heard[c]
    BY <1>1, ZenonT(60)
  <2>2. CASE c = from
    <3> DEFINE known == Marked(o.known, tx, kept)
               has == o.has \cup {tx}
    <3>1. txConn'[c] = [o EXCEPT !.known = Marked(o.known, tx, kept), !.has = @ \union {tx}]
      BY <2>1, <2>2 DEF TxTypes, ConnRecords
    <3>2. known \subseteq o.known \cup {tx}
      BY <2>2 DEF Marked
    <3>3. known \in TxSets /\ has \in TxSets
      BY <2>0, <3>2 DEF ConnRecords, TxSets
    <3>4. txConn'[c] = SentTo(o, known, has)
      BY <3>1, ZenonT(60) DEF SentTo
    <3>5. /\ txConn'[c] \in ConnRecords /\ txConn'[c].at = o.at /\ txConn'[c].synced = o.synced
          /\ txConn'[c].known = known /\ txConn'[c].has = has
      <4> HIDE DEF known, has, o
      <4> QED
        BY <2>0, <3>3, <3>4, ConnLearns, SMTT(60)
    <3> HIDE DEF known
    <3> QED
      BY <3>2, <3>5
  <2>3. CASE c # from /\ BroadcastTx(tx, c)
    <3> DEFINE known == o.known \cup {tx}
               has == o.has \cup {tx}
    <3>1. heard[c] = o
      BY <2>3 DEF TxTypes
    <3>2. txConn'[c] = SentTo(o, known, has)
      BY <2>1, <2>3, <3>1, Zenon DEF SentTo
    <3>3. known \in TxSets /\ has \in TxSets
      BY <2>0, SMTT(60) DEF ConnRecords, TxSets
    <3>4. /\ txConn'[c] \in ConnRecords /\ txConn'[c].at = o.at /\ txConn'[c].synced = o.synced
          /\ txConn'[c].known = known /\ txConn'[c].has = has
      <4> HIDE DEF known, has, o
      <4> QED
        BY <2>0, <3>2, <3>3, ConnLearns, SMTT(60)
    <3> QED
      BY <3>4
  <2>4. CASE c # from /\ ~BroadcastTx(tx, c)
    <3>1. txConn'[c] = o
      BY <2>1, <2>4, SMTT(60) DEF TxTypes
    <3> QED
      BY <2>0, <2>4, <3>1 DEF BroadcastTx
  <2> QED
    BY <2>2, <2>3, <2>4
<1>3. txConn' \in [TxConns -> ConnRecords]
  BY <1>1, <1>2, Zenon
<1>4. txPool \in Seq(AllTxs) /\ Len(txPool) \in Nat /\ Len(StartTxs) \in Nat /\ Len(txPool) >= Len(StartTxs)
  BY LenProperties, TxSyncAssumption, Zenon DEF TxTypes
<1>5. txPool' \in Seq(AllTxs) /\ Len(txPool') >= Len(StartTxs)
  <2>1. txPool' \in Seq(AllTxs) /\ Len(txPool') = Len(txPool) + 1
    BY <1>1, <1>4, AppendProperties, Zenon
  <2> QED
    BY <1>4, <2>1, SMTT(60)
<1>6. TxTypes'
  BY <1>1, <1>3, <1>5, ZenonT(60) DEF TxTypes
<1>7. Connections'
  BY <1>2 DEF Connections
<1>8. Range(txPool') \subseteq Range(txPool) \cup {tx}
  BY <1>1, <1>4, RangeAppend, Zenon
<1>9. TxsRelayed'
  <2> SUFFICES ASSUME NEW d \in TxConns, TxNode[d] \notin lostSync', txConn'[d].at = "up", txConn'[d].synced
               PROVE  Relayed(d)'
    BY ZenonT(60) DEF TxsRelayed, Relayed
  <2>1. txConn[d].at = "up" /\ txConn[d].synced /\ txConn[d].has \subseteq txConn'[d].has
    BY <1>2, SMTT(60)
  <2>2. tx \in txConn'[d].has
    BY <1>2, <2>1 DEF Connections
  <2>3. Range(txPool) \subseteq txConn[d].has \cup Outstanding(d)
    BY <1>1, <2>1, Zenon DEF TxsRelayed, Relayed
  <2>4. Outstanding(d)' = Outstanding(d)
    BY <1>1, ZenonT(60) DEF Outstanding, Idle
  <2>5. Range(txPool') \subseteq txConn'[d].has \cup Outstanding(d)'
    BY <1>8, <2>1, <2>2, <2>3, <2>4
  <2> QED
    BY <2>5, Zenon DEF Relayed
<1> QED
  BY <1>6, <1>7, <1>9

\* The next transaction is one of those the model adds.
LEMMA NextTxTyped == ASSUME TxTypes, Len(txPool) < Len(StartTxs) + Len(NewTxs) PROVE NextTx \in AllTxs
<1>1. Len(txPool) \in Nat /\ Len(StartTxs) \in Nat /\ Len(NewTxs) \in Nat /\ Len(txPool) >= Len(StartTxs)
  BY LenProperties, TxSyncAssumption, Zenon DEF TxTypes
<1>2. Len(txPool) - Len(StartTxs) + 1 \in 1 .. Len(NewTxs)
  BY <1>1
<1>3. NextTx \in Range(NewTxs)
  BY <1>2, ElementOfSeq, TxSyncAssumption, Zenon DEF NextTx
<1> QED
  BY <1>3 DEF AllTxs

\* A connection that is up and that the sync loop was handed has every pending
\* transaction, or it is in the pack being sent or in what waits for the next
\* one (txsyncLoop), or it was broadcast (BroadcastTx): however connects,
\* disconnects, sends, failed sends and new transactions interleave.
THEOREM TxSyncRelays == TxSyncSpec => []TxsRelayed
<1>1. TxSyncInit => TxSyncInv
  <2> SUFFICES ASSUME TxSyncInit PROVE TxSyncInv
    OBVIOUS
  <2> DEFINE new == [at |-> "none", synced |-> FALSE, known |-> {}, has |-> {}]
  <2>1. new \in ConnRecords /\ new.at = "none" /\ new.synced = FALSE /\ new.known = {} /\ new.has = {}
    BY DEF ConnRecords
  <2>2. txConn = [c \in TxConns |-> new]
    BY DEF TxSyncInit
  <2> HIDE DEF new
  <2>3. txConn \in [TxConns -> ConnRecords]
    BY <2>1, <2>2
  <2>4. txLoop = [pending |-> NoTxSync, pack |-> <<>>] /\ txLoop.pending = NoTxSync /\ txLoop.pack = <<>>
    BY DEF TxSyncInit
  <2>5. Syncs(NoTxSync)
    BY DEF Syncs, NoTxSync
  <2>6. txPool \in Seq(AllTxs) /\ Len(txPool) >= Len(StartTxs)
    <3>1. StartTxs \in Seq(AllTxs)
      BY TxSyncAssumption, ElementOfSeq, SeqDef DEF AllTxs
    <3>2. txPool = StartTxs /\ Len(StartTxs) \in Nat
      BY TxSyncAssumption, LenProperties, Zenon DEF TxSyncInit
    <3> QED
      BY <3>1, <3>2
  <2>7. TxTypes
    BY <2>3, <2>4, <2>5, <2>6, Zenon DEF TxTypes, Packs
  <2>8. \A c \in TxConns : txConn[c] = new
    BY <2>2
  <2>9. Connections /\ TxsRelayed
    BY <2>1, <2>8 DEF Connections, TxsRelayed, Relayed
  <2> QED
    BY <2>7, <2>9 DEF TxSyncInv
<1>2. TxSyncInv /\ [TxSyncNext]_txSyncVars => TxSyncInv'
  <2> SUFFICES ASSUME TxSyncInv, [TxSyncNext]_txSyncVars PROVE TxSyncInv'
    OBVIOUS
  <2>1. CASE SendPack
    BY <2>1, SendPackKeeps
  <2>2. CASE SendDone
    BY <2>2, SendDoneKeeps
  <2>3. CASE LocalTx
    <3>1. NextTx \in AllTxs /\ AddTx(NextTx, "self", {})
      BY <2>3, NextTxTyped, Zenon DEF LocalTx, TxSyncInv
    <3> QED
      BY <3>1, AddTxKeeps, Zenon
  <2>4. ASSUME NEW c \in TxConns, Connect(c) PROVE TxSyncInv'
    BY <2>4, ConnectKeeps
  <2>5. ASSUME NEW c \in TxConns, SyncTransactions(c) PROVE TxSyncInv'
    BY <2>5, SyncKeeps
  <2>6. ASSUME NEW c \in TxConns, Disconnected(c) PROVE TxSyncInv'
    BY <2>6, DisconnectKeeps
  <2>7. ASSUME NEW c \in TxConns, RemoteTx(c) PROVE TxSyncInv'
    <3>1. PICK kept \in SUBSET txConn[c].known : AddTx(NextTx, c, kept)
      BY <2>7, Zenon DEF RemoteTx
    <3>2. NextTx \in AllTxs
      BY <2>7, NextTxTyped, Zenon DEF RemoteTx, TxSyncInv
    <3>3. c \in TxConns => kept \subseteq txConn[c].known
      BY <3>1
    <3> QED
      BY <3>1, <3>2, <3>3, AddTxKeeps, Zenon
  <2>8. CASE UNCHANGED txSyncVars
    BY <2>8, ZenonT(60) DEF txSyncVars, TxSyncInv, TxTypes, Connections, TxsRelayed, Relayed, Outstanding, Idle
  <2> QED
    BY <2>1, <2>2, <2>3, <2>4, <2>5, <2>6, <2>7, <2>8, Zenon DEF TxSyncNext
<1>3. TxSyncInv => TxsRelayed
  BY DEF TxSyncInv
<1> QED
  BY <1>1, <1>2, <1>3, PTL DEF TxSyncSpec
=============================================================================
