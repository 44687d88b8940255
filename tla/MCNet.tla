-------------------------------- MODULE MCNet --------------------------------
(***************************************************************************)
(* What the node exchanges with its peers and its clients, one component   *)
(* per behaviour: `part' names the one that runs; the others stay as they  *)
(* are at the start.                                                       *)
(***************************************************************************)
EXTENDS StateSync, BloomMatcher, FilterSystem, TxSync, BlockGossip, TxPoolJournal, DialState

VARIABLE part

netVars == <<stateSyncVars, matcherVars, filterVars, txSyncVars, gossipVars, jvars, dialVars, part>>

NetInit ==
    /\ part \in {"statesync", "matcher", "filters", "txsync", "gossip", "journal", "dialer"}
    /\ StateSyncInit /\ MatcherInit /\ FilterInit /\ TxSyncInit /\ GossipInit /\ JInit /\ DialInit
    /\ part # "journal" => currentNonce = [a \in Accounts |-> 0]

Rests(p, v) == IF part = p THEN TRUE ELSE UNCHANGED v

\* A session is closed before its end only while the first section is under way.
MatcherBound == session.quit /\ ~session.complete => pipe.fed = Min(Sections) + 1

\* Up to three peers, broadcasts and syncs at once, of two peers one that is
\* broken; a peer is ahead of Top only while it is alone and no block is broadcast.
GossipBound ==
    LET casting == {c \in Casters : cast[c].at # "idle"} IN
    /\ Cardinality(Registered) + Cardinality(casting) + Cardinality({t \in SyncTasks : task[t].at # "idle"}) <= 3
    /\ Cardinality({p \in GPeers : gossip[p].broken}) <= 1
    /\ (\E p \in GPeers : Top + 1 \in gossip[p].heard) => casting = {} /\ Cardinality(Registered) = 1

\* Only configured static nodes, two peers of which one is inbound, and short
\* histories and lookup results.
DialBound ==
    /\ dialer.static \subseteq Statics
    /\ Cardinality(DOMAIN dialPeers) <= 2
    /\ Cardinality({n \in DOMAIN dialPeers : dialPeers[n] = "inbound"}) <= 1
    /\ Len(dialer.hist) <= 1 /\ Len(dialer.lookupBuf) <= 1

NetNext ==
    /\ UNCHANGED part
    /\ Rests("statesync", stateSyncVars) /\ Rests("matcher", matcherVars) /\ Rests("filters", filterVars)
    /\ Rests("txsync", txSyncVars) /\ Rests("gossip", gossipVars) /\ Rests("journal", jvars)
    /\ Rests("dialer", dialVars)
    /\ \/ part = "statesync" /\ StateSyncNext
       \/ part = "matcher" /\ MatcherNext /\ MatcherBound'
       \/ part = "filters" /\ FilterNext
       \/ part = "txsync" /\ TxSyncNext
       \/ part = "gossip" /\ GossipNext /\ GossipBound'
       \/ part = "journal" /\ JNext
       \/ part = "dialer" /\ DialNext /\ DialBound'

NetSpec == NetInit /\ [][NetNext]_netVars

-----------------------------------------------------------------------------
(* Two roots that share a node, and two peers of which one may come back   *)
(* with a new connection.                                                  *)
KidsDef == [h \in Hashes |-> IF h \in {"r1", "r2"} THEN {"x"} ELSE {}]
LeavesDef == [h \in Hashes |-> IF h \in {"r1", "x"} THEN {"c"} ELSE {}]
SyncRootsDef == <<"r1", "r2">>
PeerIdDef == [c \in Conns |-> IF c = "q1" THEN "q" ELSE "p"]

(* Three blocks in two sections, searched for two alternatives that share  *)
(* a bit and for a second one; the first two of the blocks match.          *)
FiltersDef == << << <<1>>, <<1>> >>, << <<2>> >> >>
VectorDef == [b \in 1 .. 2 |-> [s \in 0 .. 1 |-> IF b = 1 THEN {0, 1} ELSE {1 - s}]]

(* A polled filter up to the pending block and a pushed one.               *)
FilterCritDef == [f \in LogFilters |->
    IF f = "polled" THEN [on |-> "logs", from |-> 0, to |-> -2] ELSE [on |-> "logs", from |-> -1, to |-> -1]]

(* A node that connects twice and another one.                             *)
TxNodeDef == [c \in TxConns |-> IF c = "b1" THEN "b" ELSE "a"]
StartTxsDef == <<"t1", "t2">>
NewTxsDef == <<"t3">>

(* An account with two nonces, and another account.                        *)
PoolTxsDef == {"a0", "a1", "b0"}
FromDef == [t \in PoolTxsDef |-> IF t = "b0" THEN "b" ELSE "a"]
NonceDef == [t \in PoolTxsDef |-> IF t = "a1" THEN 1 ELSE 0]
HeadNoncesDef == {[a |-> n, b |-> 0] : n \in 0 .. 1}
PrioDef == [t \in PoolTxsDef |-> IF t = "b0" THEN 2 ELSE 1]

BootnodesDef == <<"n2">>
==============================================================================
