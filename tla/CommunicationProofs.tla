------------------------- MODULE CommunicationProofs -------------------------
(***************************************************************************)
(* Proofs about the communication packages: the peer map of the p2p server *)
(* and its runPeer goroutines agree (P2PServer), and the RPC client keeps  *)
(* its channels, its write lock and its subscriptions straight (RpcClient),*)
(* for every set of connections, identities, requests and subscriptions    *)
(* and every limit.                                                        *)
(***************************************************************************)
EXTENDS P2PServer, RpcClient, SequenceTheorems, FiniteSetTheorems, TLAPS

\* The variables have the shape of their first values; the peer map sends
\* identities to connections.
Shapes ==
    /\ server = [running |-> server.running, quit |-> server.quit, locked |-> server.locked, stop |-> server.stop]
    /\ srvLoop = [at |-> srvLoop.at, conn |-> srvLoop.conn, peers |-> srvLoop.peers]
    /\ srvLoop.at \in {"select", "enccheck", "protocheck", "accept", "refuse", "spindown", "done"}
    /\ srvLoop.peers \in [Connected -> SrvConns]
    /\ IsFiniteSet(Connected)
    /\ listen = [at |-> listen.at, slots |-> listen.slots]
    /\ listen.at \in {"slot", "accept", "done"}
    /\ setup \in [SrvConns -> SettingUp \cup {"idle", "closed", "up"}]
    /\ session \in [SrvConns -> {"none", "running", "ended"}]

\* The peer map against the goroutines.
PeersMatch ==
    /\ \A i \in Connected : ConnId[srvLoop.peers[i]] = i
    /\ \A c \in SrvConns : session[c] # "none" <=> \E i \in Connected : srvLoop.peers[i] = c
    /\ Cardinality({c \in Range(srvLoop.peers) : ~Exempt(c)}) <= SrvMaxPeers
    /\ SelfId \notin Connected
    /\ srvLoop.at = "done" => Connected = {}

ServerInv == Shapes /\ SlotsKept /\ PeersMatch

-----------------------------------------------------------------------------
(* Shapes.                                                                 *)

\* A new server satisfies the invariant: no peers, every slot free.
LEMMA ServerInitInv == ServerInit => ServerInv
<1> SUFFICES ASSUME ServerInit PROVE ServerInv
  OBVIOUS
<1>1. /\ server = [running |-> TRUE, quit |-> FALSE, locked |-> FALSE, stop |-> "idle"]
      /\ srvLoop = [at |-> "select", conn |-> {}, peers |-> <<>>]
      /\ listen = [at |-> "slot", slots |-> Slots]
      /\ setup = [c \in SrvConns |-> "idle"]
      /\ session = [c \in SrvConns |-> "none"]
  BY DEF ServerInit
<1>2. Connected = {} /\ srvLoop.peers \in [Connected -> SrvConns]
  BY <1>1 DEF Connected
<1>3. IsFiniteSet({}) /\ Cardinality({}) = 0
  BY FS_EmptySet, Zenon
<1>4. Shapes
  BY <1>1, <1>2, <1>3 DEF Shapes, SettingUp
<1>5. SlotsKept
  <2>1. SlotHolders = {}
    BY <1>1 DEF SlotHolders, SettingUp
  <2> QED
    BY <1>1, <1>3, <2>1, ServerAssumption DEF SlotsKept
<1>6. PeersMatch
  <2>1. {c \in Range(srvLoop.peers) : ~Exempt(c)} = {}
    BY <1>2, Zenon DEF Range, Connected
  <2>2. Cardinality({c \in Range(srvLoop.peers) : ~Exempt(c)}) <= SrvMaxPeers
    <3>1. Cardinality({c \in Range(srvLoop.peers) : ~Exempt(c)}) = 0
      BY <1>3, <2>1, Zenon
    <3> QED
      BY <3>1, ServerAssumption
  <2>3. srvLoop.at = "select" /\ \A c \in SrvConns : session[c] = "none"
    BY <1>1, SMTT(60)
  <2> QED
    BY <1>2, <2>2, <2>3, Zenon DEF PeersMatch
<1> QED
  BY <1>4, <1>5, <1>6 DEF ServerInv

\* Every step keeps the shape of the variables, and the peer map finite.
LEMMA ShapesNext == Shapes /\ [ServerNext]_serverVars => Shapes'
<1> SUFFICES ASSUME Shapes, [ServerNext]_serverVars PROVE Shapes'
  OBVIOUS
<1> USE DEF Shapes, Connected, SettingUp
<1>1. CASE ListenSlot
  BY <1>1 DEF ListenSlot
<1>2. CASE ListenClosed
  BY <1>2 DEF ListenClosed
<1>3. CASE LoopQuit
  BY <1>3, Zenon DEF LoopQuit
<1>4. CASE LoopDone
  BY <1>4 DEF LoopDone
<1>5. CASE StopEnds
  BY <1>5, Zenon DEF StopEnds
<1>6. CASE Stop
  BY <1>6 DEF Stop
<1>7. ASSUME NEW c \in SrvConns, SetupSelf(c) PROVE Shapes'
  BY <1>7 DEF SetupSelf
<1>8. ASSUME NEW c \in SrvConns, SetupStart(c) PROVE Shapes'
  BY <1>8 DEF SetupStart, SetupReturns
<1>9. ASSUME NEW c \in SrvConns, SetupHandshake(c) PROVE Shapes'
  BY <1>9 DEF SetupHandshake, SetupReturns
<1>10. ASSUME NEW c \in SrvConns, SetupQuit(c) PROVE Shapes'
  BY <1>10 DEF SetupQuit, SetupReturns
<1>11. ASSUME NEW c \in SrvConns, LoopCheckpoint(c) PROVE Shapes'
  BY <1>11, Zenon DEF LoopCheckpoint
<1>12. ASSUME NEW c \in SrvConns, LoopEncCheck(c) PROVE Shapes'
  BY <1>12 DEF LoopEncCheck
<1>13. ASSUME NEW c \in SrvConns, LoopProtoCheck(c) PROVE Shapes'
  <2>1. IsFiniteSet(Connected \cup {ConnId[c]})
    BY FS_AddElement, Zenon
  <2>2. CASE protoHandshakeChecks(c)
    <3> DEFINE peers == [i \in Connected \cup {ConnId[c]} |-> IF i = ConnId[c] THEN c ELSE srvLoop.peers[i]]
    <3>1. srvLoop' = [at |-> "accept", conn |-> srvLoop.conn, peers |-> peers] /\ UNCHANGED <<server, listen, setup>>
          /\ session' = [session EXCEPT ![c] = "running"]
      BY <1>13, <2>2, Zenon DEF LoopProtoCheck
    <3>2. peers \in [Connected \cup {ConnId[c]} -> SrvConns]
      OBVIOUS
    <3>3. DOMAIN peers = Connected \cup {ConnId[c]}
      OBVIOUS
    <3> HIDE DEF peers
    <3> QED
      BY <2>1, <3>1, <3>2, <3>3
  <2>3. CASE ~protoHandshakeChecks(c)
    BY <1>13, <2>3 DEF LoopProtoCheck
  <2> QED
    BY <2>2, <2>3
<1>14. ASSUME NEW c \in SrvConns, LoopAnswer(c) PROVE Shapes'
  BY <1>14, Zenon DEF LoopAnswer, SetupReturns
<1>15. ASSUME NEW c \in SrvConns, LoopDelPeer(c) PROVE Shapes'
  <2> DEFINE peers == Restrict(srvLoop.peers, Connected \ {ConnId[c]})
  <2>1. IsFiniteSet(Connected \ {ConnId[c]})
    BY FS_RemoveElement, Zenon
  <2>2. srvLoop' = [at |-> srvLoop.at, conn |-> srvLoop.conn, peers |-> peers] /\ UNCHANGED <<server, listen, setup>>
        /\ session' = [session EXCEPT ![c] = "none"]
    BY <1>15 DEF LoopDelPeer
  <2>3. peers \in [Connected \ {ConnId[c]} -> SrvConns] /\ DOMAIN peers = Connected \ {ConnId[c]}
    BY DEF Restrict
  <2> HIDE DEF peers
  <2> QED
    BY <2>1, <2>2, <2>3
<1>16. ASSUME NEW c \in SrvConns, ListenAccept(c) \/ ListenRefuses(c) \/ DialSetup(c) PROVE Shapes'
  BY <1>16 DEF ListenAccept, ListenRefuses, DialSetup
<1>17. ASSUME NEW c \in SrvConns, LoopUseless(c) \/ PeerEnds(c) PROVE Shapes'
  BY <1>17 DEF LoopUseless, PeerEnds
<1>18. ASSUME NEW i \in Connected, LoopRemoveStatic(i) PROVE Shapes'
  BY <1>18 DEF LoopRemoveStatic
<1>19. CASE UNCHANGED serverVars
  BY <1>19 DEF serverVars
<1> HIDE DEF Shapes, Connected, SettingUp
<1>20. ServerWork => Shapes'
  BY <1>1, <1>2, <1>3, <1>4, <1>5, <1>7, <1>8, <1>9, <1>10, <1>11, <1>12, <1>13, <1>14, <1>15, ZenonT(60) DEF ServerWork
<1> QED
  BY <1>6, <1>16, <1>17, <1>18, <1>19, <1>20, ZenonT(60) DEF ServerNext

-----------------------------------------------------------------------------
(* The slots of the listener.                                              *)

\* No slot moves: neither listenLoop nor a goroutine that holds one changes.
LEMMA SlotsSame ==
    ASSUME SlotsKept, UNCHANGED listen, SlotHolders' = SlotHolders
    PROVE  SlotsKept'
BY DEF SlotsKept

\* SetupConn returns: the goroutine that accepted the connection gives its slot
\* back, and only then.
LEMMA SlotReturned ==
    ASSUME Shapes, SlotsKept, NEW c \in SrvConns, setup[c] \in SettingUp,
           NEW result \in {"closed", "up"}, SetupReturns(c, result)
    PROVE  SlotsKept'
<1>1. setup' = [setup EXCEPT ![c] = result] /\ result \notin SettingUp
  BY DEF SetupReturns, SettingUp
<1>2. SlotHolders' = SlotHolders \ {c}
  BY <1>1 DEF SlotHolders, Shapes
<1>3. CASE ConnKind[c] = "inbound"
  <2>1. c \in SlotHolders
    BY <1>3 DEF SlotHolders
  <2>2. IsFiniteSet(SlotHolders \ {c}) /\ Cardinality(SlotHolders \ {c}) = Cardinality(SlotHolders) - 1
    BY <2>1, FS_RemoveElement, Zenon DEF SlotsKept
  <2>3. Cardinality(SlotHolders) \in Nat
    BY FS_CardinalityType, Zenon DEF SlotsKept
  <2>4. listen'.slots = listen.slots + 1 /\ listen'.at = listen.at
    BY <1>3 DEF SetupReturns, Shapes
  <2> QED
    BY <1>2, <2>2, <2>3, <2>4, ServerAssumption DEF SlotsKept
<1>4. CASE ConnKind[c] # "inbound"
  <2>1. UNCHANGED listen
    BY <1>4 DEF SetupReturns
  <2>2. SlotHolders \ {c} = SlotHolders
    BY <1>4 DEF SlotHolders
  <2> QED
    BY <1>2, <2>1, <2>2, SlotsSame, Zenon
<1> QED
  BY <1>3, <1>4

\* A goroutine that stays in SetupConn, or a connection that is not inbound, keeps
\* what it holds.
LEMMA SlotHeld ==
    ASSUME Shapes, SlotsKept, UNCHANGED listen, NEW c \in SrvConns, NEW at,
           setup' = [setup EXCEPT ![c] = at],
           \/ setup[c] \in SettingUp /\ at \in SettingUp
           \/ ConnKind[c] # "inbound"
    PROVE  SlotsKept'
<1>1. SlotHolders' = SlotHolders
  BY DEF SlotHolders, Shapes
<1> QED
  BY <1>1, SlotsSame, Zenon

\* No slot is lost or given back twice, however connections end.
LEMMA SlotsNext == Shapes /\ SlotsKept /\ [ServerNext]_serverVars => SlotsKept'
<1> SUFFICES ASSUME Shapes, SlotsKept, [ServerNext]_serverVars PROVE SlotsKept'
  OBVIOUS
<1>1. CASE ListenSlot
  <2>1. listen'.slots = listen.slots - 1 /\ listen.slots > 0 /\ listen.at = "slot" /\ listen'.at = "accept"
    BY <1>1 DEF ListenSlot
  <2>2. SlotHolders' = SlotHolders
    BY <1>1 DEF ListenSlot, SlotHolders
  <2>3. Cardinality(SlotHolders) \in Nat
    BY FS_CardinalityType, Zenon DEF SlotsKept
  <2> QED
    BY <2>1, <2>2, <2>3, ServerAssumption DEF SlotsKept
<1>2. CASE ListenClosed
  <2>1. listen'.slots = listen.slots /\ listen.at = "accept" /\ listen'.at = "done"
    BY <1>2 DEF ListenClosed, Shapes
  <2>2. SlotHolders' = SlotHolders
    BY <1>2 DEF ListenClosed, SlotHolders
  <2> QED
    BY <2>1, <2>2 DEF SlotsKept
<1>3. ASSUME NEW c \in SrvConns, ListenAccept(c) PROVE SlotsKept'
  <2>1. listen'.slots = listen.slots /\ listen.at = "accept" /\ listen'.at = "slot"
    BY <1>3 DEF ListenAccept, Shapes
  <2>2. SlotHolders' = SlotHolders \cup {c} /\ c \notin SlotHolders
    BY <1>3 DEF ListenAccept, SlotHolders, Shapes, SettingUp
  <2>3. /\ IsFiniteSet(SlotHolders \cup {c}) /\ Cardinality(SlotHolders \cup {c}) = Cardinality(SlotHolders) + 1
        /\ Cardinality(SlotHolders) \in Nat
    BY <2>2, FS_AddElement, FS_CardinalityType, Zenon DEF SlotsKept
  <2> QED
    BY <2>1, <2>2, <2>3, ServerAssumption DEF SlotsKept
<1>4. ASSUME NEW c \in SrvConns, DialSetup(c) PROVE SlotsKept'
  BY <1>4, SlotHeld, Zenon DEF DialSetup
<1>5. ASSUME NEW c \in SrvConns, SetupSelf(c) PROVE SlotsKept'
  BY <1>5, SlotHeld, Zenon DEF SetupSelf, SettingUp
<1>6. ASSUME NEW c \in SrvConns, SetupStart(c) PROVE SlotsKept'
  <2>1. setup[c] \in SettingUp
    BY <1>6, Zenon DEF SetupStart, SettingUp
  <2>2. CASE server.running
    BY <1>6, <2>1, <2>2, SlotHeld, Zenon DEF SetupStart, SettingUp
  <2>3. CASE ~server.running
    BY <1>6, <2>1, <2>3, SlotReturned, Zenon DEF SetupStart
  <2> QED
    BY <2>2, <2>3
<1>7. ASSUME NEW c \in SrvConns, SetupHandshake(c) PROVE SlotsKept'
  <2>1. setup[c] \in SettingUp
    BY <1>7, Zenon DEF SetupHandshake, SettingUp
  <2>2. CASE SetupReturns(c, "closed")
    BY <2>1, <2>2, SlotReturned, Zenon
  <2>3. CASE ~SetupReturns(c, "closed")
    BY <1>7, <2>1, <2>3, SlotHeld, Zenon DEF SetupHandshake, SettingUp
  <2> QED
    BY <2>2, <2>3
<1>8. ASSUME NEW c \in SrvConns, SetupQuit(c) PROVE SlotsKept'
  <2>1. setup[c] \in SettingUp
    BY <1>8, Zenon DEF SetupQuit, SettingUp
  <2> QED
    BY <1>8, <2>1, SlotReturned, Zenon DEF SetupQuit
<1>9. ASSUME NEW c \in SrvConns, LoopCheckpoint(c) PROVE SlotsKept'
  BY <1>9, SlotHeld, Zenon DEF LoopCheckpoint, SettingUp
<1>10. ASSUME NEW c \in SrvConns, LoopAnswer(c) PROVE SlotsKept'
  <2>1. setup[c] \in SettingUp
    BY <1>10, Zenon DEF LoopAnswer, SettingUp
  <2>2. \/ setup' = [setup EXCEPT ![c] = "proto"] /\ UNCHANGED listen
        \/ SetupReturns(c, "up")
        \/ SetupReturns(c, "closed")
    BY <1>10, Zenon DEF LoopAnswer
  <2> QED
    BY <2>1, <2>2, SlotHeld, SlotReturned, Zenon DEF SettingUp
<1>11. CASE UNCHANGED <<listen, setup>>
  <2>1. SlotHolders' = SlotHolders
    BY <1>11 DEF SlotHolders
  <2> QED
    BY <1>11, <2>1, SlotsSame, Zenon
<1>12. ASSUME NEW c \in SrvConns, ListenRefuses(c) PROVE SlotsKept'
  <2>1. listen'.slots = listen.slots + 1 /\ listen.at = "accept" /\ listen'.at = "slot"
    BY <1>12 DEF ListenRefuses
  <2>2. SlotHolders' = SlotHolders
    BY <1>12 DEF ListenRefuses, SlotHolders, Shapes, SettingUp
  <2>3. Cardinality(SlotHolders) \in Nat
    BY FS_CardinalityType, Zenon DEF SlotsKept
  <2> QED
    BY <2>1, <2>2, <2>3, ServerAssumption DEF SlotsKept
<1>13. \/ UNCHANGED <<listen, setup>> \/ ListenSlot \/ ListenClosed
       \/ \E c \in SrvConns : \/ ListenAccept(c) \/ ListenRefuses(c) \/ DialSetup(c) \/ SetupSelf(c) \/ SetupStart(c)
                              \/ SetupHandshake(c) \/ SetupQuit(c) \/ LoopCheckpoint(c) \/ LoopAnswer(c)
  BY Zenon DEF ServerNext, ServerWork, serverVars, LoopQuit, LoopDone, Stop, StopEnds, LoopEncCheck, LoopUseless,
     LoopProtoCheck, LoopDelPeer, LoopRemoveStatic, PeerEnds
<1> QED
  BY <1>1, <1>2, <1>3, <1>4, <1>5, <1>6, <1>7, <1>8, <1>9, <1>10, <1>11, <1>12, <1>13, ZenonT(60)

-----------------------------------------------------------------------------
(* The peer map and the runPeer goroutines.                                *)

\* Since the map files every connection under its identity, there are no more
\* connections in it than identities.
LEMMA PeersCounted ==
    ASSUME NEW ids, IsFiniteSet(ids), NEW peers \in [ids -> SrvConns],
           \A i \in ids : ConnId[peers[i]] = i, NEW N \in SUBSET Range(peers)
    PROVE  IsFiniteSet(N) /\ Cardinality(N) <= Cardinality(ids)
<1> DEFINE identity == [c \in N |-> ConnId[c]]
<1>1. \A c \in N : \E i \in ids : peers[i] = c
  BY Zenon DEF Range
<1>2. identity \in [N -> ids]
  BY <1>1
<1>3. \A c, d \in N : identity[c] = identity[d] => c = d
  BY <1>1
<1>4. identity \in Injection(N, ids)
  <2> HIDE DEF identity
  <2> QED
    BY <1>2, <1>3, Zenon DEF Injection, IsInjective
<1> QED
  BY <1>4, FS_Injection, Zenon

\* A step that leaves the map alone, and no goroutine started or reported.
LEMMA PeersSame ==
    ASSUME PeersMatch, srvLoop'.peers = srvLoop.peers,
           srvLoop'.at = "done" => srvLoop.at = "done" \/ Connected = {},
           \A c \in SrvConns : session'[c] # "none" <=> session[c] # "none"
    PROVE  PeersMatch'
<1>1. Connected' = Connected
  BY DEF Connected
<1>2. {c \in Range(srvLoop.peers) : ~Exempt(c)}' = {c \in Range(srvLoop.peers) : ~Exempt(c)}
  BY DEF Exempt
<1> QED
  BY <1>1, <1>2, ZenonT(60) DEF PeersMatch

\* The run loop adds a peer: its identity was not connected, and unless it is
\* exempt there was room for it.
LEMMA PeerAdded ==
    ASSUME Shapes, PeersMatch, NEW c \in SrvConns, LoopProtoCheck(c), protoHandshakeChecks(c)
    PROVE  PeersMatch'
<1> DEFINE peers == [i \in Connected \cup {ConnId[c]} |-> IF i = ConnId[c] THEN c ELSE srvLoop.peers[i]]
           N == {d \in Range(srvLoop.peers) : ~Exempt(d)}
           M == {d \in Range(peers) : ~Exempt(d)}
<1>1. srvLoop' = [at |-> "accept", conn |-> srvLoop.conn, peers |-> peers]
      /\ session' = [session EXCEPT ![c] = "running"]
  BY Zenon DEF LoopProtoCheck, Shapes
<1>2. ConnId[c] \notin Connected /\ ConnId[c] # SelfId /\ (~Exempt(c) => ~(Cardinality(Connected) >= SrvMaxPeers))
  BY Zenon DEF protoHandshakeChecks, encHandshakeChecks, SelfCalled, AlreadyConnected, TooManyPeers
<1>3. /\ peers \in [Connected \cup {ConnId[c]} -> SrvConns]
      /\ peers[ConnId[c]] = c
      /\ \A i \in Connected : peers[i] = srvLoop.peers[i]
  BY <1>2 DEF Shapes
<1>4. srvLoop'.peers = peers /\ srvLoop'.at = "accept" /\ Connected' = Connected \cup {ConnId[c]}
  <2>1. DOMAIN peers = Connected \cup {ConnId[c]}
    OBVIOUS
  <2> HIDE DEF peers
  <2> QED
    BY <1>1, <2>1 DEF Connected
<1> HIDE DEF peers
<1>5. \A i \in Connected \cup {ConnId[c]} : ConnId[peers[i]] = i
  BY <1>3, Zenon DEF PeersMatch
<1>6. \A d \in SrvConns : session'[d] # "none" <=> \E i \in Connected \cup {ConnId[c]} : peers[i] = d
  <2>1. session'[c] = "running" /\ \A d \in SrvConns : d # c => session'[d] = session[d]
    BY <1>1 DEF Shapes
  <2>2. \A d \in SrvConns : session[d] # "none" <=> \E i \in Connected : srvLoop.peers[i] = d
    BY DEF PeersMatch
  <2> QED
    BY <1>3, <2>1, <2>2, SMTT(60)
<1>7. Cardinality(M) <= SrvMaxPeers
  <2>1. Range(peers) = Range(srvLoop.peers) \cup {c}
    <3>1. DOMAIN peers = Connected \cup {ConnId[c]} /\ DOMAIN srvLoop.peers = Connected
      BY <1>3 DEF Connected
    <3>2. \A d \in Range(srvLoop.peers) : d \in Range(peers)
      BY <1>3, <3>1 DEF Range
    <3>3. \A d \in Range(peers) : d \in Range(srvLoop.peers) \/ d = c
      BY <1>3, <3>1 DEF Range
    <3>4. c \in Range(peers)
      BY <1>3, <3>1 DEF Range
    <3> QED
      BY <3>2, <3>3, <3>4
  <2>2. CASE Exempt(c)
    <3>1. M = N
      BY <2>1, <2>2
    <3> QED
      BY <3>1, Zenon DEF PeersMatch
  <2>3. CASE ~Exempt(c)
    <3>1. /\ IsFiniteSet(Connected \cup {ConnId[c]})
          /\ Cardinality(Connected \cup {ConnId[c]}) = Cardinality(Connected) + 1
          /\ Cardinality(Connected) \in Nat
      BY <1>2, FS_AddElement, FS_CardinalityType, Zenon DEF Shapes
    <3>2. IsFiniteSet(M) /\ Cardinality(M) <= Cardinality(Connected \cup {ConnId[c]})
      <4>1. M \in SUBSET Range(peers)
        OBVIOUS
      <4> HIDE DEF M
      <4> QED
        BY <1>3, <1>5, <3>1, <4>1, PeersCounted, Zenon
    <3>3. Cardinality(M) \in Nat
      BY <3>2, FS_CardinalityType, Zenon
    <3> HIDE DEF M
    <3> QED
      BY <1>2, <2>3, <3>1, <3>2, <3>3, ServerAssumption
  <2> QED
    BY <2>2, <2>3
<1>8. {d \in Range(srvLoop.peers) : ~Exempt(d)}' = M
  BY <1>4 DEF Exempt
<1>9. SelfId \notin Connected'
  BY <1>2, <1>4 DEF PeersMatch
<1> HIDE DEF M
<1> QED
  BY <1>4, <1>5, <1>6, <1>7, <1>8, <1>9, ZenonT(60) DEF PeersMatch

\* The run loop forgets a peer whose goroutine has reported: the entry deleted
\* under the peer's identity is the peer's own.
LEMMA PeerDeleted ==
    ASSUME Shapes, PeersMatch, NEW c \in SrvConns, LoopDelPeer(c)
    PROVE  PeersMatch'
<1> DEFINE peers == Restrict(srvLoop.peers, Connected \ {ConnId[c]})
           N == {d \in Range(srvLoop.peers) : ~Exempt(d)}
           M == {d \in Range(peers) : ~Exempt(d)}
<1>1. /\ srvLoop' = [at |-> srvLoop.at, conn |-> srvLoop.conn, peers |-> peers]
      /\ session' = [session EXCEPT ![c] = "none"] /\ session[c] = "ended"
      /\ srvLoop.at \in {"select", "spindown"}
  BY DEF LoopDelPeer, Shapes
<1>2. /\ DOMAIN peers = Connected \ {ConnId[c]}
      /\ \A i \in Connected \ {ConnId[c]} : peers[i] = srvLoop.peers[i]
  BY DEF Restrict
<1>3. srvLoop'.peers = peers /\ srvLoop'.at # "done" /\ Connected' = Connected \ {ConnId[c]}
  <2> HIDE DEF peers
  <2> QED
    BY <1>1, <1>2 DEF Connected
<1> HIDE DEF peers
<1>4. \A d \in SrvConns : session'[d] # "none" <=> \E i \in Connected \ {ConnId[c]} : peers[i] = d
  <2>1. session'[c] = "none" /\ session[c] # "none" /\ \A d \in SrvConns : d # c => session'[d] = session[d]
    BY <1>1 DEF Shapes
  <2>2. ConnId[c] \in Connected /\ srvLoop.peers[ConnId[c]] = c
    BY <2>1 DEF PeersMatch
  <2>3. \A i \in Connected : ConnId[srvLoop.peers[i]] = i
    BY DEF PeersMatch
  <2>4. \A i \in Connected \ {ConnId[c]} : peers[i] # c
    BY <1>2, <2>3
  <2>5. \A d \in SrvConns : session[d] # "none" <=> \E i \in Connected : srvLoop.peers[i] = d
    BY DEF PeersMatch
  <2> QED
    BY <1>2, <2>1, <2>2, <2>4, <2>5, SMTT(60)
<1>5. Cardinality(M) <= SrvMaxPeers
  <2>1. Range(peers) \subseteq Range(srvLoop.peers)
    BY <1>2, Zenon DEF Range, Connected
  <2>2. N \in SUBSET Range(srvLoop.peers) /\ M \in SUBSET N
    BY <2>1
  <2>3. Cardinality(N) <= SrvMaxPeers
    BY Zenon DEF PeersMatch
  <2> HIDE DEF M, N
  <2>4. IsFiniteSet(N)
    BY <2>2, PeersCounted, Zenon DEF Shapes, PeersMatch
  <2>5. Cardinality(M) <= Cardinality(N) /\ Cardinality(M) \in Nat /\ Cardinality(N) \in Nat
    BY <2>2, <2>4, FS_Subset, FS_CardinalityType, ZenonT(60)
  <2> QED
    BY <2>3, <2>5, ServerAssumption
<1>6. {d \in Range(srvLoop.peers) : ~Exempt(d)}' = M
  BY <1>3 DEF Exempt
<1> HIDE DEF M
<1>7. \A i \in Connected \ {ConnId[c]} : ConnId[peers[i]] = i
  BY <1>2, Zenon DEF PeersMatch
<1> QED
  BY <1>3, <1>4, <1>5, <1>6, <1>7, ZenonT(60) DEF PeersMatch

\* The map and the goroutines agree after every step.
LEMMA PeersNext == Shapes /\ PeersMatch /\ [ServerNext]_serverVars => PeersMatch'
<1> SUFFICES ASSUME Shapes, PeersMatch, [ServerNext]_serverVars PROVE PeersMatch'
  OBVIOUS
<1>1. ASSUME NEW c \in SrvConns, LoopProtoCheck(c) PROVE PeersMatch'
  <2>1. CASE protoHandshakeChecks(c)
    BY <1>1, <2>1, PeerAdded, Zenon
  <2>2. CASE ~protoHandshakeChecks(c)
    <3>1. srvLoop'.peers = srvLoop.peers /\ srvLoop'.at # "done" /\ UNCHANGED session
      BY <1>1, <2>2 DEF LoopProtoCheck, Shapes
    <3> QED
      BY <3>1, PeersSame, Zenon
  <2> QED
    BY <2>1, <2>2
<1>2. ASSUME NEW c \in SrvConns, LoopDelPeer(c) PROVE PeersMatch'
  BY <1>2, PeerDeleted, Zenon
<1>3. CASE LoopQuit
  <2>1. srvLoop'.peers = srvLoop.peers /\ srvLoop'.at # "done"
    BY <1>3 DEF LoopQuit, Shapes
  <2>2. \A c \in SrvConns : session'[c] # "none" <=> session[c] # "none"
    BY <1>3 DEF LoopQuit
  <2> QED
    BY <2>1, <2>2, PeersSame, Zenon
<1>4. CASE LoopDone
  <2>1. srvLoop'.peers = srvLoop.peers /\ Connected = {} /\ UNCHANGED session
    BY <1>4 DEF LoopDone, Shapes
  <2> QED
    BY <2>1, PeersSame, Zenon
<1>5. ASSUME NEW i \in Connected, LoopRemoveStatic(i) PROVE PeersMatch'
  <2>1. srvLoop.peers[i] \in SrvConns /\ session[srvLoop.peers[i]] # "none"
    BY DEF Shapes, PeersMatch
  <2>2. UNCHANGED srvLoop /\ session' = [session EXCEPT ![srvLoop.peers[i]] = "ended"]
    BY <1>5 DEF LoopRemoveStatic
  <2>3. \A c \in SrvConns : session'[c] # "none" <=> session[c] # "none"
    BY <2>1, <2>2 DEF Shapes
  <2> QED
    BY <2>2, <2>3, PeersSame, ZenonT(60)
<1>6. ASSUME NEW c \in SrvConns, PeerEnds(c) PROVE PeersMatch'
  <2>1. \A d \in SrvConns : session'[d] # "none" <=> session[d] # "none"
    BY <1>6 DEF PeerEnds, Shapes
  <2> QED
    BY <1>6, <2>1, PeersSame, ZenonT(60) DEF PeerEnds
<1>7. ASSUME NEW c \in SrvConns, SetupQuit(c) PROVE PeersMatch'
  <2>1. \A d \in SrvConns : session'[d] # "none" <=> session[d] # "none"
    BY <1>7 DEF SetupQuit, Shapes
  <2> QED
    BY <1>7, <2>1, PeersSame, ZenonT(60) DEF SetupQuit
<1>8. ASSUME NEW c \in SrvConns, LoopCheckpoint(c) \/ LoopEncCheck(c) \/ LoopAnswer(c) \/ LoopUseless(c)
      PROVE PeersMatch'
  <2>1. srvLoop'.peers = srvLoop.peers /\ srvLoop'.at # "done" /\ UNCHANGED session
    BY <1>8, Zenon DEF LoopCheckpoint, LoopEncCheck, LoopAnswer, LoopUseless, Shapes
  <2> QED
    BY <2>1, PeersSame, Zenon
<1>9. CASE UNCHANGED <<srvLoop, session>>
  BY <1>9, PeersSame, Zenon
<1>10. \/ UNCHANGED <<srvLoop, session>> \/ LoopQuit \/ LoopDone \/ (\E i \in Connected : LoopRemoveStatic(i))
       \/ \E c \in SrvConns : \/ LoopProtoCheck(c) \/ LoopDelPeer(c) \/ PeerEnds(c) \/ SetupQuit(c)
                              \/ LoopCheckpoint(c) \/ LoopEncCheck(c) \/ LoopAnswer(c) \/ LoopUseless(c)
  BY Zenon DEF ServerNext, ServerWork, serverVars, ListenSlot, ListenClosed, ListenAccept, ListenRefuses, DialSetup, Stop, StopEnds,
     SetupSelf, SetupStart, SetupHandshake
<1> QED
  BY <1>1, <1>2, <1>3, <1>4, <1>5, <1>6, <1>7, <1>8, <1>9, <1>10, ZenonT(60)

-----------------------------------------------------------------------------
\* The peer map and the runPeer goroutines agree whatever the connections do
\* (server.go 562-592): no identity is connected twice, MaxPeers bounds the peers
\* that are neither trusted nor static, no handshake slot is lost, and the run
\* loop ends with no peer left, for every set of connections and every limit.
THEOREM ServerPeersServed == ServerSpec => []PeersServed
<1>1. ServerInv /\ [ServerNext]_serverVars => ServerInv'
  BY ShapesNext, SlotsNext, PeersNext, Zenon DEF ServerInv
<1>2. ServerInv => PeersServed
  <2> SUFFICES ASSUME Shapes, SlotsKept, PeersMatch PROVE PeersServed
    BY Zenon DEF ServerInv
  <2>1. ServerTypeOK
    BY Zenon DEF ServerTypeOK, Shapes, PeersMatch
  <2>2. \A c \in SrvConns : c \in Range(srvLoop.peers) <=> \E i \in Connected : srvLoop.peers[i] = c
    BY Zenon DEF Range, Connected
  <2> QED
    BY <2>1, <2>2, Zenon DEF PeersServed, PeersMatch
<1> QED
  BY ServerInitInv, <1>1, <1>2, PTL DEF ServerSpec

-----------------------------------------------------------------------------
(* RpcClient: types.                                                       *)

AllIds == UNION {IdsOf(o) : o \in AllOps}

OpRecords == [at : {"idle", "send", "write", "wait", "over"}, resp : Seq({"resp", "closed"}), got : Nat,
              sentOn : Nat]
DispatcherRecords ==
    [at : {"loop", "deliver", "waitread", "closesubs", "drain", "quit"}, locked : BOOLEAN,
     lastOp : AllOps \cup {NoOp}, reading : BOOLEAN, conn : Nat, respWait : SUBSET AllIds,
     subs : SUBSET SubOps, left : SUBSET SubOps, quits : BOOLEAN]
WireRecords ==
    [write : Nat, made : Nat, closed : SUBSET Nat, reader : {"read", "resp", "note", "err", "gone"},
     msg : AllOps \cup {NoOp}, ids : SUBSET AllIds, sendDone : Seq({"ok", "err"}),
     asked : SUBSET (AllIds \X Nat), notes : Nat]
SubRecords == [at : {"none", "forward", "failed", "over"}, once : {"free", "forward", "user", "done"},
               quit : BOOLEAN, in : Nat, err : Nat, user : {"idle", "over"}]

-----------------------------------------------------------------------------
(* The inductive invariant.                                                *)

Responses(resp) == Cardinality({i \in DOMAIN resp : resp[i] = "resp"})

\* A request r with the ids w that dispatch still waits for: the responses it
\* has and those to come fit into its channel, and nothing is to come once the
\* channel is closed.
OpGood(o, r, w) ==
    /\ r.at \in {"idle", "send"} => r.resp = <<>> /\ w = {}
    /\ \A i \in DOMAIN r.resp : r.resp[i] = "closed" => i = Len(r.resp) /\ w = {}
    /\ Responses(r.resp) + Cardinality(w) <= OpIds[o]

AwaitedOf(o, respWait) == IdsOf(o) \cap respWait

\* The write lock: one request is writing, or its outcome is in sendDone.
LockGood(d, sendDone, ops) ==
    /\ d.locked \/ (Len(sendDone) = 0 /\ \A o \in AllOps : ops[o].at # "write")
    /\ d.locked => /\ d.lastOp \in AllOps
                   /\ \A o \in AllOps : ops[o].at = "write" => o = d.lastOp /\ Len(sendDone) = 0
                   /\ Len(sendDone) <= 1

SubGood(s, r, ops) ==
    /\ r.once # "done" => r.err = 0 /\ r.user # "over"
    /\ r.err <= 1
    /\ r.once = "free" => ops[UnsubOp[s]].at = "idle"

OpsGood(ops, respWait) ==
    /\ ops \in [AllOps -> OpRecords]
    /\ \A o \in AllOps : OpGood(o, ops[o], AwaitedOf(o, respWait))

SubsGood(subs, ops) ==
    /\ subs \in [SubOps -> SubRecords]
    /\ \A s \in SubOps : SubGood(s, subs[s], ops)

ReaderGood(w) ==
    /\ w \in WireRecords
    /\ w.reader = "resp" => w.msg \in AllOps /\ w.ids \subseteq IdsOf(w.msg)

ClientInv ==
    /\ dispatcher \in DispatcherRecords
    /\ ReaderGood(rpcWire)
    /\ OpsGood(rpcOps, dispatcher.respWait)
    /\ LockGood(dispatcher, rpcWire.sendDone, rpcOps)
    /\ SubsGood(rpcSubs, rpcOps)

-----------------------------------------------------------------------------
(* Ids and responses, counted.                                             *)

LEMMA IdsCounted ==
    ASSUME NEW o \in AllOps
    PROVE  IsFiniteSet(IdsOf(o)) /\ Cardinality(IdsOf(o)) = OpIds[o] /\ OpIds[o] \in Nat
<1> DEFINE n == OpIds[o]
           f == [i \in 1 .. n |-> <<o, i>>]
<1>1. n \in Nat
  BY RpcClientAssumption
<1>2. IsFiniteSet(1 .. n) /\ Cardinality(1 .. n) = n
  <2> HIDE DEF n
  <2>1. n \in Int /\ 1 \in Int
    BY <1>1
  <2>2. IsFiniteSet(1 .. n) /\ Cardinality(1 .. n) = IF 1 > n THEN 0 ELSE n - 1 + 1
    BY <2>1, FS_Interval, Zenon
  <2> QED
    BY <1>1, <2>2
<1>3. f \in Bijection(1 .. n, IdsOf(o))
  <2>1. f \in [1 .. n -> IdsOf(o)]
    BY Zenon DEF IdsOf
  <2>2. ASSUME NEW i \in 1 .. n, NEW j \in 1 .. n, f[i] = f[j] PROVE i = j
    <3>1. f[i] = <<o, i>> /\ f[j] = <<o, j>>
      BY Zenon
    <3>2. <<o, i>> = <<o, j>>
      BY <2>2, <3>1, Zenon
    <3> HIDE DEF f, n
    <3> QED
      BY <3>2
  <2>3. \A t \in IdsOf(o) : \E i \in 1 .. n : f[i] = t
    BY Zenon DEF IdsOf
  <2> HIDE DEF f
  <2> QED
    BY <2>1, <2>2, <2>3, ZenonT(60) DEF Bijection, Injection, Surjection, IsInjective
<1> QED
  BY <1>1, <1>2, <1>3, FS_Bijection, ZenonT(60) DEF ExistsBijection

LEMMA IdsApart == \A o, p : o # p => IdsOf(o) \cap IdsOf(p) = {}
  BY DEF IdsOf

RespSeqs == Seq({"resp", "closed"})

LEMMA ResponsesTyped ==
    ASSUME NEW r \in RespSeqs
    PROVE  Responses(r) \in Nat /\ IsFiniteSet({i \in DOMAIN r : r[i] = "resp"})
<1>1. IsFiniteSet(DOMAIN r)
  BY FS_Interval, LenProperties DEF RespSeqs
<1> QED
  BY <1>1, FS_Subset, FS_CardinalityType, ZenonT(60) DEF Responses

LEMMA ResponsesNone == Responses(<<>>) = 0 /\ <<>> \in RespSeqs
<1>1. {i \in DOMAIN <<>> : <<>>[i] = "resp"} = {}
  OBVIOUS
<1> QED
  BY <1>1, FS_EmptySet DEF Responses, RespSeqs

\* A channel is closed: no more responses.
LEMMA ResponsesClosed ==
    ASSUME NEW r \in RespSeqs
    PROVE  /\ Append(r, "closed") \in RespSeqs /\ Responses(Append(r, "closed")) = Responses(r)
           /\ r \o <<"closed">> = Append(r, "closed")
           /\ Len(Append(r, "closed")) = Len(r) + 1 /\ Len(r) \in Nat
           /\ \A i \in DOMAIN Append(r, "closed") : i = Len(r) + 1 \/ (i \in DOMAIN r /\ Append(r, "closed")[i] = r[i])
<1> DEFINE a == Append(r, "closed")
<1>1. /\ a \in RespSeqs /\ Len(a) = Len(r) + 1 /\ Len(r) \in Nat /\ a[Len(r) + 1] = "closed"
      /\ DOMAIN r = 1 .. Len(r) /\ DOMAIN a = 1 .. Len(r) + 1 /\ \A i \in 1 .. Len(r) : a[i] = r[i]
  BY DEF RespSeqs
<1>2. r \o <<"closed">> = a
  BY DEF RespSeqs
<1> HIDE DEF a
<1>3. {i \in DOMAIN a : a[i] = "resp"} = {i \in DOMAIN r : r[i] = "resp"}
  BY <1>1
<1>4. \A i \in DOMAIN a : i = Len(r) + 1 \/ (i \in DOMAIN r /\ a[i] = r[i])
  BY <1>1
<1> QED
  BY <1>1, <1>2, <1>3, <1>4, ZenonT(60) DEF Responses, a

\* Responses are put into a channel.
Put(k) == [i \in 1 .. k |-> "resp"]
LEMMA ResponsesPut ==
    ASSUME NEW r \in RespSeqs, NEW k \in Nat, NEW a, a = r \o Put(k)
    PROVE  /\ a \in RespSeqs /\ Responses(a) = Responses(r) + k
           /\ \A i \in DOMAIN a : a[i] = "closed" => i \in DOMAIN r /\ r[i] = "closed"
<1> DEFINE n == Len(r)
<1>1. Put(k) \in RespSeqs /\ Len(Put(k)) = k /\ \A i \in 1 .. k : Put(k)[i] = "resp"
  BY DEF Put, RespSeqs
<1>2. /\ a \in RespSeqs /\ Len(a) = n + k /\ n \in Nat /\ DOMAIN r = 1 .. n /\ DOMAIN a = 1 .. n + k
      /\ \A i \in 1 .. n : a[i] = r[i]
      /\ \A i \in n + 1 .. n + k : a[i] = "resp"
  <2>1. /\ a \in RespSeqs /\ Len(a) = n + k /\ n \in Nat
        /\ \A i \in 1 .. n + k : a[i] = IF i <= n THEN r[i] ELSE Put(k)[i - n]
    <3>1. \A q \in RespSeqs : /\ r \o q \in RespSeqs /\ Len(r \o q) = Len(r) + Len(q) /\ Len(r) \in Nat
                              /\ \A i \in 1 .. Len(r) + Len(q) : (r \o q)[i] = IF i <= Len(r) THEN r[i] ELSE q[i - Len(r)]
      BY ConcatProperties DEF RespSeqs
    <3> QED
      BY <1>1, <3>1, ZenonT(60)
  <2>2. DOMAIN r = 1 .. n /\ DOMAIN a = 1 .. n + k
    BY <2>1, LenProperties, SMTT(60) DEF RespSeqs
  <2> HIDE DEF n
  <2>3. \A i \in n + 1 .. n + k : a[i] = "resp"
    BY <1>1, <2>1, SMTT(60)
  <2> QED
    BY <2>1, <2>2, <2>3, SMTT(60)
<1>3. {i \in DOMAIN a : a[i] = "resp"} = {i \in DOMAIN r : r[i] = "resp"} \cup (n + 1 .. n + k)
  BY <1>2
<1>4. {i \in DOMAIN r : r[i] = "resp"} \cap (n + 1 .. n + k) = {}
  BY <1>2
<1>5. IsFiniteSet(n + 1 .. n + k) /\ Cardinality(n + 1 .. n + k) = k
  BY <1>2, FS_Interval, SMTT(60)
<1>6. Responses(a) = Responses(r) + k
  <2> DEFINE S == {i \in DOMAIN r : r[i] = "resp"}
             T == n + 1 .. n + k
  <2>1. IsFiniteSet(S) /\ Cardinality(S) \in Nat
    BY ResponsesTyped, ZenonT(60) DEF Responses
  <2>2. S \cap T = {} /\ IsFiniteSet(T) /\ Cardinality(T) = k
    BY <1>4, <1>5
  <2>3. Cardinality({i \in DOMAIN a : a[i] = "resp"}) = Cardinality(S \cup T)
    BY <1>3, Zenon
  <2>3a. Responses(r) = Cardinality(S) /\ Responses(a) = Cardinality({i \in DOMAIN a : a[i] = "resp"})
    BY Zenon DEF Responses
  <2> HIDE DEF S, T
  <2>4. Cardinality(S \cup T) = Cardinality(S) + k
    <3>1. Cardinality(S \cap T) = 0
      BY <2>2, FS_EmptySet, Zenon
    <3>2. Cardinality(S \cup T) = Cardinality(S) + Cardinality(T) - Cardinality(S \cap T)
      BY <2>1, <2>2, FS_Union, ZenonT(60)
    <3> QED
      BY <2>1, <2>2, <3>1, <3>2, SMTT(60)
  <2> QED
    BY <2>3, <2>3a, <2>4, Zenon
<1>7. \A i \in DOMAIN a : a[i] = "closed" => i \in DOMAIN r /\ r[i] = "closed"
  BY <1>2
<1> QED
  BY <1>2, <1>6, <1>7, ZenonT(60)

-----------------------------------------------------------------------------
(* One request.                                                            *)

LEMMA AwaitedFinite ==
    ASSUME NEW o \in AllOps, NEW respWait
    PROVE  LET w == AwaitedOf(o, respWait) IN w \subseteq IdsOf(o) /\ IsFiniteSet(w) /\ Cardinality(w) \in Nat
  BY IdsCounted, FS_Subset, FS_CardinalityType, ZenonT(60) DEF AwaitedOf

\* Fewer ids are waited for, by a request that is past its start or as it was.
LEMMA OpFewer ==
    ASSUME NEW o \in AllOps, NEW r \in OpRecords, NEW t \in OpRecords, NEW w \in SUBSET IdsOf(o),
           NEW v \in SUBSET w, OpGood(o, r, w), t.resp = r.resp,
           t.at = r.at \/ t.at \notin {"idle", "send"} \/ r.at \in {"idle", "send"}
    PROVE  OpGood(o, t, v)
<1>1. IsFiniteSet(w) /\ Cardinality(w) \in Nat /\ OpIds[o] \in Nat
  BY IdsCounted, FS_Subset, FS_CardinalityType, SMTT(60)
<1>2. Cardinality(v) \in Nat /\ Cardinality(v) <= Cardinality(w)
  BY <1>1, FS_Subset, FS_CardinalityType
<1>3. r.resp \in RespSeqs /\ Responses(r.resp) \in Nat
  BY ResponsesTyped, ZenonT(60) DEF OpRecords, RespSeqs
<1>4. Responses(t.resp) + Cardinality(v) <= OpIds[o]
  BY <1>1, <1>2, <1>3, SMTT(60) DEF OpGood
<1> QED
  BY <1>4, ZenonT(60) DEF OpGood

\* A request is taken: all of its ids are waited for.
LEMMA OpBegun ==
    ASSUME NEW o \in AllOps, NEW r \in OpRecords, NEW w, OpGood(o, r, w), r.at = "send",
           NEW t \in OpRecords, t.resp = r.resp, t.at = "write"
    PROVE  OpGood(o, t, IdsOf(o))
<1>1. r.resp = <<>>
  BY DEF OpGood
<1>2. Responses(t.resp) = 0 /\ DOMAIN t.resp = {}
  BY <1>1, ResponsesNone
<1>3. Cardinality(IdsOf(o)) = OpIds[o] /\ OpIds[o] \in Nat
  BY IdsCounted
<1> QED
  BY <1>2, <1>3 DEF OpGood

\* The responses for the ids k of w go into the channel.
LEMMA OpAnswered ==
    ASSUME NEW o \in AllOps, NEW r \in OpRecords, NEW w \in SUBSET IdsOf(o), NEW k \in SUBSET w, k # {},
           OpGood(o, r, w), NEW t \in OpRecords, t.at = r.at, t.resp = r.resp \o Put(Cardinality(k))
    PROVE  OpGood(o, t, w \ k)
<1>1. IsFiniteSet(w) /\ Cardinality(w) \in Nat /\ IsFiniteSet(k) /\ Cardinality(k) \in Nat
  BY IdsCounted, FS_Subset, FS_CardinalityType
<1>2. Cardinality(w \ k) = Cardinality(w) - Cardinality(k)
  <2>1. w \cap k = k
    OBVIOUS
  <2> QED
    BY <1>1, <2>1, FS_Difference, ZenonT(60)
<1>3. r.resp \in RespSeqs /\ Responses(r.resp) \in Nat
  BY ResponsesTyped, Zenon DEF OpRecords, RespSeqs
<1>4. /\ Responses(t.resp) = Responses(r.resp) + Cardinality(k)
      /\ \A i \in DOMAIN t.resp : t.resp[i] = "closed" => i \in DOMAIN r.resp /\ r.resp[i] = "closed"
  BY <1>1, <1>3, ResponsesPut, Zenon
<1>5. w # {}
  OBVIOUS
<1>6. \A i \in DOMAIN t.resp : t.resp[i] # "closed"
  BY <1>4, <1>5, Zenon DEF OpGood
<1>7. t.at \notin {"idle", "send"}
  BY <1>5, ZenonT(60) DEF OpGood
<1>8. Responses(t.resp) + Cardinality(w \ k) <= OpIds[o]
  <2>1. OpIds[o] \in Nat /\ Responses(r.resp) + Cardinality(w) <= OpIds[o]
    BY IdsCounted, Zenon DEF OpGood
  <2> QED
    BY <1>1, <1>2, <1>3, <1>4, <2>1, SMTT(60)
<1> QED
  BY <1>6, <1>7, <1>8, ZenonT(60) DEF OpGood

\* The channel of a request that is waited for is closed.
LEMMA OpClosed ==
    ASSUME NEW o \in AllOps, NEW r \in OpRecords, NEW w \in SUBSET IdsOf(o), w # {},
           OpGood(o, r, w), NEW t \in OpRecords, t.at = r.at, t.resp = Append(r.resp, "closed")
    PROVE  OpGood(o, t, {})
<1>1. IsFiniteSet(w) /\ Cardinality(w) \in Nat
  BY IdsCounted, FS_Subset, FS_CardinalityType
<1>3. r.resp \in RespSeqs /\ Responses(r.resp) \in Nat
  BY ResponsesTyped, Zenon DEF OpRecords, RespSeqs
<1>4. /\ Responses(t.resp) = Responses(r.resp) /\ Len(t.resp) = Len(r.resp) + 1
      /\ \A i \in DOMAIN t.resp : i = Len(r.resp) + 1 \/ (i \in DOMAIN r.resp /\ t.resp[i] = r.resp[i])
  <2>1. \A q \in RespSeqs : \A p : p = Append(q, "closed") =>
           /\ Responses(p) = Responses(q) /\ Len(p) = Len(q) + 1
           /\ \A i \in DOMAIN p : i = Len(q) + 1 \/ (i \in DOMAIN q /\ p[i] = q[i])
    BY ResponsesClosed, Zenon
  <2> QED
    BY <1>3, <2>1, ZenonT(60)
<1>5. \A i \in DOMAIN t.resp : t.resp[i] = "closed" => i = Len(t.resp)
  BY <1>4, Zenon DEF OpGood
<1>6. t.at \notin {"idle", "send"}
  BY ZenonT(60) DEF OpGood
<1>7. Responses(t.resp) + Cardinality({}) <= OpIds[o]
  <2>1. OpIds[o] \in Nat /\ Responses(r.resp) + Cardinality(w) <= OpIds[o]
    BY IdsCounted, Zenon DEF OpGood
  <2> QED
    BY <1>1, <1>3, <1>4, <2>1, FS_EmptySet, SMTT(60)
<1> QED
  BY <1>5, <1>6, <1>7, ZenonT(60) DEF OpGood

-----------------------------------------------------------------------------
(* One request of all, one subscription of all.                            *)

LEMMA OneOp ==
    ASSUME NEW ops, NEW w, NEW v, OpsGood(ops, w), NEW o \in AllOps, NEW t \in OpRecords,
           OpGood(o, t, AwaitedOf(o, v)), \A p \in AllOps \ {o} : AwaitedOf(p, v) = AwaitedOf(p, w)
    PROVE  OpsGood([ops EXCEPT ![o] = t], v)
<1> DEFINE n == [ops EXCEPT ![o] = t]
<1>1. n \in [AllOps -> OpRecords] /\ n[o] = t /\ \A p \in AllOps \ {o} : n[p] = ops[p]
  BY Zenon DEF OpsGood
<1> HIDE DEF n
<1>2. ASSUME NEW p \in AllOps PROVE OpGood(p, n[p], AwaitedOf(p, v))
  <2>1. CASE p = o
    BY <1>1, <2>1, Zenon
  <2>2. CASE p # o
    BY <1>1, <2>2, Zenon DEF OpsGood
  <2> QED
    BY <2>1, <2>2
<1> QED
  BY <1>1, <1>2, Zenon DEF OpsGood, n

LEMMA OneSub ==
    ASSUME NEW subs, NEW ops, SubsGood(subs, ops), NEW s \in SubOps, NEW t \in SubRecords, SubGood(s, t, ops)
    PROVE  SubsGood([subs EXCEPT ![s] = t], ops)
<1> DEFINE n == [subs EXCEPT ![s] = t]
<1>1. n \in [SubOps -> SubRecords] /\ n[s] = t /\ \A p \in SubOps \ {s} : n[p] = subs[p]
  BY Zenon DEF SubsGood
<1> HIDE DEF n
<1>2. ASSUME NEW p \in SubOps PROVE SubGood(p, n[p], ops)
  <2>1. CASE p = s
    BY <1>1, <2>1, Zenon
  <2>2. CASE p # s
    BY <1>1, <2>2, ZenonT(60) DEF SubsGood
  <2> QED
    BY <2>1, <2>2
<1> QED
  BY <1>1, <1>2, Zenon DEF SubsGood, n

\* A request moves that is not one to end a subscription with, or was made.
LEMMA SubsOneOp ==
    ASSUME NEW subs, NEW ops \in [AllOps -> OpRecords], SubsGood(subs, ops), NEW o \in AllOps, NEW t,
           ops[o].at # "idle" \/ o \in CallOps \cup SubOps \/ t.at = ops[o].at
    PROVE  SubsGood(subs, [ops EXCEPT ![o] = t])
<1> DEFINE n == [ops EXCEPT ![o] = t]
<1>1. n[o] = t /\ \A p \in AllOps \ {o} : n[p] = ops[p]
  BY ZenonT(60)
<1> HIDE DEF n
<1>2. ASSUME NEW s \in SubOps, subs[s].once = "free" PROVE n[UnsubOp[s]].at = "idle"
  <2>1. UnsubOp[s] \in AllOps /\ UnsubOp[s] \notin CallOps \cup SubOps
    BY RpcClientAssumption, Zenon DEF AllOps
  <2>2. ops[UnsubOp[s]].at = "idle"
    BY <1>2, Zenon DEF SubsGood, SubGood
  <2>3. CASE UnsubOp[s] = o
    BY <1>1, <2>1, <2>2, <2>3, ZenonT(60)
  <2>4. CASE UnsubOp[s] # o
    BY <1>1, <2>1, <2>2, <2>4, ZenonT(60)
  <2> QED
    BY <2>3, <2>4
<1> QED
  BY <1>2, Zenon DEF SubsGood, SubGood, n

\* A step by which no request begins to write.
LEMMA LockOneOp ==
    ASSUME NEW d, NEW e, NEW n, NEW ops \in [AllOps -> OpRecords], LockGood(d, n, ops), NEW o \in AllOps, NEW t,
           t.at # "write" \/ t.at = ops[o].at, e.locked = d.locked, e.lastOp = d.lastOp
    PROVE  LockGood(e, n, [ops EXCEPT ![o] = t])
<1> DEFINE m == [ops EXCEPT ![o] = t]
<1>1. m[o] = t /\ \A p \in AllOps \ {o} : m[p] = ops[p]
  BY Zenon
<1> HIDE DEF m
<1>2. \A p \in AllOps : m[p].at = "write" => ops[p].at = "write"
  BY <1>1, Zenon
<1> QED
  BY <1>2, Zenon DEF LockGood, m

LEMMA OpMoves ==
    ASSUME ClientInv, NEW o \in AllOps, NEW t \in OpRecords, t.resp = rpcOps[o].resp, t.at # "write",
           t.at \notin {"idle", "send"} \/ rpcOps[o].at \in {"idle", "send"},
           rpcOps[o].at # "idle" \/ o \in CallOps \cup SubOps,
           rpcOps' = [rpcOps EXCEPT ![o] = t], UNCHANGED <<dispatcher, rpcWire, rpcSubs>>
    PROVE  ClientInv'
<1>1. rpcOps \in [AllOps -> OpRecords] /\ rpcOps[o] \in OpRecords
  BY Zenon DEF ClientInv, OpsGood
<1>2. OpGood(o, t, AwaitedOf(o, dispatcher.respWait))
  <2> DEFINE w == AwaitedOf(o, dispatcher.respWait)
  <2>1. w \in SUBSET IdsOf(o) /\ OpGood(o, rpcOps[o], w)
    BY Zenon DEF ClientInv, OpsGood, AwaitedOf
  <2> HIDE DEF w
  <2>2. w \in SUBSET w
    OBVIOUS
  <2>3. OpGood(o, t, w)
    BY <1>1, <2>1, <2>2, OpFewer, ZenonT(60)
  <2> QED
    BY <2>3 DEF w
<1>3. OpsGood(rpcOps', dispatcher.respWait)
  BY <1>2, OneOp, Zenon DEF ClientInv
<1>4. SubsGood(rpcSubs, rpcOps')
  BY <1>1, SubsOneOp, Zenon DEF ClientInv
<1>5. LockGood(dispatcher, rpcWire.sendDone, rpcOps')
  BY <1>1, LockOneOp, Zenon DEF ClientInv
<1> QED
  BY <1>3, <1>4, <1>5, Zenon DEF ClientInv

-----------------------------------------------------------------------------
(* The steps of a request.                                                 *)

LEMMA BeginKeeps == ASSUME ClientInv, NEW o \in AllOps, Begin(o) PROVE ClientInv'
<1> DEFINE t == [rpcOps[o] EXCEPT !.at = "send"]
<1>1. rpcOps[o] \in OpRecords
  BY Zenon DEF ClientInv, OpsGood
<1>2. t \in OpRecords /\ t.at = "send" /\ t.resp = rpcOps[o].resp
  BY <1>1 DEF OpRecords
<1>3. rpcOps' = [rpcOps EXCEPT ![o] = t]
  BY Zenon DEF Begin
<1>4. rpcOps[o].at = "idle" /\ o \in CallOps \cup SubOps /\ UNCHANGED <<dispatcher, rpcWire, rpcSubs>>
  BY Zenon DEF Begin
<1> HIDE DEF t
<1> QED
  BY <1>2, <1>3, <1>4, OpMoves, ZenonT(60)

LEMMA SendFailsKeeps == ASSUME ClientInv, NEW o \in AllOps, SendFails(o) PROVE ClientInv'
<1> DEFINE t == [rpcOps[o] EXCEPT !.at = "over"]
<1>1. rpcOps[o] \in OpRecords
  BY Zenon DEF ClientInv, OpsGood
<1>2. t \in OpRecords /\ t.at = "over" /\ t.resp = rpcOps[o].resp
  BY <1>1 DEF OpRecords
<1>3. rpcOps' = [rpcOps EXCEPT ![o] = t]
  BY Zenon DEF SendFails
<1>4. rpcOps[o].at = "send" /\ UNCHANGED <<dispatcher, rpcWire, rpcSubs>>
  BY Zenon DEF SendFails
<1> HIDE DEF t
<1> QED
  BY <1>2, <1>3, <1>4, OpMoves, ZenonT(60)

LEMMA WaitEndsKeeps == ASSUME ClientInv, NEW o \in AllOps, WaitEnds(o) PROVE ClientInv'
<1>1. rpcOps[o] \in OpRecords /\ rpcOps[o].at = "wait" /\ UNCHANGED <<dispatcher, rpcWire, rpcSubs>>
  BY Zenon DEF ClientInv, OpsGood, WaitEnds
<1>2. ASSUME NEW t \in OpRecords, t.at \in {"wait", "over"}, t.resp = rpcOps[o].resp, rpcOps' = [rpcOps EXCEPT ![o] = t]
      PROVE  ClientInv'
  BY <1>1, <1>2, OpMoves, ZenonT(60)
<1>3. CASE rpcOps' = [rpcOps EXCEPT ![o].at = "over"]
  <2> DEFINE t == [rpcOps[o] EXCEPT !.at = "over"]
  <2>1. t \in OpRecords /\ t.at = "over" /\ t.resp = rpcOps[o].resp
    BY <1>1 DEF OpRecords
  <2>2. rpcOps' = [rpcOps EXCEPT ![o] = t]
    BY <1>3, ZenonT(60)
  <2> HIDE DEF t
  <2> QED
    BY <1>2, <2>1, <2>2, ZenonT(60)
<1>4. ASSUME NEW over \in BOOLEAN,
             rpcOps' = [rpcOps EXCEPT ![o] = [rpcOps[o] EXCEPT !.got = rpcOps[o].got + 1,
                                                               !.at = IF over THEN "over" ELSE rpcOps[o].at]]
      PROVE  ClientInv'
  <2> DEFINE t == [rpcOps[o] EXCEPT !.got = rpcOps[o].got + 1, !.at = IF over THEN "over" ELSE rpcOps[o].at]
  <2>1. t \in OpRecords /\ t.at \in {"wait", "over"} /\ t.resp = rpcOps[o].resp
    <3> DEFINE g == rpcOps[o].got + 1
               a == IF over THEN "over" ELSE rpcOps[o].at
    <3>1. g \in Nat /\ a \in {"wait", "over"}
      BY <1>1 DEF OpRecords
    <3>2. t = [rpcOps[o] EXCEPT !.got = g, !.at = a]
      OBVIOUS
    <3> HIDE DEF t, g, a
    <3> QED
      BY <1>1, <3>1, <3>2, ZenonT(60) DEF OpRecords
  <2>2. rpcOps' = [rpcOps EXCEPT ![o] = t]
    BY <1>4, Zenon
  <2> HIDE DEF t
  <2> QED
    BY <1>2, <2>1, <2>2, ZenonT(60)
<1> QED
  BY <1>3, <1>4, Zenon DEF WaitEnds

LEMMA OpTakenKeeps == ASSUME ClientInv, NEW o \in AllOps, OpTaken(o) PROVE ClientInv'
<1> DEFINE t == [rpcOps[o] EXCEPT !.at = "write"]
           e == [dispatcher EXCEPT !.locked = TRUE, !.lastOp = o, !.respWait = dispatcher.respWait \cup IdsOf(o)]
<1>1. rpcOps \in [AllOps -> OpRecords] /\ rpcOps[o] \in OpRecords /\ dispatcher \in DispatcherRecords
  BY Zenon DEF ClientInv, OpsGood
<1>2. t \in OpRecords /\ t.at = "write" /\ t.resp = rpcOps[o].resp
  BY <1>1, Zenon DEF OpRecords
<1>3. /\ rpcOps' = [rpcOps EXCEPT ![o] = t] /\ dispatcher' = e /\ rpcOps[o].at = "send" /\ ~dispatcher.locked
      /\ rpcWire' = rpcWire /\ rpcSubs' = rpcSubs
  BY Zenon DEF OpTaken
<1>4. /\ e \in DispatcherRecords /\ e.locked /\ e.lastOp = o
      /\ e.respWait = dispatcher.respWait \cup IdsOf(o)
  <2>1. IdsOf(o) \subseteq AllIds
    BY Zenon DEF AllIds
  <2> DEFINE x == dispatcher.respWait \cup IdsOf(o)
  <2>2. x \in SUBSET AllIds
    BY <1>1, <2>1 DEF DispatcherRecords
  <2>3. e = [dispatcher EXCEPT !.locked = TRUE, !.lastOp = o, !.respWait = x]
    BY Zenon
  <2> HIDE DEF x, e
  <2>4. e \in DispatcherRecords /\ e.locked /\ e.lastOp = o /\ e.respWait = x
    BY <1>1, <2>2, <2>3, ZenonT(60) DEF DispatcherRecords
  <2> QED
    BY <2>4 DEF x
<1> HIDE DEF t, e
<1>5. AwaitedOf(o, e.respWait) = IdsOf(o) /\ \A p \in AllOps \ {o} : AwaitedOf(p, e.respWait) = AwaitedOf(p, dispatcher.respWait)
  <2>1. \A p \in AllOps \ {o} : IdsOf(p) \cap IdsOf(o) = {}
    BY IdsApart, Zenon
  <2> QED
    BY <1>4, <2>1 DEF AwaitedOf
<1>6. OpGood(o, t, AwaitedOf(o, e.respWait))
  BY <1>1, <1>2, <1>3, <1>5, OpBegun, ZenonT(60) DEF ClientInv, OpsGood
<1>7. OpsGood(rpcOps', e.respWait)
  BY <1>2, <1>3, <1>5, <1>6, OneOp, ZenonT(60) DEF ClientInv
<1>8. SubsGood(rpcSubs, rpcOps')
  <2>1. rpcOps[o].at # "idle"
    BY <1>3, SMTT(60)
  <2> QED
    BY <1>1, <1>3, <2>1, SubsOneOp, ZenonT(60) DEF ClientInv
<1>9. LockGood(e, rpcWire.sendDone, rpcOps')
  <2>1. Len(rpcWire.sendDone) = 0 /\ \A p \in AllOps : rpcOps[p].at # "write"
    BY <1>3, Zenon DEF ClientInv, LockGood
  <2>2. \A p \in AllOps \ {o} : rpcOps'[p] = rpcOps[p]
    BY <1>1, <1>3, ZenonT(60)
  <2>3. \A p \in AllOps : rpcOps'[p].at = "write" => p = o
    BY <2>1, <2>2, ZenonT(60)
  <2> QED
    BY <1>4, <2>1, <2>3, SMTT(60) DEF LockGood
<1> QED
  BY <1>3, <1>4, <1>7, <1>8, <1>9, ZenonT(60) DEF ClientInv

\* The outcome of a write is told: the writer is done, sendDone is filled.
LEMMA OpWrote ==
    ASSUME ClientInv, NEW o \in AllOps, NEW t \in OpRecords, t.resp = rpcOps[o].resp, t.at \in {"wait", "over"},
           rpcOps[o].at = "write", NEW w, ReaderGood(w), Len(w.sendDone) = Len(rpcWire.sendDone) + 1,
           rpcOps' = [rpcOps EXCEPT ![o] = t], rpcWire' = w, UNCHANGED <<dispatcher, rpcSubs>>
    PROVE  ClientInv'
<1>1. rpcOps \in [AllOps -> OpRecords] /\ rpcOps[o] \in OpRecords
  BY Zenon DEF ClientInv, OpsGood
<1>2. OpGood(o, t, AwaitedOf(o, dispatcher.respWait))
  <2> DEFINE a == AwaitedOf(o, dispatcher.respWait)
  <2>1. a \in SUBSET IdsOf(o) /\ OpGood(o, rpcOps[o], a)
    BY Zenon DEF ClientInv, OpsGood, AwaitedOf
  <2> HIDE DEF a
  <2>2. a \in SUBSET a /\ t.at \notin {"idle", "send"}
    OBVIOUS
  <2>3. OpGood(o, t, a)
    BY <1>1, <2>1, <2>2, OpFewer, ZenonT(60)
  <2> QED
    BY <2>3 DEF a
<1>3. OpsGood(rpcOps', dispatcher.respWait)
  BY <1>2, OneOp, Zenon DEF ClientInv
<1>4. SubsGood(rpcSubs, rpcOps')
  <2>1. rpcOps[o].at # "idle"
    OBVIOUS
  <2> QED
    BY <1>1, <2>1, SubsOneOp, ZenonT(60) DEF ClientInv
<1>5. LockGood(dispatcher, w.sendDone, rpcOps')
  <2>1. /\ dispatcher.locked /\ o = dispatcher.lastOp /\ dispatcher.lastOp \in AllOps /\ Len(rpcWire.sendDone) = 0
        /\ \A p \in AllOps : rpcOps[p].at = "write" => p = o
    BY Zenon DEF ClientInv, LockGood
  <2>2. rpcOps'[o] = t /\ \A p \in AllOps \ {o} : rpcOps'[p] = rpcOps[p]
    BY <1>1, ZenonT(60)
  <2>3. t.at # "write" /\ Len(w.sendDone) = 1
    BY <2>1
  <2>4. ASSUME NEW p \in AllOps PROVE rpcOps'[p].at # "write"
    <3>1. CASE p = o
      BY <2>2, <2>3, <3>1, ZenonT(60)
    <3>2. CASE p # o
      <4>1. rpcOps'[p] = rpcOps[p]
        BY <2>2, <3>2, SMTT(60)
      <4>2. rpcOps[p].at # "write"
        BY <2>1, <3>2
      <4> QED
        BY <4>1, <4>2
    <3> QED
      BY <3>1, <3>2
  <2> QED
    BY <2>1, <2>3, <2>4 DEF LockGood
<1> QED
  BY <1>3, <1>4, <1>5, ZenonT(60) DEF ClientInv

LEMMA Outcome ==
    ASSUME ClientInv, NEW x \in {"ok", "err"}
    PROVE  /\ Append(rpcWire.sendDone, x) \in Seq({"ok", "err"})
           /\ Len(Append(rpcWire.sendDone, x)) = Len(rpcWire.sendDone) + 1
<1>1. rpcWire.sendDone \in Seq({"ok", "err"})
  BY DEF ClientInv, ReaderGood, WireRecords
<1> QED
  BY <1>1

LEMMA ReconnectFailsKeeps == ASSUME ClientInv, NEW o \in AllOps, ReconnectFails(o) PROVE ClientInv'
<1> DEFINE t == [rpcOps[o] EXCEPT !.at = "over"]
           d == Append(rpcWire.sendDone, "err")
           w == [rpcWire EXCEPT !.sendDone = d]
<1>1. rpcOps[o] \in OpRecords /\ rpcWire \in WireRecords /\ ReaderGood(rpcWire)
  BY Zenon DEF ClientInv, OpsGood, ReaderGood
<1>2. t \in OpRecords /\ t.at = "over" /\ t.resp = rpcOps[o].resp
  BY <1>1 DEF OpRecords
<1>3. d \in Seq({"ok", "err"}) /\ Len(d) = Len(rpcWire.sendDone) + 1
  BY Outcome
<1>4. rpcOps' = [rpcOps EXCEPT ![o] = t] /\ rpcWire' = w /\ rpcOps[o].at = "write" /\ UNCHANGED <<dispatcher, rpcSubs>>
  BY Zenon DEF ReconnectFails
<1> HIDE DEF t, d
<1>5. w \in WireRecords /\ w.reader = rpcWire.reader /\ w.msg = rpcWire.msg /\ w.ids = rpcWire.ids /\ w.sendDone = d
  BY <1>1, <1>3, SMTT(60) DEF WireRecords
<1> HIDE DEF w
<1>6. ReaderGood(w)
  BY <1>1, <1>5, Zenon DEF ReaderGood
<1> QED
  BY <1>2, <1>3, <1>4, <1>5, <1>6, OpWrote, ZenonT(60)

LEMMA WriteKeeps == ASSUME ClientInv, NEW o \in AllOps, NEW ok \in BOOLEAN, Write(o, ok) PROVE ClientInv'
<1> DEFINE t == [rpcOps[o] EXCEPT !.at = IF ok THEN "wait" ELSE "over", !.sentOn = rpcWire.write]
<1>1. rpcOps[o] \in OpRecords /\ rpcWire \in WireRecords /\ ReaderGood(rpcWire)
  BY Zenon DEF ClientInv, OpsGood, ReaderGood
<1>2. t \in OpRecords /\ t.at \in {"wait", "over"} /\ t.resp = rpcOps[o].resp
  <2> DEFINE a == IF ok THEN "wait" ELSE "over"
             n == rpcWire.write
  <2>1. a \in {"wait", "over"} /\ n \in Nat
    BY <1>1 DEF WireRecords
  <2>2. t = [rpcOps[o] EXCEPT !.at = a, !.sentOn = n]
    OBVIOUS
  <2> HIDE DEF a, n, t
  <2> QED
    BY <1>1, <2>1, <2>2, ZenonT(60) DEF OpRecords
<1>3. rpcOps' = [rpcOps EXCEPT ![o] = t] /\ rpcOps[o].at = "write" /\ UNCHANGED <<dispatcher, rpcSubs>>
  BY Zenon DEF Write
<1> HIDE DEF t
<1>4. ASSUME NEW x \in {"ok", "err"}, NEW n \in Nat, NEW asked \in SUBSET (AllIds \X Nat),
             rpcWire' = [rpcWire EXCEPT !.sendDone = Append(rpcWire.sendDone, x), !.write = n, !.asked = asked]
      PROVE  ClientInv'
  <2> DEFINE d == Append(rpcWire.sendDone, x)
             w == [rpcWire EXCEPT !.sendDone = d, !.write = n, !.asked = asked]
  <2>1. d \in Seq({"ok", "err"}) /\ Len(d) = Len(rpcWire.sendDone) + 1
    BY Outcome
  <2>2. rpcWire' = w
    BY <1>4
  <2> HIDE DEF d
  <2>3. w \in WireRecords /\ w.reader = rpcWire.reader /\ w.msg = rpcWire.msg /\ w.ids = rpcWire.ids /\ w.sendDone = d
    BY <1>1, <2>1, Zenon DEF WireRecords
  <2> HIDE DEF w
  <2>4. ReaderGood(w)
    BY <1>1, <2>3, Zenon DEF ReaderGood
  <2> QED
    BY <1>2, <1>3, <2>1, <2>2, <2>3, <2>4, OpWrote, ZenonT(60)
<1>5. CASE ok
  <2> DEFINE asked == rpcWire.asked \cup {<<id, rpcWire.write>> : id \in IdsOf(o)}
  <2>1. rpcWire.write \in Nat /\ rpcWire.asked \in SUBSET (AllIds \X Nat) /\ IdsOf(o) \subseteq AllIds
    BY <1>1 DEF WireRecords, AllIds
  <2>2. asked \in SUBSET (AllIds \X Nat)
    BY <2>1
  <2>3. rpcWire' = [rpcWire EXCEPT !.sendDone = Append(rpcWire.sendDone, "ok"), !.asked = asked]
    BY <1>5, Zenon DEF Write
  <2> HIDE DEF asked
  <2>4. rpcWire' = [rpcWire EXCEPT !.sendDone = Append(rpcWire.sendDone, "ok"), !.write = rpcWire.write, !.asked = asked]
    <3> DEFINE d == Append(rpcWire.sendDone, "ok")
    <3> HIDE DEF d
    <3>1. rpcWire' = [rpcWire EXCEPT !.sendDone = d, !.asked = asked]
      BY <2>3 DEF d
    <3>2. rpcWire' = [rpcWire EXCEPT !.sendDone = d, !.write = rpcWire.write, !.asked = asked]
      BY <1>1, <3>1, Zenon DEF WireRecords
    <3> QED
      BY <3>2 DEF d
  <2> QED
    BY <1>4, <2>1, <2>2, <2>4, ZenonT(60)
<1>6. CASE ~ok
  <2>1. rpcWire' = [rpcWire EXCEPT !.sendDone = Append(rpcWire.sendDone, "err"), !.write = 0]
    BY <1>6, Zenon DEF Write
  <2>2. rpcWire.asked \in SUBSET (AllIds \X Nat)
    BY <1>1 DEF WireRecords
  <2>3. rpcWire' = [rpcWire EXCEPT !.sendDone = Append(rpcWire.sendDone, "err"), !.write = 0, !.asked = rpcWire.asked]
    <3> DEFINE d == Append(rpcWire.sendDone, "err")
    <3> HIDE DEF d
    <3>1. rpcWire' = [rpcWire EXCEPT !.sendDone = d, !.write = 0]
      BY <2>1 DEF d
    <3>2. rpcWire' = [rpcWire EXCEPT !.sendDone = d, !.write = 0, !.asked = rpcWire.asked]
      BY <1>1, <3>1, Zenon DEF WireRecords
    <3> QED
      BY <3>2 DEF d
  <2> QED
    BY <1>4, <2>2, <2>3, Zenon
<1> QED
  BY <1>5, <1>6

\* dispatch takes the outcome; an operation that was not sent is not waited for.
LEMMA SendDoneKeeps == ASSUME ClientInv, SendDone PROVE ClientInv'
<1> DEFINE v == IF Head(rpcWire.sendDone) = "err" THEN dispatcher.respWait \ IdsOf(dispatcher.lastOp)
                ELSE dispatcher.respWait
           d == Tail(rpcWire.sendDone)
           e == [dispatcher EXCEPT !.locked = FALSE, !.lastOp = NoOp, !.respWait = v]
           w == [rpcWire EXCEPT !.sendDone = d]
<1>1. dispatcher \in DispatcherRecords /\ rpcWire \in WireRecords /\ rpcOps \in [AllOps -> OpRecords]
  BY Zenon DEF ClientInv, OpsGood, ReaderGood
<1>2. rpcWire.sendDone \in Seq({"ok", "err"}) /\ rpcWire.sendDone # <<>>
  BY <1>1, SMT DEF WireRecords, SendDone
<1>3. Len(rpcWire.sendDone) = 1 /\ \A o \in AllOps : rpcOps[o].at # "write"
  <2>1. Len(rpcWire.sendDone) \in Nat \ {0}
    BY <1>2
  <2>2. dispatcher.locked
    BY <2>1 DEF ClientInv, LockGood
  <2>3. Len(rpcWire.sendDone) <= 1 /\ \A o \in AllOps : rpcOps[o].at = "write" => Len(rpcWire.sendDone) = 0
    BY <2>2, Zenon DEF ClientInv, LockGood
  <2>4. \A k \in Nat \ {0} : k <= 1 => k = 1 /\ k # 0
    OBVIOUS
  <2> QED
    BY <2>1, <2>3, <2>4, Zenon
<1>4. d \in Seq({"ok", "err"}) /\ Len(d) = 0
  BY <1>2, <1>3
<1>5. v \in SUBSET dispatcher.respWait /\ v \in SUBSET AllIds
  BY <1>1 DEF DispatcherRecords
<1>6. dispatcher' = e /\ rpcWire' = w /\ rpcOps' = rpcOps /\ rpcSubs' = rpcSubs
  BY Zenon DEF SendDone
<1> HIDE DEF v, d
<1>7. e \in DispatcherRecords /\ ~e.locked /\ e.respWait = v
  BY <1>1, <1>5, Zenon DEF DispatcherRecords
<1>8. w \in WireRecords /\ w.reader = rpcWire.reader /\ w.msg = rpcWire.msg /\ w.ids = rpcWire.ids /\ w.sendDone = d
  BY <1>1, <1>4, Zenon DEF WireRecords
<1> HIDE DEF e, w
<1>9. ReaderGood(w)
  BY <1>8, Zenon DEF ClientInv, ReaderGood
<1>10. ASSUME NEW o \in AllOps PROVE OpGood(o, rpcOps[o], AwaitedOf(o, v))
  <2>1. AwaitedOf(o, v) \in SUBSET AwaitedOf(o, dispatcher.respWait) /\ AwaitedOf(o, dispatcher.respWait) \in SUBSET IdsOf(o)
    BY <1>5 DEF AwaitedOf
  <2>2. OpGood(o, rpcOps[o], AwaitedOf(o, dispatcher.respWait)) /\ rpcOps[o] \in OpRecords
    BY Zenon DEF ClientInv, OpsGood
  <2> QED
    BY <2>1, <2>2, OpFewer, Zenon
<1>11. LockGood(e, d, rpcOps)
  BY <1>3, <1>4, <1>7, Zenon DEF LockGood
<1> QED
  BY <1>1, <1>6, <1>7, <1>8, <1>9, <1>10, <1>11, ZenonT(60) DEF ClientInv, OpsGood

-----------------------------------------------------------------------------
(* The read loop, dispatch and the subscriptions.                          *)

\* No request moves, none is waited for that was not, the lock stays.
LEMMA LoopMoves ==
    ASSUME ClientInv, NEW e \in DispatcherRecords, e.locked = dispatcher.locked, e.lastOp = dispatcher.lastOp,
           e.respWait = dispatcher.respWait, NEW w, ReaderGood(w), w.sendDone = rpcWire.sendDone,
           NEW subs, SubsGood(subs, rpcOps),
           dispatcher' = e, rpcWire' = w, rpcSubs' = subs, rpcOps' = rpcOps
    PROVE  ClientInv'
<1>1. LockGood(e, w.sendDone, rpcOps)
  BY Zenon DEF ClientInv, LockGood
<1> QED
  BY <1>1, Zenon DEF ClientInv

LEMMA ClientParts ==
    ClientInv => /\ dispatcher \in DispatcherRecords /\ rpcWire \in WireRecords /\ ReaderGood(rpcWire)
                 /\ rpcOps \in [AllOps -> OpRecords] /\ rpcSubs \in [SubOps -> SubRecords]
                 /\ SubsGood(rpcSubs, rpcOps) /\ \A s \in SubOps : SubGood(s, rpcSubs[s], rpcOps)
  BY Zenon DEF ClientInv, ReaderGood, OpsGood, SubsGood

LEMMA ReconnectedKeeps == ASSUME ClientInv, NEW o \in AllOps, Reconnected(o) PROVE ClientInv'
<1> DEFINE n == rpcWire.made + 1
           c == IF dispatcher.reading THEN rpcWire.closed \cup {dispatcher.conn} ELSE rpcWire.closed
           r == IF dispatcher.reading THEN rpcWire.reader ELSE "read"
           w == [rpcWire EXCEPT !.made = n, !.write = n, !.closed = c, !.reader = r]
           e == IF dispatcher.reading THEN [dispatcher EXCEPT !.at = "waitread"]
                ELSE [dispatcher EXCEPT !.reading = TRUE, !.conn = n]
<1>1. rpcWire \in WireRecords /\ dispatcher \in DispatcherRecords
  BY ClientParts
<1>2. n \in Nat /\ c \in SUBSET Nat /\ r \in {rpcWire.reader, "read"}
  BY <1>1 DEF WireRecords, DispatcherRecords
<1>3. rpcWire' = w /\ dispatcher' = e /\ rpcOps' = rpcOps /\ rpcSubs' = rpcSubs
  BY Zenon DEF Reconnected
<1> HIDE DEF n, c, r
<1>4. w \in WireRecords /\ w.sendDone = rpcWire.sendDone /\ w.reader = r /\ w.msg = rpcWire.msg /\ w.ids = rpcWire.ids
  BY <1>1, <1>2, Zenon DEF WireRecords
<1>5. /\ e \in DispatcherRecords /\ e.locked = dispatcher.locked /\ e.lastOp = dispatcher.lastOp
      /\ e.respWait = dispatcher.respWait
  BY <1>1, <1>2, Zenon DEF DispatcherRecords
<1> HIDE DEF w, e
<1>6. ReaderGood(w)
  <2>1. w.reader = "resp" => rpcWire.reader = "resp"
    BY <1>2, <1>4
  <2> QED
    BY <1>4, <2>1, ClientParts, ZenonT(60) DEF ReaderGood
<1> QED
  BY <1>3, <1>4, <1>5, <1>6, LoopMoves, ClientParts, ZenonT(60)

LEMMA WaitReadKeeps == ASSUME ClientInv, WaitRead PROVE ClientInv'
<1> DEFINE e == [dispatcher EXCEPT !.at = "loop", !.conn = rpcWire.made]
           w == [rpcWire EXCEPT !.reader = "read"]
<1>1. rpcWire \in WireRecords /\ dispatcher \in DispatcherRecords
  BY ClientParts
<1>2. rpcWire' = w /\ dispatcher' = e /\ rpcOps' = rpcOps /\ rpcSubs' = rpcSubs
  BY Zenon DEF WaitRead
<1>3. w \in WireRecords /\ w.sendDone = rpcWire.sendDone /\ w.reader = "read"
  BY <1>1 DEF WireRecords
<1>4. /\ e \in DispatcherRecords /\ e.locked = dispatcher.locked /\ e.lastOp = dispatcher.lastOp
      /\ e.respWait = dispatcher.respWait
  <2>1. rpcWire.made \in Nat
    BY <1>1 DEF WireRecords
  <2> QED
    BY <1>1, <2>1, Zenon DEF DispatcherRecords
<1> HIDE DEF w, e
<1>5. ReaderGood(w)
  BY <1>3 DEF ReaderGood
<1> QED
  BY <1>2, <1>3, <1>4, <1>5, LoopMoves, ClientParts, ZenonT(60)

\* A step of the wire alone.
LEMMA WireMoves ==
    ASSUME ClientInv, NEW w, ReaderGood(w), w.sendDone = rpcWire.sendDone, rpcWire' = w,
           UNCHANGED <<dispatcher, rpcOps, rpcSubs>>
    PROVE  ClientInv'
  BY LoopMoves, ClientParts, ZenonT(60)

LEMMA ReadFailsKeeps == ASSUME ClientInv, ReadFails PROVE ClientInv'
<1> DEFINE w == [rpcWire EXCEPT !.reader = "err"]
<1>1. rpcWire \in WireRecords
  BY ClientParts
<1>2. w \in WireRecords /\ w.sendDone = rpcWire.sendDone /\ w.reader = "err"
  BY <1>1 DEF WireRecords
<1>3. rpcWire' = w /\ UNCHANGED <<dispatcher, rpcOps, rpcSubs>>
  BY Zenon DEF ReadFails
<1> HIDE DEF w
<1>4. ReaderGood(w)
  BY <1>2 DEF ReaderGood
<1> QED
  BY <1>2, <1>3, <1>4, WireMoves, SMTT(60)

LEMMA ReadsKeeps == ASSUME ClientInv, Reads PROVE ClientInv'
<1>1. rpcWire \in WireRecords /\ UNCHANGED <<dispatcher, rpcOps, rpcSubs>>
  BY ClientParts, ZenonT(60) DEF Reads
<1>2. ASSUME NEW o \in AllOps, NEW I \in SUBSET IdsOf(o),
             rpcWire' = [rpcWire EXCEPT !.reader = "resp", !.msg = o, !.ids = I,
                                        !.asked = rpcWire.asked \ {<<id, dispatcher.conn>> : id \in I}]
      PROVE  ClientInv'
  <2> DEFINE a == rpcWire.asked \ {<<id, dispatcher.conn>> : id \in I}
             w == [rpcWire EXCEPT !.reader = "resp", !.msg = o, !.ids = I, !.asked = a]
  <2>1. a \in SUBSET (AllIds \X Nat) /\ I \in SUBSET AllIds
    <3>1. rpcWire.asked \in SUBSET (AllIds \X Nat)
      BY <1>1 DEF WireRecords
    <3>2. IdsOf(o) \subseteq AllIds
      BY Zenon DEF AllIds
    <3> QED
      BY <3>1, <3>2, Zenon
  <2>2. rpcWire' = w
    BY <1>2
  <2> HIDE DEF a
  <2>3. w \in WireRecords /\ w.sendDone = rpcWire.sendDone /\ w.msg = o /\ w.ids = I
    BY <1>1, <2>1, ZenonT(60) DEF WireRecords
  <2> HIDE DEF w
  <2>4. ReaderGood(w)
    BY <2>3 DEF ReaderGood
  <2> QED
    BY <1>1, <2>2, <2>3, <2>4, WireMoves, SMTT(60)
<1>3. ASSUME NEW s \in SubOps, rpcWire' = [rpcWire EXCEPT !.reader = "note", !.msg = s, !.notes = rpcWire.notes + 1]
      PROVE  ClientInv'
  <2> DEFINE n == rpcWire.notes + 1
             w == [rpcWire EXCEPT !.reader = "note", !.msg = s, !.notes = n]
  <2>1. n \in Nat /\ s \in AllOps
    BY <1>1 DEF WireRecords, AllOps
  <2>2. rpcWire' = w
    BY <1>3
  <2> HIDE DEF n
  <2>3. w \in WireRecords /\ w.sendDone = rpcWire.sendDone /\ w.reader = "note"
    BY <1>1, <2>1, ZenonT(60) DEF WireRecords
  <2> HIDE DEF w
  <2>4. ReaderGood(w)
    BY <2>3 DEF ReaderGood
  <2> QED
    BY <1>1, <2>2, <2>3, <2>4, WireMoves, SMTT(60)
<1> QED
  BY <1>2, <1>3, Zenon DEF Reads

LEMMA HeardTyped ==
    ASSUME NEW w \in WireRecords
    PROVE  ReaderGood(Heard(w)) /\ Heard(w).sendDone = w.sendDone
<1>1. {} \in SUBSET AllIds
  OBVIOUS
<1>2. Heard(w) \in WireRecords /\ Heard(w).sendDone = w.sendDone /\ Heard(w).reader = "read"
  BY <1>1, Zenon DEF Heard, WireRecords
<1> QED
  BY <1>2 DEF ReaderGood

LEMMA NotificationKeeps == ASSUME ClientInv, handleNotification PROVE ClientInv'
<1> DEFINE m == {rpcWire.msg}
           e == IF rpcWire.msg \in dispatcher.subs THEN [dispatcher EXCEPT !.at = "deliver", !.left = m] ELSE dispatcher
<1>1. rpcWire \in WireRecords /\ dispatcher \in DispatcherRecords
  BY ClientParts
<1>2. rpcWire' = Heard(rpcWire) /\ dispatcher' = e /\ rpcOps' = rpcOps /\ rpcSubs' = rpcSubs
  BY Zenon DEF handleNotification
<1>3. rpcWire.msg \in dispatcher.subs => m \in SUBSET SubOps
  BY <1>1 DEF DispatcherRecords
<1> HIDE DEF m
<1>4. /\ e \in DispatcherRecords /\ e.locked = dispatcher.locked /\ e.lastOp = dispatcher.lastOp
      /\ e.respWait = dispatcher.respWait
  BY <1>1, <1>3, ZenonT(60) DEF DispatcherRecords
<1> HIDE DEF e
<1> QED
  BY <1>1, <1>2, <1>4, HeardTyped, LoopMoves, ClientParts, ZenonT(60)

LEMMA SubsClosedKeeps == ASSUME ClientInv, SubsClosed PROVE ClientInv'
<1> DEFINE c == rpcWire.closed \cup {dispatcher.conn}
           r == IF dispatcher.quits THEN rpcWire.reader ELSE "gone"
           w == [rpcWire EXCEPT !.closed = c, !.reader = r]
           a == IF dispatcher.reading THEN "drain" ELSE "quit"
           e == IF dispatcher.quits THEN [dispatcher EXCEPT !.at = a]
                ELSE [dispatcher EXCEPT !.at = "loop", !.reading = FALSE]
<1>1. rpcWire \in WireRecords /\ dispatcher \in DispatcherRecords
  BY ClientParts
<1>2. c \in SUBSET Nat /\ r \in {rpcWire.reader, "gone"} /\ a \in {"drain", "quit"}
  BY <1>1 DEF WireRecords, DispatcherRecords
<1>3. rpcWire' = w /\ dispatcher' = e /\ rpcOps' = rpcOps /\ rpcSubs' = rpcSubs
  BY Zenon DEF SubsClosed
<1> HIDE DEF c, r, a
<1>4. w \in WireRecords /\ w.sendDone = rpcWire.sendDone /\ w.reader = r /\ w.msg = rpcWire.msg /\ w.ids = rpcWire.ids
  BY <1>1, <1>2, ZenonT(60) DEF WireRecords
<1>5. /\ e \in DispatcherRecords /\ e.locked = dispatcher.locked /\ e.lastOp = dispatcher.lastOp
      /\ e.respWait = dispatcher.respWait
  BY <1>1, <1>2, ZenonT(60) DEF DispatcherRecords
<1> HIDE DEF w, e
<1>6. ReaderGood(w)
  <2>1. w.reader = "resp" => rpcWire.reader = "resp"
    BY <1>2, <1>4, SMTT(60)
  <2> QED
    BY <1>4, <2>1, ClientParts, ZenonT(60) DEF ReaderGood
<1> QED
  BY <1>3, <1>4, <1>5, <1>6, LoopMoves, ClientParts, ZenonT(60)

LEMMA DrainKeeps == ASSUME ClientInv, Drain PROVE ClientInv'
<1> DEFINE g == [rpcWire EXCEPT !.reader = "gone"]
           w == IF rpcWire.reader = "err" THEN g ELSE Heard(rpcWire)
           e == IF rpcWire.reader = "err" THEN [dispatcher EXCEPT !.at = "quit"] ELSE dispatcher
<1>1. rpcWire \in WireRecords /\ dispatcher \in DispatcherRecords
  BY ClientParts
<1>2. rpcWire' = w /\ dispatcher' = e /\ rpcOps' = rpcOps /\ rpcSubs' = rpcSubs
  BY Zenon DEF Drain
<1>3. g \in WireRecords /\ g.sendDone = rpcWire.sendDone /\ g.reader = "gone"
  BY <1>1 DEF WireRecords
<1>4. /\ e \in DispatcherRecords /\ e.locked = dispatcher.locked /\ e.lastOp = dispatcher.lastOp
      /\ e.respWait = dispatcher.respWait
  BY <1>1, SMTT(60) DEF DispatcherRecords
<1> HIDE DEF g, e
<1>5. ReaderGood(w) /\ w.sendDone = rpcWire.sendDone
  BY <1>1, <1>3, HeardTyped, SMTT(60) DEF ReaderGood
<1> HIDE DEF w
<1> QED
  BY <1>2, <1>4, <1>5, LoopMoves, ClientParts, ZenonT(60)

\* A step of one subscription, and of dispatch where only left and at change.
LEMMA SubMoves ==
    ASSUME ClientInv, NEW s \in SubOps, NEW t \in SubRecords, SubGood(s, t, rpcOps),
           rpcSubs' = [rpcSubs EXCEPT ![s] = t], UNCHANGED <<dispatcher, rpcOps, rpcWire>>
    PROVE  ClientInv'
<1>1. SubsGood(rpcSubs', rpcOps)
  BY OneSub, ClientParts, ZenonT(60)
<1> QED
  BY <1>1, LoopMoves, ClientParts, ZenonT(60)

LEMMA DispatcherMoves ==
    ASSUME ClientInv, NEW e \in DispatcherRecords, e.locked = dispatcher.locked, e.lastOp = dispatcher.lastOp,
           e.respWait = dispatcher.respWait, dispatcher' = e, UNCHANGED <<rpcOps, rpcWire>>, SubsGood(rpcSubs', rpcOps)
    PROVE  ClientInv'
  BY LoopMoves, ClientParts, ZenonT(60)

LEMMA DeliverNoteKeeps == ASSUME ClientInv, NEW s \in SubOps, DeliverNote(s) PROVE ClientInv'
<1> DEFINE e == [dispatcher EXCEPT !.at = "loop", !.left = {}]
           n == rpcSubs[s].in + 1
           t == [rpcSubs[s] EXCEPT !.in = n]
           u == [rpcSubs[s] EXCEPT !.at = "failed"]
<1>1. dispatcher \in DispatcherRecords /\ rpcSubs[s] \in SubRecords /\ SubGood(s, rpcSubs[s], rpcOps)
  BY ClientParts, ZenonT(60)
<1>2. /\ dispatcher' = e /\ UNCHANGED <<rpcOps, rpcWire>>
      /\ rpcSubs' \in {[rpcSubs EXCEPT ![s] = t], [rpcSubs EXCEPT ![s] = u], rpcSubs}
  BY ZenonT(60) DEF DeliverNote
<1>3. {} \in SUBSET SubOps /\ n \in Nat
  BY <1>1 DEF SubRecords
<1> HIDE DEF n
<1>4. /\ e \in DispatcherRecords /\ e.locked = dispatcher.locked /\ e.lastOp = dispatcher.lastOp
      /\ e.respWait = dispatcher.respWait
  BY <1>1, <1>3, ZenonT(60) DEF DispatcherRecords
<1>5. t \in SubRecords /\ t.once = rpcSubs[s].once /\ t.err = rpcSubs[s].err /\ t.user = rpcSubs[s].user
  BY <1>1, <1>3 DEF SubRecords
<1>6. u \in SubRecords /\ u.once = rpcSubs[s].once /\ u.err = rpcSubs[s].err /\ u.user = rpcSubs[s].user
  BY <1>1 DEF SubRecords
<1> HIDE DEF e, t, u
<1>7. SubGood(s, t, rpcOps) /\ SubGood(s, u, rpcOps)
  BY <1>1, <1>5, <1>6, ZenonT(60) DEF SubGood
<1>8. SubsGood(rpcSubs', rpcOps)
  <2>1. SubsGood([rpcSubs EXCEPT ![s] = t], rpcOps)
    BY <1>5, <1>7, OneSub, ClientParts, ZenonT(60)
  <2>2. SubsGood([rpcSubs EXCEPT ![s] = u], rpcOps)
    BY <1>6, <1>7, OneSub, ClientParts, ZenonT(60)
  <2> QED
    BY <1>2, <2>1, <2>2, ClientParts, ZenonT(60)
<1> QED
  BY <1>2, <1>4, <1>8, DispatcherMoves, ZenonT(60)

LEMMA CloseSubKeeps == ASSUME ClientInv, NEW s \in SubOps, CloseSub(s) PROVE ClientInv'
<1> DEFINE l == dispatcher.left \ {s}
           e == [dispatcher EXCEPT !.left = l]
           n == rpcSubs[s].err + 1
           t == [rpcSubs[s] EXCEPT !.once = "done", !.quit = TRUE, !.err = n]
<1>1. dispatcher \in DispatcherRecords /\ rpcSubs[s] \in SubRecords /\ SubGood(s, rpcSubs[s], rpcOps)
  BY ClientParts, ZenonT(60)
<1>2. /\ dispatcher' = e /\ UNCHANGED <<rpcOps, rpcWire>>
      /\ rpcSubs' = IF rpcSubs[s].once = "done" THEN rpcSubs ELSE [rpcSubs EXCEPT ![s] = t]
  BY ZenonT(60) DEF CloseSub
<1>3. l \in SUBSET SubOps /\ n \in Nat
  BY <1>1, SMTT(60) DEF SubRecords, DispatcherRecords
<1>3a. rpcSubs[s].once # "done" => n = 1
  BY <1>1 DEF SubGood
<1> HIDE DEF n, l
<1>4. /\ e \in DispatcherRecords /\ e.locked = dispatcher.locked /\ e.lastOp = dispatcher.lastOp
      /\ e.respWait = dispatcher.respWait
  BY <1>1, <1>3 DEF DispatcherRecords
<1>5. t \in SubRecords /\ t.once = "done" /\ t.err = n
  BY <1>1, <1>3, ZenonT(60) DEF SubRecords
<1> HIDE DEF e, t
<1>7. rpcSubs[s].once # "done" => SubGood(s, t, rpcOps)
  BY <1>3a, <1>5 DEF SubGood
<1>8. SubsGood(rpcSubs', rpcOps)
  BY <1>2, <1>5, <1>7, OneSub, ClientParts, ZenonT(60)
<1> QED
  BY <1>2, <1>4, <1>8, DispatcherMoves, ZenonT(60)

LEMMA ConsumedKeeps == ASSUME ClientInv, NEW s \in SubOps, Consumed(s) PROVE ClientInv'
<1> DEFINE n == rpcSubs[s].in - 1
           t == [rpcSubs[s] EXCEPT !.in = n]
<1>1. rpcSubs[s] \in SubRecords /\ SubGood(s, rpcSubs[s], rpcOps)
  BY ClientParts, Zenon
<1>2. rpcSubs[s].in > 0 /\ rpcSubs' = [rpcSubs EXCEPT ![s] = t] /\ UNCHANGED <<dispatcher, rpcOps, rpcWire>>
  BY Zenon DEF Consumed
<1>3. n \in Nat
  BY <1>1, <1>2 DEF SubRecords
<1> HIDE DEF n
<1>4. t \in SubRecords /\ t.once = rpcSubs[s].once /\ t.err = rpcSubs[s].err /\ t.user = rpcSubs[s].user
  BY <1>1, <1>3 DEF SubRecords
<1> HIDE DEF t
<1>5. SubGood(s, t, rpcOps)
  BY <1>1, <1>4, ZenonT(60) DEF SubGood
<1> QED
  BY <1>2, <1>4, <1>5, SubMoves, ZenonT(60)

LEMMA SubOverKeeps ==
    ASSUME ClientInv, NEW s \in SubOps, rpcSubs' = [rpcSubs EXCEPT ![s].at = "over"],
           UNCHANGED <<dispatcher, rpcOps, rpcWire>>
    PROVE  ClientInv'
<1> DEFINE t == [rpcSubs[s] EXCEPT !.at = "over"]
<1>1. rpcSubs[s] \in SubRecords /\ SubGood(s, rpcSubs[s], rpcOps)
  BY ClientParts, Zenon
<1>2. rpcSubs' = [rpcSubs EXCEPT ![s] = t]
  BY Zenon
<1>4. t \in SubRecords /\ t.once = rpcSubs[s].once /\ t.err = rpcSubs[s].err /\ t.user = rpcSubs[s].user
  BY <1>1 DEF SubRecords
<1> HIDE DEF t
<1>5. SubGood(s, t, rpcOps)
  BY <1>1, <1>4, Zenon DEF SubGood
<1> QED
  BY <1>2, <1>4, <1>5, SubMoves, ZenonT(60)

LEMMA QuitDoneKeeps == ASSUME ClientInv, NEW s \in SubOps, QuitDone(s) PROVE ClientInv'
<1> DEFINE t == [rpcSubs[s] EXCEPT !.user = "over"]
<1>1. rpcSubs[s] \in SubRecords /\ SubGood(s, rpcSubs[s], rpcOps)
  BY ClientParts, Zenon
<1>2. /\ rpcSubs[s].once = "done" /\ UNCHANGED <<dispatcher, rpcOps, rpcWire>>
      /\ rpcSubs' = [rpcSubs EXCEPT ![s].at = "over"] \/ rpcSubs' = [rpcSubs EXCEPT ![s] = t]
  BY Zenon DEF QuitDone
<1>4. t \in SubRecords /\ t.once = rpcSubs[s].once /\ t.err = rpcSubs[s].err
  BY <1>1 DEF SubRecords
<1> HIDE DEF t
<1>5. SubGood(s, t, rpcOps)
  BY <1>1, <1>2, <1>4, ZenonT(60) DEF SubGood
<1> QED
  BY <1>2, <1>4, <1>5, SubMoves, SubOverKeeps, ZenonT(60)

LEMMA LeaveQuitKeeps == ASSUME ClientInv, NEW s \in SubOps, LeaveQuit(s) PROVE ClientInv'
<1> DEFINE r == rpcSubs[s]
           n == IF r.once = "forward" THEN r.err + 1 ELSE r.err
           a == IF r.once = "forward" THEN "over" ELSE r.at
           u == IF r.once = "user" THEN "over" ELSE r.user
           t == [r EXCEPT !.once = "done", !.err = n, !.at = a, !.user = u]
<1>1. r \in SubRecords /\ SubGood(s, r, rpcOps)
  BY ClientParts, Zenon
<1>2. /\ r.once \in {"forward", "user"} /\ UNCHANGED <<dispatcher, rpcOps, rpcWire>>
      /\ rpcSubs' = [rpcSubs EXCEPT ![s] = t]
  BY Zenon DEF LeaveQuit
<1>3. n \in Nat /\ n <= 1 /\ a \in {r.at, "over"} /\ u \in {r.user, "over"}
  BY <1>1, <1>2 DEF SubRecords, SubGood
<1> HIDE DEF n, a, u
<1>4. t \in SubRecords /\ t.once = "done" /\ t.err = n
  BY <1>1, <1>3, ZenonT(60) DEF SubRecords
<1> HIDE DEF t
<1>5. SubGood(s, t, rpcOps)
  BY <1>3, <1>4 DEF SubGood
<1> QED
  BY <1>2, <1>4, <1>5, SubMoves, ZenonT(60)

\* quitWithError: the call that ends the subscription was not made before.
LEMMA EnterQuitKeeps ==
    ASSUME ClientInv, NEW s \in SubOps, NEW who \in {"forward", "user"}, EnterQuit(s, who)
    PROVE  ClientInv'
<1> DEFINE t == [rpcSubs[s] EXCEPT !.once = who, !.quit = TRUE]
           o == UnsubOp[s]
           x == [rpcOps[o] EXCEPT !.at = "send"]
<1>1. rpcSubs[s] \in SubRecords /\ SubGood(s, rpcSubs[s], rpcOps) /\ rpcOps \in [AllOps -> OpRecords]
  BY ClientParts, Zenon
<1>2. o \in AllOps /\ o \notin CallOps \cup SubOps /\ \A p \in SubOps \ {s} : UnsubOp[p] # o
  BY RpcClientAssumption, Zenon DEF AllOps
<1>3. /\ rpcSubs[s].once = "free" /\ rpcSubs' = [rpcSubs EXCEPT ![s] = t]
      /\ rpcOps' = [rpcOps EXCEPT ![o] = x] /\ UNCHANGED <<dispatcher, rpcWire>>
  BY Zenon DEF EnterQuit
<1>4. rpcOps[o] \in OpRecords /\ rpcOps[o].at = "idle"
  BY <1>1, <1>2, <1>3, ZenonT(60) DEF SubGood
<1>5. t \in SubRecords /\ t.once = who /\ t.err = rpcSubs[s].err /\ t.user = rpcSubs[s].user
  BY <1>1, ZenonT(60) DEF SubRecords
<1>6. x \in OpRecords /\ x.at = "send" /\ x.resp = rpcOps[o].resp
  BY <1>4 DEF OpRecords
<1> HIDE DEF t, o, x
<1>7. OpGood(o, x, AwaitedOf(o, dispatcher.respWait))
  <2> DEFINE a == AwaitedOf(o, dispatcher.respWait)
  <2>1. a \in SUBSET IdsOf(o) /\ OpGood(o, rpcOps[o], a)
    BY <1>2, Zenon DEF ClientInv, OpsGood, AwaitedOf
  <2> HIDE DEF a
  <2>2. a \in SUBSET a /\ rpcOps[o].at \in {"idle", "send"}
    BY <1>4
  <2>3. OpGood(o, x, a)
    BY <1>2, <1>4, <1>6, <2>1, <2>2, OpFewer, ZenonT(60)
  <2> QED
    BY <2>3 DEF a
<1>8. OpsGood(rpcOps', dispatcher.respWait)
  BY <1>2, <1>3, <1>6, <1>7, OneOp, ZenonT(60) DEF ClientInv
<1>9. LockGood(dispatcher, rpcWire.sendDone, rpcOps')
  <2>1. x.at # "write"
    BY <1>6
  <2> QED
    BY <1>1, <1>2, <1>3, <2>1, LockOneOp, ZenonT(60) DEF ClientInv
<1>10. SubsGood(rpcSubs', rpcOps')
  <2>1. rpcSubs' \in [SubOps -> SubRecords] /\ rpcSubs'[s] = t /\ \A p \in SubOps \ {s} : rpcSubs'[p] = rpcSubs[p]
    BY <1>3, <1>5, ClientParts, ZenonT(60)
  <2>2. \A p \in AllOps \ {o} : rpcOps'[p] = rpcOps[p]
    BY <1>1, <1>3, Zenon
  <2>3. SubGood(s, t, rpcOps')
    <3>1. who # "done" /\ who # "free" /\ rpcSubs[s].once # "done"
      BY <1>3
    <3> QED
      BY <1>1, <1>5, <3>1, ZenonT(60) DEF SubGood
  <2>4. ASSUME NEW p \in SubOps \ {s} PROVE SubGood(p, rpcSubs[p], rpcOps')
    <3>1. UnsubOp[p] \in AllOps \ {o} /\ SubGood(p, rpcSubs[p], rpcOps)
      BY <1>2, ClientParts, ZenonT(60) DEF AllOps
    <3> QED
      BY <2>2, <3>1, ZenonT(60) DEF SubGood
  <2> QED
    BY <2>1, <2>3, <2>4, ZenonT(60) DEF SubsGood
<1> QED
  BY <1>3, <1>8, <1>9, <1>10, ZenonT(60) DEF ClientInv

\* handleResponse: the ids that are answered are not waited for any more.
LEMMA ResponseKeeps == ASSUME ClientInv, NEW granted \in BOOLEAN, handleResponse(granted) PROVE ClientInv'
<1> DEFINE o == rpcWire.msg
           known == rpcWire.ids \cap dispatcher.respWait
           starts == known # {} /\ o \in SubOps /\ granted
           put == IF o \in SubOps THEN <<"closed">> ELSE Put(Cardinality(known))
           v == dispatcher.respWait \ known
           b == IF starts THEN dispatcher.subs \cup {o} ELSE dispatcher.subs
           e == [dispatcher EXCEPT !.respWait = v, !.subs = b]
           j == rpcOps[o].resp \o put
           t == [rpcOps[o] EXCEPT !.resp = j]
           x == [rpcSubs[o] EXCEPT !.at = "forward"]
           a == AwaitedOf(o, dispatcher.respWait)
<1>1. /\ rpcWire \in WireRecords /\ dispatcher \in DispatcherRecords /\ rpcOps \in [AllOps -> OpRecords]
      /\ OpsGood(rpcOps, dispatcher.respWait) /\ LockGood(dispatcher, rpcWire.sendDone, rpcOps)
      /\ SubsGood(rpcSubs, rpcOps)
  BY ClientParts, Zenon DEF ClientInv
<1>2. o \in AllOps /\ rpcWire.ids \subseteq IdsOf(o)
  BY Zenon DEF handleResponse, ClientInv, ReaderGood
<1>3. /\ rpcOps' = IF known = {} THEN rpcOps ELSE [rpcOps EXCEPT ![o] = t]
      /\ dispatcher' = e
      /\ rpcSubs' = IF starts THEN [rpcSubs EXCEPT ![o] = x] ELSE rpcSubs
      /\ rpcWire' = Heard(rpcWire)
  BY ZenonT(60) DEF handleResponse, Put
<1>4. v \in SUBSET AllIds /\ b \in SUBSET SubOps
  BY <1>1 DEF DispatcherRecords
<1>5. known \in SUBSET a /\ a \in SUBSET IdsOf(o) /\ AwaitedOf(o, v) = a \ known
  BY <1>2 DEF AwaitedOf
<1>6. \A p \in AllOps \ {o} : AwaitedOf(p, v) = AwaitedOf(p, dispatcher.respWait)
  <2>1. \A p \in AllOps \ {o} : IdsOf(p) \cap IdsOf(o) = {}
    BY IdsApart, ZenonT(60)
  <2> QED
    BY <1>2, <2>1 DEF AwaitedOf
<1>7. rpcOps[o] \in OpRecords /\ rpcOps[o].resp \in RespSeqs /\ OpGood(o, rpcOps[o], a)
  <2>1. rpcOps[o] \in OpRecords /\ OpGood(o, rpcOps[o], a)
    BY <1>1, <1>2, ZenonT(60) DEF OpsGood
  <2> QED
    BY <2>1 DEF OpRecords, RespSeqs
<1>8. IsFiniteSet(known) /\ Cardinality(known) \in Nat
  BY <1>2, <1>5, IdsCounted, FS_Subset, FS_CardinalityType, SMTT(60)
<1> HIDE DEF v, b, a, known, o
<1>9. /\ e \in DispatcherRecords /\ e.locked = dispatcher.locked /\ e.lastOp = dispatcher.lastOp /\ e.respWait = v
  BY <1>1, <1>4, Zenon DEF DispatcherRecords
<1>10. j \in RespSeqs
  <2>1. CASE o \in SubOps
    <3>1. put = <<"closed">> /\ <<"closed">> \in RespSeqs
      BY <2>1 DEF RespSeqs
    <3> QED
      BY <1>7, <3>1, ResponsesClosed, ZenonT(60)
  <2>2. CASE o \notin SubOps
    <3>1. put = Put(Cardinality(known))
      BY <2>2
    <3> QED
      BY <1>7, <1>8, <3>1, ResponsesPut, ZenonT(60)
  <2> QED
    BY <2>1, <2>2
<1>11. j = rpcOps[o].resp \o put
  OBVIOUS
<1> HIDE DEF j
<1>12. t \in OpRecords /\ t.at = rpcOps[o].at /\ t.resp = j
  BY <1>7, <1>10, SMTT(60) DEF OpRecords, RespSeqs
<1> HIDE DEF t, e
<1>13. ASSUME known # {} PROVE OpGood(o, t, AwaitedOf(o, v))
  <2>1. CASE o \in SubOps
    <3>1. OpIds[o] = 1
      BY <2>1, RpcClientAssumption, SMTT(60)
    <3>2. j = Append(rpcOps[o].resp, "closed")
      BY <1>7, <1>11, <2>1, ResponsesClosed, ZenonT(60)
    <3>3. a \ known = {}
      <4>1. IsFiniteSet(IdsOf(o)) /\ Cardinality(IdsOf(o)) = 1
        BY <1>2, <3>1, IdsCounted
      <4>2. PICK id : IdsOf(o) = {id}
        BY <4>1, FS_Singleton, ZenonT(60)
      <4> QED
        BY <1>5, <1>13, <4>2, SMTT(60)
    <3>4. a # {}
      BY <1>5, <1>13
    <3>5. OpGood(o, t, {})
      BY <1>2, <1>5, <1>7, <1>12, <3>2, <3>4, OpClosed, ZenonT(60)
    <3> QED
      BY <1>5, <3>3, <3>5, SMTT(60)
  <2>2. CASE o \notin SubOps
    <3>1. j = rpcOps[o].resp \o Put(Cardinality(known))
      BY <1>11, <2>2, ZenonT(60)
    <3>2. OpGood(o, t, a \ known)
      BY <1>2, <1>5, <1>7, <1>12, <1>13, <3>1, OpAnswered, ZenonT(60)
    <3> QED
      BY <1>5, <3>2
  <2> QED
    BY <2>1, <2>2
<1>14. OpsGood(rpcOps', v) /\ LockGood(e, rpcWire.sendDone, rpcOps') /\ SubsGood(rpcSubs, rpcOps')
  <2>1. CASE known = {}
    <3>1. AwaitedOf(o, v) = AwaitedOf(o, dispatcher.respWait)
      BY <1>5, <2>1, SMTT(60) DEF a
    <3>2. \A p \in AllOps : AwaitedOf(p, v) = AwaitedOf(p, dispatcher.respWait)
      BY <1>6, <3>1, ZenonT(60)
    <3>3. rpcOps' = rpcOps
      BY <1>3, <2>1, SMTT(60)
    <3> QED
      BY <1>1, <1>9, <3>2, <3>3, ZenonT(60) DEF OpsGood, LockGood
  <2>2. CASE known # {}
    <3>1. rpcOps' = [rpcOps EXCEPT ![o] = t]
      BY <1>3, <2>2, ZenonT(60)
    <3>2. OpsGood(rpcOps', v)
      BY <1>1, <1>2, <1>6, <1>12, <1>13, <2>2, <3>1, OneOp, ZenonT(60)
    <3>3. LockGood(e, rpcWire.sendDone, rpcOps')
      BY <1>1, <1>2, <1>9, <1>12, <3>1, LockOneOp, ZenonT(60)
    <3>4. SubsGood(rpcSubs, rpcOps')
      BY <1>1, <1>2, <1>12, <3>1, SubsOneOp, ZenonT(60)
    <3> QED
      BY <3>2, <3>3, <3>4, SMTT(60)
  <2> QED
    BY <2>1, <2>2, SMTT(60)
<1>15. SubsGood(rpcSubs', rpcOps')
  <2>1. CASE starts
    <3>1. o \in SubOps /\ rpcSubs' = [rpcSubs EXCEPT ![o] = x]
      BY <1>3, <2>1, ZenonT(60)
    <3>2. rpcSubs[o] \in SubRecords /\ SubGood(o, rpcSubs[o], rpcOps')
      BY <1>14, <3>1, ZenonT(60) DEF SubsGood
    <3>3. x \in SubRecords /\ x.once = rpcSubs[o].once /\ x.err = rpcSubs[o].err /\ x.user = rpcSubs[o].user
      BY <3>2 DEF SubRecords
    <3> HIDE DEF x
    <3>4. SubGood(o, x, rpcOps')
      BY <3>2, <3>3, ZenonT(60) DEF SubGood
    <3> QED
      BY <1>14, <3>1, <3>3, <3>4, OneSub, ZenonT(60)
  <2>2. CASE ~starts
    BY <1>3, <1>14, <2>2, ZenonT(60)
  <2> QED
    BY <2>1, <2>2
<1>16. ReaderGood(Heard(rpcWire)) /\ Heard(rpcWire).sendDone = rpcWire.sendDone
  BY <1>1, HeardTyped, ZenonT(60)
<1> QED
  BY <1>3, <1>9, <1>14, <1>15, <1>16, ZenonT(60) DEF ClientInv

\* closeRequestOps: every channel that is waited on is closed, once.
LEMMA CloseOpsKeeps == ASSUME ClientInv, NEW quits \in BOOLEAN, CloseRequestOps(quits) PROVE ClientInv'
<1> DEFINE e == [dispatcher EXCEPT !.at = "closesubs", !.respWait = {}, !.left = dispatcher.subs, !.subs = {},
                                   !.quits = quits]
           t(o) == [rpcOps[o] EXCEPT !.resp = Append(rpcOps[o].resp, "closed")]
           a(o) == AwaitedOf(o, dispatcher.respWait)
<1>1. /\ dispatcher \in DispatcherRecords /\ rpcOps \in [AllOps -> OpRecords]
      /\ OpsGood(rpcOps, dispatcher.respWait) /\ LockGood(dispatcher, rpcWire.sendDone, rpcOps)
      /\ SubsGood(rpcSubs, rpcOps)
  BY ClientParts, Zenon DEF ClientInv
<1>2. /\ dispatcher' = e /\ UNCHANGED <<rpcWire, rpcSubs>>
      /\ rpcOps' = [o \in AllOps |-> IF a(o) = {} THEN rpcOps[o] ELSE t(o)]
  BY Zenon DEF CloseRequestOps, CloseOps, WaitAfterClose, AwaitedOf
<1>3. /\ e \in DispatcherRecords /\ e.locked = dispatcher.locked /\ e.lastOp = dispatcher.lastOp /\ e.respWait = {}
  <2>1. {} \in SUBSET AllIds /\ {} \in SUBSET SubOps
    OBVIOUS
  <2> QED
    BY <1>1, <2>1, ZenonT(60) DEF DispatcherRecords
<1> HIDE DEF e
<1>4. ASSUME NEW o \in AllOps
      PROVE  rpcOps'[o] \in OpRecords /\ rpcOps'[o].at = rpcOps[o].at /\ OpGood(o, rpcOps'[o], {})
  <2> DEFINE r == rpcOps[o]
             w == AwaitedOf(o, dispatcher.respWait)
             j == Append(r.resp, "closed")
             u == [r EXCEPT !.resp = j]
  <2>1. r \in OpRecords /\ OpGood(o, r, w) /\ w \in SUBSET IdsOf(o)
    BY <1>1, Zenon DEF OpsGood, AwaitedOf
  <2>2. rpcOps'[o] = IF w = {} THEN r ELSE u
    BY <1>2, ZenonT(60)
  <2>3. r.resp \in RespSeqs
    BY <2>1 DEF OpRecords, RespSeqs
  <2>4. j \in RespSeqs /\ j = Append(r.resp, "closed")
    BY <2>3, ResponsesClosed, Zenon
  <2> HIDE DEF j
  <2>5. u \in OpRecords /\ u.at = r.at /\ u.resp = j
    BY <2>1, <2>4, ZenonT(60) DEF OpRecords, RespSeqs
  <2> HIDE DEF u, w, r
  <2>6. CASE w = {}
    BY <2>1, <2>2, <2>6, ZenonT(60) DEF r
  <2>7. CASE w # {}
    <3>1. OpGood(o, u, {})
      BY <2>1, <2>4, <2>5, <2>7, OpClosed, ZenonT(60)
    <3> QED
      BY <2>2, <2>5, <2>7, <3>1, ZenonT(60) DEF r
  <2> QED
    BY <2>6, <2>7
<1>5. rpcOps' \in [AllOps -> OpRecords]
  <2>1. DOMAIN rpcOps' = AllOps /\ rpcOps' = [o \in AllOps |-> rpcOps'[o]]
    BY <1>2, Zenon
  <2> QED
    BY <1>4, <2>1, Zenon
<1>6. \A o \in AllOps : AwaitedOf(o, {}) = {}
  BY DEF AwaitedOf
<1>7. OpsGood(rpcOps', {})
  BY <1>4, <1>5, <1>6, ZenonT(60) DEF OpsGood
<1>8. LockGood(e, rpcWire.sendDone, rpcOps')
  BY <1>1, <1>3, <1>4, ZenonT(60) DEF LockGood
<1>9. SubsGood(rpcSubs, rpcOps')
  <2>1. \A s \in SubOps : UnsubOp[s] \in AllOps
    BY ZenonT(60) DEF AllOps
  <2> QED
    BY <1>1, <1>4, <2>1, ZenonT(60) DEF SubsGood, SubGood
<1> QED
  BY <1>2, <1>3, <1>7, <1>8, <1>9, ZenonT(60) DEF ClientInv

-----------------------------------------------------------------------------
LEMMA ClientInitially == RpcInit => ClientInv
<1> SUFFICES ASSUME RpcInit PROVE ClientInv
  BY Zenon
<1>1. dispatcher \in DispatcherRecords /\ ~dispatcher.locked /\ dispatcher.respWait = {}
  <2>1. {} \in SUBSET AllIds /\ {} \in SUBSET SubOps /\ NoOp \in AllOps \cup {NoOp} /\ 1 \in Nat
    OBVIOUS
  <2> QED
    BY <2>1, ZenonT(60) DEF RpcInit, DispatcherRecords
<1>2. rpcWire \in WireRecords /\ rpcWire.reader = "read" /\ rpcWire.sendDone = <<>>
  <2>1. <<>> \in Seq({"ok", "err"})
    OBVIOUS
  <2> QED
    BY <2>1, Zenon DEF RpcInit, WireRecords
<1>3. rpcOps \in [AllOps -> OpRecords] /\ \A o \in AllOps : rpcOps[o].at = "idle" /\ rpcOps[o].resp = <<>>
  <2> DEFINE r == [at |-> "idle", resp |-> <<>>, got |-> 0, sentOn |-> 0]
  <2>1. r \in OpRecords /\ r.at = "idle" /\ r.resp = <<>>
    BY ResponsesNone DEF OpRecords, RespSeqs
  <2>2. rpcOps = [o \in AllOps |-> r]
    BY Zenon DEF RpcInit
  <2> HIDE DEF r
  <2> QED
    BY <2>1, <2>2, ZenonT(60)
<1>4. rpcSubs \in [SubOps -> SubRecords] /\ \A s \in SubOps : rpcSubs[s].err = 0 /\ rpcSubs[s].user = "idle"
  <2> DEFINE r == [at |-> "none", once |-> "free", quit |-> FALSE, in |-> 0, err |-> 0, user |-> "idle"]
  <2>1. r \in SubRecords /\ r.err = 0 /\ r.user = "idle"
    BY DEF SubRecords
  <2>2. rpcSubs = [s \in SubOps |-> r]
    BY ZenonT(60) DEF RpcInit
  <2> HIDE DEF r
  <2> QED
    BY <2>1, <2>2, ZenonT(60)
<1>5. ASSUME NEW o \in AllOps PROVE OpGood(o, rpcOps[o], AwaitedOf(o, dispatcher.respWait))
  <2>1. AwaitedOf(o, dispatcher.respWait) = {} /\ Cardinality({}) = 0 /\ OpIds[o] \in Nat
    BY <1>1, FS_EmptySet, IdsCounted, SMTT(60) DEF AwaitedOf
  <2>2. Responses(rpcOps[o].resp) = 0 /\ DOMAIN rpcOps[o].resp = {}
    BY <1>3, ResponsesNone, SMTT(60)
  <2> QED
    BY <1>3, <2>1, <2>2, SMTT(60) DEF OpGood
<1>6. LockGood(dispatcher, rpcWire.sendDone, rpcOps)
  BY <1>1, <1>2, <1>3, SMTT(60) DEF LockGood
<1>7. SubsGood(rpcSubs, rpcOps)
  <2>1. \A s \in SubOps : UnsubOp[s] \in AllOps
    BY Zenon DEF AllOps
  <2> QED
    BY <1>3, <1>4, <2>1, SMTT(60) DEF SubsGood, SubGood
<1> QED
  BY <1>1, <1>2, <1>3, <1>5, <1>6, <1>7, SMTT(60) DEF ClientInv, ReaderGood, OpsGood

LEMMA ClientStep == ClientInv /\ [RpcNext]_rpcVars => ClientInv'
<1> SUFFICES ASSUME ClientInv, [RpcNext]_rpcVars PROVE ClientInv'
  OBVIOUS
<1>1. ASSUME NEW o \in AllOps, Begin(o) \/ OpTaken(o) \/ SendFails(o) \/ ReconnectFails(o) \/ Reconnected(o) \/ WaitEnds(o)
      PROVE  ClientInv'
  BY <1>1, BeginKeeps, OpTakenKeeps, SendFailsKeeps, ReconnectFailsKeeps, ReconnectedKeeps, WaitEndsKeeps, ZenonT(60)
<1>2. ASSUME NEW o \in AllOps, NEW ok \in BOOLEAN, Write(o, ok) PROVE ClientInv'
  BY <1>2, WriteKeeps, Zenon
<1>3. CASE WaitRead \/ SendDone \/ Reads \/ ReadFails \/ handleNotification \/ SubsClosed \/ Drain
  BY <1>3, WaitReadKeeps, SendDoneKeeps, ReadsKeeps, ReadFailsKeeps, NotificationKeeps, SubsClosedKeeps, DrainKeeps, ZenonT(60)
<1>4. ASSUME NEW granted \in BOOLEAN, handleResponse(granted) PROVE ClientInv'
  BY <1>4, ResponseKeeps, Zenon
<1>5. CASE ReadErr \/ ClientClose
  BY <1>5, CloseOpsKeeps, ZenonT(60) DEF ReadErr, ClientClose
<1>6. ASSUME NEW s \in SubOps, DeliverNote(s) \/ CloseSub(s) \/ Consumed(s) \/ LeaveQuit(s) \/ QuitDone(s) PROVE ClientInv'
  BY <1>6, DeliverNoteKeeps, CloseSubKeeps, ConsumedKeeps, LeaveQuitKeeps, QuitDoneKeeps, ZenonT(60)
<1>7. ASSUME NEW s \in SubOps, ForwardQuits(s) PROVE ClientInv'
  BY <1>7, SubOverKeeps, Zenon DEF ForwardQuits
<1>8. ASSUME NEW s \in SubOps, ForwardFails(s) \/ Unsubscribe(s) PROVE ClientInv'
  BY <1>8, EnterQuitKeeps, Zenon DEF ForwardFails, Unsubscribe
<1>9. CASE UNCHANGED rpcVars
  BY <1>9, Zenon DEF rpcVars, ClientInv
<1> QED
  BY <1>1, <1>2, <1>3, <1>4, <1>5, <1>6, <1>7, <1>8, <1>9, ZenonT(60) DEF RpcNext

LEMMA ClientInvSound == ClientInv => ClientSound
<1> SUFFICES ASSUME ClientInv PROVE ClientSound
  OBVIOUS
<1>1. RpcTypeOK
  <2>1. dispatcher.at \in {"loop", "deliver", "waitread", "closesubs", "drain", "quit"}
    BY ClientParts, SMTT(60) DEF DispatcherRecords
  <2>2. ASSUME NEW o \in AllOps PROVE rpcOps[o].at \in {"idle", "send", "write", "wait", "over"}
    <3>1. rpcOps[o] \in OpRecords
      BY ClientParts, Zenon
    <3> QED
      BY <3>1 DEF OpRecords
  <2> QED
    BY <2>1, <2>2, ZenonT(60) DEF RpcTypeOK
<1>2. ASSUME NEW o \in AllOps
      PROVE  /\ \A i \in DOMAIN rpcOps[o].resp : rpcOps[o].resp[i] = "closed" => i = Len(rpcOps[o].resp)
             /\ Cardinality({i \in DOMAIN rpcOps[o].resp : rpcOps[o].resp[i] = "resp"}) <= OpIds[o]
  <2> DEFINE r == rpcOps[o]
             w == AwaitedOf(o, dispatcher.respWait)
  <2>1. r \in OpRecords /\ OpGood(o, r, w)
    BY Zenon DEF ClientInv, OpsGood
  <2>2. Responses(r.resp) \in Nat
    BY <2>1, ResponsesTyped, ZenonT(60) DEF OpRecords, RespSeqs
  <2>3. Cardinality(w) \in Nat /\ OpIds[o] \in Nat
    BY AwaitedFinite, IdsCounted, SMTT(60)
  <2> HIDE DEF w
  <2>4. Responses(r.resp) <= OpIds[o]
    BY <2>1, <2>2, <2>3, SMTT(60) DEF OpGood
  <2> QED
    BY <2>1, <2>4, Zenon DEF OpGood, Responses
<1>3. Cardinality({o \in AllOps : rpcOps[o].at = "write"}) + Len(rpcWire.sendDone) <= 1
  <2> DEFINE S == {o \in AllOps : rpcOps[o].at = "write"}
  <2>1. LockGood(dispatcher, rpcWire.sendDone, rpcOps) /\ Len(rpcWire.sendDone) \in Nat
    BY DEF ClientInv, ReaderGood, WireRecords
  <2>2. CASE S = {}
    <3>1. Cardinality(S) = 0
      BY <2>2, FS_EmptySet, SMTT(60)
    <3>2. Len(rpcWire.sendDone) <= 1
      BY <2>1 DEF LockGood
    <3> HIDE DEF S
    <3>3. Cardinality(S) + Len(rpcWire.sendDone) <= 1
      BY <2>1, <3>1, <3>2, SMTT(60)
    <3> QED
      BY <3>3, SMTT(60) DEF S
  <2>3. CASE S # {}
    <3>1. dispatcher.locked /\ S = {dispatcher.lastOp} /\ Len(rpcWire.sendDone) = 0
      BY <2>1, <2>3 DEF LockGood
    <3>2. Cardinality(S) = 1
      BY <3>1, FS_Singleton, ZenonT(60)
    <3> HIDE DEF S
    <3>3. Cardinality(S) + Len(rpcWire.sendDone) <= 1
      BY <3>1, <3>2, SMTT(60)
    <3> QED
      BY <3>3, SMTT(60) DEF S
  <2> QED
    BY <2>2, <2>3, SMTT(60)
<1>4. \A s \in SubOps : rpcSubs[s].err <= 1 /\ (rpcSubs[s].user = "over" => rpcSubs[s].once = "done")
  BY ClientParts, Zenon DEF SubGood
<1> QED
  BY <1>1, <1>2, <1>3, <1>4, ZenonT(60) DEF ClientSound

\* However calls, responses, lost connections, reconnection, Unsubscribe and Close
\* interleave, a request's channel is closed at most once and last, has room for
\* what dispatch sends on it, one request at a time is being written, and a
\* subscription gets at most one error (Client.dispatch, send, write,
\* handleResponse, closeRequestOps and ClientSubscription.quitWithError).
THEOREM ClientStaysSound == RpcSpec => []ClientSound
<1>1. RpcInit => ClientInv
  BY ClientInitially
<1>2. ClientInv /\ [RpcNext]_rpcVars => ClientInv'
  BY ClientStep
<1>3. ClientInv => ClientSound
  BY ClientInvSound
<1> QED
  BY <1>1, <1>2, <1>3, PTL DEF RpcSpec
=============================================================================
