----------------------------- MODULE P2PServer -----------------------------
(***************************************************************************)
(* The networking server of communication/p2p/server.go: the run loop that *)
(* owns the peer map, listenLoop with its handshake slots, one SetupConn   *)
(* goroutine per connection with its two checkpoints, one runPeer          *)
(* goroutine per peer, RemovePeer, and Stop, which waits for the loops     *)
(* while it holds the lock that Self() needs.                              *)
(*                                                                         *)
(* A connection is given its remote identity and its kind ("inbound",      *)
(* "static" or "dynamic") by the constants.  What a dial task does before  *)
(* SetupConn is DialState's; what Peer.run does is P2PPeer's.              *)
(***************************************************************************)
EXTENDS Naturals, FiniteSets, Functions

CONSTANTS SrvConns,      \* the connections that may be attempted
          ConnId,        \* connection -> identity its handshake yields
          ConnKind,      \* connection -> "inbound" | "static" | "dynamic"
          Restricted,    \* connections from addresses outside Config.NetRestrict
          TrustedIds,    \* Config.TrustedNodes
          SelfId,        \* the identity of the local node
          SrvMaxPeers,   \* Config.MaxPeers
          Slots          \* Config.MaxPendingPeers: inbound handshakes at once

ASSUME ServerAssumption ==
    /\ SrvMaxPeers \in Nat
    /\ Slots \in Nat

VARIABLES server,   \* running, quit and the holder of lock; the Stop call
          srvLoop,  \* where run is, the connection it handles, its peers
          listen,   \* where listenLoop is, and the free slots
          setup,    \* connection -> where its SetupConn goroutine is
          session   \* connection -> where its runPeer goroutine is

serverVars == <<server, srvLoop, listen, setup, session>>

ServerInit ==
    /\ server = [running |-> TRUE, quit |-> FALSE, locked |-> FALSE, stop |-> "idle"]
    /\ srvLoop = [at |-> "select", conn |-> {}, peers |-> <<>>]
    /\ listen = [at |-> "slot", slots |-> Slots]
    /\ setup = [c \in SrvConns |-> "idle"]
    /\ session = [c \in SrvConns |-> "none"]

Connected == DOMAIN srvLoop.peers
Exempt(c) == ConnKind[c] = "static" \/ ConnId[c] \in TrustedIds

----------------------------------------------------------------------------
(* listenLoop: a slot, then Accept; a closed listener ends the loop.       *)

ListenSlot ==
    /\ listen.at = "slot" /\ listen.slots > 0
    /\ listen' = [at |-> "accept", slots |-> listen.slots - 1]
    /\ UNCHANGED <<server, srvLoop, setup, session>>

ListenAccept(c) ==
    /\ listen.at = "accept" /\ ~server.quit
    /\ ConnKind[c] = "inbound" /\ setup[c] = "idle" /\ c \notin Restricted
    /\ listen' = [listen EXCEPT !.at = "slot"]
    /\ setup' = [setup EXCEPT ![c] = "self"]
    /\ UNCHANGED <<server, srvLoop, session>>

\* A connection that does not match NetRestrict is closed, and the slot given back.
ListenRefuses(c) ==
    /\ listen.at = "accept" /\ ~server.quit
    /\ ConnKind[c] = "inbound" /\ setup[c] = "idle" /\ c \in Restricted
    /\ listen' = [at |-> "slot", slots |-> listen.slots + 1]
    /\ setup' = [setup EXCEPT ![c] = "closed"]
    /\ UNCHANGED <<server, srvLoop, session>>

ListenClosed ==
    /\ listen.at = "accept" /\ server.quit
    /\ listen' = [listen EXCEPT !.at = "done"]
    /\ UNCHANGED <<server, srvLoop, setup, session>>

----------------------------------------------------------------------------
(* SetupConn and setupConn of one connection.                              *)

\* A dial task, started between two events of the loop, reaches SetupConn.
DialSetup(c) ==
    /\ srvLoop.at = "select" /\ ~server.quit
    /\ ConnKind[c] # "inbound" /\ setup[c] = "idle"
    /\ setup' = [setup EXCEPT ![c] = "self"]
    /\ UNCHANGED <<server, srvLoop, listen, session>>

\* The goroutine gives its slot back when SetupConn returns.
SetupReturns(c, result) ==
    /\ setup' = [setup EXCEPT ![c] = result]
    /\ listen' = IF ConnKind[c] = "inbound" THEN [listen EXCEPT !.slots = @ + 1] ELSE listen

\* SetupConn's first call, srv.Self(), locks and unlocks.
SetupSelf(c) ==
    /\ setup[c] = "self" /\ ~server.locked
    /\ setup' = [setup EXCEPT ![c] = "start"]
    /\ UNCHANGED <<server, srvLoop, listen, session>>

\* "Prevent leftover pending conns from entering the handshake."
SetupStart(c) ==
    /\ setup[c] = "start" /\ ~server.locked
    /\ IF server.running
       THEN setup' = [setup EXCEPT ![c] = "enc"] /\ UNCHANGED listen
       ELSE SetupReturns(c, "closed")
    /\ UNCHANGED <<server, srvLoop, session>>

\* A handshake succeeds, or fails: an error, a timeout, a wrong identity.
SetupHandshake(c) ==
    /\ \/ /\ setup[c] = "enc"
          /\ setup' = [setup EXCEPT ![c] = "post"]
          /\ UNCHANGED listen
       \/ /\ setup[c] = "proto"
          /\ setup' = [setup EXCEPT ![c] = "add"]
          /\ UNCHANGED listen
       \/ /\ setup[c] \in {"enc", "proto"}
          /\ SetupReturns(c, "closed")
    /\ UNCHANGED <<server, srvLoop, session>>

\* checkpoint: whichever select it is in, the closed quit channel ends it.
\* c.close hangs up, whether or not runPeer has been started meanwhile.
SetupQuit(c) ==
    /\ setup[c] \in {"post", "postwait", "add", "addwait"} /\ server.quit
    /\ SetupReturns(c, "closed")
    /\ session' = [session EXCEPT ![c] = IF @ = "running" THEN "ended" ELSE @]
    /\ UNCHANGED <<server, srvLoop>>

----------------------------------------------------------------------------
(* run: one event at a time.                                               *)

\* case c := <-srv.posthandshake, case c := <-srv.addpeer
LoopCheckpoint(c) ==
    /\ srvLoop.at = "select" /\ setup[c] \in {"post", "add"}
    /\ srvLoop' = [srvLoop EXCEPT !.at = IF setup[c] = "post" THEN "enccheck" ELSE "protocheck",
                                  !.conn = {c}]
    /\ setup' = [setup EXCEPT ![c] = IF @ = "post" THEN "postwait" ELSE "addwait"]
    /\ UNCHANGED <<server, listen, session>>

\* encHandshakeChecks: the cases in order; Self() is only called by the last.
TooManyPeers(c) == ~Exempt(c) /\ Cardinality(Connected) >= SrvMaxPeers
AlreadyConnected(c) == ConnId[c] \in Connected
SelfCalled(c) == ~TooManyPeers(c) /\ ~AlreadyConnected(c)
encHandshakeChecks(c) == SelfCalled(c) /\ ConnId[c] # SelfId

\* The checks after the protocol handshake repeat them; a peer that shares
\* no protocol is refused before.
protoHandshakeUnchecked(c) == ConnId[c] # SelfId
protoHandshakeChecks(c) == encHandshakeChecks(c)

LoopEncCheck(c) ==
    /\ srvLoop.at = "enccheck" /\ c \in srvLoop.conn
    /\ SelfCalled(c) => ~server.locked
    /\ srvLoop' = [srvLoop EXCEPT !.at = IF encHandshakeChecks(c) THEN "accept" ELSE "refuse"]
    /\ UNCHANGED <<server, listen, setup, session>>

LoopUseless(c) ==
    /\ srvLoop.at = "protocheck" /\ c \in srvLoop.conn
    /\ srvLoop' = [srvLoop EXCEPT !.at = "refuse"]
    /\ UNCHANGED <<server, listen, setup, session>>

\* The new peer enters the map and runPeer starts before cont is answered.
LoopProtoCheck(c) ==
    /\ srvLoop.at = "protocheck" /\ c \in srvLoop.conn
    /\ SelfCalled(c) => ~server.locked
    /\ IF protoHandshakeChecks(c)
       THEN /\ srvLoop' = [srvLoop EXCEPT !.at = "accept",
                                          !.peers = [i \in Connected \cup {ConnId[c]} |->
                                              IF i = ConnId[c] THEN c ELSE srvLoop.peers[i]]]
            /\ session' = [session EXCEPT ![c] = "running"]
       ELSE /\ srvLoop' = [srvLoop EXCEPT !.at = "refuse"]
            /\ UNCHANGED session
    /\ UNCHANGED <<server, listen, setup>>

\* case c.cont <- err
LoopAnswer(c) ==
    /\ srvLoop.at \in {"accept", "refuse"} /\ c \in srvLoop.conn
    /\ setup[c] \in {"postwait", "addwait"}
    /\ srvLoop' = [srvLoop EXCEPT !.at = "select", !.conn = {}]
    /\ IF srvLoop.at = "accept"
       THEN IF setup[c] = "postwait"
            THEN setup' = [setup EXCEPT ![c] = "proto"] /\ UNCHANGED listen
            ELSE SetupReturns(c, "up")
       ELSE SetupReturns(c, "closed")
    /\ UNCHANGED <<server, session>>

\* case pd := <-srv.delpeer, and the same receive while spinning down:
\* the entry of the peer's identity is deleted.
LoopDelPeer(c) ==
    /\ srvLoop.at \in {"select", "spindown"} /\ session[c] = "ended"
    /\ srvLoop' = [srvLoop EXCEPT !.peers = Restrict(@, Connected \ {ConnId[c]})]
    /\ session' = [session EXCEPT ![c] = "none"]
    /\ UNCHANGED <<server, listen, setup>>

\* case n := <-srv.removestatic: Disconnect waits for the peer to take it.
LoopRemoveStatic(i) ==
    /\ srvLoop.at = "select" /\ i \in Connected
    /\ session' = [session EXCEPT ![srvLoop.peers[i]] = "ended"]
    /\ UNCHANGED <<server, srvLoop, listen, setup>>

\* case <-srv.quit, in the main select or while a checkpoint is answered:
\* every peer is told to disconnect, then run waits until all are gone.
LoopQuit ==
    /\ srvLoop.at \in {"select", "accept", "refuse"} /\ server.quit
    /\ srvLoop' = [srvLoop EXCEPT !.at = "spindown", !.conn = {}]
    /\ session' = [c \in SrvConns |->
           IF session[c] = "running" /\ c \in Range(srvLoop.peers) THEN "ended" ELSE session[c]]
    /\ UNCHANGED <<server, listen, setup>>

LoopDone ==
    /\ srvLoop.at = "spindown" /\ Connected = {}
    /\ srvLoop' = [srvLoop EXCEPT !.at = "done"]
    /\ UNCHANGED <<server, listen, setup, session>>

----------------------------------------------------------------------------
\* Peer.run returns on its own: a network error, a protocol that ended.
PeerEnds(c) ==
    /\ session[c] = "running"
    /\ session' = [session EXCEPT ![c] = "ended"]
    /\ UNCHANGED <<server, srvLoop, listen, setup>>

\* Stop: the lock is kept from here to the end of loopWG.Wait.
Stop ==
    /\ server.stop = "idle" /\ ~server.locked
    /\ server' = [running |-> FALSE, quit |-> TRUE, locked |-> TRUE, stop |-> "waiting"]
    /\ UNCHANGED <<srvLoop, listen, setup, session>>

StopEnds ==
    /\ server.stop = "waiting" /\ srvLoop.at = "done" /\ listen.at = "done"
    /\ server' = [server EXCEPT !.locked = FALSE, !.stop = "returned"]
    /\ UNCHANGED <<srvLoop, listen, setup, session>>

\* What the goroutines do by themselves, once the network and the callers
\* have acted.
ServerWork ==
    \/ ListenSlot \/ ListenClosed \/ LoopQuit \/ LoopDone \/ StopEnds
    \/ \E c \in SrvConns :
        \/ SetupSelf(c) \/ SetupStart(c) \/ SetupHandshake(c) \/ SetupQuit(c)
        \/ LoopCheckpoint(c) \/ LoopEncCheck(c) \/ LoopProtoCheck(c) \/ LoopAnswer(c)
        \/ LoopDelPeer(c)

ServerNext ==
    \/ ServerWork
    \/ Stop
    \/ \E c \in SrvConns : ListenAccept(c) \/ ListenRefuses(c) \/ DialSetup(c) \/ LoopUseless(c) \/ PeerEnds(c)
    \/ \E i \in Connected : LoopRemoveStatic(i)

ServerFairness == WF_serverVars(ServerWork)
ServerSpec == ServerInit /\ [][ServerNext]_serverVars /\ ServerFairness

----------------------------------------------------------------------------
\* The values the variables range over.
ServerTypeOK ==
    /\ srvLoop.at \in {"select", "enccheck", "protocheck", "accept", "refuse", "spindown", "done"}
    /\ \A i \in Connected : ConnId[srvLoop.peers[i]] = i

\* The inbound connections whose SetupConn goroutine holds a slot; listenLoop
\* holds one while it waits in Accept, and keeps it when the listener is closed.
SettingUp == {"self", "start", "enc", "post", "postwait", "proto", "add", "addwait"}
SlotHolders == {c \in SrvConns : ConnKind[c] = "inbound" /\ setup[c] \in SettingUp}

SlotsKept ==
    /\ listen.slots \in Nat /\ IsFiniteSet(SlotHolders)
    /\ listen.slots + (IF listen.at = "slot" THEN 0 ELSE 1) + Cardinality(SlotHolders) = Slots

(* The peer map and the runPeer goroutines tell the same story (server.go  *)
(* 562-592): whoever is in the map is served by exactly one goroutine and  *)
(* every goroutine that has not reported its end is the one in the map, so *)
(* that no identity is ever connected twice, although connections of one   *)
(* identity pass the two handshakes concurrently.  MaxPeers bounds the     *)
(* peers that are neither trusted nor static, the local node is not among  *)
(* them, and the run loop only ends when no peer is left (611-615).  Every *)
(* slot of listenLoop is free, or held by it or by the one goroutine that  *)
(* will give it back, however a connection ends (647-702).                 *)
PeersServed ==
    /\ ServerTypeOK
    /\ SlotsKept
    /\ \A c \in SrvConns : session[c] # "none" <=> c \in Range(srvLoop.peers)
    /\ Cardinality({c \in Range(srvLoop.peers) : ~Exempt(c)}) <= SrvMaxPeers
    /\ SelfId \notin Connected
    /\ srvLoop.at = "done" => \A c \in SrvConns : session[c] = "none"

\* "Stop terminates the server and all active peer connections.  It blocks
\* until all active connections have been closed" (server.go:340-341): a Stop
\* that has begun returns.  It does not hold: Stop has srv.lock while it waits
\* for the loops, and run, at a checkpoint, calls Self, which takes srv.lock.
StopReturns == server.stop = "waiting" ~> server.stop = "returned"
============================================================================
