----------------------------- MODULE PeerManager -----------------------------
(***************************************************************************)
(* mjoy.ProtocolManager: the life of a connection (Run, handle, removePeer)*)
(* with the two places a peer is registered in, the peer set and the       *)
(* downloader, the components that drop a peer on their own account, and   *)
(* Stop.  PeerIdOf[c] is the node a connection is to.                      *)
(***************************************************************************)
EXTENDS Naturals, FiniteSets, Functions

CONSTANTS PMConns, PeerIdOf, MaxPeers,
          Droppers  \* goroutines of the downloader and the fetcher that call removePeer

VARIABLES manager,  \* peer set, wait group, Stop and the syncer
          inDownloader, \* ids registered in the downloader
          link,     \* per connection: where its handler is, and whether it was disconnected
          removal   \* per dropper and connection: its call of removePeer

managerVars == <<manager, inDownloader, link, removal>>

IdleRemoval == [at |-> "idle", id |-> "none", conn |-> "none"]

\* A handler has returned from handle and leaves the wait group.
Leaves(c) == /\ link' = [link EXCEPT ![c].at = "done"]
             /\ manager' = [manager EXCEPT !.wg = @ - 1]

-----------------------------------------------------------------------------
(* Run and handle. *)

\* The server runs a protocol once per node at a time.
Run(c) ==
    /\ link[c].at = "none"
    /\ \A d \in PMConns : PeerIdOf[d] = PeerIdOf[c] => link[d].at \in {"none", "done"}
    /\ link' = [link EXCEPT ![c].at = "run"]
    /\ UNCHANGED <<manager, inDownloader, removal>>

\* The syncer takes the new peer, or the manager is quitting.
NewPeer(c) ==
    /\ link[c].at = "run"
    /\ \/ manager.syncer /\ link' = [link EXCEPT ![c].at = "add"]
       \/ manager.quit /\ link' = [link EXCEPT ![c].at = "done"]
    /\ UNCHANGED <<manager, inDownloader, removal>>

AddToGroup(c) ==
    /\ link[c].at = "add"
    /\ manager' = [manager EXCEPT !.wg = @ + 1]
    /\ link' = [link EXCEPT ![c].at = "count"]
    /\ UNCHANGED <<inDownloader, removal>>

TooManyPeers(c) ==
    /\ link[c].at = "count"
    /\ IF Cardinality(DOMAIN manager.peers) >= MaxPeers THEN Leaves(c)
       ELSE link' = [link EXCEPT ![c].at = "handshake"] /\ UNCHANGED manager
    /\ UNCHANGED <<inDownloader, removal>>

\* The handshake succeeds, fails or times out.
Handshake(c) ==
    /\ link[c].at = "handshake"
    /\ \/ link' = [link EXCEPT ![c].at = "register"] /\ UNCHANGED manager
       \/ Leaves(c)
    /\ UNCHANGED <<inDownloader, removal>>

\* The second form registers with a set that is closed.
RefusedUnlessKnown(id) == id \in DOMAIN manager.peers
Refused(id) == manager.closed \/ id \in DOMAIN manager.peers

RegisterPeer(c) ==
    LET id == PeerIdOf[c] IN
    /\ link[c].at = "register"
    /\ IF Refused(id) THEN Leaves(c)
       ELSE /\ manager' = [manager EXCEPT !.peers = [i \in DOMAIN @ \union {id} |-> IF i = id THEN c ELSE @[i]]]
            /\ link' = [link EXCEPT ![c].at = "downloader"]
    /\ UNCHANGED <<inDownloader, removal>>

\* The downloader refuses a peer it still has.
RegisterInDownloader(c) ==
    LET id == PeerIdOf[c] IN
    /\ link[c].at = "downloader"
    /\ link' = [link EXCEPT ![c].at = IF id \in inDownloader THEN "remove" ELSE "main"]
    /\ inDownloader' = inDownloader \union {id}
    /\ UNCHANGED <<manager, removal>>

\* The connection fails, a message is bad, or the peer was disconnected.
HandleMsgFails(c) ==
    /\ link[c].at = "main"
    /\ link' = [link EXCEPT ![c].at = "remove"]
    /\ UNCHANGED <<manager, inDownloader, removal>>

-----------------------------------------------------------------------------
(* removePeer, deferred by handle and called by the droppers.              *)

Start(x, id) == removal' = [removal EXCEPT ![x] = [at |-> "downloader", id |-> id, conn |-> manager.peers[id]]]

DeferredRemove(c) ==
    LET id == PeerIdOf[c] IN
    /\ link[c].at = "remove"
    /\ IF id \in DOMAIN manager.peers
       THEN Start(c, id) /\ link' = [link EXCEPT ![c].at = "removing"] /\ UNCHANGED manager
       ELSE Leaves(c) /\ UNCHANGED removal
    /\ UNCHANGED inDownloader

DropPeer(r, id) ==
    /\ removal[r].at = "idle" /\ id \in DOMAIN manager.peers
    /\ Start(r, id)
    /\ UNCHANGED <<manager, inDownloader, link>>

UnregisterPeer(x) ==
    /\ removal[x].at = "downloader"
    /\ inDownloader' = inDownloader \ {removal[x].id}
    /\ removal' = [removal EXCEPT ![x].at = "peerset"]
    /\ UNCHANGED <<manager, link>>

Unregister(x) ==
    /\ removal[x].at = "peerset"
    /\ manager' = [manager EXCEPT !.peers = Restrict(@, DOMAIN @ \ {removal[x].id})]
    /\ removal' = [removal EXCEPT ![x].at = "disconnect"]
    /\ UNCHANGED <<inDownloader, link>>

Disconnect(x) ==
    /\ removal[x].at = "disconnect"
    /\ removal' = [removal EXCEPT ![x] = IdleRemoval]
    /\ link' = [c \in PMConns |-> [link[c] EXCEPT !.at = IF c = x THEN "done" ELSE @,
                                                  !.cut = @ \/ c = removal[x].conn]]
    /\ manager' = [manager EXCEPT !.wg = IF x \in PMConns THEN @ - 1 ELSE @]
    /\ UNCHANGED inDownloader

-----------------------------------------------------------------------------
(* Stop. *)

StopCalled ==
    /\ manager.stop = "running"
    /\ manager' = [manager EXCEPT !.stop = "noMorePeers"]
    /\ UNCHANGED <<inDownloader, link, removal>>

NoMorePeers ==
    /\ manager.stop = "noMorePeers" /\ manager.syncer
    /\ manager' = [manager EXCEPT !.stop = "quit", !.syncer = FALSE]
    /\ UNCHANGED <<inDownloader, link, removal>>

QuitSync ==
    /\ manager.stop = "quit"
    /\ manager' = [manager EXCEPT !.stop = "close", !.quit = TRUE]
    /\ UNCHANGED <<inDownloader, link, removal>>

ClosePeers ==
    /\ manager.stop = "close"
    /\ manager' = [manager EXCEPT !.stop = "wait", !.closed = TRUE]
    /\ link' = [c \in PMConns |-> [link[c] EXCEPT !.cut = @ \/ c \in Range(manager.peers)]]
    /\ UNCHANGED <<inDownloader, removal>>

WaitGroup ==
    /\ manager.stop = "wait" /\ manager.wg = 0
    /\ manager' = [manager EXCEPT !.stop = "stopped"]
    /\ UNCHANGED <<inDownloader, link, removal>>

-----------------------------------------------------------------------------
ManagerInit ==
    /\ manager = [peers |-> [i \in {} |-> 0], closed |-> FALSE, wg |-> 0, stop |-> "running", syncer |-> TRUE, quit |-> FALSE]
    /\ inDownloader = {}
    /\ link = [c \in PMConns |-> [at |-> "none", cut |-> FALSE]]
    /\ removal = [x \in PMConns \union Droppers |-> IdleRemoval]

\* What goes on by itself; a handler that was cut off stops reading.
ManagerWork ==
    \/ NoMorePeers \/ QuitSync \/ ClosePeers \/ WaitGroup
    \/ \E c \in PMConns : \/ NewPeer(c) \/ AddToGroup(c) \/ TooManyPeers(c) \/ Handshake(c) \/ RegisterPeer(c)
                          \/ RegisterInDownloader(c) \/ DeferredRemove(c)
                          \/ link[c].cut /\ HandleMsgFails(c)
    \/ \E x \in PMConns \union Droppers : UnregisterPeer(x) \/ Unregister(x) \/ Disconnect(x)

ManagerNext ==
    \/ ManagerWork \/ StopCalled
    \/ \E c \in PMConns : Run(c) \/ HandleMsgFails(c)
    \/ \E r \in Droppers, id \in Range(PeerIdOf) : DropPeer(r, id)

ManagerSpec == ManagerInit /\ [][ManagerNext]_managerVars

-----------------------------------------------------------------------------
\* Another call of removePeer has taken the entry of a live connection.
Orphan(c) == link[c].at = "main" /\ ~link[c].cut /\ PeerIdOf[c] \notin DOMAIN manager.peers

\* Stop returns: every handler in the wait group ends, also one that was
\* accepted before and registers only after the peers were disconnected.
\* Only a connection that the peer set has lost may keep it waiting.
ManagerStops == manager.stop = "noMorePeers" ~> manager.stop = "stopped" \/ \E c \in PMConns : Orphan(c)

\* "Disconnect existing sessions": when Stop waits for the handlers, every
\* connection that is in its main loop has been cut.  It does not hold:
\* removePeer takes out of the set whatever is there under the id, and a
\* connection that registered in between is in its main loop and in no set.
SessionsDisconnected == manager.stop = "wait" => \A c \in PMConns : link[c].at = "main" => link[c].cut
=============================================================================
