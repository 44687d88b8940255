------------------------------ MODULE P2PPeer ------------------------------
(***************************************************************************)
(* Peer.run of communication/p2p/peer.go: the loop that waits for an       *)
(* error, and the goroutines it starts and waits for - readLoop, pingLoop  *)
(* and one per matched protocol - with the channels between them and the   *)
(* transport's write lock (msgpx.go 105-123).  What a protocol's Run does  *)
(* is external: it reads, writes and returns, and returns when ReadMsg or  *)
(* WriteMsg fails.                                                         *)
(***************************************************************************)
EXTENDS Naturals, FiniteSets, Sequences

CONSTANTS Protos,        \* the matched protocols, strings
          Disconnecters, \* callers of Disconnect, strings
          MaxMsgs        \* bound: messages and pings that arrive

VARIABLES peerLoop,  \* where run is
          peerChans, \* the contents of its channels, and whether closed is closed
          peerConn,  \* the transport: open, the holder of wmu, messages so far
          peerProcs  \* every goroutine's place

peerVars == <<peerLoop, peerChans, peerConn, peerProcs>>

\* The goroutines of run's WaitGroup.
Waited == {"read", "ping"} \cup Protos
Writers == {"ping", "pong"} \cup Protos

\* newPeer: protoErr has room for every protocol and for pingLoop.
ProtoErrRoomProtos == Cardinality(Protos)
ProtoErrRoom == Cardinality(Protos) + 1

PeerInit ==
    /\ peerLoop = "loop"
    /\ peerChans = [writeStart |-> 1, writeErr |-> <<>>, readErr |-> 0, protoErr |-> 0, closed |-> FALSE]
    /\ peerConn = [open |-> TRUE, wmu |-> "", msgs |-> 0]
    /\ peerProcs = [g \in Waited \cup {"pong"} \cup Disconnecters |->
           CASE g = "read" -> "reading" [] g = "ping" -> "timer" [] g \in Protos -> "run" [] OTHER -> "idle"]

PeerAt(g, pc) == peerProcs[g] = pc
Go(g, pc) == peerProcs' = [peerProcs EXCEPT ![g] = pc]

----------------------------------------------------------------------------
(* readLoop and handle.                                                    *)

\* A read fails, on a closed connection or before; a discMsg is the last
\* message; a code out of range is an error: each goes to readErr.
ReadFails ==
    /\ PeerAt("read", "reading")
    /\ peerChans' = [peerChans EXCEPT !.readErr = 1]
    /\ Go("read", "done")
    /\ UNCHANGED <<peerLoop, peerConn>>

\* A subprotocol message, for the protocol whose range holds its code.
ReadMsgFor(p) ==
    /\ PeerAt("read", "reading") /\ peerConn.open /\ peerConn.msgs < MaxMsgs
    /\ peerConn' = [peerConn EXCEPT !.msgs = @ + 1]
    /\ Go("read", p)
    /\ UNCHANGED <<peerLoop, peerChans>>

\* A ping is answered by a goroutine that nobody waits for.
ReadPing ==
    /\ PeerAt("read", "reading") /\ peerConn.open /\ peerConn.msgs < MaxMsgs /\ PeerAt("pong", "idle")
    /\ peerConn' = [peerConn EXCEPT !.msgs = @ + 1]
    /\ Go("pong", "lock")
    /\ UNCHANGED <<peerLoop, peerChans>>

\* case proto.in <- msg, which meets ReadMsg; case <-p.closed
HandOver(p) ==
    /\ PeerAt("read", p) /\ PeerAt(p, "recv")
    /\ peerProcs' = [peerProcs EXCEPT !["read"] = "reading", ![p] = "run"]
    /\ UNCHANGED <<peerLoop, peerChans, peerConn>>

HandClosed(p) ==
    /\ PeerAt("read", p) /\ peerChans.closed
    /\ peerChans' = [peerChans EXCEPT !.readErr = 1]
    /\ Go("read", "done")
    /\ UNCHANGED <<peerLoop, peerConn>>

----------------------------------------------------------------------------
(* pingLoop.                                                               *)

\* The timer is reset after a ping: once closed is closed, no tick is due.
PingDue ==
    /\ PeerAt("ping", "timer") /\ ~peerChans.closed
    /\ Go("ping", "due")
    /\ UNCHANGED <<peerLoop, peerChans, peerConn>>

PingSends ==
    /\ PeerAt("ping", "due")
    /\ Go("ping", "lock")
    /\ UNCHANGED <<peerLoop, peerChans, peerConn>>

PingClosed ==
    /\ peerProcs["ping"] \in {"timer", "due"} /\ peerChans.closed
    /\ Go("ping", "done")
    /\ UNCHANGED <<peerLoop, peerChans, peerConn>>

----------------------------------------------------------------------------
(* A protocol goroutine: protoRW.ReadMsg, protoRW.WriteMsg, the end.       *)

ProtoCalls(p) ==
    /\ PeerAt(p, "run")
    /\ \E pc \in {"recv", "wstart", "ended"} : Go(p, pc)
    /\ UNCHANGED <<peerLoop, peerChans, peerConn>>

\* closed ends a read and a write that has not started.
ProtoClosed(p) ==
    /\ peerProcs[p] \in {"recv", "wstart"} /\ peerChans.closed
    /\ Go(p, "ended")
    /\ UNCHANGED <<peerLoop, peerChans, peerConn>>

ProtoWStart(p) ==
    /\ PeerAt(p, "wstart") /\ peerChans.writeStart = 1
    /\ peerChans' = [peerChans EXCEPT !.writeStart = 0]
    /\ Go(p, "lock")
    /\ UNCHANGED <<peerLoop, peerConn>>

\* rw.werr <- err, in a channel of one.
ProtoReports(p) ==
    /\ peerProcs[p] \in {"wrote", "failed"} /\ peerChans.writeErr = <<>>
    /\ peerChans' = [peerChans EXCEPT !.writeErr = <<peerProcs[p]>>]
    /\ Go(p, IF PeerAt(p, "wrote") THEN "run" ELSE "ended")
    /\ UNCHANGED <<peerLoop, peerConn>>

\* p.protoErr <- err, from a protocol that ended or a ping that failed.
SendProtoErr(g) ==
    /\ PeerAt(g, IF g = "ping" THEN "failed" ELSE "ended")
    /\ peerChans.protoErr < ProtoErrRoom
    /\ peerChans' = [peerChans EXCEPT !.protoErr = @ + 1]
    /\ Go(g, "done")
    /\ UNCHANGED <<peerLoop, peerConn>>

----------------------------------------------------------------------------
(* msgpx.WriteMsg under wmu: it ends, at the latest at its deadline.       *)

WriteLocks(g) ==
    /\ PeerAt(g, "lock") /\ peerConn.wmu = ""
    /\ peerConn' = [peerConn EXCEPT !.wmu = g]
    /\ Go(g, "writing")
    /\ UNCHANGED <<peerLoop, peerChans>>

WriteEnds(g, ok) ==
    /\ PeerAt(g, "writing") /\ (ok => peerConn.open)
    /\ peerConn' = [peerConn EXCEPT !.wmu = ""]
    /\ Go(g, CASE g = "pong" -> "idle"
               [] g = "ping" /\ ok -> "timer"
               [] OTHER -> IF ok THEN "wrote" ELSE "failed")
    /\ UNCHANGED <<peerLoop, peerChans>>

----------------------------------------------------------------------------
(* run's select, and Disconnect.                                           *)

LoopWrote ==
    /\ peerLoop = "loop" /\ peerChans.writeErr # <<>>
    /\ IF peerChans.writeErr = <<"wrote">>
       THEN /\ peerChans' = [peerChans EXCEPT !.writeErr = <<>>, !.writeStart = 1]
            /\ UNCHANGED peerLoop
       ELSE /\ peerChans' = [peerChans EXCEPT !.writeErr = <<>>]
            /\ peerLoop' = "break"
    /\ UNCHANGED <<peerConn, peerProcs>>

LoopReadErr ==
    /\ peerLoop = "loop" /\ peerChans.readErr = 1
    /\ peerChans' = [peerChans EXCEPT !.readErr = 0]
    /\ peerLoop' = "break"
    /\ UNCHANGED <<peerConn, peerProcs>>

LoopProtoErr ==
    /\ peerLoop = "loop" /\ peerChans.protoErr > 0
    /\ peerChans' = [peerChans EXCEPT !.protoErr = @ - 1]
    /\ peerLoop' = "break"
    /\ UNCHANGED <<peerConn, peerProcs>>

DisconnectCalled(d) ==
    /\ PeerAt(d, "idle")
    /\ Go(d, "sending")
    /\ UNCHANGED <<peerLoop, peerChans, peerConn>>

LoopDisc(d) ==
    /\ peerLoop = "loop" /\ PeerAt(d, "sending")
    /\ peerLoop' = "break"
    /\ Go(d, "done")
    /\ UNCHANGED <<peerChans, peerConn>>

DisconnectClosed(d) ==
    /\ PeerAt(d, "sending") /\ peerChans.closed
    /\ Go(d, "done")
    /\ UNCHANGED <<peerLoop, peerChans, peerConn>>

\* close(p.closed)
RunCloses ==
    /\ peerLoop = "break"
    /\ peerChans' = [peerChans EXCEPT !.closed = TRUE]
    /\ peerLoop' = "close"
    /\ UNCHANGED <<peerConn, peerProcs>>

\* p.rw.close: the reason is sent under wmu, then the connection is closed.
RunHangsUp ==
    /\ peerLoop = "close" /\ peerConn.wmu = ""
    /\ peerConn' = [peerConn EXCEPT !.open = FALSE]
    /\ peerLoop' = "wait"
    /\ UNCHANGED <<peerChans, peerProcs>>

\* p.wg.Wait
RunReturns ==
    /\ peerLoop = "wait" /\ \A g \in Waited : PeerAt(g, "done")
    /\ peerLoop' = "returned"
    /\ UNCHANGED <<peerChans, peerConn, peerProcs>>

\* Once closed is closed, these are the steps that must not stop.
PeerWork ==
    \/ LoopWrote \/ LoopReadErr \/ LoopProtoErr \/ RunCloses \/ RunHangsUp \/ RunReturns
    \/ PingSends \/ PingClosed \/ (~peerConn.open /\ ReadFails)
    \/ \E p \in Protos : HandOver(p) \/ HandClosed(p) \/ ProtoClosed(p) \/ ProtoWStart(p)
                         \/ ProtoReports(p) \/ (peerChans.closed /\ ProtoCalls(p))
    \/ \E g \in Writers : SendProtoErr(g) \/ WriteLocks(g) \/ WriteEnds(g, FALSE)
    \/ \E d \in Disconnecters : LoopDisc(d) \/ DisconnectClosed(d)

PeerNext ==
    \/ PeerWork
    \/ ReadFails \/ ReadPing \/ PingDue
    \/ \E p \in Protos : ReadMsgFor(p) \/ ProtoCalls(p)
    \/ \E g \in Writers : WriteEnds(g, TRUE)
    \/ \E d \in Disconnecters : DisconnectCalled(d)

PeerFairness == WF_peerVars(RunCloses) /\ WF_peerVars(PeerWork)
PeerSpec == PeerInit /\ [][PeerNext]_peerVars /\ PeerFairness

----------------------------------------------------------------------------
(* Once anything has made run leave its loop, run returns: no goroutine it *)
(* waits for is left blocked, neither on a channel the loop no longer      *)
(* reads (protoErr and writeErr have the room, peer.go 180 and 189) nor on *)
(* a message nobody takes, and no Disconnect call hangs (156-161).  The    *)
(* server's run loop counts on it (server.go 815-817).                     *)
PeerRunEnds ==
    /\ peerLoop = "break" ~> peerLoop = "returned"
    /\ \A d \in Disconnecters : PeerAt(d, "sending") /\ peerChans.closed ~> PeerAt(d, "done")
============================================================================
