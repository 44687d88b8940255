----------------------------- MODULE RpcClient -----------------------------
(***************************************************************************)
(* The RPC client (communication/rpc/client.go) on a connection that       *)
(* notifications come over: calls, which take the write lock by handing    *)
(* their request to dispatch and write it themselves, the dispatch loop,   *)
(* the read loop of the connection, reconnection, subscriptions with       *)
(* their forwarding goroutine, and Close.                                  *)
(*                                                                         *)
(* A request (requestOp) has a channel for its responses: here the         *)
(* sequence of what was put into it, the end being "closed".  A            *)
(* subscription is named after the request that makes it; the request      *)
(* that ends it is UnsubOp of it.                                          *)
(***************************************************************************)
EXTENDS Integers, Sequences, FiniteSets

CONSTANTS
    CallOps,          \* calls and batch calls
    OpIds,            \* per request the number of its ids
    SubOps,           \* calls of Subscribe
    UnsubOp,          \* per subscription the call that ends it on the server
    Deadlined,        \* requests whose context may end
    SubBuffer,        \* maxClientSubscriptionBuffer
    MaxConns,         \* bound: connections made
    MaxNotes          \* bound: notifications of the server

VARIABLES
    dispatcher,       \* the dispatch loop and the state only it changes
    rpcOps,           \* the requests, with the goroutine that waits for each
    rpcWire,          \* writeConn, the reader, sendDone, what the server has to do
    rpcSubs           \* the subscriptions

rpcVars == <<dispatcher, rpcOps, rpcWire, rpcSubs>>

AllOps == CallOps \union SubOps \union {UnsubOp[s] : s \in SubOps}
NoOp == "nil"
IdsOf(o) == {<<o, i>> : i \in 1 .. OpIds[o]}

\* A subscription is one request, and the call that ends it serves no other.
ASSUME RpcClientAssumption ==
    /\ \A o \in AllOps : OpIds[o] \in Nat
    /\ \A s \in SubOps : OpIds[s] = 1 /\ UnsubOp[s] \notin CallOps \union SubOps
    /\ \A s, t \in SubOps : UnsubOp[s] = UnsubOp[t] => s = t

RpcInit ==
    /\ dispatcher = [at |-> "loop", locked |-> FALSE, lastOp |-> NoOp, reading |-> TRUE, conn |-> 1,
                     respWait |-> {}, subs |-> {}, left |-> {}, quits |-> FALSE]
    /\ rpcOps = [o \in AllOps |-> [at |-> "idle", resp |-> <<>>, got |-> 0, sentOn |-> 0]]
    /\ rpcWire = [write |-> 1, made |-> 1, closed |-> {}, reader |-> "read", msg |-> NoOp, ids |-> {},
                  sendDone |-> <<>>, asked |-> {}, notes |-> 0]
    /\ rpcSubs = [s \in SubOps |-> [at |-> "none", once |-> "free", quit |-> FALSE, in |-> 0,
                                    err |-> 0, user |-> "idle"]]

DidQuit == dispatcher.at = "quit"

-----------------------------------------------------------------------------
(* A request: send, write, reconnect and wait. *)

Begin(o) ==
    /\ o \in CallOps \union SubOps /\ rpcOps[o].at = "idle"
    /\ rpcOps' = [rpcOps EXCEPT ![o].at = "send"]
    /\ UNCHANGED <<dispatcher, rpcWire, rpcSubs>>

\* case op := <-requestOpLock
OpTaken(o) ==
    /\ rpcOps[o].at = "send" /\ dispatcher.at = "loop" /\ ~dispatcher.locked
    /\ dispatcher' = [dispatcher EXCEPT !.locked = TRUE, !.lastOp = o, !.respWait = @ \union IdsOf(o)]
    /\ rpcOps' = [rpcOps EXCEPT ![o].at = "write"]
    /\ UNCHANGED <<rpcWire, rpcSubs>>

SendFails(o) ==
    /\ rpcOps[o].at = "send" /\ (DidQuit \/ o \in Deadlined)
    /\ rpcOps' = [rpcOps EXCEPT ![o].at = "over"]
    /\ UNCHANGED <<dispatcher, rpcWire, rpcSubs>>

\* The message is written, or the connection fails; then sendDone is told.
Write(o, ok) ==
    /\ rpcOps[o].at = "write" /\ rpcWire.write # 0
    /\ ok => rpcWire.write \notin rpcWire.closed
    /\ rpcOps' = [rpcOps EXCEPT ![o] = [rpcOps[o] EXCEPT !.at = IF ok THEN "wait" ELSE "over",
                                                         !.sentOn = rpcWire.write]]
    /\ rpcWire' = IF ok THEN [rpcWire EXCEPT !.sendDone = Append(@, "ok"),
                                             !.asked = @ \union {<<id, rpcWire.write>> : id \in IdsOf(o)}]
                  ELSE [rpcWire EXCEPT !.sendDone = Append(@, "err"), !.write = 0]
    /\ UNCHANGED <<dispatcher, rpcSubs>>

ReconnectFails(o) ==
    /\ rpcOps[o].at = "write" /\ rpcWire.write = 0
    /\ rpcOps' = [rpcOps EXCEPT ![o].at = "over"]
    /\ rpcWire' = [rpcWire EXCEPT !.sendDone = Append(@, "err")]
    /\ UNCHANGED <<dispatcher, rpcSubs>>

\* case newconn := <-c.reconnected: the old read loop must end first
Reconnected(o) ==
    /\ rpcOps[o].at = "write" /\ rpcWire.write = 0 /\ rpcWire.made < MaxConns
    /\ dispatcher.at = "loop"
    /\ LET new == rpcWire.made + 1
       IN  /\ rpcWire' = [rpcWire EXCEPT !.made = new, !.write = new,
                              !.closed = IF dispatcher.reading THEN @ \union {dispatcher.conn} ELSE @,
                              !.reader = IF dispatcher.reading THEN @ ELSE "read"]
           /\ dispatcher' = IF dispatcher.reading THEN [dispatcher EXCEPT !.at = "waitread"]
                            ELSE [dispatcher EXCEPT !.reading = TRUE, !.conn = new]
    /\ UNCHANGED <<rpcOps, rpcSubs>>

WaitRead ==
    /\ dispatcher.at = "waitread" /\ rpcWire.reader = "err"
    /\ dispatcher' = [dispatcher EXCEPT !.at = "loop", !.conn = rpcWire.made]
    /\ rpcWire' = [rpcWire EXCEPT !.reader = "read"]
    /\ UNCHANGED <<rpcOps, rpcSubs>>

\* case err := <-c.sendDone
SendDone ==
    /\ dispatcher.at = "loop" /\ rpcWire.sendDone # <<>>
    /\ dispatcher' = [dispatcher EXCEPT !.locked = FALSE, !.lastOp = NoOp,
           !.respWait = IF Head(rpcWire.sendDone) = "err" THEN @ \ IdsOf(dispatcher.lastOp) ELSE @]
    /\ rpcWire' = [rpcWire EXCEPT !.sendDone = Tail(@)]
    /\ UNCHANGED <<rpcOps, rpcSubs>>

\* wait: the next response, the end of the channel, or the context
WaitEnds(o) ==
    /\ rpcOps[o].at = "wait"
    /\ \/ /\ rpcOps[o].got < Len(rpcOps[o].resp)
          /\ LET closed == rpcOps[o].resp[rpcOps[o].got + 1] = "closed"
             IN  rpcOps' = [rpcOps EXCEPT ![o] = [rpcOps[o] EXCEPT !.got = @ + 1,
                                !.at = IF closed \/ rpcOps[o].got + 1 = OpIds[o] THEN "over" ELSE @]]
       \/ /\ o \in Deadlined
          /\ rpcOps' = [rpcOps EXCEPT ![o].at = "over"]
    /\ UNCHANGED <<dispatcher, rpcWire, rpcSubs>>

-----------------------------------------------------------------------------
(* The read loop, and what the server sends. *)

Reads ==
    /\ rpcWire.reader = "read" /\ dispatcher.conn \notin rpcWire.closed
    /\ \/ \E o \in AllOps : \E I \in SUBSET IdsOf(o) \ {{}} :
             /\ \A id \in I : <<id, dispatcher.conn>> \in rpcWire.asked
             /\ rpcWire' = [rpcWire EXCEPT !.reader = "resp", !.msg = o, !.ids = I,
                                           !.asked = @ \ {<<id, dispatcher.conn>> : id \in I}]
       \/ \E s \in SubOps :
             /\ rpcSubs[s].at # "none" /\ rpcWire.notes < MaxNotes
             /\ rpcWire' = [rpcWire EXCEPT !.reader = "note", !.msg = s, !.notes = @ + 1]
    /\ UNCHANGED <<dispatcher, rpcOps, rpcSubs>>

\* The connection is lost, or dispatch has closed it.
ReadFails ==
    /\ rpcWire.reader = "read"
    /\ rpcWire' = [rpcWire EXCEPT !.reader = "err"]
    /\ UNCHANGED <<dispatcher, rpcOps, rpcSubs>>

Heard(w) == [w EXCEPT !.reader = "read", !.msg = NoOp, !.ids = {}]

\* handleResponse for every id of the batch that somebody waits for
handleResponse(granted) ==
    /\ dispatcher.at = "loop" /\ rpcWire.reader = "resp"
    /\ LET o == rpcWire.msg
           known == rpcWire.ids \intersect dispatcher.respWait
           put == IF o \in SubOps THEN <<"closed">> ELSE [i \in 1 .. Cardinality(known) |-> "resp"]
           starts == known # {} /\ o \in SubOps /\ granted
       IN  /\ granted \/ o \in SubOps
           /\ rpcOps' = IF known = {} THEN rpcOps ELSE [rpcOps EXCEPT ![o].resp = @ \o put]
           /\ dispatcher' = [dispatcher EXCEPT !.respWait = @ \ known,
                                               !.subs = IF starts THEN @ \union {o} ELSE @]
           /\ rpcSubs' = IF starts THEN [rpcSubs EXCEPT ![o].at = "forward"] ELSE rpcSubs
    /\ rpcWire' = Heard(rpcWire)

\* handleNotification; deliver waits for the goroutine of the subscription
handleNotification ==
    /\ dispatcher.at = "loop" /\ rpcWire.reader = "note"
    /\ dispatcher' = IF rpcWire.msg \in dispatcher.subs
                     THEN [dispatcher EXCEPT !.at = "deliver", !.left = {rpcWire.msg}] ELSE dispatcher
    /\ rpcWire' = Heard(rpcWire)
    /\ UNCHANGED <<rpcOps, rpcSubs>>

DeliverNote(s) ==
    /\ dispatcher.at = "deliver" /\ s \in dispatcher.left
    /\ \/ /\ rpcSubs[s].at = "forward"
          /\ \/ rpcSubs[s].in < SubBuffer /\ rpcSubs' = [rpcSubs EXCEPT ![s].in = @ + 1]
             \/ rpcSubs' = [rpcSubs EXCEPT ![s].at = "failed"]     \* the buffer is full, or not a value
       \/ rpcSubs[s].quit /\ UNCHANGED rpcSubs
    /\ dispatcher' = [dispatcher EXCEPT !.at = "loop", !.left = {}]
    /\ UNCHANGED <<rpcOps, rpcWire>>

-----------------------------------------------------------------------------
(* closeRequestOps: after a read error, and when dispatch returns.         *)

\* A fault: the requests stay in respWait.
WaitAfterCloseKept(respWait) == respWait

WaitAfterClose(respWait) == {}

CloseOps ==
    rpcOps' = [o \in AllOps |-> IF IdsOf(o) \intersect dispatcher.respWait = {} THEN rpcOps[o]
                                ELSE [rpcOps[o] EXCEPT !.resp = Append(@, "closed")]]

CloseRequestOps(quits) ==
    /\ CloseOps
    /\ dispatcher' = [dispatcher EXCEPT !.at = "closesubs", !.respWait = WaitAfterClose(@),
                                        !.left = dispatcher.subs, !.subs = {}, !.quits = quits]
    /\ UNCHANGED <<rpcWire, rpcSubs>>

ReadErr ==
    /\ dispatcher.at = "loop" /\ rpcWire.reader = "err"
    /\ CloseRequestOps(FALSE)

ClientClose ==
    /\ dispatcher.at = "loop"
    /\ CloseRequestOps(TRUE)

\* quitWithError of a subscription; it waits while somebody else is in it
CloseSub(s) ==
    /\ dispatcher.at = "closesubs" /\ s \in dispatcher.left
    /\ rpcSubs[s].once \in {"free", "done"}
    /\ rpcSubs' = IF rpcSubs[s].once = "done" THEN rpcSubs
                  ELSE [rpcSubs EXCEPT ![s] = [rpcSubs[s] EXCEPT !.once = "done", !.quit = TRUE, !.err = @ + 1]]
    /\ dispatcher' = [dispatcher EXCEPT !.left = @ \ {s}]
    /\ UNCHANGED <<rpcOps, rpcWire>>

\* After the subscriptions the connection is closed; when the loop returns,
\* the read loop is drained until it is dead.
SubsClosed ==
    /\ dispatcher.at = "closesubs" /\ dispatcher.left = {}
    /\ rpcWire' = [rpcWire EXCEPT !.closed = @ \union {dispatcher.conn},
                                  !.reader = IF dispatcher.quits THEN @ ELSE "gone"]
    /\ dispatcher' = IF dispatcher.quits
                     THEN [dispatcher EXCEPT !.at = IF dispatcher.reading THEN "drain" ELSE "quit"]
                     ELSE [dispatcher EXCEPT !.at = "loop", !.reading = FALSE]
    /\ UNCHANGED <<rpcOps, rpcSubs>>

Drain ==
    /\ dispatcher.at = "drain" /\ rpcWire.reader \in {"resp", "note", "err"}
    /\ dispatcher' = IF rpcWire.reader = "err" THEN [dispatcher EXCEPT !.at = "quit"] ELSE dispatcher
    /\ rpcWire' = IF rpcWire.reader = "err" THEN [rpcWire EXCEPT !.reader = "gone"] ELSE Heard(rpcWire)
    /\ UNCHANGED <<rpcOps, rpcSubs>>

-----------------------------------------------------------------------------
(* Subscriptions. *)

\* The subscriber takes a value from the buffer.
Consumed(s) ==
    /\ rpcSubs[s].at = "forward" /\ rpcSubs[s].in > 0
    /\ rpcSubs' = [rpcSubs EXCEPT ![s].in = @ - 1]
    /\ UNCHANGED <<dispatcher, rpcOps, rpcWire>>

\* forward ends because quit is closed.
ForwardQuits(s) ==
    /\ rpcSubs[s].at = "forward" /\ rpcSubs[s].quit /\ rpcSubs[s].once = "done"
    /\ rpcSubs' = [rpcSubs EXCEPT ![s].at = "over"]
    /\ UNCHANGED <<dispatcher, rpcOps, rpcWire>>

\* quitWithError with a call to the server: of forward after an error, of
\* Unsubscribe
EnterQuit(s, who) ==
    /\ rpcSubs[s].once = "free"
    /\ rpcSubs' = [rpcSubs EXCEPT ![s] = [rpcSubs[s] EXCEPT !.once = who, !.quit = TRUE]]
    /\ rpcOps' = [rpcOps EXCEPT ![UnsubOp[s]].at = "send"]
    /\ UNCHANGED <<dispatcher, rpcWire>>

ForwardFails(s) == rpcSubs[s].at = "failed" /\ EnterQuit(s, "forward")

Unsubscribe(s) == rpcOps[s].got > 0 /\ rpcSubs[s].at # "none" /\ rpcSubs[s].user = "idle" /\ EnterQuit(s, "user")

\* The call is over: forward reports its error, Unsubscribe closes the channel.
LeaveQuit(s) ==
    /\ rpcSubs[s].once \in {"forward", "user"} /\ rpcOps[UnsubOp[s]].at = "over"
    /\ rpcSubs' = [rpcSubs EXCEPT ![s] = [rpcSubs[s] EXCEPT !.once = "done",
                       !.err = IF rpcSubs[s].once = "forward" THEN @ + 1 ELSE @,
                       !.at = IF rpcSubs[s].once = "forward" THEN "over" ELSE @,
                       !.user = IF rpcSubs[s].once = "user" THEN "over" ELSE @]]
    /\ UNCHANGED <<dispatcher, rpcOps, rpcWire>>

\* Somebody else was first.
QuitDone(s) ==
    /\ rpcSubs[s].once = "done"
    /\ \/ rpcSubs[s].at = "failed" /\ rpcSubs' = [rpcSubs EXCEPT ![s].at = "over"]
       \/ rpcSubs[s].user = "idle" /\ rpcOps[s].got > 0 /\ rpcSubs' = [rpcSubs EXCEPT ![s].user = "over"]
    /\ UNCHANGED <<dispatcher, rpcOps, rpcWire>>

RpcNext ==
    \/ \E o \in AllOps : \/ Begin(o) \/ OpTaken(o) \/ SendFails(o) \/ ReconnectFails(o) \/ Reconnected(o)
                         \/ WaitEnds(o)
                         \/ \E ok \in BOOLEAN : Write(o, ok)
    \/ WaitRead \/ SendDone \/ Reads \/ ReadFails
    \/ \E granted \in BOOLEAN : handleResponse(granted)
    \/ handleNotification \/ ReadErr \/ ClientClose \/ SubsClosed \/ Drain
    \/ \E s \in SubOps : \/ DeliverNote(s) \/ CloseSub(s) \/ Consumed(s) \/ ForwardQuits(s)
                         \/ ForwardFails(s) \/ Unsubscribe(s) \/ LeaveQuit(s) \/ QuitDone(s)

RpcSpec == RpcInit /\ [][RpcNext]_rpcVars

-----------------------------------------------------------------------------
\* The values the variables range over.
RpcTypeOK ==
    /\ dispatcher.at \in {"loop", "deliver", "waitread", "closesubs", "drain", "quit"}
    /\ \A o \in AllOps : rpcOps[o].at \in {"idle", "send", "write", "wait", "over"}

\* However calls, responses, a lost connection, reconnection, Unsubscribe and
\* Close interleave: a request's channel is closed at most once and nothing is
\* sent on it afterwards (the client would panic), it gets no more responses
\* than it has room for (dispatch would block), one goroutine at a time
\* writes, and a subscription reports at most one error.
ClientSound ==
    /\ RpcTypeOK
    /\ \A o \in AllOps :
          LET resp == rpcOps[o].resp
          IN  /\ \A i \in DOMAIN resp : resp[i] = "closed" => i = Len(resp)
              /\ Cardinality({i \in DOMAIN resp : resp[i] = "resp"}) <= OpIds[o]
    /\ Cardinality({o \in AllOps : rpcOps[o].at = "write"}) + Len(rpcWire.sendDone) <= 1
    /\ \A s \in SubOps : rpcSubs[s].err <= 1 /\ (rpcSubs[s].user = "over" => rpcSubs[s].once = "done")

\* Nobody is left waiting for an answer on a connection that is gone ("When
\* the read loop goes down, it will signal all other current operations",
\* client.go).  It does not hold: the reconnected case of dispatch takes the
\* error of the old read loop and does not close the operations that wait.
LossSignalled ==
    \A o \in AllOps : (rpcOps[o].at = "wait" /\ IdsOf(o) \intersect dispatcher.respWait # {})
                          => rpcOps[o].sentOn >= dispatcher.conn

\* Somebody in the quit of a subscription gets their call to the server
\* through: dispatch does not wait for them.  It does not hold:
\* closeRequestOps quits the subscriptions in dispatch, which waits for
\* quitOnce, held by an Unsubscribe that waits for dispatch to take its call.
CloseAborts ==
    ~ \E s \in SubOps : /\ dispatcher.at = "closesubs" /\ s \in dispatcher.left
                        /\ rpcSubs[s].once \in {"forward", "user"} /\ rpcOps[UnsubOp[s]].at = "send"
                        /\ UnsubOp[s] \notin Deadlined
=============================================================================
