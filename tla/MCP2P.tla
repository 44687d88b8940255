-------------------------------- MODULE MCP2P --------------------------------
(***************************************************************************)
(* The node's connections, and the chain it downloads over them, one       *)
(* component per behaviour: `part' names the one that runs; the others     *)
(* stay as they are at the start.                                          *)
(***************************************************************************)
EXTENDS P2PServer, Msgpx, RpcClient, RpcServer, Downloader

VARIABLE part

p2pVars == <<serverVars, pxVars, rpcVars, rpcServerVars, vars, part>>

P2PInit ==
    /\ part \in {"server", "transport", "client", "rpcserver", "downloader"}
    /\ ServerInit /\ PxInit /\ RpcInit /\ RpcServerInit /\ Init

Rests(p, v) == IF part = p THEN TRUE ELSE UNCHANGED v

P2PNext ==
    /\ UNCHANGED part
    /\ Rests("server", serverVars) /\ Rests("transport", pxVars) /\ Rests("client", rpcVars)
    /\ Rests("rpcserver", rpcServerVars) /\ Rests("downloader", vars)
    /\ \/ part = "server" /\ ServerNext
       \/ part = "transport" /\ PxNext
       \/ part = "client" /\ RpcNext
       \/ part = "rpcserver" /\ RpcServerNext
       \/ part = "downloader" /\ Next

P2PSpec == P2PInit /\ [][P2PNext]_p2pVars

-----------------------------------------------------------------------------
(* An inbound and a static connection of one node, an inbound one of       *)
(* another, one from outside NetRestrict, and a dialed one that turns out  *)
(* to be the local node.                                                   *)
SrvConnsDef == {"a1", "a2", "b1", "r1", "s1"}
ConnIdDef == [c \in SrvConnsDef |->
    CASE c \in {"a1", "a2"} -> "a" [] c \in {"b1", "r1"} -> "b" [] OTHER -> "self"]
ConnKindDef == [c \in SrvConnsDef |->
    CASE c = "a2" -> "static" [] c = "s1" -> "dynamic" [] OTHER -> "inbound"]

(* Payloads of no, one and several cipher blocks, and one too long.        *)
SizeDef == [handshake |-> 3, disc |-> 1, m1 |-> 4, m2 |-> 0, m3 |-> 9]
OutDef == [init |-> [proto |-> "m1", pong |-> "m2"], recv |-> [proto |-> "m3"]]

(* A call, a batch of two, and a subscription with the call that ends it.  *)
OpIdsDef == [o \in {"b1", "s1", "u1"} |-> IF o = "b1" THEN 2 ELSE 1]
UnsubDef == [s \in SubOps |-> "u1"]

(* A client that subscribes, sends a batch with mistakes, and unsubscribes *)
(* and one whose request cannot be parsed.                                 *)
Req(kind, method, params) == [id |-> TRUE, kind |-> kind, method |-> method, params |-> params]
ScriptDef == [c \in Codecs |->
    IF c = "c1"
    THEN <<[batch |-> FALSE, requests |-> <<Req("subscribe", "heads", "fit")>>],
           [batch |-> TRUE, requests |-> <<Req("call", "get", "fit"), Req("odd", "get", "none"),
                                           Req("call", "bad", "none")>>],
           [batch |-> FALSE, requests |-> <<Req("unsubscribe", "", "fit")>>]>>
    ELSE <<[batch |-> FALSE, requests |-> <<Req("odd", "x", "none")>>]>>]
Callback(method, takes, sub, fails) == [method |-> method, takes |-> takes, sub |-> sub, fails |-> fails]
CallbacksDef == {Callback("get", TRUE, FALSE, FALSE), Callback("bad", FALSE, FALSE, TRUE),
                 Callback("heads", FALSE, TRUE, FALSE)}

(* Peers a and b; peer b may come back with a second connection.           *)
ConnsDef == {"a1", "b1", "b2"}
PeerOfDef == [c \in ConnsDef |-> IF c = "a1" THEN "a" ELSE "b"]
==============================================================================
