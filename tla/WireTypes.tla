------------------------------ MODULE WireTypes ------------------------------
(***************************************************************************)
(* The generated MessagePack code (the *_gen.go files): EncodeMsg,         *)
(* MarshalMsg, DecodeMsg and UnmarshalMsg of every type that goes over the *)
(* wire or into the database.  All of them follow one scheme, which is     *)
(* here, driven by a description of the type; the descriptions of the      *)
(* types follow, with a machine that encodes, transmits and decodes them.  *)
(* (The nodes of a trie are in PatriciaTrie.)                              *)
(*                                                                         *)
(* A message is a sequence of tokens: headers of maps and arrays, keys,    *)
(* nil and leaves.  A leaf has one of two values, except where a           *)
(* conversion makes a difference: a big.Int is negative, zero or positive, *)
(* an IP address is missing, one of two of version 4, or of version 6.     *)
(* A pointer is a sequence of at most one value, nil is the empty one.     *)
(* Decoding goes into an object that may have been used before: fields     *)
(* that are not in the message keep what they have.                        *)
(***************************************************************************)
EXTENDS Integers, Sequences, FiniteSets, SequencesExt

Leaf(t) == [k |-> "leaf", type |-> t]
Ptr(s) == [k |-> "ptr", of |-> s]
Slice(s) == [k |-> "slice", of |-> s]
Struct(fs) == [k |-> "struct", fields |-> fs]   \* a sequence of pairs of a name and a type

NilToken == <<"nil", 0>>
Names(S) == {S.fields[i][1] : i \in DOMAIN S.fields}
FieldType(S, f) == S.fields[CHOOSE i \in DOMAIN S.fields : S.fields[i][1] = f][2]

\* The value of a new object.
RECURSIVE Zero(_)
Zero(S) ==
    CASE S.k = "leaf" -> 0
      [] S.k \in {"ptr", "slice"} -> <<>>
      [] S.k = "struct" -> [f \in Names(S) |-> Zero(FieldType(S, f))]

-----------------------------------------------------------------------------
(* Leaves: bigToBytes and bigFromBytes, and the extension IP.              *)

V4 == {41, 42}
LeafValues(t) == IF t = "big" THEN -1 .. 1 ELSE IF t = "ip" THEN {0, 6} \union V4 ELSE 0 .. 1

bigToBytes(v) == <<IF v < 0 THEN 255 ELSE v, IF v < 0 THEN -v ELSE v>>
bigFromBytes(b) == IF b[1] = 255 THEN -b[2] ELSE b[2]

\* IP.UnmarshalBinary looks at the address there was, not at the one there is.
ipUnmarshal(old, b) == IF old \in V4 THEN old ELSE b

WriteLeaf(t, v) == <<t, IF t = "big" THEN bigToBytes(v) ELSE v>>
ReadLeaf(t, old, b) ==
    CASE t = "big" -> bigFromBytes(b)
      [] t = "ip" -> ipUnmarshal(old, b)
      [] OTHER -> b

-----------------------------------------------------------------------------
(* EncodeMsg and MarshalMsg. *)

RECURSIVE EncodeMsg(_, _)
EncodeMsg(S, v) ==
    CASE S.k = "leaf" -> <<WriteLeaf(S.type, v)>>
      [] S.k = "ptr" -> IF v = <<>> THEN <<NilToken>> ELSE EncodeMsg(S.of, v[1])
      [] S.k = "slice" -> <<<<"array", Len(v)>>>> \o
                          FlattenSeq([i \in DOMAIN v |-> EncodeMsg(S.of, v[i])])
      [] S.k = "struct" -> <<<<"map", Len(S.fields)>>>> \o
                           FlattenSeq([i \in DOMAIN S.fields |->
                               LET f == S.fields[i]
                               IN  <<<<"key", f[1]>>>> \o EncodeMsg(f[2], v[f[1]])])

-----------------------------------------------------------------------------
(* DecodeMsg and UnmarshalMsg: the object afterwards, whether there was no *)
(* error, and the rest of the message.                                     *)

Fails(v) == [val |-> v, ok |-> FALSE, rest |-> <<>>]
Reads(v, toks) == [val |-> v, ok |-> TRUE, rest |-> toks]
Starts(toks, t) == toks # <<>> /\ Head(toks)[1] = t

\* Skip leaves out n elements of whatever type.
RECURSIVE Skip(_, _)
Skip(n, toks) ==
    IF n = 0 THEN Reads(0, toks)
    ELSE IF toks = <<>> THEN Fails(0)
    ELSE LET t == Head(toks)
             inside == CASE t[1] = "map" -> 2 * t[2] [] t[1] = "array" -> t[2] [] OTHER -> 0
         IN  Skip(n - 1 + inside, Tail(toks))

\* nil in the message makes the pointer nil, otherwise it is used if it is not nil.
\* (Fault: nil in the message leaves the pointer as it is.)
NilKept(old, toks) == Reads(old, Tail(toks))
NilRead(old, toks) == Reads(<<>>, Tail(toks))

RECURSIVE DecodeMsg(_, _, _), DecodeElems(_, _, _, _), DecodeFields(_, _, _, _)
DecodeMsg(S, toks, old) ==
    CASE S.k = "leaf" ->
             IF Starts(toks, S.type) THEN Reads(ReadLeaf(S.type, old, Head(toks)[2]), Tail(toks)) ELSE Fails(old)
      [] S.k = "ptr" ->
             IF Starts(toks, "nil") THEN NilRead(old, toks)
             ELSE LET r == DecodeMsg(S.of, toks, IF old = <<>> THEN Zero(S.of) ELSE old[1])
                  IN  [r EXCEPT !.val = <<r.val>>]
      [] S.k = "slice" ->
             IF ~Starts(toks, "array") THEN Fails(old)
             ELSE LET n == Head(toks)[2]
                      made == [i \in 1 .. n |-> IF i \in DOMAIN old THEN old[i] ELSE Zero(S.of)]
                  IN  DecodeElems(S, 1, Tail(toks), made)
      [] S.k = "struct" ->
             IF Starts(toks, "map") THEN DecodeFields(S, Head(toks)[2], Tail(toks), old) ELSE Fails(old)

DecodeElems(S, i, toks, val) ==
    IF i > Len(val) THEN Reads(val, toks)
    ELSE LET r == DecodeMsg(S.of, toks, val[i])
             now == [val EXCEPT ![i] = r.val]
         IN  IF r.ok THEN DecodeElems(S, i + 1, r.rest, now) ELSE Fails(now)

\* Keys come in any order; one that is not known is skipped with its value.
DecodeFields(S, n, toks, val) ==
    IF n = 0 THEN Reads(val, toks)
    ELSE IF ~Starts(toks, "key") THEN Fails(val)
    ELSE LET f == Head(toks)[2]
             known == f \in Names(S)
             r == IF known THEN DecodeMsg(FieldType(S, f), Tail(toks), val[f]) ELSE Skip(1, Tail(toks))
             now == IF known THEN [val EXCEPT ![f] = r.val] ELSE val
         IN  IF r.ok THEN DecodeFields(S, n - 1, r.rest, now) ELSE Fails(now)

-----------------------------------------------------------------------------
(* The values of a type that the runs use: one with everything set, and    *)
(* those that differ from the new object in one place.                     *)

RECURSIVE Full(_), Values(_)
Full(S) ==
    CASE S.k = "leaf" -> IF S.type = "ip" THEN 41 ELSE 1
      [] S.k = "ptr" -> <<Full(S.of)>>
      [] S.k = "slice" -> <<Full(S.of), Full(S.of)>>
      [] S.k = "struct" -> [f \in Names(S) |-> Full(FieldType(S, f))]
Values(S) ==
    CASE S.k = "leaf" -> LeafValues(S.type)
      [] S.k = "ptr" -> {<<>>} \union {<<v>> : v \in Values(S.of)}
      [] S.k = "slice" -> {<<>>, <<Full(S.of), Zero(S.of)>>} \union {<<v>> : v \in Values(S.of)}
      [] S.k = "struct" -> {Zero(S), Full(S)} \union
                           UNION {{[Zero(S) EXCEPT ![f] = v] : v \in Values(FieldType(S, f))} : f \in Names(S)}

-----------------------------------------------------------------------------
(* The types, each as its description.                                     *)

Uint16 == Leaf("uint16")
Uint32 == Leaf("uint32")
Uint64 == Leaf("uint64")
Bool == Leaf("bool")
Str == Leaf("string")
Bin == Leaf("bytes")
Exact == Leaf("exact")    \* ReadExactBytes, of the length of the array
Ext == Leaf("ext")        \* an extension: NodeID, Hash
IPExt == Leaf("ip")       \* the extension IP

(* common/types *)
AddressT == Exact
BloomT == Exact
HashT == Exact
HashsT == Struct(<<<<"Hashs", Slice(Ptr(HashT))>>>>)
BigIntT == Struct(<<<<"bigint", Leaf("big")>>>>)
IPT == Struct(<<<<"ip", Bin>>>>)

(* core/transaction *)
ActionT == Struct(<<<<"Address", Ptr(AddressT)>>, <<"Params", Bin>>>>)
ActionSliceT == Slice(ActionT)
TxdataT == Struct(<<<<"AccountNonce", Uint64>>, <<"Actions", ActionSliceT>>,
                    <<"V", Ptr(BigIntT)>>, <<"R", Ptr(BigIntT)>>, <<"S", Ptr(BigIntT)>>>>)
TransactionT == Struct(<<<<"Data", TxdataT>>>>)
TransactionForProducingT == Struct(<<>>)
TransactionsT == Slice(Ptr(TransactionT))
TransactionsByPriorityAndNonceT == Struct(<<>>)
TxByNonceT == Slice(Ptr(TransactionT))
TxByPriorityT == Slice(Ptr(TransactionT))
LogT == Struct(<<<<"Address", AddressT>>, <<"Topics", Slice(HashT)>>, <<"Data", Slice(Bin)>>,
                 <<"BlockNumber", Uint64>>, <<"TxHash", HashT>>, <<"TxIndex", Uint64>>,
                 <<"BlockHash", HashT>>, <<"Index", Uint64>>>>)
LogProtocolT == Struct(<<<<"Address", AddressT>>, <<"Topics", Slice(HashT)>>, <<"Data", Slice(Bin)>>>>)
ReceiptT == Struct(<<<<"Status", Uint64>>, <<"Bloom", BloomT>>, <<"Logs", Slice(Ptr(LogT))>>,
                     <<"TxHash", HashT>>, <<"ContractAddress", AddressT>>>>)
ReceiptProtocolT == Struct(<<<<"Status", Uint64>>, <<"Bloom", BloomT>>, <<"Logs", Slice(Ptr(LogProtocolT))>>>>)
ReceiptProtocolsT == Slice(Ptr(ReceiptProtocolT))
ReceiptsT == Slice(Ptr(ReceiptT))
Receipts_sT == Struct(<<<<"Receipts_s", Slice(ReceiptProtocolsT)>>>>)

(* core/blockchain, core/state *)
ConsensusDataT == Struct(<<<<"Id", Str>>, <<"Para", Bin>>>>)
NoSigFields == <<<<"ParentHash", HashT>>, <<"StateRootHash", HashT>>, <<"TxRootHash", HashT>>,
                 <<"ReceiptRootHash", HashT>>, <<"Bloom", BloomT>>, <<"Number", Ptr(BigIntT)>>,
                 <<"Time", Ptr(BigIntT)>>, <<"ConsensusData", ConsensusDataT>>>>
HeaderNoSigT == Struct(NoSigFields)
HeaderT == Struct(NoSigFields \o <<<<"V", Ptr(BigIntT)>>, <<"R", Ptr(BigIntT)>>, <<"S", Ptr(BigIntT)>>>>)
HeadersT == Struct(<<<<"Headers", Slice(Ptr(HeaderT))>>>>)
BodyT == Struct(<<<<"Transactions", Slice(Ptr(TransactionT))>>>>)
BlockT == Struct(<<<<"B_header", Ptr(HeaderT)>>, <<"B_body", BodyT>>>>)
BlocksT == Slice(Ptr(BlockT))
TxLookupEntryT == Struct(<<<<"BlockHash", HashT>>, <<"BlockIndex", Uint64>>, <<"Index", Uint64>>>>)
AccountT == Struct(<<<<"Nonce", Uint64>>, <<"Root", HashT>>, <<"CodeHash", Bin>>>>)
CodeT == Bin

(* node/services/mjoy *)
MetaT == Struct(<<<<"BlockHash", HashT>>, <<"BlockIndex", Uint64>>, <<"Index", Uint64>>>>)
BlockBodiesDataT == Struct(<<<<"Bodys", Slice(Ptr(BodyT))>>>>)
HashOrNumberT == Struct(<<<<"Hash", HashT>>, <<"Number", Uint64>>>>)
GetBlockHeadersDataT == Struct(<<<<"Origin", HashOrNumberT>>, <<"Amount", Uint64>>, <<"Skip", Uint64>>,
                                 <<"Reverse", Bool>>>>)
NewBlockDataT == Struct(<<<<"Block", Ptr(BlockT)>>, <<"Number", Ptr(BigIntT)>>>>)
NewBlockHashesDataT == Slice(Struct(<<<<"Hash", HashT>>, <<"Number", Uint64>>>>))
NodeDataT == Struct(<<<<"Nodes", Slice(Bin)>>>>)
StatusDataT == Struct(<<<<"ProtocolVersion", Uint32>>, <<"NetworkId", Uint64>>, <<"Number", Ptr(BigIntT)>>,
                        <<"CurrentBlock", HashT>>, <<"GenesisBlock", HashT>>>>)

(* communication/p2p *)
AuthMsgV4T == Struct(<<<<"Signature", Exact>>, <<"InitiatorPubkey", Exact>>, <<"Nonce", Exact>>, <<"Version", Uint64>>>>)
AuthRespV4T == Struct(<<<<"RandomPubkey", Exact>>, <<"Nonce", Exact>>, <<"Version", Uint64>>>>)
DiscReasonT == Uint64
CapT == Struct(<<<<"Name", Str>>, <<"Version", Uint64>>>>)
ProtocolT == Struct(<<<<"Name", Str>>, <<"Version", Uint64>>, <<"Length", Uint64>>>>)
DiscoverNodeIDT == Exact
ProtoHandshakeT == Struct(<<<<"Version", Uint64>>, <<"Name", Str>>, <<"Caps", Slice(CapT)>>,
                            <<"ListenPort", Uint64>>, <<"ID", DiscoverNodeIDT>>>>)

(* communication/p2p/discover *)
DiscoverNodeT == Struct(<<<<"IP", IPExt>>, <<"UDP", Uint16>>, <<"TCP", Uint16>>, <<"ID", Ext>>, <<"Sha", Ext>>,
                          <<"Contested", Bool>>>>)
DiscoverRpcEndpointT == Struct(<<<<"IP", IPExt>>, <<"UDP", Uint16>>, <<"TCP", Uint16>>>>)
DiscoverRpcNodeT == Struct(<<<<"IP", IPExt>>, <<"UDP", Uint16>>, <<"TCP", Uint16>>, <<"ID", Ext>>>>)
DiscoverPingT == Struct(<<<<"Version", Uint64>>, <<"From", DiscoverRpcEndpointT>>, <<"To", DiscoverRpcEndpointT>>,
                          <<"Expiration", Uint64>>>>)
DiscoverPongT == Struct(<<<<"To", DiscoverRpcEndpointT>>, <<"ReplyTok", Bin>>, <<"Expiration", Uint64>>>>)
DiscoverFindnodeT == Struct(<<<<"Target", Ext>>, <<"Expiration", Uint64>>>>)
DiscoverNeighborsT == Struct(<<<<"Nodes", Slice(DiscoverRpcNodeT)>>, <<"Expiration", Uint64>>>>)

(* communication/p2p/discv5 *)
TopicT == Str
NodeIDT == Exact
NodeT == Struct(<<<<"IP", IPT>>, <<"UDP", Uint16>>, <<"TCP", Uint16>>, <<"ID", Exact>>>>)
RpcEndpointT == Struct(<<<<"IP", IPT>>, <<"UDP", Uint16>>, <<"TCP", Uint16>>>>)
RpcNodeT == Struct(<<<<"IP", IPT>>, <<"UDP", Uint16>>, <<"TCP", Uint16>>, <<"ID", NodeIDT>>>>)
PingT == Struct(<<<<"Version", Uint64>>, <<"From", RpcEndpointT>>, <<"To", RpcEndpointT>>, <<"Expiration", Uint64>>,
                  <<"Topics", Slice(TopicT)>>, <<"Rest", Bin>>>>)
PongT == Struct(<<<<"To", RpcEndpointT>>, <<"ReplyTok", Bin>>, <<"Expiration", Uint64>>, <<"TopicHash", HashT>>,
                  <<"TicketSerial", Uint32>>, <<"WaitPeriods", Slice(Uint32)>>, <<"Rest", Bin>>>>)
FindnodeT == Struct(<<<<"Target", NodeIDT>>, <<"Expiration", Uint64>>, <<"Rest", Bin>>>>)
FindnodeHashT == Struct(<<<<"Target", HashT>>, <<"Expiration", Uint64>>, <<"Rest", Bin>>>>)
NeighborsT == Struct(<<<<"Nodes", Slice(RpcNodeT)>>, <<"Expiration", Uint64>>, <<"Rest", Bin>>>>)
TopicRegisterT == Struct(<<<<"Topics", Slice(TopicT)>>, <<"Idx", Uint64>>, <<"Pong", Bin>>>>)
TopicQueryT == Struct(<<<<"Topic", TopicT>>, <<"Expiration", Uint64>>>>)
TopicNodesT == Struct(<<<<"Echo", HashT>>, <<"Nodes", Slice(RpcNodeT)>>>>)

WireTypes ==
    {AddressT, BloomT, HashT, HashsT, BigIntT, IPT, ActionT, ActionSliceT, TxdataT, TransactionT,
     TransactionForProducingT, TransactionsT, TransactionsByPriorityAndNonceT, TxByNonceT, TxByPriorityT, LogT,
     LogProtocolT, ReceiptT, ReceiptProtocolT, ReceiptProtocolsT, ReceiptsT, Receipts_sT, ConsensusDataT, HeaderNoSigT,
     HeaderT, HeadersT, BodyT, BlockT, BlocksT, TxLookupEntryT, AccountT, CodeT, MetaT, BlockBodiesDataT,
     HashOrNumberT, GetBlockHeadersDataT, NewBlockDataT, NewBlockHashesDataT, NodeDataT, StatusDataT, AuthMsgV4T,
     AuthRespV4T, DiscReasonT, CapT, ProtocolT, DiscoverNodeIDT, ProtoHandshakeT, DiscoverNodeT,
     DiscoverRpcEndpointT, DiscoverRpcNodeT, DiscoverPingT, DiscoverPongT, DiscoverFindnodeT, DiscoverNeighborsT, TopicT,
     NodeIDT, NodeT, RpcEndpointT, RpcNodeT, PingT, PongT, FindnodeT, FindnodeHashT, NeighborsT, TopicRegisterT,
     TopicQueryT, TopicNodesT}

-----------------------------------------------------------------------------
(* An object is encoded, the message may lose its end, or come from a peer *)
(* whose type has one field less or one more, and it is decoded into a new *)
(* object, or into one that has been decoded into before.                  *)

VARIABLE codec

codecVars == <<codec>>

CodecInit == codec = [at |-> "idle", T |-> HashT, obj |-> 0, sent |-> 0, wire |-> <<>>, change |-> "none",
                      lost |-> 0, ok |-> TRUE, used |-> FALSE]

CodecNew(T) ==
    /\ codec.at = "idle"
    /\ \E used \in BOOLEAN :
           codec' = [codec EXCEPT !.at = "made", !.T = T, !.used = used,
                                  !.obj = IF used THEN DecodeMsg(T, EncodeMsg(T, Full(T)), Zero(T)).val ELSE Zero(T)]

CodecEncode ==
    /\ codec.at = "made"
    /\ \E v \in Values(codec.T) :
           codec' = [codec EXCEPT !.at = "sent", !.sent = v, !.wire = EncodeMsg(codec.T, v)]

\* The stream ends early.
CodecCut ==
    /\ codec.at = "sent" /\ codec.change = "none"
    /\ \E n \in 0 .. Len(codec.wire) - 1 :
           codec' = [codec EXCEPT !.wire = SubSeq(@, 1, n), !.change = "cut"]

\* The peer knows a field more.
CodecExtra ==
    /\ codec.at = "sent" /\ codec.change = "none" /\ codec.T.k = "struct"
    /\ \E extra \in {<<<<"bytes", 1>>>>, <<<<"map", 1>>, <<"key", "x">>, <<"array", 1>>, NilToken>>} :
           codec' = [codec EXCEPT !.wire = <<<<"map", Head(@)[2] + 1>>, <<"key", "extra">>>> \o extra \o Tail(@),
                                  !.change = "extra"]

\* The peer knows a field less: the last one.
CodecLess ==
    /\ codec.at = "sent" /\ codec.change = "none" /\ codec.T.k = "struct" /\ codec.T.fields # <<>>
    /\ LET fs == codec.T.fields
           f == Last(fs)
       IN  codec' = [codec EXCEPT !.wire = EncodeMsg(Struct(Front(fs)), codec.sent), !.change = "less",
                                  !.lost = codec.obj[f[1]]]

CodecDecode ==
    /\ codec.at = "sent"
    /\ LET r == DecodeMsg(codec.T, codec.wire, codec.obj)
       IN  codec' = [codec EXCEPT !.at = "decoded", !.obj = r.val, !.ok = r.ok, !.wire = r.rest]

CodecNext == (\E T \in WireTypes : CodecNew(T)) \/ CodecEncode \/ CodecCut \/ CodecExtra \/ CodecLess \/ CodecDecode

\* An address of version 4 in an extension that has been decoded into before
\* stays what it was.
RECURSIVE HasIP(_)
HasIP(S) ==
    CASE S.k = "leaf" -> S.type = "ip"
      [] S.k \in {"ptr", "slice"} -> HasIP(S.of)
      [] S.k = "struct" -> \E i \in DOMAIN S.fields : HasIP(S.fields[i][2])

\* What was encoded is what is decoded, for every type with generated code: a
\* message that lost its end is an error, one with an unknown field is read as
\* if it had not, a missing field leaves what there was, and whatever was in
\* the object before makes no difference, except for the extension IP.
CodecExact ==
    codec.at = "decoded" =>
        /\ codec.ok = (codec.change # "cut")
        /\ codec.ok /\ ~(codec.used /\ HasIP(codec.T)) =>
               /\ codec.wire = <<>>
               /\ codec.obj = IF codec.change = "less" THEN [codec.sent EXCEPT ![Last(codec.T.fields)[1]] = codec.lost]
                              ELSE codec.sent

\* "UnmarshalBinary copies the value of 'b' into the ... object": what was
\* encoded is what is decoded, used object or not.  It does not hold:
\* IP.UnmarshalBinary tests the address the object has, not the bytes it was
\* given.  Every caller decodes into a new object.
UnmarshalCopies == codec.at = "decoded" /\ codec.change = "none" => codec.obj = codec.sent
=============================================================================
