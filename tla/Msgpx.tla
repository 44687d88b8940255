------------------------------- MODULE Msgpx -------------------------------
(***************************************************************************)
(* A connection of the msgpx transport (communication/p2p/msgpx.go), both  *)
(* of its ends: the encryption handshake, the checkpoint after it, the     *)
(* protocol handshake, the checkpoint after that, the frames concurrent    *)
(* goroutines write under wmu, and close, from whatever phase.             *)
(*                                                                         *)
(* Cryptography is symbolic: a private key is a name, a shared secret the  *)
(* set of the two keys it comes from, a signature the pair of what is      *)
(* signed and the key, a MAC the record of everything it has absorbed, and *)
(* the state of a stream cipher the number of bytes it has processed.  A   *)
(* connection delivers bytes in order; a write that fails puts nothing of  *)
(* its chunk on the wire.                                                  *)
(***************************************************************************)
EXTENDS Naturals, Sequences, SequencesExt, FiniteSets

CONSTANTS MsgSize,    \* message -> size of its payload
          Outgoing,   \* end -> goroutine that writes -> the message it sends
          FrameBlock, \* the cipher's block, 16 bytes
          maxUint24,  \* the largest frame
          MaxFails    \* bound: writes that fail

VARIABLES pxEnd,   \* end -> phase, handshake state, keys, stream and MAC states
          pxWire,  \* end -> what it has written and the other has not read
          pxWrite, \* end -> writer -> its place in WriteMsg; and who holds wmu
          pxLog    \* end -> messages sent, messages read; the failed writes

pxVars == <<pxEnd, pxWire, pxWrite, pxLog>>

Ends == {"init", "recv"}
Other(e) == IF e = "init" THEN "recv" ELSE "init"
PxWriters(e) == {"hello", "close"} \cup DOMAIN Outgoing[e]

\* Every message but the two of the base protocol is an Outgoing one.
Message(e, w) ==
    CASE w = "hello" -> "handshake" [] w = "close" -> "disc" [] OTHER -> Outgoing[e][w]

PxInit ==
    /\ pxEnd = [e \in Ends |-> [at |-> "start", keys |-> <<>>, snappy |-> FALSE, wmu |-> "",
                                helloRead |-> FALSE, read |-> "head", frame |-> <<>>]]
    /\ pxWire = [e \in Ends |-> <<>>]
    /\ pxWrite = [e \in Ends |-> [w \in PxWriters(e) |-> "idle"]]
    /\ pxLog = [e \in Ends |-> [sent |-> <<>>, read |-> <<>>, fails |-> 0]]

----------------------------------------------------------------------------
(* The encryption handshake.                                               *)

Static(e) == <<"static", e>>
Random(e) == <<"random", e>>
Nonce(e) == <<"nonce", e>>
GenerateShared(own, theirs) == {own, theirs}

\* makeAuthMsg: the static shared secret, xored with the nonce, is signed
\* with the random key.
AuthMsg ==
    [signature |-> [of |-> <<GenerateShared(Static("init"), Static("recv")), Nonce("init")>>,
                    by |-> Random("init")],
     pubkey |-> Static("init"), nonce |-> Nonce("init")]

\* handleAuthMsg recovers the random public key from the signature.
RecoverPubkey(signed, signature) == IF signature.of = signed THEN signature.by ELSE <<"random", "none">>
InitiatorRandom(auth) ==
    RecoverPubkey(<<GenerateShared(Static("recv"), auth.pubkey), auth.nonce>>, auth.signature)

AuthResp == [random |-> Random("recv"), nonce |-> Nonce("recv")]

\* secrets: one key for both directions, and a MAC per direction.
Secrets(e, own, remote, initNonce, respNonce, auth, resp) ==
    LET key == <<GenerateShared(own, remote), respNonce, initNonce>>
        mac1 == [key |-> key, nonce |-> respNonce, packet |-> auth, log |-> <<>>]
        mac2 == [key |-> key, nonce |-> initNonce, packet |-> resp, log |-> <<>>]
    IN [aes |-> key, encPos |-> 0, decPos |-> 0,
        egress |-> IF e = "init" THEN mac1 ELSE mac2,
        ingress |-> IF e = "init" THEN mac2 ELSE mac1]

SendAuth ==
    /\ pxEnd["init"].at = "start"
    /\ pxEnd' = [pxEnd EXCEPT !["init"].at = "auth"]
    /\ pxWire' = [pxWire EXCEPT !["init"] = <<AuthMsg>>]
    /\ UNCHANGED <<pxWrite, pxLog>>

receiverEncHandshake ==
    /\ pxEnd["recv"].at = "start" /\ pxWire["init"] # <<>>
    /\ LET auth == Head(pxWire["init"]) IN
       pxEnd' = [pxEnd EXCEPT
           !["recv"].at = "keyed",
           !["recv"].keys = Secrets("recv", Random("recv"), InitiatorRandom(auth), auth.nonce,
                                    Nonce("recv"), auth, AuthResp)]
    /\ pxWire' = [pxWire EXCEPT !["init"] = Tail(@), !["recv"] = Append(@, AuthResp)]
    /\ UNCHANGED <<pxWrite, pxLog>>

initiatorEncHandshake ==
    /\ pxEnd["init"].at = "auth" /\ pxWire["recv"] # <<>>
    /\ LET resp == Head(pxWire["recv"]) IN
       pxEnd' = [pxEnd EXCEPT
           !["init"].at = "keyed",
           !["init"].keys = Secrets("init", Random("init"), resp.random, Nonce("init"),
                                    resp.nonce, AuthMsg, resp)]
    /\ pxWire' = [pxWire EXCEPT !["recv"] = Tail(@)]
    /\ UNCHANGED <<pxWrite, pxLog>>

\* The checkpoint posthandshake lets the connection pass: doProtoHandshake
\* starts the writer of our own handshake.
HelloStart(e) ==
    /\ pxEnd[e].at = "keyed"
    /\ pxEnd' = [pxEnd EXCEPT ![e].at = "hello"]
    /\ pxWrite' = [pxWrite EXCEPT ![e]["hello"] = "head"]
    /\ UNCHANGED <<pxWire, pxLog>>

----------------------------------------------------------------------------
(* msgpxFrameRW.WriteMsg: a header with its MAC, the content, the frame    *)
(* MAC, each its own write.                                                *)

Absorb(mac, chunk) == [mac EXCEPT !.log = Append(@, chunk)]

\* The message code is one byte; snappy is taken to change the content only.
FrameSize(m) == 1 + MsgSize[m]
Padded(n) == n + (IF n % FrameBlock > 0 THEN FrameBlock - (n % FrameBlock) ELSE 0)
FrameContent(e, m) == [msg |-> m, snappy |-> pxEnd[e].snappy]

\* The chunk a writer is at.
Piece(e, w) ==
    LET m == Message(e, w) IN
    CASE pxWrite[e][w] = "head" -> [of |-> <<"head", FrameSize(m)>>, len |-> FrameBlock]
      [] pxWrite[e][w] = "body" -> [of |-> <<"body", FrameContent(e, m)>>, len |-> Padded(FrameSize(m))]
      [] pxWrite[e][w] = "mac"  -> [of |-> <<"mac">>, len |-> 0]

Emit(e, w) ==
    LET c == Piece(e, w)
        mac == Absorb(pxEnd[e].keys.egress, c.of) IN
    /\ pxEnd' = [pxEnd EXCEPT ![e].keys.egress = mac, ![e].keys.encPos = @ + c.len]
    /\ pxWire' = [pxWire EXCEPT ![e] = Append(@,
           [chunk |-> c.of, pos |-> pxEnd[e].keys.encPos, len |-> c.len, mac |-> mac])]

\* Which writers take wmu: all of WriteMsg and close; our handshake does not.
Lockless == {"hello"}

\* Protocols and pongs write while Peer.run has not hung up; close writes once,
\* after doProtoHandshake has waited for its writer.
MayWrite(e, w) ==
    IF w = "close"
    THEN pxEnd[e].at \in {"closing", "leaving", "refused"} /\ pxWrite[e]["hello"] \notin {"head", "body", "mac"}
    ELSE pxEnd[e].at \in {"up", "closing", "leaving"}

WriteLock(e, w) ==
    /\ w # "hello" /\ pxWrite[e][w] = "idle" /\ MayWrite(e, w)
    /\ w \notin Lockless => pxEnd[e].wmu = ""
    /\ pxEnd' = [pxEnd EXCEPT ![e].wmu = IF w \in Lockless THEN @ ELSE w]
    /\ pxWrite' = [pxWrite EXCEPT ![e][w] =
           IF FrameSize(Message(e, w)) > maxUint24 THEN "refused" ELSE "head"]
    /\ UNCHANGED <<pxWire, pxLog>>

WriteHead(e, w) ==
    /\ pxWrite[e][w] = "head"
    /\ Emit(e, w)
    /\ pxLog' = [pxLog EXCEPT ![e].sent = Append(@, Message(e, w))]
    /\ pxWrite' = [pxWrite EXCEPT ![e][w] = "body"]

WriteBody(e, w) ==
    /\ pxWrite[e][w] = "body"
    /\ Emit(e, w)
    /\ pxWrite' = [pxWrite EXCEPT ![e][w] = "mac"]
    /\ UNCHANGED pxLog

WriteMac(e, w) ==
    /\ pxWrite[e][w] = "mac"
    /\ Emit(e, w)
    /\ pxWrite' = [pxWrite EXCEPT ![e][w] = "done"]
    /\ UNCHANGED pxLog

\* A deadline or a network error: what was written before stays written.  The
\* cipher has advanced by then, and so has the MAC, which takes in a content
\* only after the connection has.
WriteFails(e, w) ==
    /\ pxWrite[e][w] \in {"head", "body", "mac"} /\ pxLog[e].fails + pxLog[Other(e)].fails < MaxFails
    /\ pxEnd' = [pxEnd EXCEPT ![e].keys.encPos = @ + Piece(e, w).len,
                              ![e].keys.egress = IF pxWrite[e][w] = "body" THEN @ ELSE Absorb(@, Piece(e, w).of)]
    /\ pxWrite' = [pxWrite EXCEPT ![e][w] = "failed"]
    /\ pxLog' = [pxLog EXCEPT ![e].fails = @ + 1]
    /\ UNCHANGED pxWire

\* The deferred unlock; close hangs up with it.
WriteUnlock(e, w) ==
    /\ pxWrite[e][w] \in {"done", "failed", "refused"} /\ w # "hello" /\ pxEnd[e].wmu \in {w, ""}
    /\ pxWrite' = [pxWrite EXCEPT ![e][w] = "returned"]
    /\ pxEnd' = [pxEnd EXCEPT ![e].wmu = "", ![e].at = IF w = "close" THEN "closed" ELSE @]
    /\ UNCHANGED <<pxWire, pxLog>>

----------------------------------------------------------------------------
(* msgpxFrameRW.ReadMsg, and what the two callers do with the message.     *)

Reading(e) == pxEnd[e].at \in {"hello", "up", "closing"} /\ ~(pxEnd[e].at = "hello" /\ pxEnd[e].helloRead)

\* What the reader's own state says the next chunk must be.
Genuine(e, c) ==
    /\ c.mac = Absorb(pxEnd[e].keys.ingress, c.chunk)
    /\ c.pos = pxEnd[e].keys.decPos
    /\ c.chunk[1] = pxEnd[e].read
    /\ pxEnd[e].read = "body" => c.len = Padded(pxEnd[e].frame[1])

\* "bad header MAC", "bad frame MAC": the connection is given up.
ReadBad(e) ==
    /\ Reading(e) /\ pxWire[Other(e)] # <<>> /\ ~Genuine(e, Head(pxWire[Other(e)]))
    /\ pxEnd' = [pxEnd EXCEPT ![e].at = "broken"]
    /\ UNCHANGED <<pxWire, pxWrite, pxLog>>

\* The header, and the content it announces.
ReadChunk(e) ==
    LET c == Head(pxWire[Other(e)]) IN
    /\ Reading(e) /\ pxWire[Other(e)] # <<>> /\ Genuine(e, c) /\ c.chunk[1] # "mac"
    /\ pxEnd' = [pxEnd EXCEPT ![e].keys.ingress = c.mac, ![e].keys.decPos = @ + c.len,
                              ![e].read = IF c.chunk[1] = "head" THEN "body" ELSE "mac",
                              ![e].frame = Append(@, c.chunk[2])]
    /\ pxWire' = [pxWire EXCEPT ![Other(e)] = Tail(@)]
    /\ UNCHANGED <<pxWrite, pxLog>>

\* The frame MAC is right: decode.  A message compressed differently from
\* what the reader expects cannot be decoded.
Decoded(e) ==
    LET content == pxEnd[e].frame[2] IN
    IF content.snappy = pxEnd[e].snappy THEN content.msg ELSE "garbage"

\* readProtocolHandshake wants a handshake first; a disc in its place, and one
\* that Peer.handle reads, is the reason close is called with, and so sent back.
ReadMsgDone(e) ==
    LET c == Head(pxWire[Other(e)])
        m == Decoded(e) IN
    /\ Reading(e) /\ pxWire[Other(e)] # <<>> /\ Genuine(e, c) /\ c.chunk[1] = "mac"
    /\ pxWire' = [pxWire EXCEPT ![Other(e)] = Tail(@)]
    /\ pxLog' = [pxLog EXCEPT ![e].read = Append(@, m)]
    /\ pxEnd' = [pxEnd EXCEPT ![e].keys.ingress = c.mac, ![e].read = "head", ![e].frame = <<>>,
                              ![e].helloRead = @ \/ m = "handshake",
                              ![e].at = CASE m = "disc" /\ @ = "hello" -> "refused"
                                          [] m = "disc" /\ @ # "hello" -> "leaving"
                                          [] m \notin {"disc", "handshake"} /\ @ = "hello" -> "broken"
                                          [] OTHER -> @]
    /\ UNCHANGED pxWrite

\* doProtoHandshake returns when the read and the write are both over, and
\* only then turns compression on.
HelloOverEarly(e) == pxEnd[e].helloRead
HelloOver(e) == pxEnd[e].helloRead /\ pxWrite[e]["hello"] = "done"

HelloDone(e) ==
    /\ pxEnd[e].at = "hello" /\ HelloOver(e)
    /\ pxEnd' = [pxEnd EXCEPT ![e].at = "shaken", ![e].snappy = TRUE]
    /\ UNCHANGED <<pxWire, pxWrite, pxLog>>

HelloFailed(e) ==
    /\ pxEnd[e].at = "hello" /\ pxWrite[e]["hello"] = "failed"
    /\ pxEnd' = [pxEnd EXCEPT ![e].at = "broken"]
    /\ UNCHANGED <<pxWire, pxWrite, pxLog>>

\* The checkpoint addpeer: runPeer starts, and with it the reader.
PeerAdded(e) ==
    /\ pxEnd[e].at = "shaken"
    /\ pxEnd' = [pxEnd EXCEPT ![e].at = "up"]
    /\ UNCHANGED <<pxWire, pxWrite, pxLog>>

\* SetupConn closes a connection that one of the checkpoints turns down, and
\* Peer.run one that is dropped, whose reader still reads: close says why.
PxClose(e) ==
    /\ pxEnd[e].at \in {"keyed", "shaken", "up"}
    /\ pxEnd' = [pxEnd EXCEPT ![e].at = IF @ = "up" THEN "closing" ELSE "refused"]
    /\ UNCHANGED <<pxWire, pxWrite, pxLog>>

PxNext ==
    \/ SendAuth \/ receiverEncHandshake \/ initiatorEncHandshake
    \/ \E e \in Ends :
        \/ HelloStart(e) \/ ReadBad(e) \/ ReadChunk(e) \/ ReadMsgDone(e)
        \/ HelloDone(e) \/ HelloFailed(e) \/ PeerAdded(e) \/ PxClose(e)
        \/ \E w \in PxWriters(e) :
            \/ WriteLock(e, w) \/ WriteHead(e, w) \/ WriteBody(e, w) \/ WriteMac(e, w)
            \/ WriteFails(e, w) \/ WriteUnlock(e, w)

PxSpec == PxInit /\ [][PxNext]_pxVars

----------------------------------------------------------------------------
(* What an end reads is what the other sent, in that order and from the    *)
(* first message on, however the goroutines that write interleave: they    *)
(* serialise on wmu (msgpx.go 105-123), and the two ends derive matching   *)
(* keys and MACs (243-272), pad alike (608, 639) and turn compression on   *)
(* at the same point of both streams (140-144), and a disc sent in place   *)
(* of a handshake is read as one (157-165).  A frame only fails its check  *)
(* when a write broke off half-way.                                        *)
SessionAgrees ==
    \A e \in Ends :
        /\ IsPrefix(pxLog[e].read, pxLog[Other(e)].sent)
        /\ pxEnd[e].at = "broken" => pxLog[e].fails + pxLog[Other(e)].fails > 0
============================================================================
