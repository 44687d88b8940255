----------------------------- MODULE ProtoMatch -----------------------------
(***************************************************************************)
(* How two connected nodes lay out the message codes of the protocols they *)
(* share: matchProtocols, countMatchingProtocols and getProto of           *)
(* communication/p2p/peer.go, run at both ends on what the other announced *)
(* in its handshake.  A protocol is [name, version]; its name is a number  *)
(* in the order of the names.                                              *)
(***************************************************************************)
EXTENDS Naturals, Sequences, FiniteSets, SequencesExt

CONSTANTS ProtoKinds,        \* the protocols a node may be configured with
          ProtoLength,       \* protocol -> number of its message codes
          baseProtocolLength

VARIABLE match   \* the Protocols of the two nodes, "a" and "b", in any order

MatchInit == match = [a |-> <<>>, b |-> <<>>]
MatchNext ==
    \E n \in {"a", "b"}, p \in ProtoKinds :
        /\ p \notin ToSet(match[n])
        /\ match' = [match EXCEPT ![n] = Append(@, p)]
MatchSpec == MatchInit /\ [][MatchNext]_match

\* capsByNameAndVersion.Less, and the sort
CapLess(c, d) == c.name < d.name \/ (c.name = d.name /\ c.version < d.version)
CapsAsGiven(caps) == caps
SortedCaps(caps) == SortSeq(caps, CapLess)

countMatchingProtocols(protocols, caps) ==
    Cardinality({<<i, j>> \in (DOMAIN caps) \X (DOMAIN protocols) : caps[i] = protocols[j]})

\* result: name -> [proto, offset]; a later version replaces an earlier one.
matchProtocols(protocols, caps) ==
    LET Match(m, cap) ==
            IF cap \notin ToSet(protocols) THEN m
            ELSE LET known == cap.name \in DOMAIN m.result
                     from == IF known THEN m.offset - ProtoLength[m.result[cap.name].proto]
                             ELSE m.offset
                 IN [result |-> [n \in DOMAIN m.result \cup {cap.name} |->
                                    IF n = cap.name THEN [proto |-> cap, offset |-> from]
                                    ELSE m.result[n]],
                     offset |-> from + ProtoLength[cap]]
    IN FoldLeft(Match, [result |-> <<>>, offset |-> baseProtocolLength], SortedCaps(caps)).result

\* The protocols that would take a message of this code.
getProto(running, code) ==
    {n \in DOMAIN running : /\ code >= running[n].offset
                            /\ code < running[n].offset + ProtoLength[running[n].proto]}

AtA == matchProtocols(match.a, match.b)
AtB == matchProtocols(match.b, match.a)
MaxCode == baseProtocolLength + FoldLeft(LAMBDA n, p : n + ProtoLength[p], 0, SetToSeq(ProtoKinds))

(* Both ends give every shared protocol the same version and the same      *)
(* range of codes, in whatever order each lists its protocols (peer.go     *)
(* 313-335), so that a message reaches the protocol that sent it: a code   *)
(* belongs to one protocol at most and to none below baseProtocolLength    *)
(* (365-372).  A peer is useless (server.go 620) just when they share none.*)
ProtosAgree ==
    /\ AtA = AtB
    /\ \A code \in 0..MaxCode :
        Cardinality(getProto(AtA, code)) <= IF code < baseProtocolLength THEN 0 ELSE 1
    /\ (countMatchingProtocols(match.a, match.b) = 0) <=> (DOMAIN AtA = {})
    /\ \A n \in DOMAIN AtA : \A p \in ToSet(match.a) \cap ToSet(match.b) :
        p.name = n => p.version <= AtA[n].proto.version
============================================================================
