------------------------------- MODULE MCCore -------------------------------
(***************************************************************************)
(* The data structures and algorithms of the node, one per behaviour:      *)
(* `part' names the one that runs; the others stay as they are at the      *)
(* start.                                                                  *)
(***************************************************************************)
EXTENDS WireTypes, MCExecution, Fetcher, ChainIndexer, LogSearch, HeaderQuery, ProtoMatch, Lookup,
        PatriciaTrie, TxPriorityList, KadTable

VARIABLE part

coreVars == <<codecVars, sdbVars, execVars, fetchVars, indexerVars, search, query, match, lookup, trieVars,
              vars, kadVars, part>>

CoreInit ==
    /\ part \in {"codec", "statedb", "execution", "fetcher", "indexer", "logs", "headers", "protocols",
                 "lookup", "trie", "heap", "table"}
    /\ CodecInit /\ SDBInit /\ ExecInit /\ FetchInit /\ IndexerInit /\ LogSearchInit /\ HeaderQueryInit
    /\ MatchInit /\ LookupInit /\ TrieInit /\ Init /\ KadInit

Rests(p, v) == IF part = p THEN TRUE ELSE UNCHANGED v

CoreNext ==
    /\ UNCHANGED part
    /\ Rests("codec", codecVars) /\ Rests("statedb", sdbVars) /\ Rests("execution", execVars)
    /\ Rests("fetcher", fetchVars) /\ Rests("indexer", indexerVars) /\ Rests("logs", search)
    /\ Rests("headers", query) /\ Rests("protocols", match) /\ Rests("lookup", lookup)
    /\ Rests("trie", trieVars) /\ Rests("heap", vars) /\ Rests("table", kadVars)
    /\ \/ part = "codec" /\ CodecNext
       \/ part = "statedb" /\ SDBNext
       \/ part = "execution" /\ ExecNext
       \/ part = "fetcher" /\ FetchNext
       \/ part = "indexer" /\ IndexerNext
       \/ part = "logs" /\ LogSearchNext
       \/ part = "headers" /\ HeaderQueryNext
       \/ part = "protocols" /\ MatchNext
       \/ part = "lookup" /\ LookupNext
       \/ part = "trie" /\ TrieNext
       \/ part = "heap" /\ Next
       \/ part = "table" /\ KadNext

CoreSpec == CoreInit /\ [][CoreNext]_coreVars

\* TrieExact of the behaviours in which the trie runs: contents, root hash,
\* iterator and proofs are those of the pairs that were put into it.
TrieHolds == part = "trie" => TrieExact

\* ProtosAgree of the behaviours in which protocols are matched: both ends
\* give every message code to the same protocol.
CodesAgree == part = "protocols" => ProtosAgree

-----------------------------------------------------------------------------
(* Two blocks on top of each other to be fetched.                          *)
NumberDef == [b \in Blocks |-> IF b = "h1" THEN 1 ELSE 2]
ParentBlockDef == [b \in Blocks |-> IF b = "h1" THEN "root" ELSE "h1"]

(* Five blocks with logs, in two sections and a half, and what is asked.   *)
LogOf(a, topics) == [address |-> a, topics |-> topics]
LogsDef == << <<>>, <<LogOf("a", <<"t", "u">>), LogOf("b", <<"u">>)>>, <<LogOf("b", <<"t">>)>>,
              <<LogOf("a", <<>>)>>, <<LogOf("a", <<"u", "t">>)>> >>
BitsDef == [a |-> {1, 2}, b |-> {2, 3}, t |-> {1, 3}, u |-> {4}]
CritDef == {[addresses |-> {}, topics |-> <<>>], [addresses |-> {"a"}, topics |-> <<>>],
            [addresses |-> {"a", "b"}, topics |-> <<{}, {"t"}>>], [addresses |-> {}, topics |-> <<{"u"}>>],
            [addresses |-> {"b"}, topics |-> <<{"t", "u"}>>]}

(* A chain of five headers with a side chain of two.                       *)
ParentDef == [h \in {"g", "c1", "c2", "c3", "c4", "s2", "s3"} |->
    CASE h = "g" -> "zero" [] h = "c1" -> "g" [] h \in {"c2", "s2"} -> "c1" [] h = "c3" -> "c2"
      [] h = "c4" -> "c3" [] h = "s3" -> "s2"]
StoredNumberDef == [h \in {"g", "c1", "c2", "c3", "c4", "s2", "s3"} |->
    CASE h = "g" -> 0 [] h = "c1" -> 1 [] h \in {"c2", "s2"} -> 2 [] h \in {"c3", "s3"} -> 3 [] h = "c4" -> 4]
CanonDef == <<"g", "c1", "c2", "c3", "c4">>

(* Three protocols, two of them versions of one.                           *)
Protocol(name, version) == [name |-> name, version |-> version]
KindsDef == {Protocol(1, 1), Protocol(1, 2), Protocol(2, 1)}
LengthDef == [p \in KindsDef |-> IF p.name = 1 THEN p.version + 1 ELSE 2]

(* Six nodes that know of each other; one never answers a ping.            *)
DistDef == [n0 |-> 9, n1 |-> 6, n2 |-> 5, n3 |-> 4, n4 |-> 3, n5 |-> 2]
TablesDef == {{}, {"n1"}, {"n1", "n2"}, {"n1", "n2", "n3"}}
KnownDef == [n0 |-> {}, n1 |-> {"n0", "n2", "n3"}, n2 |-> {"n3", "n4", "n0"}, n3 |-> {"n1", "n5", "n4"},
             n4 |-> {"n5"}, n5 |-> {"n4", "n3", "n2"}]
NotRelayedDef == [n \in LookNodes |-> IF n = "n5" THEN {"n2"} ELSE {}]

(* Keys of which one is a prefix of another's path.                        *)
KeysDef == {<<0>>, <<1>>, <<0, 3>>}
ValuesDef == [k \in KeysDef |-> CASE k = <<0>> -> {"s", "L"} [] k = <<1>> -> {"L"} [] OTHER -> {"s"}]

(* Four transactions, one of a local account.                              *)
PrioDef == [p |-> 1, l |-> 1, q |-> 2, r |-> 3]
MinStalesDef == -1

(* A full bucket of two, and nodes that want to get in.                    *)
BucketDef == [n \in KadNodes |-> IF n = KadSelf THEN 0 ELSE 1]
EntriesDef == [b \in 0 .. 1 |->
    IF b = 0 THEN <<>> ELSE <<[id |-> "n1", obj |-> "o1"], [id |-> "n2", obj |-> "o2"]>>]
=============================================================================
