------------------------------- MODULE Lookup -------------------------------
(***************************************************************************)
(* A lookup of the discovery protocol: lookup and closest of               *)
(* p2p/discover/table.go, findnode and the handler of Findnode of udp.go.  *)
(* Up to alpha nodes are asked at a time for the nodes they know closest   *)
(* to a target, and answer in packets of maxNeighbors, any of which may be *)
(* lost; those that can be bonded with go into the result, the list of the *)
(* lookupSize closest nodes.                                               *)
(***************************************************************************)
EXTENDS Integers, Sequences, SequencesExt, FiniteSets, FiniteSetsExt

CONSTANTS
    LookNodes,       \* the nodes, ourself included
    LookSelf,
    DistTo,          \* per node its distance to the target, all different
    Tables,          \* the tables a lookup may start with
    Seeds,           \* what a refresh of an empty table leads to
    KnownBy,         \* per node the nodes in its table
    NotRelayed,      \* per node those whose address it may not relay
    Unbondable,      \* nodes that do not answer a ping
    lookupSize,      \* bucketSize
    alpha,
    maxNeighbors

VARIABLE lookup      \* the local variables of lookup, and the queries

-----------------------------------------------------------------------------
(* nodesByDistance. *)

\* sort.Search: the first entry that is farther than n
FirstFarther(entries, n) ==
    Min({i \in DOMAIN entries : DistTo[entries[i]] > DistTo[n]} \union {Len(entries) + 1})

\* push inserts before it; the last entry goes if there are too many.
push(entries, n) ==
    LET s == InsertAt(entries, FirstFarther(entries, n), n)
    IN  SubSeq(s, 1, Min({Len(s), lookupSize}))

pushAll(entries, S) == FoldLeft(push, entries, SetToSeq(S))
closest(S) == pushAll(<<>>, S)

-----------------------------------------------------------------------------
(* The handler of Findnode: chunks of maxNeighbors, the last one may be    *)
(* shorter.  A node that may not be relayed is skipped, and if it is the   *)
(* last one the chunk is not sent.                                         *)

Packets(m) ==
    LET cl == closest(KnownBy[m])
        Step(acc, i) ==
            IF cl[i] \in NotRelayed[m] THEN acc
            ELSE LET nodes == acc.nodes \union {cl[i]}
                 IN  IF Cardinality(nodes) = maxNeighbors \/ i = Len(cl)
                     THEN [sent |-> Append(acc.sent, nodes), nodes |-> {}]
                     ELSE [acc EXCEPT !.nodes = nodes]
    IN  FoldLeft(Step, [sent |-> <<>>, nodes |-> {}], [i \in DOMAIN cl |-> i]).sent

\* findnode returns what has arrived, whether or not it times out; bondall
\* keeps the nodes that answer.
Bondable(S) == S \ (Unbondable \union {LookSelf})
Received(m) == {Bondable(UNION {Packets(m)[i] : i \in I}) : I \in SUBSET DOMAIN Packets(m)}

-----------------------------------------------------------------------------
(* lookup. *)

\* A fault: only the alpha closest entries of the result are ever asked.
AskedNextFew(l) ==
    LET few == {l.result[i] : i \in 1 .. Min({alpha, Len(l.result)})}
    IN  few \ l.asked

\* Walking the result, the nodes to ask: as many as there are queries left.
AskedNext(l) ==
    LET todo == SelectSeq(l.result, LAMBDA n : n \notin l.asked)
        distinct == SelectSeq([i \in DOMAIN todo |-> [n |-> todo[i], i |-> i]],
                              LAMBDA e : \A j \in 1 .. e.i - 1 : todo[j] # e.n)
        room == alpha - Cardinality(l.queries) - Cardinality(l.replies)
    IN  {distinct[i].n : i \in 1 .. Min({room, Len(distinct)})}

Round(l) ==
    LET ask == AskedNext(l)
        m == [l EXCEPT !.asked = @ \union ask, !.queries = @ \union ask]
    IN  IF m.queries = {} /\ m.replies = {} THEN [m EXCEPT !.at = "done"] ELSE m

NoLookup == [at |-> "idle", result |-> <<>>, asked |-> {}, seen |-> {}, queries |-> {},
             replies |-> {}, heard |-> {}]

Begins(S) == Round([NoLookup EXCEPT !.at = "asking", !.result = closest(S), !.asked = {LookSelf},
                                    !.heard = S])

\* An empty table is refreshed once, if the caller wants that.
LookupBegin(S, refreshIfEmpty) ==
    /\ lookup.at = "idle"
    /\ lookup' = IF S = {} /\ refreshIfEmpty THEN [lookup EXCEPT !.at = "refresh"] ELSE Begins(S)

LookupRefreshed ==
    /\ lookup.at = "refresh"
    /\ \E S \in SUBSET Seeds : lookup' = Begins(S)

\* A query ends.
FindnodeEnds(m, nodes) ==
    /\ m \in lookup.queries
    /\ lookup' = [lookup EXCEPT !.queries = @ \ {m},
                                !.replies = @ \union {[from |-> m, nodes |-> nodes]}]

\* The next reply: what was not seen is pushed, and more nodes are asked.
TakeReply(r) ==
    /\ r \in lookup.replies
    /\ LET new == r.nodes \ lookup.seen
       IN  lookup' = Round([lookup EXCEPT !.replies = @ \ {r}, !.seen = @ \union new,
                                          !.result = pushAll(@, new), !.heard = @ \union new])

LookupNext ==
    \/ \E S \in Tables, refreshIfEmpty \in BOOLEAN : LookupBegin(S, refreshIfEmpty)
    \/ LookupRefreshed
    \/ \E m \in LookNodes : \E nodes \in Received(m) : FindnodeEnds(m, nodes)
    \/ \E r \in lookup.replies : TakeReply(r)

LookupInit == lookup = NoLookup

LookupSpec == LookupInit /\ [][LookupNext]_lookup

-----------------------------------------------------------------------------
\* The values the variables range over.
LookupTypeOK ==
    /\ lookup.at \in {"idle", "refresh", "asking", "done"}
    /\ lookup.asked \subseteq LookNodes /\ lookup.queries \subseteq LookNodes

\* When a lookup ends, whatever the order of the replies and whatever was
\* lost, its result is sorted, every node in it has been asked, and a node it
\* heard of is missing only if the result is full of closer ones; alpha
\* limits the queries at all times.
LookupClosest ==
    /\ LookupTypeOK
    /\ Cardinality(lookup.queries) + Cardinality(lookup.replies) <= alpha
    /\ lookup.at = "done" =>
          LET res == lookup.result
              In == {res[i] : i \in DOMAIN res}
          IN  /\ \A i \in 1 .. Len(res) - 1 : DistTo[res[i]] <= DistTo[res[i + 1]]
              /\ In \subseteq lookup.asked
              /\ \A n \in lookup.heard \ In :
                    Len(res) = lookupSize /\ \A m \in In : DistTo[m] < DistTo[n]

\* No node is in the result twice (table_test.go: "result set contains
\* duplicate entries" is an error).  It does not hold: the nodes a lookup takes
\* from the table at its start are not in seen, and are pushed again when a
\* reply names them.
LookupUnique ==
    lookup.at = "done" =>
        Cardinality({lookup.result[i] : i \in DOMAIN lookup.result}) = Len(lookup.result)
=============================================================================
