------------------------------ MODULE MCTxPool ------------------------------
EXTENDS TxPool

\* Transactions are named by account, nonce and priority.
MCTxs == {"a0", "a0p", "a1", "a2", "b0"}
MCFrom == [t \in MCTxs |-> IF t = "b0" THEN "b" ELSE "a"]
MCNonce == [t \in MCTxs |-> CASE t \in {"a0", "a0p", "b0"} -> 0
                              [] t = "a1" -> 1
                              [] t = "a2" -> 2]
MCHeadNonces == {[a |-> n, b |-> 0] : n \in 0..3}
MCPrio == [t \in MCTxs |-> IF t \in {"a0p", "b0"} THEN 2 ELSE 1]

\* Four lists of lengths up to four, one of them local.
Loops == INSTANCE Equalise WITH Lists <- 1..4, LocalLists <- {4}, MaxLen <- 4, MinLen <- 2, Limit <- 5

LoopsExact == Loops!ClosedForm

\* When promoteExecutables runs, its equalisation loops compute the common length
\* that TxPool uses (EqualLength): for all pending lists it can have, with the
\* accounts that are local by then, and for all lengths of four lists and all
\* orders of equally long ones.
Lengths(S) == [a \in Accounts |-> Cardinality(Of(S, a))]
PendingLists == {S \in SUBSET Txs : \A t, u \in S : From[t] = From[u] /\ Nonce[t] = Nonce[u] => t = u}
PoolLoops == INSTANCE Equalise WITH Lists <- Accounts, LocalLists <- locals,
                                    MaxLen <- 3, MinLen <- AccountSlots, Limit <- GlobalSlots
EqualiseClosedForm ==
  stage = "promoting" =>
    /\ LoopsExact
    /\ \A S \in PendingLists : \A s \in PoolLoops!EndsFor(Lengths(S)) : s.lens = Lengths(S \ Equalised(S))
=============================================================================
