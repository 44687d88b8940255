---------------------------- MODULE MCBlockChain ----------------------------
(***************************************************************************)
(* Above genesis a branch a1-a2-a3 and a branch b1-b2-b3, blocks c2 on a1  *)
(* and c3 on b2 sealed locally, and a block x2 on b1 that fails            *)
(* validation.  t1 is in a1 and b2, t2 in a2 and c2, t3 in a3, b3 and c3.  *)
(* Behaviours are of the chain, with the producer's writes as BlockChain   *)
(* sees them, or of the production cycle: `part' says which.               *)
(***************************************************************************)
EXTENDS BlockChain, BlockProducer

MCBlocks == {"g", "a1", "a2", "a3", "b1", "b2", "b3", "c2", "c3", "x2"}
MCGenesis == "g"
MCParent == [b \in MCBlocks \ {"g"} |->
  CASE b \in {"a1", "b1"} -> "g" [] b \in {"a2", "c2"} -> "a1" [] b \in {"b2", "x2"} -> "b1"
    [] b = "a3" -> "a2" [] b \in {"b3", "c3"} -> "b2"]
MCNumber == [b \in MCBlocks |->
  CASE b = "g" -> 0 [] b \in {"a1", "b1"} -> 1 [] b \in {"a2", "b2", "c2", "x2"} -> 2
    [] b \in {"a3", "b3", "c3"} -> 3]
MCTxs == {"t1", "t2", "t3"}
MCTxsOf == [b \in MCBlocks |->
  CASE b \in {"a1", "b2"} -> <<"t1">> [] b \in {"a2", "c2"} -> <<"t2">>
    [] b \in {"a3", "b3", "c3"} -> <<"t3">> [] OTHER -> <<>>]
MCMined == {"c2", "c3"}
MCInvalid == {"x2"}
MCNone == "none"

\* The tree without a2, a3 and c3, for the run with crashes.
SmallBlocks == {"g", "a1", "b1", "b2", "b3", "c2", "x2"}
SmallParent == [b \in SmallBlocks \ {"g"} |-> MCParent[b]]
SmallNumber == [b \in SmallBlocks |-> MCNumber[b]]
SmallTxsOf == [b \in SmallBlocks |-> MCTxsOf[b]]
SmallMined == {"c2"}

VARIABLE part

\* Bound: of a crash, a rewind and a failing batch at most two in a behaviour.
TroubleBound == crashes + rewinds + failures <= 2

PartsInit == part \in {"chain", "producer"} /\ Init /\ ProducerInit
PartsNext ==
  /\ UNCHANGED part
  /\ \/ part = "chain" /\ Next /\ TroubleBound' /\ UNCHANGED producerVars
     \/ part = "producer" /\ ProducerNext /\ UNCHANGED vars
PartsSpec ==
  /\ PartsInit /\ [][PartsNext]_<<vars, producerVars, part>>
  /\ WF_producerVars(part = "producer" /\ Internal)
=============================================================================
