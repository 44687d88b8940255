----------------------------- MODULE BlockChain -----------------------------
(***************************************************************************)
(* core/blockchain: the canonical chain kept in a key/value database.      *)
(*                                                                         *)
(* The database holds headers, bodies and states of blocks, the index      *)
(* canon from numbers to canonical hashes, the positions lookup of the     *)
(* transactions, and three head pointers.  BlockChain keeps three heads in *)
(* memory.  One thread at a time holds bc.mu (owner); the database writes  *)
(* it still has to make are the sequence todo, executed one per step, so   *)
(* that the process may crash between any two of them.  A batch is one     *)
(* write.  InsertChain runs as the thread "importer" (chainmu allows one   *)
(* at a time), the block producer's wait loop as the thread "producer".    *)
(*                                                                         *)
(* The lru caches are left out: every entry they hold is in the database   *)
(* and SetHead, the only operation that deletes, purges them.              *)
(* consensus.ErrFutureBlock is never returned by the engines of this       *)
(* repository, so the queue of future blocks stays empty and is left out.  *)
(***************************************************************************)
EXTENDS Integers, Sequences, FiniteSets

CONSTANTS
  Blocks,       \* every block that will ever be seen, identified by its hash
  Genesis,      \* the genesis block
  Parent,       \* header.ParentHash
  Number,       \* header.Number
  Txs, TxsOf,   \* transactions, and the sequence of transactions of a block
  Mined,        \* blocks sealed by the local producer
  Invalid,      \* blocks rejected by ValidateBody, Process or ValidateState
  MaxCrashes, MaxRewinds, MaxFailures,   \* bounds on Crash, SetHead and failing batches
  MaxBatch,     \* bound on the length of the chains given to InsertChain
  None          \* nil, or a key missing from the database

\* b and its ancestors.
Lineage[b \in Blocks] == IF b = Genesis THEN {b} ELSE {b} \cup Lineage[Parent[b]]
TxSet(b) == {TxsOf[b][i] : i \in DOMAIN TxsOf[b]}

\* VerifyHeader accepts a header only if its number is its parent's plus one, and
\* ToBlock gives genesis no transactions.
ASSUME TreeAssumption ==
  /\ Genesis \in Blocks
  /\ Number \in [Blocks -> Nat] /\ Number[Genesis] = 0
  /\ Parent \in [Blocks \ {Genesis} -> Blocks]
  /\ \A b \in Blocks \ {Genesis} : Number[b] = Number[Parent[b]] + 1
  /\ TxsOf \in [Blocks -> Seq(Txs)] /\ TxsOf[Genesis] = <<>>
  /\ Mined \subseteq Blocks \ {Genesis} /\ Invalid \cap (Mined \cup {Genesis}) = {}
  /\ None \notin Blocks

\* Process fails for a transaction whose nonce was used (preCheck), so that none
\* is twice in a chain of valid blocks.
ASSUME NonceAssumption ==
  \A b \in Blocks : Lineage[b] \cap Invalid = {} =>
    \A x, y \in Lineage[b] : x # y => TxSet(x) \cap TxSet(y) = {}

ASSUME BoundAssumption == {MaxCrashes, MaxRewinds, MaxFailures, MaxBatch} \subseteq Nat

VARIABLES
  headers, bodies, states,          \* the blocks whose header, body, state is stored
  canon, lookup,                    \* number -> hash, transaction -> block hash
  headBlock, headHeader, headFast,  \* the head pointers in the database
  currentBlock, currentHeader, currentFast,   \* the heads in memory
  owner, todo,                      \* who holds bc.mu, and what it will still write
  importer, producer,               \* the two threads that write blocks
  announced,                        \* the last ChainHeadEvent the subscribers saw
  told,                             \* history: has an event named the head since it became one
  up, crashes, rewinds, failures

disk == <<headers, bodies, states, canon, lookup, headBlock, headHeader, headFast>>
memory == <<currentBlock, currentHeader, currentFast>>
threads == <<importer, producer, announced, told>>
bounds == <<up, crashes, rewinds, failures>>
vars == <<disk, memory, owner, todo, threads, bounds>>

Numbers == {Number[b] : b \in Blocks}
Stored(b) == b \in headers \cap bodies
HasBlockAndState(b) == Stored(b) /\ b \in states

Op(op, x) == [op |-> op, x |-> x]
LookupOps(b) == [i \in DOMAIN TxsOf[b] |-> Op("lookup", <<TxsOf[b][i], b>>)]
TxsIn(S) == UNION {TxSet(b) : b \in S}

(***************************************************************************)
(* WriteBlockAndState.                                                     *)
(***************************************************************************)
OldChain(old, new) == Lineage[old] \ Lineage[new]
NewChain(old, new) == Lineage[new] \ Lineage[old]

\* The lowest block of the new branch; its parent is where the branches meet.
FirstNew(old, new) ==
  CHOOSE x \in NewChain(old, new) : \A y \in NewChain(old, new) : Number[x] <= Number[y]

\* reorg loads every block of both branches but the two it is given, and the
\* block where they meet; it fails if one of them is missing.
ReorgLoads(old, new) ==
  (OldChain(old, new) \ {old}) \cup (NewChain(old, new) \ {new}) \cup {Parent[FirstNew(old, new)]}
ReorgFails(old, new) == \E x \in ReorgLoads(old, new) : ~Stored(x)

\* The writes of reorg: new blocks from the lowest to the highest, then the
\* positions of the transactions that were only on the old branch.
AncestorAt(b, n) == CHOOSE x \in Lineage[b] : Number[x] = n
AdoptOps(old, new) ==
  LET first == Number[FirstNew(old, new)]
  IN  [i \in 1..(Number[new] + 1 - first) |-> Op("adopt", AncestorAt(new, first - 1 + i))]
Dropped(old, new) == TxsIn(OldChain(old, new)) \ TxsIn(NewChain(old, new))
ReorgOps(old, new) ==
  AdoptOps(old, new)
  \o (IF Dropped(old, new) = {} THEN <<>> ELSE <<Op("unlookup", Dropped(old, new))>>)

\* (Fault: the old branch is not reorganised away.)
WriteOpsNoReorg(b) ==
  IF Number[b] <= Number[currentBlock] THEN <<Op("side", b)>>
  ELSE <<Op("batch", b)>>

WriteOps(b) ==
  IF Number[b] <= Number[currentBlock] THEN <<Op("side", b)>>
  ELSE (IF Parent[b] = currentBlock THEN <<>> ELSE ReorgOps(currentBlock, b))
       \o <<Op("batch", b)>>

WriteRefused(b) ==
  /\ Number[b] > Number[currentBlock] /\ Parent[b] # currentBlock
  /\ ReorgFails(currentBlock, b)

-----------------------------------------------------------------------------
(***************************************************************************)
(* The database writes, each with the change to memory it goes with.       *)
(***************************************************************************)
Do(op) == todo # <<>> /\ Head(todo).op = op
Arg == Head(todo).x
Done == todo' = Tail(todo)
Then(op) == todo' = <<Op(op, Arg)>> \o Tail(todo)

\* insert: the number index first; the other heads follow ("heads") only if the
\* index did not name the block already.  reorg goes on with the positions of
\* the block's transactions ("adopt").
Insert ==
  /\ Do("insert") \/ Do("adopt")
  /\ canon' = [canon EXCEPT ![Number[Arg]] = Arg]
  /\ todo' = <<Op(IF canon[Number[Arg]] = Arg THEN "head" ELSE "heads", Arg)>>
             \o (IF Do("adopt") THEN LookupOps(Arg) ELSE <<>>) \o Tail(todo)
  /\ UNCHANGED <<headers, bodies, states, lookup, headBlock, headHeader, headFast, memory>>

WriteHeadBlockHash ==
  /\ \/ Do("head") /\ Done
     \/ Do("heads") /\ Then("header")
  /\ headBlock' = Arg /\ currentBlock' = Arg
  /\ UNCHANGED <<headers, bodies, states, canon, lookup, headHeader, headFast,
                 currentHeader, currentFast>>

SetCurrentHeader ==
  /\ Do("header") /\ Then("fast")
  /\ headHeader' = Arg /\ currentHeader' = Arg
  /\ UNCHANGED <<headers, bodies, states, canon, lookup, headBlock, headFast,
                 currentBlock, currentFast>>

WriteHeadFastBlockHash ==
  /\ Do("fast") /\ Done
  /\ headFast' = Arg /\ currentFast' = Arg
  /\ UNCHANGED <<headers, bodies, states, canon, lookup, headBlock, headHeader,
                 currentBlock, currentHeader>>

WriteTxLookupEntry ==
  /\ Do("lookup") /\ Done
  /\ lookup' = [lookup EXCEPT ![Arg[1]] = Arg[2]]
  /\ UNCHANGED <<headers, bodies, states, canon, headBlock, headHeader, headFast, memory>>

\* One of the transactions that are gone, in any order.
DeleteTxLookupEntry ==
  /\ Do("unlookup")
  /\ \E t \in Arg :
       /\ lookup' = [lookup EXCEPT ![t] = None]
       /\ todo' = (IF Arg = {t} THEN <<>> ELSE <<Op("unlookup", Arg \ {t})>>) \o Tail(todo)
  /\ UNCHANGED <<headers, bodies, states, canon, headBlock, headHeader, headFast, memory>>

\* batch.Write: body, header, state and receipts, and for a canonical block
\* the positions of its transactions, in one atomic write; then insert.
BatchWrite ==
  /\ \/ Do("batch") /\ Then("insert")
     \/ Do("side") /\ Done
  /\ headers' = headers \cup {Arg}
  /\ bodies' = bodies \cup {Arg}
  /\ states' = states \cup {Arg}
  /\ lookup' = IF Do("side") THEN lookup
               ELSE [t \in Txs |-> IF t \in TxSet(Arg) THEN Arg ELSE lookup[t]]
  /\ UNCHANGED <<canon, headBlock, headHeader, headFast, memory>>

\* The subscribers get a head event for block b; none is sent for None.
Hear(b) ==
  /\ announced' = IF b = None THEN announced ELSE b
  /\ told' = IF b = currentBlock THEN "yes" ELSE told

\* The operation that moved the head ends in an error, and without its event.
Excuse == told' = IF told = "no" THEN "excused" ELSE told

\* batch.Write returns an error: WriteBlockAndState returns it and writes no
\* more; what reorg already did stays, on disk and in memory.
BatchFails ==
  /\ failures < MaxFailures /\ failures' = failures + 1
  /\ owner \in {"importer", "producer"}
  /\ Do("batch") \/ Do("side")
  /\ todo' = <<>> /\ owner' = "none"
  /\ importer' = IF owner = "importer"
                 THEN [importer EXCEPT !.phase = "post", !.canon = None] ELSE importer
  /\ producer' = IF owner = "producer" THEN [phase |-> "idle", block |-> None] ELSE producer
  /\ Excuse
  /\ UNCHANGED <<disk, memory, announced, up, crashes, rewinds>>

(***************************************************************************)
(* SetHead(n): headers and bodies of the header chain are deleted from its *)
(* head downwards, then the number index from its height, then the heads   *)
(* are moved.  The argument of the operations is <<n, height>>.            *)
(***************************************************************************)
UnwindOps(height, n) == <<Op("unwind", <<n, height>>)>>

DeleteBody ==
  /\ Do("unwind") /\ currentHeader # None /\ Number[currentHeader] > Arg[1]
  /\ Then("delHeader")
  /\ bodies' = bodies \ {currentHeader}
  /\ UNCHANGED <<headers, states, canon, lookup, headBlock, headHeader, headFast, memory>>

DeleteHeader ==
  /\ Do("delHeader") /\ Then("unwind")
  /\ headers' = headers \ {currentHeader}
  /\ currentHeader' = IF Parent[currentHeader] \in headers THEN Parent[currentHeader] ELSE None
  /\ UNCHANGED <<bodies, states, canon, lookup, headBlock, headHeader, headFast,
                 currentBlock, currentFast>>

Unwound ==
  /\ Do("unwind") /\ (currentHeader = None \/ Number[currentHeader] <= Arg[1])
  /\ Then("uncanon")
  /\ UNCHANGED <<disk, memory>>

DeleteCanonicalHash ==
  /\ Do("uncanon") /\ Arg[2] > Arg[1]
  /\ canon' = [canon EXCEPT ![Arg[2]] = None]
  /\ todo' = <<Op("uncanon", <<Arg[1], Arg[2] - 1>>)>> \o Tail(todo)
  /\ UNCHANGED <<headers, bodies, states, lookup, headBlock, headHeader, headFast, memory>>

WriteHeadHeaderHash ==
  /\ Do("uncanon") /\ Arg[2] <= Arg[1] /\ Then("rewind")
  /\ currentHeader' = IF currentHeader = None THEN Genesis ELSE currentHeader
  /\ headHeader' = currentHeader'
  /\ UNCHANGED <<headers, bodies, states, canon, lookup, headBlock, headFast,
                 currentBlock, currentFast>>

\* A block head above the header head falls back to the header head, or to
\* genesis if that has no body.
FallBack(b) ==
  IF b # None /\ Number[currentHeader] >= Number[b] THEN b
  ELSE IF b # None /\ Stored(currentHeader) THEN currentHeader ELSE Genesis

Rewind ==
  /\ Do("rewind") /\ Then("fastHead")
  /\ currentBlock' = IF FallBack(currentBlock) \in states THEN FallBack(currentBlock) ELSE Genesis
  /\ headBlock' = currentBlock' /\ currentFast' = FallBack(currentFast)
  /\ UNCHANGED <<headers, bodies, states, canon, lookup, headHeader, headFast, currentHeader>>

RewindFast ==
  /\ Do("fastHead") /\ Then("load")
  /\ headFast' = currentFast
  /\ UNCHANGED <<headers, bodies, states, canon, lookup, headBlock, headHeader, memory>>

\* loadLastState once the head block b and its state were found.
LoadHeads(b) ==
  /\ currentBlock' = b
  /\ currentHeader' = IF headHeader \in headers THEN headHeader ELSE b
  /\ headHeader' = currentHeader'
  /\ currentFast' = IF Stored(headFast) THEN headFast ELSE b
  /\ UNCHANGED <<headers, bodies, states, canon, lookup, headBlock, headFast>>

\* SetHead ends with loadLastState, which would wait for bc.mu for ever to reset
\* a chain whose head is missing.  Reset goes on to write genesis again.
ResetOps == <<Op("side", Genesis), Op("insert", Genesis), Op("header", Genesis)>>
Load ==
  /\ Do("load") /\ HasBlockAndState(headBlock) /\ LoadHeads(headBlock)
  /\ todo' = IF owner = "start" THEN ResetOps ELSE <<>>

\* One write of the thread that holds bc.mu, which releases it after the last.
Write ==
  /\ up /\ owner # "none"
  /\ \/ Insert \/ WriteHeadBlockHash \/ SetCurrentHeader \/ WriteHeadFastBlockHash
     \/ WriteTxLookupEntry \/ DeleteTxLookupEntry \/ BatchWrite
     \/ DeleteBody \/ DeleteHeader \/ Unwound \/ DeleteCanonicalHash
     \/ WriteHeadHeaderHash \/ Rewind \/ RewindFast \/ Load
  /\ owner' = IF todo' = <<>> THEN "none" ELSE owner
  /\ announced' = IF owner = "start" /\ todo' = <<>> THEN currentBlock' ELSE announced
  /\ told' = CASE owner = "start" -> "yes"
               [] owner # "start" /\ currentBlock' = currentBlock -> told
               [] owner = "rewind" /\ currentBlock' # currentBlock -> "excused"
               [] OTHER -> "no"
  /\ UNCHANGED <<importer, producer, bounds>>

Free == up /\ owner = "none"
Lock(who, ops) == Free /\ owner' = who /\ todo' = ops

SetHead(n) ==
  /\ rewinds < MaxRewinds /\ rewinds' = rewinds + 1
  /\ Lock("rewind", UnwindOps(Number[currentHeader], n))
  /\ UNCHANGED <<disk, memory, threads, up, crashes, failures>>

(***************************************************************************)
(* A crash, and NewBlockChain on the database it leaves.                   *)
(***************************************************************************)
Idle == [phase |-> "idle", queue |-> <<>>, first |-> TRUE, canon |-> None]

Crash ==
  /\ up /\ crashes < MaxCrashes
  /\ up' = FALSE /\ crashes' = crashes + 1
  /\ currentBlock' = None /\ currentHeader' = None /\ currentFast' = None
  /\ owner' = "none" /\ todo' = <<>>
  /\ importer' = Idle /\ producer' = [phase |-> "idle", block |-> None] /\ announced' = None
  /\ told' = "yes"
  /\ UNCHANGED <<disk, rewinds, failures>>

Restart ==
  /\ ~up /\ up' = TRUE
  /\ HasBlockAndState(headBlock) /\ LoadHeads(headBlock)
  /\ announced' = headBlock
  /\ UNCHANGED <<owner, todo, importer, producer, told, crashes, rewinds, failures>>

\* loadLastState finds no head block or no state for it: Reset rewinds the
\* header chain NewHeaderChain has loaded, and writes genesis again.
RestartReset ==
  /\ ~up /\ up' = TRUE
  /\ ~HasBlockAndState(headBlock)
  /\ currentHeader' = IF headBlock \in headers THEN headBlock ELSE Genesis
  /\ owner' = "start"
  /\ todo' = UnwindOps(Number[currentHeader'], 0)
  /\ UNCHANGED <<disk, currentBlock, currentFast, threads, crashes, rewinds, failures>>

(***************************************************************************)
(* InsertChain: the blocks one after the other, then the head event.       *)
(***************************************************************************)
Paths == {c \in UNION {[1..n -> Blocks \ (Mined \cup {Genesis})] : n \in 1..MaxBatch} :
            \A i \in 2..Len(c) : Parent[c[i]] = c[i - 1]}

InsertChain(c) ==
  /\ up /\ importer.phase = "idle"
  /\ importer' = [phase |-> "verify", queue |-> c, first |-> TRUE, canon |-> None]
  /\ UNCHANGED <<disk, memory, owner, todo, producer, announced, told, bounds>>

\* The next block of the batch; after the last one, the head event if the
\* last canonical block is still the head.
NextBlock ==
  [phase |-> IF Len(importer.queue) = 1 THEN "finish" ELSE "verify",
   queue |-> Tail(importer.queue), first |-> FALSE, canon |-> importer.canon]

\* An error: the head event is not sent, whatever the batch has written.
Abort ==
  /\ importer' = [importer EXCEPT !.phase = "post", !.canon = None]
  /\ IF importer.canon = currentBlock THEN Excuse ELSE UNCHANGED told

\* VerifyHeaders, ValidateBody, Process and ValidateState for one block.
HeaderOK(b) == importer.first => Parent[b] \in headers
Verified(b) ==
  IF HeaderOK(b) /\ HasBlockAndState(b) THEN importer' = NextBlock /\ UNCHANGED told
  ELSE IF HeaderOK(b) /\ HasBlockAndState(Parent[b]) /\ b \notin Invalid
  THEN importer' = [importer EXCEPT !.phase = "write"] /\ UNCHANGED told
  ELSE Abort

VerifyBlock ==
  /\ up /\ importer.phase = "verify"
  /\ Verified(Head(importer.queue))
  /\ UNCHANGED <<disk, memory, owner, todo, producer, announced, bounds>>

ImportWrite ==
  LET b == Head(importer.queue)
  IN  /\ importer.phase = "write" /\ Free
      /\ \/ WriteRefused(b) /\ Abort /\ UNCHANGED <<owner, todo>>
         \/ /\ ~WriteRefused(b) /\ Lock("importer", WriteOps(b)) /\ UNCHANGED told
            /\ importer' = [importer EXCEPT !.phase = "writing",
                 !.canon = IF Number[b] > Number[currentBlock] THEN b ELSE importer.canon]
      /\ UNCHANGED <<disk, memory, producer, announced, bounds>>

ImportWritten ==
  /\ up /\ importer.phase = "writing" /\ owner # "importer"
  /\ importer' = NextBlock
  /\ UNCHANGED <<disk, memory, owner, todo, producer, announced, told, bounds>>

\* (Fault: the head event is sent only for a child of the last announced head.)
ImportFinishSilent ==
  /\ importer.phase = "finish" /\ Free
  /\ importer' = [importer EXCEPT !.phase = "post",
                    !.canon = IF @ = None \/ Parent[@] # announced THEN None ELSE @]
  /\ UNCHANGED <<disk, memory, owner, todo, producer, announced, told, bounds>>

ImportFinish ==
  /\ importer.phase = "finish" /\ Free
  /\ importer' = [importer EXCEPT !.phase = "post",
                    !.canon = IF importer.canon = currentBlock THEN importer.canon ELSE None]
  /\ UNCHANGED <<disk, memory, owner, todo, producer, announced, told, bounds>>

\* PostChainEvents, after chainmu was released.
ImportPost ==
  /\ up /\ importer.phase = "post" /\ importer' = Idle
  /\ Hear(importer.canon)
  /\ UNCHANGED <<disk, memory, owner, todo, producer, bounds>>

(***************************************************************************)
(* The producer seals a block on the head it saw, and its wait loop writes *)
(* it without chainmu and announces it if it became the head.              *)
(***************************************************************************)
Seal(b) ==
  /\ producer.phase = "idle" /\ Free
  /\ Parent[b] = currentBlock /\ ~HasBlockAndState(b)
  /\ producer' = [phase |-> "sealed", block |-> b]
  /\ UNCHANGED <<disk, memory, owner, todo, importer, announced, told, bounds>>

SealedWrite ==
  LET b == producer.block
  IN  /\ producer.phase = "sealed" /\ Free
      /\ \/ /\ WriteRefused(b) /\ UNCHANGED <<owner, todo>>
            /\ producer' = [phase |-> "idle", block |-> None]
         \/ /\ ~WriteRefused(b) /\ Lock("producer", WriteOps(b))
            /\ producer' = [phase |-> "writing",
                            block |-> IF Number[b] > Number[currentBlock] THEN b ELSE None]
      /\ UNCHANGED <<disk, memory, importer, announced, told, bounds>>

SealedPost ==
  /\ up /\ producer.phase = "writing" /\ owner # "producer"
  /\ producer' = [phase |-> "idle", block |-> None]
  /\ Hear(producer.block)
  /\ UNCHANGED <<disk, memory, owner, todo, importer, bounds>>

-----------------------------------------------------------------------------
Init ==
  /\ headers = {Genesis} /\ bodies = {Genesis} /\ states = {Genesis}
  /\ canon = [n \in Numbers |-> IF n = 0 THEN Genesis ELSE None]
  /\ lookup = [t \in Txs |-> None]
  /\ headBlock = Genesis /\ headHeader = Genesis /\ headFast = Genesis
  /\ currentBlock = Genesis /\ currentHeader = Genesis /\ currentFast = Genesis
  /\ owner = "none" /\ todo = <<>>
  /\ importer = Idle /\ producer = [phase |-> "idle", block |-> None]
  /\ announced = Genesis /\ told = "yes"
  /\ up = TRUE /\ crashes = 0 /\ rewinds = 0 /\ failures = 0

Import == (\E c \in Paths : InsertChain(c)) \/ VerifyBlock \/ ImportWrite
          \/ ImportWritten \/ ImportFinish \/ ImportPost
Produce == (\E b \in Mined : Seal(b)) \/ SealedWrite \/ SealedPost
Next == Import \/ Produce \/ Write \/ BatchFails
        \/ (\E n \in Numbers : SetHead(n)) \/ Crash \/ Restart \/ RestartReset

Spec == Init /\ [][Next]_vars

-----------------------------------------------------------------------------
(***************************************************************************)
(* Properties.                                                             *)
(***************************************************************************)
Ops == {"insert", "adopt", "head", "heads", "header", "fast", "lookup", "unlookup", "batch",
        "side", "unwind", "delHeader", "uncanon", "rewind", "fastHead", "load"}

\* Every variable has its type.
TypeOK ==
  /\ headers \subseteq Blocks /\ bodies \subseteq Blocks /\ states \subseteq Blocks
  /\ canon \in [Numbers -> Blocks \cup {None}] /\ lookup \in [Txs -> Blocks \cup {None}]
  /\ {headBlock, headHeader, headFast} \subseteq Blocks
  /\ {currentBlock, currentHeader, currentFast, announced} \subseteq Blocks \cup {None}
  /\ owner \in {"none", "importer", "producer", "rewind", "start"}
  /\ \A i \in DOMAIN todo : todo[i].op \in Ops
  /\ importer.phase \in {"idle", "verify", "write", "writing", "finish", "post"}
  /\ importer.canon \in Blocks \cup {None}
  /\ producer.phase \in {"idle", "sealed", "writing"} /\ producer.block \in Blocks \cup {None}
  /\ up \in BOOLEAN /\ told \in {"yes", "no", "excused"} /\ crashes \in 0..MaxCrashes /\ rewinds \in 0..MaxRewinds
  /\ failures \in 0..MaxFailures

\* As long as no batch has failed, whenever bc.mu is free the head block, with
\* its state, and every ancestor of it are stored: whatever was imported,
\* produced, rewound, or interrupted by a crash, there is no hole below the
\* head (WriteBlockAndState, SetHead, loadLastState).  A second crash is
\* excepted if SetHead is used: the first can part the header head from the head
\* block, SetHead then deletes ancestors of the head block first, and a crash
\* before it has moved the head leaves the hole.
HeadComplete == currentBlock \in states /\ \A x \in Lineage[currentBlock] : Stored(x)
Recoverable == failures = 0 /\ (crashes <= 1 \/ rewinds = 0)
ChainStored == Free /\ Recoverable => HeadComplete

\* As long as no process crashed and no batch failed, whenever bc.mu is free,
\* the number index up to the head names exactly the ancestors of the head
\* (insert, reorg, SetHead).
CanonExact ==
  \A n \in 0..Number[currentBlock] : canon[n] \in Lineage[currentBlock] /\ Number[canon[n]] = n
CanonUpToHead == Free /\ crashes + failures = 0 => CanonExact

\* Likewise the number index names nothing above the head, and the three heads
\* agree (full blocks only, no fast sync).
NothingAboveHead ==
  Free /\ crashes + failures = 0 =>
    /\ \A n \in Numbers : n > Number[currentBlock] => canon[n] = None
    /\ currentHeader = currentBlock /\ currentFast = currentBlock

\* Without crashes, failures and rewinds, a transaction position names the canonical
\* block that holds the transaction, and every transaction of the canonical
\* chain has one (reorg, WriteTxLookupEntries).
LookupExact ==
  \A t \in Txs : LET holders == {b \in Lineage[currentBlock] : t \in TxSet(b)}
                 IN  IF holders = {} THEN lookup[t] = None ELSE lookup[t] \in holders
LookupCanonical == Free /\ crashes + rewinds + failures = 0 => LookupExact

\* The four together, with the types: what is stored of the chain is complete and
\* the indices agree with the head.
ChainSound == TypeOK /\ ChainStored /\ CanonUpToHead /\ NothingAboveHead /\ LookupCanonical

\* Two threads write blocks and post their events after they have released the
\* locks.  When neither is at work the head was the subject of an event after it
\* became the head, whichever of them wrote it, on whatever branch, and whatever
\* the other wrote meanwhile, unless SetHead put it there, which sends none, or
\* an import or a write that ended in an error (insertChain, WriteBlockAndState).
\* Without locally sealed blocks the last event names it too; with them a late
\* event of the other thread may follow.
Resting == Free /\ importer.phase = "idle" /\ producer.phase = "idle"
HeadAnnounced ==
  Resting => /\ told # "no"
             /\ told = "yes" /\ Mined \cap states = {} => announced = currentBlock

-----------------------------------------------------------------------------
(***************************************************************************)
(* What the comments say, where the code disagrees.                        *)
(***************************************************************************)
\* "GetBlockByNumber always represents the canonical chain" (comment of
\* BlockChain), after a crash too.
AlwaysCanonical == Free => CanonExact
=============================================================================
