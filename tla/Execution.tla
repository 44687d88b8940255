----------------------------- MODULE Execution -------------------------------
(***************************************************************************)
(* How a block's transactions are executed: TransitionDb over a StateDB,   *)
(* the balance contract with the values it keeps in a TmpStatusManager     *)
(* while the block is executed, and the same block built by a producer and *)
(* processed by a node that imports it.                                    *)
(*                                                                         *)
(* A balance is an amount; the state holds its hash and the database the   *)
(* amount under that hash.  The parameters of an action are parsed.        *)
(***************************************************************************)
EXTENDS StateDB

CONSTANTS Contract,   \* BalanceTransferAddress
          Users,      \* senders and owners of balances
          ExecTxs,    \* the transactions that are around
          Coinbase, Reward,
          MaxTried,   \* transactions a producer looks at for a block
          MaxBlocks

VARIABLE exec  \* at: build, replay, done; base and db as committed; x: the execution, built:
               \* the sealed block; how many were tried, what was replayed, the block's number

execVars == <<exec>>

Hash(amount) == amount + 1   \* not the zero hash
Amount(hash) == hash - 1

-----------------------------------------------------------------------------
(* TmpStatusManager: memory first, then the state and the database.        *)

NewExecution(base) == [state |-> base, tmp |-> Nothing, cache |-> Nothing]

GetValue(x, db, k) ==
    LET hash == GetState(x.state, Contract, k)
    IN  IF k \in DOMAIN x.tmp THEN <<x.tmp[k]>>
        ELSE IF hash \in db THEN <<Amount(hash)>> ELSE <<>>

SetValue(x, k, amount) == [x EXCEPT !.tmp = PutState(@, k, amount)]

-----------------------------------------------------------------------------
(* The inner contract.  An action's outcome: the error, the execution with *)
(* the values it has set, and the results to be written to the state.      *)

Failure(x) == [err |-> TRUE, x |-> x, results |-> <<>>]

ValueOr0(v) == IF v = <<>> THEN 0 ELSE v[1]

TransferBalance(x, db, from, to, amount) ==
    LET dataFrom == GetValue(x, db, from)
        dataTo   == GetValue(x, db, to)
        left     == dataFrom[1] - amount
        got      == ValueOr0(dataTo) + amount
    IN  IF from = to THEN [err |-> FALSE, x |-> x, results |-> <<>>]
        ELSE IF dataFrom = <<>> \/ ValueOr0(dataFrom) < amount THEN Failure(x)
        ELSE [err |-> FALSE, x |-> SetValue(SetValue(x, from, left), to, got),
              results |-> <<[key |-> from, val |-> left], [key |-> to, val |-> got]>>]

TransferFee(x, db, from, amount) == TransferBalance(x, db, from, Coinbase, amount)

RewordBlockProducer(x, db, producer) ==
    LET amount == ValueOr0(GetValue(x, db, producer)) + Reward
    IN  [err |-> FALSE, x |-> SetValue(x, producer, amount),
         results |-> <<[key |-> producer, val |-> amount]>>]

\* GetBalance: its result has no key, so that it goes under the contract's own.
GetBalance(x, db, who) ==
    [err |-> FALSE, x |-> x,
     results |-> <<[key |-> Contract, val |-> ValueOr0(GetValue(x, db, who))]>>]

\* DealAction: an address that is no inner contract is an error.
DealAction(x, db, action) ==
    CASE action.fun = "fee"      -> TransferFee(x, db, action.from, action.amount)
      [] action.fun = "transfer" -> TransferBalance(x, db, action.from, action.to, action.amount)
      [] action.fun = "reward"   -> RewordBlockProducer(x, db, action.to)
      [] action.fun = "get"      -> GetBalance(x, db, action.from)
      [] action.fun = "unknown"  -> Failure(x)

\* The loop over the actions; an outcome with an error ends it.
DealActions(x, db, actions) ==
    FoldLeft(LAMBDA o, action :
                IF o.err THEN o
                ELSE LET r == DealAction(o.x, db, action)
                     IN  IF r.err THEN r
                         ELSE [r EXCEPT !.results = o.results \o @, !.x.state = AddLog(@)],
             [err |-> FALSE, x |-> x, results |-> <<>>], actions)

-----------------------------------------------------------------------------
(* interpreter.Create: the fee action of a creation gets no system         *)
(* parameters, so that only one that is refused before it needs them comes *)
(* back; the error Create then returns is nil.                             *)

NewContract(sender, nonce) == <<sender, nonce>>

\* What Create has done to the state when it returns, for a new account a.
CreatedAt(s, a, snap) ==
    IF GetNonce(s, a) # 0 \/ GetCode(s, a) # 0 THEN [err |-> TRUE, s |-> s]
    ELSE [err |-> FALSE, s |-> RevertToSnapshot(SetNonce(createObject(Snapshot(s), a), a, 1), snap)]

Create(s, sender) ==
    CreatedAt(SetNonce(s, sender, GetNonce(s, sender) + 1), NewContract(sender, GetNonce(s, sender)),
              Len(s.revisions) + 1)

-----------------------------------------------------------------------------
(* StateTransition. *)

\* from: the sender's account is made when there is none.
WithSender(s, a) == IF Exist(s, a) THEN Load(s, a) ELSE createObject(s, a)

Outcome(err, failed, x) == [err |-> err, failed |-> failed, x |-> x]

\* The first value of a key in a block stays in the cache.
WriteFirstResults(x, results) ==
    FoldLeft(LAMBDA y, r : [y EXCEPT !.state = SetState(@, Contract, r.key, Hash(r.val)),
                                     !.cache = IF r.key \in DOMAIN @ THEN @ ELSE PutState(@, r.key, Hash(r.val))],
             x, results)

\* The values go to the state by their hash, and to the cache for the database.
WriteResults(x, results) ==
    FoldLeft(LAMBDA y, r : [y EXCEPT !.state = SetState(@, Contract, r.key, Hash(r.val)),
                                     !.cache = PutState(@, r.key, Hash(r.val))],
             x, results)

preCheck(s, tx) ==
    LET nonce == GetNonce(s, tx.from)
    IN  IF nonce < tx.nonce THEN "too high" ELSE IF nonce > tx.nonce THEN "too low" ELSE "none"

\* The ends of a creation and of the actions; snap is the snapshot taken before them.
Creation(x, snap, made) ==
    IF made.err THEN Outcome("collision", TRUE, [x EXCEPT !.state = RevertToSnapshot(made.s, snap)])
    ELSE Outcome("none", FALSE, [x EXCEPT !.state = AddLog(made.s)])

Settlement(snap, out) ==
    IF out.err THEN Outcome("none", TRUE, [out.x EXCEPT !.state = RevertToSnapshot(@, snap)])
    ELSE Outcome("none", FALSE, WriteResults(out.x, out.results))

Transition(x, db, tx, s) ==
    LET snap == Len(s.revisions) + 1
    IN  IF preCheck(s, tx) # "none" THEN Outcome(preCheck(s, tx), FALSE, [x EXCEPT !.state = s])
        ELSE IF tx.creates THEN Creation(x, snap, Create(Snapshot(s), tx.from))
        ELSE Settlement(snap, DealActions([x EXCEPT !.state = SetNonce(Snapshot(s), tx.from, GetNonce(s, tx.from) + 1)],
                                          db, tx.actions))

TransitionDb(x, db, tx) == Transition(x, db, tx, WithSender(x.state, tx.from))

\* ApplyTransaction; the receipt has the status and the logs.
Receipted(tx, out) ==
    IF out.err # "none" THEN out @@ [receipt |-> <<>>]
    ELSE [out EXCEPT !.x.state = Finalise(@)] @@ [receipt |-> <<out.failed, At(out.x.state.logs, tx)>>]

ApplyTransaction(x, db, tx) == Receipted(tx, TransitionDb([x EXCEPT !.state = Prepare(@, tx)], db, tx))

-----------------------------------------------------------------------------
(* The producer: commitTransactions and Finalize. *)

\* The genesis gives the contract code, so that it is never empty; one user owns a reward.
ExecBase(owner) ==
    Reopened(CommitTo(SetState(SetCode(NewStateDB(Nothing, {0}, {Nothing}), Contract, 1),
                               Contract, owner, Hash(Reward))))

NoBlock == [txs |-> <<>>, receipts |-> <<>>, x |-> <<>>]

ExecInit ==
    LET base == ExecBase(CHOOSE u \in Users : u # Coinbase)
    IN  exec = [at |-> "build", base |-> base, db |-> {Hash(Reward)}, x |-> NewExecution(base),
                tried |-> {}, txs |-> <<>>, receipts |-> <<>>, built |-> NoBlock, number |-> 0]

\* commitTransaction; the reward comes once, with the block's number as nonce.
CommitTransaction(tx) ==
    /\ exec.at = "build" /\ tx \notin exec.tried /\ Cardinality(exec.tried) < MaxTried
    /\ \E out \in {ApplyTransaction([exec.x EXCEPT !.state = Snapshot(@)], exec.db, tx)} :
          exec' = IF out.err = "none"
                  THEN [exec EXCEPT !.tried = @ \union {tx}, !.x = out.x,
                                    !.txs = Append(@, tx), !.receipts = Append(@, out.receipt)]
                  ELSE [exec EXCEPT !.tried = @ \union {tx},
                                    !.x = [out.x EXCEPT !.state = RevertToSnapshot(@, 1)]]

\* Finalize: the block is sealed, and goes to a node that has the same base.
SealBlock ==
    /\ exec.at = "build" /\ exec.txs # <<>>
    /\ exec' = [exec EXCEPT
                   !.at = "replay",
                   !.built = [txs |-> exec.txs, receipts |-> exec.receipts,
                              x |-> [exec.x EXCEPT !.state = Finalise(@)]],
                   !.x = NewExecution(exec.base), !.txs = <<>>, !.receipts = <<>>, !.tried = {}]

-----------------------------------------------------------------------------
(* The importing node: Process, then WriteBlockAndState. *)

ProcessTx ==
    /\ exec.at = "replay" /\ Len(exec.txs) < Len(exec.built.txs)
    /\ LET tx == exec.built.txs[Len(exec.txs) + 1]
       IN  \E out \in {ApplyTransaction(exec.x, exec.db, tx)} :
              exec' = IF out.err # "none" THEN [exec EXCEPT !.at = "bad"]
                      ELSE [exec EXCEPT !.x = out.x, !.txs = Append(@, tx),
                                        !.receipts = Append(@, out.receipt)]

ProcessEnds ==
    /\ exec.at = "replay" /\ exec.txs = exec.built.txs
    /\ exec' = [exec EXCEPT !.at = "done", !.x.state = Finalise(@)]

WriteBlock ==
    /\ exec.at = "done" /\ exec.number < MaxBlocks
    /\ LET base == Reopened(CommitTo(exec.x.state))
       IN  exec' = [exec EXCEPT !.at = "build", !.base = base, !.x = NewExecution(base),
                                !.db = @ \union Range(exec.x.cache), !.number = @ + 1,
                                !.txs = <<>>, !.receipts = <<>>, !.built = NoBlock]

ExecNext ==
    \/ \E tx \in ExecTxs : CommitTransaction(tx)
    \/ SealBlock \/ ProcessTx \/ ProcessEnds \/ WriteBlock

ExecSpec == ExecInit /\ [][ExecNext]_execVars

-----------------------------------------------------------------------------
\* A block is executed by an importing node as it was by its producer, whatever the
\* producer tried and skipped on the way: no transaction is refused, and receipts, state
\* and values for the database are the same.  All balances a state refers to by their hash
\* are in the database once the block is written.
ExecutionAgrees ==
    /\ exec.at # "bad"
    /\ exec.at = "done" =>
          /\ exec.receipts = exec.built.receipts
          /\ exec.x.state.trie = exec.built.x.state.trie
          /\ exec.x.cache = exec.built.x.cache
    /\ exec.at = "build" => Range(exec.base.trie[Contract].root) \subseteq exec.db

\* Between transactions the last value of a balance, as the TmpStatusManager gives it, is
\* the one the state has.
LastValue ==
    exec.at \in {"build", "replay"} =>
        \A k \in DOMAIN exec.x.tmp : GetState(exec.x.state, Contract, k) = Hash(exec.x.tmp[k])
=============================================================================
