------------------------------- MODULE TxPool -------------------------------
(***************************************************************************)
(* The transaction pool (core/txprocessor/tx_pool.go, tx_list.go).         *)
(*                                                                         *)
(* The per-account lists `pending' and `queue' are kept as two sets of     *)
(* transactions: the list of account a is the subset sent by a, and its    *)
(* nonce index is the function Nonce.  The index `all' is a third set.     *)
(* The priority heap is abstracted to what it decides (which member of     *)
(* `all' is cheapest); module TxPriorityList models the heap itself.       *)
(*                                                                         *)
(* Every operation runs under pool.mu.  An operation is a sequence of the  *)
(* functions it calls; `stage' says which of them runs next, and only the  *)
(* stage "idle" lets a new operation start, so no two of them interleave.  *)
(***************************************************************************)
EXTENDS Integers, FiniteSets, FiniteSetsExt

CONSTANTS
    Accounts,       \* sender addresses
    Txs,            \* transactions (a transaction is its hash)
    From,           \* sender of each transaction
    Nonce,          \* account nonce of each transaction
    Prio,           \* priority set by add: the fee of the first action
    MaxNonce,       \* largest nonce
    HeadNonces,     \* the account nonces a head state can have
    MaxBatch,       \* bound: size of a batch (AddRemotes, AddLocals, reinject)
    AccountSlots, GlobalSlots, AccountQueue, GlobalQueue    \* TxPoolConfig

\* There are finitely many transactions: a hash has 32 bytes.
ASSUME TxAssumption ==
    /\ IsFiniteSet(Txs)
    /\ MaxNonce \in Nat
    /\ From \in [Txs -> Accounts]
    /\ Nonce \in [Txs -> 0..MaxNonce]
    /\ Prio \in [Txs -> Int]
    /\ HeadNonces \subseteq [Accounts -> 0..MaxNonce + 1]

ASSUME ConfigAssumption ==
    /\ AccountSlots \in Nat \ {0}
    /\ GlobalSlots \in Nat \ {0}
    /\ AccountQueue \in Nat
    /\ GlobalQueue \in Nat
    /\ MaxBatch \in Nat

VARIABLES
    pending,        \* all currently processable transactions
    queue,          \* queued but non-processable transactions
    all,            \* the index used for lookups, by hash
    beats,          \* accounts with a heartbeat (the others have the zero time)
    locals,         \* accounts exempt from eviction
    currentNonce,   \* account nonces of the head state the pool was reset to
    headNonce,      \* account nonces of the head that loop remembers
    pendingNonce,   \* virtual nonces of the managed pending state
    stage,          \* the function of the running operation that is next
    batch,          \* transactions addTxsLocked has still to add
    asLocal,        \* the batch's local flag
    dirty,          \* accounts promoteExecutables has to look at
    drops,          \* transactions removeTx has still to be called on
    after,          \* where to go on when drops is empty
    resetting       \* reset has not reached demoteUnexecutables yet

lists == <<pending, queue, all, beats, locals, pendingNonce>>
call == <<stage, batch, asLocal, dirty, drops, after, resetting>>
heads == <<currentNonce, headNonce>>
vars == <<lists, heads, call>>

Stages == {"idle", "adding", "dropping", "promoting", "demoting"}

\* Every variable has its type; nonces stay in the range of account nonces.
TypeOK ==
    /\ pending \subseteq Txs
    /\ queue \subseteq Txs
    /\ all \subseteq Txs
    /\ beats \subseteq Accounts
    /\ locals \subseteq Accounts
    /\ currentNonce \in [Accounts -> 0..MaxNonce + 1]
    /\ headNonce \in [Accounts -> 0..MaxNonce + 1]
    /\ pendingNonce \in [Accounts -> 0..MaxNonce + 1]
    /\ stage \in Stages
    /\ batch \subseteq Txs
    /\ asLocal \in BOOLEAN
    /\ dirty \subseteq Accounts
    /\ drops \subseteq Txs
    /\ after \in Stages \ {"dropping", "promoting"}
    /\ resetting \in BOOLEAN

-----------------------------------------------------------------------------
(* txList and txSortedMap                                                  *)

\* The list of account a.
Of(S, a) == {u \in S : From[u] = a}

\* The accounts that have a list in S.
Senders(S) == {From[u] : u \in S}

\* txSortedMap.Get: what S holds under t's sender and nonce.
Slot(S, t) == {u \in S : From[u] = From[t] /\ Nonce[u] = Nonce[t]}

\* txList.Add refuses t: the old transaction's priority is not lower.
Refuses(S, t) == \E u \in Slot(S, t) : Prio[u] >= Prio[t]

\* txList.Add of every member of T that S does not refuse.
Accepted(S, T) == {t \in T : ~Refuses(S, t)}
Replaced(S, T) == UNION {Slot(S, t) : t \in Accepted(S, T)}
AddList(S, T) == (S \ Replaced(S, T)) \cup Accepted(S, T)

\* txSortedMap.Forward: what has a nonce below the account's threshold.
\* (Fault: the highest executed nonce is left behind.)
ForwardOneShort(S, threshold) == {t \in S : Nonce[t] + 1 < threshold[From[t]]}
Forward(S, threshold) == {t \in S : Nonce[t] < threshold[From[t]]}

\* txSortedMap.Cap: in the lists of A, what exceeds the n lowest nonces.
Cap(S, A, n) ==
    {t \in S : /\ From[t] \in A
               /\ Cardinality({u \in Of(S, From[t]) : Nonce[u] < Nonce[t]}) >= n}

\* txSortedMap.Ready: the run of consecutive nonces at the front of a list,
\* if the front is not above the account's start nonce.
Ready(S, A, start) ==
    {t \in S : /\ From[t] \in A
               /\ \E u \in Of(S, From[t]) : Nonce[u] <= start[From[t]]
               /\ \A u \in Of(S, From[t]) : \A n \in Nonce[u]..Nonce[t] :
                     \E v \in Of(S, From[t]) : Nonce[v] = n}

\* The nonce after the last one of a non-empty list.
NextNonce(S) == Max({Nonce[t] : t \in S}) + 1

\* The account nonce lowered to the lowest dropped transaction, if any.
Lowered(nonce, D) ==
    [a \in Accounts |-> Min({nonce[a]} \cup {Nonce[t] : t \in Of(D, a)})]

-----------------------------------------------------------------------------
(* add and enqueueTx, one transaction of the batch at a time               *)

Init ==
    /\ pending = {} /\ queue = {} /\ all = {} /\ beats = {} /\ locals = {}
    /\ currentNonce \in HeadNonces
    /\ headNonce = currentNonce /\ pendingNonce = currentNonce
    /\ stage = "idle" /\ batch = {} /\ asLocal = FALSE /\ dirty = {}
    /\ drops = {} /\ after = "idle" /\ resetting = FALSE

\* AddLocal, AddLocals, AddRemote, AddRemotes: take the lock and start adding.
AddTxs(txs, local) ==
    /\ stage = "idle"
    /\ stage' = "adding" /\ batch' = txs /\ asLocal' = local
    /\ UNCHANGED <<lists, heads, dirty, drops, after, resetting>>

\* enqueueTx: the index after the transactions T went to the queue.
Enqueued(index, T) == (index \ Replaced(queue, T)) \cup Accepted(queue, T)

Adding(t) == stage = "adding" /\ t \in batch /\ batch' = batch \ {t}

Full == Cardinality(all) >= GlobalSlots + GlobalQueue

\* add fails and changes nothing: the transaction is known, or the pool is full
\* of transactions of at least its priority, or its slot is taken by a
\* transaction of at least its priority.
Underpriority(t) ==
    /\ From[t] \notin locals
    /\ all # {}
    /\ \A u \in all : Prio[u] >= Prio[t]

AddRejected(t) ==
    /\ Adding(t)
    /\ \/ t \in all
       \/ Full /\ Underpriority(t)
       \/ ~Full /\ Refuses(pending, t)
       \/ ~Full /\ Slot(pending, t) = {} /\ Refuses(queue, t)
    /\ UNCHANGED <<lists, heads, stage, asLocal, dirty, drops, after, resetting>>

\* txPriorityList.Discard: the cheapest remote transactions, count of them;
\* a transaction that is in the heap twice counts twice.
Remotes == {u \in all : From[u] \notin locals}

Discard(count) ==
    {D \in SUBSET Remotes :
        /\ Cardinality(D) <= count
        /\ D = {} => Remotes = {} \/ count <= 0
        /\ \A u \in D, v \in Remotes \ D : Prio[u] <= Prio[v]}

\* The pool is full and t is better than the cheapest transactions: they are
\* discarded, and t is refused all the same.
AddDiscard(t) ==
    /\ Adding(t)
    /\ t \notin all /\ Full /\ ~Underpriority(t)
    /\ \E D \in Discard(Cardinality(all) - (GlobalSlots + GlobalQueue - 1)) :
          /\ drops' = D
          /\ stage' = IF D = {} THEN "adding" ELSE "dropping"
    /\ after' = "adding"
    /\ UNCHANGED <<lists, heads, asLocal, dirty, resetting>>

\* t replaces a pending transaction of lower priority.  Only the old one is
\* taken out of the index; t is not put into it.
AddReplacePending(t) ==
    /\ Adding(t)
    /\ t \notin all /\ ~Full
    /\ Slot(pending, t) # {} /\ ~Refuses(pending, t)
    /\ pending' = AddList(pending, {t})
    /\ all' = all \ Slot(pending, t)
    /\ UNCHANGED <<queue, beats, locals, pendingNonce, heads,
                   stage, asLocal, dirty, drops, after, resetting>>

\* t goes to the queue, in place of a transaction of lower priority if there is
\* one; only a new slot makes the account dirty.
AddEnqueue(t) ==
    /\ Adding(t)
    /\ t \notin all /\ ~Full
    /\ Slot(pending, t) = {} /\ ~Refuses(queue, t)
    /\ queue' = AddList(queue, {t})
    /\ all' = Enqueued(all, {t})
    /\ locals' = IF asLocal THEN locals \cup {From[t]} ELSE locals
    /\ dirty' = IF Slot(queue, t) = {} THEN dirty \cup {From[t]} ELSE dirty
    /\ UNCHANGED <<pending, beats, pendingNonce, heads,
                   stage, asLocal, drops, after, resetting>>

\* The function that runs when adding or promoting is over.
Continue == IF resetting THEN "demoting" ELSE "idle"

\* The end of addTxsLocked: promote the accounts that got something new.
AddDone ==
    /\ stage = "adding" /\ batch = {}
    /\ stage' = IF dirty = {} THEN Continue ELSE "promoting"
    /\ UNCHANGED <<lists, heads, batch, asLocal, dirty, drops, after, resetting>>

-----------------------------------------------------------------------------
(* removeTx                                                                *)

\* removeTx on a transaction that is no longer in the index does nothing.
\* Otherwise it removes what the lists hold under t's sender and nonce.  A hit
\* in pending invalidates the later nonces: they are queued again, but only if
\* something is left of the pending list.
RemoveTx(t) ==
    LET a == From[t]
        hit == Slot(pending, t)
        invalids == {u \in Of(pending, a) : Nonce[u] > Nonce[t]}
        left == Of(pending, a) \ (hit \cup invalids)
        back == IF left = {} THEN {} ELSE invalids
        index == all \ {t}
    IN
    /\ stage = "dropping"
    /\ t \in drops /\ \A u \in drops : Prio[t] <= Prio[u]
    /\ drops' = drops \ {t}
    /\ stage' = IF drops' = {} THEN after ELSE "dropping"
    /\ IF t \notin all
       THEN UNCHANGED lists
       ELSE /\ IF hit # {}
               THEN /\ pending' = pending \ (hit \cup invalids)
                    /\ queue' = AddList(queue, back)
                    /\ all' = Enqueued(index, back)
                    /\ beats' = IF left = {} THEN beats \ {a} ELSE beats
                    /\ pendingNonce' = Lowered(pendingNonce, {t})
               ELSE /\ queue' = queue \ Slot(queue, t)
                    /\ all' = index
                    /\ UNCHANGED <<pending, beats, pendingNonce>>
            /\ UNCHANGED locals
    /\ UNCHANGED <<heads, batch, asLocal, dirty, after, resetting>>

-----------------------------------------------------------------------------
(* promoteExecutables                                                      *)

\* Equalisation of the pending lists: accounts that are not local and hold more
\* than AccountSlots are cut to a common length, the longest one that brings the
\* pool down to GlobalSlots, but never below AccountSlots.
\* (Fault: the lists are cut to AccountSlots at once.)
EqualLengthLeast(S) == AccountSlots
EqualLength(S) ==
    LET Remaining(n) == Cardinality(S \ Cap(S, Accounts \ locals, n))
        lengths == AccountSlots..(AccountSlots + Cardinality(S))
        fits == {n \in lengths : Remaining(n) <= GlobalSlots}
    IN  IF fits = {} THEN AccountSlots ELSE Max(fits)

Equalised(S) == Cap(S, Accounts \ locals, EqualLength(S))

\* Truncation of the queue to GlobalQueue: whole lists of accounts that are not
\* local, latest heartbeat first (an account without one comes last), and of the
\* last list only the highest nonces.
\* (Fault: the lists of local accounts are truncated as well.)
TruncationsWithLocals(S, beating) ==
    IF Cardinality(S) <= GlobalQueue THEN {{}} ELSE {D \in SUBSET S : Cardinality(D) = Cardinality(S) - GlobalQueue}
Truncations(S, beating) ==
    LET remote == {t \in S : From[t] \notin locals}
        excess == Cardinality(S) - GlobalQueue
        size == IF excess < Cardinality(remote) THEN excess ELSE Cardinality(remote)
        Untouched(D, a) == Of(D, a) = {}
        Partly(D, a) == ~Untouched(D, a) /\ Of(D, a) # Of(S, a)
    IN  IF excess <= 0 THEN {{}}
        ELSE {D \in SUBSET remote :
                /\ Cardinality(D) = size
                /\ \A t \in D, u \in S \ D : From[t] = From[u] => Nonce[t] > Nonce[u]
                /\ \A a, b \in Senders(remote) : Partly(D, a) /\ Partly(D, b) => a = b
                /\ \A a, b \in Senders(remote) :
                      a \in beating /\ b \notin beating /\ ~Untouched(D, b) => Of(D, a) = Of(S, a)}

PromoteExecutables ==
    LET old == {t \in Forward(queue, currentNonce) : From[t] \in dirty}
        ready == Ready(queue \ old, dirty, pendingNonce)
        inserted == Accepted(pending, ready)
        promoted == AddList(pending, ready)
        capped == Cap((queue \ old) \ ready, dirty \ locals, AccountQueue)
        index == (all \ (old \cup ready \cup Replaced(pending, ready) \cup capped)) \cup inserted
        alive == [a \in Accounts |-> IF Of(inserted, a) = {} THEN pendingNonce[a]
                                     ELSE NextNonce(Of(inserted, a))]
        excess == Equalised(promoted)
    IN
    /\ stage = "promoting"
    /\ pending' = promoted \ excess
    /\ queue' = (queue \ old) \ (ready \cup capped)
    /\ all' = index \ excess
    /\ beats' = beats \cup Senders(inserted)
    /\ pendingNonce' = Lowered(alive, excess)
    /\ dirty' = {}
    /\ \E D \in Truncations(queue', beats') :
          /\ drops' = D
          /\ stage' = IF D = {} THEN Continue ELSE "dropping"
    /\ after' = Continue
    /\ UNCHANGED <<locals, heads, batch, asLocal, resetting>>

-----------------------------------------------------------------------------
(* reset and demoteUnexecutables                                           *)

\* What a reorganisation from the remembered head to one with these nonces hands
\* back: transactions of the abandoned branch that the new branch lacks.  Their
\* nonces were used at the old head (or were next, and the transaction failed).
\* The new branch cannot contain a nonce it has not reached, so each of those the
\* old head had used is among them.
Reinjected(nonces) ==
    {R \in SUBSET Txs :
        /\ Cardinality(R) <= MaxBatch
        /\ \A t \in R : Nonce[t] <= headNonce[From[t]]
        /\ \A a \in Accounts : \A n \in nonces[a] + 1 .. headNonce[a] - 1 :
              \E t \in R : From[t] = a /\ Nonce[t] = n}

\* A new head arrives in loop.  One that is too far away brings no transactions.
Reset(nonces, reinject) ==
    /\ stage = "idle"
    /\ currentNonce' = nonces
    /\ pendingNonce' = nonces
    /\ headNonce' = nonces
    /\ stage' = "adding" /\ batch' = reinject /\ asLocal' = FALSE
    /\ resetting' = TRUE
    /\ UNCHANGED <<pending, queue, all, beats, locals, dirty, drops, after>>

\* The state or an ancestor of the new head is missing: reset returns early, but
\* loop remembers the head all the same.
ResetFails(nonces) ==
    /\ stage = "idle"
    /\ headNonce' = nonces
    /\ UNCHANGED <<lists, currentNonce, call>>

\* demoteUnexecutables drops what the head state has executed and queues a list
\* whose front is missing; then reset sets the pending nonces and promotes from
\* every queued account.
DemoteUnexecutables ==
    LET old == Forward(pending, currentNonce)
        rest == pending \ old
        index == all \ old
        gapped == {t \in rest : \A u \in Of(rest, From[t]) : Nonce[u] # currentNonce[From[t]]}
        left == rest \ gapped
    IN
    /\ stage = "demoting"
    /\ pending' = left
    /\ queue' = AddList(queue, gapped)
    /\ all' = Enqueued(index, gapped)
    /\ beats' = beats \ (Senders(pending) \ Senders(left))
    /\ pendingNonce' = [a \in Accounts |-> IF Of(left, a) = {} THEN pendingNonce[a]
                                           ELSE NextNonce(Of(left, a))]
    /\ dirty' = Senders(queue')
    /\ stage' = "promoting"
    /\ resetting' = FALSE
    /\ UNCHANGED <<locals, heads, batch, asLocal, drops, after>>

-----------------------------------------------------------------------------
(* The eviction tick and SetPriority                                       *)

DropAll(D) ==
    /\ stage = "idle"
    /\ D # {}
    /\ drops' = D /\ stage' = "dropping" /\ after' = "idle"
    /\ UNCHANGED <<lists, heads, batch, asLocal, dirty, resetting>>

\* The queued transactions of accounts whose heartbeat is older than Lifetime.
\* An account that has no heartbeat is always too old.
Evict(expired) ==
    /\ expired \subseteq Senders(queue) \ locals
    /\ (Senders(queue) \ locals) \ beats \subseteq expired
    /\ DropAll({t \in queue : From[t] \in expired})

\* SetPriority drops the remote transactions below the threshold.
SetPriority(threshold) ==
    DropAll({t \in Remotes : Prio[t] < threshold})

\* The calls that take pool.mu, and the steps of the operation that holds it.
External ==
    \/ \E txs \in SUBSET Txs, local \in BOOLEAN :
          txs # {} /\ Cardinality(txs) <= MaxBatch /\ AddTxs(txs, local)
    \/ \E nonces \in HeadNonces :
          \/ \E reinject \in Reinjected(nonces) \cup {{}} : Reset(nonces, reinject)
          \/ ResetFails(nonces)
    \/ \E expired \in SUBSET Accounts : Evict(expired)
    \/ \E t \in Txs : SetPriority(Prio[t])

Internal ==
    \/ \E t \in Txs : \/ AddRejected(t)
                      \/ AddDiscard(t)
                      \/ RemoveTx(t)
    \/ AddDone
    \/ PromoteExecutables
    \/ DemoteUnexecutables

Next ==
    \/ External
    \/ Internal
    \/ \E t \in Txs : AddReplacePending(t) \/ AddEnqueue(t)

Spec == Init /\ [][Next]_vars

-----------------------------------------------------------------------------
(* Properties                                                              *)

\* An account never has two transactions with one nonce in the pool, be it in one
\* list or one in each: add looks at pending before it touches the queue, and
\* every move between the lists takes the transaction out of the one it leaves.
\* (Otherwise promoteTx and enqueueTx would silently discard one of them.)
OneTxPerNonce ==
    /\ pending \cap queue = {}
    /\ \A t, u \in pending \cup queue :
          From[t] = From[u] /\ Nonce[t] = Nonce[u] => t = u

\* Every queued transaction is in the index `all', so that it can be looked up,
\* evicted and counted against the limits, whatever removeTx, demotion and
\* replacement did before.
QueueIndexed == queue \subseteq all

\* When no operation runs, no transaction in the pool has a nonce the head state
\* has already used: add does not check the nonce, so this rests on the
\* promotion and demotion that follow it.
NoStaleTx ==
    stage = "idle" =>
        \A t \in pending \cup queue : Nonce[t] >= currentNonce[From[t]]

\* The three together, with the types: what the lists and the index of the pool
\* promise each other however add, removeTx, promotion, demotion, eviction and
\* resets of the head state follow each other.
PoolSound == TypeOK /\ OneTxPerNonce /\ QueueIndexed /\ NoStaleTx

\* The pending limit after every operation: the total is within GlobalSlots, or
\* every account that is not local is within AccountSlots.
PendingLimited ==
    stage = "idle" =>
        \/ Cardinality(pending) <= GlobalSlots
        \/ \A a \in Accounts \ locals : Cardinality(Of(pending, a)) <= AccountSlots

\* A transaction of a local account leaves the pool only when the head state has
\* used its nonce or a transaction of higher priority takes its nonce: no limit,
\* eviction, discard or demotion ever drops it.
LocalsKept ==
    [][\A t \in pending \cup queue : From[t] \in locals =>
          \/ t \in pending' \cup queue'
          \/ Nonce[t] < currentNonce[From[t]]
          \/ \E u \in pending' \cup queue' :
                From[u] = From[t] /\ Nonce[u] = Nonce[t] /\ Prio[u] > Prio[t]]_vars

\* What the equalisation cuts never takes an account below AccountSlots pending
\* transactions, "Minimum number of executable transaction slots guaranteed per
\* account": only removeTx and demotion do.
SlotsGuaranteed ==
    [][stage = "promoting" =>
          \A a \in Accounts :
             \/ Of(pending, a) \subseteq pending'
             \/ Cardinality(Of(pending', a)) >= AccountSlots]_vars

\* The limits are met and fairly so: after every operation the pending limit
\* holds, and meeting it took no account below its guaranteed slots and nothing
\* from a local account.
SlotsFair == []PendingLimited /\ SlotsGuaranteed /\ LocalsKept

-----------------------------------------------------------------------------
(* What the comments and tests of the pool say, where the code disagrees   *)

\* removeTx "removes a single transaction from the queue, moving all subsequent
\* transactions back to the future queue".
RemoveKeepsSubsequent ==
    [][stage = "dropping" =>
          \A t \in drops \ drops' : \A u \in (pending \cup queue) \ drops :
             Slot({u}, t) = {} => u \in pending' \cup queue']_vars

=============================================================================
