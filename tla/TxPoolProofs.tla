---------------------------- MODULE TxPoolProofs ----------------------------
(***************************************************************************)
(* Proofs about the transaction pool and about the pool with its journal,  *)
(* for every set of accounts and transactions and every configuration.     *)
(***************************************************************************)
EXTENDS TxPoolJournal, FiniteSetTheorems, WellFoundedInduction, TLAPS

\* Every non-empty set of naturals has a least element.
LEMMA LeastNat ==
    ASSUME NEW S \in SUBSET Nat, S # {}
    PROVE  \E x \in S : \A y \in S : x <= y
<1> DEFINE R == {ss \in Nat \X Nat : ss[1] < ss[2]}
<1>1. IsWellFoundedOn(R, Nat)
  BY NatLessThanWellFounded DEF OpToRel
<1>2. PICK x \in S : \A y \in S : ~(<<y, x>> \in R)
  BY <1>1, WFMin, Zenon
<1>3. \A y \in S : x <= y
  <2> TAKE y \in S
  <2>1. x \in Nat /\ y \in Nat
    OBVIOUS
  <2>2. ~(y < x)
    <3>1. SUFFICES ASSUME y < x PROVE FALSE
      OBVIOUS
    <3>2. <<y, x>> \in R
      BY <2>1, <3>1
    <3> QED
      BY <3>2, <1>2
  <2> QED
    BY <2>1, <2>2
<1> QED
  BY <1>3

\* The Min of a non-empty set of naturals is its least element.
LEMMA MinNat ==
    ASSUME NEW S \in SUBSET Nat, S # {}
    PROVE  Min(S) \in S /\ \A y \in S : Min(S) <= y
BY LeastNat, Zenon DEF Min

\* The Max of a non-empty set of naturals up to N is its greatest element.
LEMMA MaxNat ==
    ASSUME NEW N \in Nat, NEW S \in SUBSET (0..N), S # {}
    PROVE  Max(S) \in S /\ \A y \in S : Max(S) >= y
<1> DEFINE T == {N - x : x \in S}
<1>1. T \in SUBSET Nat /\ T # {}
  <2>1. \A x \in S : N - x \in Nat
    OBVIOUS
  <2>2. PICK s \in S : TRUE
    BY Zenon
  <2>3. N - s \in T
    OBVIOUS
  <2> QED
    BY <2>1, <2>3
<1>2. PICK m \in T : \A y \in T : m <= y
  BY <1>1, LeastNat, Zenon
<1>3. PICK x \in S : m = N - x
  BY <1>2
<1>4. \A y \in S : x >= y
  <2> TAKE y \in S
  <2>1. m <= N - y
    BY <1>2
  <2>2. x \in 0..N /\ y \in 0..N
    OBVIOUS
  <2> HIDE DEF T
  <2> QED
    BY <2>1, <2>2, <1>3
<1> QED
  BY <1>3, <1>4, Zenon DEF Max

-----------------------------------------------------------------------------
(* The inductive invariant.                                                *)

Distinct(S) == \A t, u \in S : From[t] = From[u] /\ Nonce[t] = Nonce[u] => t = u

\* Outside a reset, what is pending has not been executed, and neither has what is
\* queued, except in accounts that promoteExecutables will look at.
StaleOnlyIfDirty ==
    ~resetting => /\ \A t \in pending : Nonce[t] >= currentNonce[From[t]]
                  /\ \A t \in queue : \/ Nonce[t] >= currentNonce[From[t]]
                                      \/ From[t] \in dirty

\* An operation ends only when promoteExecutables has dealt with every dirty
\* account and a reset has demoted; removeTx is never called for a local account.
StageOK ==
    /\ stage = "idle" \/ (stage = "dropping" /\ after = "idle") => dirty = {} /\ ~resetting
    /\ stage = "dropping" => \A t \in drops : From[t] \notin locals

IndInv ==
    /\ TypeOK
    /\ OneTxPerNonce
    /\ QueueIndexed
    /\ StaleOnlyIfDirty
    /\ StageOK

-----------------------------------------------------------------------------
(* Lemmas on the list operators.                                           *)

\* Adding transactions whose nonces are all free adds exactly those.
LEMMA AddListFree ==
    ASSUME NEW S \in SUBSET Txs, NEW T \in SUBSET Txs,
           S \cap T = {}, Distinct(S \cup T)
    PROVE  /\ Accepted(S, T) = T
           /\ Replaced(S, T) = {}
           /\ AddList(S, T) = S \cup T
<1>1. \A t \in T : Slot(S, t) = {}
  BY DEF Slot, Distinct
<1>2. Accepted(S, T) = T
  BY <1>1 DEF Accepted, Refuses
<1>3. Replaced(S, T) = {}
  BY <1>1, <1>2 DEF Replaced
<1> QED
  BY <1>2, <1>3 DEF AddList

\* Adding one transaction that is not refused replaces what was in its slot.
LEMMA AddListOne ==
    ASSUME NEW S \in SUBSET Txs, NEW t \in Txs, ~Refuses(S, t)
    PROVE  /\ Accepted(S, {t}) = {t}
           /\ Replaced(S, {t}) = Slot(S, t)
           /\ AddList(S, {t}) = (S \ Slot(S, t)) \cup {t}
<1>1. Accepted(S, {t}) = {t}
  BY DEF Accepted
<1>2. Replaced(S, {t}) = Slot(S, t)
  BY <1>1 DEF Replaced
<1> QED
  BY <1>1, <1>2 DEF AddList

\* Lists only ever hold what was put into them.
LEMMA AddListType ==
    ASSUME NEW S \in SUBSET Txs, NEW T \in SUBSET Txs
    PROVE  AddList(S, T) \subseteq Txs /\ Accepted(S, T) \subseteq T
BY DEF AddList, Accepted

\* Senders are accounts.
LEMMA SendersType ==
    ASSUME NEW S \in SUBSET Txs
    PROVE  Senders(S) \subseteq Accounts
BY TxAssumption DEF Senders

\* The nonce after the last transaction of a list is an account nonce.
LEMMA NextNonceType ==
    ASSUME NEW S \in SUBSET Txs, S # {}
    PROVE  NextNonce(S) \in 0..MaxNonce + 1
<1> DEFINE N == {Nonce[t] : t \in S}
<1>1. N \in SUBSET (0..MaxNonce) /\ N # {} /\ MaxNonce \in Nat
  BY TxAssumption
<1>2. Max(N) \in 0..MaxNonce
  BY <1>1, MaxNat, Zenon
<1> QED
  BY <1>1, <1>2 DEF NextNonce

\* Lowering account nonces keeps them account nonces.
LEMMA LoweredType ==
    ASSUME NEW D \in SUBSET Txs, NEW f \in [Accounts -> 0..MaxNonce + 1]
    PROVE  Lowered(f, D) \in [Accounts -> 0..MaxNonce + 1]
<1>1. ASSUME NEW a \in Accounts
      PROVE  Min({f[a]} \cup {Nonce[t] : t \in Of(D, a)}) \in 0..MaxNonce + 1
  <2> DEFINE N == {f[a]} \cup {Nonce[t] : t \in Of(D, a)}
  <2>1. N \in SUBSET (0..MaxNonce + 1) /\ N # {}
    BY TxAssumption DEF Of
  <2>2. N \in SUBSET Nat
    BY <2>1, TxAssumption
  <2>3. Min(N) \in N
    BY <2>1, <2>2, MinNat, Zenon
  <2> QED
    BY <2>1, <2>3
<1> QED
  BY <1>1 DEF Lowered

-----------------------------------------------------------------------------
(* Type correctness, action by action.                                     *)

\* A new pool (NewTxPool) is well typed.
LEMMA TypeInit == Init => TypeOK
BY TxAssumption, ZenonT(60) DEF Init, TypeOK, Stages

\* Every step of the pool keeps it well typed.
LEMMA TypeNext == TypeOK /\ [Next]_vars => TypeOK'
<1> SUFFICES ASSUME TypeOK, [Next]_vars PROVE TypeOK'
  OBVIOUS
<1> USE DEF TypeOK, Stages
<1>1. ASSUME NEW txs \in SUBSET Txs, NEW local \in BOOLEAN, AddTxs(txs, local)
      PROVE  TypeOK'
  BY <1>1 DEF AddTxs, lists, heads
<1>2. ASSUME NEW t \in Txs, AddRejected(t) PROVE TypeOK'
  BY <1>2 DEF AddRejected, Adding, lists, heads
<1>3. ASSUME NEW t \in Txs, AddDiscard(t) PROVE TypeOK'
  BY <1>3 DEF AddDiscard, Adding, Discard, Remotes, lists, heads
<1>4. ASSUME NEW t \in Txs, AddReplacePending(t) PROVE TypeOK'
  <2>1. AddList(pending, {t}) \subseteq Txs
    BY AddListType, Zenon
  <2> QED
    BY <1>4, <2>1, Zenon DEF AddReplacePending, Adding, heads
<1>5. ASSUME NEW t \in Txs, AddEnqueue(t) PROVE TypeOK'
  <2>1. AddList(queue, {t}) \subseteq Txs /\ Enqueued(all, {t}) \subseteq Txs
    BY AddListType, ZenonT(60) DEF Enqueued
  <2>2. From[t] \in Accounts
    BY TxAssumption, SMTT(60)
  <2> QED
    BY <1>5, <2>1, <2>2, Zenon DEF AddEnqueue, Adding, heads
<1>6. ASSUME NEW t \in Txs, RemoveTx(t) PROVE TypeOK'
  <2>1. /\ pending' \subseteq Txs /\ queue' \subseteq Txs /\ all' \subseteq Txs
        /\ beats' \subseteq Accounts
    BY <1>6, ZenonT(60) DEF RemoveTx, lists, AddList, Enqueued, Accepted, Of
  <2>2. pendingNonce' \in [Accounts -> 0..MaxNonce + 1]
    BY <1>6, LoweredType DEF RemoveTx, lists
  <2> QED
    BY <1>6, <2>1, <2>2 DEF RemoveTx, lists, heads
<1>7. CASE AddDone
  BY <1>7 DEF AddDone, Continue, lists, heads
<1>8. CASE PromoteExecutables
  <2> DEFINE old == {t \in Forward(queue, currentNonce) : From[t] \in dirty}
             ready == Ready(queue \ old, dirty, pendingNonce)
             inserted == Accepted(pending, ready)
             alive == [a \in Accounts |-> IF Of(inserted, a) = {} THEN pendingNonce[a]
                                          ELSE NextNonce(Of(inserted, a))]
             excess == Equalised(AddList(pending, ready))
  <2>1. ready \subseteq Txs /\ inserted \subseteq Txs /\ AddList(pending, ready) \subseteq Txs
    BY DEF Ready, Accepted, AddList
  <2>2. excess \subseteq Txs
    BY <2>1 DEF Equalised, Cap
  <2>3. Senders(inserted) \subseteq Accounts
    BY <2>1, SendersType
  <2>4. alive \in [Accounts -> 0..MaxNonce + 1]
    BY <2>1, NextNonceType DEF Of
  <2>5. Lowered(alive, excess) \in [Accounts -> 0..MaxNonce + 1]
    BY <2>2, <2>4, LoweredType, ZenonT(60)
  <2>6. \A D \in Truncations(queue', beats') : D \subseteq queue'
    BY DEF Truncations
  <2> QED
    BY <1>8, <2>1, <2>3, <2>5, <2>6, ZenonT(60) DEF PromoteExecutables, Continue, heads
<1>9. ASSUME NEW nonces \in HeadNonces, NEW R \in Reinjected(nonces) \cup {{}}, Reset(nonces, R)
      PROVE  TypeOK'
  BY <1>9, TxAssumption, Zenon DEF Reset, Reinjected
<1>10. ASSUME NEW nonces \in HeadNonces, ResetFails(nonces) PROVE TypeOK'
  BY <1>10, TxAssumption DEF ResetFails, lists, call
<1>11. CASE DemoteUnexecutables
  <2> DEFINE old == Forward(pending, currentNonce)
             rest == pending \ old
             gapped == {t \in rest : \A u \in Of(rest, From[t]) : Nonce[u] # currentNonce[From[t]]}
             left == rest \ gapped
  <2>1. left \subseteq Txs /\ gapped \subseteq Txs
    OBVIOUS
  <2>2. AddList(queue, gapped) \subseteq Txs /\ Enqueued(all \ old, gapped) \subseteq Txs
    BY <2>1, SMTT(60) DEF AddList, Accepted, Enqueued
  <2>3. [a \in Accounts |-> IF Of(left, a) = {} THEN pendingNonce[a]
                            ELSE NextNonce(Of(left, a))] \in [Accounts -> 0..MaxNonce + 1]
    BY <2>1, NextNonceType DEF Of
  <2>4. Senders(queue') \subseteq Accounts
    <3>1. queue' \in SUBSET Txs
      BY <1>11, <2>2, Zenon DEF DemoteUnexecutables
    <3> QED
      BY <3>1, SendersType
  <2> QED
    BY <1>11, <2>1, <2>2, <2>3, <2>4, ZenonT(60) DEF DemoteUnexecutables, heads
<1>12. ASSUME NEW E \in SUBSET Accounts, Evict(E) PROVE TypeOK'
  BY <1>12 DEF Evict, DropAll, lists, heads
<1>13. ASSUME NEW t \in Txs, SetPriority(Prio[t]) PROVE TypeOK'
  BY <1>13 DEF SetPriority, DropAll, Remotes, lists, heads
<1>14. CASE UNCHANGED vars
  BY <1>14 DEF vars, lists, heads, call
<1> QED
  BY <1>1, <1>2, <1>3, <1>4, <1>5, <1>6, <1>7, <1>8, <1>9, <1>10, <1>11, <1>12, <1>13, <1>14, SMTT(60)
     DEF Next, External, Internal

\* Every reachable state of the pool is well typed; in particular the virtual
\* nonces never leave the range of account nonces.
THEOREM PoolTypeCorrect == Spec => []TypeOK
BY TypeInit, TypeNext, PTL DEF Spec

-----------------------------------------------------------------------------
(* The inductive invariant, action by action.                              *)

\* The lists and the index are as they were: only the control state moves.
LEMMA ListsUnchanged ==
    ASSUME OneTxPerNonce, QueueIndexed, UNCHANGED lists
    PROVE  OneTxPerNonce' /\ QueueIndexed'
BY DEF OneTxPerNonce, QueueIndexed, lists

\* A new pool (NewTxPool) satisfies the inductive invariant: its lists are empty.
LEMMA InvInit == Init => IndInv
BY TypeInit DEF Init, IndInv, OneTxPerNonce, QueueIndexed, StaleOnlyIfDirty, StageOK

\* add, in each of its four outcomes, preserves the inductive invariant.
LEMMA InvAdd ==
    ASSUME IndInv, NEW t \in Txs,
           AddRejected(t) \/ AddDiscard(t) \/ AddReplacePending(t) \/ AddEnqueue(t)
    PROVE  (OneTxPerNonce /\ QueueIndexed /\ StaleOnlyIfDirty /\ StageOK)'
<1> USE DEF IndInv
<1>1. CASE AddRejected(t)
  BY <1>1, ListsUnchanged, SMTT(60)
     DEF AddRejected, Adding, StaleOnlyIfDirty, StageOK, lists, heads
<1>2. CASE AddDiscard(t)
  <2>1. \A u \in drops' : From[u] \notin locals
    BY <1>2 DEF AddDiscard, Discard, Remotes
  <2> QED
    BY <1>2, <2>1, ListsUnchanged, SMTT(60)
       DEF AddDiscard, Adding, StaleOnlyIfDirty, StageOK, lists, heads
<1>3. CASE AddReplacePending(t)
  <2>1. pending' = (pending \ Slot(pending, t)) \cup {t}
    BY <1>3, AddListOne, Zenon DEF AddReplacePending, TypeOK
  <2>2. PICK u \in pending : From[u] = From[t] /\ Nonce[u] = Nonce[t]
    BY <1>3, Zenon DEF AddReplacePending, Slot
  <2>3. t \notin queue
    BY <1>3, SMTT(60) DEF AddReplacePending, QueueIndexed
  <2>4. OneTxPerNonce'
    BY <1>3, <2>1, <2>2, <2>3, SMTT(60) DEF AddReplacePending, OneTxPerNonce, Slot
  <2>5. QueueIndexed'
    BY <1>3, SMTT(60) DEF AddReplacePending, OneTxPerNonce, QueueIndexed, Slot
  <2>6. StaleOnlyIfDirty'
    BY <1>3, <2>1, <2>2, ZenonT(60) DEF AddReplacePending, StaleOnlyIfDirty, heads
  <2>7. StageOK'
    BY <1>3 DEF AddReplacePending, Adding, StageOK
  <2> QED
    BY <2>4, <2>5, <2>6, <2>7
<1>4. CASE AddEnqueue(t)
  <2>1. /\ queue' = (queue \ Slot(queue, t)) \cup {t}
        /\ all' = (all \ Slot(queue, t)) \cup {t}
    BY <1>4, AddListOne, ZenonT(60) DEF AddEnqueue, Enqueued, TypeOK
  <2>2. \A u \in pending : ~(From[u] = From[t] /\ Nonce[u] = Nonce[t])
    BY <1>4, SMTT(60) DEF AddEnqueue, Slot
  <2>3. OneTxPerNonce'
    BY <1>4, <2>1, <2>2, SMTT(60) DEF AddEnqueue, OneTxPerNonce, Slot
  <2>4. QueueIndexed'
    BY <2>1 DEF QueueIndexed
  <2>5. StaleOnlyIfDirty'
    <3>1. CASE Slot(queue, t) = {}
      BY <1>4, <2>1, <3>1, ZenonT(60) DEF AddEnqueue, StaleOnlyIfDirty, heads
    <3>2. CASE Slot(queue, t) # {}
      <4>1. PICK u \in queue : From[u] = From[t] /\ Nonce[u] = Nonce[t]
        BY <3>2, Zenon DEF Slot
      <4>2. dirty' = dirty
        BY <1>4, <3>2, ZenonT(60) DEF AddEnqueue
      <4> QED
        BY <1>4, <2>1, <4>1, <4>2, ZenonT(60) DEF AddEnqueue, StaleOnlyIfDirty, heads
    <3> QED
      BY <3>1, <3>2
  <2>6. StageOK'
    BY <1>4 DEF AddEnqueue, Adding, StageOK
  <2> QED
    BY <2>3, <2>4, <2>5, <2>6
<1> QED
  BY <1>1, <1>2, <1>3, <1>4, SMTT(60)

\* What leaves pending for the queue finds its place there free.
LEMMA FreeOfQueue ==
    ASSUME OneTxPerNonce, NEW S, S \subseteq pending
    PROVE  queue \cap S = {} /\ Distinct(queue \cup S)
BY Zenon DEF OneTxPerNonce, Distinct

\* removeTx, by sender and nonce: a transaction outside the lists may take another
\* one with it, but never leaves a queued one out of the index.
LEMMA InvRemove ==
    ASSUME IndInv, NEW t \in Txs, RemoveTx(t)
    PROVE  (OneTxPerNonce /\ QueueIndexed /\ StaleOnlyIfDirty /\ StageOK)'
<1> DEFINE hit == Slot(pending, t)
           invalids == {u \in Of(pending, From[t]) : Nonce[u] > Nonce[t]}
           left == Of(pending, From[t]) \ (hit \cup invalids)
           back == IF left = {} THEN {} ELSE invalids
<1> USE DEF IndInv
<1>1. StageOK'
  <2>1. /\ stage = "dropping" /\ drops' \subseteq drops /\ locals' = locals
        /\ dirty' = dirty /\ resetting' = resetting /\ after' = after
        /\ stage' = "dropping" \/ stage' = after
    BY ZenonT(60) DEF RemoveTx, lists
  <2> HIDE DEF hit, invalids, left, back
  <2> QED
    BY <2>1, SMTT(60) DEF StageOK
<1>2. CASE t \notin all
  BY <1>1, <1>2, ListsUnchanged DEF RemoveTx, StaleOnlyIfDirty, lists, heads
<1>3. CASE t \in all /\ hit # {}
  <2>1. back \subseteq pending /\ back \in SUBSET Txs /\ invalids \subseteq pending
    BY SMTT(60) DEF Of, TypeOK
  <2>2. queue \cap back = {} /\ Distinct(queue \cup back)
    BY <2>1, FreeOfQueue, Zenon
  <2>3. Accepted(queue, back) = back /\ Replaced(queue, back) = {} /\ AddList(queue, back) = queue \cup back
    BY <2>1, <2>2, AddListFree, ZenonT(60) DEF TypeOK
  <2>4. /\ pending' = pending \ (hit \cup invalids)
        /\ queue' = queue \cup back
        /\ all' = (all \ {t}) \cup back
    BY <1>3, <2>3, ZenonT(60) DEF RemoveTx, Enqueued
  <2>5. t \notin queue
    BY <1>3, SMTT(60) DEF OneTxPerNonce, Slot
  <2>6. OneTxPerNonce'
    <3>1. back \cap pending' = {}
      BY <2>4, SMTT(60)
    <3> HIDE DEF back, hit, invalids
    <3> QED
      BY <2>1, <2>4, <3>1, SMTT(60) DEF OneTxPerNonce
  <2>7. QueueIndexed'
    BY <2>4, <2>5, SMTT(60) DEF QueueIndexed
  <2>8. StaleOnlyIfDirty'
    <3> HIDE DEF back, hit, invalids
    <3> QED
      BY <2>1, <2>4 DEF StaleOnlyIfDirty, RemoveTx, heads
  <2> QED
    BY <1>1, <2>6, <2>7, <2>8, SMTT(60)
<1>4. CASE t \in all /\ hit = {}
  <2>1. /\ pending' = pending
        /\ queue' = queue \ Slot(queue, t)
        /\ all' = all \ {t}
    BY <1>4 DEF RemoveTx
  <2>2. t \in queue => t \in Slot(queue, t)
    BY SMTT(60) DEF Slot
  <2>3. OneTxPerNonce' /\ QueueIndexed'
    BY <2>1, <2>2, SMTT(60) DEF OneTxPerNonce, QueueIndexed
  <2>4. StaleOnlyIfDirty'
    BY <2>1 DEF StaleOnlyIfDirty, RemoveTx, heads
  <2> QED
    BY <1>1, <2>3, <2>4, SMTT(60)
<1> QED
  BY <1>2, <1>3, <1>4, SMTT(60)

\* promoteExecutables moves whole transactions from the queue to pending: the slots
\* they go to are free, because no account has two transactions with one nonce.
LEMMA InvPromote ==
    ASSUME IndInv, PromoteExecutables
    PROVE  (OneTxPerNonce /\ QueueIndexed /\ StaleOnlyIfDirty /\ StageOK)'
<1> DEFINE old == {t \in Forward(queue, currentNonce) : From[t] \in dirty}
           ready == Ready(queue \ old, dirty, pendingNonce)
           capped == Cap((queue \ old) \ ready, dirty \ locals, AccountQueue)
           excess == Equalised(AddList(pending, ready))
<1> USE DEF IndInv
<1>1. old \subseteq queue /\ ready \subseteq queue \ old /\ capped \subseteq (queue \ old) \ ready
  BY ZenonT(60) DEF Forward, Ready, Cap
<1>2. pending \cap ready = {} /\ Distinct(pending \cup ready)
  BY <1>1, Zenon DEF OneTxPerNonce, Distinct
<1>3. /\ Accepted(pending, ready) = ready
      /\ Replaced(pending, ready) = {}
      /\ AddList(pending, ready) = pending \cup ready
  <2>1. pending \in SUBSET Txs /\ ready \in SUBSET Txs
    BY <1>1, SMTT(60) DEF TypeOK
  <2> QED
    BY <1>2, <2>1, AddListFree, ZenonT(60)
<1>4. excess \subseteq pending \cup ready
  BY <1>3 DEF Equalised, Cap
<1>5. /\ pending' = (pending \cup ready) \ excess
      /\ queue' = (queue \ old) \ (ready \cup capped)
      /\ all' = ((all \ (old \cup ready \cup capped)) \cup ready) \ excess
  BY <1>3, Zenon DEF PromoteExecutables
<1>6. \A t \in queue \ old : From[t] \in dirty => Nonce[t] >= currentNonce[From[t]]
  <2> SUFFICES ASSUME NEW t \in queue \ old, From[t] \in dirty
               PROVE  Nonce[t] >= currentNonce[From[t]]
    BY SMTT(60)
  <2>1. ~(Nonce[t] < currentNonce[From[t]])
    BY DEF Forward
  <2>2. t \in Txs /\ Nonce[t] \in Int /\ currentNonce[From[t]] \in Int
    BY TxAssumption DEF TypeOK
  <2> HIDE DEF old, ready, capped, excess, IndInv
  <2> QED
    BY <2>1, <2>2, SMTT(60)
<1>7. OneTxPerNonce'
  <2> HIDE DEF old, ready, capped, excess
  <2> QED
    BY <1>1, <1>5 DEF OneTxPerNonce
<1>8. QueueIndexed'
  <2>1. \A t \in queue' : t \in queue /\ t \notin ready /\ t \notin pending /\ t \notin old /\ t \notin capped
    <3> HIDE DEF old, ready, capped, excess
    <3> QED
      BY <1>5 DEF OneTxPerNonce
  <2> HIDE DEF old, ready, capped, excess
  <2> QED
    BY <1>4, <1>5, <2>1 DEF QueueIndexed
<1>9. StaleOnlyIfDirty'
  <2> HIDE DEF old, ready, capped, excess
  <2> SUFFICES ASSUME ~resetting
               PROVE  /\ \A t \in pending' : Nonce[t] >= currentNonce[From[t]]
                      /\ \A t \in queue' : Nonce[t] >= currentNonce[From[t]]
    BY ZenonT(60) DEF StaleOnlyIfDirty, PromoteExecutables, heads
  <2>1. \A t \in queue \ old : Nonce[t] >= currentNonce[From[t]]
    BY <1>6 DEF StaleOnlyIfDirty
  <2> QED
    BY <1>1, <1>5, <2>1, SMTT(60) DEF StaleOnlyIfDirty
<1>10. StageOK'
  <2>1. \A D \in Truncations(queue', beats') : \A t \in D : From[t] \notin locals
    BY SMTT(60) DEF Truncations
  <2>2. \A t \in drops' : From[t] \notin locals'
    BY <2>1, ZenonT(60) DEF PromoteExecutables
  <2>3. dirty' = {} /\ resetting' = resetting /\ after' = Continue /\ stage' \in {Continue, "dropping"}
    BY DEF PromoteExecutables
  <2> QED
    BY <2>2, <2>3, SMTT(60) DEF StageOK, Continue
<1> QED
  BY <1>7, <1>8, <1>9, <1>10, SMTT(60)

\* demoteUnexecutables leaves nothing stale in pending and makes every queued
\* account dirty.
LEMMA InvDemote ==
    ASSUME IndInv, DemoteUnexecutables
    PROVE  (OneTxPerNonce /\ QueueIndexed /\ StaleOnlyIfDirty /\ StageOK)'
<1> DEFINE old == Forward(pending, currentNonce)
           rest == pending \ old
           gapped == {t \in rest : \A u \in Of(rest, From[t]) : Nonce[u] # currentNonce[From[t]]}
<1> USE DEF IndInv
<1>1. old \subseteq pending /\ gapped \subseteq pending \ old
  BY DEF Forward
<1>2. queue \cap gapped = {} /\ Distinct(queue \cup gapped)
  <2>1. gapped \subseteq pending
    BY <1>1, Zenon
  <2> QED
    BY <2>1, FreeOfQueue, Zenon
<1>3. /\ Accepted(queue, gapped) = gapped
      /\ Replaced(queue, gapped) = {}
      /\ AddList(queue, gapped) = queue \cup gapped
  <2>1. queue \in SUBSET Txs /\ gapped \in SUBSET Txs
    BY <1>1, SMTT(60) DEF TypeOK
  <2> QED
    BY <1>2, <2>1, AddListFree, ZenonT(60)
<1>4. /\ pending' = (pending \ old) \ gapped
      /\ queue' = queue \cup gapped
      /\ all' = (all \ old) \cup gapped
  BY <1>3, Zenon DEF DemoteUnexecutables, Enqueued
<1>5. \A t \in pending \ old : Nonce[t] >= currentNonce[From[t]]
  <2> SUFFICES ASSUME NEW t \in pending \ old
               PROVE  Nonce[t] >= currentNonce[From[t]]
    OBVIOUS
  <2>1. ~(Nonce[t] < currentNonce[From[t]])
    BY DEF Forward
  <2>2. t \in Txs /\ Nonce[t] \in Int /\ currentNonce[From[t]] \in Int
    BY TxAssumption, SMTT(60) DEF TypeOK
  <2> HIDE DEF old, rest, gapped, IndInv
  <2> QED
    BY <2>1, <2>2
<1> HIDE DEF old, rest, gapped
<1>6. OneTxPerNonce' /\ QueueIndexed'
  BY <1>1, <1>4, SMTT(60) DEF OneTxPerNonce, QueueIndexed
<1>7. StaleOnlyIfDirty'
  <2>1. currentNonce' = currentNonce /\ dirty' = Senders(queue')
    BY Zenon DEF DemoteUnexecutables, heads
  <2>2. \A t \in queue' : From[t] \in dirty'
    BY <2>1, SMTT(60) DEF Senders
  <2> QED
    BY <1>4, <1>5, <2>1, <2>2, SMTT(60) DEF StaleOnlyIfDirty
<1>8. StageOK'
  BY ZenonT(60) DEF DemoteUnexecutables, StageOK
<1> QED
  BY <1>6, <1>7, <1>8, SMTT(60)

\* Every step under pool.mu preserves the inductive invariant.
LEMMA InvNext == IndInv /\ [Next]_vars => IndInv'
<1> SUFFICES ASSUME IndInv, [Next]_vars
             PROVE  (OneTxPerNonce /\ QueueIndexed /\ StaleOnlyIfDirty /\ StageOK)'
  BY TypeNext, SMTT(60) DEF IndInv
<1>1. ASSUME NEW txs, NEW local, AddTxs(txs, local)
      PROVE  (OneTxPerNonce /\ QueueIndexed /\ StaleOnlyIfDirty /\ StageOK)'
  BY <1>1, ListsUnchanged, ZenonT(60) DEF IndInv, AddTxs, StaleOnlyIfDirty, StageOK, lists, heads
<1>2. CASE AddDone
  BY <1>2, ListsUnchanged, ZenonT(60) DEF IndInv, AddDone, Continue, StaleOnlyIfDirty, StageOK, lists, heads
<1>3. ASSUME NEW nonces, NEW R, Reset(nonces, R)
      PROVE  (OneTxPerNonce /\ QueueIndexed /\ StaleOnlyIfDirty /\ StageOK)'
  BY <1>3, SMTT(60) DEF IndInv, Reset, OneTxPerNonce, QueueIndexed, StaleOnlyIfDirty, StageOK
<1>4. ASSUME NEW nonces, ResetFails(nonces)
      PROVE  (OneTxPerNonce /\ QueueIndexed /\ StaleOnlyIfDirty /\ StageOK)'
  BY <1>4, ListsUnchanged, SMTT(60) DEF IndInv, ResetFails, StaleOnlyIfDirty, StageOK, lists, call
<1>5. ASSUME NEW E, Evict(E)
      PROVE  (OneTxPerNonce /\ QueueIndexed /\ StaleOnlyIfDirty /\ StageOK)'
  BY <1>5, ListsUnchanged, SMTT(60) DEF IndInv, Evict, DropAll, StaleOnlyIfDirty, StageOK, lists, heads
<1>6. ASSUME NEW p, SetPriority(p)
      PROVE  (OneTxPerNonce /\ QueueIndexed /\ StaleOnlyIfDirty /\ StageOK)'
  BY <1>6, ListsUnchanged, SMTT(60)
     DEF IndInv, SetPriority, DropAll, Remotes, StaleOnlyIfDirty, StageOK, lists, heads
<1>7. CASE UNCHANGED vars
  BY <1>7, ListsUnchanged DEF IndInv, StaleOnlyIfDirty, StageOK, vars, lists, heads, call
<1> QED
  BY <1>1, <1>2, <1>3, <1>4, <1>5, <1>6, <1>7, InvAdd, InvRemove, InvPromote, InvDemote, SMTT(60) DEF Next, External, Internal

\* The inductive invariant holds in every reachable state of the pool.
LEMMA PoolInvariant == Spec => []IndInv
BY InvInit, InvNext, PTL DEF Spec

\* No account ever has two transactions with one nonce in the pool.
THEOREM PoolOneTxPerNonce == Spec => []OneTxPerNonce
BY PoolInvariant, PTL DEF IndInv

\* Every queued transaction can be found in the index.
THEOREM PoolQueueIndexed == Spec => []QueueIndexed
BY PoolInvariant, PTL DEF IndInv

\* When no operation runs, nothing in the pool has a nonce the head state used,
\* although add accepts transactions without looking at the head state.
THEOREM PoolNoStaleTx == Spec => []NoStaleTx
<1>1. IndInv => NoStaleTx
  BY DEF IndInv, StaleOnlyIfDirty, StageOK, NoStaleTx
<1> QED
  BY <1>1, PoolInvariant, PTL

\* The lists, the index and the head state agree after every step of the pool, for
\* every set of accounts and transactions and every limit.
THEOREM PoolSoundness == Spec => []PoolSound
BY PoolTypeCorrect, PoolOneTxPerNonce, PoolQueueIndexed, PoolNoStaleTx, PTL DEF PoolSound

-----------------------------------------------------------------------------
(* Local transactions are exempt from every limit.                         *)

\* What LocalsKept says of one transaction.
Kept(t) ==
    \/ t \in pending' \cup queue'
    \/ Nonce[t] < currentNonce[From[t]]
    \/ \E u \in pending' \cup queue' :
          From[u] = From[t] /\ Nonce[u] = Nonce[t] /\ Prio[u] > Prio[t]

\* A transaction added to its slot is better than what it replaces.
LEMMA ReplacedIsWorse ==
    ASSUME NEW S \in SUBSET Txs, NEW t \in Txs, ~Refuses(S, t), NEW u \in Slot(S, t)
    PROVE  Prio[t] > Prio[u]
BY TxAssumption DEF Refuses, Slot

\* Nothing is lost when the lists stay as they are.
LEMMA KeptUnchanged ==
    ASSUME NEW t \in pending \cup queue, UNCHANGED <<pending, queue>>
    PROVE  Kept(t)
BY DEF Kept

\* A replacement keeps the slot of what it replaces.
LEMMA KeptAdd ==
    ASSUME IndInv, NEW t \in pending \cup queue, NEW u \in Txs,
           AddReplacePending(u) \/ AddEnqueue(u)
    PROVE  Kept(t)
<1> USE DEF IndInv
<1>1. CASE AddReplacePending(u)
  <2>1. ~Refuses(pending, u) /\ queue' = queue
    BY <1>1, SMTT(60) DEF AddReplacePending
  <2>2. pending' = (pending \ Slot(pending, u)) \cup {u}
    BY <1>1, AddListOne, ZenonT(60) DEF AddReplacePending, TypeOK
  <2>3. CASE t \in Slot(pending, u)
    BY <2>1, <2>2, <2>3, ReplacedIsWorse, ZenonT(60) DEF Kept, Slot, TypeOK
  <2> QED
    BY <2>1, <2>2, <2>3, SMTT(60) DEF Kept
<1>2. CASE AddEnqueue(u)
  <2>1. ~Refuses(queue, u) /\ pending' = pending
    BY <1>2 DEF AddEnqueue
  <2>2. queue' = (queue \ Slot(queue, u)) \cup {u}
    BY <1>2, AddListOne, Zenon DEF AddEnqueue, TypeOK
  <2>3. CASE t \in Slot(queue, u)
    BY <2>1, <2>2, <2>3, ReplacedIsWorse, Zenon DEF Kept, Slot, TypeOK
  <2> QED
    BY <2>1, <2>2, <2>3, SMTT(60) DEF Kept
<1> QED
  BY <1>1, <1>2, SMTT(60)

\* removeTx touches only the account of the transaction it is called on, and is
\* never called on one of a local account.
LEMMA KeptRemove ==
    ASSUME IndInv, NEW t \in pending \cup queue, From[t] \in locals,
           NEW u \in Txs, RemoveTx(u)
    PROVE  Kept(t)
<1> DEFINE hit == Slot(pending, u)
           invalids == {v \in Of(pending, From[u]) : Nonce[v] > Nonce[u]}
           left == Of(pending, From[u]) \ (hit \cup invalids)
           back == IF left = {} THEN {} ELSE invalids
<1> USE DEF IndInv
<1>1. From[t] # From[u]
  BY SMTT(60) DEF RemoveTx, StageOK
<1>2. CASE u \notin all
  BY <1>2, KeptUnchanged, ZenonT(60) DEF RemoveTx, lists
<1>3. CASE u \in all /\ hit # {}
  <2>1. pending' = pending \ (hit \cup invalids) /\ queue' = AddList(queue, back)
    BY <1>3, ZenonT(60) DEF RemoveTx
  <2>2. \A v \in hit \cup invalids \cup back : From[v] = From[u]
    BY DEF Slot, Of
  <2> HIDE DEF hit, invalids, left, back
  <2>3. t \in queue => t \in AddList(queue, back)
    BY <1>1, <2>2, SMTT(60) DEF AddList, Replaced, Accepted, Slot
  <2> QED
    BY <1>1, <2>1, <2>2, <2>3, ZenonT(60) DEF Kept
<1>4. CASE u \in all /\ hit = {}
  <2>1. pending' = pending /\ queue' = queue \ Slot(queue, u)
    BY <1>4, ZenonT(60) DEF RemoveTx
  <2> QED
    BY <1>1, <2>1, SMTT(60) DEF Kept, Slot
<1> QED
  BY <1>2, <1>3, <1>4, SMTT(60)

\* Promotion caps only the lists of accounts that are not local.
LEMMA KeptPromote ==
    ASSUME IndInv, NEW t \in pending \cup queue, From[t] \in locals, PromoteExecutables
    PROVE  Kept(t)
<1> DEFINE old == {u \in Forward(queue, currentNonce) : From[u] \in dirty}
           ready == Ready(queue \ old, dirty, pendingNonce)
           capped == Cap((queue \ old) \ ready, dirty \ locals, AccountQueue)
           excess == Equalised(AddList(pending, ready))
<1> USE DEF IndInv
<1>1. ready \subseteq queue
  BY ZenonT(60) DEF Ready
<1>2. pending \cap ready = {} /\ Distinct(pending \cup ready)
  BY <1>1 DEF OneTxPerNonce, Distinct
<1>3. /\ pending \in SUBSET Txs /\ ready \in SUBSET Txs
  BY <1>1 DEF TypeOK
<1>4. AddList(pending, ready) = pending \cup ready
  BY <1>2, <1>3, AddListFree, ZenonT(60)
<1>5. /\ pending' = (pending \cup ready) \ excess
      /\ queue' = (queue \ old) \ (ready \cup capped)
  BY <1>4, Zenon DEF PromoteExecutables
<1>6. t \notin excess /\ t \notin capped
  BY Zenon DEF Equalised, Cap
<1>7. t \in old => Nonce[t] < currentNonce[From[t]]
  BY SMTT(60) DEF Forward
<1> HIDE DEF old, ready, capped, excess
<1> QED
  BY <1>5, <1>6, <1>7, SMTT(60) DEF Kept

\* Demotion drops only what the head state has executed.
LEMMA KeptDemote ==
    ASSUME IndInv, NEW t \in pending \cup queue, DemoteUnexecutables
    PROVE  Kept(t)
<1> DEFINE old == Forward(pending, currentNonce)
           rest == pending \ old
           gapped == {u \in rest : \A v \in Of(rest, From[u]) : Nonce[v] # currentNonce[From[u]]}
<1> USE DEF IndInv
<1>1. gapped \subseteq pending
  BY SMTT(60)
<1>2. queue \cap gapped = {} /\ Distinct(queue \cup gapped)
  BY <1>1, SMTT(60) DEF OneTxPerNonce, Distinct
<1>3. queue \in SUBSET Txs /\ gapped \in SUBSET Txs
  BY <1>1, SMTT(60) DEF TypeOK
<1>4. /\ pending' = (pending \ old) \ gapped
      /\ queue' = queue \cup gapped
  BY <1>2, <1>3, AddListFree, ZenonT(60) DEF DemoteUnexecutables
<1>5. t \in old => Nonce[t] < currentNonce[From[t]]
  BY DEF Forward
<1> HIDE DEF old, rest, gapped
<1> QED
  BY <1>4, <1>5 DEF Kept

\* No limit, eviction, discard or demotion ever drops a transaction of a local
\* account: it leaves the pool executed or replaced by a better one.
THEOREM PoolLocalsKept == Spec => LocalsKept
<1> DEFINE Keeps == \A t \in pending \cup queue : From[t] \in locals => Kept(t)
<1>1. ASSUME IndInv, [Next]_vars
      PROVE  [Keeps]_vars
  <2> SUFFICES ASSUME NEW t \in pending \cup queue, From[t] \in locals, Next
               PROVE  Kept(t)
    BY <1>1
  <2>1. CASE UNCHANGED lists
    BY <2>1, KeptUnchanged DEF lists
  <2>2. CASE UNCHANGED <<pending, queue>>
    BY <2>2, KeptUnchanged
  <2>3. ASSUME NEW u \in Txs, AddReplacePending(u) \/ AddEnqueue(u)
        PROVE  Kept(t)
    BY <1>1, <2>3, KeptAdd
  <2>4. ASSUME NEW u \in Txs, RemoveTx(u)
        PROVE  Kept(t)
    BY <1>1, <2>4, KeptRemove
  <2>5. CASE PromoteExecutables
    BY <1>1, <2>5, KeptPromote
  <2>6. CASE DemoteUnexecutables
    BY <1>1, <2>6, KeptDemote, SMTT(60)
  <2>7. Next => \/ UNCHANGED lists
                \/ UNCHANGED <<pending, queue>>
                \/ \E u \in Txs : AddReplacePending(u) \/ AddEnqueue(u) \/ RemoveTx(u)
                \/ PromoteExecutables
                \/ DemoteUnexecutables
    BY ZenonT(60) DEF Next, External, Internal, AddTxs, AddRejected, AddDiscard, AddDone, Reset, ResetFails, Evict,
           SetPriority, DropAll
  <2> QED
    BY <2>1, <2>2, <2>3, <2>4, <2>5, <2>6, <2>7, SMTT(60)
<1>2. IndInv /\ [Next]_vars =>
        [\A t \in pending \cup queue : From[t] \in locals =>
           \/ t \in pending' \cup queue'
           \/ Nonce[t] < currentNonce[From[t]]
           \/ \E u \in pending' \cup queue' :
                 From[u] = From[t] /\ Nonce[u] = Nonce[t] /\ Prio[u] > Prio[t]]_vars
  BY <1>1 DEF Kept
<1> QED
  BY <1>2, PoolInvariant, PTL DEF Spec, LocalsKept

-----------------------------------------------------------------------------
(* The limits on pending transactions.                                     *)

\* Every set of transactions is finite, and a part of it is not larger.
LEMMA TxsFinite ==
    ASSUME NEW S \in SUBSET Txs, NEW T \in SUBSET S
    PROVE  /\ IsFiniteSet(S) /\ IsFiniteSet(T)
           /\ Cardinality(S) \in Nat /\ Cardinality(T) \in Nat
           /\ Cardinality(T) <= Cardinality(S)
           /\ Cardinality(T) = Cardinality(S) => S = T
<1>1. IsFiniteSet(S)
  BY TxAssumption, FS_Subset, Zenon
<1>2. IsFiniteSet(T) /\ Cardinality(T) <= Cardinality(S) /\ (Cardinality(S) = Cardinality(T) => S = T)
  BY <1>1, FS_Subset, Zenon
<1>3. Cardinality(S) \in Nat /\ Cardinality(T) \in Nat
  BY <1>1, <1>2, FS_CardinalityType, ZenonT(60)
<1> QED
  BY <1>1, <1>2, <1>3, Zenon

\* What txSortedMap.Cap leaves of a list is not longer than the limit.
LEMMA CapLimits ==
    ASSUME NEW S \in SUBSET Txs, Distinct(S), NEW A, NEW a \in A, NEW n \in Nat
    PROVE  Cardinality(Of(S \ Cap(S, A, n), a)) <= n
<1> DEFINE L == Of(S \ Cap(S, A, n), a)
           below(t) == {u \in Of(S, a) : Nonce[u] < Nonce[t]}
           rank == [t \in L |-> Cardinality(below(t))]
<1>1. L \subseteq S /\ Of(S, a) \in SUBSET Txs /\ \A t \in L : From[t] = a /\ Nonce[t] \in Int
  BY TxAssumption DEF Of
<1>2. ASSUME NEW t \in L PROVE Cardinality(below(t)) \in 0..(n - 1)
  <2>1. below(t) \in SUBSET Of(S, a)
    OBVIOUS
  <2>2. Cardinality(below(t)) \in Nat
    BY <1>1, <2>1, TxsFinite, ZenonT(60)
  <2>3. ~(Cardinality(below(t)) >= n)
    BY <1>1, SMTT(60) DEF Of, Cap
  <2> HIDE DEF below
  <2> QED
    BY <2>2, <2>3
<1>3. ASSUME NEW t \in L, NEW u \in L, Nonce[t] < Nonce[u]
      PROVE  Cardinality(below(t)) # Cardinality(below(u))
  <2>1. below(t) \in SUBSET below(u) /\ below(u) \in SUBSET Txs
    BY <1>1, <1>3, TxAssumption, SMTT(60) DEF Of
  <2>2. t \in below(u) /\ t \notin below(t)
    BY <1>1, <1>3 DEF Of
  <2>3. below(t) # below(u)
    BY <2>2, Zenon
  <2> HIDE DEF below
  <2> QED
    BY <2>1, <2>3, TxsFinite, SMTT(60)
<1>4. ASSUME NEW t \in L, NEW u \in L, t # u
      PROVE  rank[t] # rank[u]
  <2>1. Nonce[t] # Nonce[u]
    BY <1>1, <1>4, SMTT(60) DEF Distinct
  <2>2. Nonce[t] < Nonce[u] \/ Nonce[u] < Nonce[t]
    <3>1. Nonce[t] \in Int /\ Nonce[u] \in Int
      BY <1>1, <1>4, Zenon
    <3> HIDE DEF L
    <3> QED
      BY <2>1, <3>1
  <2> QED
    BY <1>3, <2>2, ZenonT(60)
<1>5. rank \in Injection(L, 0..(n - 1))
  <2>1. rank \in [L -> 0..(n - 1)]
    BY <1>2, Zenon
  <2> HIDE DEF rank, L
  <2> QED
    BY <1>4, <2>1, Zenon DEF Injection, IsInjective
<1>6. IsFiniteSet(0..(n - 1)) /\ Cardinality(0..(n - 1)) = n
  BY FS_Interval
<1> HIDE DEF rank, L
<1>7. Cardinality(L) <= Cardinality(0..(n - 1))
  BY <1>5, <1>6, FS_Injection, ZenonT(60)
<1> QED
  BY <1>6, <1>7 DEF L

\* A list that txSortedMap.Cap shortens keeps as many transactions as the limit.
LEMMA CapKeeps ==
    ASSUME NEW S \in SUBSET Txs, NEW A, NEW n \in Nat, NEW t \in Cap(S, A, n)
    PROVE  Cardinality(Of(S \ Cap(S, A, n), From[t])) >= n
<1> DEFINE C == Of(Cap(S, A, n), From[t])
           N == {Nonce[u] : u \in C}
           kept == Of(S \ Cap(S, A, n), From[t])
<1>1. C \subseteq Txs /\ C \subseteq S /\ t \in C
  BY SMTT(60) DEF Of, Cap
<1>2. N \in SUBSET Nat /\ N # {}
  BY <1>1, TxAssumption, SMTT(60)
<1>3. PICK u \in C : \A v \in C : Nonce[u] <= Nonce[v]
  <2>1. PICK m \in N : \A y \in N : m <= y
    BY <1>2, LeastNat, ZenonT(60)
  <2> QED
    BY <2>1
<1> DEFINE B == {v \in Of(S, From[u]) : Nonce[v] < Nonce[u]}
<1>4. From[u] = From[t] /\ Cardinality(B) >= n
  BY <1>3, SMTT(60) DEF Of, Cap
<1>5. B \in SUBSET kept /\ kept \in SUBSET Txs
  <2>1. ASSUME NEW v \in B, v \in Cap(S, A, n) PROVE FALSE
    <3>1. v \in C
      BY <1>4, <2>1, SMTT(60) DEF Of
    <3>2. Nonce[v] \in Int /\ Nonce[u] \in Int
      BY <1>1, <3>1, TxAssumption
    <3> QED
      BY <1>3, <2>1, <3>1, <3>2, SMTT(60)
  <2> QED
    BY <1>4, <2>1, SMTT(60) DEF Of
<1> HIDE DEF B, kept
<1>6. Cardinality(B) \in Nat /\ Cardinality(kept) \in Nat /\ Cardinality(B) <= Cardinality(kept)
  BY <1>5, TxsFinite, Zenon
<1> QED
  BY <1>4, <1>6 DEF kept

\* The common length of equalised lists guarantees AccountSlots; the pool is then
\* within GlobalSlots, or the length is AccountSlots.
LEMMA EqualLengthFits ==
    ASSUME NEW S \in SUBSET Txs
    PROVE  /\ EqualLength(S) \in Nat
           /\ EqualLength(S) >= AccountSlots
           /\ \/ EqualLength(S) = AccountSlots
              \/ Cardinality(S \ Equalised(S)) <= GlobalSlots
<1> DEFINE Remaining(n) == Cardinality(S \ Cap(S, Accounts \ locals, n))
           top == AccountSlots + Cardinality(S)
           fits == {n \in AccountSlots..top : Remaining(n) <= GlobalSlots}
<1>1. top \in Nat /\ AccountSlots \in Nat
  <2>1. Cardinality(S) \in Nat
    BY TxsFinite, Zenon
  <2> QED
    BY <2>1, ConfigAssumption
<1>2. CASE fits = {}
  <2>1. EqualLength(S) = AccountSlots
    BY <1>2, Zenon DEF EqualLength
  <2> QED
    BY <1>1, <2>1
<1>3. CASE fits # {}
  <2>1. fits \in SUBSET (0..top)
    BY <1>1
  <2> HIDE DEF top
  <2>2. EqualLength(S) = Max(fits)
    BY <1>3, Zenon DEF EqualLength, top
  <2>3. Max(fits) \in fits
    <3> HIDE DEF fits
    <3> QED
      BY <1>1, <1>3, <2>1, MaxNat, Zenon
  <2>4. EqualLength(S) \in AccountSlots..top /\ Remaining(EqualLength(S)) <= GlobalSlots
    BY <2>2, <2>3, Zenon
  <2>5. Cardinality(S \ Equalised(S)) <= GlobalSlots
    BY <2>4, Zenon DEF Equalised
  <2> QED
    BY <1>1, <2>4, <2>5
<1> QED
  BY <1>2, <1>3, Zenon

\* The limit as it holds at any time: between promotions pending only shrinks.
Limited ==
    \/ Cardinality(pending) <= GlobalSlots
    \/ \A a \in Accounts \ locals : Cardinality(Of(pending, a)) <= AccountSlots

\* promoteExecutables establishes the limit and cuts no list below its slots.
LEMMA LimitedPromote ==
    ASSUME IndInv, PromoteExecutables
    PROVE  /\ Limited'
           /\ \A a \in Accounts : \/ Of(pending, a) \subseteq pending'
                                  \/ Cardinality(Of(pending', a)) >= AccountSlots
<1> DEFINE old == {t \in Forward(queue, currentNonce) : From[t] \in dirty}
           ready == Ready(queue \ old, dirty, pendingNonce)
           S == AddList(pending, ready)
           n == EqualLength(S)
           R == Accounts \ locals
<1>1. ready \subseteq queue /\ pending \in SUBSET Txs /\ ready \in SUBSET Txs
  BY ZenonT(60) DEF Ready, IndInv, TypeOK
<1>2. pending \cap ready = {} /\ Distinct(pending \cup ready)
  BY <1>1, SMTT(60) DEF OneTxPerNonce, Distinct, IndInv
<1>3. S = pending \cup ready
  BY <1>1, <1>2, AddListFree, Zenon
<1>4. pending' = S \ Cap(S, R, n) /\ locals' = locals
  BY Zenon DEF PromoteExecutables, Equalised
<1> HIDE DEF ready
<1>5. S \in SUBSET Txs /\ Distinct(S)
  BY <1>1, <1>2, <1>3, SMTT(60)
<1> HIDE DEF S
<1>6. /\ n \in Nat /\ n >= AccountSlots
      /\ n = AccountSlots \/ Cardinality(S \ Cap(S, R, n)) <= GlobalSlots
  BY <1>5, EqualLengthFits, Zenon DEF Equalised
<1> HIDE DEF n
<1>7. Limited'
  <2>1. CASE n = AccountSlots
    <3>1. \A a \in R : Cardinality(Of(S \ Cap(S, R, n), a)) <= n
      BY <1>5, <1>6, CapLimits, ZenonT(60)
    <3> QED
      BY <1>4, <2>1, <3>1, Zenon DEF Limited
  <2> QED
    BY <1>4, <1>6, <2>1, Zenon DEF Limited
<1>8. ASSUME NEW a \in Accounts, NEW t \in Of(pending, a), t \notin pending'
      PROVE  Cardinality(Of(pending', a)) >= AccountSlots
  <2>1. t \in Cap(S, R, n) /\ From[t] = a
    BY <1>3, <1>4, <1>8, Zenon DEF Of
  <2>2. Cardinality(Of(pending', a)) >= n
    BY <1>4, <1>5, <1>6, <2>1, CapKeeps, Zenon
  <2>3. Of(pending', a) \in SUBSET Txs
    BY <1>4, <1>5, Zenon DEF Of
  <2>4. Cardinality(Of(pending', a)) \in Nat
    BY <2>3, TxsFinite, Zenon
  <2> QED
    BY <1>6, <2>2, <2>4, ConfigAssumption
<1> QED
  BY <1>7, <1>8, Zenon

\* Where pending only shrinks, the limit stays met.
LEMMA LimitedShrinks ==
    ASSUME TypeOK, Limited, pending' \subseteq pending, locals \subseteq locals'
    PROVE  Limited'
<1>1. pending \in SUBSET Txs /\ pending' \in SUBSET pending
  BY DEF TypeOK
<1>2. CASE Cardinality(pending) <= GlobalSlots
  <2>1. Cardinality(pending) \in Nat /\ Cardinality(pending') \in Nat /\ Cardinality(pending') <= Cardinality(pending)
    BY <1>1, TxsFinite, Zenon
  <2> QED
    BY <1>2, <2>1, ConfigAssumption DEF Limited
<1>3. CASE \A a \in Accounts \ locals : Cardinality(Of(pending, a)) <= AccountSlots
  <2>1. ASSUME NEW a \in Accounts \ locals'
        PROVE  Cardinality(Of(pending', a)) <= AccountSlots
    <3>1. Of(pending', a) \in SUBSET Of(pending, a) /\ Of(pending, a) \in SUBSET Txs
      BY <1>1, Zenon DEF Of
    <3>2. /\ Cardinality(Of(pending, a)) \in Nat /\ Cardinality(Of(pending', a)) \in Nat
          /\ Cardinality(Of(pending', a)) <= Cardinality(Of(pending, a))
      BY <3>1, TxsFinite, Zenon
    <3>3. Cardinality(Of(pending, a)) <= AccountSlots
      BY <1>3, <2>1, ZenonT(60)
    <3> QED
      BY <3>2, <3>3, ConfigAssumption
  <2> QED
    BY <2>1, Zenon DEF Limited
<1> QED
  BY <1>2, <1>3, Zenon DEF Limited

\* One transaction in the place of another does not make a set larger.
LEMMA ExchangeSize ==
    ASSUME NEW S \in SUBSET Txs, NEW u \in S, NEW t \in Txs, NEW T \in SUBSET ((S \ {u}) \cup {t})
    PROVE  Cardinality(S) \in Nat /\ Cardinality(T) \in Nat /\ Cardinality(T) <= Cardinality(S)
<1> DEFINE V == (S \ {u}) \cup {t}
<1>1. IsFiniteSet(S) /\ Cardinality(S) \in Nat
  BY TxsFinite, Zenon
<1>2. IsFiniteSet(S \ {u}) /\ Cardinality(S \ {u}) = Cardinality(S) - 1
  BY <1>1, FS_RemoveElement, Zenon
<1>3. Cardinality(V) <= Cardinality(S) 
  <2>1. Cardinality(V) = IF t \in S \ {u} THEN Cardinality(S \ {u}) ELSE Cardinality(S \ {u}) + 1
    BY <1>2, FS_AddElement, Zenon
  <2> HIDE DEF V
  <2> QED
    BY <1>1, <1>2, <2>1
<1>4. V \in SUBSET Txs
  OBVIOUS
<1> HIDE DEF V
<1>5. Cardinality(V) \in Nat /\ Cardinality(T) \in Nat /\ Cardinality(T) <= Cardinality(V)
  BY <1>4, TxsFinite, Zenon DEF V
<1> QED
  BY <1>1, <1>3, <1>5

\* A replacement of a pending transaction takes the place of the old one.
LEMMA LimitedReplace ==
    ASSUME IndInv, Limited, NEW t \in Txs, AddReplacePending(t)
    PROVE  Limited'
<1>1. PICK u \in Slot(pending, t) : TRUE
  BY Zenon DEF AddReplacePending
<1>2. u \in pending /\ From[u] = From[t]
  BY DEF Slot
<1>3. pending \in SUBSET Txs /\ locals' = locals
  BY DEF AddReplacePending, IndInv, TypeOK
<1>4. pending' = (pending \ Slot(pending, t)) \cup {t}
  BY <1>3, AddListOne, ZenonT(60) DEF AddReplacePending
<1>5. CASE Cardinality(pending) <= GlobalSlots
  <2>1. pending' \in SUBSET ((pending \ {u}) \cup {t})
    BY <1>1, <1>4, Zenon
  <2>2. Cardinality(pending) \in Nat /\ Cardinality(pending') \in Nat /\ Cardinality(pending') <= Cardinality(pending)
    BY <1>2, <1>3, <2>1, ExchangeSize, Zenon
  <2> QED
    BY <1>5, <2>2, ConfigAssumption DEF Limited
<1>6. CASE \A a \in Accounts \ locals : Cardinality(Of(pending, a)) <= AccountSlots
  <2>1. ASSUME NEW a \in Accounts \ locals
        PROVE  Cardinality(Of(pending', a)) <= AccountSlots
    <3>1. Of(pending, a) \in SUBSET Txs
      BY <1>3, ZenonT(60) DEF Of
    <3>2. CASE a = From[t]
      <4>1. u \in Of(pending, a) /\ Of(pending', a) \in SUBSET ((Of(pending, a) \ {u}) \cup {t})
        BY <1>1, <1>2, <1>4, <3>2, Zenon DEF Of
      <4>2. /\ Cardinality(Of(pending, a)) \in Nat /\ Cardinality(Of(pending', a)) \in Nat
            /\ Cardinality(Of(pending', a)) <= Cardinality(Of(pending, a))
        BY <3>1, <4>1, ExchangeSize, Zenon
      <4>3. Cardinality(Of(pending, a)) <= AccountSlots
        BY <1>6, Zenon
      <4> QED
        BY <4>2, <4>3, ConfigAssumption
    <3>3. CASE a # From[t]
      <4>1. Of(pending', a) = Of(pending, a)
        BY <1>4, <3>3 DEF Of, Slot
      <4> QED
        BY <1>6, <4>1, ZenonT(60)
    <3> QED
      BY <3>2, <3>3, Zenon
  <2> QED
    BY <1>3, <2>1, Zenon DEF Limited
<1> QED
  BY <1>5, <1>6, Zenon DEF Limited

\* In every other step pending does not grow and no account stops being local.
LEMMA PendingShrinks ==
    ASSUME IndInv, [Next]_vars, ~PromoteExecutables, \A t \in Txs : ~AddReplacePending(t)
    PROVE  pending' \subseteq pending /\ locals \subseteq locals'
<1>1. ASSUME NEW t \in Txs, RemoveTx(t) PROVE pending' \subseteq pending /\ locals' = locals
  BY <1>1, Zenon DEF RemoveTx, lists
<1>2. CASE DemoteUnexecutables
  BY <1>2, Zenon DEF DemoteUnexecutables
<1>3. ASSUME NEW t \in Txs, AddEnqueue(t) PROVE pending' = pending /\ locals \subseteq locals'
  BY <1>3, Zenon DEF AddEnqueue
<1>4. [Next]_vars => \/ UNCHANGED <<pending, locals>>
                     \/ DemoteUnexecutables
                     \/ \E t \in Txs : RemoveTx(t) \/ AddEnqueue(t)
  BY ZenonT(60) DEF Next, External, Internal, AddTxs, AddRejected, AddDiscard, AddDone, Reset, ResetFails, Evict,
         SetPriority, DropAll, lists, vars
<1> QED
  BY <1>1, <1>2, <1>3, <1>4, Zenon

\* The pool keeps to GlobalSlots, or every account that is not local keeps to
\* AccountSlots, and the equalisation leaves every account its slots.
THEOREM PoolSlotsFair == Spec => SlotsFair
<1>1. Init => Limited
  <2>1. Cardinality({}) = 0
    BY FS_EmptySet, Zenon
  <2>2. Init => Cardinality(pending) = 0
    BY <2>1, Zenon DEF Init
  <2> QED
    BY <2>2, ConfigAssumption DEF Limited
<1>2. ASSUME IndInv, Limited, [Next]_vars PROVE Limited'
  <2>1. CASE PromoteExecutables
    BY <1>2, <2>1, LimitedPromote, Zenon
  <2>2. ASSUME NEW t \in Txs, AddReplacePending(t) PROVE Limited'
    BY <1>2, <2>2, LimitedReplace, Zenon
  <2>3. CASE ~PromoteExecutables /\ \A t \in Txs : ~AddReplacePending(t)
    <3>1. pending' \subseteq pending /\ locals \subseteq locals' /\ TypeOK
      BY <1>2, <2>3, PendingShrinks, Zenon DEF IndInv
    <3> QED
      BY <1>2, <3>1, LimitedShrinks, Zenon
  <2> QED
    BY <2>1, <2>2, <2>3, Zenon
<1>3. ASSUME IndInv, [Next]_vars
      PROVE  [stage = "promoting" =>
                \A a \in Accounts :
                   \/ Of(pending, a) \subseteq pending'
                   \/ Cardinality(Of(pending', a)) >= AccountSlots]_vars
  <2>1. CASE PromoteExecutables
    BY <1>3, <2>1, LimitedPromote, Zenon
  <2>2. CASE stage = "promoting" /\ ~PromoteExecutables
    <3>1. UNCHANGED vars
      BY <1>3, <2>2, ZenonT(60)
         DEF Next, External, Internal, AddTxs, AddRejected, AddDiscard, AddDone, AddReplacePending, AddEnqueue,
             Adding, RemoveTx, DemoteUnexecutables, Reset, ResetFails, Evict, SetPriority, DropAll
    <3> QED
      BY <3>1, Zenon
  <2> QED
    BY <2>1, <2>2, Zenon
<1>4. Limited => PendingLimited
  BY DEF Limited, PendingLimited
<1>5. Spec => []Limited
  BY <1>1, <1>2, PoolInvariant, PTL DEF Spec
<1>6. Spec => SlotsGuaranteed
  BY <1>3, PoolInvariant, PTL DEF Spec, SlotsGuaranteed
<1> QED
  BY <1>4, <1>5, <1>6, PoolLocalsKept, PTL DEF SlotsFair

-----------------------------------------------------------------------------
(***************************************************************************)
(* The pool with its journal: what is journaled stays in the file as long  *)
(* as it is pooled, and load brings back every record that it reaches, for *)
(* every pool, every journal and every failure of the file.                *)
(***************************************************************************)

\* Who is journaled is local, so that no rotation leaves it out.
JournaledLocal == \A t \in journaled \cap Pool : From[t] \in locals

\* A process that is down has nothing in memory; only load has a rest to load.
DownEmpty ==
    /\ mode # "loading" => loading = {} /\ lost = {}
    /\ mode = "down" => /\ Pool = {} /\ all = {} /\ locals = {}
                        /\ stage = "idle" /\ batch = {} /\ ~resetting

\* While the journal is loaded nothing is written to it, everything in the pool
\* comes from it and is local, so that no limit applies, the index has nothing
\* that the lists lack, and what load has dealt with is in the pool, executed or
\* outdone.
LoadSafe ==
    mode = "loading" =>
        /\ writer # "file" /\ ~resetting
        /\ stage \in {"idle", "adding", "promoting"}
        /\ stage = "adding" => asLocal
        /\ stage # "adding" => batch = {}
        /\ batch \subseteq disk
        /\ Pool \subseteq disk /\ all \subseteq Pool
        /\ \A t \in Pool : From[t] \in locals
        /\ lost \cap loading = {}
        /\ writer = "devNull" =>
             /\ \A t \in disk \ (loading \cup batch \cup lost) : BroughtBack(t)
             /\ disk # {} => disk \ lost # {}

JInv == IndInv /\ JTypeOK /\ JournalCovers /\ JournaledLocal /\ DownEmpty /\ LoadSafe

-----------------------------------------------------------------------------
(* The pool's own invariant under the journal's steps.                     *)

\* load calls addTxsLocked outside the interface of the pool, and a process that
\* ends or starts leaves the pool as a new one.
LEMMA PoolUnderJournal == JInv /\ [JNext]_jvars => IndInv'
<1> SUFFICES ASSUME JInv, [JNext]_jvars PROVE IndInv'
  OBVIOUS
<1>1. CASE [Next]_vars
  BY <1>1, InvNext, Zenon DEF JInv
<1>2. ASSUME NEW t \in Txs, Load(t) PROVE IndInv'
  <2>1. AddTxs({t}, TRUE)
    BY <1>2, Zenon DEF Load
  <2>2. TypeOK'
    BY <2>1, Zenon DEF JInv, IndInv, TypeOK, AddTxs, lists, heads, Stages
  <2>3. OneTxPerNonce' /\ QueueIndexed'
    BY <2>1, ListsUnchanged, Zenon DEF JInv, IndInv, AddTxs
  <2>4. StaleOnlyIfDirty' /\ StageOK'
    BY <2>1, ZenonT(60) DEF JInv, IndInv, AddTxs, StaleOnlyIfDirty, StageOK, lists, heads
  <2> QED
    BY <2>2, <2>3, <2>4, Zenon DEF IndInv
<1>3. CASE Crash
  <2>1. TypeOK'
    BY <1>3, Zenon DEF Crash, JInv, IndInv, TypeOK, heads, Stages
  <2> QED
    BY <1>3, <2>1, Zenon DEF Crash, IndInv, OneTxPerNonce, QueueIndexed, StaleOnlyIfDirty, StageOK
<1>4. ASSUME NEW nonces \in HeadNonces, Restart(nonces) PROVE IndInv'
  <2>1. pending' = {} /\ queue' = {}
    BY <1>4, Zenon DEF Restart, JInv, DownEmpty, Pool
  <2>2. TypeOK'
    BY <1>4, TxAssumption, Zenon DEF Restart, JInv, IndInv, TypeOK, call
  <2>3. OneTxPerNonce' /\ QueueIndexed' /\ StaleOnlyIfDirty'
    BY <2>1, Zenon DEF OneTxPerNonce, QueueIndexed, StaleOnlyIfDirty
  <2>4. StageOK'
    BY <1>4, Zenon DEF Restart, JInv, IndInv, StageOK, call
  <2> QED
    BY <2>2, <2>3, <2>4, Zenon DEF IndInv
<1>5. \/ [Next]_vars \/ Crash
      \/ \E t \in Txs : Load(t)
      \/ \E nonces \in HeadNonces : Restart(nonces)
  BY Zenon DEF JNext, JAddEnqueue, JAddReplacePending, JInternal, JExternal, FinishLoad, Rotate, Next, jvars
<1> QED
  BY <1>1, <1>2, <1>3, <1>4, <1>5, Zenon

\* The types of what the journal adds to the pool.
LEMMA JournalTypes == JInv /\ [JNext]_jvars => JTypeOK'
<1> SUFFICES ASSUME JInv, [JNext]_jvars
             PROVE  /\ disk' \subseteq Txs /\ journaled' \subseteq Txs
                    /\ writer' \in {"nil", "file", "devNull"}
                    /\ mode' \in {"down", "loading", "running"}
                    /\ loading' \subseteq disk' /\ lost' \subseteq disk'
  BY PoolUnderJournal, Zenon DEF JTypeOK, IndInv
<1> USE DEF JInv, JTypeOK
<1>1. ASSUME NEW t \in Txs, JAddEnqueue(t)
      PROVE  /\ disk' \subseteq Txs /\ journaled' \subseteq Txs /\ loading' \subseteq disk' /\ lost' \subseteq disk'
             /\ writer' = writer /\ mode' = mode
  BY <1>1, Zenon DEF JAddEnqueue, JournalTx, process
<1>2. ASSUME NEW t \in Txs, JAddReplacePending(t) \/ Load(t)
      PROVE  /\ disk' = disk /\ journaled' \subseteq journaled /\ loading' \subseteq loading
             /\ lost' \subseteq lost \cup loading /\ writer' = writer /\ mode' = mode
  BY <1>2, Zenon DEF JAddReplacePending, Load, PassOver, process, file
<1>3. CASE JInternal \/ JExternal \/ UNCHANGED jvars
  BY <1>3, Zenon DEF JInternal, JExternal, process, file, jvars
<1>4. CASE FinishLoad \/ Rotate
  <2>1. Local \subseteq Txs
    BY Zenon DEF Local, TypeOK
  <2>2. disk' \in {disk, Local} /\ writer' \in {"file", "nil"} /\ journaled' \in {journaled, journaled \cup Local}
    BY <1>4, Zenon DEF FinishLoad, Rotate, Rotated, file
  <2>3. loading' = {} /\ lost' = {} /\ mode' = "running"
    BY <1>4, Zenon DEF FinishLoad, Rotate, process, DownEmpty
  <2> QED
    BY <2>1, <2>2, <2>3, Zenon
<1>5. CASE Crash
  BY <1>5, Zenon DEF Crash
<1>6. ASSUME NEW nonces \in HeadNonces, Restart(nonces)
      PROVE  /\ disk' = disk /\ journaled' = journaled /\ loading' \subseteq disk /\ lost' = lost
             /\ writer' \in {"devNull", "nil"} /\ mode' = "loading"
  BY <1>6, Zenon DEF Restart
<1> QED
  BY <1>1, <1>2, <1>3, <1>4, <1>5, <1>6, ZenonT(60) DEF JNext

-----------------------------------------------------------------------------
(* The journal covers the pool.                                            *)

\* No step of the pool but add brings a transaction into it, and no account stops
\* being local while the process runs.
LEMMA PoolShrinks ==
    ASSUME IndInv, Internal \/ External
    PROVE  pending' \cup queue' \subseteq Pool /\ locals' = locals
<1>1. ASSUME NEW t \in Txs, RemoveTx(t)
      PROVE  pending' \cup queue' \subseteq Pool /\ locals' = locals
  BY <1>1, ZenonT(60) DEF RemoveTx, lists, AddList, Accepted, Of, Pool
<1>2. CASE PromoteExecutables
  <2>1. \A S, T : AddList(S, T) \subseteq S \cup T
    BY Zenon DEF AddList, Accepted
  <2>2. \A S, A, f : Ready(S, A, f) \subseteq S
    BY Zenon DEF Ready
  <2> DEFINE old == {t \in Forward(queue, currentNonce) : From[t] \in dirty}
             ready == Ready(queue \ old, dirty, pendingNonce)
             promoted == AddList(pending, ready)
  <2>3. pending' \subseteq promoted /\ queue' \subseteq queue /\ locals' = locals
    BY <1>2, ZenonT(60) DEF PromoteExecutables
  <2>4. ready \subseteq queue
    BY <2>2, Zenon
  <2> HIDE DEF ready
  <2>5. promoted \subseteq pending \cup ready
    BY <2>1, Zenon
  <2> QED
    BY <2>3, <2>4, <2>5, SMT DEF Pool
<1>3. CASE DemoteUnexecutables
  <2>1. \A S, T : AddList(S, T) \subseteq S \cup T
    BY Zenon DEF AddList, Accepted
  <2> DEFINE rest == pending \ Forward(pending, currentNonce)
             gapped == {t \in rest : \A u \in Of(rest, From[t]) : Nonce[u] # currentNonce[From[t]]}
  <2>2. pending' \subseteq pending /\ queue' = AddList(queue, gapped) /\ locals' = locals
    BY <1>3, ZenonT(60) DEF DemoteUnexecutables
  <2>3. gapped \subseteq pending
    OBVIOUS
  <2> HIDE DEF gapped
  <2> QED
    BY <2>1, <2>2, <2>3, ZenonT(60) DEF Pool
<1>4. \/ UNCHANGED <<pending, queue, locals>> \/ PromoteExecutables \/ DemoteUnexecutables
      \/ \E t \in Txs : RemoveTx(t)
  BY ZenonT(60) DEF External, Internal, AddTxs, AddRejected, AddDiscard, AddDone, Reset, ResetFails, Evict,
         SetPriority, DropAll, lists
<1> QED
  BY <1>1, <1>2, <1>3, <1>4, Zenon DEF Pool

\* A transaction enters the pool with the record of whether it was written, which
\* no rotation of the file makes wrong, as rotate writes what is local.
LEMMA CoversNext == JInv /\ [JNext]_jvars => (JournalCovers /\ JournaledLocal)'
<1> SUFFICES ASSUME JInv, [JNext]_jvars PROVE (JournalCovers /\ JournaledLocal)'
  OBVIOUS
<1> USE DEF JInv, JournalCovers, JournaledLocal, Pool
<1>1. ASSUME NEW t \in Txs, JAddEnqueue(t) PROVE (JournalCovers /\ JournaledLocal)'
  <2>1. pending' = pending /\ queue' \subseteq queue \cup {t} /\ locals \subseteq locals'
    BY <1>1, Zenon DEF JAddEnqueue, AddEnqueue, AddList, Accepted
  <2>2. \/ From[t] \in locals' /\ disk' = disk \cup {t} /\ journaled' = journaled \cup {t}
        \/ disk' = disk /\ journaled' = journaled \ {t}
    BY <1>1, Zenon DEF JAddEnqueue, JournalTx
  <2> QED
    BY <2>1, <2>2, ZenonT(60)
<1>2. ASSUME NEW t \in Txs, JAddReplacePending(t) PROVE (JournalCovers /\ JournaledLocal)'
  <2>1. pending' \subseteq pending \cup {t} /\ queue' = queue /\ locals' = locals
    BY <1>2, Zenon DEF JAddReplacePending, AddReplacePending, AddList, Accepted
  <2>2. disk' = disk /\ journaled' = journaled \ {t}
    BY <1>2, Zenon DEF JAddReplacePending
  <2> QED
    BY <2>1, <2>2, ZenonT(60)
<1>3. CASE JInternal \/ JExternal
  <2>1. pending' \cup queue' \subseteq Pool /\ locals' = locals
    BY <1>3, PoolShrinks, Zenon DEF JInternal, JExternal
  <2>2. disk' = disk /\ journaled' = journaled
    BY <1>3, Zenon DEF JInternal, JExternal, file
  <2> QED
    BY <2>1, <2>2, ZenonT(60)
<1>4. CASE FinishLoad \/ Rotate
  <2>1. pending' = pending /\ queue' = queue /\ locals' = locals
    BY <1>4, Zenon DEF FinishLoad, Rotate, vars, lists
  <2>2. \/ disk' = disk /\ journaled' = journaled
        \/ disk' = Local /\ journaled' = journaled \cup Local
    BY <1>4, Zenon DEF FinishLoad, Rotate, Rotated, file
  <2> QED
    BY <2>1, <2>2, ZenonT(60) DEF Local
<1>5. CASE Crash
  BY <1>5, Zenon DEF Crash
<1>6. ASSUME NEW nonces \in HeadNonces, Restart(nonces) PROVE (JournalCovers /\ JournaledLocal)'
  BY <1>6, Zenon DEF Restart
<1>7. ASSUME NEW t \in Txs, Load(t) PROVE (JournalCovers /\ JournaledLocal)'
  BY <1>7, Zenon DEF Load, AddTxs, lists, file
<1>8. CASE UNCHANGED jvars
  BY <1>8, Zenon DEF jvars, vars, lists, file
<1> QED
  BY <1>1, <1>2, <1>3, <1>4, <1>5, <1>6, <1>7, <1>8, ZenonT(60) DEF JNext

\* A process that is down stays empty until it restarts.
LEMMA DownNext == JInv /\ [JNext]_jvars => DownEmpty'
<1> SUFFICES ASSUME JInv, [JNext]_jvars PROVE DownEmpty'
  OBVIOUS
<1>1. CASE mode' = "loading"
  BY <1>1, Zenon DEF DownEmpty
<1>2. CASE mode' = "running"
  <2>1. loading' = {} /\ lost' = {}
    BY <1>2, Zenon DEF JInv, DownEmpty, JNext, JAddEnqueue, JAddReplacePending, Load, JInternal, JExternal,
           FinishLoad, Rotate, Crash, Restart, PassOver, process, jvars
  <2> QED
    BY <1>2, <2>1, Zenon DEF DownEmpty
<1>3. CASE mode' = "down"
  <2>1. CASE Crash
    BY <2>1, Zenon DEF Crash, DownEmpty, Pool
  <2>2. CASE ~Crash
    <3>1. mode = "down"
      BY <1>3, <2>2, Zenon DEF JNext, JAddEnqueue, JAddReplacePending, Load, JInternal, JExternal,
             FinishLoad, Rotate, Restart, process, jvars
    <3>2. stage = "idle"
      BY <3>1, Zenon DEF JInv, DownEmpty
    <3>3. ~JInternal /\ ~JExternal /\ ~FinishLoad /\ ~Rotate
      BY <3>1, <3>2, Zenon DEF JInternal, Internal, JExternal, FinishLoad, Rotate, AddRejected, AddDiscard, Adding,
             RemoveTx, AddDone, PromoteExecutables, DemoteUnexecutables
    <3>4. \A t \in Txs : ~JAddEnqueue(t) /\ ~JAddReplacePending(t) /\ ~Load(t)
      BY <3>1, <3>2, Zenon DEF JAddEnqueue, JAddReplacePending, Load, AddEnqueue, AddReplacePending, Adding
    <3>5. UNCHANGED jvars
      BY <1>3, <2>2, <3>3, <3>4, Zenon DEF JNext, Restart
    <3> QED
      BY <3>5, Zenon DEF JInv, DownEmpty, Pool, jvars, vars, lists, call, process
  <2> QED
    BY <2>1, <2>2
<1> QED
  BY <1>1, <1>2, <1>3, JournalTypes, Zenon DEF JTypeOK

-----------------------------------------------------------------------------
(* What load does.                                                         *)

\* What the pool keeps of a local transaction is enough for a journaled one that
\* has already been dealt with.
LEMMA LoadedStays ==
    ASSUME TypeOK, TypeOK', NEW t \in Txs, BroughtBack(t),
           \A u \in Pool : Kept(u),
           UNCHANGED <<currentNonce, disk>>
    PROVE  BroughtBack(t)'
<1>1. ASSUME NEW u \in pending' \cup queue', From[u] = From[t], Nonce[u] = Nonce[t], Prio[u] >= Prio[t]
      PROVE  BroughtBack(t)'
  BY <1>1, Zenon DEF BroughtBack, Pool, Refuses, Slot
<1>2. ASSUME NEW u \in Pool, From[u] = From[t], Nonce[u] = Nonce[t], Prio[u] >= Prio[t]
      PROVE  BroughtBack(t)'
  <2>1. Kept(u)
    BY <1>2, Zenon
  <2>2. CASE u \in pending' \cup queue'
    BY <1>1, <1>2, <2>2, Zenon
  <2>3. CASE Nonce[u] < currentNonce[From[u]]
    BY <1>2, <2>3, Zenon DEF BroughtBack
  <2>4. CASE \E v \in pending' \cup queue' : From[v] = From[u] /\ Nonce[v] = Nonce[u] /\ Prio[v] > Prio[u]
    <3>1. PICK v \in pending' \cup queue' : From[v] = From[u] /\ Nonce[v] = Nonce[u] /\ Prio[v] > Prio[u]
      BY <2>4, Zenon
    <3>2. v \in Txs /\ u \in Txs
      BY ZenonT(60) DEF TypeOK, Pool
    <3>3. Prio[v] >= Prio[t]
      BY <1>2, <3>1, <3>2, TxAssumption
    <3> QED
      BY <1>1, <1>2, <3>1, <3>3, Zenon
  <2> QED
    BY <2>1, <2>2, <2>3, <2>4, Zenon DEF Kept
<1>3. CASE t \in Pool
  <2>1. Prio[t] >= Prio[t]
    BY TxAssumption
  <2> QED
    BY <1>2, <1>3, <2>1, ZenonT(60)
<1>4. CASE Refuses(Pool, t)
  BY <1>2, <1>4, ZenonT(60) DEF Refuses, Slot
<1> QED
  BY <1>3, <1>4, Zenon DEF BroughtBack

\* When the journal alone fills the pool, it holds more than the pool can.
LEMMA FullJournal ==
    ASSUME JInv, mode = "loading", NEW t \in batch, t \notin all, Full
    PROVE  Cardinality(disk) > GlobalSlots + GlobalQueue
<1>1. t \in disk /\ disk \in SUBSET Txs /\ disk \ {t} \in SUBSET Txs /\ all \in SUBSET (disk \ {t})
  BY Zenon DEF JInv, JTypeOK, LoadSafe
<1>2. Cardinality(all) \in Nat /\ Cardinality(disk) \in Nat /\ Cardinality(all) <= Cardinality(disk \ {t})
  BY <1>1, TxsFinite, Zenon
<1>3. Cardinality(disk \ {t}) = Cardinality(disk) - 1
  BY <1>1, TxsFinite, FS_RemoveElement, Zenon
<1> QED
  BY <1>2, <1>3, ConfigAssumption DEF Full

\* add refuses a journaled transaction only for a reason RestartKeeps allows, and
\* a pool of local transactions has nothing to discard.
LEMMA LoadRefused ==
    ASSUME JInv, mode = "loading", UNCHANGED <<file, process>>, NEW t \in Txs,
           AddRejected(t) \/ AddDiscard(t)
    PROVE  LoadSafe'
<1> USE DEF JInv, file, process
<1>1. t \in batch /\ batch' = batch \ {t} /\ stage = "adding"
  BY Zenon DEF AddRejected, AddDiscard, Adding
<1>2. UNCHANGED <<lists, heads, asLocal, resetting>>
  BY Zenon DEF AddRejected, AddDiscard
<1>3. UNCHANGED <<pending, queue, all, locals, currentNonce>>
  BY <1>2, Zenon DEF lists, heads
<1>4. stage' = "adding"
  <2>1. Remotes = {}
    BY Zenon DEF Remotes, LoadSafe
  <2>2. \A c : \A D \in Discard(c) : D = {}
    BY <2>1, Zenon DEF Discard
  <2> QED
    BY <1>1, <2>2, Zenon DEF AddRejected, AddDiscard
<1>5. BroughtBack(t)
  <2>1. CASE t \in all
    BY <2>1, Zenon DEF LoadSafe, BroughtBack
  <2>2. CASE t \notin all /\ Full
    BY <1>1, <2>2, FullJournal, Zenon DEF BroughtBack
  <2>3. CASE Refuses(pending, t) \/ Refuses(queue, t)
    BY <2>3, Zenon DEF BroughtBack, Refuses, Slot, Pool
  <2> QED
    BY <2>1, <2>2, <2>3, Zenon DEF AddRejected, AddDiscard
<1>6. \A u \in disk : BroughtBack(u) => BroughtBack(u)'
  BY <1>3, Zenon DEF BroughtBack, Pool
<1> QED
  BY <1>1, <1>2, <1>3, <1>4, <1>5, <1>6, ZenonT(60) DEF LoadSafe, Pool

\* add puts a journaled transaction into the pool, and its account among the local
\* ones.
LEMMA LoadAdded ==
    ASSUME JInv, JTypeOK', mode = "loading", UNCHANGED process, NEW t \in Txs,
           JAddEnqueue(t) \/ JAddReplacePending(t)
    PROVE  LoadSafe'
<1> USE DEF JInv
<1>1. t \in batch /\ batch' = batch \ {t} /\ stage = "adding" /\ stage' = "adding" /\ asLocal' = asLocal
      /\ resetting' = resetting /\ currentNonce' = currentNonce
  BY Zenon DEF JAddEnqueue, JAddReplacePending, AddEnqueue, AddReplacePending, Adding, heads
<1>2. disk' = disk /\ writer' = writer
  BY Zenon DEF JAddEnqueue, JAddReplacePending, JournalTx, LoadSafe
<1>3. t \in pending' \cup queue' /\ pending' \cup queue' \subseteq Pool \cup {t} /\ all' \subseteq pending' \cup queue'
      /\ locals \subseteq locals' /\ From[t] \in locals'
  <2>1. CASE AddEnqueue(t)
    <3>1. /\ queue' = (queue \ Slot(queue, t)) \cup {t} /\ pending' = pending
          /\ all' = (all \ Slot(queue, t)) \cup {t}
      BY <2>1, AddListOne, ZenonT(60) DEF AddEnqueue, Enqueued, IndInv, TypeOK
    <3>2. locals' = locals \cup {From[t]}
      BY <1>1, <2>1, Zenon DEF AddEnqueue, LoadSafe
    <3> QED
      BY <3>1, <3>2, ZenonT(60) DEF Pool, LoadSafe
  <2>2. CASE AddReplacePending(t)
    <3>1. pending' = (pending \ Slot(pending, t)) \cup {t} /\ queue' = queue /\ all' = all \ Slot(pending, t)
          /\ locals' = locals
      BY <2>2, AddListOne, ZenonT(60) DEF AddReplacePending, IndInv, TypeOK
    <3>2. PICK u \in pending : From[u] = From[t]
      BY <2>2, Zenon DEF AddReplacePending, Slot
    <3> QED
      BY <3>1, <3>2, ZenonT(60) DEF Pool, LoadSafe
  <2> QED
    BY <2>1, <2>2, Zenon DEF JAddEnqueue, JAddReplacePending
<1>4. \A u \in Pool : Kept(u)
  BY KeptAdd, Zenon DEF JAddEnqueue, JAddReplacePending, Pool
<1>5. ASSUME NEW u \in disk, BroughtBack(u) PROVE BroughtBack(u)'
  BY <1>1, <1>2, <1>4, <1>5, LoadedStays, ZenonT(60) DEF JTypeOK
<1>6. BroughtBack(t)'
  BY <1>3, Zenon DEF BroughtBack, Pool
<1>7. batch' \subseteq disk' /\ pending' \cup queue' \subseteq disk'
  BY <1>1, <1>2, <1>3, Zenon DEF LoadSafe
<1>8. \A u \in pending' \cup queue' : From[u] \in locals'
  BY <1>3, Zenon DEF LoadSafe
<1>9. writer' = "devNull" => \A u \in disk' \ (loading' \cup batch' \cup lost') : BroughtBack(u)'
  BY <1>1, <1>2, <1>5, <1>6, Zenon DEF LoadSafe, process
<1> QED
  BY <1>1, <1>2, <1>3, <1>7, <1>8, <1>9, ZenonT(60) DEF LoadSafe, Pool, process

\* Promotion of local transactions moves them and drops only executed ones.
LEMMA LoadPromoted ==
    ASSUME JInv, JTypeOK', mode = "loading", UNCHANGED <<file, process>>, PromoteExecutables
    PROVE  LoadSafe'
<1> DEFINE old == {u \in Forward(queue, currentNonce) : From[u] \in dirty}
           ready == Ready(queue \ old, dirty, pendingNonce)
           capped == Cap((queue \ old) \ ready, dirty \ locals, AccountQueue)
           excess == Equalised(AddList(pending, ready))
<1> USE DEF JInv
<1>1. stage = "promoting" /\ batch' = batch /\ batch = {} /\ resetting' = resetting /\ currentNonce' = currentNonce
      /\ locals' = locals /\ disk' = disk /\ writer' = writer /\ loading' = loading /\ lost' = lost /\ mode' = mode
  BY Zenon DEF PromoteExecutables, LoadSafe, heads, file, process
<1>2. ready \subseteq queue \ old
  BY ZenonT(60) DEF Ready
<1>3. pending \cap ready = {} /\ Distinct(pending \cup ready) /\ pending \in SUBSET Txs /\ ready \in SUBSET Txs
  BY <1>2, ZenonT(60) DEF IndInv, OneTxPerNonce, Distinct, TypeOK
<1>4. /\ Accepted(pending, ready) = ready
      /\ Replaced(pending, ready) = {}
      /\ AddList(pending, ready) = pending \cup ready
  BY <1>3, AddListFree, Zenon
<1>5. \A u \in Pool : From[u] \in locals
  BY Zenon DEF LoadSafe
<1>6. excess = {} /\ capped = {}
  BY <1>2, <1>4, <1>5, ZenonT(60) DEF Equalised, Cap, Pool
<1>7. /\ pending' = pending \cup ready
      /\ queue' = (queue \ old) \ ready
      /\ all' = (all \ (old \cup ready)) \cup ready
  <2>1. /\ pending' = (pending \cup ready) \ excess
        /\ queue' = (queue \ old) \ (ready \cup capped)
        /\ all' = ((all \ (old \cup ready \cup capped)) \cup ready) \ excess
    BY <1>4, Zenon DEF PromoteExecutables
  <2> HIDE DEF old, ready, capped, excess
  <2> QED
    BY <1>6, <2>1
<1>8. stage' = "idle"
  <2>1. {t \in queue' : From[t] \notin locals} = {}
    BY <1>5, <1>7, Zenon DEF Pool
  <2>2. \A D \in Truncations(queue', beats') : D = {}
    BY <2>1, Zenon DEF Truncations
  <2> QED
    BY <2>2, Zenon DEF PromoteExecutables, Continue, LoadSafe
<1>9. \A u \in Pool : Kept(u)
  BY <1>5, KeptPromote, Zenon DEF Pool
<1>10. ASSUME NEW u \in disk, BroughtBack(u) PROVE BroughtBack(u)'
  BY <1>1, <1>9, <1>10, LoadedStays, ZenonT(60) DEF JTypeOK
<1> HIDE DEF old, ready
<1>11. pending' \cup queue' \subseteq Pool /\ all' \subseteq pending' \cup queue'
  BY <1>2, <1>7, ZenonT(60) DEF Pool, LoadSafe
<1> QED
  BY <1>1, <1>5, <1>8, <1>10, <1>11, ZenonT(60) DEF LoadSafe, Pool

\* Whatever happens while the journal is loaded, load stays on its way.
LEMMA LoadNext == JInv /\ [JNext]_jvars => LoadSafe'
<1> SUFFICES ASSUME JInv, [JNext]_jvars, mode' = "loading" PROVE LoadSafe'
  BY Zenon DEF LoadSafe
<1>1. JTypeOK'
  BY JournalTypes
<1>2. ASSUME NEW nonces \in HeadNonces, Restart(nonces) PROVE LoadSafe'
  <2>1. /\ pending' = {} /\ queue' = {} /\ all' = {} /\ stage' = "idle" /\ batch' = {} /\ ~resetting'
    BY <1>2, Zenon DEF Restart, JInv, DownEmpty, Pool, call
  <2>2. /\ disk' = disk /\ lost' = {} /\ writer' # "file"
        /\ writer' = "devNull" => loading' = disk
    BY <1>2, Zenon DEF Restart, JInv, DownEmpty
  <2> QED
    BY <2>1, <2>2, ZenonT(60) DEF LoadSafe, Pool
<1>3. CASE mode = "loading"
  <2>1. ASSUME NEW t \in Txs, JAddEnqueue(t) \/ JAddReplacePending(t) PROVE LoadSafe'
    <3>1. UNCHANGED process
      BY <2>1, Zenon DEF JAddEnqueue, JAddReplacePending
    <3> QED
      BY <1>1, <1>3, <2>1, <3>1, LoadAdded, ZenonT(60)
  <2>2. ASSUME NEW t \in Txs, Load(t) PROVE LoadSafe'
    <3>1. /\ UNCHANGED <<pending, queue, all, locals, currentNonce, disk, writer, resetting>>
          /\ stage' = "adding" /\ batch' = {t} /\ asLocal' = TRUE /\ batch = {} /\ t \in loading
      BY <1>3, <2>2, Zenon DEF Load, AddTxs, lists, heads, file, JInv, LoadSafe
    <3>2. \A u \in disk : BroughtBack(u) => BroughtBack(u)'
      BY <3>1, Zenon DEF BroughtBack, Pool
    <3>3. t \in disk /\ t \notin lost
      BY <1>3, <3>1, Zenon DEF JInv, JTypeOK, LoadSafe
    <3>4. /\ t \notin lost' /\ lost' \cap loading' = {}
          /\ loading \cup lost \subseteq loading' \cup lost' \cup {t}
      BY <1>3, <2>2, <3>3, Zenon DEF Load, PassOver, JInv, LoadSafe
    <3> QED
      BY <1>3, <3>1, <3>2, <3>3, <3>4, ZenonT(60) DEF JInv, LoadSafe, Pool
  <2>3. CASE JInternal
    <3>1. UNCHANGED <<file, process>>
      BY <2>3, Zenon DEF JInternal
    <3>2. ASSUME NEW t \in Txs, AddRejected(t) \/ AddDiscard(t) PROVE LoadSafe'
      BY <1>3, <3>1, <3>2, LoadRefused, Zenon
    <3>3. CASE PromoteExecutables
      BY <1>1, <1>3, <3>1, <3>3, LoadPromoted, ZenonT(60)
    <3>4. CASE AddDone
      <4>1. /\ UNCHANGED <<pending, queue, all, locals, currentNonce, disk, writer, loading, lost, batch, resetting>>
            /\ batch = {} /\ stage' \in {"idle", "promoting"}
        BY <1>3, <3>1, <3>4, ZenonT(60) DEF AddDone, Continue, lists, heads, file, process, JInv, LoadSafe
      <4>2. \A u \in disk : BroughtBack(u) => BroughtBack(u)'
        BY <4>1, Zenon DEF BroughtBack, Pool
      <4> QED
        BY <1>3, <4>1, <4>2, ZenonT(60) DEF JInv, LoadSafe, Pool
    <3>5. ~DemoteUnexecutables /\ \A t \in Txs : ~RemoveTx(t)
      BY <1>3, Zenon DEF DemoteUnexecutables, RemoveTx, JInv, LoadSafe
    <3> QED
      BY <2>3, <3>2, <3>3, <3>4, <3>5, ZenonT(60) DEF JInternal, Internal
  <2>4. CASE UNCHANGED jvars
    BY <1>3, <2>4, ZenonT(60) DEF JInv, LoadSafe, BroughtBack, Pool, jvars, vars, lists, heads, call, file, process
  <2>5. ~JExternal /\ ~FinishLoad /\ ~Rotate /\ ~Crash
    BY <1>3, Zenon DEF JExternal, FinishLoad, Rotate, Crash
  <2> QED
    BY <1>2, <2>1, <2>2, <2>3, <2>4, <2>5, ZenonT(60) DEF JNext
<1>4. CASE mode # "loading"
  BY <1>2, <1>4, ZenonT(60) DEF JNext, JAddEnqueue, JAddReplacePending, Load, JInternal, JExternal,
     FinishLoad, Rotate, Crash, process, jvars
<1> QED
  BY <1>3, <1>4

-----------------------------------------------------------------------------
\* The inductive invariant holds in every reachable state of pool and journal.
LEMMA JournalInvariant == JSpec => []JInv
<1>1. JInit => JInv
  <2> SUFFICES ASSUME JInit PROVE JInv
    OBVIOUS
  <2>1. IndInv
    BY InvInit, Zenon DEF JInit
  <2>2. pending = {} /\ queue = {} /\ all = {} /\ stage = "idle" /\ batch = {} /\ ~resetting
        /\ disk = {} /\ writer = "nil" /\ mode = "loading" /\ loading = {} /\ lost = {}
        /\ journaled = {}
    BY Zenon DEF JInit, Init
  <2> QED
    BY <2>1, <2>2, ZenonT(60) DEF JInv, IndInv, JTypeOK, JournalCovers, JournaledLocal, DownEmpty, LoadSafe, Pool
<1>2. JInv /\ [JNext]_jvars => JInv'
  BY PoolUnderJournal, JournalTypes, CoversNext, DownNext, LoadNext, ZenonT(60) DEF JInv
<1> QED
  BY <1>1, <1>2, PTL DEF JSpec

\* What was written to the journal (journalTx) stays in it while it is pooled, and
\* load brings back each record of the file that it reaches, of which there is
\* one unless the file is empty: it is pooled then, unless it is executed or
\* outdone or the journal holds more than the pool can.
THEOREM JournalKept == JSpec => []JournalKeeps
<1>1. JInv => JournalKeeps
  BY Zenon DEF JInv, JournalKeeps, LoadEnd, LoadSafe
<1> QED
  BY <1>1, JournalInvariant, PTL
=============================================================================
