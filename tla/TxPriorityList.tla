--------------------------- MODULE TxPriorityList ---------------------------
(***************************************************************************)
(* The priority heap of the transaction pool (txPriorityList in            *)
(* core/txprocessor/tx_list.go).                                           *)
(*                                                                         *)
(* Transactions leave the pool's index `all' without leaving the heap: the *)
(* heap skips such stale entries when it meets them, counts them, and is   *)
(* rebuilt from the index when it believes that a quarter of it is stale.  *)
(* The same transaction can be in the heap several times: removeTx and     *)
(* demoteUnexecutables queue transactions again that never left the index. *)
(*                                                                         *)
(* The heap is a bag (its order is the function Prio, ties are open); a    *)
(* pop is a step, so that Cap and Discard are the loops of the code.       *)
(***************************************************************************)
EXTENDS Integers, FiniteSets, FiniteSetsExt, TLAPS

CONSTANTS
    Txs,        \* transactions
    Prio,       \* priority of each transaction
    LocalTxs,   \* the transactions of local accounts
    MaxCopies,  \* bound: entries of one transaction in the heap
    MinStales   \* bound: nothing is put when the stale counter is lower

ASSUME PriorityAssumption ==
    /\ Prio \in [Txs -> Int]
    /\ LocalTxs \subseteq Txs
    /\ MaxCopies \in Nat
    /\ MinStales \in Int

VARIABLES
    all,        \* the pool's index
    items,      \* the heap: how many entries each transaction has
    stales,     \* how many of the entries are believed to be stale
    phase,      \* "idle", popping in "discard" or "cap", or "remove"
    limit,      \* what is left of Discard's count, or Cap's threshold
    save,       \* popped, to be pushed back: how many entries of each
    drop        \* popped, to be removed from the pool

vars == <<all, items, stales, phase, limit, save, drop>>

Init ==
    /\ all = {} /\ items = [t \in Txs |-> 0] /\ stales = 0
    /\ phase = "idle" /\ limit = 0 /\ save = [t \in Txs |-> 0] /\ drop = {}

TypeOK ==
    /\ all \subseteq Txs
    /\ items \in [Txs -> Nat]
    /\ stales \in Int
    /\ phase \in {"idle", "discard", "cap", "remove"}
    /\ limit \in Int
    /\ save \in [Txs -> Nat]
    /\ drop \subseteq Txs

Empty == \A t \in Txs : items[t] = 0
Length == MapThenSumSet(LAMBDA t : items[t], Txs)

\* The entries a pop can return: those of the lowest priority.
Heads == {t \in Txs : items[t] > 0 /\ \A u \in Txs : items[u] > 0 => Prio[t] <= Prio[u]}

Popped(t) == [items EXCEPT ![t] = @ - 1]

\* Add one entry of each member of S to the heap h.
Pushed(h, S) == [t \in Txs |-> IF t \in S THEN h[t] + 1 ELSE h[t]]

-----------------------------------------------------------------------------
(* What the pool does to the heap                                          *)

\* A transaction enters the index and the heap (enqueueTx, promoteTx), or is
\* queued again while it is still in the index (demoteUnexecutables).
Put(t) ==
    /\ phase = "idle"
    /\ items[t] < MaxCopies /\ stales >= MinStales
    /\ all' = all \cup {t}
    /\ items' = Pushed(items, {t})
    /\ UNCHANGED <<stales, phase, limit, save, drop>>

\* Removed, after the index has become `index': the counter and the heap, which
\* is rebuilt if more than a quarter of it is believed to be stale.
Rebuilds == stales + 1 > Length \div 4
StalesRemoved == IF Rebuilds THEN 0 ELSE stales + 1
HeapRemoved(index) == IF Rebuilds
                      THEN [t \in Txs |-> IF t \in index THEN 1 ELSE 0]
                      ELSE items

\* A transaction leaves the index.  The one a replacement removes need not have
\* been in it.
Delete(t) ==
    /\ phase = "idle"
    /\ all' = all \ {t}
    /\ items' = HeapRemoved(all')
    /\ stales' = StalesRemoved
    /\ UNCHANGED <<phase, limit, save, drop>>

-----------------------------------------------------------------------------
(* Underpriority, Discard and Cap                                          *)

\* All three skip the stale entries they meet.
SkipStale(t) ==
    /\ \/ phase \in {"idle", "cap"}
       \/ phase = "discard" /\ limit > 0
    /\ t \in Heads \ all
    /\ items' = Popped(t)
    /\ stales' = stales - 1
    /\ UNCHANGED <<all, phase, limit, save, drop>>

\* Discard(count) and Cap(threshold) start popping.
Start(kind, n) ==
    /\ phase = "idle"
    /\ phase' = kind /\ limit' = n
    /\ UNCHANGED <<all, items, stales, save, drop>>

\* An entry that is in the index is saved if it is local, and dropped otherwise.
PopLive(t) ==
    /\ t \in Heads \cap all
    /\ items' = Popped(t)
    /\ IF t \in LocalTxs
       THEN save' = Pushed(save, {t}) /\ UNCHANGED drop
       ELSE drop' = drop \cup {t} /\ UNCHANGED save
    /\ UNCHANGED <<all, stales, phase>>

DiscardPop(t) ==
    /\ phase = "discard" /\ limit > 0
    /\ PopLive(t)
    /\ limit' = IF t \in LocalTxs THEN limit ELSE limit - 1

CapPop(t) ==
    /\ phase = "cap" /\ Prio[t] < limit
    /\ PopLive(t)
    /\ UNCHANGED limit

\* The loop ends; what was saved is pushed back.  (Cap pops the first entry at or
\* above its threshold and saves it too.)
\* (Fault: what was saved is forgotten.)
PushBackNothing(h) == h
PushBack(h) == [t \in Txs |-> h[t] + save[t]]

PopEnd ==
    /\ \/ phase = "discard" /\ (limit <= 0 \/ Empty)
       \/ phase = "cap" /\ (Empty \/ \E t \in Heads \cap all : Prio[t] >= limit)
    /\ items' = PushBack(items)
    /\ phase' = "remove" /\ limit' = 0 /\ save' = [t \in Txs |-> 0]
    /\ UNCHANGED <<all, stales, drop>>

\* removeTx on a dropped one, which may queue some transactions again.
RemoveTx(t, requeued) ==
    /\ phase = "remove" /\ t \in drop
    /\ drop' = drop \ {t}
    /\ all' = all \ {t}
    /\ IF t \in all
       THEN /\ items' = Pushed(HeapRemoved(all'), requeued)
            /\ stales' = StalesRemoved
            /\ \A u \in requeued : u \in all' /\ items[u] < MaxCopies
       ELSE requeued = {} /\ UNCHANGED <<items, stales>>
    /\ UNCHANGED <<phase, limit, save>>

RemoveEnd ==
    /\ phase = "remove" /\ drop = {}
    /\ phase' = "idle"
    /\ UNCHANGED <<all, items, stales, limit, save, drop>>

Next ==
    \/ \E t \in Txs : \/ Put(t)
                      \/ Delete(t)
                      \/ SkipStale(t)
                      \/ DiscardPop(t)
                      \/ CapPop(t)
                      \/ \E requeued \in SUBSET Txs : RemoveTx(t, requeued)
    \/ \E n \in 1..Cardinality(Txs) : Start("discard", n)
    \/ \E t \in Txs : Start("cap", Prio[t])
    \/ PopEnd \/ RemoveEnd

Spec == Init /\ [][Next]_vars

-----------------------------------------------------------------------------
(* Properties                                                              *)

\* Whatever is in the index can be found through the heap, so that a full pool can
\* always make room: skipping stale entries, saving local ones, rebuilding and
\* re-queueing never lose the last entry of a transaction.
AllInHeap ==
    \A t \in all : items[t] > 0 \/ save[t] > 0 \/ t \in drop

\* The popping loops of Discard and Cap pick remote transactions, none of which has
\* a higher priority than a remote one they leave: what removeTx takes out of a
\* full pool is never better than what stays.
DropsCheapest ==
    phase \in {"discard", "cap"} =>
        \A t \in drop : /\ t \notin LocalTxs
                        /\ \A u \in all \ (LocalTxs \cup drop) : Prio[t] <= Prio[u]

\* Cap drops every remote transaction below the threshold, stale and repeated
\* entries notwithstanding.
CapComplete ==
    [][phase = "cap" /\ phase' = "remove" =>
          drop = {t \in all \ LocalTxs : Prio[t] < limit}]_vars

\* Together: the heap never loses a transaction of the index, and what Discard
\* and Cap take out are exactly the cheapest remote ones.
HeapSound == [](TypeOK /\ AllInHeap /\ DropsCheapest) /\ CapComplete

-----------------------------------------------------------------------------
(* HeapSound for any transactions, priorities and sequences of calls.      *)

\* What is popped is accounted for: saved entries are local, dropped ones are
\* remote, and nothing of either is left over when no loop runs.
PoppedOK ==
    /\ \A t \in Txs : save[t] > 0 => t \in LocalTxs
    /\ drop \cap LocalTxs = {}
    /\ phase \in {"idle", "remove"} => \A t \in Txs : save[t] = 0
    /\ phase = "idle" => drop = {}

\* While a loop pops, what it has dropped is in the index and is no better than
\* anything that is still in the heap, and Cap stays below its threshold.
PopsInOrder ==
    phase \in {"discard", "cap"} =>
        \A t \in drop : /\ t \in all
                        /\ \A u \in Txs : items[u] > 0 => Prio[t] <= Prio[u]
                        /\ phase = "cap" => Prio[t] < limit

IndInv == TypeOK /\ AllInHeap /\ PoppedOK /\ PopsInOrder

\* The heap never has a negative number of entries.
LEMMA TypeNext ==
    ASSUME TypeOK, [Next]_vars
    PROVE  TypeOK'
<1> USE PriorityAssumption DEF TypeOK
<1>1. ASSUME NEW t \in Txs, Put(t)
      PROVE  TypeOK'
  BY <1>1 DEF Put, Pushed
<1>2. StalesRemoved \in Int /\ \A S \in SUBSET Txs : HeapRemoved(S) \in [Txs -> Nat]
  BY DEF StalesRemoved, HeapRemoved
<1>3. ASSUME NEW t \in Txs, Delete(t)
      PROVE  TypeOK'
  BY <1>2, <1>3 DEF Delete
<1>4. ASSUME NEW t \in Heads
      PROVE  Popped(t) \in [Txs -> Nat]
  BY <1>4 DEF Popped, Heads
<1>5. ASSUME NEW t \in Txs, SkipStale(t)
      PROVE  TypeOK'
  BY <1>4, <1>5 DEF SkipStale
<1>6. ASSUME NEW t \in Txs, PopLive(t)
      PROVE  /\ all' \subseteq Txs /\ items' \in [Txs -> Nat] /\ stales' \in Int
             /\ phase' = phase /\ save' \in [Txs -> Nat] /\ drop' \subseteq Txs
  BY <1>4, <1>6 DEF PopLive, Pushed
<1>7. ASSUME NEW t \in Txs, DiscardPop(t) \/ CapPop(t)
      PROVE  TypeOK'
  BY <1>6, <1>7 DEF DiscardPop, CapPop
<1>8. CASE PopEnd
  BY <1>8 DEF PopEnd, PushBack
<1>9. ASSUME NEW t \in Txs, NEW R, RemoveTx(t, R)
      PROVE  TypeOK'
  BY <1>2, <1>9 DEF RemoveTx, Pushed
<1>10. CASE RemoveEnd
  BY <1>10 DEF RemoveEnd
<1>11. ASSUME NEW n \in Int, NEW kind \in {"discard", "cap"}, Start(kind, n)
       PROVE  TypeOK'
  BY <1>11 DEF Start
<1>12. CASE UNCHANGED vars
  BY <1>12 DEF vars
<1> QED
  BY <1>1, <1>3, <1>5, <1>7, <1>8, <1>9, <1>10, <1>11, <1>12 DEF Next

\* Popping an entry of the index moves it to where it is accounted for.
LEMMA InvPop ==
    ASSUME IndInv, NEW t \in Txs, DiscardPop(t) \/ CapPop(t)
    PROVE  (AllInHeap /\ PoppedOK /\ PopsInOrder)'
<1> USE PriorityAssumption DEF IndInv
<1>1. /\ t \in all /\ items[t] > 0 /\ \A u \in Txs : items[u] > 0 => Prio[t] <= Prio[u]
      /\ items' = [items EXCEPT ![t] = @ - 1]
      /\ \/ t \in LocalTxs /\ save' = [u \in Txs |-> IF u \in {t} THEN save[u] + 1 ELSE save[u]]
            /\ drop' = drop
         \/ t \notin LocalTxs /\ drop' = drop \cup {t} /\ save' = save
      /\ all' = all /\ phase' = phase /\ phase \in {"discard", "cap"}
      /\ phase = "cap" => Prio[t] < limit /\ limit' = limit
  BY DEF DiscardPop, CapPop, PopLive, Heads, Popped, Pushed
<1>2. \A u \in Txs : items'[u] > 0 => items[u] > 0
  BY <1>1 DEF TypeOK
<1>3. AllInHeap'
  BY <1>1 DEF AllInHeap, TypeOK
<1>4. PoppedOK'
  BY <1>1 DEF PoppedOK, TypeOK
<1>5. PopsInOrder'
  BY <1>1, <1>2 DEF PopsInOrder
<1> QED
  BY <1>3, <1>4, <1>5

\* Every Put, Removed, Discard and Cap step preserves the inductive invariant.
LEMMA InvNext == IndInv /\ [Next]_vars => IndInv'
<1> SUFFICES ASSUME IndInv, [Next]_vars
             PROVE  (AllInHeap /\ PoppedOK /\ PopsInOrder)'
  BY TypeNext DEF IndInv
<1> USE PriorityAssumption DEF IndInv
<1>1. ASSUME NEW t \in Txs, Put(t)
      PROVE  (AllInHeap /\ PoppedOK /\ PopsInOrder)'
  BY <1>1 DEF Put, Pushed, AllInHeap, PoppedOK, PopsInOrder, TypeOK
<1>2. \A S \in SUBSET all : \A u \in S : HeapRemoved(S)[u] > 0 \/ HeapRemoved(S)[u] = items[u]
  BY DEF HeapRemoved, TypeOK
<1>3. ASSUME NEW t \in Txs, Delete(t)
      PROVE  (AllInHeap /\ PoppedOK /\ PopsInOrder)'
  BY <1>2, <1>3 DEF Delete, AllInHeap, PoppedOK, PopsInOrder, TypeOK
<1>4. ASSUME NEW t \in Txs, SkipStale(t)
      PROVE  (AllInHeap /\ PoppedOK /\ PopsInOrder)'
  <2>1. items' = [items EXCEPT ![t] = @ - 1] /\ t \notin all
    BY <1>4 DEF SkipStale, Popped
  <2>2. \A u \in Txs : items'[u] > 0 => items[u] > 0
    BY <2>1 DEF TypeOK
  <2>3. AllInHeap'
    BY <1>4, <2>1 DEF SkipStale, AllInHeap, TypeOK
  <2> QED
    BY <1>4, <2>2, <2>3 DEF SkipStale, PoppedOK, PopsInOrder
<1>5. CASE PopEnd
  <2>1. AllInHeap'
    BY <1>5 DEF PopEnd, PushBack, AllInHeap, TypeOK
  <2> QED
    BY <1>5, <2>1 DEF PopEnd, PoppedOK, PopsInOrder
<1>6. ASSUME NEW t \in Txs, NEW R, RemoveTx(t, R)
      PROVE  (AllInHeap /\ PoppedOK /\ PopsInOrder)'
  <2>1. AllInHeap'
    <3>1. CASE t \in all
      <4>1. HeapRemoved(all') \in [Txs -> Nat]
        BY <1>6 DEF HeapRemoved, RemoveTx, TypeOK
      <4>2. \A u \in Txs : items'[u] >= HeapRemoved(all')[u]
        <5> DEFINE h == HeapRemoved(all')
        <5>1. items' = Pushed(h, R)
          BY <1>6, <3>1 DEF RemoveTx
        <5>2. h \in [Txs -> Nat]
          BY <4>1
        <5> HIDE DEF h
        <5>3. \A u \in Txs : items'[u] >= h[u]
          BY <5>1, <5>2 DEF Pushed
        <5> QED
          BY <5>3 DEF h
      <4>3. all' \subseteq all /\ save' = save /\ drop' = drop \ {t} /\ t \notin all'
        BY <1>6 DEF RemoveTx
      <4> QED
        BY <1>2, <4>1, <4>2, <4>3, TypeNext DEF AllInHeap, TypeOK
    <3>2. CASE t \notin all
      BY <1>6, <3>2 DEF RemoveTx, AllInHeap
    <3> QED
      BY <3>1, <3>2
  <2> QED
    BY <1>6, <2>1 DEF RemoveTx, PoppedOK, PopsInOrder
<1>7. CASE RemoveEnd
  BY <1>7 DEF RemoveEnd, AllInHeap, PoppedOK, PopsInOrder
<1>8. ASSUME NEW n, NEW kind \in {"discard", "cap"}, Start(kind, n)
      PROVE  (AllInHeap /\ PoppedOK /\ PopsInOrder)'
  BY <1>8 DEF Start, AllInHeap, PoppedOK, PopsInOrder
<1>9. CASE UNCHANGED vars
  BY <1>9 DEF vars, AllInHeap, PoppedOK, PopsInOrder
<1> QED
  BY <1>1, <1>3, <1>4, <1>5, <1>6, <1>7, <1>8, <1>9, InvPop DEF Next

\* The inductive invariant holds in every reachable state of the heap.
LEMMA HeapInvariant == Spec => []IndInv
<1>1. Init => IndInv
  BY PriorityAssumption DEF Init, IndInv, TypeOK, AllInHeap, PoppedOK, PopsInOrder
<1> QED
  BY <1>1, InvNext, PTL DEF Spec

\* Stale entries, repeated entries, rebuilds and saved entries never make the heap
\* lose a transaction of the index.
THEOREM HeapHasAll == Spec => []AllInHeap
BY HeapInvariant, PTL DEF IndInv

\* Discard and Cap take the cheapest remote transactions.
THEOREM HeapDropsCheapest == Spec => []DropsCheapest
<1>1. IndInv => DropsCheapest
  BY DEF IndInv, AllInHeap, PoppedOK, PopsInOrder, DropsCheapest, TypeOK
<1> QED
  BY <1>1, HeapInvariant, PTL

\* Cap takes every remote transaction below the threshold.
THEOREM HeapCapComplete == Spec => CapComplete
<1> DEFINE Complete == phase = "cap" /\ phase' = "remove" =>
                         drop = {t \in all \ LocalTxs : Prio[t] < limit}
<1>1. ASSUME IndInv, Next, phase = "cap", phase' = "remove"
      PROVE  drop = {t \in all \ LocalTxs : Prio[t] < limit}
  <2>1. PopEnd
    BY <1>1 DEF Next, Put, Delete, SkipStale, DiscardPop, CapPop, PopLive, RemoveTx, RemoveEnd, Start
  <2>2. Empty \/ \E t \in Heads : Prio[t] >= limit
    BY <1>1, <2>1 DEF PopEnd
  <2>3. \A t \in all \ LocalTxs : items[t] > 0 \/ t \in drop
    BY <1>1 DEF IndInv, AllInHeap, PoppedOK, TypeOK
  <2>4. \A t \in all \ LocalTxs : Prio[t] < limit => items[t] = 0
    <3> SUFFICES ASSUME NEW t \in all \ LocalTxs, Prio[t] < limit, items[t] # 0, ~Empty
                 PROVE  FALSE
      BY <1>1 DEF Empty, IndInv, TypeOK
    <3>1. PICK h \in Heads : Prio[h] >= limit
      BY <2>2
    <3>2. t \in Txs /\ items[t] > 0
      BY <1>1 DEF IndInv, TypeOK
    <3>3. Prio[h] <= Prio[t]
      BY <3>2 DEF Heads
    <3> QED
      BY <1>1, <3>1, <3>2, <3>3, PriorityAssumption DEF Heads, IndInv, TypeOK
  <2>5. \A t \in drop : t \in all \ LocalTxs /\ Prio[t] < limit
    BY <1>1 DEF IndInv, PoppedOK, PopsInOrder
  <2> QED
    BY <2>3, <2>4, <2>5
<1>2. IndInv /\ [Next]_vars => [Complete]_vars
  BY <1>1
<1> QED
  BY <1>2, HeapInvariant, PTL DEF Spec, CapComplete

\* The heap is sound for every set of transactions, priorities and limits.
THEOREM HeapSoundness == Spec => HeapSound
<1>1. IndInv => TypeOK
  BY DEF IndInv
<1> QED
  BY <1>1, HeapInvariant, HeapHasAll, HeapDropsCheapest, HeapCapComplete, PTL DEF HeapSound
=============================================================================
