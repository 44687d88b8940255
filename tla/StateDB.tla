------------------------------ MODULE StateDB --------------------------------
(***************************************************************************)
(* state.StateDB: accounts that are read from the trie into live objects,  *)
(* written there with a journal that can be undone, finalised into the     *)
(* trie after every transaction and committed to the database once.        *)
(*                                                                         *)
(* A trie is the partial function it stands for, a hash is what it is the  *)
(* hash of, and 0 is the zero hash, the empty code and the nil code.  The  *)
(* operators map a StateDB record to the one after the call, so that the   *)
(* execution of transactions can be built from them.                       *)
(***************************************************************************)
EXTENDS Naturals, Sequences, FiniteSets, SequencesExt, Functions, TLC

CONSTANTS Addresses, Keys, Codes,
          MaxCalls,      \* calls that write
          MaxRevisions,  \* snapshots that are valid at a time
          MaxRounds      \* calls of Finalise, CommitTo and Copy

VARIABLES sdb,   \* the StateDB
          plain, \* what it stands for: accounts, refund, logs, preimages
          saved, \* plain at each valid revision
          calls, rounds \* how many of each

sdbVars == <<sdb, plain, saved, calls, rounds>>

Nothing == <<>>   \* the empty map

PutState(f, k, v) == (k :> v) @@ f
Drop(f, k) == Restrict(f, DOMAIN f \ {k})
At(f, k) == IF k \in DOMAIN f THEN f[k] ELSE 0

-----------------------------------------------------------------------------
(* stateObject: data is the Account with the contents of its storage trie; *)
(* fresh says that onDirty is not nil.                                     *)

NoAccount == [nonce |-> 0, root |-> Nothing, codeHash |-> 0]

newObject(data) == [data |-> data, cached |-> Nothing, dirtyStorage |-> Nothing, code |-> 0,
                    dirtyCode |-> FALSE, suicided |-> FALSE, deleted |-> FALSE, fresh |-> TRUE]

empty(o) == o.data.nonce = 0 /\ o.data.codeHash = 0

objGetState(o, k) == IF k \in DOMAIN o.cached THEN o.cached[k] ELSE At(o.data.root, k)

objCode(o) == IF o.code # 0 THEN o.code ELSE o.data.codeHash

\* updateTrie: the zero value deletes.
updateTrie(o) ==
    LET left == {k \in DOMAIN o.data.root : At(o.dirtyStorage, k) # 0 \/ k \notin DOMAIN o.dirtyStorage}
        set  == {k \in DOMAIN o.dirtyStorage : o.dirtyStorage[k] # 0}
    IN  [o EXCEPT !.dirtyStorage = Nothing,
                  !.data.root = Restrict(o.dirtyStorage, set) @@ Restrict(@, left)]

deepCopy(o) == [o EXCEPT !.cached = o.dirtyStorage, !.fresh = TRUE]

-----------------------------------------------------------------------------
(* StateDB: access to objects. *)

NewStateDB(trie, codes, roots) ==
    [trie |-> trie, objs |-> Nothing, dirty |-> {}, refund |-> 0, thash |-> 0, logs |-> Nothing,
     preimages |-> {}, journal |-> <<>>, revisions |-> <<>>,
     codes |-> codes, roots |-> roots]

\* getStateObject puts what it finds in the trie into the live set.
Load(s, a) ==
    IF a \in DOMAIN s.objs \/ a \notin DOMAIN s.trie THEN s
    ELSE [s EXCEPT !.objs = PutState(@, a, newObject(s.trie[a]))]

Live(s, a) == a \in DOMAIN s.objs /\ ~s.objs[a].deleted

Log(s, entry) == [s EXCEPT !.journal = Append(@, entry)]

\* A change to a live object, with MarkStateObjectDirty.
Change(s, a, o) ==
    [s EXCEPT !.objs = PutState(@, a, [o EXCEPT !.fresh = FALSE]),
              !.dirty = IF o.fresh THEN @ \union {a} ELSE @]

createObject(s0, a) ==
    LET s == Load(s0, a)
        entry == IF Live(s, a) THEN [op |-> "reset", a |-> a, prev |-> s.objs[a]]
                               ELSE [op |-> "create", a |-> a]
    IN  Change(Log(s, entry), a, newObject(NoAccount))

GetOrNew(s0, a) ==
    LET s == Load(s0, a) IN IF Live(s, a) THEN s ELSE createObject(s, a)

-----------------------------------------------------------------------------
(* Setters. *)

setNonce(s, a, n) == Change(s, a, [s.objs[a] EXCEPT !.data.nonce = n])

setCode(s, a, c) ==
    Change(s, a, [s.objs[a] EXCEPT !.code = c, !.data.codeHash = c, !.dirtyCode = TRUE])

setState(s, a, k, v) ==
    Change(s, a, [s.objs[a] EXCEPT !.cached = PutState(@, k, v), !.dirtyStorage = PutState(@, k, v)])

SetNonce(s0, a, n) ==
    LET s == GetOrNew(s0, a)
    IN  setNonce(Log(s, [op |-> "nonce", a |-> a, nonce |-> s.objs[a].data.nonce]), a, n)

SetCode(s0, a, c) ==
    LET s == GetOrNew(s0, a)
    IN  setCode(Log(s, [op |-> "code", a |-> a, code |-> objCode(s.objs[a])]), a, c)

SetState(s0, a, k, v) ==
    LET s == GetOrNew(s0, a)
    IN  setState(Log(s, [op |-> "storage", a |-> a, key |-> k,
                         val |-> objGetState(s.objs[a], k)]), a, k, v)

Suicide(s0, a) ==
    LET s == Load(s0, a)
    IN  IF ~Live(s, a) THEN s
        ELSE Change(Log(s, [op |-> "suicide", a |-> a, was |-> s.objs[a].suicided]), a,
                    [s.objs[a] EXCEPT !.suicided = TRUE])

AddRefund(s, n) ==
    [Log(s, [op |-> "refund", refund |-> s.refund]) EXCEPT !.refund = @ + n]

AddLog(s) ==
    [Log(s, [op |-> "log", thash |-> s.thash]) EXCEPT !.logs = PutState(@, s.thash, At(@, s.thash) + 1)]

AddPreimage(s, h) ==
    IF h \in s.preimages THEN s
    ELSE [Log(s, [op |-> "preimage", hash |-> h]) EXCEPT !.preimages = @ \union {h}]

Prepare(s, h) == [s EXCEPT !.thash = h]

-----------------------------------------------------------------------------
(* Getters: they load the object, and keep a value that is not zero.       *)

Exist(s, a) == IF a \in DOMAIN s.objs THEN ~s.objs[a].deleted ELSE a \in DOMAIN s.trie

Object(s, a) == Load(s, a).objs[a]

GetNonce(s, a) == IF Exist(s, a) THEN Object(s, a).data.nonce ELSE 0
GetCode(s, a) == IF Exist(s, a) THEN objCode(Object(s, a)) ELSE 0
GetState(s, a, k) == IF Exist(s, a) THEN objGetState(Object(s, a), k) ELSE 0
HasSuicided(s, a) == Exist(s, a) /\ Object(s, a).suicided

AfterGet(s0, a, k) ==
    LET s == Load(s0, a)
        v == objGetState(s.objs[a], k)
    IN  IF ~Live(s, a) THEN s
        ELSE [s EXCEPT !.objs[a].cached = IF v # 0 THEN PutState(@, k, v) ELSE @,
                       !.objs[a].code = objCode(s.objs[a])]

-----------------------------------------------------------------------------
(* Snapshot and RevertToSnapshot: ids only grow, a valid one is a position *)
(* in validRevisions, which holds lengths of the journal.                  *)

undo(entry, s0) ==
    LET s == IF "a" \in DOMAIN entry THEN Load(s0, entry.a) ELSE s0
        a == entry.a
    IN  CASE entry.op = "create"   -> [s0 EXCEPT !.objs = Drop(@, a), !.dirty = @ \ {a}]
          [] entry.op = "reset"    -> [s0 EXCEPT !.objs[a] = entry.prev]
          [] entry.op = "nonce"    -> setNonce(s, a, entry.nonce)
          [] entry.op = "code"     -> setCode(s, a, entry.code)
          [] entry.op = "storage"  -> setState(s, a, entry.key, entry.val)
          [] entry.op = "suicide"  -> IF ~Live(s, a) THEN s
                                      ELSE [s EXCEPT !.objs[a].suicided = entry.was]
          [] entry.op = "refund"   -> [s EXCEPT !.refund = entry.refund]
          [] entry.op = "preimage" -> [s EXCEPT !.preimages = @ \ {entry.hash}]
          [] entry.op = "log"      ->
                [s EXCEPT !.logs = IF @[entry.thash] = 1 THEN Drop(@, entry.thash)
                                   ELSE PutState(@, entry.thash, @[entry.thash] - 1)]

Snapshot(s) ==
    [s EXCEPT !.revisions = Append(@, Len(s.journal))]

\* A revert whose loop stops one entry early.
RevertShort(s, i) ==
    LET from == s.revisions[i]
    IN  [FoldRight(undo, SubSeq(s.journal, from + 2, Len(s.journal)), s) EXCEPT
            !.journal = SubSeq(s.journal, 1, from),
            !.revisions = SubSeq(s.revisions, 1, i - 1)]

RevertToSnapshot(s, i) ==
    LET from == s.revisions[i]
    IN  [FoldRight(undo, SubSeq(s.journal, from + 1, Len(s.journal)), s) EXCEPT
            !.journal = SubSeq(s.journal, 1, from),
            !.revisions = SubSeq(s.revisions, 1, i - 1)]

-----------------------------------------------------------------------------
(* Finalise, CommitTo with deleteEmptyObjects, Copy. *)

clearJournalAndRefund(s) == [s EXCEPT !.journal = <<>>, !.revisions = <<>>, !.refund = 0]

Gone(o) == o.suicided \/ empty(o)

\* deleteStateObject of those in gone, updateStateObject of those in kept.
Written(s, gone, kept) ==
    [s EXCEPT
        !.objs = [a \in DOMAIN @ |-> IF a \in gone THEN [@[a] EXCEPT !.deleted = TRUE]
                                     ELSE IF a \in kept THEN updateTrie(@[a]) ELSE @[a]],
        !.trie = [a \in kept |-> updateTrie(s.objs[a]).data] @@
                 Restrict(@, DOMAIN @ \ gone)]

Finalise(s) ==
    LET gone == {a \in s.dirty : Gone(s.objs[a])}
    IN  clearJournalAndRefund(Written(s, gone, s.dirty \ gone))

\* CommitTo writes the code and the storage trie of the objects it keeps.
CommitTo(s) ==
    LET gone  == {a \in DOMAIN s.objs : s.objs[a].suicided \/ (a \in s.dirty /\ empty(s.objs[a]))}
        kept  == s.dirty \ gone
        coded == {a \in kept : s.objs[a].code # 0 /\ s.objs[a].dirtyCode}
        w     == Written(s, gone, kept)
    IN  clearJournalAndRefund([w EXCEPT
            !.codes = @ \union {s.objs[a].data.codeHash : a \in coded},
            !.roots = @ \union {w.objs[a].data.root : a \in kept},
            !.objs = [a \in DOMAIN @ |-> IF a \in coded THEN [@[a] EXCEPT !.dirtyCode = FALSE]
                                         ELSE @[a]],
            !.dirty = {}])

\* New on the root that was committed.
Reopened(s) == NewStateDB(s.trie, s.codes, s.roots)

Copy(s) ==
    [s EXCEPT !.objs = [a \in s.dirty |-> deepCopy(s.objs[a])], !.journal = <<>>,
              !.revisions = <<>>, !.thash = 0]

-----------------------------------------------------------------------------
(* What the caller sees, and what it should see: plain accounts on which   *)
(* every call has its obvious effect and a revert brings back the copy.    *)

View(s) ==
    [acc |-> [a \in {b \in Addresses : Exist(s, b)} |->
                [nonce |-> GetNonce(s, a), code |-> GetCode(s, a), dead |-> HasSuicided(s, a),
                 st |-> [k \in Keys |-> GetState(s, a, k)]]],
     refund |-> s.refund, logs |-> s.logs, preimages |-> s.preimages]

PlainNew == [nonce |-> 0, code |-> 0, dead |-> FALSE, st |-> [k \in Keys |-> 0]]

PlainAcc(a) == IF a \in DOMAIN plain.acc THEN plain.acc[a] ELSE PlainNew

PlainLeft(acc) == Restrict(acc, {a \in DOMAIN acc : ~acc[a].dead /\ (acc[a].nonce > 0 \/ acc[a].code # 0)})

\* One account has been committed before, with its nonce, code and storage.
Committed ==
    LET a == CHOOSE a \in Addresses : TRUE
        k == CHOOSE k \in Keys : TRUE
        c == CHOOSE c \in Codes : TRUE
    IN  Reopened(CommitTo(SetState(SetCode(SetNonce(NewStateDB(Nothing, {0}, {Nothing}), a, 1), a, c), a, k, 1)))

SDBInit ==
    /\ sdb = Committed
    /\ plain = View(sdb)
    /\ saved = <<>>
    /\ calls = 0 /\ rounds = 0

Step(s) == calls < MaxCalls /\ calls' = calls + 1 /\ sdb' = s

DoSet(a) ==
    /\ \/ \E n \in {1} : /\ Step(SetNonce(sdb, a, n))
                            /\ plain' = [plain EXCEPT !.acc = PutState(@, a, [PlainAcc(a) EXCEPT !.nonce = n])]
       \/ \E c \in Codes :
             /\ Step(SetCode(sdb, a, c))
             /\ plain' = [plain EXCEPT !.acc = PutState(@, a, [PlainAcc(a) EXCEPT !.code = c])]
       \/ \E k \in Keys, v \in 0 .. 1 :
             /\ Step(SetState(sdb, a, k, v))
             /\ plain' = [plain EXCEPT !.acc = PutState(@, a, [PlainAcc(a) EXCEPT !.st[k] = v])]
    /\ UNCHANGED <<saved, rounds>>

DoCreateAccount(a) ==
    /\ Step(createObject(sdb, a))
    /\ plain' = [plain EXCEPT !.acc = PutState(@, a, PlainNew)]
    /\ UNCHANGED <<saved, rounds>>

DoSuicide(a) ==
    /\ Step(Suicide(sdb, a))
    /\ plain' = [plain EXCEPT !.acc = IF a \in DOMAIN @ THEN PutState(@, a, [PlainAcc(a) EXCEPT !.dead = TRUE])
                                      ELSE @]
    /\ UNCHANGED <<saved, rounds>>

DoExtras ==
    /\ \/ /\ Step(AddRefund(sdb, 1))
          /\ plain' = [plain EXCEPT !.refund = @ + 1]
       \/ /\ Step(AddLog(sdb))
          /\ plain' = [plain EXCEPT !.logs = PutState(@, sdb.thash, At(@, sdb.thash) + 1)]
       \/ /\ Step(AddPreimage(sdb, 1))
          /\ plain' = [plain EXCEPT !.preimages = @ \union {1}]
    /\ UNCHANGED <<saved, rounds>>

DoGet(a) ==
    /\ \E k \in Keys : sdb' = AfterGet(sdb, a, k)
    /\ UNCHANGED <<plain, saved, calls, rounds>>

DoSnapshot ==
    /\ Len(sdb.revisions) < MaxRevisions
    /\ sdb' = Snapshot(sdb)
    /\ saved' = Append(saved, plain)
    /\ UNCHANGED <<plain, calls, rounds>>

DoRevert ==
    /\ \E i \in DOMAIN sdb.revisions :
          /\ sdb' = RevertToSnapshot(sdb, i)
          /\ plain' = saved[i]
          /\ saved' = SubSeq(saved, 1, i - 1)
    /\ UNCHANGED <<calls, rounds>>

\* Finalise ends a transaction, Prepare starts the next.
DoFinalise ==
    /\ rounds < MaxRounds /\ rounds' = rounds + 1
    /\ sdb' = Prepare(Finalise(sdb), sdb.thash + 1)
    /\ plain' = [plain EXCEPT !.acc = PlainLeft(@), !.refund = 0]
    /\ saved' = <<>>
    /\ UNCHANGED calls

DoCommit ==
    /\ rounds < MaxRounds /\ rounds' = rounds + 1
    /\ sdb' = Reopened(CommitTo(sdb))
    /\ plain' = [plain EXCEPT !.acc = PlainLeft(@), !.refund = 0, !.logs = Nothing, !.preimages = {}]
    /\ saved' = <<>>
    /\ UNCHANGED calls

DoCopy ==
    /\ rounds < MaxRounds /\ rounds' = rounds + 1
    /\ sdb' = Copy(sdb)
    /\ saved' = <<>>
    /\ UNCHANGED <<plain, calls>>

SDBNext ==
    \/ \E a \in Addresses : DoSet(a) \/ DoCreateAccount(a) \/ DoSuicide(a) \/ DoGet(a)
    \/ DoExtras \/ DoSnapshot \/ DoRevert \/ DoFinalise \/ DoCommit \/ DoCopy

SDBSpec == SDBInit /\ [][SDBNext]_sdbVars

-----------------------------------------------------------------------------
\* However calls, snapshots, reverts to inner and outer snapshots, Finalise, CommitTo and
\* Copy follow each other, the getters return what the plain accounts have, and what the
\* account trie has is on disk or still in a live object that CommitTo will write.
StateReverts ==
    /\ View(sdb) = plain
    /\ sdb.dirty \subseteq DOMAIN sdb.objs
    /\ \A a \in DOMAIN sdb.trie :
          \/ a \in sdb.dirty
          \/ sdb.trie[a].codeHash \in sdb.codes /\ sdb.trie[a].root \in sdb.roots
=============================================================================
