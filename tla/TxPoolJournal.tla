---------------------------- MODULE TxPoolJournal ----------------------------
(***************************************************************************)
(* The transaction pool with its journal of local transactions             *)
(* (core/txprocessor/tx_journal.go), crashes and restarts.                 *)
(*                                                                         *)
(* The journal file is the set of the transactions in it: what is loaded   *)
(* comes in any order, as rotate writes accounts in map order.  Of what    *)
(* the file holds, load reaches only a part: see Load.                     *)
(***************************************************************************)
EXTENDS TxPool

CONSTANT IOErrors       \* whether operations on the journal file can fail

ASSUME JournalAssumption == IOErrors \in BOOLEAN

VARIABLES
    disk,       \* the transactions in the journal file
    writer,     \* "nil", the "file", or "devNull" while loading
    mode,       \* "down", "loading" or "running"
    loading,    \* transactions load has still to add
    lost,       \* history: records of the file that the running load passed over
    journaled   \* history: written to the journal when they last entered the pool

file == <<disk, writer, journaled>>
process == <<mode, loading, lost>>
jvars == <<vars, file, process>>

\* Every variable has its type; what is still to be loaded, or passed over, is in
\* the file.
JTypeOK ==
    /\ TypeOK
    /\ disk \subseteq Txs
    /\ writer \in {"nil", "file", "devNull"}
    /\ mode \in {"down", "loading", "running"}
    /\ loading \subseteq disk /\ lost \subseteq disk
    /\ journaled \subseteq Txs

JInit ==
    /\ Init
    /\ disk = {} /\ writer = "nil" /\ mode = "loading" /\ loading = {} /\ lost = {}
    /\ journaled = {}

-----------------------------------------------------------------------------
(* The pool's operations                                                   *)

\* journalTx: what comes from a local account is written, if a file is open; a
\* failure is only logged.
JournalTx(t) ==
    \/ /\ From[t] \in locals' /\ writer = "file"
       /\ disk' = disk \cup {t} /\ journaled' = journaled \cup {t}
       /\ UNCHANGED writer
    \/ /\ IOErrors \/ From[t] \notin locals' \/ writer # "file"
       /\ journaled' = journaled \ {t}
       /\ UNCHANGED <<disk, writer>>

JAddEnqueue(t) ==
    /\ AddEnqueue(t)
    /\ JournalTx(t)
    /\ UNCHANGED process

\* A replacement of a pending transaction is not journaled.
JAddReplacePending(t) ==
    /\ AddReplacePending(t)
    /\ UNCHANGED process
    /\ journaled' = journaled \ {t}
    /\ UNCHANGED <<disk, writer>>

JInternal == Internal /\ UNCHANGED <<file, process>>

\* No operation is called before NewTxPool returns, and loop has not started.
JExternal == mode = "running" /\ External /\ UNCHANGED <<file, process>>

-----------------------------------------------------------------------------
(* load, rotate, close                                                     *)

\* load adds the transactions of the file one by one, as local ones.  Each record
\* is decoded with a reader of its own, which reads ahead and whose buffer goes
\* with it: the next reader starts where the buffer ended, so any of the records
\* that are left may be passed over, and a start within a record is a decoding
\* error that ends the loop.  (Fault: they are added as remote ones.)
PassOver(t) ==
    /\ loading' \in SUBSET (loading \ {t})
    /\ lost' = lost \cup ((loading \ {t}) \ loading')
LoadAsRemote(t) ==
    /\ mode = "loading" /\ t \in loading
    /\ AddTxs({t}, FALSE)
    /\ PassOver(t)
    /\ UNCHANGED <<file, mode>>
Load(t) ==
    /\ mode = "loading" /\ t \in loading
    /\ AddTxs({t}, TRUE)
    /\ PassOver(t)
    /\ UNCHANGED <<file, mode>>

Local == {t \in pending \cup queue : From[t] \in locals}

\* rotate: it fails before the new file takes the place of the old one, or after
\* that, when the new one cannot be opened; or the old one cannot be closed.
Rotated ==
    \/ disk' = Local /\ writer' = "file" /\ journaled' = journaled \cup Local
    \/ /\ IOErrors
       /\ \/ disk' = disk /\ writer' = "nil" /\ journaled' = journaled
          \/ disk' = Local /\ writer' = "nil" /\ journaled' = journaled \cup Local
          \/ writer = "file" /\ UNCHANGED file

\* NewTxPool rotates once when the file is loaded; loop does it at every tick.
FinishLoad ==
    /\ mode = "loading" /\ stage = "idle" /\ loading = {}
    /\ Rotated
    /\ mode' = "running" /\ lost' = {}
    /\ UNCHANGED <<vars, loading>>

Rotate ==
    /\ mode = "running" /\ stage = "idle"
    /\ Rotated
    /\ UNCHANGED <<vars, process>>

\* The process ends, by Stop or by a crash, in the middle of an operation too.
Crash ==
    /\ mode # "down"
    /\ mode' = "down" /\ writer' = "nil" /\ loading' = {} /\ lost' = {}
    /\ journaled' = {}
    /\ pending' = {} /\ queue' = {} /\ all' = {} /\ beats' = {} /\ locals' = {}
    /\ stage' = "idle" /\ batch' = {} /\ asLocal' = FALSE /\ dirty' = {}
    /\ drops' = {} /\ after' = "idle" /\ resetting' = FALSE
    /\ UNCHANGED <<disk, heads, pendingNonce>>

\* NewTxPool: reset to the head of the chain, then load the file.  A file that
\* cannot be opened is not loaded.
Restart(nonces) ==
    /\ mode = "down"
    /\ mode' = "loading"
    /\ currentNonce' = nonces /\ headNonce' = nonces /\ pendingNonce' = nonces
    /\ \/ loading' = disk /\ writer' = "devNull"
       \/ IOErrors /\ loading' = {} /\ writer' = "nil"
    /\ UNCHANGED <<pending, queue, all, beats, locals, call, disk, journaled, lost>>

JNext ==
    \/ \E t \in Txs : JAddEnqueue(t) \/ JAddReplacePending(t) \/ Load(t)
    \/ JInternal
    \/ JExternal
    \/ FinishLoad
    \/ Rotate
    \/ Crash
    \/ \E nonces \in HeadNonces : Restart(nonces)

JSpec == JInit /\ [][JNext]_jvars

-----------------------------------------------------------------------------
(* Properties                                                              *)

Pool == pending \cup queue

\* What was once written to the journal stays in it as long as it is in the pool,
\* whatever rotations, failures of rotations, promotions and demotions happen.
JournalCovers == journaled \cap Pool \subseteq disk

\* load has returned, of a file that could be opened.
LoadEnd == mode = "loading" /\ stage = "idle" /\ loading = {} /\ writer = "devNull"

\* What became of a journaled transaction: it is pooled, or its nonce is used, or a
\* transaction of at least its priority has the nonce, or the journal holds more
\* than the pool can.
BroughtBack(t) ==
    \/ t \in Pool
    \/ Nonce[t] < currentNonce[From[t]]
    \/ Refuses(Pool, t)
    \/ Cardinality(disk) > GlobalSlots + GlobalQueue

\* The journal covers the pool, and load brings back each record that it reaches,
\* which is at least one of a file that is not empty.
JournalKeeps ==
    /\ JTypeOK
    /\ JournalCovers
    /\ LoadEnd => /\ \A t \in disk \ lost : BroughtBack(t)
                  /\ disk # {} => disk \ lost # {}

\* "to allow non-executed ones to survive node restarts" (tx_journal.go:46): a
\* restart that can open the file brings back every transaction in it.  It does
\* not: what the decoder of the first record read ahead is lost to the others.
SurvivesRestart == LoadEnd => \A t \in disk : BroughtBack(t)
=============================================================================
