---------------------------- MODULE ChainIndexer -----------------------------
(***************************************************************************)
(* chainindexer.ChainIndexer with the bloom index as its backend: the      *)
(* event loop follows the head of the chain, the update loop processes     *)
(* one section at a time without the lock, and the number of sections      *)
(* and their heads are kept in the database across restarts.               *)
(*                                                                         *)
(* A block is the chain that ends with it, so its hash, its number and its *)
(* ancestors are those of the sequence.  The chain writes a block before   *)
(* it announces it, and announces only the head after a reorg.  The node   *)
(* gives the indexer no children.                                          *)
(***************************************************************************)
EXTENDS Integers, Sequences, FiniteSets, SequencesExt, FiniteSetsExt

CONSTANTS SectionSize, ConfirmsReq,
          MaxChain, MaxReorgs, MaxRestarts    \* bounds on what happens to the chain and the node

VARIABLES canonical,   \* the canonical chain in the chain database
          headEvents,  \* announced heads the event loop has not read
          idxDb,       \* the index database: count, section heads, bloom bits
          indexer,     \* the indexer in memory
          idxPast      \* reorgs and restarts so far, and whether one went unseen

indexerVars == <<canonical, headEvents, idxDb, indexer, idxPast>>

SectionIds == 0 .. MaxChain \div SectionSize
NumberOf(b) == Len(b) - 1
CanonicalBlock(n) == SubSeq(canonical, 1, n + 1)
SectionEnd(section) == (section + 1) * SectionSize - 1

\* NewChainIndexer and the first newHead of the event loop.
AfterNewHead(i, head) ==
    LET sections == IF head >= ConfirmsReq THEN (head + 1 - ConfirmsReq) \div SectionSize ELSE 0
        more == sections > i.known
    IN  [i EXCEPT !.known = IF more THEN sections ELSE @, !.update = @ \/ more]
Started(db, chain) ==
    AfterNewHead([stored |-> db.count, known |-> 0, update |-> FALSE, prev |-> chain, due |-> FALSE,
                  job |-> <<>>], NumberOf(chain))

-----------------------------------------------------------------------------
(* The index database. *)

SectionHead(db, section) == IF section < 0 THEN <<>> ELSE db.heads[section]

\* setValidSections on the database: the sections from there on are dropped.
ValidSections(db, stored, n) ==
    [db EXCEPT !.count = n, !.heads = [s \in SectionIds |-> IF n <= s /\ s < stored THEN <<>> ELSE @[s]]]

-----------------------------------------------------------------------------
(* eventLoop *)

FindCommonAncestor(a, b) == LongestCommonPrefix({a, b})

\* newHead of a reorganisation; the new head itself is due when it has returned.
AfterReorg(head) ==
    LET changed == head \div SectionSize
        kept == IF changed < indexer.stored THEN changed ELSE indexer.stored
    IN  /\ idxDb' = IF changed < indexer.stored THEN ValidSections(idxDb, indexer.stored, changed) ELSE idxDb
        /\ indexer' = [indexer EXCEPT !.known = IF changed < @ THEN changed ELSE @, !.stored = kept,
                                      !.prev = Head(headEvents), !.due = TRUE]
        /\ idxPast' = [idxPast EXCEPT !.missed = @ \/ (indexer.job # <<>> /\ changed = indexer.job[1].section)]

ChainEvent ==
    /\ headEvents # <<>> /\ ~indexer.due
    /\ headEvents' = Tail(headEvents)
    /\ LET header == Head(headEvents)
       IN  IF Front(header) # indexer.prev
           THEN AfterReorg(NumberOf(FindCommonAncestor(indexer.prev, header)))
           ELSE /\ indexer' = [AfterNewHead(indexer, NumberOf(header)) EXCEPT !.prev = header]
                /\ UNCHANGED <<idxDb, idxPast>>
    /\ UNCHANGED canonical

\* The second newHead after a reorganisation takes the lock again.
NewHead ==
    /\ indexer.due
    /\ indexer' = [AfterNewHead(indexer, NumberOf(indexer.prev)) EXCEPT !.due = FALSE]
    /\ UNCHANGED <<canonical, headEvents, idxDb, idxPast>>

-----------------------------------------------------------------------------
(* updateLoop *)

Job(section, old) == <<[section |-> section, old |-> old, last |-> old, next |-> section * SectionSize, err |-> FALSE]>>

\* An update: under the lock, take the next section if there is one.  Reset of the
\* backend fails only for a section size that is no multiple of 8, and the node
\* gives it BloomBitsBlocks = 4096, so its error return is left out.
TakeSection ==
    /\ indexer.update /\ indexer.job = <<>>
    /\ indexer' = [indexer EXCEPT !.update = FALSE,
                      !.job = IF indexer.known > indexer.stored
                              THEN Job(indexer.stored, SectionHead(idxDb, indexer.stored - 1)) ELSE <<>>]
    /\ UNCHANGED <<canonical, headEvents, idxDb, idxPast>>

\* processSection reads the next header from the database.
ReadHeader ==
    LET job == indexer.job[1]
        here == CanonicalBlock(job.next)
        broken == job.next > NumberOf(canonical) \/ (job.next > 0 /\ Front(here) # job.last)
    IN  /\ indexer.job # <<>> /\ ~job.err /\ job.next <= SectionEnd(job.section)
        /\ indexer' = [indexer EXCEPT !.job[1] = IF broken THEN [job EXCEPT !.err = TRUE]
                                                ELSE [job EXCEPT !.last = here, !.next = @ + 1]]
        /\ UNCHANGED <<canonical, headEvents, idxDb, idxPast>>

\* BloomIndexer.Commit: the bits of the section, stored under its head.
CommitBits ==
    LET job == indexer.job[1]
    IN  /\ indexer.job # <<>> /\ ~job.err /\ job.next = SectionEnd(job.section) + 1
        /\ \E failed \in BOOLEAN :
              /\ idxDb' = IF failed THEN idxDb ELSE [idxDb EXCEPT !.bits = @ \union {job.last}]
              /\ indexer' = [indexer EXCEPT !.job[1] = IF failed THEN [job EXCEPT !.err = TRUE]
                                                      ELSE [job EXCEPT !.next = @ + 1]]
        /\ UNCHANGED <<canonical, headEvents, idxPast>>

\* "no reorgs occurred", and a test that believes it of every section.
UnmovedAlways(job) == ~job.err
Unmoved(job) == ~job.err /\ job.old = SectionHead(idxDb, job.section - 1)

Rescheduled(i) == [i EXCEPT !.update = @ \/ i.known > i.stored, !.job = <<>>]

\* Back under the lock: the section is marked completed, or given up.
MarkSection ==
    LET job == indexer.job[1]
        n == job.section
    IN  /\ indexer.job # <<>> /\ (job.err \/ job.next = SectionEnd(n) + 2)
        /\ IF Unmoved(job)
           THEN /\ idxDb' = ValidSections([idxDb EXCEPT !.heads[n] = job.last], indexer.stored, n + 1)
                /\ indexer' = Rescheduled([indexer EXCEPT !.stored = n + 1])
           ELSE /\ indexer' = Rescheduled([indexer EXCEPT !.known = indexer.stored])
                /\ UNCHANGED idxDb
        /\ UNCHANGED <<canonical, headEvents, idxPast>>

-----------------------------------------------------------------------------
(* The chain and the node. *)

Extend ==
    /\ NumberOf(canonical) < MaxChain
    /\ canonical' = Append(canonical, 0)
    /\ headEvents' = Append(headEvents, canonical')
    /\ UNCHANGED <<idxDb, indexer, idxPast>>

\* A longer chain that leaves the canonical one above block n.
Reorg(n) ==
    /\ idxPast.reorgs < MaxReorgs /\ n < NumberOf(canonical) /\ NumberOf(canonical) < MaxChain
    /\ idxPast' = [idxPast EXCEPT !.reorgs = @ + 1]
    /\ canonical' = CanonicalBlock(n) \o [i \in 1 .. NumberOf(canonical) + 1 - n |-> idxPast.reorgs + 1]
    /\ headEvents' = Append(headEvents, canonical')
    /\ UNCHANGED <<idxDb, indexer>>

\* The node stops and starts again, perhaps between the two writes of MarkSection.
Restart(marking) ==
    /\ idxPast.restarts < MaxRestarts
    /\ marking => indexer.job # <<>> /\ ~indexer.job[1].err /\ Unmoved(indexer.job[1])
                  /\ indexer.job[1].next = SectionEnd(indexer.job[1].section) + 2
    /\ idxDb' = IF marking THEN [idxDb EXCEPT !.heads[indexer.job[1].section] = indexer.job[1].last] ELSE idxDb
    /\ indexer' = Started(idxDb, canonical)
    /\ idxPast' = [idxPast EXCEPT !.restarts = @ + 1, !.missed = @ \/ headEvents # <<>>]
    /\ headEvents' = <<>>
    /\ UNCHANGED canonical

IndexerInit ==
    /\ canonical = <<0>> /\ headEvents = <<>>
    /\ idxDb = [count |-> 0, heads |-> [s \in SectionIds |-> <<>>], bits |-> {}]
    /\ indexer = Started(idxDb, canonical)
    /\ idxPast = [reorgs |-> 0, restarts |-> 0, missed |-> FALSE]

IndexerNext ==
    \/ ChainEvent \/ NewHead \/ TakeSection \/ ReadHeader \/ CommitBits \/ MarkSection \/ Extend
    \/ \E n \in 0 .. MaxChain : Reorg(n)
    \/ \E marking \in BOOLEAN : Restart(marking)

IndexerSpec == IndexerInit /\ [][IndexerNext]_indexerVars

-----------------------------------------------------------------------------
\* Every section the index claims has a head whose bits were committed, also
\* after a stop between two writes.  Once the indexer has read every event its
\* sections are those of the canonical chain, unless a reorg reached into the
\* very section it was processing or was announced to a node that stopped.
SectionsCanonical ==
    /\ \A s \in 0 .. idxDb.count - 1 : idxDb.heads[s] \in idxDb.bits
    /\ idxDb.count = indexer.stored
    /\ headEvents = <<>> /\ ~idxPast.missed =>
          \A s \in 0 .. idxDb.count - 1 : idxDb.heads[s] = CanonicalBlock(SectionEnd(s))

\* updateLoop marks a section completed only "if processing succeeded and no
\* reorgs occurred": the head of a section is canonical once all events are
\* read.  It does not hold: a reorganisation while newHead is not read, or
\* before a restart, changes the head of a section after it was processed.
NoReorgMissed ==
    headEvents = <<>> => \A s \in 0 .. idxDb.count - 1 : idxDb.heads[s] = CanonicalBlock(SectionEnd(s))
=============================================================================
