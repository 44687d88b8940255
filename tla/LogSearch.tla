------------------------------ MODULE LogSearch ------------------------------
(***************************************************************************)
(* filters.Filter: the logs of a block range that meet the criteria.  The  *)
(* part of the range the bloom index covers is searched through the        *)
(* matcher, the rest header by header; both only suggest blocks, whose     *)
(* logs are then filtered.  Block numbers are 64-bit in the code and       *)
(* LogWord-ary here: -1 is the latest block and -2 the pending one.        *)
(***************************************************************************)
EXTENDS Integers, Sequences, FiniteSets, SequencesExt

CONSTANTS LogsOf,       \* the logs of the canonical blocks, a sequence for 0, 1, ..: [address, topics]
          BloomBits,    \* the bits of an address or topic
          Criteria,     \* [addresses: a set, topics: a sequence of sets]
          LogSectionSize, MaxSections, LogWord

VARIABLE search

Unsigned(n) == n % LogWord
Signed(u) == IF u >= LogWord \div 2 THEN u - LogWord ELSE u

LastBlock == Len(LogsOf) - 1
BlockLogs(n) == LogsOf[n + 1]
Mentions(log) == {log.address} \union Range(log.topics)
CreateBloom(n) == UNION {BloomBits[item] : item \in UNION {Mentions(log) : log \in Range(BlockLogs(n))}}
BloomLookup(bloom, item) == BloomBits[item] \subseteq bloom

\* HeaderByNumber: any number but -1 is read as an unsigned one.
HasHeader(n) == n = -1 \/ Unsigned(n) <= LastBlock
HeaderNumber(n) == IF n = -1 THEN LastBlock ELSE n

-----------------------------------------------------------------------------
(* The criteria: an empty set of addresses or topics is a wildcard.        *)

Matches(log, crit) ==
    /\ crit.addresses # {} => log.address \in crit.addresses
    /\ Len(crit.topics) <= Len(log.topics)
    /\ \A i \in 1 .. Len(crit.topics) : crit.topics[i] # {} => log.topics[i] \in crit.topics[i]

filterLogs(logs, crit) == SelectSeq(logs, LAMBDA log : Matches(log, crit))

bloomFilter(bloom, crit) ==
    \A items \in {crit.addresses} \union Range(crit.topics) :
        items # {} => \E item \in items : BloomLookup(bloom, item)

checkMatches(n, crit) == [i \in 1 .. Len(filterLogs(BlockLogs(n), crit)) |-> <<n, filterLogs(BlockLogs(n), crit)[i]>>]

Found(numbers, crit) == FlattenSeq([i \in 1 .. Len(numbers) |-> checkMatches(numbers[i], crit)])

Numbers(a, b) == [i \in 1 .. (IF b >= a THEN b - a + 1 ELSE 0) |-> a + i - 1]

-----------------------------------------------------------------------------
(* The search. *)

\* The matches of a session of the matcher over from .. to: it has the bits
\* of the indexed blocks only.
Suggested(from, to, indexed, crit) ==
    SelectSeq(Numbers(from, to), LAMBDA n : n < indexed /\ bloomFilter(CreateBloom(n), crit))

\* The loop ends at the first number that has no header.
unindexedLogs(begin, end, crit) ==
    LET range == Numbers(begin, Signed(end))
        read == SelectSeq(range, LAMBDA n : \A m \in begin .. n : HasHeader(m))
    IN  Found(SelectSeq([i \in 1 .. Len(read) |-> HeaderNumber(read[i])],
                        LAMBDA n : bloomFilter(CreateBloom(n), crit)), crit)

\* Last block searched through the index; the second form searches one
\* block of the section that is not complete yet.
IndexedEndBeyond(indexed, end) == IF indexed > end THEN end ELSE indexed
IndexedEnd(indexed, end) == IF indexed > end THEN end ELSE indexed - 1

Logs(begin, last, sections, crit) ==
    LET from == IF begin = -1 THEN LastBlock ELSE begin
        end == IF last = -1 THEN LastBlock ELSE Unsigned(last)
        indexed == sections * LogSectionSize
        upTo == IndexedEnd(indexed, end)
    IN  IF indexed > Unsigned(from)
        THEN Found(Suggested(from, upTo, indexed, crit), crit) \o unindexedLogs(upTo + 1, end, crit)
        ELSE unindexedLogs(from, end, crit)

-----------------------------------------------------------------------------
LogSearchInit == search = [done |-> FALSE]

\* GetLogs and GetFilterLogs.  The index never covers more than the chain.
GetLogs(begin, end, sections, crit) ==
    /\ ~search.done /\ sections * LogSectionSize <= LastBlock + 1
    /\ search' = [done |-> TRUE, begin |-> begin, end |-> end, crit |-> crit, logs |-> Logs(begin, end, sections, crit)]

LogSearchNext ==
    \E begin, end \in -2 .. LastBlock + 2, sections \in 0 .. MaxSections, crit \in Criteria : GetLogs(begin, end, sections, crit)

LogSearchSpec == LogSearchInit /\ [][LogSearchNext]_search

-----------------------------------------------------------------------------
\* However the range is split between the index and the headers, a search of
\* blocks by number or "latest" returns the logs of these blocks that meet
\* the criteria, each once and in order.
LogsComplete ==
    search.done /\ search.begin # -2 /\ search.end # -2 =>
        LET from == IF search.begin = -1 THEN LastBlock ELSE search.begin
            to == IF search.end = -1 THEN LastBlock ELSE search.end
        IN  search.logs = Found(Numbers(from, IF to > LastBlock THEN LastBlock ELSE to), search.crit)
=============================================================================
