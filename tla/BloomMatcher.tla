---------------------------- MODULE BloomMatcher -----------------------------
(***************************************************************************)
(* bloom.Matcher: sections flow through a chain of sub-matchers; each asks *)
(* the scheduler of every bit it needs for the section's bit vector, a     *)
(* distributor hands the requests to retrievers, and the vectors are       *)
(* and-ed and or-ed to the blocks that may match.                          *)
(*                                                                         *)
(* A vector is the set of the positions in a section whose bit is set.     *)
(* Goroutines are processes that communicate through bounded channels; a   *)
(* stream <<k, clause, bit>> is one run of a scheduler.  When the session  *)
(* is closed the goroutines of the pipeline leave together.                *)
(***************************************************************************)
EXTENDS Naturals, Sequences, FiniteSets, SequencesExt, FiniteSetsExt, TLC

CONSTANTS Filters,      \* per sub-matcher a sequence of clauses, each a sequence of bits
          VectorOf,     \* VectorOf[bit][section]: the set bits
          Begin, End, SectionBlocks,   \* the range of blocks, and the blocks of a section
          Buffer,       \* capacity of the channels
          Retrievers, Batch, MaxFails

VARIABLES pipe,         \* the goroutines and channels of the pipeline
          sched,        \* per bit and section: none, asked, cached
          distr,        \* the distributor
          retriever,    \* the Multiplex goroutines
          session       \* quit, kill, error and the results so far

matcherVars == <<pipe, sched, distr, retriever, session>>

FilterStages == DOMAIN Filters
Sections == Begin \div SectionBlocks .. End \div SectionBlocks
StreamsOf(k) == FlattenSeq([c \in DOMAIN Filters[k] |-> [j \in DOMAIN Filters[k][c] |-> <<k, c, Filters[k][c][j]>>]])
Streams == UNION {ToSet(StreamsOf(k)) : k \in FilterStages}
Bits == {st[3] : st \in Streams}
Everything == 0 .. SectionBlocks - 1

Channel == [q |-> <<>>, closed |-> FALSE]
HasRoom(ch) == Len(ch.q) < Buffer
Sent(ch, v) == [ch EXCEPT !.q = Append(@, v)]
Taken(ch) == [ch EXCEPT !.q = Tail(@)]
Closed(ch) == [ch EXCEPT !.closed = TRUE]
AtEnd(ch) == ch.q = <<>> /\ ch.closed

Live == pipe.at = "run"

-----------------------------------------------------------------------------
(* The goroutines of run and subMatch. *)

Feed ==
    /\ Live /\ HasRoom(pipe.link[1]) /\ pipe.fed \in Sections
    /\ pipe' = [pipe EXCEPT !.fed = @ + 1, !.link[1] =
                   LET sent == Sent(@, [section |-> pipe.fed, bits |-> Everything])
                   IN  IF pipe.fed = Max(Sections) THEN Closed(sent) ELSE sent]
    /\ UNCHANGED <<sched, distr, retriever, session>>

\* The multiplexer of a sub-matcher gives the section to one stream after the other.
MuxRead(k) ==
    /\ Live /\ pipe.mux[k].at = "read" /\ pipe.link[k].q # <<>>
    /\ pipe' = [pipe EXCEPT !.link[k] = Taken(@),
                            !.mux[k] = [at |-> "send", sub |-> Head(pipe.link[k].q), todo |-> StreamsOf(k)]]
    /\ UNCHANGED <<sched, distr, retriever, session>>

MuxSend(k) ==
    LET mux == pipe.mux[k]
    IN  /\ Live /\ mux.at = "send"
        /\ IF mux.todo # <<>>
           THEN /\ HasRoom(pipe.source[Head(mux.todo)])
                /\ pipe' = [pipe EXCEPT !.source[Head(mux.todo)] = Sent(@, mux.sub.section), !.mux[k].todo = Tail(@)]
           ELSE /\ HasRoom(pipe.process[k])
                /\ pipe' = [pipe EXCEPT !.process[k] = Sent(@, mux.sub), !.mux[k].at = "read"]
        /\ UNCHANGED <<sched, distr, retriever, session>>

MuxEnd(k) ==
    /\ Live /\ pipe.mux[k].at = "read" /\ AtEnd(pipe.link[k])
    /\ pipe' = [pipe EXCEPT !.mux[k].at = "done", !.process[k] = Closed(@),
                            !.source = [st \in Streams |-> IF st[1] = k THEN Closed(@[st]) ELSE @[st]]]
    /\ UNCHANGED <<sched, distr, retriever, session>>

\* The collector takes the vectors of the section in the order of the streams.
CollectRead(k) ==
    /\ Live /\ pipe.collect[k].at = "read" /\ pipe.process[k].q # <<>>
    /\ pipe' = [pipe EXCEPT !.process[k] = Taken(@),
                   !.collect[k] = [at |-> "take", sub |-> Head(pipe.process[k].q), todo |-> StreamsOf(k), got |-> <<>>]]
    /\ UNCHANGED <<sched, distr, retriever, session>>

CollectTake(k) ==
    LET st == Head(pipe.collect[k].todo)
    IN  /\ Live /\ pipe.collect[k].at = "take" /\ pipe.collect[k].todo # <<>> /\ pipe.sink[st].q # <<>>
        /\ pipe' = [pipe EXCEPT !.sink[st] = Taken(@), !.collect[k].todo = Tail(@),
                                !.collect[k].got = Append(@, Head(pipe.sink[st].q))]
        /\ UNCHANGED <<sched, distr, retriever, session>>

\* The and of a clause's vectors, the or of the clauses, the and with what came before.
Clauses(k, got) ==
    UNION {{b \in Everything : \A i \in DOMAIN got : StreamsOf(k)[i][2] = c => b \in got[i]} : c \in DOMAIN Filters[k]}
Merged(k, got, before) == Clauses(k, got) \intersect before

CollectSend(k) ==
    LET c == pipe.collect[k]
        match == Merged(k, c.got, c.sub.bits)
    IN  /\ Live /\ c.at = "take" /\ c.todo = <<>>
        /\ match # {} => HasRoom(pipe.link[k + 1])
        /\ pipe' = [pipe EXCEPT !.collect[k].at = "read",
                       !.link[k + 1] = IF match = {} THEN @ ELSE Sent(@, [section |-> c.sub.section, bits |-> match])]
        /\ UNCHANGED <<sched, distr, retriever, session>>

CollectEnd(k) ==
    /\ Live /\ pipe.collect[k].at = "read" /\ AtEnd(pipe.process[k])
    /\ pipe' = [pipe EXCEPT !.collect[k].at = "done", !.link[k + 1] = Closed(@)]
    /\ UNCHANGED <<sched, distr, retriever, session>>

\* The reader of the sink: the blocks of the section within the range.
Results ==
    LET sink == pipe.link[Len(Filters) + 1]
        res == Head(sink.q)
        blocks == {res.section * SectionBlocks + b : b \in res.bits} \intersect Begin .. End
    IN  /\ Live /\ sink.q # <<>>
        /\ session' = [session EXCEPT !.out = @ \o SetToSortSeq(blocks, <)]
        /\ pipe' = [pipe EXCEPT !.link[Len(Filters) + 1] = Taken(@)]
        /\ UNCHANGED <<sched, distr, retriever>>

ResultsEnd ==
    /\ Live /\ AtEnd(pipe.link[Len(Filters) + 1]) /\ ~session.complete
    /\ session' = [session EXCEPT !.complete = TRUE]
    /\ UNCHANGED <<pipe, sched, distr, retriever>>

-----------------------------------------------------------------------------
(* The two goroutines of a scheduler's run. *)

\* A section is asked for once, whoever asks first.  (Fault: by everybody.)
UniqueAlways(bit, section) == sched[bit][section] # "cached"
Unique(bit, section) == sched[bit][section] = "none"

Request(st) ==
    LET section == Head(pipe.source[st].q)
        unique == Unique(st[3], section)
    IN  /\ Live /\ pipe.ask[st].at = "read" /\ pipe.source[st].q # <<>>
        /\ pipe' = [pipe EXCEPT !.source[st] = Taken(@), !.ask[st] = [at |-> IF unique THEN "dist" ELSE "pend", section |-> section]]
        /\ sched' = [sched EXCEPT ![st[3]][section] = IF unique THEN "asked" ELSE @]
        /\ UNCHANGED <<distr, retriever, session>>

Distribute(st) ==
    /\ Live /\ pipe.ask[st].at = "dist" /\ Len(distr.dist) < Buffer
    /\ distr' = [distr EXCEPT !.dist = Append(@, <<st[3], pipe.ask[st].section>>)]
    /\ pipe' = [pipe EXCEPT !.ask[st].at = "pend"]
    /\ UNCHANGED <<sched, retriever, session>>

Pend(st) ==
    /\ Live /\ pipe.ask[st].at = "pend" /\ HasRoom(pipe.pend[st])
    /\ pipe' = [pipe EXCEPT !.pend[st] = Sent(@, pipe.ask[st].section), !.ask[st].at = "read"]
    /\ UNCHANGED <<sched, distr, retriever, session>>

\* scheduleDeliveries: the oldest pending section, once its vector has come.
Deliver(st) ==
    LET section == Head(pipe.pend[st].q)
    IN  /\ Live /\ pipe.pend[st].q # <<>> /\ HasRoom(pipe.sink[st]) /\ sched[st[3]][section] = "cached"
        /\ pipe' = [pipe EXCEPT !.pend[st] = Taken(@), !.sink[st] = Sent(@, VectorOf[st[3]][section])]
        /\ UNCHANGED <<sched, distr, retriever, session>>

-----------------------------------------------------------------------------
(* The distributor.  A retriever that waits for a bit gets one at once when*)
(* assign finds it waiting, or is served when the distributor next listens.*)

Running == distr.at = "run"

\* assign: to a retriever that already waits, or the bit is left unallocated.
Assign(d, bit) ==
    IF \E r \in Retrievers : retriever[r].at = "alloc" THEN [d EXCEPT !.assign = <<bit>>]
    ELSE [d EXCEPT !.unallocs = @ \union {bit}]
DistributorReady == Running /\ distr.assign = <<>>

AssignRetriever(r) ==
    /\ Running /\ distr.assign # <<>> /\ retriever[r].at = "alloc"
    /\ distr' = [distr EXCEPT !.assign = <<>>, !.allocs = @ + 1]
    /\ retriever' = [retriever EXCEPT ![r] = [at |-> "got", bit |-> distr.assign[1], sections |-> {}]]
    /\ UNCHANGED <<pipe, sched, session>>

\* The retriever left before it was assigned: the default branch.
AssignNobody ==
    /\ Running /\ distr.assign # <<>> /\ \A r \in Retrievers : retriever[r].at # "alloc"
    /\ distr' = [distr EXCEPT !.assign = <<>>, !.unallocs = @ \union {distr.assign[1]}]
    /\ UNCHANGED <<pipe, sched, retriever, session>>

TakeRequest ==
    LET req == Head(distr.dist)
        queued == [distr EXCEPT !.dist = Tail(@), !.requests[req[1]] = @ \union {req[2]}]
    IN  /\ DistributorReady /\ distr.dist # <<>>
        /\ distr' = IF distr.requests[req[1]] = {} THEN Assign(queued, req[1]) ELSE queued
        /\ UNCHANGED <<pipe, sched, retriever, session>>

\* AllocateRetrieval: the unallocated bit with the lowest section.
Allocate(r) ==
    /\ DistributorReady /\ retriever[r].at = "alloc"
    /\ \E bit \in distr.unallocs :
          /\ \A other \in distr.unallocs : Min(distr.requests[bit]) <= Min(distr.requests[other])
          /\ distr' = [distr EXCEPT !.unallocs = @ \ {bit}, !.allocs = @ + 1]
          /\ retriever' = [retriever EXCEPT ![r] = [at |-> "got", bit |-> bit, sections |-> {}]]
    /\ UNCHANGED <<pipe, sched, session>>

\* AllocateSections: the lowest sections of the bit, as many as are wanted.
AllocateSections(r, want, then) ==
    LET bit == retriever[r].bit
        all == distr.requests[bit]
        given == {s \in all : Cardinality({t \in all : t < s}) < want}
        left == [distr EXCEPT !.requests[bit] = @ \ given]
    IN  /\ DistributorReady /\ retriever[r].at = "got"
        /\ retriever' = [retriever EXCEPT ![r].at = then, ![r].sections = given]
        /\ distr' = IF all \ given # {} THEN Assign(left, bit) ELSE left
        /\ UNCHANGED <<pipe, sched, session>>

\* Multiplex returns after an empty delivery, and asks for another bit after a full one.
AfterDelivery(r) == IF retriever[r].at = "empty" THEN "done" ELSE "alloc"

\* DeliverSections: vectors that are missing are asked for again.
TakeDelivery(r) ==
    LET bit == retriever[r].bit
        missing == IF retriever[r].at = "empty" THEN retriever[r].sections ELSE {}
        given == retriever[r].sections \ missing
        queued == [distr EXCEPT !.requests[bit] = @ \union missing, !.allocs = @ - 1]
        assigned == IF missing # {} /\ distr.requests[bit] = {} THEN Assign(queued, bit) ELSE queued
    IN  /\ DistributorReady /\ retriever[r].at \in {"deliver", "empty"}
        /\ sched' = [sched EXCEPT ![bit] = [s \in Sections |-> IF s \in given /\ @[s] = "asked" THEN "cached" ELSE @[s]]]
        /\ distr' = IF assigned.allocs = 0 /\ distr.shutdown THEN [assigned EXCEPT !.at = "done"] ELSE assigned
        /\ retriever' = [retriever EXCEPT ![r] = [at |-> AfterDelivery(r), bit |-> 0, sections |-> {}]]
        /\ UNCHANGED <<pipe, session>>

Shutdown ==
    /\ DistributorReady /\ session.quit /\ ~distr.shutdown
    /\ distr' = IF distr.allocs = 0 THEN [distr EXCEPT !.at = "done"] ELSE [distr EXCEPT !.shutdown = TRUE]
    /\ UNCHANGED <<pipe, sched, retriever, session>>

KillDistributor ==
    /\ DistributorReady /\ session.kill
    /\ distr' = [distr EXCEPT !.at = "done"]
    /\ UNCHANGED <<pipe, sched, retriever, session>>

-----------------------------------------------------------------------------
(* Multiplex, and the end of a session. *)

\* The service answers, or fails: then the session is closed by this goroutine,
\* which delivers only after Close has returned.
Service(r, fails) ==
    /\ retriever[r].at = "mux"
    /\ fails => session.fails < MaxFails
    /\ session' = [session EXCEPT !.fails = @ + (IF fails THEN 1 ELSE 0), !.quit = @ \/ fails]
    /\ retriever' = [retriever EXCEPT ![r].at = IF fails THEN "closing" ELSE "deliver"]
    /\ UNCHANGED <<pipe, sched, distr>>

CloseReturns(r) ==
    /\ retriever[r].at = "closing" /\ ~Live /\ ~Running
    /\ retriever' = [retriever EXCEPT ![r].at = "empty"]
    /\ UNCHANGED <<pipe, sched, distr, session>>

\* The selects on quit and on kill of AllocateRetrieval, AllocateSections and DeliverSections.
RetrieverQuits(r) ==
    /\ session.quit
    /\ \/ /\ retriever[r].at = "alloc" /\ retriever' = [retriever EXCEPT ![r].at = "done"]
       \/ /\ retriever[r].at \in {"got", "mux"} /\ retriever' = [retriever EXCEPT ![r].at = "empty"]
       \/ /\ retriever[r].at = "got" /\ retriever' = [retriever EXCEPT ![r].at = "mux"]
       \/ /\ retriever[r].at \in {"deliver", "empty"} /\ session.kill
          /\ retriever' = [retriever EXCEPT ![r].at = AfterDelivery(r)]
    /\ UNCHANGED <<pipe, sched, distr, session>>

Close ==
    /\ ~session.quit
    /\ session' = [session EXCEPT !.quit = TRUE]
    /\ UNCHANGED <<pipe, sched, distr, retriever>>

PipelineEnds ==
    /\ session.quit /\ Live
    /\ pipe' = [pipe EXCEPT !.at = "done"]
    /\ UNCHANGED <<sched, distr, retriever, session>>

\* The timer of Close, and a Close that waits without one.
KillNever == FALSE /\ UNCHANGED matcherVars
Kill ==
    /\ session.quit /\ ~session.kill
    /\ session' = [session EXCEPT !.kill = TRUE]
    /\ UNCHANGED <<pipe, sched, distr, retriever>>

-----------------------------------------------------------------------------
MatcherInit ==
    /\ pipe = [at |-> "run", fed |-> Min(Sections), link |-> [k \in 1 .. Len(Filters) + 1 |-> Channel],
               mux |-> [k \in FilterStages |-> [at |-> "read", sub |-> [section |-> 0, bits |-> {}], todo |-> <<>>]],
               collect |-> [k \in FilterStages |-> [at |-> "read", sub |-> [section |-> 0, bits |-> {}], todo |-> <<>>, got |-> <<>>]],
               process |-> [k \in FilterStages |-> Channel], source |-> [st \in Streams |-> Channel],
               ask |-> [st \in Streams |-> [at |-> "read", section |-> 0]],
               pend |-> [st \in Streams |-> Channel], sink |-> [st \in Streams |-> Channel]]
    /\ sched = [b \in Bits |-> [s \in Sections |-> "none"]]
    /\ distr = [at |-> "run", dist |-> <<>>, requests |-> [b \in Bits |-> {}], unallocs |-> {}, allocs |-> 0,
                assign |-> <<>>, shutdown |-> FALSE]
    /\ retriever = [r \in Retrievers |-> [at |-> "alloc", bit |-> 0, sections |-> {}]]
    /\ session = [quit |-> FALSE, kill |-> FALSE, fails |-> 0, out |-> <<>>, complete |-> FALSE]

Pipeline == Feed \/ Results \/ ResultsEnd
            \/ (\E k \in FilterStages : MuxRead(k) \/ MuxSend(k) \/ MuxEnd(k) \/ CollectRead(k) \/ CollectTake(k) \/ CollectSend(k) \/ CollectEnd(k))
            \/ (\E st \in Streams : Request(st) \/ Distribute(st) \/ Pend(st) \/ Deliver(st))
Retrieving(r) == AssignRetriever(r) \/ Allocate(r) \/ TakeDelivery(r) \/ CloseReturns(r) \/ RetrieverQuits(r)
                 \/ AllocateSections(r, Batch, "mux") \/ Service(r, FALSE)
                 \/ (session.quit /\ AllocateSections(r, 0, "empty"))
Distributing == TakeRequest \/ AssignNobody \/ Shutdown \/ KillDistributor

MatcherNext == Pipeline \/ Distributing \/ Close \/ PipelineEnds \/ Kill
               \/ \E r \in Retrievers : Retrieving(r) \/ Service(r, TRUE)
MatcherWork == Pipeline \/ Distributing \/ (session.complete /\ Close) \/ PipelineEnds \/ Kill \/ \E r \in Retrievers : Retrieving(r)

MatcherSpec == MatcherInit /\ [][MatcherNext]_matcherVars

-----------------------------------------------------------------------------
\* Reference: a block may match when each sub-matcher has a clause all of whose bits are set.
MayMatch(n) ==
    LET section == n \div SectionBlocks
    IN  \A k \in FilterStages : \E c \in DOMAIN Filters[k] : \A j \in DOMAIN Filters[k][c] :
           n % SectionBlocks \in VectorOf[Filters[k][c][j]][section]
Expected == SetToSortSeq({n \in Begin .. End : MayMatch(n)}, <)

\* The places a request for the vector of a bit in a section can be: a scheduler
\* about to send it, the channel of requests, the distributor's queue, a retriever.
Fetching(bit, section) ==
    Cardinality({st \in Streams : st[3] = bit /\ pipe.ask[st].at = "dist" /\ pipe.ask[st].section = section})
    + Len(SelectSeq(distr.dist, LAMBDA req : req = <<bit, section>>))
    + Cardinality({x \in {distr} : section \in x.requests[bit]})
    + Cardinality({r \in Retrievers : retriever[r].bit = bit /\ section \in retriever[r].sections})

\* The matcher returns the blocks that may match in order, and all of them before
\* it closes the channel of results, whatever order the retrievers deliver in;
\* while the session is open a vector that was asked for is being fetched exactly
\* once, however many schedulers and stages share its bit, and none that has come
\* is fetched again; the distributor knows how many retrievers work for it.
MatchesExact ==
    /\ IsPrefix(session.out, Expected)
    /\ session.complete => session.out = Expected
    /\ Live /\ Running /\ ~session.quit =>
          \A bit \in Bits, s \in Sections : Fetching(bit, s) = IF sched[bit][s] = "asked" THEN 1 ELSE 0
    /\ Running /\ ~session.kill => distr.allocs = Cardinality({r \in Retrievers : retriever[r].at \notin {"alloc", "done"}})

\* A session ends: every section is matched or a failure closes it, and Close
\* returns, after a second at the latest, although the goroutine that closes it
\* still owes the distributor a delivery.
MatcherEnds == <>(~Live /\ ~Running /\ \A r \in Retrievers : retriever[r].at = "done")
=============================================================================
