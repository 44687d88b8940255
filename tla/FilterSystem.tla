---------------------------- MODULE FilterSystem -----------------------------
(***************************************************************************)
(* filters.EventSystem and filters.PublicFilterAPI: one loop broadcasts    *)
(* chain, pool and log events to subscriptions over unbuffered channels;   *)
(* a goroutine per filter collects them under filtersMu until the client   *)
(* polls; filters that are not polled are removed by the timeout loop.     *)
(*                                                                         *)
(* A filter either collects for polling or, as an RPC subscription, passes *)
(* events on.  FilterCrit[f] is what it is for: [on |-> "blocks"], "txs",  *)
(* or "logs" with a block range, -1 for latest and -2 for pending.  Events *)
(* are numbered; which logs of an event a filter selects is LogSearch's.   *)
(***************************************************************************)
EXTENDS Integers, Sequences, FiniteSets

CONSTANTS LogFilters, FilterCrit, Pushed,   \* Pushed: the RPC subscriptions
          EventKinds,  \* of "tx", "chain", "logs", "removedLogs", "pendingLogs"
          MaxPosted

\* The criteria NewFilter, NewBlockFilter and NewPendingTransactionFilter make.
ASSUME FilterAssumption ==
    \A f \in LogFilters : \/ FilterCrit[f].on \in {"blocks", "txs"}
                         \/ /\ FilterCrit[f].on = "logs"
                            /\ FilterCrit[f].from \in Int /\ FilterCrit[f].to \in Int

VARIABLES evLoop,   \* the event loop: its index, and whom it still has to send to
          filterOf, \* per filter: its goroutine, its subscription, what it has collected
          filterApi,\* api.filters, filtersMu and the timeout loop
          posted    \* number of events so far

filterVars == <<evLoop, filterOf, filterApi, posted>>

Free == filterApi.mu = "free"

-----------------------------------------------------------------------------
(* The event loop. *)

Latest == -1
PendingNumber == -2

\* SubscribeLogs, SubscribeNewHeads and SubscribePendingTxEvents: the indices
\* a filter is entered in; a range that runs backwards is refused.
Indices(c) ==
    IF c.on # "logs" THEN {c.on}
    ELSE IF c.from = PendingNumber /\ c.to = PendingNumber THEN {"pendingLogs"}
    ELSE IF c.from >= Latest /\ c.to = PendingNumber THEN {"logs", "pendingLogs"}
    ELSE IF c.from # PendingNumber /\ (c.to = Latest \/ (c.from >= 0 /\ c.to >= c.from)) THEN {"logs"}
    ELSE {}

\* subscribe: the loop adds the subscription to its indices.
Subscribe(f) ==
    /\ evLoop.at = "select" /\ filterOf[f].sub = "none" /\ Indices(FilterCrit[f]) # {}
    /\ evLoop' = [evLoop EXCEPT !.index = @ \union {f}]
    /\ filterOf' = [filterOf EXCEPT ![f] = [filterOf[f] EXCEPT !.sub = "installed",
                                                            !.run = IF f \in Pushed THEN "recv" ELSE "new"]]
    /\ UNCHANGED <<filterApi, posted>>

\* The index whose filters an event is sent to.  The second form sends
\* removed logs nowhere.
ReceiversAdded(kind) == IF kind = "tx" THEN "txs" ELSE IF kind = "chain" THEN "blocks" ELSE kind
Receivers(kind) ==
    IF kind = "tx" THEN "txs" ELSE IF kind = "chain" THEN "blocks"
    ELSE IF kind \in {"logs", "removedLogs"} THEN "logs" ELSE "pendingLogs"

\* What a client expects of its filter.
Wants(f, kind) ==
    LET c == FilterCrit[f]
    IN  IF kind = "tx" THEN c.on = "txs" ELSE IF kind = "chain" THEN c.on = "blocks"
        ELSE IF kind \in {"logs", "removedLogs"} THEN c.on = "logs" /\ ~(c.from = PendingNumber /\ c.to = PendingNumber)
        ELSE c.on = "logs" /\ c.to = PendingNumber

\* broadcast: the loop sends the event to its receivers, one after the other;
\* pending logs not to the filters created after they were posted (late).  The
\* light mode is never asked for.
Broadcast(kind, late) ==
    LET index == evLoop.index \ late
        receivers == {f \in index : Receivers(kind) \in Indices(FilterCrit[f])}
        n == posted + 1
    IN  /\ evLoop.at = "select" /\ posted < MaxPosted
        /\ late # {} => kind = "pendingLogs"
        /\ posted' = n
        /\ evLoop' = [evLoop EXCEPT !.at = IF receivers = {} THEN @ ELSE "send", !.todo = receivers, !.ev = n]
        /\ filterOf' = [f \in LogFilters |-> IF f \in index /\ Wants(f, kind)
                                          THEN [filterOf[f] EXCEPT !.due = Append(@, n)] ELSE filterOf[f]]
        /\ UNCHANGED filterApi

SentTo(f) == [evLoop EXCEPT !.todo = @ \ {f}, !.at = IF evLoop.todo = {f} THEN "select" ELSE @]

\* The goroutine of the filter takes the event, or Unsubscribe swallows it.
SendLogs(f) ==
    /\ evLoop.at = "send" /\ f \in evLoop.todo
    /\ evLoop' = SentTo(f)
    /\ \/ /\ filterOf[f].run = "recv"
          /\ filterOf' = [filterOf EXCEPT ![f] =
                 IF f \in Pushed THEN [filterOf[f] EXCEPT !.polled = Append(@, evLoop.ev)]
                 ELSE [filterOf[f] EXCEPT !.run = "append", !.hand = <<evLoop.ev>>]]
       \/ filterOf[f].sub = "uninstalling" /\ UNCHANGED filterOf
    /\ UNCHANGED <<filterApi, posted>>

\* uninstall: the loop drops the subscription and closes its err channel.
Uninstall(f) ==
    /\ evLoop.at = "select" /\ filterOf[f].sub = "uninstalling"
    /\ evLoop' = [evLoop EXCEPT !.index = @ \ {f}]
    /\ filterOf' = [filterOf EXCEPT ![f] = [filterOf[f] EXCEPT !.sub = "gone", !.run = IF f \in Pushed THEN "done" ELSE @]]
    /\ UNCHANGED <<filterApi, posted>>

-----------------------------------------------------------------------------
(* The filters of the API. *)

\* The rest of NewFilter, NewBlockFilter and NewPendingTransactionFilter.
NewFilter(f) ==
    /\ Free /\ filterOf[f].run = "new"
    /\ filterApi' = [filterApi EXCEPT !.filters = @ \union {f}]
    /\ filterOf' = [filterOf EXCEPT ![f].run = "recv"]
    /\ UNCHANGED <<evLoop, posted>>

Collect(f) ==
    /\ Free /\ filterOf[f].run = "append"
    /\ LET g == filterOf[f]
       IN  filterOf' = [filterOf EXCEPT ![f] = [g EXCEPT !.run = "recv", !.hand = <<>>,
                            !.list = IF f \in filterApi.filters THEN g.list \o g.hand ELSE @]]
    /\ UNCHANGED <<evLoop, filterApi, posted>>

\* The err channel was closed: the goroutine removes the filter and ends.
FilterEnds(f) ==
    /\ Free /\ filterOf[f].run = "recv" /\ filterOf[f].sub = "gone"
    /\ filterApi' = [filterApi EXCEPT !.filters = @ \ {f}]
    /\ filterOf' = [filterOf EXCEPT ![f].run = "done"]
    /\ UNCHANGED <<evLoop, posted>>

GetFilterChanges(f) ==
    /\ Free /\ f \in filterApi.filters
    /\ LET g == filterOf[f]
       IN  filterOf' = [filterOf EXCEPT ![f] = [g EXCEPT !.polled = g.polled \o g.list, !.list = <<>>,
                                                         !.expired = FALSE]]
    /\ UNCHANGED <<evLoop, filterApi, posted>>

UninstallFilter(f) ==
    /\ Free /\ f \in filterApi.filters
    /\ filterApi' = [filterApi EXCEPT !.filters = @ \ {f}]
    /\ filterOf' = [filterOf EXCEPT ![f].sub = "uninstalling"]
    /\ UNCHANGED <<evLoop, posted>>

\* The client of an RPC subscription unsubscribes or its connection is lost.
StopPushing(f) ==
    /\ f \in Pushed /\ filterOf[f].run = "recv"
    /\ filterOf' = [filterOf EXCEPT ![f] = [filterOf[f] EXCEPT !.run = "unsubscribe", !.sub = "uninstalling"]]
    /\ UNCHANGED <<evLoop, filterApi, posted>>

-----------------------------------------------------------------------------
(* timeoutLoop holds filtersMu while it unsubscribes what has expired.     *)

Expire(f) ==
    /\ f \in filterApi.filters /\ ~filterOf[f].expired
    /\ filterOf' = [filterOf EXCEPT ![f].expired = TRUE]
    /\ UNCHANGED <<evLoop, filterApi, posted>>

Tick ==
    /\ Free /\ \E f \in filterApi.filters : filterOf[f].expired
    /\ filterApi' = [filterApi EXCEPT !.mu = "timeout", !.scan = filterApi.filters]
    /\ UNCHANGED <<evLoop, filterOf, posted>>

Scan(f) ==
    /\ ~Free /\ f \in filterApi.scan
    /\ IF ~filterOf[f].expired
       THEN /\ filterApi' = [filterApi EXCEPT !.scan = @ \ {f}]
            /\ UNCHANGED filterOf
       ELSE /\ \A g \in LogFilters : filterOf[g].sub = "uninstalling" => g \notin filterApi.scan
            /\ IF filterOf[f].sub = "gone"
               THEN /\ filterApi' = [filterApi EXCEPT !.scan = @ \ {f}, !.filters = @ \ {f}]
                    /\ UNCHANGED filterOf
               ELSE /\ filterOf' = [filterOf EXCEPT ![f].sub = "uninstalling"]
                    /\ UNCHANGED filterApi
    /\ UNCHANGED <<evLoop, posted>>

ScanEnds ==
    /\ ~Free /\ filterApi.scan = {}
    /\ filterApi' = [filterApi EXCEPT !.mu = "free"]
    /\ UNCHANGED <<evLoop, filterOf, posted>>

-----------------------------------------------------------------------------
FilterInit ==
    /\ evLoop = [at |-> "select", index |-> {}, todo |-> {}, ev |-> 0]
    /\ filterOf = [f \in LogFilters |-> [sub |-> "none", run |-> "none", hand |-> <<>>, list |-> <<>>, polled |-> <<>>,
                                      due |-> <<>>, expired |-> FALSE]]
    /\ filterApi = [filters |-> {}, mu |-> "free", scan |-> {}]
    /\ posted = 0

FilterNext ==
    \/ Tick \/ ScanEnds \/ \E kind \in EventKinds, late \in SUBSET evLoop.index : Broadcast(kind, late)
    \/ \E f \in LogFilters : \/ Subscribe(f) \/ SendLogs(f) \/ Uninstall(f) \/ NewFilter(f) \/ Collect(f) \/ FilterEnds(f)
                          \/ GetFilterChanges(f) \/ UninstallFilter(f) \/ StopPushing(f) \/ Expire(f) \/ Scan(f)

FilterSpec == FilterInit /\ [][FilterNext]_filterVars

-----------------------------------------------------------------------------
\* Until it is removed a filter gets every event it asked for once and in
\* order: what was polled, what is collected, what its goroutine holds and
\* what the loop is about to send make up what was posted since it was
\* installed.  A filter that is gone is sent nothing more.
FilterExact ==
    \A f \in LogFilters :
        LET g == filterOf[f]
            coming == IF evLoop.at = "send" /\ f \in evLoop.todo THEN <<evLoop.ev>> ELSE <<>>
        IN  /\ g.sub = "installed" => g.polled \o g.list \o g.hand \o coming = g.due
            /\ Len(g.polled) <= Len(g.due) /\ g.polled = SubSeq(g.due, 1, Len(g.polled))
            /\ g.sub = "gone" => f \notin evLoop.index /\ f \notin evLoop.todo

\* Unsubscribe consumes events so that the broadcast does not "deadlock when
\* writing to the filter event channel": the loop is never stuck on goroutines
\* that all wait for the lock of a loop that waits for it.  It does not hold:
\* timeoutLoop calls Unsubscribe with filtersMu held, and the loop may be
\* writing to another filter, whose goroutine waits for filtersMu.
NeverStuck ==
    ~(/\ ~Free /\ \E f \in filterApi.scan : filterOf[f].sub = "uninstalling"
      /\ evLoop.at = "send" /\ \A g \in evLoop.todo : filterOf[g].run \in {"append", "new"} /\ filterOf[g].sub = "installed")
=============================================================================
