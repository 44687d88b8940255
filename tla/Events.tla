------------------------------- MODULE Events -------------------------------
(***************************************************************************)
(* The two ways in which package event publishes: Feed and TypeMux.        *)
(*                                                                         *)
(* event.Feed with the SubscriptionScope its owners keep: senders, one at  *)
(* a time, against channels that are subscribed and unsubscribed meanwhile *)
(* and against a Close of the scope.                                       *)
(*                                                                         *)
(* sendCases is without its first case, the receive on removeSub, so that  *)
(* indices start at 1.  A channel is read as long as its owner has a       *)
(* subscription; a sender sends once, its value is its name.               *)
(***************************************************************************)
EXTENDS Naturals, Sequences, FiniteSets, SequencesExt

CONSTANTS Channels,  \* channels, each subscribed at most once
          Senders,   \* goroutines that call Send
          Room       \* buffer space of a channel

VARIABLES feed,   \* Feed: inbox, sendCases, and the Send that has sendLock: its value,
                  \* len(cases), the index of its fast path, nsent
          sent,   \* per sender: idle, try (the fast path), select, returned
          subs,   \* per channel: none, subscribed, live, leaked, removing, ended
          buffer, \* per channel: what is in it
          scope,  \* SubscriptionScope: open, closing (sc.mu is held) or closed, its subs,
                  \* and those that Close has still to end
          record  \* history: per sender the channels not yet unsubscribed when it got the
                  \* lock, those that got its value, how often, and what it returned

feedVars == <<feed, sent, subs, buffer, scope, record>>

NoSend == [value |-> "none", active |-> 0, index |-> 0, nsent |-> 0]

FeedInit ==
    /\ feed = [inbox |-> <<>>, cases |-> <<>>, send |-> NoSend]
    /\ sent = [s \in Senders |-> "idle"]
    /\ subs = [c \in Channels |-> "none"]
    /\ buffer = [c \in Channels |-> <<>>]
    /\ scope = [at |-> "open", subs |-> {}, todo |-> {}]
    /\ record = [s \in Senders |-> [due |-> {}, got |-> [c \in Channels |-> 0], result |-> 0]]

sendLock == feed.send = NoSend    \* the token is in the channel
Active == 1 .. feed.send.active   \* the indices of cases

-----------------------------------------------------------------------------
(* caseList: find, delete and deactivate. *)

Find(cs, c) == IF c \in ToSet(cs) THEN CHOOSE i \in DOMAIN cs : cs[i] = c ELSE 0
Without(cs, c) == RemoveAt(cs, Find(cs, c))
Deactivated(cs, i, last) == [cs EXCEPT ![i] = cs[last], ![last] = cs[i]]

-----------------------------------------------------------------------------
(* Subscribe, and Track on the result. *)

Subscribe(c) ==
    /\ subs[c] = "none"
    /\ subs' = [subs EXCEPT ![c] = "subscribed"]
    /\ feed' = [feed EXCEPT !.inbox = Append(@, c)]
    /\ UNCHANGED <<sent, buffer, scope, record>>

\* Track returns nil once the scope is closed: nobody can end the subscription.
Track(c) ==
    /\ subs[c] = "subscribed" /\ scope.at # "closing"
    /\ subs' = [subs EXCEPT ![c] = IF scope.at = "closed" THEN "leaked" ELSE "live"]
    /\ scope' = [scope EXCEPT !.subs = IF scope.at = "closed" THEN @ ELSE @ \union {c}]
    /\ UNCHANGED <<feed, sent, buffer, record>>

-----------------------------------------------------------------------------
(* Unsubscribe, from the owner or from Close: errOnce lets the first in and*)
(* makes the second one wait for it.                                       *)

\* remove, first half: a channel in the inbox is taken out of it.
Unsubscribe(c) ==
    /\ subs[c] = "live"
    /\ LET waits == Find(feed.inbox, c) > 0
       IN  /\ feed' = IF waits THEN [feed EXCEPT !.inbox = Without(@, c)] ELSE feed
           /\ subs' = [subs EXCEPT ![c] = IF waits THEN "ended" ELSE "removing"]
    /\ UNCHANGED <<sent, buffer, scope, record>>

\* remove, second half, with no Send in progress.
RemoveLocked(c) ==
    /\ subs[c] = "removing" /\ sendLock
    /\ feed' = [feed EXCEPT !.cases = Without(@, c)]
    /\ subs' = [subs EXCEPT ![c] = "ended"]
    /\ UNCHANGED <<sent, buffer, scope, record>>

\* remove, second half, during a Send that waits in its select: the active part
\* of the cases gets shorter if the deleted case was in it.
ActiveAfter(i) == IF i \in Active THEN feed.send.active - 1 ELSE feed.send.active

\* (Fault: the Send does not look again whether a case is left.)
RemoveSelectedWaits(c) ==
    /\ subs[c] = "removing" /\ ~sendLock /\ sent[feed.send.value] = "select"
    /\ feed' = [feed EXCEPT !.cases = Without(@, c), !.send.active = ActiveAfter(Find(feed.cases, c))]
    /\ subs' = [subs EXCEPT ![c] = "ended"]
    /\ UNCHANGED <<sent, buffer, scope, record>>
RemoveSelected(c) ==
    /\ subs[c] = "removing" /\ ~sendLock /\ sent[feed.send.value] = "select"
    /\ feed' = [feed EXCEPT !.cases = Without(@, c), !.send.index = 1,
                            !.send.active = ActiveAfter(Find(feed.cases, c))]
    /\ sent' = [sent EXCEPT ![feed.send.value] = "try"]
    /\ subs' = [subs EXCEPT ![c] = "ended"]
    /\ UNCHANGED <<buffer, scope, record>>

\* The wrapper forgets the subscription when it has ended, if sc.mu is free.
Untrack(c) ==
    /\ subs[c] = "ended" /\ c \in scope.subs /\ scope.at # "closing"
    /\ scope' = [scope EXCEPT !.subs = @ \ {c}]
    /\ UNCHANGED <<feed, sent, subs, buffer, record>>

\* Close, one subscription after the other.
CloseScope ==
    /\ scope.at = "open"
    /\ scope' = [scope EXCEPT !.at = "closing", !.todo = scope.subs]
    /\ UNCHANGED <<feed, sent, subs, buffer, record>>
CloseEnded(c) ==
    /\ c \in scope.todo /\ subs[c] = "ended"
    /\ scope' = [scope EXCEPT !.todo = @ \ {c}]
    /\ UNCHANGED <<feed, sent, subs, buffer, record>>
CloseDone ==
    /\ scope.at = "closing" /\ scope.todo = {}
    /\ scope' = [scope EXCEPT !.at = "closed", !.subs = {}]
    /\ UNCHANGED <<feed, sent, subs, buffer, record>>

-----------------------------------------------------------------------------
(* Send. *)

\* Send takes the token and adds the inbox to the cases.
SendStart(s) ==
    /\ sent[s] = "idle" /\ sendLock
    /\ LET cases == feed.cases \o feed.inbox
       IN  feed' = [inbox |-> <<>>, cases |-> cases,
                    send |-> [value |-> s, active |-> Len(cases), index |-> 1, nsent |-> 0]]
    /\ sent' = [sent EXCEPT ![s] = "try"]
    /\ record' = [record EXCEPT ![s].due = {c \in Channels : subs[c] \notin {"none", "ended"}}]
    /\ UNCHANGED <<subs, buffer, scope>>

\* The case at index i takes the value; the next turn starts at index next.
CanTake(i) == Len(buffer[feed.cases[i]]) < Room
SendTo(i, next) ==
    LET c == feed.cases[i]
    IN  /\ CanTake(i)
        /\ buffer' = [buffer EXCEPT ![c] = Append(@, feed.send.value)]
        /\ record' = [record EXCEPT ![feed.send.value].got[c] = @ + 1]
        /\ feed' = [feed EXCEPT !.cases = Deactivated(@, i, feed.send.active), !.send.index = next,
                                !.send.active = @ - 1, !.send.nsent = @ + 1]

\* The fast path at one case; where a case was deactivated another one is now.
TrySend(s) ==
    /\ sent[s] = "try" /\ feed.send.index \in Active
    /\ LET i == feed.send.index
       IN  \/ SendTo(i, i)
           \/ /\ ~CanTake(i)
              /\ feed' = [feed EXCEPT !.send.index = @ + 1]
              /\ UNCHANGED <<buffer, record>>
    /\ UNCHANGED <<sent, subs, scope>>
TryEnds(s) ==
    /\ sent[s] = "try" /\ feed.send.index \notin Active /\ Active # {}
    /\ sent' = [sent EXCEPT ![s] = "select"]
    /\ UNCHANGED <<feed, subs, buffer, scope, record>>

\* The select chooses a channel that has got room.
SelectSend(s) ==
    /\ sent[s] = "select"
    /\ \E i \in Active : SendTo(i, 1)
    /\ sent' = [sent EXCEPT ![s] = "try"]
    /\ UNCHANGED <<subs, scope>>

SendReturns(s) ==
    /\ sent[s] = "try" /\ Active = {}
    /\ sent' = [sent EXCEPT ![s] = "returned"]
    /\ record' = [record EXCEPT ![s].result = feed.send.nsent]
    /\ feed' = [feed EXCEPT !.send = NoSend]
    /\ UNCHANGED <<subs, buffer, scope>>

\* A subscriber reads.
Receive(c) ==
    /\ subs[c] \in {"subscribed", "live"} /\ buffer[c] # <<>>
    /\ buffer' = [buffer EXCEPT ![c] = Tail(@)]
    /\ UNCHANGED <<feed, sent, subs, scope, record>>

FeedWork ==
    \/ \E s \in Senders : TrySend(s) \/ TryEnds(s) \/ SelectSend(s) \/ SendReturns(s)
    \/ \E c \in Channels : RemoveLocked(c) \/ RemoveSelected(c) \/ CloseEnded(c)
    \/ CloseDone
FeedNext ==
    \/ FeedWork
    \/ \E c \in Channels : Subscribe(c) \/ Track(c) \/ Unsubscribe(c) \/ Untrack(c) \/ Receive(c)
    \/ CloseScope
    \/ \E s \in Senders : SendStart(s)

\* Goroutines that can go on do, subscribers read, Close ends what it has to;
\* nobody has to subscribe, to send or to close.
FeedFairness ==
    /\ WF_feedVars(FeedWork)
    /\ \A c \in Channels : WF_feedVars(Receive(c)) /\ WF_feedVars(c \in scope.todo /\ Unsubscribe(c))
FeedSpec == FeedInit /\ [][FeedNext]_feedVars /\ FeedFairness

-----------------------------------------------------------------------------
(* Properties. *)

\* "Values sent to a Feed are delivered to all subscribed channels": whatever
\* is subscribed and unsubscribed while Send is under way, when it returns
\* every channel that was subscribed before and still is has its value once,
\* none has it that was not subscribed, and Send returns how many have it.
FeedDelivers ==
    \A s \in Senders :
        LET r == record[s]
        IN  /\ \A c \in Channels : r.got[c] <= IF c \in r.due THEN 1 ELSE 0
            /\ sent[s] = "returned" =>
                   /\ \A c \in r.due : subs[c] \in {"subscribed", "live", "leaked"} => r.got[c] = 1
                   /\ r.result = Cardinality({c \in Channels : r.got[c] = 1})

\* Send, Unsubscribe and Close end, unless a channel is subscribed that nobody
\* reads, since Track has given its subscription to nobody.
FeedEnds ==
    /\ \A s \in Senders : sent[s] = "try" ~> (sent[s] = "returned" \/ \E c \in Channels : subs[c] = "leaked")
    /\ \A c \in Channels : subs[c] = "removing" ~> subs[c] = "ended"
    /\ scope.at = "closing" ~> scope.at = "closed"

\* Both: a Send reaches whom it must, and everybody gets on.
FeedSound == []FeedDelivers /\ FeedEnds

-----------------------------------------------------------------------------
(***************************************************************************)
(* event.TypeMux for one type of events: posts, subscriptions, Unsubscribe *)
(* and Stop.  The mutex of the mux is held for longer than a step only by  *)
(* Stop.  closeMu and postMu of a subscription are its two locks; a writer *)
(* that waits for postMu keeps new readers out.  A subscriber reads until  *)
(* it calls Unsubscribe or finds its channel closed.                       *)
(***************************************************************************)

CONSTANTS Subs, Posts    \* subscriptions and calls of Post, each used once

VARIABLES mux,     \* TypeMux: subm for the one type; open, stopping with mutex held, or
                   \* stopped; and the subscriptions Stop has still to close
          muxSub,  \* per subscription: its owner is at none, made, on, leaving or gone; the
                   \* posts with a time before its creation; closing is closed; who is in
                   \* closewait; the posts that hold postMu for reading
          post,    \* per call of Post: its place and the subscriptions to come
          muxGot,  \* history: deliveries, pairs of a subscription and a post
          owed     \* history: per post, subscriptions there were when it began

muxVars == <<mux, muxSub, post, muxGot, owed>>

Nobody == "nobody"

MuxInit ==
    /\ mux = [subm |-> <<>>, at |-> "open", todo |-> {}]
    /\ muxSub = [s \in Subs |-> [owner |-> "none", stale |-> {}, closing |-> FALSE,
                                 closer |-> Nobody, reading |-> {}]]
    /\ post = [p \in Posts |-> [at |-> "idle", todo |-> <<>>]]
    /\ muxGot = {} /\ owed = [p \in Posts |-> {}]

\* newsub takes the time of creation; the clock may not tell two moments apart.
NewSub(s) ==
    /\ muxSub[s].owner = "none"
    /\ \E old \in SUBSET {p \in Posts : post[p].at # "idle"} :
           muxSub' = [muxSub EXCEPT ![s].owner = "made", ![s].stale = old]
    /\ UNCHANGED <<mux, post, muxGot, owed>>

\* Subscribe: on a stopped mux the subscription is born closed.
SubscribeMux(s) ==
    /\ muxSub[s].owner = "made" /\ mux.at # "stopping"
    /\ muxSub' = [muxSub EXCEPT ![s].owner = IF mux.at = "stopped" THEN "gone" ELSE "on"]
    /\ mux' = IF mux.at = "stopped" THEN mux ELSE [mux EXCEPT !.subm = Append(@, s)]
    /\ UNCHANGED <<post, muxGot, owed>>

PostTimed(p) ==
    /\ post[p].at = "idle"
    /\ post' = [post EXCEPT ![p].at = "timed"]
    /\ owed' = [owed EXCEPT ![p] = {s \in Subs : muxSub[s].owner = "on"}]
    /\ UNCHANGED <<mux, muxSub, muxGot>>

\* Post copies the list of subscriptions, or finds the mux stopped.
PostLookup(p) ==
    /\ post[p].at = "timed" /\ mux.at # "stopping"
    /\ post' = [post EXCEPT ![p] = IF mux.at = "stopped" THEN [at |-> "ErrMuxClosed", todo |-> <<>>]
                                   ELSE [at |-> "next", todo |-> mux.subm]]
    /\ UNCHANGED <<mux, muxSub, muxGot, owed>>

PostNext(p) == [post EXCEPT ![p] = [at |-> "next", todo |-> Tail(@.todo)]]

\* deliver: a stale event is dropped, for any other the read lock is taken.
DeliverBegin(p) ==
    /\ post[p].at = "next" /\ post[p].todo # <<>>
    /\ LET s == Head(post[p].todo)
       IN  \/ /\ p \in muxSub[s].stale
              /\ post' = PostNext(p) /\ UNCHANGED muxSub
           \/ /\ p \notin muxSub[s].stale /\ muxSub[s].closer = Nobody
              /\ muxSub' = [muxSub EXCEPT ![s].reading = @ \union {p}]
              /\ post' = [post EXCEPT ![p].at = "select"]
    /\ UNCHANGED <<mux, muxGot, owed>>

\* The event goes over, or the subscription is closing; postC is nil once it is closed.
DeliverEnd(p) ==
    /\ post[p].at = "select"
    /\ LET s == Head(post[p].todo)
       IN  /\ \/ muxSub[s].owner = "on" /\ muxGot' = muxGot \union {<<s, p>>}
              \/ muxSub[s].closing /\ UNCHANGED muxGot
           /\ muxSub' = [muxSub EXCEPT ![s].reading = @ \ {p}]
    /\ post' = PostNext(p)
    /\ UNCHANGED <<mux, owed>>

PostReturns(p) ==
    /\ post[p] = [at |-> "next", todo |-> <<>>]
    /\ post' = [post EXCEPT ![p].at = "nil"]
    /\ UNCHANGED <<mux, muxSub, muxGot, owed>>

\* Unsubscribe: del, then closewait.
Del(s) == SelectSeq(mux.subm, LAMBDA t : t # s)
UnsubscribeMux(s) ==
    /\ muxSub[s].owner = "on" /\ mux.at # "stopping"
    /\ muxSub' = [muxSub EXCEPT ![s].owner = "leaving"]
    /\ mux' = [mux EXCEPT !.subm = Del(s)]
    /\ UNCHANGED <<post, muxGot, owed>>

\* Stop takes the mutex and closes all subscriptions one after the other.
StopMux ==
    /\ mux.at = "open"
    /\ mux' = [mux EXCEPT !.at = "stopping", !.todo = ToSet(mux.subm)]
    /\ UNCHANGED <<muxSub, post, muxGot, owed>>

\* closewait up to the lock of postMu, for Unsubscribe or for Stop.
\* (Fault: deliveries under way are not told.)
SignalledNone(s, who) == [muxSub EXCEPT ![s].closer = who]
Signalled(s, who) == [muxSub EXCEPT ![s].closing = TRUE, ![s].closer = who]
CloseBegin(s, who) ==
    /\ who = "owner" => muxSub[s].owner = "leaving"
    /\ who = "stop" => s \in mux.todo
    /\ muxSub[s].closer = Nobody /\ ~muxSub[s].closing
    /\ muxSub' = Signalled(s, who)
    /\ UNCHANGED <<mux, post, muxGot, owed>>

\* closewait with postMu: the channel is closed.  (The owner then sees this.)
CloseEnd(s) ==
    /\ muxSub[s].closer # Nobody /\ muxSub[s].reading = {}
    /\ muxSub' = [muxSub EXCEPT ![s].closer = Nobody, ![s].owner = "gone"]
    /\ mux' = [mux EXCEPT !.todo = @ \ {s}]
    /\ UNCHANGED <<post, muxGot, owed>>

StopReturns ==
    /\ mux.at = "stopping" /\ mux.todo = {}
    /\ mux' = [mux EXCEPT !.at = "stopped", !.subm = <<>>]
    /\ UNCHANGED <<muxSub, post, muxGot, owed>>

MuxWork ==
    \/ \E p \in Posts : PostLookup(p) \/ DeliverBegin(p) \/ PostReturns(p)
    \/ \E s \in Subs : SubscribeMux(s) \/ CloseEnd(s) \/ \E who \in {"owner", "stop"} : CloseBegin(s, who)
    \/ StopReturns
MuxNext ==
    \/ MuxWork
    \/ \E s \in Subs : NewSub(s) \/ UnsubscribeMux(s)
    \/ \E p \in Posts : PostTimed(p) \/ DeliverEnd(p)
    \/ StopMux

\* Goroutines go on, subscribers read.
MuxFairness == WF_muxVars(MuxWork) /\ \A p \in Posts : WF_muxVars(DeliverEnd(p))
MuxSpec == MuxInit /\ [][MuxNext]_muxVars /\ MuxFairness

-----------------------------------------------------------------------------
\* "Post sends an event to all receivers registered": a Post that returned nil
\* has reached every subscription there was when it began and that has not been
\* unsubscribed or closed since, and none got an event from before it existed.
MuxDelivers ==
    /\ \A p \in Posts : post[p].at = "nil" =>
           \A s \in owed[p] : muxSub[s].owner = "on" /\ mux.at = "open" => <<s, p>> \in muxGot
    /\ \A s \in Subs : \A p \in muxSub[s].stale : <<s, p>> \notin muxGot

\* Post, Unsubscribe and Stop end as long as subscribers read: Stop waits for
\* deliveries with the mutex held, and these must not need it.
MuxEnds ==
    /\ \A p \in Posts : post[p].at # "idle" ~> post[p].at \in {"nil", "ErrMuxClosed"}
    /\ \A s \in Subs : muxSub[s].owner = "leaving" ~> muxSub[s].owner = "gone"
    /\ mux.at = "stopping" ~> mux.at = "stopped"

\* Both: a Post reaches whom it must, and everybody gets on.
MuxSound == []MuxDelivers /\ MuxEnds
=============================================================================
