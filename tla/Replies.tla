------------------------------ MODULE Replies ------------------------------
(***************************************************************************)
(* The pending replies of the discovery transport (p2p/discover/udp.go):   *)
(* ping, waitping and findnode hand a request to the loop and wait for     *)
(* its error channel, readLoop hands arriving packets to the loop, the     *)
(* loop matches them, times requests out and ends when the table closes.   *)
(*                                                                         *)
(* Time is relative: an entry of the list has the ticks left before its    *)
(* deadline, the timer the ticks before it fires.  The timer's channel     *)
(* holds one value, the time it fired, kept as the requests that were due  *)
(* then; Reset and Stop do not take it out.  The clock does not jump       *)
(* (the times of the code have a monotonic reading), so no deadline is     *)
(* ever far away and errClockWarp is not sent.                             *)
(***************************************************************************)
EXTENDS Integers, Sequences, SequencesExt, FiniteSets

CONSTANTS
    Requests,      \* the calls of ping, waitping and findnode
    ReqKey,        \* per call, the node and the packet type it waits for
    ReqNeed,       \* per call, the items after which its callback is done
    RespTimeout    \* respTimeout in ticks

VARIABLES
    asks,          \* per call: where it is, the items it has got, its error channel
    replyLoop,     \* the list, the entry of the last Reset, timer and channel, whether it runs
    udpClosing     \* whether closing is closed

replyVars == <<asks, replyLoop, udpClosing>>

NoRequest == "none"
Off == -1

RepliesInit ==
    /\ asks = [r \in Requests |-> [at |-> "idle", got |-> 0, errc |-> <<>>]]
    /\ replyLoop = [plist |-> <<>>, next |-> NoRequest, left |-> Off, fired |-> <<>>, runs |-> TRUE]
    /\ udpClosing = FALSE

-----------------------------------------------------------------------------
Due(plist) == {plist[i].req : i \in {j \in DOMAIN plist : plist[j].left = 0}}

\* A timer sends when it fires, unless the last value is still in its channel.
Fire(l) == [l EXCEPT !.left = Off, !.fired = IF @ = <<>> THEN <<Due(l.plist)>> ELSE @]

\* resetTimeout, at the start of every turn of the loop
ResetTimeout(l) ==
    IF l.plist = <<>> \/ l.next = Head(l.plist).req THEN l
    ELSE LET m == [l EXCEPT !.next = Head(l.plist).req, !.left = Head(l.plist).left]
         IN  IF m.left = 0 THEN Fire(m) ELSE m

\* An error is sent on a channel with room for one.
Tell(a, r, e) == [a EXCEPT ![r].errc = Append(@, e)]

\* The first of the entries in S: the walk ends when it removes one, because
\* an element that is taken out of the list has no next.
FirstIn(plist, S) == CHOOSE i \in DOMAIN plist :
    plist[i].req \in S /\ \A j \in 1 .. i - 1 : plist[j].req \notin S

Ask(r) ==
    /\ asks[r].at = "idle"
    /\ asks' = [asks EXCEPT ![r].at = "adding"]
    /\ UNCHANGED <<replyLoop, udpClosing>>

\* pending: the loop takes the request, or the transport is closing
AddPending(r) ==
    /\ asks[r].at = "adding" /\ replyLoop.runs
    /\ asks' = [asks EXCEPT ![r].at = "waiting"]
    /\ replyLoop' = ResetTimeout([replyLoop EXCEPT
           !.plist = Append(@, [req |-> r, left |-> RespTimeout])])
    /\ UNCHANGED udpClosing

PendingClosed(r) ==
    /\ asks[r].at = "adding" /\ udpClosing
    /\ asks' = Tell([asks EXCEPT ![r].at = "waiting"], r, "closed")
    /\ UNCHANGED <<replyLoop, udpClosing>>

\* <-errc
Answered(r) ==
    /\ asks[r].at = "waiting" /\ asks[r].errc # <<>>
    /\ asks' = [asks EXCEPT ![r].at = "answered", ![r].errc = Tail(@)]
    /\ UNCHANGED <<replyLoop, udpClosing>>

\* The part of the list a packet reaches: up to the first entry it completes.
Reached(plist, key, n) ==
    LET Done(i) == ReqKey[plist[i].req] = key /\ asks[plist[i].req].got + n >= ReqNeed[plist[i].req]
    IN  {i \in DOMAIN plist : \A j \in 1 .. i - 1 : ~Done(j)}

Completes(plist, key, n) ==
    {i \in Reached(plist, key, n) : ReqKey[plist[i].req] = key /\
                                    asks[plist[i].req].got + n >= ReqNeed[plist[i].req]}

\* case r := <-t.gotreply, with n items in the packet
GotReply(key, n) ==
    LET pl == replyLoop.plist
        told == {pl[i].req : i \in {j \in Reached(pl, key, n) : ReqKey[pl[j].req] = key}}
        full == Completes(pl, key, n)
        counted == [r \in Requests |-> IF r \in told
                        THEN [asks[r] EXCEPT !.got = IF @ + n > ReqNeed[r] THEN ReqNeed[r] ELSE @ + n]
                        ELSE asks[r]]
    IN  /\ replyLoop.runs
        /\ asks' = IF full = {} THEN counted
                   ELSE Tell(counted, pl[CHOOSE i \in full : TRUE].req, "ok")
        /\ replyLoop' = ResetTimeout([replyLoop EXCEPT !.plist =
               IF full = {} THEN @ ELSE RemoveAt(@, CHOOSE i \in full : TRUE)])
        /\ UNCHANGED udpClosing

\* case now := <-timeout.C
TimerCase ==
    /\ replyLoop.runs /\ replyLoop.fired # <<>>
    /\ LET pl == replyLoop.plist
           due == Head(replyLoop.fired) \intersect {pl[i].req : i \in DOMAIN pl}
           l == [replyLoop EXCEPT !.fired = <<>>, !.next = NoRequest]
       IN  IF due = {}
           THEN replyLoop' = ResetTimeout(l) /\ UNCHANGED asks
           ELSE LET i == FirstIn(pl, due)
                IN  /\ replyLoop' = ResetTimeout([l EXCEPT !.plist = RemoveAt(@, i)])
                    /\ asks' = Tell(asks, pl[i].req, "timeout")
    /\ UNCHANGED udpClosing

\* A fault: the loop ends and tells only the request it would have timed out next.
ToldAtCloseFirst(plist) == {plist[i].req : i \in DOMAIN plist \intersect {1}}

\* case <-t.closing: everyone in the list is told
ToldAtClose(plist) == {plist[i].req : i \in DOMAIN plist}

CloseCase ==
    /\ replyLoop.runs /\ udpClosing
    /\ asks' = [r \in Requests |-> IF r \in ToldAtClose(replyLoop.plist)
                                   THEN [asks[r] EXCEPT !.errc = Append(@, "closed")] ELSE asks[r]]
    /\ replyLoop' = [replyLoop EXCEPT !.runs = FALSE, !.left = Off]
    /\ UNCHANGED udpClosing

UdpClose ==
    /\ ~udpClosing
    /\ udpClosing' = TRUE
    /\ UNCHANGED <<asks, replyLoop>>

\* A tick of the clock, while somebody waits for one.
TimePasses ==
    /\ replyLoop.left > 0
    /\ LET l == [replyLoop EXCEPT
               !.plist = [i \in DOMAIN @ |-> [@[i] EXCEPT !.left = IF @ = 0 THEN 0 ELSE @ - 1]],
               !.left = @ - 1]
       IN  replyLoop' = IF l.left = 0 THEN Fire(l) ELSE l
    /\ UNCHANGED <<asks, udpClosing>>

ReplyKeys == {ReqKey[r] : r \in Requests}

RepliesNext ==
    \/ \E r \in Requests : Ask(r) \/ AddPending(r) \/ PendingClosed(r) \/ Answered(r)
    \/ \E key \in ReplyKeys, n \in 1 .. 2 : GotReply(key, n)
    \/ UdpClose \/ TimerCase \/ CloseCase \/ TimePasses

\* The goroutines run and time passes: a request is taken, a timer fires.
RepliesFairness ==
    /\ WF_replyVars(\E r \in Requests : AddPending(r) \/ PendingClosed(r))
    /\ WF_replyVars(\E r \in Requests : Answered(r))
    /\ WF_replyVars(TimerCase)
    /\ WF_replyVars(CloseCase)
    /\ WF_replyVars(TimePasses)

RepliesSpec == RepliesInit /\ [][RepliesNext]_replyVars /\ RepliesFairness

-----------------------------------------------------------------------------
\* Every request is answered, by a reply, by its timeout or by the end of the
\* transport (a caller of bond or of a lookup would hang, and with it a
\* bonding slot), and none is answered twice (the loop would block on a
\* channel with room for one).
RequestsAnswered ==
    /\ \A r \in Requests : (asks[r].at = "adding") ~> (asks[r].at = "answered")
    /\ [](\A r \in Requests : /\ Len(asks[r].errc) <= 1
                              /\ asks[r].at = "answered" => asks[r].errc = <<>>)

\* A packet reaches every request that waits for one of its kind from its node
\* ("incoming packets from a node are dispatched to all the callback functions
\* for that node", udp.go).  It does not hold: list.Remove clears the element
\* gotreply walks from, so the walk ends at the first request that is
\* complete.
DispatchedToAll ==
    [][LET Listed == {replyLoop.plist[i].req : i \in DOMAIN replyLoop.plist}
           Told(r) == asks[r].errc = <<>> /\ asks'[r].errc = <<"ok">>
       IN  \A r, s \in Listed : (/\ ReqKey[r] = ReqKey[s] /\ ReqNeed[r] = ReqNeed[s]
                               /\ asks[r].got = asks[s].got)
                              => (Told(r) <=> Told(s))]_replyVars
=============================================================================
