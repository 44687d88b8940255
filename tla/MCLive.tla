------------------------------- MODULE MCLive -------------------------------
(***************************************************************************)
(* What must end: components with goroutines that wait for each other, one *)
(* per behaviour.  `part' names the one that runs; the others stay as they *)
(* are at the start.                                                       *)
(***************************************************************************)
EXTENDS Events, BloomMatcher, PeerManager, P2PPeer, Replies

VARIABLE part

liveVars == <<feedVars, muxVars, matcherVars, managerVars, peerVars, replyVars, part>>

LiveInit ==
    /\ part \in {"feed", "mux", "matcher", "manager", "peer", "replies"}
    /\ FeedInit /\ MuxInit /\ MatcherInit /\ ManagerInit /\ PeerInit /\ RepliesInit

Rests(p, v) == IF part = p THEN TRUE ELSE UNCHANGED v

LiveNext ==
    /\ UNCHANGED part
    /\ Rests("feed", feedVars) /\ Rests("mux", muxVars) /\ Rests("matcher", matcherVars)
    /\ Rests("manager", managerVars) /\ Rests("peer", peerVars) /\ Rests("replies", replyVars)
    /\ \/ part = "feed" /\ FeedNext
       \/ part = "mux" /\ MuxNext
       \/ part = "matcher" /\ MatcherNext
       \/ part = "manager" /\ ManagerNext
       \/ part = "peer" /\ PeerNext
       \/ part = "replies" /\ RepliesNext

\* The fairness of each component, as its module states it.
LiveFairness ==
    /\ WF_feedVars(part = "feed" /\ FeedWork)
    /\ \A c \in Channels : /\ WF_feedVars(part = "feed" /\ Receive(c))
                           /\ WF_feedVars(part = "feed" /\ c \in scope.todo /\ Unsubscribe(c))
    /\ WF_muxVars(part = "mux" /\ MuxWork)
    /\ \A p \in Posts : WF_muxVars(part = "mux" /\ DeliverEnd(p))
    /\ WF_matcherVars(part = "matcher" /\ MatcherWork)
    /\ WF_managerVars(part = "manager" /\ ManagerWork)
    /\ WF_peerVars(part = "peer" /\ RunCloses) /\ WF_peerVars(part = "peer" /\ PeerWork)
    /\ WF_replyVars(part = "replies" /\ \E r \in Requests : AddPending(r) \/ PendingClosed(r))
    /\ WF_replyVars(part = "replies" /\ \E r \in Requests : Answered(r))
    /\ WF_replyVars(part = "replies" /\ TimerCase)
    /\ WF_replyVars(part = "replies" /\ CloseCase)
    /\ WF_replyVars(part = "replies" /\ TimePasses)

\* MatcherEnds of the behaviours in which the matcher runs: a session ends, with
\* its pipeline, distributor and retrievers, when it is complete or closed.
MatcherStops == part = "matcher" => MatcherEnds

\* The instance: one block to be searched for two bits, a node that connects
\* twice, and two requests that wait for packets of one kind.
FiltersDef == << << <<1>> >>, << <<2>> >> >>
VectorDef == [b \in 1 .. 2 |-> [s \in 0 .. 1 |-> IF b = 1 THEN IF s = 0 THEN {0, 1} ELSE {1} ELSE {0}]]
PeerIdDef == [c \in PMConns |-> "a"]
ReqKeyDef == [r \in Requests |-> "neighbors"]
ReqNeedDef == [r \in Requests |-> IF r = "r1" THEN 1 ELSE 2]

LiveSpec == LiveInit /\ [][LiveNext]_liveVars /\ LiveFairness
=============================================================================
