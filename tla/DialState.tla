----------------------------- MODULE DialState -----------------------------
(***************************************************************************)
(* The dialer: dialstate of communication/p2p/dial.go and the task         *)
(* scheduling of the run loop of server.go that drives it.  Every event of *)
(* the loop is followed by scheduleTasks, which is part of its action.     *)
(*                                                                         *)
(* Who accepts or refuses a dialed connection is P2PServer's; here a dial  *)
(* task ends with its node among the peers or not, inbound peers come, and *)
(* peers go.  A node is resolvable or dials fail: both outcomes are taken. *)
(***************************************************************************)
EXTENDS Integers, FiniteSets, Sequences, SequencesExt

CONSTANTS Nodes,        \* the nodes that may be known
          DialSelf,     \* the local node, which may turn up as a candidate (none of Nodes
                        \* without discovery)
          Unlisted,     \* nodes outside Config.NetRestrict
          Statics,      \* Config.StaticNodes
          Bootnodes,    \* Config.BootstrapNodes, a sequence
          maxDynDials,
          maxActiveDialTasks,
          MaxLookups    \* bound: lookups that return candidates

VARIABLES dialer,    \* dialstate, and whether fallbackInterval has passed
          dialTasks, \* runningTasks (a set) and queuedTasks (a sequence)
          dialPeers  \* the peers of the run loop: node -> flag of its conn

dialVars == <<dialer, dialTasks, dialPeers>>

\* Tasks: one per dialed node, the lookup, the wait for the history.
Dial(n, flag) == [do |-> "dial", node |-> n, flag |-> flag]
Lookup == [do |-> "lookup", node |-> "", flag |-> ""]
WaitExpire == [do |-> "wait", node |-> "", flag |-> ""]

With(f, k, v) == [i \in DOMAIN f \cup {k} |-> IF i = k THEN v ELSE f[i]]
Minus(f, k) == [i \in DOMAIN f \ {k} |-> f[i]]
Least(m, n) == IF m < n THEN m ELSE n
DynIn(f) == {n \in DOMAIN f : f[n] = "dynamic"}

\* newDialState
DialInit ==
    /\ dialer = [static |-> Statics, dialing |-> <<>>, hist |-> <<>>, lookupRunning |-> FALSE,
                 lookupBuf |-> <<>>, bootnodes |-> Bootnodes, fallback |-> FALSE,
                 lookups |-> 0, started |-> FALSE]
    /\ dialTasks = [running |-> {}, queued |-> <<>>]
    /\ dialPeers = <<>>

----------------------------------------------------------------------------
(* newTasks, statement by statement, on [d, peers, new, need].             *)

Recent(d, n) == \E i \in 1..Len(d.hist) : d.hist[i].node = n
\* errSelf, errNotWhitelisted
Unfit == Unlisted \cup {DialSelf}
Busy(d, peers, n) == n \in DOMAIN d.dialing \/ n \in DOMAIN peers
checkDial(d, peers, n) == ~Busy(d, peers, n) /\ n \notin Unfit /\ ~Recent(d, n)

\* Peers that were dialed, and dials under way, count against maxDynDials.
\* (Fault: the peers do not.)
needDynDialsOnly(d, peers) == maxDynDials - Cardinality(DynIn(d.dialing))
needDynDials(d, peers) ==
    maxDynDials - Cardinality(DynIn(peers)) - Cardinality(DynIn(d.dialing))

expire(d) == [d EXCEPT !.hist = SelectSeq(@, LAMBDA e : ~e.expired)]

addDial(w, n) ==
    IF checkDial(w.d, w.peers, n)
    THEN [w EXCEPT !.d.dialing = With(@, n, "dynamic"),
                   !.new = Append(@, Dial(n, "dynamic")),
                   !.need = @ - 1]
    ELSE w

\* Static nodes: the local node and one that is not listed are struck off,
\* unless connected; the others are dialed if checkDial lets them.
WithStatics(w) ==
    LET kept == w.d.static \ {n \in Unfit : ~Busy(w.d, w.peers, n)}
        due == {n \in kept : checkDial(w.d, w.peers, n)}
    IN [w EXCEPT !.d.static = kept,
                 !.d.dialing = [n \in DOMAIN @ \cup due |-> IF n \in due THEN "static" ELSE @[n]],
                 !.new = SetToSeq({Dial(n, "static") : n \in due})]

\* A bootnode, in turn, when there is no peer at all.
WithBootnode(w) ==
    IF w.peers = <<>> /\ w.d.bootnodes # <<>> /\ w.need > 0 /\ w.d.fallback
    THEN LET b == Head(w.d.bootnodes)
         IN addDial([w EXCEPT !.d.bootnodes = Append(Tail(@), b)], b)
    ELSE w

\* Half of what is needed from random nodes of the table.
WithRandom(w, random) ==
    FoldLeft(addDial, w,
             IF w.need > 0 THEN SubSeq(random, 1, Least(w.need \div 2, Len(random))) ELSE <<>>)

\* The rest from the lookup results, which are used up.
WithLookupBuf(w) ==
    LET Try(v, n) == IF v.need > 0 THEN addDial([v EXCEPT !.d.lookupBuf = Tail(@)], n) ELSE v
    IN FoldLeft(Try, w, w.d.lookupBuf)

WithLookup(w) ==
    IF Len(w.d.lookupBuf) < w.need /\ ~w.d.lookupRunning
    THEN [w EXCEPT !.d.lookupRunning = TRUE, !.new = Append(@, Lookup)]
    ELSE w

\* Nothing to do and nothing running: wait for the history to expire.
WithWait(w, nRunning) ==
    IF nRunning = 0 /\ w.new = <<>> /\ w.d.hist # <<>>
    THEN [w EXCEPT !.new = <<WaitExpire>>]
    ELSE w

newTasks(d, peers, nRunning, random) ==
    LET w == [d |-> expire(d), peers |-> peers, new |-> <<>>, need |-> needDynDials(d, peers)]
    IN WithWait(WithLookup(WithLookupBuf(WithRandom(WithBootnode(WithStatics(w)), random))),
                nRunning)

----------------------------------------------------------------------------
(* scheduleTasks, after an event of the run loop made the state d, t,      *)
(* peers.                                                                  *)

startTasks(t, new) ==
    LET room == maxActiveDialTasks - Cardinality(t.running)
        n == Least(room, Len(new))
    IN [running |-> t.running \cup ToSet(SubSeq(new, 1, n)), queued |-> SubSeq(new, n + 1, Len(new))]

RandomNodes == {<<>>} \cup {<<n>> : n \in Nodes}

scheduleTasks(d, t, peers) ==
    LET t1 == startTasks(t, t.queued)
    IN /\ dialPeers' = peers
       /\ IF Cardinality(t1.running) < maxActiveDialTasks
          THEN \E random \in RandomNodes :
                LET w == newTasks(d, peers, Cardinality(t1.running) + Len(t1.queued), random)
                    t2 == startTasks(t1, w.new)
                IN /\ dialer' = w.d
                   /\ dialTasks' = [running |-> t2.running, queued |-> t1.queued \o t2.queued]
          ELSE dialer' = d /\ dialTasks' = t1

\* The first iteration of the loop, and an iteration for any other event.
DialTick == scheduleTasks(dialer, dialTasks, dialPeers)
LoopStarts == ~dialer.started /\ scheduleTasks([dialer EXCEPT !.started = TRUE], dialTasks, dialPeers)

\* addstatic, removestatic
AddStatic(n) ==
    /\ n \notin dialer.static
    /\ scheduleTasks([dialer EXCEPT !.static = @ \cup {n}], dialTasks, dialPeers)

RemoveStatic(n) ==
    /\ n \in dialer.static
    /\ scheduleTasks([dialer EXCEPT !.static = @ \ {n}], dialTasks, dialPeers)

\* addpeer: a dialed connection joins the map while its task still runs.
PeerAdded(n, flag) ==
    /\ n # DialSelf /\ n \notin DOMAIN dialPeers
    /\ flag = "inbound" \/ Dial(n, flag) \in dialTasks.running
    /\ scheduleTasks(dialer, dialTasks, With(dialPeers, n, flag))

\* delpeer
PeerDropped(n) ==
    /\ n \in DOMAIN dialPeers
    /\ scheduleTasks(dialer, dialTasks, Minus(dialPeers, n))

\* taskdone: taskDone, then delTask.
DialDone(n, flag) ==
    LET task == Dial(n, flag) IN
    /\ task \in dialTasks.running
    /\ scheduleTasks([dialer EXCEPT !.hist = Append(@, [node |-> n, expired |-> FALSE]),
                                    !.dialing = Minus(@, n)],
                     [dialTasks EXCEPT !.running = @ \ {task}], dialPeers)

LookupDone ==
    /\ Lookup \in dialTasks.running
    /\ \E found \in RandomNodes :
        /\ found # <<>> => dialer.lookups < MaxLookups
        /\ scheduleTasks([dialer EXCEPT !.lookupRunning = FALSE, !.lookupBuf = @ \o found,
                                        !.lookups = IF found = <<>> THEN @ ELSE @ + 1],
                         [dialTasks EXCEPT !.running = @ \ {Lookup}], dialPeers)

WaitDone ==
    /\ WaitExpire \in dialTasks.running
    /\ dialer.hist # <<>> => dialer.hist[1].expired
    /\ scheduleTasks(dialer, [dialTasks EXCEPT !.running = @ \ {WaitExpire}], dialPeers)

\* Time: the oldest entry expires, the fallback interval passes.
Elapse ==
    /\ \/ \E i \in 1..Len(dialer.hist) :
            /\ ~dialer.hist[i].expired /\ \A j \in 1..(i - 1) : dialer.hist[j].expired
            /\ dialer' = [dialer EXCEPT !.hist[i].expired = TRUE]
       \/ ~dialer.fallback /\ dialer' = [dialer EXCEPT !.fallback = TRUE]
    /\ UNCHANGED <<dialTasks, dialPeers>>

DialNext ==
    \/ LoopStarts
    \/ /\ dialer.started
       /\ \/ DialTick \/ LookupDone \/ WaitDone \/ Elapse
          \/ \E n \in Nodes :
              \/ AddStatic(n) \/ RemoveStatic(n) \/ PeerDropped(n)
              \/ \E flag \in {"static", "dynamic", "inbound"} : PeerAdded(n, flag)
              \/ \E flag \in {"static", "dynamic"} : DialDone(n, flag)

DialSpec == DialInit /\ [][DialNext]_dialVars

----------------------------------------------------------------------------
TaskNodes == {t.node : t \in {u \in dialTasks.running \cup ToSet(dialTasks.queued) : u.do = "dial"}}
DialCount ==
    Cardinality({t \in dialTasks.running : t.do = "dial"})
    + Len(SelectSeq(dialTasks.queued, LAMBDA t : t.do = "dial"))

(* dialing is exactly the set of nodes with a dial task, running or queued *)
(* (dial.go 173, 202, 284), no node has two, at most one lookup is active  *)
(* (121), and the dynamic peers together with the dynamic dials under way  *)
(* never exceed maxDynDials, although a dialed peer joins the map before   *)
(* its task is done ("The dialer logic relies on the assumption that dial  *)
(* tasks complete after the peer has been added or discarded").            *)
DialsBounded ==
    /\ DOMAIN dialer.dialing = TaskNodes
    /\ DialCount = Cardinality(TaskNodes)
    /\ Cardinality(DynIn(dialPeers) \cup DynIn(dialer.dialing)) <= maxDynDials
    /\ Len(SelectSeq(dialTasks.queued, LAMBDA t : t = Lookup)) <= 1
    /\ Cardinality(dialTasks.running) <= maxActiveDialTasks

(* A static node that is neither connected nor being dialed has something  *)
(* running that will make the loop look again: the server "maintains the   *)
(* connection until the server is shut down" (server.go:286-288) although  *)
(* the loop acts on events only, and the task that waits for the dial      *)
(* history is what keeps it ticking (dial.go 244-251).                     *)
KeepsTicking ==
    dialer.started =>
        \/ dialTasks.running # {}
        \/ dialer.static \subseteq DOMAIN dialer.dialing \cup DOMAIN dialPeers

DialerSound == DialsBounded /\ KeepsTicking
============================================================================
