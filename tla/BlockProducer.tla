---------------------------- MODULE BlockProducer ----------------------------
(***************************************************************************)
(* blockproducer: starting and stopping block production, and the cycle    *)
(* commitNewWork - agent - wait that keeps it going.                       *)
(*                                                                         *)
(* Goroutines: one per Start the API launches (Starters), the API call     *)
(* that executes Stop ("api"), the one-shot loop that follows the          *)
(* downloader's events ("sync"), the loops "update" (head events) and      *)
(* "wait" (sealed blocks) of the producer, the importer of other nodes'    *)
(* blocks ("import"), the agent's loops and one goroutine per work being   *)
(* sealed.  pc[g] is where goroutine g is; every atomic load or store,     *)
(* every acquisition of producer.mu and every channel operation is a step. *)
(*                                                                         *)
(* A work is fresh while its parent is the head of the chain and stale     *)
(* afterwards.  A block is canonical iff its number exceeds the head's, so *)
(* a fresh block becomes the head and a stale one a side block.            *)
(***************************************************************************)
EXTENDS Integers, TLAPS

CONSTANTS
  Starters,      \* goroutines that execute Start
  HeadChanSize,  \* capacity of chainHeadCh
  MaxImports,    \* bound on the heads that come from other nodes
  MaxCalls,      \* bound on the API calls
  Syncing,       \* whether the downloader runs a synchronisation
  Errors         \* whether sealing, writing or preparing a block may fail

ASSUME NamesAssumption ==
  Starters \cap {"none", "api", "sync", "update", "wait", "import"} = {}
ASSUME LimitAssumption == HeadChanSize \in Nat \ {0} /\ MaxImports \in Nat /\ MaxCalls \in Nat

VARIABLES
  canStart, shouldStart, producing,  \* the flags of Blockproducer
  live,          \* producer.producing
  mu,            \* the holder of producer.mu, or "none"
  isProducing, stopTokens, loops,    \* CpuAgent: its flag, its stop channel, its update loops
  workCh,        \* the agent's work channel (capacity 1)
  sealing,       \* how many fresh and stale works are with sealing goroutines or in recv
  work,          \* the work a goroutine in commitNewWork has prepared
  headEvents,    \* how many events are in chainHeadCh
  mustCommit,    \* mustCommitNewWork of the wait loop
  resume,        \* the shouldStart value the sync loop has loaded
  pc, imports, calls,
  failed         \* history: something failed

flags == <<canStart, shouldStart, producing, live>>
agent == <<isProducing, stopTokens, loops, workCh>>
cycle == <<sealing, work, headEvents, mustCommit>>
limits == <<imports, calls, failed>>
producerVars == <<flags, mu, agent, cycle, resume, pc, limits>>

Goroutines == Starters \cup {"api", "sync", "update", "wait", "import"}
Kinds == {"none", "fresh", "stale"}

Goto(g, l) == pc' = [pc EXCEPT ![g] = l]
At(g, l) == pc[g] = l
\* Where a goroutine goes on after the call of Start, Stop or commitNewWork.
Return(g) == Goto(g, CASE g = "sync" /\ canStart -> "exit" [] g = "sync" /\ ~canStart -> "restart"
                       [] OTHER -> "idle")

-----------------------------------------------------------------------------
(***************************************************************************)
(* commitNewWork: the work is built on the current head and pushed, all    *)
(* under producer.mu.                                                      *)
(***************************************************************************)
Commit(g) ==
  /\ At(g, "commit") /\ mu = "none" /\ mu' = g
  /\ work' = [work EXCEPT ![g] = "fresh"]
  /\ Goto(g, "push")
  /\ UNCHANGED <<flags, agent, sealing, headEvents, mustCommit, resume, limits>>

\* Prepare, makeCurrent, Pending, SignTx or Finalize fails.
CommitFails(g) ==
  /\ Errors /\ At(g, "commit") /\ mu = "none"
  /\ Return(g) /\ failed' = TRUE
  /\ UNCHANGED <<flags, mu, agent, cycle, resume, imports, calls>>

\* push: nothing if the producer is stopped, else a send that blocks, with
\* producer.mu held, until the agent has room.
Push(g) ==
  /\ At(g, "push") /\ (live => workCh = "none")
  /\ workCh' = IF live THEN work[g] ELSE workCh
  /\ work' = [work EXCEPT ![g] = "none"]
  /\ mu' = "none" /\ Return(g)
  /\ UNCHANGED <<flags, isProducing, stopTokens, loops, sealing, headEvents, mustCommit,
                 resume, limits>>

(***************************************************************************)
(* Blockproducer.Start.                                                    *)
(***************************************************************************)
StartShould(g) ==
  /\ At(g, "start") /\ shouldStart' = TRUE /\ Goto(g, "coinbase")
  /\ UNCHANGED <<canStart, producing, live, mu, agent, cycle, resume, limits>>

\* setCoinbase, and the load of canStart.
StartCheck(g) ==
  /\ At(g, "coinbase") /\ mu = "none"
  /\ Goto(g, IF canStart THEN "producing" ELSE "idle")
  /\ UNCHANGED <<flags, mu, agent, cycle, resume, limits>>

StartProducing(g) ==
  /\ At(g, "producing") /\ producing' = TRUE /\ Goto(g, "run")
  /\ UNCHANGED <<canStart, shouldStart, live, mu, agent, cycle, resume, limits>>

\* producer.start, under producer.mu: the agent's compare-and-swap starts a loop.
StartRun(g) ==
  /\ At(g, "run") /\ mu = "none" /\ Goto(g, "commit")
  /\ live' = TRUE /\ isProducing' = TRUE
  /\ loops' = IF isProducing THEN loops ELSE loops + 1
  /\ UNCHANGED <<canStart, shouldStart, producing, mu, stopTokens, workCh, cycle, resume, limits>>

(***************************************************************************)
(* Blockproducer.Stop.                                                     *)
(***************************************************************************)
\* producer.stop takes producer.mu; the agent is stopped if it runs.
StopLock(g) ==
  /\ At(g, "stop") /\ mu = "none" /\ mu' = g
  /\ isProducing' = IF live THEN FALSE ELSE isProducing
  /\ Goto(g, IF live /\ isProducing THEN "token" ELSE "stopped")
  /\ UNCHANGED <<flags, stopTokens, loops, workCh, cycle, resume, limits>>

\* (Fault: a second stop token is dropped instead of waited for.)
StopAgentLossy(g) ==
  /\ At(g, "token") /\ Goto(g, "stopped")
  /\ stopTokens' = 1 /\ workCh' = "none"
  /\ UNCHANGED <<flags, mu, isProducing, loops, cycle, resume, limits>>

\* The send on the agent's stop channel (capacity 1), with producer.mu held,
\* and the emptying of its work channel.
StopAgent(g) ==
  /\ At(g, "token") /\ stopTokens = 0 /\ Goto(g, "stopped")
  /\ stopTokens' = 1 /\ workCh' = "none"
  /\ UNCHANGED <<flags, mu, isProducing, loops, cycle, resume, limits>>

StopUnlock(g) ==
  /\ At(g, "stopped") /\ live' = FALSE /\ mu' = "none" /\ Goto(g, "clear")
  /\ UNCHANGED <<canStart, shouldStart, producing, agent, cycle, resume, limits>>

StopProducing(g) ==
  /\ At(g, "clear") /\ producing' = FALSE /\ Goto(g, "clearShould")
  /\ UNCHANGED <<canStart, shouldStart, live, mu, agent, cycle, resume, limits>>

StopShould(g) ==
  /\ At(g, "clearShould") /\ shouldStart' = FALSE /\ Return(g)
  /\ UNCHANGED <<canStart, producing, live, mu, agent, cycle, resume, limits>>

Call(g) == \/ Commit(g) \/ CommitFails(g) \/ Push(g)
           \/ StartShould(g) \/ StartCheck(g) \/ StartProducing(g) \/ StartRun(g)
           \/ StopLock(g) \/ StopAgent(g) \/ StopUnlock(g) \/ StopProducing(g) \/ StopShould(g)

(***************************************************************************)
(* Blockproducer.update: the downloader's events, once.                    *)
(***************************************************************************)
StartEvent ==
  /\ At("sync", "listen") /\ canStart' = FALSE /\ Goto("sync", "check")
  /\ UNCHANGED <<shouldStart, producing, live, mu, agent, cycle, resume, limits>>

SyncCheck ==
  /\ At("sync", "check") /\ Goto("sync", IF producing THEN "stop" ELSE "syncing")
  /\ UNCHANGED <<flags, mu, agent, cycle, resume, limits>>

SyncRestart ==
  /\ At("sync", "restart") /\ shouldStart' = TRUE /\ Goto("sync", "syncing")
  /\ UNCHANGED <<canStart, producing, live, mu, agent, cycle, resume, limits>>

\* DoneEvent or FailedEvent.
DoneEvent ==
  /\ At("sync", "syncing") /\ resume' = shouldStart /\ Goto("sync", "done")
  /\ UNCHANGED <<flags, mu, agent, cycle, limits>>

SyncDone ==
  /\ At("sync", "done") /\ canStart' = TRUE /\ Goto("sync", "doneShould")
  /\ UNCHANGED <<shouldStart, producing, live, mu, agent, cycle, resume, limits>>

SyncResume ==
  /\ At("sync", "doneShould") /\ shouldStart' = FALSE
  /\ Goto("sync", IF resume THEN "start" ELSE "exit")
  /\ UNCHANGED <<canStart, producing, live, mu, agent, cycle, resume, limits>>

Sync == SyncCheck \/ SyncRestart \/ SyncDone \/ SyncResume

(***************************************************************************)
(* CpuAgent: a loop takes a work and seals it in a goroutine of its own,   *)
(* or takes a stop token and ends.                                         *)
(***************************************************************************)
AgentWork ==
  /\ loops > 0 /\ workCh # "none"
  /\ sealing' = [sealing EXCEPT ![workCh] = @ + 1] /\ workCh' = "none"
  /\ UNCHANGED <<flags, mu, isProducing, stopTokens, loops, work, headEvents, mustCommit,
                 resume, pc, limits>>

AgentStop ==
  /\ loops > 0 /\ stopTokens > 0
  /\ loops' = loops - 1 /\ stopTokens' = stopTokens - 1
  /\ UNCHANGED <<flags, mu, isProducing, workCh, cycle, resume, pc, limits>>

(***************************************************************************)
(* producer.update and producer.wait, and blocks of other nodes.           *)
(***************************************************************************)
\* A new head: every work built before it is stale.
Staled(k) == IF k = "fresh" THEN "stale" ELSE k
NewHead(s) ==
  /\ sealing' = [fresh |-> 0, stale |-> s.fresh + s.stale]
  /\ workCh' = Staled(workCh)
  /\ work' = [g \in Goroutines |-> Staled(work[g])]

ImportHead ==
  /\ At("import", "idle") /\ imports < MaxImports /\ imports' = imports + 1
  /\ NewHead(sealing) /\ Goto("import", "post")
  /\ UNCHANGED <<flags, mu, isProducing, stopTokens, loops, headEvents, mustCommit, resume,
                 calls, failed>>

\* PostChainEvents: the send of the head event blocks while chainHeadCh is full.
Post(g) ==
  /\ At(g, "post") /\ headEvents < HeadChanSize /\ headEvents' = headEvents + 1
  /\ Goto(g, IF g = "wait" /\ mustCommit THEN "commit" ELSE "idle")
  /\ UNCHANGED <<flags, mu, agent, sealing, work, mustCommit, resume, limits>>

HeadEvent ==
  /\ At("update", "idle") /\ headEvents > 0 /\ headEvents' = headEvents - 1
  /\ Goto("update", "commit")
  /\ UNCHANGED <<flags, mu, agent, sealing, work, mustCommit, resume, limits>>

\* (Fault: no further work after a canonical block, and no head event either.)
WaitCanonSilent ==
  /\ At("wait", "idle") /\ sealing.fresh > 0
  /\ NewHead([sealing EXCEPT !.fresh = @ - 1])
  /\ mustCommit' = FALSE /\ Goto("wait", "idle")
  /\ UNCHANGED <<flags, mu, isProducing, stopTokens, loops, headEvents, resume, limits>>

\* wait writes a sealed block: it becomes the head, or a side block.
WaitCanon ==
  /\ At("wait", "idle") /\ sealing.fresh > 0
  /\ NewHead([sealing EXCEPT !.fresh = @ - 1])
  /\ mustCommit' = FALSE /\ Goto("wait", "post")
  /\ UNCHANGED <<flags, mu, isProducing, stopTokens, loops, headEvents, resume, limits>>

WaitSide ==
  /\ At("wait", "idle") /\ sealing.stale > 0
  /\ sealing' = [sealing EXCEPT !.stale = @ - 1]
  /\ Goto("wait", IF mustCommit THEN "commit" ELSE "idle")
  /\ UNCHANGED <<flags, mu, agent, work, headEvents, mustCommit, resume, limits>>

\* A nil result, or an error of WriteBlockAndState.
WaitFails ==
  /\ Errors /\ At("wait", "idle")
  /\ \E k \in {"fresh", "stale"} :
       sealing[k] > 0 /\ sealing' = [sealing EXCEPT ![k] = @ - 1]
  /\ failed' = TRUE
  /\ UNCHANGED <<flags, mu, agent, work, headEvents, mustCommit, resume, pc, imports, calls>>

(***************************************************************************)
(* The API: Start launches a goroutine unless Producing(), Stop is a call. *)
(***************************************************************************)
ApiStart(g) ==
  /\ At("api", "idle") /\ At(g, "idle") /\ ~producing
  /\ calls < MaxCalls /\ calls' = calls + 1
  /\ Goto(g, "start")
  /\ UNCHANGED <<flags, mu, agent, cycle, resume, imports, failed>>

ApiStop ==
  /\ At("api", "idle") /\ calls < MaxCalls /\ calls' = calls + 1
  /\ Goto("api", "stop")
  /\ UNCHANGED <<flags, mu, agent, cycle, resume, imports, failed>>

-----------------------------------------------------------------------------
ProducerInit ==
  /\ canStart = TRUE /\ shouldStart = FALSE /\ producing = FALSE /\ live = FALSE
  /\ mu = "none" /\ isProducing = FALSE /\ stopTokens = 0 /\ loops = 0 /\ workCh = "none"
  /\ sealing = [fresh |-> 0, stale |-> 0] /\ work = [g \in Goroutines |-> "none"]
  /\ headEvents = 0 /\ mustCommit = TRUE /\ resume = FALSE
  /\ pc = [g \in Goroutines |-> CASE g # "sync" -> "idle" [] Syncing -> "listen" [] OTHER -> "exit"]
  /\ imports = 0 /\ calls = 0 /\ failed = FALSE

Wait == WaitCanon \/ WaitSide \/ WaitFails
Internal == \/ \E g \in Goroutines : Call(g) \/ Post(g)
            \/ Sync \/ AgentWork \/ AgentStop \/ HeadEvent \/ Wait
External == \/ StartEvent \/ DoneEvent \/ ImportHead \/ ApiStop
            \/ \E g \in Starters : ApiStart(g)
ProducerNext == Internal \/ External

ProducerSpec == ProducerInit /\ [][ProducerNext]_producerVars

\* The Go scheduler does not idle while a goroutine can run.  Nothing forces
\* an API call, an imported block or an event of the downloader.
FairProducerSpec == ProducerSpec /\ WF_producerVars(Internal)

-----------------------------------------------------------------------------
(***************************************************************************)
(* Properties.                                                             *)
(***************************************************************************)
Labels == {"idle", "commit", "push", "start", "coinbase", "producing", "run", "stop", "token",
           "stopped", "clear", "clearShould", "listen", "check", "restart", "syncing", "done",
           "doneShould", "exit", "post"}

\* No Start, Stop, commit or post is under way and no head event is queued.
AtRest == /\ \A g \in Goroutines : pc[g] \in {"idle", "listen", "syncing", "exit"}
          /\ headEvents = 0

\* Whenever producer.mu is free, the loops of the agent that no stop token
\* will end are one if the producer runs and none if it does not: quick Stop
\* and Start calls neither lose the agent's loop nor leave two (CpuAgent.Stop,
\* CpuAgent.Start, producer.stop).
OneLoop ==
  mu = "none" => loops - stopTokens = (IF live THEN 1 ELSE 0) /\ isProducing = live

\* producer.mu, held across sends on the agent's channels, is always released
\* (push, CpuAgent.Stop).
MuReleased == (mu # "none") ~> (mu = "none")

\* If the producer is started for good and nothing fails, it writes new heads
\* for ever (producer.wait, producer.update).
KeepsProducing == <>[]live /\ []~failed => []<><<WaitCanon>>_producerVars

\* The cycle of production: it releases its lock, and it goes on for ever,
\* whatever Start, Stop, heads and stale blocks came before.
CycleLives == MuReleased /\ KeepsProducing

\* "can start indicates whether we can start the producing operation": while
\* the downloader synchronises, a producer at rest is not started.  It does
\* not hold: Start loads canStart and stores producing in separate steps, and
\* a StartEvent between them clears the one and does not see the other.
NotWhileSyncing == AtRest /\ ~canStart => ~live

-----------------------------------------------------------------------------
(***************************************************************************)
(* OneLoop for any number of Start goroutines, API calls and imports.      *)
(*                                                                         *)
(* OneLoop speaks of the states where producer.mu is free.  The inductive  *)
(* invariant says what holds while it is held: only the holder is between  *)
(* acquiring and releasing it, and a holder that has taken the agent's     *)
(* flag but not yet sent the stop token still owes one token.              *)
(***************************************************************************)

Holding == {"push", "token", "stopped"}

\* producer.mu is held exactly by the goroutine inside one of its sections.
MutexOK == \A g \in Goroutines : pc[g] \in Holding <=> mu = g

\* The agent's loops, minus those a token in the channel or owed by the
\* holder of producer.mu will end, are one iff the agent's flag is set.
Owed == IF mu # "none" /\ pc[mu] = "token" THEN 1 ELSE 0
LoopsOK == loops = stopTokens + Owed + (IF isProducing THEN 1 ELSE 0)

\* The agent's flag follows producer.producing outside of stop.
FlagOK == /\ mu = "none" \/ pc[mu] = "push" => isProducing = live
          /\ mu # "none" /\ pc[mu] \in {"token", "stopped"} => ~isProducing

Types == /\ live \in BOOLEAN /\ isProducing \in BOOLEAN
         /\ loops \in Int /\ stopTokens \in Int
         /\ mu \in Goroutines \cup {"none"} /\ pc \in [Goroutines -> Labels]

IndInv == Types /\ MutexOK /\ LoopsOK /\ FlagOK

\* No goroutine is called "none", the value of mu when producer.mu is free.
LEMMA NamesDistinct == "none" \notin Goroutines
BY NamesAssumption DEF Goroutines

\* The invariant holds of a new Blockproducer: nothing runs, nothing is held.
LEMMA InvInit == ProducerInit => IndInv
<1> SUFFICES ASSUME ProducerInit PROVE IndInv
    OBVIOUS
<1>1. \A g \in Goroutines : pc[g] \in {"idle", "listen", "exit"}
  BY DEF ProducerInit
<1>2. pc \in [Goroutines -> Labels]
  BY DEF ProducerInit, Labels
<1>3. mu = "none" /\ ~isProducing /\ ~live /\ loops = 0 /\ stopTokens = 0
  BY DEF ProducerInit
<1>4. live \in BOOLEAN /\ isProducing \in BOOLEAN /\ isProducing = live
  BY Zenon DEF ProducerInit
<1>5. Types
  BY <1>2, <1>3, <1>4 DEF Types
<1>6. LoopsOK
  BY <1>3 DEF LoopsOK, Owed
<1>7. FlagOK
  BY <1>3, <1>4 DEF FlagOK
<1>8. MutexOK
  BY <1>1, NamesDistinct DEF ProducerInit, MutexOK, Holding
<1> QED BY <1>8, <1>5, <1>6, <1>7 DEF IndInv

\* Every step of Start, Stop and commitNewWork preserves the invariant.
LEMMA InvCall ==
  ASSUME IndInv, NEW g \in Goroutines, Call(g)
  PROVE  IndInv'
<1> USE NamesDistinct DEF IndInv, Types, MutexOK, LoopsOK, FlagOK, Owed, Holding, Labels, At, Goto
<1>1. CASE Commit(g) BY <1>1 DEF Commit, flags, agent
<1>2. CASE CommitFails(g) BY <1>2 DEF CommitFails, Return, flags, agent
<1>3. CASE Push(g) BY <1>3 DEF Push, Return, flags
<1>4. CASE StartShould(g) BY <1>4 DEF StartShould, agent
<1>5. CASE StartCheck(g) BY <1>5 DEF StartCheck, flags, agent
<1>6. CASE StartProducing(g) BY <1>6 DEF StartProducing, agent
<1>7. CASE StartRun(g) BY <1>7 DEF StartRun
<1>8. CASE StopLock(g)
  <2>1. isProducing = live BY <1>8 DEF StopLock
  <2>2. CASE live
    <3>1. isProducing' = FALSE /\ pc' = [pc EXCEPT ![g] = "token"] /\ mu' = g
      BY <1>8, <2>1, <2>2 DEF StopLock
    <3> QED BY <1>8, <2>1, <2>2, <3>1 DEF StopLock, flags
  <2>3. CASE ~live
    <3>1. isProducing' = FALSE /\ pc' = [pc EXCEPT ![g] = "stopped"] /\ mu' = g
      BY <1>8, <2>1, <2>3 DEF StopLock
    <3> QED BY <1>8, <2>1, <2>3, <3>1 DEF StopLock, flags
  <2> QED BY <2>2, <2>3
<1>9. CASE StopAgent(g) BY <1>9 DEF StopAgent, flags
<1>10. CASE StopUnlock(g) BY <1>10 DEF StopUnlock, agent
<1>11. CASE StopProducing(g) BY <1>11 DEF StopProducing, agent
<1>12. CASE StopShould(g) BY <1>12 DEF StopShould, Return, agent
<1> QED BY <1>1, <1>2, <1>3, <1>4, <1>5, <1>6, <1>7, <1>8, <1>9, <1>10, <1>11, <1>12 DEF Call

\* So does every step of the agent's loop, of the wait, update and sync loops.
LEMMA InvLoops ==
  ASSUME IndInv, Sync \/ AgentWork \/ AgentStop \/ HeadEvent \/ Wait
                 \/ \E g \in Goroutines : Post(g)
  PROVE  IndInv'
<1> USE NamesDistinct DEF IndInv, Types, MutexOK, LoopsOK, FlagOK, Owed, Holding, Labels, At, Goto
<1>0. {"sync", "update", "wait"} \subseteq Goroutines BY DEF Goroutines
<1>1. CASE SyncCheck BY <1>0, <1>1 DEF SyncCheck, flags, agent
<1>2. CASE SyncRestart BY <1>0, <1>2 DEF SyncRestart, agent
<1>3. CASE SyncDone BY <1>0, <1>3 DEF SyncDone, agent
<1>4. CASE SyncResume BY <1>0, <1>4 DEF SyncResume, agent
<1>5. CASE AgentWork BY <1>5 DEF AgentWork, flags
<1>6. CASE AgentStop BY <1>6 DEF AgentStop, flags
<1>7. CASE HeadEvent BY <1>0, <1>7 DEF HeadEvent, flags, agent
<1>8. CASE WaitCanon BY <1>0, <1>8 DEF WaitCanon, NewHead, flags
<1>9. CASE WaitSide BY <1>0, <1>9 DEF WaitSide, flags, agent
<1>10. CASE WaitFails BY <1>10 DEF WaitFails, flags, agent
<1>11. ASSUME NEW g \in Goroutines, Post(g) PROVE IndInv'
  BY <1>11 DEF Post, flags, agent
<1> QED BY <1>1, <1>2, <1>3, <1>4, <1>5, <1>6, <1>7, <1>8, <1>9, <1>10, <1>11 DEF Sync, Wait

\* So does every API call, imported block and event of the downloader.
LEMMA InvExternal ==
  ASSUME IndInv, External
  PROVE  IndInv'
<1> USE NamesDistinct DEF IndInv, Types, MutexOK, LoopsOK, FlagOK, Owed, Holding, Labels, At, Goto
<1>0. {"sync", "import", "api"} \cup Starters \subseteq Goroutines BY DEF Goroutines
<1>1. CASE StartEvent BY <1>0, <1>1 DEF StartEvent, agent
<1>2. CASE DoneEvent BY <1>0, <1>2 DEF DoneEvent, flags, agent
<1>3. CASE ImportHead BY <1>0, <1>3 DEF ImportHead, flags
<1>4. CASE ApiStop BY <1>0, <1>4 DEF ApiStop, flags, agent
<1>5. ASSUME NEW g \in Starters, ApiStart(g) PROVE IndInv'
  BY <1>0, <1>5 DEF ApiStart, flags, agent
<1> QED BY <1>1, <1>2, <1>3, <1>4, <1>5 DEF External

\* With producer.mu free no token is owed, so the invariant is OneLoop.
LEMMA InvOneLoop == IndInv => OneLoop
BY DEF IndInv, Types, LoopsOK, FlagOK, Owed, OneLoop

\* Quick Stop and Start calls, from any number of goroutines, neither lose the
\* agent's loop nor leave two of them (CpuAgent.Start, CpuAgent.Stop,
\* producer.stop).
THEOREM ProducerOneLoop == ProducerSpec => []OneLoop
<1>1. IndInv /\ [ProducerNext]_producerVars => IndInv'
  <2> SUFFICES ASSUME IndInv, [ProducerNext]_producerVars PROVE IndInv'
      OBVIOUS
  <2>1. CASE UNCHANGED producerVars
    BY <2>1 DEF producerVars, flags, agent, IndInv, Types, MutexOK, LoopsOK, FlagOK, Owed
  <2>2. CASE ProducerNext
    BY <2>2, InvCall, InvLoops, InvExternal DEF ProducerNext, Internal
  <2> QED BY <2>1, <2>2
<1> QED BY <1>1, InvInit, InvOneLoop, PTL DEF ProducerSpec
=============================================================================
