----------------------------- MODULE RpcServer -----------------------------
(***************************************************************************)
(* The RPC server (communication/rpc/server.go, subscription.go, json.go): *)
(* requests are read one message after the other and each message is       *)
(* executed by a goroutine of its own; a subscription is active only once  *)
(* its id has been sent; Stop closes every connection.                     *)
(*                                                                         *)
(* A message is a sequence of requests and whether it is a batch.  A       *)
(* request is [id, kind, method, params]: whether its id is valid, what    *)
(* its method name looks like ("call", "subscribe", "unsubscribe" or       *)
(* "odd"), the method or the subscription it names, and its parameters:    *)
(* "none", "fit" when they have the types the method takes, "unfit", or    *)
(* "nameless" when no subscription is named.  The id of a subscription is  *)
(* the number of the message and of the request in it that made it; an     *)
(* unsubscribe with fit parameters gives the first id the client was sent. *)
(***************************************************************************)
EXTENDS Integers, Sequences, FiniteSets, Functions

CONSTANTS
    Codecs,           \* connections
    Script,           \* per connection the messages its client sends
    Callbacks,        \* [method, takes, sub, fails]: what is registered
    MaxNotifies       \* bound: notifications per connection

\* A client sends a sequence of messages, each a sequence of requests.
ASSUME ScriptAssumption ==
    \A c \in Codecs :
        /\ Script[c] \in Seq(Range(Script[c]))
        /\ \A k \in DOMAIN Script[c] : Script[c][k].requests \in Seq(Range(Script[c][k].requests))

VARIABLES
    rpcServer,        \* run, codecs, and whether Stop has returned
    serving,          \* per connection serveRequest and the codec
    execs,            \* per connection and message the goroutine that executes it
    notifier          \* per connection: active and inactive

rpcServerVars == <<rpcServer, serving, execs, notifier>>

Fresh == [at |-> "new", resps |-> <<>>, subs |-> <<>>, ends |-> {}]

RpcServerInit ==
    /\ rpcServer = [run |-> TRUE, codecs |-> {}, stopped |-> FALSE]
    /\ serving = [c \in Codecs |-> [at |-> "new", next |-> 1, closed |-> FALSE, lost |-> FALSE, out |-> <<>>]]
    /\ execs = [c \in Codecs |-> [k \in DOMAIN Script[c] |-> Fresh]]
    /\ notifier = [c \in Codecs |-> [active |-> {}, inactive |-> {}, ended |-> {}, notified |-> 0]]

-----------------------------------------------------------------------------
(* Reading: what becomes of a message. *)

Payload(r) == r.params # "none"
Error == [do |-> "error"]

parsePositionalArguments(r) == r.params = "fit"

\* A request whose method ends in _subscribe names the subscription first.
NoSubscription(r) == r.kind = "subscribe" /\ r.params \in {"none", "nameless"}

\* What makes parseRequest and parseBatchRequest refuse the whole message
parseRequest(r) == r.id /\ r.kind # "odd" /\ ~NoSubscription(r)
parseBatchRequest(r) == r.id /\ ~NoSubscription(r)

Unreadable(m) ==
    \E i \in DOMAIN m.requests :
        IF m.batch THEN ~parseBatchRequest(m.requests[i]) ELSE ~parseRequest(m.requests[i])

Found(r) == {cb \in Callbacks : cb.method = r.method /\ (cb.sub <=> r.kind = "subscribe")}

\* readRequest: the request that is executed
Verified(r) ==
    IF r.kind = "unsubscribe"
    THEN IF parsePositionalArguments(r) THEN [do |-> "unsubscribe"] ELSE Error
    ELSE IF r.kind = "odd" \/ Found(r) = {} THEN Error
    ELSE LET cb == CHOOSE x \in Found(r) : TRUE
             parsed == Payload(r) /\ cb.takes
         IN  IF parsed /\ ~parsePositionalArguments(r) THEN Error
             ELSE IF cb.fails \/ (~cb.sub /\ ~parsed /\ cb.takes) THEN Error
             ELSE [do |-> IF cb.sub THEN "subscribe" ELSE "call"]

\* codec.Write: [msg, resps] or a notification
CanWrite(c) == ~serving[c].closed /\ ~serving[c].lost

-----------------------------------------------------------------------------
(* serveRequest *)

\* A fault: a connection that comes during Stop is served.
AdmittedAlways(run) == TRUE

Admitted(run) == run

Serve(c) ==
    /\ serving[c].at = "new"
    /\ IF Admitted(rpcServer.run)
       THEN /\ rpcServer' = [rpcServer EXCEPT !.codecs = @ \union {c}]
            /\ serving' = [serving EXCEPT ![c].at = "loop"]
       ELSE /\ UNCHANGED rpcServer
            /\ serving' = [serving EXCEPT ![c].at = "return"]
    /\ UNCHANGED <<execs, notifier>>

\* The loop reads a message, or finds that the server is stopped.
LoopEnds(c) ==
    /\ serving[c].at = "loop" /\ ~rpcServer.run
    /\ serving' = [serving EXCEPT ![c].at = "return"]
    /\ UNCHANGED <<rpcServer, execs, notifier>>

\* An unsubscribe can only be sent once the client has an id.
Sendable(c) ==
    /\ serving[c].next <= Len(Script[c]) /\ CanWrite(c)
    /\ (\E i \in DOMAIN Script[c][serving[c].next].requests :
            Verified(Script[c][serving[c].next].requests[i]).do = "unsubscribe")
          => \E j \in DOMAIN serving[c].out : serving[c].out[j].subs # <<>>

Refusal(k) == [msg |-> k, resps |-> <<"error">>, subs |-> <<>>, ends |-> {}, note |-> FALSE]

ReadRequest(c) ==
    /\ serving[c].at = "loop" /\ Sendable(c)
    /\ LET k == serving[c].next
       IN  IF Unreadable(Script[c][k])
           THEN /\ serving' = [serving EXCEPT ![c].next = @ + 1, ![c].at = "wait", ![c].out = Append(@, Refusal(k))]
                /\ UNCHANGED execs
           ELSE \/ /\ rpcServer.run
                   /\ serving' = [serving EXCEPT ![c].next = @ + 1]
                   /\ execs' = [execs EXCEPT ![c][k].at = "exec"]
                \/ /\ ~rpcServer.run
                   /\ serving' = [serving EXCEPT ![c].next = @ + 1, ![c].at = "return",
                          ![c].out = Append(@, [msg |-> k, subs |-> <<>>, ends |-> {}, note |-> FALSE,
                                                resps |-> [i \in DOMAIN Script[c][k].requests |-> "error"]])]
                   /\ UNCHANGED execs
    /\ UNCHANGED <<rpcServer, notifier>>

\* The client is gone, or the codec is closed.
ReadEnds(c) ==
    /\ serving[c].at = "loop"
    /\ serving' = [serving EXCEPT ![c].at = "wait", ![c].lost = TRUE]
    /\ UNCHANGED <<rpcServer, execs, notifier>>

\* pend.Wait
PendWait(c) ==
    /\ serving[c].at = "wait"
    /\ \A k \in DOMAIN execs[c] : execs[c][k].at \in {"new", "done"}
    /\ serving' = [serving EXCEPT ![c].at = "return"]
    /\ UNCHANGED <<rpcServer, execs, notifier>>

\* The deferred removal, then the codec is closed.
ServeReturns(c) ==
    /\ serving[c].at = "return"
    /\ rpcServer' = [rpcServer EXCEPT !.codecs = @ \ {c}]
    /\ serving' = [serving EXCEPT ![c].at = "over", ![c].closed = TRUE]
    /\ UNCHANGED <<execs, notifier>>

\* run is set to 0 before the lock is taken.
StopBegins ==
    /\ rpcServer.run
    /\ rpcServer' = [rpcServer EXCEPT !.run = FALSE]
    /\ UNCHANGED <<serving, execs, notifier>>

StopCloses ==
    /\ ~rpcServer.run /\ ~rpcServer.stopped
    /\ rpcServer' = [rpcServer EXCEPT !.stopped = TRUE]
    /\ serving' = [c \in Codecs |-> [serving[c] EXCEPT !.closed = @ \/ c \in rpcServer.codecs]]
    /\ UNCHANGED <<execs, notifier>>

-----------------------------------------------------------------------------
(* exec and execBatch *)

\* handle of the next request; createSubscription makes it inactive.
Handle(c, k) ==
    /\ execs[c][k].at = "exec" /\ Len(execs[c][k].resps) < Len(Script[c][k].requests)
    /\ LET e == execs[c][k]
           i == Len(e.resps) + 1
           do == Verified(Script[c][k].requests[i]).do
           first == serving[c].out[CHOOSE j \in DOMAIN serving[c].out : serving[c].out[j].subs # <<>>].subs[1]
           found == do = "unsubscribe" /\ first \in notifier[c].active
       IN  /\ execs' = [execs EXCEPT ![c][k] = [e EXCEPT
                  !.resps = Append(@, IF do = "unsubscribe" /\ ~found THEN "error" ELSE do),
                  !.subs = IF do = "subscribe" THEN Append(@, <<k, i>>) ELSE @,
                  !.ends = IF found THEN @ \union {first} ELSE @]]
           /\ notifier' = [notifier EXCEPT
                  ![c].inactive = IF do = "subscribe" THEN @ \union {<<k, i>>} ELSE @,
                  ![c].active = IF found THEN @ \ {first} ELSE @,
                  ![c].ended = IF found THEN @ \union {first} ELSE @]
    /\ UNCHANGED <<rpcServer, serving>>

Respond(c, k) ==
    /\ execs[c][k].at = "exec" /\ Len(execs[c][k].resps) = Len(Script[c][k].requests)
    /\ execs' = [execs EXCEPT ![c][k].at = "activate"]
    /\ serving' = IF CanWrite(c)
                  THEN [serving EXCEPT ![c].out = Append(@, [msg |-> k, resps |-> execs[c][k].resps,
                                                             subs |-> execs[c][k].subs,
                                                             ends |-> execs[c][k].ends, note |-> FALSE])]
                  ELSE [serving EXCEPT ![c].closed = TRUE]
    /\ UNCHANGED <<rpcServer, notifier>>

activate(c, k) ==
    /\ execs[c][k].at = "activate"
    /\ execs' = [execs EXCEPT ![c][k].at = "done"]
    /\ notifier' = [notifier EXCEPT ![c].inactive = @ \ Range(execs[c][k].subs),
                                    ![c].active = @ \union Range(execs[c][k].subs)]
    /\ UNCHANGED <<rpcServer, serving>>

\* Notify of a service, for any subscription it was given
Notify(c) ==
    /\ notifier[c].notified < MaxNotifies
    /\ \E s \in notifier[c].active \union notifier[c].inactive \union notifier[c].ended :
          /\ notifier' = [notifier EXCEPT ![c].notified = @ + 1]
          /\ serving' = IF s \notin notifier[c].active THEN serving
                        ELSE IF CanWrite(c)
                        THEN [serving EXCEPT ![c].out = Append(@, [msg |-> 0, resps |-> <<>>, subs |-> <<s>>,
                                                                   ends |-> {}, note |-> TRUE])]
                        ELSE [serving EXCEPT ![c].closed = TRUE]
    /\ UNCHANGED <<rpcServer, execs>>

RpcServerNext ==
    \/ StopBegins \/ StopCloses
    \/ \E c \in Codecs : \/ Serve(c) \/ LoopEnds(c) \/ ReadRequest(c) \/ ReadEnds(c) \/ PendWait(c)
                         \/ ServeReturns(c) \/ Notify(c)
                         \/ \E k \in DOMAIN Script[c] : Handle(c, k) \/ Respond(c, k) \/ activate(c, k)

RpcServerSpec == RpcServerInit /\ [][RpcServerNext]_rpcServerVars

-----------------------------------------------------------------------------
\* The values the variables range over.
RpcServerTypeOK ==
    /\ rpcServer.codecs \subseteq Codecs
    /\ \A c \in Codecs : serving[c].at \in {"new", "loop", "wait", "return", "over"}

\* However messages, notifications and Stop interleave: no message is answered
\* twice and an answer has as many responses as its message has requests
\* (one, when the message could not be read); a subscription is notified only
\* after its id was sent and not after the client was told that it is
\* unsubscribed; and once Stop has returned no connection is served that is
\* still open.
ServerSound ==
    /\ RpcServerTypeOK
    /\ \A c \in Codecs :
          LET out == serving[c].out
          IN  /\ \A i, j \in DOMAIN out : (i # j /\ ~out[i].note /\ ~out[j].note) => out[i].msg # out[j].msg
              /\ \A i \in DOMAIN out : ~out[i].note =>
                     Len(out[i].resps) = IF Unreadable(Script[c][out[i].msg]) THEN 1
                                         ELSE Len(Script[c][out[i].msg].requests)
              /\ \A i \in DOMAIN out : out[i].note =>
                     /\ \E j \in 1 .. i - 1 : ~out[j].note /\ out[i].subs[1] \in Range(out[j].subs)
                     /\ ~ \E j \in 1 .. i - 1 : out[i].subs[1] \in out[j].ends
    /\ rpcServer.stopped => \A c \in Codecs : serving[c].at \in {"loop", "wait"} => serving[c].closed

\* Requests that were being executed when Stop was called are answered ("wait
\* for stopPendingRequestTimeout to allow pending requests to finish",
\* server.go).  It does not hold: Stop closes the codecs without waiting.
PendingFinish ==
    \A c \in Codecs : \A k \in DOMAIN Script[c] :
        (rpcServer.stopped /\ execs[c][k].at = "exec") => CanWrite(c) \/ serving[c].lost
=============================================================================
